---------------------------- MODULE BoundedFifo ----------------------------
(***************************************************************************)
(* What a queue of packet buffers (FBQ, fbuf.c) promises its users: a      *)
(* first-in first-out queue of at most Size buffers.  A put waits while    *)
(* the queue is full, a get waits while it is empty, and whoever owns the  *)
(* queue may empty it while nobody is inside a call.                       *)
(*                                                                         *)
(* The interface of the queue is the state of each thread's call (status), *)
(* the buffer a put was called with (arg) and the buffer the last get      *)
(* returned (got).                                                         *)
(***************************************************************************)
EXTENDS Naturals, Sequences

CONSTANTS Producers, Consumers, Items, NoItem, Size

VARIABLES fifo, status, arg, got

fifoVars == <<fifo, status, arg, got>>

Threads == Producers \cup Consumers

BeginPut(p, x) ==
  /\ status[p] = "ready"
  /\ status' = [status EXCEPT ![p] = "putting"]
  /\ arg' = [arg EXCEPT ![p] = x]
  /\ UNCHANGED <<fifo, got>>

EndPut(p) ==
  /\ status[p] = "putting"
  /\ Len(fifo) < Size
  /\ fifo' = Append(fifo, arg[p])
  /\ status' = [status EXCEPT ![p] = "ready"]
  /\ UNCHANGED <<arg, got>>

PutNow(p, x) ==
  /\ status[p] = "ready"
  /\ Len(fifo) < Size
  /\ fifo' = Append(fifo, x)
  /\ arg' = [arg EXCEPT ![p] = x]
  /\ UNCHANGED <<status, got>>

BeginGet(c) ==
  /\ status[c] = "ready"
  /\ status' = [status EXCEPT ![c] = "getting"]
  /\ UNCHANGED <<fifo, arg, got>>

EndGet(c) ==
  /\ status[c] \in {"ready", "getting"}
  /\ fifo # << >>
  /\ got' = [got EXCEPT ![c] = Head(fifo)]
  /\ fifo' = Tail(fifo)
  /\ status' = [status EXCEPT ![c] = "ready"]
  /\ UNCHANGED arg

Empty ==
  /\ \A t \in Threads : status[t] = "ready"
  /\ fifo' = << >>
  /\ UNCHANGED <<status, arg, got>>

FifoInit ==
  /\ fifo = << >>
  /\ status = [t \in Threads |-> "ready"]
  /\ arg = [p \in Producers |-> NoItem]
  /\ got = [c \in Consumers |-> NoItem]

FifoNext ==
  \/ \E p \in Producers :
       EndPut(p) \/ \E x \in Items : BeginPut(p, x) \/ PutNow(p, x)
  \/ \E c \in Consumers : BeginGet(c) \/ EndGet(c)
  \/ Empty

FifoSpec == FifoInit /\ [][FifoNext]_fifoVars

=============================================================================
