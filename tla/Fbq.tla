-------------------------------- MODULE Fbq --------------------------------
(***************************************************************************)
(* FBQ, the queue of packet buffers of fbuf.c: a ring of Size buffers and  *)
(* two counting semaphores, "length" (buffers to get) and "capacity" (free *)
(* places).  Each thread is a producer or a consumer of this queue.        *)
(*                                                                         *)
(* A call runs under chSysLock, but chSemWaitS gives the lock up while it  *)
(* waits: a call that has to wait takes two steps, and between the signal  *)
(* that grants it the semaphore and the moment its thread runs again other *)
(* threads run their calls.  pc[t] is where thread t stands:               *)
(*   "ready"     not in a call                                             *)
(*   "waiting"   in the semaphore's queue                                  *)
(*   "granted"   woken with MSG_OK, not yet running                        *)
(*   "reset"     woken with MSG_RESET, not yet running                     *)
(***************************************************************************)
EXTENDS Integers, Sequences, FiniteSets

CONSTANTS
  Producers,  \* threads that call fbq_put
  Consumers,  \* threads that call fbq_get
  Items,      \* packet buffers
  Blank,      \* the zeroed FBUF that a ring holds before it is used
  Size,       \* number of places in the ring
  ClearAnyTime  \* TRUE: fbq_clear is called whatever the other threads do

ASSUME FbqAssumption ==
  /\ IsFiniteSet(Producers) /\ IsFiniteSet(Consumers)
  /\ Producers \cap Consumers = {}
  /\ Size \in 1..255
  /\ Blank \notin Items
  /\ ClearAnyTime \in BOOLEAN

VARIABLES
  index,     \* the place the last get read
  cnt,       \* buffers in the ring, an uint8
  buf,       \* the ring; a place keeps its value after it is read
  length,    \* semaphore: its counter, and its queue of waiting threads
  capacity,  \* semaphore
  pc,        \* where each thread stands
  arg,       \* the buffer each producer put last
  got,       \* the buffer each consumer got last
  released   \* the buffers the last fbq_clear released

vars == <<index, cnt, buf, length, capacity, pc, arg, got, released>>

Threads == Producers \cup Consumers
Handles == Items \cup {Blank}

(***************************************************************************)
(* ChibiOS counting semaphores: the counter is negative while threads      *)
(* wait, and they are served first come first served.                      *)
(***************************************************************************)
SemObject(n) == [cnt |-> n, queue |-> << >>]

SemTake(s) == [s EXCEPT !.cnt = @ - 1]

SemEnqueue(s, t) == [cnt |-> s.cnt - 1, queue |-> Append(s.queue, t)]

SemSignal(s) ==
  [cnt |-> s.cnt + 1, queue |-> IF s.cnt < 0 THEN Tail(s.queue) ELSE s.queue]

\* What the signal does to the threads: the first one waiting is granted it.
Granted(s, p) == IF s.cnt < 0 THEN [p EXCEPT ![Head(s.queue)] = "granted"] ELSE p

Inc8(n) == IF n = 255 THEN 0 ELSE n + 1
Dec8(n) == IF n = 0 THEN 255 ELSE n - 1

----------------------------------------------------------------------------
\* Mutant: the index starts past the end of the ring.
InitAtEnd ==
  /\ index = Size /\ cnt = 0
  /\ buf = [i \in 0..Size-1 |-> Blank]
  /\ length = SemObject(0)
  /\ capacity = SemObject(Size)
  /\ pc = [t \in Threads |-> "ready"]
  /\ arg = [p \in Producers |-> Blank]
  /\ got = [c \in Consumers |-> Blank]
  /\ released = {}

(* _fbq_init *)
Init ==
  /\ index = 0 /\ cnt = 0
  /\ buf = [i \in 0..Size-1 |-> Blank]
  /\ length = SemObject(0)
  /\ capacity = SemObject(Size)
  /\ pc = [t \in Threads |-> "ready"]
  /\ arg = [p \in Producers |-> Blank]
  /\ got = [c \in Consumers |-> Blank]
  /\ released = {}

\* Mutant: cnt is incremented after the buffer is stored.
StoreBeforeCount(p, x, cap, at) ==
  /\ cnt' = Inc8(cnt)
  /\ buf' = [buf EXCEPT ![(index + cnt) % Size] = x]
  /\ length' = SemSignal(length)
  /\ capacity' = cap
  /\ pc' = Granted(length, at)
  /\ UNCHANGED <<index, got, released>>

(* The part of fbq_put that runs with a place granted: store, signal. *)
Store(p, x, cap, at) ==
  /\ cnt' = Inc8(cnt)
  /\ buf' = [buf EXCEPT ![(index + cnt') % Size] = x]
  /\ length' = SemSignal(length)
  /\ capacity' = cap
  /\ pc' = Granted(length, at)
  /\ UNCHANGED <<index, got, released>>

\* Mutant: one buffer too many.
PutNowLate(p, x) ==
  /\ pc[p] = "ready"
  /\ capacity.cnt >= 0
  /\ arg' = [arg EXCEPT ![p] = x]
  /\ Store(p, x, SemTake(capacity), pc)

(* fbq_put when a place is free: no wait. *)
PutNow(p, x) ==
  /\ pc[p] = "ready"
  /\ capacity.cnt > 0
  /\ arg' = [arg EXCEPT ![p] = x]
  /\ Store(p, x, SemTake(capacity), pc)

(* fbq_put when the ring is full: the thread waits on capacity. *)
PutWait(p, x) ==
  /\ pc[p] = "ready"
  /\ capacity.cnt <= 0
  /\ arg' = [arg EXCEPT ![p] = x]
  /\ capacity' = SemEnqueue(capacity, p)
  /\ pc' = [pc EXCEPT ![p] = "waiting"]
  /\ UNCHANGED <<index, cnt, buf, length, got, released>>

PutResume(p) ==
  /\ pc[p] = "granted"
  /\ UNCHANGED arg
  /\ Store(p, arg[p], capacity, [pc EXCEPT ![p] = "ready"])

(* A put that was reset drops its buffer. *)
PutReset(p) ==
  /\ pc[p] = "reset"
  /\ pc' = [pc EXCEPT ![p] = "ready"]
  /\ UNCHANGED <<index, cnt, buf, length, capacity, arg, got, released>>

\* Mutant: fbq_get does not signal capacity.
FetchSilent(c, len, at) ==
  /\ index' = (index + 1) % Size
  /\ got' = [got EXCEPT ![c] = buf[index']]
  /\ cnt' = Dec8(cnt)
  /\ length' = len
  /\ pc' = at
  /\ UNCHANGED <<buf, capacity, arg, released>>

(* The part of fbq_get that runs with a buffer granted. *)
Fetch(c, len, at) ==
  /\ index' = (index + 1) % Size
  /\ got' = [got EXCEPT ![c] = buf[index']]
  /\ cnt' = Dec8(cnt)
  /\ length' = len
  /\ capacity' = SemSignal(capacity)
  /\ pc' = Granted(capacity, at)
  /\ UNCHANGED <<buf, arg, released>>

GetNow(c) ==
  /\ pc[c] = "ready"
  /\ length.cnt > 0
  /\ Fetch(c, SemTake(length), pc)

GetWait(c) ==
  /\ pc[c] = "ready"
  /\ length.cnt <= 0
  /\ length' = SemEnqueue(length, c)
  /\ pc' = [pc EXCEPT ![c] = "waiting"]
  /\ UNCHANGED <<index, cnt, buf, capacity, arg, got, released>>

GetResume(c) ==
  /\ pc[c] = "granted"
  /\ Fetch(c, length, [pc EXCEPT ![c] = "ready"])

(* A get that was reset returns its local variable as it found it. *)
GetReset(c) ==
  /\ pc[c] = "reset"
  /\ pc' = [pc EXCEPT ![c] = "ready"]
  /\ \E x \in Handles : got' = [got EXCEPT ![c] = x]
  /\ UNCHANGED <<index, cnt, buf, length, capacity, arg, released>>

(* What the comment of fbq_clear asks of its caller. *)
Quiescent == \A t \in Threads : pc[t] = "ready"

(* The places fbq_clear releases: length of them, from index on. *)
ClearedPlaces == {i % Size : i \in index .. index + length.cnt - 1}

\* Mutant: the threads that wait are not woken.
ClearSilent ==
  /\ ClearAnyTime \/ Quiescent
  /\ released' = {buf[i] : i \in ClearedPlaces}
  /\ length' = SemObject(0)
  /\ capacity' = SemObject(Size)
  /\ index' = 0 /\ cnt' = 0
  /\ UNCHANGED <<buf, pc, arg, got>>

Clear ==
  /\ ClearAnyTime \/ Quiescent
  /\ released' = {buf[i] : i \in ClearedPlaces}
  /\ length' = SemObject(0)
  /\ capacity' = SemObject(Size)
  /\ pc' = [t \in Threads |-> IF pc[t] = "waiting" THEN "reset" ELSE pc[t]]
  /\ index' = 0 /\ cnt' = 0
  /\ UNCHANGED <<buf, arg, got>>

ProducerStep(p) ==
  PutResume(p) \/ PutReset(p) \/ \E x \in Items : PutNow(p, x) \/ PutWait(p, x)

ConsumerStep(c) == GetNow(c) \/ GetWait(c) \/ GetResume(c) \/ GetReset(c)

Next ==
  \/ \E p \in Producers : ProducerStep(p)
  \/ \E c \in Consumers : ConsumerStep(c)
  \/ Clear

Spec == Init /\ [][Next]_vars

(***************************************************************************)
(* The consumers (encoder, digipeater, igate, monitor threads) call        *)
(* fbq_get in an endless loop, and a thread that is ready runs.  Nothing   *)
(* makes a producer call fbq_put.                                          *)
(***************************************************************************)
Fairness ==
  /\ \A p \in Producers : WF_vars(PutResume(p) \/ PutReset(p))
  /\ \A c \in Consumers : WF_vars(ConsumerStep(c))

FairSpec == Spec /\ Fairness

----------------------------------------------------------------------------
TypeOK ==
  /\ index \in 0..Size-1
  /\ cnt \in 0..255
  /\ buf \in [0..Size-1 -> Handles]
  /\ length \in [cnt : Int, queue : Seq(Consumers)]
  /\ capacity \in [cnt : Int, queue : Seq(Producers)]
  /\ pc \in [Threads -> {"ready", "waiting", "granted", "reset"}]
  /\ arg \in [Producers -> Handles]
  /\ got \in [Consumers -> Handles]
  /\ released \in SUBSET Handles

GrantedIn(S) == {t \in S : pc[t] = "granted"}

AtLeast0(n) == IF n > 0 THEN n ELSE 0

(***************************************************************************)
(* The two semaphores and the ring agree, also while calls are under way:  *)
(* every buffer in the ring is either free to get or promised to a get     *)
(* that has been granted, every empty place is free or promised to a put,  *)
(* so a put never overwrites a buffer nobody has got (fbuf.c:477-511).     *)
(***************************************************************************)
Accounting ==
  /\ cnt = AtLeast0(length.cnt) + Cardinality(GrantedIn(Consumers))
  /\ Size - cnt = AtLeast0(capacity.cnt) + Cardinality(GrantedIn(Producers))

(* Who waits in a semaphore is blocked and waits in it once; its counter   *)
(* says how many wait.  That is the kernel's doing: the proofs build on it *)
WaitersOf(s) ==
  /\ Len(s.queue) = AtLeast0(-s.cnt)
  /\ \A i \in 1..Len(s.queue) : pc[s.queue[i]] = "waiting"
  /\ \A i, j \in 1..Len(s.queue) : s.queue[i] = s.queue[j] => i = j

Waiters == WaitersOf(length) /\ WaitersOf(capacity)

fbq_eof == capacity.cnt >= Size

(***************************************************************************)
(* What the encoder relies on when it asks fbq_eof, which reads only the   *)
(* capacity semaphore, before it gets another packet with the transmitter  *)
(* running (hdlc_encoder.c:211).  When it is told that the queue is empty, *)
(* the ring is empty and no put is between its two halves.  When it is     *)
(* told that it is not, and no other thread is in a get, its own get       *)
(* finds a buffer at once, or else a put has been granted its place and    *)
(* has only to run.                                                        *)
(***************************************************************************)
NobodyGets == \A c \in Consumers : pc[c] = "ready"

EofExact ==
  /\ fbq_eof => cnt = 0 /\ GrantedIn(Producers) = {}
  /\ ~fbq_eof /\ NobodyGets => length.cnt > 0 \/ GrantedIn(Producers) # {}

Fifo == INSTANCE BoundedFifo WITH
  NoItem <- Blank,
  fifo <- [k \in 1..cnt |-> buf[(index + k) % Size]],
  status <- [t \in Threads |->
               IF pc[t] = "ready" THEN "ready"
               ELSE IF t \in Producers THEN "putting" ELSE "getting"]

(***************************************************************************)
(* The ring with its semaphores is a bounded first-in first-out queue:     *)
(* nothing is lost, doubled or overtaken by what fbq_put and fbq_get do.   *)
(***************************************************************************)
ImplementsFifo == Fifo!FifoSpec

(***************************************************************************)
(* A put that has to wait returns: no producer starves behind the others   *)
(* as long as the consumers keep getting.                                  *)
(***************************************************************************)
PutReturns == \A p \in Producers : pc[p] = "waiting" ~> pc[p] = "ready"

(***************************************************************************)
(* "Clear a queue. Release all items": the buffers fbq_clear releases are  *)
(* those that are in the ring (comment at fbuf.c:453).                     *)
(***************************************************************************)
ClearReleasesAll ==
  [][Clear => released' = {buf[(index + k) % Size] : k \in 1..cnt}]_vars

=============================================================================
