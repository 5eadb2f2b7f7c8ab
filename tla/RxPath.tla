------------------------------- MODULE RxPath -------------------------------
(***************************************************************************)
(* The way of a frame from the decoder (hdlc_decoder.c) to its             *)
(* subscribers: packet monitor (0), digipeater (1) and igate (2), each a   *)
(* queue and a thread that is started and stopped while frames arrive.     *)
(*                                                                         *)
(* A packet buffer is a number, and ref counts the references to it: what  *)
(* fbuf_new, fbuf_newRef and fbuf_release do is in Fbuf.  A queue is a     *)
(* ring as in Fbq, with one thread that gets and at most two that put.     *)
(*                                                                         *)
(* Decoder, subscribers and shell have the same priority and give up the   *)
(* processor only where they wait; the button thread, which turns the      *)
(* digipeater on and off, may run between any two statements.              *)
(*                                                                         *)
(* What the encoder puts into the monitor's queue, and the monitor's text  *)
(* mode for connected sessions, are left out.                              *)
(***************************************************************************)
EXTENDS Integers, Sequences, FiniteSets, SequencesExt

CONSTANTS
  Subs,        \* the subscribers there are, out of 0..2
  Controlled,  \* those that are turned on and off; the others are always on
  Size,        \* HDLC_DECODER_QUEUE_SIZE
  MaxFrames,   \* bound: frames received in a behaviour
  MaxStops     \* bound: nothing is turned on after so many were turned off

ASSUME RxAssumption ==
  /\ Subs \subseteq 0..2 /\ Controlled \subseteq Subs \cap {0, 1}
  /\ Size \in 1..255 /\ MaxFrames \in Nat /\ MaxStops \in Nat

VARIABLES
  decoder,   \* "idle", "run": distributing; or how its fbq_put waits
  stage,     \* the subscriber it is at; Done when it has been at all
  fbuf,      \* the frame
  owns,      \* history: the decoder's own reference to it is not handed on
  mqueue,    \* who is subscribed
  q,         \* the queues
  on,        \* mon_on, digi_on
  thread,    \* where the subscriber's thread stands
  held,      \* the buffer it has got
  control,   \* where mon_activate or digipeater_activate stands
  signal,    \* the empty buffer that a stop puts into the queue
  ref,       \* references to each buffer
  frames,    \* history: the buffers that are frames, not signals
  since,     \* history: buffers used when the subscription began
  seen,      \* history: frames got since
  quiet      \* history: nothing was being received when the monitor was
             \* turned on, nor while a subscriber was turned off

decoderVars == <<decoder, stage, fbuf, owns>>
history == <<frames, since, seen, quiet>>
vars == <<decoderVars, mqueue, q, on, thread, held, control, signal, ref, history>>

Blank == 0   \* no buffer: the zeroed FBUF
Done == 3
Used == Len(ref)

EmptyQueue == [index |-> 0, cnt |-> 0, length |-> 0, capacity |-> Size, putters |-> << >>,
               buf |-> [k \in 0..Size-1 |-> Blank]]

Init ==
  /\ decoder = "idle" /\ stage = Done /\ fbuf = Blank /\ owns = FALSE
  /\ mqueue = [i \in Subs |-> i \notin Controlled]
  /\ on = mqueue
  /\ q = [i \in Subs |-> EmptyQueue]
  /\ thread = [i \in Subs |-> IF i \in Controlled THEN "none" ELSE "start"]
  /\ held = [i \in Subs |-> Blank]
  /\ control = [i \in Subs |-> IF i \in Controlled THEN "off" ELSE "on"]
  /\ ref = << >> /\ frames = {}
  /\ since = [i \in Subs |-> 0] /\ seen = [i \in Subs |-> << >>]
  /\ signal = [i \in Subs |-> Blank] /\ quiet = TRUE

\* No thread of normal priority is between two statements.
Yielded == decoder # "run"

----------------------------------------------------------------------------
(* Queues: fbq_put, fbq_get and fbq_clear on the queue of subscriber i.    *)

\* x is stored in queue s of i, and a thread that waits for it is woken.
Store(i, x, s) ==
  /\ q' = [q EXCEPT ![i] = [s EXCEPT
       !.cnt = @ + 1, !.length = @ + 1, !.buf[(s.index + s.cnt + 1) % Size] = x]]
  /\ thread' = [thread EXCEPT ![i] = IF s.length < 0 THEN "granted" ELSE @]

Taken(s) == [s EXCEPT !.capacity = @ - 1]

\* who waits for a place.
PutWait(i, who) ==
  /\ q' = [q EXCEPT ![i] = [Taken(q[i]) EXCEPT !.putters = Append(@, who)]]
  /\ UNCHANGED thread

\* The threads in S wait no longer, with the outcome of their wait.
Woken(i, S, outcome) ==
  /\ decoder' = IF "decoder" \in S THEN outcome ELSE decoder
  /\ control' = IF "control" \in S THEN [control EXCEPT ![i] = outcome] ELSE control

\* Mutant: fbq_get does not signal capacity.
FetchSilent(i, s) ==
  /\ q' = [q EXCEPT ![i] = [s EXCEPT !.index = (@ + 1) % Size, !.cnt = @ - 1]]
  /\ held' = [held EXCEPT ![i] = s.buf[(s.index + 1) % Size]]
  /\ UNCHANGED <<decoder, control>>

\* The next buffer is taken out of queue s of i; a thread that waits for a
\* place is granted it.
Fetch(i, s) ==
  /\ q' = [q EXCEPT ![i] = [s EXCEPT
       !.index = (@ + 1) % Size, !.cnt = @ - 1, !.capacity = @ + 1,
       !.putters = IF @ = << >> THEN @ ELSE Tail(@)]]
  /\ held' = [held EXCEPT ![i] = s.buf[(s.index + 1) % Size]]
  /\ Woken(i, IF s.putters = << >> THEN {} ELSE {Head(s.putters)}, "granted")

Released(r, S) == [x \in DOMAIN r |-> IF x \in S THEN r[x] - 1 ELSE r[x]]

\* fbq_clear; what it releases starts one place before the first buffer.
Clear(i) ==
  /\ q' = [q EXCEPT ![i] = [EmptyQueue EXCEPT !.buf = q[i].buf]]
  /\ ref' = Released(ref,
       {q[i].buf[k % Size] : k \in q[i].index .. q[i].index + q[i].length - 1})
  /\ decoder' = IF Contains(q[i].putters, "decoder") THEN "reset" ELSE decoder

----------------------------------------------------------------------------
(* Decoder thread. *)

(* A frame whose checksum is right has been received. *)
Receive ==
  /\ decoder = "idle" /\ Cardinality(frames) < MaxFrames
  /\ quiet' = (quiet /\ \A i \in Subs : control[i] \in {"off", "on"})
  /\ decoder' = "run" /\ stage' = 0
  /\ fbuf' = Used + 1 /\ owns' = TRUE
  /\ ref' = Append(ref, 1) /\ frames' = frames \cup {Used + 1}
  /\ UNCHANGED <<mqueue, q, on, thread, held, control, signal, since, seen>>

Skip ==
  /\ decoder = "run" /\ stage # Done
  /\ stage \in Subs => ~mqueue[stage]
  /\ stage' = stage + 1
  /\ UNCHANGED <<decoder, fbuf, owns, mqueue, q, on, thread, held, control, signal, ref, history>>

\* Mutant: all queues get the same reference.
HandOverShared == UNCHANGED ref

\* The monitor gets the decoder's reference, the others one of their own.
HandOver == ref' = IF stage = 0 THEN ref ELSE [ref EXCEPT ![fbuf] = @ + 1]

(* fbq_put(mqueue[i], ...) *)
PutFrame ==
  /\ decoder = "run" /\ stage \in Subs /\ mqueue[stage]
  /\ HandOver
  /\ IF q[stage].capacity > 0
       THEN /\ Store(stage, fbuf, Taken(q[stage]))
            /\ owns' = (owns /\ stage # 0)
            /\ stage' = stage + 1
            /\ UNCHANGED decoder
       ELSE /\ PutWait(stage, "decoder")
            /\ decoder' = "wait"
            /\ UNCHANGED <<owns, stage>>
  /\ UNCHANGED <<fbuf, mqueue, on, held, control, signal, history>>

\* Mutant: after the wait the queue is tried once more.
PutResumeAgain ==
  /\ decoder = "granted"
  /\ Store(stage, fbuf, q[stage])
  /\ owns' = (owns /\ stage # 0)
  /\ decoder' = "run"
  /\ UNCHANGED <<stage, fbuf, mqueue, on, held, control, signal, ref, history>>

PutResume ==
  /\ decoder = "granted"
  /\ Store(stage, fbuf, q[stage])
  /\ owns' = (owns /\ stage # 0)
  /\ stage' = stage + 1 /\ decoder' = "run"
  /\ UNCHANGED <<fbuf, mqueue, on, held, control, signal, ref, history>>

(* The queue was cleared: the frame is not put, its reference is lost.     *)
PutReset ==
  /\ decoder = "reset"
  /\ stage' = stage + 1 /\ decoder' = "run"
  /\ UNCHANGED <<fbuf, owns, mqueue, q, on, thread, held, control, signal, ref, history>>

(* Whether the monitor has the decoder's reference is asked again.         *)
Finish ==
  /\ decoder = "run" /\ stage = Done
  /\ decoder' = "idle" /\ fbuf' = Blank /\ owns' = FALSE
  /\ ref' = IF 0 \in Subs /\ mqueue[0] THEN ref ELSE Released(ref, {fbuf})
  /\ UNCHANGED <<stage, mqueue, q, on, thread, held, control, signal, history>>

Decoder == Receive \/ Skip \/ PutFrame \/ PutResume \/ PutReset \/ Finish

----------------------------------------------------------------------------
(* Subscriber threads: while on, get a buffer, use it and release it.      *)

Saw(i) == seen' = [seen EXCEPT ![i] = IF held'[i] \in frames THEN Append(@, held'[i]) ELSE @]

\* The test of the loop, and fbq_get.
Loop(i) ==
  \/ /\ on[i] /\ q[i].length > 0
     /\ Fetch(i, [q[i] EXCEPT !.length = @ - 1]) /\ Saw(i)
     /\ thread' = [thread EXCEPT ![i] = "busy"]
  \/ /\ on[i] /\ q[i].length <= 0
     /\ q' = [q EXCEPT ![i].length = @ - 1]
     /\ held' = [held EXCEPT ![i] = Blank]
     /\ thread' = [thread EXCEPT ![i] = "wait"]
     /\ UNCHANGED <<decoder, control, seen>>
  \/ /\ ~on[i]
     /\ held' = [held EXCEPT ![i] = Blank]
     /\ thread' = [thread EXCEPT ![i] = "ending"]
     /\ UNCHANGED <<decoder, control, q, seen>>

Begin(i) ==
  /\ thread[i] = "start" /\ Yielded
  /\ Loop(i)
  /\ UNCHANGED <<stage, fbuf, owns, mqueue, on, signal, ref, frames, since, quiet>>

Resume(i) ==
  /\ thread[i] = "granted" /\ Yielded
  /\ Fetch(i, q[i]) /\ Saw(i)
  /\ thread' = [thread EXCEPT ![i] = "busy"]
  /\ UNCHANGED <<stage, fbuf, owns, mqueue, on, signal, ref, frames, since, quiet>>

(* fbuf_release, and once more round the loop.  What the thread does with  *)
(* the frame takes time: it prints, beeps, or waits for another queue.     *)
Dispose(i) ==
  /\ thread[i] = "busy" /\ Yielded
  /\ ref' = Released(ref, {held[i]})
  /\ Loop(i)
  /\ UNCHANGED <<stage, fbuf, owns, mqueue, on, signal, frames, since, quiet>>

End(i) ==
  /\ thread[i] = "ending" /\ Yielded
  /\ thread' = [thread EXCEPT ![i] = "none"]
  /\ UNCHANGED <<decoderVars, mqueue, q, on, held, control, signal, ref, history>>

Subscriber(i) == Begin(i) \/ Resume(i) \/ Dispose(i) \/ End(i)

----------------------------------------------------------------------------
(* mon_activate by the shell, digipeater_activate by the button thread.    *)

MayRun(i) == i = 0 => Yielded

Start(i) ==
  /\ control[i] = "off" /\ MayRun(i) /\ Used - Cardinality(frames) < MaxStops
  /\ quiet' = (quiet /\ (i = 0 => decoder = "idle"))
  /\ on' = [on EXCEPT ![i] = TRUE] /\ mqueue' = [mqueue EXCEPT ![i] = TRUE]
  /\ thread' = [thread EXCEPT ![i] = "start"]
  /\ control' = [control EXCEPT ![i] = "on"]
  /\ since' = [since EXCEPT ![i] = Used] /\ seen' = [seen EXCEPT ![i] = << >>]
  /\ UNCHANGED <<decoderVars, q, held, signal, ref, frames>>

\* fbq_signal: a new and empty buffer is put into the queue.
Signal(i) ==
  /\ ref' = Append(ref, 1) /\ signal' = [signal EXCEPT ![i] = Used + 1]
  /\ IF q[i].capacity > 0
       THEN /\ Store(i, Used + 1, Taken(q[i]))
            /\ control' = [control EXCEPT ![i] = "join"]
       ELSE /\ PutWait(i, "control")
            /\ control' = [control EXCEPT ![i] = "wait"]
  /\ UNCHANGED <<decoderVars, mqueue, held, frames, since, seen>>

BeginStop(i) ==
  /\ control[i] = "on" /\ i \in Controlled /\ MayRun(i)
  /\ on' = [on EXCEPT ![i] = FALSE]
  /\ quiet' = (quiet /\ thread[i] = "wait" /\ decoder = "idle")

\* Mutant: the thread is not signalled.
StopSilent(i) ==
  /\ BeginStop(i)
  /\ control' = [control EXCEPT ![i] = "join"]
  /\ UNCHANGED <<decoderVars, mqueue, q, thread, held, signal, ref, frames, since, seen>>

(* The digipeater lets go of the radio first, which takes time.            *)
Stop(i) ==
  /\ BeginStop(i)
  /\ IF i = 0 THEN Signal(i)
     ELSE /\ control' = [control EXCEPT ![i] = "radio"]
          /\ UNCHANGED <<decoderVars, mqueue, q, thread, held, signal, ref, frames, since, seen>>

RadioReleased(i) == control[i] = "radio" /\ Signal(i) /\ UNCHANGED <<on, quiet>>

SignalResume(i) ==
  /\ control[i] = "granted" /\ MayRun(i)
  /\ Store(i, signal[i], q[i])
  /\ control' = [control EXCEPT ![i] = "join"]
  /\ UNCHANGED <<decoderVars, mqueue, on, held, signal, ref, history>>

(* chThdWait, and hdlc_subscribe_rx(NULL, i).  A decoder that was granted  *)
(* a place while the thread still got buffers has been ready for longer    *)
(* than whoever waits for the thread's end, and has run.                   *)
Join(i) ==
  /\ control[i] = "join" /\ thread[i] = "none" /\ MayRun(i)
  /\ decoder # "granted"
  /\ Clear(i)
  /\ mqueue' = [mqueue EXCEPT ![i] = FALSE]
  /\ control' = [control EXCEPT ![i] = "off"]
  /\ since' = [since EXCEPT ![i] = 0] /\ seen' = [seen EXCEPT ![i] = << >>]
  /\ signal' = [signal EXCEPT ![i] = Blank]
  /\ UNCHANGED <<stage, fbuf, owns, on, thread, held, frames, quiet>>

Control(i) == Start(i) \/ Stop(i) \/ RadioReleased(i) \/ SignalResume(i) \/ Join(i)

----------------------------------------------------------------------------
Next == Decoder \/ \E i \in Subs : Subscriber(i) \/ Control(i)

Spec == Init /\ [][Next]_vars

(***************************************************************************)
(* A thread that can run runs; a subscriber is done with a frame some      *)
(* time; who turns something off goes on until it is off.                  *)
(***************************************************************************)
Fairness ==
  /\ WF_vars(Skip \/ PutFrame \/ PutResume \/ PutReset \/ Finish)
  /\ \A i \in Subs : WF_vars(Subscriber(i))
  /\ \A i \in Subs : WF_vars(RadioReleased(i) \/ SignalResume(i) \/ Join(i))

FairSpec == Spec /\ Fairness

----------------------------------------------------------------------------
Fbufs == DOMAIN ref

TypeOK ==
  /\ decoder \in {"idle", "run", "wait", "granted", "reset"}
  /\ stage \in 0..Done /\ fbuf \in Fbufs \cup {Blank} /\ owns \in BOOLEAN
  /\ mqueue \in [Subs -> BOOLEAN] /\ on \in [Subs -> BOOLEAN]
  /\ q \in [Subs -> [index : 0..Size-1, cnt : Nat, length : Int, capacity : Int,
                     putters : Seq({"decoder", "control"}),
                     buf : [0..Size-1 -> Fbufs \cup {Blank}]]]
  /\ thread \in [Subs -> {"none", "start", "wait", "granted", "busy", "ending"}]
  /\ held \in [Subs -> Fbufs \cup {Blank}]
  /\ control \in [Subs -> {"off", "on", "radio", "wait", "granted", "reset", "join"}]
  /\ ref \in Seq(Int)

\* The place in the ring of the k-th buffer in the queue of i, and these buffers.
Place(i, k) == (q[i].index + k) % Size
Queued(i) == [k \in 1..q[i].cnt |-> q[i].buf[Place(i, k)]]

\* Places w, each a subscriber and a number, where x is in a queue.
Places(x) ==
  {w \in Subs \X (0..Size-1) :
     \E k \in 1..q[w[1]].cnt : w[2] = Place(w[1], k) /\ q[w[1]].buf[w[2]] = x}

\* Who holds a reference to x: the decoder has its own until the monitor has
\* it, and the one it waits to put.
Holders(x) ==
  (IF owns /\ fbuf = x THEN 1 ELSE 0)
  + (IF decoder \in {"wait", "granted"} /\ stage # 0 /\ fbuf = x THEN 1 ELSE 0)
  + Cardinality({i \in Subs : held[i] = x})
  + Cardinality({i \in Subs : control[i] \in {"wait", "granted"} /\ signal[i] = x})
  + Cardinality(Places(x))

(***************************************************************************)
(* "every receiver should release the buffers after use ... receiver       *)
(* queues should not share the fbuf" (hdlc_decoder.c:135-137): there are   *)
(* as many references to a buffer as there are holders of it, so none is   *)
(* freed while a subscriber has it, and none is lost - as long as          *)
(* subscribers are turned off, and the monitor on, in quiet times.         *)
(***************************************************************************)
RefsExact == quiet => \A x \in DOMAIN ref : ref[x] = Holders(x)

(***************************************************************************)
(* A subscriber that is on gets every frame that is received, once and in  *)
(* the order they came, however slow the others are and whenever they come *)
(* and go (hdlc_decoder.c:133-147).                                        *)
(***************************************************************************)
Delivered(i) ==
  LET line == seen[i] \o Queued(i)
      passed == {n \in frames : n > since[i] /\ (n = fbuf => stage > i)}
  IN  /\ {line[k] : k \in DOMAIN line} \ (0..since[i]) = passed
      /\ \A j, k \in DOMAIN line : j < k => line[j] < line[k]

EachFrameOnce == \A i \in Subs : mqueue[i] /\ on[i] => Delivered(i)

(***************************************************************************)
(* The decoder, which waits while a subscriber's queue is full, comes back *)
(* to receiving: the threads it waits for do not wait for it.              *)
(***************************************************************************)
ReceptionGoesOn == decoder # "idle" ~> decoder = "idle" \/ ~quiet

(***************************************************************************)
(* mon_activate and digipeater_activate return, whatever is received       *)
(* meanwhile and however far the subscriber's thread is - unless the stop  *)
(* stands in the full queue of a thread that is gone: one that was busy    *)
(* sees that it is no longer wanted and ends without another get           *)
(* (digipeater.c:50-66, 118-128; monitor.c:33-50, 78-85).                  *)
(***************************************************************************)
Stranded(i) == control[i] = "wait" /\ thread[i] = "none"

Stopping(i) == control[i] \notin {"off", "on"}

StopReturns == \A i \in Controlled : Stopping(i) ~> ~Stopping(i) \/ Stranded(i)

(***************************************************************************)
(* "Activate the digipeater if argument is true / Deactivate if false"     *)
(* (digipeater.c:97-98): a call that deactivates gets there.               *)
(***************************************************************************)
EveryStopReturns == \A i \in Controlled : Stopping(i) ~> control[i] = "off"

=============================================================================
