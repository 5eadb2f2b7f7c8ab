----------------------------- MODULE FbqProofs -----------------------------
(***************************************************************************)
(* The queue of packet buffers is correct for every number of threads and  *)
(* every ring size, whatever its buffers are.                              *)
(*                                                                         *)
(* TypeOK and Waiters are inductive together and hold however fbq_clear is *)
(* used.  Accounting needs fbq_clear to be called as its comment asks.     *)
(***************************************************************************)
EXTENDS Fbq, FiniteSetTheorems, SequenceTheorems, TLAPS

WaitInv == TypeOK /\ Waiters

----------------------------------------------------------------------------
(* The ring's arithmetic. *)

LEMMA ModRange ==
  ASSUME NEW n \in Nat \ {0}, NEW a \in Nat
  PROVE  a % n \in 0..n-1
  OBVIOUS

LEMMA ModSmall ==
  ASSUME NEW n \in Nat \ {0}, NEW a \in 0..n-1
  PROVE  a % n = a
  OBVIOUS

LEMMA ModWrap ==
  ASSUME NEW n \in Nat \ {0}, NEW a \in n .. 2*n-1
  PROVE  a % n = a - n
  OBVIOUS

----------------------------------------------------------------------------
(* Semaphores. *)

\* A signal wakes the first waiting thread, which is in no other place of
\* the queue, and leaves the others where they are.
LEMMA SignalFacts ==
  ASSUME NEW S, NEW s \in [cnt : Int, queue : Seq(S)],
         WaitersOf(s)
  PROVE  /\ SemSignal(s) \in [cnt : Int, queue : Seq(S)]
         /\ SemSignal(s).cnt = s.cnt + 1
         /\ s.cnt < 0 => /\ s.queue # << >>
                         /\ Head(s.queue) \in S
                         /\ pc[Head(s.queue)] = "waiting"
         /\ Len(SemSignal(s).queue) = AtLeast0(-(s.cnt + 1))
         /\ \A i \in 1..Len(SemSignal(s).queue) :
              /\ SemSignal(s).queue[i] \in S
              /\ pc[SemSignal(s).queue[i]] = "waiting"
              /\ s.cnt < 0 => SemSignal(s).queue[i] # Head(s.queue)
         /\ \A i, j \in 1..Len(SemSignal(s).queue) :
              SemSignal(s).queue[i] = SemSignal(s).queue[j] => i = j
<1>1. CASE s.cnt < 0
  <2>1. /\ s.queue \in Seq(S) /\ s.cnt \in Int
        /\ Len(s.queue) = -s.cnt /\ s.queue # << >>
    BY <1>1 DEF WaitersOf, AtLeast0
  <2>2. /\ Tail(s.queue) \in Seq(S)
        /\ Len(Tail(s.queue)) = Len(s.queue) - 1
        /\ \A i \in 1..Len(Tail(s.queue)) : Tail(s.queue)[i] = s.queue[i+1]
        /\ Head(s.queue) = s.queue[1]
    BY <2>1
  <2>3. SemSignal(s) = [cnt |-> s.cnt + 1, queue |-> Tail(s.queue)]
    BY <1>1 DEF SemSignal
  <2>4. \A i, j \in 1..Len(s.queue) : s.queue[i] = s.queue[j] => i = j
    BY DEF WaitersOf
  <2>5. \A i \in 1..Len(s.queue) : s.queue[i] \in S /\ pc[s.queue[i]] = "waiting"
    BY <2>1 DEF WaitersOf
  <2>6. 1 \in 1..Len(s.queue)
    BY <2>1
  <2>7. /\ SemSignal(s) \in [cnt : Int, queue : Seq(S)]
        /\ SemSignal(s).cnt = s.cnt + 1
        /\ SemSignal(s).queue = Tail(s.queue)
    BY <2>1, <2>2, <2>3
  <2>8. Len(Tail(s.queue)) = AtLeast0(-(s.cnt + 1))
    BY <1>1, <2>1, <2>2 DEF AtLeast0
  <2>9. /\ Head(s.queue) \in S
        /\ pc[Head(s.queue)] = "waiting"
    BY <2>2, <2>5, <2>6
  <2>10. \A i \in 1..Len(Tail(s.queue)) :
           /\ i + 1 \in 1..Len(s.queue) /\ i + 1 # 1
           /\ Tail(s.queue)[i] = s.queue[i+1]
    BY <2>1, <2>2
  <2>11. \A i \in 1..Len(Tail(s.queue)) :
           /\ Tail(s.queue)[i] \in S
           /\ pc[Tail(s.queue)[i]] = "waiting"
           /\ Tail(s.queue)[i] # Head(s.queue)
    BY <2>2, <2>4, <2>5, <2>6, <2>10
  <2>12. \A i, j \in 1..Len(Tail(s.queue)) :
           Tail(s.queue)[i] = Tail(s.queue)[j] => i = j
    BY <2>4, <2>10
  <2> QED
    BY <2>1, <2>7, <2>8, <2>9, <2>11, <2>12
<1>2. CASE ~(s.cnt < 0)
  <2>1. SemSignal(s) = [cnt |-> s.cnt + 1, queue |-> s.queue]
    BY <1>2 DEF SemSignal
  <2>2. s.queue \in Seq(S) /\ s.cnt \in Int /\ Len(s.queue) = 0
    BY <1>2 DEF WaitersOf, AtLeast0
  <2> QED
    BY <1>2, <2>1, <2>2 DEF AtLeast0
<1> QED
  BY <1>1, <1>2

\* A thread that is not waiting joins the end of the queue.
LEMMA EnqueueFacts ==
  ASSUME NEW S, NEW s \in [cnt : Int, queue : Seq(S)], NEW t \in S,
         WaitersOf(s), s.cnt <= 0, pc[t] # "waiting"
  PROVE  /\ SemEnqueue(s, t) \in [cnt : Int, queue : Seq(S)]
         /\ Len(SemEnqueue(s, t).queue) = AtLeast0(-(s.cnt - 1))
         /\ SemEnqueue(s, t).cnt = s.cnt - 1
         /\ \A i \in 1..Len(SemEnqueue(s, t).queue) :
              \/ SemEnqueue(s, t).queue[i] = t
              \/ pc[SemEnqueue(s, t).queue[i]] = "waiting"
         /\ \A i, j \in 1..Len(SemEnqueue(s, t).queue) :
              SemEnqueue(s, t).queue[i] = SemEnqueue(s, t).queue[j] => i = j
<1>1. /\ s.queue \in Seq(S) /\ s.cnt \in Int
      /\ Len(s.queue) = -s.cnt
  BY DEF WaitersOf, AtLeast0
<1>2. SemEnqueue(s, t) = [cnt |-> s.cnt - 1, queue |-> Append(s.queue, t)]
  BY DEF SemEnqueue
<1>3. /\ Append(s.queue, t) \in Seq(S)
      /\ Len(Append(s.queue, t)) = Len(s.queue) + 1
      /\ \A i \in 1..Len(s.queue) : Append(s.queue, t)[i] = s.queue[i]
      /\ Append(s.queue, t)[Len(s.queue) + 1] = t
  BY <1>1
<1>4. \A i \in 1 .. Len(s.queue)+1 : i \in 1..Len(s.queue) \/ i = Len(s.queue)+1
  BY <1>1
<1>5. \A i \in 1..Len(s.queue) : s.queue[i] # t
  BY DEF WaitersOf
<1> QED
  BY <1>1, <1>2, <1>3, <1>4, <1>5 DEF WaitersOf, AtLeast0

----------------------------------------------------------------------------
(* Each part of a call keeps WaitInv. *)

PcStates == {"ready", "waiting", "granted", "reset"}

LEMMA StoreWaitInv ==
  ASSUME WaitInv,
         NEW p \in Producers, NEW x \in Handles,
         NEW cap \in [cnt : Int, queue : Seq(Producers)], WaitersOf(cap),
         NEW at \in [Threads -> PcStates],
         \A t \in Threads : pc[t] = "waiting" => at[t] = "waiting",
         Store(p, x, cap, at), arg' \in [Producers -> Handles]
  PROVE  WaitInv'
<1> USE DEF WaitInv
<1>1. /\ length \in [cnt : Int, queue : Seq(Consumers)]
      /\ WaitersOf(length)
  BY DEF TypeOK, Waiters
<1>2. /\ length' = SemSignal(length) /\ capacity' = cap
      /\ pc' = Granted(length, at) /\ cnt' = Inc8(cnt)
      /\ buf' = [buf EXCEPT ![(index + cnt') % Size] = x]
      /\ UNCHANGED <<index, got, released>>
  BY DEF Store
<1>3. /\ length.cnt < 0 => Head(length.queue) \in Consumers
      /\ pc' \in [Threads -> PcStates]
      /\ \A t \in Threads :
           pc'[t] = IF length.cnt < 0 /\ t = Head(length.queue)
                    THEN "granted" ELSE at[t]
  BY <1>1, <1>2, SignalFacts DEF Granted, Threads, PcStates
<1>4. TypeOK'
  <2>1. cnt' \in 0..255 /\ length' \in [cnt : Int, queue : Seq(Consumers)]
    BY <1>1, <1>2, SignalFacts DEF TypeOK, Inc8
  <2>2. buf' \in [0..Size-1 -> Handles]
    BY <1>2, <2>1 DEF TypeOK
  <2> QED
    BY <1>2, <1>3, <2>1, <2>2 DEF TypeOK, PcStates
<1>5. WaitersOf(length)'
  <2>1. \A i \in 1..Len(length'.queue) :
           /\ length'.queue[i] \in Consumers
           /\ pc[length'.queue[i]] = "waiting"
           /\ length.cnt < 0 => length'.queue[i] # Head(length.queue)
    <3>1. \A i \in 1..Len(SemSignal(length).queue) :
            /\ SemSignal(length).queue[i] \in Consumers
            /\ pc[SemSignal(length).queue[i]] = "waiting"
            /\ length.cnt < 0 => SemSignal(length).queue[i] # Head(length.queue)
      BY <1>1, SignalFacts
    <3> QED
      BY <1>2, <3>1
  <2>2. \A i \in 1..Len(length'.queue) : pc'[length'.queue[i]] = "waiting"
    BY <1>3, <2>1 DEF Threads
  <2>3. /\ Len(length'.queue) = AtLeast0(-length'.cnt)
        /\ \A i, j \in 1..Len(length'.queue) :
              length'.queue[i] = length'.queue[j] => i = j
    BY <1>1, <1>2, SignalFacts
  <2> QED
    BY <2>2, <2>3 DEF WaitersOf
<1>6. WaitersOf(capacity)'
  <2>1. \A i \in 1..Len(cap.queue) :
           cap.queue[i] \in Producers /\ pc[cap.queue[i]] = "waiting"
    BY DEF WaitersOf
  <2>2. \A i \in 1..Len(cap.queue) : pc'[cap.queue[i]] = "waiting"
    BY <1>3, <2>1, FbqAssumption DEF Threads
  <2> QED
    BY <1>2, <2>2 DEF WaitersOf
<1> QED
  BY <1>4, <1>5, <1>6 DEF Waiters

LEMMA FetchWaitInv ==
  ASSUME WaitInv,
         NEW c \in Consumers,
         NEW len \in [cnt : Int, queue : Seq(Consumers)], WaitersOf(len),
         NEW at \in [Threads -> PcStates],
         \A t \in Threads : pc[t] = "waiting" => at[t] = "waiting",
         Fetch(c, len, at)
  PROVE  WaitInv'
<1> USE DEF WaitInv
<1>1. /\ capacity \in [cnt : Int, queue : Seq(Producers)]
      /\ WaitersOf(capacity)
  BY DEF TypeOK, Waiters
<1>2. /\ capacity' = SemSignal(capacity) /\ length' = len
      /\ pc' = Granted(capacity, at) /\ cnt' = Dec8(cnt)
      /\ index' = (index + 1) % Size
      /\ got' = [got EXCEPT ![c] = buf[index']]
      /\ UNCHANGED <<buf, arg, released>>
  BY DEF Fetch
<1>3. /\ capacity.cnt < 0 => Head(capacity.queue) \in Producers
      /\ pc' \in [Threads -> PcStates]
      /\ \A t \in Threads :
           pc'[t] = IF capacity.cnt < 0 /\ t = Head(capacity.queue)
                    THEN "granted" ELSE at[t]
  BY <1>1, <1>2, SignalFacts DEF Granted, Threads, PcStates
<1>4. TypeOK'
  <2>1. cnt' \in 0..255 /\ capacity' \in [cnt : Int, queue : Seq(Producers)]
    BY <1>1, <1>2, SignalFacts DEF TypeOK, Dec8
  <2>2. index' \in 0..Size-1
    BY <1>2, FbqAssumption, ModRange DEF TypeOK
  <2>3. got' \in [Consumers -> Handles]
    BY <1>2, <2>2 DEF TypeOK
  <2> QED
    BY <1>2, <1>3, <2>1, <2>2, <2>3 DEF TypeOK, PcStates
<1>5. WaitersOf(capacity)'
  <2>1. \A i \in 1..Len(capacity'.queue) :
           /\ capacity'.queue[i] \in Producers
           /\ pc[capacity'.queue[i]] = "waiting"
           /\ capacity.cnt < 0 => capacity'.queue[i] # Head(capacity.queue)
    <3>1. \A i \in 1..Len(SemSignal(capacity).queue) :
            /\ SemSignal(capacity).queue[i] \in Producers
            /\ pc[SemSignal(capacity).queue[i]] = "waiting"
            /\ capacity.cnt < 0 => SemSignal(capacity).queue[i] # Head(capacity.queue)
      BY <1>1, SignalFacts
    <3> QED
      BY <1>2, <3>1
  <2>2. \A i \in 1..Len(capacity'.queue) : pc'[capacity'.queue[i]] = "waiting"
    BY <1>3, <2>1 DEF Threads
  <2>3. /\ Len(capacity'.queue) = AtLeast0(-capacity'.cnt)
        /\ \A i, j \in 1..Len(capacity'.queue) :
              capacity'.queue[i] = capacity'.queue[j] => i = j
    BY <1>1, <1>2, SignalFacts
  <2> QED
    BY <2>2, <2>3 DEF WaitersOf
<1>6. WaitersOf(length)'
  <2>1. \A i \in 1..Len(len.queue) :
           len.queue[i] \in Consumers /\ pc[len.queue[i]] = "waiting"
    BY DEF WaitersOf
  <2>2. \A i \in 1..Len(len.queue) : pc'[len.queue[i]] = "waiting"
    BY <1>3, <2>1, FbqAssumption DEF Threads
  <2> QED
    BY <1>2, <2>2 DEF WaitersOf
<1> QED
  BY <1>4, <1>5, <1>6 DEF Waiters

LEMMA PutWaitWaitInv ==
  ASSUME WaitInv, NEW p \in Producers, NEW x \in Items, PutWait(p, x)
  PROVE  WaitInv'
<1> USE DEF WaitInv
<1>1. /\ pc[p] = "ready" /\ capacity.cnt <= 0
      /\ capacity' = SemEnqueue(capacity, p)
      /\ pc' = [pc EXCEPT ![p] = "waiting"]
      /\ arg' = [arg EXCEPT ![p] = x]
      /\ UNCHANGED <<index, cnt, buf, length, got, released>>
  BY DEF PutWait
<1>2. /\ capacity \in [cnt : Int, queue : Seq(Producers)]
      /\ WaitersOf(capacity) /\ WaitersOf(length) /\ pc[p] # "waiting"
      /\ length \in [cnt : Int, queue : Seq(Consumers)]
      /\ pc \in [Threads -> PcStates] /\ p \in Threads
  BY <1>1 DEF TypeOK, Waiters, Threads, PcStates
<1>3. SemEnqueue(capacity, p) \in [cnt : Int, queue : Seq(Producers)]
  BY <1>1, <1>2, EnqueueFacts
<1>4. TypeOK'
  BY <1>1, <1>3 DEF TypeOK, Threads, Handles
<1>5. WaitersOf(length)'
  BY <1>1, <1>2 DEF WaitersOf, Threads
<1>6. WaitersOf(capacity)'
  <2>1. /\ Len(capacity'.queue) = AtLeast0(-capacity'.cnt)
        /\ \A i, j \in 1..Len(capacity'.queue) :
              capacity'.queue[i] = capacity'.queue[j] => i = j
    <3>1. /\ Len(SemEnqueue(capacity, p).queue) = AtLeast0(-(capacity.cnt - 1))
          /\ SemEnqueue(capacity, p).cnt = capacity.cnt - 1
          /\ \A i, j \in 1..Len(SemEnqueue(capacity, p).queue) :
                SemEnqueue(capacity, p).queue[i] = SemEnqueue(capacity, p).queue[j]
                => i = j
      BY <1>1, <1>2, EnqueueFacts
    <3> QED
      BY <1>1, <3>1
  <2>2. \A i \in 1..Len(SemEnqueue(capacity, p).queue) :
              \/ SemEnqueue(capacity, p).queue[i] = p
              \/ pc[SemEnqueue(capacity, p).queue[i]] = "waiting"
    BY <1>1, <1>2, EnqueueFacts
  <2>3. \A i \in 1..Len(SemEnqueue(capacity, p).queue) :
              SemEnqueue(capacity, p).queue[i] \in Threads
    BY <1>3 DEF Threads
  <2>4. \A t \in Threads : t = p \/ pc[t] = "waiting" => pc'[t] = "waiting"
    BY <1>1, <1>2
  <2>5. \A i \in 1..Len(capacity'.queue) : pc'[capacity'.queue[i]] = "waiting"
    BY <1>1, <2>2, <2>3, <2>4
  <2> QED
    BY <2>1, <2>5 DEF WaitersOf
<1> QED
  BY <1>4, <1>5, <1>6 DEF Waiters

LEMMA GetWaitWaitInv ==
  ASSUME WaitInv, NEW c \in Consumers, GetWait(c)
  PROVE  WaitInv'
<1> USE DEF WaitInv
<1>1. /\ pc[c] = "ready" /\ length.cnt <= 0
      /\ length' = SemEnqueue(length, c)
      /\ pc' = [pc EXCEPT ![c] = "waiting"]
      /\ UNCHANGED <<index, cnt, buf, capacity, arg, got, released>>
  BY DEF GetWait
<1>2. /\ length \in [cnt : Int, queue : Seq(Consumers)]
      /\ WaitersOf(capacity) /\ WaitersOf(length) /\ pc[c] # "waiting"
      /\ capacity \in [cnt : Int, queue : Seq(Producers)]
      /\ pc \in [Threads -> PcStates] /\ c \in Threads
  BY <1>1 DEF TypeOK, Waiters, Threads, PcStates
<1>3. SemEnqueue(length, c) \in [cnt : Int, queue : Seq(Consumers)]
  BY <1>1, <1>2, EnqueueFacts
<1>4. TypeOK'
  BY <1>1, <1>3 DEF TypeOK, Threads
<1>5. WaitersOf(capacity)'
  BY <1>1, <1>2 DEF WaitersOf, Threads
<1>6. WaitersOf(length)'
  <2>1. /\ Len(length'.queue) = AtLeast0(-length'.cnt)
        /\ \A i, j \in 1..Len(length'.queue) :
              length'.queue[i] = length'.queue[j] => i = j
    <3>1. /\ Len(SemEnqueue(length, c).queue) = AtLeast0(-(length.cnt - 1))
          /\ SemEnqueue(length, c).cnt = length.cnt - 1
          /\ \A i, j \in 1..Len(SemEnqueue(length, c).queue) :
                SemEnqueue(length, c).queue[i] = SemEnqueue(length, c).queue[j]
                => i = j
      BY <1>1, <1>2, EnqueueFacts
    <3> QED
      BY <1>1, <3>1
  <2>2. \A i \in 1..Len(SemEnqueue(length, c).queue) :
              \/ SemEnqueue(length, c).queue[i] = c
              \/ pc[SemEnqueue(length, c).queue[i]] = "waiting"
    BY <1>1, <1>2, EnqueueFacts
  <2>3. \A i \in 1..Len(SemEnqueue(length, c).queue) :
              SemEnqueue(length, c).queue[i] \in Threads
    BY <1>3 DEF Threads
  <2>4. \A t \in Threads : t = c \/ pc[t] = "waiting" => pc'[t] = "waiting"
    BY <1>1, <1>2
  <2>5. \A i \in 1..Len(length'.queue) : pc'[length'.queue[i]] = "waiting"
    BY <1>1, <2>2, <2>3, <2>4
  <2> QED
    BY <2>1, <2>5 DEF WaitersOf
<1> QED
  BY <1>4, <1>5, <1>6 DEF Waiters

LEMMA TakeFacts ==
  ASSUME NEW S, NEW s \in [cnt : Int, queue : Seq(S)], s.cnt > 0, WaitersOf(s)
  PROVE  /\ SemTake(s) \in [cnt : Int, queue : Seq(S)]
         /\ SemTake(s).cnt = s.cnt - 1
         /\ WaitersOf(SemTake(s))
  BY DEF SemTake, WaitersOf, AtLeast0

LEMMA WaitInvStep == WaitInv /\ [Next]_vars => WaitInv'
<1> SUFFICES ASSUME WaitInv, [Next]_vars PROVE WaitInv'
  OBVIOUS
<1>a. /\ length \in [cnt : Int, queue : Seq(Consumers)] /\ WaitersOf(length)
      /\ capacity \in [cnt : Int, queue : Seq(Producers)] /\ WaitersOf(capacity)
      /\ pc \in [Threads -> PcStates] /\ arg \in [Producers -> Handles]
      /\ Producers \subseteq Threads /\ Consumers \subseteq Threads
      /\ Items \subseteq Handles
  BY DEF WaitInv, TypeOK, Waiters, Threads, Handles, PcStates
<1>1. ASSUME NEW p \in Producers, NEW x \in Items, PutNow(p, x) PROVE WaitInv'
  <2>1. /\ Store(p, x, SemTake(capacity), pc) /\ arg' \in [Producers -> Handles]
        /\ capacity.cnt > 0
    BY <1>1, <1>a DEF PutNow
  <2>2. /\ SemTake(capacity) \in [cnt : Int, queue : Seq(Producers)]
        /\ WaitersOf(SemTake(capacity))
    BY <1>a, <2>1, TakeFacts
  <2> QED
    BY <1>1, <1>a, <2>1, <2>2, StoreWaitInv
<1>2. ASSUME NEW p \in Producers, NEW x \in Items, PutWait(p, x) PROVE WaitInv'
  BY <1>2, PutWaitWaitInv
<1>3. ASSUME NEW p \in Producers, PutResume(p) PROVE WaitInv'
  <2> DEFINE at == [pc EXCEPT ![p] = "ready"]
  <2>1. /\ Store(p, arg[p], capacity, at) /\ arg' = arg /\ pc[p] = "granted"
        /\ arg[p] \in Handles
    BY <1>3, <1>a DEF PutResume
  <2>2. /\ at \in [Threads -> PcStates]
        /\ \A t \in Threads : pc[t] = "waiting" => at[t] = "waiting"
    BY <1>a, <2>1 DEF PcStates
  <2> HIDE DEF at
  <2> QED
    BY <1>a, <2>1, <2>2, StoreWaitInv
<1>4. ASSUME NEW p \in Producers, PutReset(p) PROVE WaitInv'
  <2>1. /\ pc[p] = "reset" /\ pc' = [pc EXCEPT ![p] = "ready"]
        /\ UNCHANGED <<index, cnt, buf, length, capacity, arg, got, released>>
    BY <1>4 DEF PutReset
  <2> QED
    BY <1>a, <2>1 DEF WaitInv, TypeOK, Waiters, WaitersOf, PcStates
<1>5. ASSUME NEW c \in Consumers, GetNow(c) PROVE WaitInv'
  <2>1. Fetch(c, SemTake(length), pc) /\ length.cnt > 0
    BY <1>5 DEF GetNow
  <2>2. /\ SemTake(length) \in [cnt : Int, queue : Seq(Consumers)]
        /\ WaitersOf(SemTake(length))
    BY <1>a, <2>1, TakeFacts
  <2> QED
    BY <1>5, <1>a, <2>1, <2>2, FetchWaitInv
<1>6. ASSUME NEW c \in Consumers, GetWait(c) PROVE WaitInv'
  BY <1>6, GetWaitWaitInv
<1>7. ASSUME NEW c \in Consumers, GetResume(c) PROVE WaitInv'
  <2> DEFINE at == [pc EXCEPT ![c] = "ready"]
  <2>1. Fetch(c, length, at) /\ pc[c] = "granted"
    BY <1>7 DEF GetResume
  <2>2. /\ at \in [Threads -> PcStates]
        /\ \A t \in Threads : pc[t] = "waiting" => at[t] = "waiting"
    BY <1>a, <2>1 DEF PcStates
  <2> HIDE DEF at
  <2> QED
    BY <1>a, <2>1, <2>2, FetchWaitInv
<1>8. ASSUME NEW c \in Consumers, GetReset(c) PROVE WaitInv'
  <2>1. /\ pc[c] = "reset" /\ pc' = [pc EXCEPT ![c] = "ready"]
        /\ \E x \in Handles : got' = [got EXCEPT ![c] = x]
        /\ UNCHANGED <<index, cnt, buf, length, capacity, arg, released>>
    BY <1>8 DEF GetReset
  <2> QED
    BY <1>a, <2>1 DEF WaitInv, TypeOK, Waiters, WaitersOf, PcStates
<1>9. CASE Clear
  <2>1. /\ length' = SemObject(0) /\ capacity' = SemObject(Size)
        /\ pc' = [t \in Threads |-> IF pc[t] = "waiting" THEN "reset" ELSE pc[t]]
        /\ index' = 0 /\ cnt' = 0
        /\ released' = {buf[i] : i \in ClearedPlaces}
        /\ UNCHANGED <<buf, arg, got>>
    BY <1>9 DEF Clear
  <2>2. /\ SemObject(0) \in [cnt : Int, queue : Seq(Consumers)]
        /\ SemObject(Size) \in [cnt : Int, queue : Seq(Producers)]
        /\ Len(SemObject(0).queue) = 0 /\ Len(SemObject(Size).queue) = 0
        /\ SemObject(0).cnt = 0 /\ SemObject(Size).cnt = Size
    BY FbqAssumption DEF SemObject
  <2>3. ClearedPlaces \subseteq 0..Size-1
    <3>1. \A i \in index .. index + length.cnt - 1 : i \in Nat
      BY <1>a DEF WaitInv, TypeOK
    <3>2. Size \in Nat \ {0}
      BY FbqAssumption
    <3>3. \A i \in index .. index + length.cnt - 1 : i % Size \in 0..Size-1
      BY <3>1, <3>2, ModRange
    <3> QED
      BY <3>3 DEF ClearedPlaces
  <2>4. released' \subseteq Handles
    BY <2>1, <2>3 DEF WaitInv, TypeOK
  <2>5. TypeOK'
    BY <1>a, <2>1, <2>2, <2>4, FbqAssumption DEF WaitInv, TypeOK, PcStates
  <2> QED
    BY <2>1, <2>2, <2>5, FbqAssumption
       DEF WaitInv, Waiters, WaitersOf, AtLeast0
<1>10. CASE UNCHANGED vars
  BY <1>10 DEF vars, WaitInv, TypeOK, Waiters, WaitersOf
<1> QED
  BY <1>1, <1>2, <1>3, <1>4, <1>5, <1>6, <1>7, <1>8, <1>9, <1>10
     DEF Next, ProducerStep, ConsumerStep

LEMMA WaitInvInit == Init => WaitInv
  BY FbqAssumption
     DEF Init, WaitInv, TypeOK, Waiters, WaitersOf, SemObject, AtLeast0, Handles, Threads

(* The variables keep their types: every place the ring is read or written *)
(* at exists (fbuf.c:482, 502), and the queues hold the right threads.     *)
THEOREM TypeCorrect == Spec => []TypeOK
<1>1. WaitInv => TypeOK
  BY DEF WaitInv
<1> QED
  BY <1>1, WaitInvInit, WaitInvStep, PTL DEF Spec

----------------------------------------------------------------------------
(***************************************************************************)
(* Accounting.  Counting the granted threads is the only use of            *)
(* cardinality; GrantFacts and UngrantFacts say how one step changes it.   *)
(***************************************************************************)
NoReset == \A t \in Threads : pc[t] # "reset"

QueueInv == WaitInv /\ Accounting /\ NoReset

\* The threads of S that f says are granted.
GrantedBy(f, S) == {t \in S : f[t] = "granted"}

LEMMA GrantFacts ==
  ASSUME NEW S \in {Producers, Consumers},
         NEW f \in [Threads -> PcStates], NEW t \in Threads
  PROVE  /\ IsFiniteSet(GrantedBy(f, S))
         /\ Cardinality(GrantedBy(f, S)) \in Nat
         /\ t \notin S => \A v : GrantedBy([f EXCEPT ![t] = v], S) = GrantedBy(f, S)
         /\ t \in S /\ f[t] # "granted" =>
              Cardinality(GrantedBy([f EXCEPT ![t] = "granted"], S))
                = Cardinality(GrantedBy(f, S)) + 1
         /\ t \in S /\ f[t] = "granted" =>
              Cardinality(GrantedBy([f EXCEPT ![t] = "ready"], S))
                = Cardinality(GrantedBy(f, S)) - 1
<1>1. IsFiniteSet(S) /\ S \subseteq Threads
  BY FbqAssumption DEF Threads
<1>2. IsFiniteSet(GrantedBy(f, S)) /\ Cardinality(GrantedBy(f, S)) \in Nat
  BY <1>1, FS_Subset, FS_CardinalityType DEF GrantedBy
<1>3. ASSUME t \notin S
      PROVE  \A v : GrantedBy([f EXCEPT ![t] = v], S) = GrantedBy(f, S)
  BY <1>1, <1>3 DEF GrantedBy
<1>4. ASSUME t \in S, f[t] # "granted"
      PROVE  Cardinality(GrantedBy([f EXCEPT ![t] = "granted"], S))
                = Cardinality(GrantedBy(f, S)) + 1
  <2>1. /\ GrantedBy([f EXCEPT ![t] = "granted"], S) = GrantedBy(f, S) \cup {t}
        /\ t \notin GrantedBy(f, S)
    BY <1>1, <1>4 DEF GrantedBy
  <2> QED
    BY <1>2, <2>1, FS_AddElement
<1>5. ASSUME t \in S, f[t] = "granted"
      PROVE  Cardinality(GrantedBy([f EXCEPT ![t] = "ready"], S))
                = Cardinality(GrantedBy(f, S)) - 1
  <2>1. /\ GrantedBy([f EXCEPT ![t] = "ready"], S) = GrantedBy(f, S) \ {t}
        /\ t \in GrantedBy(f, S)
    BY <1>1, <1>5 DEF GrantedBy
  <2> QED
    BY <1>2, <2>1, FS_RemoveElement
<1> QED
  BY <1>2, <1>3, <1>4, <1>5

\* A put that has its place stores one buffer and promises it to one get.
LEMMA StoreAccounting ==
  ASSUME WaitInv, Accounting,
         NEW p, NEW x,
         NEW cap \in [cnt : Int, queue : Seq(Producers)],
         NEW at \in [Threads -> PcStates],
         \A t \in Threads : pc[t] = "waiting" => at[t] = "waiting",
         Store(p, x, cap, at),
         GrantedBy(at, Consumers) = GrantedIn(Consumers),
         Size - cnt - 1 = AtLeast0(cap.cnt) + Cardinality(GrantedBy(at, Producers))
  PROVE  Accounting'
<1>1. /\ length \in [cnt : Int, queue : Seq(Consumers)] /\ WaitersOf(length)
      /\ cnt \in Nat /\ pc \in [Threads -> PcStates]
  BY DEF WaitInv, TypeOK, Waiters, PcStates
<1>2. /\ length' = SemSignal(length) /\ capacity' = cap
      /\ pc' = Granted(length, at) /\ cnt' = Inc8(cnt)
  BY DEF Store
<1>3. Cardinality(GrantedBy(at, Producers)) \in Nat
  BY GrantFacts, FS_Subset, FS_CardinalityType, FbqAssumption DEF GrantedBy
<1>4. cnt' = cnt + 1
  BY <1>1, <1>2, <1>3, FbqAssumption DEF Inc8, AtLeast0
<1>5. length'.cnt = length.cnt + 1
  BY <1>1, <1>2 DEF SemSignal
<1>8. cnt = AtLeast0(length.cnt) + Cardinality(GrantedBy(at, Consumers))
  BY DEF Accounting
<1>9. /\ GrantedIn(Producers)' = GrantedBy(pc', Producers)
      /\ GrantedIn(Consumers)' = GrantedBy(pc', Consumers)
  BY DEF GrantedIn, GrantedBy
<1>6. CASE length.cnt < 0
  <2> DEFINE h == Head(length.queue)
  <2>1. h \in Consumers /\ pc[h] = "waiting"
    BY <1>1, <1>6, SignalFacts
  <2>2. h \in Threads /\ h \notin Producers /\ at[h] = "waiting"
    BY <2>1, FbqAssumption DEF Threads
  <2>3. pc' = [at EXCEPT ![h] = "granted"]
    BY <1>2, <1>6 DEF Granted
  <2> HIDE DEF h
  <2>4. /\ GrantedBy(pc', Producers) = GrantedBy(at, Producers)
        /\ Cardinality(GrantedBy(pc', Consumers))
             = Cardinality(GrantedBy(at, Consumers)) + 1
    BY <2>1, <2>2, <2>3, GrantFacts
  <2>5. Cardinality(GrantedBy(at, Consumers)) \in Nat
    BY <2>2, GrantFacts
  <2>6. cnt' = AtLeast0(length'.cnt) + Cardinality(GrantedBy(pc', Consumers))
    BY <1>1, <1>4, <1>5, <1>6, <1>8, <2>4, <2>5 DEF AtLeast0
  <2>7. Size - cnt' = AtLeast0(capacity'.cnt) + Cardinality(GrantedBy(pc', Producers))
    BY <1>1, <1>2, <1>4, <2>4, FbqAssumption
  <2> QED
    BY <1>9, <2>6, <2>7 DEF Accounting
<1>7. CASE ~(length.cnt < 0)
  <2>1. pc' = at
    BY <1>2, <1>7 DEF Granted
  <2>2. Cardinality(GrantedIn(Consumers)) \in Nat
    BY FS_Subset, FS_CardinalityType, FbqAssumption DEF GrantedIn
  <2>3. cnt' = AtLeast0(length'.cnt) + Cardinality(GrantedBy(pc', Consumers))
    BY <1>1, <1>4, <1>5, <1>7, <1>8, <2>1, <2>2 DEF AtLeast0
  <2>4. Size - cnt' = AtLeast0(capacity'.cnt) + Cardinality(GrantedBy(pc', Producers))
    BY <1>1, <1>2, <1>4, <2>1, FbqAssumption
  <2> QED
    BY <1>9, <2>3, <2>4 DEF Accounting
<1> QED
  BY <1>6, <1>7

LEMMA FetchAccounting ==
  ASSUME WaitInv, Accounting,
         NEW c,
         NEW len \in [cnt : Int, queue : Seq(Consumers)],
         NEW at \in [Threads -> PcStates],
         \A t \in Threads : pc[t] = "waiting" => at[t] = "waiting",
         Fetch(c, len, at),
         GrantedBy(at, Producers) = GrantedIn(Producers),
         cnt - 1 = AtLeast0(len.cnt) + Cardinality(GrantedBy(at, Consumers))
  PROVE  Accounting'
<1>1. /\ capacity \in [cnt : Int, queue : Seq(Producers)] /\ WaitersOf(capacity)
      /\ cnt \in Nat /\ pc \in [Threads -> PcStates]
  BY DEF WaitInv, TypeOK, Waiters, PcStates
<1>2. /\ capacity' = SemSignal(capacity) /\ length' = len
      /\ pc' = Granted(capacity, at) /\ cnt' = Dec8(cnt)
  BY DEF Fetch
<1>3. Cardinality(GrantedBy(at, Consumers)) \in Nat
  BY FS_Subset, FS_CardinalityType, FbqAssumption DEF GrantedBy
<1>4. cnt' = cnt - 1
  BY <1>1, <1>2, <1>3 DEF Dec8, AtLeast0
<1>5. capacity'.cnt = capacity.cnt + 1
  BY <1>1, <1>2 DEF SemSignal
<1>8. Size - cnt = AtLeast0(capacity.cnt) + Cardinality(GrantedBy(at, Producers))
  BY DEF Accounting
<1>9. /\ GrantedIn(Producers)' = GrantedBy(pc', Producers)
      /\ GrantedIn(Consumers)' = GrantedBy(pc', Consumers)
  BY DEF GrantedIn, GrantedBy
<1>6. CASE capacity.cnt < 0
  <2> DEFINE h == Head(capacity.queue)
  <2>1. h \in Producers /\ pc[h] = "waiting"
    BY <1>1, <1>6, SignalFacts
  <2>2. h \in Threads /\ h \notin Consumers /\ at[h] = "waiting"
    BY <2>1, FbqAssumption DEF Threads
  <2>3. pc' = [at EXCEPT ![h] = "granted"]
    BY <1>2, <1>6 DEF Granted
  <2> HIDE DEF h
  <2>4. /\ GrantedBy(pc', Consumers) = GrantedBy(at, Consumers)
        /\ Cardinality(GrantedBy(pc', Producers))
             = Cardinality(GrantedBy(at, Producers)) + 1
    BY <2>1, <2>2, <2>3, GrantFacts
  <2>5. Cardinality(GrantedBy(at, Producers)) \in Nat
    BY <2>2, GrantFacts
  <2>6. Size - cnt' = AtLeast0(capacity'.cnt) + Cardinality(GrantedBy(pc', Producers))
    BY <1>1, <1>4, <1>5, <1>6, <1>8, <2>4, <2>5, FbqAssumption DEF AtLeast0
  <2>7. cnt' = AtLeast0(length'.cnt) + Cardinality(GrantedBy(pc', Consumers))
    BY <1>1, <1>2, <1>4, <2>4
  <2> QED
    BY <1>9, <2>6, <2>7 DEF Accounting
<1>7. CASE ~(capacity.cnt < 0)
  <2>1. pc' = at
    BY <1>2, <1>7 DEF Granted
  <2>2. Cardinality(GrantedIn(Producers)) \in Nat
    BY FS_Subset, FS_CardinalityType, FbqAssumption DEF GrantedIn
  <2>3. Size - cnt' = AtLeast0(capacity'.cnt) + Cardinality(GrantedBy(pc', Producers))
    BY <1>1, <1>4, <1>5, <1>7, <1>8, <2>1, <2>2, FbqAssumption DEF AtLeast0
  <2>4. cnt' = AtLeast0(length'.cnt) + Cardinality(GrantedBy(pc', Consumers))
    BY <1>1, <1>2, <1>4, <2>1
  <2> QED
    BY <1>9, <2>3, <2>4 DEF Accounting
<1> QED
  BY <1>6, <1>7

LEMMA AccountingInit == Init => Accounting
<1> SUFFICES ASSUME Init PROVE Accounting
  OBVIOUS
<1>1. GrantedIn(Producers) = {} /\ GrantedIn(Consumers) = {}
  BY DEF Init, GrantedIn, Threads
<1> QED
  BY <1>1, FS_EmptySet, FbqAssumption DEF Init, Accounting, SemObject, AtLeast0

LEMMA AccountingStep ==
  ASSUME ClearAnyTime = FALSE
  PROVE  QueueInv /\ [Next]_vars => Accounting'
<1> SUFFICES ASSUME WaitInv, Accounting, [Next]_vars PROVE Accounting'
  BY DEF QueueInv
<1>a. /\ length \in [cnt : Int, queue : Seq(Consumers)] /\ WaitersOf(length)
      /\ capacity \in [cnt : Int, queue : Seq(Producers)] /\ WaitersOf(capacity)
      /\ pc \in [Threads -> PcStates] /\ cnt \in Nat
      /\ Producers \subseteq Threads /\ Consumers \subseteq Threads
  BY DEF WaitInv, TypeOK, Waiters, Threads, PcStates
<1>b. /\ GrantedBy(pc, Producers) = GrantedIn(Producers)
      /\ GrantedBy(pc, Consumers) = GrantedIn(Consumers)
  BY DEF GrantedBy, GrantedIn
<1>c. /\ Cardinality(GrantedIn(Producers)) \in Nat
      /\ Cardinality(GrantedIn(Consumers)) \in Nat
  BY FS_Subset, FS_CardinalityType, FbqAssumption DEF GrantedIn
<1>d. /\ Size - cnt = AtLeast0(capacity.cnt) + Cardinality(GrantedBy(pc, Producers))
      /\ Cardinality(GrantedBy(pc, Producers)) \in Nat
      /\ Size \in Int /\ cnt \in Int /\ capacity.cnt \in Int
  BY <1>a, <1>b, <1>c, FbqAssumption DEF Accounting
<1>1. ASSUME NEW p \in Producers, NEW x \in Items, PutNow(p, x)
      PROVE  Accounting'
  <2>1. Store(p, x, SemTake(capacity), pc) /\ capacity.cnt > 0
    BY <1>1 DEF PutNow
  <2>2. /\ SemTake(capacity) \in [cnt : Int, queue : Seq(Producers)]
        /\ SemTake(capacity).cnt = capacity.cnt - 1
    BY <1>a, <2>1, TakeFacts
  <2>3. Size - cnt - 1 = AtLeast0(SemTake(capacity).cnt)
                         + Cardinality(GrantedBy(pc, Producers))
    BY <1>d, <2>1, <2>2 DEF AtLeast0
  <2> QED
    BY <1>a, <1>b, <2>1, <2>2, <2>3, StoreAccounting
<1>2. ASSUME NEW p \in Producers, NEW x \in Items, PutWait(p, x)
      PROVE  Accounting'
  <2>1. /\ pc[p] = "ready" /\ capacity.cnt <= 0
        /\ capacity'.cnt = capacity.cnt - 1
        /\ pc' = [pc EXCEPT ![p] = "waiting"] /\ UNCHANGED <<length, cnt>>
    BY <1>2 DEF PutWait, SemEnqueue
  <2>2. GrantedIn(Producers)' = GrantedIn(Producers)
        /\ GrantedIn(Consumers)' = GrantedIn(Consumers)
    BY <1>a, <2>1 DEF GrantedIn
  <2> QED
    BY <1>a, <2>1, <2>2 DEF Accounting, AtLeast0
<1>3. ASSUME NEW p \in Producers, PutResume(p) PROVE Accounting'
  <2> DEFINE at == [pc EXCEPT ![p] = "ready"]
  <2>1. Store(p, arg[p], capacity, at) /\ pc[p] = "granted"
    BY <1>3 DEF PutResume
  <2>2. /\ at \in [Threads -> PcStates]
        /\ \A t \in Threads : pc[t] = "waiting" => at[t] = "waiting"
    BY <1>a, <2>1 DEF PcStates
  <2>3. /\ GrantedBy(at, Consumers) = GrantedBy(pc, Consumers)
        /\ Cardinality(GrantedBy(at, Producers))
             = Cardinality(GrantedBy(pc, Producers)) - 1
    BY <1>a, <2>1, GrantFacts, FbqAssumption
  <2> HIDE DEF at
  <2>4. Size - cnt - 1 = AtLeast0(capacity.cnt) + Cardinality(GrantedBy(at, Producers))
    BY <1>d, <2>3 DEF AtLeast0
  <2> QED
    BY <1>a, <1>b, <2>1, <2>2, <2>3, <2>4, StoreAccounting
<1>4. ASSUME NEW p \in Producers, PutReset(p) PROVE Accounting'
  <2>1. /\ pc[p] = "reset" /\ pc' = [pc EXCEPT ![p] = "ready"]
        /\ UNCHANGED <<cnt, length, capacity>>
    BY <1>4 DEF PutReset
  <2>2. GrantedIn(Producers)' = GrantedIn(Producers)
        /\ GrantedIn(Consumers)' = GrantedIn(Consumers)
    BY <1>a, <2>1 DEF GrantedIn
  <2> QED
    BY <2>1, <2>2 DEF Accounting
<1>5. ASSUME NEW c \in Consumers, GetNow(c) PROVE Accounting'
  <2>1. Fetch(c, SemTake(length), pc) /\ length.cnt > 0
    BY <1>5 DEF GetNow
  <2>2. /\ SemTake(length) \in [cnt : Int, queue : Seq(Consumers)]
        /\ SemTake(length).cnt = length.cnt - 1
    BY <1>a, <2>1, TakeFacts
  <2>3. cnt - 1 = AtLeast0(SemTake(length).cnt)
                  + Cardinality(GrantedBy(pc, Consumers))
    BY <1>a, <1>b, <1>c, <2>1, <2>2 DEF Accounting, AtLeast0
  <2> QED
    BY <1>a, <1>b, <2>1, <2>2, <2>3, FetchAccounting
<1>6. ASSUME NEW c \in Consumers, GetWait(c) PROVE Accounting'
  <2>1. /\ pc[c] = "ready" /\ length.cnt <= 0
        /\ length'.cnt = length.cnt - 1
        /\ pc' = [pc EXCEPT ![c] = "waiting"] /\ UNCHANGED <<capacity, cnt>>
    BY <1>6 DEF GetWait, SemEnqueue
  <2>2. GrantedIn(Producers)' = GrantedIn(Producers)
        /\ GrantedIn(Consumers)' = GrantedIn(Consumers)
    BY <1>a, <2>1 DEF GrantedIn
  <2> QED
    BY <1>a, <2>1, <2>2 DEF Accounting, AtLeast0
<1>7. ASSUME NEW c \in Consumers, GetResume(c) PROVE Accounting'
  <2> DEFINE at == [pc EXCEPT ![c] = "ready"]
  <2>1. Fetch(c, length, at) /\ pc[c] = "granted"
    BY <1>7 DEF GetResume
  <2>2. /\ at \in [Threads -> PcStates]
        /\ \A t \in Threads : pc[t] = "waiting" => at[t] = "waiting"
    BY <1>a, <2>1 DEF PcStates
  <2>3. /\ GrantedBy(at, Producers) = GrantedBy(pc, Producers)
        /\ Cardinality(GrantedBy(at, Consumers))
             = Cardinality(GrantedBy(pc, Consumers)) - 1
    BY <1>a, <2>1, GrantFacts, FbqAssumption
  <2> HIDE DEF at
  <2>4. cnt - 1 = AtLeast0(length.cnt) + Cardinality(GrantedBy(at, Consumers))
    BY <1>a, <1>b, <1>c, <2>3 DEF Accounting, AtLeast0
  <2> QED
    BY <1>a, <1>b, <2>1, <2>2, <2>3, <2>4, FetchAccounting
<1>8. ASSUME NEW c \in Consumers, GetReset(c) PROVE Accounting'
  <2>1. /\ pc[c] = "reset" /\ pc' = [pc EXCEPT ![c] = "ready"]
        /\ UNCHANGED <<cnt, length, capacity>>
    BY <1>8 DEF GetReset
  <2>2. GrantedIn(Producers)' = GrantedIn(Producers)
        /\ GrantedIn(Consumers)' = GrantedIn(Consumers)
    BY <1>a, <2>1 DEF GrantedIn
  <2> QED
    BY <2>1, <2>2 DEF Accounting
<1>9. CASE Clear
  <2>1. /\ length'.cnt = 0 /\ capacity'.cnt = Size /\ cnt' = 0
        /\ pc' = [t \in Threads |-> IF pc[t] = "waiting" THEN "reset" ELSE pc[t]]
        /\ \A t \in Threads : pc[t] = "ready"
    BY <1>9 DEF Clear, SemObject, Quiescent
  <2>2. GrantedIn(Producers)' = {} /\ GrantedIn(Consumers)' = {}
    BY <1>a, <2>1 DEF GrantedIn
  <2> QED
    BY <2>1, <2>2, FS_EmptySet, FbqAssumption DEF Accounting, AtLeast0
<1>10. CASE UNCHANGED vars
  BY <1>10 DEF vars, Accounting, GrantedIn
<1> QED
  BY <1>1, <1>2, <1>3, <1>4, <1>5, <1>6, <1>7, <1>8, <1>9, <1>10
     DEF Next, ProducerStep, ConsumerStep

\* Nobody waits when fbq_clear is called as asked, so nobody is ever reset.
LEMMA NoResetStep ==
  ASSUME ClearAnyTime = FALSE
  PROVE  WaitInv /\ NoReset /\ [Next]_vars => NoReset'
<1> SUFFICES ASSUME WaitInv, NoReset, [Next]_vars PROVE NoReset'
  OBVIOUS
<1>a. pc \in [Threads -> PcStates] /\ \A t \in Threads : pc[t] # "reset"
  BY DEF WaitInv, TypeOK, NoReset, PcStates
<1>1. ASSUME NEW s, NEW at \in [Threads -> PcStates],
             \A t \in Threads : at[t] # "reset", pc' = Granted(s, at)
      PROVE  NoReset'
  BY <1>1 DEF Granted, NoReset
<1>2. ASSUME NEW p \in Threads, NEW v \in PcStates \ {"reset"}
      PROVE  LET at == [pc EXCEPT ![p] = v]
             IN  at \in [Threads -> PcStates] /\ \A t \in Threads : at[t] # "reset"
  BY <1>a
<1>3. ASSUME NEW p \in Producers, ProducerStep(p) PROVE NoReset'
  <2>1. CASE PutResume(p)
    BY <1>1, <1>2, <2>1 DEF PutResume, Store, Threads, PcStates
  <2>2. CASE PutReset(p)
    BY <1>a, <2>2 DEF PutReset, Threads
  <2>3. ASSUME NEW x \in Items, PutNow(p, x) PROVE NoReset'
    BY <1>1, <1>a, <2>3 DEF PutNow, Store
  <2>4. ASSUME NEW x \in Items, PutWait(p, x) PROVE NoReset'
    BY <1>a, <2>4 DEF PutWait, NoReset, Threads
  <2> QED
    BY <1>3, <2>1, <2>2, <2>3, <2>4 DEF ProducerStep
<1>4. ASSUME NEW c \in Consumers, ConsumerStep(c) PROVE NoReset'
  <2>1. CASE GetResume(c)
    BY <1>1, <1>2, <2>1 DEF GetResume, Fetch, Threads, PcStates
  <2>2. CASE GetReset(c)
    BY <1>a, <2>2 DEF GetReset, Threads
  <2>3. CASE GetNow(c)
    BY <1>1, <1>a, <2>3 DEF GetNow, Fetch
  <2>4. CASE GetWait(c)
    BY <1>a, <2>4 DEF GetWait, NoReset, Threads
  <2> QED
    BY <1>4, <2>1, <2>2, <2>3, <2>4 DEF ConsumerStep
<1>5. CASE Clear
  BY <1>a, <1>5 DEF Clear, Quiescent, NoReset
<1>6. CASE UNCHANGED vars
  BY <1>a, <1>6 DEF vars, NoReset
<1> QED
  BY <1>3, <1>4, <1>5, <1>6 DEF Next

LEMMA QueueInvInductive ==
  ASSUME ClearAnyTime = FALSE
  PROVE  /\ Init => QueueInv
         /\ QueueInv /\ [Next]_vars => QueueInv'
<1>1. Init => NoReset
  BY DEF Init, NoReset
<1> QED
  BY <1>1, WaitInvInit, AccountingInit, WaitInvStep, AccountingStep, NoResetStep
     DEF QueueInv

(* Accounting: the ring and its semaphores agree, for every ring size and  *)
(* every set of threads, provided fbq_clear is called while nobody is in a *)
(* call, as fbuf.c:454 asks.                                               *)
THEOREM AccountingHolds == ASSUME ClearAnyTime = FALSE PROVE Spec => []Accounting
<1>1. Init => QueueInv
  BY QueueInvInductive
<1>2. QueueInv /\ [Next]_vars => QueueInv'
  BY QueueInvInductive
<1>3. QueueInv => Accounting
  BY DEF QueueInv
<1> QED
  BY <1>1, <1>2, <1>3, PTL DEF Spec

LEMMA EofFromInv == QueueInv => EofExact
<1> SUFFICES ASSUME WaitInv, Accounting PROVE EofExact
  BY DEF QueueInv
<1>a. cnt \in Nat /\ capacity.cnt \in Int /\ Size \in 1..255
  BY FbqAssumption DEF WaitInv, TypeOK
<1>1. /\ Size - cnt = AtLeast0(capacity.cnt) + Cardinality(GrantedIn(Producers))
      /\ cnt \in Nat /\ capacity.cnt \in Int /\ Size \in 1..255
  BY <1>a DEF Accounting
<1>2. /\ Cardinality(GrantedIn(Producers)) \in Nat
      /\ Cardinality(GrantedIn(Producers)) = 0 <=> GrantedIn(Producers) = {}
  BY FS_Subset, FS_CardinalityType, FS_EmptySet, FbqAssumption DEF GrantedIn
<1>3. fbq_eof => cnt = 0 /\ Cardinality(GrantedIn(Producers)) = 0
  BY <1>1, <1>2 DEF AtLeast0, fbq_eof
<1>4. ASSUME ~fbq_eof, NobodyGets, GrantedIn(Producers) = {}
      PROVE  length.cnt > 0
  <2>1. GrantedIn(Consumers) = {}
    BY <1>4 DEF NobodyGets, GrantedIn
  <2>2. Cardinality(GrantedIn(Consumers)) = 0
    BY <2>1, FS_EmptySet
  <2>3. cnt = AtLeast0(length.cnt) + 0 /\ length.cnt \in Int
    BY <2>2 DEF Accounting, WaitInv, TypeOK
  <2>4. Cardinality(GrantedIn(Producers)) = 0
    BY <1>4, <1>2, Zenon
  <2>5. ~(capacity.cnt >= Size)
    BY <1>4 DEF fbq_eof
  <2>6. cnt > 0
    BY <2>4, <2>5, <1>1 DEF AtLeast0
  <2> QED
    BY <2>3, <2>6 DEF AtLeast0
<1> QED
  BY <1>2, <1>3, <1>4 DEF EofExact

(* EofExact: told by fbq_eof that the queue is empty, the encoder misses   *)
(* no packet; told that it is not, its get is not left waiting for one     *)
(* that nobody has put (fbuf.h:83, hdlc_encoder.c:211).  As above,         *)
(* fbq_clear is called while nobody is in a call.                          *)
THEOREM EofHolds == ASSUME ClearAnyTime = FALSE PROVE Spec => []EofExact
<1>1. Init => QueueInv
  BY QueueInvInductive
<1>2. QueueInv /\ [Next]_vars => QueueInv'
  BY QueueInvInductive
<1> QED
  BY <1>1, <1>2, EofFromInv, PTL DEF Spec

----------------------------------------------------------------------------
(***************************************************************************)
(* Refinement.  The buffers in the ring, oldest first, are the abstract    *)
(* queue; Store appends to it and Fetch takes its head.                    *)
(***************************************************************************)
Ring(i, n, b) == [k \in 1..n |-> b[(i + k) % Size]]
Contents == Ring(index, cnt, buf)
Status == [t \in Threads |->
             IF pc[t] = "ready" THEN "ready"
             ELSE IF t \in Producers THEN "putting" ELSE "getting"]

LEMMA PlaceValue ==
  ASSUME NEW i \in 0..Size-1, NEW m \in 1..Size
  PROVE  (i + m) % Size = IF i + m < Size THEN i + m ELSE i + m - Size
<1>1. Size \in Nat \ {0}
  BY FbqAssumption
<1> QED
  BY <1>1, ModSmall, ModWrap

\* Two places of the ring that are less than Size apart are different.
LEMMA PlacesDiffer ==
  ASSUME NEW i \in 0..Size-1, NEW j \in 1..Size, NEW k \in 1..Size, j # k
  PROVE  /\ (i + j) % Size # (i + k) % Size
         /\ (i + j) % Size \in 0..Size-1
<1>1. Size \in Nat \ {0}
  BY FbqAssumption
<1>2. /\ (i + j) % Size = IF i + j < Size THEN i + j ELSE i + j - Size
      /\ (i + k) % Size = IF i + k < Size THEN i + k ELSE i + k - Size
  BY PlaceValue
<1> QED
  BY <1>1, <1>2

LEMMA RingSeq ==
  ASSUME NEW i \in 0..Size-1, NEW n \in 0..Size, NEW b \in [0..Size-1 -> Handles]
  PROVE  /\ Ring(i, n, b) \in Seq(Handles)
         /\ Len(Ring(i, n, b)) = n
         /\ \A k \in 1..n : Ring(i, n, b)[k] = b[(i + k) % Size]
<1>1. Size \in Nat \ {0}
  BY FbqAssumption
<1>2. \A k \in 1..n : (i + k) % Size \in 0..Size-1
  <2> TAKE k \in 1..n
  <2>1. i + k \in Nat
    OBVIOUS
  <2> QED
    BY <1>1, <2>1, ModRange
<1>3. \A k \in 1..n : b[(i + k) % Size] \in Handles
  BY <1>2
<1>4. Ring(i, n, b) \in [1..n -> Handles]
  BY <1>3 DEF Ring
<1>5. n \in Nat
  BY <1>1
<1> QED
  BY <1>4, <1>5 DEF Ring

LEMMA ContentsSeq ==
  ASSUME TypeOK, cnt \in 0..Size
  PROVE  Contents \in Seq(Handles) /\ Len(Contents) = cnt
<1>1. /\ index \in 0..Size-1 /\ cnt \in 0..Size
      /\ buf \in [0..Size-1 -> Handles]
  BY DEF TypeOK
<1> QED
  BY <1>1, RingSeq DEF Contents

LEMMA StoreContents ==
  ASSUME TypeOK, cnt < Size, NEW x \in Handles,
         index' = index, cnt' = Inc8(cnt),
         buf' = [buf EXCEPT ![(index + cnt') % Size] = x]
  PROVE  Contents' = Append(Contents, x)
<1>1. /\ cnt' = cnt + 1 /\ cnt \in 0..Size-1 /\ cnt' \in 1..Size
      /\ index \in 0..Size-1 /\ Size \in Nat \ {0}
      /\ buf \in [0..Size-1 -> Handles]
  BY FbqAssumption DEF TypeOK, Inc8
<1>2. (index + cnt') % Size \in 0..Size-1
  BY <1>1, ModRange
<1>3. /\ buf' \in [0..Size-1 -> Handles]
      /\ buf'[(index + cnt') % Size] = x
  BY <1>1, <1>2
<1>4. /\ Contents \in Seq(Handles) /\ Len(Contents) = cnt
      /\ \A k \in 1..cnt : Contents[k] = buf[(index + k) % Size]
  <2>1. cnt \in 0..Size
    BY <1>1
  <2> QED
    BY <1>1, <2>1, RingSeq DEF Contents
<1>5. /\ Contents' \in Seq(Handles) /\ Len(Contents') = cnt + 1
      /\ \A k \in 1..cnt+1 : Contents'[k] = buf'[(index + k) % Size]
  <2>1. cnt + 1 \in 0..Size
    BY <1>1
  <2>2. Contents' = Ring(index, cnt + 1, buf')
    BY <1>1 DEF Contents
  <2>3. index \in 0..Size-1 /\ buf' \in [0..Size-1 -> Handles]
    BY <1>1, <1>3
  <2>4. /\ Ring(index, cnt + 1, buf') \in Seq(Handles)
        /\ Len(Ring(index, cnt + 1, buf')) = cnt + 1
        /\ \A k \in 1..cnt+1 :
              Ring(index, cnt + 1, buf')[k] = buf'[(index + k) % Size]
    BY <2>1, <2>3, RingSeq
  <2> QED
    BY <2>2, <2>4
<1>6. \A k \in 1..cnt : buf'[(index + k) % Size] = buf[(index + k) % Size]
  <2> TAKE k \in 1..cnt
  <2>1. k \in 1..Size /\ k # cnt'
    BY <1>1
  <2>2. /\ (index + k) % Size # (index + cnt') % Size
        /\ (index + k) % Size \in 0..Size-1
    BY <1>1, <2>1, PlacesDiffer
  <2> QED
    BY <1>1, <2>2
<1>7. /\ Append(Contents, x) \in Seq(Handles)
      /\ Len(Append(Contents, x)) = cnt + 1
      /\ \A k \in 1..cnt : Append(Contents, x)[k] = Contents[k]
      /\ Append(Contents, x)[cnt + 1] = x
  BY <1>4
<1>8. \A k \in 1..cnt+1 : Contents'[k] = Append(Contents, x)[k]
  <2> TAKE k \in 1..cnt+1
  <2>1. CASE k = cnt + 1
    BY <1>1, <1>3, <1>5, <1>7, <2>1
  <2>2. CASE k # cnt + 1
    <3>1. k \in 1..cnt
      BY <1>1, <2>2
    <3> QED
      BY <1>4, <1>5, <1>6, <1>7, <3>1
  <2> QED
    BY <2>1, <2>2
<1> QED
  BY <1>5, <1>7, <1>8, SeqEqual

LEMMA FetchContents ==
  ASSUME TypeOK, cnt \in 1..Size,
         index' = (index + 1) % Size, cnt' = Dec8(cnt), buf' = buf
  PROVE  /\ Contents # << >>
         /\ Head(Contents) = buf[index']
         /\ Contents' = Tail(Contents)
<1>1. /\ cnt' = cnt - 1 /\ cnt - 1 \in 0..Size
      /\ index \in 0..Size-1 /\ Size \in Nat \ {0}
      /\ buf \in [0..Size-1 -> Handles]
  BY FbqAssumption DEF TypeOK, Dec8
<1>2. \A m \in 1..Size : (index + m) % Size = IF index + m < Size THEN index + m ELSE index + m - Size
  BY <1>1, PlaceValue
<1>3. index' \in 0..Size-1
  BY <1>1, ModRange
<1>4. \A k \in 1..cnt-1 : (index' + k) % Size = (index + (k+1)) % Size
  <2> TAKE k \in 1..cnt-1
  <2>0. k \in Nat /\ k < Size /\ k + 1 \in 1..Size
    BY <1>1
  <2>1. CASE index + 1 < Size
    <3>1. index' = index + 1
      BY <1>1, <1>2, <2>1
    <3> QED
      BY <1>1, <2>0, <3>1
  <2>2. CASE index + 1 = Size
    <3>1. index' = 0
      BY <1>1, <2>2, ModWrap
    <3>2. (index' + k) % Size = k
      BY <1>1, <2>0, <3>1, ModSmall
    <3>3. (index + (k+1)) % Size = index + (k + 1) - Size
      BY <1>1, <1>2, <2>0, <2>2
    <3> QED
      BY <1>1, <2>0, <2>2, <3>2, <3>3
  <2> QED
    BY <1>1, <2>1, <2>2
<1>5. /\ Contents \in Seq(Handles) /\ Len(Contents) = cnt
      /\ \A k \in 1..cnt : Contents[k] = buf[(index + k) % Size]
  <2>1. cnt \in 0..Size
    BY <1>1
  <2> QED
    BY <1>1, <2>1, RingSeq DEF Contents
<1>6. /\ Contents' \in Seq(Handles) /\ Len(Contents') = cnt - 1
      /\ \A k \in 1..cnt-1 : Contents'[k] = buf[(index' + k) % Size]
  <2>1. Contents' = Ring(index', cnt - 1, buf)
    BY <1>1 DEF Contents
  <2> QED
    BY <1>1, <1>3, <2>1, RingSeq
<1>7. Contents # << >> /\ Head(Contents) = buf[index']
  BY <1>1, <1>5
<1>8. /\ Tail(Contents) \in Seq(Handles) /\ Len(Tail(Contents)) = cnt - 1
      /\ \A k \in 1..cnt-1 : Tail(Contents)[k] = Contents[k+1]
  BY <1>1, <1>5, <1>7, HeadTailProperties
<1>9. \A k \in 1..cnt-1 : Contents'[k] = Tail(Contents)[k]
  <2> TAKE k \in 1..cnt-1
  <2>1. k + 1 \in 1..cnt
    BY <1>1
  <2>2. Contents'[k] = buf[(index + (k+1)) % Size]
    BY <1>4, <1>6
  <2>3. Tail(Contents)[k] = buf[(index + (k+1)) % Size]
    BY <1>5, <1>8, <2>1
  <2> QED
    BY <2>2, <2>3
<1> QED
  BY <1>6, <1>7, <1>8, <1>9, SeqEqual

\* Granting a semaphore moves a thread from waiting to granted: both are
\* inside a call.
LEMMA GrantedStatus ==
  ASSUME NEW s, NEW at \in [Threads -> PcStates],
         s.cnt < 0 => Head(s.queue) \in Threads /\ at[Head(s.queue)] # "ready",
         pc' = Granted(s, at)
  PROVE  \A t \in Threads : pc'[t] = "ready" <=> at[t] = "ready"
  BY DEF Granted

\* A thread that is granted is promised a buffer or a place that is there.
LEMMA GrantedRoom ==
  ASSUME QueueInv
  PROVE  /\ cnt \in 0..Size
         /\ \A p \in Producers : pc[p] = "granted" => cnt < Size
         /\ \A c \in Consumers : pc[c] = "granted" => cnt > 0
         /\ capacity.cnt > 0 => cnt < Size
         /\ length.cnt > 0 => cnt > 0
<1>1. /\ Size - cnt = AtLeast0(capacity.cnt) + Cardinality(GrantedIn(Producers))
      /\ cnt = AtLeast0(length.cnt) + Cardinality(GrantedIn(Consumers))
  BY DEF QueueInv, Accounting
<1>2. cnt \in Nat /\ capacity.cnt \in Int /\ length.cnt \in Int /\ Size \in Nat
  BY FbqAssumption DEF QueueInv, WaitInv, TypeOK
<1>3. \A S \in {Producers, Consumers} :
        /\ Cardinality(GrantedIn(S)) \in Nat
        /\ Cardinality(GrantedIn(S)) = 0 <=> GrantedIn(S) = {}
  BY FS_Subset, FS_CardinalityType, FS_EmptySet, FbqAssumption DEF GrantedIn
<1>4. /\ \A p \in Producers : pc[p] = "granted" => GrantedIn(Producers) # {}
      /\ \A c \in Consumers : pc[c] = "granted" => GrantedIn(Consumers) # {}
  BY DEF GrantedIn
<1>5. /\ Cardinality(GrantedIn(Producers)) \in Nat
      /\ Cardinality(GrantedIn(Consumers)) \in Nat
      /\ GrantedIn(Producers) # {} => Cardinality(GrantedIn(Producers)) # 0
      /\ GrantedIn(Consumers) # {} => Cardinality(GrantedIn(Consumers)) # 0
  BY <1>3
<1>6. /\ cnt \in 0..Size
      /\ GrantedIn(Producers) # {} => cnt < Size
      /\ GrantedIn(Consumers) # {} => cnt > 0
      /\ capacity.cnt > 0 => cnt < Size
      /\ length.cnt > 0 => cnt > 0
  BY <1>1, <1>2, <1>5 DEF AtLeast0
<1> QED
  BY <1>4, <1>6

\* What a Store or a Fetch does to the state of the threads' calls.
LEMMA StoreStatus ==
  ASSUME WaitInv, NEW p \in Producers, NEW x, NEW cap,
         NEW at \in [Threads -> PcStates],
         \A t \in Threads : pc[t] = "waiting" => at[t] = "waiting",
         at = pc \/ at = [pc EXCEPT ![p] = "ready"],
         Store(p, x, cap, at)
  PROVE  \A t \in Threads : pc'[t] = "ready" <=> at[t] = "ready"
<1>1. pc' = Granted(length, at)
  BY DEF Store
<1>2. /\ length \in [cnt : Int, queue : Seq(Consumers)] /\ WaitersOf(length)
  BY DEF WaitInv, TypeOK, Waiters
<1>3. length.cnt < 0 => /\ Head(length.queue) \in Consumers
                        /\ pc[Head(length.queue)] = "waiting"
  BY <1>2, SignalFacts
<1>4. length.cnt < 0 => /\ Head(length.queue) \in Threads
                        /\ at[Head(length.queue)] # "ready"
  BY <1>3 DEF Threads
<1> QED
  BY <1>1, <1>4, GrantedStatus

LEMMA FetchStatus ==
  ASSUME WaitInv, NEW c \in Consumers, NEW len,
         NEW at \in [Threads -> PcStates],
         \A t \in Threads : pc[t] = "waiting" => at[t] = "waiting",
         Fetch(c, len, at)
  PROVE  \A t \in Threads : pc'[t] = "ready" <=> at[t] = "ready"
<1>1. pc' = Granted(capacity, at)
  BY DEF Fetch
<1>2. /\ capacity \in [cnt : Int, queue : Seq(Producers)] /\ WaitersOf(capacity)
  BY DEF WaitInv, TypeOK, Waiters
<1>3. capacity.cnt < 0 => /\ Head(capacity.queue) \in Producers
                          /\ pc[Head(capacity.queue)] = "waiting"
  BY <1>2, SignalFacts
<1>4. capacity.cnt < 0 => /\ Head(capacity.queue) \in Threads
                          /\ at[Head(capacity.queue)] # "ready"
  BY <1>3 DEF Threads
<1> QED
  BY <1>1, <1>4, GrantedStatus

LEMMA RefinementInit == Init => Fifo!FifoInit
<1> SUFFICES ASSUME Init PROVE Fifo!FifoInit
  OBVIOUS
<1>1. WaitInv
  BY WaitInvInit
<1>2. Contents = << >>
  <2>1. cnt = 0 /\ index \in 0..Size-1 /\ buf \in [0..Size-1 -> Handles] /\ 0 \in 0..Size
    BY <1>1, FbqAssumption DEF Init, WaitInv, TypeOK
  <2>2. Contents \in Seq(Handles) /\ Len(Contents) = 0
    BY <2>1, RingSeq DEF Contents
  <2> QED
    BY <2>2
<1>3. Status = [t \in Threads |-> "ready"]
  BY DEF Init, Status
<1>4. /\ arg = [p \in Producers |-> Blank]
      /\ got = [c \in Consumers |-> Blank]
  BY DEF Init
<1> QED
  BY <1>2, <1>3, <1>4 DEF Fifo!FifoInit, Fifo!Threads, Threads, Contents, Ring, Status

LEMMA RefinementStep ==
  ASSUME ClearAnyTime = FALSE
  PROVE  QueueInv /\ [Next]_vars => [Fifo!FifoNext]_(Fifo!fifoVars)
<1> SUFFICES ASSUME QueueInv, [Next]_vars
             PROVE  [Fifo!FifoNext]_(Fifo!fifoVars)
  OBVIOUS
<1>a. /\ TypeOK /\ WaitInv
      /\ pc \in [Threads -> PcStates] /\ arg \in [Producers -> Handles]
      /\ Producers \subseteq Threads /\ Consumers \subseteq Threads
      /\ \A t \in Consumers : t \notin Producers
      /\ cnt \in 0..Size /\ Items \subseteq Handles
  BY GrantedRoom, FbqAssumption
     DEF QueueInv, WaitInv, TypeOK, Threads, PcStates, Handles
<1>b. cnt \in 0..Size /\ index \in 0..Size-1 /\ buf \in [0..Size-1 -> Handles]
  BY <1>a DEF TypeOK
<1>c. Contents \in Seq(Handles) /\ Len(Contents) = cnt
  BY <1>a, ContentsSeq
<1>1. ASSUME NEW p \in Producers, NEW x \in Items, PutNow(p, x)
      PROVE  Fifo!PutNow(p, x)
  <2>1. /\ Store(p, x, SemTake(capacity), pc) /\ pc[p] = "ready"
        /\ arg' = [arg EXCEPT ![p] = x] /\ cnt < Size
    BY <1>1, GrantedRoom DEF PutNow
  <2>2. Contents' = Append(Contents, x)
    BY <1>a, <2>1, StoreContents DEF Store
  <2>3. Status' = Status
    <3>1. \A t \in Threads : pc'[t] = "ready" <=> pc[t] = "ready"
      BY <1>a, <2>1, StoreStatus
    <3> QED
      BY <3>1 DEF Status
  <2>4. Status[p] = "ready" /\ got' = got
    BY <1>a, <2>1 DEF Status, Store
  <2> QED
    BY <1>c, <2>1, <2>2, <2>3, <2>4 DEF Fifo!PutNow, Contents, Ring, Status
<1>2. ASSUME NEW p \in Producers, NEW x \in Items, PutWait(p, x)
      PROVE  Fifo!BeginPut(p, x)
  <2>1. /\ pc[p] = "ready" /\ arg' = [arg EXCEPT ![p] = x]
        /\ pc' = [pc EXCEPT ![p] = "waiting"]
        /\ UNCHANGED <<index, cnt, buf, got>>
    BY <1>2 DEF PutWait
  <2>2. Contents' = Contents
    BY <2>1 DEF Contents
  <2>3. Status' = [Status EXCEPT ![p] = "putting"] /\ Status[p] = "ready"
    BY <1>a, <2>1 DEF Status
  <2> QED
    BY <2>1, <2>2, <2>3 DEF Fifo!BeginPut, Contents, Ring, Status
<1>3. ASSUME NEW p \in Producers, PutResume(p)
      PROVE  Fifo!EndPut(p)
  <2> DEFINE at == [pc EXCEPT ![p] = "ready"]
  <2>1. /\ Store(p, arg[p], capacity, at) /\ pc[p] = "granted"
        /\ arg' = arg /\ cnt < Size /\ arg[p] \in Handles
    BY <1>3, <1>a, GrantedRoom DEF PutResume
  <2>2. Contents' = Append(Contents, arg[p])
    BY <1>a, <2>1, StoreContents DEF Store
  <2>3. Status' = [Status EXCEPT ![p] = "ready"]
    <3>1. /\ at \in [Threads -> PcStates]
          /\ \A t \in Threads : pc[t] = "waiting" => at[t] = "waiting"
          /\ \A t \in Threads : at[t] = IF t = p THEN "ready" ELSE pc[t]
      BY <1>a, <2>1 DEF PcStates
    <3>2. \A t \in Threads : pc'[t] = "ready" <=> at[t] = "ready"
      BY <1>a, <2>1, <3>1, StoreStatus
    <3>3. \A t \in Threads : pc'[t] = "ready" <=> t = p \/ pc[t] = "ready"
      BY <3>1, <3>2
    <3> QED
      BY <3>3 DEF Status
  <2>4. Status[p] = "putting" /\ got' = got
    BY <1>a, <2>1 DEF Status, Store
  <2> QED
    BY <1>c, <2>1, <2>2, <2>3, <2>4 DEF Fifo!EndPut, Contents, Ring, Status
<1>4. ASSUME NEW p \in Producers, PutReset(p) PROVE FALSE
  BY <1>4, <1>a DEF QueueInv, NoReset, PutReset
<1>5. ASSUME NEW c \in Consumers, GetNow(c)
      PROVE  Fifo!EndGet(c)
  <2>1. /\ Fetch(c, SemTake(length), pc) /\ pc[c] = "ready" /\ cnt \in 1..Size
    BY <1>5, <1>a, GrantedRoom DEF GetNow
  <2>2. /\ Contents # << >> /\ Head(Contents) = buf[index']
        /\ Contents' = Tail(Contents)
    BY <1>a, <2>1, FetchContents DEF Fetch
  <2>3. Status' = Status /\ Status[c] = "ready"
    <3>1. \A t \in Threads : pc'[t] = "ready" <=> pc[t] = "ready"
      BY <1>a, <2>1, FetchStatus
    <3> QED
      BY <1>a, <2>1, <3>1 DEF Status
  <2>4. Status' = [Status EXCEPT ![c] = "ready"]
    BY <2>3 DEF Status
  <2>5. got' = [got EXCEPT ![c] = Head(Contents)] /\ arg' = arg
    BY <2>1, <2>2 DEF Fetch
  <2> QED
    BY <2>2, <2>3, <2>4, <2>5 DEF Fifo!EndGet, Contents, Ring, Status
<1>6. ASSUME NEW c \in Consumers, GetWait(c)
      PROVE  Fifo!BeginGet(c)
  <2>1. /\ pc[c] = "ready" /\ pc' = [pc EXCEPT ![c] = "waiting"]
        /\ UNCHANGED <<index, cnt, buf, arg, got>>
    BY <1>6 DEF GetWait
  <2>2. Contents' = Contents
    BY <2>1 DEF Contents
  <2>3. Status' = [Status EXCEPT ![c] = "getting"] /\ Status[c] = "ready"
    BY <1>a, <2>1 DEF Status
  <2> QED
    BY <2>1, <2>2, <2>3 DEF Fifo!BeginGet, Contents, Ring, Status
<1>7. ASSUME NEW c \in Consumers, GetResume(c)
      PROVE  Fifo!EndGet(c)
  <2> DEFINE at == [pc EXCEPT ![c] = "ready"]
  <2>1. Fetch(c, length, at) /\ pc[c] = "granted" /\ cnt \in 1..Size
    BY <1>7, <1>a, GrantedRoom DEF GetResume
  <2>2. /\ Contents # << >> /\ Head(Contents) = buf[index']
        /\ Contents' = Tail(Contents)
    BY <1>a, <2>1, FetchContents DEF Fetch
  <2>3. Status' = [Status EXCEPT ![c] = "ready"]
    <3>1. /\ at \in [Threads -> PcStates]
          /\ \A t \in Threads : pc[t] = "waiting" => at[t] = "waiting"
          /\ \A t \in Threads : at[t] = IF t = c THEN "ready" ELSE pc[t]
      BY <1>a, <2>1 DEF PcStates
    <3>2. \A t \in Threads : pc'[t] = "ready" <=> at[t] = "ready"
      BY <1>a, <2>1, <3>1, FetchStatus
    <3>3. \A t \in Threads : pc'[t] = "ready" <=> t = c \/ pc[t] = "ready"
      BY <3>1, <3>2
    <3> QED
      BY <3>3 DEF Status
  <2>4. Status[c] = "getting"
    BY <1>a, <2>1 DEF Status
  <2>5. got' = [got EXCEPT ![c] = Head(Contents)] /\ arg' = arg
    BY <2>1, <2>2 DEF Fetch
  <2> QED
    BY <2>2, <2>3, <2>4, <2>5 DEF Fifo!EndGet, Contents, Ring, Status
<1>8. ASSUME NEW c \in Consumers, GetReset(c) PROVE FALSE
  BY <1>8, <1>a DEF QueueInv, NoReset, GetReset
<1>9. ASSUME Clear PROVE Fifo!Empty
  <2>1. /\ \A t \in Threads : pc[t] = "ready" /\ pc'[t] = "ready"
        /\ cnt' = 0 /\ index' = 0 /\ UNCHANGED <<buf, arg, got>>
    BY <1>9 DEF Clear, Quiescent
  <2>2. Contents' = << >>
    <3>1. 0 \in 0..Size /\ 0 \in 0..Size-1
      BY FbqAssumption
    <3>2. Contents' \in Seq(Handles) /\ Len(Contents') = 0
      BY <1>b, <2>1, <3>1, RingSeq DEF Contents
    <3> QED
      BY <3>2
  <2>3. Status' = Status /\ \A t \in Threads : Status[t] = "ready"
    BY <2>1 DEF Status
  <2> QED
    BY <2>1, <2>2, <2>3 DEF Fifo!Empty, Fifo!Threads, Threads, Contents, Ring, Status
<1>10. ASSUME UNCHANGED vars PROVE UNCHANGED Fifo!fifoVars
  BY <1>10 DEF vars, Fifo!fifoVars
<1> QED
  BY <1>1, <1>2, <1>3, <1>4, <1>5, <1>6, <1>7, <1>8, <1>9, <1>10
     DEF Next, ProducerStep, ConsumerStep, Fifo!FifoNext

(* ImplementsFifo: FBQ is a bounded first-in first-out queue, for every    *)
(* ring size, every set of threads and every schedule of their calls, as   *)
(* long as fbq_clear is only called while nobody is in a call.             *)
THEOREM Refinement == ASSUME ClearAnyTime = FALSE PROVE Spec => ImplementsFifo
<1>1. Init => QueueInv
  BY QueueInvInductive
<1>2. QueueInv /\ [Next]_vars => QueueInv'
  BY QueueInvInductive
<1>3. Init => Fifo!FifoInit
  BY RefinementInit
<1>4. QueueInv /\ [Next]_vars => [Fifo!FifoNext]_(Fifo!fifoVars)
  BY RefinementStep
<1> QED
  BY <1>1, <1>2, <1>3, <1>4, PTL DEF Spec, ImplementsFifo, Fifo!FifoSpec

=============================================================================
