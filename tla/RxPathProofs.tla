---------------------------- MODULE RxPathProofs ----------------------------
(***************************************************************************)
(* The distribution of received frames, for any subscribers, any size of   *)
(* their queues and any number of frames and stops: every frame gets to    *)
(* every subscriber that is on, once and in order, and no reference to a   *)
(* buffer is lost or released twice in quiet times.                        *)
(***************************************************************************)
EXTENDS RxPath, FiniteSetTheorems, SequenceTheorems, TLAPS

----------------------------------------------------------------------------
(* The ring of one queue. *)

Putters == {"decoder", "control"}

\* A queue with the buffers up to n.
QueueSet(n) ==
  [index : 0..Size-1, cnt : Nat, length : Int, capacity : Int, putters : Seq(Putters),
   buf : [0..Size-1 -> 0..n]]

At(s, k) == (s.index + k) % Size

\* What Store, PutWait and Fetch make of a queue.
Stored(s, x) ==
  [s EXCEPT !.cnt = @ + 1, !.length = @ + 1, !.buf[(s.index + s.cnt + 1) % Size] = x]

Waiting(s, who) == [Taken(s) EXCEPT !.putters = Append(@, who)]

Fetched(s) ==
  [s EXCEPT !.index = (@ + 1) % Size, !.cnt = @ - 1, !.capacity = @ + 1,
            !.putters = IF @ = << >> THEN @ ELSE Tail(@)]

LEMMA SizeFacts == Size \in Nat \ {0} /\ Subs \subseteq 0..2 /\ Controlled \subseteq Subs
BY RxAssumption

LEMMA AtValue ==
  ASSUME NEW i \in 0..Size-1, NEW k \in 1..Size
  PROVE  /\ (i + k) % Size = IF i + k < Size THEN i + k ELSE i + k - Size
         /\ (i + k) % Size \in 0..Size-1
<1>1. Size \in Nat \ {0}
  BY SizeFacts
<1>2. CASE i + k < Size
  BY <1>1, <1>2
<1>3. CASE ~(i + k < Size)
  <2>1. i + k \in Size .. 2*Size-1
    BY <1>1, <1>3
  <2> QED
    BY <1>1, <1>3, <2>1
<1> QED
  BY <1>2, <1>3

\* Places that are less than Size apart are different.
LEMMA PlacesDiffer ==
  ASSUME NEW i \in 0..Size-1, NEW j \in 1..Size, NEW k \in 1..Size, j # k
  PROVE  (i + j) % Size # (i + k) % Size
<1>1. Size \in Nat \ {0}
  BY SizeFacts
<1>2. /\ (i + j) % Size = IF i + j < Size THEN i + j ELSE i + j - Size
      /\ (i + k) % Size = IF i + k < Size THEN i + k ELSE i + k - Size
  BY AtValue
<1> QED
  BY <1>1, <1>2

LEMMA NextPlace ==
  ASSUME NEW i \in 0..Size-1, NEW k \in 1..Size-1
  PROVE  (((i + 1) % Size) + k) % Size = (i + (k + 1)) % Size
<1>1. Size \in Nat \ {0} /\ k + 1 \in 1..Size /\ 1 \in 1..Size /\ k \in 1..Size
  BY SizeFacts
<1>2. /\ (i + 1) % Size = IF i + 1 < Size THEN i + 1 ELSE i + 1 - Size
      /\ (i + 1) % Size \in 0..Size-1
      /\ (i + (k + 1)) % Size = IF i + (k + 1) < Size THEN i + (k + 1) ELSE i + (k + 1) - Size
  BY <1>1, AtValue
<1> DEFINE n == (i + 1) % Size
<1>3. (n + k) % Size = IF n + k < Size THEN n + k ELSE n + k - Size
  BY <1>1, <1>2, AtValue
<1> QED
  BY <1>1, <1>2, <1>3

\* A buffer goes to the end of the queue.
LEMMA StoredFacts ==
  ASSUME NEW n \in Nat, NEW s \in QueueSet(n), NEW x \in 0..n, s.cnt < Size,
         NEW r, r = Stored(s, x)
  PROVE  /\ r \in QueueSet(n) /\ r.index = s.index /\ r.cnt = s.cnt + 1
         /\ r.length = s.length + 1 /\ r.capacity = s.capacity /\ r.putters = s.putters
         /\ \A k \in 1..s.cnt : r.buf[At(s, k)] = s.buf[At(s, k)]
         /\ r.buf[At(s, s.cnt + 1)] = x
<1>1. PICK b : b = [s.buf EXCEPT ![(s.index + s.cnt + 1) % Size] = x]
  OBVIOUS
<1>2. r = [index |-> s.index, cnt |-> s.cnt + 1, length |-> s.length + 1,
           capacity |-> s.capacity, putters |-> s.putters, buf |-> b]
  BY <1>1 DEF Stored, QueueSet
<1>3. /\ s.index \in 0..Size-1 /\ s.cnt \in Nat /\ s.cnt + 1 \in Nat /\ s.length \in Int
      /\ s.capacity \in Int /\ s.buf \in [0..Size-1 -> 0..n] /\ s.putters \in Seq(Putters)
  BY DEF QueueSet
<1>4. /\ Size \in Nat \ {0} /\ s.cnt + 1 \in 1..Size
      /\ s.index + s.cnt + 1 = s.index + (s.cnt + 1)
  <2>1. Size \in Nat \ {0} /\ s.cnt < Size
    BY SizeFacts
  <2>2. \A c \in Nat : c < Size => c + 1 \in 1..Size
    BY <2>1
  <2>3. \A a, c \in Nat : a + c + 1 = a + (c + 1)
    OBVIOUS
  <2>4. s.index \in Nat
    BY <1>3
  <2> QED
    BY <1>3, <2>1, <2>2, <2>3, <2>4
<1>5. At(s, s.cnt + 1) = (s.index + s.cnt + 1) % Size /\ At(s, s.cnt + 1) \in 0..Size-1
  BY <1>3, <1>4, AtValue DEF At
<1>6. b \in [0..Size-1 -> 0..n] /\ b[At(s, s.cnt + 1)] = x
  BY <1>1, <1>3, <1>5
<1>7. \A k \in 1..s.cnt : b[At(s, k)] = s.buf[At(s, k)]
  <2> TAKE k \in 1..s.cnt
  <2>1. k \in 1..Size /\ k # s.cnt + 1
    BY <1>3, <1>4
  <2>2. At(s, k) # At(s, s.cnt + 1) /\ At(s, k) \in 0..Size-1
    BY <1>3, <1>4, <2>1, PlacesDiffer, AtValue DEF At
  <2> QED
    BY <1>1, <1>3, <1>5, <2>2
<1>8. r \in QueueSet(n)
  BY <1>2, <1>3, <1>6 DEF QueueSet
<1> QED
  BY <1>2, <1>6, <1>7, <1>8

LEMMA TakenFacts ==
  ASSUME NEW n \in Nat, NEW s \in QueueSet(n), NEW r, r = Taken(s)
  PROVE  /\ r \in QueueSet(n) /\ r.capacity = s.capacity - 1
         /\ r.index = s.index /\ r.cnt = s.cnt /\ r.length = s.length
         /\ r.putters = s.putters /\ r.buf = s.buf
<1>1. r = [index |-> s.index, cnt |-> s.cnt, length |-> s.length,
           capacity |-> s.capacity - 1, putters |-> s.putters, buf |-> s.buf]
  BY DEF Taken, QueueSet
<1> QED
  BY <1>1 DEF QueueSet

\* A thread joins those that wait for a place.
LEMMA WaitingFacts ==
  ASSUME NEW n \in Nat, NEW s \in QueueSet(n), NEW who \in Putters, NEW r, r = Waiting(s, who)
  PROVE  /\ r \in QueueSet(n) /\ r.capacity = s.capacity - 1
         /\ r.index = s.index /\ r.cnt = s.cnt /\ r.length = s.length
         /\ r.putters = Append(s.putters, who) /\ r.buf = s.buf
<1>1. PICK t : t = Taken(s)
  OBVIOUS
<1>2. /\ t \in QueueSet(n) /\ t.capacity = s.capacity - 1
      /\ t.index = s.index /\ t.cnt = s.cnt /\ t.length = s.length
      /\ t.putters = s.putters /\ t.buf = s.buf
  BY <1>1, TakenFacts
<1>3. s.putters \in Seq(Putters)
  BY DEF QueueSet
<1>4. PICK p : p = Append(s.putters, who)
  OBVIOUS
<1>5. r = [t EXCEPT !.putters = p]
  BY <1>1, <1>2, <1>4 DEF Waiting
<1>6. r = [index |-> t.index, cnt |-> t.cnt, length |-> t.length,
           capacity |-> t.capacity, putters |-> p, buf |-> t.buf]
  BY <1>2, <1>5 DEF QueueSet
<1>7. p \in Seq(Putters)
  BY <1>3, <1>4
<1>8. r \in QueueSet(n)
  BY <1>2, <1>6, <1>7 DEF QueueSet
<1> QED
  BY <1>2, <1>4, <1>6, <1>8

\* The first buffer is taken; the others are where they were.
LEMMA FetchedFacts ==
  ASSUME NEW n \in Nat, NEW s \in QueueSet(n), s.cnt \in 1..Size, NEW r, r = Fetched(s)
  PROVE  /\ r \in QueueSet(n) /\ r.cnt = s.cnt - 1 /\ r.length = s.length
         /\ r.capacity = s.capacity + 1 /\ r.buf = s.buf
         /\ r.putters = IF s.putters = << >> THEN << >> ELSE Tail(s.putters)
         /\ \A k \in 1..s.cnt-1 : At(r, k) = At(s, k + 1)
         /\ (s.index + 1) % Size = At(s, 1)
<1>1. /\ s.index \in 0..Size-1 /\ s.cnt - 1 \in Nat /\ s.length \in Int
      /\ s.capacity + 1 \in Int /\ s.buf \in [0..Size-1 -> 0..n] /\ s.putters \in Seq(Putters)
  BY DEF QueueSet
<1>2. Size \in Nat \ {0} /\ 1 \in 1..Size
  BY SizeFacts
<1>3. PICK p : p = IF s.putters = << >> THEN << >> ELSE Tail(s.putters)
  OBVIOUS
<1>4. r = [index |-> (s.index + 1) % Size, cnt |-> s.cnt - 1, length |-> s.length,
           capacity |-> s.capacity + 1, putters |-> p, buf |-> s.buf]
  BY <1>3 DEF Fetched, QueueSet
<1>5. (s.index + 1) % Size \in 0..Size-1
  BY <1>1, <1>2, AtValue
<1>6. r \in QueueSet(n)
  <2>1. p \in Seq(Putters)
    BY <1>1, <1>3
  <2> QED
    BY <1>1, <1>4, <1>5, <2>1 DEF QueueSet
<1>7. \A k \in 1..s.cnt-1 : At(r, k) = At(s, k + 1)
  <2> TAKE k \in 1..s.cnt-1
  <2>1. k \in 1..Size-1
    BY <1>1, <1>2
  <2>2. r.index = (s.index + 1) % Size
    BY <1>4
  <2> QED
    BY <1>1, <2>1, <2>2, NextPlace DEF At
<1> QED
  BY <1>3, <1>4, <1>6, <1>7 DEF At

----------------------------------------------------------------------------
(* Semaphores and threads.                                                 *)

Types ==
  /\ decoder \in {"idle", "run", "wait", "granted", "reset"}
  /\ stage \in 0..Done /\ owns \in BOOLEAN /\ quiet \in BOOLEAN
  /\ ref \in Seq(Int) /\ frames \subseteq 1..Used /\ fbuf \in 0..Used
  /\ mqueue \in [Subs -> BOOLEAN] /\ on \in [Subs -> BOOLEAN]
  /\ q \in [Subs -> QueueSet(Used)]
  /\ thread \in [Subs -> {"none", "start", "wait", "granted", "busy", "ending"}]
  /\ control \in [Subs -> {"off", "on", "radio", "wait", "granted", "join"}]
  /\ held \in [Subs -> 0..Used] /\ signal \in [Subs -> 0..Used] /\ since \in [Subs -> 0..Used]
  /\ seen \in [Subs -> Seq(0..Used)]

\* Places that have been granted to a thread that has not used it yet.
Reserved(i) ==
  (IF decoder = "granted" /\ stage = i THEN 1 ELSE 0) + (IF control[i] = "granted" THEN 1 ELSE 0)

Free(i) == Size - q[i].cnt - Reserved(i)

\* The semaphore length, and the thread that waits for it.
LengthExact(i) ==
  /\ thread[i] = "wait" => q[i].cnt = 0 /\ q[i].length = -1
  /\ thread[i] = "granted" => q[i].cnt >= 1 /\ q[i].length = q[i].cnt - 1
  /\ thread[i] \notin {"wait", "granted"} => q[i].length = q[i].cnt

\* The semaphore capacity.
CapacityExact(i) ==
  /\ Free(i) >= 0
  /\ q[i].capacity = Free(i) - Len(q[i].putters)
  /\ q[i].putters # << >> => Free(i) = 0

\* Those who wait for capacity.
PuttersExact(i) ==
  /\ \A j, k \in 1..Len(q[i].putters) : q[i].putters[j] = q[i].putters[k] => j = k
  /\ \A k \in 1..Len(q[i].putters) :
       /\ q[i].putters[k] = "decoder" => decoder = "wait" /\ stage = i
       /\ q[i].putters[k] = "control" => control[i] = "wait"
  /\ decoder = "wait" /\ stage = i => \E k \in 1..Len(q[i].putters) : q[i].putters[k] = "decoder"

BuffersExact(i) == \A k \in 1..q[i].cnt : q[i].buf[At(q[i], k)] # Blank

Exact(i) == LengthExact(i) /\ CapacityExact(i) /\ PuttersExact(i) /\ BuffersExact(i)

\* A subscriber from its start to its end.
Life(i) ==
  /\ mqueue[i] <=> control[i] # "off"
  /\ on[i] <=> control[i] = "on"
  /\ control[i] = "off" => thread[i] = "none" /\ q[i].cnt = 0
  /\ control[i] = "on" => thread[i] \notin {"none", "ending"}
  /\ thread[i] = "busy" <=> held[i] # Blank
  /\ control[i] \in {"off", "on", "radio"} => signal[i] = Blank
  /\ control[i] \in {"wait", "granted", "join"} => signal[i] # Blank /\ signal[i] \notin frames

DecoderInv ==
  /\ decoder = "idle" <=> fbuf = Blank
  /\ fbuf # Blank => fbuf \in frames /\ \A n \in frames : n <= fbuf
  /\ decoder \in {"wait", "granted"} => stage \in Subs /\ mqueue[stage]
  /\ decoder = "reset" => stage # Done
  /\ owns => decoder # "idle"

RingInv == Types /\ DecoderInv /\ \A i \in Subs : Exact(i) /\ Life(i)

----------------------------------------------------------------------------
\* What holds with more buffers.
LEMMA Grow ==
  ASSUME Types, NEW n \in Nat, Used <= n
  PROVE  /\ q \in [Subs -> QueueSet(n)] /\ frames \subseteq 1..n /\ fbuf \in 0..n
         /\ held \in [Subs -> 0..n] /\ signal \in [Subs -> 0..n] /\ since \in [Subs -> 0..n]
         /\ seen \in [Subs -> Seq(0..n)]
<1>1. Used \in Nat /\ 0..Used \subseteq 0..n /\ 1..Used \subseteq 1..n
  BY DEF Types, Used
<1>2. QueueSet(Used) \subseteq QueueSet(n)
  <2> SUFFICES ASSUME NEW s \in QueueSet(Used) PROVE s \in QueueSet(n)
    OBVIOUS
  <2>1. /\ s.buf \in [0..Size-1 -> 0..Used] /\ s.index \in 0..Size-1 /\ s.cnt \in Nat
        /\ s.length \in Int /\ s.capacity \in Int /\ s.putters \in Seq(Putters)
        /\ s = [index |-> s.index, cnt |-> s.cnt, length |-> s.length, capacity |-> s.capacity,
                putters |-> s.putters, buf |-> s.buf]
    BY DEF QueueSet
  <2>2. s.buf \in [0..Size-1 -> 0..n]
    BY <1>1, <2>1
  <2> HIDE DEF Used
  <2> QED
    BY <2>1, <2>2 DEF QueueSet
<1>3. Seq(0..Used) \subseteq Seq(0..n)
  <2> SUFFICES ASSUME NEW s \in Seq(0..Used) PROVE s \in Seq(0..n)
    OBVIOUS
  <2>1. \A k \in 1..Len(s) : s[k] \in 0..n
    BY <1>1
  <2> QED
    BY <2>1
<1> QED
  BY <1>1, <1>2, <1>3 DEF Types

LEMMA QueueFacts ==
  ASSUME RingInv, NEW i \in Subs
  PROVE  /\ q[i] \in QueueSet(Used) /\ Used \in Nat /\ q[i].cnt \in Nat /\ q[i].length \in Int
         /\ q[i].capacity \in Int /\ q[i].putters \in Seq(Putters) /\ q[i].index \in 0..Size-1
         /\ q[i].buf \in [0..Size-1 -> 0..Used]
         /\ Reserved(i) \in 0..2 /\ q[i].cnt <= Size /\ Size \in Nat \ {0} /\ i \in 0..2
         /\ Exact(i) /\ Life(i)
<1>1. q[i] \in QueueSet(Used) /\ Used \in Nat /\ Exact(i) /\ Life(i)
  BY DEF RingInv, Types, Used
<1>2. /\ q[i].cnt \in Nat /\ q[i].length \in Int /\ q[i].capacity \in Int
      /\ q[i].putters \in Seq(Putters) /\ q[i].index \in 0..Size-1
      /\ q[i].buf \in [0..Size-1 -> 0..Used]
  BY <1>1 DEF QueueSet
<1>3. Reserved(i) \in 0..2
  BY DEF Reserved
<1>4. Size \in Nat \ {0} /\ i \in 0..2
  BY SizeFacts
<1>5. q[i].cnt <= Size
  <2>1. Size - q[i].cnt - Reserved(i) >= 0
    BY <1>1 DEF Exact, CapacityExact, Free
  <2>2. \A a, b \in Nat, c \in 0..2 : a - b - c >= 0 => b <= a
    OBVIOUS
  <2> QED
    BY <1>2, <1>3, <1>4, <2>1, <2>2
<1> QED
  BY <1>1, <1>2, <1>3, <1>4, <1>5

\* A queue that no step touches.
LEMMA ExactKept ==
  ASSUME RingInv, NEW i \in Subs, q'[i] = q[i], thread'[i] = thread[i], control'[i] = control[i],
         decoder' = "granted" /\ stage' = i <=> decoder = "granted" /\ stage = i,
         decoder' = "wait" /\ stage' = i <=> decoder = "wait" /\ stage = i
  PROVE  Exact(i)'
<1>1. Exact(i) /\ Reserved(i)' = Reserved(i)
  BY DEF RingInv, Reserved
<1>2. LengthExact(i)'
  BY <1>1 DEF Exact, LengthExact
<1>3. CapacityExact(i)'
  BY <1>1 DEF Exact, CapacityExact, Free
<1>4. PuttersExact(i)'
  BY <1>1 DEF Exact, PuttersExact
<1>5. BuffersExact(i)'
  BY <1>1 DEF Exact, BuffersExact, At
<1> QED
  BY <1>2, <1>3, <1>4, <1>5 DEF Exact

\* x is stored: by a thread that has taken a place from capacity, or was granted one.
LEMMA StoreStep ==
  ASSUME RingInv, NEW n \in Nat, Used <= n, NEW i \in Subs, NEW x \in 1..n, NEW s,
         \/ s = Taken(q[i]) /\ q[i].capacity > 0 /\ Reserved(i)' = Reserved(i)
         \/ s = q[i] /\ Reserved(i) > 0 /\ Reserved(i)' = Reserved(i) - 1,
         Store(i, x, s),
         decoder' = "wait" /\ stage' = i <=> decoder = "wait" /\ stage = i,
         control'[i] = "wait" <=> control[i] = "wait"
  PROVE  /\ q' \in [Subs -> QueueSet(n)]
         /\ thread' \in [Subs -> {"none", "start", "wait", "granted", "busy", "ending"}]
         /\ Exact(i)'
         /\ \A j \in Subs \ {i} : q'[j] = q[j] /\ thread'[j] = thread[j]
         /\ thread'[i] = IF thread[i] = "wait" THEN "granted" ELSE thread[i]
         /\ q'[i].cnt = q[i].cnt + 1 /\ q'[i].index = q[i].index
         /\ \A k \in 1..q[i].cnt : q'[i].buf[At(q[i], k)] = q[i].buf[At(q[i], k)]
         /\ q'[i].buf[At(q[i], q[i].cnt + 1)] = x
<1>1. /\ q \in [Subs -> QueueSet(n)] /\ q[i] \in QueueSet(n)
      /\ thread \in [Subs -> {"none", "start", "wait", "granted", "busy", "ending"}]
  BY Grow DEF RingInv, Types
<1>2. /\ q[i].cnt \in Nat /\ q[i].length \in Int /\ q[i].capacity \in Int
      /\ q[i].putters \in Seq(Putters) /\ Reserved(i) \in 0..2 /\ Size \in Nat \ {0}
      /\ LengthExact(i) /\ CapacityExact(i) /\ PuttersExact(i) /\ BuffersExact(i)
  BY QueueFacts DEF Exact
<1>3. /\ s \in QueueSet(n) /\ s.index = q[i].index /\ s.cnt = q[i].cnt /\ s.length = q[i].length
      /\ s.putters = q[i].putters /\ s.buf = q[i].buf
      /\ s.capacity = IF s = q[i] THEN q[i].capacity ELSE q[i].capacity - 1
  BY <1>1, TakenFacts
<1>4. /\ Size - q[i].cnt - Reserved(i) >= 0
      /\ q[i].capacity = Size - q[i].cnt - Reserved(i) - Len(q[i].putters)
      /\ q[i].putters # << >> => Size - q[i].cnt - Reserved(i) = 0
  BY <1>2 DEF CapacityExact, Free
<1>5. /\ s.cnt < Size
      /\ s.capacity = Size - (q[i].cnt + 1) - Reserved(i)' - Len(q[i].putters)
      /\ Size - (q[i].cnt + 1) - Reserved(i)' >= 0
      /\ q[i].putters # << >> => Size - (q[i].cnt + 1) - Reserved(i)' = 0
  <2>1. Len(q[i].putters) \in Nat /\ (q[i].putters = << >> <=> Len(q[i].putters) = 0)
    BY <1>2
  <2>2. CASE s = Taken(q[i]) /\ q[i].capacity > 0 /\ Reserved(i)' = Reserved(i)
    <3>1. s.capacity = q[i].capacity - 1
      BY <1>1, <2>2, TakenFacts
    <3>2. Len(q[i].putters) = 0 /\ Size - q[i].cnt - Reserved(i) > 0
      BY <1>2, <1>4, <2>1, <2>2, SMTT(30)
    <3>3. /\ s.cnt = q[i].cnt /\ Reserved(i)' = Reserved(i)
          /\ s.capacity = Size - q[i].cnt - Reserved(i) - 1
      BY <1>2, <1>3, <1>4, <2>2, <3>1, <3>2
    <3>4. \A a, b \in Nat, c \in 0..2 :
            a - b - c > 0 => /\ b < a /\ a - (b + 1) - c >= 0
                             /\ a - b - c - 1 = a - (b + 1) - c - 0
      OBVIOUS
    <3>5. /\ q[i].cnt < Size /\ Size - (q[i].cnt + 1) - Reserved(i) >= 0
          /\ Size - q[i].cnt - Reserved(i) - 1 = Size - (q[i].cnt + 1) - Reserved(i) - 0
      BY <1>2, <3>2, <3>4, SMTT(30)
    <3> QED
      BY <2>1, <3>2, <3>3, <3>5
  <2>3. CASE s = q[i] /\ Reserved(i) > 0 /\ Reserved(i)' = Reserved(i) - 1
    BY <1>2, <1>3, <1>4, <2>1, <2>3, SMTT(30)
  <2> QED
    BY <2>2, <2>3
<1>6. PICK r : r = Stored(s, x)
  OBVIOUS
<1>7. /\ r \in QueueSet(n) /\ r.index = s.index /\ r.cnt = s.cnt + 1
      /\ r.length = s.length + 1 /\ r.capacity = s.capacity /\ r.putters = s.putters
      /\ \A k \in 1..s.cnt : r.buf[At(s, k)] = s.buf[At(s, k)]
      /\ r.buf[At(s, s.cnt + 1)] = x
  <2>1. x \in 0..n
    OBVIOUS
  <2> QED
    BY <1>3, <1>5, <1>6, <2>1, StoredFacts
<1>8. /\ q' = [q EXCEPT ![i] = r]
      /\ thread' = [thread EXCEPT ![i] = IF s.length < 0 THEN "granted" ELSE thread[i]]
  BY <1>6 DEF Store, Stored
<1>9. /\ q' \in [Subs -> QueueSet(n)] /\ q'[i] = r
      /\ \A j \in Subs \ {i} : q'[j] = q[j] /\ thread'[j] = thread[j]
  BY <1>1, <1>7, <1>8
<1>10. s.length < 0 <=> thread[i] = "wait"
  BY <1>2, <1>3 DEF LengthExact
<1>11. /\ thread'[i] = IF thread[i] = "wait" THEN "granted" ELSE thread[i]
       /\ thread' \in [Subs -> {"none", "start", "wait", "granted", "busy", "ending"}]
  BY <1>1, <1>8, <1>10
<1>12. \A k \in 1..q[i].cnt+1 : At(r, k) = At(q[i], k) /\ At(s, k) = At(q[i], k)
  BY <1>3, <1>7 DEF At
<1>13. /\ \A k \in 1..q[i].cnt : r.buf[At(q[i], k)] = q[i].buf[At(q[i], k)]
       /\ r.buf[At(q[i], q[i].cnt + 1)] = x
  BY <1>2, <1>3, <1>7, <1>12, SMTT(30)
<1>14. LengthExact(i)'
  BY <1>2, <1>3, <1>7, <1>9, <1>11 DEF LengthExact
<1>15. CapacityExact(i)'
  <2>1. Free(i)' = Size - (q[i].cnt + 1) - Reserved(i)'
    BY <1>3, <1>7, <1>9 DEF Free
  <2> QED
    BY <1>3, <1>5, <1>7, <1>9, <2>1 DEF CapacityExact
<1>16. PuttersExact(i)'
  BY <1>2, <1>3, <1>7, <1>9, SMTT(30) DEF PuttersExact
<1>17. BuffersExact(i)'
  <2>1. \A k \in 1..q[i].cnt+1 : r.buf[At(r, k)] # Blank
    <3> TAKE k \in 1..q[i].cnt+1
    <3>1. k = q[i].cnt + 1 \/ k \in 1..q[i].cnt
      BY <1>2
    <3> QED
      BY <1>2, <1>12, <1>13, <3>1 DEF BuffersExact, Blank
  <2> QED
    BY <1>3, <1>7, <1>9, <2>1 DEF BuffersExact, At
<1>18. Exact(i)'
  BY <1>14, <1>15, <1>16, <1>17 DEF Exact
<1> QED
  BY <1>3, <1>7, <1>9, <1>11, <1>13, <1>18

\* A thread that finds no place in the queue joins those that wait.
LEMMA WaitStep ==
  ASSUME RingInv, NEW n \in Nat, Used <= n, NEW i \in Subs, NEW who \in Putters,
         PutWait(i, who), ~ (q[i].capacity > 0), Reserved(i)' = Reserved(i),
         \/ /\ who = "decoder" /\ ~ (decoder = "wait" /\ stage = i)
            /\ decoder' = "wait" /\ stage' = i /\ control'[i] = control[i]
         \/ /\ who = "control" /\ control[i] # "wait" /\ control'[i] = "wait"
            /\ decoder' = "wait" /\ stage' = i <=> decoder = "wait" /\ stage = i
  PROVE  /\ q' \in [Subs -> QueueSet(n)] /\ thread' = thread /\ Exact(i)'
         /\ \A j \in Subs \ {i} : q'[j] = q[j]
         /\ q'[i].cnt = q[i].cnt /\ q'[i].index = q[i].index /\ q'[i].buf = q[i].buf
<1>1. /\ q \in [Subs -> QueueSet(n)] /\ q[i] \in QueueSet(n)
  BY Grow DEF RingInv, Types
<1>2. /\ q[i].cnt \in Nat /\ q[i].length \in Int /\ q[i].capacity \in Int
      /\ q[i].putters \in Seq(Putters) /\ Reserved(i) \in 0..2 /\ Size \in Nat \ {0}
      /\ LengthExact(i) /\ CapacityExact(i) /\ PuttersExact(i) /\ BuffersExact(i)
  BY QueueFacts DEF Exact
<1>3. PICK r : r = Waiting(q[i], who)
  OBVIOUS
<1>4. /\ r \in QueueSet(n) /\ r.capacity = q[i].capacity - 1
      /\ r.index = q[i].index /\ r.cnt = q[i].cnt /\ r.length = q[i].length
      /\ r.putters = Append(q[i].putters, who) /\ r.buf = q[i].buf
  BY <1>1, <1>3, WaitingFacts
<1>5. q' = [q EXCEPT ![i] = r] /\ thread' = thread
  <2>1. q' = [q EXCEPT ![i] = Waiting(q[i], who)] /\ thread' = thread
    BY DEF PutWait, Waiting
  <2> QED
    BY <1>3, <2>1
<1>6. /\ q' \in [Subs -> QueueSet(n)] /\ q'[i] = r /\ \A j \in Subs \ {i} : q'[j] = q[j]
  BY <1>1, <1>4, <1>5
<1>7. LengthExact(i)'
  BY <1>2, <1>4, <1>5, <1>6 DEF LengthExact
<1>8. /\ Len(r.putters) = Len(q[i].putters) + 1 /\ Len(q[i].putters) \in Nat
      /\ r.putters[Len(q[i].putters) + 1] = who
      /\ \A k \in 1..Len(q[i].putters) : r.putters[k] = q[i].putters[k]
      /\ \A k \in 1..Len(r.putters) : k \in 1..Len(q[i].putters) \/ k = Len(q[i].putters) + 1
      /\ q[i].putters = << >> <=> Len(q[i].putters) = 0
  BY <1>2, <1>4
<1>9. CapacityExact(i)'
  <2>1. Free(i)' = Free(i) /\ Free(i) \in Int
    BY <1>2, <1>4, <1>6 DEF Free
  <2>2. /\ Free(i) >= 0 /\ q[i].capacity = Free(i) - Len(q[i].putters)
        /\ q[i].putters # << >> => Free(i) = 0
    BY <1>2 DEF CapacityExact
  <2>3. Free(i) = 0 /\ r.capacity = Free(i) - Len(r.putters)
    BY <1>2, <1>4, <1>8, <2>1, <2>2
  <2> QED
    BY <1>6, <2>1, <2>2, <2>3 DEF CapacityExact
<1>10. PuttersExact(i)'
  <2>1. \A k \in 1..Len(q[i].putters) : q[i].putters[k] # who
    BY <1>2 DEF PuttersExact
  <2>2. \A j, k \in 1..Len(r.putters) : r.putters[j] = r.putters[k] => j = k
    <3>1. \A j, k \in 1..Len(q[i].putters) : q[i].putters[j] = q[i].putters[k] => j = k
      BY <1>2 DEF PuttersExact
    <3> QED
      BY <1>8, <2>1, <3>1, ZenonT(30)
  <2>3. \A k \in 1..Len(r.putters) :
          /\ r.putters[k] = "decoder" => decoder' = "wait" /\ stage' = i
          /\ r.putters[k] = "control" => control'[i] = "wait"
    BY <1>2, <1>8 DEF PuttersExact
  <2>4. decoder' = "wait" /\ stage' = i => \E k \in 1..Len(r.putters) : r.putters[k] = "decoder"
    <3>1. CASE who = "decoder"
      BY <1>8, <3>1
    <3>2. CASE who = "control"
      <4>1. decoder' = "wait" /\ stage' = i => decoder = "wait" /\ stage = i
        BY <3>2
      <4>2. decoder = "wait" /\ stage = i => \E k \in 1..Len(q[i].putters) : q[i].putters[k] = "decoder"
        BY <1>2 DEF PuttersExact
      <4>3. \A k \in 1..Len(q[i].putters) : k \in 1..Len(r.putters)
        BY <1>8
      <4> QED
        BY <1>8, <4>1, <4>2, <4>3, Zenon
    <3> QED
      BY <3>1, <3>2 DEF Putters
  <2> QED
    BY <1>6, <2>2, <2>3, <2>4 DEF PuttersExact
<1>11. BuffersExact(i)'
  BY <1>2, <1>4, <1>6 DEF BuffersExact, At
<1>12. Exact(i)'
  BY <1>7, <1>9, <1>10, <1>11 DEF Exact
<1> QED
  BY <1>4, <1>5, <1>6, <1>12

\* The thread gets a buffer, and who has waited longest gets the place.
LEMMA FetchStep ==
  ASSUME RingInv, NEW i \in Subs, NEW s,
         \/ s = q[i] /\ thread[i] = "granted"
         \/ /\ s = [q[i] EXCEPT !.length = @ - 1] /\ q[i].length > 0
            /\ thread[i] \notin {"wait", "granted"},
         Fetch(i, s), thread'[i] = "busy", stage' = stage
  PROVE  /\ q' \in [Subs -> QueueSet(Used)] /\ Exact(i)'
         /\ \A j \in Subs \ {i} : q'[j] = q[j] /\ control'[j] = control[j]
         /\ q[i].cnt \in 1..Size /\ q'[i].cnt = q[i].cnt - 1 /\ q'[i].buf = q[i].buf
         /\ \A k \in 1..q[i].cnt-1 : At(q'[i], k) = At(q[i], k + 1)
         /\ held' = [held EXCEPT ![i] = q[i].buf[At(q[i], 1)]]
         /\ q[i].buf[At(q[i], 1)] \in 1..Used
         /\ \/ UNCHANGED <<decoder, control>>
            \/ decoder = "wait" /\ stage = i /\ decoder' = "granted" /\ control' = control
            \/ /\ control[i] = "wait" /\ control' = [control EXCEPT ![i] = "granted"]
               /\ decoder' = decoder
<1>1. /\ q \in [Subs -> QueueSet(Used)] /\ q[i] \in QueueSet(Used) /\ Used \in Nat
      /\ control \in [Subs -> {"off", "on", "radio", "wait", "granted", "join"}]
  BY DEF RingInv, Types, Used
<1>2. /\ q[i].cnt \in Nat /\ q[i].length \in Int /\ q[i].capacity \in Int
      /\ q[i].putters \in Seq(Putters) /\ Reserved(i) \in 0..2 /\ Size \in Nat \ {0}
      /\ q[i].index \in 0..Size-1 /\ q[i].cnt <= Size /\ q[i].buf \in [0..Size-1 -> 0..Used]
      /\ LengthExact(i) /\ CapacityExact(i) /\ PuttersExact(i) /\ BuffersExact(i)
  BY QueueFacts DEF Exact
<1>3. q[i].cnt \in 1..Size
  <2>1. q[i].cnt >= 1
    BY <1>2 DEF LengthExact
  <2> QED
    BY <1>2, <2>1
<1>4. /\ s \in QueueSet(Used) /\ s.index = q[i].index /\ s.cnt = q[i].cnt
      /\ s.putters = q[i].putters /\ s.buf = q[i].buf /\ s.capacity = q[i].capacity
      /\ s.length = q[i].cnt - 1
  <2>1. CASE s = q[i] /\ thread[i] = "granted"
    BY <1>1, <1>2, <2>1 DEF LengthExact
  <2>2. CASE /\ s = [q[i] EXCEPT !.length = @ - 1] /\ q[i].length > 0
             /\ thread[i] \notin {"wait", "granted"}
    <3>1. s = [index |-> q[i].index, cnt |-> q[i].cnt, length |-> q[i].length - 1,
               capacity |-> q[i].capacity, putters |-> q[i].putters, buf |-> q[i].buf]
      BY <1>1, <2>2 DEF QueueSet
    <3>2. s \in QueueSet(Used)
      BY <1>1, <3>1 DEF QueueSet
    <3>3. q[i].length = q[i].cnt
      BY <1>2, <2>2 DEF LengthExact
    <3> QED
      BY <3>1, <3>2, <3>3
  <2> QED
    BY <2>1, <2>2
<1>5. PICK r : r = Fetched(s)
  OBVIOUS
<1>6. /\ r \in QueueSet(Used) /\ r.cnt = s.cnt - 1 /\ r.length = s.length
      /\ r.capacity = s.capacity + 1 /\ r.buf = s.buf
      /\ r.putters = IF s.putters = << >> THEN << >> ELSE Tail(s.putters)
      /\ \A k \in 1..s.cnt-1 : At(r, k) = At(s, k + 1)
      /\ (s.index + 1) % Size = At(s, 1)
  BY <1>1, <1>3, <1>4, <1>5, FetchedFacts
<1>7. /\ q' = [q EXCEPT ![i] = r] /\ held' = [held EXCEPT ![i] = s.buf[(s.index + 1) % Size]]
      /\ Woken(i, IF s.putters = << >> THEN {} ELSE {Head(s.putters)}, "granted")
  BY <1>5 DEF Fetch, Fetched
<1>8. /\ q' \in [Subs -> QueueSet(Used)] /\ q'[i] = r /\ \A j \in Subs \ {i} : q'[j] = q[j]
  BY <1>1, <1>6, <1>7
<1>9. \A k \in 1..q[i].cnt : At(s, k) = At(q[i], k) /\ At(q[i], k) \in 0..Size-1
  <2> TAKE k \in 1..q[i].cnt
  <2>1. k \in 1..Size
    BY <1>2
  <2>2. (q[i].index + k) % Size \in 0..Size-1
    BY <1>2, <2>1, AtValue
  <2> QED
    BY <1>4, <2>2 DEF At
<1>10. /\ \A k \in 1..q[i].cnt-1 : At(r, k) = At(q[i], k + 1)
       /\ s.buf[(s.index + 1) % Size] = q[i].buf[At(q[i], 1)]
       /\ q[i].buf[At(q[i], 1)] \in 1..Used
  <2>1. \A k \in 1..q[i].cnt-1 : k + 1 \in 1..q[i].cnt
    BY <1>2
  <2>2. 1 \in 1..q[i].cnt
    BY <1>3
  <2>3. q[i].buf[At(q[i], 1)] \in 0..Used /\ q[i].buf[At(q[i], 1)] # 0
    BY <1>2, <1>9, <2>2 DEF BuffersExact, Blank
  <2> QED
    BY <1>1, <1>4, <1>6, <1>9, <2>1, <2>2, <2>3
<1>11. LengthExact(i)'
  BY <1>2, <1>4, <1>6, <1>8 DEF LengthExact
<1>12. BuffersExact(i)'
  <2>1. \A k \in 1..q[i].cnt-1 : r.buf[At(r, k)] # Blank
    <3> TAKE k \in 1..q[i].cnt-1
    <3>1. k + 1 \in 1..q[i].cnt
      BY <1>2
    <3> QED
      BY <1>2, <1>4, <1>6, <1>10, <3>1 DEF BuffersExact
  <2> QED
    BY <1>4, <1>6, <1>8, <2>1 DEF BuffersExact, At
<1>13. /\ Size - q[i].cnt - Reserved(i) >= 0
       /\ q[i].capacity = Size - q[i].cnt - Reserved(i) - Len(q[i].putters)
       /\ q[i].putters # << >> => Size - q[i].cnt - Reserved(i) = 0
  BY <1>2 DEF CapacityExact, Free
<1>14. Free(i)' = Size - (q[i].cnt - 1) - Reserved(i)'
  BY <1>4, <1>6, <1>8 DEF Free
<1>15. CASE q[i].putters = << >>
  <2>1. UNCHANGED <<decoder, control>> /\ r.putters = << >> /\ Len(q[i].putters) = 0
    BY <1>2, <1>4, <1>6, <1>7, <1>15 DEF Woken
  <2>2. Reserved(i)' = Reserved(i)
    BY <2>1 DEF Reserved
  <2>3. CapacityExact(i)'
    <3>1. Free(i)' = q[i].capacity + 1 /\ Free(i)' >= 0
      <4>1. \A a, b \in Nat, c \in 0..2 :
              a - b - c >= 0 => a - (b - 1) - c = a - b - c - 0 + 1 /\ a - (b - 1) - c >= 0
        OBVIOUS
      <4>2. Free(i)' = Size - (q[i].cnt - 1) - Reserved(i) /\ q[i].capacity = Size - q[i].cnt - Reserved(i) - 0
        BY <1>13, <1>14, <2>1, <2>2
      <4> QED
        BY <1>2, <1>13, <4>1, <4>2, SMTT(30)
    <3> QED
      BY <1>2, <1>4, <1>6, <1>8, <2>1, <3>1 DEF CapacityExact
  <2>4. PuttersExact(i)'
    <3>1. ~ (decoder = "wait" /\ stage = i)
      BY <1>2, <2>1 DEF PuttersExact
    <3> QED
      BY <1>8, <2>1, <3>1 DEF PuttersExact
  <2> QED
    BY <1>3, <1>4, <1>6, <1>7, <1>8, <1>10, <1>11, <1>12, <2>1, <2>3, <2>4 DEF Exact
<1>16. CASE q[i].putters # << >>
  <2> DEFINE h == Head(q[i].putters)
             l == Len(q[i].putters)
  <2>1. /\ l \in Nat \ {0} /\ h = q[i].putters[1] /\ h \in Putters
        /\ r.putters = Tail(q[i].putters) /\ Len(r.putters) = l - 1
        /\ \A k \in 1..l-1 : r.putters[k] = q[i].putters[k + 1] /\ k + 1 \in 1..l
    <3>1. PICK p \in Seq(Putters) : p = q[i].putters
      BY <1>2
    <3>2. p # << >> /\ r.putters = Tail(p)
      BY <1>4, <1>6, <1>16, <3>1
    <3>3. /\ Len(p) \in Nat \ {0} /\ Head(p) = p[1] /\ p[1] \in Putters /\ Len(Tail(p)) = Len(p) - 1
          /\ \A k \in 1..Len(p)-1 : Tail(p)[k] = p[k + 1] /\ k + 1 \in 1..Len(p)
      BY <3>2
    <3> QED
      BY <3>1, <3>2, <3>3
  <2>2. \A k \in 1..l-1 : r.putters[k] # h
    <3> TAKE k \in 1..l-1
    <3>1. k + 1 \in 1..l /\ 1 \in 1..l /\ k + 1 # 1 /\ r.putters[k] = q[i].putters[k + 1]
      BY <2>1
    <3>2. q[i].putters[k + 1] # q[i].putters[1]
      BY <1>2, <3>1 DEF PuttersExact
    <3> QED
      BY <2>1, <3>1, <3>2
  <2>3. /\ decoder' = IF h = "decoder" THEN "granted" ELSE decoder
        /\ control' = IF h = "control" THEN [control EXCEPT ![i] = "granted"] ELSE control
        /\ h = "decoder" => decoder = "wait" /\ stage = i
        /\ h = "control" => control[i] = "wait"
    BY <1>2, <1>4, <1>7, <1>16, <2>1, SMTT(30) DEF Woken, PuttersExact
  <2>4. \/ h = "decoder" /\ decoder = "wait" /\ stage = i /\ decoder' = "granted" /\ control' = control
        \/ /\ h = "control" /\ control[i] = "wait" /\ control' = [control EXCEPT ![i] = "granted"]
           /\ decoder' = decoder
    BY <2>1, <2>3 DEF Putters
  <2>5. Reserved(i)' = Reserved(i) + 1
    BY <1>1, <2>4 DEF Reserved
  <2>6. CapacityExact(i)'
    <3>1. Free(i)' = 0 /\ r.capacity = 0 - Len(r.putters)
      <4>1. \A a, b \in Nat, c \in 0..2 : a - b - c = 0 => a - (b - 1) - (c + 1) = 0
        OBVIOUS
      <4>2. Free(i)' = 0
        BY <1>2, <1>13, <1>14, <1>16, <2>5, <4>1, SMTT(30)
      <4>3. q[i].capacity = 0 - l
        BY <1>13, <1>16
      <4> QED
        BY <1>4, <1>6, <2>1, <4>2, <4>3
    <3> QED
      BY <1>8, <3>1 DEF CapacityExact
  <2>7. PuttersExact(i)'
    <3>1. \A j, k \in 1..l-1 : r.putters[j] = r.putters[k] => j = k
      <4> TAKE j, k \in 1..l-1
      <4>1. /\ j + 1 \in 1..l /\ k + 1 \in 1..l
            /\ r.putters[j] = q[i].putters[j + 1] /\ r.putters[k] = q[i].putters[k + 1]
        BY <2>1
      <4>2. q[i].putters[j + 1] = q[i].putters[k + 1] => j + 1 = k + 1
        BY <1>2, <4>1 DEF PuttersExact
      <4>3. j + 1 = k + 1 => j = k
        BY <2>1
      <4> QED
        BY <4>1, <4>2, <4>3
    <3>2. \A k \in 1..l-1 :
            /\ r.putters[k] = "decoder" => decoder' = "wait" /\ stage' = i
            /\ r.putters[k] = "control" => control'[i] = "wait"
      BY <1>1, <1>2, <2>1, <2>2, <2>4, SMTT(30) DEF PuttersExact
    <3>3. decoder' = "wait" /\ stage' = i => \E k \in 1..l-1 : r.putters[k] = "decoder"
      <4>1. SUFFICES ASSUME decoder' = "wait", stage' = i
                     PROVE  \E k \in 1..l-1 : r.putters[k] = "decoder"
        OBVIOUS
      <4>2. decoder = "wait" /\ stage = i /\ h # "decoder"
        BY <2>4, <4>1
      <4>3. PICK k \in 1..l : q[i].putters[k] = "decoder"
        BY <1>2, <4>2 DEF PuttersExact
      <4>4. k - 1 \in 1..l-1 /\ r.putters[k - 1] = q[i].putters[k - 1 + 1] /\ k - 1 + 1 = k
        BY <2>1, <4>2, <4>3
      <4> QED
        BY <4>3, <4>4
    <3> HIDE DEF l, h
    <3>4. l - 1 = Len(r.putters)
      BY <2>1
    <3> QED
      BY <1>8, <3>1, <3>2, <3>3, <3>4 DEF PuttersExact
  <2>8. \A j \in Subs \ {i} : control'[j] = control[j]
    BY <1>1, <2>4
  <2> QED
    BY <1>3, <1>4, <1>6, <1>7, <1>8, <1>10, <1>11, <1>12, <2>4, <2>6, <2>7, <2>8 DEF Exact
<1> QED
  BY <1>15, <1>16

\* The queue of a subscriber that has ended is cleared.
LEMMA ClearStep ==
  ASSUME RingInv, NEW i \in Subs, Clear(i), thread[i] = "none", control[i] = "join",
         decoder # "granted", stage' = stage, thread' = thread, control' = [control EXCEPT ![i] = "off"]
  PROVE  /\ q' \in [Subs -> QueueSet(Used)] /\ Exact(i)' /\ q'[i].cnt = 0
         /\ \A j \in Subs \ {i} : q'[j] = q[j] /\ Exact(j)'
         /\ \/ decoder = "wait" /\ stage = i /\ decoder' = "reset"
            \/ decoder' = decoder /\ ~ (decoder = "wait" /\ stage = i)
<1>1. /\ q \in [Subs -> QueueSet(Used)] /\ q[i] \in QueueSet(Used) /\ Used \in Nat
      /\ control \in [Subs -> {"off", "on", "radio", "wait", "granted", "join"}]
  BY DEF RingInv, Types, Used
<1>2. /\ q[i].putters \in Seq(Putters) /\ Size \in Nat \ {0}
      /\ q[i].buf \in [0..Size-1 -> 0..Used] /\ PuttersExact(i)
  BY QueueFacts DEF Exact
<1>3. PICK r : r = [EmptyQueue EXCEPT !.buf = q[i].buf]
  OBVIOUS
<1>4. r = [index |-> 0, cnt |-> 0, length |-> 0, capacity |-> Size, putters |-> << >>,
           buf |-> q[i].buf]
  BY <1>3 DEF EmptyQueue
<1>5. r \in QueueSet(Used)
  <2>1. 0 \in 0..Size-1 /\ 0 \in Nat /\ 0 \in Int /\ Size \in Int /\ << >> \in Seq(Putters)
    BY <1>2
  <2> QED
    BY <1>2, <1>4, <2>1 DEF QueueSet
<1>6. q' = [q EXCEPT ![i] = r]
  BY <1>3 DEF Clear
<1>7. /\ q' \in [Subs -> QueueSet(Used)] /\ q'[i] = r /\ \A j \in Subs \ {i} : q'[j] = q[j]
  BY <1>1, <1>5, <1>6
<1>8. \/ decoder = "wait" /\ stage = i /\ decoder' = "reset"
      \/ decoder' = decoder /\ ~ (decoder = "wait" /\ stage = i)
  <2>1. Contains(q[i].putters, "decoder") <=> decoder = "wait" /\ stage = i
    BY <1>2 DEF Contains, PuttersExact
  <2> QED
    BY <2>1 DEF Clear
<1>9. control'[i] = "off" /\ \A j \in Subs \ {i} : control'[j] = control[j]
  BY <1>1
<1>10. Exact(i)'
  <2>1. Reserved(i)' = 0
    BY <1>8, <1>9 DEF Reserved
  <2>2. LengthExact(i)'
    BY <1>4, <1>7 DEF LengthExact
  <2>3. r.putters = << >> /\ Len(r.putters) = 0
    BY <1>4
  <2>4. CapacityExact(i)'
    <3>1. Free(i)' = Size
      BY <1>2, <1>4, <1>7, <2>1 DEF Free
    <3> QED
      BY <1>2, <1>4, <1>7, <2>3, <3>1 DEF CapacityExact
  <2>5. PuttersExact(i)'
    BY <1>7, <1>8, <2>3 DEF PuttersExact
  <2>6. BuffersExact(i)'
    BY <1>4, <1>7 DEF BuffersExact
  <2> QED
    BY <2>2, <2>4, <2>5, <2>6 DEF Exact
<1>11. ASSUME NEW j \in Subs \ {i} PROVE Exact(j)'
  <2>1. /\ decoder' = "granted" /\ stage' = j <=> decoder = "granted" /\ stage = j
        /\ decoder' = "wait" /\ stage' = j <=> decoder = "wait" /\ stage = j
    BY <1>8
  <2> QED
    BY <1>7, <1>9, <2>1, ExactKept
<1> QED
  BY <1>4, <1>7, <1>8, <1>10, <1>11

----------------------------------------------------------------------------
\* A subscriber that no step touches.
LEMMA LifeKept ==
  ASSUME RingInv, NEW i \in Subs, mqueue'[i] = mqueue[i], control'[i] = control[i], on'[i] = on[i],
         thread'[i] = thread[i], held'[i] = held[i], signal'[i] = signal[i], q'[i].cnt = q[i].cnt,
         frames' = frames \/ frames' = frames \cup {Used + 1}
  PROVE  Life(i)'
<1>1. Life(i) /\ signal[i] \in 0..Used /\ Used \in Nat
  BY DEF RingInv, Types, Used
<1>2. signal[i] # Used + 1
  BY <1>1
<1> QED
  BY <1>1, <1>2 DEF Life

\* The references change in three ways.
LEMMA RefAppended ==
  ASSUME Types, ref' = Append(ref, 1)
  PROVE  /\ ref' \in Seq(Int) /\ Used' = Used + 1 /\ Used \in Nat /\ ref'[Used + 1] = 1
         /\ \A x \in 1..Used : ref'[x] = ref[x]
BY DEF Types, Used

LEMMA RefReleased ==
  ASSUME Types, NEW S, ref' = Released(ref, S)
  PROVE  /\ ref' \in Seq(Int) /\ Used' = Used
         /\ \A x \in 1..Used : ref'[x] = IF x \in S THEN ref[x] - 1 ELSE ref[x]
<1>1. ref \in Seq(Int) /\ DOMAIN ref = 1..Len(ref) /\ Len(ref) \in Nat
  BY DEF Types
<1>2. ref' = [x \in 1..Len(ref) |-> IF x \in S THEN ref[x] - 1 ELSE ref[x]]
  BY <1>1 DEF Released
<1>3. ref' \in [1..Len(ref) -> Int]
  BY <1>1, <1>2
<1> QED
  BY <1>1, <1>2, <1>3 DEF Used

LEMMA RefTaken ==
  ASSUME Types, NEW y \in 1..Used, ref' = [ref EXCEPT ![y] = @ + 1]
  PROVE  /\ ref' \in Seq(Int) /\ Used' = Used
         /\ \A x \in 1..Used : ref'[x] = IF x = y THEN ref[x] + 1 ELSE ref[x]
<1>1. ref \in Seq(Int) /\ DOMAIN ref = 1..Len(ref) /\ Len(ref) \in Nat
  BY DEF Types
<1>2. ref' = [x \in 1..Len(ref) |-> IF x = y THEN ref[x] + 1 ELSE ref[x]]
  BY <1>1 DEF Used
<1>3. ref' \in [1..Len(ref) -> Int]
  <2>1. \A x \in 1..Len(ref) : ref[x] \in Int /\ (IF x = y THEN ref[x] + 1 ELSE ref[x]) \in Int
    BY <1>1
  <2> QED
    BY <1>2, <2>1
<1> QED
  BY <1>1, <1>2, <1>3 DEF Used

----------------------------------------------------------------------------
(* The rings and the threads are in order whatever happens.                *)

LEMMA RingInit == Init => RingInv
<1> SUFFICES ASSUME Init PROVE RingInv
  OBVIOUS
<1>1. Size \in Nat \ {0} /\ Used = 0 /\ ref \in Seq(Int) /\ Blank = 0
  BY SizeFacts DEF Init, Used, Blank
<1>2. PICK e : e = EmptyQueue
  OBVIOUS
<1>3. e = [index |-> 0, cnt |-> 0, length |-> 0, capacity |-> Size, putters |-> << >>,
           buf |-> [k \in 0..Size-1 |-> 0]]
  BY <1>2 DEF EmptyQueue, Blank
<1>4. e \in QueueSet(0)
  <2>1. /\ 0 \in 0..Size-1 /\ 0 \in Nat /\ 0 \in Int /\ Size \in Int /\ << >> \in Seq(Putters)
        /\ [k \in 0..Size-1 |-> 0] \in [0..Size-1 -> 0..0]
    BY <1>1
  <2> QED
    BY <1>3, <2>1 DEF QueueSet
<1>5. q \in [Subs -> QueueSet(0)] /\ \A i \in Subs : q[i] = e
  BY <1>2, <1>4 DEF Init
<1>6. Types
  <2>1. /\ seen \in [Subs -> Seq(0..0)] /\ held \in [Subs -> 0..0] /\ signal \in [Subs -> 0..0]
        /\ since \in [Subs -> 0..0] /\ mqueue \in [Subs -> BOOLEAN]
    BY DEF Init, Blank
  <2>2. /\ thread \in [Subs -> {"none", "start", "wait", "granted", "busy", "ending"}]
        /\ control \in [Subs -> {"off", "on", "radio", "wait", "granted", "join"}]
    BY DEF Init
  <2>3. frames \subseteq 1..0 /\ fbuf \in 0..0 /\ on = mqueue
    BY DEF Init, Blank
  <2>4. decoder = "idle" /\ owns = FALSE /\ quiet = TRUE
    BY Zenon DEF Init
  <2>5. stage \in 0..Done
    BY DEF Init, Done
  <2>6. owns \in BOOLEAN /\ quiet \in BOOLEAN
    BY <2>4
  <2> QED
    BY <1>1, <1>5, <2>1, <2>2, <2>3, <2>4, <2>5, <2>6 DEF Types
<1>7. DecoderInv
  BY DEF Init, DecoderInv, Done
<1>8. ASSUME NEW i \in Subs PROVE Exact(i)
  <2>1. /\ q[i].cnt = 0 /\ q[i].length = 0 /\ q[i].capacity = Size /\ q[i].putters = << >>
        /\ Len(q[i].putters) = 0
    BY <1>3, <1>5
  <2>2. LengthExact(i)
    BY <2>1 DEF LengthExact, Init
  <2>3. CapacityExact(i)
    <3>1. Reserved(i) = 0
      BY DEF Reserved, Init
    <3> QED
      BY <1>1, <2>1, <3>1 DEF CapacityExact, Free
  <2>4. PuttersExact(i)
    BY <2>1 DEF PuttersExact, Init
  <2>5. BuffersExact(i)
    BY <2>1 DEF BuffersExact
  <2> QED
    BY <2>2, <2>3, <2>4, <2>5 DEF Exact
<1>9. ASSUME NEW i \in Subs PROVE Life(i)
  <2>1. q[i].cnt = 0
    BY <1>3, <1>5
  <2> QED
    BY <2>1 DEF Init, Life
<1> QED
  BY <1>6, <1>7, <1>8, <1>9 DEF RingInv

LEMMA RingStutter == RingInv /\ UNCHANGED vars => RingInv'
<1> SUFFICES ASSUME RingInv, UNCHANGED vars PROVE RingInv'
  OBVIOUS
<1>1. Types' /\ DecoderInv'
  BY DEF RingInv, Types, DecoderInv, vars, decoderVars, history, Used
<1>2. ASSUME NEW i \in Subs PROVE Exact(i)' /\ Life(i)'
  BY ExactKept, LifeKept DEF vars, decoderVars, history
<1> QED
  BY <1>1, <1>2 DEF RingInv

LEMMA RingReceive == RingInv /\ Receive => RingInv'
<1> SUFFICES ASSUME RingInv, Receive PROVE RingInv'
  OBVIOUS
<1>1. /\ ref' \in Seq(Int) /\ Used' = Used + 1 /\ Used \in Nat
  BY RefAppended DEF RingInv, Receive
<1>2. Types'
  <2>1. /\ q \in [Subs -> QueueSet(Used + 1)] /\ frames \subseteq 1..Used+1
        /\ held \in [Subs -> 0..Used+1] /\ signal \in [Subs -> 0..Used+1]
        /\ since \in [Subs -> 0..Used+1] /\ seen \in [Subs -> Seq(0..Used+1)]
    BY <1>1, Grow DEF RingInv
  <2>2. Used + 1 \in 1..Used+1 /\ Used + 1 \in 0..Used+1
    BY <1>1
  <2>3. Types
    BY DEF RingInv
  <2> HIDE DEF Used
  <2> QED
    BY <1>1, <2>1, <2>2, <2>3 DEF Receive, Types, Done
<1>3. DecoderInv'
  <2>1. fbuf' = Used + 1 /\ frames' = frames \cup {Used + 1} /\ frames \subseteq 1..Used
    BY DEF RingInv, Types, Receive
  <2>2. fbuf' # Blank /\ fbuf' \in frames' /\ \A n \in frames' : n <= fbuf'
    BY <1>1, <2>1 DEF Blank
  <2> QED
    BY <2>2 DEF Receive, DecoderInv
<1>4. ASSUME NEW i \in Subs PROVE Exact(i)' /\ Life(i)'
  BY ExactKept, LifeKept DEF Receive
<1> QED
  BY <1>2, <1>3, <1>4 DEF RingInv

LEMMA RingSkip == RingInv /\ Skip => RingInv'
<1> SUFFICES ASSUME RingInv, Skip PROVE RingInv'
  OBVIOUS
<1>1. Types' /\ DecoderInv'
  BY DEF RingInv, Types, DecoderInv, Skip, history, Used, Done
<1>2. ASSUME NEW i \in Subs PROVE Exact(i)' /\ Life(i)'
  BY ExactKept, LifeKept DEF Skip, history
<1> QED
  BY <1>1, <1>2 DEF RingInv

LEMMA RingPutReset == RingInv /\ PutReset => RingInv'
<1> SUFFICES ASSUME RingInv, PutReset PROVE RingInv'
  OBVIOUS
<1>1. Types' /\ DecoderInv'
  BY DEF RingInv, Types, DecoderInv, PutReset, history, Used, Done
<1>2. ASSUME NEW i \in Subs PROVE Exact(i)' /\ Life(i)'
  BY ExactKept, LifeKept DEF PutReset, history
<1> QED
  BY <1>1, <1>2 DEF RingInv

LEMMA RingFinish == RingInv /\ Finish => RingInv'
<1> SUFFICES ASSUME RingInv, Finish PROVE RingInv'
  OBVIOUS
<1>1. ref' \in Seq(Int) /\ Used' = Used /\ Used \in Nat
  <2>1. ref' = ref \/ ref' = Released(ref, {fbuf})
    BY DEF Finish
  <2>2. Types /\ ref \in Seq(Int) /\ Used \in Nat
    BY DEF RingInv, Types, Used
  <2> QED
    BY <2>1, <2>2, RefReleased DEF Used
<1>2. Types'
  <2>1. Types
    BY DEF RingInv
  <2>2. /\ decoder' = "idle" /\ fbuf' = 0 /\ owns' = FALSE /\ quiet' = quiet /\ stage' = stage
        /\ UNCHANGED <<mqueue, q, on, thread, held, control, signal, frames, since, seen>>
    BY DEF Finish, history, Blank
  <2>3. 0 \in 0..Used
    BY <1>1
  <2> HIDE DEF Used
  <2> QED
    BY <1>1, <2>1, <2>2, <2>3 DEF Types
<1>3. DecoderInv'
  BY DEF Finish, DecoderInv, history
<1>4. ASSUME NEW i \in Subs PROVE Exact(i)' /\ Life(i)'
  BY ExactKept, LifeKept DEF Finish, history
<1> QED
  BY <1>2, <1>3, <1>4 DEF RingInv

\* fbuf is a frame while it is distributed, whoever gets it has it counted.
LEMMA HandOverStep ==
  ASSUME RingInv, decoder # "idle", HandOver
  PROVE  /\ fbuf \in 1..Used /\ fbuf \in frames /\ ref' \in Seq(Int) /\ Used' = Used /\ Used \in Nat
         /\ \A x \in 1..Used : ref'[x] = IF x = fbuf /\ stage # 0 THEN ref[x] + 1 ELSE ref[x]
<1>1. Types /\ fbuf # Blank /\ fbuf \in frames /\ frames \subseteq 1..Used /\ Used \in Nat
  BY DEF RingInv, DecoderInv, Types, Used
<1>2. CASE stage = 0
  BY <1>1, <1>2 DEF HandOver, Types, Used
<1>3. CASE stage # 0
  <2>1. ref' = [ref EXCEPT ![fbuf] = @ + 1]
    BY <1>3 DEF HandOver
  <2> QED
    BY <1>1, <1>3, <2>1, RefTaken
<1> QED
  BY <1>2, <1>3

(* What a step makes of the rings: the one of i stays as it was, x comes   *)
(* to its end, or its first buffer leaves it and is held by the thread.    *)
Still(i) == q'[i].cnt = q[i].cnt /\ q'[i].index = q[i].index /\ q'[i].buf = q[i].buf

Joined(i, x) ==
  /\ \A j \in Subs \ {i} : Still(j)
  /\ q'[i].cnt = q[i].cnt + 1 /\ q'[i].index = q[i].index
  /\ \A k \in 1..q[i].cnt : q'[i].buf[At(q[i], k)] = q[i].buf[At(q[i], k)]
  /\ q'[i].buf[At(q[i], q[i].cnt + 1)] = x

Left(i) ==
  /\ \A j \in Subs \ {i} : Still(j)
  /\ q[i].cnt \in 1..Size /\ q'[i].cnt = q[i].cnt - 1 /\ q'[i].buf = q[i].buf
  /\ \A k \in 1..q[i].cnt-1 : At(q'[i], k) = At(q[i], k + 1)
  /\ held' = [held EXCEPT ![i] = q[i].buf[At(q[i], 1)]]
  /\ q[i].buf[At(q[i], 1)] \in 1..Used

\* The decoder puts its frame into the queue of i, where it is, or waits.
LEMMA RingPutFrame ==
  ASSUME RingInv, PutFrame, NEW i \in Subs, i = stage
  PROVE  /\ RingInv'
         /\ q[i].capacity > 0 => Joined(i, fbuf)
         /\ ~ (q[i].capacity > 0) => \A j \in Subs : Still(j)
<1>1. /\ fbuf \in 1..Used /\ fbuf \in frames /\ ref' \in Seq(Int) /\ Used' = Used /\ Used \in Nat
      /\ decoder = "run" /\ mqueue[i] /\ i \in 0..2
  <2>1. decoder = "run" /\ mqueue[stage] /\ HandOver
    BY DEF PutFrame
  <2> QED
    BY <2>1, HandOverStep, SizeFacts
<1>2. /\ UNCHANGED <<fbuf, mqueue, on, held, control, signal, frames, since, seen, quiet>>
      /\ fbuf' = fbuf /\ frames' = frames /\ mqueue' = mqueue /\ control' = control
  BY DEF PutFrame, history
<1>3. Types /\ DecoderInv
  BY DEF RingInv
<1>4. CASE q[i].capacity > 0
  <2>1. /\ Store(i, fbuf, Taken(q[i])) /\ owns' = (owns /\ i # 0)
        /\ stage' = i + 1 /\ decoder' = decoder
    BY <1>4 DEF PutFrame
  <2>2. /\ stage' # i /\ stage' \in 0..Done
        /\ \A j \in Subs : (decoder' = "wait" /\ stage' = j <=> decoder = "wait" /\ stage = j)
                           /\ (decoder' = "granted" /\ stage' = j <=> decoder = "granted" /\ stage = j)
    BY <1>1, <2>1 DEF Done
  <2>3. Reserved(i)' = Reserved(i)
    BY <1>1, <1>2, <2>1 DEF Reserved
  <2>4. PICK s : s = Taken(q[i])
    OBVIOUS
  <2>5. Store(i, fbuf, s) /\ fbuf \in 1..Used /\ Used \in Nat /\ Used <= Used
    BY <1>1, <2>1, <2>4
  <2>6. /\ q' \in [Subs -> QueueSet(Used)]
        /\ thread' \in [Subs -> {"none", "start", "wait", "granted", "busy", "ending"}]
        /\ Exact(i)'
        /\ \A j \in Subs \ {i} : q'[j] = q[j] /\ thread'[j] = thread[j]
        /\ thread'[i] = IF thread[i] = "wait" THEN "granted" ELSE thread[i]
        /\ q'[i].cnt = q[i].cnt + 1 /\ q'[i].index = q[i].index
        /\ \A k \in 1..q[i].cnt : q'[i].buf[At(q[i], k)] = q[i].buf[At(q[i], k)]
        /\ q'[i].buf[At(q[i], q[i].cnt + 1)] = fbuf
    BY <1>2, <1>4, <2>2, <2>3, <2>4, <2>5, StoreStep
  <2>7. Joined(i, fbuf)
    BY <2>6 DEF Joined, Still
  <2>8. Types'
    <3>1. owns' \in BOOLEAN
      BY <1>3, <2>1 DEF Types
    <3> HIDE DEF Used
    <3> QED
      BY <1>1, <1>2, <1>3, <2>1, <2>2, <2>6, <3>1 DEF Types
  <2>9. DecoderInv'
    BY <1>1, <1>2, <1>3, <2>1, <2>2 DEF DecoderInv
  <2>10. ASSUME NEW j \in Subs \ {i} PROVE Exact(j)' /\ Life(j)'
    BY <1>2, <2>2, <2>6, ExactKept, LifeKept
  <2>11. Life(i)'
    <3>1. Life(i) /\ mqueue[i]
      BY <1>1 DEF RingInv
    <3> QED
      BY <1>2, <2>6, <3>1 DEF Life
  <2> QED
    BY <1>4, <2>6, <2>7, <2>8, <2>9, <2>10, <2>11 DEF RingInv
<1>5. CASE ~ (q[i].capacity > 0)
  <2>1. PutWait(i, "decoder") /\ decoder' = "wait" /\ owns' = owns /\ stage' = i /\ stage' = stage
    BY <1>5 DEF PutFrame
  <2>2. \A j \in Subs \ {i} : /\ decoder' = "wait" /\ stage' = j <=> decoder = "wait" /\ stage = j
                              /\ decoder' = "granted" /\ stage' = j <=> decoder = "granted" /\ stage = j
    BY <1>1, <2>1
  <2>3. Reserved(i)' = Reserved(i)
    BY <1>1, <1>2, <2>1 DEF Reserved
  <2>4. /\ q' \in [Subs -> QueueSet(Used)] /\ thread' = thread /\ Exact(i)'
        /\ \A j \in Subs \ {i} : q'[j] = q[j]
        /\ q'[i].cnt = q[i].cnt /\ q'[i].index = q[i].index /\ q'[i].buf = q[i].buf
    BY <1>1, <1>2, <1>5, <2>1, <2>3, WaitStep DEF Putters
  <2>5. \A j \in Subs : Still(j)
    BY <2>4 DEF Still
  <2>6. Types'
    <3> HIDE DEF Used
    <3> QED
      BY <1>1, <1>2, <1>3, <2>1, <2>4 DEF Types
  <2>7. DecoderInv'
    BY <1>1, <1>2, <1>3, <2>1 DEF DecoderInv
  <2>8. ASSUME NEW j \in Subs \ {i} PROVE Exact(j)'
    BY <1>2, <2>2, <2>4, ExactKept
  <2>9. ASSUME NEW j \in Subs PROVE Life(j)'
    BY <1>2, <2>4, LifeKept
  <2> QED
    BY <1>5, <2>4, <2>5, <2>6, <2>7, <2>8, <2>9 DEF RingInv
<1> QED
  BY <1>4, <1>5

\* It was granted a place while it waited.
LEMMA RingPutResume ==
  ASSUME RingInv, PutResume, NEW i \in Subs, i = stage
  PROVE  RingInv' /\ Joined(i, fbuf)
<1>1. /\ decoder = "granted" /\ decoder' = "run" /\ Store(i, fbuf, q[i]) /\ stage' = i + 1
      /\ owns' = (owns /\ i # 0) /\ i \in 0..2
      /\ UNCHANGED <<fbuf, mqueue, on, held, control, signal, ref, frames, since, seen, quiet>>
      /\ fbuf' = fbuf /\ frames' = frames /\ mqueue' = mqueue /\ control' = control /\ ref' = ref
  BY SizeFacts DEF PutResume, history
<1>2. Types /\ DecoderInv /\ Used \in Nat /\ Used' = Used
  BY <1>1, SMTT(30) DEF RingInv, Types, Used
<1>3. fbuf \in frames /\ fbuf # Blank /\ mqueue[i] /\ fbuf \in 1..Used
  BY <1>1, <1>2 DEF DecoderInv, Types
<1>4. /\ stage' # i /\ stage' \in 0..Done
      /\ \A j \in Subs : (decoder' = "wait" /\ stage' = j <=> decoder = "wait" /\ stage = j)
      /\ \A j \in Subs \ {i} : (decoder' = "granted" /\ stage' = j <=> decoder = "granted" /\ stage = j)
  BY <1>1 DEF Done
<1>5. Reserved(i)' = Reserved(i) - 1 /\ Reserved(i) > 0
  BY <1>1 DEF Reserved
<1>6. PICK s : s = q[i]
  OBVIOUS
<1>7. Store(i, fbuf, s) /\ Used <= Used
  BY <1>1, <1>2, <1>6
<1>8. /\ q' \in [Subs -> QueueSet(Used)]
      /\ thread' \in [Subs -> {"none", "start", "wait", "granted", "busy", "ending"}]
      /\ Exact(i)'
      /\ \A j \in Subs \ {i} : q'[j] = q[j] /\ thread'[j] = thread[j]
      /\ thread'[i] = IF thread[i] = "wait" THEN "granted" ELSE thread[i]
      /\ q'[i].cnt = q[i].cnt + 1 /\ q'[i].index = q[i].index
      /\ \A k \in 1..q[i].cnt : q'[i].buf[At(q[i], k)] = q[i].buf[At(q[i], k)]
      /\ q'[i].buf[At(q[i], q[i].cnt + 1)] = fbuf
  BY <1>1, <1>2, <1>3, <1>4, <1>5, <1>6, <1>7, StoreStep
<1>9. Joined(i, fbuf)
  BY <1>8 DEF Joined, Still
<1>10. Types'
  <2>1. owns' \in BOOLEAN
    BY <1>1, <1>2 DEF Types
  <2> HIDE DEF Used
  <2> QED
    BY <1>1, <1>2, <1>4, <1>8, <2>1 DEF Types
<1>11. DecoderInv'
  BY <1>1, <1>2, <1>3 DEF DecoderInv
<1>12. ASSUME NEW j \in Subs \ {i} PROVE Exact(j)' /\ Life(j)'
  BY <1>1, <1>4, <1>8, ExactKept, LifeKept
<1>13. Life(i)'
  <2>1. Life(i)
    BY DEF RingInv
  <2> QED
    BY <1>1, <1>3, <1>8, <2>1 DEF Life
<1> QED
  BY <1>8, <1>9, <1>10, <1>11, <1>12, <1>13 DEF RingInv

\* Who waited longest for a place in the queue of i is granted it.
Grants(i) ==
  \/ UNCHANGED <<decoder, control>>
  \/ decoder = "wait" /\ stage = i /\ decoder' = "granted" /\ control' = control
  \/ control[i] = "wait" /\ control' = [control EXCEPT ![i] = "granted"] /\ decoder' = decoder

\* A thread gets a buffer, at once or after it waited for it.
LEMMA RingFetch ==
  ASSUME RingInv, NEW i \in Subs, NEW s,
         \/ s = q[i] /\ thread[i] = "granted"
         \/ /\ s = [q[i] EXCEPT !.length = @ - 1] /\ q[i].length > 0
            /\ thread[i] \notin {"wait", "granted", "none"},
         Fetch(i, s), Saw(i), thread' = [thread EXCEPT ![i] = "busy"],
         ref' \in Seq(Int), Used' = Used,
         UNCHANGED <<stage, fbuf, owns, mqueue, on, signal, frames, since, quiet>>
  PROVE  RingInv' /\ Left(i) /\ Grants(i)
<1>1. Types /\ DecoderInv /\ Used \in Nat /\ Life(i) /\ thread[i] \notin {"wait", "none"}
  <2>1. thread[i] \notin {"wait", "none"}
    <3>1. CASE thread[i] = "granted"
      BY <3>1
    <3>2. CASE thread[i] \notin {"wait", "granted", "none"}
      BY <3>2
    <3> QED
      BY <3>1, <3>2
  <2>2. Types /\ DecoderInv /\ Used \in Nat /\ Life(i)
    BY DEF RingInv, Types, Used
  <2> QED
    BY <2>1, <2>2
<1>2. thread'[i] = "busy" /\ \A j \in Subs \ {i} : thread'[j] = thread[j]
  BY <1>1 DEF Types
<1>3. /\ q' \in [Subs -> QueueSet(Used)] /\ Exact(i)'
      /\ \A j \in Subs \ {i} : q'[j] = q[j] /\ control'[j] = control[j]
      /\ q[i].cnt \in 1..Size /\ q'[i].cnt = q[i].cnt - 1 /\ q'[i].buf = q[i].buf
      /\ \A k \in 1..q[i].cnt-1 : At(q'[i], k) = At(q[i], k + 1)
      /\ held' = [held EXCEPT ![i] = q[i].buf[At(q[i], 1)]]
      /\ q[i].buf[At(q[i], 1)] \in 1..Used
      /\ \/ UNCHANGED <<decoder, control>>
         \/ decoder = "wait" /\ stage = i /\ decoder' = "granted" /\ control' = control
         \/ /\ control[i] = "wait" /\ control' = [control EXCEPT ![i] = "granted"]
            /\ decoder' = decoder
  BY <1>2, FetchStep
<1>4. Left(i) /\ Grants(i)
  BY <1>3 DEF Left, Grants, Still
<1>5. PICK y : y = q[i].buf[At(q[i], 1)]
  OBVIOUS
<1>6. y \in 1..Used /\ y \in 0..Used /\ y # Blank /\ held' = [held EXCEPT ![i] = y] /\ held'[i] = y
  BY <1>1, <1>3, <1>5 DEF Types, Blank
<1>7. held' \in [Subs -> 0..Used] /\ \A j \in Subs \ {i} : held'[j] = held[j]
  BY <1>1, <1>6 DEF Types
<1>8. seen' \in [Subs -> Seq(0..Used)]
  <2>1. seen \in [Subs -> Seq(0..Used)] /\ seen[i] \in Seq(0..Used)
    BY <1>1 DEF Types
  <2>2. Append(seen[i], y) \in Seq(0..Used)
    <3> HIDE DEF Used
    <3> QED
      BY <1>6, <2>1
  <2>3. seen' = [seen EXCEPT ![i] = IF y \in frames THEN Append(seen[i], y) ELSE seen[i]]
    <3>1. seen' = [seen EXCEPT ![i] = IF held'[i] \in frames THEN Append(@, held'[i]) ELSE @]
      BY DEF Saw
    <3>2. held'[i] = y
      BY <1>6
    <3> QED
      BY <3>1, <3>2, Zenon
  <2> QED
    BY <2>1, <2>2, <2>3
<1>9. control' \in [Subs -> {"off", "on", "radio", "wait", "granted", "join"}]
  BY <1>1, <1>3 DEF Types
<1>10. decoder' \in {"idle", "run", "wait", "granted", "reset"}
  BY <1>1, <1>3 DEF Types
<1>11. Types'
  <2>1. thread' \in [Subs -> {"none", "start", "wait", "granted", "busy", "ending"}]
    BY <1>1 DEF Types
  <2> HIDE DEF Used
  <2> QED
    BY <1>1, <1>3, <1>7, <1>8, <1>9, <1>10, <2>1 DEF Types
<1>12. DecoderInv'
  BY <1>1, <1>4 DEF DecoderInv, Grants
<1>13. ASSUME NEW j \in Subs \ {i} PROVE Exact(j)' /\ Life(j)'
  <2>1. /\ decoder' = "granted" /\ stage' = j <=> decoder = "granted" /\ stage = j
        /\ decoder' = "wait" /\ stage' = j <=> decoder = "wait" /\ stage = j
    BY <1>4 DEF Grants
  <2> QED
    BY <1>2, <1>3, <1>7, <2>1, ExactKept, LifeKept
<1>14. Life(i)'
  <2>1. \/ control'[i] = control[i]
        \/ control[i] = "wait" /\ control'[i] = "granted"
    <3>1. control \in [Subs -> {"off", "on", "radio", "wait", "granted", "join"}]
      BY <1>1 DEF Types
    <3> QED
      BY <1>4, <3>1 DEF Grants
  <2> QED
    BY <1>1, <1>2, <1>6, <2>1 DEF Life
<1> QED
  BY <1>3, <1>4, <1>11, <1>12, <1>13, <1>14 DEF RingInv

\* A thread that has no buffer: it waits, or it ends.
Leaves(i) ==
  /\ \A j \in Subs : Still(j)
  /\ held' = [held EXCEPT ![i] = Blank] /\ UNCHANGED <<decoder, control, seen>>
  /\ \/ on[i] /\ thread' = [thread EXCEPT ![i] = "wait"]
     \/ ~ on[i] /\ thread' = [thread EXCEPT ![i] = "ending"]

LEMMA RingLoop ==
  ASSUME RingInv, NEW i \in Subs, Loop(i), thread[i] \in {"start", "busy"},
         ref' \in Seq(Int), Used' = Used,
         UNCHANGED <<stage, fbuf, owns, mqueue, on, signal, frames, since, quiet>>
  PROVE  /\ RingInv'
         /\ \/ Left(i) /\ Grants(i) /\ Saw(i) /\ thread' = [thread EXCEPT ![i] = "busy"] /\ on[i]
            \/ Leaves(i)
<1>1. CASE /\ on[i] /\ q[i].length > 0
           /\ Fetch(i, [q[i] EXCEPT !.length = @ - 1]) /\ Saw(i)
           /\ thread' = [thread EXCEPT ![i] = "busy"]
  <2>1. PICK s : s = [q[i] EXCEPT !.length = @ - 1]
    OBVIOUS
  <2>2. Fetch(i, s)
    BY <1>1, <2>1
  <2> QED
    BY <1>1, <2>1, <2>2, RingFetch
<1>2. CASE \/ /\ on[i] /\ q[i].length <= 0
              /\ q' = [q EXCEPT ![i].length = @ - 1]
              /\ held' = [held EXCEPT ![i] = Blank]
              /\ thread' = [thread EXCEPT ![i] = "wait"]
              /\ UNCHANGED <<decoder, control, seen>>
           \/ /\ ~on[i]
              /\ held' = [held EXCEPT ![i] = Blank]
              /\ thread' = [thread EXCEPT ![i] = "ending"]
              /\ UNCHANGED <<decoder, control, q, seen>>
  <2>1. Types /\ DecoderInv /\ Used \in Nat /\ Life(i) /\ LengthExact(i)
    BY SMTT(30) DEF RingInv, Types, Used, Exact
  <2>2. /\ q[i] \in QueueSet(Used) /\ q[i].cnt \in Nat /\ q[i].length \in Int
        /\ CapacityExact(i) /\ PuttersExact(i) /\ BuffersExact(i) /\ q \in [Subs -> QueueSet(Used)]
    BY <2>1, QueueFacts DEF Exact, Types
  <2>3. PICK r : r = [q[i] EXCEPT !.length = @ - 1]
    OBVIOUS
  <2>4. r = [index |-> q[i].index, cnt |-> q[i].cnt, length |-> q[i].length - 1,
             capacity |-> q[i].capacity, putters |-> q[i].putters, buf |-> q[i].buf]
    BY <2>2, <2>3 DEF QueueSet
  <2>5. r \in QueueSet(Used)
    BY <2>2, <2>4 DEF QueueSet
  <2>6. \/ on[i] /\ q[i].length = 0 /\ q[i].cnt = 0 /\ q' = [q EXCEPT ![i] = r]
           /\ thread' = [thread EXCEPT ![i] = "wait"]
        \/ ~on[i] /\ q' = q /\ thread' = [thread EXCEPT ![i] = "ending"]
    <3>1. q[i].length = q[i].cnt
      BY <2>1 DEF LengthExact
    <3>2. q[i].length <= 0 => q[i].length = 0
      BY <2>2, <3>1
    <3> QED
      BY <1>2, <2>3, <3>1, <3>2
  <2>7. /\ q' \in [Subs -> QueueSet(Used)] /\ \A j \in Subs \ {i} : q'[j] = q[j]
        /\ q'[i].cnt = q[i].cnt /\ q'[i].index = q[i].index /\ q'[i].buf = q[i].buf
        /\ q'[i].capacity = q[i].capacity /\ q'[i].putters = q[i].putters
        /\ q'[i].length = IF on[i] THEN -1 ELSE q[i].length
        /\ on[i] => q[i].cnt = 0
    BY <2>2, <2>4, <2>5, <2>6
  <2>8. /\ thread'[i] = IF on[i] THEN "wait" ELSE "ending"
        /\ \A j \in Subs \ {i} : thread'[j] = thread[j] /\ held'[j] = held[j]
        /\ held'[i] = Blank /\ held' \in [Subs -> 0..Used]
        /\ thread' \in [Subs -> {"none", "start", "wait", "granted", "busy", "ending"}]
        /\ UNCHANGED <<decoder, control, seen>>
    <3>1. /\ held' = [held EXCEPT ![i] = 0] /\ UNCHANGED <<decoder, control, seen>>
          /\ thread' = [thread EXCEPT ![i] = IF on[i] THEN "wait" ELSE "ending"]
      BY <1>2 DEF Blank
    <3>2. /\ held \in [Subs -> 0..Used] /\ Used \in Nat
          /\ thread \in [Subs -> {"none", "start", "wait", "granted", "busy", "ending"}]
      BY <2>1 DEF Types
    <3> HIDE DEF Used
    <3>3. held' \in [Subs -> 0..Used] /\ held'[i] = Blank /\ \A j \in Subs \ {i} : held'[j] = held[j]
      BY <3>1, <3>2 DEF Blank
    <3> QED
      BY <3>1, <3>2, <3>3
  <2>9. Types'
    <3> HIDE DEF Used
    <3> QED
      BY <2>1, <2>7, <2>8 DEF Types
  <2>10. DecoderInv'
    BY <2>1, <2>8 DEF DecoderInv
  <2>11. ASSUME NEW j \in Subs \ {i} PROVE Exact(j)' /\ Life(j)'
    BY <2>7, <2>8, ExactKept, LifeKept
  <2>12. Exact(i)'
    <3>1. LengthExact(i)'
      BY <2>1, <2>7, <2>8 DEF LengthExact
    <3>2. CapacityExact(i)'
      BY <2>2, <2>7, <2>8 DEF CapacityExact, Free, Reserved
    <3>3. PuttersExact(i)'
      BY <2>2, <2>7, <2>8 DEF PuttersExact
    <3>4. BuffersExact(i)'
      BY <2>2, <2>7 DEF BuffersExact, At
    <3> QED
      BY <3>1, <3>2, <3>3, <3>4 DEF Exact
  <2>13. Life(i)'
    BY <2>1, <2>7, <2>8 DEF Life
  <2>14. Leaves(i)
    BY <1>2, <2>6, <2>7 DEF Leaves, Still
  <2> QED
    BY <2>9, <2>10, <2>11, <2>12, <2>13, <2>14 DEF RingInv
<1> QED
  BY <1>1, <1>2 DEF Loop

LEMMA RingBegin ==
  ASSUME RingInv, NEW i \in Subs, Begin(i)
  PROVE  /\ RingInv'
         /\ \/ Left(i) /\ Grants(i) /\ Saw(i) /\ thread' = [thread EXCEPT ![i] = "busy"] /\ on[i]
            \/ Leaves(i)
<1>1. ref' \in Seq(Int) /\ Used' = Used
  BY DEF Begin, RingInv, Types, Used
<1> QED
  BY <1>1, RingLoop DEF Begin

LEMMA RingResume ==
  ASSUME RingInv, NEW i \in Subs, Resume(i)
  PROVE  RingInv' /\ Left(i) /\ Grants(i)
<1>1. ref' \in Seq(Int) /\ Used' = Used
  BY DEF Resume, RingInv, Types, Used
<1> QED
  BY <1>1, RingFetch DEF Resume

LEMMA RingDispose ==
  ASSUME RingInv, NEW i \in Subs, Dispose(i)
  PROVE  /\ RingInv'
         /\ \/ Left(i) /\ Grants(i) /\ Saw(i) /\ thread' = [thread EXCEPT ![i] = "busy"] /\ on[i]
            \/ Leaves(i)
<1>1. ref' \in Seq(Int) /\ Used' = Used
  BY RefReleased DEF Dispose, RingInv
<1> QED
  BY <1>1, RingLoop DEF Dispose

LEMMA RingEnd ==
  ASSUME RingInv, NEW i \in Subs, End(i)
  PROVE  RingInv'
<1>1. Types /\ DecoderInv /\ Used' = Used /\ thread'[i] = "none" /\ thread[i] = "ending"
  BY DEF RingInv, Types, End, Used
<1>2. \A j \in Subs \ {i} : thread'[j] = thread[j]
  BY <1>1 DEF End, Types
<1>3. Types'
  <2>1. thread' \in [Subs -> {"none", "start", "wait", "granted", "busy", "ending"}]
    BY <1>1 DEF End, Types
  <2>2. UNCHANGED <<decoderVars, mqueue, q, on, held, control, signal, ref, history>>
    BY DEF End
  <2> HIDE DEF Used
  <2> QED
    BY <1>1, <2>1, <2>2 DEF Types, decoderVars, history
<1>4. DecoderInv'
  BY <1>1 DEF DecoderInv, End, decoderVars, history
<1>5. ASSUME NEW j \in Subs \ {i} PROVE Exact(j)' /\ Life(j)'
  BY <1>2, ExactKept, LifeKept DEF End, decoderVars, history
<1>6. Exact(i)' /\ Life(i)'
  BY <1>1 DEF RingInv, End, decoderVars, history, Exact, Life, LengthExact, CapacityExact, Free,
              Reserved, PuttersExact, BuffersExact, At
<1> QED
  BY <1>3, <1>4, <1>5, <1>6 DEF RingInv

LEMMA RingStart ==
  ASSUME RingInv, NEW i \in Subs, Start(i)
  PROVE  RingInv'
<1>1. Types /\ DecoderInv /\ Used \in Nat /\ Used' = Used /\ Exact(i) /\ Life(i) /\ control[i] = "off"
  BY DEF RingInv, Types, Used, Start
<1>2. /\ thread[i] = "none" /\ mqueue[i] = FALSE
      /\ thread' = [thread EXCEPT ![i] = "start"] /\ control' = [control EXCEPT ![i] = "on"]
      /\ on' = [on EXCEPT ![i] = TRUE] /\ mqueue' = [mqueue EXCEPT ![i] = TRUE]
      /\ since' = [since EXCEPT ![i] = Used] /\ seen' = [seen EXCEPT ![i] = << >>]
      /\ quiet' = (quiet /\ (i = 0 => decoder = "idle"))
      /\ UNCHANGED <<decoder, stage, fbuf, owns, q, held, signal, ref, frames>>
  <2>1. mqueue[i] \in BOOLEAN
    BY <1>1 DEF Types
  <2> QED
    BY <1>1, <2>1 DEF Start, Life, decoderVars
<1>3. /\ thread'[i] = "start" /\ control'[i] = "on" /\ on'[i] = TRUE /\ mqueue'[i] = TRUE
      /\ \A j \in Subs \ {i} : /\ thread'[j] = thread[j] /\ control'[j] = control[j]
                               /\ on'[j] = on[j] /\ mqueue'[j] = mqueue[j]
  BY <1>1, <1>2 DEF Types
<1>4. Types'
  <2>1. /\ thread' \in [Subs -> {"none", "start", "wait", "granted", "busy", "ending"}]
        /\ control' \in [Subs -> {"off", "on", "radio", "wait", "granted", "join"}]
        /\ on' \in [Subs -> BOOLEAN] /\ mqueue' \in [Subs -> BOOLEAN]
    BY <1>1, <1>2 DEF Types
  <2>2. quiet' \in BOOLEAN
    BY <1>1, <1>2 DEF Types
  <2>3. since' \in [Subs -> 0..Used]
    <3>1. Used \in 0..Used /\ since \in [Subs -> 0..Used]
      BY <1>1 DEF Types
    <3> QED
      BY <1>2, <3>1
  <2>4. seen' \in [Subs -> Seq(0..Used)]
    <3>1. << >> \in Seq(0..Used) /\ seen \in [Subs -> Seq(0..Used)]
      BY <1>1 DEF Types
    <3> HIDE DEF Used
    <3> QED
      BY <1>2, <3>1
  <2> HIDE DEF Used
  <2> QED
    BY <1>1, <1>2, <2>1, <2>2, <2>3, <2>4 DEF Types
<1>5. DecoderInv'
  <2>1. \A j \in Subs : mqueue[j] => mqueue'[j]
    BY <1>3
  <2> QED
    BY <1>1, <1>2, <2>1 DEF DecoderInv
<1>6. ASSUME NEW j \in Subs \ {i} PROVE Exact(j)' /\ Life(j)'
  BY <1>2, <1>3, ExactKept, LifeKept
<1>7. Exact(i)'
  BY <1>1, <1>2, <1>3 DEF Exact, LengthExact, CapacityExact, Free, Reserved, PuttersExact,
                          BuffersExact, At
<1>8. Life(i)'
  BY <1>1, <1>2, <1>3 DEF Life
<1> QED
  BY <1>4, <1>5, <1>6, <1>7, <1>8 DEF RingInv

\* A signal is put into the queue, or waits for a place in it.
LEMMA RingSignal ==
  ASSUME RingInv, NEW i \in Subs, Signal(i), control[i] \in {"on", "radio"},
         on' \in [Subs -> BOOLEAN], on'[i] = FALSE, \A j \in Subs \ {i} : on'[j] = on[j],
         quiet' \in BOOLEAN
  PROVE  /\ RingInv'
         /\ \/ Joined(i, Used + 1) /\ control' = [control EXCEPT ![i] = "join"]
            \/ (\A j \in Subs : Still(j)) /\ control' = [control EXCEPT ![i] = "wait"]
<1>1. /\ ref' \in Seq(Int) /\ Used' = Used + 1 /\ Used \in Nat
      /\ signal' = [signal EXCEPT ![i] = Used + 1]
      /\ UNCHANGED <<decoder, stage, fbuf, owns, mqueue, held, frames, since, seen>>
  BY RefAppended DEF RingInv, Signal, decoderVars
<1>2. Types /\ DecoderInv /\ Life(i) /\ Used + 1 \in 1..Used+1 /\ Used + 1 \in Nat /\ Used <= Used + 1
  BY <1>1 DEF RingInv
<1>3. /\ q \in [Subs -> QueueSet(Used + 1)] /\ frames \subseteq 1..Used+1 /\ fbuf \in 0..Used+1
      /\ held \in [Subs -> 0..Used+1] /\ signal \in [Subs -> 0..Used+1]
      /\ since \in [Subs -> 0..Used+1] /\ seen \in [Subs -> Seq(0..Used+1)]
  BY <1>2, Grow
<1>4. /\ signal' \in [Subs -> 0..Used+1] /\ signal'[i] = Used + 1
      /\ \A j \in Subs \ {i} : signal'[j] = signal[j]
  <2>1. Used + 1 \in 0..Used+1
    BY <1>1
  <2> HIDE DEF Used
  <2> QED
    BY <1>1, <1>3, <2>1
<1>5. Used + 1 # Blank /\ Used + 1 \notin frames
  BY <1>1, <1>2 DEF Blank, Types
<1>6. DecoderInv'
  BY <1>1, <1>2 DEF DecoderInv
<1>7. ASSUME q' \in [Subs -> QueueSet(Used + 1)],
             thread' \in [Subs -> {"none", "start", "wait", "granted", "busy", "ending"}],
             NEW c \in {"join", "wait"}, control' = [control EXCEPT ![i] = c],
             \A j \in Subs \ {i} : q'[j] = q[j] /\ thread'[j] = thread[j],
             thread'[i] = "busy" <=> thread[i] = "busy",
             Exact(i)'
      PROVE  RingInv'
  <2>1. /\ control \in [Subs -> {"off", "on", "radio", "wait", "granted", "join"}]
        /\ c \in {"off", "on", "radio", "wait", "granted", "join"}
    BY <1>2 DEF Types
  <2>2. /\ control' \in [Subs -> {"off", "on", "radio", "wait", "granted", "join"}]
        /\ control'[i] = c /\ \A j \in Subs \ {i} : control'[j] = control[j]
    BY <1>7, <2>1
  <2>3. Types'
    <3> HIDE DEF Used
    <3> QED
      BY <1>1, <1>2, <1>3, <1>4, <1>7, <2>2 DEF Types
  <2>4. ASSUME NEW j \in Subs \ {i} PROVE Exact(j)' /\ Life(j)'
    BY <1>1, <1>4, <1>7, <2>2, ExactKept, LifeKept
  <2>5. Life(i)'
    BY <1>1, <1>2, <1>4, <1>5, <1>7, <2>2 DEF Life
  <2> QED
    BY <1>6, <1>7, <2>3, <2>4, <2>5 DEF RingInv
<1>8. control \in [Subs -> {"off", "on", "radio", "wait", "granted", "join"}]
  BY <1>2 DEF Types
<1>9. CASE q[i].capacity > 0
  <2>1. Store(i, Used + 1, Taken(q[i])) /\ control' = [control EXCEPT ![i] = "join"]
    BY <1>9 DEF Signal
  <2>2. control'[i] = "join"
    BY <1>8, <2>1
  <2>3. Reserved(i)' = Reserved(i) /\ (control'[i] = "wait" <=> control[i] = "wait")
    BY <1>1, <2>2 DEF Reserved
  <2>4. PICK s : s = Taken(q[i])
    OBVIOUS
  <2>5. Store(i, Used + 1, s)
    BY <2>1, <2>4
  <2>6. PICK x : x = Used + 1
    OBVIOUS
  <2>7. x \in 1..Used+1 /\ Store(i, x, s)
    BY <1>2, <2>5, <2>6
  <2>8. /\ q' \in [Subs -> QueueSet(Used + 1)]
        /\ thread' \in [Subs -> {"none", "start", "wait", "granted", "busy", "ending"}]
        /\ Exact(i)'
        /\ \A j \in Subs \ {i} : q'[j] = q[j] /\ thread'[j] = thread[j]
        /\ thread'[i] = IF thread[i] = "wait" THEN "granted" ELSE thread[i]
        /\ q'[i].cnt = q[i].cnt + 1 /\ q'[i].index = q[i].index
        /\ \A k \in 1..q[i].cnt : q'[i].buf[At(q[i], k)] = q[i].buf[At(q[i], k)]
        /\ q'[i].buf[At(q[i], q[i].cnt + 1)] = x
    <3> HIDE DEF Used
    <3> QED
      BY <1>1, <1>2, <1>9, <2>3, <2>4, <2>7, StoreStep
  <2>9. Joined(i, Used + 1)
    BY <2>6, <2>8 DEF Joined, Still
  <2>10. RingInv'
    BY <1>7, <2>1, <2>8
  <2> QED
    BY <2>1, <2>9, <2>10
<1>10. CASE ~ (q[i].capacity > 0)
  <2>1. PutWait(i, "control") /\ control' = [control EXCEPT ![i] = "wait"]
    BY <1>10 DEF Signal
  <2>2. control'[i] = "wait"
    BY <1>8, <2>1
  <2>3. Reserved(i)' = Reserved(i) /\ control[i] # "wait"
    BY <1>1, <2>2 DEF Reserved
  <2>4. /\ q' \in [Subs -> QueueSet(Used + 1)] /\ thread' = thread /\ Exact(i)'
        /\ \A j \in Subs \ {i} : q'[j] = q[j]
        /\ q'[i].cnt = q[i].cnt /\ q'[i].index = q[i].index /\ q'[i].buf = q[i].buf
    <3> HIDE DEF Used
    <3> QED
      BY <1>1, <1>2, <1>10, <2>1, <2>2, <2>3, WaitStep DEF Putters
  <2>5. \A j \in Subs : Still(j)
    BY <2>4 DEF Still
  <2>6. thread' \in [Subs -> {"none", "start", "wait", "granted", "busy", "ending"}]
    BY <1>2, <2>4 DEF Types
  <2>7. RingInv'
    BY <1>7, <2>1, <2>4, <2>6
  <2> QED
    BY <2>1, <2>5, <2>7
<1> QED
  BY <1>9, <1>10

LEMMA RingStop ==
  ASSUME RingInv, NEW i \in Subs, Stop(i)
  PROVE  /\ RingInv' /\ control[i] = "on" /\ on' = [on EXCEPT ![i] = FALSE]
         /\ \/ i = 0 /\ Signal(i) /\ Joined(i, Used + 1) /\ control' = [control EXCEPT ![i] = "join"]
            \/ /\ i = 0 /\ Signal(i) /\ (\A j \in Subs : Still(j))
               /\ control' = [control EXCEPT ![i] = "wait"]
            \/ /\ i # 0 /\ control' = [control EXCEPT ![i] = "radio"]
               /\ UNCHANGED <<decoderVars, mqueue, q, thread, held, signal, ref, frames, since, seen>>
<1>1. Types /\ DecoderInv /\ Life(i) /\ Exact(i) /\ control[i] = "on" /\ on' = [on EXCEPT ![i] = FALSE]
  BY DEF RingInv, Stop, BeginStop
<1>2. on' \in [Subs -> BOOLEAN] /\ on'[i] = FALSE /\ \A j \in Subs \ {i} : on'[j] = on[j]
  BY <1>1 DEF Types
<1>3. quiet' \in BOOLEAN
  BY <1>1 DEF Types, Stop, BeginStop
<1>4. CASE i = 0
  <2>1. Signal(i)
    BY <1>4 DEF Stop
  <2> QED
    BY <1>1, <1>2, <1>3, <1>4, <2>1, RingSignal
<1>5. CASE i # 0
  <2>1. /\ control' = [control EXCEPT ![i] = "radio"]
        /\ UNCHANGED <<decoderVars, mqueue, q, thread, held, signal, ref, frames, since, seen>>
        /\ UNCHANGED <<decoder, stage, fbuf, owns>>
    BY <1>5 DEF Stop, decoderVars
  <2>2. control'[i] = "radio" /\ \A j \in Subs \ {i} : control'[j] = control[j]
    BY <1>1, <2>1 DEF Types
  <2>3. Types'
    <3>1. /\ control' \in [Subs -> {"off", "on", "radio", "wait", "granted", "join"}] /\ Used' = Used
      BY <1>1, <2>1 DEF Types, Used
    <3> HIDE DEF Used
    <3> QED
      BY <1>1, <1>2, <1>3, <2>1, <3>1 DEF Types
  <2>4. DecoderInv'
    BY <1>1, <2>1 DEF DecoderInv
  <2>5. ASSUME NEW j \in Subs \ {i} PROVE Exact(j)' /\ Life(j)'
    BY <1>2, <2>1, <2>2, ExactKept, LifeKept
  <2>6. Exact(i)'
    BY <1>1, <2>1, <2>2 DEF Exact, LengthExact, CapacityExact, Free, Reserved, PuttersExact,
                            BuffersExact, At
  <2>7. Life(i)'
    BY <1>1, <1>2, <2>1, <2>2 DEF Life
  <2> QED
    BY <1>1, <1>5, <2>1, <2>3, <2>4, <2>5, <2>6, <2>7 DEF RingInv
<1> QED
  BY <1>4, <1>5

LEMMA RingRadioReleased ==
  ASSUME RingInv, NEW i \in Subs, RadioReleased(i)
  PROVE  /\ RingInv'
         /\ \/ Joined(i, Used + 1) /\ control' = [control EXCEPT ![i] = "join"]
            \/ (\A j \in Subs : Still(j)) /\ control' = [control EXCEPT ![i] = "wait"]
<1>1. /\ Types /\ Life(i) /\ control[i] = "radio" /\ Signal(i) /\ on' = on /\ quiet' = quiet
  BY DEF RingInv, RadioReleased
<1>2. on[i] \in BOOLEAN /\ on \in [Subs -> BOOLEAN] /\ quiet \in BOOLEAN
  BY <1>1 DEF Types
<1>3. on'[i] = FALSE
  BY <1>1, <1>2 DEF Life
<1> QED
  BY <1>1, <1>2, <1>3, RingSignal

LEMMA RingSignalResume ==
  ASSUME RingInv, NEW i \in Subs, SignalResume(i)
  PROVE  RingInv' /\ Joined(i, signal[i])
<1>1. /\ control[i] = "granted" /\ Store(i, signal[i], q[i])
      /\ control' = [control EXCEPT ![i] = "join"]
      /\ UNCHANGED <<decoder, stage, fbuf, owns, mqueue, on, held, signal, ref, frames, since, seen, quiet>>
      /\ decoder' = decoder /\ stage' = stage /\ ref' = ref
  BY DEF SignalResume, decoderVars, history
<1>2. Types /\ DecoderInv /\ Life(i) /\ Used \in Nat /\ Used' = Used /\ Used <= Used
  BY <1>1 DEF RingInv, Types, Used
<1>3. control'[i] = "join" /\ \A j \in Subs \ {i} : control'[j] = control[j]
  BY <1>1, <1>2 DEF Types
<1>4. PICK x : x = signal[i]
  OBVIOUS
<1>5. PICK s : s = q[i]
  OBVIOUS
<1>6. x \in 1..Used /\ Store(i, x, s)
  BY <1>1, <1>2, <1>4, <1>5 DEF Types, Life, Blank
<1>7. Reserved(i)' = Reserved(i) - 1 /\ Reserved(i) > 0 /\ (control'[i] = "wait" <=> control[i] = "wait")
  BY <1>1, <1>3 DEF Reserved
<1>8. /\ q' \in [Subs -> QueueSet(Used)]
      /\ thread' \in [Subs -> {"none", "start", "wait", "granted", "busy", "ending"}]
      /\ Exact(i)'
      /\ \A j \in Subs \ {i} : q'[j] = q[j] /\ thread'[j] = thread[j]
      /\ thread'[i] = IF thread[i] = "wait" THEN "granted" ELSE thread[i]
      /\ q'[i].cnt = q[i].cnt + 1 /\ q'[i].index = q[i].index
      /\ \A k \in 1..q[i].cnt : q'[i].buf[At(q[i], k)] = q[i].buf[At(q[i], k)]
      /\ q'[i].buf[At(q[i], q[i].cnt + 1)] = x
  BY <1>1, <1>2, <1>5, <1>6, <1>7, StoreStep
<1>9. Joined(i, signal[i])
  BY <1>4, <1>8 DEF Joined, Still
<1>10. Types'
  <2>1. control' \in [Subs -> {"off", "on", "radio", "wait", "granted", "join"}]
    BY <1>1, <1>2 DEF Types
  <2> HIDE DEF Used
  <2> QED
    BY <1>1, <1>2, <1>8, <2>1 DEF Types
<1>11. DecoderInv'
  BY <1>1, <1>2 DEF DecoderInv
<1>12. ASSUME NEW j \in Subs \ {i} PROVE Exact(j)' /\ Life(j)'
  BY <1>1, <1>3, <1>8, ExactKept, LifeKept
<1>13. Life(i)'
  BY <1>1, <1>2, <1>3, <1>8 DEF Life
<1> QED
  BY <1>8, <1>9, <1>10, <1>11, <1>12, <1>13 DEF RingInv

LEMMA RingJoin ==
  ASSUME RingInv, NEW i \in Subs, Join(i)
  PROVE  /\ RingInv' /\ q'[i].cnt = 0 /\ \A j \in Subs \ {i} : q'[j] = q[j]
         /\ \/ decoder = "wait" /\ stage = i /\ decoder' = "reset"
            \/ decoder' = decoder /\ ~ (decoder = "wait" /\ stage = i)
<1>1. /\ control[i] = "join" /\ thread[i] = "none" /\ decoder # "granted" /\ Clear(i)
      /\ mqueue' = [mqueue EXCEPT ![i] = FALSE] /\ control' = [control EXCEPT ![i] = "off"]
      /\ since' = [since EXCEPT ![i] = 0] /\ seen' = [seen EXCEPT ![i] = << >>]
      /\ signal' = [signal EXCEPT ![i] = 0] /\ signal' = [signal EXCEPT ![i] = Blank]
      /\ UNCHANGED <<stage, fbuf, owns, on, thread, held, frames, quiet>>
      /\ stage' = stage /\ thread' = thread
  BY DEF Join, Blank
<1>2. Types /\ DecoderInv /\ Life(i) /\ Used \in Nat
  BY SMTT(30) DEF RingInv, Types, Used
<1>3. ref' \in Seq(Int) /\ Used' = Used
  BY <1>1, <1>2, RefReleased DEF Clear
<1>4. /\ q' \in [Subs -> QueueSet(Used)] /\ Exact(i)' /\ q'[i].cnt = 0
      /\ \A j \in Subs \ {i} : q'[j] = q[j] /\ Exact(j)'
      /\ \/ decoder = "wait" /\ stage = i /\ decoder' = "reset"
         \/ decoder' = decoder /\ ~ (decoder = "wait" /\ stage = i)
  BY <1>1, ClearStep
<1>5. /\ control' \in [Subs -> {"off", "on", "radio", "wait", "granted", "join"}]
      /\ mqueue' \in [Subs -> BOOLEAN] /\ control'[i] = "off" /\ mqueue'[i] = FALSE /\ signal'[i] = Blank
      /\ \A j \in Subs \ {i} : control'[j] = control[j] /\ mqueue'[j] = mqueue[j] /\ signal'[j] = signal[j]
  BY <1>1, <1>2 DEF Types
<1>6. Types'
  <2>1. 0 \in 0..Used
    BY <1>2
  <2>2. /\ since \in [Subs -> 0..Used] /\ signal \in [Subs -> 0..Used] /\ seen \in [Subs -> Seq(0..Used)]
    BY <1>2 DEF Types
  <2>3. since' \in [Subs -> 0..Used] /\ signal' \in [Subs -> 0..Used]
    BY <1>1, <2>1, <2>2
  <2>4. seen' \in [Subs -> Seq(0..Used)]
    <3> HIDE DEF Used
    <3>1. << >> \in Seq(0..Used)
      OBVIOUS
    <3> QED
      BY <1>1, <2>2, <3>1
  <2>5. decoder' \in {"idle", "run", "wait", "granted", "reset"}
    BY <1>2, <1>4 DEF Types
  <2> HIDE DEF Used
  <2> QED
    BY <1>1, <1>2, <1>3, <1>4, <1>5, <2>3, <2>4, <2>5 DEF Types
<1>7. DecoderInv'
  <2>1. decoder' \in {"wait", "granted"} => decoder \in {"wait", "granted"} /\ stage # i
    BY <1>1, <1>4
  <2>2. i # Done /\ (decoder' = "reset" => stage' # Done)
    BY <1>1, <1>2, <1>4, SizeFacts DEF DecoderInv, Done
  <2>3. decoder' = "idle" <=> decoder = "idle"
    BY <1>4
  <2> QED
    BY <1>1, <1>2, <1>5, <2>1, <2>2, <2>3 DEF DecoderInv
<1>8. ASSUME NEW j \in Subs \ {i} PROVE Life(j)'
  BY <1>1, <1>4, <1>5, LifeKept
<1>9. Life(i)'
  BY <1>1, <1>2, <1>4, <1>5 DEF Life
<1> QED
  BY <1>4, <1>6, <1>7, <1>8, <1>9 DEF RingInv

LEMMA RingStep == RingInv /\ [Next]_vars => RingInv'
<1> SUFFICES ASSUME RingInv, [Next]_vars PROVE RingInv'
  OBVIOUS
<1>1. CASE UNCHANGED vars
  BY <1>1, RingStutter
<1>2. CASE Decoder
  <2>1. CASE PutFrame
    <3>1. stage \in Subs
      BY <2>1 DEF PutFrame
    <3> QED
      BY <2>1, <3>1, RingPutFrame
  <2>2. CASE PutResume
    <3>1. stage \in Subs
      BY <2>2 DEF PutResume, RingInv, DecoderInv
    <3> QED
      BY <2>2, <3>1, RingPutResume
  <2> QED
    BY <1>2, <2>1, <2>2, RingReceive, RingSkip, RingPutReset, RingFinish DEF Decoder
<1>3. ASSUME NEW i \in Subs, Subscriber(i) PROVE RingInv'
  BY <1>3, RingBegin, RingResume, RingDispose, RingEnd DEF Subscriber
<1>4. ASSUME NEW i \in Subs, Control(i) PROVE RingInv'
  BY <1>4, RingStart, RingStop, RingRadioReleased, RingSignalResume, RingJoin DEF Control
<1> QED
  BY <1>1, <1>2, <1>3, <1>4 DEF Next

(***************************************************************************)
(* Ring, semaphores and threads of each queue agree, whoever is in the     *)
(* middle of a call and whatever is cleared under it: no place is given to *)
(* two, no buffer is taken that was not put (fbuf.c:441-511), and a thread *)
(* runs as long as its subscriber is on (monitor.c:76-124,                 *)
(* digipeater.c:75-126).                                                   *)
(***************************************************************************)
THEOREM RingInvariant == Spec => []RingInv
BY RingInit, RingStep, PTL DEF Spec

LEMMA Typed == RingInv => TypeOK
<1> SUFFICES ASSUME RingInv PROVE TypeOK
  OBVIOUS
<1>1. Types /\ Fbufs = 1..Used /\ Blank = 0 /\ Used \in Nat
  BY DEF RingInv, Types, Fbufs, Blank, Used
<1>2. Fbufs \cup {Blank} = 0..Used
  BY <1>1
<1>3. QueueSet(Used) = [index : 0..Size-1, cnt : Nat, length : Int, capacity : Int,
                        putters : Seq({"decoder", "control"}),
                        buf : [0..Size-1 -> Fbufs \cup {Blank}]]
  BY <1>2 DEF QueueSet, Putters
<1>4. control \in [Subs -> {"off", "on", "radio", "wait", "granted", "reset", "join"}]
  BY <1>1 DEF Types
<1> HIDE DEF Used, Fbufs
<1> QED
  BY <1>1, <1>2, <1>3, <1>4 DEF Types, TypeOK

(***************************************************************************)
(* Every variable has its type whatever the decoder, the subscribers and   *)
(* those who turn them on and off do (hdlc_decoder.c, monitor.c,           *)
(* digipeater.c, igate.c).                                                 *)
(***************************************************************************)
THEOREM TypeCorrect == Spec => []TypeOK
BY RingInvariant, Typed, PTL

----------------------------------------------------------------------------
(* The line of a subscriber: what it has got, and then its queue.          *)

Total(i) == Len(seen[i]) + q[i].cnt

Nth(i, k) ==
  IF k <= Len(seen[i]) THEN seen[i][k] ELSE q[i].buf[At(q[i], k - Len(seen[i]))]

(* While it is on there are frames in its line, each once, in the order in *)
(* which they were received, and all the decoder has passed to it since it *)
(* was turned on.  A put that was reset concerns a frame from before that. *)
OrderInv(i) ==
  control[i] = "on" =>
    /\ \A k \in 1..Total(i) : Nth(i, k) \in frames /\ (Nth(i, k) = fbuf => stage > i)
    /\ \A j, k \in 1..Total(i) : j < k => Nth(i, j) < Nth(i, k)
    /\ \A n \in frames :
         n > since[i] /\ (n = fbuf => stage > i) => \E k \in 1..Total(i) : Nth(i, k) = n
    /\ decoder = "reset" /\ stage = i => fbuf <= since[i]

LEMMA LineFacts ==
  ASSUME RingInv, NEW i \in Subs
  PROVE  /\ Len(seen[i]) \in Nat /\ q[i].cnt \in Nat /\ Total(i) \in Nat /\ seen[i] \in Seq(0..Used)
         /\ frames \subseteq 1..Used /\ Used \in Nat /\ fbuf \in 0..Used /\ stage \in 0..3
         /\ since[i] \in 0..Used /\ i \in 0..2
<1>1. Types /\ seen[i] \in Seq(0..Used) /\ i \in 0..2
  BY SizeFacts DEF RingInv, Types
<1>2. q[i].cnt \in Nat /\ Len(seen[i]) \in Nat
  BY <1>1, QueueFacts
<1> QED
  BY <1>1, <1>2 DEF Types, Total, Used, Done

\* The line stays as it is,
LEMMA LineStill ==
  ASSUME RingInv, NEW i \in Subs, Still(i), seen'[i] = seen[i]
  PROVE  Total(i)' = Total(i) /\ \A k \in 1..Total(i) : Nth(i, k)' = Nth(i, k)
BY DEF Still, Total, Nth, At

\* also when a frame is got out of the queue;
LEMMA LineLeft ==
  ASSUME RingInv, NEW i \in Subs, Left(i), Saw(i), Nth(i, Len(seen[i]) + 1) \in frames
  PROVE  Total(i)' = Total(i) /\ \A k \in 1..Total(i) : Nth(i, k)' = Nth(i, k)
<1>1. /\ Len(seen[i]) \in Nat /\ q[i].cnt \in 1..Size /\ Total(i) \in Nat /\ seen[i] \in Seq(0..Used)
      /\ held \in [Subs -> 0..Used] /\ seen \in [Subs -> Seq(0..Used)] /\ Size \in Nat
      /\ q[i].cnt \in Nat
  BY LineFacts, SizeFacts DEF RingInv, Types, Left
<1>2. PICK y : y = q[i].buf[At(q[i], 1)]
  OBVIOUS
<1>3. PICK l : l = Len(seen[i])
  OBVIOUS
<1>4. l \in Nat /\ ~ (l + 1 <= l) /\ l + 1 - l = 1
  BY <1>1, <1>3
<1>5. Nth(i, l + 1) = y /\ y \in frames
  BY <1>2, <1>3, <1>4 DEF Nth
<1>6. held'[i] = y /\ y \in 0..Used
  BY <1>1, <1>2 DEF Left
<1>7. seen'[i] = Append(seen[i], y)
  <2>1. seen' = [seen EXCEPT ![i] = IF held'[i] \in frames THEN Append(@, held'[i]) ELSE @]
    BY DEF Saw
  <2> QED
    BY <1>1, <1>5, <1>6, <2>1, Zenon
<1>8. /\ Len(seen'[i]) = l + 1 /\ seen'[i][l + 1] = y /\ \A k \in 1..l : seen'[i][k] = seen[i][k]
  <2>1. PICK t \in Seq(0..Used) : t = seen[i]
    BY <1>1
  <2> HIDE DEF Used
  <2> QED
    BY <1>3, <1>6, <1>7, <2>1
<1>9. /\ q'[i].cnt = q[i].cnt - 1 /\ q'[i].buf = q[i].buf
      /\ \A k \in 1..q[i].cnt-1 : At(q'[i], k) = At(q[i], k + 1)
  BY DEF Left
<1>10. Total(i)' = Total(i)
  <2>1. Total(i)' = (l + 1) + (q[i].cnt - 1) /\ Total(i) = l + q[i].cnt
    BY <1>3, <1>8, <1>9 DEF Total
  <2> QED
    BY <1>1, <1>4, <2>1
<1>11. ASSUME NEW k \in 1..Total(i) PROVE Nth(i, k)' = Nth(i, k)
  <2>1. k \in Int /\ k >= 1 /\ k <= l + q[i].cnt
    BY <1>1, <1>3 DEF Total
  <2>2. Nth(i, k)' = IF k <= l + 1 THEN seen'[i][k] ELSE q'[i].buf[At(q'[i], k - (l + 1))]
    BY <1>8 DEF Nth
  <2>3. CASE k <= l
    <3>1. k \in 1..l /\ k <= l + 1
      BY <1>4, <2>1, <2>3
    <3> QED
      BY <1>3, <1>8, <2>2, <2>3, <3>1 DEF Nth
  <2>4. CASE k = l + 1
    BY <1>3, <1>4, <1>5, <1>8, <2>2, <2>4
  <2>5. CASE k > l + 1
    <3>1. /\ k - (l + 1) \in 1..q[i].cnt-1 /\ ~ (k <= l + 1) /\ ~ (k <= l)
          /\ k - (l + 1) + 1 = k - l
      <4>1. \A a, b, c \in Int : a > b + 1 /\ a <= b + c =>
              /\ a - (b + 1) \in 1..c-1 /\ ~ (a <= b + 1) /\ ~ (a <= b) /\ a - (b + 1) + 1 = a - b
        OBVIOUS
      <4>2. l \in Int /\ q[i].cnt \in Int
        BY <1>1, <1>4
      <4> QED
        BY <2>1, <2>5, <4>1, <4>2
    <3>2. At(q'[i], k - (l + 1)) = At(q[i], k - l)
      BY <1>9, <3>1
    <3> QED
      BY <1>3, <1>9, <2>2, <3>1, <3>2 DEF Nth
  <2> QED
    BY <1>4, <2>1, <2>3, <2>4, <2>5
<1> QED
  BY <1>10, <1>11

\* and x joins it at its end.
LEMMA LineJoined ==
  ASSUME RingInv, NEW i \in Subs, NEW x, Joined(i, x), seen'[i] = seen[i]
  PROVE  /\ Total(i)' = Total(i) + 1 /\ \A t \in {Total(i) + 1} : Nth(i, t)' = x
         /\ \A k \in 1..Total(i) : Nth(i, k)' = Nth(i, k)
<1>1. /\ Len(seen[i]) \in Nat /\ q[i].cnt \in Nat /\ Total(i) = Len(seen[i]) + q[i].cnt
  BY LineFacts DEF Total
<1>2. PICK l : l = Len(seen[i])
  OBVIOUS
<1>3. /\ q'[i].cnt = q[i].cnt + 1 /\ q'[i].buf[At(q[i], q[i].cnt + 1)] = x
      /\ \A k \in 1..q[i].cnt : q'[i].buf[At(q[i], k)] = q[i].buf[At(q[i], k)]
  BY DEF Joined
<1>4. \A k : At(q'[i], k) = At(q[i], k)
  BY DEF Joined, At
<1>5. \A k : Nth(i, k)' = IF k <= l THEN seen[i][k] ELSE q'[i].buf[At(q[i], k - l)]
  BY <1>2, <1>4 DEF Nth
<1>6. \A k : Nth(i, k) = IF k <= l THEN seen[i][k] ELSE q[i].buf[At(q[i], k - l)]
  BY <1>2 DEF Nth
<1>7. Total(i)' = Total(i) + 1
  <2>1. Total(i)' = l + (q[i].cnt + 1) /\ Total(i) = l + q[i].cnt
    BY <1>2, <1>3 DEF Total
  <2> QED
    BY <1>1, <1>2, <2>1
<1>8. ASSUME NEW t \in {Total(i) + 1} PROVE Nth(i, t)' = x
  <2>1. ~ (t <= l) /\ t - l = q[i].cnt + 1
    BY <1>1, <1>2
  <2> QED
    BY <1>3, <1>5, <2>1
<1>9. ASSUME NEW k \in 1..Total(i) PROVE Nth(i, k)' = Nth(i, k)
  <2>1. k <= l \/ k - l \in 1..q[i].cnt
    BY <1>1, <1>2
  <2> QED
    BY <1>3, <1>5, <1>6, <2>1
<1> QED
  BY <1>7, <1>8, <1>9

----------------------------------------------------------------------------
(* The order is kept. *)

\* By a step that concerns another subscriber, and by one of its own thread.
LEMMA OrderKept ==
  ASSUME RingInv, NEW i \in Subs, OrderInv(i), control'[i] = "on" => control[i] = "on",
         control'[i] = "on" => /\ Total(i)' = Total(i)
                               /\ \A k \in 1..Total(i) : Nth(i, k)' = Nth(i, k),
         since'[i] = since[i], frames' = frames, fbuf' = fbuf,
         stage' > i <=> stage > i,
         decoder' = "reset" /\ stage' = i => decoder = "reset" /\ stage = i
  PROVE  OrderInv(i)'
<1> SUFFICES ASSUME control'[i] = "on" PROVE OrderInv(i)'
  BY DEF OrderInv
<1>1. /\ \A k \in 1..Total(i) : Nth(i, k) \in frames /\ (Nth(i, k) = fbuf => stage > i)
      /\ \A j, k \in 1..Total(i) : j < k => Nth(i, j) < Nth(i, k)
      /\ \A n \in frames :
           n > since[i] /\ (n = fbuf => stage > i) => \E k \in 1..Total(i) : Nth(i, k) = n
      /\ decoder = "reset" /\ stage = i => fbuf <= since[i]
  BY DEF OrderInv
<1>2. Total(i)' = Total(i) /\ \A k \in 1..Total(i) : Nth(i, k)' = Nth(i, k)
  OBVIOUS
<1>3. \A k \in 1..Total(i) : Nth(i, k)' \in frames' /\ (Nth(i, k)' = fbuf' => stage' > i)
  BY <1>1, <1>2
<1>4. \A j, k \in 1..Total(i) : j < k => Nth(i, j)' < Nth(i, k)'
  <2> TAKE j, k \in 1..Total(i)
  <2> QED
    BY <1>1, <1>2
<1>5. \A n \in frames' :
        n > since'[i] /\ (n = fbuf' => stage' > i) => \E k \in 1..Total(i) : Nth(i, k)' = n
  BY <1>1, <1>2
<1>6. decoder' = "reset" /\ stage' = i => fbuf' <= since'[i]
  BY <1>1
<1> QED
  BY <1>2, <1>3, <1>4, <1>5, <1>6 DEF OrderInv

\* When the decoder has passed a subscriber, nothing is left to it but to go on.
LEMMA OrderPassed ==
  ASSUME RingInv, NEW i \in Subs, OrderInv(i), Still(i),
         UNCHANGED <<seen, since, frames, fbuf, control>>,
         stage' = stage + 1, decoder' = "run", decoder # "idle",
         stage # i \/ decoder = "reset" \/ control[i] # "on"
  PROVE  OrderInv(i)'
<1>1. /\ Total(i)' = Total(i) /\ \A k \in 1..Total(i) : Nth(i, k)' = Nth(i, k)
      /\ i \in 0..2 /\ stage \in 0..3 /\ frames \subseteq 1..Used /\ Used \in Nat /\ since[i] \in 0..Used
      /\ fbuf \in 0..Used
  BY LineStill, LineFacts
<1>2. CASE stage # i
  <2>1. stage' > i <=> stage > i
    BY <1>1, <1>2
  <2> QED
    BY <1>1, <2>1, OrderKept
<1>3. CASE control[i] # "on"
  BY <1>3 DEF OrderInv
<1>4. CASE stage = i /\ decoder = "reset" /\ control[i] = "on"
  <2>1. /\ \A k \in 1..Total(i) : Nth(i, k) \in frames /\ (Nth(i, k) = fbuf => stage > i)
        /\ \A j, k \in 1..Total(i) : j < k => Nth(i, j) < Nth(i, k)
        /\ \A n \in frames :
             n > since[i] /\ (n = fbuf => stage > i) => \E k \in 1..Total(i) : Nth(i, k) = n
        /\ fbuf <= since[i]
    BY <1>4 DEF OrderInv
  <2>2. stage' > i
    BY <1>1, <1>4
  <2>3. \A k \in 1..Total(i) : Nth(i, k)' \in frames' /\ (Nth(i, k)' = fbuf' => stage' > i)
    BY <1>1, <2>1, <2>2
  <2>4. \A j, k \in 1..Total(i) : j < k => Nth(i, j)' < Nth(i, k)'
    <3> TAKE j, k \in 1..Total(i)
    <3> QED
      BY <1>1, <2>1
  <2>5. \A n \in frames' :
          n > since'[i] /\ (n = fbuf' => stage' > i) => \E k \in 1..Total(i) : Nth(i, k)' = n
    <3> SUFFICES ASSUME NEW n \in frames, n > since[i] PROVE \E k \in 1..Total(i) : Nth(i, k)' = n
      OBVIOUS
    <3>1. n # fbuf
      BY <1>1, <2>1
    <3> QED
      BY <1>1, <2>1, <3>1
  <2> QED
    BY <1>1, <2>3, <2>4, <2>5 DEF OrderInv
<1> QED
  BY <1>2, <1>3, <1>4

\* The decoder puts its frame at the end of the line of the subscriber it is at.
LEMMA OrderJoined ==
  ASSUME RingInv, NEW i \in Subs, OrderInv(i), i = stage, Joined(i, fbuf), decoder # "idle",
         UNCHANGED <<seen, since, frames, fbuf, control>>, stage' = i + 1, decoder' = "run"
  PROVE  OrderInv(i)'
<1> SUFFICES ASSUME control[i] = "on" PROVE OrderInv(i)'
  BY DEF OrderInv
<1>1. /\ Total(i)' = Total(i) + 1 /\ \A t \in {Total(i) + 1} : Nth(i, t)' = fbuf
      /\ \A k \in 1..Total(i) : Nth(i, k)' = Nth(i, k)
      /\ i \in 0..2 /\ frames \subseteq 1..Used /\ Used \in Nat /\ Total(i) \in Nat
  BY LineJoined, LineFacts
<1>2. fbuf \in frames /\ (\A n \in frames : n <= fbuf) /\ fbuf \in 1..Used
  BY <1>1 DEF RingInv, DecoderInv
<1>3. /\ \A k \in 1..Total(i) : Nth(i, k) \in frames /\ Nth(i, k) # fbuf
      /\ \A j, k \in 1..Total(i) : j < k => Nth(i, j) < Nth(i, k)
      /\ \A n \in frames :
           n > since[i] /\ n # fbuf => \E k \in 1..Total(i) : Nth(i, k) = n
  BY <1>1 DEF OrderInv
<1>4. \A k \in 1..Total(i) : Nth(i, k) < fbuf
  <2> TAKE k \in 1..Total(i)
  <2>1. Nth(i, k) \in frames /\ Nth(i, k) # fbuf
    BY <1>3
  <2>2. PICK y : y = Nth(i, k)
    OBVIOUS
  <2>3. y \in frames /\ y # fbuf
    BY <2>1, <2>2
  <2>4. y <= fbuf /\ y \in 1..Used
    BY <1>1, <1>2, <2>3
  <2>5. y < fbuf
    BY <1>1, <1>2, <2>3, <2>4
  <2> QED
    BY <2>2, <2>5
<1>5. stage' > i
  BY <1>1
<1>6. \A k \in 1..Total(i)+1 : k \in 1..Total(i) \/ k \in {Total(i) + 1}
  BY <1>1
<1>7. \A k \in 1..Total(i)+1 : Nth(i, k)' \in frames' /\ (Nth(i, k)' = fbuf' => stage' > i)
  BY <1>1, <1>2, <1>3, <1>5, <1>6
<1>8. \A j, k \in 1..Total(i)+1 : j < k => Nth(i, j)' < Nth(i, k)'
  <2> SUFFICES ASSUME NEW j \in 1..Total(i)+1, NEW k \in 1..Total(i)+1, j < k
               PROVE  Nth(i, j)' < Nth(i, k)'
    OBVIOUS
  <2>1. j \in 1..Total(i)
    BY <1>1
  <2>2. Nth(i, j)' = Nth(i, j)
    BY <1>1, <2>1
  <2>3. CASE k \in 1..Total(i)
    <3>1. Nth(i, k)' = Nth(i, k)
      BY <1>1, <2>3
    <3> QED
      BY <1>3, <2>1, <2>2, <2>3, <3>1
  <2>4. CASE k \in {Total(i) + 1}
    BY <1>1, <1>4, <2>1, <2>2, <2>4
  <2> QED
    BY <1>6, <2>3, <2>4
<1>9. \A n \in frames' :
        n > since'[i] /\ (n = fbuf' => stage' > i) => \E k \in 1..Total(i)+1 : Nth(i, k)' = n
  <2> SUFFICES ASSUME NEW n \in frames, n > since[i] PROVE \E k \in 1..Total(i)+1 : Nth(i, k)' = n
    OBVIOUS
  <2>1. CASE n = fbuf
    <3>1. PICK t : t = Total(i) + 1
      OBVIOUS
    <3>2. t \in 1..Total(i)+1 /\ t \in {Total(i) + 1}
      BY <1>1, <3>1
    <3> QED
      BY <1>1, <2>1, <3>2
  <2>2. CASE n # fbuf
    <3>1. PICK k \in 1..Total(i) : Nth(i, k) = n
      BY <1>3, <2>2
    <3>2. k \in 1..Total(i)+1
      BY <1>1
    <3> QED
      BY <1>1, <3>1, <3>2
  <2> QED
    BY <2>1, <2>2
<1> QED
  BY <1>1, <1>7, <1>8, <1>9 DEF OrderInv

LEMMA OrderInit == Init => \A i \in Subs : OrderInv(i)
<1> SUFFICES ASSUME Init, NEW i \in Subs PROVE OrderInv(i)
  OBVIOUS
<1>1. frames = {} /\ decoder = "idle" /\ seen[i] = << >> /\ q[i] = EmptyQueue
  BY DEF Init
<1>2. Total(i) = 0
  BY <1>1 DEF Total, EmptyQueue
<1> QED
  BY <1>1, <1>2 DEF OrderInv

LEMMA OrderReceive ==
  ASSUME RingInv, Receive, NEW i \in Subs, OrderInv(i)
  PROVE  OrderInv(i)'
<1> SUFFICES ASSUME control[i] = "on" PROVE OrderInv(i)'
  BY DEF OrderInv, Receive
<1>1. /\ decoder = "idle" /\ fbuf = 0 /\ decoder' = "run" /\ stage' = 0 /\ fbuf' = Used + 1
      /\ frames' = frames \cup {Used + 1} /\ UNCHANGED <<control, since, seen, q>> /\ since' = since
  BY DEF Receive, RingInv, DecoderInv, Blank
<1>2. /\ frames \subseteq 1..Used /\ Used \in Nat /\ i \in 0..2 /\ fbuf' \notin frames
      /\ ~ (stage' > i) /\ fbuf \notin frames
  BY <1>1, LineFacts
<1>3. Total(i)' = Total(i) /\ \A k \in 1..Total(i) : Nth(i, k)' = Nth(i, k)
  BY <1>1 DEF Total, Nth, At
<1>4. /\ \A k \in 1..Total(i) : Nth(i, k) \in frames
      /\ \A j, k \in 1..Total(i) : j < k => Nth(i, j) < Nth(i, k)
      /\ \A n \in frames : n > since[i] => \E k \in 1..Total(i) : Nth(i, k) = n
  BY <1>2 DEF OrderInv
<1>5. \A k \in 1..Total(i) : Nth(i, k)' \in frames' /\ (Nth(i, k)' = fbuf' => stage' > i)
  BY <1>1, <1>2, <1>3, <1>4
<1>6. \A j, k \in 1..Total(i) : j < k => Nth(i, j)' < Nth(i, k)'
  <2> TAKE j, k \in 1..Total(i)
  <2> QED
    BY <1>3, <1>4
<1>7. \A n \in frames' :
        n > since'[i] /\ (n = fbuf' => stage' > i) => \E k \in 1..Total(i) : Nth(i, k)' = n
  BY <1>1, <1>2, <1>3, <1>4
<1> QED
  BY <1>1, <1>3, <1>5, <1>6, <1>7 DEF OrderInv

LEMMA OrderFinish ==
  ASSUME RingInv, Finish, NEW i \in Subs, OrderInv(i)
  PROVE  OrderInv(i)'
<1> SUFFICES ASSUME control[i] = "on" PROVE OrderInv(i)'
  BY DEF OrderInv, Finish
<1>1. /\ decoder' = "idle" /\ fbuf' = 0 /\ stage = 3 /\ stage' = 3
      /\ UNCHANGED <<control, since, seen, q, frames>> /\ since' = since /\ frames' = frames
  BY DEF Finish, history, Blank, Done
<1>2. /\ frames \subseteq 1..Used /\ Used \in Nat /\ i \in 0..2 /\ fbuf' \notin frames
      /\ stage > i
  BY <1>1, LineFacts
<1>3. Total(i)' = Total(i) /\ \A k \in 1..Total(i) : Nth(i, k)' = Nth(i, k)
  BY <1>1 DEF Total, Nth, At
<1>4. /\ \A k \in 1..Total(i) : Nth(i, k) \in frames
      /\ \A j, k \in 1..Total(i) : j < k => Nth(i, j) < Nth(i, k)
      /\ \A n \in frames : n > since[i] => \E k \in 1..Total(i) : Nth(i, k) = n
  BY <1>2 DEF OrderInv
<1>5. \A k \in 1..Total(i) : Nth(i, k)' \in frames' /\ (Nth(i, k)' = fbuf' => stage' > i)
  BY <1>1, <1>2, <1>3, <1>4
<1>6. \A j, k \in 1..Total(i) : j < k => Nth(i, j)' < Nth(i, k)'
  <2> TAKE j, k \in 1..Total(i)
  <2> QED
    BY <1>3, <1>4
<1>7. \A n \in frames' :
        n > since'[i] /\ (n = fbuf' => stage' > i) => \E k \in 1..Total(i) : Nth(i, k)' = n
  BY <1>1, <1>3, <1>4
<1> QED
  BY <1>1, <1>3, <1>5, <1>6, <1>7 DEF OrderInv

LEMMA OrderDecoder ==
  ASSUME RingInv, Decoder, NEW i \in Subs, OrderInv(i)
  PROVE  OrderInv(i)'
<1>1. CASE Skip
  <2>1. /\ decoder = "run" /\ decoder' = decoder /\ stage' = stage + 1 /\ (stage \in Subs => ~mqueue[stage])
        /\ UNCHANGED <<seen, since, frames, fbuf, control, q>>
    BY <1>1 DEF Skip, history
  <2>2. stage # i \/ control[i] # "on"
    BY <2>1 DEF RingInv, Life
  <2>3. Still(i)
    BY <2>1 DEF Still
  <2> QED
    BY <2>1, <2>2, <2>3, OrderPassed
<1>2. CASE PutFrame
  <2>1. /\ decoder = "run" /\ stage \in Subs /\ UNCHANGED <<seen, since, frames, fbuf, control>>
        /\ fbuf' = fbuf /\ frames' = frames /\ since' = since /\ control' = control
    BY <1>2 DEF PutFrame, history
  <2>2. PICK m \in Subs : m = stage
    BY <2>1
  <2>3. CASE q[m].capacity > 0
    <3>1. Joined(m, fbuf) /\ stage' = m + 1 /\ decoder' = "run"
      BY <1>2, <2>1, <2>2, <2>3, RingPutFrame DEF PutFrame
    <3>2. CASE m = i
      BY <2>1, <2>2, <3>1, <3>2, OrderJoined
    <3>3. CASE m # i
      <4>1. Still(i)
        BY <3>1, <3>3 DEF Joined
      <4> QED
        BY <2>1, <2>2, <3>1, <3>3, <4>1, OrderPassed
    <3> QED
      BY <3>2, <3>3
  <2>4. CASE ~ (q[m].capacity > 0)
    <3>1. Still(i) /\ stage' = stage /\ decoder' = "wait"
      BY <1>2, <2>1, <2>2, <2>4, RingPutFrame DEF PutFrame
    <3>2. Total(i)' = Total(i) /\ \A k \in 1..Total(i) : Nth(i, k)' = Nth(i, k)
      BY <2>1, <3>1, LineStill
    <3> QED
      BY <2>1, <3>1, <3>2, OrderKept
  <2> QED
    BY <2>3, <2>4
<1>3. CASE PutResume
  <2>1. /\ decoder = "granted" /\ stage \in Subs /\ UNCHANGED <<seen, since, frames, fbuf, control>>
    BY <1>3 DEF PutResume, history, RingInv, DecoderInv
  <2>2. PICK m \in Subs : m = stage
    BY <2>1
  <2>3. Joined(m, fbuf) /\ stage' = m + 1 /\ decoder' = "run"
    BY <1>3, <2>2, RingPutResume DEF PutResume
  <2>4. CASE m = i
    BY <2>1, <2>2, <2>3, <2>4, OrderJoined
  <2>5. CASE m # i
    <3>1. Still(i)
      BY <2>3, <2>5 DEF Joined
    <3> QED
      BY <2>1, <2>2, <2>3, <2>5, <3>1, OrderPassed
  <2> QED
    BY <2>4, <2>5
<1>4. CASE PutReset
  <2>1. /\ decoder = "reset" /\ decoder' = "run" /\ stage' = stage + 1
        /\ UNCHANGED <<seen, since, frames, fbuf, control, q>>
    BY <1>4 DEF PutReset, history
  <2>2. Still(i)
    BY <2>1 DEF Still
  <2> QED
    BY <2>1, <2>2, OrderPassed
<1> QED
  BY <1>1, <1>2, <1>3, <1>4, OrderReceive, OrderFinish DEF Decoder

\* A thread that gets a buffer or goes on without one.
LEMMA OrderThread ==
  ASSUME RingInv, NEW m \in Subs, NEW i \in Subs, OrderInv(i),
         \/ Left(m) /\ Grants(m) /\ Saw(m)
         \/ Leaves(m),
         UNCHANGED <<stage, fbuf, frames, since>>
  PROVE  OrderInv(i)'
<1>1. /\ seen \in [Subs -> Seq(0..Used)]
      /\ control \in [Subs -> {"off", "on", "radio", "wait", "granted", "join"}]
  BY DEF RingInv, Types
<1>2. UNCHANGED <<decoder, control>> \/ Grants(m)
  BY DEF Leaves
<1>3. decoder' = "reset" => decoder = "reset"
  BY <1>2 DEF Grants
<1>4. control'[i] = "on" => control[i] = "on"
  BY <1>1, <1>2 DEF Grants
<1>5. ASSUME Still(i), seen'[i] = seen[i]
      PROVE  Total(i)' = Total(i) /\ \A k \in 1..Total(i) : Nth(i, k)' = Nth(i, k)
  BY <1>5, LineStill
<1>6. ASSUME control'[i] = "on"
      PROVE  Total(i)' = Total(i) /\ \A k \in 1..Total(i) : Nth(i, k)' = Nth(i, k)
  <2>1. CASE Leaves(m)
    BY <1>5, <2>1 DEF Leaves
  <2>2. CASE Left(m) /\ Saw(m) /\ m # i
    <3>1. Still(i)
      BY <2>2 DEF Left
    <3>2. seen'[i] = seen[i]
      BY <1>1, <2>2 DEF Saw
    <3> QED
      BY <1>5, <3>1, <3>2
  <2>3. CASE Left(m) /\ Saw(m) /\ m = i
    <3>1. control[i] = "on" /\ q[i].cnt \in 1..Size
      BY <1>4, <1>6, <2>3 DEF Left
    <3>2. Len(seen[i]) \in Nat /\ q[i].cnt \in Nat /\ Size \in Nat
      BY LineFacts, SizeFacts
    <3>3. Len(seen[i]) + 1 \in 1..Total(i)
      BY <3>1, <3>2 DEF Total
    <3>4. Nth(i, Len(seen[i]) + 1) \in frames
      BY <3>1, <3>3 DEF OrderInv
    <3> QED
      BY <2>3, <3>4, LineLeft
  <2> QED
    BY <2>1, <2>2, <2>3
<1> QED
  BY <1>3, <1>4, <1>6, OrderKept

LEMMA OrderSubscriber ==
  ASSUME RingInv, NEW m \in Subs, Subscriber(m), NEW i \in Subs, OrderInv(i)
  PROVE  OrderInv(i)'
<1>1. CASE Begin(m)
  <2>1. UNCHANGED <<stage, fbuf, frames, since>>
    BY <1>1 DEF Begin
  <2> QED
    BY <1>1, <2>1, RingBegin, OrderThread
<1>2. CASE Resume(m)
  <2>1. UNCHANGED <<stage, fbuf, frames, since>> /\ Saw(m)
    BY <1>2 DEF Resume
  <2> QED
    BY <1>2, <2>1, RingResume, OrderThread
<1>3. CASE Dispose(m)
  <2>1. UNCHANGED <<stage, fbuf, frames, since>>
    BY <1>3 DEF Dispose
  <2> QED
    BY <1>3, <2>1, RingDispose, OrderThread
<1>4. CASE End(m)
  <2>1. /\ UNCHANGED <<decoder, stage, fbuf, frames, since, seen, q, control>>
        /\ Still(i)
    BY <1>4 DEF End, decoderVars, history, Still
  <2>2. Total(i)' = Total(i) /\ \A k \in 1..Total(i) : Nth(i, k)' = Nth(i, k)
    BY <2>1, LineStill
  <2> QED
    BY <2>1, <2>2, OrderKept
<1> QED
  BY <1>1, <1>2, <1>3, <1>4 DEF Subscriber

LEMMA OrderControl ==
  ASSUME RingInv, NEW m \in Subs, Control(m), NEW i \in Subs, OrderInv(i)
  PROVE  OrderInv(i)'
<1>1. /\ control \in [Subs -> {"off", "on", "radio", "wait", "granted", "join"}]
      /\ since \in [Subs -> 0..Used] /\ seen \in [Subs -> Seq(0..Used)] /\ Used \in Nat
      /\ frames \subseteq 1..Used /\ fbuf \in 0..Used
  BY DEF RingInv, Types, Used
<1>2. ASSUME Still(i), seen'[i] = seen[i], since'[i] = since[i], control'[i] = "on" => control[i] = "on",
             UNCHANGED <<stage, fbuf, frames>>, decoder' = "reset" /\ stage = i => decoder = "reset"
      PROVE  OrderInv(i)'
  <2>1. Total(i)' = Total(i) /\ \A k \in 1..Total(i) : Nth(i, k)' = Nth(i, k)
    BY <1>2, LineStill
  <2> QED
    BY <1>2, <2>1, OrderKept
<1>3. CASE Start(m)
  <2>1. /\ control[m] = "off" /\ control' = [control EXCEPT ![m] = "on"]
        /\ since' = [since EXCEPT ![m] = Used] /\ seen' = [seen EXCEPT ![m] = << >>]
        /\ UNCHANGED <<decoder, stage, fbuf, frames, q>> /\ frames' = frames
    BY <1>3 DEF Start, decoderVars
  <2>2. CASE m # i
    <3>1. Still(i) /\ seen'[i] = seen[i] /\ since'[i] = since[i] /\ control'[i] = control[i]
      BY <1>1, <2>1, <2>2 DEF Still
    <3> QED
      BY <1>2, <2>1, <3>1
  <2>3. CASE m = i
    <3>1. q[i].cnt = 0
      BY <2>1, <2>3 DEF RingInv, Life
    <3>2. seen'[i] = << >> /\ since'[i] = Used /\ q' = q
      BY <1>1, <2>1, <2>3
    <3>3. Total(i)' = 0
      BY <3>1, <3>2 DEF Total
    <3>4. \A n \in frames' : ~ (n > since'[i])
      BY <1>1, <2>1, <3>2
    <3>5. fbuf' <= since'[i]
      BY <1>1, <2>1, <3>2
    <3> QED
      BY <3>3, <3>4, <3>5 DEF OrderInv
  <2> QED
    BY <2>2, <2>3
<1>4. ASSUME NEW c \in {"join", "wait", "radio"}, control' = [control EXCEPT ![m] = c],
             NEW x, Joined(m, x) \/ \A j \in Subs : Still(j),
             UNCHANGED <<decoder, stage, fbuf, frames, since, seen>>
      PROVE  OrderInv(i)'
  <2>1. CASE m = i
    <3>1. control'[i] # "on"
      BY <1>1, <1>4, <2>1
    <3> QED
      BY <3>1 DEF OrderInv
  <2>2. CASE m # i
    <3>1. Still(i) /\ control'[i] = control[i]
      BY <1>1, <1>4, <2>2 DEF Joined
    <3> QED
      BY <1>2, <1>4, <3>1
  <2> QED
    BY <2>1, <2>2
<1>5. ASSUME Signal(m) PROVE UNCHANGED <<decoder, stage, fbuf, frames, since, seen>>
  BY <1>5 DEF Signal, decoderVars
<1>6. CASE Stop(m)
  <2>1. CASE m = 0
    <3>1. /\ Signal(m)
          /\ \/ Joined(m, Used + 1) /\ control' = [control EXCEPT ![m] = "join"]
             \/ (\A j \in Subs : Still(j)) /\ control' = [control EXCEPT ![m] = "wait"]
      BY <1>6, <2>1, RingStop
    <3> QED
      BY <1>4, <1>5, <3>1
  <2>2. CASE m # 0
    <3>1. /\ control' = [control EXCEPT ![m] = "radio"]
          /\ UNCHANGED <<decoder, stage, fbuf, frames, since, seen, q>>
      BY <1>6, <2>2, RingStop DEF decoderVars
    <3>2. \A j \in Subs : Still(j)
      BY <3>1 DEF Still
    <3> QED
      BY <1>4, <3>1, <3>2
  <2> QED
    BY <2>1, <2>2
<1>7. CASE RadioReleased(m)
  <2>1. Signal(m)
    BY <1>7 DEF RadioReleased
  <2> QED
    BY <1>4, <1>5, <1>7, <2>1, RingRadioReleased
<1>8. CASE SignalResume(m)
  <2>1. /\ control' = [control EXCEPT ![m] = "join"]
        /\ UNCHANGED <<decoder, stage, fbuf, frames, since, seen>>
    BY <1>8 DEF SignalResume, decoderVars, history
  <2> QED
    BY <1>4, <1>8, <2>1, RingSignalResume
<1>9. CASE Join(m)
  <2>1. /\ control' = [control EXCEPT ![m] = "off"]
        /\ since' = [since EXCEPT ![m] = 0] /\ seen' = [seen EXCEPT ![m] = << >>]
        /\ UNCHANGED <<stage, fbuf, frames>>
    BY <1>9 DEF Join
  <2>2. CASE m = i
    <3>1. control'[i] # "on"
      BY <1>1, <2>1, <2>2
    <3> QED
      BY <3>1 DEF OrderInv
  <2>3. CASE m # i
    <3>1. /\ q'[i] = q[i] /\ seen'[i] = seen[i] /\ since'[i] = since[i] /\ control'[i] = control[i]
          /\ decoder' = "reset" /\ stage = i => decoder = "reset"
      BY <1>1, <1>9, <2>1, <2>3, RingJoin
    <3>2. Still(i)
      BY <3>1 DEF Still
    <3> QED
      BY <1>2, <2>1, <3>1, <3>2
  <2> QED
    BY <2>2, <2>3
<1> QED
  BY <1>3, <1>6, <1>7, <1>8, <1>9 DEF Control

LEMMA OrderStep ==
  RingInv /\ (\A i \in Subs : OrderInv(i)) /\ [Next]_vars => \A i \in Subs : OrderInv(i)'
<1> SUFFICES ASSUME RingInv, \A i \in Subs : OrderInv(i), [Next]_vars, NEW i \in Subs
             PROVE  OrderInv(i)'
  OBVIOUS
<1>1. CASE UNCHANGED vars
  BY <1>1 DEF OrderInv, Total, Nth, At, vars, decoderVars, history
<1>2. CASE Decoder
  BY <1>2, OrderDecoder
<1>3. ASSUME NEW m \in Subs, Subscriber(m) PROVE OrderInv(i)'
  BY <1>3, OrderSubscriber
<1>4. ASSUME NEW m \in Subs, Control(m) PROVE OrderInv(i)'
  BY <1>4, OrderControl
<1> QED
  BY <1>1, <1>2, <1>3, <1>4 DEF Next

LEMMA LineIsDelivered ==
  ASSUME RingInv, NEW i \in Subs, OrderInv(i), control[i] = "on"
  PROVE  Delivered(i)
<1>1. /\ Len(seen[i]) \in Nat /\ q[i].cnt \in Nat /\ Total(i) = Len(seen[i]) + q[i].cnt
      /\ seen[i] \in Seq(0..Used) /\ frames \subseteq 1..Used /\ Used \in Nat /\ since[i] \in 0..Used
  BY LineFacts DEF Total
<1>2. PICK c : c = q[i].cnt
  OBVIOUS
<1>3. PICK v : v = Queued(i)
  OBVIOUS
<1>4. v = [k \in 1..c |-> q[i].buf[At(q[i], k)]]
  BY <1>2, <1>3 DEF Queued, Place, At
<1>5. \A k \in 1..c : q[i].buf[At(q[i], k)] \in 0..Used
  <2> TAKE k \in 1..c
  <2>1. /\ q[i].index \in 0..Size-1 /\ q[i].buf \in [0..Size-1 -> 0..Used] /\ k \in 1..Size
    BY <1>1, <1>2, QueueFacts
  <2> QED
    BY <2>1, AtValue DEF At
<1>6. v \in Seq(0..Used) /\ Len(v) = c /\ c \in Nat
  <2>1. c \in Nat
    BY <1>1, <1>2
  <2>2. v \in [1..c -> 0..Used]
    BY <1>4, <1>5
  <2>3. v \in Seq(0..Used)
    BY <2>1, <2>2, SeqDef
  <2>4. Len(v) = c
    BY <1>4, <2>1
  <2> QED
    BY <2>1, <2>3, <2>4
<1>7. PICK t : t = seen[i] \o v
  OBVIOUS
<1>8. /\ DOMAIN t = 1..Total(i)
      /\ \A k \in 1..Total(i) : t[k] = Nth(i, k)
  <2>1. PICK u \in Seq(0..Used) : u = seen[i]
    BY <1>1
  <2>2. PICK n : n = Len(u) + c
    OBVIOUS
  <2>3. DOMAIN t = 1..n /\ \A k \in 1..n : t[k] = IF k <= Len(u) THEN u[k] ELSE v[k - Len(u)]
    <3>1. t = u \o v
      BY <1>7, <2>1
    <3>2. /\ Len(t) = Len(u) + Len(v) /\ DOMAIN t = 1..Len(t)
          /\ \A k \in 1..Len(t) : t[k] = IF k <= Len(u) THEN u[k] ELSE v[k - Len(u)]
      <4>1. /\ t \in Seq(0..Used) /\ Len(t) = Len(u) + Len(v)
            /\ \A k \in 1..Len(u)+Len(v) : t[k] = IF k <= Len(u) THEN u[k] ELSE v[k - Len(u)]
        BY <1>6, <3>1, ConcatProperties
      <4> QED
        BY <4>1
    <3> QED
      BY <1>6, <2>2, <3>2
  <2>4. \A k \in 1..n : ~ (k <= Len(u)) => k - Len(u) \in 1..c
    <3> HIDE DEF Used
    <3> QED
      BY <1>6, <2>2
  <2>5. \A k \in 1..n : ~ (k <= Len(u)) => v[k - Len(u)] = q[i].buf[At(q[i], k - Len(u))]
    BY <1>4, <2>4
  <2>6. n = Total(i)
    BY <1>1, <1>2, <2>1, <2>2
  <2> QED
    BY <2>1, <2>3, <2>5, <2>6 DEF Nth
<1> DEFINE passed == {n \in frames : n > since[i] /\ (n = fbuf => stage > i)}
<1>9. /\ \A k \in 1..Total(i) : Nth(i, k) \in frames /\ (Nth(i, k) = fbuf => stage > i)
      /\ \A j, k \in 1..Total(i) : j < k => Nth(i, j) < Nth(i, k)
      /\ \A n \in frames :
           n > since[i] /\ (n = fbuf => stage > i) => \E k \in 1..Total(i) : Nth(i, k) = n
  BY DEF OrderInv
<1>10. \A n \in frames : n \notin 0..since[i] <=> n > since[i]
  BY <1>1
<1>11. {t[k] : k \in DOMAIN t} \ (0..since[i]) = passed
  <2>1. ASSUME NEW k \in 1..Total(i), t[k] \notin 0..since[i] PROVE t[k] \in passed
    BY <1>8, <1>9, <1>10, <2>1
  <2>2. ASSUME NEW n \in passed PROVE n \notin 0..since[i] /\ \E k \in 1..Total(i) : t[k] = n
    BY <1>8, <1>9, <1>10
  <2> QED
    BY <1>8, <2>1, <2>2
<1>12. \A j, k \in DOMAIN t : j < k => t[j] < t[k]
  <2> SUFFICES ASSUME NEW j \in 1..Total(i), NEW k \in 1..Total(i), j < k PROVE t[j] < t[k]
    BY <1>8
  <2> QED
    BY <1>8, <1>9
<1> QED
  BY <1>3, <1>7, <1>11, <1>12 DEF Delivered

(***************************************************************************)
(* A subscriber that is on gets every frame that is received, once and in  *)
(* the order they came, for any number of subscribers, frames and stops    *)
(* and any size of the queues (hdlc_decoder.c:133-147, fbuf.c:441-511).    *)
(***************************************************************************)
THEOREM FramesDelivered == Spec => []EachFrameOnce
<1>1. Init => \A i \in Subs : OrderInv(i)
  BY OrderInit
<1>2. RingInv /\ (\A i \in Subs : OrderInv(i)) /\ [Next]_vars => (\A i \in Subs : OrderInv(i))'
  BY OrderStep
<1>3. RingInv /\ (\A i \in Subs : OrderInv(i)) => EachFrameOnce
  <2> SUFFICES ASSUME RingInv, \A i \in Subs : OrderInv(i), NEW i \in Subs, on[i] PROVE Delivered(i)
    BY DEF EachFrameOnce
  <2>1. control[i] = "on"
    BY DEF RingInv, Life
  <2> QED
    BY <2>1, LineIsDelivered
<1> QED
  BY <1>1, <1>2, <1>3, RingInvariant, PTL DEF Spec

----------------------------------------------------------------------------
(* Counting who holds a buffer.                                            *)

HeldBy(x) == {i \in Subs : held[i] = x}

Ones(c) == IF c THEN 1 ELSE 0

\* x is at place p of the ring of i, and in the queue.
InRing(x, i, p) == \E k \in 1..q[i].cnt : p = At(q[i], k) /\ q[i].buf[p] = x

LEMMA PlacesAre ==
  \A x : Places(x) = {w \in Subs \X (0..Size-1) : InRing(x, w[1], w[2])}
BY DEF Places, Place, At, InRing

LEMMA FiniteCounts ==
  /\ IsFiniteSet(Subs)
  /\ \A x : /\ IsFiniteSet(HeldBy(x)) /\ Cardinality(HeldBy(x)) \in Nat
            /\ IsFiniteSet(Places(x)) /\ Cardinality(Places(x)) \in Nat
<1>1. IsFiniteSet(0..2) /\ IsFiniteSet(0..Size-1)
  <2>1. 0 \in Int /\ 2 \in Int /\ Size - 1 \in Int
    BY SizeFacts
  <2> QED
    BY <2>1, FS_Interval
<1>2. IsFiniteSet(Subs)
  BY <1>1, SizeFacts, FS_Subset
<1>3. IsFiniteSet(Subs \X (0..Size-1))
  BY <1>1, <1>2, FS_Product
<1>4. \A x : HeldBy(x) \subseteq Subs /\ Places(x) \subseteq Subs \X (0..Size-1)
  BY DEF HeldBy, Places
<1>5. \A x : IsFiniteSet(HeldBy(x)) /\ IsFiniteSet(Places(x))
  BY <1>2, <1>3, <1>4, FS_Subset
<1> QED
  BY <1>2, <1>5, FS_CardinalityType

LEMMA OneMore ==
  ASSUME NEW S, IsFiniteSet(S), NEW e, e \notin S
  PROVE  Cardinality(S \cup {e}) = Cardinality(S) + 1
BY FS_AddElement

LEMMA OneLess ==
  ASSUME NEW S, IsFiniteSet(S), NEW e \in S
  PROVE  Cardinality(S \ {e}) = Cardinality(S) - 1
BY FS_RemoveElement

LEMMA PlacesStill ==
  ASSUME \A j \in Subs : q'[j].cnt = q[j].cnt /\ (q[j].cnt = 0 \/ Still(j))
  PROVE  \A x : Places(x)' = Places(x)
<1> TAKE x
<1>1. \A i \in Subs : \A p : InRing(x, i, p)' <=> InRing(x, i, p)
  <2> TAKE i \in Subs
  <2>1. CASE q[i].cnt = 0
    BY <2>1 DEF InRing
  <2>2. CASE Still(i)
    BY <2>2 DEF InRing, Still, At
  <2> QED
    BY <2>1, <2>2
<1>2. Places(x) = {w \in Subs \X (0..Size-1) : InRing(x, w[1], w[2])}
  BY PlacesAre
<1>3. Places(x)' = {w \in Subs \X (0..Size-1) : InRing(x, w[1], w[2])'}
  BY DEF Places, Place, At, InRing
<1> QED
  BY <1>1, <1>2, <1>3

\* A place is used for what is put, and was free.
LEMMA PlacesJoined ==
  ASSUME RingInv, NEW i \in Subs, NEW y, Joined(i, y), q[i].cnt + 1 <= Size, NEW x
  PROVE  Cardinality(Places(x))' = Cardinality(Places(x)) + Ones(x = y)
<1>1. /\ q[i].cnt \in Nat /\ Size \in Nat \ {0} /\ q[i].index \in 0..Size-1
      /\ q[i].cnt + 1 \in 1..Size
  BY QueueFacts
<1>2. PICK n : n = At(q[i], q[i].cnt + 1)
  OBVIOUS
<1>3. n \in 0..Size-1
  BY <1>1, <1>2, AtValue DEF At
<1>4. \A k \in 1..q[i].cnt : At(q[i], k) # n
  <2> TAKE k \in 1..q[i].cnt
  <2>1. k \in 1..Size /\ k # q[i].cnt + 1
    BY <1>1
  <2> QED
    BY <1>1, <1>2, <2>1, PlacesDiffer DEF At
<1>5. \A k : At(q'[i], k) = At(q[i], k)
  BY DEF Joined, At
<1>6. \A p : InRing(x, i, p)' <=> InRing(x, i, p) \/ (p = n /\ x = y)
  <2> TAKE p
  <2>1. /\ q'[i].cnt = q[i].cnt + 1 /\ q'[i].buf[n] = y
        /\ \A k \in 1..q[i].cnt : q'[i].buf[At(q[i], k)] = q[i].buf[At(q[i], k)]
    BY <1>2 DEF Joined
  <2>2. InRing(x, i, p)' <=> \E k \in 1..q[i].cnt+1 : p = At(q[i], k) /\ q'[i].buf[p] = x
    BY <1>5, <2>1 DEF InRing
  <2>3. \A k : k \in 1..q[i].cnt+1 <=> k \in 1..q[i].cnt \/ k = q[i].cnt + 1
    BY <1>1
  <2>4. (\E k \in 1..q[i].cnt+1 : p = At(q[i], k) /\ q'[i].buf[p] = x)
          <=> (\E k \in 1..q[i].cnt : p = At(q[i], k) /\ q'[i].buf[p] = x)
              \/ (p = n /\ q'[i].buf[p] = x)
    BY <1>2, <2>3, Zenon
  <2>5. (\E k \in 1..q[i].cnt : p = At(q[i], k) /\ q'[i].buf[p] = x) <=> InRing(x, i, p)
    BY <2>1 DEF InRing
  <2> QED
    BY <2>1, <2>2, <2>4, <2>5
<1>7. \A j \in Subs \ {i} : \A p : InRing(x, j, p)' <=> InRing(x, j, p)
  BY DEF Joined, Still, InRing, At
<1>8. ~ InRing(x, i, n)
  BY <1>4 DEF InRing
<1>9. Places(x) = {w \in Subs \X (0..Size-1) : InRing(x, w[1], w[2])}
  BY PlacesAre
<1>10. Places(x)' = {w \in Subs \X (0..Size-1) : InRing(x, w[1], w[2])'}
  BY DEF Places, Place, At, InRing
<1>11. CASE x = y
  <2>1. Places(x)' = Places(x) \cup {<<i, n>>}
    BY <1>3, <1>6, <1>7, <1>9, <1>10, <1>11
  <2>2. <<i, n>> \notin Places(x)
    BY <1>8, <1>9
  <2>3. Cardinality(Places(x) \cup {<<i, n>>}) = Cardinality(Places(x)) + 1
    BY <2>2, FiniteCounts, OneMore
  <2> QED
    BY <1>11, <2>1, <2>3 DEF Ones
<1>12. CASE x # y
  <2>1. Places(x)' = Places(x)
    BY <1>6, <1>7, <1>9, <1>10, <1>12
  <2>2. Cardinality(Places(x)) \in Nat
    BY FiniteCounts
  <2> QED
    BY <1>12, <2>1, <2>2 DEF Ones
<1> QED
  BY <1>11, <1>12

\* The place of what is got is free.
LEMMA PlacesLeft ==
  ASSUME RingInv, NEW i \in Subs, Left(i), NEW x
  PROVE  Cardinality(Places(x))' = Cardinality(Places(x)) - Ones(q[i].buf[At(q[i], 1)] = x)
<1>1. /\ q[i].cnt \in Nat /\ Size \in Nat \ {0} /\ q[i].index \in 0..Size-1
      /\ q[i].cnt \in 1..Size /\ 1 \in 1..Size
  BY QueueFacts DEF Left
<1>2. PICK n : n = At(q[i], 1)
  OBVIOUS
<1>3. n \in 0..Size-1
  BY <1>1, <1>2, AtValue DEF At
<1>4. \A k \in 1..q[i].cnt : At(q[i], k) = n => k = 1
  <2> TAKE k \in 1..q[i].cnt
  <2>1. k \in 1..Size
    BY <1>1
  <2> QED
    BY <1>1, <1>2, <2>1, PlacesDiffer DEF At
<1>5. \A p : InRing(x, i, p)' <=> InRing(x, i, p) /\ p # n
  <2> TAKE p
  <2>1. /\ q'[i].cnt = q[i].cnt - 1 /\ q'[i].buf = q[i].buf
        /\ \A k \in 1..q[i].cnt-1 : At(q'[i], k) = At(q[i], k + 1)
    BY DEF Left
  <2>2. ASSUME InRing(x, i, p)' PROVE InRing(x, i, p) /\ p # n
    <3>1. PICK k \in 1..q[i].cnt-1 : p = At(q'[i], k) /\ q[i].buf[p] = x
      BY <2>1, <2>2 DEF InRing
    <3>2. k + 1 \in 1..q[i].cnt /\ k + 1 # 1 /\ p = At(q[i], k + 1)
      BY <1>1, <2>1, <3>1
    <3>3. p # n
      BY <1>4, <3>2
    <3> QED
      BY <3>1, <3>2, <3>3 DEF InRing
  <2>3. ASSUME InRing(x, i, p), p # n PROVE InRing(x, i, p)'
    <3>1. PICK k \in 1..q[i].cnt : p = At(q[i], k) /\ q[i].buf[p] = x
      BY <2>3 DEF InRing
    <3>2. k # 1
      BY <1>2, <2>3, <3>1
    <3>3. k - 1 \in 1..q[i].cnt-1 /\ k - 1 + 1 = k
      BY <1>1, <3>2
    <3>4. p = At(q'[i], k - 1)
      BY <2>1, <3>1, <3>3
    <3> QED
      BY <2>1, <3>1, <3>3, <3>4 DEF InRing
  <2> QED
    BY <2>2, <2>3
<1>6. InRing(x, i, n) <=> q[i].buf[n] = x
  <2>1. 1 \in 1..q[i].cnt
    BY <1>1
  <2> QED
    BY <1>2, <2>1 DEF InRing
<1>7. \A j \in Subs \ {i} : \A p : InRing(x, j, p)' <=> InRing(x, j, p)
  BY DEF Left, Still, InRing, At
<1>8. Places(x) = {w \in Subs \X (0..Size-1) : InRing(x, w[1], w[2])}
  BY PlacesAre
<1>9. Places(x)' = {w \in Subs \X (0..Size-1) : InRing(x, w[1], w[2])'}
  BY DEF Places, Place, At, InRing
<1>10. Places(x)' = Places(x) \ {<<i, n>>}
  BY <1>3, <1>5, <1>7, <1>8, <1>9
<1>11. <<i, n>> \in Places(x) <=> q[i].buf[n] = x
  BY <1>3, <1>6, <1>8
<1>12. CASE q[i].buf[n] = x
  <2>1. Cardinality(Places(x) \ {<<i, n>>}) = Cardinality(Places(x)) - 1
    BY <1>11, <1>12, FiniteCounts, OneLess
  <2> QED
    BY <1>2, <1>10, <1>12, <2>1 DEF Ones
<1>13. CASE q[i].buf[n] # x
  <2>1. Places(x) \ {<<i, n>>} = Places(x) /\ Cardinality(Places(x)) \in Nat
    BY <1>11, <1>13, FiniteCounts
  <2>2. Cardinality(Places(x))' = Cardinality(Places(x))
    BY <1>10, <2>1
  <2>3. Ones(q[i].buf[At(q[i], 1)] = x) = 0
    BY <1>2, <1>13 DEF Ones
  <2> QED
    BY <2>1, <2>2, <2>3
<1> QED
  BY <1>12, <1>13

\* A thread holds one buffer after another.
LEMMA HeldChanges ==
  ASSUME RingInv, NEW i \in Subs, \A j \in Subs \ {i} : held'[j] = held[j]
  PROVE  \A x : Cardinality(HeldBy(x))'
                   = Cardinality(HeldBy(x)) - Ones(held[i] = x) + Ones(held'[i] = x)
<1> SUFFICES ASSUME NEW x
             PROVE  Cardinality(HeldBy(x))'
                      = Cardinality(HeldBy(x)) - Ones(held[i] = x) + Ones(held'[i] = x)
  OBVIOUS
<1>1. IsFiniteSet(HeldBy(x)) /\ Cardinality(HeldBy(x)) \in Nat
  BY FiniteCounts
<1>3. HeldBy(x)' = {j \in Subs : held'[j] = x}
  BY DEF HeldBy
<1>4. i \in HeldBy(x) <=> held[i] = x
  BY DEF HeldBy
<1>5. CASE held[i] = x /\ held'[i] = x
  <2>1. HeldBy(x)' = HeldBy(x)
    BY <1>3, <1>5 DEF HeldBy
  <2> QED
    BY <1>1, <1>5, <2>1 DEF Ones
<1>6. CASE held[i] = x /\ held'[i] # x
  <2>1. HeldBy(x)' = HeldBy(x) \ {i}
    BY <1>3, <1>6 DEF HeldBy
  <2>2. Cardinality(HeldBy(x) \ {i}) = Cardinality(HeldBy(x)) - 1
    BY <1>1, <1>4, <1>6, OneLess
  <2> QED
    BY <1>1, <1>6, <2>1, <2>2 DEF Ones
<1>7. CASE held[i] # x /\ held'[i] = x
  <2>1. HeldBy(x)' = HeldBy(x) \cup {i}
    BY <1>3, <1>7 DEF HeldBy
  <2>2. Cardinality(HeldBy(x) \cup {i}) = Cardinality(HeldBy(x)) + 1
    BY <1>1, <1>4, <1>7, OneMore
  <2> QED
    BY <1>1, <1>7, <2>1, <2>2 DEF Ones
<1>8. CASE held[i] # x /\ held'[i] # x
  <2>1. HeldBy(x)' = HeldBy(x)
    BY <1>3, <1>8 DEF HeldBy
  <2> QED
    BY <1>1, <1>8, <2>1 DEF Ones
<1> QED
  BY <1>5, <1>6, <1>7, <1>8

----------------------------------------------------------------------------
(* In quiet times no frame's put is reset, and who turns something off     *)
(* never waits for a place: the decoder receives nothing, the thread waits *)
(* and so its queue is empty.                                              *)

QuietStop(i) ==
  /\ control[i] \in {"off", "on", "radio", "join"}
  /\ control[i] \in {"radio", "join"} => decoder = "idle"
  /\ control[i] = "radio" => thread[i] = "wait"
  /\ control[i] = "join" => \/ thread[i] = "granted" /\ q[i].cnt = 1
                            \/ thread[i] \in {"busy", "ending", "none"} /\ q[i].cnt = 0

\* The decoder's own reference is handed on to the monitor, if there is one.
QuietInv ==
  quiet =>
    /\ decoder # "reset"
    /\ owns <=> decoder # "idle" /\ ~ (stage > 0 /\ 0 \in Subs /\ mqueue[0])
    /\ \A i \in Subs : QuietStop(i)

LEMMA QuietOn ==
  ASSUME NEW i \in Subs, control'[i] \in {"off", "on"}
  PROVE  QuietStop(i)'
BY DEF QuietStop

LEMMA QuietDecoder ==
  ASSUME RingInv, QuietInv, Decoder
  PROVE  QuietInv'
<1> SUFFICES ASSUME quiet' PROVE QuietInv'
  BY DEF QuietInv
<1>1. stage \in 0..3 /\ owns \in BOOLEAN /\ quiet \in BOOLEAN /\ mqueue \in [Subs -> BOOLEAN]
  BY DEF RingInv, Types, Done
<1>2. CASE Receive
  <2>1. /\ quiet /\ decoder' = "run" /\ stage' = 0 /\ owns' = TRUE
        /\ \A i \in Subs : control'[i] \in {"off", "on"}
    BY <1>2 DEF Receive
  <2> QED
    BY <2>1, QuietOn DEF QuietInv
<1>3. CASE ~ Receive
  <2>1. decoder # "idle" /\ quiet' = quiet /\ control' = control /\ mqueue' = mqueue
    BY <1>3 DEF Decoder, Skip, PutFrame, PutResume, PutReset, Finish, history
  <2>2. /\ decoder # "reset" /\ (owns <=> ~ (stage > 0 /\ 0 \in Subs /\ mqueue[0]))
        /\ \A i \in Subs : control[i] \in {"off", "on"}
    BY <2>1 DEF QuietInv, QuietStop
  <2>3. \A i \in Subs : QuietStop(i)'
    BY <2>1, <2>2, QuietOn
  <2>4. CASE Skip
    <3>1. /\ decoder' = "run" /\ stage' = stage + 1 /\ owns' = owns /\ (stage \in Subs => ~ mqueue[stage])
      BY <2>4 DEF Skip
    <3> QED
      BY <1>1, <2>1, <2>2, <2>3, <3>1 DEF QuietInv
  <2>5. CASE PutFrame
    <3>1. stage \in Subs /\ mqueue[stage]
      BY <2>5 DEF PutFrame
    <3>2. \/ decoder' = "run" /\ stage' = stage + 1 /\ owns' = (owns /\ stage # 0)
          \/ decoder' = "wait" /\ stage' = stage /\ owns' = owns
      BY <2>5 DEF PutFrame
    <3>3. owns' <=> ~ (stage' > 0 /\ 0 \in Subs /\ mqueue'[0])
      <4>1. CASE stage = 0
        <5>1. 0 \in Subs /\ mqueue'[0]
          BY <2>1, <3>1, <4>1
        <5>2. ~ (stage > 0)
          BY <4>1
        <5>3. owns
          BY <2>2, <5>2
        <5>4. CASE stage' = stage + 1 /\ owns' = (owns /\ stage # 0)
          <6>1. stage' > 0
            BY <4>1, <5>4
          <6>2. ~ owns'
            BY <4>1, <5>4, Zenon
          <6> QED
            BY <5>1, <6>1, <6>2
        <5>5. CASE stage' = stage /\ owns' = owns
          <6>1. ~ (stage' > 0) /\ owns'
            BY <4>1, <5>3, <5>5
          <6> QED
            BY <6>1
        <5> QED
          BY <3>2, <5>4, <5>5
      <4>2. CASE stage # 0
        <5>1. owns' = owns /\ stage > 0 /\ stage' > 0
          BY <1>1, <3>2, <4>2
        <5> QED
          BY <2>1, <2>2, <5>1
      <4> QED
        BY <4>1, <4>2
    <3>4. decoder' # "idle" /\ decoder' # "reset"
      BY <3>2
    <3> QED
      BY <2>3, <3>3, <3>4 DEF QuietInv
  <2>6. CASE PutResume
    <3>1. stage \in Subs /\ mqueue[stage]
      BY <2>6 DEF PutResume, RingInv, DecoderInv
    <3>2. decoder' = "run" /\ stage' = stage + 1 /\ owns' = (owns /\ stage # 0)
      BY <2>6 DEF PutResume
    <3>3. owns' <=> ~ (stage' > 0 /\ 0 \in Subs /\ mqueue'[0])
      <4>1. CASE stage = 0
        <5>1. 0 \in Subs /\ mqueue'[0]
          BY <2>1, <3>1, <4>1
        <5>2. ~ (stage > 0)
          BY <4>1
        <5>3. owns
          BY <2>2, <5>2
        <5>4. CASE stage' = stage + 1 /\ owns' = (owns /\ stage # 0)
          <6>1. stage' > 0
            BY <4>1, <5>4
          <6>2. ~ owns'
            BY <4>1, <5>4, Zenon
          <6> QED
            BY <5>1, <6>1, <6>2
        <5>5. CASE stage' = stage /\ owns' = owns
          <6>1. ~ (stage' > 0) /\ owns'
            BY <4>1, <5>3, <5>5
          <6> QED
            BY <6>1
        <5> QED
          BY <3>2, <5>4, <5>5
      <4>2. CASE stage # 0
        <5>1. owns' = owns /\ stage > 0 /\ stage' > 0
          BY <1>1, <3>2, <4>2
        <5> QED
          BY <2>1, <2>2, <5>1
      <4> QED
        BY <4>1, <4>2
    <3>4. decoder' # "idle" /\ decoder' # "reset"
      BY <3>2
    <3> QED
      BY <2>3, <3>3, <3>4 DEF QuietInv
  <2>7. CASE Finish
    <3>1. decoder' = "idle" /\ owns' = FALSE
      BY <2>7 DEF Finish
    <3> QED
      BY <2>3, <3>1 DEF QuietInv
  <2> QED
    BY <1>3, <2>2, <2>4, <2>5, <2>6, <2>7 DEF Decoder, PutReset
<1> QED
  BY <1>2, <1>3

\* While the decoder and the monitor's subscription stay as they are.
LEMMA QuietFrom ==
  ASSUME RingInv, QuietInv, NEW i \in Subs, quiet' => quiet,
         decoder' = decoder \/ (decoder = "wait" /\ decoder' = "granted"),
         stage' = stage, owns' = owns,
         0 \in Subs => mqueue'[0] = mqueue[0] \/ decoder = "idle",
         \A j \in Subs \ {i} : /\ control'[j] = control[j] /\ thread'[j] = thread[j]
                               /\ q'[j].cnt = q[j].cnt,
         quiet' => QuietStop(i)'
  PROVE  QuietInv'
<1> SUFFICES ASSUME quiet' PROVE QuietInv'
  BY DEF QuietInv
<1>1. /\ decoder # "reset" /\ (owns <=> decoder # "idle" /\ ~ (stage > 0 /\ 0 \in Subs /\ mqueue[0]))
      /\ \A j \in Subs : QuietStop(j)
  BY DEF QuietInv
<1>2. /\ owns \in BOOLEAN /\ (decoder' = "idle" <=> decoder = "idle") /\ decoder' # "reset"
  BY <1>1 DEF RingInv, Types
<1>3. \A j \in Subs : QuietStop(j)'
  <2> TAKE j \in Subs
  <2>1. CASE j = i
    BY <2>1
  <2>2. CASE j # i
    <3>1. QuietStop(j)
      BY <1>1
    <3> QED
      BY <1>2, <2>2, <3>1 DEF QuietStop
  <2> QED
    BY <2>1, <2>2
<1>4. owns' <=> decoder' # "idle" /\ ~ (stage' > 0 /\ 0 \in Subs /\ mqueue'[0])
  BY <1>1, <1>2
<1> QED
  BY <1>2, <1>3, <1>4 DEF QuietInv

LEMMA QuietSubscriber ==
  ASSUME RingInv, QuietInv, NEW i \in Subs, Subscriber(i)
  PROVE  QuietInv'
<1>1. /\ control \in [Subs -> {"off", "on", "radio", "wait", "granted", "join"}]
      /\ thread \in [Subs -> {"none", "start", "wait", "granted", "busy", "ending"}]
      /\ q[i].cnt \in Nat /\ Life(i)
  BY QueueFacts DEF RingInv, Types
<1>2. /\ quiet' = quiet /\ stage' = stage /\ owns' = owns /\ mqueue' = mqueue
      /\ \A j \in Subs \ {i} : thread'[j] = thread[j]
      /\ quiet' => quiet
      /\ (0 \in Subs => mqueue'[0] = mqueue[0] \/ decoder = "idle")
  BY <1>1 DEF Subscriber, Begin, Resume, Dispose, End, Loop, decoderVars, history
<1>3. thread[i] \in {"start", "granted", "busy", "ending"}
  BY DEF Subscriber, Begin, Resume, Dispose, End
<1>4. quiet => /\ QuietStop(i) /\ control[i] # "wait"
               /\ control[i] \in {"on", "join"}
  <2>1. quiet => QuietStop(i)
    BY DEF QuietInv
  <2> QED
    BY <1>1, <1>3, <2>1 DEF QuietStop, Life
<1>5. CASE Left(i) /\ Grants(i) /\ thread'[i] = "busy" /\ (on[i] \/ thread[i] = "granted")
  <2>1. /\ decoder' = decoder \/ (decoder = "wait" /\ decoder' = "granted")
        /\ \A j \in Subs \ {i} : control'[j] = control[j] /\ q'[j].cnt = q[j].cnt
    <3>1. /\ decoder' = decoder \/ (decoder = "wait" /\ decoder' = "granted")
          /\ control' = control \/ control' = [control EXCEPT ![i] = "granted"]
      BY <1>5 DEF Grants
    <3>2. \A j \in Subs \ {i} : control'[j] = control[j]
      BY <1>1, <3>1
    <3>3. \A j \in Subs \ {i} : q'[j].cnt = q[j].cnt
      BY <1>5 DEF Left, Still
    <3> QED
      BY <3>1, <3>2, <3>3
  <2>2. quiet => QuietStop(i)'
    <3> SUFFICES ASSUME quiet PROVE QuietStop(i)'
      OBVIOUS
    <3>1. control'[i] = control[i]
      BY <1>4, <1>5 DEF Grants
    <3>2. CASE control[i] = "on"
      BY <3>1, <3>2, QuietOn
    <3>3. CASE control[i] = "join"
      <4>1. ~ on[i]
        BY <1>1, <3>3 DEF Life
      <4>2. thread[i] = "granted" /\ q[i].cnt = 1 /\ decoder = "idle"
        BY <1>4, <1>5, <3>3, <4>1 DEF QuietStop
      <4>3. q'[i].cnt = 0 /\ decoder' = "idle"
        BY <1>5, <2>1, <4>2 DEF Left
      <4> QED
        BY <1>5, <3>1, <3>3, <4>3 DEF QuietStop
    <3> QED
      BY <1>4, <3>2, <3>3
  <2>3. \A j \in Subs \ {i} : /\ control'[j] = control[j] /\ thread'[j] = thread[j]
                              /\ q'[j].cnt = q[j].cnt
    BY <1>2, <2>1
  <2> QED
    BY <1>2, <2>1, <2>2, <2>3, QuietFrom
<1>6. CASE Leaves(i)
  <2>1. decoder' = decoder /\ control' = control /\ \A j \in Subs : q'[j].cnt = q[j].cnt
    BY <1>6 DEF Leaves, Still
  <2>2. quiet => QuietStop(i)'
    <3> SUFFICES ASSUME quiet PROVE QuietStop(i)'
      OBVIOUS
    <3>1. CASE control[i] = "on"
      BY <2>1, <3>1, QuietOn
    <3>2. CASE control[i] = "join"
      <4>1. ~ on[i]
        BY <1>1, <3>2 DEF Life
      <4>2. thread'[i] = "ending"
        BY <1>1, <1>6, <4>1 DEF Leaves
      <4>3. thread[i] \in {"start", "busy"} => q[i].cnt = 0 /\ decoder = "idle"
        BY <1>4, <3>2 DEF QuietStop
      <4>4. thread[i] = "ending" => q[i].cnt = 0 /\ decoder = "idle"
        BY <1>4, <3>2 DEF QuietStop
      <4>5. thread[i] # "granted"
        <5>1. CASE Begin(i)
          BY <5>1 DEF Begin
        <5>2. CASE Dispose(i)
          BY <5>2 DEF Dispose
        <5>3. CASE Resume(i)
          BY <1>1, <4>2, <5>3 DEF Resume
        <5>4. CASE End(i)
          BY <5>4 DEF End
        <5> QED
          BY <5>1, <5>2, <5>3, <5>4 DEF Subscriber
      <4> QED
        BY <1>3, <2>1, <3>2, <4>2, <4>3, <4>4, <4>5 DEF QuietStop
    <3> QED
      BY <1>4, <3>1, <3>2
  <2>3. \A j \in Subs \ {i} : /\ control'[j] = control[j] /\ thread'[j] = thread[j]
                              /\ q'[j].cnt = q[j].cnt
    BY <1>2, <2>1
  <2> QED
    BY <1>2, <2>1, <2>2, <2>3, QuietFrom
<1>7. CASE End(i)
  <2>1. /\ decoder' = decoder /\ control' = control /\ q' = q /\ thread[i] = "ending" /\ thread'[i] = "none"
    BY <1>1, <1>7 DEF End, decoderVars
  <2>2. quiet => QuietStop(i)'
    BY <1>4, <2>1 DEF QuietStop
  <2>3. \A j \in Subs \ {i} : /\ control'[j] = control[j] /\ thread'[j] = thread[j]
                              /\ q'[j].cnt = q[j].cnt
    BY <1>2, <2>1
  <2> QED
    BY <1>2, <2>1, <2>2, <2>3, QuietFrom
<1>8. CASE Begin(i)
  BY <1>1, <1>5, <1>6, <1>8, RingBegin
<1>9. CASE Resume(i)
  BY <1>1, <1>5, <1>9, RingResume DEF Resume
<1>10. CASE Dispose(i)
  BY <1>1, <1>5, <1>6, <1>10, RingDispose
<1> QED
  BY <1>7, <1>8, <1>9, <1>10 DEF Subscriber

\* In quiet times there is a place for the signal, and the thread gets it at once.
LEMMA QuietSignal ==
  ASSUME RingInv, NEW i \in Subs, Signal(i), thread[i] = "wait", decoder = "idle",
         control[i] \in {"on", "radio"}
  PROVE  /\ Store(i, Used + 1, Taken(q[i])) /\ control' = [control EXCEPT ![i] = "join"]
         /\ decoder' = decoder /\ stage' = stage /\ owns' = owns /\ mqueue' = mqueue
         /\ q[i].cnt = 0 /\ thread' = [thread EXCEPT ![i] = "granted"]
<1>1. /\ Exact(i) /\ Size \in Nat \ {0} /\ q[i].cnt = 0 /\ q[i].length = -1 /\ q[i] \in QueueSet(Used)
  BY QueueFacts DEF Exact, LengthExact
<1>2. Free(i) = Size
  BY <1>1 DEF Free, Reserved
<1>3. q[i].capacity > 0
  <2>1. q[i].putters = << >>
    BY <1>1, <1>2 DEF Exact, CapacityExact
  <2> QED
    BY <1>1, <1>2, <2>1 DEF Exact, CapacityExact
<1>4. Store(i, Used + 1, Taken(q[i])) /\ control' = [control EXCEPT ![i] = "join"]
  BY <1>3 DEF Signal
<1>5. PICK s : s = Taken(q[i])
  OBVIOUS
<1>6. s.length = -1
  BY <1>1, <1>5, QueueFacts, TakenFacts
<1>7. thread' = [thread EXCEPT ![i] = IF s.length < 0 THEN "granted" ELSE thread[i]]
  BY <1>4, <1>5 DEF Store
<1>8. thread' = [thread EXCEPT ![i] = "granted"]
  BY <1>6, <1>7
<1> QED
  BY <1>1, <1>4, <1>8 DEF Signal, decoderVars

LEMMA QuietControl ==
  ASSUME RingInv, QuietInv, NEW i \in Subs, Control(i)
  PROVE  QuietInv'
<1> SUFFICES ASSUME quiet' PROVE QuietInv'
  BY DEF QuietInv
<1>1. /\ control \in [Subs -> {"off", "on", "radio", "wait", "granted", "join"}]
      /\ thread \in [Subs -> {"none", "start", "wait", "granted", "busy", "ending"}]
      /\ mqueue \in [Subs -> BOOLEAN] /\ quiet \in BOOLEAN
      /\ q[i].cnt \in Nat /\ Life(i)
  BY QueueFacts DEF RingInv, Types
<1>2. quiet /\ QuietStop(i)
  <2>1. quiet
    BY <1>1 DEF Control, Start, Stop, BeginStop, RadioReleased, SignalResume, Join, history
  <2> QED
    BY <2>1 DEF QuietInv
<1>3. ASSUME Signal(i), thread[i] = "wait", decoder = "idle", control[i] \in {"on", "radio"},
             \/ Joined(i, Used + 1) /\ control' = [control EXCEPT ![i] = "join"]
             \/ (\A j \in Subs : Still(j)) /\ control' = [control EXCEPT ![i] = "wait"]
      PROVE  QuietInv'
  <2>1. /\ control' = [control EXCEPT ![i] = "join"] /\ q[i].cnt = 0
        /\ decoder' = decoder /\ stage' = stage /\ owns' = owns /\ mqueue' = mqueue
        /\ thread' = [thread EXCEPT ![i] = "granted"]
    BY <1>3, QuietSignal
  <2>2. control'[i] = "join" /\ thread'[i] = "granted" /\ Joined(i, Used + 1)
    BY <1>1, <1>3, <2>1
  <2>3. q'[i].cnt = 1
    BY <2>1, <2>2 DEF Joined
  <2>4. \A j \in Subs \ {i} : /\ control'[j] = control[j] /\ thread'[j] = thread[j]
                              /\ q'[j].cnt = q[j].cnt
    BY <1>1, <2>1, <2>2 DEF Joined, Still
  <2>5. QuietStop(i)'
    BY <1>3, <2>1, <2>2, <2>3 DEF QuietStop
  <2> QED
    BY <1>2, <2>1, <2>4, <2>5, QuietFrom
<1>4. CASE Start(i)
  <2>1. /\ thread' = [thread EXCEPT ![i] = "start"] /\ control' = [control EXCEPT ![i] = "on"]
        /\ mqueue' = [mqueue EXCEPT ![i] = TRUE] /\ (i = 0 => decoder = "idle")
        /\ UNCHANGED <<decoder, stage, owns, q>> /\ decoder' = decoder
    BY <1>4 DEF Start, decoderVars
  <2>2. /\ control'[i] = "on" /\ (0 \in Subs => mqueue'[0] = mqueue[0] \/ decoder = "idle")
        /\ \A j \in Subs \ {i} : /\ control'[j] = control[j] /\ thread'[j] = thread[j]
                                 /\ q'[j].cnt = q[j].cnt
    BY <1>1, <2>1
  <2>3. QuietStop(i)'
    BY <2>2, QuietOn
  <2> QED
    BY <1>2, <2>1, <2>2, <2>3, QuietFrom
<1>5. CASE Stop(i)
  <2>1. thread[i] = "wait" /\ decoder = "idle" /\ control[i] = "on"
    BY <1>5 DEF Stop, BeginStop
  <2>2. CASE i = 0
    <3>1. /\ Signal(i)
          /\ \/ Joined(i, Used + 1) /\ control' = [control EXCEPT ![i] = "join"]
             \/ (\A j \in Subs : Still(j)) /\ control' = [control EXCEPT ![i] = "wait"]
      BY <1>5, <2>2, RingStop
    <3> QED
      BY <1>3, <2>1, <3>1
  <2>3. CASE i # 0
    <3>1. /\ control' = [control EXCEPT ![i] = "radio"]
          /\ UNCHANGED <<decoder, stage, owns, mqueue, q, thread>> /\ decoder' = decoder
      BY <1>5, <2>3 DEF Stop, decoderVars
    <3>2. /\ control'[i] = "radio" /\ (0 \in Subs => mqueue'[0] = mqueue[0] \/ decoder = "idle")
          /\ \A j \in Subs \ {i} : /\ control'[j] = control[j] /\ thread'[j] = thread[j]
                                   /\ q'[j].cnt = q[j].cnt
      BY <1>1, <3>1
    <3>3. QuietStop(i)'
      BY <2>1, <3>1, <3>2 DEF QuietStop
    <3> QED
      BY <1>2, <3>1, <3>2, <3>3, QuietFrom
  <2> QED
    BY <2>2, <2>3
<1>6. CASE RadioReleased(i)
  <2>1. control[i] = "radio" /\ Signal(i)
    BY <1>6 DEF RadioReleased
  <2>2. thread[i] = "wait" /\ decoder = "idle"
    BY <1>2, <2>1 DEF QuietStop
  <2> QED
    BY <1>3, <1>6, <2>1, <2>2, RingRadioReleased
<1>7. CASE SignalResume(i)
  BY <1>2, <1>7 DEF QuietStop, SignalResume
<1>8. CASE Join(i)
  <2>1. /\ control[i] = "join" /\ control' = [control EXCEPT ![i] = "off"]
        /\ mqueue' = [mqueue EXCEPT ![i] = FALSE]
        /\ stage' = stage /\ owns' = owns /\ thread' = thread
    BY <1>8 DEF Join
  <2>2. decoder = "idle"
    BY <1>2, <2>1 DEF QuietStop
  <2>3. decoder' = decoder /\ \A j \in Subs \ {i} : q'[j] = q[j]
    BY <1>8, <2>2, RingJoin
  <2>4. /\ control'[i] = "off"
        /\ \A j \in Subs \ {i} : /\ control'[j] = control[j] /\ thread'[j] = thread[j]
                                 /\ q'[j].cnt = q[j].cnt
    <3>1. control'[i] = "off" /\ \A j \in Subs \ {i} : control'[j] = control[j]
      BY <1>1, <2>1
    <3>2. \A j \in Subs \ {i} : thread'[j] = thread[j] /\ q'[j].cnt = q[j].cnt
      BY <2>1, <2>3
    <3> QED
      BY <3>1, <3>2
  <2>5. QuietStop(i)'
    BY <2>4, QuietOn
  <2> QED
    BY <1>2, <2>1, <2>2, <2>3, <2>4, <2>5, QuietFrom
<1> QED
  BY <1>4, <1>5, <1>6, <1>7, <1>8 DEF Control

----------------------------------------------------------------------------
(* The references. *)

\* Those who hold x in quiet times, when no signal waits for its place.
Count(x) ==
  Ones(owns /\ fbuf = x) + Ones(decoder \in {"wait", "granted"} /\ stage # 0 /\ fbuf = x)
  + Cardinality(HeldBy(x)) + Cardinality(Places(x))

RefsInv == quiet => \A x \in 1..Used : ref[x] = Count(x)

LEMMA CountTypes ==
  \A x : /\ Ones(owns /\ fbuf = x) \in 0..1
         /\ Ones(decoder \in {"wait", "granted"} /\ stage # 0 /\ fbuf = x) \in 0..1
         /\ Cardinality(HeldBy(x)) \in Nat /\ Cardinality(Places(x)) \in Nat
BY FiniteCounts DEF Ones

LEMMA HoldersCounted ==
  ASSUME RingInv, QuietInv, quiet, NEW x
  PROVE  Holders(x) = Count(x)
<1>1. \A i \in Subs : control[i] \notin {"wait", "granted"}
  BY DEF QuietInv, QuietStop
<1>2. {i \in Subs : control[i] \in {"wait", "granted"} /\ signal[i] = x} = {}
  BY <1>1
<1>3. Cardinality({i \in Subs : control[i] \in {"wait", "granted"} /\ signal[i] = x}) = 0
  BY <1>2, FS_EmptySet
<1> DEFINE a == IF owns /\ fbuf = x THEN 1 ELSE 0
           b == IF decoder \in {"wait", "granted"} /\ stage # 0 /\ fbuf = x THEN 1 ELSE 0
           c == Cardinality({i \in Subs : held[i] = x})
           d == Cardinality({i \in Subs : control[i] \in {"wait", "granted"} /\ signal[i] = x})
           e == Cardinality(Places(x))
<1>4. Holders(x) = a + b + c + d + e
  BY DEF Holders
<1>5. Count(x) = a + b + c + e
  BY DEF Count, Ones, HeldBy
<1>6. a \in 0..1 /\ b \in 0..1 /\ c \in Nat /\ e \in Nat /\ d = 0
  BY <1>3, FiniteCounts DEF HeldBy
<1> HIDE DEF a, b, c, d, e
<1> QED
  BY <1>4, <1>5, <1>6

\* A buffer that nobody has used yet is nowhere.
LEMMA NewBuffer ==
  ASSUME RingInv, NEW x, x \in Nat, x > Used
  PROVE  Cardinality(HeldBy(x)) = 0 /\ Cardinality(Places(x)) = 0 /\ fbuf # x
<1>1. /\ held \in [Subs -> 0..Used] /\ fbuf \in 0..Used /\ Used \in Nat
      /\ q \in [Subs -> QueueSet(Used)]
  BY DEF RingInv, Types, Used
<1>2. HeldBy(x) = {}
  BY <1>1 DEF HeldBy
<1>3. ASSUME NEW i \in Subs, NEW p \in 0..Size-1 PROVE q[i].buf[p] # x
  <2>1. q[i].buf[p] \in 0..Used
    BY QueueFacts
  <2>2. x \notin 0..Used
    BY <1>1
  <2> QED
    BY <2>1, <2>2, Zenon
<1>4. Places(x) = {}
  BY <1>3, PlacesAre DEF InRing
<1> QED
  BY <1>1, <1>2, <1>4, FS_EmptySet

\* After a step, too, no queue has more buffers than places.
LEMMA QueueCapacity ==
  ASSUME RingInv', NEW i \in Subs
  PROVE  q'[i].cnt <= Size
<1>1. q'[i].cnt \in Nat /\ Reserved(i)' \in 0..2 /\ Size \in Nat
  BY SizeFacts, SMTT(30) DEF RingInv, Types, QueueSet, Reserved
<1>2. Size - q'[i].cnt - Reserved(i)' >= 0
  BY DEF RingInv, Exact, CapacityExact, Free
<1>3. \A a, b \in Nat, c \in 0..2 : a - b - c >= 0 => b <= a
  OBVIOUS
<1> QED
  BY <1>1, <1>2, <1>3

\* A reference is counted with the frame that is put, or handed on with it.
LEMMA RefsPut ==
  ASSUME RingInv, RingInv', QuietInv, RefsInv, quiet, decoder = "run", NEW i \in Subs, i = stage,
         mqueue[i], HandOver, fbuf' = fbuf, held' = held,
         \/ Joined(i, fbuf) /\ owns' = (owns /\ stage # 0) /\ decoder' = "run"
         \/ (\A j \in Subs : Still(j)) /\ owns' = owns /\ decoder' = "wait" /\ stage' = stage,
         NEW x \in 1..Used
  PROVE  ref'[x] = Count(x)'
<1>1. /\ ref'[x] = IF x = fbuf /\ stage # 0 THEN ref[x] + 1 ELSE ref[x]
      /\ ref[x] = Count(x)
  BY HandOverStep DEF RefsInv
<1>2. stage = 0 => owns
  BY DEF QuietInv
<1>3. /\ Ones(owns /\ fbuf = x) \in 0..1 /\ Cardinality(HeldBy(x)) \in Nat
      /\ Cardinality(Places(x)) \in Nat
  BY CountTypes
<1>4. Count(x) = Ones(owns /\ fbuf = x) + Cardinality(HeldBy(x)) + Cardinality(Places(x))
  BY <1>3 DEF Count, Ones
<1>5. HeldBy(x)' = HeldBy(x)
  BY DEF HeldBy
<1>6. CASE Joined(i, fbuf) /\ owns' = (owns /\ stage # 0) /\ decoder' = "run"
  <2>1. q[i].cnt + 1 <= Size
    <3>1. q'[i].cnt <= Size /\ q'[i].cnt = q[i].cnt + 1
      <4>1. q'[i].cnt <= Size
        BY QueueCapacity
      <4> QED
        BY <1>6, <4>1 DEF Joined
    <3> QED
      BY <3>1
  <2>2. Cardinality(Places(x))' = Cardinality(Places(x)) + Ones(x = fbuf)
    BY <1>6, <2>1, PlacesJoined
  <2>3. Count(x)' = Ones((owns /\ stage # 0) /\ fbuf = x) + Cardinality(HeldBy(x))
                    + (Cardinality(Places(x)) + Ones(x = fbuf))
    <3>1. Count(x)' = Ones(owns' /\ fbuf' = x)
                      + Ones(decoder' \in {"wait", "granted"} /\ stage' # 0 /\ fbuf' = x)
                      + Cardinality(HeldBy(x))' + Cardinality(Places(x))'
      BY DEF Count
    <3>2. Ones(decoder' \in {"wait", "granted"} /\ stage' # 0 /\ fbuf' = x) = 0
      BY <1>6 DEF Ones
    <3>3. /\ Ones(owns' /\ fbuf' = x) = Ones((owns /\ stage # 0) /\ fbuf = x)
          /\ Ones(owns' /\ fbuf' = x) \in 0..1 /\ Ones(x = fbuf) \in 0..1
      <4>1. owns' /\ fbuf' = x <=> (owns /\ stage # 0) /\ fbuf = x
        BY <1>6, Zenon
      <4> QED
        BY <4>1 DEF Ones
    <3> QED
      BY <1>3, <1>5, <2>2, <3>1, <3>2, <3>3
  <2>4. CASE stage = 0
    <3>1. owns
      BY <1>2, <2>4
    <3>2. /\ Ones((owns /\ stage # 0) /\ fbuf = x) = 0 /\ Ones(x = fbuf) = Ones(owns /\ fbuf = x)
      BY <2>4, <3>1 DEF Ones
    <3> QED
      BY <1>1, <1>3, <1>4, <2>3, <2>4, <3>2
  <2>5. CASE stage # 0
    <3>1. Ones((owns /\ stage # 0) /\ fbuf = x) = Ones(owns /\ fbuf = x)
      BY <2>5 DEF Ones
    <3>2. Ones(x = fbuf) = IF x = fbuf THEN 1 ELSE 0
      BY DEF Ones
    <3> QED
      BY <1>1, <1>3, <1>4, <2>3, <2>5, <3>1, <3>2
  <2> QED
    BY <2>4, <2>5
<1>7. CASE /\ \A j \in Subs : Still(j)
           /\ owns' = owns /\ decoder' = "wait" /\ stage' = stage
  <2>1. Places(x)' = Places(x)
    BY <1>7, PlacesStill DEF Still
  <2>2. Count(x)' = Ones(owns' /\ fbuf' = x)
                    + Ones(decoder' \in {"wait", "granted"} /\ stage' # 0 /\ fbuf' = x)
                    + Cardinality(HeldBy(x)) + Cardinality(Places(x))
    BY <1>5, <2>1 DEF Count
  <2>3. /\ Ones(owns' /\ fbuf' = x) = Ones(owns /\ fbuf = x)
        /\ Ones(decoder' \in {"wait", "granted"} /\ stage' # 0 /\ fbuf' = x)
             = IF stage # 0 /\ fbuf = x THEN 1 ELSE 0
    BY <1>7 DEF Ones
  <2> QED
    BY <1>1, <1>3, <1>4, <2>2, <2>3
<1> QED
  BY <1>6, <1>7

LEMMA RefsResumed ==
  ASSUME RingInv, RingInv', QuietInv, RefsInv, quiet, PutResume, NEW i \in Subs, i = stage,
         NEW x \in 1..Used
  PROVE  ref'[x] = Count(x)'
<1>1. /\ Joined(i, fbuf) /\ owns' = (owns /\ stage # 0) /\ decoder = "granted" /\ decoder' = "run"
      /\ fbuf' = fbuf /\ held' = held /\ ref' = ref
  BY RingPutResume DEF PutResume
<1>2. (stage = 0 => owns) /\ ref[x] = Count(x)
  BY <1>1 DEF QuietInv, RefsInv
<1>3. /\ Ones(owns /\ fbuf = x) \in 0..1 /\ Cardinality(HeldBy(x)) \in Nat
      /\ Cardinality(Places(x)) \in Nat
  BY CountTypes
<1>4. Count(x) = Ones(owns /\ fbuf = x) + Ones(stage # 0 /\ fbuf = x)
                 + Cardinality(HeldBy(x)) + Cardinality(Places(x))
  BY <1>1 DEF Count, Ones
<1>5. HeldBy(x)' = HeldBy(x)
  BY <1>1 DEF HeldBy
<1>6. Cardinality(Places(x))' = Cardinality(Places(x)) + Ones(x = fbuf)
  <2>1. q'[i].cnt <= Size /\ q'[i].cnt = q[i].cnt + 1
    BY <1>1, QueueCapacity DEF Joined
  <2> QED
    BY <1>1, <2>1, PlacesJoined
<1>7. Count(x)' = Ones((owns /\ stage # 0) /\ fbuf = x) + Cardinality(HeldBy(x))
                  + (Cardinality(Places(x)) + Ones(x = fbuf))
  <2>1. Count(x)' = Ones(owns' /\ fbuf' = x)
                    + Ones(decoder' \in {"wait", "granted"} /\ stage' # 0 /\ fbuf' = x)
                    + Cardinality(HeldBy(x))' + Cardinality(Places(x))'
    BY DEF Count
  <2>2. Ones(decoder' \in {"wait", "granted"} /\ stage' # 0 /\ fbuf' = x) = 0
    BY <1>1 DEF Ones
  <2>3. /\ Ones(owns' /\ fbuf' = x) = Ones((owns /\ stage # 0) /\ fbuf = x)
        /\ Ones(owns' /\ fbuf' = x) \in 0..1 /\ Ones(x = fbuf) \in 0..1
    <3>1. owns' /\ fbuf' = x <=> (owns /\ stage # 0) /\ fbuf = x
      BY <1>1, Zenon
    <3> QED
      BY <3>1 DEF Ones
  <2> QED
    BY <1>3, <1>5, <1>6, <2>1, <2>2, <2>3
<1>8. CASE stage = 0
  <2>1. owns
    BY <1>2, <1>8
  <2>2. /\ Ones((owns /\ stage # 0) /\ fbuf = x) = 0 /\ Ones(x = fbuf) = Ones(owns /\ fbuf = x)
        /\ Ones(stage # 0 /\ fbuf = x) = 0
    BY <1>8, <2>1 DEF Ones
  <2> QED
    BY <1>1, <1>2, <1>3, <1>4, <1>7, <2>2
<1>9. CASE stage # 0
  <2>1. /\ Ones((owns /\ stage # 0) /\ fbuf = x) = Ones(owns /\ fbuf = x)
        /\ Ones(x = fbuf) = Ones(stage # 0 /\ fbuf = x) /\ Ones(x = fbuf) \in 0..1
    BY <1>9 DEF Ones
  <2> QED
    BY <1>1, <1>2, <1>3, <1>4, <1>7, <2>1
<1> QED
  BY <1>8, <1>9

LEMMA RefsReceived ==
  ASSUME RingInv, RefsInv, Receive, quiet, NEW x \in 1..Used+1
  PROVE  ref'[x] = Count(x)'
<1>1. /\ decoder = "idle" /\ decoder' = "run" /\ fbuf' = Used + 1 /\ owns' = TRUE
      /\ ref' = Append(ref, 1) /\ held' = held /\ q' = q
  BY DEF Receive
<1>2. /\ Used \in Nat /\ ref'[Used + 1] = 1 /\ \A y \in 1..Used : ref'[y] = ref[y]
  BY <1>1, RefAppended DEF RingInv
<1>3. Count(x)' = Ones(fbuf' = x) + Cardinality(HeldBy(x)) + Cardinality(Places(x))
  <2>1. HeldBy(x)' = HeldBy(x) /\ Places(x)' = Places(x)
    BY <1>1 DEF HeldBy, Places, Place
  <2>2. Ones(owns' /\ fbuf' = x) = Ones(fbuf' = x)
        /\ Ones(decoder' \in {"wait", "granted"} /\ stage' # 0 /\ fbuf' = x) = 0
    BY <1>1 DEF Ones
  <2>3. Ones(fbuf' = x) \in 0..1 /\ Cardinality(HeldBy(x)) \in Nat /\ Cardinality(Places(x)) \in Nat
    BY CountTypes DEF Ones
  <2> QED
    BY <2>1, <2>2, <2>3 DEF Count
<1>4. CASE x = Used + 1
  <2>1. Cardinality(HeldBy(x)) = 0 /\ Cardinality(Places(x)) = 0
    BY <1>2, <1>4, NewBuffer
  <2>2. Ones(fbuf' = x) = 1
    BY <1>1, <1>4 DEF Ones
  <2> QED
    BY <1>2, <1>3, <1>4, <2>1, <2>2
<1>5. CASE x # Used + 1
  <2>1. x \in 1..Used /\ Ones(fbuf' = x) = 0
    BY <1>1, <1>2, <1>5 DEF Ones
  <2>2. fbuf = 0 /\ ~ owns
    BY <1>1 DEF RingInv, DecoderInv, Blank
  <2>3. /\ Ones(owns /\ fbuf = x) = 0
        /\ Ones(decoder \in {"wait", "granted"} /\ stage # 0 /\ fbuf = x) = 0
    BY <1>1, <2>2 DEF Ones
  <2>4. ref[x] = Count(x)
    BY <2>1 DEF RefsInv
  <2>5. Cardinality(HeldBy(x)) \in Nat /\ Cardinality(Places(x)) \in Nat
    BY CountTypes
  <2> QED
    BY <1>2, <1>3, <2>1, <2>3, <2>4, <2>5 DEF Count
<1> QED
  BY <1>4, <1>5

LEMMA RefsFinished ==
  ASSUME RingInv, QuietInv, RefsInv, Finish, quiet, NEW x \in 1..Used
  PROVE  ref'[x] = Count(x)'
<1>1. /\ decoder = "run" /\ decoder' = "idle" /\ fbuf' = 0 /\ owns' = FALSE /\ stage = 3
      /\ ref' = (IF 0 \in Subs /\ mqueue[0] THEN ref ELSE Released(ref, {fbuf}))
      /\ held' = held /\ q' = q
  BY DEF Finish, Blank, Done
<1>2. owns <=> ~ (0 \in Subs /\ mqueue[0])
  BY <1>1 DEF QuietInv
<1>3. ref[x] = Count(x) /\ Types
  BY DEF RingInv, RefsInv
<1>4. Count(x)' = Cardinality(HeldBy(x)) + Cardinality(Places(x))
  <2>1. HeldBy(x)' = HeldBy(x) /\ Places(x)' = Places(x)
    BY <1>1 DEF HeldBy, Places, Place
  <2>2. /\ Ones(owns' /\ fbuf' = x) = 0
        /\ Ones(decoder' \in {"wait", "granted"} /\ stage' # 0 /\ fbuf' = x) = 0
    BY <1>1 DEF Ones
  <2>3. Cardinality(HeldBy(x)) \in Nat /\ Cardinality(Places(x)) \in Nat
    BY CountTypes
  <2> QED
    BY <2>1, <2>2, <2>3 DEF Count
<1>5. Count(x) = Ones(owns /\ fbuf = x) + Cardinality(HeldBy(x)) + Cardinality(Places(x))
  <2>1. /\ Ones(decoder \in {"wait", "granted"} /\ stage # 0 /\ fbuf = x) = 0
        /\ Ones(owns /\ fbuf = x) \in 0..1
    BY <1>1 DEF Ones
  <2> QED
    BY <2>1, CountTypes DEF Count
<1>6. CASE owns
  <2>1. ref'[x] = IF x = fbuf THEN ref[x] - 1 ELSE ref[x]
    BY <1>1, <1>2, <1>3, <1>6, RefReleased
  <2>2. Ones(owns /\ fbuf = x) = IF x = fbuf THEN 1 ELSE 0
    BY <1>6 DEF Ones
  <2> QED
    BY <1>3, <1>4, <1>5, <2>1, <2>2, CountTypes
<1>7. CASE ~ owns
  <2>1. ref'[x] = ref[x]
    BY <1>1, <1>2, <1>7
  <2>2. Ones(owns /\ fbuf = x) = 0
    BY <1>7 DEF Ones
  <2> QED
    BY <1>3, <1>4, <1>5, <2>1, <2>2, CountTypes
<1> QED
  BY <1>6, <1>7

LEMMA RefsDecoder ==
  ASSUME RingInv, RingInv', QuietInv, RefsInv, Decoder
  PROVE  RefsInv'
<1> SUFFICES ASSUME quiet', NEW x \in 1..Used' PROVE ref'[x] = Count(x)'
  BY DEF RefsInv
<1>1. quiet
  <2>1. quiet \in BOOLEAN
    BY DEF RingInv, Types
  <2> QED
    BY <2>1 DEF Decoder, Receive, Skip, PutFrame, PutResume, PutReset, Finish, history
<1>2. CASE Receive
  <2>1. Used' = Used + 1
    BY <1>2, RefAppended DEF RingInv, Receive
  <2> QED
    BY <1>1, <1>2, <2>1, RefsReceived
<1>3. CASE Skip
  <2>1. /\ decoder = "run" /\ decoder' = "run"
        /\ UNCHANGED <<fbuf, owns, held, q, ref>> /\ ref' = ref
    BY <1>3 DEF Skip
  <2>2. Used' = Used
    BY <2>1 DEF Used
  <2>3. HeldBy(x)' = HeldBy(x) /\ Places(x)' = Places(x)
    BY <2>1 DEF HeldBy, Places, Place
  <2>4. Ones(decoder' \in {"wait", "granted"} /\ stage' # 0 /\ fbuf' = x)
          = Ones(decoder \in {"wait", "granted"} /\ stage # 0 /\ fbuf = x)
    BY <2>1 DEF Ones
  <2>5. Count(x)' = Count(x)
    BY <2>1, <2>3, <2>4 DEF Count
  <2>6. ref[x] = Count(x)
    BY <1>1, <2>2 DEF RefsInv
  <2> QED
    BY <2>1, <2>5, <2>6
<1>4. CASE PutFrame
  <2>1. /\ decoder = "run" /\ stage \in Subs /\ mqueue[stage] /\ HandOver
        /\ fbuf' = fbuf /\ held' = held
    BY <1>4 DEF PutFrame
  <2>2. PICK i \in Subs : i = stage
    BY <2>1
  <2>3. Used' = Used
    BY <2>1, HandOverStep
  <2>4. \/ Joined(i, fbuf) /\ owns' = (owns /\ stage # 0) /\ decoder' = "run"
        \/ (\A j \in Subs : Still(j)) /\ owns' = owns /\ decoder' = "wait" /\ stage' = stage
    BY <1>4, <2>1, <2>2, RingPutFrame DEF PutFrame
  <2> QED
    BY <1>1, <2>1, <2>2, <2>3, <2>4, RefsPut
<1>5. CASE PutResume
  <2>1. stage \in Subs /\ Used' = Used
    BY <1>5 DEF PutResume, RingInv, DecoderInv, Used
  <2> QED
    BY <1>1, <1>5, <2>1, RefsResumed
<1>6. CASE PutReset
  BY <1>1, <1>6 DEF PutReset, QuietInv
<1>7. CASE Finish
  <2>1. Used' = Used
    BY <1>7, RefReleased DEF Finish, RingInv, Used
  <2> QED
    BY <1>1, <1>7, <2>1, RefsFinished
<1> QED
  BY <1>2, <1>3, <1>4, <1>5, <1>6, <1>7 DEF Decoder

\* Getting a buffer moves a reference, letting go of one ends it.
LEMMA CountThread ==
  ASSUME RingInv, NEW i \in Subs, (Left(i) /\ Grants(i)) \/ Leaves(i),
         UNCHANGED <<stage, fbuf, owns>>, NEW x \in 1..Used
  PROVE  Count(x)' = Count(x) - Ones(held[i] = x)
<1>1. /\ owns' = owns /\ fbuf' = fbuf /\ stage' = stage
  OBVIOUS
<1>2. Ones(decoder' \in {"wait", "granted"} /\ stage' # 0 /\ fbuf' = x)
        = Ones(decoder \in {"wait", "granted"} /\ stage # 0 /\ fbuf = x)
  <2>1. decoder' \in {"wait", "granted"} <=> decoder \in {"wait", "granted"}
    BY DEF Grants, Leaves
  <2> QED
    BY <1>1, <2>1 DEF Ones
<1>3. Count(x)' = Ones(owns /\ fbuf = x)
                  + Ones(decoder \in {"wait", "granted"} /\ stage # 0 /\ fbuf = x)
                  + Cardinality(HeldBy(x))' + Cardinality(Places(x))'
  BY <1>1, <1>2 DEF Count
<1>4. /\ Ones(owns /\ fbuf = x) \in 0..1
      /\ Ones(decoder \in {"wait", "granted"} /\ stage # 0 /\ fbuf = x) \in 0..1
      /\ Cardinality(HeldBy(x)) \in Nat /\ Cardinality(Places(x)) \in Nat
      /\ Ones(held[i] = x) \in 0..1
  BY CountTypes DEF Ones
<1>5. CASE Left(i)
  <2>1. PICK y : y = q[i].buf[At(q[i], 1)]
    OBVIOUS
  <2>2. held'[i] = y /\ \A j \in Subs \ {i} : held'[j] = held[j]
    BY <1>5, <2>1 DEF Left, RingInv, Types
  <2>3. Cardinality(HeldBy(x))' = Cardinality(HeldBy(x)) - Ones(held[i] = x) + Ones(y = x)
    <3>1. Cardinality(HeldBy(x))' = Cardinality(HeldBy(x)) - Ones(held[i] = x) + Ones(held'[i] = x)
      BY <2>2, HeldChanges
    <3> QED
      BY <2>2, <3>1
  <2>4. Cardinality(Places(x))' = Cardinality(Places(x)) - Ones(y = x)
    BY <1>5, <2>1, PlacesLeft
  <2>5. Ones(y = x) \in 0..1
    BY DEF Ones
  <2> QED
    BY <1>3, <1>4, <2>3, <2>4, <2>5 DEF Count
<1>6. CASE Leaves(i)
  <2>1. /\ held'[i] = Blank /\ \A j \in Subs \ {i} : held'[j] = held[j]
        /\ \A j \in Subs : Still(j)
    BY <1>6 DEF Leaves, RingInv, Types
  <2>2. Cardinality(HeldBy(x))' = Cardinality(HeldBy(x)) - Ones(held[i] = x) + Ones(Blank = x)
    <3>1. Cardinality(HeldBy(x))' = Cardinality(HeldBy(x)) - Ones(held[i] = x) + Ones(held'[i] = x)
      BY <2>1, HeldChanges
    <3> QED
      BY <2>1, <3>1
  <2>3. Ones(Blank = x) = 0
    BY DEF Ones, Blank
  <2>4. Places(x)' = Places(x)
    BY <2>1, PlacesStill DEF Still
  <2> QED
    BY <1>3, <1>4, <2>2, <2>3, <2>4 DEF Count
<1> QED
  BY <1>5, <1>6

LEMMA RefsSubscriber ==
  ASSUME RingInv, RefsInv, NEW i \in Subs, Subscriber(i)
  PROVE  RefsInv'
<1> SUFFICES ASSUME quiet', NEW x \in 1..Used' PROVE ref'[x] = Count(x)'
  BY DEF RefsInv
<1>1. quiet /\ Types /\ Life(i) /\ UNCHANGED <<stage, fbuf, owns>>
  BY DEF RingInv, Subscriber, Begin, Resume, Dispose, End, history, decoderVars
<1>2. ref' = ref \/ ref' = Released(ref, {held[i]})
  BY DEF Subscriber, Begin, Resume, Dispose, End
<1>3. Used' = Used /\ x \in 1..Used
  BY <1>1, <1>2, RefReleased DEF Used
<1>4. ref[x] = Count(x) /\ Count(x) \in Int
  <2>1. ref[x] = Count(x)
    BY <1>1, <1>3 DEF RefsInv
  <2>2. /\ Ones(owns /\ fbuf = x) \in 0..1
        /\ Ones(decoder \in {"wait", "granted"} /\ stage # 0 /\ fbuf = x) \in 0..1
        /\ Cardinality(HeldBy(x)) \in Nat /\ Cardinality(Places(x)) \in Nat
    BY CountTypes
  <2> QED
    BY <2>1, <2>2 DEF Count
<1>5. ASSUME ref' = ref, thread[i] # "busy" PROVE ref'[x] = Count(x) - Ones(held[i] = x)
  <2>1. held[i] = Blank
    BY <1>1, <1>5 DEF Life
  <2>2. Ones(held[i] = x) = 0
    BY <1>3, <2>1 DEF Ones, Blank
  <2> QED
    BY <1>4, <1>5, <2>2
<1>6. CASE Begin(i)
  <2>1. ref' = ref /\ thread[i] # "busy"
    BY <1>6 DEF Begin
  <2> QED
    BY <1>1, <1>3, <1>5, <1>6, <2>1, RingBegin, CountThread
<1>7. CASE Resume(i)
  <2>1. ref' = ref /\ thread[i] # "busy"
    BY <1>7 DEF Resume
  <2> QED
    BY <1>1, <1>3, <1>5, <1>7, <2>1, RingResume, CountThread
<1>8. CASE Dispose(i)
  <2>1. ref' = Released(ref, {held[i]})
    BY <1>8 DEF Dispose
  <2>2. ref'[x] = IF x = held[i] THEN ref[x] - 1 ELSE ref[x]
    BY <1>1, <1>3, <2>1, RefReleased
  <2>3. ref'[x] = Count(x) - Ones(held[i] = x)
    BY <1>4, <2>2 DEF Ones
  <2> QED
    BY <1>1, <1>3, <1>8, <2>3, RingDispose, CountThread
<1>9. CASE End(i)
  <2>1. UNCHANGED <<decoder, stage, fbuf, owns, held, q, ref>> /\ ref' = ref
    BY <1>9 DEF End, decoderVars
  <2>2. Count(x)' = Count(x)
    BY <2>1 DEF Count, HeldBy, Places, Place, Ones
  <2> QED
    BY <1>4, <2>1, <2>2
<1> QED
  BY <1>6, <1>7, <1>8, <1>9 DEF Subscriber

LEMMA RefsControl ==
  ASSUME RingInv, RingInv', QuietInv, RefsInv, NEW i \in Subs, Control(i)
  PROVE  RefsInv'
<1> SUFFICES ASSUME quiet', NEW x \in 1..Used' PROVE ref'[x] = Count(x)'
  BY DEF RefsInv
<1>1. Types /\ Life(i) /\ Used \in Nat
  <2>1. Types /\ Life(i)
    BY DEF RingInv
  <2> QED
    BY <2>1, LineFacts
<1>2. quiet /\ QuietStop(i)
  <2>1. quiet \in BOOLEAN
    BY <1>1 DEF Types
  <2>2. quiet
    BY <2>1 DEF Control, Start, Stop, BeginStop, RadioReleased, SignalResume, Join, history
  <2> QED
    BY <2>2 DEF QuietInv
<1>3. \A y \in 1..Used : ref[y] = Count(y)
  BY <1>2 DEF RefsInv
<1>4. ASSUME UNCHANGED <<decoder, stage, fbuf, owns, held, q, ref>>
      PROVE  ref'[x] = Count(x)'
  <2>1. x \in 1..Used /\ ref' = ref
    BY <1>4 DEF Used
  <2>2. Count(x)' = Count(x)
    BY <1>4 DEF Count, HeldBy, Places, Place, Ones
  <2> QED
    BY <1>3, <2>1, <2>2
<1>5. ASSUME Signal(i), thread[i] = "wait", decoder = "idle", control[i] \in {"on", "radio"},
             \/ Joined(i, Used + 1) /\ control' = [control EXCEPT ![i] = "join"]
             \/ (\A j \in Subs : Still(j)) /\ control' = [control EXCEPT ![i] = "wait"]
      PROVE  ref'[x] = Count(x)'
  <2>1. Joined(i, Used + 1)
    <3>1. control' = [control EXCEPT ![i] = "join"]
      BY <1>5, QuietSignal
    <3>2. control'[i] = "join"
      BY <1>1, <3>1 DEF Types
    <3>3. control' = [control EXCEPT ![i] = "wait"] => control'[i] = "wait"
      BY <1>1 DEF Types
    <3> QED
      BY <1>5, <3>2, <3>3
  <2>2. ref' = Append(ref, 1) /\ UNCHANGED <<decoder, stage, fbuf, owns, held>>
    BY <1>5 DEF Signal, decoderVars
  <2>3. /\ Used' = Used + 1 /\ ref'[Used + 1] = 1 /\ \A y \in 1..Used : ref'[y] = ref[y]
        /\ x \in 1..Used+1
    BY <1>1, <2>2, RefAppended
  <2>4. Cardinality(Places(x))' = Cardinality(Places(x)) + Ones(x = Used + 1)
    <3>1. q'[i].cnt <= Size /\ q'[i].cnt = q[i].cnt + 1
      BY <2>1, QueueCapacity DEF Joined
    <3> QED
      BY <2>1, <3>1, PlacesJoined
  <2>5. /\ Count(x)' = Count(x) + Ones(x = Used + 1) /\ Count(x) \in Nat
    <3>1. Count(x)' = Ones(owns /\ fbuf = x)
                      + Ones(decoder \in {"wait", "granted"} /\ stage # 0 /\ fbuf = x)
                      + Cardinality(HeldBy(x)) + Cardinality(Places(x))'
      BY <2>2 DEF Count, HeldBy, Ones
    <3>2. Ones(x = Used + 1) \in 0..1
      BY DEF Ones
    <3>3. /\ Ones(owns /\ fbuf = x) \in 0..1
          /\ Ones(decoder \in {"wait", "granted"} /\ stage # 0 /\ fbuf = x) \in 0..1
          /\ Cardinality(HeldBy(x)) \in Nat /\ Cardinality(Places(x)) \in Nat
      BY CountTypes
    <3> QED
      BY <2>4, <3>1, <3>2, <3>3 DEF Count
  <2>6. CASE x = Used + 1
    <3>1. Cardinality(HeldBy(x)) = 0 /\ Cardinality(Places(x)) = 0 /\ fbuf # x
      BY <1>1, <2>6, NewBuffer
    <3>2. Count(x) = 0 /\ Ones(x = Used + 1) = 1
      BY <2>6, <3>1 DEF Count, Ones
    <3> QED
      BY <2>3, <2>5, <2>6, <3>2
  <2>7. CASE x # Used + 1
    <3>1. x \in 1..Used /\ Ones(x = Used + 1) = 0
      BY <1>1, <2>3, <2>7 DEF Ones
    <3> QED
      BY <1>3, <2>3, <2>5, <3>1
  <2> QED
    BY <2>6, <2>7
<1>6. CASE Start(i)
  BY <1>4, <1>6 DEF Start, decoderVars
<1>7. CASE Stop(i)
  <2>1. thread[i] = "wait" /\ decoder = "idle" /\ control[i] = "on"
    BY <1>7 DEF Stop, BeginStop
  <2>2. CASE i = 0
    <3>1. /\ Signal(i)
          /\ \/ Joined(i, Used + 1) /\ control' = [control EXCEPT ![i] = "join"]
             \/ (\A j \in Subs : Still(j)) /\ control' = [control EXCEPT ![i] = "wait"]
      BY <1>7, <2>2, RingStop
    <3> QED
      BY <1>5, <2>1, <3>1
  <2>3. CASE i # 0
    BY <1>4, <1>7, <2>3 DEF Stop, decoderVars
  <2> QED
    BY <2>2, <2>3
<1>8. CASE RadioReleased(i)
  <2>1. control[i] = "radio" /\ Signal(i)
    BY <1>8 DEF RadioReleased
  <2>2. thread[i] = "wait" /\ decoder = "idle"
    BY <1>2, <2>1 DEF QuietStop
  <2> QED
    BY <1>5, <1>8, <2>1, <2>2, RingRadioReleased
<1>9. CASE SignalResume(i)
  BY <1>2, <1>9 DEF QuietStop, SignalResume
<1>10. CASE Join(i)
  <2>1. /\ control[i] = "join" /\ thread[i] = "none" /\ Clear(i)
        /\ UNCHANGED <<stage, fbuf, owns, held>>
    BY <1>10 DEF Join
  <2>2. decoder = "idle" /\ q[i].cnt = 0
    BY <1>2, <2>1 DEF QuietStop
  <2>3. q[i].length = 0 /\ q[i].index \in Nat
    BY <2>1, <2>2, QueueFacts DEF Exact, LengthExact
  <2>4. /\ decoder' = decoder /\ q'[i].cnt = 0 /\ \A j \in Subs \ {i} : q'[j] = q[j]
    BY <1>10, <2>2, RingJoin
  <2>5. ref' = Released(ref, {})
    <3>1. q[i].index .. q[i].index + q[i].length - 1 = {}
      BY <2>3
    <3>2. {q[i].buf[k % Size] : k \in q[i].index .. q[i].index + q[i].length - 1} = {}
      BY <3>1
    <3> QED
      BY <2>1, <3>2 DEF Clear
  <2>6. Used' = Used /\ \A y \in 1..Used : ref'[y] = ref[y]
    BY <1>1, <2>5, RefReleased
  <2>7. Places(x)' = Places(x)
    <3>1. \A j \in Subs : q'[j].cnt = q[j].cnt /\ (q[j].cnt = 0 \/ Still(j))
      BY <2>2, <2>4 DEF Still
    <3> QED
      BY <3>1, PlacesStill
  <2>8. Count(x)' = Count(x)
    BY <2>1, <2>4, <2>7 DEF Count, HeldBy, Ones
  <2> QED
    BY <1>3, <2>6, <2>8
<1> QED
  BY <1>6, <1>7, <1>8, <1>9, <1>10 DEF Control

LEMMA RefsStep ==
  RingInv /\ RingInv' /\ QuietInv /\ RefsInv /\ [Next]_vars => QuietInv' /\ RefsInv'
<1> SUFFICES ASSUME RingInv, RingInv', QuietInv, RefsInv, [Next]_vars PROVE QuietInv' /\ RefsInv'
  OBVIOUS
<1>1. CASE UNCHANGED vars
  BY <1>1 DEF QuietInv, QuietStop, RefsInv, Count, HeldBy, Places, Place, Ones, Used,
              vars, decoderVars, history
<1>2. CASE Decoder
  BY <1>2, QuietDecoder, RefsDecoder
<1>3. ASSUME NEW i \in Subs, Subscriber(i) PROVE QuietInv' /\ RefsInv'
  BY <1>3, QuietSubscriber, RefsSubscriber
<1>4. ASSUME NEW i \in Subs, Control(i) PROVE QuietInv' /\ RefsInv'
  BY <1>4, QuietControl, RefsControl
<1> QED
  BY <1>1, <1>2, <1>3, <1>4 DEF Next

(***************************************************************************)
(* There are as many references to a buffer as there are holders of it: no *)
(* receiver releases what another has got, and nothing is lost, as long as *)
(* subscribers are turned off, and the monitor on, in quiet times, for any *)
(* subscribers and any size of the queues (hdlc_decoder.c:133-147,         *)
(* monitor.c:76-124, digipeater.c:75-126).                                 *)
(***************************************************************************)
THEOREM ReferencesExact == Spec => []RefsExact
<1>1. Init => QuietInv /\ RefsInv
  BY DEF Init, QuietInv, QuietStop, RefsInv, Used
<1>2. RingInv /\ RingInv' /\ QuietInv /\ RefsInv /\ [Next]_vars => QuietInv' /\ RefsInv'
  BY RefsStep
<1>3. RingInv /\ QuietInv /\ RefsInv => RefsExact
  <2> SUFFICES ASSUME RingInv, QuietInv, RefsInv, quiet, NEW x \in DOMAIN ref PROVE ref[x] = Holders(x)
    BY DEF RefsExact
  <2>1. x \in 1..Used
    BY DEF RingInv, Types, Used
  <2>2. ref[x] = Count(x)
    BY <2>1 DEF RefsInv
  <2> QED
    BY <2>2, HoldersCounted
<1> QED
  BY <1>1, <1>2, <1>3, RingInvariant, PTL DEF Spec

=============================================================================
