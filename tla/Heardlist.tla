----------------------------- MODULE Heardlist -----------------------------
(***************************************************************************)
(* The list of packets heard lately (heardlist.c), by which digipeater and *)
(* igate drop a packet that they have handled before.  A packet is known   *)
(* by its checksum.  The list is a ring of HEARDLIST_SIZE entries of which *)
(* the hlist_length ones before hlist_next are in use; a thread ticks the  *)
(* time, and drops what has become too old.  No function yields.           *)
(***************************************************************************)
EXTENDS Integers, Sequences, SequencesExt

CONSTANTS
  Values,              \* checksums, 0 among them
  HEARDLIST_SIZE, HEARDLIST_MAX_AGE,
  TimeMod,             \* the time wraps there (2^16)
  MaxTicks,            \* bound: ticks in a behaviour
  MaxAdded             \* bound: entries added in a behaviour

ASSUME HeardlistAssumption ==
  /\ HEARDLIST_SIZE \in 1..255 /\ HEARDLIST_MAX_AGE \in Nat
  /\ 0 \in Values
  /\ TimeMod \in Nat \ {0} /\ MaxTicks \in Nat /\ MaxAdded \in Nat

VARIABLES
  hlist, hlist_next, hlist_length, time,
  ticks,   \* time that does not wrap
  heard,   \* per checksum, the tick it was added last; Never
  added    \* entries added

vars == <<hlist, hlist_next, hlist_length, time, ticks, heard, added>>

Never == -1
Entries == [val : Values, ts : 0..TimeMod-1]

Init ==
  /\ hlist = [i \in 0..HEARDLIST_SIZE-1 |-> [val |-> 0, ts |-> 0]]
  /\ hlist_next = 0 /\ hlist_length = 0 /\ time = 0
  /\ ticks = 0 /\ heard = [v \in Values |-> Never] /\ added = 0

\* Where the loops over the list start.  SIZE - i, with i negative, is past
\* the end of the array.
First ==
  LET i == hlist_next - hlist_length
  IN  IF i < 0 THEN HEARDLIST_SIZE - i ELSE i

\* The places the loops visit.
Visited ==
  LET second == (First + 1) % HEARDLIST_SIZE
      n == (hlist_next - second) % HEARDLIST_SIZE
  IN  IF First = hlist_next THEN << >>
      ELSE <<First>> \o [k \in 1..n |-> (second + k - 1) % HEARDLIST_SIZE]

\* Outside of the array there is whatever the memory holds.
Junk == IF First < HEARDLIST_SIZE THEN {hlist[0]} ELSE Entries
Entry(i, junk) == IF i < HEARDLIST_SIZE THEN hlist[i] ELSE junk

hlist_exists(x, junk) == \E k \in DOMAIN Visited : Entry(Visited[k], junk).val = x

hlist_add(x) ==
  /\ hlist' = [hlist EXCEPT ![hlist_next] = [val |-> x, ts |-> time]]
  /\ hlist_next' = (hlist_next + 1) % HEARDLIST_SIZE
  /\ hlist_length' = IF hlist_length < HEARDLIST_SIZE THEN hlist_length + 1
                                                      ELSE hlist_length

(* A packet that is not in the list is put into it.                        *)
hlist_duplicate(x, heardBefore) ==
  /\ added < MaxAdded
  /\ \E junk \in Junk : heardBefore = hlist_exists(x, junk)
  /\ IF heardBefore THEN UNCHANGED vars
     ELSE /\ hlist_add(x)
          /\ heard' = [heard EXCEPT ![x] = ticks]
          /\ added' = added + 1
          /\ UNCHANGED <<time, ticks>>

Receive(x) == \E heardBefore \in BOOLEAN : hlist_duplicate(x, heardBefore)

\* Mutant: one tick early.
ExpiredEarly(e, now) == e.ts <= now - HEARDLIST_MAX_AGE

Expired(e, now) == e.ts < now - HEARDLIST_MAX_AGE

(* hlist_tick: entries are dropped up to the first that is not too old. *)
Tick ==
  /\ ticks < MaxTicks
  /\ ticks' = ticks + 1
  /\ time' = (time + 1) % TimeMod
  /\ \E junk \in Junk :
       LET kept == SelectInSeq(Visited, LAMBDA i : ~Expired(Entry(i, junk), time'))
           drop == IF kept = 0 THEN Len(Visited) ELSE kept - 1
       IN  hlist_length' = (hlist_length - drop) % 256
  /\ UNCHANGED <<hlist, hlist_next, heard, added>>

Next == Tick \/ \E x \in Values : Receive(x)

Spec == Init /\ [][Next]_vars

----------------------------------------------------------------------------
TypeOK ==
  /\ hlist \in [0..HEARDLIST_SIZE-1 -> Entries]
  /\ hlist_next \in 0..HEARDLIST_SIZE-1
  /\ hlist_length \in 0..HEARDLIST_SIZE
  /\ time \in 0..TimeMod-1
  /\ heard \in [Values -> {Never} \cup (0..MaxTicks)]

Recent(x) == heard[x] # Never /\ heard[x] >= ticks - HEARDLIST_MAX_AGE

(* The ring has not wrapped, and the time has not.                         *)
Unwrapped == added < HEARDLIST_SIZE /\ ticks < TimeMod

(***************************************************************************)
(* A packet is taken for a duplicate exactly when it was added within the  *)
(* last HEARDLIST_MAX_AGE ticks: nothing that is new is dropped and        *)
(* nothing is handled twice (heardlist.c:117-123) - of the first           *)
(* HEARDLIST_SIZE - 1 packets after the start, and before the time wraps;  *)
(* after that the loops start outside of the array (heardlist.c:52-54, 72) *)
(* or no entry seems old.                                                  *)
(***************************************************************************)
DuplicateExact ==
  Unwrapped => \A x \in Values, junk \in Junk : hlist_exists(x, junk) <=> Recent(x)

(***************************************************************************)
(* "return true if x exists in list" (heardlist.c:67): what is among the   *)
(* hlist_length entries that were added last is found.                     *)
(***************************************************************************)
InList(x) ==
  \E k \in 1..hlist_length : hlist[(hlist_next - k) % HEARDLIST_SIZE].val = x

ExistsIfInList == \A x \in Values, junk \in Junk : InList(x) => hlist_exists(x, junk)

=============================================================================
