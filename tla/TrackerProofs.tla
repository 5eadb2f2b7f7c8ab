--------------------------- MODULE TrackerProofs ---------------------------
(***************************************************************************)
(* The tracker for every number of objects and every size of the buffer of *)
(* positions, whatever the parameters of smart beaconing are: its types,   *)
(* the reports that are due, and the objects on the air.                   *)
(*                                                                         *)
(* ThreadInv ties the thread to tracker_on and tracker_off; PauseInv says  *)
(* what the pause counter counts; ReportInv says which objects others have *)
(* been told of in the middle of a call of the button, and what the thread *)
(* has built of an object while it reports.                                *)
(***************************************************************************)
EXTENDS Tracker, TLAPS

----------------------------------------------------------------------------
(* The parts of the inductive invariant. *)

GpsTypes ==
  /\ is_fixed \in BOOLEAN /\ lock_cnt \in 0..FixDelay /\ current_pos \in 0..MaxPos
  /\ wait_gps \in BOOLEAN /\ ttimer \in BOOLEAN

BufferTypes ==
  /\ nPos \in -Half..Half-1 /\ seen \in -Half..Half-1
  /\ nextPos \in 0..MAX_BUFFERPOS-1 /\ index \in Nat

ObjectTypes ==
  /\ nObjects \in 0..MAX_OBJECTS /\ nextObj \in 0..MAX_OBJECTS-1
  /\ object_pos \in [0..MAX_OBJECTS-1 -> Nat]
  /\ btn \in {"idle", "deleting", "adding", "clearing"} /\ bindex \in 0..MAX_OBJECTS
  /\ btn = "deleting" => nObjects = MAX_OBJECTS
  /\ btn = "adding" => nObjects >= 1

\* There is a thread from tracker_on until tracker_off has seen it end.
ThreadInv ==
  /\ TRACKER_ON \in BOOLEAN /\ maxpause \in MaxPauses /\ control \in {"idle", "join"}
  /\ pc \in {"none", "start", "loop", "blocked", "woken", "status", "objects", "position", "report",
             "get", "repeat", "sent", "noted", "sleep", "ending"}
  /\ users = (IF pc \in {"none", "start"} THEN 0 ELSE 1)
  /\ control = "join" => ~TRACKER_ON
  /\ control = "idle" /\ ~TRACKER_ON => pc = "none"
  /\ pc = "ending" => ~TRACKER_ON

\* The pause counter has counted every pass since the last report.
PauseInv ==
  /\ st_count \in 0..255 /\ pause_count \in 0..99 /\ since \in Nat
  /\ since <= pause_count

\* The objects others have been told of: one being added is not among them
\* yet, those already cleared are no longer.
Told ==
  {Slot(i) : i \in (IF btn = "clearing" THEN bindex ELSE 0)..
                   (IF btn = "adding" THEN nObjects - 2 ELSE nObjects - 1)}

\* The objects told of are on the air, and what report_objects has built is
\* one of them.
ReportInv ==
  /\ packet # <<>> => pc = "objects"
  /\ apart => /\ air = [s \in Told |-> object_pos[s]]
              /\ pc = "objects" => btn = "idle"
              /\ packet # <<>> => \E s \in Used : packet = <<s>> \/ packet = <<s, object_pos[s]>>

TypesInv == GpsTypes /\ BufferTypes /\ ObjectTypes /\ ThreadInv

----------------------------------------------------------------------------
(* The rings. *)

LEMMA Sizes ==
  /\ GpsTimeout \in Nat \ {0} /\ FixDelay \in Nat \ {0} /\ MAX_OBJECTS \in Nat \ {0}
  /\ MAX_BUFFERPOS \in Nat \ {0} /\ Half \in Nat \ {0} /\ MAX_BUFFERPOS < Half /\ MaxPos \in Nat
<1>1. /\ {GpsTimeout, FixDelay, MAX_OBJECTS, MAX_BUFFERPOS} \subseteq Nat \ {0}
      /\ Half \in Nat /\ MAX_BUFFERPOS < Half /\ {MaxPos, MaxActs} \subseteq Nat
  BY TrackerAssumption
<1> QED
  BY <1>1

LEMMA ModRange ==
  ASSUME NEW n \in Nat \ {0}, NEW a \in Int
  PROVE  a % n \in 0..n-1
  OBVIOUS

LEMMA NextInRing ==
  ASSUME NEW n \in Nat \ {0}, NEW k \in 0..n-1
  PROVE  (k + 1) % n = IF k = n - 1 THEN 0 ELSE k + 1
<1>1. CASE k = n - 1
  BY <1>1
<1>2. CASE k # n - 1
  <2>1. k + 1 \in 0..n-1
    BY <1>2
  <2> QED
    BY <1>2, <2>1
<1> QED
  BY <1>1, <1>2

\* The slots of the objects are slots of the ring; the one written next is a
\* new one, or that of the oldest object.
LEMMA SlotInRing ==
  ASSUME ObjectTypes, NEW i \in 0..MAX_OBJECTS-1
  PROVE  Slot(i) \in 0..MAX_OBJECTS-1
BY TrackerAssumption DEF ObjectTypes, Slot

\* Different objects have different slots; the one written next is a new one,
\* or that of the oldest object.
LEMMA SlotsDiffer ==
  ASSUME ObjectTypes, NEW i \in 0..MAX_OBJECTS-1, NEW j \in 0..MAX_OBJECTS-1, i # j
  PROVE  Slot(i) # Slot(j)
<1>1. MAX_OBJECTS \in Nat \ {0} /\ nextObj \in 0..MAX_OBJECTS-1
  BY Sizes DEF ObjectTypes
<1>2. ASSUME NEW k \in 0..MAX_OBJECTS-1
      PROVE  \/ Slot(k) = nextObj - k - 1 /\ nextObj - k - 1 >= 0
             \/ Slot(k) = MAX_OBJECTS + nextObj - k - 1 /\ nextObj - k - 1 < 0
  BY <1>1 DEF Slot
<1>3. i \in Int /\ j \in Int /\ i >= 0 /\ j >= 0 /\ i < MAX_OBJECTS /\ j < MAX_OBJECTS
  BY <1>1
<1>4. i # j /\ i \in 0..MAX_OBJECTS-1 /\ j \in 0..MAX_OBJECTS-1
  OBVIOUS
<1> QED
  BY <1>1, <1>2, <1>3, <1>4

LEMMA SlotNext ==
  ASSUME ObjectTypes, NEW i \in 0..MAX_OBJECTS-1
  PROVE  Slot(i) = nextObj <=> i = MAX_OBJECTS - 1
<1>1. MAX_OBJECTS \in Nat \ {0} /\ nextObj \in 0..MAX_OBJECTS-1
  BY Sizes DEF ObjectTypes
<1> QED
  BY <1>1 DEF Slot

LEMMA Int8Range ==
  ASSUME NEW n \in Int
  PROVE  Int8(n) \in -Half..Half-1
<1>1. Half \in Nat \ {0} /\ 2 * Half \in Nat \ {0}
  BY TrackerAssumption
<1>2. (n + Half) % (2 * Half) \in 0..2*Half-1
  BY <1>1, ModRange
<1> QED
  BY <1>1, <1>2 DEF Int8

----------------------------------------------------------------------------
(* Types, and where the thread stands. *)

LEMMA TypesInit == Init => TypesInv
<1> SUFFICES ASSUME Init PROVE TypesInv
  OBVIOUS
<1>1. GpsTypes
  <2>1. lock_cnt = FixDelay /\ current_pos = 0
    BY DEF Init, None
  <2>2. lock_cnt \in 0..FixDelay /\ current_pos \in 0..MaxPos
    BY <2>1, Sizes
  <2>3. is_fixed \in BOOLEAN /\ wait_gps \in BOOLEAN /\ ttimer \in BOOLEAN
    BY DEF Init
  <2> QED
    BY <2>2, <2>3 DEF GpsTypes
<1>2. BufferTypes
  BY Sizes DEF Init, BufferTypes
<1>3. ObjectTypes
  BY Sizes DEF Init, None, ObjectTypes
<1>4. ThreadInv
  BY DEF Init, ThreadInv
<1> QED
  BY <1>1, <1>2, <1>3, <1>4 DEF TypesInv

LEMMA GpsStep == TypesInv /\ Next => GpsTypes'
<1> SUFFICES ASSUME TypesInv, Next PROVE GpsTypes'
  OBVIOUS
<1> USE TrackerAssumption DEF TypesInv, GpsTypes
<1>1. CASE Sentence
  <2>1. CASE Locked
    <3>1. /\ (lock_cnt' = lock_cnt - 1 /\ lock_cnt > 0) \/ lock_cnt' = 1
          /\ current_pos' = current_pos \/ current_pos' = current_pos + 1
      BY <2>1 DEF Locked
    <3>2. current_pos' \in 0..MaxPos /\ lock_cnt' \in 0..FixDelay
      BY <2>1, <3>1 DEF Locked
    <3>3. is_fixed' \in BOOLEAN /\ wait_gps' \in BOOLEAN /\ ttimer' \in BOOLEAN
      BY <2>1 DEF Locked, SignalFix
    <3> QED
      BY <3>2, <3>3
  <2>2. CASE Unlocked
    <3>1. is_fixed' = FALSE /\ lock_cnt' = FixDelay /\ UNCHANGED <<current_pos, wait_gps, ttimer>>
      BY <2>2 DEF Unlocked, timer
    <3>2. is_fixed' \in BOOLEAN
      BY <3>1
    <3>3. lock_cnt' \in 0..FixDelay /\ current_pos' \in 0..MaxPos
      BY <3>1
    <3>4. wait_gps' \in BOOLEAN /\ ttimer' \in BOOLEAN
      BY <3>1
    <3> QED
      BY <3>2, <3>3, <3>4
  <2> QED
    BY <1>1, <2>1, <2>2 DEF Sentence
<1>2. CASE Expire
  BY <1>2 DEF Expire, SignalFix, gps
<1>3. CASE Begin \/ Again
  BY <1>3 DEF Begin, Again, Loop, SetTimer, gps
<1>4. CASE Waited \/ tracker_on
  BY <1>4 DEF Waited, tracker_on, gps, timer
<1>5. CASE UNCHANGED <<gps, timer>>
  BY <1>5 DEF gps, timer
<1> QED
  BY <1>1, <1>2, <1>3, <1>4, <1>5
     DEF Next, Tracking, Status, PickObject, BuildObject, SendObject, Position, TestEmpty, getPos,
         Repeat, Sent, Sleep, End, Shell, Joined, tracker_off, SetMaxPause, tracker_posReport,
         ObjectCalls, AddObject, ObjectDeleted, ObjectAdded, ClearObjects, ObjectCleared, Act, Button

LEMMA BufferStep == TypesInv /\ Next => BufferTypes'
<1> SUFFICES ASSUME TypesInv, Next PROVE BufferTypes'
  OBVIOUS
<1>0. /\ MAX_BUFFERPOS \in Nat \ {0} /\ Half \in Nat /\ MAX_BUFFERPOS < Half
      /\ nPos \in -Half..Half-1 /\ seen \in -Half..Half-1
      /\ nextPos \in 0..MAX_BUFFERPOS-1 /\ index \in Nat
      /\ (nextPos + 1) % MAX_BUFFERPOS \in 0..MAX_BUFFERPOS-1
      /\ (nextPos + 0) % MAX_BUFFERPOS \in 0..MAX_BUFFERPOS-1
  <2>1. BufferTypes
    BY DEF TypesInv
  <2>2. nextPos + 1 \in Int /\ nextPos + 0 \in Int
    BY <2>1, Sizes DEF BufferTypes
  <2> QED
    BY <2>1, <2>2, Sizes, ModRange DEF BufferTypes
<1>1. ASSUME putPos PROVE nPos' \in -Half..Half-1 /\ nextPos' \in 0..MAX_BUFFERPOS-1
  BY <1>0, <1>1 DEF putPos
<1>2. CASE tracker_posReport
  <2>1. PICK r \in {0, 1} : /\ nPos' = IF Emptied < MAX_BUFFERPOS THEN Emptied + r ELSE Emptied
                            /\ nextPos' = (nextPos + r) % MAX_BUFFERPOS
    BY <1>2 DEF tracker_posReport
  <2>2. Emptied \in -Half..Half-1
    <3>1. Int8(nPos - 4) \in -Half..Half-1
      BY <1>0, Int8Range
    <3> QED
      BY <1>0, <3>1 DEF Emptied
  <2>3. nPos' \in -Half..Half-1
    BY <1>0, <2>1, <2>2
  <2>4. UNCHANGED <<seen, index>>
    BY <1>2 DEF tracker_posReport, Act, report
  <2> QED
    BY <1>0, <2>1, <2>3, <2>4 DEF BufferTypes
<1>3. CASE Position
  BY <1>0, <1>1, <1>3 DEF Position, buffer, BufferTypes
<1>4. CASE Repeat
  BY <1>0, <1>1, <1>4 DEF Repeat, buffer, report, BufferTypes
<1>5. CASE TestEmpty
  BY <1>0, <1>5 DEF TestEmpty, buffer, BufferTypes
<1>6. CASE getPos
  <2>1. nPos - 1 \in Int /\ seen - 1 \in Int
    BY <1>0
  <2>2. nPos' \in -Half..Half-1
    BY <1>6, <2>1, Int8Range DEF getPos
  <2> QED
    BY <1>0, <1>6, <2>2 DEF getPos, BufferTypes
<1>7. CASE UNCHANGED <<buffer, seen>> /\ index' \in {0, index, index + 1}
  BY <1>0, <1>7 DEF buffer, BufferTypes
<1> QED
  BY <1>2, <1>3, <1>4, <1>5, <1>6, <1>7
     DEF Next, Sentence, Expire, Tracking, Begin, Again, Waited, Status, PickObject, BuildObject,
         SendObject, Sent, Sleep, End, Shell, tracker_on, tracker_off, Joined, SetMaxPause,
         ObjectCalls, AddObject, ObjectDeleted, ObjectAdded, ClearObjects, ObjectCleared, Act, Button,
         report

LEMMA ObjectStep == TypesInv /\ Next => ObjectTypes'
<1> SUFFICES ASSUME TypesInv, Next PROVE ObjectTypes'
  OBVIOUS
<1>0. /\ MAX_OBJECTS \in Nat \ {0} /\ ObjectTypes /\ current_pos \in Nat
      /\ NextSlot \in 0..MAX_OBJECTS-1
  <2>1. MAX_OBJECTS \in Nat \ {0} /\ MaxPos \in Nat
    BY TrackerAssumption
  <2>2. ObjectTypes /\ current_pos \in 0..MaxPos /\ nextObj \in 0..MAX_OBJECTS-1
    BY DEF TypesInv, GpsTypes, ObjectTypes
  <2>3. (nextObj + 1) % MAX_OBJECTS \in 0..MAX_OBJECTS-1
    BY <2>1, <2>2, ModRange
  <2> QED
    BY <2>1, <2>2, <2>3 DEF NextSlot
<1>1. CASE AddObject
  BY <1>0, <1>1 DEF AddObject, Act, ObjectTypes
<1>2. CASE ObjectDeleted
  BY <1>0, <1>2 DEF ObjectDeleted, ObjectTypes
<1>3. CASE ObjectAdded
  BY <1>0, <1>3 DEF ObjectAdded, ObjectTypes
<1>4. CASE ClearObjects
  BY <1>0, <1>4 DEF ClearObjects, objects, ObjectTypes
<1>5. CASE ObjectCleared
  BY <1>0, <1>5 DEF ObjectCleared, ObjectTypes
<1>6. CASE UNCHANGED <<objects, button>>
  BY <1>0, <1>6 DEF objects, button, ObjectTypes
<1> QED
  BY <1>1, <1>2, <1>3, <1>4, <1>5, <1>6
     DEF Next, Sentence, Expire, Tracking, Begin, Again, Waited, Status, PickObject, BuildObject,
         SendObject, Position, TestEmpty, getPos, Repeat, Sent, Sleep, End, Thread, Shell,
         tracker_on, tracker_off, Joined, SetMaxPause, tracker_posReport, ObjectCalls

LEMMA ThreadStep == TypesInv /\ Next => ThreadInv'
<1> SUFFICES ASSUME TypesInv, Next PROVE ThreadInv'
  OBVIOUS
<1> USE DEF TypesInv, ThreadInv
<1>1. CASE Sentence
  BY <1>1 DEF Sentence, Locked, Unlocked, SignalFix
<1>2. CASE Expire
  BY <1>2 DEF Expire, SignalFix
<1>3. CASE Begin
  BY <1>3 DEF Begin, Loop, Thread
<1>4. CASE Again
  BY <1>4 DEF Again, Loop, Thread
<1>5. CASE Waited \/ Sleep \/ End
  BY <1>5 DEF Waited, Sleep, End, Thread
<1>6. CASE Status \/ PickObject \/ BuildObject \/ SendObject
  BY <1>6 DEF Status, PickObject, BuildObject, SendObject, Thread
<1>7. CASE Position \/ TestEmpty \/ getPos \/ Repeat \/ Sent
  BY <1>7 DEF Position, TestEmpty, getPos, Repeat, Sent, Thread
<1>8. CASE tracker_on
  BY <1>8 DEF tracker_on
<1>9. CASE tracker_off
  BY <1>9 DEF tracker_off
<1>10. CASE Joined
  BY <1>10 DEF Joined
<1>11. CASE SetMaxPause
  BY <1>11 DEF SetMaxPause
<1>12. CASE tracker_posReport \/ ObjectCalls
  BY <1>12 DEF tracker_posReport, ObjectCalls, AddObject, ObjectDeleted, ObjectAdded, ClearObjects,
               ObjectCleared, Act, Button
<1> QED
  BY <1>1, <1>2, <1>3, <1>4, <1>5, <1>6, <1>7, <1>8, <1>9, <1>10, <1>11, <1>12
     DEF Next, Tracking, Shell

LEMMA TypesStep == TypesInv /\ [Next]_vars => TypesInv'
<1>1. TypesInv /\ UNCHANGED vars => TypesInv'
  BY DEF TypesInv, GpsTypes, BufferTypes, ObjectTypes, ThreadInv, vars, gps, timer, buffer, report,
         objects, button
<1> QED
  BY <1>1, GpsStep, BufferStep, ObjectStep, ThreadStep DEF TypesInv

----------------------------------------------------------------------------
(* Reports that are due. *)

LEMMA PauseInit == Init => PauseInv
BY TrackerAssumption DEF Init, PauseInv

LEMMA PauseRange == TypesInv /\ PauseInv => maxpause \in 0..100 /\ Counted = pause_count + 1
<1> SUFFICES ASSUME TypesInv, PauseInv
             PROVE  maxpause \in 0..100 /\ Counted = pause_count + 1
  OBVIOUS
<1>1. pause_count + 1 \in 0..255
  BY DEF PauseInv
<1>2. \A n \in 0..255 : n % 256 = n
  OBVIOUS
<1>3. maxpause \in 0..100
  BY TrackerAssumption DEF TypesInv, ThreadInv
<1> QED
  BY <1>1, <1>2, <1>3 DEF Counted

LEMMA PauseStep == TypesInv /\ PauseInv /\ [Next]_vars => PauseInv'
<1> SUFFICES ASSUME TypesInv, PauseInv, [Next]_vars PROVE PauseInv'
  OBVIOUS
<1>0. GpsTimeout \in Nat \ {0} /\ maxpause \in 0..100 /\ Counted = pause_count + 1
  BY TrackerAssumption, PauseRange
<1>1. CASE Status
  <2>1. st_count' \in 0..255
    <3>1. \A n \in Nat : n % 256 \in 0..255
      OBVIOUS
    <3>2. (st_count + (IF gps_is_fixed THEN 0 ELSE GpsTimeout - 1) + 1) \in Nat
      BY <1>0 DEF PauseInv
    <3> QED
      BY <1>1, <3>1, <3>2 DEF Status
  <2>2. UNCHANGED <<pause_count, since>>
    BY <1>1 DEF Status
  <2> QED
    BY <2>1, <2>2 DEF PauseInv
<1>2. CASE Position
  <2>1. st_count' = st_count
    BY <1>2 DEF Position
  <2>2. \/ UNCHANGED <<pause_count, since>>
        \/ pause_count' = 0 /\ since' = 0
        \/ pause_count' = Counted /\ since' = since + 1 /\ ~(Counted >= maxpause)
    BY <1>2 DEF Position, Due
  <2> QED
    BY <1>0, <2>1, <2>2 DEF PauseInv
<1>3. CASE tracker_on
  <2>1. StatusTime \in 0..255
    BY TrackerAssumption
  <2> QED
    BY <1>3, <2>1 DEF tracker_on, PauseInv
<1>4. CASE UNCHANGED <<st_count, pause_count, since>>
  BY <1>4 DEF PauseInv
<1> QED
  BY <1>1, <1>2, <1>3, <1>4
     DEF Next, Sentence, Expire, Tracking, Begin, Again, Waited, PickObject, BuildObject, SendObject,
         TestEmpty, getPos, Repeat, Sent, Sleep, End, Shell, tracker_off, Joined, SetMaxPause,
         tracker_posReport, ObjectCalls, AddObject, ObjectDeleted, ObjectAdded, ClearObjects,
         ObjectCleared, Act, Button, vars, thread

(* TypeOK: for any sizes, the indices of the rings that are written stay   *)
(* in their rings, counters in their width, and radio_require and          *)
(* radio_release of the thread come in pairs (tracker.c:140-239).          *)
THEOREM TypeCorrect == Spec => []TypeOK
<1>1. TypesInv /\ PauseInv => TypeOK
  <2>1. PauseInv => st_count \in 0..255 /\ pause_count \in 0..255
    BY DEF PauseInv
  <2> QED
    BY <2>1 DEF TypesInv, GpsTypes, BufferTypes, ObjectTypes, ThreadInv, TypeOK
<1> QED
  BY <1>1, TypesInit, TypesStep, PauseInit, PauseStep, PTL DEF Spec

(* ReportsDue: a pass with a fix goes by without a report only when fewer  *)
(* than TRACKER_MAXPAUSE have since the last one, for every value the      *)
(* parameters have by then: 8 bits are enough for the counter.             *)
THEOREM ReportsDueHolds == Spec => ReportsDue
<1>1. TypesInv /\ PauseInv /\ [Next]_vars => [since' > since => since' < maxpause]_vars
  <2> SUFFICES ASSUME TypesInv, PauseInv, [Next]_vars, since' > since
               PROVE  since' < maxpause
    OBVIOUS
  <2>1. CASE Position
    <3>1. /\ \/ UNCHANGED since
             \/ since' = 0
             \/ since' = since + 1 /\ ~(Counted >= maxpause)
      BY <2>1 DEF Position, Due
    <3> QED
      BY <3>1, PauseRange DEF PauseInv
  <2>2. CASE since' = 0 \/ UNCHANGED since
    BY <2>2 DEF PauseInv
  <2> QED
    BY <2>1, <2>2
       DEF Next, Sentence, Expire, Tracking, Begin, Again, Waited, Status, PickObject, BuildObject,
           SendObject, TestEmpty, getPos, Repeat, Sent, Sleep, End, Shell, tracker_on, tracker_off,
           Joined, SetMaxPause, tracker_posReport, ObjectCalls, AddObject, ObjectDeleted,
           ObjectAdded, ClearObjects, ObjectCleared, Act, Button, vars
<1> QED
  BY <1>1, TypesInit, TypesStep, PauseInit, PauseStep, PTL DEF Spec, ReportsDue

----------------------------------------------------------------------------
(* Objects. *)

LEMMA ReportInit == Init => ReportInv
<1> SUFFICES ASSUME Init PROVE ReportInv
  OBVIOUS
<1>1. nObjects = 0 /\ packet = <<>> /\ air = <<>> /\ btn = "idle"
  BY DEF Init
<1>2. Told = {}
  BY <1>1 DEF Told
<1>3. air = [s \in {} |-> object_pos[s]]
  BY <1>1
<1> QED
  BY <1>1, <1>2, <1>3 DEF ReportInv

\* The button begins and ends a call; "apart" says the thread reports nothing.
LEMMA ButtonApart ==
  ASSUME TypesInv, ReportInv, ObjectCalls
  PROVE  /\ UNCHANGED <<pc, packet>>
         /\ apart' => apart /\ packet = <<>> /\ (pc' = "objects" => btn' = "idle")
<1>1. UNCHANGED <<pc, packet>> /\ (apart' => apart)
  <2>1. UNCHANGED <<pc, report>> /\ (apart' = (apart /\ ~Meet) \/ UNCHANGED apart)
    BY DEF ObjectCalls, AddObject, ObjectDeleted, ObjectAdded, ClearObjects, ObjectCleared, Act, Button
  <2>2. UNCHANGED <<pc, packet>>
    BY <2>1 DEF report
  <2>3. apart' => apart
    BY <2>1
  <2> QED
    BY <2>2, <2>3
<1>2. apart' => ~(pc' = "objects" /\ btn' # "idle") /\ (pc = "objects" => btn = "idle" /\ btn' # "idle")
  BY <1>1 DEF ObjectCalls, AddObject, ObjectDeleted, ObjectAdded, ClearObjects, ObjectCleared, Act,
              Button, Meet, ReportInv
<1> QED
  BY <1>1, <1>2 DEF ReportInv

\* A function over changed slots.
LEMMA AirAfter ==
  ASSUME NEW f, NEW g, NEW S, NEW T, NEW a, a = [s \in S |-> f[s]], S = T, \A s \in T : f[s] = g[s]
  PROVE  a = [s \in T |-> g[s]]
OBVIOUS

LEMMA ReportAdd == TypesInv /\ ReportInv /\ AddObject => ReportInv'
<1> SUFFICES ASSUME TypesInv, ReportInv, AddObject, apart' PROVE air' = [s \in Told' |-> object_pos'[s]]
  BY ButtonApart DEF ObjectCalls, ReportInv
<1>1. /\ ObjectTypes /\ MAX_OBJECTS \in Nat \ {0} /\ nObjects \in 0..MAX_OBJECTS
      /\ apart /\ btn = "idle" /\ air' = air /\ nextObj' = nextObj
      /\ \/ nObjects >= MAX_OBJECTS /\ btn' = "deleting" /\ UNCHANGED <<nObjects, object_pos>>
         \/ /\ nObjects < MAX_OBJECTS /\ btn' = "adding" /\ nObjects' = nObjects + 1
            /\ object_pos' = [object_pos EXCEPT ![nextObj] = current_pos]
  <2>1. ObjectTypes /\ MAX_OBJECTS \in Nat \ {0} /\ nObjects \in 0..MAX_OBJECTS
    BY Sizes DEF TypesInv, ObjectTypes
  <2>2. apart
    BY ButtonApart DEF ObjectCalls
  <2> QED
    BY <2>1, <2>2 DEF AddObject, Act
<1>2. Told = {Slot(i) : i \in 0..nObjects-1} /\ air = [s \in Told |-> object_pos[s]]
  BY <1>1 DEF Told, ReportInv
<1>3. \A i : Slot(i)' = Slot(i)
  BY <1>1 DEF Slot
<1>4. Told' = Told
  <2>1. nObjects + 1 - 2 = nObjects - 1
    BY <1>1
  <2> QED
    BY <1>1, <1>2, <1>3, <2>1 DEF Told
<1>5. \A s \in Told : object_pos'[s] = object_pos[s]
  <2>1. CASE object_pos' = object_pos
    BY <2>1
  <2>2. CASE nObjects < MAX_OBJECTS /\ object_pos' = [object_pos EXCEPT ![nextObj] = current_pos]
    <3> TAKE s \in Told
    <3>1. PICK i \in 0..nObjects-1 : s = Slot(i)
      BY <1>2
    <3>2. i \in 0..MAX_OBJECTS-1 /\ i # MAX_OBJECTS-1
      BY <1>1, <2>2
    <3>3. s # nextObj /\ s \in 0..MAX_OBJECTS-1
      BY <1>1, <3>1, <3>2, SlotNext, SlotInRing
    <3> QED
      BY <1>1, <2>2, <3>3 DEF ObjectTypes
  <2> QED
    BY <1>1, <2>1, <2>2
<1> QED
  BY <1>1, <1>2, <1>4, <1>5

LEMMA ReportDeleted == TypesInv /\ ReportInv /\ ObjectDeleted => ReportInv'
<1> SUFFICES ASSUME TypesInv, ReportInv, ObjectDeleted, apart'
             PROVE  air' = [s \in Told' |-> object_pos'[s]]
  BY ButtonApart DEF ObjectCalls, ReportInv
<1>1. /\ ObjectTypes /\ MAX_OBJECTS \in Nat \ {0} /\ nObjects = MAX_OBJECTS /\ nObjects' = nObjects
      /\ apart /\ btn = "deleting" /\ btn' = "adding" /\ nextObj' = nextObj
      /\ object_pos' = [object_pos EXCEPT ![nextObj] = current_pos]
      /\ air' = [x \in (DOMAIN air) \ {nextObj} |-> air[x]]
  BY TrackerAssumption DEF ObjectDeleted, Deleted, Button, TypesInv, ObjectTypes
<1>2. Told = {Slot(i) : i \in 0..MAX_OBJECTS-1} /\ air = [s \in Told |-> object_pos[s]]
  BY <1>1 DEF Told, ReportInv
<1>3. \A i : Slot(i)' = Slot(i)
  BY <1>1 DEF Slot
<1>4. Told' = {Slot(i) : i \in 0..MAX_OBJECTS-2}
  BY <1>1, <1>3 DEF Told
<1>5. Told' = Told \ {nextObj}
  <2>1. \A i \in 0..MAX_OBJECTS-1 : Slot(i) = nextObj <=> i = MAX_OBJECTS - 1
    BY <1>1, SlotNext
  <2>2. \A i : i \in 0..MAX_OBJECTS-2 <=> i \in 0..MAX_OBJECTS-1 /\ i # MAX_OBJECTS - 1
    BY <1>1
  <2> QED
    BY <1>2, <1>4, <2>1, <2>2
<1>6. \A s \in Told : s \in 0..MAX_OBJECTS-1
  BY <1>1, <1>2, SlotInRing
<1>7. \A s \in Told' : air[s] = object_pos'[s]
  BY <1>1, <1>2, <1>5, <1>6 DEF ObjectTypes
<1>8. (DOMAIN air) \ {nextObj} = Told'
  BY <1>2, <1>5
<1> QED
  BY <1>1, <1>7, <1>8

LEMMA ReportAdded == TypesInv /\ ReportInv /\ ObjectAdded => ReportInv'
<1> SUFFICES ASSUME TypesInv, ReportInv, ObjectAdded, apart'
             PROVE  air' = [s \in Told' |-> object_pos'[s]]
  BY ButtonApart DEF ObjectCalls, ReportInv
<1>1. /\ ObjectTypes /\ MAX_OBJECTS \in Nat \ {0} /\ nObjects \in 1..MAX_OBJECTS
      /\ nObjects' = nObjects /\ object_pos' = object_pos
      /\ apart /\ btn = "adding" /\ btn' = "idle" /\ nextObj \in 0..MAX_OBJECTS-1
      /\ nextObj' = IF nextObj = MAX_OBJECTS - 1 THEN 0 ELSE nextObj + 1
      /\ air' = [x \in (DOMAIN air) \cup {nextObj} |-> IF x = nextObj THEN object_pos[nextObj] ELSE air[x]]
  <2>1. /\ ObjectTypes /\ MAX_OBJECTS \in Nat \ {0} /\ nObjects \in 0..MAX_OBJECTS
        /\ nextObj \in 0..MAX_OBJECTS-1 /\ btn = "adding" /\ nObjects >= 1
    BY Sizes DEF TypesInv, ObjectTypes, ObjectAdded
  <2>2. (nextObj + 1) % MAX_OBJECTS = IF nextObj = MAX_OBJECTS - 1 THEN 0 ELSE nextObj + 1
    BY <2>1, NextInRing
  <2> QED
    BY <2>1, <2>2 DEF ObjectAdded, NextSlot, Put, Button
<1>2. Told = {Slot(i) : i \in 0..nObjects-2} /\ air = [s \in Told |-> object_pos[s]]
  BY <1>1 DEF Told, ReportInv
<1>3. Told' = {Slot(i)' : i \in 0..nObjects-1}
  BY <1>1 DEF Told
<1>4. Slot(0)' = nextObj
  BY <1>1 DEF Slot
<1>5. \A i \in 0..MAX_OBJECTS-2 : Slot(i+1)' = Slot(i)
  BY <1>1 DEF Slot
<1>6. Told' = Told \cup {nextObj}
  <2>1. ASSUME NEW s \in Told' PROVE s \in Told \cup {nextObj}
    <3>1. PICK i \in 0..nObjects-1 : s = Slot(i)'
      BY <1>3
    <3>2. CASE i = 0
      BY <1>4, <3>1, <3>2
    <3>3. CASE i # 0
      <4>1. i-1 \in 0..MAX_OBJECTS-2 /\ i-1 \in 0..nObjects-2 /\ (i-1)+1 = i
        BY <1>1, <3>3
      <4>2. s = Slot(i-1)
        BY <1>5, <3>1, <4>1
      <4> QED
        BY <1>2, <4>1, <4>2
    <3> QED
      BY <3>2, <3>3
  <2>2. nextObj \in Told'
    <3>1. 0 \in 0..nObjects-1
      BY <1>1
    <3> QED
      BY <1>3, <1>4, <3>1
  <2>3. ASSUME NEW s \in Told PROVE s \in Told'
    <3>1. PICK i \in 0..nObjects-2 : s = Slot(i)
      BY <1>2
    <3>2. i \in 0..MAX_OBJECTS-2 /\ i+1 \in 0..nObjects-1
      BY <1>1
    <3>3. s = Slot(i+1)'
      BY <1>5, <3>1, <3>2
    <3> QED
      BY <1>3, <3>2, <3>3
  <2> QED
    BY <2>1, <2>2, <2>3
<1>7. air' = [x \in Told \cup {nextObj} |-> object_pos[x]]
  BY <1>1, <1>2
<1> QED
  BY <1>1, <1>6, <1>7

LEMMA ReportClear == TypesInv /\ ReportInv /\ ClearObjects => ReportInv'
<1> SUFFICES ASSUME TypesInv, ReportInv, ClearObjects, apart'
             PROVE  air' = [s \in Told' |-> object_pos'[s]]
  BY ButtonApart DEF ObjectCalls, ReportInv
<1>1. apart /\ btn = "idle" /\ btn' = "clearing" /\ bindex' = 0 /\ UNCHANGED <<objects, air>>
  BY DEF ClearObjects, Act
<1>2. Told' = Told
  BY <1>1 DEF Told, Slot, objects
<1> QED
  BY <1>1, <1>2 DEF ReportInv, objects

LEMMA ReportCleared == TypesInv /\ ReportInv /\ ObjectCleared => ReportInv'
<1> SUFFICES ASSUME TypesInv, ReportInv, ObjectCleared, apart'
             PROVE  air' = [s \in Told' |-> object_pos'[s]]
  BY ButtonApart DEF ObjectCalls, ReportInv
<1>1. /\ ObjectTypes /\ MAX_OBJECTS \in Nat \ {0} /\ nObjects \in 0..MAX_OBJECTS
      /\ bindex \in 0..MAX_OBJECTS /\ apart /\ btn = "clearing" /\ object_pos' = object_pos
  BY TrackerAssumption DEF ObjectCleared, Button, TypesInv, ObjectTypes
<1>2. Told = {Slot(i) : i \in bindex..nObjects-1} /\ air = [s \in Told |-> object_pos[s]]
  BY <1>1 DEF Told, ReportInv
<1>3. CASE bindex < nObjects
  <2>1. /\ air' = [x \in (DOMAIN air) \ {Slot(bindex)} |-> air[x]] /\ bindex' = bindex + 1
        /\ btn' = "clearing" /\ nObjects' = nObjects /\ nextObj' = nextObj
    BY <1>1, <1>3 DEF ObjectCleared, Deleted
  <2>2. Told' = {Slot(i) : i \in bindex+1..nObjects-1}
    BY <2>1 DEF Told, Slot
  <2>3. \A i \in bindex..nObjects-1 : Slot(i) = Slot(bindex) <=> i = bindex
    <3> TAKE i \in bindex..nObjects-1
    <3>1. i \in 0..MAX_OBJECTS-1 /\ bindex \in 0..MAX_OBJECTS-1
      BY <1>1, <1>3
    <3> QED
      BY <1>1, <3>1, SlotsDiffer
  <2>4. \A i : i \in bindex+1..nObjects-1 <=> i \in bindex..nObjects-1 /\ i # bindex
    BY <1>1
  <2>5. Told' = Told \ {Slot(bindex)}
    BY <1>2, <2>2, <2>3, <2>4
  <2> QED
    BY <1>1, <1>2, <2>1, <2>5
<1>4. CASE ~(bindex < nObjects)
  <2>1. air' = air /\ btn' = "idle" /\ nObjects' = 0
    BY <1>1, <1>4 DEF ObjectCleared
  <2>2. bindex..nObjects-1 = {} /\ 0..0-1 = {}
    BY <1>1, <1>4
  <2>3. Told = {} /\ Told' = {}
    BY <1>2, <2>1, <2>2 DEF Told
  <2> QED
    BY <1>1, <1>2, <2>1, <2>3
<1> QED
  BY <1>3, <1>4

\* Picking and building leave the objects as they are; what is sent is what
\* has been told already.
LEMMA ReportBuild == TypesInv /\ ReportInv /\ (PickObject \/ BuildObject) => ReportInv'
<1> SUFFICES ASSUME TypesInv, ReportInv, PickObject \/ BuildObject PROVE ReportInv'
  OBVIOUS
<1>1. UNCHANGED <<objects, button, air, apart>>
  BY DEF PickObject, BuildObject, Thread
<1>2. Used' = Used /\ Told' = Told /\ object_pos' = object_pos /\ btn' = btn
  BY <1>1 DEF Used, Told, Slot, objects, button
<1>3. CASE PickObject
  <2>1. \/ pc' = pc /\ index < nObjects /\ packet' = <<Slot(index)>>
        \/ pc' = "position" /\ packet' = <<>>
    BY <1>3 DEF PickObject
  <2>2. pc = "objects"
    BY <1>3 DEF PickObject
  <2>3. index < nObjects => Slot(index) \in Used
    <3>1. index \in Nat /\ nObjects \in Nat
      BY TrackerAssumption DEF TypesInv, ObjectTypes, BufferTypes
    <3>2. index < nObjects => index \in 0..nObjects-1
      BY <3>1
    <3> QED
      BY <3>2 DEF Used
  <2> QED
    BY <1>1, <1>2, <2>1, <2>2, <2>3 DEF ReportInv
<1>4. CASE BuildObject
  <2>1. packet # <<>> /\ pc' = pc /\ packet' = <<packet[1], object_pos[packet[1]]>>
    BY <1>4 DEF BuildObject
  <2>2. ASSUME NEW s \in Used, packet = <<s>> \/ packet = <<s, object_pos[s]>>
        PROVE  packet' = <<s, object_pos[s]>>
    BY <2>1, <2>2
  <2> QED
    BY <1>1, <1>2, <2>1, <2>2 DEF ReportInv
<1> QED
  BY <1>3, <1>4

LEMMA ReportSend == TypesInv /\ ReportInv /\ SendObject => ReportInv'
<1> SUFFICES ASSUME TypesInv, ReportInv, SendObject PROVE ReportInv'
  OBVIOUS
<1>1. /\ UNCHANGED <<objects, button, apart, pc>> /\ Len(packet) = 2 /\ packet' = <<>>
      /\ air' = Put(packet[1], packet[2])
  BY DEF SendObject, Thread
<1>2. Used' = Used /\ Told' = Told /\ object_pos' = object_pos /\ btn' = btn
  BY <1>1 DEF Used, Told, Slot, objects, button
<1>3. ASSUME apart PROVE air' = air
  <2>1. packet # <<>>
    BY <1>1
  <2>2. btn = "idle" /\ air = [s \in Told |-> object_pos[s]]
    BY <1>3, <2>1 DEF ReportInv
  <2>3. Told = Used
    BY <2>2 DEF Told, Used
  <2>4. PICK s \in Used : packet = <<s>> \/ packet = <<s, object_pos[s]>>
    BY <1>3, <2>1 DEF ReportInv
  <2>5. packet[1] = s /\ packet[2] = object_pos[s]
    BY <1>1, <2>4
  <2>6. air' = [x \in Used \cup {s} |-> IF x = s THEN object_pos[s] ELSE air[x]]
    BY <1>1, <2>2, <2>3, <2>5 DEF Put
  <2> QED
    BY <2>2, <2>3, <2>6
<1> QED
  BY <1>1, <1>2, <1>3 DEF ReportInv

\* A report of the objects begins.
LEMMA ReportStatus == TypesInv /\ ReportInv /\ Status => ReportInv'
<1> SUFFICES ASSUME TypesInv, ReportInv, Status PROVE ReportInv'
  OBVIOUS
<1>1. /\ UNCHANGED <<objects, button, packet, air>> /\ pc = "status" /\ packet = <<>>
      /\ apart' = (apart /\ ~Meet)
  BY DEF Status, Thread, ReportInv
<1>2. Told' = Told /\ object_pos' = object_pos
  BY <1>1 DEF Told, Slot, objects, button
<1> QED
  BY <1>1, <1>2 DEF ReportInv, Meet

LEMMA ReportStep == TypesInv /\ ReportInv /\ [Next]_vars => ReportInv'
<1> SUFFICES ASSUME TypesInv, ReportInv, [Next]_vars PROVE ReportInv'
  OBVIOUS
<1>1. CASE ObjectCalls \/ Status \/ PickObject \/ BuildObject \/ SendObject
  BY <1>1, ReportAdd, ReportDeleted, ReportAdded, ReportClear, ReportCleared, ReportStatus,
     ReportBuild, ReportSend DEF ObjectCalls
<1>2. CASE ~(ObjectCalls \/ Status \/ PickObject \/ BuildObject \/ SendObject)
  <2>0. tracker_posReport => UNCHANGED <<objects, button, packet, air>> /\ (apart' => apart)
    <3> SUFFICES ASSUME tracker_posReport
                 PROVE  UNCHANGED <<objects, button, packet, air>> /\ (apart' => apart)
      OBVIOUS
    <3>1. UNCHANGED <<objects, button, air, report>> /\ apart' = (apart /\ ~Meet)
      BY DEF tracker_posReport, Act
    <3> QED
      BY <3>1 DEF report
  <2>1. UNCHANGED <<objects, button, packet, air>> /\ (apart' => apart)
    BY <1>2, <2>0 DEF Next, Sentence, Expire, Tracking, Begin, Again, Waited, Position, TestEmpty,
         getPos, Repeat, Sent, Sleep, End, Shell, tracker_on, tracker_off, Joined, SetMaxPause, vars,
         report, Thread
  <2>2. pc = "objects" => pc' = pc
    BY <1>2 DEF Next, Sentence, Locked, Unlocked, SignalFix, Expire, Tracking, Begin, Again, Loop,
         Waited, Position, TestEmpty, getPos, Repeat, Sent, Sleep, End, Shell, tracker_on,
         tracker_off, Joined, SetMaxPause, tracker_posReport, Act, vars, TypesInv, ThreadInv
  <2>3. pc' = "objects" => pc = "objects"
    BY <1>2 DEF Next, Sentence, Locked, Unlocked, SignalFix, Expire, Tracking, Begin, Again, Loop,
         Waited, Position, TestEmpty, getPos, Repeat, Sent, Sleep, End, Shell, tracker_on,
         tracker_off, Joined, SetMaxPause, tracker_posReport, Act, vars
  <2>4. Used' = Used /\ Told' = Told /\ object_pos' = object_pos /\ btn' = btn
    BY <2>1 DEF Used, Told, Slot, objects, button
  <2> QED
    BY <2>1, <2>2, <2>3, <2>4 DEF ReportInv
<1> QED
  BY <1>1, <1>2

(* ObjectsExact: for any number of objects, what others have been told of  *)
(* when no call is under way are the objects of the buffer with their      *)
(* positions, also when the oldest has been pushed out, as long as no call *)
(* overlaps the thread's own report of the objects (tracker.c:135-193).    *)
THEOREM ObjectsExactHolds == Spec => []ObjectsExact
<1>1. ReportInv => ObjectsExact
  <2>1. btn = "idle" => Told = Used
    BY DEF Told, Used
  <2> QED
    BY <2>1 DEF ReportInv, ObjectsExact
<1> QED
  BY <1>1, TypesInit, TypesStep, ReportInit, ReportStep, PTL DEF Spec

=============================================================================
