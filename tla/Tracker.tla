------------------------------ MODULE Tracker -------------------------------
(***************************************************************************)
(* The tracker (tracker.c) and the GPS receiver's state (gps.c): sentences *)
(* of the receiver give a fix and positions; the tracker's thread waits    *)
(* for a fix, with a time limit, and sends status, objects and positions   *)
(* by smart beaconing.  The button thread, whose priority is higher, asks  *)
(* for reports (gui_menu.c:176), adds and clears objects; it may come      *)
(* between a test and what depends on it, and between the statements of a  *)
(* loop.  Its own code is in steps at the calls of fbq_put, which may      *)
(* block.  This commit has no menu item for objects: they are what         *)
(* tracker.h:13-14 offers.                                                 *)
(*                                                                         *)
(* A position is a number, its age.  What smart beaconing computes from    *)
(* two positions (distance, bearing and speed) is a choice.                *)
(***************************************************************************)
EXTENDS Integers, Sequences

CONSTANTS
  MaxPauses, MinPause,  \* values of TRACKER_MAXPAUSE; TRACKER_MINPAUSE
  StatusTime,           \* STATUS_TIME
  GpsTimeout,           \* GPS_TIMEOUT
  FixDelay,             \* 4: sentences until a new fix counts (bound: less in a run)
  MAX_OBJECTS,
  MAX_BUFFERPOS,
  Half,                 \* 128: an int8_t is in -Half..Half-1 (bound: less in a run)
  MaxPos,               \* bound: positions received
  MaxActs               \* bound: what shell and button do

ASSUME TrackerAssumption ==
  /\ MaxPauses \subseteq 0..100 /\ MaxPauses # {}          \* commands.c:109
  /\ MinPause \in 0..100 /\ StatusTime \in 0..255
  /\ {GpsTimeout, FixDelay, MAX_OBJECTS, MAX_BUFFERPOS} \subseteq Nat \ {0}
  /\ Half \in Nat /\ MAX_BUFFERPOS < Half
  /\ {MaxPos, MaxActs} \subseteq Nat

VARIABLES
  is_fixed, lock_cnt, current_pos,       \* gps.c
  wait_gps, ttimer,                      \* semaphore signalled, timer set
  TRACKER_ON, maxpause, control,         \* parameters; where tracker_off stands
  pc, waited, st_count, pause_count,     \* of the thread
  prev_pos, prev_pos_gps,
  index, packet, seen,                   \* loop counter, object built, nPos as tested
  nPos, nextPos,                         \* positions to be reported again: how many
  nObjects, nextObj, object_pos,         \* objects
  btn, bindex,                           \* the button's call for objects, its loop
  users,                                 \* radio_require less radio_release
  acts,
  air,        \* history: the objects announced and not deleted
  since,      \* history: passes with a fix since the last report on radio
  apart       \* history: no call for objects met the thread reporting them

gps == <<is_fixed, lock_cnt, current_pos>>
timer == <<wait_gps, ttimer>>
thread == <<waited, st_count, pause_count, prev_pos, prev_pos_gps>>
report == <<index, packet, seen>>
buffer == <<nPos, nextPos>>
objects == <<nObjects, nextObj, object_pos>>
button == <<btn, bindex>>
vars == <<gps, timer, TRACKER_ON, maxpause, control, pc, thread, report, buffer, objects, button,
          users, acts, air, since, apart>>

None == 0

Init ==
  /\ TRACKER_ON \in BOOLEAN                               \* the parameter in EEPROM
  /\ pc = (IF TRACKER_ON THEN "start" ELSE "none")
  /\ is_fixed = ~TRACKER_ON /\ lock_cnt = FixDelay /\ current_pos = None
  /\ wait_gps = FALSE /\ ttimer = FALSE
  /\ maxpause \in MaxPauses /\ control = "idle"
  /\ waited = FALSE /\ st_count = StatusTime /\ pause_count = 0
  /\ prev_pos = None /\ prev_pos_gps = None
  /\ index = 0 /\ packet = <<>> /\ seen = 0
  /\ nPos = 0 /\ nextPos = 0
  /\ nObjects = 0 /\ nextObj = 0 /\ object_pos = [k \in 0..MAX_OBJECTS-1 |-> None]
  /\ btn = "idle" /\ bindex = 0 /\ users = 0 /\ acts = 0
  /\ air = <<>> /\ since = 0 /\ apart = TRUE

----------------------------------------------------------------------------
(* GPS: RMC sentences, and the wait for a fix. *)

\* SIGNAL_FIX, also called by the timer.
SignalFix ==
  IF pc = "blocked" THEN pc' = "woken" /\ UNCHANGED wait_gps
                    ELSE wait_gps' = TRUE /\ UNCHANGED pc

Unlocked ==
  /\ is_fixed' = FALSE /\ lock_cnt' = FixDelay
  /\ UNCHANGED <<current_pos, timer, pc>>

Locked ==
  /\ current_pos < MaxPos
  /\ IF lock_cnt > 0
       THEN lock_cnt' = lock_cnt - 1 /\ UNCHANGED <<is_fixed, current_pos, pc, wait_gps>>
       ELSE /\ lock_cnt' = 1 /\ is_fixed' = TRUE /\ current_pos' = current_pos + 1
            /\ IF is_fixed THEN UNCHANGED <<pc, wait_gps>> ELSE SignalFix
  /\ UNCHANGED ttimer

\* do_rmc with notify_fix
Sentence ==
  /\ Locked \/ Unlocked
  /\ UNCHANGED <<TRACKER_ON, maxpause, control, thread, report, buffer, objects, button, users, acts,
                 air, since, apart>>

\* Mutant: the timer is not set.
SetTimerNot == ttimer' = FALSE

SetTimer == ttimer' = TRUE

Expire ==
  /\ ttimer /\ ttimer' = FALSE /\ SignalFix
  /\ UNCHANGED <<gps, TRACKER_ON, maxpause, control, thread, report, buffer, objects, button, users,
                 acts, air, since, apart>>

gps_is_fixed == is_fixed /\ TRACKER_ON

----------------------------------------------------------------------------
(* The buffer of positions. *)

Int8(n) == ((n + Half) % (2 * Half)) - Half

putPos ==
  /\ nPos' = IF nPos < MAX_BUFFERPOS THEN nPos + 1 ELSE nPos
  /\ nextPos' = (nextPos + 1) % MAX_BUFFERPOS

\* What a loop of up to four getPos leaves, when nothing comes in between.
Emptied == IF nPos \in 0..4 THEN 0 ELSE Int8(nPos - 4)

----------------------------------------------------------------------------
(* Objects: each slot has a name of its own. *)

Put(s, p) == [x \in (DOMAIN air) \cup {s} |-> IF x = s THEN p ELSE air[x]]
Deleted(S) == [x \in (DOMAIN air) \ S |-> air[x]]

\* Mutant: off by one.
SlotLate(i) == LET pos == nextObj - i IN IF pos < 0 THEN MAX_OBJECTS + pos ELSE pos

\* The slot of the object added i objects before the last.
Slot(i) == LET pos == nextObj - i - 1 IN IF pos < 0 THEN MAX_OBJECTS + pos ELSE pos

\* Mutant: the ring of objects does not wrap.
NextSlotOut == nextObj + 1

NextSlot == (nextObj + 1) % MAX_OBJECTS

\* Do the button's call and the thread's report of the objects meet?
Meet == pc' = "objects" /\ btn' # "idle"

Act ==
  /\ btn = "idle" /\ acts < MaxActs /\ acts' = acts + 1
  /\ UNCHANGED <<gps, timer, TRACKER_ON, maxpause, control, pc, thread, report, users, since>>
  /\ apart' = (apart /\ ~Meet)

Button ==
  UNCHANGED <<gps, timer, TRACKER_ON, maxpause, control, pc, thread, report, buffer, users, acts,
              since, apart>>

(* tracker_addObject.  When there is no room the oldest object is deleted  *)
(* on the air first.                                                       *)
AddObject ==
  /\ gps_is_fixed
  /\ IF nObjects >= MAX_OBJECTS
       THEN btn' = "deleting" /\ UNCHANGED <<nObjects, object_pos>>
       ELSE /\ btn' = "adding" /\ nObjects' = nObjects + 1
            /\ object_pos' = [object_pos EXCEPT ![nextObj] = current_pos]
  /\ UNCHANGED <<nextObj, bindex, buffer, air>>
  /\ Act

ObjectDeleted ==
  /\ btn = "deleting" /\ btn' = "adding" /\ Button
  /\ air' = Deleted({nextObj})
  /\ object_pos' = [object_pos EXCEPT ![nextObj] = current_pos]
  /\ UNCHANGED <<nObjects, nextObj, bindex>>

ObjectAdded ==
  /\ btn = "adding" /\ btn' = "idle" /\ Button
  /\ air' = Put(nextObj, object_pos[nextObj])
  /\ nextObj' = NextSlot
  /\ UNCHANGED <<nObjects, object_pos, bindex>>

\* tracker_clearObjects
ClearObjects ==
  /\ btn' = "clearing" /\ bindex' = 0
  /\ UNCHANGED <<objects, buffer, air>>
  /\ Act

ObjectCleared ==
  /\ btn = "clearing" /\ Button
  /\ IF bindex < nObjects
       THEN /\ air' = Deleted({Slot(bindex)}) /\ bindex' = bindex + 1
            /\ UNCHANGED <<btn, nObjects, nextObj>>
       ELSE /\ btn' = "idle" /\ nObjects' = 0 /\ nextObj' = 0
            /\ bindex' = 0 /\ UNCHANGED air
  /\ UNCHANGED object_pos

ObjectCalls == AddObject \/ ObjectDeleted \/ ObjectAdded \/ ClearObjects \/ ObjectCleared

----------------------------------------------------------------------------
(* The thread. *)

Thread == UNCHANGED <<TRACKER_ON, maxpause, control, button, acts>>

\* The head of the loop, and gps_wait_fix.
Loop(from) ==
  /\ pc = from
  /\ IF ~TRACKER_ON
       THEN pc' = "ending" /\ UNCHANGED <<waited, ttimer, wait_gps>>
     ELSE IF is_fixed
       THEN pc' = "status" /\ waited' = FALSE /\ UNCHANGED <<ttimer, wait_gps>>
     ELSE /\ SetTimer /\ UNCHANGED waited
          /\ pc' = IF wait_gps THEN "woken" ELSE "blocked"
          /\ wait_gps' = FALSE

\* gps_on, and radio_require
Begin ==
  /\ Loop("start") /\ users' = users + 1 /\ Thread
  /\ UNCHANGED <<gps, st_count, pause_count, prev_pos, prev_pos_gps, report, buffer, objects, air,
                 since, apart>>

Again ==
  /\ Loop("loop") /\ Thread
  /\ UNCHANGED <<gps, st_count, pause_count, prev_pos, prev_pos_gps, report, buffer, objects, users, air,
                 since, apart>>

Waited ==
  /\ pc = "woken" /\ pc' = "status" /\ waited' = TRUE /\ ttimer' = FALSE /\ Thread
  /\ UNCHANGED <<gps, wait_gps, st_count, pause_count, prev_pos, prev_pos_gps, report, buffer, objects,
                 users, air, since, apart>>

(* A status report is due at intervals, more often without a fix; then     *)
(* the objects are reported.                                               *)
Status ==
  LET count == (st_count + (IF gps_is_fixed THEN 0 ELSE GpsTimeout - 1) + 1) % 256
  IN  /\ pc = "status" /\ index' = 0
      /\ IF count >= StatusTime
           THEN st_count' = 0 /\ pc' = "objects"
           ELSE st_count' = count /\ pc' = "position"
      /\ Thread /\ apart' = (apart /\ ~Meet)
      /\ UNCHANGED <<gps, timer, waited, pause_count, prev_pos, prev_pos_gps, packet, seen, buffer,
                     objects, users, air, since>>

\* report_objects: the slot of an object, ...
PickObject ==
  /\ pc = "objects" /\ packet = <<>>
  /\ IF index < nObjects
       THEN packet' = <<Slot(index)>> /\ UNCHANGED pc
       ELSE pc' = "position" /\ UNCHANGED packet
  /\ Thread
  /\ UNCHANGED <<gps, timer, thread, index, seen, buffer, objects, users, air, since, apart>>

\* ... a packet with its position ...
BuildObject ==
  /\ Len(packet) = 1
  /\ packet' = <<packet[1], object_pos[packet[1]]>>
  /\ Thread
  /\ UNCHANGED <<gps, timer, pc, thread, index, seen, buffer, objects, users, air, since, apart>>

\* ... is put into the queue.
SendObject ==
  /\ Len(packet) = 2
  /\ air' = Put(packet[1], packet[2])
  /\ packet' = <<>> /\ index' = index + 1
  /\ Thread
  /\ UNCHANGED <<gps, timer, pc, thread, seen, buffer, objects, users, since, apart>>

Counted == (pause_count + 1) % 256

\* Mutant: only time counts in place of the number of pauses.
DueSeldom(turned, moved, elapsed) == turned \/ waited \/ (Counted >= MinPause /\ moved) \/ elapsed

(* should_update: the course has changed; the pause is over or the fix is  *)
(* new; started, stopped or moved; or it is time at this speed.            *)
Due(turned, moved, elapsed) ==
  turned \/ Counted >= maxpause \/ waited \/ (Counted >= MinPause /\ moved) \/ elapsed

(* Smart beaconing.  The position before a quick turn is reported as well, *)
(* from the buffer (EXTRATURN_ON).                                         *)
Position ==
  /\ pc = "position" /\ index' = 0
  /\ IF ~gps_is_fixed
       THEN pc' = "loop" /\ UNCHANGED <<pause_count, since, buffer>>
       ELSE \E turned, moved, elapsed, quick \in BOOLEAN :
         IF Due(turned, moved, elapsed)
           THEN /\ pc' = "report" /\ pause_count' = 0 /\ since' = 0
                /\ IF turned /\ quick /\ prev_pos_gps # prev_pos
                     THEN putPos ELSE UNCHANGED buffer
           ELSE /\ pc' = "noted" /\ pause_count' = Counted /\ since' = since + 1
                /\ UNCHANGED buffer
  /\ Thread
  /\ UNCHANGED <<gps, timer, waited, st_count, prev_pos, prev_pos_gps, packet, seen, objects, users,
                 air, apart>>

\* report_station_position: up to four positions of the buffer are added, ...
TestEmpty ==
  /\ pc = "report"
  /\ IF nPos # 0 /\ index < 4
       THEN pc' = "get" /\ seen' = nPos /\ UNCHANGED index
       ELSE pc' = "repeat" /\ seen' = 0 /\ index' = 0
  /\ Thread
  /\ UNCHANGED <<gps, timer, thread, packet, buffer, objects, users, air, since, apart>>

(* ... which getPos takes, from what nPos is by then or, where the         *)
(* compiler has kept it, from what was tested ...                          *)
getPos ==
  /\ pc = "get" /\ pc' = "report" /\ index' = index + 1
  /\ nPos' \in {Int8(nPos - 1), Int8(seen - 1)}
  /\ Thread
  /\ UNCHANGED <<gps, timer, thread, packet, seen, nextPos, objects, users, air, since, apart>>

\* ... and the position is kept to be repeated (REPEAT_ON).
Repeat ==
  /\ pc = "repeat" /\ pc' = "sent"
  /\ putPos \/ UNCHANGED buffer
  /\ Thread
  /\ UNCHANGED <<gps, timer, thread, report, objects, users, air, since, apart>>

\* The packet has been put.
Sent ==
  /\ pc \in {"sent", "noted"} /\ pc' = "sleep"
  /\ prev_pos' = IF pc = "sent" THEN current_pos ELSE prev_pos
  /\ prev_pos_gps' = current_pos
  /\ Thread
  /\ UNCHANGED <<gps, timer, waited, st_count, pause_count, report, buffer, objects, users, air, since,
                 apart>>

(* The button asks for a report at once.                                   *)
tracker_posReport ==
  /\ gps_is_fixed
  /\ \E repeat \in {0, 1} :                                     \* REPEAT_ON
       /\ nPos' = IF Emptied < MAX_BUFFERPOS THEN Emptied + repeat ELSE Emptied
       /\ nextPos' = (nextPos + repeat) % MAX_BUFFERPOS
  /\ UNCHANGED <<objects, button, air>>
  /\ Act

Sleep ==
  /\ pc = "sleep" /\ pc' = "loop" /\ Thread
  /\ UNCHANGED <<gps, timer, thread, report, buffer, objects, users, air, since, apart>>

\* gps_off, and radio_release
End ==
  /\ pc = "ending" /\ pc' = "none" /\ users' = users - 1 /\ Thread
  /\ UNCHANGED <<gps, timer, thread, report, buffer, objects, air, since, apart>>

Tracking ==
  \/ Begin \/ Again \/ Waited \/ Status \/ PickObject \/ BuildObject \/ SendObject
  \/ Position \/ TestEmpty \/ getPos \/ Repeat \/ Sent \/ Sleep \/ End

----------------------------------------------------------------------------
(* The shell: tracker_on, tracker_off, and TRACKER_MAXPAUSE. *)

tracker_on ==
  /\ control = "idle" /\ ~TRACKER_ON /\ acts < MaxActs /\ acts' = acts + 1
  /\ TRACKER_ON' = TRUE /\ pc' = "start" /\ is_fixed' = FALSE
  /\ st_count' = StatusTime /\ since' = 0
  /\ UNCHANGED <<lock_cnt, current_pos, timer, maxpause, control, waited, pause_count, prev_pos,
                 prev_pos_gps, report, buffer, objects, button, users, air, apart>>

tracker_off ==
  /\ control = "idle" /\ TRACKER_ON /\ acts < MaxActs /\ acts' = acts + 1
  /\ TRACKER_ON' = FALSE /\ control' = "join"
  /\ UNCHANGED <<gps, timer, maxpause, pc, thread, report, buffer, objects, button, users, air, since,
                 apart>>

Joined ==
  /\ control = "join" /\ pc = "none" /\ control' = "idle"
  /\ UNCHANGED <<gps, timer, TRACKER_ON, maxpause, pc, thread, report, buffer, objects, button, users,
                 acts, air, since, apart>>

SetMaxPause ==
  /\ acts < MaxActs /\ acts' = acts + 1 /\ maxpause' \in MaxPauses \ {maxpause}
  /\ UNCHANGED <<gps, timer, TRACKER_ON, control, pc, thread, report, buffer, objects, button, users,
                 air, since, apart>>

Shell == tracker_on \/ tracker_off \/ Joined \/ SetMaxPause

Next == Sentence \/ Expire \/ Tracking \/ ObjectCalls \/ tracker_posReport \/ Shell

Fairness == WF_vars(Expire) /\ WF_vars(Tracking) /\ WF_vars(Joined)

Spec == Init /\ [][Next]_vars /\ Fairness

----------------------------------------------------------------------------
TypeOK ==
  /\ is_fixed \in BOOLEAN /\ lock_cnt \in 0..FixDelay /\ current_pos \in 0..MaxPos
  /\ wait_gps \in BOOLEAN /\ ttimer \in BOOLEAN
  /\ maxpause \in MaxPauses /\ control \in {"idle", "join"}
  /\ pc \in {"none", "start", "loop", "blocked", "woken", "status", "objects", "position", "report",
             "get", "repeat", "sent", "noted", "sleep", "ending"}
  /\ st_count \in 0..255 /\ pause_count \in 0..255
  /\ nPos \in -Half..Half-1 /\ nextPos \in 0..MAX_BUFFERPOS-1
  /\ nObjects \in 0..MAX_OBJECTS /\ nextObj \in 0..MAX_OBJECTS-1
  /\ btn \in {"idle", "deleting", "adding", "clearing"} /\ bindex \in 0..MAX_OBJECTS
  /\ users = (IF pc \in {"none", "start"} THEN 0 ELSE 1)

(***************************************************************************)
(* "getPos - remove and return the oldest position, posBuf_empty - return  *)
(* true if empty" (tracker.c:85-87): the counter of positions counts       *)
(* positions, whoever reports between the thread's test and its getPos.    *)
(* This does not hold: it may become -1, and getPos then reads beside the  *)
(* positions.                                                              *)
(***************************************************************************)
BufferBounds == nPos \in 0..MAX_BUFFERPOS

Used == {Slot(i) : i \in 0..nObjects-1}

(***************************************************************************)
(* "tracker_addObject - Create a new object on current position,           *)
(* tracker_clearObjects - Empty object buffer" (tracker.c:128-129): when a *)
(* call has returned, the objects that others have been told of are those  *)
(* in the buffer, with their positions, however they were added, pushed    *)
(* out and cleared by calls that may block in their middle - as long as no *)
(* such call and the thread's own report of the objects overlap.           *)
(***************************************************************************)
ObjectsExact ==
  apart /\ btn = "idle" => air = [s \in Used |-> object_pos[s]]

(***************************************************************************)
(* The same when they overlap (tracker.c:128-129), once both are done.     *)
(* This does not hold: the thread may announce an object again that was    *)
(* deleted, or pushed out, while its packet was built or waited.           *)
(***************************************************************************)
ObjectsAgree ==
  btn = "idle" /\ pc # "objects" => air = [s \in Used |-> object_pos[s]]

(***************************************************************************)
(* "at least a certain time has elapsed since the previous update"         *)
(* (tracker.c:319-321): no pass with a fix goes by without a report when   *)
(* it is the last that TRACKER_MAXPAUSE, as it is then, allows: changes of *)
(* the parameter, and the 8 bits of the counter, which outlives the        *)
(* thread, do not put the report off.                                      *)
(***************************************************************************)
ReportsDue == [][since' > since => since' < maxpause]_vars

(***************************************************************************)
(* tracker_off returns: the thread it waits for does not wait for a fix    *)
(* for ever, whether fix, timer or both come (gps.c:344-354).              *)
(***************************************************************************)
OffReturns == control = "join" ~> control = "idle"

=============================================================================
