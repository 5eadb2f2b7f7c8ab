------------------------------- MODULE Panel -------------------------------
(***************************************************************************)
(* Who changes settings, and turns igate and digipeater on and off: the    *)
(* shell, the web interface (the WIFI monitor thread), the thread of the   *)
(* display, which every five seconds does what the parameters say, and the *)
(* menu, in the button thread.                                             *)
(*                                                                         *)
(* The button thread has a higher priority and comes in anywhere; the      *)
(* other three have the same, so that each runs until it has to wait.      *)
(* todo[t] are the steps thread t has yet to take: units to write, the     *)
(* switch itself, and what follows it, where the thread may have to wait.  *)
(* The power may be cut at any time.                                       *)
(***************************************************************************)
EXTENDS Settings

CONSTANTS MaxCommands, MaxPolls, MaxPushes, MaxCuts   \* bounds

VARIABLES
  todo,        \* thread -> steps
  current,     \* the thread among those of equal priority that runs, or "none"
  on,          \* digi_on and _igate_on
  thread,      \* digithr and igtm: the last that was started, 0 is NULL
  live,        \* switch -> threads that have not ended
  signals,     \* switch -> signals that no thread has got
  subscribed,  \* switch -> its queue is with the decoder
  users,       \* users of the radio
  orderly,     \* history: nothing was done to a switch while something else was
  stale,       \* history: switches whose parameter was set but not acted upon
  count        \* history: commands, polls, pushes and cuts

switches == <<todo, current, on, thread, live, signals, subscribed, users, orderly, stale, count>>

Switches == {"IGATE_ON", "DIGIPEATER_ON"}

ASSUME PanelAssumption == Switches \subseteq Used

Equals == {"shell", "web", "poller"}
PanelThreads == Equals \cup {"button"}

\* Steps after which another thread may run, and steps that may have to wait.
MayWait(s) == s.op \in {"require", "release", "signal", "join"}

InRun(t) == todo[t] # << >> /\ ~MayWait(Head(todo[t]))

MayRun(t) == t = "button" \/ (current \in {"none", t} /\ ~InRun("button"))

Concerns(s, sw) == IF s.op = "write" THEN s.param = sw ELSE s.sw = sw
Busy(t, sw) == \E k \in DOMAIN todo[t] : Concerns(todo[t][k], sw)
MidWrite(t, p) ==
  InRun(t) /\ Head(todo[t]).op = "write" /\ Head(todo[t]).param = p /\ ~Head(todo[t]).first

IsOn(sw) == Get(sw) # ByteValue(0)

Started(isOn) ==
  /\ on = isOn
  /\ thread = [sw \in Switches |-> IF isOn[sw] THEN 1 ELSE 0]
  /\ live = [sw \in Switches |-> IF isOn[sw] THEN {1} ELSE {}]
  /\ signals = [sw \in Switches |-> 0]
  /\ subscribed = isOn
  /\ users = Cardinality({sw \in Switches : isOn[sw]})

PanelInit ==
  /\ SettingsInit
  /\ todo = [t \in PanelThreads |-> << >>] /\ current = "none"
  /\ Started([sw \in Switches |-> FALSE])
  /\ orderly = TRUE /\ stale = {}
  /\ count = [commands |-> 0, polls |-> 0, pushes |-> 0, cuts |-> 0]

----------------------------------------------------------------------------
\* digipeater_on and igate_on
SwitchOn(sw, m) == Append(SetByte(sw, IF m THEN 1 ELSE 0), [op |-> "activate", sw |-> sw, m |-> m])

Begin(t, steps, what, limit) ==
  /\ count[what] < limit /\ count' = [count EXCEPT ![what] = @ + 1]
  /\ todo[t] = << >> /\ MayRun(t) /\ steps # << >>
  /\ todo' = [todo EXCEPT ![t] = steps]
  /\ current' = IF t = "button" THEN current ELSE t
  /\ orderly' = (orderly /\ \A sw \in Switches, u \in PanelThreads :
                               Busy(u, sw) => \A k \in DOMAIN steps : ~Concerns(steps[k], sw))
  /\ UNCHANGED <<store, on, thread, live, signals, subscribed, users, stale>>

ShellCommand ==
  \E steps \in ShellSets \cup {SwitchOn(sw, m) : sw \in Switches, m \in BOOLEAN} :
    Begin("shell", steps, "commands", MaxCommands)

WebCommand == \E steps \in cmd_setParm : Begin("web", steps, "commands", MaxCommands)

\* gui_thread, one switch at a time.
Poll == \E sw \in Switches : Begin("poller", SwitchOn(sw, IsOn(sw)), "polls", MaxPolls)

\* mhandle_igate, mhandle_digipeater
Push == \E sw \in Switches : Begin("button", SwitchOn(sw, ~IsOn(sw)), "pushes", MaxPushes)

----------------------------------------------------------------------------
(* Steps.  What is left to do decides if the thread goes on. *)
Then(t, steps) ==
  /\ todo' = [todo EXCEPT ![t] = steps]
  /\ current' = IF t = "button" THEN current
                ELSE IF steps # << >> /\ ~MayWait(Head(steps)) THEN t ELSE "none"

Write(t) ==
  LET s == Head(todo[t])
  IN  /\ s.op = "write"
      /\ WriteUnit(s, \E u \in PanelThreads \ {t} : MidWrite(u, s.param))
      /\ Then(t, Tail(todo[t]))
      /\ stale' = IF s.param \in Switches THEN stale \cup {s.param} ELSE stale
      /\ UNCHANGED <<on, thread, live, signals, subscribed, users, orderly, count>>

After(op, sw) == [op |-> op, sw |-> sw]

\* Mutant: a switch that is on is turned on again.
ActivateAgain(t) ==
  LET s == Head(todo[t])
      id == 1 + Cardinality(live[s.sw]) + thread[s.sw]
  IN  /\ s.op = "activate"
      /\ on' = [on EXCEPT ![s.sw] = s.m]
      /\ stale' = stale \ {s.sw}
      /\ IF s.m
         THEN /\ subscribed' = [subscribed EXCEPT ![s.sw] = TRUE]
              /\ thread' = [thread EXCEPT ![s.sw] = id]
              /\ live' = [live EXCEPT ![s.sw] = @ \cup {id}]
              /\ Then(t, <<After("require", s.sw)>> \o Tail(todo[t]))
         ELSE /\ Then(t, (IF ~s.m /\ on[s.sw]
                          THEN <<After("release", s.sw), After("signal", s.sw), After("join", s.sw)>>
                          ELSE << >>) \o Tail(todo[t]))
              /\ UNCHANGED <<subscribed, thread, live>>
      /\ UNCHANGED <<store, signals, users, orderly, count>>

\* digipeater_activate and igate_activate, up to where they use the radio.
Activate(t) ==
  LET s == Head(todo[t])
      id == 1 + Cardinality(live[s.sw]) + thread[s.sw]
  IN  /\ s.op = "activate"
      /\ on' = [on EXCEPT ![s.sw] = s.m]
      /\ stale' = stale \ {s.sw}
      /\ IF s.m /\ ~on[s.sw]
         THEN /\ subscribed' = [subscribed EXCEPT ![s.sw] = TRUE]
              /\ thread' = [thread EXCEPT ![s.sw] = id]
              /\ live' = [live EXCEPT ![s.sw] = @ \cup {id}]
              /\ Then(t, <<After("require", s.sw)>> \o Tail(todo[t]))
         ELSE /\ Then(t, (IF ~s.m /\ on[s.sw]
                          THEN <<After("release", s.sw), After("signal", s.sw), After("join", s.sw)>>
                          ELSE << >>) \o Tail(todo[t]))
              /\ UNCHANGED <<subscribed, thread, live>>
      /\ UNCHANGED <<store, signals, users, orderly, count>>

\* radio_require, radio_release, and the signal for the thread to end.
RadioStep(t) ==
  LET s == Head(todo[t])
  IN  /\ s.op \in {"require", "release", "signal"}
      /\ users' = CASE s.op = "require" -> users + 1
                    [] s.op = "release" -> users - 1
                    [] OTHER -> users
      /\ signals' = IF s.op = "signal" THEN [signals EXCEPT ![s.sw] = @ + 1] ELSE signals
      /\ Then(t, Tail(todo[t]))
      /\ UNCHANGED <<store, on, thread, live, subscribed, orderly, stale, count>>

\* chThdWait for the thread started last, then unsubscribe.
JoinThread(t) ==
  LET s == Head(todo[t])
  IN  /\ s.op = "join"
      /\ thread[s.sw] \notin live[s.sw]
      /\ thread' = [thread EXCEPT ![s.sw] = 0]
      /\ subscribed' = [subscribed EXCEPT ![s.sw] = FALSE]
      /\ Then(t, Tail(todo[t]))
      /\ UNCHANGED <<store, on, live, signals, users, orderly, stale, count>>

PanelStep(t) ==
  /\ todo[t] # << >> /\ MayRun(t)
  /\ Write(t) \/ Activate(t) \/ RadioStep(t) \/ JoinThread(t)

(* A thread gets a signal: it ends, or goes on if the switch is on again.  *)
ThreadWakes(sw, id) ==
  /\ id \in live[sw] /\ signals[sw] > 0
  /\ current = "none" /\ ~InRun("button")
  /\ signals' = [signals EXCEPT ![sw] = @ - 1]
  /\ live' = IF on[sw] THEN live ELSE [live EXCEPT ![sw] = @ \ {id}]
  /\ UNCHANGED <<store, todo, current, on, thread, subscribed, users, orderly, stale, count>>

(* The power is cut, and comes back: digipeater_init, igate_init. *)
PowerCut ==
  /\ count.cuts < MaxCuts /\ count' = [count EXCEPT !.cuts = @ + 1]
  /\ torn' = torn \cup {p \in Used : \E t \in PanelThreads : MidWrite(t, p)}
  /\ clash' = {}
  /\ todo' = [t \in PanelThreads |-> << >>] /\ current' = "none"
  /\ on' = [sw \in Switches |-> IsOn(sw)]
  /\ thread' = [sw \in Switches |-> IF IsOn(sw) THEN 1 ELSE 0]
  /\ live' = [sw \in Switches |-> IF IsOn(sw) THEN {1} ELSE {}]
  /\ signals' = [sw \in Switches |-> 0]
  /\ subscribed' = on'
  /\ users' = Cardinality({sw \in Switches : IsOn(sw)})
  /\ orderly' = TRUE /\ stale' = {}
  /\ UNCHANGED <<eeprom, last, tried>>

PanelNext ==
  \/ ShellCommand \/ WebCommand \/ Poll \/ Push \/ PowerCut
  \/ \E t \in PanelThreads : PanelStep(t)
  \/ \E sw \in Switches : \E id \in live[sw] : ThreadWakes(sw, id)

----------------------------------------------------------------------------
\* A string ends at its first zero.
Meaning(p, v) ==
  IF p \in {"IGATE_HOST", "IGATE_USERNAME", "IGATE_FILTER"}
  THEN SubSeq(v, 1, SelectInSeq(v, LAMBDA b : b = {}) - 1) ELSE v

Shown(p) == Meaning(p, IF p \in WebReads THEN cmd_getParm(p) ELSE Get(p))

Settled(p) == p \notin torn /\ \A t \in PanelThreads : ~MidWrite(t, p)

(***************************************************************************)
(* "If checksum does not match, use default value from program memory      *)
(* instead" (config.c:49-50).  A parameter of one byte reads as a value it *)
(* was set to or its default at any time: between its two bytes, after the *)
(* power was cut there, and when the button thread writes it while another *)
(* does.  A parameter of any size but the host reads as the value set last *)
(* when that set was not disturbed, whatever became of those before.       *)
(***************************************************************************)
ReadsAsSet ==
  \A p \in Used :
    /\ Size(p) = 1 => Get(p) \in tried[p]
    /\ p # "IGATE_HOST" /\ Settled(p) => Get(p) = last[p]

(***************************************************************************)
(* "If checksum does not match, use default value" (config.c:49): no       *)
(* mixture of two values is ever read, of a parameter of any size.         *)
(***************************************************************************)
NeverMixed == \A p \in Used : \E v \in tried[p] : Shown(p) = Meaning(p, v)

(***************************************************************************)
(* The same of the host (commands.c:1114, config.h:93).                    *)
(***************************************************************************)
HostKept == "IGATE_HOST" \in Used /\ Settled("IGATE_HOST") =>
              Shown("IGATE_HOST") = Meaning("IGATE_HOST", last["IGATE_HOST"])

\* A unit that t is about to write is of p.
Writing(t, p) ==
  todo[t] # << >> /\ Head(todo[t]).op = "write" /\ Head(todo[t]).param = p

InPlace ==
  \A p \in Used : \A a \in Places(p) :
    eeprom'[a] # eeprom[a] => \E t \in PanelThreads : Writing(t, p)

(***************************************************************************)
(* "We need to calculate offsets manually" (config.h:23): no command, of   *)
(* the shell, the web interface, the display thread or the menu, ever      *)
(* reaches a parameter that is not the one it sets, nor its checksum.      *)
(***************************************************************************)
WritesStay == [][InPlace]_<<store, switches>>

Quiet == \A t \in PanelThreads : todo[t] = << >>

Consistent ==
  /\ \A sw \in Switches :
       /\ subscribed[sw] = on[sw]
       /\ Cardinality(live[sw]) = IF on[sw] THEN 1 ELSE 0
       /\ sw \notin stale => on[sw] = IsOn(sw)
  /\ users = Cardinality({sw \in Switches : on[sw]})

(***************************************************************************)
(* "Turn the digipeater on if argument is true, turn it off if false"      *)
(* (digipeater.c:85-86, igate.c:192-193): when nobody is at it, a switch   *)
(* that is on has one thread, its subscription and the radio, one that is  *)
(* off has none of them, and it is as the parameter says, unless that was  *)
(* set from the web and the display thread has not come by.  It holds as   *)
(* long as nothing is done to a switch while something else is.            *)
(***************************************************************************)
SwitchExact == orderly /\ Quiet => Consistent

(***************************************************************************)
(* The same of all behaviours: a push of the button in the middle of the   *)
(* shell's command leaves a switch and its parameter apart                 *)
(* (digipeater.c:89-93, igate.c:196-199).                                  *)
(***************************************************************************)
SwitchFollows == Quiet => Consistent

=============================================================================
