---------------------------- MODULE PartsProofs ----------------------------
(***************************************************************************)
(* Five of the parts that stand alone: the LED, the button with what is on *)
(* the display, the settings of the transceiver, the heard list with       *)
(* digipeater and igate, and the parameters with the switches of the two.  *)
(* The theorems hold for any colours, mixes, menus, screens, frequencies,  *)
(* squelch levels, paths, sizes of the list, and whatever is typed.        *)
(***************************************************************************)
EXTENDS Digipeater, Led, Panel, Ui, Trx, FiniteSetTheorems, SequenceTheorems, WellFoundedInduction, TLAPS

----------------------------------------------------------------------------
(* The LED. *)

LedSpec == LedInit /\ [][LedNext]_led

Calls ==
  {NoCall} \cup [op : {"mix"}, mix : Mixes] \cup [op : {"on"}, colour : Colours] \cup [op : {"off"}]

\* A mix has a phase, and the timer stands before one.
LedTypes ==
  /\ ledstate \in [mix : BOOLEAN, on : BOOLEAN, pri_on : BOOLEAN,
                   colour : SUBSET {"red", "green", "blue"}]
  /\ phases \in SUBSET (0..3) /\ phases # {}
  /\ cstate \in -1..3 /\ asked \in Calls
  /\ active \subseteq {"squelch", "tx"} /\ undisturbed \in BOOLEAN /\ vt \in BOOLEAN

\* While the priority colour is on no call is under way and the timer stands;
\* what is asked for survives it in ledstate.
LedInv ==
  /\ LedTypes
  /\ ledstate.mix => ledstate.on
  /\ undisturbed =>
       /\ ledstate.pri_on <=> active # {}
       /\ active # {} => asked = NoCall /\ cstate = -1
       /\ \A s \in active : active = {s} /\ pins = PriColour(s)
       /\ active = {} /\ ~ledstate.on => pins = {}
       /\ active = {} /\ ledstate.mix => vt /\ cstate # -1

----------------------------------------------------------------------------
\* The loop of chandler ends: the phase it stops at is one of the mix.
LEMMA PhaseFacts ==
  ASSUME phases \in SUBSET (0..3), phases # {}, cstate \in 0..3
  PROVE  Phase \in phases
<1> DEFINE P(d) == /\ (cstate + d) % 4 \in phases
                   /\ \A k \in 0..(d - 1) : (cstate + k) % 4 \notin phases
<1>1. \E d \in 0..3 : P(d)
  <2>1. CASE (cstate + 0) % 4 \in phases
    <3>1. 0 \in 0..3 /\ 0..(0 - 1) = {}
      OBVIOUS
    <3> QED
      BY <2>1, <3>1
  <2>2. CASE (cstate + 0) % 4 \notin phases /\ (cstate + 1) % 4 \in phases
    <3>1. 1 \in 0..3 /\ 0..(1 - 1) = {0}
      OBVIOUS
    <3> QED
      BY <2>2, <3>1
  <2>3. CASE /\ (cstate + 0) % 4 \notin phases /\ (cstate + 1) % 4 \notin phases
             /\ (cstate + 2) % 4 \in phases
    <3>1. 2 \in 0..3 /\ 0..(2 - 1) = {0, 1}
      OBVIOUS
    <3> QED
      BY <2>3, <3>1
  <2>4. CASE /\ (cstate + 0) % 4 \notin phases /\ (cstate + 1) % 4 \notin phases
             /\ (cstate + 2) % 4 \notin phases
    <3>1. 3 \in 0..3 /\ 0..(3 - 1) = {0, 1, 2}
      OBVIOUS
    <3>2. \A n \in 0..3 : n \in {(cstate + 0) % 4, (cstate + 1) % 4, (cstate + 2) % 4, (cstate + 3) % 4}
      <4>1. cstate = 0 \/ cstate = 1 \/ cstate = 2 \/ cstate = 3
        OBVIOUS
      <4> QED
        BY <4>1
    <3>3. (cstate + 3) % 4 \in phases
      BY <2>4, <3>2
    <3> QED
      BY <2>4, <3>1, <3>3
  <2> QED
    BY <2>1, <2>2, <2>3, <2>4
<1>2. P(CHOOSE d \in 0..3 : P(d))
  BY <1>1
<1> QED
  BY <1>2 DEF Phase

LEMMA LedInitHolds == LedInit => LedInv
<1> SUFFICES ASSUME LedInit PROVE LedInv
  OBVIOUS
<1>1. LedTypes
  <2>1. ledstate \in [mix : BOOLEAN, on : BOOLEAN, pri_on : BOOLEAN,
                      colour : SUBSET {"red", "green", "blue"}]
    BY DEF LedInit
  <2>2. phases \in SUBSET (0..3) /\ phases # {} /\ cstate \in -1..3
    BY DEF LedInit
  <2>3. asked \in Calls
    BY DEF LedInit, Calls
  <2> QED
    BY <2>1, <2>2, <2>3 DEF LedInit, LedTypes
<1> QED
  BY <1>1 DEF LedInit, LedInv

\* What a call asks for.
LEMMA CallFacts ==
  ASSUME LedInv
  PROVE  /\ asked.op \in {"mix", "on", "off"} => asked # NoCall
         /\ asked.op = "mix" => asked.mix \in Mixes
         /\ asked.op = "on" => asked.colour \in Colours
BY DEF LedInv, LedTypes, Calls, NoCall

LEMMA TimerStep == LedInv /\ chandler => LedInv'
<1> SUFFICES ASSUME LedInv, chandler PROVE LedInv'
  OBVIOUS
<1>0. LedTypes /\ UNCHANGED <<phases, asked, active, undisturbed>>
  BY DEF LedInv, chandler
<1>1. CASE cstate = -1
  <2>1. vt' = FALSE /\ UNCHANGED <<cstate, pins, ledstate>>
    BY <1>1 DEF chandler
  <2> QED
    BY <1>0, <1>1, <2>1 DEF LedInv, LedTypes
<1>2. CASE cstate # -1
  <2>1. vt' = TRUE /\ cstate' = (Phase + 1) % 4
    BY <1>2 DEF chandler
  <2>2. Phase \in 0..3
    <3>1. cstate \in 0..3 /\ phases \in SUBSET (0..3) /\ phases # {}
      BY <1>0, <1>2 DEF LedTypes
    <3> QED
      BY <3>1, PhaseFacts
  <2>3. cstate' \in 0..3
    BY <2>1, <2>2
  <2>4. /\ Phase = 0 => pins' = {} /\ ledstate' = ledstate
        /\ Phase # 0 /\ ledstate.pri_on => UNCHANGED <<pins, ledstate>>
        /\ Phase # 0 /\ ~ledstate.pri_on => rgb_led_on({<<"red", "green", "blue">>[Phase]})
    BY <1>2 DEF chandler
  <2>5. Phase # 0 => <<"red", "green", "blue">>[Phase] \in {"red", "green", "blue"}
    <3>1. Phase = 0 \/ Phase = 1 \/ Phase = 2 \/ Phase = 3
      BY <2>2
    <3> QED
      BY <3>1
  <2>6. /\ ledstate' \in [mix : BOOLEAN, on : BOOLEAN, pri_on : BOOLEAN,
                          colour : SUBSET {"red", "green", "blue"}]
        /\ ledstate'.mix = ledstate.mix /\ ledstate'.pri_on = ledstate.pri_on
        /\ ledstate.on => ledstate'.on
    <3>1. CASE Phase = 0 \/ ledstate.pri_on
      BY <1>0, <2>4, <3>1 DEF LedTypes
    <3>2. CASE Phase # 0 /\ ~ledstate.pri_on
      <4>1. {<<"red", "green", "blue">>[Phase]} \in SUBSET {"red", "green", "blue"}
        BY <2>5, <3>2
      <4>2. ledstate' = [ledstate EXCEPT !.colour = {<<"red", "green", "blue">>[Phase]}, !.on = TRUE]
        BY <2>4, <3>2 DEF rgb_led_on
      <4> QED
        BY <1>0, <4>1, <4>2 DEF LedTypes
    <3> QED
      BY <3>1, <3>2
  <2>7. LedTypes'
    BY <1>0, <2>1, <2>3, <2>6 DEF LedTypes
  <2>8. undisturbed => active = {} /\ ~ledstate.pri_on
    BY <1>2 DEF LedInv
  <2>9. undisturbed /\ ~ledstate'.on => pins' = {}
    BY <1>0, <2>4, <2>8 DEF rgb_led_on, LedTypes
  <2>10. cstate' # -1
    BY <2>3
  <2> QED
    BY <1>0, <2>1, <2>6, <2>7, <2>8, <2>9, <2>10 DEF LedInv
<1> QED
  BY <1>1, <1>2

LEMMA AskStep == LedInv /\ Ask => LedInv'
<1> SUFFICES ASSUME LedInv, Ask PROVE LedInv'
  OBVIOUS
<1>1. /\ UNCHANGED <<ledstate, phases, cstate, vt, pins, active, undisturbed>>
      /\ ~ledstate.pri_on
  BY DEF Ask
<1>2. asked' \in Calls
  BY DEF Ask, Calls
<1> QED
  BY <1>1, <1>2 DEF LedInv, LedTypes

LEMMA AnswerStep == LedInv /\ Answer => LedInv'
<1> SUFFICES ASSUME LedInv, Answer PROVE LedInv'
  OBVIOUS
<1>0. /\ LedTypes /\ UNCHANGED <<active, undisturbed>> /\ asked' = NoCall
      /\ asked' \in Calls /\ (undisturbed => active = {} /\ ~ledstate.pri_on)
  BY CallFacts DEF LedInv, Answer, Calls
<1>1. CASE asked.op = "mix" /\ rgb_led_mix(asked.mix, ledstate.pri_on) /\ UNCHANGED pins
  <2>1. asked.mix \in SUBSET (0..3) /\ asked.mix # {}
    BY <1>1, CallFacts, LedAssumption
  <2>2. /\ phases' = asked.mix /\ cstate' = 1 /\ vt' = TRUE
        /\ ledstate'.mix = TRUE /\ ledstate'.on = TRUE /\ ledstate'.pri_on = ledstate.pri_on
        /\ ledstate' \in [mix : BOOLEAN, on : BOOLEAN, pri_on : BOOLEAN,
                          colour : SUBSET {"red", "green", "blue"}]
    BY <1>0, <1>1 DEF rgb_led_mix, LedTypes
  <2>3. LedTypes'
    BY <1>0, <2>1, <2>2 DEF LedTypes
  <2> QED
    BY <1>0, <2>2, <2>3 DEF LedInv
<1>2. CASE asked.op = "on" /\ rgb_led_on(asked.colour) /\ UNCHANGED <<phases, cstate, vt>>
  <2>1. asked.colour \in SUBSET {"red", "green", "blue"}
    BY <1>2, CallFacts, LedAssumption
  <2>2. /\ ledstate'.mix = ledstate.mix /\ ledstate'.on = TRUE
        /\ ledstate'.pri_on = ledstate.pri_on
        /\ ledstate' \in [mix : BOOLEAN, on : BOOLEAN, pri_on : BOOLEAN,
                          colour : SUBSET {"red", "green", "blue"}]
    BY <1>0, <1>2, <2>1 DEF rgb_led_on, LedTypes
  <2>3. LedTypes'
    BY <1>0, <1>2, <2>2 DEF LedTypes
  <2> QED
    BY <1>0, <1>2, <2>2, <2>3 DEF LedInv
<1>3. CASE asked.op = "off" /\ rgb_led_off /\ UNCHANGED <<phases, vt>>
  <2>1. /\ ledstate'.mix = FALSE /\ ledstate'.on = FALSE
        /\ ledstate'.pri_on = ledstate.pri_on /\ pins' = {} /\ cstate' = -1
        /\ ledstate' \in [mix : BOOLEAN, on : BOOLEAN, pri_on : BOOLEAN,
                          colour : SUBSET {"red", "green", "blue"}]
    BY <1>0, <1>3 DEF rgb_led_off, LedTypes
  <2>2. LedTypes'
    BY <1>0, <1>3, <2>1 DEF LedTypes
  <2> QED
    BY <1>0, <2>1, <2>2 DEF LedInv
<1> QED
  BY <1>1, <1>2, <1>3 DEF Answer

LEMMA PriOnStep == LedInv /\ PriOn => LedInv'
<1> SUFFICES ASSUME LedInv, PriOn PROVE LedInv'
  OBVIOUS
<1>1. PICK source \in {"squelch", "tx"} \ active :
        active' = active \cup {source} /\ pri_rgb_led_on(source)
  BY DEF PriOn
<1>2. /\ UNCHANGED <<phases, vt, asked>> /\ pins' = PriColour(source) /\ cstate' = -1
      /\ ledstate'.mix = ledstate.mix /\ ledstate'.on = ledstate.on /\ ledstate'.pri_on = TRUE
      /\ ledstate' \in [mix : BOOLEAN, on : BOOLEAN, pri_on : BOOLEAN,
                        colour : SUBSET {"red", "green", "blue"}]
  BY <1>1 DEF PriOn, pri_rgb_led_on, LedInv, LedTypes
<1>3. undisturbed' \in BOOLEAN /\ (undisturbed' => asked = NoCall /\ active' = {source})
  BY <1>1 DEF PriOn
<1>4. LedTypes'
  BY <1>1, <1>2, <1>3 DEF LedInv, LedTypes
<1> QED
  BY <1>1, <1>2, <1>3, <1>4 DEF LedInv

LEMMA PriOffStep == LedInv /\ PriOff => LedInv'
<1> SUFFICES ASSUME LedInv, PriOff PROVE LedInv'
  OBVIOUS
<1>0. LedTypes /\ UNCHANGED <<asked, undisturbed>>
  BY DEF LedInv, PriOff
<1>1. PICK source \in active : active' = active \ {source}
  BY DEF PriOff
<1>2. undisturbed => active' = {}
  BY <1>1 DEF LedInv
<1>3. CASE ledstate.on /\ ledstate.mix
  <2>1. /\ phases' = phases /\ cstate' = 1 /\ vt' = TRUE
        /\ ledstate'.mix = TRUE /\ ledstate'.on = TRUE /\ ledstate'.pri_on = FALSE
        /\ ledstate' \in [mix : BOOLEAN, on : BOOLEAN, pri_on : BOOLEAN,
                          colour : SUBSET {"red", "green", "blue"}]
    BY <1>0, <1>3 DEF PriOff, pri_rgb_led_off, rgb_led_mix, LedTypes
  <2>2. LedTypes'
    BY <1>0, <1>1, <2>1 DEF LedTypes
  <2> QED
    BY <1>0, <1>2, <2>1, <2>2 DEF LedInv
<1>4. CASE ~(ledstate.on /\ ledstate.mix)
  <2>1. /\ pins' = IF ledstate.on THEN pins \cup ledstate.colour ELSE {}
        /\ UNCHANGED <<phases, cstate, vt>>
        /\ ledstate'.mix = ledstate.mix /\ ledstate'.on = ledstate.on /\ ledstate'.pri_on = FALSE
        /\ ledstate' \in [mix : BOOLEAN, on : BOOLEAN, pri_on : BOOLEAN,
                          colour : SUBSET {"red", "green", "blue"}]
    BY <1>0, <1>4 DEF PriOff, pri_rgb_led_off, LedTypes
  <2>2. LedTypes'
    BY <1>0, <1>1, <2>1 DEF LedTypes
  <2>3. ~ledstate.mix
    BY <1>4 DEF LedInv
  <2> QED
    BY <1>0, <1>2, <2>1, <2>2, <2>3 DEF LedInv
<1> QED
  BY <1>3, <1>4

LEMMA PriOffUnaskedStep == LedInv /\ PriOffUnasked => LedInv'
<1> SUFFICES ASSUME LedInv, PriOffUnasked PROVE LedInv'
  OBVIOUS
<1>0. LedTypes /\ UNCHANGED <<asked, active>> /\ pri_rgb_led_off
  BY DEF LedInv, PriOffUnasked
<1>1. undisturbed' \in BOOLEAN /\ (undisturbed' => undisturbed /\ active' = {})
  BY <1>0 DEF PriOffUnasked
<1>3. CASE ledstate.on /\ ledstate.mix
  <2>1. /\ phases' = phases /\ cstate' = 1 /\ vt' = TRUE
        /\ ledstate'.mix = TRUE /\ ledstate'.on = TRUE /\ ledstate'.pri_on = FALSE
        /\ pins' = pins
        /\ ledstate' \in [mix : BOOLEAN, on : BOOLEAN, pri_on : BOOLEAN,
                          colour : SUBSET {"red", "green", "blue"}]
    BY <1>0, <1>3 DEF pri_rgb_led_off, rgb_led_mix, LedTypes
  <2>2. LedTypes'
    BY <1>0, <1>1, <2>1 DEF LedTypes
  <2> QED
    BY <1>1, <2>1, <2>2 DEF LedInv
<1>4. CASE ~(ledstate.on /\ ledstate.mix)
  <2>1. /\ pins' = IF ledstate.on THEN pins \cup ledstate.colour ELSE {}
        /\ UNCHANGED <<phases, cstate, vt>>
        /\ ledstate'.mix = ledstate.mix /\ ledstate'.on = ledstate.on /\ ledstate'.pri_on = FALSE
        /\ ledstate' \in [mix : BOOLEAN, on : BOOLEAN, pri_on : BOOLEAN,
                          colour : SUBSET {"red", "green", "blue"}]
    BY <1>0, <1>4 DEF pri_rgb_led_off, LedTypes
  <2>2. LedTypes'
    BY <1>0, <1>1, <2>1 DEF LedTypes
  <2>3. ~ledstate.mix
    BY <1>4 DEF LedInv
  <2> QED
    BY <1>1, <2>1, <2>2, <2>3 DEF LedInv
<1> QED
  BY <1>3, <1>4

LEMMA LedStep == LedInv /\ [LedNext]_led => LedInv'
<1>1. LedInv /\ UNCHANGED led => LedInv'
  BY DEF LedInv, LedTypes, led
<1> QED
  BY <1>1, TimerStep, AskStep, AnswerStep, PriOnStep, PriOffStep, PriOffUnaskedStep DEF LedNext

(* LedExact: for any colours and mixes with a phase, as long as no         *)
(* interrupt comes into a thread's call or while the other's colour is on  *)
(* (nor the transceiver is powered up then), the priority colour is lit    *)
(* until it is turned off, nothing is left of it when no colour was on     *)
(* before, and a mix goes on.  A colour of before is not restored          *)
(* (ui.c:153).                                                             *)
THEOREM LedExactHolds == LedSpec => []LedExact
<1>1. LedInv => LedExact
  BY DEF LedInv, LedExact
<1> QED
  BY <1>1, LedInitHolds, LedStep, PTL DEF LedSpec

----------------------------------------------------------------------------
(* Button and display. *)

UiSpec == UiInit /\ [][UiNext]_ui

SeenSet ==
  [edges : Nat, presses : Nat, made : Nat, handled : Seq(Nat), updates : Nat,
   calm : BOOLEAN, tidy : BOOLEAN]

ButtonTypes ==
  /\ down \in BOOLEAN /\ irq \in BOOLEAN /\ sem \in BOOLEAN
  /\ button \in [buttdown : BOOLEAN, pressed : BOOLEAN, vtb : BOOLEAN, vtb1 : BOOLEAN]
  /\ butt_event \in [kind : {0, SHORT, LONG}, nr : Nat]
  /\ service \in {"wait", "short", "beep", "long", "beeps", "draw", "clear"}
  /\ seen \in SeenSet

\* A press is not used up while a timer or pressed stands for it.
PressLeft == IF button.pressed \/ button.vtb1 THEN 1 ELSE 0

\* The event that the button thread is about to handle.
ToHandle == IF service \in {"short", "beep", "long", "beeps"} THEN 1 ELSE 0

\* An event that is yet to be handled is a later one than those that were.
ButtonInv ==
  /\ ButtonTypes
  /\ button.vtb => button.vtb1
  /\ seen.made + PressLeft <= seen.presses
  /\ \A i, j \in DOMAIN seen.handled : i < j => seen.handled[i] < seen.handled[j]
  /\ \A i \in DOMAIN seen.handled : seen.handled[i] <= seen.made
  /\ butt_event.nr <= seen.made
  /\ butt_event.kind = 0 <=> butt_event.nr = 0
  /\ service \notin {"draw", "clear"} /\ butt_event.nr # 0 =>
       \A i \in DOMAIN seen.handled : seen.handled[i] < butt_event.nr
  /\ service \in {"beep", "beeps"} => butt_event.nr # 0
  /\ seen.calm =>
       /\ ~sem /\ seen.made = Len(seen.handled) + ToHandle
       /\ service = "short" => butt_event.kind # 0
       /\ service = "long" => butt_event.kind = LONG

LEMMA ButtonInitHolds == UiInit => ButtonInv
<1> SUFFICES ASSUME UiInit PROVE ButtonInv
  OBVIOUS
<1>1. /\ button = [buttdown |-> FALSE, pressed |-> FALSE, vtb |-> FALSE, vtb1 |-> FALSE]
      /\ butt_event = [kind |-> 0, nr |-> 0] /\ sem = FALSE /\ service = "wait"
      /\ down = FALSE /\ irq = FALSE
  BY DEF UiInit, NoEvent
<1>2. seen = [edges |-> 0, presses |-> 0, made |-> 0, handled |-> << >>, updates |-> 0,
              calm |-> TRUE, tidy |-> TRUE]
  BY DEF UiInit
<1>3. ButtonTypes
  <2>1. << >> \in Seq(Nat)
    OBVIOUS
  <2>2. seen \in SeenSet
    BY <1>2, <2>1 DEF SeenSet
  <2> QED
    BY <1>1, <2>2 DEF ButtonTypes
<1>4. seen.handled = << >> /\ seen.made = 0 /\ seen.presses = 0 /\ Len(seen.handled) = 0
  BY <1>2
<1> QED
  BY <1>1, <1>3, <1>4 DEF ButtonInv, PressLeft, ToHandle

\* clickhandler and holdhandler take a press each.
LEMMA MakeKeeps ==
  ASSUME ButtonInv, NEW kind \in {SHORT, LONG}, Make(kind), PressLeft = 1, PressLeft' = 0,
         UNCHANGED down, irq' \in BOOLEAN,
         button' \in [buttdown : BOOLEAN, pressed : BOOLEAN, vtb : BOOLEAN, vtb1 : BOOLEAN],
         button'.vtb => button'.vtb1
  PROVE  ButtonInv'
<1>1. ButtonTypes /\ kind # 0
  BY DEF ButtonInv, SHORT, LONG
<1>2. /\ butt_event' = [kind |-> kind, nr |-> seen.made + 1]
      /\ service' = IF service = "wait" THEN "short" ELSE service
      /\ sem' = (sem \/ service # "wait")
      /\ seen'.made = seen.made + 1 /\ seen'.presses = seen.presses
      /\ seen'.handled = seen.handled
      /\ seen'.calm = (seen.calm /\ service = "wait")
      /\ seen' \in SeenSet
  <2>1. /\ seen' = [seen EXCEPT !.made = @ + 1, !.calm = @ /\ service = "wait"]
        /\ butt_event' = [kind |-> kind, nr |-> seen.made + 1]
        /\ service' = IF service = "wait" THEN "short" ELSE service
        /\ sem' = (sem \/ service # "wait")
    BY DEF Make
  <2>2. PICK b \in BOOLEAN : b = (seen.calm /\ service = "wait")
    OBVIOUS
  <2>3. seen \in SeenSet
    BY <1>1 DEF ButtonTypes
  <2>4. seen' = [seen EXCEPT !.made = @ + 1, !.calm = b]
    BY <2>1, <2>2
  <2>5. /\ seen'.made = seen.made + 1 /\ seen'.presses = seen.presses
        /\ seen'.handled = seen.handled /\ seen'.calm = b /\ seen' \in SeenSet
    <3>1. seen' = [edges |-> seen.edges, presses |-> seen.presses, made |-> seen.made + 1,
                   handled |-> seen.handled, updates |-> seen.updates, calm |-> b,
                   tidy |-> seen.tidy]
      BY <2>3, <2>4 DEF SeenSet
    <3>2. /\ seen.edges \in Nat /\ seen.presses \in Nat /\ seen.made + 1 \in Nat
          /\ seen.handled \in Seq(Nat) /\ seen.updates \in Nat /\ seen.tidy \in BOOLEAN
      BY <2>3 DEF SeenSet
    <3> QED
      BY <3>1, <3>2 DEF SeenSet
  <2> QED
    BY <2>1, <2>2, <2>5, Zenon
<1>3. ButtonTypes'
  BY <1>1, <1>2 DEF ButtonTypes, SeenSet
<1>4. seen'.made + PressLeft' <= seen'.presses
  BY <1>1, <1>2 DEF ButtonInv, ButtonTypes, SeenSet
<1>5. \A i \in DOMAIN seen.handled : seen.handled[i] \in Nat /\ seen.handled[i] < seen.made + 1
  BY <1>1 DEF ButtonInv, ButtonTypes, SeenSet
<1>6. /\ \A i, j \in DOMAIN seen'.handled : i < j => seen'.handled[i] < seen'.handled[j]
      /\ \A i \in DOMAIN seen'.handled : seen'.handled[i] <= seen'.made
      /\ butt_event'.nr <= seen'.made
      /\ butt_event'.kind # 0 /\ butt_event'.nr # 0
      /\ \A i \in DOMAIN seen'.handled : seen'.handled[i] < butt_event'.nr
  BY <1>1, <1>2, <1>5 DEF ButtonInv, ButtonTypes, SeenSet
<1>7. seen'.calm => /\ ~sem' /\ seen'.made = Len(seen'.handled) + ToHandle'
                    /\ service' = "short"
  <2> SUFFICES ASSUME seen'.calm PROVE ~sem' /\ seen'.made = Len(seen'.handled) + ToHandle' /\ service' = "short"
    OBVIOUS
  <2>1. seen.calm /\ service = "wait"
    BY <1>2
  <2>2. ~sem /\ seen.made = Len(seen.handled) + 0
    BY <2>1 DEF ButtonInv, ToHandle
  <2>3. service' = "short" /\ ToHandle' = 1
    BY <1>2, <2>1 DEF ToHandle
  <2>4. Len(seen.handled) \in Nat
    BY <1>1 DEF ButtonTypes, SeenSet
  <2> QED
    BY <1>1, <1>2, <2>1, <2>2, <2>3, <2>4 DEF ButtonTypes, SeenSet
<1> QED
  BY <1>2, <1>3, <1>4, <1>6, <1>7 DEF ButtonInv

LEMMA EdgeStep == ButtonInv /\ Edge => ButtonInv'
<1> SUFFICES ASSUME ButtonInv, Edge PROVE ButtonInv'
  OBVIOUS
<1>1. /\ UNCHANGED <<button, butt_event, sem, service>> /\ down' \in BOOLEAN /\ irq' \in BOOLEAN
      /\ seen'.made = seen.made /\ seen'.presses = seen.presses
      /\ seen'.handled = seen.handled /\ seen'.calm = seen.calm
      /\ seen' \in SeenSet
  BY DEF Edge, ButtonInv, ButtonTypes, SeenSet
<1>2. ButtonTypes'
  BY <1>1 DEF ButtonInv, ButtonTypes, SeenSet
<1> QED
  BY <1>1, <1>2 DEF ButtonInv, PressLeft, ToHandle

LEMMA UpdateKeeps == ButtonInv /\ Update => ButtonInv'
<1> SUFFICES ASSUME ButtonInv, Update PROVE ButtonInv'
  OBVIOUS
<1>1. /\ UNCHANGED <<button, butt_event, sem, service, down, irq>>
      /\ seen'.made = seen.made /\ seen'.presses = seen.presses
      /\ seen'.handled = seen.handled /\ seen'.calm = seen.calm
      /\ seen' \in SeenSet
  <2>1. seen' = [seen EXCEPT !.updates = @ + 1]
    BY DEF Update
  <2>2. UNCHANGED <<button, butt_event, sem, service, down, irq>>
    BY DEF Update
  <2>3. seen \in SeenSet
    BY DEF ButtonInv, ButtonTypes
  <2>4. /\ seen'.made = seen.made /\ seen'.presses = seen.presses
        /\ seen'.handled = seen.handled /\ seen'.calm = seen.calm
    BY <2>1, <2>3 DEF SeenSet
  <2>5. seen' \in SeenSet
    <3>1. seen' = [edges |-> seen.edges, presses |-> seen.presses, made |-> seen.made,
                   handled |-> seen.handled, updates |-> seen.updates + 1, calm |-> seen.calm,
                   tidy |-> seen.tidy]
      BY <2>1, <2>3 DEF SeenSet
    <3> QED
      BY <2>3, <3>1 DEF SeenSet
  <2> QED
    BY <2>2, <2>4, <2>5
<1>2. ButtonTypes'
  BY <1>1 DEF ButtonInv, ButtonTypes, SeenSet
<1> QED
  BY <1>1, <1>2 DEF ButtonInv, PressLeft, ToHandle

LEMMA ButtonHandlerStep == ButtonInv /\ button_handler => ButtonInv'
<1> SUFFICES ASSUME ButtonInv, button_handler PROVE ButtonInv'
  OBVIOUS
<1>0. ButtonTypes /\ irq' = FALSE /\ down' = down
  BY DEF ButtonInv, button_handler
<1>1. CASE down
  <2>1. /\ button' = [button EXCEPT !.buttdown = TRUE, !.vtb = TRUE, !.vtb1 = TRUE]
        /\ seen' = [seen EXCEPT !.presses = @ + 1]
        /\ UNCHANGED <<butt_event, sem, service>>
    BY <1>1 DEF button_handler
  <2>2. /\ button' \in [buttdown : BOOLEAN, pressed : BOOLEAN, vtb : BOOLEAN, vtb1 : BOOLEAN]
        /\ button'.vtb1
        /\ seen'.made = seen.made /\ seen'.presses = seen.presses + 1
        /\ seen'.handled = seen.handled /\ seen'.calm = seen.calm
        /\ seen' \in SeenSet
    <3>1. /\ button' \in [buttdown : BOOLEAN, pressed : BOOLEAN, vtb : BOOLEAN, vtb1 : BOOLEAN]
          /\ button'.vtb1
      BY <1>0, <2>1 DEF ButtonTypes
    <3>2. seen \in SeenSet
      BY <1>0 DEF ButtonTypes
    <3>3. /\ seen'.made = seen.made /\ seen'.presses = seen.presses + 1
          /\ seen'.handled = seen.handled /\ seen'.calm = seen.calm
          /\ seen' \in SeenSet
      <4>1. seen' = [edges |-> seen.edges, presses |-> seen.presses + 1, made |-> seen.made,
                     handled |-> seen.handled, updates |-> seen.updates, calm |-> seen.calm,
                     tidy |-> seen.tidy]
        BY <2>1, <3>2 DEF SeenSet
      <4> QED
        BY <3>2, <4>1 DEF SeenSet
    <3> QED
      BY <3>1, <3>3
  <2>3. ButtonTypes'
    BY <1>0, <2>1, <2>2 DEF ButtonTypes
  <2>4. seen'.made + PressLeft' <= seen'.presses
    <3>1. PressLeft \in 0..1 /\ PressLeft' = 1
      BY <2>2 DEF PressLeft
    <3> QED
      BY <1>0, <2>2, <3>1 DEF ButtonInv, ButtonTypes, SeenSet
  <2> QED
    BY <2>1, <2>2, <2>3, <2>4 DEF ButtonInv, ToHandle
<1>2. CASE ~down
  <2>1. button' = [buttdown |-> FALSE, pressed |-> FALSE, vtb |-> FALSE, vtb1 |-> FALSE]
    BY <1>2 DEF button_handler
  <2>2. /\ button' \in [buttdown : BOOLEAN, pressed : BOOLEAN, vtb : BOOLEAN, vtb1 : BOOLEAN]
        /\ ~button'.vtb /\ PressLeft' = 0
    BY <2>1 DEF PressLeft
  <2>3. CASE button.pressed
    <3>1. Make(SHORT) /\ PressLeft = 1 /\ SHORT \in {SHORT, LONG}
      BY <1>2, <2>3 DEF button_handler, PressLeft
    <3>2. irq' \in BOOLEAN
      BY <1>0
    <3> QED
      BY <1>0, <2>2, <3>1, <3>2, MakeKeeps
  <2>4. CASE ~button.pressed
    <3>1. UNCHANGED <<butt_event, sem, service, seen>>
      BY <1>2, <2>4 DEF button_handler
    <3>2. ButtonTypes'
      BY <1>0, <2>2, <3>1 DEF ButtonTypes
    <3>3. seen'.made + PressLeft' <= seen'.presses
      <4>1. PressLeft \in 0..1
        BY DEF PressLeft
      <4> QED
        BY <1>0, <2>2, <3>1, <4>1 DEF ButtonInv, ButtonTypes, SeenSet
    <3> QED
      BY <2>2, <3>1, <3>2, <3>3 DEF ButtonInv, ToHandle
  <2> QED
    BY <2>3, <2>4
<1> QED
  BY <1>1, <1>2

LEMMA BphandlerStep == ButtonInv /\ bphandler => ButtonInv'
<1> SUFFICES ASSUME ButtonInv, bphandler PROVE ButtonInv'
  OBVIOUS
<1>1. /\ button' = [button EXCEPT !.vtb = FALSE, !.pressed = @ \/ (down /\ button.buttdown)]
      /\ button.vtb /\ UNCHANGED <<down, irq, butt_event, sem, service, seen>>
  BY DEF bphandler
<1>2. ButtonTypes /\ button.vtb1
  BY <1>1 DEF ButtonInv
<1>3. /\ button' \in [buttdown : BOOLEAN, pressed : BOOLEAN, vtb : BOOLEAN, vtb1 : BOOLEAN]
      /\ button'.vtb1 /\ PressLeft' = 1 /\ PressLeft = 1
  BY <1>1, <1>2 DEF ButtonTypes, PressLeft
<1>4. ButtonTypes'
  BY <1>1, <1>2, <1>3 DEF ButtonTypes
<1> QED
  BY <1>1, <1>3, <1>4 DEF ButtonInv, ToHandle

LEMMA HoldhandlerStep == ButtonInv /\ holdhandler => ButtonInv'
<1> SUFFICES ASSUME ButtonInv, holdhandler PROVE ButtonInv'
  OBVIOUS
<1>1. /\ button' = [button EXCEPT !.vtb1 = FALSE, !.pressed = FALSE] /\ button.vtb1 /\ ~button.vtb
      /\ UNCHANGED <<down, irq>> /\ Make(LONG) /\ LONG \in {SHORT, LONG}
  BY DEF holdhandler
<1>2. ButtonTypes
  BY DEF ButtonInv
<1>3. /\ button' \in [buttdown : BOOLEAN, pressed : BOOLEAN, vtb : BOOLEAN, vtb1 : BOOLEAN]
      /\ ~button'.vtb /\ PressLeft' = 0 /\ PressLeft = 1 /\ irq' \in BOOLEAN
  BY <1>1, <1>2 DEF ButtonTypes, PressLeft
<1> QED
  BY <1>1, <1>3, MakeKeeps

\* click_handler and push_handler draw, and their event counts as handled.
LEMMA DrawsFacts ==
  ASSUME NEW ops, Draws(ops)
  PROVE  /\ draw' = [draw EXCEPT !["button"] = ops]
         /\ seen' = [seen EXCEPT !.handled = Append(@, butt_event.nr),
                                !.tidy = @ /\ (ops[1] = LockOp \/ draw["gui"] = << >>)]
BY DEF Draws

LEMMA SeenDraws ==
  ASSUME ButtonTypes, NEW ops, Draws(ops)
  PROVE  /\ seen' \in SeenSet /\ (seen'.tidy => seen.tidy)
         /\ seen'.tidy => ops[1] = LockOp \/ draw["gui"] = << >>
         /\ seen'.made = seen.made /\ seen'.presses = seen.presses /\ seen'.calm = seen.calm
         /\ seen'.handled = Append(seen.handled, butt_event.nr)
<1>1. seen' = [seen EXCEPT !.handled = Append(@, butt_event.nr),
                           !.tidy = @ /\ (ops[1] = LockOp \/ draw["gui"] = << >>)]
  BY DrawsFacts
<1>2. PICK b \in BOOLEAN : b = (seen.tidy /\ (ops[1] = LockOp \/ draw["gui"] = << >>))
  OBVIOUS
<1>3. seen' = [seen EXCEPT !.handled = Append(@, butt_event.nr), !.tidy = b]
  BY <1>1, <1>2
<1>4. seen \in SeenSet /\ Append(seen.handled, butt_event.nr) \in Seq(Nat)
  BY DEF ButtonTypes, SeenSet
<1>5. /\ seen' \in SeenSet /\ seen'.tidy = b
      /\ seen'.made = seen.made /\ seen'.presses = seen.presses /\ seen'.calm = seen.calm
      /\ seen'.handled = Append(seen.handled, butt_event.nr)
  BY <1>3, <1>4 DEF SeenSet
<1> QED
  BY <1>2, <1>5

LEMMA HandleKeeps ==
  ASSUME ButtonInv, service \in {"beep", "beeps"}, service' = "draw", NEW ops, Draws(ops),
         UNCHANGED <<down, irq, button, butt_event, sem>>
  PROVE  ButtonInv'
<1>1. ButtonTypes
  BY DEF ButtonInv
<1>2. /\ seen'.made = seen.made /\ seen'.presses = seen.presses /\ seen'.calm = seen.calm
      /\ seen'.handled = Append(seen.handled, butt_event.nr)
      /\ seen' \in SeenSet
  BY <1>1, SeenDraws
<1>3. ButtonTypes'
  BY <1>1, <1>2 DEF ButtonTypes
<1>4. /\ \A i, j \in DOMAIN seen'.handled : i < j => seen'.handled[i] < seen'.handled[j]
      /\ \A i \in DOMAIN seen'.handled : seen'.handled[i] <= seen'.made
  <2> DEFINE h == seen.handled
             n == butt_event.nr
             l == Len(h)
             g == seen'.handled
  <2>1. h \in Seq(Nat) /\ n \in Nat /\ n <= seen.made
    BY <1>1 DEF ButtonInv, ButtonTypes, SeenSet
  <2>2. \A i \in 1..l : h[i] < n
    BY <2>1 DEF ButtonInv
  <2>3. /\ \A i, j \in 1..l : i < j => h[i] < h[j]
        /\ \A i \in 1..l : h[i] <= seen.made
    BY <2>1 DEF ButtonInv
  <2>4. /\ DOMAIN g = 1..(l + 1) /\ l \in Nat
        /\ g[l + 1] = n
        /\ \A i \in 1..l : g[i] = h[i]
    BY <1>2, <2>1
  <2> HIDE DEF h, n, l
  <2>6. \A i \in DOMAIN g : (i \in 1..l /\ g[i] = h[i]) \/ (i = l + 1 /\ g[i] = n)
    <3> SUFFICES ASSUME NEW i \in 1..(l + 1)
                 PROVE  (i \in 1..l /\ g[i] = h[i]) \/ (i = l + 1 /\ g[i] = n)
      BY <2>4
    <3>1. i \in 1..l \/ i = l + 1
      BY <2>4
    <3> QED
      BY <2>4, <3>1
  <2> HIDE DEF g
  <2>7. ASSUME NEW i \in DOMAIN g, NEW j \in DOMAIN g, i < j PROVE g[i] < g[j]
    <3>1. i \in 1..l /\ g[i] = h[i]
      <4> SUFFICES ASSUME i = l + 1 PROVE FALSE
        BY <2>6
      <4> QED
        BY <2>4, <2>6, <2>7
    <3> QED
      BY <2>2, <2>3, <2>6, <2>7, <3>1
  <2>8. ASSUME NEW i \in DOMAIN g PROVE g[i] <= seen'.made
    BY <1>2, <2>1, <2>3, <2>6, <2>8
  <2> QED
    BY <2>7, <2>8 DEF g
<1>5. seen.calm => seen'.made = Len(seen'.handled)
  BY <1>1, <1>2 DEF ButtonInv, ToHandle, ButtonTypes, SeenSet
<1>6. PressLeft' = PressLeft /\ ToHandle' = 0
  BY DEF PressLeft, ToHandle
<1>7. Len(seen'.handled) \in Nat
  BY <1>3 DEF ButtonTypes, SeenSet
<1>8. /\ button'.vtb => button'.vtb1
      /\ seen'.made + PressLeft' <= seen'.presses
      /\ butt_event'.nr <= seen'.made
      /\ butt_event'.kind = 0 <=> butt_event'.nr = 0
  BY <1>2, <1>6 DEF ButtonInv
<1>9. seen'.calm => ~sem' /\ seen'.made = Len(seen'.handled) + ToHandle'
  BY <1>2, <1>5, <1>6, <1>7 DEF ButtonInv
<1> QED
  BY <1>3, <1>4, <1>8, <1>9 DEF ButtonInv

LEMMA HandleShortKeeps == ButtonInv /\ HandleShort => ButtonInv'
<1> SUFFICES ASSUME ButtonInv, HandleShort PROVE ButtonInv'
  OBVIOUS
<1>1. \E ops : Draws(ops)
  BY DEF HandleShort, click_handler, menu_increment
<1> QED
  BY <1>1, HandleKeeps DEF HandleShort

LEMMA HandleLongKeeps == ButtonInv /\ HandleLong => ButtonInv'
<1> SUFFICES ASSUME ButtonInv, HandleLong PROVE ButtonInv'
  OBVIOUS
<1>1. \E ops : Draws(ops)
  BY DEF HandleLong, push_handler
<1> QED
  BY <1>1, HandleKeeps DEF HandleLong

LEMMA TestStep == ButtonInv /\ (TestShort \/ TestLong \/ Drawn) => ButtonInv'
<1> SUFFICES ASSUME ButtonInv, TestShort \/ TestLong \/ Drawn PROVE ButtonInv'
  OBVIOUS
<1>1. ButtonTypes /\ UNCHANGED <<down, irq, button, butt_event, sem, seen>>
  BY DEF ButtonInv, TestShort, TestLong, Drawn
<1>2. service' \in {"beep", "long", "beeps", "clear"}
  BY DEF TestShort, TestLong, Drawn
<1>3. ButtonTypes'
  BY <1>1, <1>2 DEF ButtonTypes
<1>4. PressLeft' = PressLeft
  BY <1>1 DEF PressLeft
<1>5. CASE TestShort
  <2>1. service = "short" /\ ToHandle' = ToHandle
    BY <1>5 DEF TestShort, ToHandle
  <2>2. /\ service' = "beep" => butt_event.nr # 0
        /\ service' = "long" /\ seen.calm => butt_event.kind = LONG
        /\ service' \in {"beep", "long"}
    BY <1>1, <1>5, <2>1 DEF TestShort, ButtonInv, ButtonTypes, SHORT, LONG
  <2> QED
    BY <1>1, <1>3, <1>4, <2>1, <2>2 DEF ButtonInv
<1>6. CASE TestLong
  <2>1. service = "long" /\ (service' = "beeps" => ToHandle' = ToHandle)
    BY <1>6 DEF TestLong, ToHandle
  <2>2. /\ service' = "beeps" => butt_event.nr # 0
        /\ service' # "beeps" => service' = "clear" /\ ~seen.calm
    BY <1>1, <1>6, <2>1 DEF TestLong, ButtonInv, ButtonTypes, SHORT, LONG
  <2> QED
    BY <1>1, <1>3, <1>4, <2>1, <2>2 DEF ButtonInv
<1>7. CASE Drawn
  <2>1. service = "draw" /\ service' = "clear" /\ ToHandle' = ToHandle
    BY <1>7 DEF Drawn, ToHandle
  <2> QED
    BY <1>1, <1>3, <1>4, <2>1 DEF ButtonInv
<1> QED
  BY <1>5, <1>6, <1>7

LEMMA AgainStep == ButtonInv /\ Again => ButtonInv'
<1> SUFFICES ASSUME ButtonInv, Again PROVE ButtonInv'
  OBVIOUS
<1>1. /\ ButtonTypes /\ UNCHANGED <<down, irq, button, seen>> /\ sem' = FALSE
      /\ butt_event' = [kind |-> 0, nr |-> 0] /\ service = "clear"
      /\ service' = IF sem THEN "short" ELSE "wait"
  BY DEF ButtonInv, Again, NoEvent
<1>2. ButtonTypes'
  BY <1>1 DEF ButtonTypes
<1>3. PressLeft' = PressLeft /\ (seen.calm => service' = "wait" /\ ToHandle' = ToHandle)
  BY <1>1 DEF PressLeft, ToHandle, ButtonInv
<1>4. butt_event'.nr = 0 /\ butt_event'.kind = 0 /\ service' \in {"short", "wait"} /\ 0 <= seen.made
  BY <1>1 DEF ButtonTypes, SeenSet
<1> QED
  BY <1>1, <1>2, <1>3, <1>4 DEF ButtonInv

LEMMA ButtonStep == ButtonInv /\ [UiNext]_ui => ButtonInv'
<1>1. ButtonInv /\ UNCHANGED <<down, irq, button, butt_event, sem, service, seen>> => ButtonInv'
  <2> SUFFICES ASSUME ButtonInv, UNCHANGED <<down, irq, button, butt_event, sem, service, seen>>
               PROVE  ButtonInv'
    OBVIOUS
  <2>1. ButtonTypes' /\ PressLeft' = PressLeft /\ ToHandle' = ToHandle
    BY DEF ButtonInv, ButtonTypes, PressLeft, ToHandle
  <2> QED
    BY <2>1 DEF ButtonInv
<1>2. UNCHANGED ui \/ (\E t \in {"button", "gui"} : Draw(t)) =>
        UNCHANGED <<down, irq, button, butt_event, sem, service, seen>>
  BY DEF ui, Draw
<1> QED
  BY <1>1, <1>2, EdgeStep, ButtonHandlerStep, BphandlerStep, HoldhandlerStep, UpdateKeeps,
     HandleShortKeeps, HandleLongKeeps, TestStep, AgainStep DEF UiNext

(* ButtonExact: however the button bounces and whenever the timers and the *)
(* button thread run, each event is handled at most once and in order, and *)
(* each takes a press of its own.                                          *)
THEOREM ButtonExactHolds == UiSpec => []ButtonExact
<1>1. ButtonInv => ButtonExact
  <2> SUFFICES ASSUME ButtonInv PROVE ButtonExact
    OBVIOUS
  <2>1. ButtonTypes /\ PressLeft \in 0..1
    BY DEF ButtonInv, PressLeft
  <2>2. seen.made <= seen.presses
    BY <2>1 DEF ButtonInv, ButtonTypes, SeenSet
  <2>3. UiIdle /\ seen.calm => Len(seen.handled) = seen.made
    BY <2>1 DEF UiIdle, ButtonInv, ButtonTypes, SeenSet, ToHandle
  <2> QED
    BY <2>2, <2>3 DEF ButtonInv, ButtonExact
<1> QED
  BY <1>1, ButtonInitHolds, ButtonStep, PTL DEF UiSpec

----------------------------------------------------------------------------
Screens == 0..(NSCREENS - 1)

\* status_screen, step by step.
StatusText(k, n) == TextOp(<<"status", k, n>>)
WaitOp == [op |-> "wait"]
FlushOp == [op |-> "flush"]
UnlockOp == [op |-> "unlock"]

\* A thread paints status screen k, and this is what the picture is by then.
Painting(t, k) ==
  \/ draw[t] = <<ClearOp, StatusText(k, 1), WaitOp, StatusText(k, 2), FlushOp, UnlockOp>>
  \/ draw[t] = <<ClearOp, StatusText(k, 1), StatusText(k, 2), FlushOp, UnlockOp>>
  \/ draw[t] = <<StatusText(k, 1), WaitOp, StatusText(k, 2), FlushOp, UnlockOp>> /\ picture = << >>
  \/ draw[t] = <<StatusText(k, 1), StatusText(k, 2), FlushOp, UnlockOp>> /\ picture = << >>
  \/ draw[t] = <<WaitOp, StatusText(k, 2), FlushOp, UnlockOp>> /\ picture = << <<"status", k, 1>> >>
  \/ draw[t] = <<StatusText(k, 2), FlushOp, UnlockOp>> /\ picture = << <<"status", k, 1>> >>
  \/ draw[t] = <<FlushOp, UnlockOp>> /\ picture = StatusPicture(k)
  \/ draw[t] = <<UnlockOp>> /\ picture = StatusPicture(k) /\ shown = StatusPicture(k)

\* The button thread draws the menu.
MenuDrawn ==
  \/ draw["button"] = <<ClearOp, TextOp(<<"menu", menu.start, menu.selection>>), FlushOp>>
  \/ /\ draw["button"] = <<TextOp(<<"menu", menu.start, menu.selection>>), FlushOp>>
     /\ picture = << >>
  \/ draw["button"] = <<FlushOp>> /\ picture = MenuPicture(menu)
  \/ draw["button"] = << >> /\ shown = MenuPicture(menu)

\* The button thread draws a status screen, or gui_thread does, or none of them.
StatusDrawn ==
  /\ \/ draw["button"] = <<ClearOp, LockOp>> /\ draw["gui"] = << >> /\ gui_mutex = "free"
     \/ draw["button"] = <<LockOp>> /\ gui_mutex # "button"
     \/ Painting("button", status_current) /\ gui_mutex = "button"
     \/ draw["button"] = << >> /\ gui_mutex # "button"
  /\ \/ draw["gui"] \in {<< >>, <<LockOp>>} /\ gui_mutex # "gui"
     \/ \E k \in Screens : /\ Painting("gui", k) /\ gui_mutex = "gui"
                           /\ draw["button"] = << >> => k = status_current
  /\ draw["button"] = << >> /\ gui_mutex # "gui" => shown = StatusPicture(status_current)

\* All visible items exist, whatever is on the display.
Steady ==
  /\ menu \in [start : Nat, selection : Nat, active : BOOLEAN] /\ status_current \in Screens
  /\ menu.start + (IF nitems < MAX_VISIBLE THEN nitems ELSE MAX_VISIBLE) <= nitems

\* One thread draws at a time, as long as the menu is not drawn over the other's picture.
Tidy ==
  /\ draw = [t \in {"button", "gui"} |-> draw[t]] /\ gui_mutex \in {"free", "button", "gui"}
  /\ service # "draw" => draw["button"] = << >>
  /\ IF menu.active THEN MenuDrawn /\ draw["gui"] = << >> /\ gui_mutex = "free"
     ELSE StatusDrawn

ScreenInv == Steady /\ (seen.tidy => Tidy)

----------------------------------------------------------------------------
\* What sequences are put together to.
LEMMA OneOne ==
  ASSUME NEW a, NEW b
  PROVE  <<a>> \o <<b>> = <<a, b>>
<1> DEFINE s == <<a>>
           t == <<b>>
           u == <<a, b>>
           S == {a, b}
<1>1. /\ s \in Seq(S) /\ t \in Seq(S) /\ u \in Seq(S)
      /\ Len(s) = 1 /\ Len(t) = 1 /\ Len(u) = 2
  OBVIOUS
<1>2. s \o t \in Seq(S) /\ Len(s \o t) = 2
  BY <1>1
<1>3. \A i \in 1..2 : (s \o t)[i] = u[i]
  <2>1. \A i \in 1..2 : (s \o t)[i] = IF i <= 1 THEN s[i] ELSE t[i - 1]
    BY <1>1
  <2>2. \A i \in 1..2 : i = 1 \/ i = 2
    OBVIOUS
  <2> QED
    BY <2>1, <2>2
<1> HIDE DEF s, t, u, S
<1> QED
  BY <1>1, <1>2, <1>3, SeqEqual DEF s, t, u

LEMMA TwoOne ==
  ASSUME NEW a, NEW b, NEW c
  PROVE  <<a, b>> \o <<c>> = <<a, b, c>>
<1> DEFINE s == <<a, b>>
           t == <<c>>
           u == <<a, b, c>>
           S == {a, b, c}
<1>1. /\ s \in Seq(S) /\ t \in Seq(S) /\ u \in Seq(S)
      /\ Len(s) = 2 /\ Len(t) = 1 /\ Len(u) = 3
  OBVIOUS
<1>2. s \o t \in Seq(S) /\ Len(s \o t) = 3
  BY <1>1
<1>3. \A i \in 1..3 : (s \o t)[i] = u[i]
  <2>1. \A i \in 1..3 : (s \o t)[i] = IF i <= 2 THEN s[i] ELSE t[i - 2]
    BY <1>1
  <2>2. \A i \in 1..3 : i = 1 \/ i = 2 \/ i = 3
    OBVIOUS
  <2> QED
    BY <2>1, <2>2
<1> HIDE DEF s, t, u, S
<1> QED
  BY <1>1, <1>2, <1>3, SeqEqual DEF s, t, u

LEMMA TwoThree ==
  ASSUME NEW a, NEW b, NEW c, NEW d, NEW e
  PROVE  <<a, b>> \o <<c, d, e>> = <<a, b, c, d, e>>
<1> DEFINE s == <<a, b>>
           t == <<c, d, e>>
           u == <<a, b, c, d, e>>
           S == {a, b, c, d, e}
<1>1. /\ s \in Seq(S) /\ t \in Seq(S) /\ u \in Seq(S)
      /\ Len(s) = 2 /\ Len(t) = 3 /\ Len(u) = 5
  OBVIOUS
<1>2. s \o t \in Seq(S) /\ Len(s \o t) = 5
  BY <1>1
<1>3. \A i \in 1..5 : (s \o t)[i] = u[i]
  <2>1. \A i \in 1..5 : (s \o t)[i] = IF i <= 2 THEN s[i] ELSE t[i - 2]
    BY <1>1
  <2>2. \A i \in 1..5 : i = 1 \/ i = 2 \/ i = 3 \/ i = 4 \/ i = 5
    OBVIOUS
  <2> QED
    BY <2>1, <2>2
<1> HIDE DEF s, t, u, S
<1> QED
  BY <1>1, <1>2, <1>3, SeqEqual DEF s, t, u

LEMMA ThreeThree ==
  ASSUME NEW a, NEW b, NEW c, NEW d, NEW e, NEW f
  PROVE  <<a, b, c>> \o <<d, e, f>> = <<a, b, c, d, e, f>>
<1> DEFINE s == <<a, b, c>>
           t == <<d, e, f>>
           u == <<a, b, c, d, e, f>>
           S == {a, b, c, d, e, f}
<1>1. /\ s \in Seq(S) /\ t \in Seq(S) /\ u \in Seq(S)
      /\ Len(s) = 3 /\ Len(t) = 3 /\ Len(u) = 6
  OBVIOUS
<1>2. s \o t \in Seq(S) /\ Len(s \o t) = 6
  BY <1>1
<1>3. \A i \in 1..6 : (s \o t)[i] = u[i]
  <2>1. \A i \in 1..6 : (s \o t)[i] = IF i <= 3 THEN s[i] ELSE t[i - 3]
    BY <1>1
  <2>2. \A i \in 1..6 : i = 1 \/ i = 2 \/ i = 3 \/ i = 4 \/ i = 5 \/ i = 6
    OBVIOUS
  <2> QED
    BY <2>1, <2>2
<1> HIDE DEF s, t, u, S
<1> QED
  BY <1>1, <1>2, <1>3, SeqEqual DEF s, t, u

LEMMA AppendOne == ASSUME NEW a, NEW b PROVE Append(<<a>>, b) = <<a, b>>
<1>1. <<a>> \in Seq({a, b}) /\ b \in {a, b}
  OBVIOUS
<1>2. Append(<<a>>, b) = <<a>> \o <<b>>
  BY <1>1, AppendIsConcat
<1> QED
  BY <1>2, OneOne

LEMMA StatusScreen ==
  ASSUME NEW k
  PROVE  status_screen(k) \o Tail(<<LockOp>>)
           \in {<<ClearOp, StatusText(k, 1), WaitOp, StatusText(k, 2), FlushOp, UnlockOp>>,
               <<ClearOp, StatusText(k, 1), StatusText(k, 2), FlushOp, UnlockOp>>}
<1> DEFINE a == ClearOp
           b == StatusText(k, 1)
           c == StatusText(k, 2)
<1>1. status_screen(k) = <<a, b>> \o (IF k \in WifiScreens THEN <<WaitOp>> ELSE << >>)
                                 \o <<c, FlushOp, UnlockOp>>
  BY DEF status_screen, WaitOp, FlushOp, UnlockOp, StatusText
<1> HIDE DEF a, b, c
<1>2. Tail(<<LockOp>>) = << >>
  OBVIOUS
<1>3. <<a, b>> \o << >> = <<a, b>>
  OBVIOUS
<1>4. /\ <<a, b>> \o <<WaitOp>> \o <<c, FlushOp, UnlockOp>> = <<a, b, WaitOp, c, FlushOp, UnlockOp>>
      /\ <<a, b>> \o << >> \o <<c, FlushOp, UnlockOp>> = <<a, b, c, FlushOp, UnlockOp>>
  <2>1. <<a, b>> \o <<WaitOp>> = <<a, b, WaitOp>>
    BY TwoOne
  <2>2. <<a, b, WaitOp>> \o <<c, FlushOp, UnlockOp>> = <<a, b, WaitOp, c, FlushOp, UnlockOp>>
    BY ThreeThree
  <2>3. <<a, b>> \o <<c, FlushOp, UnlockOp>> = <<a, b, c, FlushOp, UnlockOp>>
    BY TwoThree
  <2> QED
    BY <1>3, <2>1, <2>2, <2>3, Zenon
<1>5. /\ <<a, b, WaitOp, c, FlushOp, UnlockOp>> \o << >> = <<a, b, WaitOp, c, FlushOp, UnlockOp>>
      /\ <<a, b, c, FlushOp, UnlockOp>> \o << >> = <<a, b, c, FlushOp, UnlockOp>>
  OBVIOUS
<1> QED
  BY <1>1, <1>2, <1>4, <1>5 DEF a, b, c

\* The steps differ.
LEMMA OpFacts ==
  ASSUME NEW what
  PROVE  /\ ClearOp.op = "clear" /\ TextOp(what).op = "text" /\ TextOp(what).what = what
         /\ LockOp.op = "lock" /\ WaitOp.op = "wait" /\ FlushOp.op = "flush"
         /\ UnlockOp.op = "unlock" /\ ClearOp # LockOp
BY DEF ClearOp, TextOp, LockOp, WaitOp, FlushOp, UnlockOp

\* One step of a thread that draws.
LEMMA DrawStep ==
  ASSUME NEW t \in {"button", "gui"}, Draw(t), draw = [u \in {"button", "gui"} |-> draw[u]]
  PROVE  /\ draw[t] # << >> /\ MayDraw(t) /\ UNCHANGED <<service, status_current, menu, seen>>
         /\ draw' = [u \in {"button", "gui"} |-> draw'[u]]
         /\ \A u \in {"button", "gui"} : u # t => draw'[u] = draw[u]
         /\ Head(draw[t]).op = "lock" =>
              /\ gui_mutex = "free" /\ gui_mutex' = t /\ UNCHANGED <<picture, shown>>
              /\ draw'[t] = status_screen(status_current) \o Tail(draw[t])
         /\ Head(draw[t]).op # "lock" => draw'[t] = Tail(draw[t])
         /\ Head(draw[t]).op = "unlock" => gui_mutex' = "free" /\ UNCHANGED <<picture, shown>>
         /\ Head(draw[t]).op = "clear" => picture' = << >> /\ UNCHANGED <<gui_mutex, shown>>
         /\ Head(draw[t]).op = "text" =>
              picture' = Append(picture, Head(draw[t]).what) /\ UNCHANGED <<gui_mutex, shown>>
         /\ Head(draw[t]).op = "flush" => shown' = picture /\ UNCHANGED <<gui_mutex, picture>>
         /\ Head(draw[t]).op = "wait" => UNCHANGED <<gui_mutex, picture, shown>>
<1>1. /\ draw[t] # << >> /\ MayDraw(t) /\ UNCHANGED <<service, status_current, menu, seen>>
  BY DEF Draw
<1> DEFINE s == Head(draw[t])
<1>2. \/ /\ s.op = "lock" /\ gui_mutex = "free" /\ gui_mutex' = t
         /\ draw' = [draw EXCEPT ![t] = status_screen(status_current) \o Tail(@)]
         /\ UNCHANGED <<picture, shown>>
      \/ /\ s.op = "unlock" /\ gui_mutex' = "free"
         /\ draw' = [draw EXCEPT ![t] = Tail(@)] /\ UNCHANGED <<picture, shown>>
      \/ /\ s.op \in {"clear", "text"}
         /\ picture' = IF s.op = "clear" THEN << >> ELSE Append(picture, s.what)
         /\ draw' = [draw EXCEPT ![t] = Tail(@)] /\ UNCHANGED <<gui_mutex, shown>>
      \/ /\ s.op = "flush" /\ shown' = picture
         /\ draw' = [draw EXCEPT ![t] = Tail(@)] /\ UNCHANGED <<gui_mutex, picture>>
      \/ /\ s.op = "wait"
         /\ draw' = [draw EXCEPT ![t] = Tail(@)] /\ UNCHANGED <<gui_mutex, picture, shown>>
  BY DEF Draw
<1> HIDE DEF s
<1>3. \/ draw' = [draw EXCEPT ![t] = status_screen(status_current) \o Tail(@)] /\ s.op = "lock"
      \/ draw' = [draw EXCEPT ![t] = Tail(@)] /\ s.op # "lock"
  BY <1>2
<1>4. /\ draw' = [u \in {"button", "gui"} |-> draw'[u]]
      /\ \A u \in {"button", "gui"} : u # t => draw'[u] = draw[u]
      /\ s.op = "lock" => draw'[t] = status_screen(status_current) \o Tail(draw[t])
      /\ s.op # "lock" => draw'[t] = Tail(draw[t])
  BY <1>3
<1> QED
  BY <1>1, <1>2, <1>4 DEF s

\* A status screen that is being painted is painted further, until it is shown.
LEMMA PaintStep ==
  ASSUME NEW t \in {"button", "gui"}, Draw(t), draw = [u \in {"button", "gui"} |-> draw[u]],
         NEW k, Painting(t, k)
  PROVE  \/ Painting(t, k)' /\ gui_mutex' = gui_mutex
         \/ draw'[t] = << >> /\ gui_mutex' = "free" /\ shown' = StatusPicture(k)
<1> DEFINE T1 == StatusText(k, 1)
           T2 == StatusText(k, 2)
<1>0. /\ T1.op = "text" /\ T1.what = <<"status", k, 1>>
      /\ T2.op = "text" /\ T2.what = <<"status", k, 2>>
  BY OpFacts DEF StatusText
<1>a. /\ Append(<< >>, <<"status", k, 1>>) = << <<"status", k, 1>> >>
      /\ Append(<< <<"status", k, 1>> >>, <<"status", k, 2>>) = StatusPicture(k)
  BY AppendOne DEF StatusPicture
<1>b. /\ ClearOp.op = "clear" /\ WaitOp.op = "wait" /\ FlushOp.op = "flush" /\ UnlockOp.op = "unlock"
  BY OpFacts
<1>p. Painting(t, k)' <=>
        \/ draw'[t] = <<ClearOp, T1, WaitOp, T2, FlushOp, UnlockOp>>
        \/ draw'[t] = <<ClearOp, T1, T2, FlushOp, UnlockOp>>
        \/ draw'[t] = <<T1, WaitOp, T2, FlushOp, UnlockOp>> /\ picture' = << >>
        \/ draw'[t] = <<T1, T2, FlushOp, UnlockOp>> /\ picture' = << >>
        \/ draw'[t] = <<WaitOp, T2, FlushOp, UnlockOp>> /\ picture' = << <<"status", k, 1>> >>
        \/ draw'[t] = <<T2, FlushOp, UnlockOp>> /\ picture' = << <<"status", k, 1>> >>
        \/ draw'[t] = <<FlushOp, UnlockOp>> /\ picture' = StatusPicture(k)
        \/ draw'[t] = <<UnlockOp>> /\ picture' = StatusPicture(k) /\ shown' = StatusPicture(k)
  BY DEF Painting, StatusPicture, StatusText, ClearOp, WaitOp, FlushOp, UnlockOp, TextOp
<1>d. /\ Head(draw[t]).op # "lock" => draw'[t] = Tail(draw[t])
      /\ Head(draw[t]).op = "unlock" => gui_mutex' = "free" /\ UNCHANGED <<picture, shown>>
      /\ Head(draw[t]).op = "clear" => picture' = << >> /\ UNCHANGED <<gui_mutex, shown>>
      /\ Head(draw[t]).op = "text" =>
           picture' = Append(picture, Head(draw[t]).what) /\ UNCHANGED <<gui_mutex, shown>>
      /\ Head(draw[t]).op = "flush" => shown' = picture /\ UNCHANGED <<gui_mutex, picture>>
      /\ Head(draw[t]).op = "wait" => UNCHANGED <<gui_mutex, picture, shown>>
  BY DrawStep
<1>e. StatusPicture(k)' = StatusPicture(k)
  BY DEF StatusPicture
<1> HIDE DEF T1, T2
<1>1. CASE draw[t] = <<ClearOp, T1, WaitOp, T2, FlushOp, UnlockOp>>
  <2>1. Head(draw[t]) = ClearOp /\ Tail(draw[t]) = <<T1, WaitOp, T2, FlushOp, UnlockOp>>
    <3>1. /\ Head(<<ClearOp, T1, WaitOp, T2, FlushOp, UnlockOp>>) = ClearOp
          /\ Tail(<<ClearOp, T1, WaitOp, T2, FlushOp, UnlockOp>>) = <<T1, WaitOp, T2, FlushOp, UnlockOp>>
      OBVIOUS
    <3> QED
      BY <1>1, <3>1, Zenon
  <2>2. draw'[t] = <<T1, WaitOp, T2, FlushOp, UnlockOp>> /\ gui_mutex' = gui_mutex /\ picture' = << >>
    BY <1>1, <1>b, <1>d, <2>1
  <2> QED
    BY <1>1, <1>p, <2>2, Zenon
<1>2. CASE draw[t] = <<ClearOp, T1, T2, FlushOp, UnlockOp>>
  <2>1. Head(draw[t]) = ClearOp /\ Tail(draw[t]) = <<T1, T2, FlushOp, UnlockOp>>
    <3>1. /\ Head(<<ClearOp, T1, T2, FlushOp, UnlockOp>>) = ClearOp
          /\ Tail(<<ClearOp, T1, T2, FlushOp, UnlockOp>>) = <<T1, T2, FlushOp, UnlockOp>>
      OBVIOUS
    <3> QED
      BY <1>2, <3>1, Zenon
  <2>2. draw'[t] = <<T1, T2, FlushOp, UnlockOp>> /\ gui_mutex' = gui_mutex /\ picture' = << >>
    BY <1>2, <1>b, <1>d, <2>1
  <2> QED
    BY <1>2, <1>p, <2>2, Zenon
<1>3. CASE draw[t] = <<T1, WaitOp, T2, FlushOp, UnlockOp>> /\ picture = << >>
  <2>1. Head(draw[t]) = T1 /\ Tail(draw[t]) = <<WaitOp, T2, FlushOp, UnlockOp>>
    <3>1. /\ Head(<<T1, WaitOp, T2, FlushOp, UnlockOp>>) = T1
          /\ Tail(<<T1, WaitOp, T2, FlushOp, UnlockOp>>) = <<WaitOp, T2, FlushOp, UnlockOp>>
      OBVIOUS
    <3> QED
      BY <1>3, <3>1, Zenon
  <2>2. draw'[t] = <<WaitOp, T2, FlushOp, UnlockOp>> /\ gui_mutex' = gui_mutex /\ picture' = << <<"status", k, 1>> >>
    BY <1>3, <1>0, <1>a, <1>d, <2>1
  <2> QED
    BY <1>3, <1>p, <2>2, Zenon
<1>4. CASE draw[t] = <<T1, T2, FlushOp, UnlockOp>> /\ picture = << >>
  <2>1. Head(draw[t]) = T1 /\ Tail(draw[t]) = <<T2, FlushOp, UnlockOp>>
    <3>1. /\ Head(<<T1, T2, FlushOp, UnlockOp>>) = T1
          /\ Tail(<<T1, T2, FlushOp, UnlockOp>>) = <<T2, FlushOp, UnlockOp>>
      OBVIOUS
    <3> QED
      BY <1>4, <3>1, Zenon
  <2>2. draw'[t] = <<T2, FlushOp, UnlockOp>> /\ gui_mutex' = gui_mutex /\ picture' = << <<"status", k, 1>> >>
    BY <1>4, <1>0, <1>a, <1>d, <2>1
  <2> QED
    BY <1>4, <1>p, <2>2, Zenon
<1>5. CASE draw[t] = <<WaitOp, T2, FlushOp, UnlockOp>> /\ picture = << <<"status", k, 1>> >>
  <2>1. Head(draw[t]) = WaitOp /\ Tail(draw[t]) = <<T2, FlushOp, UnlockOp>>
    <3>1. /\ Head(<<WaitOp, T2, FlushOp, UnlockOp>>) = WaitOp
          /\ Tail(<<WaitOp, T2, FlushOp, UnlockOp>>) = <<T2, FlushOp, UnlockOp>>
      OBVIOUS
    <3> QED
      BY <1>5, <3>1, Zenon
  <2>2. draw'[t] = <<T2, FlushOp, UnlockOp>> /\ gui_mutex' = gui_mutex /\ picture' = picture
    BY <1>5, <1>b, <1>d, <2>1
  <2> QED
    BY <1>5, <1>p, <2>2, Zenon
<1>6. CASE draw[t] = <<T2, FlushOp, UnlockOp>> /\ picture = << <<"status", k, 1>> >>
  <2>1. Head(draw[t]) = T2 /\ Tail(draw[t]) = <<FlushOp, UnlockOp>>
    <3>1. /\ Head(<<T2, FlushOp, UnlockOp>>) = T2
          /\ Tail(<<T2, FlushOp, UnlockOp>>) = <<FlushOp, UnlockOp>>
      OBVIOUS
    <3> QED
      BY <1>6, <3>1, Zenon
  <2>2. draw'[t] = <<FlushOp, UnlockOp>> /\ gui_mutex' = gui_mutex /\ picture' = StatusPicture(k)
    BY <1>6, <1>0, <1>a, <1>d, <2>1
  <2> QED
    BY <1>6, <1>p, <2>2, Zenon
<1>7. CASE draw[t] = <<FlushOp, UnlockOp>> /\ picture = StatusPicture(k)
  <2>1. Head(draw[t]) = FlushOp /\ Tail(draw[t]) = <<UnlockOp>>
    <3>1. /\ Head(<<FlushOp, UnlockOp>>) = FlushOp
          /\ Tail(<<FlushOp, UnlockOp>>) = <<UnlockOp>>
      OBVIOUS
    <3> QED
      BY <1>7, <3>1, Zenon
  <2>2. draw'[t] = <<UnlockOp>> /\ gui_mutex' = gui_mutex /\ picture' = picture /\ shown' = picture
    BY <1>7, <1>b, <1>d, <2>1
  <2> QED
    BY <1>7, <1>p, <2>2, Zenon
<1>8. CASE draw[t] = <<UnlockOp>> /\ picture = StatusPicture(k) /\ shown = StatusPicture(k)
  <2>1. Head(draw[t]) = UnlockOp /\ Tail(draw[t]) = << >>
    <3>1. /\ Head(<<UnlockOp>>) = UnlockOp
          /\ Tail(<<UnlockOp>>) = << >>
      OBVIOUS
    <3> QED
      BY <1>8, <3>1, Zenon
  <2>2. draw'[t] = << >> /\ gui_mutex' = "free" /\ shown' = StatusPicture(k)
    BY <1>8, <1>b, <1>d, <2>1
  <2> QED
    BY <1>8, <1>p, <2>2, Zenon
<1> QED
  BY <1>1, <1>2, <1>3, <1>4, <1>5, <1>6, <1>7, <1>8 DEF Painting, T1, T2

LEMMA ScreenInitHolds == UiInit => ScreenInv
<1> SUFFICES ASSUME UiInit PROVE ScreenInv
  OBVIOUS
<1>1. /\ status_current = 0 /\ service = "wait" /\ gui_mutex = "free"
      /\ menu = [start |-> 0, selection |-> 0, active |-> FALSE]
      /\ draw = [t \in {"button", "gui"} |-> << >>]
      /\ shown = StatusPicture(0)
  BY DEF UiInit, StatusPicture
<1>2. Steady
  <2>2. 0 \in Screens /\ 0 + (IF nitems < MAX_VISIBLE THEN nitems ELSE MAX_VISIBLE) <= nitems
    BY UiAssumption DEF Screens
  <2> QED
    BY <1>1, <2>2 DEF Steady
<1>3. draw["button"] = << >> /\ draw["gui"] = << >> /\ draw = [t \in {"button", "gui"} |-> draw[t]]
  BY <1>1
<1>4. StatusDrawn
  BY <1>1, <1>3 DEF StatusDrawn
<1>5. Tidy
  BY <1>1, <1>3, <1>4 DEF Tidy
<1> QED
  BY <1>2, <1>5 DEF ScreenInv

\* Steps that neither draw nor choose what is drawn.
LEMMA ScreenKept ==
  ASSUME ScreenInv, UNCHANGED screen, seen'.tidy = seen.tidy,
         service = "draw" => service' = "draw" \/ draw["button"] = << >>
  PROVE  ScreenInv'
<1>1. UNCHANGED <<status_current, menu, draw, gui_mutex, picture, shown>>
  BY DEF screen
<1>2. Steady'
  BY <1>1 DEF Steady, ScreenInv
<1>3. (MenuDrawn <=> MenuDrawn') /\ (StatusDrawn <=> StatusDrawn')
  <2>1. \A t, k : Painting(t, k) <=> Painting(t, k)'
    BY <1>1 DEF Painting, StatusPicture, StatusText, TextOp, ClearOp, WaitOp, FlushOp, UnlockOp
  <2>2. \A k : StatusPicture(k)' = StatusPicture(k)
    BY DEF StatusPicture
  <2> QED
    BY <1>1, <2>1, <2>2 DEF MenuDrawn, StatusDrawn, MenuPicture, ClearOp, TextOp, FlushOp, LockOp, Screens
<1>4. seen.tidy => Tidy'
  BY <1>1, <1>3 DEF Tidy, ScreenInv
<1> QED
  BY <1>2, <1>4 DEF ScreenInv

LEMMA ButtonDraws == ScreenInv /\ Draw("button") => ScreenInv'
<1> SUFFICES ASSUME ScreenInv, Draw("button") PROVE ScreenInv'
  OBVIOUS
<1>1. Steady' /\ seen' = seen
  BY DEF Draw, Steady, ScreenInv
<1>2. ASSUME seen.tidy PROVE Tidy'
  <2>0. Tidy
    BY <1>2 DEF ScreenInv
  <2> DEFINE h == Head(draw["button"])
  <2>1. /\ draw["button"] # << >> /\ UNCHANGED <<service, status_current, menu>>
        /\ draw' = [u \in {"button", "gui"} |-> draw'[u]]
        /\ draw'["gui"] = draw["gui"]
        /\ h.op = "lock" =>
             /\ gui_mutex = "free" /\ gui_mutex' = "button" /\ UNCHANGED <<picture, shown>>
             /\ draw'["button"] = status_screen(status_current) \o Tail(draw["button"])
        /\ h.op # "lock" => draw'["button"] = Tail(draw["button"])
        /\ h.op = "clear" => picture' = << >> /\ UNCHANGED <<gui_mutex, shown>>
        /\ h.op = "text" => picture' = Append(picture, h.what) /\ UNCHANGED <<gui_mutex, shown>>
        /\ h.op = "flush" => shown' = picture /\ UNCHANGED <<gui_mutex, picture>>
    BY <2>0, DrawStep DEF Tidy
  <2>2. service' = "draw"
    BY <2>0, <2>1 DEF Tidy
  <2> HIDE DEF h
  <2>3. CASE menu.active
    <3> DEFINE w == <<"menu", menu.start, menu.selection>>
               T == TextOp(w)
    <3>1. MenuDrawn /\ draw["gui"] = << >> /\ gui_mutex = "free"
      BY <2>0, <2>3 DEF Tidy
    <3>2. T.op = "text" /\ T.what = w /\ ClearOp.op = "clear" /\ FlushOp.op = "flush"
      BY OpFacts
    <3>3. MenuPicture(menu) = <<w>> /\ Append(<< >>, w) = <<w>>
      BY DEF MenuPicture
    <3>4. MenuDrawn' <=> \/ draw'["button"] = <<ClearOp, T, FlushOp>>
                         \/ draw'["button"] = <<T, FlushOp>> /\ picture' = << >>
                         \/ draw'["button"] = <<FlushOp>> /\ picture' = <<w>>
                         \/ draw'["button"] = << >> /\ shown' = <<w>>
      BY <2>1 DEF MenuDrawn, MenuPicture, ClearOp, TextOp, FlushOp
    <3> HIDE DEF w, T
    <3>5. ASSUME draw["button"] = <<ClearOp, T, FlushOp>>
          PROVE  MenuDrawn' /\ gui_mutex' = "free"
      <4>1. Head(<<ClearOp, T, FlushOp>>) = ClearOp /\ Tail(<<ClearOp, T, FlushOp>>) = <<T, FlushOp>>
        OBVIOUS
      <4>2. h = ClearOp /\ Tail(draw["button"]) = <<T, FlushOp>>
        BY <3>5, <4>1, Zenon DEF h
      <4>3. draw'["button"] = <<T, FlushOp>> /\ picture' = << >> /\ gui_mutex' = "free"
        BY <2>1, <3>1, <3>2, <4>2
      <4> QED
        BY <3>4, <4>3, Zenon
    <3>6. ASSUME draw["button"] = <<T, FlushOp>> /\ picture = << >>
          PROVE  MenuDrawn' /\ gui_mutex' = "free"
      <4>1. Head(<<T, FlushOp>>) = T /\ Tail(<<T, FlushOp>>) = <<FlushOp>>
        OBVIOUS
      <4>2. h = T /\ Tail(draw["button"]) = <<FlushOp>>
        BY <3>6, <4>1, Zenon DEF h
      <4>3. draw'["button"] = <<FlushOp>> /\ picture' = <<w>> /\ gui_mutex' = "free"
        BY <2>1, <3>1, <3>2, <3>3, <3>6, <4>2
      <4> QED
        BY <3>4, <4>3, Zenon
    <3>7. ASSUME draw["button"] = <<FlushOp>> /\ picture = MenuPicture(menu)
          PROVE  MenuDrawn' /\ gui_mutex' = "free"
      <4>1. Head(<<FlushOp>>) = FlushOp /\ Tail(<<FlushOp>>) = << >>
        OBVIOUS
      <4>2. h = FlushOp /\ Tail(draw["button"]) = << >>
        BY <3>7, <4>1, Zenon DEF h
      <4>3. draw'["button"] = << >> /\ shown' = <<w>> /\ gui_mutex' = "free"
        BY <2>1, <3>1, <3>2, <3>3, <3>7, <4>2
      <4> QED
        BY <3>4, <4>3, Zenon
    <3>8. MenuDrawn' /\ gui_mutex' = "free"
      BY <2>1, <3>1, <3>5, <3>6, <3>7 DEF MenuDrawn, T, w
    <3> QED
      BY <2>1, <2>2, <2>3, <3>1, <3>8 DEF Tidy
  <2>4. CASE ~menu.active
    <3>0. StatusDrawn
      BY <2>0, <2>4 DEF Tidy
    <3>1. CASE draw["button"] = <<ClearOp, LockOp>> /\ draw["gui"] = << >> /\ gui_mutex = "free"
      <4>1. Head(<<ClearOp, LockOp>>) = ClearOp /\ Tail(<<ClearOp, LockOp>>) = <<LockOp>>
        OBVIOUS
      <4>2. h = ClearOp /\ Tail(draw["button"]) = <<LockOp>>
        BY <3>1, <4>1, Zenon DEF h
      <4>3. draw'["button"] = <<LockOp>> /\ gui_mutex' = "free" /\ draw'["gui"] = << >>
        BY <2>1, <3>1, <4>2, OpFacts
      <4>4. StatusDrawn'
        BY <4>3 DEF StatusDrawn, LockOp
      <4> QED
        BY <2>1, <2>2, <2>4, <4>3, <4>4 DEF Tidy
    <3>2. CASE draw["button"] = <<LockOp>>
      <4>1. Head(<<LockOp>>) = LockOp
        OBVIOUS
      <4>2. h = LockOp
        BY <3>2, <4>1, Zenon DEF h
      <4>3. /\ gui_mutex = "free" /\ gui_mutex' = "button" /\ UNCHANGED <<picture, shown>>
            /\ draw'["button"] = status_screen(status_current) \o Tail(<<LockOp>>)
        BY <2>1, <3>2, <4>2, OpFacts
      <4>4. draw["gui"] \in {<< >>, <<LockOp>>}
        BY <3>0, <4>3 DEF StatusDrawn
      <4>5. Painting("button", status_current)'
        <5>1. draw'["button"] \in
                {<<ClearOp, StatusText(status_current, 1), WaitOp, StatusText(status_current, 2),
                   FlushOp, UnlockOp>>,
                 <<ClearOp, StatusText(status_current, 1), StatusText(status_current, 2),
                   FlushOp, UnlockOp>>}
          BY <4>3, StatusScreen
        <5> QED
          BY <2>1, <5>1 DEF Painting, StatusText, TextOp, ClearOp, WaitOp, FlushOp, UnlockOp
      <4>6. draw'["button"] # << >>
        BY <4>5 DEF Painting
      <4>7. StatusDrawn'
        BY <2>1, <4>3, <4>4, <4>5, <4>6 DEF StatusDrawn, LockOp
      <4> QED
        BY <2>1, <2>2, <2>4, <4>3, <4>7 DEF Tidy
    <3>3. CASE Painting("button", status_current) /\ gui_mutex = "button"
      <4>1. \/ Painting("button", status_current)' /\ gui_mutex' = "button"
            \/ /\ draw'["button"] = << >> /\ gui_mutex' = "free"
               /\ shown' = StatusPicture(status_current)
        <5>1. ASSUME NEW k, k = status_current
              PROVE  \/ Painting("button", k)' /\ gui_mutex' = "button"
                     \/ draw'["button"] = << >> /\ gui_mutex' = "free" /\ shown' = StatusPicture(k)
          BY <2>0, <3>3, <5>1, PaintStep DEF Tidy
        <5>2. ASSUME NEW k, k = status_current
              PROVE  Painting("button", k)' <=> Painting("button", status_current)'
          BY <2>1, <5>2 DEF Painting, StatusText, TextOp, StatusPicture
        <5> QED
          BY <5>1, <5>2
      <4>2. draw["gui"] \in {<< >>, <<LockOp>>}
        BY <3>0, <3>3 DEF StatusDrawn
      <4>3. Painting("button", status_current)' => draw'["button"] # << >>
        BY DEF Painting
      <4>4. StatusPicture(status_current)' = StatusPicture(status_current)
        BY <2>1 DEF StatusPicture
      <4>5. StatusDrawn'
        BY <2>1, <4>1, <4>2, <4>3, <4>4 DEF StatusDrawn, LockOp
      <4> QED
        BY <2>1, <2>2, <2>4, <4>1, <4>5 DEF Tidy
    <3> QED
      BY <2>1, <3>0, <3>1, <3>2, <3>3 DEF StatusDrawn
  <2> QED
    BY <2>3, <2>4
<1> QED
  BY <1>1, <1>2 DEF ScreenInv

LEMMA GuiDraws == ScreenInv /\ Draw("gui") => ScreenInv'
<1> SUFFICES ASSUME ScreenInv, Draw("gui") PROVE ScreenInv'
  OBVIOUS
<1>1. Steady' /\ seen' = seen
  BY DEF Draw, Steady, ScreenInv
<1>2. ASSUME seen.tidy PROVE Tidy'
  <2>0. Tidy
    BY <1>2 DEF ScreenInv
  <2> DEFINE h == Head(draw["gui"])
  <2>1. /\ draw["gui"] # << >> /\ UNCHANGED <<service, status_current, menu>>
        /\ draw' = [u \in {"button", "gui"} |-> draw'[u]]
        /\ draw'["button"] = draw["button"]
        /\ h.op = "lock" =>
             /\ gui_mutex = "free" /\ gui_mutex' = "gui" /\ UNCHANGED <<picture, shown>>
             /\ draw'["gui"] = status_screen(status_current) \o Tail(draw["gui"])
    BY <2>0, DrawStep DEF Tidy
  <2> HIDE DEF h
  <2>2. ~menu.active /\ StatusDrawn
    BY <2>0, <2>1 DEF Tidy
  <2>3. /\ ~menu.active'
        /\ service' # "draw" => draw'["button"] = << >>
    BY <2>0, <2>1, <2>2 DEF Tidy
  <2>4. CASE draw["gui"] = <<LockOp>> /\ gui_mutex # "gui"
    <3>1. Head(<<LockOp>>) = LockOp /\ <<LockOp>> # << >>
      OBVIOUS
    <3>2. h = LockOp
      BY <2>4, <3>1, Zenon DEF h
    <3>3. /\ gui_mutex = "free" /\ gui_mutex' = "gui" /\ UNCHANGED <<picture, shown>>
          /\ draw'["gui"] = status_screen(status_current) \o Tail(<<LockOp>>)
      BY <2>1, <2>4, <3>2, OpFacts
    <3>4. draw["button"] \in {<< >>, <<LockOp>>}
      BY <2>2, <2>4, <3>1, <3>3 DEF StatusDrawn
    <3>5. Painting("gui", status_current)'
      <4>1. draw'["gui"] \in
              {<<ClearOp, StatusText(status_current, 1), WaitOp, StatusText(status_current, 2),
                 FlushOp, UnlockOp>>,
               <<ClearOp, StatusText(status_current, 1), StatusText(status_current, 2),
                 FlushOp, UnlockOp>>}
        BY <3>3, StatusScreen
      <4> QED
        BY <2>1, <4>1 DEF Painting, StatusText, TextOp, ClearOp, WaitOp, FlushOp, UnlockOp
    <3>6. status_current \in Screens
      BY DEF ScreenInv, Steady
    <3>7. \E k \in Screens : Painting("gui", k)' /\ k = status_current'
      <4>1. ASSUME NEW k, k = status_current PROVE Painting("gui", k)'
        BY <2>1, <3>5, <4>1 DEF Painting, StatusText, TextOp, StatusPicture
      <4> QED
        BY <2>1, <3>6, <4>1
    <3>8. StatusDrawn'
      BY <2>1, <3>3, <3>4, <3>7 DEF StatusDrawn, LockOp, Screens
    <3> QED
      BY <2>1, <2>3, <3>3, <3>8 DEF Tidy
  <2>5. ASSUME NEW k \in Screens, Painting("gui", k), gui_mutex = "gui",
               draw["button"] = << >> => k = status_current
        PROVE  Tidy'
    <3>1. \/ Painting("gui", k)' /\ gui_mutex' = "gui"
          \/ draw'["gui"] = << >> /\ gui_mutex' = "free" /\ shown' = StatusPicture(k)
      BY <2>0, <2>5, PaintStep DEF Tidy
    <3>2. draw["gui"] # << >>
      BY <2>1
    <3>3. draw["button"] \in {<< >>, <<LockOp>>}
      BY <2>2, <2>5, <3>2 DEF StatusDrawn
    <3>4. StatusPicture(status_current)' = StatusPicture(status_current)
      BY <2>1 DEF StatusPicture
    <3>5. CASE Painting("gui", k)' /\ gui_mutex' = "gui"
      <4>1. StatusDrawn'
        BY <2>1, <2>5, <3>3, <3>5 DEF StatusDrawn, LockOp, Screens
      <4> QED
        BY <2>1, <2>3, <3>5, <4>1 DEF Tidy
    <3>6. CASE draw'["gui"] = << >> /\ gui_mutex' = "free" /\ shown' = StatusPicture(k)
      <4>1. StatusDrawn'
        BY <2>1, <2>5, <3>3, <3>4, <3>6 DEF StatusDrawn, LockOp
      <4> QED
        BY <2>1, <2>3, <3>6, <4>1 DEF Tidy
    <3> QED
      BY <3>1, <3>5, <3>6
  <2> QED
    BY <2>1, <2>2, <2>4, <2>5 DEF StatusDrawn
<1> QED
  BY <1>1, <1>2 DEF ScreenInv

LEMMA UpdateStep == ButtonTypes /\ ScreenInv /\ Update => ScreenInv'
<1> SUFFICES ASSUME ButtonTypes, ScreenInv, Update PROVE ScreenInv'
  OBVIOUS
<1>0. /\ seen' = [seen EXCEPT !.updates = @ + 1] /\ MayDraw("gui") /\ draw["gui"] = << >>
      /\ draw' = [draw EXCEPT !["gui"] = IF menu.active THEN << >> ELSE status_show]
      /\ UNCHANGED <<service, status_current, menu, gui_mutex, picture, shown>>
  BY DEF Update
<1>1. seen'.tidy = seen.tidy
  BY <1>0 DEF ButtonTypes, SeenSet
<1>2. Steady'
  BY <1>0, <1>1 DEF ScreenInv, Steady
<1>3. ASSUME seen.tidy PROVE Tidy'
  <2>0. Tidy
    BY <1>3 DEF ScreenInv
  <2>1. /\ draw' = [u \in {"button", "gui"} |-> draw'[u]] /\ draw'["button"] = draw["button"]
        /\ draw'["gui"] = IF menu.active THEN << >> ELSE <<LockOp>>
    BY <1>0, <2>0 DEF Tidy, status_show
  <2>2. CASE menu.active
    <3>1. MenuDrawn' <=> MenuDrawn
      BY <1>0, <2>1 DEF MenuDrawn, MenuPicture, ClearOp, TextOp, FlushOp
    <3> QED
      BY <1>0, <2>0, <2>1, <2>2, <3>1 DEF Tidy
  <2>3. CASE ~menu.active
    <3>0. StatusDrawn
      BY <2>0, <2>3 DEF Tidy
    <3>1. draw["button"] # <<ClearOp, LockOp>>
      <4> SUFFICES ASSUME draw["button"] = <<ClearOp, LockOp>> PROVE FALSE
        OBVIOUS
      <4>1. <<ClearOp, LockOp>> # << >> /\ Head(<<ClearOp, LockOp>>) = ClearOp
        OBVIOUS
      <4>2. Head(draw["button"]).op = "clear"
        BY <4>1, OpFacts, Zenon
      <4>3. service = "draw"
        BY <2>0, <4>1 DEF Tidy
      <4> QED
        BY <1>0, <4>2, <4>3 DEF MayDraw, Waits
    <3>2. gui_mutex # "gui"
      <4>1. \A k : ~ Painting("gui", k)
        BY <1>0 DEF Painting
      <4> QED
        BY <3>0, <4>1 DEF StatusDrawn
    <3>3. Painting("button", status_current)' <=> Painting("button", status_current)
      BY <1>0, <2>1 DEF Painting, StatusPicture, StatusText, TextOp, ClearOp, WaitOp, FlushOp, UnlockOp
    <3>4. StatusPicture(status_current)' = StatusPicture(status_current)
      BY <1>0 DEF StatusPicture
    <3>5. StatusDrawn'
      BY <1>0, <2>1, <2>3, <3>0, <3>1, <3>2, <3>3, <3>4 DEF StatusDrawn, LockOp
    <3> QED
      BY <1>0, <2>0, <2>1, <2>3, <3>5 DEF Tidy
  <2> QED
    BY <2>2, <2>3
<1> QED
  BY <1>1, <1>2, <1>3 DEF ScreenInv

\* The menu goes: the screen is cleared, and drawn as soon as it can be.
LEMMA MenuEnds ==
  ASSUME ButtonTypes, ScreenInv, menu.active, menu' = [menu EXCEPT !.active = FALSE],
         Draws(menu_end), service' = "draw", UNCHANGED <<status_current, gui_mutex, picture, shown>>
  PROVE  ScreenInv'
<1>1. /\ menu'.start = menu.start /\ ~menu'.active
      /\ menu' \in [start : Nat, selection : Nat, active : BOOLEAN]
  BY DEF ScreenInv, Steady
<1>2. seen'.tidy => seen.tidy
  BY SeenDraws
<1>3. Steady'
  BY <1>1, <1>2 DEF ScreenInv, Steady, Screens
<1>4. ASSUME seen.tidy PROVE Tidy'
  <2>0. Tidy
    BY <1>4 DEF ScreenInv
  <2>1. menu_end = <<ClearOp, LockOp>>
    BY OneOne DEF menu_end, status_show
  <2>2. draw' = [draw EXCEPT !["button"] = <<ClearOp, LockOp>>]
    BY <2>1, DrawsFacts
  <2>3. /\ draw' = [u \in {"button", "gui"} |-> draw'[u]] /\ draw'["gui"] = draw["gui"]
        /\ draw'["button"] = <<ClearOp, LockOp>>
    BY <2>0, <2>2 DEF Tidy
  <2>4. draw["gui"] = << >> /\ gui_mutex = "free"
    BY <2>0 DEF Tidy
  <2>5. StatusDrawn'
    BY <2>3, <2>4 DEF StatusDrawn, LockOp, ClearOp
  <2> QED
    BY <1>1, <2>3, <2>4, <2>5 DEF Tidy
<1> QED
  BY <1>2, <1>3, <1>4 DEF ScreenInv

\* The menu is drawn.
LEMMA MenuShows ==
  ASSUME ButtonTypes, ScreenInv, Draws(menu_show(menu')), service' = "draw",
         menu' \in [start : Nat, selection : Nat, active : BOOLEAN], menu'.active,
         menu'.start + (IF nitems < MAX_VISIBLE THEN nitems ELSE MAX_VISIBLE) <= nitems,
         service # "draw", UNCHANGED <<status_current, gui_mutex, picture, shown>>
  PROVE  ScreenInv'
<1>1. seen'.tidy => seen.tidy
  BY SeenDraws
<1>2. Steady'
  BY <1>1 DEF ScreenInv, Steady, Screens
<1>3. ASSUME seen'.tidy PROVE Tidy'
  <2>0. Tidy
    BY <1>1, <1>3 DEF ScreenInv
  <2> DEFINE T == TextOp(<<"menu", menu'.start, menu'.selection>>)
  <2>1. menu_show(menu') = <<ClearOp, T, FlushOp>>
    BY DEF menu_show, MenuPicture, FlushOp
  <2>2. draw' = [draw EXCEPT !["button"] = <<ClearOp, T, FlushOp>>]
    BY <2>1, DrawsFacts
  <2>3. /\ draw' = [u \in {"button", "gui"} |-> draw'[u]] /\ draw'["gui"] = draw["gui"]
        /\ draw'["button"] = <<ClearOp, T, FlushOp>>
    BY <2>0, <2>2 DEF Tidy
  <2>4. draw["gui"] = << >>
    <3>1. menu_show(menu')[1] = ClearOp /\ ClearOp # LockOp
      BY <2>1, OpFacts
    <3>2. seen'.tidy => menu_show(menu')[1] = LockOp \/ draw["gui"] = << >>
      BY SeenDraws
    <3> QED
      BY <1>3, <3>1, <3>2
  <2>5. gui_mutex = "free"
    <3>1. CASE menu.active
      BY <2>0, <3>1 DEF Tidy
    <3>2. CASE ~menu.active
      <4>1. StatusDrawn /\ draw["button"] = << >>
        BY <2>0, <3>2 DEF Tidy
      <4>2. \A k : ~ Painting("gui", k) /\ ~ Painting("button", k)
        BY <2>4, <4>1 DEF Painting
      <4>3. << >> # <<LockOp>> /\ << >> # <<ClearOp, LockOp>>
        OBVIOUS
      <4> QED
        BY <2>0, <4>1, <4>2, <4>3 DEF StatusDrawn, Tidy
    <3> QED
      BY <3>1, <3>2
  <2>6. MenuDrawn'
    BY <2>3 DEF MenuDrawn, ClearOp, FlushOp, TextOp
  <2> QED
    BY <2>3, <2>4, <2>5, <2>6 DEF Tidy
<1> QED
  BY <1>2, <1>3 DEF ScreenInv

LEMMA HandleShortStep == ButtonTypes /\ ScreenInv /\ HandleShort => ScreenInv'
<1> SUFFICES ASSUME ButtonTypes, ScreenInv, HandleShort PROVE ScreenInv'
  OBVIOUS
<1>0. /\ service = "beep" /\ service' = "draw" /\ UNCHANGED <<gui_mutex, picture, shown>>
      /\ Steady
  BY DEF HandleShort, ScreenInv
<1>1. CASE menu.active /\ menu.start + menu.selection >= nitems - 1
  BY <1>0, <1>1, MenuEnds DEF HandleShort, click_handler, menu_increment
<1>2. CASE menu.active /\ ~(menu.start + menu.selection >= nitems - 1)
  <2>1. /\ menu' = IF menu.selection >= MAX_VISIBLE - 1
                   THEN [menu EXCEPT !.start = @ + 1] ELSE [menu EXCEPT !.selection = @ + 1]
        /\ Draws(menu_show(menu')) /\ UNCHANGED status_current
    BY <1>2 DEF HandleShort, click_handler, menu_increment
  <2>2. /\ menu' \in [start : Nat, selection : Nat, active : BOOLEAN] /\ menu'.active
        /\ menu'.start = IF menu.selection >= MAX_VISIBLE - 1 THEN menu.start + 1 ELSE menu.start
    BY <1>0, <1>2, <2>1 DEF Steady
  <2>3. menu'.start + (IF nitems < MAX_VISIBLE THEN nitems ELSE MAX_VISIBLE) <= nitems
    <3>1. nitems \in Nat \ {0} /\ MAX_VISIBLE \in Nat \ {0}
      BY UiAssumption
    <3>2. menu.start \in Nat /\ menu.selection \in Nat
      BY <1>0 DEF Steady
    <3>3. menu.start + (IF nitems < MAX_VISIBLE THEN nitems ELSE MAX_VISIBLE) <= nitems
      BY <1>0 DEF Steady
    <3> QED
      BY <1>2, <2>2, <3>1, <3>2, <3>3
  <2> QED
    BY <1>0, <2>1, <2>2, <2>3, MenuShows
<1>3. CASE ~menu.active
  <2>1. /\ status_current' = (status_current + 1) % NSCREENS /\ Draws(<<LockOp>>) /\ UNCHANGED menu
    BY <1>3 DEF HandleShort, click_handler, status_show
  <2>2. status_current' \in Screens
    BY <1>0, <2>1, UiAssumption DEF Steady, Screens
  <2>3. seen'.tidy => seen.tidy
    BY <2>1, SeenDraws
  <2>4. Steady'
    BY <1>0, <2>1, <2>2, <2>3 DEF Steady, Screens
  <2>5. ASSUME seen.tidy PROVE Tidy'
    <3>0. Tidy
      BY <2>5 DEF ScreenInv
    <3>1. draw' = [draw EXCEPT !["button"] = <<LockOp>>]
      BY <2>1, DrawsFacts
    <3>2. /\ draw' = [u \in {"button", "gui"} |-> draw'[u]] /\ draw'["gui"] = draw["gui"]
          /\ draw'["button"] = <<LockOp>> /\ <<LockOp>> # << >>
      BY <3>0, <3>1 DEF Tidy
    <3>3. StatusDrawn /\ draw["button"] = << >>
      BY <1>0, <1>3, <3>0 DEF Tidy
    <3>4. ~ Painting("button", status_current)
      BY <3>3 DEF Painting
    <3>5. gui_mutex # "button"
      BY <3>3, <3>4 DEF StatusDrawn
    <3>6. \A k : Painting("gui", k) <=> Painting("gui", k)'
      BY <1>0, <3>2 DEF Painting, StatusPicture, StatusText, TextOp, ClearOp, WaitOp, FlushOp, UnlockOp
    <3>7. StatusDrawn'
      BY <1>0, <3>2, <3>3, <3>5, <3>6 DEF StatusDrawn, LockOp, Screens
    <3> QED
      BY <1>0, <1>3, <2>1, <3>0, <3>2, <3>7 DEF Tidy
  <2> QED
    BY <2>3, <2>4, <2>5 DEF ScreenInv
<1> QED
  BY <1>1, <1>2, <1>3

LEMMA HandleLongStep == ButtonTypes /\ ScreenInv /\ HandleLong => ScreenInv'
<1> SUFFICES ASSUME ButtonTypes, ScreenInv, HandleLong PROVE ScreenInv'
  OBVIOUS
<1>0. /\ service = "beeps" /\ service' = "draw"
      /\ UNCHANGED <<status_current, gui_mutex, picture, shown>>
  BY DEF HandleLong
<1>1. CASE menu.active
  BY <1>0, <1>1, MenuEnds DEF HandleLong, push_handler
<1>2. CASE ~menu.active
  <2>1. menu' = [start |-> 0, selection |-> 0, active |-> TRUE] /\ Draws(menu_show(menu'))
    BY <1>2 DEF HandleLong, push_handler
  <2>2. /\ menu' \in [start : Nat, selection : Nat, active : BOOLEAN] /\ menu'.active
        /\ menu'.start + (IF nitems < MAX_VISIBLE THEN nitems ELSE MAX_VISIBLE) <= nitems
    BY <2>1, UiAssumption
  <2> QED
    BY <1>0, <2>1, <2>2, MenuShows
<1> QED
  BY <1>1, <1>2

LEMMA ScreenStep == ButtonInv /\ ScreenInv /\ [UiNext]_ui => ScreenInv'
<1> SUFFICES ASSUME ButtonInv, ScreenInv, [UiNext]_ui PROVE ScreenInv'
  OBVIOUS
<1>0. ButtonTypes
  BY DEF ButtonInv
<1>1. CASE UNCHANGED ui
  BY <1>1, ScreenKept DEF ui, screen
<1>2. CASE Edge \/ button_handler \/ bphandler \/ holdhandler
  <2>1. UNCHANGED screen
    BY <1>2 DEF Edge, button_handler, bphandler, holdhandler
  <2>2. seen \in SeenSet
    BY <1>0 DEF ButtonTypes
  <2>3. seen'.tidy = seen.tidy
    <3>1. ASSUME NEW kind, Make(kind) PROVE seen'.tidy = seen.tidy
      <4>1. seen' = [seen EXCEPT !.made = @ + 1, !.calm = @ /\ service = "wait"]
        BY <3>1 DEF Make
      <4> QED
        BY <2>2, <4>1 DEF SeenSet
    <3>2. CASE Edge
      BY <2>2, <3>2 DEF Edge, SeenSet
    <3>3. CASE button_handler
      <4>1. \/ seen' = [seen EXCEPT !.presses = @ + 1]
            \/ Make(SHORT) \/ seen' = seen
        BY <3>3 DEF button_handler
      <4> QED
        BY <2>2, <3>1, <4>1 DEF SeenSet
    <3>4. CASE bphandler
      BY <3>4 DEF bphandler
    <3>5. CASE holdhandler
      BY <3>1, <3>5 DEF holdhandler
    <3> QED
      BY <1>2, <3>2, <3>3, <3>4, <3>5
  <2>4. service = "draw" => service' = "draw"
    BY <1>2 DEF Edge, button_handler, bphandler, holdhandler, Make
  <2> QED
    BY <2>1, <2>3, <2>4, ScreenKept
<1>3. CASE TestShort \/ TestLong \/ Drawn \/ Again
  <2>1. UNCHANGED <<screen, seen>> /\ (service = "draw" => draw["button"] = << >>)
    BY <1>3 DEF TestShort, TestLong, Drawn, Again
  <2> QED
    BY <2>1, ScreenKept
<1>4. CASE \E t \in {"button", "gui"} : Draw(t)
  BY <1>4, ButtonDraws, GuiDraws
<1> QED
  BY <1>0, <1>1, <1>2, <1>3, <1>4, UpdateStep, HandleShortStep, HandleLongStep DEF UiNext

(* ScreenExact: for any menu and any status screens, whichever of them     *)
(* wait, the display shows what it is to show when nobody draws, and the   *)
(* menu never has an item that does not exist.                             *)
THEOREM ScreenExactHolds == UiSpec => []ScreenExact
<1>1. ScreenInv => ScreenExact
  <2> SUFFICES ASSUME ScreenInv PROVE ScreenExact
    OBVIOUS
  <2>1. ASSUME UiIdle, seen.tidy
        PROVE  shown = IF menu.active THEN MenuPicture(menu) ELSE StatusPicture(status_current)
    <3>1. Tidy /\ draw["button"] = << >> /\ draw["gui"] = << >>
      BY <2>1 DEF ScreenInv, UiIdle
    <3>2. CASE menu.active
      BY <3>1, <3>2 DEF Tidy, MenuDrawn
    <3>3. CASE ~menu.active
      <4>1. \A k : ~ Painting("gui", k)
        BY <3>1 DEF Painting
      <4> QED
        BY <3>1, <3>3, <4>1 DEF Tidy, StatusDrawn
    <3> QED
      BY <3>2, <3>3
  <2> QED
    BY <2>1 DEF ScreenInv, Steady, ScreenExact
<1> QED
  BY <1>1, ButtonInitHolds, ButtonStep, ScreenInitHolds, ScreenStep, PTL DEF UiSpec

----------------------------------------------------------------------------
(* The settings of the transceiver. *)

TrxSpec == TrxInit /\ [][TrxNext]_trx

OrderSet ==
  ({"txfreq", "rxfreq"} \X Freqs) \cup ({"squelch"} \X Squelches)
  \cup ({"volume", "miclevel"} \X {1}) \cup ({"lowpower"} \X BOOLEAN)

Threads == Setters \cup {"user"}

ParamSet ==
  [txfreq : Freqs, rxfreq : Freqs, squelch : Squelches, volume : Nat, miclevel : Nat]

RadioSet ==
  [on : BOOLEAN, rdy : BOOLEAN, txfreq : Nat, rxfreq : Nat, squelch : Nat,
   flags : SUBSET {"FLAG_LO_POWER"}]

PlaceSet ==
  [Threads -> {"free", "reply", "off", "boot", "handshake", "settle", "group", "pause", "on"}]

USE DEF ParamSet, RadioSet, PlaceSet

TrxTypes ==
  /\ param \in ParamSet
  /\ radio \in RadioSet
  /\ orders \in [Setters -> Seq(OrderSet)]
  /\ place \in PlaceSet
  /\ chip = [power |-> chip.power, has |-> chip.has]
  /\ chip.has = [group |-> chip.has.group, volume |-> chip.has.volume, miclevel |-> chip.has.miclevel]

\* Nobody waits, or one does: then either its command is on the wire or the reply is there.
LineExact ==
  \/ (\A t \in Threads : place[t] \notin Waiting) /\ wire = << >> /\ replies = 0
  \/ \E t \in Threads :
       /\ place[t] \in Waiting /\ \A other \in Threads \ {t} : place[other] \notin Waiting
       /\ \/ /\ replies = 0 /\ wire = <<wire[1]>>
             /\ wire[1][1] \in {"connect", "group", "volume", "miclevel"}
          \/ wire = << >> /\ replies = 1

\* How far powering up has come.
Phases ==
  /\ \A t \in Setters : place[t] \in {"free", "reply"}
  /\ place["user"] \notin {"free", "reply"}
  /\ place["user"] = "off" <=> ~radio.on
  /\ place["user"] \in {"handshake", "settle", "group", "pause", "on"} => chip.power = "up"
  /\ radio.rdy <=> place["user"] = "on"

Copied ==
  radio.txfreq = param.txfreq /\ radio.rxfreq = param.rxfreq /\ radio.squelch = param.squelch

Current == <<param.txfreq, param.rxfreq, param.squelch, radio.flags>>

GroupSent == wire # << >> /\ wire[1][1] = "group"

\* From the first group command on it works with the parameters, or is told to.
Told ==
  place["user"] \in {"group", "pause", "on"} =>
    /\ Copied
    /\ IF GroupSent THEN wire[1] = <<"group", Current>> ELSE chip.has.group = Current

TrxInv == alone => TrxTypes /\ LineExact /\ Phases /\ Told

----------------------------------------------------------------------------
LEMMA ThreadFacts ==
  ASSUME TrxTypes
  PROVE  /\ DOMAIN place = Threads /\ "user" \in Threads /\ Setters \subseteq Threads
         /\ Threads = {"shell", "web", "user"} /\ "user" \notin Setters
BY DEF TrxTypes, Threads, Setters

LEMMA TrxInitHolds == TrxInit => TrxInv
<1> SUFFICES ASSUME NEW f \in Freqs, NEW sq \in Squelches, TrxStart(f, sq)
             PROVE  TrxTypes /\ LineExact /\ Phases /\ Told
  BY DEF TrxInit, TrxInv
<1>1. /\ param = [txfreq |-> f, rxfreq |-> f, squelch |-> sq, volume |-> 4, miclevel |-> 8]
      /\ radio = [on |-> FALSE, rdy |-> FALSE, txfreq |-> 0, rxfreq |-> 0, squelch |-> 0, flags |-> {}]
      /\ chip = [power |-> "off", has |-> [group |-> << >>, volume |-> 0, miclevel |-> 0]]
      /\ orders = [t \in Setters |-> << >>]
      /\ place = [t \in Threads |-> IF t = "user" THEN "off" ELSE "free"]
      /\ wire = << >> /\ replies = 0
  BY DEF TrxStart, Factory, Threads
<1>2. TrxTypes
  <2>1. << >> \in Seq(OrderSet)
    OBVIOUS
  <2>2. orders \in [Setters -> Seq(OrderSet)]
    BY <1>1, <2>1
  <2>3. place \in PlaceSet
    BY <1>1
  <2>4. /\ param \in ParamSet
        /\ radio \in RadioSet
        /\ chip = [power |-> chip.power, has |-> chip.has]
        /\ chip.has = [group |-> chip.has.group, volume |-> chip.has.volume, miclevel |-> chip.has.miclevel]
    BY <1>1
  <2> QED
    BY <2>2, <2>3, <2>4 DEF TrxTypes
<1>3. /\ \A t \in Setters : place[t] = "free"
      /\ place["user"] = "off"
  BY <1>1, <1>2, ThreadFacts
<1>4. LineExact
  BY <1>1, <1>3 DEF LineExact, Threads, Waiting
<1>5. Phases /\ Told
  BY <1>1, <1>3 DEF Phases, Told
<1> QED
  BY <1>2, <1>4, <1>5

\* Who talks while nobody else waits finds the line idle.
LEMMA TalkFacts ==
  ASSUME TrxTypes, LineExact, NEW t \in Threads, NEW command, NEW next,
         place[t] \notin Waiting, next \in Waiting, Talk(t, command, next), alone', replies' = replies,
         command[1] \in {"connect", "group", "volume", "miclevel"}
  PROVE  /\ wire = << >> /\ wire' = <<command>> /\ wire'[1] = command /\ chip.power = "up"
         /\ place' = [place EXCEPT ![t] = next] /\ place'[t] = next
         /\ \A other \in Threads \ {t} : place'[other] = place[other]
         /\ LineExact'
<1>1. /\ chip.power = "up" /\ \A other \in Threads \ {t} : place[other] \notin Waiting
      /\ place' = [place EXCEPT ![t] = next] /\ wire' = Append(wire, command)
  BY ThreadFacts DEF Talk
<1>2. wire = << >> /\ replies = 0
  BY <1>1 DEF LineExact
<1>3. wire' = <<command>> /\ wire'[1] = command
  BY <1>1, <1>2
<1>4. place'[t] = next /\ \A other \in Threads \ {t} : place'[other] = place[other]
  BY <1>1 DEF TrxTypes
<1>5. LineExact'
  <2>1. /\ place'[t] \in Waiting /\ \A other \in Threads \ {t} : place'[other] \notin Waiting
        /\ replies' = 0 /\ wire' = <<wire'[1]>>
        /\ wire'[1][1] \in {"connect", "group", "volume", "miclevel"}
    BY <1>1, <1>2, <1>3, <1>4
  <2> QED
    BY <2>1 DEF LineExact, Threads, Setters, Waiting
<1> QED
  BY <1>1, <1>2, <1>3, <1>4, <1>5

LEMMA NewOrderStep == TrxInv /\ (\E t \in Setters : NewOrder(t)) => TrxInv'
<1> SUFFICES ASSUME NEW t \in Setters, NewOrder(t), alone, TrxTypes, LineExact, Phases, Told
             PROVE  TrxTypes' /\ LineExact' /\ Phases' /\ Told'
  BY DEF TrxInv, NewOrder
<1>1. UNCHANGED <<param, radio, chip, place, wire, replies>>
  BY DEF NewOrder
<1>2. PICK o \in ShellOrders \cup WebOrders : orders' = [orders EXCEPT ![t] = o]
  BY DEF NewOrder
<1>3. o \in Seq(OrderSet)
  <2>1. ASSUME NEW f \in Freqs, NEW k \in 1..2 PROVE [n \in 1..k |-> <<"txfreq", f>>] \in Seq(OrderSet)
    <3>1. <<"txfreq", f>> \in OrderSet
      BY DEF OrderSet
    <3> QED
      BY <3>1
  <2>2. \A x \in OrderSet : <<x>> \in Seq(OrderSet)
    OBVIOUS
  <2>3. /\ \A f \in Freqs : <<"txfreq", f>> \in OrderSet /\ <<"rxfreq", f>> \in OrderSet
        /\ \A sq \in Squelches : <<"squelch", sq>> \in OrderSet
        /\ <<"volume", 1>> \in OrderSet /\ <<"miclevel", 1>> \in OrderSet
        /\ \A low \in BOOLEAN : <<"lowpower", low>> \in OrderSet
    BY DEF OrderSet
  <2>4. CASE o \in {[n \in 1..k |-> <<"txfreq", f>>] : f \in Freqs, k \in 1..2}
    <3>1. PICK f \in Freqs, k \in 1..2 : o = [n \in 1..k |-> <<"txfreq", f>>]
      BY <2>4
    <3> QED
      BY <2>1, <3>1
  <2>5. CASE o \notin {[n \in 1..k |-> <<"txfreq", f>>] : f \in Freqs, k \in 1..2}
    <3>1. \E x \in OrderSet : o = <<x>>
      <4>1. CASE \E sq \in Squelches : o = << <<"squelch", sq>> >>
        BY <2>3, <4>1
      <4>2. CASE \E what \in {"volume", "miclevel"} : o = << <<what, 1>> >>
        BY <2>3, <4>2
      <4>3. CASE \E low \in BOOLEAN : o = << <<"lowpower", low>> >>
        BY <2>3, <4>3
      <4>4. CASE \E what \in {"txfreq", "rxfreq"}, f \in Freqs : o = << <<what, f>> >>
        BY <2>3, <4>4
      <4>5. \/ \E sq \in Squelches : o = << <<"squelch", sq>> >>
            \/ \E what \in {"volume", "miclevel"} : o = << <<what, 1>> >>
            \/ \E low \in BOOLEAN : o = << <<"lowpower", low>> >>
            \/ \E what \in {"txfreq", "rxfreq"}, f \in Freqs : o = << <<what, f>> >>
        <5>1. CASE o \in WebOrders
          BY <5>1 DEF WebOrders
        <5>2. CASE o \in ShellOrders
          <6>1. \/ o \in {<< <<"squelch", sq>> >> : sq \in Squelches}
                \/ o \in {<< <<what, 1>> >> : what \in {"volume", "miclevel"}}
                \/ o \in {<< <<"lowpower", low>> >> : low \in BOOLEAN}
            <7> DEFINE a == {[n \in 1..k |-> <<"txfreq", f>>] : f \in Freqs, k \in 1..2}
                       b == {<< <<"squelch", sq>> >> : sq \in Squelches}
                       c == {<< <<what, 1>> >> : what \in {"volume", "miclevel"}}
                       d == {<< <<"lowpower", low>> >> : low \in BOOLEAN}
            <7>1. ShellOrders = a \cup b \cup c \cup d
              BY DEF ShellOrders
            <7>2. o \notin a
              BY <2>5
            <7> HIDE DEF a, b, c, d
            <7>3. o \in b \/ o \in c \/ o \in d
              BY <5>2, <7>1, <7>2
            <7> QED
              BY <7>3 DEF b, c, d
          <6> QED
            BY <6>1
        <5> QED
          BY <1>2, <5>1, <5>2
      <4> QED
        BY <4>1, <4>2, <4>3, <4>4, <4>5
    <3> QED
      BY <2>2, <3>1
  <2> QED
    BY <2>4, <2>5
<1>4. orders' \in [Setters -> Seq(OrderSet)]
  BY <1>2, <1>3 DEF TrxTypes
<1> QED
  BY <1>1, <1>4 DEF TrxTypes, LineExact, Phases, Told, Copied, Current, GroupSent

\* A setting changes parameter and copy together.
LEMMA SettingFacts ==
  ASSUME TrxTypes, NEW t \in Setters, NEW o \in OrderSet,
         o[1] \in {"txfreq", "rxfreq", "squelch"}, param' = [param EXCEPT ![o[1]] = o[2]],
         radio' = CASE o[1] = "txfreq" -> SetFreq(o[2], 0)
                    [] o[1] = "rxfreq" -> SetFreq(0, o[2])
                    [] OTHER -> [radio EXCEPT !.squelch = o[2]]
  PROVE  /\ param' \in ParamSet
         /\ radio' \in RadioSet
         /\ radio'.on = radio.on /\ radio'.rdy = radio.rdy
         /\ Copied => Copied'
<1>1. CASE o[1] = "txfreq"
  <2>1. o[2] \in Freqs /\ o[2] \in Nat /\ o[2] > 0
    BY <1>1, TrxAssumption DEF OrderSet
  <2>2. radio' = [radio EXCEPT !.txfreq = o[2], !.rxfreq = radio.rxfreq]
    <3>1. radio' = SetFreq(o[2], 0)
      BY <1>1
    <3>2. SetFreq(o[2], 0) = [radio EXCEPT !.txfreq = IF o[2] > 0 THEN o[2] ELSE radio.txfreq,
                                       !.rxfreq = IF 0 > 0 THEN 0 ELSE radio.rxfreq]
      BY Zenon DEF SetFreq
    <3>3. /\ (IF o[2] > 0 THEN o[2] ELSE radio.txfreq) = o[2]
          /\ (IF 0 > 0 THEN 0 ELSE radio.rxfreq) = radio.rxfreq
      BY <2>1
    <3> QED
      BY <3>1, <3>2, <3>3, Zenon
  <2>3. param' = [param EXCEPT !.txfreq = o[2]]
    BY <1>1
  <2>4. param' \in ParamSet
    BY <2>1, <2>3 DEF TrxTypes
  <2>5. /\ radio' \in RadioSet
        /\ radio'.on = radio.on /\ radio'.rdy = radio.rdy
    BY <2>1, <2>2 DEF TrxTypes
  <2>6. /\ param'.txfreq = o[2] /\ radio'.txfreq = o[2]
        /\ param'.rxfreq = param.rxfreq /\ radio'.rxfreq = radio.rxfreq
        /\ param'.squelch = param.squelch /\ radio'.squelch = radio.squelch
    BY <2>2, <2>3 DEF TrxTypes
  <2> QED
    BY <2>4, <2>5, <2>6 DEF Copied
<1>2. CASE o[1] = "rxfreq"
  <2>1. o[2] \in Freqs /\ o[2] \in Nat /\ o[2] > 0
    BY <1>2, TrxAssumption DEF OrderSet
  <2>2. radio' = [radio EXCEPT !.txfreq = radio.txfreq, !.rxfreq = o[2]]
    <3>1. radio' = SetFreq(0, o[2])
      BY <1>2
    <3>2. SetFreq(0, o[2]) = [radio EXCEPT !.txfreq = IF 0 > 0 THEN 0 ELSE radio.txfreq,
                                       !.rxfreq = IF o[2] > 0 THEN o[2] ELSE radio.rxfreq]
      BY Zenon DEF SetFreq
    <3>3. /\ (IF 0 > 0 THEN 0 ELSE radio.txfreq) = radio.txfreq
          /\ (IF o[2] > 0 THEN o[2] ELSE radio.rxfreq) = o[2]
      BY <2>1
    <3> QED
      BY <3>1, <3>2, <3>3, Zenon
  <2>3. param' = [param EXCEPT !.rxfreq = o[2]]
    BY <1>2
  <2>4. param' \in ParamSet
    BY <2>1, <2>3 DEF TrxTypes
  <2>5. /\ radio' \in RadioSet
        /\ radio'.on = radio.on /\ radio'.rdy = radio.rdy
    BY <2>1, <2>2 DEF TrxTypes
  <2>6. /\ param'.txfreq = param.txfreq /\ radio'.txfreq = radio.txfreq
        /\ param'.rxfreq = o[2] /\ radio'.rxfreq = o[2]
        /\ param'.squelch = param.squelch /\ radio'.squelch = radio.squelch
    BY <2>2, <2>3 DEF TrxTypes
  <2> QED
    BY <2>4, <2>5, <2>6 DEF Copied
<1>3. CASE o[1] = "squelch"
  <2>1. o[2] \in Squelches /\ o[2] \in Nat
    BY <1>3, TrxAssumption DEF OrderSet
  <2>2. radio' = [radio EXCEPT !.squelch = o[2]] /\ param' = [param EXCEPT !.squelch = o[2]]
    BY <1>3
  <2>4. param' \in ParamSet
    BY <2>1, <2>2 DEF TrxTypes
  <2>5. /\ radio' \in RadioSet
        /\ radio'.on = radio.on /\ radio'.rdy = radio.rdy
    BY <2>1, <2>2 DEF TrxTypes
  <2>6. /\ param'.txfreq = param.txfreq /\ radio'.txfreq = radio.txfreq
        /\ param'.rxfreq = param.rxfreq /\ radio'.rxfreq = radio.rxfreq
        /\ param'.squelch = o[2] /\ radio'.squelch = o[2]
    BY <2>2 DEF TrxTypes
  <2> QED
    BY <2>4, <2>5, <2>6 DEF Copied
<1> QED
  BY <1>1, <1>2, <1>3

\* A thread tells the transceiver what is current, or, while it is off, nothing.
LEMMA GroupTold ==
  ASSUME TrxTypes, LineExact, Phases, NEW t \in Setters, place[t] = "free",
         SetGroupParm(t), alone', UNCHANGED <<chip, replies>>,
         radio'.on = radio.on, radio'.rdy = radio.rdy,
         place["user"] \in {"group", "pause", "on"} => Copied'
  PROVE  /\ place' \in PlaceSet
         /\ LineExact' /\ Phases' /\ Told'
<1>1. t \in Threads /\ t # "user" /\ place[t] \notin Waiting
  BY ThreadFacts DEF Waiting
<1>2. CASE radio.on
  <2> DEFINE g == GroupOf(radio')
  <2>1. Talk(t, g, "reply")
    BY <1>2 DEF SetGroupParm, TalkIfOn
  <2>2. g = <<"group", <<radio'.txfreq, radio'.rxfreq, radio'.squelch, radio'.flags>> >> /\ g[1] = "group"
    BY DEF GroupOf
  <2> HIDE DEF g
  <2>3. "reply" \in Waiting /\ g[1] \in {"connect", "group", "volume", "miclevel"}
    BY <2>2 DEF Waiting
  <2>4. /\ wire' = <<g>> /\ wire'[1] = g
        /\ place' = [place EXCEPT ![t] = "reply"] /\ place'[t] = "reply"
        /\ \A other \in Threads \ {t} : place'[other] = place[other]
        /\ LineExact'
    BY <1>1, <2>1, <2>3, TalkFacts
  <2>5. place'["user"] = place["user"]
    BY <1>1, <2>4, ThreadFacts
  <2>6. Phases'
    BY <2>4, <2>5, ThreadFacts DEF Phases
  <2>7. Copied' => g = <<"group", Current'>>
    BY <2>2 DEF Copied, Current
  <2>8. GroupSent'
    BY <2>2, <2>4 DEF GroupSent
  <2>9. Told'
    BY <2>4, <2>5, <2>7, <2>8 DEF Told
  <2> QED
    BY <2>4, <2>6, <2>9 DEF TrxTypes
<1>3. CASE ~radio.on
  <2>1. UNCHANGED <<place, wire>>
    BY <1>3 DEF SetGroupParm, TalkIfOn
  <2>2. place["user"] = "off"
    BY <1>3 DEF Phases
  <2>3. LineExact'
    BY <2>1 DEF LineExact
  <2> QED
    BY <2>1, <2>2, <2>3 DEF TrxTypes, Phases, Told
<1> QED
  BY <1>2, <1>3

LEMMA OrderStep == TrxInv /\ (\E t \in Setters : Order(t)) => TrxInv'
<1> SUFFICES ASSUME NEW t \in Setters, Order(t), alone', alone, TrxTypes, LineExact, Phases, Told
             PROVE  TrxTypes' /\ LineExact' /\ Phases' /\ Told'
  BY DEF TrxInv, Order, SetGroupParm, TalkIfOn, Talk
<1> DEFINE o == Head(orders[t])
<1>1. /\ o \in OrderSet /\ place[t] = "free" /\ UNCHANGED <<chip, replies>>
      /\ orders' = [orders EXCEPT ![t] = Tail(@)] /\ orders' \in [Setters -> Seq(OrderSet)]
  BY DEF Order, TrxTypes
<1>2. \/ /\ o[1] \in {"txfreq", "rxfreq", "squelch"}
         /\ param' = [param EXCEPT ![o[1]] = o[2]]
         /\ radio' = CASE o[1] = "txfreq" -> SetFreq(o[2], 0)
                       [] o[1] = "rxfreq" -> SetFreq(0, o[2])
                       [] OTHER -> [radio EXCEPT !.squelch = o[2]]
         /\ SetGroupParm(t)
      \/ /\ o[1] \in {"volume", "miclevel"}
         /\ param' = [param EXCEPT ![o[1]] = o[2]]
         /\ TalkIfOn(t, o) /\ UNCHANGED radio
      \/ /\ o[1] = "lowpower"
         /\ radio' = SetLowTxPower(o[2]) /\ SetGroupParm(t) /\ UNCHANGED param
  BY DEF Order
<1> HIDE DEF o
<1>3. CASE /\ o[1] \in {"txfreq", "rxfreq", "squelch"}
           /\ param' = [param EXCEPT ![o[1]] = o[2]]
           /\ radio' = CASE o[1] = "txfreq" -> SetFreq(o[2], 0)
                         [] o[1] = "rxfreq" -> SetFreq(0, o[2])
                         [] OTHER -> [radio EXCEPT !.squelch = o[2]]
           /\ SetGroupParm(t)
  <2>1. /\ param' \in ParamSet
        /\ radio' \in RadioSet
        /\ radio'.on = radio.on /\ radio'.rdy = radio.rdy /\ (Copied => Copied')
    BY <1>1, <1>3, SettingFacts
  <2>2. /\ place' \in PlaceSet
        /\ LineExact' /\ Phases' /\ Told'
    <3>1. place["user"] \in {"group", "pause", "on"} => Copied'
      BY <2>1 DEF Told
    <3> QED
      BY <1>1, <1>3, <2>1, <3>1, GroupTold
  <2> QED
    BY <1>1, <2>1, <2>2 DEF TrxTypes
<1>4. CASE /\ o[1] \in {"volume", "miclevel"}
           /\ param' = [param EXCEPT ![o[1]] = o[2]]
           /\ TalkIfOn(t, o) /\ UNCHANGED radio
  <2>1. /\ param' \in ParamSet
        /\ param'.txfreq = param.txfreq /\ param'.rxfreq = param.rxfreq
        /\ param'.squelch = param.squelch
    <3>1. o[2] = 1
      BY <1>1, <1>4 DEF OrderSet
    <3>2. CASE o[1] = "volume"
      <4>1. param' = [param EXCEPT !.volume = 1]
        BY <1>4, <3>1, <3>2
      <4> QED
        BY <4>1 DEF TrxTypes
    <3>3. CASE o[1] = "miclevel"
      <4>1. param' = [param EXCEPT !.miclevel = 1]
        BY <1>4, <3>1, <3>3
      <4> QED
        BY <4>1 DEF TrxTypes
    <3> QED
      BY <1>4, <3>2, <3>3
  <2>2. (Copied <=> Copied') /\ Current' = Current
    BY <1>4, <2>1 DEF Copied, Current
  <2>3. t \in Threads /\ t # "user" /\ place[t] \notin Waiting
    BY <1>1, ThreadFacts DEF Waiting
  <2>4. CASE radio.on
    <3>1. Talk(t, o, "reply") /\ "reply" \in Waiting
      BY <1>4, <2>4 DEF TalkIfOn, Waiting
    <3>2. /\ wire = << >> /\ wire' = <<o>> /\ wire'[1] = o
          /\ place' = [place EXCEPT ![t] = "reply"] /\ place'[t] = "reply"
          /\ \A other \in Threads \ {t} : place'[other] = place[other]
          /\ LineExact'
      BY <1>1, <1>4, <2>3, <3>1, TalkFacts
    <3>3. place'["user"] = place["user"]
      BY <2>3, <3>2, ThreadFacts
    <3>4. Phases'
      BY <1>1, <1>4, <3>2, <3>3, ThreadFacts DEF Phases
    <3>5. ~GroupSent /\ ~GroupSent'
      BY <1>4, <3>2 DEF GroupSent
    <3>6. Told'
      BY <1>1, <2>2, <3>3, <3>5 DEF Told
    <3> QED
      BY <1>1, <1>4, <2>1, <3>2, <3>4, <3>6 DEF TrxTypes
  <2>5. CASE ~radio.on
    <3>1. UNCHANGED <<place, wire>> /\ place["user"] = "off"
      BY <1>4, <2>5 DEF TalkIfOn, Phases
    <3>2. LineExact'
      BY <1>1, <3>1 DEF LineExact
    <3> QED
      BY <1>1, <1>4, <2>1, <3>1, <3>2 DEF TrxTypes, Phases, Told
  <2> QED
    BY <2>4, <2>5
<1>5. CASE /\ o[1] = "lowpower"
           /\ radio' = SetLowTxPower(o[2]) /\ SetGroupParm(t) /\ UNCHANGED param
  <2>1. PICK flags \in SUBSET {"FLAG_LO_POWER"} : radio' = [radio EXCEPT !.flags = flags]
    BY <1>5 DEF SetLowTxPower
  <2>2. /\ radio' \in RadioSet
        /\ radio'.on = radio.on /\ radio'.rdy = radio.rdy /\ (Copied => Copied')
    BY <1>5, <2>1 DEF TrxTypes, Copied
  <2>3. /\ place' \in PlaceSet
        /\ LineExact' /\ Phases' /\ Told'
    <3>1. place["user"] \in {"group", "pause", "on"} => Copied'
      BY <2>2 DEF Told
    <3> QED
      BY <1>1, <1>5, <2>2, <3>1, GroupTold
  <2> QED
    BY <1>1, <1>5, <2>2, <2>3 DEF TrxTypes
<1> QED
  BY <1>2, <1>3, <1>4, <1>5

LEMMA ReadReplyStep == TrxInv /\ (\E t \in DOMAIN place : ReadReply(t)) => TrxInv'
<1> SUFFICES ASSUME NEW t \in DOMAIN place, ReadReply(t), alone, TrxTypes, LineExact, Phases, Told
             PROVE  TrxTypes' /\ LineExact' /\ Phases' /\ Told'
  BY DEF TrxInv, ReadReply
<1>1. /\ t \in Threads /\ place[t] \in Waiting /\ replies > 0 /\ replies' = replies - 1
      /\ place' = [place EXCEPT ![t] = CASE @ = "reply" -> "free"
                                         [] @ = "handshake" -> "settle" [] @ = "group" -> "pause"]
      /\ UNCHANGED <<param, radio, chip, orders, wire>>
  BY ThreadFacts DEF ReadReply
<1>2. /\ \A other \in Threads \ {t} : place[other] \notin Waiting
      /\ replies = 1 /\ wire = << >>
  BY <1>1 DEF LineExact
<1>3. /\ place'[t] = CASE place[t] = "reply" -> "free"
                       [] place[t] = "handshake" -> "settle" [] place[t] = "group" -> "pause"
      /\ \A other \in Threads \ {t} : place'[other] = place[other]
      /\ place' \in PlaceSet
  <2>1. place[t] = "reply" \/ place[t] = "handshake" \/ place[t] = "group"
    BY <1>1 DEF Waiting
  <2>2. PICK p \in {"free", "settle", "pause"} :
          p = CASE place[t] = "reply" -> "free"
                [] place[t] = "handshake" -> "settle" [] place[t] = "group" -> "pause"
    BY <2>1
  <2>3. place' = [place EXCEPT ![t] = p]
    BY <1>1, <2>2
  <2>4. /\ place'[t] = p /\ \A other \in Threads \ {t} : place'[other] = place[other]
        /\ place' \in PlaceSet
    <3>1. p \in {"free", "settle", "pause"}
      OBVIOUS
    <3> QED
      <4>1. t \in Threads
        BY <1>1
      <4>2. place \in PlaceSet
        BY DEF TrxTypes
      <4> QED
        BY <2>3, <3>1, <4>1, <4>2
  <2> QED
    BY <2>2, <2>4, Zenon
<1>4. /\ place[t] = "reply" => place'[t] = "free"
      /\ place[t] = "handshake" => place'[t] = "settle"
      /\ place[t] = "group" => place'[t] = "pause"
      /\ place[t] \in {"reply", "handshake", "group"}
  BY <1>1, <1>3 DEF Waiting
<1>5. LineExact'
  <2>1. \A u \in Threads : place'[u] \notin Waiting
    BY <1>2, <1>3, <1>4 DEF Waiting
  <2>2. wire' = << >> /\ replies' = 0
    BY <1>1, <1>2
  <2> QED
    BY <2>1, <2>2, Zenon DEF LineExact, Threads, Setters, Waiting
<1>6. CASE t = "user"
  <2>1. \A u \in Setters : place'[u] = place[u]
    BY <1>3, <1>6, ThreadFacts
  <2>2. \/ place["user"] = "handshake" /\ place'["user"] = "settle"
        \/ place["user"] = "group" /\ place'["user"] = "pause"
    BY <1>4, <1>6 DEF Phases
  <2>3. Phases'
    BY <1>1, <2>1, <2>2 DEF Phases
  <2>4. Told'
    BY <1>1, <2>2 DEF Told, Copied, Current, GroupSent
  <2> QED
    BY <1>1, <1>3, <1>5, <2>3, <2>4 DEF TrxTypes
<1>7. CASE t # "user"
  <2>1. t \in Setters /\ place'["user"] = place["user"] /\ place'[t] = "free"
    <3>1. t \in Setters
      BY <1>1, <1>7 DEF Threads
    <3> QED
      BY <1>3, <1>4, <1>7, <3>1, ThreadFacts DEF Phases
  <2>2. Phases'
    BY <1>1, <1>3, <2>1, ThreadFacts DEF Phases
  <2>3. Told'
    BY <1>1, <2>1 DEF Told, Copied, Current, GroupSent
  <2> QED
    BY <1>1, <1>3, <1>5, <2>2, <2>3 DEF TrxTypes
<1> QED
  BY <1>6, <1>7

\* A phase of powering up that neither talks nor waits.
LEMMA PlaceFacts ==
  ASSUME TrxTypes, LineExact, NEW to \in {"off", "boot", "on"}, place["user"] \notin Waiting,
         place' = [place EXCEPT !["user"] = to], UNCHANGED <<wire, replies>>
  PROVE  /\ place' \in PlaceSet
         /\ place'["user"] = to /\ \A u \in Setters : place'[u] = place[u]
         /\ LineExact'
<1>1. /\ place' \in PlaceSet
      /\ place'["user"] = to /\ \A u \in Threads \ {"user"} : place'[u] = place[u]
  BY ThreadFacts DEF TrxTypes
<1>2. \A u \in Threads : place[u] \in Waiting <=> place'[u] \in Waiting
  BY <1>1 DEF Waiting
<1>3. LineExact'
  BY <1>2 DEF LineExact
<1> QED
  BY <1>1, <1>3, ThreadFacts

LEMMA PowerUpStep == TrxInv /\ PowerUp => TrxInv'
<1> SUFFICES ASSUME PowerUp, alone, TrxTypes, LineExact, Phases, Told
             PROVE  TrxTypes' /\ LineExact' /\ Phases' /\ Told'
  BY DEF TrxInv, PowerUp
<1>1. /\ place["user"] = "off" /\ place' = [place EXCEPT !["user"] = "boot"]
      /\ radio' = [radio EXCEPT !.on = TRUE] /\ chip' = [power |-> "boot", has |-> Factory]
      /\ UNCHANGED <<param, orders, wire, replies>>
  BY DEF PowerUp, User
<1>2. /\ place' \in PlaceSet
      /\ place'["user"] = "boot" /\ \A u \in Setters : place'[u] = place[u]
      /\ LineExact'
  BY <1>1, PlaceFacts DEF Waiting
<1>3. /\ radio' \in RadioSet
      /\ radio'.on /\ radio'.rdy = radio.rdy
  BY <1>1 DEF TrxTypes
<1>4. /\ chip' = [power |-> chip'.power, has |-> chip'.has]
      /\ chip'.has = [group |-> chip'.has.group, volume |-> chip'.has.volume,
                      miclevel |-> chip'.has.miclevel]
  BY <1>1 DEF Factory
<1> QED
  BY <1>1, <1>2, <1>3, <1>4 DEF TrxTypes, Phases, Told

LEMMA HandshakeStep == TrxInv /\ Handshake => TrxInv'
<1> SUFFICES ASSUME Handshake, alone', alone, TrxTypes, LineExact, Phases, Told
             PROVE  TrxTypes' /\ LineExact' /\ Phases' /\ Told'
  BY DEF TrxInv, Handshake, Talk
<1>1. /\ place["user"] = "boot" /\ Talk("user", <<"connect">>, "handshake")
      /\ UNCHANGED <<param, radio, chip, orders, replies>>
  BY DEF Handshake
<1>2. <<"connect">>[1] = "connect"
  OBVIOUS
<1>3. /\ chip.power = "up" /\ place' = [place EXCEPT !["user"] = "handshake"]
      /\ place'["user"] = "handshake"
      /\ \A other \in Threads \ {"user"} : place'[other] = place[other]
      /\ LineExact'
  BY <1>1, <1>2, ThreadFacts, TalkFacts DEF Waiting
<1>4. /\ place' \in PlaceSet
      /\ \A u \in Setters : place'[u] = place[u]
  BY <1>3, ThreadFacts DEF TrxTypes
<1> QED
  BY <1>1, <1>3, <1>4 DEF TrxTypes, Phases, Told

LEMMA InitializeStep == TrxInv /\ Initialize => TrxInv'
<1> SUFFICES ASSUME Initialize, alone', alone, TrxTypes, LineExact, Phases, Told
             PROVE  TrxTypes' /\ LineExact' /\ Phases' /\ Told'
  BY DEF TrxInv, Initialize, Talk
<1> DEFINE g == GroupOf(radio')
<1>1. /\ place["user"] = "settle" /\ Talk("user", g, "group")
      /\ radio' = [radio EXCEPT !.txfreq = param.txfreq, !.rxfreq = param.rxfreq,
                                !.squelch = param.squelch, !.flags = {}]
      /\ UNCHANGED <<param, chip, orders, replies>>
  BY DEF Initialize
<1>2. g = <<"group", <<radio'.txfreq, radio'.rxfreq, radio'.squelch, radio'.flags>> >> /\ g[1] = "group"
  BY DEF GroupOf
<1> HIDE DEF g
<1>3. /\ chip.power = "up" /\ place' = [place EXCEPT !["user"] = "group"]
      /\ wire' = <<g>> /\ wire'[1] = g /\ place'["user"] = "group"
      /\ \A other \in Threads \ {"user"} : place'[other] = place[other]
      /\ LineExact'
  BY <1>1, <1>2, ThreadFacts, TalkFacts DEF Waiting
<1>4. /\ place' \in PlaceSet
      /\ \A u \in Setters : place'[u] = place[u]
  BY <1>3, ThreadFacts DEF TrxTypes
<1>5. /\ radio' \in RadioSet
      /\ radio'.on = radio.on /\ radio'.rdy = radio.rdy
      /\ radio'.txfreq = param.txfreq /\ radio'.rxfreq = param.rxfreq
      /\ radio'.squelch = param.squelch
  <2>1. param.txfreq \in Nat /\ param.rxfreq \in Nat /\ param.squelch \in Nat
    <3>1. param.txfreq \in Freqs /\ param.rxfreq \in Freqs /\ param.squelch \in Squelches
      BY DEF TrxTypes
    <3> QED
      <4>1. \A x \in Freqs \cup Squelches : x \in Nat
        BY TrxAssumption
      <4> QED
        BY <3>1, <4>1, Zenon
  <2> QED
    BY <1>1, <2>1 DEF TrxTypes
<1>6. TrxTypes' /\ Phases'
  BY <1>1, <1>3, <1>4, <1>5 DEF TrxTypes, Phases
<1>7. Copied'
  BY <1>1, <1>5 DEF Copied
<1>8. g = <<"group", Current'>> /\ GroupSent'
  <2>1. g = <<"group", Current'>>
    BY <1>2, <1>7 DEF Copied, Current
  <2>2. wire' # << >> /\ wire'[1][1] = "group"
    BY <1>2, <1>3
  <2> QED
    BY <2>1, <2>2 DEF GroupSent
<1>9. Told'
  BY <1>3, <1>7, <1>8 DEF Told
<1> QED
  BY <1>3, <1>6, <1>9

LEMMA ReadyStep == TrxInv /\ Ready => TrxInv'
<1> SUFFICES ASSUME Ready, alone, TrxTypes, LineExact, Phases, Told
             PROVE  TrxTypes' /\ LineExact' /\ Phases' /\ Told'
  BY DEF TrxInv, Ready
<1>1. /\ place["user"] = "pause" /\ place' = [place EXCEPT !["user"] = "on"]
      /\ radio' = [radio EXCEPT !.rdy = TRUE]
      /\ UNCHANGED <<param, chip, orders, wire, replies>>
  BY DEF Ready, User
<1>2. /\ place' \in PlaceSet
      /\ place'["user"] = "on" /\ \A u \in Setters : place'[u] = place[u]
      /\ LineExact'
  BY <1>1, PlaceFacts DEF Waiting
<1>3. /\ radio' \in RadioSet
      /\ radio'.on = radio.on /\ radio'.rdy
      /\ radio'.txfreq = radio.txfreq /\ radio'.rxfreq = radio.rxfreq
      /\ radio'.squelch = radio.squelch /\ radio'.flags = radio.flags
  BY <1>1 DEF TrxTypes
<1>4. (Copied <=> Copied') /\ Current' = Current /\ (GroupSent <=> GroupSent')
  BY <1>1, <1>3 DEF Copied, Current, GroupSent
<1>5. Told'
  BY <1>1, <1>4 DEF Told
<1> QED
  BY <1>1, <1>2, <1>3, <1>5 DEF TrxTypes, Phases

LEMMA PowerDownStep == TrxInv /\ PowerDown => TrxInv'
<1> SUFFICES ASSUME PowerDown, alone', alone, TrxTypes, LineExact, Phases, Told
             PROVE  TrxTypes' /\ LineExact' /\ Phases' /\ Told'
  BY DEF TrxInv, PowerDown
<1>1. /\ place["user"] = "on" /\ place' = [place EXCEPT !["user"] = "off"]
      /\ radio' = [radio EXCEPT !.on = FALSE, !.rdy = FALSE]
      /\ chip' = [power |-> "off", has |-> Factory] /\ wire' = << >>
      /\ \A t \in Setters : place[t] \notin Waiting
      /\ UNCHANGED <<param, orders, replies>>
  BY DEF PowerDown, User
<1>2. wire = << >>
  <2>1. \A t \in Threads : place[t] \notin Waiting
    BY <1>1 DEF Threads, Waiting
  <2> QED
    BY <2>1 DEF LineExact
<1>3. /\ place' \in PlaceSet
      /\ place'["user"] = "off" /\ \A u \in Setters : place'[u] = place[u]
      /\ LineExact'
  BY <1>1, <1>2, PlaceFacts DEF Waiting
<1>4. /\ radio' \in RadioSet
      /\ ~radio'.on /\ ~radio'.rdy
  BY <1>1 DEF TrxTypes
<1>5. /\ chip' = [power |-> chip'.power, has |-> chip'.has]
      /\ chip'.has = [group |-> chip'.has.group, volume |-> chip'.has.volume,
                      miclevel |-> chip'.has.miclevel]
  BY <1>1 DEF Factory
<1> QED
  BY <1>1, <1>3, <1>4, <1>5 DEF TrxTypes, Phases, Told

LEMMA BootedStep == TrxInv /\ Booted => TrxInv'
<1> SUFFICES ASSUME Booted, alone, TrxTypes, LineExact, Phases, Told
             PROVE  TrxTypes' /\ LineExact' /\ Phases' /\ Told'
  BY DEF TrxInv, Booted
<1>1. /\ UNCHANGED <<param, radio, orders, place, wire, replies>>
      /\ chip' = [chip EXCEPT !.power = "up"]
  BY DEF Booted
<1>2. chip'.power = "up" /\ chip'.has = chip.has /\ chip' = [power |-> chip'.power, has |-> chip'.has]
  BY <1>1 DEF TrxTypes
<1>3. (LineExact <=> LineExact') /\ (Copied <=> Copied') /\ Current' = Current /\ (GroupSent <=> GroupSent')
  BY <1>1 DEF LineExact, Copied, Current, GroupSent
<1>4. Told'
  BY <1>1, <1>2, <1>3 DEF Told
<1> QED
  BY <1>1, <1>2, <1>3, <1>4 DEF TrxTypes, Phases

LEMMA ObeyStep == TrxInv /\ Obey => TrxInv'
<1> SUFFICES ASSUME Obey, alone, TrxTypes, LineExact, Phases, Told
             PROVE  TrxTypes' /\ LineExact' /\ Phases' /\ Told'
  BY DEF TrxInv, Obey
<1>1. /\ wire # << >> /\ wire' = Tail(wire) /\ replies' = replies + 1
      /\ UNCHANGED <<param, radio, orders, place>>
  BY DEF Obey
<1>2. PICK t \in Threads :
        /\ place[t] \in Waiting /\ \A other \in Threads \ {t} : place[other] \notin Waiting
        /\ replies = 0 /\ wire = <<wire[1]>>
        /\ wire[1][1] \in {"connect", "group", "volume", "miclevel"}
  BY <1>1 DEF LineExact
<1>3. Head(wire) = wire[1] /\ wire' = << >> /\ replies' = 1
  <2> DEFINE c == wire[1]
  <2>1. Head(<<c>>) = c /\ Tail(<<c>>) = << >>
    OBVIOUS
  <2>2. replies' = 1
    BY <1>1, <1>2
  <2> QED
    BY <1>1, <1>2, <2>1, <2>2, Zenon
<1>4. LineExact'
  BY <1>1, <1>2, <1>3 DEF LineExact
<1>5. /\ chip' = [power |-> chip'.power, has |-> chip'.has] /\ chip'.power = chip.power
      /\ chip'.has = [group |-> chip'.has.group, volume |-> chip'.has.volume,
                      miclevel |-> chip'.has.miclevel]
      /\ chip'.has.group = IF wire[1][1] = "group" THEN wire[1][2] ELSE chip.has.group
  <2>1. chip' = IF wire[1][1] = "connect" THEN chip
                ELSE [chip EXCEPT !.has = [@ EXCEPT ![wire[1][1]] = wire[1][2]]]
    BY <1>3 DEF Obey
  <2>2. CASE wire[1][1] = "connect"
    BY <2>1, <2>2 DEF TrxTypes
  <2>3. CASE wire[1][1] = "group"
    <3>1. chip' = [chip EXCEPT !.has = [@ EXCEPT !.group = wire[1][2]]]
      BY <2>1, <2>3
    <3> QED
      BY <2>3, <3>1 DEF TrxTypes
  <2>4. CASE wire[1][1] = "volume"
    <3>1. chip' = [chip EXCEPT !.has = [@ EXCEPT !.volume = wire[1][2]]]
      BY <2>1, <2>4
    <3> QED
      BY <2>4, <3>1 DEF TrxTypes
  <2>5. CASE wire[1][1] = "miclevel"
    <3>1. chip' = [chip EXCEPT !.has = [@ EXCEPT !.miclevel = wire[1][2]]]
      BY <2>1, <2>5
    <3> QED
      BY <2>5, <3>1 DEF TrxTypes
  <2> QED
    BY <1>2, <2>2, <2>3, <2>4, <2>5
<1>6. Told'
  <2>1. (Copied <=> Copied') /\ Current' = Current /\ ~GroupSent'
    BY <1>1, <1>3 DEF Copied, Current, GroupSent
  <2>2. GroupSent <=> wire[1][1] = "group"
    BY <1>1 DEF GroupSent
  <2>3. wire[1] = <<"group", Current>> => wire[1][2] = Current
    OBVIOUS
  <2> QED
    BY <1>1, <1>5, <2>1, <2>2, <2>3 DEF Told
<1> QED
  BY <1>1, <1>4, <1>5, <1>6 DEF TrxTypes, Phases

LEMMA TrxStep == TrxInv /\ [TrxNext]_trx => TrxInv'
<1>1. TrxInv /\ UNCHANGED trx => TrxInv'
  BY DEF trx, TrxInv, TrxTypes, LineExact, Phases, Told, Copied, Current, GroupSent
<1>2. TrxNext => \/ \E t \in Setters : NewOrder(t)
                 \/ \E t \in Setters : Order(t)
                 \/ \E t \in DOMAIN place : ReadReply(t)
                 \/ PowerUp \/ Handshake \/ Initialize \/ Ready \/ PowerDown \/ Booted \/ Obey
  BY DEF TrxNext
<1> QED
  BY <1>1, <1>2, NewOrderStep, OrderStep, ReadReplyStep, PowerUpStep, HandshakeStep, InitializeStep,
     ReadyStep, PowerDownStep, BootedStep, ObeyStep

(* TrxExact: for any frequencies and squelch levels, in whatever phase of  *)
(* powering up they are set, a transceiver that is ready and has been told *)
(* all works with the parameters in EEPROM, and who waits has a reply to   *)
(* come.                                                                   *)
THEOREM TrxExactHolds == TrxSpec => []TrxExact
<1>1. TrxInv => TrxExact
  <2> SUFFICES ASSUME alone, TrxTypes, LineExact, Phases, Told PROVE TrxExact
    BY DEF TrxInv, TrxExact
  <2>1. radio.rdy /\ wire = << >> =>
          chip.has.group = <<param.txfreq, param.rxfreq, param.squelch, radio.flags>>
    BY DEF Phases, Told, GroupSent, Current
  <2> DEFINE W == {t \in DOMAIN place : place[t] \in Waiting}
  <2>2. Cardinality(W) = Len(wire) + replies
    <3>1. CASE (\A t \in Threads : place[t] \notin Waiting) /\ wire = << >> /\ replies = 0
      <4>1. W = {}
        BY <3>1, ThreadFacts
      <4>2. Cardinality(W) = 0
        BY <4>1, FS_EmptySet
      <4> QED
        BY <3>1, <4>2
    <3>2. ASSUME NEW t \in Threads, place[t] \in Waiting,
                 \A other \in Threads \ {t} : place[other] \notin Waiting,
                 \/ replies = 0 /\ wire = <<wire[1]>>
                 \/ wire = << >> /\ replies = 1
          PROVE  Cardinality(W) = Len(wire) + replies
      <4>1. W = {t}
        BY <3>2, ThreadFacts
      <4>2. Cardinality(W) = 1
        BY <4>1, FS_Singleton
      <4>3. Len(wire) + replies = 1
        <5>1. CASE replies = 0 /\ wire = <<wire[1]>>
          <6>1. Len(<<wire[1]>>) = 1
            OBVIOUS
          <6>2. Len(wire) = 1
            BY <5>1, <6>1, Zenon
          <6> QED
            BY <5>1, <6>2
        <5>2. CASE wire = << >> /\ replies = 1
          BY <5>2
        <5> QED
          BY <3>2, <5>1, <5>2
      <4> QED
        BY <4>2, <4>3
    <3> QED
      BY <3>1, <3>2 DEF LineExact
  <2> QED
    BY <2>1, <2>2 DEF TrxExact
<1> QED
  BY <1>1, TrxInitHolds, TrxStep, PTL DEF TrxSpec

----------------------------------------------------------------------------
(* The heard list. *)

\* A set of naturals has a least one, and Min is it.
LEMMA MinIsLeast ==
  ASSUME NEW I \in SUBSET Nat, I # {}
  PROVE  Min(I) \in I /\ \A k \in I : Min(I) <= k
<1> DEFINE R == {ss \in Nat \X Nat : ss[1] < ss[2]}
<1>1. PICK m \in I : \A k \in I : ~(<<k, m>> \in R)
  <2>1. IsWellFoundedOn(R, Nat)
    BY NatLessThanWellFounded DEF OpToRel
  <2> HIDE DEF R
  <2> QED
    BY <2>1, WFMin
<1>2. ASSUME NEW k \in I PROVE m <= k
  <2>1. m \in Nat /\ k \in Nat
    OBVIOUS
  <2>2. k < m => <<k, m>> \in R
    BY <2>1
  <2> QED
    BY <1>1, <2>1, <2>2
<1> QED
  BY <1>1, <1>2 DEF Min

\* Until the ring wraps for the first time, the entries are in the order they
\* were added, and those in use are the ones that have not expired.
HeardTypes ==
  /\ hlist \in [0..HEARDLIST_SIZE-1 -> Entries]
  /\ added \in 0..HEARDLIST_SIZE-1 /\ hlist_next = added /\ hlist_length \in 0..added
  /\ ticks \in 0..TimeMod-1 /\ time = ticks
  /\ heard \in [Values -> {Never} \cup Nat]

InOrder ==
  \A k \in 0..added-1 :
    /\ hlist[k].ts <= ticks /\ hlist[k].ts <= heard[hlist[k].val]
    /\ \A l \in k..added-1 : hlist[k].ts <= hlist[l].ts

HeardKept ==
  \A x \in Values : heard[x] # Never =>
    \E k \in 0..added-1 : hlist[k].val = x /\ hlist[k].ts = heard[x]

InUse ==
  \A k \in 0..added-1 :
    k >= hlist_next - hlist_length <=> ~Expired(hlist[k], ticks)

HeardInv == HeardTypes /\ InOrder /\ HeardKept /\ InUse

\* The loops go from the oldest entry in use to the newest.
LEMMA VisitedInUse ==
  ASSUME HeardTypes
  PROVE  /\ First = hlist_next - hlist_length /\ First \in 0..HEARDLIST_SIZE-1
         /\ Visited \in Seq(0..added-1) /\ Len(Visited) = hlist_length
         /\ \A k \in 1..hlist_length : Visited[k] = hlist_next - hlist_length + k - 1
<1>0. HEARDLIST_SIZE \in 1..255 /\ HEARDLIST_MAX_AGE \in Nat /\ TimeMod \in Nat \ {0}
  BY HeardlistAssumption
<1>1. /\ HEARDLIST_SIZE \in 1..255 /\ added \in 0..HEARDLIST_SIZE-1 /\ hlist_next = added
      /\ hlist_length \in 0..added
  BY <1>0 DEF HeardTypes
<1>2. First = hlist_next - hlist_length /\ First \in 0..HEARDLIST_SIZE-1
  BY <1>1 DEF First
<1>3. CASE hlist_length = 0
  <2>1. Visited = << >>
    BY <1>1, <1>2, <1>3 DEF Visited
  <2> QED
    BY <1>1, <1>2, <1>3, <2>1
<1>4. CASE hlist_length > 0
  <2>1. First + 1 \in 1..HEARDLIST_SIZE-1 /\ (First + 1) % HEARDLIST_SIZE = First + 1
    BY <1>1, <1>2, <1>4
  <2>2. hlist_next - (First + 1) = hlist_length - 1 /\ hlist_length - 1 \in 0..HEARDLIST_SIZE-1
    BY <1>1, <1>2, <1>4
  <2>3. (hlist_length - 1) % HEARDLIST_SIZE = hlist_length - 1
    BY <1>1, <2>2
  <2>4. \A k \in 1..hlist_length-1 : (First + 1 + k - 1) % HEARDLIST_SIZE = First + k
    <3> TAKE k \in 1..hlist_length-1
    <3>1. First + 1 + k - 1 = First + k /\ First + k \in 0..HEARDLIST_SIZE-1
      BY <1>1, <1>2
    <3>2. \A i \in 0..HEARDLIST_SIZE-1 : i % HEARDLIST_SIZE = i
      BY <1>1
    <3> QED
      BY <3>1, <3>2
  <2> DEFINE rest == [k \in 1..hlist_length-1 |-> First + k]
  <2>5. Visited = <<First>> \o rest
    <3>1. First # hlist_next
      BY <1>1, <1>2, <1>4
    <3>2. [k \in 1..hlist_length-1 |-> (First + 1 + k - 1) % HEARDLIST_SIZE] = rest
      BY <2>4
    <3> QED
      BY <2>1, <2>2, <2>3, <3>1, <3>2 DEF Visited
  <2>6. rest \in Seq(0..added-1) /\ Len(rest) = hlist_length - 1
    BY <1>1, <1>2, <1>4
  <2>7. <<First>> \in Seq(0..added-1) /\ Len(<<First>>) = 1 /\ <<First>>[1] = First
    BY <1>1, <1>2, <1>4
  <2>8. \A k \in 1..hlist_length-1 : rest[k] = First + k
    OBVIOUS
  <2> HIDE DEF rest
  <2>9. /\ Visited \in Seq(0..added-1) /\ Len(Visited) = hlist_length
        /\ \A k \in 1..hlist_length : Visited[k] = IF k = 1 THEN First ELSE rest[k - 1]
    BY <1>1, <1>4, <2>5, <2>6, <2>7
  <2>10. \A k \in 1..hlist_length : Visited[k] = hlist_next - hlist_length + k - 1
    <3>1. TAKE k \in 1..hlist_length
    <3>2. CASE k = 1
      BY <1>1, <1>2, <2>9, <3>2
    <3>3. CASE k # 1
      <4>1. k - 1 \in 1..hlist_length-1
        BY <1>1, <3>3
      <4> QED
        BY <1>1, <1>2, <2>8, <2>9, <3>3, <4>1
    <3> QED
      BY <3>2, <3>3
  <2> QED
    BY <1>2, <2>9, <2>10
<1> QED
  BY <1>1, <1>3, <1>4

\* What is in the list are the values of the entries in use.
LEMMA ExistsInUse ==
  ASSUME HeardTypes, NEW x, NEW junk
  PROVE  hlist_exists(x, junk) <=> \E k \in hlist_next-hlist_length .. added-1 : hlist[k].val = x
<1>0. HEARDLIST_SIZE \in 1..255 /\ HEARDLIST_MAX_AGE \in Nat /\ TimeMod \in Nat \ {0}
  BY HeardlistAssumption
<1>1. /\ added \in 0..HEARDLIST_SIZE-1 /\ hlist_next = added /\ hlist_length \in 0..added
      /\ HEARDLIST_SIZE \in 1..255
  BY <1>0 DEF HeardTypes
<1>2. DOMAIN Visited = 1..hlist_length
  BY <1>1, VisitedInUse
<1>3. \A k \in 1..hlist_length : Entry(Visited[k], junk) = hlist[hlist_next - hlist_length + k - 1]
  BY <1>1, VisitedInUse DEF Entry
<1>4. hlist_exists(x, junk) <=> \E k \in 1..hlist_length : hlist[hlist_next - hlist_length + k - 1].val = x
  BY <1>2, <1>3 DEF hlist_exists
<1>5. \A k \in 1..hlist_length : hlist_next - hlist_length + k - 1 \in hlist_next-hlist_length .. added-1
  BY <1>1
<1>6. ASSUME NEW k \in hlist_next-hlist_length .. added-1
      PROVE  LET j == k - (hlist_next - hlist_length) + 1
             IN  j \in 1..hlist_length /\ hlist_next - hlist_length + j - 1 = k
  BY <1>1
<1> QED
  BY <1>4, <1>5, <1>6

\* The entries in use are the values that are recent.
LEMMA RecentInUse ==
  ASSUME HeardInv, NEW x \in Values
  PROVE  (\E k \in hlist_next-hlist_length .. added-1 : hlist[k].val = x) <=> Recent(x)
<1>0. HEARDLIST_SIZE \in 1..255 /\ HEARDLIST_MAX_AGE \in Nat /\ TimeMod \in Nat \ {0}
  BY HeardlistAssumption
<1>1. /\ added \in 0..HEARDLIST_SIZE-1 /\ hlist_next = added /\ hlist_length \in 0..added
      /\ HEARDLIST_SIZE \in 1..255 /\ HEARDLIST_MAX_AGE \in Nat /\ ticks \in Nat
      /\ heard[x] \in {Never} \cup Nat /\ Never = -1
  BY <1>0 DEF HeardInv, HeardTypes, Never
<1>2. \A k \in 0..added-1 : hlist[k].ts \in Nat
  BY <1>0, <1>1 DEF HeardInv, HeardTypes, Entries
<1>3. ASSUME NEW k \in hlist_next-hlist_length .. added-1, hlist[k].val = x PROVE Recent(x)
  <2>1. k \in 0..added-1 /\ k >= hlist_next - hlist_length
    BY <1>1
  <2>2. ~ (hlist[k].ts < ticks - HEARDLIST_MAX_AGE) /\ hlist[k].ts <= heard[x]
    BY <1>3, <2>1 DEF HeardInv, InUse, InOrder, Expired
  <2> QED
    BY <1>1, <1>2, <2>1, <2>2 DEF Recent
<1>4. ASSUME Recent(x) PROVE \E k \in hlist_next-hlist_length .. added-1 : hlist[k].val = x
  <2>1. PICK k \in 0..added-1 : hlist[k].val = x /\ hlist[k].ts = heard[x]
    BY <1>4 DEF Recent, HeardInv, HeardKept
  <2>2. ~Expired(hlist[k], ticks)
    BY <1>1, <1>2, <1>4, <2>1 DEF Recent, Expired
  <2>3. k >= hlist_next - hlist_length
    BY <2>1, <2>2 DEF HeardInv, InUse
  <2> QED
    BY <1>1, <2>1, <2>3
<1> QED
  BY <1>3, <1>4

LEMMA HeardInit ==
  ASSUME Init
  PROVE  HeardInv
<1>1. HEARDLIST_SIZE \in 1..255 /\ TimeMod \in Nat \ {0} /\ 0 \in Values
  BY HeardlistAssumption
<1>2. added = 0 /\ hlist_next = 0 /\ hlist_length = 0 /\ ticks = 0 /\ time = 0
  BY DEF Init
<1>3. hlist \in [0..HEARDLIST_SIZE-1 -> Entries] /\ heard \in [Values -> {Never} \cup Nat]
  BY <1>1 DEF Init, Entries, Never
<1>4. \A x \in Values : heard[x] = Never
  BY DEF Init
<1>5. HeardTypes
  BY <1>1, <1>2, <1>3 DEF HeardTypes
<1> QED
  BY <1>2, <1>4, <1>5 DEF HeardInv, InOrder, HeardKept, InUse

\* A packet is looked up, and put into the list.
LEMMA HeardDuplicate ==
  ASSUME HeardInv, NEW x \in Values, NEW b, hlist_duplicate(x, b), Unwrapped'
  PROVE  HeardInv'
<1>0. HEARDLIST_SIZE \in 1..255 /\ HEARDLIST_MAX_AGE \in Nat /\ TimeMod \in Nat \ {0}
  BY HeardlistAssumption
<1>1. CASE UNCHANGED vars
  BY <1>1 DEF vars, HeardInv, HeardTypes, InOrder, HeardKept, InUse
<1>2. CASE /\ hlist_add(x) /\ heard' = [heard EXCEPT ![x] = ticks] /\ added' = added + 1
           /\ UNCHANGED <<time, ticks>>
  <2>1. /\ added \in 0..HEARDLIST_SIZE-1 /\ hlist_next = added /\ hlist_length \in 0..added
        /\ ticks \in 0..TimeMod-1 /\ time = ticks /\ hlist \in [0..HEARDLIST_SIZE-1 -> Entries]
        /\ heard \in [Values -> {Never} \cup Nat]
    BY DEF HeardInv, HeardTypes
  <2>2. (added + 1) % HEARDLIST_SIZE = added + 1 /\ added + 1 \in 0..HEARDLIST_SIZE-1
    <3>1. added + 1 < HEARDLIST_SIZE
      BY <1>2 DEF Unwrapped
    <3> QED
      BY <1>0, <2>1, <3>1
  <2>3. /\ added' = added + 1 /\ hlist_next' = added + 1 /\ hlist_length' = hlist_length + 1
        /\ ticks' = ticks /\ time' = ticks
    BY <1>0, <1>2, <2>1, <2>2 DEF hlist_add
  <2>4. [val |-> x, ts |-> time] \in Entries
    BY <1>0, <2>1 DEF Entries
  <2>5. hlist' \in [0..HEARDLIST_SIZE-1 -> Entries]
    BY <1>2, <2>1, <2>4 DEF hlist_add
  <2>6. heard' \in [Values -> {Never} \cup Nat]
    BY <1>2, <2>1
  <2>7. HeardTypes'
    BY <2>1, <2>2, <2>3, <2>5, <2>6 DEF HeardTypes
  <2>8. /\ \A k \in 0..added-1 : hlist'[k] = hlist[k]
        /\ hlist'[added].val = x /\ hlist'[added].ts = ticks
        /\ \A k \in 0..added-1 : hlist[k].ts \in Nat /\ hlist[k].val \in Values
    BY <1>0, <1>2, <2>1 DEF hlist_add, Entries
  <2>9. heard'[x] = ticks /\ \A y \in Values \ {x} : heard'[y] = heard[y]
    BY <1>2, <2>1
  <2>10. ASSUME NEW k \in 0..added'-1
         PROVE  /\ hlist'[k].ts <= ticks /\ hlist'[k].ts <= heard'[hlist'[k].val]
                /\ \A l \in k..added'-1 : hlist'[k].ts <= hlist'[l].ts
    <3>1. CASE k = added
      BY <2>1, <2>3, <2>8, <2>9, <3>1
    <3>2. CASE k # added
      <4>1. k \in 0..added-1
        BY <2>1, <2>3, <3>2
      <4>2. hlist[k].ts <= ticks /\ hlist[k].ts <= heard[hlist[k].val]
        BY <4>1 DEF HeardInv, InOrder
      <4>3. \A l \in k..added-1 : hlist[k].ts <= hlist[l].ts
        BY <4>1 DEF HeardInv, InOrder
      <4>4. hlist[k].ts <= heard'[hlist[k].val]
        BY <2>8, <2>9, <4>1, <4>2
      <4>5. ASSUME NEW l \in k..added'-1 PROVE hlist'[k].ts <= hlist'[l].ts
        <5>1. (l \in 0..added-1 /\ l \in k..added-1) \/ l = added
          BY <2>1, <2>3, <4>1
        <5> QED
          BY <2>8, <4>1, <4>2, <4>3, <5>1
      <4> QED
        BY <2>8, <4>1, <4>2, <4>4, <4>5
    <3> QED
      BY <3>1, <3>2
  <2>11. InOrder'
    BY <2>3, <2>10 DEF InOrder
  <2>12. ASSUME NEW y \in Values, heard'[y] # Never
         PROVE  \E k \in 0..added'-1 : hlist'[k].val = y /\ hlist'[k].ts = heard'[y]
    <3>1. CASE y = x
      BY <2>1, <2>3, <2>8, <2>9, <3>1
    <3>2. CASE y # x
      <4>1. PICK k \in 0..added-1 : hlist[k].val = y /\ hlist[k].ts = heard[y]
        BY <2>9, <2>12, <3>2 DEF HeardInv, HeardKept
      <4>2. k \in 0..added'-1
        BY <2>1, <2>3
      <4> QED
        BY <2>8, <2>9, <3>2, <4>1, <4>2
    <3> QED
      BY <3>1, <3>2
  <2>13. ASSUME NEW k \in 0..added'-1
         PROVE  k >= hlist_next' - hlist_length' <=> ~Expired(hlist'[k], ticks')
    <3>1. hlist_next' - hlist_length' = hlist_next - hlist_length
      BY <2>1, <2>3
    <3>2. CASE k = added
      BY <1>0, <2>1, <2>3, <2>8, <3>1, <3>2 DEF Expired
    <3>3. CASE k # added
      <4>1. k \in 0..added-1
        BY <2>1, <2>3, <3>3
      <4>2. k >= hlist_next - hlist_length <=> ~Expired(hlist[k], ticks)
        BY <4>1 DEF HeardInv, InUse
      <4> QED
        BY <2>3, <2>8, <3>1, <4>1, <4>2
    <3> QED
      BY <3>2, <3>3
  <2> QED
    BY <2>7, <2>11, <2>12, <2>13 DEF HeardInv, HeardKept, InUse
<1> QED
  BY <1>1, <1>2 DEF hlist_duplicate

\* A tick drops exactly what expires by it.
LEMMA HeardTick ==
  ASSUME HeardInv, Tick, Unwrapped'
  PROVE  HeardInv'
<1>0. HEARDLIST_SIZE \in 1..255 /\ HEARDLIST_MAX_AGE \in Nat /\ TimeMod \in Nat \ {0}
  BY HeardlistAssumption
<1>1. /\ added \in 0..HEARDLIST_SIZE-1 /\ hlist_next = added /\ hlist_length \in 0..added
      /\ ticks \in 0..TimeMod-1 /\ time = ticks /\ hlist \in [0..HEARDLIST_SIZE-1 -> Entries]
  BY DEF HeardInv, HeardTypes
<1>2. /\ ticks' = ticks + 1 /\ ticks' \in 0..TimeMod-1 /\ hlist' = hlist /\ hlist_next' = hlist_next
      /\ heard' = heard /\ added' = added
  BY <1>0, <1>1 DEF Tick, Unwrapped
<1>3. time' = ticks + 1
  <2>1. time' = (ticks + 1) % TimeMod /\ ticks + 1 \in 0..TimeMod-1
    BY <1>0, <1>1, <1>2 DEF Tick
  <2> QED
    BY <1>0, <2>1
<1>4. \A k \in 0..added-1 : hlist[k].ts \in Nat
  BY <1>0, <1>1 DEF Entries
<1> DEFINE old(k) == hlist[hlist_next - hlist_length + k - 1]
           I == {k \in 1..hlist_length : ~Expired(old(k), ticks + 1)}
<1>5. I \in SUBSET Nat /\ I \subseteq 1..hlist_length
  BY <1>1
<1>6. PICK kept : /\ kept = IF I # {} THEN Min(I) ELSE 0
                  /\ hlist_length' = (hlist_length - IF kept = 0 THEN hlist_length ELSE kept - 1) % 256
  <2>1. HeardTypes
    BY DEF HeardInv
  <2>2. /\ Len(Visited) = hlist_length
        /\ \A k \in 1..hlist_length : Visited[k] = hlist_next - hlist_length + k - 1
    BY <2>1, VisitedInUse
  <2>3. PICK junk \in Junk :
          LET kept == SelectInSeq(Visited, LAMBDA i : ~Expired(Entry(i, junk), time'))
              drop == IF kept = 0 THEN Len(Visited) ELSE kept - 1
          IN  hlist_length' = (hlist_length - drop) % 256
    BY DEF Tick
  <2>4. \A k \in 1..hlist_length : Entry(Visited[k], junk) = old(k)
    BY <1>0, <1>1, <2>2 DEF Entry
  <2>5. {k \in 1..Len(Visited) : ~Expired(Entry(Visited[k], junk), time')} = I
    BY <1>3, <2>2, <2>4
  <2>6. SelectInSeq(Visited, LAMBDA i : ~Expired(Entry(i, junk), time')) = IF I # {} THEN Min(I) ELSE 0
    BY <2>5 DEF SelectInSeq
  <2> HIDE DEF I
  <2> QED
    BY <2>2, <2>3, <2>6
<1>7. hlist_length' \in 0..hlist_length
       /\ \A k \in 1..hlist_length :
            k > hlist_length - hlist_length' <=> ~Expired(old(k), ticks + 1)
  <2>1. CASE I = {}
    <3>1. hlist_length' = 0
      BY <1>1, <1>6, <2>1
    <3>2. \A k \in 1..hlist_length : Expired(old(k), ticks + 1)
      BY <2>1
    <3>3. \A k \in 1..hlist_length : ~(k > hlist_length - hlist_length')
      BY <1>1, <3>1
    <3>4. hlist_length' \in 0..hlist_length
      BY <1>1, <3>1
    <3> QED
      BY <3>2, <3>3, <3>4, Zenon
  <2>2. CASE I # {}
    <3>1. kept \in 1..hlist_length /\ ~Expired(old(kept), ticks + 1) /\ \A k \in I : kept <= k
      <4> HIDE DEF I
      <4>1. kept \in I /\ \A k \in I : kept <= k
        BY <1>5, <1>6, <2>2, MinIsLeast
      <4> QED
        BY <4>1 DEF I
    <3>2. hlist_length - (kept - 1) \in 0..255 /\ hlist_length' = (hlist_length - (kept - 1)) % 256
      <4>1. hlist_length - (kept - 1) \in 0..255
        BY <1>0, <1>1, <3>1
      <4>2. kept # 0
        BY <3>1
      <4> QED
        BY <1>6, <4>1, <4>2
    <3>3. hlist_length' = hlist_length - (kept - 1)
      BY <3>2
    <3>4. ASSUME NEW k \in kept..hlist_length PROVE ~Expired(old(k), ticks + 1)
      <4>1. /\ hlist_next - hlist_length + kept - 1 \in 0..added-1
            /\ hlist_next - hlist_length + k - 1 \in (hlist_next - hlist_length + kept - 1)..added-1
            /\ hlist_next - hlist_length + k - 1 \in 0..added-1
        BY <1>1, <3>1
      <4>2. old(kept).ts <= old(k).ts
        BY <4>1 DEF HeardInv, InOrder
      <4> QED
        BY <1>0, <1>1, <1>4, <3>1, <4>1, <4>2 DEF Expired
    <3>5. ASSUME NEW k \in 1..kept-1 PROVE Expired(old(k), ticks + 1)
      <4>1. k \notin I /\ k \in 1..hlist_length
        BY <1>1, <3>1
      <4> QED
        BY <4>1
    <3>6. hlist_length' \in 0..hlist_length /\ hlist_length - hlist_length' = kept - 1
      BY <1>1, <3>1, <3>3
    <3>7. \A k \in 1..hlist_length : k \in kept..hlist_length \/ k \in 1..kept-1
      BY <1>1, <3>1
    <3>8. /\ \A k \in kept..hlist_length : k > kept - 1
          /\ \A k \in 1..kept-1 : ~(k > kept - 1)
      BY <1>1, <3>1
    <3>9. ASSUME NEW k \in 1..hlist_length
          PROVE  k > hlist_length - hlist_length' <=> ~Expired(old(k), ticks + 1)
      <4> HIDE DEF old
      <4> QED
        BY <3>4, <3>5, <3>6, <3>7, <3>8
    <3> QED
      BY <3>6, <3>9
  <2> QED
    BY <2>1, <2>2
<1>13. hlist_length' \in 0..hlist_length
  BY <1>7, Zenon
<1>14. /\ added \in Int /\ hlist_next \in Int /\ hlist_length \in Int /\ hlist_length' \in Int
       /\ hlist_length' <= hlist_length
  BY <1>1, <1>13
<1>15. PICK n \in Int : n = hlist_length'
  BY <1>14
<1>16. added \in Int /\ hlist_next \in Int /\ hlist_length \in Int /\ n <= hlist_length
  BY <1>14, <1>15
<1>8. ASSUME NEW k \in 0..added-1
      PROVE  k >= hlist_next - n <=> ~Expired(hlist[k], ticks + 1)
  <2>1. CASE k >= hlist_next - hlist_length
    <3>1. PICK j \in 1..hlist_length : k = hlist_next - hlist_length + j - 1
      <4>1. k - (hlist_next - hlist_length) + 1 \in 1..hlist_length
        BY <1>1, <2>1
      <4> QED
        BY <1>1, <4>1
    <3>2. j > hlist_length - n <=> ~Expired(hlist[k], ticks + 1)
      BY <1>7, <1>15, <3>1
    <3>3. k >= hlist_next - n <=> j > hlist_length - n
      BY <1>16, <3>1
    <3> QED
      BY <3>2, <3>3, Zenon
  <2>2. CASE ~(k >= hlist_next - hlist_length)
    <3>1. Expired(hlist[k], ticks)
      BY <2>2 DEF HeardInv, InUse
    <3>2. Expired(hlist[k], ticks + 1)
      BY <1>0, <1>1, <1>4, <3>1 DEF Expired
    <3>3. ~(k >= hlist_next - n)
      BY <1>16, <2>2
    <3> QED
      BY <3>2, <3>3, Zenon
  <2> QED
    BY <2>1, <2>2
<1> HIDE DEF I, old
<1>9. HeardTypes'
  <2>1. heard' \in [Values -> {Never} \cup Nat]
    BY <1>2 DEF HeardInv, HeardTypes
  <2>2. hlist_length' \in 0..added'
    BY <1>1, <1>2, <1>7
  <2> QED
    BY <1>1, <1>2, <1>3, <2>1, <2>2 DEF HeardTypes
<1>10. InOrder'
  <2>1. \A k \in 0..added-1 : hlist[k].ts <= ticks + 1
    BY <1>1, <1>4 DEF HeardInv, InOrder
  <2> QED
    BY <1>2, <2>1 DEF HeardInv, InOrder
<1>11. HeardKept'
  BY <1>2 DEF HeardInv, HeardKept
<1>12. InUse'
  BY <1>2, <1>8, <1>15 DEF InUse
<1> QED
  BY <1>9, <1>10, <1>11, <1>12 DEF HeardInv

LEMMA HeardExact ==
  ASSUME HeardInv
  PROVE  DuplicateExact
<1>1. HeardTypes
  BY DEF HeardInv
<1> QED
  BY <1>1, ExistsInUse, RecentInUse DEF DuplicateExact

\* What holds on every step, the ring wrapped or not.
HeardAlways == added \in Nat /\ ticks \in Nat /\ (Unwrapped => HeardInv)

LEMMA HeardStep == HeardAlways /\ [Next]_vars => HeardAlways'
<1> SUFFICES ASSUME HeardAlways, [Next]_vars PROVE HeardAlways'
  OBVIOUS
<1>1. CASE UNCHANGED vars
  BY <1>1 DEF vars, HeardAlways, Unwrapped, HeardInv, HeardTypes, InOrder, HeardKept, InUse
<1>2. ASSUME NEW x \in Values, Receive(x) PROVE HeardAlways'
  <2>1. PICK b \in BOOLEAN : hlist_duplicate(x, b)
    BY <1>2 DEF Receive
  <2>2. added' \in {added, added + 1} /\ ticks' = ticks
    BY <2>1 DEF hlist_duplicate, vars
  <2>3. added' \in Nat /\ ticks' \in Nat /\ (Unwrapped' => Unwrapped)
    BY <2>2, HeardlistAssumption DEF HeardAlways, Unwrapped
  <2>4. Unwrapped' => HeardInv'
    BY <2>1, <2>3, HeardDuplicate DEF HeardAlways
  <2> QED
    BY <2>3, <2>4 DEF HeardAlways
<1>3. CASE Tick
  <2>1. added' = added /\ ticks' = ticks + 1
    BY <1>3 DEF Tick
  <2>2. added' \in Nat /\ ticks' \in Nat /\ (Unwrapped' => Unwrapped)
    BY <2>1, HeardlistAssumption DEF HeardAlways, Unwrapped
  <2>3. Unwrapped' => HeardInv'
    BY <1>3, <2>2, HeardTick DEF HeardAlways
  <2> QED
    BY <2>2, <2>3 DEF HeardAlways
<1> QED
  BY <1>1, <1>2, <1>3 DEF Next

(***************************************************************************)
(* Until the ring wraps for the first time, or the time, a packet is taken *)
(* for a duplicate exactly when it was added within the last               *)
(* HEARDLIST_MAX_AGE ticks (heardlist.c:49-123): for a list of any size    *)
(* and any maximum age.  After that the loops start outside of the array.  *)
(***************************************************************************)
THEOREM DuplicateExactHolds == Spec => []DuplicateExact
<1>1. Init => HeardAlways
  <2>1. Init => added = 0 /\ ticks = 0
    BY DEF Init
  <2> QED
    BY <2>1, HeardInit DEF HeardAlways
<1>2. HeardAlways /\ [Next]_vars => HeardAlways'
  BY HeardStep
<1>3. HeardAlways => DuplicateExact
  BY HeardExact DEF HeardAlways, DuplicateExact
<1> QED
  BY <1>1, <1>2, <1>3, PTL DEF Spec

----------------------------------------------------------------------------
(* What the digipeater does with the path of a frame. *)

\* The fields of a header: the last-flag is at the end of the path.
LEMMA FieldsOfHeader ==
  ASSUME NEW path \in Seq(Address), NEW c, NEW p, Len(path) <= MAX_DIGIS,
         NEW fields, fields = EncodeHeader(Sender, DEST, path, c, p).fields
  PROVE  /\ Len(fields) = Len(path) + 2 /\ Len(path) \in 0..MAX_DIGIS
         /\ ~fields[1].last /\ (fields[2].last <=> Len(path) = 0)
         /\ \A k \in 1..Len(path) :
              /\ fields[k + 2].call = path[k].call /\ fields[k + 2].ssid = path[k].ssid
              /\ fields[k + 2].used = path[k].used /\ (fields[k + 2].last <=> k = Len(path))
<1> DEFINE head == <<Field(DEST, FALSE), Field(Sender, path = << >>)>>
           tail == [k \in 1..Len(path) |-> Field(path[k], k = Len(path))]
<1>1. Len(path) \in 0..MAX_DIGIS /\ DOMAIN path = 1..Len(path) /\ ~(Len(path) > MAX_DIGIS)
  <2>1. Len(path) \in Nat /\ DOMAIN path = 1..Len(path)
    BY LenProperties
  <2>2. Len(path) <= 7
    BY DEF MAX_DIGIS
  <2>3. Len(path) \in 0..MAX_DIGIS
    <3>1. PICK n \in Nat : n = Len(path)
      BY <2>1
    <3>2. n <= 7
      BY <2>2, <3>1
    <3>3. n \in 0..MAX_DIGIS
      BY <3>2 DEF MAX_DIGIS
    <3> QED
      BY <3>1, <3>3
  <2>4. ~(Len(path) > MAX_DIGIS)
    BY <2>1, <2>2 DEF MAX_DIGIS
  <2> QED
    BY <2>1, <2>3, <2>4
<1>7. path = << >> <=> Len(path) = 0
  BY EmptySeq
<1>2. fields = head \o tail
  <2>1. fields = <<Field(DEST, FALSE), Field(Sender, path = << >>)>>
                 \o [k \in DOMAIN path |-> Field(path[k], k = Len(path))]
    BY <1>1 DEF EncodeHeader
  <2> QED
    BY <1>1, <2>1
<1> DEFINE T == {head[1], head[2]} \cup {tail[k] : k \in 1..Len(path)}
<1>3. head \in Seq(T) /\ Len(head) = 2 /\ tail \in Seq(T) /\ Len(tail) = Len(path)
  <2>1. head \in Seq(T) /\ Len(head) = 2
    OBVIOUS
  <2>2. \A k \in 1..Len(path) : tail[k] \in T
    OBVIOUS
  <2> HIDE DEF T
  <2>3. tail \in [1..Len(path) -> T]
    BY <2>2, Zenon
  <2>5. Len(path) \in Nat
    BY LenProperties
  <2> HIDE DEF tail
  <2>4. tail \in Seq(T) /\ Len(tail) = Len(path)
    BY <2>3, <2>5
  <2> QED
    BY <2>1, <2>4
<1>4. head[1] = Field(DEST, FALSE) /\ head[2] = Field(Sender, path = << >>)
  OBVIOUS
<1>5. \A k \in 1..Len(path) : tail[k] = Field(path[k], k = Len(path))
  OBVIOUS
<1> HIDE DEF head, tail, T
<1>6. /\ Len(fields) = Len(path) + 2 /\ fields[1] = head[1] /\ fields[2] = head[2]
      /\ \A k \in 1..Len(path) : fields[k + 2] = tail[k]
  <2>1. /\ Len(fields) = 2 + Len(path)
        /\ \A k \in 1..2+Len(path) : fields[k] = IF k <= 2 THEN head[k] ELSE tail[k - 2]
    <3>1. /\ Len(head \o tail) = Len(head) + Len(tail)
          /\ \A k \in 1..Len(head)+Len(tail) :
               (head \o tail)[k] = IF k <= Len(head) THEN head[k] ELSE tail[k - Len(head)]
      BY <1>3, ConcatProperties
    <3> QED
      BY <1>2, <1>3, <3>1
  <2>2. Len(path) \in Nat
    BY LenProperties
  <2>4. 1 \in 1..2+Len(path) /\ 2 \in 1..2+Len(path) /\ 2 + Len(path) = Len(path) + 2
    BY <2>2
  <2>3. \A k \in 1..Len(path) : k + 2 \in 1..2+Len(path) /\ ~(k + 2 <= 2) /\ (k + 2) - 2 = k
    BY <2>2
  <2> QED
    BY <2>1, <2>3, <2>4
<1>8. ~fields[1].last /\ (fields[2].last <=> Len(path) = 0)
  <2>1. fields[1].last = FALSE /\ fields[2].last = (path = << >>)
    BY <1>4, <1>6 DEF Field
  <2> QED
    BY <1>7, <2>1
<1>9. ASSUME NEW k \in 1..Len(path)
      PROVE  /\ fields[k + 2].call = path[k].call /\ fields[k + 2].ssid = path[k].ssid
             /\ fields[k + 2].used = path[k].used /\ (fields[k + 2].last <=> k = Len(path))
  <2>1. fields[k + 2] = Field(path[k], k = Len(path))
    BY <1>5, <1>6
  <2>2. fields[k + 2].last = (k = Len(path))
    BY <2>1 DEF Field
  <2>3. /\ fields[k + 2].call = path[k].call /\ fields[k + 2].ssid = path[k].ssid
        /\ fields[k + 2].used = path[k].used
    BY <2>1 DEF Field
  <2> QED
    BY <2>2, <2>3, Zenon
<1> QED
  BY <1>1, <1>6, <1>8, <1>9

\* What is encoded is decoded.
LEMMA DecodedIsEncoded ==
  ASSUME NEW path \in Seq(Address), NEW c, NEW p, Len(path) <= MAX_DIGIS,
         NEW frame, frame.fields = EncodeHeader(Sender, DEST, path, c, p).fields
  PROVE  DecodedPath(frame) = path
<1>1. PICK fields : fields = frame.fields
  OBVIOUS
<1>2. /\ Len(fields) = Len(path) + 2 /\ Len(path) \in 0..MAX_DIGIS
      /\ ~fields[1].last /\ (fields[2].last <=> Len(path) = 0)
      /\ \A k \in 1..Len(path) :
           /\ fields[k + 2].call = path[k].call /\ fields[k + 2].ssid = path[k].ssid
           /\ fields[k + 2].used = path[k].used /\ (fields[k + 2].last <=> k = Len(path))
  BY <1>1, FieldsOfHeader
<1> DEFINE I == {k \in 1..Len(fields) : fields[k].last}
<1>3. I = {Len(path) + 2}
  <2>1. Len(path) + 2 \in I
    <3>1. CASE Len(path) = 0
      BY <1>2, <3>1
    <3>2. CASE Len(path) # 0
      <4>1. Len(path) \in 1..Len(path)
        BY <1>2, <3>2
      <4> QED
        BY <1>2, <4>1
    <3> QED
      BY <3>1, <3>2
  <2>2. ASSUME NEW k \in I PROVE k = Len(path) + 2
    <3>1. k \in 1..Len(path)+2 /\ fields[k].last
      BY <1>2
    <3>2. CASE k \in 1..2
      BY <1>2, <3>1, <3>2
    <3>3. CASE k > 2
      <4>1. k - 2 \in 1..Len(path) /\ (k - 2) + 2 = k
        BY <1>2, <3>1, <3>3
      <4> QED
        BY <1>2, <3>1, <4>1
    <3> QED
      BY <1>2, <3>1, <3>2, <3>3
  <2> QED
    BY <2>1, <2>2
<1>4. SelectInSeq(fields, LAMBDA a : a.last) = Len(path) + 2
  <2>1. SelectInSeq(fields, LAMBDA a : a.last) = IF I # {} THEN Min(I) ELSE 0
    BY DEF SelectInSeq
  <2>2. Min(I) \in I
    <3>1. I \in SUBSET Nat /\ I # {}
      BY <1>2, <1>3
    <3> HIDE DEF I
    <3> QED
      BY <3>1, MinIsLeast
  <2> HIDE DEF I
  <2> QED
    BY <1>3, <2>1, <2>2
<1> HIDE DEF I
<1>5. DecodedPath(frame) = [k \in 1..Len(path) |-> addr(fields[k + 2].call, fields[k + 2].ssid,
                                                        fields[k + 2].used)]
  BY <1>1, <1>2, <1>4 DEF DecodedPath, MAX_DIGIS
<1>6. \A k \in 1..Len(path) :
         addr(fields[k + 2].call, fields[k + 2].ssid, fields[k + 2].used) = path[k]
  <2>1. TAKE k \in 1..Len(path)
  <2>2. path[k] \in Address
    OBVIOUS
  <2>3. path[k] = [call |-> path[k].call, ssid |-> path[k].ssid, used |-> path[k].used]
    BY <2>2 DEF Address
  <2> QED
    BY <1>2, <2>3 DEF addr
<1>7. path = [k \in 1..Len(path) |-> path[k]]
  OBVIOUS
<1> QED
  BY <1>5, <1>6, <1>7

\* The used digis a path begins with.
LEMMA UsedFacts ==
  ASSUME NEW path \in Seq(Address)
  PROVE  /\ UsedDigis(path) \in 0..Len(path)
         /\ \A k \in 1..UsedDigis(path) : path[k].used
         /\ UsedDigis(path) < Len(path) => ~path[UsedDigis(path) + 1].used
<1> DEFINE I == {k \in 1..Len(path) : ~path[k].used}
<1>1. SelectInSeq(path, LAMBDA a : ~a.used) = IF I # {} THEN Min(I) ELSE 0
  BY DEF SelectInSeq
<1>2. Len(path) \in Nat
  BY LenProperties
<1>3. CASE I = {}
  <2>1. UsedDigis(path) = Len(path)
    BY <1>1, <1>3 DEF UsedDigis
  <2> QED
    BY <1>2, <1>3, <2>1
<1>4. CASE I # {}
  <2>1. PICK m : m = Min(I)
    OBVIOUS
  <2>2. m \in I /\ \A k \in I : m <= k
    <3>1. I \in SUBSET Nat
      BY <1>2
    <3> HIDE DEF I
    <3> QED
      BY <1>4, <2>1, <3>1, MinIsLeast
  <2>3. m \in 1..Len(path) /\ ~path[m].used /\ \A k \in 1..m-1 : path[k].used
    BY <1>2, <2>2
  <2>4. UsedDigis(path) = m - 1
    <3> HIDE DEF I
    <3> QED
      BY <1>1, <1>4, <2>1, <2>3 DEF UsedDigis
  <2> QED
    BY <1>2, <2>3, <2>4
<1> QED
  BY <1>3, <1>4

\* The used digis are known by where they end.
LEMMA UsedAre ==
  ASSUME NEW path \in Seq(Address), NEW n \in 0..Len(path), \A k \in 1..n : path[k].used,
         n < Len(path) => ~path[n + 1].used
  PROVE  UsedDigis(path) = n
<1>1. PICK u : u = UsedDigis(path)
  OBVIOUS
<1>2. /\ u \in 0..Len(path) /\ \A k \in 1..u : path[k].used
      /\ u < Len(path) => ~path[u + 1].used
  BY <1>1, UsedFacts
<1>3. Len(path) \in Nat
  BY LenProperties
<1>4. u < n => u + 1 \in 1..n /\ u < Len(path)
  BY <1>2, <1>3
<1>5. n < u => n + 1 \in 1..u /\ n < Len(path)
  BY <1>2, <1>3
<1>6. ~(u < n) /\ ~(n < u)
  BY <1>2, <1>4, <1>5
<1> QED
  BY <1>1, <1>2, <1>6

\* A sequence without one of its elements.
LEMMA RemoveAtFacts ==
  ASSUME NEW S, NEW s \in Seq(S), NEW k \in 1..Len(s)
  PROVE  /\ RemoveAt(s, k) \in Seq(S) /\ Len(RemoveAt(s, k)) = Len(s) - 1
         /\ \A j \in 1..Len(s)-1 : RemoveAt(s, k)[j] = IF j < k THEN s[j] ELSE s[j + 1]
<1>1. PICK n \in Nat : n = Len(s)
  BY LenProperties
<1>2. PICK a, b : a = SubSeq(s, 1, k - 1) /\ b = SubSeq(s, k + 1, n)
  OBVIOUS
<1>3. a \in Seq(S) /\ Len(a) = k - 1 /\ \A j \in 1..k-1 : a[j] = s[j]
  <2>1. \A j \in 1..k-1 : s[j] \in S
    BY <1>1, ElementOfSeq
  <2>2. 1 \in Int /\ k - 1 \in Int
    BY <1>1
  <2>3. /\ Len(a) = IF 1 <= k - 1 THEN k - 1 - 1 + 1 ELSE 0
        /\ \A j \in 1..(k - 1 - 1 + 1) : a[j] = s[1 + j - 1]
    BY <1>1, <1>2, SubSeqProperties
  <2>4. a \in Seq(S)
    BY <1>1, <1>2, SubSeqProperties
  <2>5. \A j \in 1..k-1 : j \in 1..(k - 1 - 1 + 1) /\ 1 + j - 1 = j
    BY <1>1
  <2>6. Len(a) = k - 1
    BY <1>1, <2>3
  <2> QED
    BY <2>3, <2>4, <2>5, <2>6
<1>4. b \in Seq(S) /\ Len(b) = n - k /\ \A j \in 1..n-k : b[j] = s[k + j]
  <2>3. /\ Len(b) = IF k + 1 <= n THEN n - (k + 1) + 1 ELSE 0
        /\ \A j \in 1..(n - (k + 1) + 1) : b[j] = s[k + 1 + j - 1]
    BY <1>1, <1>2, SubSeqProperties
  <2>4. b \in Seq(S)
    BY <1>1, <1>2, SubSeqProperties
  <2>5. \A j \in 1..n-k : j \in 1..(n - (k + 1) + 1) /\ k + 1 + j - 1 = k + j
    BY <1>1
  <2>6. Len(b) = n - k
    BY <1>1, <2>3
  <2> QED
    BY <2>3, <2>4, <2>5, <2>6
<1>5. RemoveAt(s, k) = a \o b
  BY <1>1, <1>2 DEF RemoveAt
<1>6. /\ a \o b \in Seq(S) /\ Len(a \o b) = Len(a) + Len(b)
      /\ \A j \in 1..Len(a)+Len(b) : (a \o b)[j] = IF j <= Len(a) THEN a[j] ELSE b[j - Len(a)]
  BY <1>3, <1>4, ConcatProperties
<1>7. Len(a) + Len(b) = n - 1
  BY <1>1, <1>3, <1>4
<1>8. ASSUME NEW j \in 1..n-1 PROVE (a \o b)[j] = IF j < k THEN s[j] ELSE s[j + 1]
  <2>1. CASE j < k
    <3>1. j <= Len(a) /\ j \in 1..k-1
      BY <1>1, <1>3, <2>1
    <3> QED
      BY <1>3, <1>6, <1>7, <2>1, <3>1
  <2>2. CASE ~(j < k)
    <3>1. ~(j <= Len(a)) /\ j - Len(a) = j - (k - 1) /\ j - (k - 1) \in 1..n-k /\ k + (j - (k - 1)) = j + 1
      BY <1>1, <1>3, <2>2
    <3>2. (a \o b)[j] = b[j - (k - 1)]
      BY <1>6, <1>7, <3>1
    <3> QED
      BY <1>4, <2>2, <3>1, <3>2
  <2> QED
    BY <2>1, <2>2
<1> QED
  BY <1>1, <1>5, <1>6, <1>7, <1>8

\* A part of a sequence, maybe empty.
LEMMA PartFacts ==
  ASSUME NEW S, NEW s \in Seq(S), NEW i \in 1..Len(s)+1, NEW j \in (i - 1)..Len(s)
  PROVE  /\ SubSeq(s, i, j) \in Seq(S) /\ Len(SubSeq(s, i, j)) = j - i + 1
         /\ \A l \in 1..(j - i + 1) : SubSeq(s, i, j)[l] = s[i + l - 1]
<1>1. Len(s) \in Nat /\ i \in Int /\ j \in Int
  BY LenProperties
<1>2. \A l \in i..j : s[l] \in S
  <2>1. \A l \in i..j : l \in 1..Len(s)
    BY <1>1
  <2> QED
    BY <2>1, ElementOfSeq
<1>3. PICK p : p = SubSeq(s, i, j)
  OBVIOUS
<1>4. /\ p \in Seq(S) /\ Len(p) = IF i <= j THEN j - i + 1 ELSE 0
      /\ \A l \in 1..(j - i + 1) : p[l] = s[i + l - 1]
  BY <1>1, <1>2, <1>3, SubSeqProperties
<1>5. Len(p) = j - i + 1
  BY <1>1, <1>4
<1> QED
  BY <1>3, <1>4, <1>5

\* new is path, of which n are used, with this station and the alias after
\* those and without the alias at k.
IsNewPath(path, n, k, new) ==
  /\ new \in Seq(Address) /\ Len(new) = Len(path) + 1
  /\ n \in 0..Len(path)-1 /\ k \in n+1..Len(path)
  /\ \A j \in 1..n : new[j] = path[j]
  /\ new[n + 1] = [MYCALL EXCEPT !.used = TRUE] /\ new[n + 2].used
  /\ \A i \in n+3..Len(path)+1 : new[i] = IF i - 2 < k THEN path[i - 2] ELSE path[i - 1]

\* The new path: those that repeated the frame, this station, the alias, and
\* the rest of the path without the alias, which was at place k.
LEMMA NewPathIs ==
  ASSUME NEW path \in Seq(Address), NEW sar, NEW n, n = UsedDigis(path), NEW k \in 1..Len(path),
         \/ sar = 0 /\ k = n + 1
         \/ sar = k /\ n = 0,
         NEW new, new = NewPath(path, sar)
  PROVE  IsNewPath(path, n, k, new)
<1>1. PICK len \in Nat : len = Len(path)
  BY LenProperties
<1>2. n \in 0..len-1 /\ k \in n+1..len
  <2>1. n \in 0..len /\ (sar = k => sar # 0)
    BY <1>1, UsedFacts
  <2> QED
    BY <1>1, <2>1
<1>3. PICK a, rest, cut, mid :
        /\ a = SubSeq(path, 1, n) /\ rest = SubSeq(path, n + 1, len)
        /\ cut = IF sar > 0 THEN RemoveAt(rest, sar - n) ELSE Tail(rest)
        /\ mid = <<[MYCALL EXCEPT !.used = TRUE], addr(IF sar > 0 THEN "SAR" ELSE "WIDE1", 0, TRUE)>>
  OBVIOUS
<1>4. new = a \o mid \o cut
  BY <1>1, <1>3 DEF NewPath
<1>5. a \in Seq(Address) /\ Len(a) = n /\ \A j \in 1..n : a[j] = path[j]
  <2>1. 1 \in 1..len+1 /\ n \in (1 - 1)..len /\ n - 1 + 1 = n /\ \A j \in 1..n : 1 + j - 1 = j
    BY <1>2
  <2> QED
    BY <1>1, <1>3, <2>1, PartFacts
<1>6. rest \in Seq(Address) /\ Len(rest) = len - n /\ \A j \in 1..len-n : rest[j] = path[n + j]
  <2>1. /\ n + 1 \in 1..len+1 /\ len \in (n + 1 - 1)..len /\ len - (n + 1) + 1 = len - n
        /\ \A j \in 1..len-n : n + 1 + j - 1 = n + j
    BY <1>2
  <2> QED
    BY <1>1, <1>3, <2>1, PartFacts
<1>7. /\ cut \in Seq(Address) /\ Len(cut) = len - n - 1
      /\ \A j \in 1..len-n-1 : cut[j] = IF n + j < k THEN path[n + j] ELSE path[n + j + 1]
  <2>1. CASE sar = 0 /\ k = n + 1
    <3>1. rest # << >> /\ cut = Tail(rest)
      BY <1>2, <1>3, <1>6, <2>1
    <3>2. cut \in Seq(Address) /\ Len(cut) = len - n - 1 /\ \A j \in 1..len-n-1 : cut[j] = rest[j + 1]
      BY <1>6, <3>1, HeadTailProperties
    <3>3. \A j \in 1..len-n-1 : j + 1 \in 1..len-n /\ ~(n + j < k) /\ n + (j + 1) = n + j + 1
      BY <1>2, <2>1
    <3> QED
      BY <1>6, <3>2, <3>3
  <2>2. CASE sar = k /\ n = 0
    <3>1. k \in 1..Len(rest) /\ cut = RemoveAt(rest, k) /\ Len(rest) = len
      BY <1>2, <1>3, <1>6, <2>2
    <3>2. /\ cut \in Seq(Address) /\ Len(cut) = len - 1
          /\ \A j \in 1..len-1 : cut[j] = IF j < k THEN rest[j] ELSE rest[j + 1]
      BY <1>6, <3>1, RemoveAtFacts
    <3>3. /\ len - n - 1 = len - 1
          /\ \A j \in 1..len-1 : /\ j \in 1..len-n /\ j + 1 \in 1..len-n
                                 /\ n + j = j /\ n + (j + 1) = j + 1 /\ n + j + 1 = j + 1
      BY <1>1, <2>2
    <3> QED
      BY <1>6, <3>2, <3>3
  <2> QED
    BY <2>1, <2>2
<1>8. mid \in Seq(Address) /\ Len(mid) = 2 /\ mid[1] = [MYCALL EXCEPT !.used = TRUE] /\ mid[2].used
  <2>1. PICK x, y : /\ x = [MYCALL EXCEPT !.used = TRUE]
                    /\ y = addr(IF sar > 0 THEN "SAR" ELSE "WIDE1", 0, TRUE)
    OBVIOUS
  <2>2. x = [call |-> "ME", ssid |-> 0, used |-> TRUE]
    BY <2>1 DEF MYCALL, addr
  <2>3. y = [call |-> IF sar > 0 THEN "SAR" ELSE "WIDE1", ssid |-> 0, used |-> TRUE]
    BY <2>1 DEF addr
  <2>4. x \in Address /\ y \in Address /\ y.used
    <3>1. PICK c : c = IF sar > 0 THEN "SAR" ELSE "WIDE1"
      OBVIOUS
    <3>2. c \in Callsigns
      <4>1. "SAR" \in Callsigns /\ "WIDE1" \in Callsigns
        BY DigipeaterAssumption
      <4> QED
        BY <3>1, <4>1
    <3>4. "ME" \in Callsigns
      BY DigipeaterAssumption
    <3>3. \A d \in Callsigns : [call |-> d, ssid |-> 0, used |-> TRUE] \in Address
      BY DEF Address
    <3> QED
      BY <2>2, <2>3, <3>1, <3>2, <3>3, <3>4
  <2>5. mid = <<x, y>>
    BY <1>3, <2>1, Zenon
  <2> QED
    <3>1. \A u, v \in Address : <<u, v>> \in Seq(Address) /\ Len(<<u, v>>) = 2
                                /\ <<u, v>>[1] = u /\ <<u, v>>[2] = v
      OBVIOUS
    <3> QED
      BY <2>1, <2>4, <2>5, <3>1
<1>9. PICK front : front = a \o mid
  OBVIOUS
<1>10. /\ front \in Seq(Address) /\ Len(front) = n + 2
       /\ \A j \in 1..n : front[j] = path[j]
       /\ front[n + 1] = mid[1] /\ front[n + 2] = mid[2]
  <2>1. /\ front \in Seq(Address) /\ Len(front) = n + 2
        /\ \A j \in 1..n+2 : front[j] = IF j <= n THEN a[j] ELSE mid[j - n]
    <3>1. /\ front \in Seq(Address) /\ Len(front) = Len(a) + Len(mid)
          /\ \A j \in 1..Len(a)+Len(mid) : front[j] = IF j <= Len(a) THEN a[j] ELSE mid[j - Len(a)]
      <4>1. a \in Seq(Address) /\ mid \in Seq(Address)
        BY <1>5, <1>8
      <4> QED
        BY <1>9, <4>1, ConcatProperties
    <3> QED
      BY <1>5, <1>8, <3>1
  <2>2. /\ n + 1 \in 1..n+2 /\ n + 2 \in 1..n+2 /\ n + 1 - n = 1 /\ n + 2 - n = 2
        /\ ~(n + 1 <= n) /\ ~(n + 2 <= n) /\ \A j \in 1..n : j \in 1..n+2 /\ j <= n
    BY <1>2
  <2> QED
    BY <1>5, <2>1, <2>2
<1>11. /\ new \in Seq(Address) /\ Len(new) = n + 2 + (len - n - 1)
       /\ \A j \in 1..(n + 2 + (len - n - 1)) :
            new[j] = IF j <= n + 2 THEN front[j] ELSE cut[j - (n + 2)]
  <2>1. /\ new \in Seq(Address) /\ Len(new) = Len(front) + Len(cut)
        /\ \A j \in 1..Len(front)+Len(cut) :
             new[j] = IF j <= Len(front) THEN front[j] ELSE cut[j - Len(front)]
    <3>1. new = front \o cut
      BY <1>4, <1>9
    <3> QED
      <4>1. front \in Seq(Address) /\ cut \in Seq(Address)
        BY <1>7, <1>10
      <4> QED
        BY <3>1, <4>1, ConcatProperties
  <2> QED
    BY <1>7, <1>10, <2>1
<1>12. n + 2 + (len - n - 1) = len + 1
  BY <1>2
<1>13. \A j \in 1..n+2 : j \in 1..len+1 /\ j <= n + 2
  BY <1>2
<1>14. \A j \in 1..n+2 : new[j] = front[j]
  BY <1>11, <1>12, <1>13
<1>15. n + 1 \in 1..n+2 /\ n + 2 \in 1..n+2 /\ \A j \in 1..n : j \in 1..n+2
  BY <1>2
<1>16. ASSUME NEW i \in n+3..len+1 PROVE new[i] = IF i - 2 < k THEN path[i - 2] ELSE path[i - 1]
  <2>1. /\ i \in 1..len+1 /\ ~(i <= n + 2) /\ i - (n + 2) \in 1..len-n-1
        /\ n + (i - (n + 2)) = i - 2 /\ n + (i - (n + 2)) + 1 = i - 1
    BY <1>2
  <2>2. new[i] = cut[i - (n + 2)]
    BY <1>11, <1>12, <2>1
  <2> QED
    BY <1>7, <2>1, <2>2
<1> QED
  BY <1>1, <1>2, <1>8, <1>10, <1>11, <1>12, <1>14, <1>15, <1>16 DEF IsNewPath

\* A frame as it is heard.
OnAir(f) ==
  \E path \in Paths, ctrl \in {"UI", "SABM"}, x \in Values :
    f = [EncodeHeader(Sender, DEST, path, ctrl, "pid") EXCEPT !.rest = @ \o <<x>>]

LEMMA PairConcat == \A a, b : <<a>> \o <<b>> = <<a, b>>
<1>1. TAKE a, b
<1>2. <<a>> \in Seq({a, b}) /\ <<b>> \in Seq({a, b}) /\ Len(<<a>>) = 1 /\ Len(<<b>>) = 1
  OBVIOUS
<1>3. PICK s : s = <<a>> \o <<b>>
  OBVIOUS
<1>4. s \in Seq({a, b}) /\ Len(s) = 2 /\ s[1] = a /\ s[2] = b
  <2>1. /\ s \in Seq({a, b}) /\ Len(s) = Len(<<a>>) + Len(<<b>>)
        /\ \A i \in 1..Len(<<a>>)+Len(<<b>>) :
             s[i] = IF i <= Len(<<a>>) THEN <<a>>[i] ELSE <<b>>[i - Len(<<a>>)]
    BY <1>2, <1>3, ConcatProperties
  <2> QED
    BY <1>2, <2>1
<1>5. s = <<a, b>>
  <2>1. <<a, b>> \in Seq({a, b}) /\ Len(<<a, b>>) = 2 /\ <<a, b>>[1] = a /\ <<a, b>>[2] = b
    OBVIOUS
  <2>2. \A i \in 1..Len(s) : s[i] = <<a, b>>[i]
    <3>1. \A i \in 1..2 : i = 1 \/ i = 2
      OBVIOUS
    <3> QED
      BY <1>4, <2>1, <3>1
  <2> QED
    BY <1>4, <2>1, <2>2, SeqEqual
<1> QED
  BY <1>3, <1>5

LEMMA OnAirFacts ==
  ASSUME NEW f, OnAir(f)
  PROVE  /\ DecodedPath(f) \in Seq(Address) /\ Len(DecodedPath(f)) <= MAX_DIGIS
         /\ f.ctrl = "UI" => \E x \in Values : f.rest = <<"pid", x>>
<1>1. PICK path \in Paths, ctrl \in {"UI", "SABM"}, x \in Values :
        f = [EncodeHeader(Sender, DEST, path, ctrl, "pid") EXCEPT !.rest = @ \o <<x>>]
  BY DEF OnAir
<1>2. path \in Seq(Address)
  BY DigipeaterAssumption
<1>3. PICK short : short = IF Len(path) > MAX_DIGIS THEN << >> ELSE path
  OBVIOUS
<1>4. short \in Seq(Address) /\ Len(short) <= MAX_DIGIS
  <2>1. Len(path) \in Nat
    BY <1>2, LenProperties
  <2>2. << >> \in Seq(Address) /\ Len(<< >>) <= MAX_DIGIS
    BY DEF MAX_DIGIS
  <2>3. ~(Len(path) > MAX_DIGIS) => Len(path) <= MAX_DIGIS
    BY <2>1 DEF MAX_DIGIS
  <2> QED
    BY <1>2, <1>3, <2>2, <2>3
<1>5. EncodeHeader(Sender, DEST, path, ctrl, "pid") = EncodeHeader(Sender, DEST, short, ctrl, "pid")
  <2>1. ~(Len(short) > MAX_DIGIS)
    BY <1>4 DEF MAX_DIGIS
  <2>2. (IF Len(short) > MAX_DIGIS THEN << >> ELSE short) = (IF Len(path) > MAX_DIGIS THEN << >> ELSE path)
    BY <1>3, <2>1
  <2> QED
    BY <2>2 DEF EncodeHeader
<1>6. f.fields = EncodeHeader(Sender, DEST, short, ctrl, "pid").fields
  BY <1>1, <1>5 DEF EncodeHeader
<1>7. DecodedPath(f) = short
  BY <1>4, <1>6, DecodedIsEncoded
<1>8. f.ctrl = ctrl /\ f.rest = (IF ctrl = "UI" THEN <<"pid">> ELSE << >>) \o <<x>>
  BY <1>1 DEF EncodeHeader
<1>9. f.ctrl = "UI" => f.rest = <<"pid", x>>
  BY <1>8, PairConcat
<1> QED
  BY <1>4, <1>7, <1>9

\* What PathKept says of a frame f that was repeated as g.
Kept(f, g) ==
  LET old == DecodedPath(f)
      new == DecodedPath(g)
      n == UsedDigis(old)
  IN  Len(old) < MAX_DIGIS /\ f.ctrl = "UI" =>
        /\ Text(g) = Text(f)
        /\ Len(new) = Len(old) + 1
        /\ (\A k \in (n + 1)..Len(old) : ~old[k].used) => UsedDigis(new) = n + 2
        /\ SubSeq(new, 1, n) = SubSeq(old, 1, n)
        /\ new[n + 1] = [MYCALL EXCEPT !.used = TRUE] /\ new[n + 2].used
        /\ \E k \in (n + 1)..Len(old) :
             /\ IsWide1(old[k]) \/ IsSar(old[k])
             /\ SubSeq(new, n + 3, Len(new)) = SubSeq(RemoveAt(old, k), n + 1, Len(old) - 1)

\* Indices of what comes after the first n of a path.
LEMMA RestPlaces ==
  ASSUME NEW len \in Nat, NEW n \in 0..len-1
  PROVE  /\ n + 3 \in 1..len+1+1 /\ len + 1 \in (n + 3 - 1)..len+1 /\ len + 1 - (n + 3) + 1 = len - n - 1
         /\ \A j \in 1..len-n-1 : n + 3 + j - 1 = n + 2 + j
         /\ n + 1 \in 1..len-1+1 /\ len - 1 \in (n + 1 - 1)..len-1 /\ len - 1 - (n + 1) + 1 = len - n - 1
         /\ \A j \in 1..len-n-1 : n + 1 + j - 1 = n + j
<1>1. n \in Nat /\ n <= len - 1
  OBVIOUS
<1> QED
  BY <1>1

\* The parts of the new path, without regard to how it was made.
LEMMA PartsOf ==
  ASSUME NEW path \in Seq(Address), NEW new \in Seq(Address), NEW len \in Nat, Len(path) = len,
         Len(new) = len + 1, NEW n \in 0..len-1, NEW k \in n+1..len,
         \A j \in 1..n : new[j] = path[j] /\ path[j].used,
         new[n + 1].used, new[n + 2].used,
         \A i \in n+3..len+1 : new[i] = IF i - 2 < k THEN path[i - 2] ELSE path[i - 1]
  PROVE  /\ (\A j \in (n + 1)..len : ~path[j].used) => UsedDigis(new) = n + 2
         /\ SubSeq(new, 1, n) = SubSeq(path, 1, n)
         /\ SubSeq(new, n + 3, len + 1) = SubSeq(RemoveAt(path, k), n + 1, len - 1)
<1>1. ASSUME \A j \in (n + 1)..len : ~path[j].used PROVE UsedDigis(new) = n + 2
  <2>1. n + 2 \in 0..Len(new)
    OBVIOUS
  <2>2. \A j \in 1..n : path[j].used
    OBVIOUS
  <2>3. new[n + 1].used
    OBVIOUS
  <2>4. \A j \in 1..n+2 : j \in 1..n \/ j = n + 1 \/ j = n + 2
    OBVIOUS
  <2>5. \A j \in 1..n+2 : new[j].used
    BY <2>2, <2>3, <2>4
  <2>6. ASSUME n + 2 < Len(new) PROVE ~new[n + 2 + 1].used
    <3>1. /\ n + 3 \in n+3..len+1 /\ n + 3 - 2 = n + 1 /\ n + 3 - 1 = n + 2
          /\ n + 1 \in n+1..len /\ n + 2 \in n+1..len /\ n + 2 + 1 = n + 3
      BY <2>6
    <3> QED
      BY <1>1, <3>1
  <2> QED
    BY <2>1, <2>5, <2>6, UsedAre
<1>2. SubSeq(new, 1, n) = SubSeq(path, 1, n)
  <2>1. PICK a, b : a = SubSeq(new, 1, n) /\ b = SubSeq(path, 1, n)
    OBVIOUS
  <2>2. /\ 1 \in 1..Len(new)+1 /\ 1 \in 1..len+1 /\ n \in (1 - 1)..Len(new) /\ n \in (1 - 1)..len
        /\ n - 1 + 1 = n /\ \A j \in 1..n : 1 + j - 1 = j
    OBVIOUS
  <2>3. a \in Seq(Address) /\ Len(a) = n /\ \A j \in 1..n : a[j] = new[j]
    BY <2>1, <2>2, PartFacts
  <2>4. b \in Seq(Address) /\ Len(b) = n /\ \A j \in 1..n : b[j] = path[j]
    BY <2>1, <2>2, PartFacts
  <2> QED
    BY <2>1, <2>3, <2>4, SeqEqual
<1>3. SubSeq(new, n + 3, len + 1) = SubSeq(RemoveAt(path, k), n + 1, len - 1)
  <2>1. PICK a, r, b : /\ a = SubSeq(new, n + 3, len + 1) /\ r = RemoveAt(path, k)
                       /\ b = SubSeq(r, n + 1, len - 1)
    OBVIOUS
  <2>2. /\ r \in Seq(Address) /\ Len(r) = len - 1
        /\ \A j \in 1..len-1 : r[j] = IF j < k THEN path[j] ELSE path[j + 1]
    <3>1. k \in 1..len
      OBVIOUS
    <3>2. k \in 1..Len(path)
      BY <3>1
    <3> QED
      BY <2>1, <3>2, RemoveAtFacts
  <2>3. a \in Seq(Address) /\ Len(a) = len - n - 1 /\ \A j \in 1..len-n-1 : a[j] = new[n + 2 + j]
    <3>1. /\ n + 3 \in 1..len+1+1 /\ len + 1 \in (n + 3 - 1)..len+1 /\ len + 1 - (n + 3) + 1 = len - n - 1
          /\ \A j \in 1..len-n-1 : n + 3 + j - 1 = n + 2 + j
      BY RestPlaces, Zenon
    <3> QED
      BY <2>1, <3>1, PartFacts
  <2>4. b \in Seq(Address) /\ Len(b) = len - n - 1 /\ \A j \in 1..len-n-1 : b[j] = r[n + j]
    <3>1. /\ n + 1 \in 1..len-1+1 /\ len - 1 \in (n + 1 - 1)..len-1 /\ len - 1 - (n + 1) + 1 = len - n - 1
          /\ \A j \in 1..len-n-1 : n + 1 + j - 1 = n + j
      BY RestPlaces, Zenon
    <3> QED
      BY <2>1, <2>2, <3>1, PartFacts
  <2>5. ASSUME NEW j \in 1..len-n-1 PROVE a[j] = b[j]
    <3>1. n + 2 + j \in n+3..len+1
      OBVIOUS
    <3>3. n + 2 + j - 2 = n + j /\ n + 2 + j - 1 = n + j + 1
      OBVIOUS
    <3>4. n + j \in 1..len-1
      OBVIOUS
    <3>2. new[n + 2 + j] = IF n + j < k THEN path[n + j] ELSE path[n + j + 1]
      <4>1. PICK i \in n+3..len+1 : i = n + 2 + j
        BY <3>1, Zenon
      <4>2. i - 2 = n + j /\ i - 1 = n + j + 1
        BY <4>1
      <4>3. new[i] = IF i - 2 < k THEN path[i - 2] ELSE path[i - 1]
        OBVIOUS
      <4>4. new[i] = IF n + j < k THEN path[n + j] ELSE path[n + j + 1]
        BY <4>2, <4>3, Zenon
      <4> QED
        BY <4>1, <4>4, Zenon
    <3> QED
      BY <2>2, <2>3, <2>4, <3>2, <3>4
  <2> QED
    <3>1. Len(a) = Len(b) /\ \A j \in 1..Len(a) : a[j] = b[j]
      BY <2>3, <2>4, <2>5
    <3>2. a = b
      BY <2>3, <2>4, <3>1, SeqEqual
    <3> QED
      BY <2>1, <3>2
<1> QED
  BY <1>1, <1>2, <1>3

\* What the next station hears of path, in which the alias was at k.
Hears(path, k, new) ==
  LET n == UsedDigis(path)
  IN  /\ Len(new) = Len(path) + 1 /\ k \in n+1..Len(path)
      /\ (\A j \in (n + 1)..Len(path) : ~path[j].used) => UsedDigis(new) = n + 2
      /\ SubSeq(new, 1, n) = SubSeq(path, 1, n)
      /\ new[n + 1] = [MYCALL EXCEPT !.used = TRUE] /\ new[n + 2].used
      /\ SubSeq(new, n + 3, Len(new)) = SubSeq(RemoveAt(path, k), n + 1, Len(path) - 1)

LEMMA PartsOfNewPath ==
  ASSUME NEW path \in Seq(Address), NEW k, NEW new, IsNewPath(path, UsedDigis(path), k, new)
  PROVE  Hears(path, k, new)
<1>1. PICK n : n = UsedDigis(path)
  OBVIOUS
<1>2. PICK len \in Nat : len = Len(path)
  BY LenProperties
<1>3. /\ new \in Seq(Address) /\ Len(new) = len + 1
      /\ n \in 0..len-1 /\ k \in n+1..len
      /\ \A j \in 1..n : new[j] = path[j]
      /\ new[n + 1] = [MYCALL EXCEPT !.used = TRUE] /\ new[n + 2].used
      /\ \A i \in n+3..len+1 : new[i] = IF i - 2 < k THEN path[i - 2] ELSE path[i - 1]
  BY <1>1, <1>2 DEF IsNewPath
<1>4. new[n + 1].used
  BY <1>3 DEF MYCALL, addr
<1>5. \A j \in 1..n : new[j] = path[j] /\ path[j].used
  BY <1>1, <1>3, UsedFacts
<1>6. /\ (\A j \in (n + 1)..len : ~path[j].used) => UsedDigis(new) = n + 2
      /\ SubSeq(new, 1, n) = SubSeq(path, 1, n)
      /\ SubSeq(new, n + 3, len + 1) = SubSeq(RemoveAt(path, k), n + 1, len - 1)
  <2>1. Len(path) = len /\ Len(new) = len + 1
    BY <1>2, <1>3
  <2>2. new \in Seq(Address) /\ n \in 0..len-1 /\ k \in n+1..len /\ new[n + 2].used
    BY <1>3
  <2>3. \A i \in n+3..len+1 : new[i] = IF i - 2 < k THEN path[i - 2] ELSE path[i - 1]
    BY <1>3
  <2> QED
    BY <1>4, <1>5, <2>1, <2>2, <2>3, PartsOf, ZenonT(60)
<1> QED
  BY <1>1, <1>2, <1>3, <1>6 DEF Hears

\* The new path, as the next station decodes it.
LEMMA NextHears ==
  ASSUME NEW path \in Seq(Address), Len(path) < MAX_DIGIS, NEW sar, NEW k \in 1..Len(path),
         \/ sar = 0 /\ k = UsedDigis(path) + 1
         \/ sar = k /\ UsedDigis(path) = 0,
         NEW c, NEW p, NEW g,
         g.fields = EncodeHeader(Sender, DEST, NewPath(path, sar), c, p).fields
  PROVE  Hears(path, k, DecodedPath(g))
<1>1. PICK n : n = UsedDigis(path)
  OBVIOUS
<1>2. PICK new : new = NewPath(path, sar)
  OBVIOUS
<1>3. IsNewPath(path, n, k, new)
  <2>1. \/ sar = 0 /\ k = n + 1
        \/ sar = k /\ n = 0
    BY <1>1
  <2> QED
    BY <1>1, <1>2, <2>1, NewPathIs
<1>4. DecodedPath(g) = new
  <2>1. new \in Seq(Address) /\ Len(new) = Len(path) + 1
    BY <1>3 DEF IsNewPath
  <2>2. Len(new) <= MAX_DIGIS
    <3>1. PICK len \in Nat : len = Len(path)
      BY LenProperties
    <3>2. len < MAX_DIGIS
      BY <3>1
    <3>3. len + 1 <= MAX_DIGIS
      BY <3>2 DEF MAX_DIGIS
    <3> QED
      BY <2>1, <3>1, <3>3
  <2>3. g.fields = EncodeHeader(Sender, DEST, new, c, p).fields
    BY <1>2
  <2> QED
    BY <2>1, <2>2, <2>3, DecodedIsEncoded
<1> QED
  BY <1>1, <1>3, <1>4, PartsOfNewPath

\* Where the alias is that is used.
LEMMA AliasFacts ==
  ASSUME NEW path \in Seq(Address), NEW preempt \in BOOLEAN, NEW wide \in BOOLEAN,
         NEW sar, sar = IF preempt /\ UsedDigis(path) = 0 THEN SelectInSeq(path, IsSar) ELSE 0,
         UsedDigis(path) # Len(path),
         sar # 0 \/ (wide /\ IsWide1(path[UsedDigis(path) + 1]))
  PROVE  \E k \in 1..Len(path) : /\ IsWide1(path[k]) \/ IsSar(path[k])
                                 /\ \/ sar = 0 /\ k = UsedDigis(path) + 1
                                    \/ sar = k /\ UsedDigis(path) = 0
<1>1. CASE sar = 0
  <2>1. PICK len \in Nat : len = Len(path)
    BY LenProperties
  <2>0. PICK n : n = UsedDigis(path)
    OBVIOUS
  <2>2. n \in 0..len /\ n # len
    BY <2>0, <2>1, UsedFacts
  <2>3. n + 1 \in 1..len
    BY <2>2
  <2>4. IsWide1(path[n + 1])
    BY <1>1, <2>0
  <2> QED
    BY <1>1, <2>0, <2>1, <2>3, <2>4
<1>2. CASE sar # 0
  <2> DEFINE I == {k \in 1..Len(path) : IsSar(path[k])}
  <2>1. UsedDigis(path) = 0 /\ sar = SelectInSeq(path, IsSar)
    BY <1>2
  <2>2. SelectInSeq(path, IsSar) = IF I # {} THEN Min(I) ELSE 0
    BY DEF SelectInSeq
  <2>3. I # {} /\ sar = Min(I)
    BY <1>2, <2>1, <2>2
  <2>4. sar \in I
    <3>1. Len(path) \in Nat
      BY LenProperties
    <3>2. I \in SUBSET Nat
      BY <3>1
    <3> HIDE DEF I
    <3> QED
      BY <2>3, <3>2, MinIsLeast
  <2> QED
    BY <2>1, <2>4
<1> QED
  BY <1>1, <1>2

\* The text of a frame that is repeated.
LEMMA TextKept ==
  ASSUME NEW f, OnAir(f), f.ctrl = "UI", NEW path,
         NEW g, g = [EncodeHeader(Sender, DEST, path, f.ctrl, f.rest[1]) EXCEPT !.rest = @ \o Text(f)]
  PROVE  Text(g) = Text(f)
<1>1. PICK x : f.rest = <<"pid", x>>
  BY OnAirFacts
<1>2. \A h : h.rest = <<"pid", x>> => Text(h) = <<x>>
  BY DEF Text
<1>3. Text(f) = <<x>> /\ f.rest[1] = "pid"
  BY <1>1, <1>2
<1>4. g.rest = <<"pid">> \o <<x>>
  BY <1>3 DEF EncodeHeader
<1>5. g.rest = <<"pid", x>>
  BY <1>4, PairConcat
<1> QED
  BY <1>2, <1>3, <1>5

LEMMA RepeatedKept ==
  ASSUME NEW f, OnAir(f), NEW wide \in BOOLEAN, NEW preempt \in BOOLEAN, NEW path, path = DecodedPath(f),
         UsedDigis(path) # Len(path),
         NEW sar, sar = IF preempt /\ UsedDigis(path) = 0 THEN SelectInSeq(path, IsSar) ELSE 0,
         sar # 0 \/ (wide /\ IsWide1(path[UsedDigis(path) + 1])),
         NEW g, g = [EncodeHeader(Sender, DEST, NewPath(path, sar), f.ctrl, f.rest[1])
                       EXCEPT !.rest = @ \o Text(f)]
  PROVE  Kept(f, g)
<1>1. path \in Seq(Address)
  BY OnAirFacts
<1>2. PICK k \in 1..Len(path) : /\ IsWide1(path[k]) \/ IsSar(path[k])
                                /\ \/ sar = 0 /\ k = UsedDigis(path) + 1
                                   \/ sar = k /\ UsedDigis(path) = 0
  BY <1>1, AliasFacts
<1>3. g.fields = EncodeHeader(Sender, DEST, NewPath(path, sar), f.ctrl, f.rest[1]).fields
  BY DEF EncodeHeader
<1>4. f.ctrl = "UI" => Text(g) = Text(f)
  BY TextKept
<1>5. Len(path) < MAX_DIGIS => Hears(path, k, DecodedPath(g))
  BY <1>1, <1>2, <1>3, NextHears
<1> QED
  BY <1>2, <1>4, <1>5, Zenon DEF Kept, Hears

----------------------------------------------------------------------------
(* The frames received, and what becomes of them. *)

LEMMA ChecksumIsValue ==
  ASSUME NEW f, OnAir(f)
  PROVE  Checksum(f) \in Values
<1>1. PICK path \in Paths, ctrl \in {"UI", "SABM"}, x \in Values :
        f = [EncodeHeader(Sender, DEST, path, ctrl, "pid") EXCEPT !.rest = @ \o <<x>>]
  BY DEF OnAir
<1>2. f.rest = (IF ctrl = "UI" THEN <<"pid">> ELSE << >>) \o <<x>>
  BY <1>1 DEF EncodeHeader
<1>3. << >> \o <<x>> = <<x>>
  <2>1. <<x>> \in Seq(Values)
    OBVIOUS
  <2> QED
    BY <2>1, ConcatEmptySeq
<1>4. f.rest = <<"pid", x>> \/ f.rest = <<x>>
  BY <1>2, <1>3, PairConcat
<1>5. Text(f) = <<x>> \/ Text(f) = << >>
  <2>1. f.rest = <<"pid", x>> => Text(f) = <<x>>
    BY DEF Text
  <2>2. f.rest = <<x>> => Text(f) = << >>
    BY DEF Text
  <2> QED
    BY <1>4, <2>1, <2>2
<1>6. <<x>> # << >> /\ <<x>>[1] = x /\ 0 \in Values
  BY HeardlistAssumption
<1> QED
  BY <1>5, <1>6 DEF Checksum

\* Only frames as they were heard are in the queues.
QueuesInv ==
  /\ digiQueue # Nothing => OnAir(digiQueue[1])
  /\ igateQueue # Nothing => OnAir(igateQueue[1])

DigiInv == QueuesInv /\ PathKept

LEMMA HearStep ==
  ASSUME NEW x \in Values, Hear(x)
  PROVE  DigiInv'
<1>1. PICK path \in Paths, ctrl \in {"UI", "SABM"} :
        LET frame == [EncodeHeader(Sender, DEST, path, ctrl, "pid") EXCEPT !.rest = @ \o <<x>>]
        IN  digiQueue' \in {Nothing, <<frame>>} /\ igateQueue' \in {Nothing, <<frame>>}
  BY Zenon DEF Hear
<1>2. PICK f : f = [EncodeHeader(Sender, DEST, path, ctrl, "pid") EXCEPT !.rest = @ \o <<x>>]
  OBVIOUS
<1>3. digiQueue' \in {Nothing, <<f>>} /\ igateQueue' \in {Nothing, <<f>>}
  BY <1>1, <1>2
<1>4. OnAir(f)
  BY <1>2, Zenon DEF OnAir
<1>5. \A q \in {Nothing, <<f>>} : q # Nothing => OnAir(q[1])
  BY <1>4
<1>6. QueuesInv'
  BY <1>3, <1>5 DEF QueuesInv
<1>7. PathKept'
  <2>1. repeated' = Nothing
    BY DEF Hear
  <2> QED
    BY <2>1 DEF PathKept
<1> QED
  BY <1>6, <1>7 DEF DigiInv

\* PathKept, of one frame.
LEMMA PathKeptIs == PathKept <=> (repeated # Nothing => Kept(repeated[1], repeated[2]))
BY Zenon DEF PathKept, Kept

LEMMA CheckFrameStep ==
  ASSUME DigiInv, CheckFrame
  PROVE  DigiInv'
<1>1. digiQueue # Nothing /\ digiQueue' = Nothing /\ igateQueue' = igateQueue
  BY DEF CheckFrame
<1>2. QueuesInv'
  BY <1>1 DEF DigiInv, QueuesInv
<1>3. PICK f : f = digiQueue[1]
  OBVIOUS
<1>4. OnAir(f)
  BY <1>1, <1>3 DEF DigiInv, QueuesInv
<1>5. PICK path, n : path = DecodedPath(f) /\ n = UsedDigis(path)
  OBVIOUS
<1>6. PICK heardBefore \in BOOLEAN, wide1 \in BOOLEAN, preempt \in BOOLEAN :
        LET sar == IF preempt /\ n = 0 THEN SelectInSeq(path, IsSar) ELSE 0
            wide == wide1 /\ n < Len(path) /\ IsWide1(path[n + 1])
            header == EncodeHeader(Sender, DEST, NewPath(path, sar), f.ctrl, f.rest[1])
        IN  repeated' = IF heardBefore \/ n = Len(path) \/ (sar = 0 /\ ~wide) THEN repeated
                        ELSE <<f, [header EXCEPT !.rest = @ \o Text(f)]>>
  BY <1>3, <1>5 DEF CheckFrame
<1>7. PICK sar, wide, g :
        /\ sar = IF preempt /\ n = 0 THEN SelectInSeq(path, IsSar) ELSE 0
        /\ wide = (wide1 /\ n < Len(path) /\ IsWide1(path[n + 1]))
        /\ g = [EncodeHeader(Sender, DEST, NewPath(path, sar), f.ctrl, f.rest[1]) EXCEPT !.rest = @ \o Text(f)]
  OBVIOUS
<1>8. repeated' = IF heardBefore \/ n = Len(path) \/ (sar = 0 /\ ~wide) THEN repeated ELSE <<f, g>>
  BY <1>6, <1>7, Zenon
<1>9. CASE repeated' = repeated
  BY <1>2, <1>9 DEF DigiInv, PathKept
<1>10. CASE repeated' = <<f, g>> /\ n # Len(path) /\ ~(sar = 0 /\ ~wide)
  <2>1. sar # 0 \/ (wide1 /\ IsWide1(path[n + 1]))
    BY <1>7, <1>10, Zenon
  <2>2. Kept(f, g)
    BY <1>4, <1>5, <1>7, <1>10, <2>1, RepeatedKept, ZenonT(60)
  <2>3. repeated'[1] = f /\ repeated'[2] = g
    BY <1>10
  <2>4. Kept(repeated'[1], repeated'[2])
    BY <2>2, <2>3
  <2>5. PathKept'
    BY <2>4, Zenon DEF PathKept, Kept
  <2> QED
    BY <1>2, <2>5 DEF DigiInv
<1> QED
  BY <1>8, <1>9, <1>10, Zenon

LEMMA DigiStep == DigiInv /\ [DigipeaterNext]_<<vars, digi>> => DigiInv'
<1> SUFFICES ASSUME DigiInv, [DigipeaterNext]_<<vars, digi>> PROVE DigiInv'
  OBVIOUS
<1>1. CASE UNCHANGED digi
  BY <1>1 DEF digi, DigiInv, QueuesInv, PathKept
<1>2. CASE CheckFrame
  BY <1>2, CheckFrameStep
<1>3. CASE Rf2inet
  <2>1. igateQueue' = Nothing /\ digiQueue' = digiQueue /\ repeated' = repeated
    BY <1>3 DEF Rf2inet
  <2> QED
    BY <2>1 DEF DigiInv, QueuesInv, PathKept
<1>4. ASSUME NEW x \in Values \ {0}, Hear(x) PROVE DigiInv'
  BY <1>4, HearStep
<1> QED
  BY <1>1, <1>2, <1>3, <1>4 DEF DigipeaterNext

(***************************************************************************)
(* A frame that is repeated has the path of the one that was heard but for *)
(* the alias, in the same order, with this station and the alias after the *)
(* digis that repeated it before, and the text (digipeater.c:155-205): for *)
(* paths of any digis.                                                     *)
(***************************************************************************)
THEOREM PathKeptHolds == DigipeaterSpec => []PathKept
<1>1. DigipeaterInit => DigiInv
  BY DEF DigipeaterInit, DigiInv, QueuesInv, PathKept
<1>2. DigiInv /\ [DigipeaterNext]_<<vars, digi>> => DigiInv'
  BY DigiStep
<1>3. DigiInv => PathKept
  BY DEF DigiInv
<1> QED
  BY <1>1, <1>2, <1>3, PTL DEF DigipeaterSpec

(***************************************************************************)
(* Digipeater and igate share one heard list, and use it as it is made to  *)
(* be used (digipeater.c:149, igate.c:264): with checksums of frames, each *)
(* look-up and its entry in one step.  Their behaviours are behaviours of  *)
(* the list alone.                                                         *)
(***************************************************************************)
THEOREM ListUsed == DigipeaterSpec => Spec
<1>1. DigipeaterInit => Init
  BY DEF DigipeaterInit
<1>2. DigiInv /\ [DigipeaterNext]_<<vars, digi>> => [Next]_vars
  <2> SUFFICES ASSUME DigiInv, [DigipeaterNext]_<<vars, digi>> PROVE [Next]_vars
    OBVIOUS
  <2>1. CASE UNCHANGED vars
    BY <2>1
  <2>2. ASSUME NEW f, OnAir(f), NEW b \in BOOLEAN, hlist_duplicate(Checksum(f), b) PROVE Next
    <3>1. Checksum(f) \in Values
      BY <2>2, ChecksumIsValue
    <3> QED
      BY <2>2, <3>1 DEF Next, Receive
  <2>3. CASE CheckFrame
    <3>1. OnAir(digiQueue[1])
      BY <2>3 DEF DigiInv, QueuesInv, CheckFrame
    <3>2. \E b \in BOOLEAN : hlist_duplicate(Checksum(digiQueue[1]), b)
      BY <2>3 DEF CheckFrame
    <3> QED
      BY <2>2, <3>1, <3>2
  <2>4. CASE Rf2inet
    <3>1. OnAir(igateQueue[1])
      BY <2>4 DEF DigiInv, QueuesInv, Rf2inet
    <3>2. \E b \in BOOLEAN : hlist_duplicate(Checksum(igateQueue[1]), b)
      BY <2>4 DEF Rf2inet
    <3> QED
      BY <2>2, <3>1, <3>2
  <2>5. CASE Tick
    BY <2>5 DEF Next
  <2>6. ASSUME NEW x \in Values \ {0}, Hear(x) PROVE UNCHANGED vars
    BY <2>6 DEF Hear
  <2> QED
    BY <2>1, <2>3, <2>4, <2>5, <2>6 DEF DigipeaterNext
<1>3. DigipeaterInit => DigiInv
  BY DEF DigipeaterInit, DigiInv, QueuesInv, PathKept
<1>4. DigiInv /\ [DigipeaterNext]_<<vars, digi>> => DigiInv'
  BY DigiStep
<1> QED
  BY <1>1, <1>2, <1>3, <1>4, PTL DEF DigipeaterSpec, Spec

----------------------------------------------------------------------------
(* Settings: what the commands write, and where. *)

Byte == SUBSET (0..7)

\* Induction up to n.
LEMMA UpTo ==
  ASSUME NEW n \in Nat, NEW T \in SUBSET Nat, 0 \in T, \A k \in 0..n-1 : k \in T => k + 1 \in T
  PROVE  n \in T
<1>1. SUFFICES ASSUME n \notin T PROVE FALSE
  OBVIOUS
<1> DEFINE R == {ss \in Nat \X Nat : ss[1] < ss[2]}
<1>2. PICK m \in (0..n) \ T : \A y \in (0..n) \ T : ~(<<y, m>> \in R)
  <2>1. (0..n) \ T \subseteq Nat /\ (0..n) \ T # {}
    BY <1>1
  <2>2. IsWellFoundedOn(R, Nat)
    BY NatLessThanWellFounded DEF OpToRel
  <2> HIDE DEF R
  <2> QED
    BY <2>1, <2>2, WFMin
<1>3. m # 0 /\ m \in Nat /\ m - 1 \in 0..n-1
  BY <1>2
<1>4. m - 1 \in T
  <2>1. <<m - 1, m>> \in R
    BY <1>3
  <2> QED
    BY <1>2, <1>3, <2>1
<1>5. m - 1 + 1 = m
  BY <1>3
<1> QED
  BY <1>2, <1>3, <1>4, <1>5

\* The units of a block stay in it.
UnitsIn(at, n) == {u \in Nat \X Seq(Byte) : u[1] >= at /\ u[1] + Len(u[2]) <= at + n}

NextUnits(at, bytes, f, k) ==
  IF k > Len(bytes) THEN << >>
  ELSE LET n == UnitSize(at + k - 1, Len(bytes) - k + 1)
       IN  << <<at + k - 1, SubSeq(bytes, k, k + n - 1)>> >> \o f[k + n]

LEMMA PairIn == \A S : \A x \in S : <<x>> \in Seq(S) /\ Len(<<x>>) = 1 /\ <<x>>[1] = x
OBVIOUS

LEMMA UnitStep ==
  ASSUME NEW at \in Nat, NEW bytes \in Seq(Byte), NEW k \in 1..Len(bytes)+4, NEW f,
         \A j \in k+1..Len(bytes)+4 : f[j] \in Seq(UnitsIn(at, Len(bytes)))
  PROVE  NextUnits(at, bytes, f, k) \in Seq(UnitsIn(at, Len(bytes)))
<1>1. PICK len \in Nat : len = Len(bytes)
  BY LenProperties
<1>2. CASE k > len
  BY <1>1, <1>2 DEF NextUnits
<1>3. CASE ~(k > len)
  <2>1. PICK n : n = UnitSize(at + k - 1, len - k + 1)
    OBVIOUS
  <2>2. n \in 1..len-k+1 /\ n \in 1..4
    <3>1. k \in 1..len
      BY <1>1, <1>3
    <3>2. len - k + 1 \in 1..len
      BY <1>1, <3>1
    <3> QED
      BY <2>1, <3>2 DEF UnitSize
  <2>3. PICK b : b = SubSeq(bytes, k, k + n - 1)
    OBVIOUS
  <2>4. b \in Seq(Byte) /\ Len(b) = n
    <3>1. k \in 1..len+1 /\ k + n - 1 \in (k - 1)..len /\ k + n - 1 - k + 1 = n
      BY <1>1, <1>3, <2>2
    <3>2. k \in 1..Len(bytes)+1 /\ k + n - 1 \in (k - 1)..Len(bytes)
      BY <1>1, <3>1
    <3>3. PICK j \in (k - 1)..Len(bytes) : j = k + n - 1
      BY <3>2
    <3>4. SubSeq(bytes, k, j) \in Seq(Byte) /\ Len(SubSeq(bytes, k, j)) = j - k + 1
      <4>1. k \in 1..Len(bytes)+1
        BY <3>2
      <4> QED
        BY <4>1, PartFacts
    <3>5. j - k + 1 = n
      <4>1. k \in Int /\ n \in Int
        BY <1>1, <2>2
      <4> QED
        BY <3>3, <4>1
    <3> QED
      BY <2>3, <3>3, <3>4, <3>5, Zenon
  <2>5. PICK u : u = <<at + k - 1, b>>
    OBVIOUS
  <2>6. u \in UnitsIn(at, len)
    <3>1. at + k - 1 \in Nat /\ at + k - 1 >= at /\ at + k - 1 + n <= at + len
      BY <1>1, <2>2
    <3> QED
      BY <2>4, <2>5, <3>1 DEF UnitsIn
  <2>7. k + n \in k+1..len+4
    BY <1>1, <2>2
  <2>8. f[k + n] \in Seq(UnitsIn(at, len))
    BY <1>1, <2>7
  <2>9. <<u>> \o f[k + n] \in Seq(UnitsIn(at, len))
    BY <2>6, <2>8, PairIn, ConcatProperties
  <2>10. NextUnits(at, bytes, f, k) = <<u>> \o f[k + n]
    BY <1>1, <1>3, <2>1, <2>3, <2>5 DEF NextUnits
  <2> QED
    BY <1>1, <2>9, <2>10
<1> QED
  BY <1>1, <1>2, <1>3

\* The recursive definition is met, and its results are units of the block.
LEMMA UnitsAre ==
  ASSUME NEW at \in Nat, NEW bytes \in Seq(Byte)
  PROVE  \E f \in [1..Len(bytes)+4 -> Seq(UnitsIn(at, Len(bytes)))] :
           /\ Units(at, bytes) = f[1]
           /\ \A k \in 1..Len(bytes)+4 : f[k] = NextUnits(at, bytes, f, k)
<1>1. PICK N \in Nat : N = Len(bytes) + 4 /\ N >= 4
  <2>1. Len(bytes) \in Nat
    BY LenProperties
  <2> QED
    BY <2>1
<1> DEFINE U == Seq(UnitsIn(at, Len(bytes)))
           E(f, k) == NextUnits(at, bytes, f, k)
           Eq(f) == f = [k \in 1..N |-> E(f, k)]
           Made(j) == \E f \in [1..N -> U] : \A k \in 1..N : k > N - j => f[k] = E(f, k)
           T == {j \in Nat : Made(j)}
<1>2. ASSUME NEW f, NEW k \in 1..N, \A j \in k+1..N : f[j] \in U
      PROVE  E(f, k) \in U
  BY <1>1, <1>2, UnitStep
<1>3. ASSUME NEW f, NEW g, NEW k \in 1..N, \A j \in k+1..N : f[j] = g[j]
      PROVE  E(f, k) = E(g, k)
  <2>1. PICK len \in Nat : len = Len(bytes) /\ N = len + 4
    BY <1>1, LenProperties
  <2>2. CASE k > len
    BY <2>1, <2>2 DEF NextUnits
  <2>3. CASE ~(k > len)
    <3>1. PICK n : n = UnitSize(at + k - 1, len - k + 1)
      OBVIOUS
    <3>2. n \in 1..4
      BY <3>1 DEF UnitSize
    <3>3. k + n \in k+1..N
      BY <2>1, <2>3, <3>2
    <3>4. f[k + n] = g[k + n]
      BY <1>3, <3>3
    <3> QED
      BY <2>1, <2>3, <3>1, <3>4 DEF NextUnits
  <2> QED
    BY <2>2, <2>3
<1> HIDE DEF E, U
<1>4. 0 \in T
  <2>1. << >> \in U
    BY DEF U
  <2>2. [k \in 1..N |-> << >>] \in [1..N -> U] /\ \A k \in 1..N : ~(k > N - 0)
    BY <1>1, <2>1
  <2> QED
    BY <2>2
<1>5. ASSUME NEW j \in 0..N-1, j \in T PROVE j + 1 \in T
  <2>1. PICK f \in [1..N -> U] : \A k \in 1..N : k > N - j => f[k] = E(f, k)
    BY <1>5
  <2>2. PICK p \in 1..N : p = N - j
    <3>1. \A i \in 0..N-1 : N - i \in 1..N
      BY <1>1
    <3> QED
      BY <3>1, Zenon
  <2>3. PICK g : g = [f EXCEPT ![p] = E(f, p)]
    OBVIOUS
  <2>4. E(f, p) \in U
    <3>1. \A i \in p+1..N : f[i] \in U
      BY <2>1, <2>2
    <3> QED
      BY <1>2, <3>1
  <2>5. /\ g \in [1..N -> U] /\ g[p] = E(f, p)
        /\ \A k \in 1..N : k # p => g[k] = f[k]
    BY <2>1, <2>3, <2>4
  <2>6. ASSUME NEW k \in 1..N, k > N - (j + 1) PROVE g[k] = E(g, k)
    <3>1. \A i \in k+1..N : i \in 1..N /\ i # p
      BY <1>1, <2>2, <2>6
    <3>2. \A i \in k+1..N : f[i] = g[i]
      BY <2>5, <3>1
    <3>3. E(f, k) = E(g, k)
      BY <1>3, <3>2
    <3>4. CASE k = p
      BY <2>5, <3>3, <3>4
    <3>5. CASE k # p
      <4>1. k > N - j
        BY <1>1, <2>2, <2>6, <3>5
      <4> QED
        BY <2>1, <2>5, <3>3, <3>5, <4>1
    <3> QED
      BY <3>4, <3>5
  <2>7. Made(j + 1)
    BY <2>5, <2>6
  <2> QED
    BY <2>7
<1>6. N \in T
  <2> HIDE DEF T
  <2>1. T \in SUBSET Nat
    BY DEF T
  <2> QED
    BY <1>1, <1>4, <1>5, <2>1, UpTo
<1>7. PICK h : h = CHOOSE f : Eq(f)
  OBVIOUS
<1>8. Eq(h)
  <2>1. PICK f \in [1..N -> U] : \A k \in 1..N : k > N - N => f[k] = E(f, k)
    BY <1>6
  <2>2. \A k \in 1..N : f[k] = E(f, k)
    <3>1. \A k \in 1..N : k > N - N
      BY <1>1
    <3> QED
      BY <2>1, <3>1
  <2>3. Eq(f)
    BY <2>1, <2>2
  <2> HIDE DEF Eq
  <2> QED
    BY <1>7, <2>3
<1>9. \A k \in 1..N : h[k] = E(h, k)
  BY <1>8
<1> DEFINE V == {j \in Nat : \A k \in 1..N : k > N - j => h[k] \in U}
<1>10. N \in V
  <2>1. 0 \in V
    <3>1. \A k \in 1..N : ~(k > N - 0)
      BY <1>1
    <3> QED
      BY <3>1
  <2>2. ASSUME NEW j \in 0..N-1, j \in V PROVE j + 1 \in V
    <3>1. ASSUME NEW k \in 1..N, k > N - (j + 1) PROVE h[k] \in U
      <4>1. \A i \in k+1..N : i \in 1..N /\ i > N - j
        BY <1>1, <3>1
      <4>2. \A i \in k+1..N : h[i] \in U
        BY <2>2, <4>1
      <4> QED
        BY <1>2, <1>9, <4>2
    <3> QED
      BY <3>1
  <2>3. V \in SUBSET Nat
    OBVIOUS
  <2> HIDE DEF V
  <2> QED
    BY <1>1, <2>1, <2>2, <2>3, UpTo
<1>11. h \in [1..N -> U]
  <2>1. \A k \in 1..N : k > N - N
    BY <1>1
  <2>2. \A k \in 1..N : h[k] \in U
    BY <1>10, <2>1
  <2> QED
    BY <1>8, <2>2
<1>12. Units(at, bytes) = h[1]
  <2>1. Units(at, bytes) = (CHOOSE f : f = [k \in 1..N |-> NextUnits(at, bytes, f, k)])[1]
    BY <1>1 DEF Units, NextUnits
  <2> QED
    BY <1>7, <2>1 DEF E
<1> QED
  BY <1>1, <1>9, <1>11, <1>12 DEF E, U

\* What set_param and set_byte_param write stays in the parameters P.
Blocks == Seq(Byte) \cup {<<ChecksumOf(v)>> : v \in Seq(Byte)}

Writes(P) ==
  {s \in [op : {"write"}, param : P, at : Nat, bytes : Blocks,
          first : BOOLEAN, done : BOOLEAN, value : Seq(Byte)] :
     s.at .. s.at + Len(s.bytes) - 1 \subseteq Places(s.param)}

LEMMA LayoutFacts ==
  \A p \in Params : Offset(p) \in Nat /\ Size(p) \in Nat /\ Size(p) >= 1
BY DEF Layout, Params, Offset, Size, CRED_LENGTH, ADDR, INET_NAME_LENGTH

LEMMA SetWrites ==
  ASSUME NEW p \in Params, NEW value \in Seq(Byte), Len(value) <= Size(p)
  PROVE  Set(p, value) \in Seq(Writes({p}))
<1>1. PICK len \in Nat : len = Len(value)
  BY LenProperties
<1>2. PICK at \in Nat, size \in Nat : at = Offset(p) /\ size = Size(p) /\ len <= size
  BY <1>1, LayoutFacts
<1>3. PICK us : us = Units(at, value)
  OBVIOUS
<1>4. us \in Seq(UnitsIn(at, len))
  <2>1. PICK f \in [1..Len(value)+4 -> Seq(UnitsIn(at, Len(value)))] : Units(at, value) = f[1]
    BY UnitsAre
  <2>2. 1 \in 1..Len(value)+4
    BY <1>1
  <2> QED
    BY <1>1, <1>3, <2>1, <2>2
<1>5. PICK last1 : last1 = <<at + len, <<StoredChecksum(value)>>>>
  OBVIOUS
<1> DEFINE Ok == {u \in Nat \X Blocks : u[1] .. u[1] + Len(u[2]) - 1 \subseteq Places(p)}
<1>6. UnitsIn(at, len) \subseteq Ok
  <2> SUFFICES ASSUME NEW u \in UnitsIn(at, len) PROVE u \in Ok
    OBVIOUS
  <2>1. u \in Nat \X Seq(Byte) /\ u[1] >= at /\ u[1] + Len(u[2]) <= at + len
    BY DEF UnitsIn
  <2>2. u[1] \in Nat /\ Len(u[2]) \in Nat /\ u \in Nat \X Blocks
    BY <2>1, LenProperties DEF Blocks
  <2>3. \A x \in u[1] .. u[1] + Len(u[2]) - 1 : x \in at .. at + size
    BY <1>2, <2>1, <2>2
  <2> QED
    BY <1>2, <2>2, <2>3 DEF Places
<1>7. last1 \in Ok
  <2>1. PICK b : b = <<StoredChecksum(value)>>
    OBVIOUS
  <2>2. b \in Blocks /\ Len(b) = 1
    BY <2>1 DEF Blocks, StoredChecksum
  <2>3. last1 = <<at + len, b>> /\ at + len \in Nat /\ at + len + 1 - 1 = at + len
    BY <1>5, <2>1
  <2>4. last1[1] = at + len /\ last1[2] = b /\ last1 \in Nat \X Blocks
    BY <2>2, <2>3
  <2>5. \A x \in at + len .. at + len : x \in at .. at + size
    BY <1>2
  <2>6. last1[1] .. last1[1] + Len(last1[2]) - 1 \subseteq Places(p)
    BY <1>2, <2>2, <2>3, <2>4, <2>5 DEF Places
  <2> QED
    BY <2>4, <2>6
<1> HIDE DEF Ok
<1>8. PICK units : units = Append(us, last1)
  OBVIOUS
<1>9. units \in Seq(Ok)
  <2>1. us \in Seq(Ok)
    BY <1>4, <1>6
  <2> QED
    BY <1>7, <1>8, <2>1, AppendProperties
<1>10. PICK w : w = value \o [j \in 1..(Size(p) - Len(value)) |-> {}]
  OBVIOUS
<1>11. w \in Seq(Byte)
  <2>1. PICK k \in Nat : k = Size(p) - Len(value)
    BY <1>1, <1>2
  <2>2. {} \in Byte
    BY DEF Byte
  <2>3. [j \in 1..k |-> {}] \in Seq(Byte)
    BY <2>2
  <2> QED
    BY <1>10, <2>1, <2>3, ConcatProperties
<1>12. PICK n \in Nat : n = Len(units)
  BY <1>9, LenProperties
<1> DEFINE step(k) == [op |-> "write", param |-> p, at |-> units[k][1], bytes |-> units[k][2],
                       first |-> k = 1, done |-> k = n, value |-> w]
<1>13. ASSUME NEW k \in 1..n PROVE step(k) \in Writes({p})
  <2>1. units[k] \in Ok
    BY <1>9, <1>12, ElementOfSeq
  <2>2. /\ units[k][1] \in Nat /\ units[k][2] \in Blocks
        /\ units[k][1] .. units[k][1] + Len(units[k][2]) - 1 \subseteq Places(p)
    BY <2>1 DEF Ok
  <2>3. PICK x, b : x = units[k][1] /\ b = units[k][2]
    OBVIOUS
  <2>4. PICK c \in BOOLEAN, d \in BOOLEAN : c = (k = 1) /\ d = (k = n)
    OBVIOUS
  <2>5. step(k) = [op |-> "write", param |-> p, at |-> x, bytes |-> b, first |-> c, done |-> d, value |-> w]
    BY <2>3, <2>4, Zenon
  <2>6. [op |-> "write", param |-> p, at |-> x, bytes |-> b, first |-> c, done |-> d, value |-> w] \in
          [op : {"write"}, param : {p}, at : Nat, bytes : Blocks,
           first : BOOLEAN, done : BOOLEAN, value : Seq(Byte)]
    BY <1>11, <2>2, <2>3
  <2> QED
    BY <2>2, <2>3, <2>5, <2>6 DEF Writes
<1>14. DOMAIN units = 1..n
  BY <1>9, <1>12, LenProperties
<1>15. Set(p, value) = [k \in 1..n |-> step(k)]
  <2>1. units = Append(Units(Offset(p), value), <<Offset(p) + Len(value), <<StoredChecksum(value)>>>>)
    BY <1>1, <1>2, <1>3, <1>5, <1>8
  <2>2. Set(p, value) = [k \in DOMAIN units |->
           [op |-> "write", param |-> p, at |-> units[k][1], bytes |-> units[k][2],
            first |-> k = 1, done |-> k = Len(units),
            value |-> value \o [j \in 1..(Size(p) - Len(value)) |-> {}]]]
    BY <2>1, Zenon DEF Set
  <2> QED
    BY <1>10, <1>12, <1>14, <2>2, Zenon
<1> HIDE DEF step
<1> QED
  <2>1. PICK W : W = Writes({p})
    OBVIOUS
  <2>2. \A f \in [1..n -> W] : f \in Seq(W)
    BY <1>12
  <2>3. [k \in 1..n |-> step(k)] \in [1..n -> W]
    BY <1>13, <2>1
  <2> QED
    BY <1>15, <2>1, <2>2, <2>3

----------------------------------------------------------------------------
(* The parameter of a switch. *)

Flag(m) == IF m THEN 1 ELSE 0
Cell(m) == ByteValue(Flag(m))

\* It is a byte and its checksum: two units.
FirstUnit(sw, m) ==
  [op |-> "write", param |-> sw, at |-> Offset(sw), bytes |-> Cell(m),
   first |-> TRUE, done |-> FALSE, value |-> Cell(m)]
SecondUnit(sw, m) ==
  [op |-> "write", param |-> sw, at |-> Offset(sw) + 1, bytes |-> <<ChecksumOf(Cell(m))>>,
   first |-> FALSE, done |-> TRUE, value |-> Cell(m)]

LEMMA SwitchLayout ==
  ASSUME NEW sw \in Switches
  PROVE  sw \in Params /\ Size(sw) = 1 /\ Offset(sw) \in Nat
<1>1. sw = "IGATE_ON" \/ sw = "DIGIPEATER_ON"
  BY DEF Switches
<1>2. {"IGATE_ON", "DIGIPEATER_ON"} \subseteq Params
  BY DEF Params, Layout
<1>3. Layout["IGATE_ON"] = <<207, 1>> /\ Layout["DIGIPEATER_ON"] = <<205, 1>>
  BY DEF Layout
<1>4. \A x, y : <<x, y>>[1] = x /\ <<x, y>>[2] = y
  OBVIOUS
<1>5. Size(sw) = 1 /\ (Offset(sw) = 207 \/ Offset(sw) = 205)
  BY <1>1, <1>3, <1>4 DEF Size, Offset
<1> QED
  BY <1>1, <1>2, <1>5

LEMMA CellFacts ==
  ASSUME NEW m \in BOOLEAN
  PROVE  /\ Cell(m) \in Seq(Byte) /\ Len(Cell(m)) = 1 /\ Cell(m) = <<Bits(Flag(m))>>
         /\ Cell(m) = ByteValue(0) <=> ~m
<1>1. \A n : Bits(n) \in Byte
  BY DEF Bits, Byte
<1>2. 0 \in Bits(1)
  BY DEF Bits
<1>3. 0 \notin Bits(0)
  BY DEF Bits
<1>4. PICK b \in Byte, z \in Byte : b = Bits(Flag(m)) /\ z = Bits(0) /\ (b = z <=> ~m)
  BY <1>1, <1>2, <1>3 DEF Flag
<1>5. Cell(m) = <<b>> /\ ByteValue(0) = <<z>>
  BY <1>4 DEF Cell, ByteValue
<1>6. <<b>> \in Seq(Byte) /\ Len(<<b>>) = 1 /\ (<<b>> = <<z>> <=> b = z)
  OBVIOUS
<1> QED
  BY <1>4, <1>5, <1>6

LEMMA SwitchUnits ==
  ASSUME NEW at \in Nat, NEW v \in Seq(Byte), Len(v) = 1
  PROVE  Units(at, v) = << <<at, v>> >>
<1>1. PICK f \in [1..Len(v)+4 -> Seq(UnitsIn(at, Len(v)))] :
        /\ Units(at, v) = f[1]
        /\ \A k \in 1..Len(v)+4 : f[k] = NextUnits(at, v, f, k)
  BY UnitsAre
<1>2. 1 \in 1..Len(v)+4 /\ 2 \in 1..Len(v)+4
  OBVIOUS
<1>3. f[2] = << >>
  <2>1. f[2] = NextUnits(at, v, f, 2)
    BY <1>1, <1>2
  <2> QED
    BY <2>1 DEF NextUnits
<1>4. UnitSize(at + 1 - 1, Len(v) - 1 + 1) = 1
  BY DEF UnitSize
<1>5. f[1] = << <<at + 1 - 1, SubSeq(v, 1, 1 + 1 - 1)>> >> \o f[1 + 1]
  <2>1. f[1] = NextUnits(at, v, f, 1)
    BY <1>1, <1>2
  <2> QED
    <3>1. ~(1 > Len(v))
      OBVIOUS
    <3>2. NextUnits(at, v, f, 1) =
            << <<at + 1 - 1, SubSeq(v, 1, 1 + UnitSize(at + 1 - 1, Len(v) - 1 + 1) - 1)>> >>
              \o f[1 + UnitSize(at + 1 - 1, Len(v) - 1 + 1)]
      BY <3>1, Zenon DEF NextUnits
    <3> QED
      BY <1>4, <2>1, <3>2, Zenon
<1>6. SubSeq(v, 1, 1) = v
  <2>1. PICK s : s = SubSeq(v, 1, 1)
    OBVIOUS
  <2>2. 1 \in 1..Len(v)+1 /\ 1 \in (1 - 1)..Len(v) /\ 1 - 1 + 1 = 1
    OBVIOUS
  <2>3. s \in Seq(Byte) /\ Len(s) = 1 /\ \A l \in 1..1 : s[l] = v[1 + l - 1]
    <3>1. /\ SubSeq(v, 1, 1) \in Seq(Byte) /\ Len(SubSeq(v, 1, 1)) = 1 - 1 + 1
          /\ \A l \in 1..(1 - 1 + 1) : SubSeq(v, 1, 1)[l] = v[1 + l - 1]
      BY <2>2, PartFacts, Zenon
    <3> QED
      BY <2>1, <2>2, <3>1, Zenon
  <2>4. \A l \in 1..1 : 1 + l - 1 = l
    OBVIOUS
  <2> QED
    BY <2>1, <2>3, <2>4, SeqEqual
<1>7. PICK u : u = <<at, v>>
  OBVIOUS
<1>8. f[1] = <<u>> \o << >>
  <2>1. at + 1 - 1 = at /\ 1 + 1 - 1 = 1 /\ 1 + 1 = 2
    OBVIOUS
  <2> QED
    BY <1>3, <1>5, <1>6, <1>7, <2>1, Zenon
<1>9. <<u>> \o << >> = <<u>>
  <2>1. <<u>> \in Seq({u})
    OBVIOUS
  <2> QED
    BY <2>1, ConcatEmptySeq
<1> QED
  BY <1>1, <1>7, <1>8, <1>9

LEMMA SwitchWrites ==
  ASSUME NEW sw \in Switches, NEW m \in BOOLEAN
  PROVE  SetByte(sw, Flag(m)) = <<FirstUnit(sw, m), SecondUnit(sw, m)>>
<1>1. PICK at \in Nat : at = Offset(sw) /\ Size(sw) = 1
  BY SwitchLayout
<1>2. PICK v \in Seq(Byte) : v = Cell(m) /\ Len(v) = 1
  BY CellFacts
<1>3. PICK c : c = StoredChecksum(v)
  OBVIOUS
<1>4. PICK x, y : x = <<at, v>> /\ y = <<at + 1, <<c>>>>
  OBVIOUS
<1>5. Append(Units(at, v), <<at + Len(v), <<c>>>>) = <<x, y>>
  <2>1. Units(at, v) = <<x>>
    BY <1>2, <1>4, SwitchUnits
  <2> QED
    BY <1>2, <1>4, <2>1, AppendOne
<1>6. v \o [j \in 1..(Size(sw) - Len(v)) |-> {}] = v
  <2>1. [j \in 1..(Size(sw) - Len(v)) |-> {}] = << >>
    <3>1. 1..(Size(sw) - Len(v)) = {}
      BY <1>1, <1>2
    <3> QED
      BY <3>1
  <2> QED
    BY <2>1, ConcatEmptySeq
<1>7. Set(sw, v) = [k \in DOMAIN <<x, y>> |->
         [op |-> "write", param |-> sw, at |-> <<x, y>>[k][1], bytes |-> <<x, y>>[k][2],
          first |-> k = 1, done |-> k = Len(<<x, y>>), value |-> v]]
  BY <1>1, <1>3, <1>5, <1>6, Zenon DEF Set
<1>8. /\ DOMAIN <<x, y>> = 1..2 /\ Len(<<x, y>>) = 2 /\ <<x, y>>[1] = x /\ <<x, y>>[2] = y
      /\ x[1] = at /\ x[2] = v /\ y[1] = at + 1 /\ y[2] = <<c>>
  BY <1>4
<1>9. Set(sw, v) = [k \in 1..2 |->
         [op |-> "write", param |-> sw, at |-> <<x, y>>[k][1], bytes |-> <<x, y>>[k][2],
          first |-> k = 1, done |-> k = 2, value |-> v]]
  BY <1>7, <1>8, Zenon
<1>10. PICK a, b : a = FirstUnit(sw, m) /\ b = SecondUnit(sw, m)
  OBVIOUS
<1>11. Set(sw, v)[1] = a
  <2>1. Set(sw, v)[1] = [op |-> "write", param |-> sw, at |-> x[1], bytes |-> x[2],
                         first |-> TRUE, done |-> FALSE, value |-> v]
    <3>1. (1 = 1) = TRUE /\ (1 = 2) = FALSE /\ (2 = 1) = FALSE /\ (2 = 2) = TRUE /\ 1 \in 1..2 /\ 2 \in 1..2
      OBVIOUS
    <3> QED
      BY <1>8, <1>9, <3>1, Zenon
  <2> QED
    BY <1>1, <1>2, <1>8, <1>10, <2>1 DEF FirstUnit
<1>12. Set(sw, v)[2] = b
  <2>1. Set(sw, v)[2] = [op |-> "write", param |-> sw, at |-> y[1], bytes |-> y[2],
                         first |-> FALSE, done |-> TRUE, value |-> v]
    <3>1. (1 = 1) = TRUE /\ (1 = 2) = FALSE /\ (2 = 1) = FALSE /\ (2 = 2) = TRUE /\ 1 \in 1..2 /\ 2 \in 1..2
      OBVIOUS
    <3> QED
      BY <1>8, <1>9, <3>1, Zenon
  <2> QED
    BY <1>1, <1>2, <1>3, <1>8, <1>10, <2>1 DEF SecondUnit, StoredChecksum
<1>13. Set(sw, v) = <<a, b>>
  <2>1. PICK s : s = Set(sw, v)
    OBVIOUS
  <2>2. s = [k \in 1..2 |-> s[k]] /\ s[1] = a /\ s[2] = b
    BY <1>9, <1>11, <1>12, <2>1
  <2> QED
    BY <2>1, <2>2
<1> QED
  BY <1>2, <1>10, <1>13 DEF SetByte, Cell

----------------------------------------------------------------------------
(* The commands write parameters in their places. *)

Other == Writes(Params \ Switches)

LEMMA OtherSet ==
  ASSUME NEW p \in Params \ Switches, NEW value \in Seq(Byte), Len(value) <= Size(p)
  PROVE  Set(p, value) \in Seq(Other)
<1>1. Writes({p}) \subseteq Other
  BY DEF Writes, Other
<1>2. Set(p, value) \in Seq(Writes({p}))
  BY SetWrites
<1>3. \A S, T : S \subseteq T => Seq(S) \subseteq Seq(T)
  OBVIOUS
<1> QED
  BY <1>1, <1>2, <1>3, Zenon

LEMMA BitsAreByte == \A n : Bits(n) \in Byte
BY DEF Bits, Byte

LEMMA OtherByte ==
  ASSUME NEW p \in Params \ Switches, NEW n
  PROVE  SetByte(p, n) \in Seq(Other)
<1>1. PICK b \in Byte : b = Bits(n)
  BY BitsAreByte
<1>2. <<b>> \in Seq(Byte) /\ Len(<<b>>) = 1
  OBVIOUS
<1>3. 1 <= Size(p)
  BY LayoutFacts
<1>4. ByteValue(n) \in Seq(Byte) /\ Len(ByteValue(n)) <= Size(p)
  BY <1>1, <1>2, <1>3 DEF ByteValue
<1> QED
  BY <1>4, OtherSet DEF SetByte

LEMMA OtherWord ==
  ASSUME NEW p \in Params \ Switches, Size(p) >= 2, NEW n
  PROVE  Set(p, WordValue(n)) \in Seq(Other)
<1>1. PICK b \in Byte, c \in Byte : b = Bits(n % 256) /\ c = Bits(n \div 256)
  BY BitsAreByte
<1>2. <<b, c>> \in Seq(Byte) /\ Len(<<b, c>>) = 2
  OBVIOUS
<1>3. WordValue(n) = <<b, c>> /\ Size(p) \in Nat
  BY <1>1, LayoutFacts DEF WordValue
<1> QED
  BY <1>2, <1>3, OtherSet

LEMMA BytesAre ==
  \A S : \A n \in Nat : \A f \in [1..n -> S] : f \in Seq(S) /\ Len(f) = n
<1>1. \A S : \A n \in Nat : \A f \in [1..n -> S] : f \in Seq(S)
  OBVIOUS
<1>2. \A S : \A n \in Nat : \A f \in [1..n -> S] : Len(f) = n
  <2> SUFFICES ASSUME NEW S, NEW n \in Nat, NEW f \in [1..n -> S] PROVE Len(f) = n
    OBVIOUS
  <2>1. DOMAIN f = 1..n /\ f \in Seq(S)
    OBVIOUS
  <2>2. PICK len \in Nat : len = Len(f) /\ DOMAIN f = 1..len
    BY <2>1, LenProperties
  <2>3. 1..n = 1..len
    BY <2>1, <2>2
  <2> QED
    <3>1. \A k \in Int : k \in 1..n <=> k \in 1..len
      BY <2>3
    <3>2. n <= len
      BY <3>1
    <3>3. len <= n
      BY <3>1
    <3> QED
      BY <2>2, <3>2, <3>3
<1> QED
  BY <1>1, <1>2

LEMMA OtherDword ==
  ASSUME NEW p \in Params \ Switches, Size(p) >= 4, NEW n
  PROVE  Set(p, DwordValue(n)) \in Seq(Other)
<1>1. DwordValue(n) \in [1..4 -> Byte]
  BY BitsAreByte DEF DwordValue
<1>2. \A f \in [1..4 -> Byte] : f \in Seq(Byte) /\ Len(f) = 4
  BY BytesAre, Zenon
<1>3. Size(p) \in Nat
  BY LayoutFacts
<1> QED
  BY <1>1, <1>2, <1>3, OtherSet

LEMMA OtherPadded ==
  ASSUME NEW p \in Params \ Switches, NEW n \in Nat, n <= Size(p), NEW text
  PROVE  Set(p, Padded(text, n)) \in Seq(Other)
<1>1. \A k \in 1..n : (IF k <= Len(text) THEN Bits(text[k]) ELSE {}) \in Byte
  <2>1. {} \in Byte
    BY DEF Byte
  <2> QED
    BY <2>1, BitsAreByte
<1>2. Padded(text, n) \in [1..n -> Byte]
  BY <1>1 DEF Padded
<1>3. Padded(text, n) \in Seq(Byte) /\ Len(Padded(text, n)) = n
  BY <1>2, BytesAre
<1> QED
  BY <1>3, OtherSet

LEMMA OtherText ==
  ASSUME NEW p \in Params \ Switches, NEW text
  PROVE  SetText(p, text) \in Seq(Other)
<1>1. Size(p) \in Nat /\ Size(p) <= Size(p)
  BY LayoutFacts
<1> QED
  BY <1>1, OtherPadded DEF SetText

LEMMA OtherParsed ==
  ASSUME NEW p \in Params \ Switches
  PROVE  /\ \A v : parseBool(p, v) \in Seq(Other)
         /\ \A n, l, u : parseByte(p, n, l, u) \in Seq(Other)
         /\ \A n : Level(p, n) \in Seq(Other)
         /\ Size(p) >= 2 => \A n, l, u : parseWord(p, n, l, u) \in Seq(Other)
         /\ Size(p) >= 4 => \A n : parseFreq(p, n) \in Seq(Other)
<1>1. << >> \in Seq(Other)
  OBVIOUS
<1>2. \A v : parseBool(p, v) \in Seq(Other)
  BY <1>1, OtherByte DEF parseBool
<1>3. \A n, l, u : parseByte(p, n, l, u) \in Seq(Other)
  BY <1>1, OtherByte DEF parseByte
<1>4. \A n : Level(p, n) \in Seq(Other)
  BY OtherByte DEF Level
<1>5. Size(p) >= 2 => \A n, l, u : parseWord(p, n, l, u) \in Seq(Other)
  BY <1>1, OtherWord DEF parseWord
<1>6. Size(p) >= 4 => \A n : parseFreq(p, n) \in Seq(Other)
  BY <1>1, OtherDword DEF parseFreq
<1> QED
  BY <1>2, <1>3, <1>4, <1>5, <1>6

LEMMA OtherBoth ==
  ASSUME NEW s \in Seq(Other), NEW t \in Seq(Other)
  PROVE  s \o t \in Seq(Other)
BY ConcatProperties

LEMMA OtherSymbol ==
  ASSUME NEW text
  PROVE  parseSymbol(text) \in Seq(Other)
<1>1. "SYMBOL_TAB" \in Params \ Switches /\ "SYMBOL" \in Params \ Switches
  BY DEF Params, Layout, Switches
<1>2. SetByte("SYMBOL_TAB", text[1]) \in Seq(Other) /\ SetByte("SYMBOL", text[2]) \in Seq(Other)
  BY <1>1, OtherByte
<1>3. << >> \in Seq(Other)
  OBVIOUS
<1> QED
  BY <1>2, <1>3, OtherBoth DEF parseSymbol

LEMMA OtherDigipath ==
  ASSUME NEW route
  PROVE  parseDigipath(route) \in Seq(Other)
<1>1. "NDIGIS" \in Params \ Switches /\ "DIGIS" \in Params \ Switches
  BY DEF Params, Layout, Switches
<1>2. \A n, t : SetByte("NDIGIS", n) \in Seq(Other) /\ SetText("DIGIS", t) \in Seq(Other)
  BY <1>1, OtherByte, OtherText
<1>3. \A n, t : SetText("DIGIS", t) \o SetByte("NDIGIS", n) \in Seq(Other)
  BY <1>2, OtherBoth
<1> QED
  BY <1>2, <1>3 DEF parseDigipath

LEMMA ShellWrites ==
  ASSUME NEW steps \in ShellSets
  PROVE  steps \in Seq(Other)
<1>0. Used \subseteq Params
  BY SettingsAssumption
<1>1. CASE steps \in {parseBool(p, v) : p \in ShellBools \cap Used, v \in Bools}
  <2>1. ShellBools \cap Used \subseteq Params \ Switches
    BY <1>0 DEF ShellBools, Switches
  <2> QED
    BY <1>1, <2>1, OtherParsed
<1>2. CASE steps \in {parseByte(p, n, ShellBytes[p][1], ShellBytes[p][2]) :
                        p \in DOMAIN ShellBytes \cap Used, n \in Numbers}
  <2>1. DOMAIN ShellBytes \cap Used \subseteq Params \ Switches
    BY <1>0 DEF ShellBytes, Switches
  <2> QED
    BY <1>2, <2>1, OtherParsed
<1>3. CASE steps \in {Level(p, n) : p \in ShellLevels \cap Used, n \in Numbers}
  <2>1. ShellLevels \cap Used \subseteq Params \ Switches
    BY <1>0 DEF ShellLevels, Switches
  <2> QED
    BY <1>3, <2>1, OtherParsed
<1>4. CASE steps \in {parseFreq(p, n) : p \in {"TRX_TX_FREQ"} \cap Used, n \in Numbers}
  <2>1. "TRX_TX_FREQ" \in Params \ Switches /\ Size("TRX_TX_FREQ") >= 4
    BY DEF Params, Layout, Switches, Size
  <2> QED
    BY <1>4, <2>1, OtherParsed
<1>5. CASE steps \in {parseWord(p, n, 0, 360) : p \in {"TRACKER_TURN_LIMIT"} \cap Used, n \in Numbers}
  <2>1. "TRACKER_TURN_LIMIT" \in Params \ Switches /\ Size("TRACKER_TURN_LIMIT") >= 2
    BY DEF Params, Layout, Switches, Size
  <2> QED
    BY <1>5, <2>1, OtherParsed
<1>6. CASE steps \in {parseSymbol(t) : t \in Texts}
  BY <1>6, OtherSymbol
<1>7. CASE steps \in {parseDigipath(r) : r \in Routes}
  BY <1>7, OtherDigipath
<1>8. CASE steps \in cmd_digipeater
  <2>1. {"DIGIP_WIDE1_ON", "DIGIP_SAR_ON"} \cap Used \subseteq Params \ Switches
    BY <1>0 DEF Switches
  <2> QED
    BY <1>8, <2>1, OtherParsed DEF cmd_digipeater
<1>9. CASE steps \in cmd_igate
  <2>1. /\ {"IGATE_HOST", "IGATE_USERNAME", "IGATE_FILTER"} \subseteq Params \ Switches
        /\ \A p \in {"IGATE_HOST", "IGATE_USERNAME", "IGATE_FILTER"} : CRED_LENGTH <= Size(p)
        /\ CRED_LENGTH \in Nat
    BY DEF Params, Layout, Switches, Size, CRED_LENGTH, INET_NAME_LENGTH
  <2>2. \A p \in {"IGATE_PORT", "IGATE_PASSCODE"} : p \in Params \ Switches /\ Size(p) >= 2
    BY DEF Params, Layout, Switches, Size
  <2>3. \A p \in {"IGATE_HOST", "IGATE_USERNAME", "IGATE_FILTER"} : \A t :
          Set(p, Padded(t, CRED_LENGTH)) \in Seq(Other)
    BY <2>1, OtherPadded
  <2>4. \A p \in {"IGATE_PORT", "IGATE_PASSCODE"} : \A n, l, u : parseWord(p, n, l, u) \in Seq(Other)
    BY <2>2, OtherParsed
  <2> QED
    BY <1>9, <2>3, <2>4 DEF cmd_igate
<1>10. CASE steps \in cmd_address
  <2>1. {"MYCALL", "DEST"} \cap Used \subseteq Params \ Switches
    BY <1>0 DEF Switches
  <2> QED
    BY <1>10, <2>1, OtherText DEF cmd_address
<1>11. CASE steps \in cmd_webserver
  <2>1. \A p \in {"HTTP_ON", "HTTP_USER", "HTTP_PASSWD"} : p \in Params \ Switches
    BY DEF Params, Layout, Switches
  <2>2. \A n : SetByte("HTTP_ON", n) \in Seq(Other)
    BY <2>1, OtherByte
  <2> DEFINE F(t, u) == SetText("HTTP_USER", t) \o SetText("HTTP_PASSWD", u)
  <2>3. \A t, u : F(t, u) \in Seq(Other)
    BY <2>1, OtherText, OtherBoth
  <2>4. cmd_webserver = (IF "HTTP_ON" \in Used THEN {SetByte("HTTP_ON", 1), SetByte("HTTP_ON", 0)} ELSE {})
                        \cup IF {"HTTP_USER", "HTTP_PASSWD"} \subseteq Used
                             THEN {F(t, u) : t \in Texts \ {<< >>}, u \in Texts} ELSE {}
    BY DEF cmd_webserver
  <2> HIDE DEF F
  <2>5. \/ steps = SetByte("HTTP_ON", 1) \/ steps = SetByte("HTTP_ON", 0)
        \/ \E t, u : steps = F(t, u)
    BY <1>11, <2>4
  <2> QED
    BY <2>2, <2>3, <2>5
<1>12. CASE steps \in cmd_softap
  <2>1. {"SOFTAP_PASSWD"} \cap Used \subseteq Params \ Switches
    BY <1>0 DEF Switches
  <2> QED
    BY <1>12, <2>1, OtherText DEF cmd_softap
<1>13. CASE steps \in cmd_wifi_ap
  <2>1. {"WIFIAP0", "WIFIAP1", "WIFIAP2", "WIFIAP3"} \cap Used \subseteq Params \ Switches
    BY <1>0 DEF Switches
  <2> DEFINE F(t, u) == [k \in 1..64 |-> IF k <= Len(t) THEN t[k]
                                        ELSE IF k \in 33..(32 + Len(u)) THEN u[k - 32] ELSE 0]
  <2>2. cmd_wifi_ap = {SetText(p, F(t, u)) : p \in {"WIFIAP0", "WIFIAP1", "WIFIAP2", "WIFIAP3"} \cap Used,
                                            t \in Texts, u \in (Texts \ {<< >>}) \cup {OPEN}}
    BY DEF cmd_wifi_ap
  <2> HIDE DEF F
  <2>3. PICK p \in {"WIFIAP0", "WIFIAP1", "WIFIAP2", "WIFIAP3"} \cap Used,
             t \in Texts, u \in (Texts \ {<< >>}) \cup {OPEN} : steps = SetText(p, F(t, u))
    BY <1>13, <2>2
  <2> QED
    BY <2>1, <2>3, OtherText
<1> QED
  BY <1>1, <1>2, <1>3, <1>4, <1>5, <1>6, <1>7, <1>8, <1>9, <1>10, <1>11, <1>12, <1>13 DEF ShellSets

\* The web interface also sets the switches.
LEMMA WebWritten ==
  ASSUME NEW steps \in cmd_setParm
  PROVE  \/ steps \in Seq(Other)
         \/ \E sw \in Switches, m \in BOOLEAN : steps = <<FirstUnit(sw, m), SecondUnit(sw, m)>>
<1>0. Used \subseteq Params
  BY SettingsAssumption
<1>1. CASE steps \in {parseBool(p, v) : p \in WebBools \cap Used, v \in Bools}
  <2>1. PICK p \in WebBools \cap Used, v \in Bools : steps = parseBool(p, v)
    BY <1>1
  <2>2. CASE p \in Switches
    <3>1. steps = << >> \/ steps = SetByte(p, Flag(TRUE)) \/ steps = SetByte(p, Flag(FALSE))
      BY <2>1 DEF parseBool, Flag
    <3>2. << >> \in Seq(Other)
      OBVIOUS
    <3> QED
      BY <2>2, <3>1, <3>2, SwitchWrites
  <2>3. CASE p \notin Switches
    BY <1>0, <2>1, <2>3, OtherParsed
  <2> QED
    BY <2>2, <2>3
<1>2. CASE steps \in {parseByte(p, n, WebBytes[p][1], WebBytes[p][2]) :
                        p \in DOMAIN WebBytes \cap Used, n \in Numbers}
  <2>1. DOMAIN WebBytes \cap Used \subseteq Params \ Switches
    BY <1>0 DEF WebBytes, Switches
  <2> QED
    BY <1>2, <2>1, OtherParsed
<1>3. CASE steps \in {parseWord(p, n, 0, 65535) :
                        p \in {"IGATE_PORT", "IGATE_PASSCODE"} \cap Used, n \in Numbers}
  <2>1. \A p \in {"IGATE_PORT", "IGATE_PASSCODE"} : p \in Params \ Switches /\ Size(p) >= 2
    BY DEF Params, Layout, Switches, Size
  <2> QED
    BY <1>3, <2>1, OtherParsed
<1>4. CASE steps \in {parseWord(p, n, 0, 360) : p \in {"TRACKER_TURN_LIMIT"} \cap Used, n \in Numbers}
  <2>1. "TRACKER_TURN_LIMIT" \in Params \ Switches /\ Size("TRACKER_TURN_LIMIT") >= 2
    BY DEF Params, Layout, Switches, Size
  <2> QED
    BY <1>4, <2>1, OtherParsed
<1>5. CASE steps \in {parseFreq(p, n) : p \in {"TRX_TX_FREQ", "TRX_RX_FREQ"} \cap Used, n \in Numbers}
  <2>1. \A p \in {"TRX_TX_FREQ", "TRX_RX_FREQ"} : p \in Params \ Switches /\ Size(p) >= 4
    BY DEF Params, Layout, Switches, Size
  <2> QED
    BY <1>5, <2>1, OtherParsed
<1>6. CASE steps \in {SetText(p, t) : p \in WebTexts \cap Used, t \in Texts}
  <2>1. WebTexts \cap Used \subseteq Params \ Switches
    BY <1>0 DEF WebTexts, AccessPoints, Switches
  <2> QED
    BY <1>6, <2>1, OtherText
<1>7. CASE steps \in {parseSymbol(t) : t \in Texts}
  BY <1>7, OtherSymbol
<1>8. CASE steps \in {parseDigipath(r) : r \in Routes}
  BY <1>8, OtherDigipath
<1>9. CASE steps = SetText("WIFIAP0", << >>) \o SetText("WIFIAP1", << >>) \o SetText("WIFIAP2", << >>)
                   \o SetText("WIFIAP3", << >>) \o SetText("WIFIAP4", << >>) \o SetText("WIFIAP5", << >>)
  <2>1. \A p \in AccessPoints : p \in Params \ Switches
    BY DEF Params, Layout, Switches, AccessPoints
  <2>2. \A p \in AccessPoints : SetText(p, << >>) \in Seq(Other)
    BY <2>1, OtherText
  <2>3. PICK a \in Seq(Other), b \in Seq(Other), c \in Seq(Other),
             d \in Seq(Other), e \in Seq(Other), f \in Seq(Other) :
          steps = a \o b \o c \o d \o e \o f
    BY <1>9, <2>2, Zenon DEF AccessPoints
  <2> QED
    BY <2>3, OtherBoth
<1> QED
  BY <1>1, <1>2, <1>3, <1>4, <1>5, <1>6, <1>7, <1>8, <1>9 DEF cmd_setParm

----------------------------------------------------------------------------
(* What a thread that is at a switch has left to do. *)

Setting(sw, m) == [op |-> "activate", sw |-> sw, m |-> m]

ToWrite(sw, m) ==
  {<<FirstUnit(sw, m), SecondUnit(sw, m)>>, <<FirstUnit(sw, m), SecondUnit(sw, m), Setting(sw, m)>>}
ToSum(sw, m) == {<<SecondUnit(sw, m)>>, <<SecondUnit(sw, m), Setting(sw, m)>>}
ToActivate(sw, m) == <<Setting(sw, m)>>
ToRequire(sw) == <<After("require", sw)>>
ToRelease(sw) == <<After("release", sw), After("signal", sw), After("join", sw)>>
ToSignal(sw) == <<After("signal", sw), After("join", sw)>>
ToJoin(sw) == <<After("join", sw)>>

Jobs(sw) ==
  (UNION {ToWrite(sw, m) \cup ToSum(sw, m) \cup {ToActivate(sw, m)} : m \in BOOLEAN})
    \cup {ToRequire(sw), ToRelease(sw), ToSignal(sw), ToJoin(sw)}

Todos == Seq(Other) \cup UNION {Jobs(sw) : sw \in Switches}

LEMMA JobKinds ==
  ASSUME NEW sw, NEW steps
  PROVE  steps \in Jobs(sw) <=>
           \/ \E m \in BOOLEAN : steps \in ToWrite(sw, m) \/ steps \in ToSum(sw, m) \/ steps = ToActivate(sw, m)
           \/ steps \in {ToRequire(sw), ToRelease(sw), ToSignal(sw), ToJoin(sw)}
<1> DEFINE F(m) == ToWrite(sw, m) \cup ToSum(sw, m) \cup {ToActivate(sw, m)}
      G == {ToRequire(sw), ToRelease(sw), ToSignal(sw), ToJoin(sw)}
<1>1. Jobs(sw) = (UNION {F(m) : m \in BOOLEAN}) \cup G
  BY DEF Jobs
<1>2. \A m : steps \in F(m) <=>
                steps \in ToWrite(sw, m) \/ steps \in ToSum(sw, m) \/ steps = ToActivate(sw, m)
  OBVIOUS
<1> HIDE DEF F, G
<1>3. steps \in UNION {F(m) : m \in BOOLEAN} <=> \E m \in BOOLEAN : steps \in F(m)
  BY Zenon
<1>4. steps \in Jobs(sw) <=>
        \/ steps \in UNION {F(m) : m \in BOOLEAN}
        \/ steps \in G
  BY <1>1
<1> QED
  BY <1>2, <1>3, <1>4, Zenon DEF G

LEMMA JobConcerns ==
  ASSUME NEW sw \in Switches, NEW other \in Switches, NEW steps \in Jobs(sw)
  PROVE  /\ steps # << >>
         /\ (\E k \in DOMAIN steps : Concerns(steps[k], other)) <=> other = sw
<1>1. \A m \in BOOLEAN : /\ Concerns(FirstUnit(sw, m), other) <=> other = sw
                         /\ Concerns(SecondUnit(sw, m), other) <=> other = sw
                         /\ Concerns(Setting(sw, m), other) <=> other = sw
  BY DEF Concerns, FirstUnit, SecondUnit, Setting
<1>2. \A op \in {"require", "release", "signal", "join"} : Concerns(After(op, sw), other) <=> other = sw
  BY DEF Concerns, After
<1> DEFINE Some(s) == \E k \in DOMAIN s : Concerns(s[k], other)
<1>3. ASSUME NEW a PROVE <<a>> # << >> /\ (Some(<<a>>) <=> Concerns(a, other))
  <2>1. <<a>> # << >> /\ DOMAIN <<a>> = 1..1 /\ <<a>>[1] = a
    OBVIOUS
  <2> QED
    BY <2>1
<1>4. ASSUME NEW a, NEW b
      PROVE  <<a, b>> # << >> /\ (Some(<<a, b>>) <=> Concerns(a, other) \/ Concerns(b, other))
  <2>1. <<a, b>> # << >> /\ DOMAIN <<a, b>> = 1..2 /\ <<a, b>>[1] = a /\ <<a, b>>[2] = b
    OBVIOUS
  <2> QED
    BY <2>1
<1>5. ASSUME NEW a, NEW b, NEW c
      PROVE  /\ <<a, b, c>> # << >>
             /\ Some(<<a, b, c>>) <=> Concerns(a, other) \/ Concerns(b, other) \/ Concerns(c, other)
  <2>1. /\ <<a, b, c>> # << >> /\ DOMAIN <<a, b, c>> = 1..3
        /\ <<a, b, c>>[1] = a /\ <<a, b, c>>[2] = b /\ <<a, b, c>>[3] = c
    OBVIOUS
  <2> QED
    BY <2>1
<1> SUFFICES steps # << >> /\ (Some(steps) <=> other = sw)
  OBVIOUS
<1> HIDE DEF Some
<1>6. CASE \E m \in BOOLEAN : steps \in ToWrite(sw, m)
  BY <1>1, <1>4, <1>5, <1>6 DEF ToWrite
<1>7. CASE \E m \in BOOLEAN : steps \in ToSum(sw, m)
  BY <1>1, <1>3, <1>4, <1>7 DEF ToSum
<1>8. CASE \E m \in BOOLEAN : steps = ToActivate(sw, m)
  BY <1>1, <1>3, <1>8 DEF ToActivate
<1>9. CASE steps \in {ToRequire(sw), ToRelease(sw), ToSignal(sw), ToJoin(sw)}
  BY <1>2, <1>3, <1>4, <1>5, <1>9 DEF ToRequire, ToRelease, ToSignal, ToJoin
<1> QED
  BY <1>6, <1>7, <1>8, <1>9, JobKinds, Zenon

LEMMA OtherConcerns ==
  ASSUME NEW sw \in Switches, NEW steps \in Seq(Other)
  PROVE  ~\E k \in DOMAIN steps : Concerns(steps[k], sw)
<1>1. \A s \in Other : ~Concerns(s, sw)
  BY DEF Other, Writes, Concerns
<1>2. \A k \in DOMAIN steps : steps[k] \in Other
  OBVIOUS
<1> QED
  BY <1>1, <1>2

LEMMA BusyIs ==
  ASSUME todo \in [PanelThreads -> Todos], NEW sw \in Switches, NEW t \in PanelThreads
  PROVE  Busy(t, sw) <=> todo[t] \in Jobs(sw)
<1>1. todo[t] \in Seq(Other) \/ \E other \in Switches : todo[t] \in Jobs(other)
  BY DEF Todos
<1>2. CASE todo[t] \in Seq(Other)
  <2>1. ~Busy(t, sw)
    BY <1>2, OtherConcerns DEF Busy
  <2>2. todo[t] \notin Jobs(sw)
    BY <1>2, OtherConcerns, JobConcerns
  <2> QED
    BY <2>1, <2>2
<1>3. ASSUME NEW other \in Switches, todo[t] \in Jobs(other)
      PROVE  Busy(t, sw) <=> todo[t] \in Jobs(sw)
  <2>1. Busy(t, sw) <=> sw = other
    BY <1>3, JobConcerns DEF Busy
  <2>2. todo[t] \in Jobs(sw) => sw = other
    BY <1>3, JobConcerns
  <2> QED
    BY <1>3, <2>1, <2>2
<1> QED
  BY <1>1, <1>2, <1>3

----------------------------------------------------------------------------
(* What is read of a switch. *)

LEMMA ChecksumOne == \A b : ChecksumOf(<<b>>) = Xor(0..3, b)
<1> SUFFICES ASSUME NEW b PROVE ChecksumOf(<<b>>) = Xor(0..3, b)
  OBVIOUS
<1> DEFINE E(f, k) == IF k = 0 THEN 0..3 ELSE Xor(f[k - 1], <<b>>[k])
           Eq(f) == f = [k \in 0..1 |-> E(f, k)]
           h == CHOOSE f : Eq(f)
           g == [k \in 0..1 |-> IF k = 0 THEN 0..3 ELSE Xor(0..3, b)]
<1>1. Len(<<b>>) = 1 /\ <<b>>[1] = b
  OBVIOUS
<1>2. Eq(g)
  <2>1. \A k \in 0..1 : k = 0 \/ k = 1
    OBVIOUS
  <2>2. E(g, 0) = g[0] /\ E(g, 1) = g[1]
    BY <1>1
  <2>3. \A k \in 0..1 : E(g, k) = g[k]
    BY <2>1, <2>2
  <2>4. [k \in 0..1 |-> E(g, k)] = [k \in 0..1 |-> g[k]]
    BY <2>3
  <2> QED
    BY <2>4
<1> HIDE DEF Eq
<1>3. Eq(h)
  BY <1>2
<1>4. h[0] = E(h, 0) /\ h[1] = E(h, 1)
  <2> HIDE DEF h
  <2> QED
    BY <1>3 DEF Eq
<1>5. h[1] = Xor(0..3, b)
  <2> HIDE DEF h
  <2>1. h[0] = 0..3 /\ h[1] = Xor(h[1 - 1], <<b>>[1]) /\ 1 - 1 = 0
    BY <1>4
  <2> QED
    BY <1>1, <2>1, Zenon
<1>6. ChecksumOf(<<b>>) = h[1]
  <2>1. ChecksumOf(<<b>>) =
          (CHOOSE f : f = [k \in 0..Len(<<b>>) |-> E(f, k)])[Len(<<b>>)]
    BY DEF ChecksumOf
  <2> QED
    BY <1>1, <2>1 DEF Eq
<1> QED
  BY <1>5, <1>6

LEMMA NothingIsZero == ByteValue(0) = <<{}>>
<1>1. \A k \in 0..7 : (0 \div 2^k) % 2 # 1
  <2>1. \A k \in 0..7 : k = 0 \/ k = 1 \/ k = 2 \/ k = 3 \/ k = 4 \/ k = 5 \/ k = 6 \/ k = 7
    OBVIOUS
  <2>2. \A n \in Nat \ {0} : (0 \div n) % 2 # 1
    OBVIOUS
  <2>3. /\ 2^0 \in Nat \ {0} /\ 2^1 \in Nat \ {0} /\ 2^2 \in Nat \ {0} /\ 2^3 \in Nat \ {0}
        /\ 2^4 \in Nat \ {0} /\ 2^5 \in Nat \ {0} /\ 2^6 \in Nat \ {0} /\ 2^7 \in Nat \ {0}
    OBVIOUS
  <2> QED
    BY <2>1, <2>2, <2>3
<1> QED
  BY <1>1 DEF ByteValue, Bits

\* A switch is on if its byte is not zero and the checksum is right.
Reads(value, sum) == sum = Xor(0..3, value) /\ <<value>> # ByteValue(0)

LEMMA OnIs ==
  ASSUME NEW sw \in Switches
  PROVE  /\ IsOn(sw) <=> Reads(eeprom[Offset(sw)], eeprom[Offset(sw) + 1])
         /\ IsOn(sw)' <=> Reads(eeprom'[Offset(sw)], eeprom'[Offset(sw) + 1])
<1>1. PICK at \in Nat : at = Offset(sw) /\ Size(sw) = 1
  BY SwitchLayout
<1>2. Default(sw) = ByteValue(0)
  <2>1. Default(sw) = Padded(<< >>, 1)
    BY <1>1 DEF Default, Switches
  <2>2. Padded(<< >>, 1) = <<{}>>
    BY DEF Padded
  <2> QED
    BY <2>1, <2>2, NothingIsZero
<1> DEFINE B(e) == [k \in 1..1 |-> e[at + k - 1]]
           G(e) == IF e[at + 1] = ChecksumOf(B(e)) THEN B(e) ELSE ByteValue(0)
<1>3. ASSUME NEW e PROVE G(e) # ByteValue(0) <=> Reads(e[at], e[at + 1])
  <2>1. B(e) = <<e[at]>>
    <3>1. \A k \in 1..1 : at + k - 1 = at
      OBVIOUS
    <3>2. B(e) = [k \in 1..1 |-> e[at]]
      BY <3>1
    <3> QED
      BY <3>2
  <2>2. ChecksumOf(B(e)) = Xor(0..3, e[at])
    BY <2>1, ChecksumOne
  <2> HIDE DEF B
  <2> QED
    BY <2>1, <2>2 DEF Reads
<1>4. /\ IsOn(sw) <=> G(eeprom) # ByteValue(0)
      /\ IsOn(sw)' <=> G(eeprom') # ByteValue(0)
  BY <1>1, <1>2, Zenon DEF IsOn, Get
<1> HIDE DEF G
<1> QED
  BY <1>1, <1>3, <1>4

LEMMA TwoSwitches ==
  /\ "IGATE_ON" \in Switches /\ "DIGIPEATER_ON" \in Switches
  /\ \A sw \in Switches : sw = "IGATE_ON" \/ sw = "DIGIPEATER_ON"
BY DEF Switches

\* Both bytes of a switch are in the memory, and in no other parameter.
LEMMA SwitchPlaces ==
  ASSUME NEW sw \in Switches
  PROVE  /\ Offset(sw) \in Nat
         /\ Places(sw) = {Offset(sw), Offset(sw) + 1}
         /\ Offset(sw) \in Places(sw) /\ Offset(sw) + 1 \in Places(sw)
         /\ \A p \in Params : p # sw => Offset(sw) \notin Places(p) /\ Offset(sw) + 1 \notin Places(p)
         /\ Places(sw) \subseteq UNION {Places(p) : p \in Used}
<1>1. PICK at \in Nat : at = Offset(sw) /\ Size(sw) = 1 /\ sw \in Params
  BY SwitchLayout
<1>2. Places(sw) = at..at+1
  BY <1>1 DEF Places
<1>3. Places(sw) = {at, at + 1}
  BY <1>2
<1>4. \A p \in Params : p # sw => Places(p) \cap Places(sw) = {}
  BY <1>1, SettingsAssumption
<1>5. sw \in Used
  BY PanelAssumption
<1> QED
  BY <1>1, <1>3, <1>4, <1>5

Memory == UNION {Places(p) : p \in Used}

\* A unit that is written, and the switches.
LEMMA UnitWritten ==
  ASSUME NEW step, NEW meddled, WriteUnit(step, meddled), DOMAIN eeprom = Memory,
         step.at .. step.at + Len(step.bytes) - 1 \subseteq Places(step.param),
         step.param \in Params
  PROVE  /\ DOMAIN eeprom' = Memory
         /\ \A sw \in Switches : step.param # sw =>
              /\ eeprom'[Offset(sw)] = eeprom[Offset(sw)]
              /\ eeprom'[Offset(sw) + 1] = eeprom[Offset(sw) + 1]
<1>1. PICK R : R = step.at .. step.at + Len(step.bytes) - 1
  OBVIOUS
<1> DEFINE V(a) == step.bytes[a - step.at + 1]
<1>2. eeprom' = [a \in DOMAIN eeprom |-> IF a \in R THEN V(a) ELSE eeprom[a]]
  BY <1>1, Zenon DEF WriteUnit
<1> HIDE DEF V
<1>3. ASSUME NEW sw \in Switches, step.param # sw, NEW a \in {Offset(sw), Offset(sw) + 1}
      PROVE  eeprom'[a] = eeprom[a]
  <2>1. a \in Memory
    BY <1>3, SwitchPlaces DEF Memory
  <2>2. a \notin R
    BY <1>1, <1>3, SwitchPlaces
  <2> QED
    BY <1>2, <2>1, <2>2
<1> QED
  BY <1>2, <1>3

LEMMA FirstWritten ==
  ASSUME NEW sw \in Switches, NEW m \in BOOLEAN, NEW meddled,
         WriteUnit(FirstUnit(sw, m), meddled), DOMAIN eeprom = Memory
  PROVE  /\ DOMAIN eeprom' = Memory
         /\ <<eeprom'[Offset(sw)]>> = Cell(m)
         /\ \A other \in Switches : other # sw =>
              /\ eeprom'[Offset(other)] = eeprom[Offset(other)]
              /\ eeprom'[Offset(other) + 1] = eeprom[Offset(other) + 1]
<1>1. PICK at \in Nat : at = Offset(sw) /\ Places(sw) = {at, at + 1} /\ at \in Memory
  BY SwitchPlaces DEF Memory
<1>2. PICK b, v : v = Cell(m) /\ v = <<b>> /\ Len(v) = 1 /\ v[1] = b
  <2>1. PICK b : b = Bits(Flag(m))
    OBVIOUS
  <2>2. Cell(m) = <<b>>
    BY <2>1, CellFacts
  <2> QED
    BY <2>2
<1>3. PICK s : s = FirstUnit(sw, m)
  OBVIOUS
<1>4. s.at = at /\ s.bytes = v /\ s.param = sw /\ sw \in Params
  BY <1>1, <1>2, <1>3, SwitchLayout DEF FirstUnit
<1>5. at .. at + 1 - 1 = {at} /\ at - at + 1 = 1
  BY <1>1
<1>6. eeprom' = [a \in DOMAIN eeprom |-> IF a \in at .. at + 1 - 1 THEN v[a - at + 1] ELSE eeprom[a]]
  BY <1>2, <1>3, <1>4, Zenon DEF WriteUnit
<1>7. eeprom'[at] = b
  BY <1>1, <1>2, <1>5, <1>6
<1>8. s.at .. s.at + Len(s.bytes) - 1 \subseteq Places(s.param) /\ s.param \in Params
  BY <1>1, <1>2, <1>4, <1>5
<1>9. /\ DOMAIN eeprom' = Memory
      /\ \A other \in Switches : s.param # other =>
              /\ eeprom'[Offset(other)] = eeprom[Offset(other)]
              /\ eeprom'[Offset(other) + 1] = eeprom[Offset(other) + 1]
  BY <1>3, <1>8, UnitWritten
<1> QED
  BY <1>1, <1>2, <1>4, <1>7, <1>9

\* With its checksum the switch reads as it was set.
LEMMA SumWritten ==
  ASSUME NEW sw \in Switches, NEW m \in BOOLEAN, NEW meddled,
         WriteUnit(SecondUnit(sw, m), meddled), DOMAIN eeprom = Memory,
         <<eeprom[Offset(sw)]>> = Cell(m)
  PROVE  /\ DOMAIN eeprom' = Memory
         /\ IsOn(sw)' <=> m
         /\ \A other \in Switches : other # sw =>
              /\ eeprom'[Offset(other)] = eeprom[Offset(other)]
              /\ eeprom'[Offset(other) + 1] = eeprom[Offset(other) + 1]
<1>1. PICK at \in Nat : at = Offset(sw) /\ Places(sw) = {at, at + 1} /\ at \in Memory /\ at + 1 \in Memory
  BY SwitchPlaces DEF Memory
<1>2. PICK b : Cell(m) = <<b>>
  BY CellFacts
<1>3. PICK s : s = SecondUnit(sw, m)
  OBVIOUS
<1>4. PICK c, v : v = <<c>> /\ c = Xor(0..3, b)
  OBVIOUS
<1>5. s.at = at + 1 /\ s.bytes = v /\ s.param = sw /\ sw \in Params
  <2>1. ChecksumOf(Cell(m)) = c
    BY <1>2, <1>4, ChecksumOne
  <2> QED
    BY <1>1, <1>3, <1>4, <2>1, SwitchLayout DEF SecondUnit
<1>6. Len(v) = 1 /\ v[1] = c
  BY <1>4
<1>7. at + 1 .. at + 1 + 1 - 1 = {at + 1} /\ at + 1 - (at + 1) + 1 = 1 /\ at # at + 1
  BY <1>1
<1>8. eeprom' = [a \in DOMAIN eeprom |->
                   IF a \in at + 1 .. at + 1 + 1 - 1 THEN v[a - (at + 1) + 1] ELSE eeprom[a]]
  BY <1>3, <1>5, <1>6, Zenon DEF WriteUnit
<1>9. eeprom'[at + 1] = c /\ eeprom'[at] = eeprom[at]
  BY <1>1, <1>6, <1>7, <1>8
<1>10. s.at .. s.at + Len(s.bytes) - 1 \subseteq Places(s.param) /\ s.param \in Params
  BY <1>1, <1>5, <1>6, <1>7
<1>11. /\ DOMAIN eeprom' = Memory
       /\ \A other \in Switches : s.param # other =>
              /\ eeprom'[Offset(other)] = eeprom[Offset(other)]
              /\ eeprom'[Offset(other) + 1] = eeprom[Offset(other) + 1]
  BY <1>3, <1>10, UnitWritten
<1>12. IsOn(sw)' <=> m
  <2>1. PICK e : e = eeprom[at] /\ eeprom'[at] = e
    BY <1>9
  <2>2. <<e>> = <<b>>
    BY <1>1, <1>2, <2>1
  <2>3. e = b
    BY <2>2
  <2>4. Reads(eeprom'[at], eeprom'[at + 1]) <=> <<b>> # ByteValue(0)
    BY <1>4, <1>9, <2>1, <2>3 DEF Reads
  <2>5. Cell(m) = ByteValue(0) <=> ~m
    BY CellFacts
  <2>6. IsOn(sw)' <=> Reads(eeprom'[at], eeprom'[at + 1])
    BY <1>1, OnIs
  <2> QED
    BY <1>2, <2>4, <2>5, <2>6, Zenon
<1> QED
  BY <1>5, <1>11, <1>12

----------------------------------------------------------------------------
(* The invariant. *)

\* The thread of a switch, its subscription and its signals are as on says.
Matches(sw) ==
  /\ subscribed[sw] = on[sw] /\ signals[sw] = 0
  /\ thread[sw] = Flag(on[sw])
  /\ live[sw] = IF on[sw] THEN {1} ELSE {}

Rest(sw) == Matches(sw) /\ (sw \notin stale => on[sw] = IsOn(sw))

\* A switch that is being turned off: its thread ends after the signal.
Ending(sw, s) ==
  /\ ~on[sw] /\ ~IsOn(sw) /\ subscribed[sw] /\ thread[sw] = 1
  /\ \/ live[sw] = {1} /\ signals[sw] = (IF s.op = "join" THEN 1 ELSE 0)
     \/ live[sw] = {} /\ signals[sw] = 0 /\ s.op = "join"

\* When s is the next step of the thread that is at the switch.
Fits(sw, s) ==
  /\ s.op = "write" => Matches(sw) /\ (~s.first => <<eeprom[Offset(sw)]>> = s.value)
  /\ s.op = "activate" => Matches(sw) /\ (IsOn(sw) <=> s.m)
  /\ s.op = "require" => Matches(sw) /\ on[sw] /\ IsOn(sw)
  /\ s.op \in {"release", "signal", "join"} => Ending(sw, s)

Single(sw) == \A t, u \in PanelThreads : todo[t] \in Jobs(sw) /\ todo[u] \in Jobs(sw) => t = u

GoodSwitch(sw) ==
  /\ Single(sw)
  /\ (\A t \in PanelThreads : todo[t] \notin Jobs(sw)) => Rest(sw)
  /\ \A t \in PanelThreads : todo[t] \in Jobs(sw) => Fits(sw, Head(todo[t]))

\* A switch has the radio, or has not yet got it, or not yet let it go.
HasRadio(sw) ==
  \/ /\ on[sw]
     /\ \A t \in PanelThreads : todo[t] \in Jobs(sw) => Head(todo[t]).op # "require"
  \/ \E t \in PanelThreads : todo[t] \in Jobs(sw) /\ Head(todo[t]).op = "release"

One(b) == IF b THEN 1 ELSE 0

PanelShape == todo \in [PanelThreads -> Todos] /\ DOMAIN eeprom = Memory /\ orderly \in BOOLEAN

PanelTypes ==
  /\ on \in [Switches -> BOOLEAN] /\ subscribed \in [Switches -> BOOLEAN]
  /\ thread \in [Switches -> 0..1] /\ signals \in [Switches -> 0..1]
  /\ live \in [Switches -> {{}, {1}}]

PanelGood ==
  /\ PanelTypes
  /\ \A sw \in Switches : GoodSwitch(sw)
  /\ users = One(HasRadio("IGATE_ON")) + One(HasRadio("DIGIPEATER_ON"))

PanelInv == PanelShape /\ (orderly => PanelGood)

\* A step that is not about a switch.
Still(sw) ==
  /\ on'[sw] = on[sw] /\ subscribed'[sw] = subscribed[sw] /\ signals'[sw] = signals[sw]
  /\ thread'[sw] = thread[sw] /\ live'[sw] = live[sw]
  /\ sw \in stale' <=> sw \in stale
  /\ eeprom'[Offset(sw)] = eeprom[Offset(sw)] /\ eeprom'[Offset(sw) + 1] = eeprom[Offset(sw) + 1]

TodoApart(sw) ==
  \A t \in PanelThreads :
    todo'[t] = todo[t] \/ (todo[t] \notin Jobs(sw) /\ todo'[t] \notin Jobs(sw))

Apart(sw) == Still(sw) /\ TodoApart(sw)

LEMMA ApartKeeps ==
  ASSUME NEW sw \in Switches, Apart(sw)
  PROVE  /\ GoodSwitch(sw) => GoodSwitch(sw)'
         /\ HasRadio(sw)' <=> HasRadio(sw)
<1>1. IsOn(sw)' <=> IsOn(sw)
  BY OnIs, Zenon DEF Apart, Still
<1>2. IsOn(sw) \in BOOLEAN /\ IsOn(sw)' \in BOOLEAN
  BY DEF IsOn
<1>3. IsOn(sw)' = IsOn(sw)
  BY <1>1, <1>2
<1>4. Matches(sw)' <=> Matches(sw)
  BY DEF Apart, Still, Matches
<1>5. Rest(sw) => Rest(sw)'
  <2> SUFFICES ASSUME Rest(sw) PROVE Rest(sw)'
    OBVIOUS
  <2>1. Matches(sw)' /\ (sw \notin stale' => on'[sw] = IsOn(sw)')
    BY <1>3, <1>4 DEF Rest, Apart, Still
  <2> QED
    BY <2>1, Zenon DEF Rest
<1>6. ASSUME NEW s, Fits(sw, s) PROVE Fits(sw, s)'
  <2>1. Ending(sw, s) => Ending(sw, s)'
    BY <1>3 DEF Apart, Still, Ending
  <2>2. <<eeprom'[Offset(sw)]>> = <<eeprom[Offset(sw)]>>
    BY DEF Apart, Still
  <2>3. on'[sw] = on[sw]
    BY DEF Apart, Still
  <2> QED
    BY <1>3, <1>4, <1>6, <2>1, <2>2, <2>3, Zenon DEF Fits
<1>7. ASSUME NEW t \in PanelThreads
      PROVE  /\ todo'[t] \in Jobs(sw) <=> todo[t] \in Jobs(sw)
             /\ todo[t] \in Jobs(sw) => todo'[t] = todo[t]
  BY DEF Apart, TodoApart
<1>8. HasRadio(sw)' <=> HasRadio(sw)
  <2>1. on'[sw] = on[sw]
    BY DEF Apart, Still
  <2>2. \A t \in PanelThreads : todo[t] \in Jobs(sw) => Head(todo'[t]).op = Head(todo[t]).op
    BY <1>7
  <2> QED
    BY <1>7, <2>1, <2>2, Zenon DEF HasRadio
<1>9. ASSUME GoodSwitch(sw) PROVE GoodSwitch(sw)'
  <2>1. Single(sw)'
    BY <1>7, <1>9 DEF GoodSwitch, Single
  <2>2. (\A t \in PanelThreads : todo'[t] \notin Jobs(sw)) => Rest(sw)'
    BY <1>5, <1>7, <1>9, Zenon DEF GoodSwitch
  <2>3. ASSUME NEW t \in PanelThreads, todo'[t] \in Jobs(sw) PROVE Fits(sw, Head(todo[t]))'
    <3>1. PICK s : s = Head(todo[t]) /\ s = Head(todo'[t])
      BY <1>7, <2>3
    <3>2. Fits(sw, s)
      BY <1>7, <1>9, <2>3, <3>1 DEF GoodSwitch
    <3>3. Fits(sw, s)'
      BY <1>6, <3>2
    <3> QED
      BY <3>1, <3>3
  <2> QED
    BY <2>1, <2>2, <2>3 DEF GoodSwitch
<1> QED
  BY <1>8, <1>9

LEMMA JobsApart ==
  ASSUME NEW sw \in Switches
  PROVE  /\ << >> \notin Jobs(sw)
         /\ \A s \in Seq(Other) : s \notin Jobs(sw)
         /\ \A other \in Switches, s \in Jobs(sw) : other # sw => s \notin Jobs(other)
<1>1. << >> \notin Jobs(sw)
  BY JobConcerns
<1>2. \A s \in Seq(Other) : s \notin Jobs(sw)
  BY OtherConcerns, JobConcerns
<1>3. \A other \in Switches, s \in Jobs(sw) : other # sw => s \notin Jobs(other)
  BY JobConcerns, Zenon
<1> QED
  BY <1>1, <1>2, <1>3

\* Whether a switch has the radio, when only one thread may be at it.
LEMMA RadioIs ==
  ASSUME NEW sw \in Switches, NEW t \in PanelThreads
  PROVE  /\ (\A u \in PanelThreads : u # t => todo[u] \notin Jobs(sw)) =>
              (HasRadio(sw) <=> \/ on[sw] /\ (todo[t] \in Jobs(sw) => Head(todo[t]).op # "require")
                                \/ todo[t] \in Jobs(sw) /\ Head(todo[t]).op = "release")
         /\ (\A u \in PanelThreads : u # t => todo'[u] \notin Jobs(sw)) =>
              (HasRadio(sw)' <=> \/ on'[sw] /\ (todo'[t] \in Jobs(sw) => Head(todo'[t]).op # "require")
                                 \/ todo'[t] \in Jobs(sw) /\ Head(todo'[t]).op = "release")
BY Zenon DEF HasRadio

\* One thread begins, goes on or ends at a switch.
LEMMA JobMoves ==
  ASSUME NEW sw \in Switches, NEW t \in PanelThreads, NEW next,
         todo \in [PanelThreads -> Todos],
         \A u \in PanelThreads : u # t => todo[u] \notin Jobs(sw),
         todo' = [todo EXCEPT ![t] = next],
         next = << >> \/ next \in Jobs(sw),
         next = << >> => Rest(sw)',
         next \in Jobs(sw) => Fits(sw, Head(next))'
  PROVE  /\ GoodSwitch(sw)'
         /\ HasRadio(sw)' <=> \/ on'[sw] /\ (next \in Jobs(sw) => Head(next).op # "require")
                              \/ next \in Jobs(sw) /\ Head(next).op = "release"
<1>1. << >> \notin Jobs(sw)
  BY JobsApart
<1>2. todo'[t] = next /\ \A u \in PanelThreads : u # t => todo'[u] \notin Jobs(sw)
  BY DEF Todos
<1>3. Single(sw)'
  BY <1>2 DEF Single
<1>4. (\A u \in PanelThreads : todo'[u] \notin Jobs(sw)) => Rest(sw)'
  BY <1>2
<1>5. ASSUME NEW u \in PanelThreads, todo'[u] \in Jobs(sw) PROVE Fits(sw, Head(todo[u]))'
  <2>1. u = t
    BY <1>2, <1>5
  <2>2. PICK s : s = Head(next) /\ s = Head(todo'[u])
    BY <1>2, <2>1
  <2>3. Fits(sw, s)'
    BY <1>2, <1>5, <2>1, <2>2
  <2> QED
    BY <2>2, <2>3
<1>6. GoodSwitch(sw)'
  BY <1>3, <1>4, <1>5 DEF GoodSwitch
<1>7. HasRadio(sw)' <=> \/ on'[sw] /\ (todo'[t] \in Jobs(sw) => Head(todo'[t]).op # "require")
                        \/ todo'[t] \in Jobs(sw) /\ Head(todo'[t]).op = "release"
  BY <1>2, RadioIs
<1> QED
  BY <1>2, <1>6, <1>7

\* What it does is apart from the other.
LEMMA JobApart ==
  ASSUME NEW sw \in Switches, NEW t \in PanelThreads, NEW next, NEW other \in Switches, other # sw,
         todo \in [PanelThreads -> Todos],
         todo[t] \in Jobs(sw) \/ todo[t] = << >>,
         todo' = [todo EXCEPT ![t] = next],
         next = << >> \/ next \in Jobs(sw)
  PROVE  TodoApart(other)
<1>1. << >> \notin Jobs(other) /\ \A s \in Jobs(sw) : s \notin Jobs(other)
  BY JobsApart
<1>2. todo'[t] = next /\ \A u \in PanelThreads : u # t => todo'[u] = todo[u]
  OBVIOUS
<1> QED
  BY <1>1, <1>2 DEF TodoApart

LEMMA TuplesAre ==
  /\ \A a : Head(<<a>>) = a /\ Tail(<<a>>) = << >>
  /\ \A a, b : Head(<<a, b>>) = a /\ Tail(<<a, b>>) = <<b>>
  /\ \A a, b, c : Head(<<a, b, c>>) = a /\ Tail(<<a, b, c>>) = <<b, c>>
<1>1. \A a : Head(<<a>>) = a /\ Tail(<<a>>) = << >>
  OBVIOUS
<1>2. \A a, b : Head(<<a, b>>) = a /\ Tail(<<a, b>>) = <<b>>
  OBVIOUS
<1>3. \A a, b, c : Head(<<a, b, c>>) = a /\ Tail(<<a, b, c>>) = <<b, c>>
  OBVIOUS
<1> QED
  BY <1>1, <1>2, <1>3

\* The next step of a job, and what is left after it.
LEMMA JobSteps ==
  ASSUME NEW sw \in Switches, NEW s \in Jobs(sw)
  PROVE  \/ \E m \in BOOLEAN : Head(s) = FirstUnit(sw, m) /\ Tail(s) \in ToSum(sw, m)
         \/ \E m \in BOOLEAN : /\ Head(s) = SecondUnit(sw, m)
                               /\ Tail(s) = << >> \/ Tail(s) = ToActivate(sw, m)
         \/ \E m \in BOOLEAN : Head(s) = Setting(sw, m) /\ Tail(s) = << >>
         \/ Head(s) = After("require", sw) /\ Tail(s) = << >>
         \/ Head(s) = After("release", sw) /\ Tail(s) = ToSignal(sw)
         \/ Head(s) = After("signal", sw) /\ Tail(s) = ToJoin(sw)
         \/ Head(s) = After("join", sw) /\ Tail(s) = << >>
<1>1. ASSUME NEW m \in BOOLEAN, s \in ToWrite(sw, m)
      PROVE  Head(s) = FirstUnit(sw, m) /\ Tail(s) \in ToSum(sw, m)
  <2>1. \/ s = <<FirstUnit(sw, m), SecondUnit(sw, m)>>
        \/ s = <<FirstUnit(sw, m), SecondUnit(sw, m), Setting(sw, m)>>
    BY <1>1 DEF ToWrite
  <2>2. /\ Head(s) = FirstUnit(sw, m)
        /\ Tail(s) = <<SecondUnit(sw, m)>> \/ Tail(s) = <<SecondUnit(sw, m), Setting(sw, m)>>
    <3>1. PICK a, b, c : a = FirstUnit(sw, m) /\ b = SecondUnit(sw, m) /\ c = Setting(sw, m)
      OBVIOUS
    <3>2. CASE s = <<a, b>>
      BY <3>1, <3>2, TuplesAre, Zenon
    <3>3. CASE s = <<a, b, c>>
      <4>1. Head(s) = a /\ Tail(s) = <<b, c>>
        BY <3>3
      <4> QED
        BY <3>1, <4>1, Zenon
    <3> QED
      BY <2>1, <3>1, <3>2, <3>3, Zenon
  <2> QED
    BY <2>2 DEF ToSum
<1>2. ASSUME NEW m \in BOOLEAN, s \in ToSum(sw, m)
      PROVE  Head(s) = SecondUnit(sw, m) /\ (Tail(s) = << >> \/ Tail(s) = ToActivate(sw, m))
  BY <1>2, TuplesAre, Zenon DEF ToSum, ToActivate
<1>3. ASSUME NEW m \in BOOLEAN, s = ToActivate(sw, m)
      PROVE  Head(s) = Setting(sw, m) /\ Tail(s) = << >>
  BY <1>3, TuplesAre, Zenon DEF ToActivate
<1>4. s = ToRequire(sw) => Head(s) = After("require", sw) /\ Tail(s) = << >>
  BY TuplesAre, Zenon DEF ToRequire
<1>5. s = ToRelease(sw) => Head(s) = After("release", sw) /\ Tail(s) = ToSignal(sw)
  BY TuplesAre DEF ToRelease, ToSignal
<1>6. s = ToSignal(sw) => Head(s) = After("signal", sw) /\ Tail(s) = ToJoin(sw)
  BY TuplesAre, Zenon DEF ToSignal, ToJoin
<1>7. s = ToJoin(sw) => Head(s) = After("join", sw) /\ Tail(s) = << >>
  BY TuplesAre, Zenon DEF ToJoin
<1>8. s \in {ToRequire(sw), ToRelease(sw), ToSignal(sw), ToJoin(sw)} =>
        s = ToRequire(sw) \/ s = ToRelease(sw) \/ s = ToSignal(sw) \/ s = ToJoin(sw)
  OBVIOUS
<1> QED
  BY <1>1, <1>2, <1>3, <1>4, <1>5, <1>6, <1>7, <1>8, JobKinds, Zenon

LEMMA JobsHave ==
  ASSUME NEW sw \in Switches
  PROVE  /\ \A m \in BOOLEAN : /\ ToWrite(sw, m) \subseteq Jobs(sw) /\ ToSum(sw, m) \subseteq Jobs(sw)
                               /\ ToActivate(sw, m) \in Jobs(sw)
         /\ ToRequire(sw) \in Jobs(sw) /\ ToRelease(sw) \in Jobs(sw)
         /\ ToSignal(sw) \in Jobs(sw) /\ ToJoin(sw) \in Jobs(sw)
<1>1. \A s, m : m \in BOOLEAN /\ (s \in ToWrite(sw, m) \/ s \in ToSum(sw, m) \/ s = ToActivate(sw, m)) =>
                 s \in Jobs(sw)
  BY JobKinds, Zenon
<1>2. \A s : s = ToRequire(sw) \/ s = ToRelease(sw) \/ s = ToSignal(sw) \/ s = ToJoin(sw) => s \in Jobs(sw)
  <2>1. \A s : s = ToRequire(sw) \/ s = ToRelease(sw) \/ s = ToSignal(sw) \/ s = ToJoin(sw) =>
                 s \in {ToRequire(sw), ToRelease(sw), ToSignal(sw), ToJoin(sw)}
    OBVIOUS
  <2> QED
    BY <2>1, JobKinds, Zenon
<1> QED
  BY <1>1, <1>2, Zenon

\* The invariant as a whole follows from what it says of each switch.
LEMMA GoodFollows ==
  ASSUME PanelGood, PanelTypes', NEW sw \in Switches,
         GoodSwitch(sw)', \A other \in Switches : other # sw => Apart(other),
         users' = users - One(HasRadio(sw)) + One(HasRadio(sw)')
  PROVE  PanelGood'
<1>1. \A other \in Switches : GoodSwitch(other)'
  BY ApartKeeps DEF PanelGood
<1>2. PICK other \in Switches : 
          /\ other # sw
          /\ \/ sw = "IGATE_ON" /\ other = "DIGIPEATER_ON"
             \/ sw = "DIGIPEATER_ON" /\ other = "IGATE_ON"
  BY DEF Switches
<1>3. HasRadio(other)' <=> HasRadio(other)
  BY <1>2, ApartKeeps
<1>4. users' = One(HasRadio("IGATE_ON"))' + One(HasRadio("DIGIPEATER_ON"))'
  <2>1. users = One(HasRadio("IGATE_ON")) + One(HasRadio("DIGIPEATER_ON"))
    BY DEF PanelGood
  <2>2. \A b : One(b) \in Int
    BY DEF One
  <2>3. PICK a \in Int, b \in Int, c \in Int :
           a = One(HasRadio(sw)) /\ b = One(HasRadio(other)) /\ c = One(HasRadio(sw)')
    BY <2>2
  <2>4. One(HasRadio(other)') = b
    BY <1>3, <2>3 DEF One
  <2>5. users = a + b
    <3>1. CASE sw = "IGATE_ON" /\ other = "DIGIPEATER_ON"
      BY <2>1, <2>3, <3>1, Zenon
    <3>2. CASE sw = "DIGIPEATER_ON" /\ other = "IGATE_ON"
      <4>1. users = b + a
        BY <2>1, <2>3, <3>2, Zenon
      <4> QED
        BY <4>1
    <3> QED
      BY <1>2, <3>1, <3>2
  <2>6. users' = b + c
    BY <2>3, <2>5
  <2>7. CASE sw = "IGATE_ON" /\ other = "DIGIPEATER_ON"
    <3>1. users' = c + b
      BY <2>6
    <3> QED
      BY <2>3, <2>4, <2>7, <3>1, Zenon
  <2>8. CASE sw = "DIGIPEATER_ON" /\ other = "IGATE_ON"
    BY <2>3, <2>4, <2>6, <2>8, Zenon
  <2> QED
    BY <1>2, <2>7, <2>8
<1> QED
  BY <1>1, <1>4 DEF PanelGood

LEMMA AllApart ==
  ASSUME PanelGood, PanelTypes', \A sw \in Switches : Apart(sw), users' = users
  PROVE  PanelGood'
<1>1. \A sw \in Switches : GoodSwitch(sw)' /\ (HasRadio(sw)' <=> HasRadio(sw))
  BY ApartKeeps DEF PanelGood
<1>2. \A sw \in Switches : One(HasRadio(sw)') = One(HasRadio(sw))
  BY <1>1 DEF One
<1> QED
  BY <1>1, <1>2, TwoSwitches DEF PanelGood

LEMMA AppendTwo == \A a, b, c : Append(<<a, b>>, c) = <<a, b, c>>
<1> SUFFICES ASSUME NEW a, NEW b, NEW c PROVE Append(<<a, b>>, c) = <<a, b, c>>
  OBVIOUS
<1>1. PICK s : s = Append(<<a, b>>, c)
  OBVIOUS
<1>2. <<a, b>> \in Seq({a, b, c}) /\ Len(<<a, b>>) = 2 /\ <<a, b>>[1] = a /\ <<a, b>>[2] = b
  OBVIOUS
<1>3. s \in Seq({a, b, c}) /\ Len(s) = 3 /\ s[1] = a /\ s[2] = b /\ s[3] = c
  BY <1>1, <1>2, AppendProperties
<1>4. PICK r : r = <<a, b, c>> /\ r \in Seq({a, b, c}) /\ Len(r) = 3 /\ r[1] = a /\ r[2] = b /\ r[3] = c
  <2>1. <<a, b, c>> \in Seq({a, b, c})
    OBVIOUS
  <2>2. Len(<<a, b, c>>) = 3 /\ <<a, b, c>>[1] = a /\ <<a, b, c>>[2] = b /\ <<a, b, c>>[3] = c
    OBVIOUS
  <2> QED
    BY <2>1, <2>2, Zenon
<1>5. \A k \in 1..3 : s[k] = r[k]
  BY <1>3, <1>4
<1>6. s = r
  BY <1>3, <1>4, <1>5, SeqEqual
<1> QED
  BY <1>1, <1>4, <1>6, Zenon

LEMMA SwitchOnIs ==
  ASSUME NEW sw \in Switches, NEW m \in BOOLEAN
  PROVE  SwitchOn(sw, m) \in ToWrite(sw, m)
<1>1. PICK a, b, c : a = FirstUnit(sw, m) /\ b = SecondUnit(sw, m) /\ c = Setting(sw, m)
  OBVIOUS
<1>2. SetByte(sw, Flag(m)) = <<a, b>>
  BY <1>1, SwitchWrites
<1>3. SwitchOn(sw, m) = Append(<<a, b>>, c)
  BY <1>1, <1>2, Zenon DEF SwitchOn, Flag, Setting
<1>4. Append(<<a, b>>, c) = <<a, b, c>>
  BY AppendTwo, Zenon
<1> QED
  BY <1>1, <1>3, <1>4, Zenon DEF ToWrite

\* The memory and the switches are not touched by what begins.
LEMMA NothingTouched ==
  ASSUME UNCHANGED <<eeprom, on, thread, live, signals, subscribed, stale>>, NEW sw \in Switches
  PROVE  /\ Matches(sw)' <=> Matches(sw)
         /\ PanelTypes' <=> PanelTypes
         /\ TodoApart(sw) => Apart(sw)
<1>1. Matches(sw)' <=> Matches(sw)
  BY DEF Matches
<1>2. PanelTypes' <=> PanelTypes
  BY DEF PanelTypes
<1>3. TodoApart(sw) => Apart(sw)
  BY DEF Apart, Still
<1> QED
  BY <1>1, <1>2, <1>3

LEMMA Begins ==
  ASSUME PanelInv, NEW t \in PanelThreads, NEW steps, NEW what, NEW limit, Begin(t, steps, what, limit),
         steps \in Seq(Other) \/ \E sw \in Switches, m \in BOOLEAN : steps \in ToWrite(sw, m)
  PROVE  PanelInv'
<1>1. /\ todo[t] = << >> /\ todo' = [todo EXCEPT ![t] = steps]
      /\ orderly' = (orderly /\ \A sw \in Switches, u \in PanelThreads :
                               Busy(u, sw) => \A k \in DOMAIN steps : ~Concerns(steps[k], sw))
      /\ UNCHANGED <<eeprom, on, thread, live, signals, subscribed, stale>> /\ users' = users
  BY DEF Begin, store
<1>2. PanelShape
  BY DEF PanelInv
<1>3. steps \in Todos
  <2>1. \A sw \in Switches, m \in BOOLEAN : steps \in ToWrite(sw, m) => steps \in Jobs(sw)
    BY JobsHave
  <2> QED
    BY <2>1 DEF Todos
<1>4. PanelShape'
  <2>1. DOMAIN eeprom' = Memory
    BY <1>1, <1>2 DEF PanelShape
  <2>2. todo' \in [PanelThreads -> Todos]
    BY <1>1, <1>2, <1>3 DEF PanelShape
  <2>3. orderly' \in BOOLEAN
    BY <1>1
  <2> QED
    BY <2>1, <2>2, <2>3 DEF PanelShape
<1>5. ASSUME orderly' PROVE PanelGood'
  <2>1. PanelGood
    BY <1>1, <1>5 DEF PanelInv
  <2>2. PanelTypes'
    BY <1>1, <2>1, NothingTouched, TwoSwitches DEF PanelGood
  <2>3. CASE steps \in Seq(Other)
    <3>1. ASSUME NEW sw \in Switches PROVE Apart(sw)
      <4>1. todo[t] \notin Jobs(sw) /\ steps \notin Jobs(sw)
        BY <1>1, <2>3, JobsApart
      <4>2. TodoApart(sw)
        BY <1>1, <1>2, <4>1 DEF PanelShape, TodoApart
      <4> QED
        BY <1>1, <4>2, NothingTouched
    <3> QED
      BY <1>1, <2>1, <2>2, <3>1, AllApart
  <2>4. ASSUME NEW sw \in Switches, NEW m \in BOOLEAN, steps \in ToWrite(sw, m) PROVE PanelGood'
    <3>1. steps \in Jobs(sw)
      BY <2>4, JobsHave
    <3>2. \A u \in PanelThreads : todo[u] \notin Jobs(sw)
      <4>1. \A u \in PanelThreads : ~Busy(u, sw)
        <5> SUFFICES ASSUME NEW u \in PanelThreads, Busy(u, sw) PROVE FALSE
          OBVIOUS
        <5>1. \E k \in DOMAIN steps : Concerns(steps[k], sw)
          BY <3>1, JobConcerns
        <5>2. \A k \in DOMAIN steps : ~Concerns(steps[k], sw)
          BY <1>1, <1>5, Zenon
        <5> QED
          BY <5>1, <5>2, Zenon
      <4> QED
        BY <1>2, <4>1, BusyIs DEF PanelShape
    <3>3. Matches(sw)'
      BY <1>1, <2>1, <3>2, NothingTouched DEF PanelGood, GoodSwitch, Rest
    <3>4. Head(steps) = FirstUnit(sw, m)
      <4>1. PICK a, b, c : a = FirstUnit(sw, m) /\ b = SecondUnit(sw, m) /\ c = Setting(sw, m)
        OBVIOUS
      <4>2. steps = <<a, b>> \/ steps = <<a, b, c>>
        BY <2>4, <4>1, Zenon DEF ToWrite
      <4>3. Head(<<a, b>>) = a /\ Head(<<a, b, c>>) = a
        BY TuplesAre, Zenon
      <4> QED
        BY <4>1, <4>2, <4>3, Zenon
    <3>5. PICK s : s = Head(steps) /\ s.op = "write" /\ s.first
      BY <3>4 DEF FirstUnit
    <3>6. Fits(sw, s)'
      BY <3>3, <3>5 DEF Fits
    <3>7. /\ GoodSwitch(sw)'
          /\ HasRadio(sw)' <=> \/ on'[sw] /\ (steps \in Jobs(sw) => Head(steps).op # "require")
                               \/ steps \in Jobs(sw) /\ Head(steps).op = "release"
      <4>1. steps # << >>
        BY <3>1, JobsApart
      <4>2. todo \in [PanelThreads -> Todos] /\ \A u \in PanelThreads : u # t => todo[u] \notin Jobs(sw)
        BY <1>2, <3>2 DEF PanelShape
      <4>3. Fits(sw, Head(steps))'
        BY <3>5, <3>6
      <4> QED
        BY <1>1, <3>1, <4>1, <4>2, <4>3, JobMoves
    <3>8. HasRadio(sw)' <=> HasRadio(sw)
      <4>1. HasRadio(sw)' <=> on'[sw]
        BY <3>5, <3>7
      <4>2. HasRadio(sw) <=> on[sw]
        BY <3>2, RadioIs
      <4> QED
        BY <1>1, <4>1, <4>2
    <3>9. \A other \in Switches : other # sw => Apart(other)
      <4> SUFFICES ASSUME NEW other \in Switches, other # sw PROVE Apart(other)
        OBVIOUS
      <4>1. TodoApart(other)
        BY <1>1, <1>2, <3>1, JobApart DEF PanelShape
      <4> QED
        BY <1>1, <4>1, NothingTouched
    <3>10. users' = users - One(HasRadio(sw)) + One(HasRadio(sw)')
      <4>1. One(HasRadio(sw)') = One(HasRadio(sw)) /\ One(HasRadio(sw)) \in Int
        BY <3>8 DEF One
      <4>2. users \in Int
        BY <2>1 DEF PanelGood, One
      <4> QED
        BY <1>1, <4>1, <4>2
    <3> QED
      BY <2>1, <2>2, <3>7, <3>9, <3>10, GoodFollows
  <2> QED
    BY <2>3, <2>4
<1> QED
  BY <1>4, <1>5 DEF PanelInv

LEMMA OneMoves ==
  ASSUME PanelShape, PanelGood, PanelTypes', NEW t \in PanelThreads, NEW sw \in Switches, NEW next,
         todo[t] \in Jobs(sw),
         todo' = [todo EXCEPT ![t] = next],
         next = << >> \/ next \in Jobs(sw),
         next = << >> => Rest(sw)',
         next \in Jobs(sw) => Fits(sw, Head(next))',
         \A other \in Switches : other # sw => Still(other),
         users' = users
           - One((on[sw] /\ Head(todo[t]).op # "require") \/ Head(todo[t]).op = "release")
           + One(\/ on'[sw] /\ (next \in Jobs(sw) => Head(next).op # "require")
                 \/ next \in Jobs(sw) /\ Head(next).op = "release")
  PROVE  PanelGood'
<1>1. todo \in [PanelThreads -> Todos]
  BY DEF PanelShape
<1>2. \A u \in PanelThreads : u # t => todo[u] \notin Jobs(sw)
  BY DEF PanelGood, GoodSwitch, Single
<1>3. /\ GoodSwitch(sw)'
      /\ HasRadio(sw)' <=> \/ on'[sw] /\ (next \in Jobs(sw) => Head(next).op # "require")
                           \/ next \in Jobs(sw) /\ Head(next).op = "release"
  BY <1>1, <1>2, JobMoves
<1>4. HasRadio(sw) <=> (on[sw] /\ Head(todo[t]).op # "require") \/ Head(todo[t]).op = "release"
  BY <1>2, RadioIs
<1>5. \A other \in Switches : other # sw => Apart(other)
  <2> SUFFICES ASSUME NEW other \in Switches, other # sw PROVE Apart(other)
    OBVIOUS
  <2>1. TodoApart(other)
    BY <1>1, JobApart
  <2> QED
    BY <2>1 DEF Apart
<1>6. users' = users - One(HasRadio(sw)) + One(HasRadio(sw)')
  <2>1. One(HasRadio(sw)) = One((on[sw] /\ Head(todo[t]).op # "require") \/ Head(todo[t]).op = "release")
    BY <1>4 DEF One
  <2>2. One(HasRadio(sw)') = One(\/ on'[sw] /\ (next \in Jobs(sw) => Head(next).op # "require")
                                 \/ next \in Jobs(sw) /\ Head(next).op = "release")
    BY <1>3 DEF One
  <2> QED
    BY <2>1, <2>2, Zenon
<1> QED
  BY <1>3, <1>5, <1>6, GoodFollows

\* Every step leaves steps of the same kind.
LEMMA ShapeKept ==
  ASSUME PanelShape, NEW t \in PanelThreads, NEW next \in Todos,
         todo' = [todo EXCEPT ![t] = next], DOMAIN eeprom' = DOMAIN eeprom, orderly' = orderly
  PROVE  PanelShape'
<1>1. todo' \in [PanelThreads -> Todos]
  BY DEF PanelShape
<1> QED
  BY <1>1 DEF PanelShape

LEMMA EmptyTodo ==
  /\ << >> \in Todos /\ Seq(Other) \subseteq Todos
  /\ \A sw \in Switches : Jobs(sw) \subseteq Todos
<1>1. << >> \in Seq(Other)
  OBVIOUS
<1> QED
  BY <1>1 DEF Todos

LEMMA TailIn ==
  ASSUME NEW s \in Todos, s # << >>
  PROVE  /\ s \in Seq(Other) => Head(s) \in Other /\ Tail(s) \in Seq(Other)
         /\ \A sw \in Switches : s \in Jobs(sw) =>
              Tail(s) = << >> \/ Tail(s) \in Jobs(sw)
         /\ Tail(s) \in Todos
<1>1. s \in Seq(Other) => Head(s) \in Other /\ Tail(s) \in Seq(Other)
  BY HeadTailProperties
<1>2. ASSUME NEW sw \in Switches, s \in Jobs(sw) PROVE Tail(s) = << >> \/ Tail(s) \in Jobs(sw)
  BY <1>2, JobSteps, JobsHave
<1>3. Tail(s) \in Todos
  <2>1. s \in Seq(Other) \/ \E sw \in Switches : s \in Jobs(sw)
    BY DEF Todos
  <2> QED
    BY <1>1, <1>2, <2>1, EmptyTodo
<1> QED
  BY <1>1, <1>2, <1>3

LEMMA TodoKinds ==
  ASSUME PanelShape, NEW t \in PanelThreads
  PROVE  /\ todo[t] \in Todos
         /\ todo[t] \in Seq(Other) \/ \E sw \in Switches : todo[t] \in Jobs(sw)
BY DEF PanelShape, Todos

\* After a step that does not change what an On switch is made of.
LEMMA TypesKept ==
  ASSUME PanelTypes, UNCHANGED <<on, thread, live, signals, subscribed>>
  PROVE  PanelTypes'
BY DEF PanelTypes

LEMMA WriteKeeps ==
  ASSUME PanelInv, NEW t \in PanelThreads, todo[t] # << >>, Write(t)
  PROVE  PanelInv'
<1>1. PICK s : s = Head(todo[t])
  OBVIOUS
<1>2. PICK rest : rest = Tail(todo[t])
  OBVIOUS
<1>3. PICK meddled : WriteUnit(s, meddled)
  BY <1>1 DEF Write
<1>4. /\ s.op = "write" /\ todo' = [todo EXCEPT ![t] = rest]
      /\ stale' = IF s.param \in Switches THEN stale \cup {s.param} ELSE stale
      /\ UNCHANGED <<on, thread, live, signals, subscribed>> /\ users' = users /\ orderly' = orderly
  BY <1>1, <1>2 DEF Write, Then
<1>5. PanelShape
  BY DEF PanelInv
<1>6. DOMAIN eeprom' = DOMAIN eeprom
  BY <1>3 DEF WriteUnit
<1>7. PanelShape'
  <2>1. rest \in Todos
    BY <1>2, <1>5, TodoKinds, TailIn
  <2> QED
    BY <1>4, <1>5, <1>6, <2>1, ShapeKept
<1>8. ASSUME orderly PROVE PanelGood'
  <2>1. PanelGood
    BY <1>8 DEF PanelInv
  <2>2. PanelTypes'
    BY <1>4, <2>1, TypesKept DEF PanelGood
  <2>3. CASE todo[t] \in Seq(Other)
    <3>1. s \in Other /\ rest \in Seq(Other)
      BY <1>1, <1>2, <2>3, <1>5, TodoKinds, TailIn
    <3>2. /\ s.param \in Params \ Switches
          /\ s.at .. s.at + Len(s.bytes) - 1 \subseteq Places(s.param)
      BY <3>1 DEF Other, Writes
    <3>3. \A sw \in Switches : /\ eeprom'[Offset(sw)] = eeprom[Offset(sw)]
                               /\ eeprom'[Offset(sw) + 1] = eeprom[Offset(sw) + 1]
      <4>1. DOMAIN eeprom = Memory
        BY <1>5 DEF PanelShape
      <4>2. \A sw \in Switches : s.param # sw /\ s.param \in Params
        BY <3>2
      <4> QED
        BY <1>3, <3>2, <4>1, <4>2, UnitWritten
    <3>4. ASSUME NEW sw \in Switches PROVE Apart(sw)
      <4>1. todo[t] \notin Jobs(sw) /\ rest \notin Jobs(sw)
        BY <2>3, <3>1, JobsApart
      <4>2. TodoApart(sw)
        BY <1>4, <1>5, <4>1 DEF PanelShape, TodoApart
      <4>3. Still(sw)
        BY <1>4, <3>2, <3>3 DEF Still
      <4> QED
        BY <4>2, <4>3 DEF Apart
    <3> QED
      BY <1>4, <2>1, <2>2, <3>4, AllApart
  <2>4. ASSUME NEW sw \in Switches, todo[t] \in Jobs(sw) PROVE PanelGood'
    <3>1. Fits(sw, s)
      BY <1>1, <2>1, <2>4 DEF PanelGood, GoodSwitch
    <3>2. Matches(sw) /\ (~s.first => <<eeprom[Offset(sw)]>> = s.value)
      BY <1>4, <3>1 DEF Fits
    <3>3. Matches(sw)'
      BY <1>4, <3>2 DEF Matches
    <3>4. DOMAIN eeprom = Memory
      BY <1>5 DEF PanelShape
    <3>5. users \in Int
      BY <2>1 DEF PanelGood, One
    <3>6. One((on[sw] /\ s.op # "require") \/ s.op = "release") = One(on[sw])
      BY <1>4 DEF One
    <3>7. One(on[sw]) \in Int /\ on'[sw] = on[sw]
      BY <1>4 DEF One
    <3>8. users = users - One(on[sw]) + One(on[sw])
      BY <3>5, <3>7
    <3>9. \/ \E m \in BOOLEAN : s = FirstUnit(sw, m) /\ rest \in ToSum(sw, m)
          \/ \E m \in BOOLEAN : s = SecondUnit(sw, m) /\ (rest = << >> \/ rest = ToActivate(sw, m))
      <4>1. \A m : Setting(sw, m).op # "write"
        BY DEF Setting
      <4>2. \A op \in {"require", "release", "signal", "join"} : After(op, sw).op # "write"
        BY DEF After
      <4> QED
        BY <1>1, <1>2, <1>4, <2>4, <4>1, <4>2, JobSteps
    <3>10. ASSUME NEW m \in BOOLEAN, s = FirstUnit(sw, m), rest \in ToSum(sw, m) PROVE PanelGood'
      <4>1. /\ <<eeprom'[Offset(sw)]>> = Cell(m)
            /\ \A other \in Switches : other # sw =>
                 /\ eeprom'[Offset(other)] = eeprom[Offset(other)]
                 /\ eeprom'[Offset(other) + 1] = eeprom[Offset(other) + 1]
        BY <1>3, <3>4, <3>10, FirstWritten
      <4>2. s.param = sw
        BY <3>10 DEF FirstUnit
      <4>3. PICK n : n = Head(rest) /\ n.op = "write" /\ n.value = Cell(m)
        <5>1. Head(rest) = SecondUnit(sw, m)
          BY <3>10, TuplesAre, Zenon DEF ToSum
        <5> QED
          BY <5>1 DEF SecondUnit
      <4>4. Fits(sw, n)'
        BY <3>3, <4>1, <4>3 DEF Fits
      <4>5. Fits(sw, Head(rest))' /\ rest \in Jobs(sw) /\ rest # << >>
        BY <3>10, <4>3, <4>4, JobsHave, JobsApart
      <4>6. \A other \in Switches : other # sw => Still(other)
        BY <1>4, <4>1, <4>2 DEF Still
      <4>7. One(\/ on'[sw] /\ (rest \in Jobs(sw) => Head(rest).op # "require")
                \/ rest \in Jobs(sw) /\ Head(rest).op = "release") = One(on[sw])
        BY <3>7, <4>3 DEF One
      <4>8. users' = users - One((on[sw] /\ Head(todo[t]).op # "require") \/ Head(todo[t]).op = "release")
                     + One(\/ on'[sw] /\ (rest \in Jobs(sw) => Head(rest).op # "require")
                           \/ rest \in Jobs(sw) /\ Head(rest).op = "release")
        BY <1>1, <1>4, <3>6, <3>8, <4>7, Zenon
      <4> QED
        BY <1>4, <1>5, <2>1, <2>2, <2>4, <4>5, <4>6, <4>8, OneMoves
    <3>11. ASSUME NEW m \in BOOLEAN, s = SecondUnit(sw, m), rest = << >> \/ rest = ToActivate(sw, m)
           PROVE  PanelGood'
      <4>1. /\ IsOn(sw)' <=> m
            /\ \A other \in Switches : other # sw =>
                 /\ eeprom'[Offset(other)] = eeprom[Offset(other)]
                 /\ eeprom'[Offset(other) + 1] = eeprom[Offset(other) + 1]
        <5>1. <<eeprom[Offset(sw)]>> = Cell(m)
          BY <3>2, <3>11 DEF SecondUnit
        <5> QED
          BY <1>3, <3>4, <3>11, <5>1, SumWritten
      <4>2. s.param = sw
        BY <3>11 DEF SecondUnit
      <4>3. PICK n : n = Setting(sw, m) /\ n.op = "activate" /\ n.m = m
        <5>1. Setting(sw, m).op = "activate"
          BY DEF Setting
        <5>2. Setting(sw, m).m = m
          BY Zenon DEF Setting
        <5> QED
          BY <5>1, <5>2, Zenon
      <4>4. Fits(sw, n)'
        BY <3>3, <4>1, <4>3 DEF Fits
      <4>5. rest = << >> => Rest(sw)'
        BY <1>4, <3>3, <4>2 DEF Rest
      <4>6. << >> \notin Jobs(sw)
        BY JobsApart
      <4>7. rest \in Jobs(sw) => Head(rest) = n
        BY <3>11, <4>3, <4>6, TuplesAre, Zenon DEF ToActivate
      <4>8. rest \in Jobs(sw) => Fits(sw, Head(rest))'
        BY <4>4, <4>7
      <4>9. \A other \in Switches : other # sw => Still(other)
        BY <1>4, <4>1, <4>2 DEF Still
      <4>10. rest = << >> \/ rest \in Jobs(sw)
        BY <3>11, JobsHave
      <4>11. One(\/ on'[sw] /\ (rest \in Jobs(sw) => Head(rest).op # "require")
                 \/ rest \in Jobs(sw) /\ Head(rest).op = "release") = One(on[sw])
        BY <3>7, <4>3, <4>7 DEF One
      <4>12. users' = users - One((on[sw] /\ Head(todo[t]).op # "require") \/ Head(todo[t]).op = "release")
                     + One(\/ on'[sw] /\ (rest \in Jobs(sw) => Head(rest).op # "require")
                           \/ rest \in Jobs(sw) /\ Head(rest).op = "release")
        BY <1>1, <1>4, <3>6, <3>8, <4>11, Zenon
      <4> QED
        BY <1>4, <1>5, <2>1, <2>2, <2>4, <4>5, <4>8, <4>9, <4>10, <4>12, OneMoves
    <3> QED
      BY <3>9, <3>10, <3>11
  <2> QED
    BY <1>5, <2>3, <2>4, TodoKinds
<1> QED
  BY <1>4, <1>7, <1>8 DEF PanelInv

\* Who takes a step that is not a write is at a switch.
LEMMA NotWrite ==
  ASSUME PanelShape, NEW t \in PanelThreads, todo[t] # << >>, Head(todo[t]).op # "write"
  PROVE  \E sw \in Switches :
           /\ todo[t] \in Jobs(sw)
           /\ \/ \E m \in BOOLEAN : Head(todo[t]) = Setting(sw, m) /\ Tail(todo[t]) = << >>
              \/ Head(todo[t]) = After("require", sw) /\ Tail(todo[t]) = << >>
              \/ Head(todo[t]) = After("release", sw) /\ Tail(todo[t]) = ToSignal(sw)
              \/ Head(todo[t]) = After("signal", sw) /\ Tail(todo[t]) = ToJoin(sw)
              \/ Head(todo[t]) = After("join", sw) /\ Tail(todo[t]) = << >>
<1>1. ASSUME todo[t] \in Seq(Other) PROVE FALSE
  <2>1. Head(todo[t]) \in Other
    BY <1>1, TodoKinds, TailIn
  <2> QED
    BY <2>1 DEF Other, Writes
<1>2. PICK sw \in Switches : todo[t] \in Jobs(sw)
  BY <1>1, TodoKinds
<1>3. \A m : FirstUnit(sw, m).op = "write" /\ SecondUnit(sw, m).op = "write"
  BY DEF FirstUnit, SecondUnit
<1> QED
  BY <1>2, <1>3, JobSteps

LEMMA OpsAre ==
  ASSUME NEW sw
  PROVE  /\ \A m \in BOOLEAN : /\ Setting(sw, m).op = "activate" /\ Setting(sw, m).sw = sw
                               /\ Setting(sw, m).m <=> m
         /\ \A op : After(op, sw).op = op /\ After(op, sw).sw = sw
<1>1. \A m \in BOOLEAN : Setting(sw, m).op = "activate" /\ Setting(sw, m).sw = sw
  BY DEF Setting
<1>2. \A m \in BOOLEAN : Setting(sw, m).m <=> m
  BY Zenon DEF Setting
<1>3. \A op : After(op, sw).op = op /\ After(op, sw).sw = sw
  BY DEF After
<1> QED
  BY <1>1, <1>2, <1>3

\* A value of the memory is read the same as long as nothing is written.
LEMMA OnKept ==
  ASSUME NEW sw \in Switches, eeprom' = eeprom
  PROVE  IsOn(sw)' <=> IsOn(sw)
BY OnIs

LEMMA ActivateKeeps ==
  ASSUME PanelInv, NEW t \in PanelThreads, todo[t] # << >>, Activate(t)
  PROVE  PanelInv'
<1>1. PICK s : s = Head(todo[t]) /\ s.op = "activate"
  BY DEF Activate
<1>2. PanelShape
  BY DEF PanelInv
<1>3. PICK sw \in Switches :
        todo[t] \in Jobs(sw) /\ \E m \in BOOLEAN : s = Setting(sw, m) /\ Tail(todo[t]) = << >>
  <2>1. Head(todo[t]).op # "write"
    BY <1>1
  <2>2. \A sw, op : After(op, sw).op = op
    BY OpsAre
  <2>3. \A sw : /\ s # After("require", sw) /\ s # After("release", sw)
                /\ s # After("signal", sw) /\ s # After("join", sw)
    BY <1>1, <2>2
  <2> QED
    BY <1>1, <1>2, <2>1, <2>3, NotWrite, Zenon
<1>4. PICK m \in BOOLEAN : s = Setting(sw, m) /\ Tail(todo[t]) = << >> /\ s.sw = sw /\ (s.m <=> m)
  BY <1>3, OpsAre
<1>5. /\ << >> \o << >> = << >>
      /\ <<After("require", sw)>> \o << >> = ToRequire(sw)
      /\ <<After("release", sw), After("signal", sw), After("join", sw)>> \o << >> = ToRelease(sw)
  <2>1. \A a : <<a>> \o << >> = <<a>>
    OBVIOUS
  <2>2. \A a, b, c : <<a, b, c>> \o << >> = <<a, b, c>>
    OBVIOUS
  <2>3. << >> \o << >> = << >>
    OBVIOUS
  <2> QED
    BY <2>1, <2>2, <2>3, Zenon DEF ToRequire, ToRelease
<1>6. /\ on' = [on EXCEPT ![sw] = s.m] /\ stale' = stale \ {sw}
      /\ eeprom' = eeprom /\ signals' = signals /\ users' = users /\ orderly' = orderly
  BY <1>1, <1>4 DEF Activate, store
<1>7. PICK id : id = 1 + Cardinality(live[sw]) + thread[sw]
  OBVIOUS
<1>8. \/ /\ m /\ ~on[sw]
         /\ subscribed' = [subscribed EXCEPT ![sw] = TRUE] /\ thread' = [thread EXCEPT ![sw] = id]
         /\ live' = [live EXCEPT ![sw] = @ \cup {id}]
         /\ todo' = [todo EXCEPT ![t] = ToRequire(sw)]
      \/ /\ ~m /\ on[sw]
         /\ UNCHANGED <<subscribed, thread, live>>
         /\ todo' = [todo EXCEPT ![t] = ToRelease(sw)]
      \/ /\ (m /\ on[sw]) \/ (~m /\ ~on[sw])
         /\ UNCHANGED <<subscribed, thread, live>>
         /\ todo' = [todo EXCEPT ![t] = << >>]
  <2>1. IF s.m /\ ~on[sw]
        THEN /\ subscribed' = [subscribed EXCEPT ![sw] = TRUE]
             /\ thread' = [thread EXCEPT ![sw] = id]
             /\ live' = [live EXCEPT ![sw] = @ \cup {id}]
             /\ todo' = [todo EXCEPT ![t] = <<After("require", sw)>> \o << >>]
        ELSE /\ todo' = [todo EXCEPT ![t] =
                  (IF ~s.m /\ on[sw]
                   THEN <<After("release", sw), After("signal", sw), After("join", sw)>>
                   ELSE << >>) \o << >>]
             /\ UNCHANGED <<subscribed, thread, live>>
    BY <1>1, <1>4, <1>7, Zenon DEF Activate, Then
  <2>2. PICK a, b, z : /\ a = <<After("require", sw)>> /\ z = << >>
                       /\ b = <<After("release", sw), After("signal", sw), After("join", sw)>>
    OBVIOUS
  <2>3. a \o z = ToRequire(sw) /\ b \o z = ToRelease(sw) /\ z \o z = << >>
    BY <1>5, <2>2, Zenon
  <2>4. CASE m /\ ~on[sw]
    BY <1>4, <2>1, <2>2, <2>3, <2>4, Zenon
  <2>5. CASE ~m /\ on[sw]
    <3>1. todo' = [todo EXCEPT ![t] = b \o z] /\ UNCHANGED <<subscribed, thread, live>>
      BY <1>4, <2>1, <2>2, <2>5, Zenon
    <3> QED
      BY <2>3, <2>5, <3>1, Zenon
  <2>6. CASE (m /\ on[sw]) \/ (~m /\ ~on[sw])
    <3>1. todo' = [todo EXCEPT ![t] = z \o z] /\ UNCHANGED <<subscribed, thread, live>>
      BY <1>4, <2>1, <2>2, <2>6, Zenon
    <3> QED
      BY <2>3, <2>6, <3>1, Zenon
  <2>7. (m /\ ~on[sw]) \/ (~m /\ on[sw]) \/ ((m /\ on[sw]) \/ (~m /\ ~on[sw]))
    OBVIOUS
  <2> QED
    BY <2>4, <2>5, <2>6, <2>7
<1>9. PanelShape'
  <2>1. ToRequire(sw) \in Todos /\ ToRelease(sw) \in Todos /\ << >> \in Todos
    BY JobsHave, EmptyTodo
  <2> QED
    BY <1>2, <1>6, <1>8, <2>1, ShapeKept
<1>10. ASSUME orderly PROVE PanelGood'
  <2>1. PanelGood
    BY <1>10 DEF PanelInv
  <2>2. Matches(sw) /\ (IsOn(sw) <=> m)
    BY <1>1, <1>3, <1>4, <2>1 DEF PanelGood, GoodSwitch, Fits
  <2>3. IsOn(sw)' <=> m
    BY <1>6, <2>2, OnKept
  <2>4. users \in Int /\ on[sw] \in BOOLEAN
    BY <2>1 DEF PanelGood, PanelTypes, One
  <2>5. on \in [Switches -> BOOLEAN] /\ on'[sw] = s.m /\ (on'[sw] <=> m)
    BY <1>4, <1>6, <2>1 DEF PanelGood, PanelTypes
  <2>6. on' \in [Switches -> BOOLEAN]
    BY <1>6, <1>4, <2>5
  <2>7. \A other \in Switches : other # sw => on'[other] = on[other] /\ (other \in stale' <=> other \in stale)
    BY <1>6, <2>5
  <2>8. << >> \notin Jobs(sw)
    BY JobsApart
  <2> HIDE <1>8
  <2>9. CASE /\ m /\ ~on[sw]
             /\ subscribed' = [subscribed EXCEPT ![sw] = TRUE] /\ thread' = [thread EXCEPT ![sw] = id]
             /\ live' = [live EXCEPT ![sw] = @ \cup {id}]
             /\ todo' = [todo EXCEPT ![t] = ToRequire(sw)]
    <3>1. id = 1
      <4>1. live[sw] = {} /\ thread[sw] = 0
        BY <2>2, <2>9 DEF Matches, Flag
      <4>2. Cardinality({}) = 0
        BY FS_EmptySet
      <4> QED
        BY <1>7, <4>1, <4>2
    <3>2. PanelTypes'
      BY <1>6, <2>1, <2>2, <2>6, <2>9, <3>1 DEF PanelGood, PanelTypes, Matches
    <3>3. Matches(sw)'
      BY <1>6, <2>1, <2>2, <2>5, <2>9, <3>1 DEF PanelGood, PanelTypes, Matches, Flag
    <3>4. PICK n : n = After("require", sw) /\ n.op = "require" /\ n = Head(ToRequire(sw))
      <4>1. PICK a, b, c : a = After("require", sw) /\ b = After("signal", sw) /\ c = After("join", sw)
        OBVIOUS
      <4>2. Head(<<a>>) = a /\ Head(<<a, b, c>>) = a
        BY TuplesAre, Zenon
      <4>3. Head(ToRequire(sw)) = a
        BY <4>1, <4>2, Zenon DEF ToRequire
      <4>4. a.op = "require"
        BY <4>1, OpsAre
      <4> QED
        BY <4>1, <4>3, <4>4, Zenon
    <3>5. Fits(sw, n)'
      BY <2>3, <2>5, <2>9, <3>3, <3>4 DEF Fits
    <3>6. \A other \in Switches : other # sw => Still(other)
      BY <1>6, <2>1, <2>7, <2>9 DEF Still, PanelGood, PanelTypes
    <3>7. ToRequire(sw) \in Jobs(sw) /\ ToRequire(sw) # << >> /\ Fits(sw, Head(ToRequire(sw)))'
      BY <2>8, <3>4, <3>5, JobsHave
    <3>8. users' = users
            - One((on[sw] /\ Head(todo[t]).op # "require") \/ Head(todo[t]).op = "release")
            + One(\/ on'[sw] /\ (ToRequire(sw) \in Jobs(sw) => Head(ToRequire(sw)).op # "require")
                  \/ ToRequire(sw) \in Jobs(sw) /\ Head(ToRequire(sw)).op = "release")
      <4>1. One((on[sw] /\ Head(todo[t]).op # "require") \/ Head(todo[t]).op = "release") = 0
        BY <1>1, <2>9 DEF One
      <4>2. One(\/ on'[sw] /\ (ToRequire(sw) \in Jobs(sw) => Head(ToRequire(sw)).op # "require")
                \/ ToRequire(sw) \in Jobs(sw) /\ Head(ToRequire(sw)).op = "release") = 0
        BY <3>4, <3>7 DEF One
      <4>3. users = users - 0 + 0
        BY <2>4
      <4> QED
        BY <1>6, <4>1, <4>2, <4>3, Zenon
    <3> QED
      BY <1>2, <1>3, <2>1, <2>9, <3>2, <3>6, <3>7, <3>8, OneMoves
  <2>10. CASE /\ ~m /\ on[sw]
              /\ UNCHANGED <<subscribed, thread, live>>
              /\ todo' = [todo EXCEPT ![t] = ToRelease(sw)]
    <3>1. PanelTypes'
      BY <1>6, <2>1, <2>6, <2>10 DEF PanelGood, PanelTypes
    <3>2. PICK n : n = After("release", sw) /\ n.op = "release" /\ n = Head(ToRelease(sw))
      <4>1. PICK a, b, c : a = After("release", sw) /\ b = After("signal", sw) /\ c = After("join", sw)
        OBVIOUS
      <4>2. Head(<<a>>) = a /\ Head(<<a, b, c>>) = a
        BY TuplesAre, Zenon
      <4>3. Head(ToRelease(sw)) = a
        BY <4>1, <4>2, Zenon DEF ToRelease
      <4>4. a.op = "release"
        BY <4>1, OpsAre
      <4> QED
        BY <4>1, <4>3, <4>4, Zenon
    <3>3. Ending(sw, n)'
      BY <1>6, <2>2, <2>3, <2>4, <2>5, <2>10, <3>2 DEF Ending, Matches, Flag
    <3>4. Fits(sw, n)'
      BY <3>2, <3>3 DEF Fits
    <3>5. \A other \in Switches : other # sw => Still(other)
      BY <1>6, <2>7, <2>10 DEF Still
    <3>6. ToRelease(sw) \in Jobs(sw) /\ ToRelease(sw) # << >> /\ Fits(sw, Head(ToRelease(sw)))'
      BY <2>8, <3>2, <3>4, JobsHave
    <3>7. users' = users
            - One((on[sw] /\ Head(todo[t]).op # "require") \/ Head(todo[t]).op = "release")
            + One(\/ on'[sw] /\ (ToRelease(sw) \in Jobs(sw) => Head(ToRelease(sw)).op # "require")
                  \/ ToRelease(sw) \in Jobs(sw) /\ Head(ToRelease(sw)).op = "release")
      <4>1. One((on[sw] /\ Head(todo[t]).op # "require") \/ Head(todo[t]).op = "release") = 1
        BY <1>1, <2>10 DEF One
      <4>2. One(\/ on'[sw] /\ (ToRelease(sw) \in Jobs(sw) => Head(ToRelease(sw)).op # "require")
                \/ ToRelease(sw) \in Jobs(sw) /\ Head(ToRelease(sw)).op = "release") = 1
        BY <3>2, <3>6 DEF One
      <4>3. users = users - 1 + 1
        BY <2>4
      <4> QED
        BY <1>6, <4>1, <4>2, <4>3, Zenon
    <3> QED
      BY <1>2, <1>3, <2>1, <2>10, <3>1, <3>5, <3>6, <3>7, OneMoves
  <2>11. CASE /\ (m /\ on[sw]) \/ (~m /\ ~on[sw])
              /\ UNCHANGED <<subscribed, thread, live>>
              /\ todo' = [todo EXCEPT ![t] = << >>]
    <3>1. on'[sw] = on[sw]
      BY <2>4, <2>5, <2>6, <2>11
    <3>2. PanelTypes'
      BY <1>6, <2>1, <2>6, <2>11 DEF PanelGood, PanelTypes
    <3>3. Matches(sw)'
      BY <1>6, <2>2, <2>11, <3>1 DEF Matches
    <3>4. Rest(sw)'
      <4>1. on'[sw] = IsOn(sw)'
        <5>1. IsOn(sw)' \in BOOLEAN /\ on'[sw] \in BOOLEAN
          BY <2>4, <3>1 DEF IsOn
        <5> QED
          BY <2>3, <2>5, <5>1
      <4> QED
        BY <3>3, <4>1, Zenon DEF Rest
    <3>5. \A other \in Switches : other # sw => Still(other)
      BY <1>6, <2>7, <2>11 DEF Still
    <3>6. users' = users
            - One((on[sw] /\ Head(todo[t]).op # "require") \/ Head(todo[t]).op = "release")
            + One(\/ on'[sw] /\ (<< >> \in Jobs(sw) => Head(<< >>).op # "require")
                  \/ << >> \in Jobs(sw) /\ Head(<< >>).op = "release")
      <4>1. One((on[sw] /\ Head(todo[t]).op # "require") \/ Head(todo[t]).op = "release") = One(on[sw])
        BY <1>1 DEF One
      <4>2. One(\/ on'[sw] /\ (<< >> \in Jobs(sw) => Head(<< >>).op # "require")
                \/ << >> \in Jobs(sw) /\ Head(<< >>).op = "release") = One(on[sw])
        BY <2>8, <3>1 DEF One
      <4>3. users = users - One(on[sw]) + One(on[sw])
        BY <2>4 DEF One
      <4> QED
        BY <1>6, <4>1, <4>2, <4>3, Zenon
    <3> QED
      BY <1>2, <1>3, <2>1, <2>8, <2>11, <3>2, <3>4, <3>5, <3>6, OneMoves
  <2> QED
    BY <1>8, <2>9, <2>10, <2>11
<1> QED
  BY <1>6, <1>9, <1>10 DEF PanelInv

\* The next steps of a switch that is turned off.
LEMMA EndingHeads ==
  ASSUME NEW sw \in Switches
  PROVE  /\ Head(ToSignal(sw)) = After("signal", sw) /\ Head(ToJoin(sw)) = After("join", sw)
         /\ ToSignal(sw) \in Jobs(sw) /\ ToJoin(sw) \in Jobs(sw)
         /\ ToSignal(sw) # << >> /\ ToJoin(sw) # << >> /\ << >> \notin Jobs(sw)
<1>1. Head(ToSignal(sw)) = After("signal", sw)
  BY TuplesAre, Zenon DEF ToSignal
<1>2. Head(ToJoin(sw)) = After("join", sw)
  BY TuplesAre, Zenon DEF ToJoin
<1>3. << >> \notin Jobs(sw)
  BY JobsApart
<1> QED
  BY <1>1, <1>2, <1>3, JobsHave

LEMMA RadioStepKeeps ==
  ASSUME PanelInv, NEW t \in PanelThreads, todo[t] # << >>, RadioStep(t)
  PROVE  PanelInv'
<1>1. PICK s : s = Head(todo[t]) /\ s.op \in {"require", "release", "signal"}
  BY DEF RadioStep
<1>2. PanelShape
  BY DEF PanelInv
<1>3. PICK sw \in Switches :
        /\ todo[t] \in Jobs(sw) /\ s.sw = sw
        /\ \/ s.op = "require" /\ Tail(todo[t]) = << >>
           \/ s.op = "release" /\ Tail(todo[t]) = ToSignal(sw)
           \/ s.op = "signal" /\ Tail(todo[t]) = ToJoin(sw)
  <2>1. Head(todo[t]).op # "write"
    BY <1>1
  <2>2. PICK sw \in Switches :
           /\ todo[t] \in Jobs(sw)
           /\ \/ \E m \in BOOLEAN : s = Setting(sw, m) /\ Tail(todo[t]) = << >>
              \/ s = After("require", sw) /\ Tail(todo[t]) = << >>
              \/ s = After("release", sw) /\ Tail(todo[t]) = ToSignal(sw)
              \/ s = After("signal", sw) /\ Tail(todo[t]) = ToJoin(sw)
              \/ s = After("join", sw) /\ Tail(todo[t]) = << >>
    BY <1>1, <1>2, <2>1, NotWrite, Zenon
  <2>3. \A op : After(op, sw).op = op /\ After(op, sw).sw = sw
    BY OpsAre
  <2>4. \A m \in BOOLEAN : Setting(sw, m).op = "activate"
    BY OpsAre
  <2> QED
    BY <1>1, <2>2, <2>3, <2>4
<1>4. PICK rest : rest = Tail(todo[t]) /\ rest \in Todos
  BY <1>2, TodoKinds, TailIn
<1>5. /\ todo' = [todo EXCEPT ![t] = rest]
      /\ users' = CASE s.op = "require" -> users + 1
                    [] s.op = "release" -> users - 1
                    [] OTHER -> users
      /\ signals' = IF s.op = "signal" THEN [signals EXCEPT ![sw] = @ + 1] ELSE signals
      /\ UNCHANGED <<eeprom, on, thread, live, subscribed, stale>> /\ orderly' = orderly
  BY <1>1, <1>3, <1>4, Zenon DEF RadioStep, Then, store
<1>6. PanelShape'
  BY <1>2, <1>4, <1>5, ShapeKept
<1>7. ASSUME orderly PROVE PanelGood'
  <2>1. PanelGood
    BY <1>7 DEF PanelInv
  <2>2. Fits(sw, s)
    BY <1>1, <1>3, <2>1 DEF PanelGood, GoodSwitch
  <2>3. IsOn(sw)' <=> IsOn(sw)
    BY <1>5, OnKept
  <2>4. users \in Int /\ on[sw] \in BOOLEAN /\ on'[sw] = on[sw]
    BY <1>5, <2>1 DEF PanelGood, PanelTypes, One
  <2>5. /\ Head(ToSignal(sw)) = After("signal", sw) /\ Head(ToJoin(sw)) = After("join", sw)
        /\ ToSignal(sw) \in Jobs(sw) /\ ToJoin(sw) \in Jobs(sw)
        /\ ToSignal(sw) # << >> /\ ToJoin(sw) # << >> /\ << >> \notin Jobs(sw)
    BY EndingHeads
  <2>6. \A other \in Switches : other # sw => Still(other)
    BY <1>5, <2>1 DEF Still, PanelGood, PanelTypes
  <2>7. One(TRUE) = 1 /\ One(FALSE) = 0
    BY DEF One
  <2>8. CASE s.op = "require"
    <3>1. Matches(sw) /\ on[sw] /\ IsOn(sw)
      BY <2>2, <2>8 DEF Fits
    <3>2. rest = << >> /\ users' = users + 1 /\ signals' = signals
      BY <1>3, <1>4, <1>5, <2>8
    <3>3. PanelTypes'
      BY <1>5, <2>1, <3>2, TypesKept DEF PanelGood
    <3>4. Rest(sw)'
      <4>1. Matches(sw)'
        BY <1>5, <3>1, <3>2 DEF Matches
      <4>2. on'[sw] = IsOn(sw)'
        <5>1. IsOn(sw)' \in BOOLEAN
          BY DEF IsOn
        <5> QED
          BY <2>3, <2>4, <3>1, <5>1
      <4> QED
        BY <4>1, <4>2, Zenon DEF Rest
    <3>5. users' = users
            - One((on[sw] /\ Head(todo[t]).op # "require") \/ Head(todo[t]).op = "release")
            + One(\/ on'[sw] /\ (rest \in Jobs(sw) => Head(rest).op # "require")
                  \/ rest \in Jobs(sw) /\ Head(rest).op = "release")
      <4>1. One((on[sw] /\ Head(todo[t]).op # "require") \/ Head(todo[t]).op = "release") = 0
        BY <1>1, <2>8 DEF One
      <4>2. One(\/ on'[sw] /\ (rest \in Jobs(sw) => Head(rest).op # "require")
                \/ rest \in Jobs(sw) /\ Head(rest).op = "release") = 1
        BY <2>4, <2>5, <3>1, <3>2 DEF One
      <4>3. users + 1 = users - 0 + 1
        BY <2>4
      <4> QED
        BY <3>2, <4>1, <4>2, <4>3, Zenon
    <3> QED
      BY <1>2, <1>3, <1>5, <2>1, <2>5, <2>6, <3>2, <3>3, <3>4, <3>5, OneMoves
  <2>9. CASE s.op = "release"
    <3>1. Ending(sw, s)
      BY <2>2, <2>9 DEF Fits
    <3>2. rest = ToSignal(sw) /\ users' = users - 1 /\ signals' = signals
      BY <1>3, <1>4, <1>5, <2>9
    <3>3. PanelTypes'
      BY <1>5, <2>1, <3>2, TypesKept DEF PanelGood
    <3>4. PICK n : n = Head(rest) /\ n.op = "signal"
      BY <2>5, <3>2, OpsAre
    <3>5. Ending(sw, n)'
      BY <1>5, <2>3, <2>9, <3>1, <3>2, <3>4 DEF Ending
    <3>6. Fits(sw, n)'
      BY <3>4, <3>5 DEF Fits
    <3>7. users' = users
            - One((on[sw] /\ Head(todo[t]).op # "require") \/ Head(todo[t]).op = "release")
            + One(\/ on'[sw] /\ (rest \in Jobs(sw) => Head(rest).op # "require")
                  \/ rest \in Jobs(sw) /\ Head(rest).op = "release")
      <4>1. One((on[sw] /\ Head(todo[t]).op # "require") \/ Head(todo[t]).op = "release") = 1
        BY <1>1, <2>9 DEF One
      <4>2. One(\/ on'[sw] /\ (rest \in Jobs(sw) => Head(rest).op # "require")
                \/ rest \in Jobs(sw) /\ Head(rest).op = "release") = 0
        BY <2>4, <3>1, <3>4 DEF One, Ending
      <4>3. users - 1 = users - 1 + 0
        BY <2>4
      <4> QED
        BY <3>2, <4>1, <4>2, <4>3, Zenon
    <3>8. rest \in Jobs(sw) /\ rest # << >> /\ Fits(sw, Head(rest))'
      BY <2>5, <3>2, <3>4, <3>6
    <3> QED
      BY <1>2, <1>3, <1>5, <2>1, <2>6, <3>3, <3>7, <3>8, OneMoves
  <2>10. CASE s.op = "signal"
    <3>1. Ending(sw, s)
      BY <2>2, <2>10 DEF Fits
    <3>2. rest = ToJoin(sw) /\ users' = users /\ signals' = [signals EXCEPT ![sw] = @ + 1]
      BY <1>3, <1>4, <1>5, <2>10
    <3>3. signals[sw] = 0 /\ live[sw] = {1} /\ signals'[sw] = 1
      BY <2>1, <2>10, <3>1, <3>2 DEF Ending, PanelGood, PanelTypes
    <3>4. PanelTypes'
      BY <1>5, <2>1, <3>2, <3>3 DEF PanelGood, PanelTypes
    <3>5. PICK n : n = Head(rest) /\ n.op = "join"
      BY <2>5, <3>2, OpsAre
    <3>6. Ending(sw, n)'
      BY <1>5, <2>3, <3>1, <3>3, <3>5 DEF Ending
    <3>7. Fits(sw, n)'
      BY <3>5, <3>6 DEF Fits
    <3>8. users' = users
            - One((on[sw] /\ Head(todo[t]).op # "require") \/ Head(todo[t]).op = "release")
            + One(\/ on'[sw] /\ (rest \in Jobs(sw) => Head(rest).op # "require")
                  \/ rest \in Jobs(sw) /\ Head(rest).op = "release")
      <4>1. One((on[sw] /\ Head(todo[t]).op # "require") \/ Head(todo[t]).op = "release") = 0
        BY <1>1, <2>10, <3>1 DEF One, Ending
      <4>2. One(\/ on'[sw] /\ (rest \in Jobs(sw) => Head(rest).op # "require")
                \/ rest \in Jobs(sw) /\ Head(rest).op = "release") = 0
        BY <2>4, <3>1, <3>5 DEF One, Ending
      <4>3. users = users - 0 + 0
        BY <2>4
      <4> QED
        BY <3>2, <4>1, <4>2, <4>3, Zenon
    <3>9. rest \in Jobs(sw) /\ rest # << >> /\ Fits(sw, Head(rest))'
      BY <2>5, <3>2, <3>5, <3>7
    <3> QED
      BY <1>2, <1>3, <1>5, <2>1, <2>6, <3>4, <3>8, <3>9, OneMoves
  <2> QED
    BY <1>1, <2>8, <2>9, <2>10
<1> QED
  BY <1>5, <1>6, <1>7 DEF PanelInv

LEMMA JoinKeeps ==
  ASSUME PanelInv, NEW t \in PanelThreads, todo[t] # << >>, JoinThread(t)
  PROVE  PanelInv'
<1>1. PICK s : s = Head(todo[t]) /\ s.op = "join"
  BY DEF JoinThread
<1>2. PanelShape
  BY DEF PanelInv
<1>3. PICK sw \in Switches : todo[t] \in Jobs(sw) /\ s.sw = sw /\ Tail(todo[t]) = << >>
  <2>1. Head(todo[t]).op # "write"
    BY <1>1
  <2>2. PICK sw \in Switches :
           /\ todo[t] \in Jobs(sw)
           /\ \/ \E m \in BOOLEAN : s = Setting(sw, m) /\ Tail(todo[t]) = << >>
              \/ s = After("require", sw) /\ Tail(todo[t]) = << >>
              \/ s = After("release", sw) /\ Tail(todo[t]) = ToSignal(sw)
              \/ s = After("signal", sw) /\ Tail(todo[t]) = ToJoin(sw)
              \/ s = After("join", sw) /\ Tail(todo[t]) = << >>
    BY <1>1, <1>2, <2>1, NotWrite, Zenon
  <2>3. \A op : After(op, sw).op = op /\ After(op, sw).sw = sw
    BY OpsAre
  <2>4. \A m \in BOOLEAN : Setting(sw, m).op = "activate"
    BY OpsAre
  <2> QED
    BY <1>1, <2>2, <2>3, <2>4
<1>4. /\ todo' = [todo EXCEPT ![t] = << >>]
      /\ thread[sw] \notin live[sw]
      /\ thread' = [thread EXCEPT ![sw] = 0] /\ subscribed' = [subscribed EXCEPT ![sw] = FALSE]
      /\ UNCHANGED <<eeprom, on, live, signals, users, stale>> /\ orderly' = orderly
  BY <1>1, <1>3, Zenon DEF JoinThread, Then, store
<1>5. PanelShape'
  BY <1>2, <1>4, EmptyTodo, ShapeKept
<1>6. ASSUME orderly PROVE PanelGood'
  <2>1. PanelGood
    BY <1>6 DEF PanelInv
  <2>2. Ending(sw, s)
    BY <1>1, <1>3, <2>1 DEF PanelGood, GoodSwitch, Fits
  <2>3. IsOn(sw)' <=> IsOn(sw)
    BY <1>4, OnKept
  <2>4. users \in Int /\ on[sw] \in BOOLEAN /\ on'[sw] = on[sw]
    BY <1>4, <2>1 DEF PanelGood, PanelTypes, One
  <2>5. live[sw] = {} /\ signals[sw] = 0 /\ ~on[sw] /\ ~IsOn(sw)
    BY <1>4, <2>2 DEF Ending
  <2>6. PanelTypes'
    BY <1>4, <2>1 DEF PanelGood, PanelTypes
  <2>7. Rest(sw)'
    <3>1. Matches(sw)'
      BY <1>4, <2>1, <2>4, <2>5 DEF Matches, Flag, PanelGood, PanelTypes
    <3>2. on'[sw] = IsOn(sw)'
      <4>1. IsOn(sw)' \in BOOLEAN
        BY DEF IsOn
      <4> QED
        BY <2>3, <2>4, <2>5, <4>1
    <3> QED
      BY <3>1, <3>2, Zenon DEF Rest
  <2>8. \A other \in Switches : other # sw => Still(other)
    BY <1>4, <2>1 DEF Still, PanelGood, PanelTypes
  <2>9. << >> \notin Jobs(sw)
    BY JobsApart
  <2>10. users' = users
           - One((on[sw] /\ Head(todo[t]).op # "require") \/ Head(todo[t]).op = "release")
           + One(\/ on'[sw] /\ (<< >> \in Jobs(sw) => Head(<< >>).op # "require")
                 \/ << >> \in Jobs(sw) /\ Head(<< >>).op = "release")
    <3>1. One((on[sw] /\ Head(todo[t]).op # "require") \/ Head(todo[t]).op = "release") = 0
      BY <1>1, <2>5 DEF One
    <3>2. One(\/ on'[sw] /\ (<< >> \in Jobs(sw) => Head(<< >>).op # "require")
              \/ << >> \in Jobs(sw) /\ Head(<< >>).op = "release") = 0
      BY <2>4, <2>5, <2>9 DEF One
    <3>3. users = users - 0 + 0
      BY <2>4
    <3> QED
      BY <1>4, <3>1, <3>2, <3>3, Zenon
  <2> QED
    BY <1>2, <1>3, <1>4, <2>1, <2>6, <2>7, <2>8, <2>9, <2>10, OneMoves
<1> QED
  BY <1>4, <1>5, <1>6 DEF PanelInv

LEMMA WakeKeeps ==
  ASSUME PanelInv, NEW sw \in Switches, NEW id \in live[sw], ThreadWakes(sw, id)
  PROVE  PanelInv'
<1>1. /\ signals[sw] > 0 /\ id \in live[sw]
      /\ signals' = [signals EXCEPT ![sw] = @ - 1]
      /\ live' = IF on[sw] THEN live ELSE [live EXCEPT ![sw] = @ \ {id}]
      /\ UNCHANGED <<eeprom, todo, on, thread, subscribed, users, orderly, stale>>
  BY DEF ThreadWakes, store
<1>2. PanelShape'
  BY <1>1 DEF PanelInv, PanelShape
<1>3. ASSUME orderly PROVE PanelGood'
  <2>1. PanelGood /\ PanelShape
    BY <1>3 DEF PanelInv
  <2>2. PICK t \in PanelThreads : todo[t] \in Jobs(sw)
    <3>1. ASSUME \A t \in PanelThreads : todo[t] \notin Jobs(sw) PROVE FALSE
      <4>1. signals[sw] = 0
        BY <2>1, <3>1 DEF PanelGood, GoodSwitch, Rest, Matches
      <4> QED
        BY <1>1, <4>1
    <3> QED
      BY <3>1
  <2>3. PICK s : s = Head(todo[t])
    OBVIOUS
  <2>4. Fits(sw, s)
    BY <2>1, <2>2, <2>3 DEF PanelGood, GoodSwitch
  <2>5. s.op \in {"write", "activate", "require", "release", "signal", "join"}
    <3>1. /\ \A m \in BOOLEAN : /\ FirstUnit(sw, m).op = "write" /\ SecondUnit(sw, m).op = "write"
                                /\ Setting(sw, m).op = "activate"
          /\ \A op : After(op, sw).op = op
      BY DEF FirstUnit, SecondUnit, Setting, After
    <3> QED
      BY <2>2, <2>3, <3>1, JobSteps
  <2>6. s.op = "join" /\ Ending(sw, s) /\ live[sw] = {1} /\ signals[sw] = 1
    <3>1. ~Matches(sw)
      BY <1>1 DEF Matches
    <3>2. Ending(sw, s)
      BY <2>4, <2>5, <3>1 DEF Fits
    <3> QED
      BY <1>1, <3>2 DEF Ending
  <2>7. id = 1 /\ ~on[sw]
    BY <1>1, <2>6 DEF Ending
  <2>8. live' = [live EXCEPT ![sw] = {}] /\ signals' = [signals EXCEPT ![sw] = 0]
    <3>1. live[sw] \ {id} = {} /\ signals[sw] - 1 = 0
      BY <2>6, <2>7
    <3>2. live' = [live EXCEPT ![sw] = live[sw] \ {id}] /\ signals' = [signals EXCEPT ![sw] = signals[sw] - 1]
      BY <1>1, <2>7
    <3> QED
      BY <3>1, <3>2, Zenon
  <2>9. PanelTypes'
    BY <1>1, <2>1, <2>8 DEF PanelGood, PanelTypes
  <2>10. live'[sw] = {} /\ signals'[sw] = 0
    BY <2>1, <2>8 DEF PanelGood, PanelTypes
  <2>11. IsOn(sw)' <=> IsOn(sw)
    BY <1>1, OnKept
  <2>12. Fits(sw, s)'
    <3>1. Ending(sw, s)'
      BY <1>1, <2>6, <2>10, <2>11 DEF Ending
    <3> QED
      BY <2>6, <3>1 DEF Fits
  <2>13. GoodSwitch(sw)'
    <3>1. Single(sw)
      BY <2>1 DEF PanelGood, GoodSwitch
    <3>2. \A u \in PanelThreads : todo[u] \in Jobs(sw) => u = t
      BY <2>2, <3>1 DEF Single
    <3>3. \A u \in PanelThreads : todo'[u] \in Jobs(sw) => Fits(sw, Head(todo[u]))'
      <4> SUFFICES ASSUME NEW u \in PanelThreads, todo'[u] \in Jobs(sw) PROVE Fits(sw, Head(todo[u]))'
        OBVIOUS
      <4>1. u = t /\ Head(todo'[u]) = s
        BY <1>1, <2>3, <3>2
      <4> QED
        BY <2>12, <4>1
    <3>4. Single(sw)'
      BY <1>1, <3>1 DEF Single
    <3>5. todo'[t] \in Jobs(sw)
      BY <1>1, <2>2
    <3> QED
      BY <3>3, <3>4, <3>5 DEF GoodSwitch
  <2>14. \A other \in Switches : other # sw => Apart(other)
    BY <1>1, <2>1, <2>8 DEF Apart, Still, TodoApart, PanelGood, PanelTypes
  <2>15. users' = users - One(HasRadio(sw)) + One(HasRadio(sw)')
    <3>1. HasRadio(sw)' <=> HasRadio(sw)
      BY <1>1, Zenon DEF HasRadio
    <3>2. One(HasRadio(sw)') = One(HasRadio(sw)) /\ One(HasRadio(sw)) \in Int
      BY <3>1 DEF One
    <3>3. users \in Int
      BY <2>1 DEF PanelGood, One
    <3> QED
      BY <1>1, <3>2, <3>3
  <2> QED
    BY <2>1, <2>9, <2>13, <2>14, <2>15, GoodFollows
<1> QED
  BY <1>1, <1>2, <1>3 DEF PanelInv

LEMMA CountSwitches ==
  ASSUME NEW S \in SUBSET Switches
  PROVE  Cardinality(S) = One("IGATE_ON" \in S) + One("DIGIPEATER_ON" \in S)
<1>1. \A x : IsFiniteSet({x}) /\ Cardinality({x}) = 1
  BY FS_Singleton
<1>2. Cardinality({}) = 0
  BY FS_EmptySet
<1>3. Cardinality({"IGATE_ON", "DIGIPEATER_ON"}) = 2
  <2>1. Cardinality({"IGATE_ON"} \cup {"DIGIPEATER_ON"}) = Cardinality({"IGATE_ON"}) + 1
    BY <1>1, FS_AddElement
  <2>2. {"IGATE_ON"} \cup {"DIGIPEATER_ON"} = {"IGATE_ON", "DIGIPEATER_ON"}
    OBVIOUS
  <2>3. Cardinality({"IGATE_ON"}) = 1
    BY <1>1
  <2> QED
    BY <2>1, <2>2, <2>3
<1>4. S = {} \/ S = {"IGATE_ON"} \/ S = {"DIGIPEATER_ON"} \/ S = {"IGATE_ON", "DIGIPEATER_ON"}
  BY DEF Switches
<1> QED
  BY <1>1, <1>2, <1>3, <1>4 DEF One

\* After a start.
Fresh ==
  /\ todo = [t \in PanelThreads |-> << >>]
  /\ on \in [Switches -> BOOLEAN] /\ \A sw \in Switches : on[sw] <=> IsOn(sw)
  /\ thread = [sw \in Switches |-> IF on[sw] THEN 1 ELSE 0]
  /\ live = [sw \in Switches |-> IF on[sw] THEN {1} ELSE {}]
  /\ signals = [sw \in Switches |-> 0]
  /\ subscribed = on
  /\ users = Cardinality({sw \in Switches : on[sw]})

LEMMA NoJobs ==
  ASSUME \A t \in PanelThreads : todo[t] = << >>, NEW sw \in Switches
  PROVE  /\ \A t \in PanelThreads : todo[t] \notin Jobs(sw)
         /\ HasRadio(sw) <=> on[sw]
<1>1. \A t \in PanelThreads : todo[t] \notin Jobs(sw)
  BY JobsApart
<1> QED
  BY <1>1, Zenon DEF HasRadio

LEMMA FreshGood == Fresh => PanelGood
<1> SUFFICES ASSUME Fresh PROVE PanelGood
  OBVIOUS
<1>1. \A t \in PanelThreads : todo[t] = << >>
  BY DEF Fresh
<1>2. PanelTypes
  <2>1. on \in [Switches -> BOOLEAN] /\ subscribed \in [Switches -> BOOLEAN]
    BY DEF Fresh
  <2>2. thread \in [Switches -> 0..1] /\ signals \in [Switches -> 0..1]
    BY DEF Fresh
  <2>3. live \in [Switches -> {{}, {1}}]
    BY DEF Fresh
  <2> QED
    BY <2>1, <2>2, <2>3 DEF PanelTypes
<1>3. ASSUME NEW sw \in Switches PROVE GoodSwitch(sw)
  <2>1. \A t \in PanelThreads : todo[t] \notin Jobs(sw)
    BY <1>1, NoJobs
  <2>2. Matches(sw)
    BY DEF Fresh, Matches, Flag
  <2>3. on[sw] = IsOn(sw)
    BY DEF Fresh, IsOn
  <2> QED
    BY <2>1, <2>2, <2>3, Zenon DEF GoodSwitch, Single, Rest
<1>4. users = One(HasRadio("IGATE_ON")) + One(HasRadio("DIGIPEATER_ON"))
  <2>1. PICK S \in SUBSET Switches : S = {sw \in Switches : on[sw]}
    OBVIOUS
  <2>2. \A sw \in Switches : sw \in S <=> HasRadio(sw)
    BY <1>1, <2>1, NoJobs
  <2>3. One("IGATE_ON" \in S) = One(HasRadio("IGATE_ON"))
    BY <2>2, TwoSwitches DEF One
  <2>4. One("DIGIPEATER_ON" \in S) = One(HasRadio("DIGIPEATER_ON"))
    BY <2>2, TwoSwitches DEF One
  <2> QED
    BY <2>1, <2>3, <2>4, CountSwitches DEF Fresh
<1> QED
  BY <1>2, <1>3, <1>4 DEF PanelGood

LEMMA CutKeeps ==
  ASSUME PanelInv, PowerCut
  PROVE  PanelInv'
<1>1. /\ todo' = [t \in PanelThreads |-> << >>]
      /\ on' = [sw \in Switches |-> IsOn(sw)]
      /\ thread' = [sw \in Switches |-> IF IsOn(sw) THEN 1 ELSE 0]
      /\ live' = [sw \in Switches |-> IF IsOn(sw) THEN {1} ELSE {}]
      /\ signals' = [sw \in Switches |-> 0]
      /\ subscribed' = on'
      /\ users' = Cardinality({sw \in Switches : IsOn(sw)})
      /\ orderly' = TRUE /\ eeprom' = eeprom
  BY DEF PowerCut
<1>2. PanelShape'
  BY <1>1, EmptyTodo DEF PanelInv, PanelShape
<1>3. on' \in [Switches -> BOOLEAN] /\ \A sw \in Switches : on'[sw] = IsOn(sw)
  BY <1>1 DEF IsOn
<1>4. \A sw \in Switches : on'[sw] <=> IsOn(sw)'
  BY <1>1, <1>3, OnKept
<1>5. /\ thread' = [sw \in Switches |-> IF on'[sw] THEN 1 ELSE 0]
      /\ live' = [sw \in Switches |-> IF on'[sw] THEN {1} ELSE {}]
      /\ users' = Cardinality({sw \in Switches : on'[sw]})
  BY <1>1, <1>3, Zenon
<1>6. Fresh'
  BY <1>1, <1>3, <1>4, <1>5, Zenon DEF Fresh
<1>7. PanelGood'
  BY <1>6, FreshGood, PTL
<1> QED
  BY <1>1, <1>2, <1>7 DEF PanelInv

LEMMA InitKeeps ==
  ASSUME PanelInit
  PROVE  PanelInv
<1>1. /\ todo = [t \in PanelThreads |-> << >>] /\ orderly = TRUE
      /\ on = [sw \in Switches |-> FALSE]
      /\ eeprom = [a \in Memory |-> Bits(255)]
  BY DEF PanelInit, Started, SettingsInit, Memory
<1>2. PanelShape
  BY <1>1, EmptyTodo DEF PanelShape
<1>3. ASSUME NEW sw \in Switches PROVE ~IsOn(sw)
  <2>1. PICK b : b = Bits(255)
    OBVIOUS
  <2>2. eeprom[Offset(sw)] = b /\ eeprom[Offset(sw) + 1] = b
    BY <1>1, <2>1, SwitchPlaces DEF Memory
  <2>3. Xor(0..3, b) # b
    BY DEF Xor
  <2> QED
    BY <2>2, <2>3, OnIs DEF Reads
<1>4. Fresh
  <2>1. on \in [Switches -> BOOLEAN] /\ \A sw \in Switches : on[sw] <=> IsOn(sw)
    BY <1>1, <1>3
  <2>2. /\ thread = [sw \in Switches |-> IF on[sw] THEN 1 ELSE 0]
        /\ live = [sw \in Switches |-> IF on[sw] THEN {1} ELSE {}]
        /\ signals = [sw \in Switches |-> 0] /\ subscribed = on
        /\ users = Cardinality({sw \in Switches : on[sw]})
    BY <1>1, Zenon DEF PanelInit, Started
  <2> QED
    BY <1>1, <2>1, <2>2, Zenon DEF Fresh
<1> QED
  BY <1>2, <1>4, FreshGood DEF PanelInv

PanelSpec == PanelInit /\ [][PanelNext]_<<store, switches>>

LEMMA StepKeeps ==
  ASSUME PanelInv, [PanelNext]_<<store, switches>>
  PROVE  PanelInv'
<1>1. CASE ShellCommand
  <2> DEFINE Sets == ShellSets \cup {SwitchOn(sw, m) : sw \in Switches, m \in BOOLEAN}
  <2>1. PICK steps \in Sets : Begin("shell", steps, "commands", MaxCommands)
    BY <1>1 DEF ShellCommand
  <2>2. steps \in Seq(Other) \/ \E sw \in Switches, m \in BOOLEAN : steps \in ToWrite(sw, m)
    BY <2>1, ShellWrites, SwitchOnIs
  <2> HIDE DEF Sets
  <2>3. "shell" \in PanelThreads
    BY DEF PanelThreads, Equals
  <2> QED
    BY <2>1, <2>2, <2>3, Begins, Zenon
<1>2. CASE WebCommand
  <2>1. PICK steps \in cmd_setParm : Begin("web", steps, "commands", MaxCommands)
    BY <1>2, Zenon DEF WebCommand
  <2>2. steps \in Seq(Other) \/ \E sw \in Switches, m \in BOOLEAN : steps \in ToWrite(sw, m)
    <3>1. \A sw \in Switches, m \in BOOLEAN : <<FirstUnit(sw, m), SecondUnit(sw, m)>> \in ToWrite(sw, m)
      BY DEF ToWrite
    <3> QED
      BY <2>1, <3>1, WebWritten, Zenon
  <2>3. "web" \in PanelThreads
    BY DEF PanelThreads, Equals
  <2> QED
    BY <2>1, <2>2, <2>3, Begins, Zenon
<1>3. CASE Poll
  <2>1. PICK sw \in Switches : Begin("poller", SwitchOn(sw, IsOn(sw)), "polls", MaxPolls)
    BY <1>3, Zenon DEF Poll
  <2>2. SwitchOn(sw, IsOn(sw)) \in ToWrite(sw, IsOn(sw)) /\ IsOn(sw) \in BOOLEAN
    <3>1. IsOn(sw) \in BOOLEAN
      BY DEF IsOn
    <3> QED
      BY <3>1, SwitchOnIs
  <2>3. "poller" \in PanelThreads
    BY DEF PanelThreads, Equals
  <2> QED
    BY <2>1, <2>2, <2>3, Begins, Zenon
<1>4. CASE Push
  <2>1. PICK sw \in Switches : Begin("button", SwitchOn(sw, ~IsOn(sw)), "pushes", MaxPushes)
    BY <1>4, Zenon DEF Push
  <2>2. SwitchOn(sw, ~IsOn(sw)) \in ToWrite(sw, ~IsOn(sw)) /\ (~IsOn(sw)) \in BOOLEAN
    <3>1. (~IsOn(sw)) \in BOOLEAN
      OBVIOUS
    <3> QED
      BY <3>1, SwitchOnIs
  <2>3. "button" \in PanelThreads
    BY DEF PanelThreads, Equals
  <2> QED
    BY <2>1, <2>2, <2>3, Begins, Zenon
<1>5. CASE PowerCut
  BY <1>5, CutKeeps
<1>6. ASSUME NEW t \in PanelThreads, PanelStep(t) PROVE PanelInv'
  BY <1>6, WriteKeeps, ActivateKeeps, RadioStepKeeps, JoinKeeps, Zenon DEF PanelStep
<1>7. ASSUME NEW sw \in Switches, NEW id \in live[sw], ThreadWakes(sw, id) PROVE PanelInv'
  BY <1>7, WakeKeeps
<1>8. CASE UNCHANGED <<store, switches>>
  <2>1. UNCHANGED <<eeprom, todo, on, thread, live, signals, subscribed, users, orderly, stale>>
    BY <1>8 DEF store, switches
  <2>2. PanelShape'
    BY <2>1 DEF PanelInv, PanelShape
  <2>3. ASSUME orderly PROVE PanelGood'
    <3>1. \A sw \in Switches : Apart(sw)
      BY <2>1 DEF Apart, Still, TodoApart
    <3>2. PanelGood /\ PanelTypes'
      BY <2>1, <2>3, TypesKept DEF PanelInv, PanelGood
    <3> QED
      BY <2>1, <3>1, <3>2, AllApart
  <2> QED
    BY <2>1, <2>2, <2>3 DEF PanelInv
<1> QED
  BY <1>1, <1>2, <1>3, <1>4, <1>5, <1>6, <1>7, <1>8, Zenon DEF PanelNext

\* The invariant: todo is a sequence of writes that are not of a switch, or
\* what is left of a change of one; and in an orderly run one thread at most
\* is at a switch, and how far it is tells what on, the thread of the switch,
\* its subscription, its signals, the parameter and the users of the radio are.
THEOREM PanelInvariant == PanelSpec => []PanelInv
<1>1. PanelInit => PanelInv
  BY InitKeeps
<1>2. PanelInv /\ [PanelNext]_<<store, switches>> => PanelInv'
  BY StepKeeps
<1> QED
  BY <1>1, <1>2, PTL DEF PanelSpec

\* digipeater_activate and igate_activate (digipeater.c:85-116, igate.c:194-220).
THEOREM SwitchExactHolds == PanelSpec => []SwitchExact
<1>1. PanelInv => SwitchExact
  <2> SUFFICES ASSUME PanelInv, orderly, Quiet PROVE Consistent
    BY DEF SwitchExact
  <2>1. PanelGood
    BY DEF PanelInv
  <2>2. \A t \in PanelThreads : todo[t] = << >>
    BY DEF Quiet
  <2>3. ASSUME NEW sw \in Switches
        PROVE  /\ subscribed[sw] = on[sw]
               /\ Cardinality(live[sw]) = IF on[sw] THEN 1 ELSE 0
               /\ sw \notin stale => on[sw] = IsOn(sw)
    <3>1. Rest(sw)
      <4>1. \A t \in PanelThreads : todo[t] \notin Jobs(sw)
        BY <2>2, NoJobs
      <4> QED
        BY <2>1, <4>1 DEF PanelGood, GoodSwitch
    <3>2. Cardinality({1}) = 1 /\ Cardinality({}) = 0
      BY FS_Singleton, FS_EmptySet
    <3>3. Cardinality(live[sw]) = IF on[sw] THEN 1 ELSE 0
      BY <3>1, <3>2 DEF Rest, Matches
    <3> QED
      BY <3>1, <3>3, Zenon DEF Rest, Matches
  <2>4. users = Cardinality({sw \in Switches : on[sw]})
    <3>1. PICK S \in SUBSET Switches : S = {sw \in Switches : on[sw]}
      OBVIOUS
    <3>2. \A sw \in Switches : sw \in S <=> HasRadio(sw)
      BY <2>2, <3>1, NoJobs
    <3>3. One("IGATE_ON" \in S) = One(HasRadio("IGATE_ON"))
      BY <3>2, TwoSwitches DEF One
    <3>4. One("DIGIPEATER_ON" \in S) = One(HasRadio("DIGIPEATER_ON"))
      BY <3>2, TwoSwitches DEF One
    <3> QED
      BY <2>1, <3>1, <3>3, <3>4, CountSwitches DEF PanelGood
  <2> QED
    BY <2>3, <2>4, Zenon DEF Consistent
<1> QED
  BY <1>1, PanelInvariant, PTL

\* What a thread is about to write is in the places of the parameter.
LEMMA UnitPlaced ==
  ASSUME PanelShape, NEW t \in PanelThreads, todo[t] # << >>, Head(todo[t]).op = "write"
  PROVE  /\ Head(todo[t]).param \in Params
         /\ Head(todo[t]).at .. Head(todo[t]).at + Len(Head(todo[t]).bytes) - 1
              \subseteq Places(Head(todo[t]).param)
<1>1. PICK s : s = Head(todo[t]) /\ s.op = "write"
  OBVIOUS
<1>2. CASE todo[t] \in Seq(Other)
  <2>1. s \in Other
    BY <1>1, <1>2, TodoKinds, TailIn
  <2> QED
    BY <1>1, <2>1 DEF Other, Writes
<1>3. ASSUME NEW sw \in Switches, todo[t] \in Jobs(sw)
      PROVE  s.param \in Params /\ s.at .. s.at + Len(s.bytes) - 1 \subseteq Places(s.param)
  <2>1. PICK at \in Nat : at = Offset(sw) /\ Places(sw) = {at, at + 1} /\ sw \in Params
    BY SwitchPlaces, SwitchLayout
  <2>2. \E m \in BOOLEAN : s = FirstUnit(sw, m) \/ s = SecondUnit(sw, m)
    <3>1. \A m \in BOOLEAN : Setting(sw, m).op # "write"
      BY DEF Setting
    <3>2. \A op \in {"require", "release", "signal", "join"} : After(op, sw).op # "write"
      BY DEF After
    <3> QED
      BY <1>1, <1>3, <3>1, <3>2, JobSteps
  <2>3. PICK m \in BOOLEAN : s = FirstUnit(sw, m) \/ s = SecondUnit(sw, m)
    BY <2>2
  <2>4. CASE s = FirstUnit(sw, m)
    <3>1. s.at = at /\ s.param = sw /\ Len(s.bytes) = 1
      BY <2>1, <2>4, CellFacts DEF FirstUnit
    <3>2. at .. at + 1 - 1 \subseteq {at, at + 1}
      BY <2>1
    <3> QED
      BY <2>1, <3>1, <3>2
  <2>5. CASE s = SecondUnit(sw, m)
    <3>1. s.at = at + 1 /\ s.param = sw /\ Len(s.bytes) = 1
      BY <2>1, <2>5 DEF SecondUnit
    <3>2. at + 1 .. at + 1 + 1 - 1 \subseteq {at, at + 1}
      BY <2>1
    <3> QED
      BY <2>1, <3>1, <3>2
  <2> QED
    BY <2>3, <2>4, <2>5
<1> QED
  BY <1>1, <1>2, <1>3, TodoKinds

LEMMA StepInPlace ==
  ASSUME PanelInv, [PanelNext]_<<store, switches>>
  PROVE  InPlace
<1>1. ASSUME eeprom' = eeprom PROVE InPlace
  BY <1>1 DEF InPlace
<1>2. CASE \E t \in PanelThreads : todo[t] # << >> /\ Write(t)
  <2>1. PICK t \in PanelThreads : todo[t] # << >> /\ Write(t)
    BY <1>2
  <2>2. PICK s : s = Head(todo[t]) /\ s.op = "write"
    BY <2>1 DEF Write
  <2>3. PICK meddled : WriteUnit(s, meddled)
    BY <2>1, <2>2 DEF Write
  <2>4. PanelShape
    BY DEF PanelInv
  <2>5. s.param \in Params /\ s.at .. s.at + Len(s.bytes) - 1 \subseteq Places(s.param)
    BY <2>1, <2>2, <2>4, UnitPlaced
  <2>6. PICK R : R = s.at .. s.at + Len(s.bytes) - 1
    OBVIOUS
  <2> DEFINE V(a) == s.bytes[a - s.at + 1]
  <2>7. eeprom' = [a \in DOMAIN eeprom |-> IF a \in R THEN V(a) ELSE eeprom[a]]
    BY <2>3, <2>6, Zenon DEF WriteUnit
  <2> HIDE DEF V
  <2>8. ASSUME NEW p \in Used, NEW a \in Places(p), eeprom'[a] # eeprom[a]
        PROVE  Writing(t, p)
    <3>1. a \in DOMAIN eeprom
      BY <2>4, <2>8 DEF PanelShape, Memory
    <3>2. a \in R
      BY <2>7, <2>8, <3>1
    <3>3. a \in Places(s.param)
      BY <2>5, <2>6, <3>2
    <3>4. p = s.param
      <4>1. p \in Params
        BY SettingsAssumption
      <4> QED
        BY <2>5, <2>8, <3>3, <4>1, SettingsAssumption
    <3> QED
      BY <2>1, <2>2, <3>4 DEF Writing
  <2> QED
    BY <2>8 DEF InPlace
<1>3. \/ \E t \in PanelThreads : todo[t] # << >> /\ Write(t)
      \/ eeprom' = eeprom
  <2>1. ASSUME NEW t, NEW steps, NEW what, NEW limit, Begin(t, steps, what, limit) PROVE eeprom' = eeprom
    BY <2>1 DEF Begin, store
  <2>2. ShellCommand \/ WebCommand \/ Poll \/ Push => eeprom' = eeprom
    <3>1. ShellCommand => eeprom' = eeprom
      <4> DEFINE Sets == ShellSets \cup {SwitchOn(sw, m) : sw \in Switches, m \in BOOLEAN}
      <4>1. ShellCommand => \E steps \in Sets : Begin("shell", steps, "commands", MaxCommands)
        BY DEF ShellCommand
      <4> HIDE DEF Sets
      <4> QED
        BY <2>1, <4>1, Zenon
    <3>2. WebCommand => eeprom' = eeprom
      BY <2>1, Zenon DEF WebCommand
    <3>3. Poll => eeprom' = eeprom
      BY <2>1, Zenon DEF Poll
    <3>4. Push => eeprom' = eeprom
      BY <2>1, Zenon DEF Push
    <3> QED
      BY <3>1, <3>2, <3>3, <3>4
  <2>3. PowerCut => eeprom' = eeprom
    BY DEF PowerCut
  <2>4. ASSUME NEW t \in PanelThreads, PanelStep(t)
        PROVE  (todo[t] # << >> /\ Write(t)) \/ eeprom' = eeprom
    <3>1. Activate(t) => eeprom' = eeprom
      BY DEF Activate, store
    <3>2. RadioStep(t) => eeprom' = eeprom
      BY DEF RadioStep, store
    <3>3. JoinThread(t) => eeprom' = eeprom
      BY DEF JoinThread, store
    <3> QED
      BY <2>4, <3>1, <3>2, <3>3, Zenon DEF PanelStep
  <2>5. ASSUME NEW sw \in Switches, NEW id \in live[sw], ThreadWakes(sw, id) PROVE eeprom' = eeprom
    BY <2>5 DEF ThreadWakes, store
  <2>6. UNCHANGED <<store, switches>> => eeprom' = eeprom
    BY DEF store
  <2> QED
    BY <2>2, <2>3, <2>4, <2>5, <2>6, Zenon DEF PanelNext
<1> QED
  BY <1>1, <1>2, <1>3

\* set_param, set_byte_param and the commands that call them (config.c:31-88),
\* with the layout of config.h:21-250.
THEOREM WritesStayHolds == PanelSpec => WritesStay
<1>1. PanelInv /\ [PanelNext]_<<store, switches>> => [InPlace]_<<store, switches>>
  BY StepInPlace
<1> QED
  BY <1>1, PanelInvariant, PTL DEF PanelSpec, WritesStay

=============================================================================
