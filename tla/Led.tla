--------------------------------- MODULE Led ---------------------------------
(***************************************************************************)
(* The RGB LED (ui.c:15-171).  Threads (encoder, igate, shell) ask for a   *)
(* colour, for a mix that a timer takes through its phases, or for none;   *)
(* interrupts (squelch, bit clock) turn a priority colour on and off, also *)
(* between the test of pri_on in a thread's call and what the call does.   *)
(* Timer and interrupts do not come into each other.                       *)
(***************************************************************************)
EXTENDS Integers, Sequences

CONSTANTS
  Colours,   \* what is asked for: sets of red, green and blue
  Mixes      \* sets of phases that have a time: 1 red, 2 green, 3 blue, 0 dark

\* A mix without any phase keeps chandler in its loop for ever.
ASSUME LedAssumption ==
  /\ Colours \subseteq SUBSET {"red", "green", "blue"}
  /\ Mixes \subseteq (SUBSET (0..3)) \ {{}}

VARIABLES
  ledstate,   \* mix, on, pri_on, colour
  phases,     \* _red, _green, _blue, _off
  cstate, vt, \* the phase that comes next, -1: none; the timer is set
  pins,       \* what is lit
  asked,      \* a thread's call, past the test of pri_on
  active,     \* the interrupts whose colour is on
  undisturbed \* history: none came into a call, nor while another's colour was on,
              \* and the transceiver was not powered up meanwhile

led == <<ledstate, phases, cstate, vt, pins, asked, active, undisturbed>>

NoCall == [op |-> "none"]

LedInit ==
  /\ ledstate = [mix |-> FALSE, on |-> FALSE, pri_on |-> FALSE, colour |-> {}]
  /\ phases = {0} /\ cstate = -1 /\ vt = FALSE
  /\ pins = {} /\ asked = NoCall /\ active = {} /\ undisturbed = TRUE

----------------------------------------------------------------------------
rgb_led_mix(m, priority) ==
  /\ phases' = m /\ cstate' = 1 /\ vt' = TRUE
  /\ ledstate' = [ledstate EXCEPT !.mix = TRUE, !.on = TRUE, !.pri_on = priority]

rgb_led_on(c) ==
  /\ pins' = c
  /\ ledstate' = [ledstate EXCEPT !.colour = c, !.on = TRUE]

rgb_led_off ==
  /\ pins' = {} /\ cstate' = -1
  /\ ledstate' = [ledstate EXCEPT !.on = FALSE, !.mix = FALSE]

\* The first phase that has a time, from the one that comes next.
Phase == LET d == CHOOSE d \in 0..3 : /\ (cstate + d) % 4 \in phases
                                      /\ \A k \in 0..(d - 1) : (cstate + k) % 4 \notin phases
         IN  (cstate + d) % 4

\* The timer.
chandler ==
  /\ vt
  /\ IF cstate = -1
     THEN vt' = FALSE /\ UNCHANGED <<cstate, pins, ledstate>>
     ELSE /\ vt' = TRUE /\ cstate' = (Phase + 1) % 4
          /\ IF Phase = 0 THEN pins' = {} /\ UNCHANGED ledstate
             ELSE IF ledstate.pri_on THEN UNCHANGED <<pins, ledstate>>
             ELSE rgb_led_on({<<"red", "green", "blue">>[Phase]})
  /\ UNCHANGED <<phases, asked, active, undisturbed>>

\* A thread calls one of the three; nothing happens while a priority colour is on.
Ask ==
  /\ asked = NoCall /\ ~ledstate.pri_on
  /\ \/ \E m \in Mixes : asked' = [op |-> "mix", mix |-> m]
     \/ \E c \in Colours : asked' = [op |-> "on", colour |-> c]
     \/ asked' = [op |-> "off"]
  /\ UNCHANGED <<ledstate, phases, cstate, vt, pins, active, undisturbed>>

Answer ==
  /\ asked' = NoCall
  /\ \/ asked.op = "mix" /\ rgb_led_mix(asked.mix, ledstate.pri_on) /\ UNCHANGED pins
     \/ asked.op = "on" /\ rgb_led_on(asked.colour) /\ UNCHANGED <<phases, cstate, vt>>
     \/ asked.op = "off" /\ rgb_led_off /\ UNCHANGED <<phases, vt>>
  /\ UNCHANGED <<active, undisturbed>>

----------------------------------------------------------------------------
(* squelch_handler and radio_PTT *)

PriColour(source) == IF source = "squelch" THEN {"red", "green"} ELSE {"red"}

\* Mutant: the mix goes on.
PriOnMixed(source) ==
  /\ pins' = PriColour(source) /\ UNCHANGED cstate
  /\ ledstate' = [ledstate EXCEPT !.pri_on = TRUE]

pri_rgb_led_on(source) ==
  /\ pins' = PriColour(source) /\ cstate' = -1
  /\ ledstate' = [ledstate EXCEPT !.pri_on = TRUE]

(* A mix begins again; another colour is lit with what is lit already.     *)
pri_rgb_led_off ==
  IF ledstate.on /\ ledstate.mix THEN rgb_led_mix(phases, FALSE) /\ UNCHANGED pins
  ELSE /\ pins' = IF ledstate.on THEN pins \cup ledstate.colour ELSE {}
       /\ ledstate' = [ledstate EXCEPT !.pri_on = FALSE]
       /\ UNCHANGED <<phases, cstate, vt>>

PriOn ==
  /\ \E source \in {"squelch", "tx"} \ active :
       active' = active \cup {source} /\ pri_rgb_led_on(source)
  /\ undisturbed' = (undisturbed /\ asked = NoCall /\ active = {})
  /\ UNCHANGED <<phases, vt, asked>>

PriOff ==
  /\ \E source \in active : active' = active \ {source}
  /\ pri_rgb_led_off
  /\ UNCHANGED <<asked, undisturbed>>

(* radio_PTT(false) while the transceiver powers up, with no colour of its own on. *)
PriOffUnasked ==
  /\ "tx" \notin active
  /\ pri_rgb_led_off
  /\ undisturbed' = (undisturbed /\ active = {})
  /\ UNCHANGED <<asked, active>>

LedNext == chandler \/ Ask \/ Answer \/ PriOn \/ PriOff \/ PriOffUnasked

----------------------------------------------------------------------------
(***************************************************************************)
(* "Turn on priority RGB led(s). This cannot be overridden and can only be *)
(* turned off by pri_rgb_led_off()" (ui.c:135-136): it stays on whatever   *)
(* threads ask for and the timer does, nothing of it is left when no       *)
(* colour was on before, and a mix that it came into goes on afterwards -  *)
(* as long as no interrupt comes into a thread's call or while the other's *)
(* colour is on, nor the transceiver is powered up while one is.           *)
(***************************************************************************)
LedExact ==
  undisturbed =>
    /\ \A source \in active : pins = PriColour(source)
    /\ active = {} /\ ~ledstate.on => pins = {}
    /\ active = {} /\ ledstate.mix => vt /\ cstate # -1

(***************************************************************************)
(* "can only be turned off by pri_rgb_led_off()" (ui.c:135-136): it does   *)
(* turn it off, and what is lit is the colour that was on before.          *)
(***************************************************************************)
ColourRestored ==
  undisturbed /\ active = {} /\ ledstate.on /\ ~ledstate.mix => pins = ledstate.colour

(***************************************************************************)
(* "This cannot be overridden" (ui.c:135): while a priority colour is on,  *)
(* what is lit is that of one of those who turned it on, whenever the      *)
(* interrupt came.                                                         *)
(***************************************************************************)
NeverOverridden == active # {} => \E source \in active : pins = PriColour(source)

=============================================================================
