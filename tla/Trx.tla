--------------------------------- MODULE Trx ---------------------------------
(***************************************************************************)
(* The settings of the transceiver (sr_frs.c): parameters in EEPROM, their *)
(* copies in memory, and what the transceiver has been told.  The shell    *)
(* and the web interface set them at any time; whoever requires the radio  *)
(* first powers it up, which takes several steps.  Commands to the         *)
(* transceiver and its replies, one for each, go over one serial line.     *)
(*                                                                         *)
(* A sender waits for a reply; nothing locks the line.  The transceiver    *)
(* forgets its settings without power and hears nothing until it has       *)
(* booted.  When the radio is required and released is in TxPath.          *)
(***************************************************************************)
EXTENDS Integers, Sequences, FiniteSets

CONSTANTS
  Freqs,       \* frequencies; 0 means none
  Squelches,   \* squelch levels
  MaxOrders,   \* bound: commands of shell and web interface
  MaxPowerUps  \* bound: times the power is turned on

ASSUME TrxAssumption ==
  Freqs \subseteq Nat \ {0} /\ Squelches \subseteq 0..8 /\ {MaxOrders, MaxPowerUps} \subseteq Nat

VARIABLES
  param,      \* the parameters in EEPROM
  radio,      \* _on, radio_rdy and the copies: _txfreq, _rxfreq, _squelch, _flags
  chip,       \* the transceiver: its power and the settings it has
  orders,     \* thread -> settings of its command that are still to be made
  place,      \* thread -> what it does; "user" is who powers up
  wire,       \* commands to the transceiver
  replies,    \* replies that nobody has read
  turns,      \* commands and power-ups
  alone       \* history: one command at a time, and none that is not replied to

trx == <<param, radio, chip, orders, place, wire, replies, turns, alone>>

Setters == {"shell", "web"}
Waiting == {"reply", "handshake", "group"}
Factory == [group |-> << >>, volume |-> 0, miclevel |-> 0]

TrxStart(f, sq) ==
  /\ param = [txfreq |-> f, rxfreq |-> f, squelch |-> sq, volume |-> 4, miclevel |-> 8]
  /\ radio = [on |-> FALSE, rdy |-> FALSE, txfreq |-> 0, rxfreq |-> 0, squelch |-> 0, flags |-> {}]
  /\ chip = [power |-> "off", has |-> Factory]
  /\ orders = [t \in Setters |-> << >>]
  /\ place = [t \in Setters \cup {"user"} |-> IF t = "user" THEN "off" ELSE "free"]
  /\ wire = << >> /\ replies = 0
  /\ turns = [orders |-> 0, powerups |-> 0] /\ alone = TRUE

TrxInit == \E f \in Freqs, sq \in Squelches : TrxStart(f, sq)

----------------------------------------------------------------------------
\* A command is written, and its reply is waited for.
Talk(t, command, next) ==
  /\ place' = [place EXCEPT ![t] = next]
  /\ wire' = IF chip.power = "up" THEN Append(wire, command) ELSE wire
  /\ alone' = (/\ alone /\ chip.power = "up"
                 /\ \A other \in DOMAIN place \ {t} : place[other] \notin Waiting)

\* A transceiver that is off is told nothing.
TalkIfOn(t, command) ==
  IF radio.on THEN Talk(t, command, "reply") ELSE UNCHANGED <<place, wire, alone>>

GroupOf(r) == << "group", <<r.txfreq, r.rxfreq, r.squelch, r.flags>> >>

\* _setGroupParm
SetGroupParm(t) == TalkIfOn(t, GroupOf(radio'))

\* Mutant: the frequency that is not given is not left as it is.
SetFreqBoth(tx, rx) == [radio EXCEPT !.txfreq = tx, !.rxfreq = rx]

\* radio_setFreq
SetFreq(tx, rx) ==
  [radio EXCEPT !.txfreq = IF tx > 0 THEN tx ELSE @, !.rxfreq = IF rx > 0 THEN rx ELSE @]

\* radio_setLowTxPower
SetLowTxPower(low) ==
  [radio EXCEPT !.flags = IF low /\ @ # {} THEN {} ELSE {"FLAG_LO_POWER"}]

isLowTxPower == radio.flags = {}

\* parseFreq, cmd_setsquelch, cmd_setvolume, cmd_setmiclevel, cmd_txpower: one setting.
Order(t) ==
  /\ orders[t] # << >> /\ place[t] = "free"
  /\ LET o == Head(orders[t])
     IN  \/ /\ o[1] \in {"txfreq", "rxfreq", "squelch"}
            /\ param' = [param EXCEPT ![o[1]] = o[2]]
            /\ radio' = CASE o[1] = "txfreq" -> SetFreq(o[2], 0)
                          [] o[1] = "rxfreq" -> SetFreq(0, o[2])
                          [] OTHER -> [radio EXCEPT !.squelch = o[2]]
            /\ SetGroupParm(t)
         \/ /\ o[1] \in {"volume", "miclevel"}
            /\ param' = [param EXCEPT ![o[1]] = o[2]]
            /\ TalkIfOn(t, o) /\ UNCHANGED radio
         \/ /\ o[1] = "lowpower"
            /\ radio' = SetLowTxPower(o[2]) /\ SetGroupParm(t) /\ UNCHANGED param
  /\ orders' = [orders EXCEPT ![t] = Tail(@)]
  /\ UNCHANGED <<chip, replies, turns>>

\* The frequency that is typed second is read from the first argument as well.
ShellOrders ==
  {[n \in 1..k |-> <<"txfreq", f>>] : f \in Freqs, k \in 1..2}
  \cup {<< <<"squelch", sq>> >> : sq \in Squelches}
  \cup {<< <<what, 1>> >> : what \in {"volume", "miclevel"}}
  \cup {<< <<"lowpower", low>> >> : low \in BOOLEAN}

WebOrders == {<< <<what, f>> >> : what \in {"txfreq", "rxfreq"}, f \in Freqs}

NewOrder(t) ==
  /\ orders[t] = << >> /\ place[t] = "free" /\ turns.orders < MaxOrders
  /\ turns' = [turns EXCEPT !.orders = @ + 1]
  /\ \E o \in IF t = "shell" THEN ShellOrders ELSE WebOrders : orders' = [orders EXCEPT ![t] = o]
  /\ UNCHANGED <<param, radio, chip, place, wire, replies, alone>>

\* readline, by whoever waits.
ReadReply(t) ==
  /\ place[t] \in Waiting /\ replies > 0 /\ replies' = replies - 1
  /\ place' = [place EXCEPT ![t] = CASE @ = "reply" -> "free"
                                     [] @ = "handshake" -> "settle" [] @ = "group" -> "pause"]
  /\ UNCHANGED <<param, radio, chip, orders, wire, turns, alone>>

----------------------------------------------------------------------------
(* radio_on and _initialize, with radio_mutex held. *)

User(from, to) == place["user"] = from /\ place' = [place EXCEPT !["user"] = to]

PowerUp ==
  /\ User("off", "boot") /\ turns.powerups < MaxPowerUps
  /\ turns' = [turns EXCEPT !.powerups = @ + 1]
  /\ radio' = [radio EXCEPT !.on = TRUE] /\ chip' = [power |-> "boot", has |-> Factory]
  /\ UNCHANGED <<param, orders, wire, replies, alone>>

\* After 600 ms, in which the transceiver has booted.
Handshake ==
  /\ place["user"] = "boot" /\ chip.power = "up"
  /\ Talk("user", <<"connect">>, "handshake")
  /\ UNCHANGED <<param, radio, chip, orders, replies, turns>>

Initialize ==
  /\ place["user"] = "settle"
  /\ radio' = [radio EXCEPT !.txfreq = param.txfreq, !.rxfreq = param.rxfreq,
                            !.squelch = param.squelch, !.flags = {}]
  /\ Talk("user", GroupOf(radio'), "group")
  /\ UNCHANGED <<param, chip, orders, replies, turns>>

Ready ==
  /\ User("pause", "on") /\ radio' = [radio EXCEPT !.rdy = TRUE]
  /\ UNCHANGED <<param, chip, orders, wire, replies, turns, alone>>

PowerDown ==
  /\ User("on", "off") /\ radio' = [radio EXCEPT !.on = FALSE, !.rdy = FALSE]
  /\ chip' = [power |-> "off", has |-> Factory] /\ wire' = << >>
  /\ alone' = (alone /\ \A t \in Setters : place[t] \notin Waiting)
  /\ UNCHANGED <<param, orders, replies, turns>>

----------------------------------------------------------------------------
(* The transceiver. *)
Booted ==
  /\ chip.power = "boot" /\ chip' = [chip EXCEPT !.power = "up"]
  /\ UNCHANGED <<param, radio, orders, place, wire, replies, turns, alone>>

Obey ==
  /\ wire # << >> /\ wire' = Tail(wire) /\ replies' = replies + 1
  /\ LET command == Head(wire)
     IN  chip' = IF command[1] = "connect" THEN chip
                 ELSE [chip EXCEPT !.has = [@ EXCEPT ![command[1]] = command[2]]]
  /\ UNCHANGED <<param, radio, orders, place, turns, alone>>

TrxNext ==
  \/ \E t \in Setters : NewOrder(t) \/ Order(t)
  \/ \E t \in DOMAIN place : ReadReply(t)
  \/ PowerUp \/ Handshake \/ Initialize \/ Ready \/ PowerDown \/ Booted \/ Obey

----------------------------------------------------------------------------
(***************************************************************************)
(* Frequencies and squelch are set in whatever phase of powering up and    *)
(* down, and by whom: a transceiver that is ready and has been told all    *)
(* works with the parameters in EEPROM (sr_frs.c:127-133, 359); and who    *)
(* waits for a reply has one to come, so that the radio gets ready - as    *)
(* long as nobody gives it a command while another is under way or while   *)
(* it boots, nor turns it off meanwhile: nothing in the code sees to that. *)
(***************************************************************************)
TrxExact ==
  alone =>
    /\ radio.rdy /\ wire = << >> =>
         chip.has.group = <<param.txfreq, param.rxfreq, param.squelch, radio.flags>>
    /\ Cardinality({t \in DOMAIN place : place[t] \in Waiting}) = Len(wire) + replies

(***************************************************************************)
(* Volume and microphone level are parameters as well (config.h:62-63):    *)
(* the transceiver works with them.                                        *)
(***************************************************************************)
LevelsExact ==
  alone /\ radio.rdy /\ wire = << >> =>
    chip.has.volume = param.volume /\ chip.has.miclevel = param.miclevel

(***************************************************************************)
(* "If on=true, TX power is set to 0.5W. else it is set to 1W"             *)
(* (sr_frs.c:303-304): afterwards radio_isLowTxPower tells which it was.   *)
(***************************************************************************)
LowTxPowerExact ==
  [][\A t \in Setters : Order(t) /\ Head(orders[t])[1] = "lowpower" =>
                          isLowTxPower' = Head(orders[t])[2]]_trx

=============================================================================
