------------------------------ MODULE MCParts ------------------------------
(* Six parts that do not depend on each other, for TLC, each in behaviours *)
(* of its own: the others stay as they are at the start.                    *)
EXTENDS Digipeater, Modem, Panel, Ui, Led, Trx

VARIABLE part

parts == <<vars, digi, modem, store, switches, ui, led, trx, part>>

----------------------------------------------------------------------------
(* Paths of digipeaters. *)
Repeater(call) == addr(call, 0, TRUE)

MCPaths ==
  {<< >>,
   <<addr("WIDE1", 1, FALSE), addr("WIDE2", 2, FALSE)>>,
   <<Repeater("LD9"), addr("WIDE1", 1, FALSE), addr("SAR", 0, FALSE)>>,
   <<addr("LD9", 0, FALSE), addr("SAR", 1, FALSE), addr("NOGATE", 0, FALSE)>>,
   [k \in 1..6 |-> IF k = 1 THEN addr("WIDE1", 1, FALSE) ELSE addr("WIDE2", k, FALSE)],
   <<Repeater("LD9"), Repeater("LD8")>>,
   <<addr("SAR", 0, FALSE), Repeater("LD9")>>}

(* A path that is full. *)
MCSeven == {[k \in 1..7 |-> IF k = 1 THEN addr("WIDE1", 1, FALSE) ELSE addr("WIDE2", k, FALSE)]}

MCBeyond == addr("ME", 0, FALSE)

MCCallsigns == {"ME", "LA1B", "APAT01", "WIDE1", "WIDE2", "SAR", "LD8", "LD9", "NOGATE"}

(* Octets: with ones at the end, at the start, at both, and one of ones. *)
A == <<1, 0, 1, 1, 0, 1, 0, 0>>
B == <<1, 1, 1, 1, 1, 1, 1, 0>>
C == <<0, 0, 0, 0, 1, 1, 1, 1>>
D == <<0, 1, 0, 1, 1, 1, 1, 1>>

MCFirst == << <<A, B>>, <<C, B, A>> >>
MCTransmissions == {MCFirst, << <<A, C, D, C>>, <<D, D, A>> >>}
MCEndInOnes == {MCFirst, << <<A, D>> >>}
MCBoundary == {MCFirst, << <<A, B, C, A>> >>}

(* Parameters of one, two and four bytes, at places aligned and not. *)
MCUsed == {"IGATE_ON", "DIGIPEATER_ON", "TRX_TX_FREQ", "SYMBOL", "SYMBOL_TAB"}
MCNumbers == {1450000, 1442049, 7}
MCTexts == {<<65, 66>>, <<67>>}

(* Two callsigns, of which the first three characters have the same sum. *)
MCCalls == {<<65, 66, 67, 68>>, <<67, 65, 66, 69>>}
MCUsedCall == {"IGATE_ON", "DIGIPEATER_ON", "MYCALL"}
MCRoutes == {<< >>}

(* Colours that encoder and igate ask for, and a mix of one phase. *)
MCColours == {{"blue"}}
MCMixes == {{1, 3, 0}, {2}}

----------------------------------------------------------------------------
PartsInit ==
  /\ part \in {"digipeater", "modem", "panel", "ui", "led", "trx"}
  /\ DigipeaterInit /\ PanelInit /\ UiInit /\ LedInit
  /\ IF part = "modem" THEN ModemInit
     ELSE ModemStart(MCFirst, 0, 0)
  /\ IF part = "trx" THEN TrxInit ELSE TrxStart(1, 4)

PartsNext ==
  /\ UNCHANGED part
  /\ \/ part = "digipeater" /\ DigipeaterNext /\ UNCHANGED <<modem, store, switches, ui, led, trx>>
     \/ part = "modem" /\ ModemNext /\ UNCHANGED <<vars, digi, store, switches, ui, led, trx>>
     \/ part = "panel" /\ PanelNext /\ UNCHANGED <<vars, digi, modem, ui, led, trx>>
     \/ part = "ui" /\ UiNext /\ UNCHANGED <<vars, digi, modem, store, switches, led, trx>>
     \/ part = "led" /\ LedNext /\ UNCHANGED <<vars, digi, modem, store, switches, ui, trx>>
     \/ part = "trx" /\ TrxNext /\ UNCHANGED <<vars, digi, modem, store, switches, ui, led>>

PartsSpec == PartsInit /\ [][PartsNext]_parts

=============================================================================
