----------------------------- MODULE Digipeater -----------------------------
(***************************************************************************)
(* What digipeater (digipeater.c) and igate (igate.c) do with a received   *)
(* frame: ask the heard list, decode its header (ax25.c), and send it on   *)
(* with a new one, to the radio or to the internet.                        *)
(*                                                                         *)
(* A frame is its address fields, the control field and what comes after.  *)
(* An address is a name without SSID, an SSID and two flags: used (bit 7,  *)
(* it has been repeated by this station) and last.  Of the rest the first  *)
(* byte is the protocol, and one value stands for the text.                *)
(***************************************************************************)
EXTENDS Heardlist

CONSTANTS
  Callsigns,  \* names of stations and aliases
  Paths,      \* paths of frames on the air: sequences of digis
  Beyond,     \* what is in the memory after an array of digis, as an address
  MaxHeard    \* bound: frames received

VARIABLES
  digiQueue, igateQueue,           \* frames received: at most one each
  repeated,   \* history: the last frame that was repeated, and what became of it
  gated,      \* history: texts sent to the internet
  frames      \* frames received

\* An address: the SSID has four bits (ax25.c:45, 195).
Address == [call : Callsigns, ssid : 0..15, used : BOOLEAN]

ASSUME DigipeaterAssumption ==
  /\ {"ME", "SAR", "WIDE1"} \subseteq Callsigns
  /\ Paths \subseteq Seq(Address) /\ Beyond \in Address /\ MaxHeard \in Nat

digi == <<digiQueue, igateQueue, repeated, gated, frames>>

Nothing == << >>
MAX_DIGIS == 7
addr(call, ssid, used) == [call |-> call, ssid |-> ssid, used |-> used]

MYCALL == addr("ME", 0, FALSE)
Sender == addr("LA1B", 0, FALSE)
DEST == addr("APAT01", 0, FALSE)

DigipeaterInit ==
  /\ Init
  /\ digiQueue = Nothing /\ igateQueue = Nothing
  /\ repeated = Nothing /\ gated = Nothing /\ frames = 0

----------------------------------------------------------------------------
(* Headers. *)

Field(a, isLast) == [call |-> a.call, ssid |-> a.ssid, used |-> a.used, last |-> isLast]

\* ax25_encode_header: more than seven digis are none.
EncodeHeader(from, to, digis, ctrl, pid) ==
  LET path == IF Len(digis) > MAX_DIGIS THEN << >> ELSE digis
  IN  [fields |-> <<Field(to, FALSE), Field(from, path = << >>)>>
                  \o [k \in DOMAIN path |-> Field(path[k], k = Len(path))],
       ctrl |-> ctrl, rest |-> IF ctrl = "UI" THEN <<pid>> ELSE << >>]

\* ax25_decode_header: the digis are the fields up to the first that is last;
\* if none of seven is, there are eight, of which the last is not in the array.
DecodedPath(frame) ==
  LET n == SelectInSeq(frame.fields, LAMBDA a : a.last)
      ndigis == IF n \in 2..(MAX_DIGIS + 2) THEN n - 2 ELSE MAX_DIGIS + 1
  IN  [k \in 1..ndigis |->
         IF k > MAX_DIGIS THEN Beyond
         ELSE addr(frame.fields[k + 2].call, frame.fields[k + 2].ssid, frame.fields[k + 2].used)]

\* What is left after AX25_HDR_LEN(ndigis) bytes.
Text(frame) == IF Len(frame.rest) > 1 THEN Tail(frame.rest) ELSE << >>

\* From and to are the same in all frames here.
Checksum(frame) == IF Text(frame) = << >> THEN 0 ELSE Text(frame)[1]

----------------------------------------------------------------------------
(* Digipeater. *)

\* Those that have repeated the frame come first.
UsedDigis(path) ==
  LET next == SelectInSeq(path, LAMBDA a : ~a.used)
  IN  IF next = 0 THEN Len(path) ELSE next - 1

IsWide1(a) == a.call = "WIDE1" /\ a.ssid = 1
IsSar(a) == a.call = "SAR"

\* Mutant: the alias that is used stays in the rest of the path.
NewPathKeeps(path, sar) ==
  LET n == UsedDigis(path)
  IN  SubSeq(path, 1, n)
      \o <<[MYCALL EXCEPT !.used = TRUE], addr(IF sar > 0 THEN "SAR" ELSE "WIDE1", 0, TRUE)>>
      \o SubSeq(path, n + 1, Len(path))

\* My call and the alias are put after those used, both marked as used; the
\* alias is taken out of the rest.
NewPath(path, sar) ==
  LET n == UsedDigis(path)
      rest == SubSeq(path, n + 1, Len(path))
  IN  SubSeq(path, 1, n)
      \o <<[MYCALL EXCEPT !.used = TRUE], addr(IF sar > 0 THEN "SAR" ELSE "WIDE1", 0, TRUE)>>
      \o IF sar > 0 THEN RemoveAt(rest, sar - n) ELSE Tail(rest)

\* check_frame.  wide1 and preempt are the parameters DIGIP_WIDE1_ON and DIGIP_SAR_ON.
CheckFrame ==
  /\ digiQueue # Nothing /\ digiQueue' = Nothing
  /\ \E heardBefore, wide1, preempt \in BOOLEAN :
       LET frame == digiQueue[1]
           path == DecodedPath(frame)
           n == UsedDigis(path)
           sar == IF preempt /\ n = 0 THEN SelectInSeq(path, IsSar) ELSE 0
           wide == wide1 /\ n < Len(path) /\ IsWide1(path[n + 1])
           header == EncodeHeader(Sender, DEST, NewPath(path, sar), frame.ctrl, frame.rest[1])
       IN  /\ hlist_duplicate(Checksum(frame), heardBefore)
           /\ repeated' = IF heardBefore \/ n = Len(path) \/ (sar = 0 /\ ~wide) THEN repeated
                          ELSE <<frame, [header EXCEPT !.rest = @ \o Text(frame)]>>
  /\ UNCHANGED <<igateQueue, gated, frames>>

----------------------------------------------------------------------------
(* Igate. *)

\* ax25_search_digis for those that ask not to be gated.
NoGate(path) == \E k \in DOMAIN path : path[k].call \in {"TCPIP", "NOGATE", "RFONLY"}

\* rf2inet of what others sent.  The text 1 is a query.
Rf2inet ==
  /\ igateQueue # Nothing /\ igateQueue' = Nothing
  /\ \E heardBefore \in BOOLEAN :
       LET frame == igateQueue[1]
       IN  /\ hlist_duplicate(Checksum(frame), heardBefore)
           /\ gated' = IF heardBefore \/ Text(frame) = <<1>> \/ NoGate(DecodedPath(frame)) THEN gated
                       ELSE Text(frame)
  /\ UNCHANGED <<digiQueue, repeated, frames>>

\* A frame is received and put into the queues of both, or one, that is on.
Hear(x) ==
  /\ frames < MaxHeard /\ frames' = frames + 1
  /\ digiQueue = Nothing /\ igateQueue = Nothing
  /\ \E path \in Paths, ctrl \in {"UI", "SABM"} :
       LET header == EncodeHeader(Sender, DEST, path, ctrl, "pid")
           frame == [header EXCEPT !.rest = @ \o <<x>>]
       IN  digiQueue' \in {Nothing, <<frame>>} /\ igateQueue' \in {Nothing, <<frame>>}
  /\ repeated' = Nothing /\ gated' = Nothing
  /\ UNCHANGED vars

DigipeaterNext ==
  \/ CheckFrame \/ Rf2inet
  \/ Tick /\ UNCHANGED digi
  \/ \E x \in Values \ {0} : Hear(x)

DigipeaterSpec == DigipeaterInit /\ [][DigipeaterNext]_<<vars, digi>>

----------------------------------------------------------------------------
(***************************************************************************)
(* "Copy items in digi-path that has digipeated flag turned on", "Mark as  *)
(* digipeated through mycall", "Copy rest of the path, except the SAR      *)
(* alias" (digipeater.c:155-205), seen by the next station, which decodes  *)
(* the new header: it finds every digi of the old path but the alias, in   *)
(* the same order and with the same flags, and this station and the alias, *)
(* both used, after those that repeated the frame before; and the text.    *)
(* If no other digi was marked, it finds no other to be used.  It holds    *)
(* for UI frames with at most six digis: with seven there is no room.      *)
(***************************************************************************)
PathKept ==
  repeated # Nothing =>
    LET old == DecodedPath(repeated[1])
        new == DecodedPath(repeated[2])
        n == UsedDigis(old)
    IN  Len(old) < MAX_DIGIS /\ repeated[1].ctrl = "UI" =>
          /\ Text(repeated[2]) = Text(repeated[1])
          /\ Len(new) = Len(old) + 1
          /\ (\A k \in (n + 1)..Len(old) : ~old[k].used) => UsedDigis(new) = n + 2
          /\ SubSeq(new, 1, n) = SubSeq(old, 1, n)
          /\ new[n + 1] = [MYCALL EXCEPT !.used = TRUE] /\ new[n + 2].used
          /\ \E k \in (n + 1)..Len(old) :
               /\ IsWide1(old[k]) \/ IsSar(old[k])
               /\ SubSeq(new, n + 3, Len(new)) = SubSeq(RemoveAt(old, k), n + 1, Len(old) - 1)

(***************************************************************************)
(* "Copy rest of the path, exept the SAR alias (if used)"                  *)
(* (digipeater.c:196): the next station finds the digis, however many      *)
(* there were.                                                             *)
(***************************************************************************)
RestCopied ==
  repeated # Nothing =>
    Len(DecodedPath(repeated[2])) = Len(DecodedPath(repeated[1])) + 1

(***************************************************************************)
(* "Gate frame to internet" (igate.c:249): the first frame of all, which   *)
(* nobody can have heard before, is gated if it asks for nothing else,     *)
(* whether or not the digipeater gets it as well.                          *)
(***************************************************************************)
FirstGated ==
  [][frames = 1 /\ igateQueue # Nothing /\ igateQueue' = Nothing =>
       LET frame == igateQueue[1]
       IN  Text(frame) = <<1>> \/ NoGate(DecodedPath(frame)) \/ gated' = Text(frame)]_<<vars, digi>>

=============================================================================
