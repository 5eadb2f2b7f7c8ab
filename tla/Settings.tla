------------------------------ MODULE Settings ------------------------------
(***************************************************************************)
(* The parameters of config.h in EEPROM: their layout, how eeprom.c writes *)
(* them in aligned units, the checksum of config.c, and what the commands  *)
(* of the shell (commands.c), of the web interface (wifi.c) and their      *)
(* parsers (text.c) write.                                                 *)
(*                                                                         *)
(* A byte is the set of its bits that are one, so that exclusive or is the *)
(* symmetric difference.  A string is its characters followed by zeros.    *)
(* To write is to take a sequence of steps, one unit each: Module Panel    *)
(* has the threads that take them.                                         *)
(***************************************************************************)
EXTENDS Integers, Sequences, FiniteSets, SequencesExt

CONSTANTS
  Used,      \* the parameters that are written and read here
  Numbers,   \* numbers that are typed
  Texts,     \* names, passwords, addresses that are typed: sequences of bytes
  Routes     \* digipeater paths that are typed: sequences of callsigns, a byte each

VARIABLES
  eeprom,    \* address -> byte
  last,      \* history: parameter -> the value that was set last
  torn,      \* history: parameters whose last write was cut off, or mixed with another
  clash,     \* history: parameters being written by two at once
  tried      \* history: parameter -> values it may have had

store == <<eeprom, last, torn, clash, tried>>

----------------------------------------------------------------------------
(* Layout: address and size; the byte after a parameter is its checksum.   *)
ADDR == 9      \* sizeof(addr_t)
CRED_LENGTH == 32
INET_NAME_LENGTH == 40

Layout ==
  [VERSION_KEY |-> <<0, 2>>, TRX_TX_FREQ |-> <<3, 4>>, TRX_RX_FREQ |-> <<8, 4>>,
   TRX_SQUELCH |-> <<13, 1>>, TRX_VOLUME |-> <<15, 1>>, TRX_MICLEVEL |-> <<17, 1>>,
   TXDELAY |-> <<19, 1>>, TXTAIL |-> <<21, 1>>, MAXFRAME |-> <<23, 1>>,
   MYCALL |-> <<25, ADDR>>, DEST |-> <<35, ADDR>>, NDIGIS |-> <<45, 1>>, DIGIS |-> <<47, 7 * ADDR>>,
   SYMBOL |-> <<112, 1>>, SYMBOL_TAB |-> <<114, 1>>, TRACKER_ON |-> <<116, 1>>,
   TRACKER_TURN_LIMIT |-> <<118, 2>>, TRACKER_MAXPAUSE |-> <<121, 1>>,
   TRACKER_MINDIST |-> <<123, 1>>, TRACKER_MINPAUSE |-> <<125, 1>>, STATUS_TIME |-> <<127, 1>>,
   TIMESTAMP_ON |-> <<129, 1>>, COMPRESS_ON |-> <<131, 1>>, ALTITUDE_ON |-> <<133, 1>>,
   OBJ_SYMBOL |-> <<135, 1>>, OBJ_SYMBOL_TABLE |-> <<137, 1>>, OBJ_ID |-> <<139, 10>>,
   REPORT_COMMENT |-> <<150, 40>>, REPORT_BEEP_ON |-> <<191, 1>>, REPEAT_ON |-> <<193, 1>>,
   EXTRATURN_ON |-> <<195, 1>>, GPS_POWERSAVE_ON |-> <<197, 1>>, TXMON_ON |-> <<199, 1>>,
   DIGIP_WIDE1_ON |-> <<201, 1>>, DIGIP_SAR_ON |-> <<203, 1>>, DIGIPEATER_ON |-> <<205, 1>>,
   IGATE_ON |-> <<207, 1>>, IGATE_HOST |-> <<209, INET_NAME_LENGTH>>, IGATE_PORT |-> <<250, 2>>,
   IGATE_USERNAME |-> <<253, CRED_LENGTH>>, IGATE_PASSCODE |-> <<286, 2>>,
   IGATE_FILTER |-> <<289, CRED_LENGTH>>, IGATE_TRACK_ON |-> <<322, 1>>, WIFI_ON |-> <<324, 1>>,
   HTTP_ON |-> <<326, 1>>, HTTP_USER |-> <<328, CRED_LENGTH>>, HTTP_PASSWD |-> <<361, CRED_LENGTH>>,
   SOFTAP_PASSWD |-> <<394, CRED_LENGTH>>,
   \* GET_PARAM_I and SET_PARAM_I: instance i of WIFIAP
   WIFIAP0 |-> <<427, 64>>, WIFIAP1 |-> <<492, 64>>, WIFIAP2 |-> <<557, 64>>,
   WIFIAP3 |-> <<622, 64>>, WIFIAP4 |-> <<687, 64>>, WIFIAP5 |-> <<752, 64>>]

Params == DOMAIN Layout
Offset(p) == Layout[p][1]
Size(p) == Layout[p][2]
Places(p) == Offset(p) .. Offset(p) + Size(p)

\* "We need to calculate offsets manually" (config.h:23): no two overlap.
ASSUME SettingsAssumption ==
  /\ \A p \in Params : Places(p) \subseteq 0..1023
  /\ \A p, q \in Params : p # q => Places(p) \cap Places(q) = {}
  /\ Used \subseteq Params /\ Numbers \subseteq Nat

----------------------------------------------------------------------------
(* Values. *)
Bits(n) == {k \in 0..7 : (n \div 2^k) % 2 = 1}
Xor(a, b) == (a \ b) \cup (b \ a)

ByteValue(n) == <<Bits(n)>>
WordValue(n) == <<Bits(n % 256), Bits(n \div 256)>>
DwordValue(n) == [k \in 1..4 |-> Bits((n \div 256^(k - 1)) % 256)]
Padded(text, size) == [k \in 1..size |-> IF k <= Len(text) THEN Bits(text[k]) ELSE {}]

Default(p) ==
  CASE p \in {"TRX_TX_FREQ", "TRX_RX_FREQ"} -> DwordValue(1448000)
    [] p \in {"TRX_SQUELCH", "TRX_VOLUME"} -> ByteValue(4)
    [] p = "TRX_MICLEVEL" -> ByteValue(8)
    [] p = "TXDELAY" -> ByteValue(20)
    [] p = "TXTAIL" -> ByteValue(10)
    [] p \in {"MAXFRAME", "NDIGIS"} -> ByteValue(2)
    [] p = "TRACKER_MAXPAUSE" -> ByteValue(18)
    [] p = "TRACKER_MINDIST" -> ByteValue(100)
    [] p = "TRACKER_MINPAUSE" -> ByteValue(3)
    [] p = "STATUS_TIME" -> ByteValue(30)
    [] p = "TRACKER_TURN_LIMIT" -> WordValue(35)
    [] p = "IGATE_PORT" -> WordValue(14582)
    [] p \in {"TIMESTAMP_ON", "WIFI_ON", "HTTP_ON"} -> ByteValue(1)
    [] OTHER -> Padded(<< >>, Size(p))   \* zero, or a text that is not told apart from it

\* The exclusive or of 0x0f and all bytes.
ChecksumOf(bytes) ==
  LET upTo[k \in 0..Len(bytes)] == IF k = 0 THEN 0..3 ELSE Xor(upTo[k - 1], bytes[k])
  IN  upTo[Len(bytes)]

\* Mutant: the first bytes of a block are not in the checksum.
StoredChecksumLast(bytes) == Xor(0..3, bytes[Len(bytes)])

\* What set_param and set_byte_param store after the value.
StoredChecksum(bytes) == ChecksumOf(bytes)

\* get_param, get_byte_param
Get(p) ==
  LET bytes == [k \in 1..Size(p) |-> eeprom[Offset(p) + k - 1]]
  IN  IF eeprom[Offset(p) + Size(p)] = ChecksumOf(bytes) THEN bytes ELSE Default(p)

----------------------------------------------------------------------------
(* Writing. *)

\* eeprom_write_block: 4 bytes, 2 or 1 at a time, by the alignment.
UnitSize(at, len) ==
  IF at % 4 = 0 /\ len >= 4 THEN 4 ELSE IF at % 2 = 0 /\ len >= 2 THEN 2 ELSE 1

Units(at, bytes) ==
  LET units[k \in 1..(Len(bytes) + 4)] ==
        IF k > Len(bytes) THEN << >>
        ELSE LET n == UnitSize(at + k - 1, Len(bytes) - k + 1)
             IN  << <<at + k - 1, SubSeq(bytes, k, k + n - 1)>> >> \o units[k + n]
  IN  units[1]

\* Mutant: the checksum is a byte too far, where the next parameter may be.
SetSumAfter(p, value) ==
  LET units == Append(Units(Offset(p), value),
                      <<Offset(p) + Len(value) + 1, <<StoredChecksum(value)>>>>)
  IN  [k \in DOMAIN units |->
         [op |-> "write", param |-> p, at |-> units[k][1], bytes |-> units[k][2],
          first |-> k = 1, done |-> k = Len(units),
          value |-> value \o [j \in 1..(Size(p) - Len(value)) |-> {}]]]

\* The steps of set_param and set_byte_param: the value, then the checksum.
\* The value of a string may be shorter than the parameter.
Set(p, value) ==
  LET units == Append(Units(Offset(p), value),
                      <<Offset(p) + Len(value), <<StoredChecksum(value)>>>>)
  IN  [k \in DOMAIN units |->
         [op |-> "write", param |-> p, at |-> units[k][1], bytes |-> units[k][2],
          first |-> k = 1, done |-> k = Len(units),
          value |-> value \o [j \in 1..(Size(p) - Len(value)) |-> {}]]]

SetByte(p, n) == Set(p, ByteValue(n))
SetText(p, text) == Set(p, Padded(text, Size(p)))

\* A unit is in the memory; another is in the middle of this parameter if meddled.
WriteUnit(step, meddled) ==
  LET p == step.param
      mixed == meddled \/ (~step.first /\ p \in clash)
  IN  /\ eeprom' = [a \in DOMAIN eeprom |->
                      IF a \in step.at .. step.at + Len(step.bytes) - 1
                      THEN step.bytes[a - step.at + 1] ELSE eeprom[a]]
      /\ clash' = IF mixed THEN clash \cup {p} ELSE clash \ {p}
      /\ tried' = [tried EXCEPT ![p] = @ \cup {step.value}]
      /\ last' = IF step.done THEN [last EXCEPT ![p] = step.value] ELSE last
      /\ torn' = IF ~step.done THEN torn ELSE IF mixed THEN torn \cup {p} ELSE torn \ {p}

\* An erased memory, or one that was written by an older version.
SettingsInit ==
  /\ eeprom = [a \in UNION {Places(p) : p \in Used} |-> Bits(255)]
  /\ last = [p \in Used |-> Default(p)] /\ torn = {} /\ clash = {}
  /\ tried = [p \in Used |-> {Default(p)}]

----------------------------------------------------------------------------
(* Parsers: the steps of what is written, none if the input is refused.    *)
Bools == {"on", "off", "maybe"}

parseBool(p, val) ==
  IF val = "on" THEN SetByte(p, 1) ELSE IF val = "off" THEN SetByte(p, 0) ELSE << >>

\* sscanf with %hhu and %hu keeps the low bits.
parseByte(p, n, llimit, ulimit) ==
  IF n % 256 \in llimit..ulimit THEN SetByte(p, n % 256) ELSE << >>

parseWord(p, n, llimit, ulimit) ==
  IF n % 65536 \in llimit..ulimit THEN Set(p, WordValue(n % 65536)) ELSE << >>

parseFreq(p, n) == IF n \in 1440000..1460000 THEN Set(p, DwordValue(n)) ELSE << >>

parseSymbol(text) ==
  IF Len(text) # 2 THEN << >> ELSE SetByte("SYMBOL_TAB", text[1]) \o SetByte("SYMBOL", text[2])

\* parseDigipath: "off" is the empty path here.
parseDigipath(route) ==
  IF route = << >> THEN SetByte("NDIGIS", 0)
  ELSE LET digis == SubSeq(route, 1, IF Len(route) > 7 THEN 7 ELSE Len(route))
       IN  SetText("DIGIS", [k \in 1..(ADDR * Len(digis)) |->
                               IF k % ADDR = 1 THEN digis[(k \div ADDR) + 1] ELSE 0])
           \o SetByte("NDIGIS", Len(digis))

Level(p, n) == SetByte(p, IF n % 256 > 8 THEN 8 ELSE n % 256)

----------------------------------------------------------------------------
(* The commands of the shell that write parameters. *)
ShellBools ==
  {"TIMESTAMP_ON", "COMPRESS_ON", "ALTITUDE_ON", "REPORT_BEEP_ON", "TXMON_ON", "REPEAT_ON",
   "EXTRATURN_ON", "IGATE_TRACK_ON"}

ShellBytes ==
  [TXDELAY |-> <<0, 100>>, TXTAIL |-> <<0, 100>>, MAXFRAME |-> <<1, 7>>,
   TRACKER_MAXPAUSE |-> <<0, 100>>, TRACKER_MINPAUSE |-> <<0, 100>>,
   TRACKER_MINDIST |-> <<0, 250>>, STATUS_TIME |-> <<0, 250>>]

\* cmd_setsquelch, cmd_setmiclevel, cmd_setvolume
ShellLevels == {"TRX_SQUELCH", "TRX_MICLEVEL", "TRX_VOLUME"}

cmd_digipeater ==
  {parseBool(p, v) : p \in {"DIGIP_WIDE1_ON", "DIGIP_SAR_ON"} \cap Used, v \in Bools}

\* cmd_igate writes CRED_LENGTH bytes of each text, also of the host.
cmd_igate ==
  {Set(p, Padded(t, CRED_LENGTH)) : p \in {"IGATE_HOST", "IGATE_USERNAME", "IGATE_FILTER"} \cap Used,
                                    t \in Texts}
  \cup {parseWord("IGATE_PORT", n, 1024, 65000) : n \in IF "IGATE_PORT" \in Used THEN Numbers ELSE {}}
  \cup {parseWord("IGATE_PASSCODE", n, 0, 65000) : n \in IF "IGATE_PASSCODE" \in Used THEN Numbers ELSE {}}

\* cmd_mycall, cmd_dest: whatever is typed becomes an address.
cmd_address == {SetText(p, t) : p \in {"MYCALL", "DEST"} \cap Used, t \in Texts}

\* cmd_webserver, cmd_softap: user, then password.
cmd_webserver ==
  (IF "HTTP_ON" \in Used THEN {SetByte("HTTP_ON", 1), SetByte("HTTP_ON", 0)} ELSE {})
  \cup IF {"HTTP_USER", "HTTP_PASSWD"} \subseteq Used
       THEN {SetText("HTTP_USER", t) \o SetText("HTTP_PASSWD", u) : t \in Texts \ {<< >>}, u \in Texts}
       ELSE {}

cmd_softap ==
  {SetText(p, t) : p \in {"SOFTAP_PASSWD"} \cap Used, t \in {u \in Texts : Len(u) > 8}}

\* cmd_wifi ap: access points 1 to 4; one without password is open.
OPEN == <<95, 79>>
cmd_wifi_ap ==
  {SetText(p, [k \in 1..64 |-> IF k <= Len(t) THEN t[k]
                               ELSE IF k \in 33..(32 + Len(u)) THEN u[k - 32] ELSE 0]) :
     p \in {"WIFIAP0", "WIFIAP1", "WIFIAP2", "WIFIAP3"} \cap Used,
     t \in Texts, u \in (Texts \ {<< >>}) \cup {OPEN}}

\* cmd_setfreq sets the frequency of the transmitter only.
ShellSets ==
  {parseBool(p, v) : p \in ShellBools \cap Used, v \in Bools}
  \cup {parseByte(p, n, ShellBytes[p][1], ShellBytes[p][2]) :
           p \in DOMAIN ShellBytes \cap Used, n \in Numbers}
  \cup {Level(p, n) : p \in ShellLevels \cap Used, n \in Numbers}
  \cup {parseFreq(p, n) : p \in {"TRX_TX_FREQ"} \cap Used, n \in Numbers}
  \cup {parseWord(p, n, 0, 360) : p \in {"TRACKER_TURN_LIMIT"} \cap Used, n \in Numbers}
  \cup (IF {"SYMBOL", "SYMBOL_TAB"} \subseteq Used THEN {parseSymbol(t) : t \in Texts} ELSE {})
  \cup (IF {"DIGIS", "NDIGIS"} \subseteq Used THEN {parseDigipath(r) : r \in Routes} ELSE {})
  \cup cmd_digipeater \cup cmd_igate \cup cmd_address \cup cmd_webserver \cup cmd_softap \cup cmd_wifi_ap

----------------------------------------------------------------------------
(* What the web interface writes (cmd_setParm) and reads (cmd_getParm). *)
WebBools ==
  {"TIMESTAMP_ON", "COMPRESS_ON", "ALTITUDE_ON", "IGATE_ON", "DIGIPEATER_ON", "DIGIP_WIDE1_ON",
   "DIGIP_SAR_ON"}

WebBytes ==
  [TRACKER_MAXPAUSE |-> <<0, 100>>, TRACKER_MINPAUSE |-> <<0, 100>>, TRACKER_MINDIST |-> <<0, 250>>]

AccessPoints == {"WIFIAP0", "WIFIAP1", "WIFIAP2", "WIFIAP3", "WIFIAP4", "WIFIAP5"}

WebTexts ==
  {"MYCALL", "DEST", "REPORT_COMMENT", "SOFTAP_PASSWD", "HTTP_USER", "HTTP_PASSWD", "IGATE_HOST",
   "IGATE_USERNAME", "IGATE_FILTER"} \cup AccessPoints

\* The last alternative is WIFIAP_RESET.
cmd_setParm ==
  {parseBool(p, v) : p \in WebBools \cap Used, v \in Bools}
  \cup {parseByte(p, n, WebBytes[p][1], WebBytes[p][2]) :
           p \in DOMAIN WebBytes \cap Used, n \in Numbers}
  \cup {parseWord(p, n, 0, 65535) : p \in {"IGATE_PORT", "IGATE_PASSCODE"} \cap Used, n \in Numbers}
  \cup {parseWord(p, n, 0, 360) : p \in {"TRACKER_TURN_LIMIT"} \cap Used, n \in Numbers}
  \cup {parseFreq(p, n) : p \in {"TRX_TX_FREQ", "TRX_RX_FREQ"} \cap Used, n \in Numbers}
  \cup {SetText(p, t) : p \in WebTexts \cap Used, t \in Texts}
  \cup (IF {"SYMBOL", "SYMBOL_TAB"} \subseteq Used THEN {parseSymbol(t) : t \in Texts} ELSE {})
  \cup (IF {"DIGIS", "NDIGIS"} \subseteq Used THEN {parseDigipath(r) : r \in Routes} ELSE {})
  \cup (IF AccessPoints \subseteq Used
        THEN {SetText("WIFIAP0", << >>) \o SetText("WIFIAP1", << >>) \o SetText("WIFIAP2", << >>)
              \o SetText("WIFIAP3", << >>) \o SetText("WIFIAP4", << >>) \o SetText("WIFIAP5", << >>)}
        ELSE {})

WebReads ==
  {"MYCALL", "DEST", "DIGIS", "NDIGIS", "REPORT_COMMENT", "SYMBOL_TAB", "SYMBOL", "TRX_TX_FREQ",
   "TRX_RX_FREQ", "TRACKER_TURN_LIMIT", "TRACKER_MAXPAUSE", "TRACKER_MINPAUSE", "TRACKER_MINDIST",
   "HTTP_ON", "HTTP_USER", "HTTP_PASSWD", "IGATE_HOST", "IGATE_PORT", "IGATE_PASSCODE",
   "IGATE_USERNAME"} \cup AccessPoints \cup WebBools

cmd_getParm(p) == IF p \in WebReads THEN Get(p) ELSE << >>

=============================================================================
