---------------------------- MODULE TxPathProofs ----------------------------
(***************************************************************************)
(* The way of a packet to the air is safe for every number of threads and  *)
(* packets, every length of the two queues and every MAXFRAME.             *)
(*                                                                         *)
(* TypeInv, then what relates threads, radio_mutex and power (PowerInv),   *)
(* then encoder and bit clock (KeyInv), then what is on the air: what may  *)
(* follow what (AirInv) and in which order packets come (OrderInv).  Each  *)
(* is inductive with the ones before it.                                   *)
(***************************************************************************)
EXTENDS TxPath, FiniteSetTheorems, SequenceTheorems, TLAPS

----------------------------------------------------------------------------
(* The parts of the inductive invariant. *)

\* The places where the encoder has a packet that is not complete on the air.
HasPacket == {"enable", "enable_wait", "channel", "channel_block", "channel_wait",
              "preamble", "frame", "fcs"}

\* The types, by part of the system, with what they depend on: the encoder
\* has a packet where it uses one.
EncoderTypes ==
  /\ queue \in Seq(Packets) /\ Len(queue) <= QueueSize /\ buffer \in Packets \cup {None}
  /\ enc \in {"fetch", "between", "tail", "pause"} \cup HasPacket
  /\ frames \in 0..MaxFrame
  /\ hdlc_idle \in BOOLEAN /\ enc_idle \in BOOLEAN
  /\ enc \in HasPacket => buffer # None
  /\ enc = "between" => queue # << >>
  /\ enc \in {"preamble", "frame", "fcs", "between"} => frames < MaxFrame

ClockTypes ==
  /\ oq \in Seq(Symbols) /\ Len(oq) <= OqSize /\ bits \in Symbols \cup {None}
  /\ transmit \in BOOLEAN
  /\ transmit => bits \in Symbols

RadioTypes ==
  /\ on \in BOOLEAN /\ radio_rdy \in BOOLEAN /\ ptt \in BOOLEAN /\ tx_off \in BOOLEAN
  /\ channel_rdy \in BOOLEAN /\ count \in Nat /\ mutex \in Users \cup {None}
  /\ isr_waits \in BOOLEAN

UserTypes ==
  /\ user \in [Users -> {"out", "starting", "in", "sleep", "idle", "idle_wait", "tx_off",
                         "stopping"}]
  /\ own \in [Users -> SUBSET Packets]

AirTypes == order \in Seq(Packets) /\ air \in Seq(Symbols \cup {Keyed, Unkeyed})

TypeInv == EncoderTypes /\ ClockTypes /\ RadioTypes /\ UserTypes /\ AirTypes

Required == {u \in Users : user[u] \in {"starting", "in"}}
StopPlaces == {"sleep", "idle", "idle_wait", "tx_off", "stopping"}

\* radio_mutex is held by who turns the transceiver on or off; count is the
\* number of threads that have it; power follows from both.
PowerInv ==
  /\ \A u \in Users : mutex = u <=> user[u] \in StopPlaces \cup {"starting"}
  /\ count = Cardinality(Required)
  /\ \A u \in Users : user[u] = "starting" => count = 1
  /\ \A u \in Users : user[u] \in StopPlaces => count = 0
  /\ on <=> count > 0 \/ mutex # None
  /\ radio_rdy <=> on /\ \A u \in Users : user[u] # "starting"

\* From radio_wait_enabled to the end of the transmission.
Transmitting == {"channel", "channel_block", "channel_wait",
                 "preamble", "frame", "fcs", "between", "tail"}

\* While the encoder is in a transmission nobody passes hdlc_wait_idle; what
\* an encoder that is idle has left in the byte queue the bit clock is sending.
KeyInv ==
  /\ hdlc_idle <=> enc \notin Transmitting
  /\ enc \in Transmitting => radio_rdy /\ \A u \in Users : user[u] \notin {"tx_off", "stopping"}
  /\ ptt <=> transmit
  /\ transmit => on
  /\ tx_off <=> on /\ ~ptt /\ \A u \in Users : user[u] # "stopping"
  /\ \A u \in Users : user[u] = "stopping" => ~transmit
  /\ enc \notin {"frame", "fcs", "between", "tail"} /\ oq # << >> => transmit
  /\ ~isr_waits

\* The byte that is last on its way; what may follow it is what the encoder
\* puts next.
LastPut == IF oq # << >> THEN oq[Len(oq)] ELSE IF transmit THEN bits ELSE Unkeyed

Linked(s) == \A k \in 1..Len(s)-1 : Follows(s[k], s[k+1])

\* The places where the last byte that was put depends on the place.
InFrames == {"frame", "fcs", "between", "tail"}

\* air, bits and oq one behind the other are whole transmissions up to the
\* place where the encoder stands.
AirSide ==
  /\ Linked(air)
  /\ transmit => air # << >> /\ Follows(air[Len(air)], bits)
  /\ ~transmit => air = << >> \/ air[Len(air)] = Unkeyed

QueueSide ==
  /\ Linked(oq)
  /\ oq # << >> => IF transmit THEN Follows(bits, oq[1]) ELSE oq[1] = Flag

LastSide ==
  /\ enc \notin InFrames => LastPut \in {Flag, Unkeyed}
  /\ enc = "frame" => LastPut = Flag
  /\ enc = "fcs" => LastPut = Data(buffer)
  /\ enc \in {"between", "tail"} => LastPut = Flag \/ \E p \in Packets : LastPut = Fcs(p)

AirInv == AirSide /\ QueueSide /\ LastSide

\* The packets whose content is on its way, by how far it has come.
DataIn(s) == {p \in Packets : \E k \in 1..Len(s) : s[k] = Data(p)}
DataSent == {p \in Packets : transmit /\ bits = Data(p)}
OnTheWay == DataIn(air) \cup DataSent \cup DataIn(oq)

\* The places where the packet the encoder has is still to be put.
Unsent == HasPacket \ {"fcs"}

Range1(s) == {s[k] : k \in 1..Len(s)}
Before(S, T) == \A p \in S, q \in T : PutBefore(p, q)
Ascending(s) ==
  \A i, j \in 1..Len(s) : \A p, q \in Packets :
    i < j /\ s[i] = Data(p) /\ s[j] = Data(q) => PutBefore(p, q)

\* Whatever is further on its way was put earlier.
OnceInv == \A i, j \in 1..Len(order) : order[i] = order[j] => i = j

WayInv ==
  /\ Ascending(air) /\ Ascending(oq)
  /\ Before(DataIn(air), DataSent \cup DataIn(oq)) /\ Before(DataSent, DataIn(oq))

WaitingInv ==
  /\ Before(OnTheWay, Range1(queue))
  /\ enc \in Unsent => Before(OnTheWay, {buffer}) /\ Before({buffer}, Range1(queue))
  /\ \A k, l \in 1..Len(queue) : k < l => PutBefore(queue[k], queue[l])

KnownInv == OnTheWay \cup Range1(queue) \cup ({buffer} \cap Packets) \subseteq Range1(order)

OrderInv == OnceInv /\ WayInv /\ WaitingInv /\ KnownInv

----------------------------------------------------------------------------
(* Types. *)

LEMMA SymbolsFacts ==
  /\ Flag \in Symbols
  /\ \A p \in Packets : Data(p) \in Symbols /\ Fcs(p) \in Symbols
BY DEF Symbols

\* A byte put into the byte queue.
LEMMA OqPutType ==
  ASSUME ClockTypes, NEW b \in Symbols, OqPut(b)
  PROVE  oq' \in Seq(Symbols) /\ Len(oq') <= OqSize /\ oq' # << >>
BY TxAssumption DEF ClockTypes, OqPut

\* What is taken from the byte queue, and from the encoder's queue.
LEMMA OqTakeType ==
  ASSUME ClockTypes, oq # << >>
  PROVE  Head(oq) \in Symbols /\ Tail(oq) \in Seq(Symbols) /\ Len(Tail(oq)) <= OqSize
BY TxAssumption DEF ClockTypes

LEMMA QueueTakeType ==
  ASSUME EncoderTypes, queue # << >>
  PROVE  Head(queue) \in Packets /\ Tail(queue) \in Seq(Packets) /\ Len(Tail(queue)) <= QueueSize
BY TxAssumption DEF EncoderTypes

\* A part whose variables do not change keeps its types.
LEMMA TypesUnchanged ==
  /\ EncoderTypes /\ UNCHANGED encoderVars => EncoderTypes'
  /\ ClockTypes /\ UNCHANGED clockVars => ClockTypes'
  /\ RadioTypes /\ UNCHANGED radioVars => RadioTypes'
  /\ UserTypes /\ UNCHANGED <<user, own>> => UserTypes'
  /\ AirTypes /\ UNCHANGED <<order, air>> => AirTypes'
<1>1. EncoderTypes /\ UNCHANGED encoderVars => EncoderTypes'
  BY DEF EncoderTypes, encoderVars
<1>2. ClockTypes /\ UNCHANGED clockVars => ClockTypes'
  BY DEF ClockTypes, clockVars
<1>3. RadioTypes /\ UNCHANGED radioVars => RadioTypes'
  BY DEF RadioTypes, radioVars
<1>4. UserTypes /\ UNCHANGED <<user, own>> => UserTypes'
  BY DEF UserTypes
<1>5. AirTypes /\ UNCHANGED <<order, air>> => AirTypes'
  BY DEF AirTypes
<1> QED
  BY <1>1, <1>2, <1>3, <1>4, <1>5, Zenon

LEMMA TypeInit == Init => TypeInv
<1> SUFFICES ASSUME Init PROVE TypeInv
  OBVIOUS
<1> USE TxAssumption DEF Init
<1>1. EncoderTypes
  BY DEF EncoderTypes, HasPacket
<1>2. ClockTypes
  <2>1. oq \in Seq(Symbols) /\ Len(oq) <= OqSize
    OBVIOUS
  <2> QED
    BY <2>1 DEF ClockTypes
<1>3. RadioTypes
  BY DEF RadioTypes
<1>4. UserTypes
  BY DEF UserTypes
<1>5. AirTypes
  BY DEF AirTypes
<1> QED
  BY <1>1, <1>2, <1>3, <1>4, <1>5 DEF TypeInv

LEMMA EncoderType == TypeInv /\ Encoder => TypeInv'
<1> SUFFICES ASSUME TypeInv, Encoder PROVE TypeInv'
  OBVIOUS
<1> USE TxAssumption DEF HasPacket
<1>0. UNCHANGED radioVars /\ UNCHANGED <<user, own>> /\ UNCHANGED <<order, air>>
  BY DEF Encoder, Fetch, Enable, WaitEnabled, ChannelFree, ChannelBusy, ChannelBlock, Preamble,
         Frame, FrameCheck, Between, Postamble, Pause
<1>1. EncoderTypes'
  <2>1. CASE Fetch
    BY <2>1, QueueTakeType DEF Fetch, EncoderTypes, TypeInv
  <2>2. CASE Enable
    BY <2>2 DEF Enable, EncoderTypes, TypeInv
  <2>3. CASE WaitEnabled
    BY <2>3 DEF WaitEnabled, EncoderTypes, TypeInv
  <2>4. CASE ChannelFree
    BY <2>4 DEF ChannelFree, EncoderTypes, TypeInv
  <2>5. CASE ChannelBusy
    BY <2>5 DEF ChannelBusy, EncoderTypes, TypeInv
  <2>6. CASE ChannelBlock
    BY <2>6 DEF ChannelBlock, EncoderTypes, TypeInv
  <2>7. CASE Preamble
    BY <2>7 DEF Preamble, EncoderTypes, TypeInv
  <2>8. CASE Frame
    BY <2>8 DEF Frame, EncoderTypes, TypeInv
  <2>9. CASE FrameCheck
    BY <2>9 DEF FrameCheck, More, EncoderTypes, TypeInv
  <2>10. CASE Between
    BY <2>10, QueueTakeType DEF Between, EncoderTypes, TypeInv
  <2>11. CASE Postamble
    BY <2>11 DEF Postamble, EncoderTypes, TypeInv
  <2>12. CASE Pause
    BY <2>12 DEF Pause, EncoderTypes, TypeInv
  <2> QED
    BY <2>1, <2>2, <2>3, <2>4, <2>5, <2>6, <2>7, <2>8, <2>9, <2>10, <2>11, <2>12 DEF Encoder
<1>2. ClockTypes'
  <2>1. CASE \E b \in Symbols : OqPut(b) /\ UNCHANGED <<bits, transmit>>
    BY <2>1, OqPutType DEF ClockTypes, TypeInv
  <2>2. buffer \in Packets => Data(buffer) \in Symbols /\ Fcs(buffer) \in Symbols
    BY SymbolsFacts
  <2>3. enc \in {"frame", "fcs"} => buffer \in Packets
    BY DEF TypeInv, EncoderTypes
  <2>4. \/ \E b \in Symbols : OqPut(b) /\ UNCHANGED <<bits, transmit>>
        \/ UNCHANGED clockVars
    BY <2>2, <2>3, SymbolsFacts
       DEF Encoder, Fetch, Enable, WaitEnabled, ChannelFree, ChannelBusy, ChannelBlock, Preamble,
           Frame, FrameCheck, Between, Postamble, Pause
  <2> QED
    BY <2>1, <2>4, TypesUnchanged DEF TypeInv
<1> QED
  BY <1>0, <1>1, <1>2, TypesUnchanged DEF TypeInv

LEMMA BitClockType == TypeInv /\ BitClock => TypeInv'
<1> SUFFICES ASSUME TypeInv, BitClock PROVE TypeInv'
  OBVIOUS
<1>0. UNCHANGED encoderVars /\ UNCHANGED <<user, own>>
  BY DEF BitClock, TxStart, TxNext, TxEnd
<1>1. ClockTypes'
  BY OqTakeType DEF BitClock, TxStart, TxNext, TxEnd, ClockTypes, TypeInv
<1>2. RadioTypes'
  BY DEF BitClock, TxStart, TxNext, TxEnd, KeyOn, KeyOff, RadioTypes, radioVars, TypeInv
<1>3. AirTypes'
  <2>1. air \in Seq(Symbols \cup {Keyed, Unkeyed}) /\ (transmit => bits \in Symbols)
    BY DEF AirTypes, ClockTypes, TypeInv
  <2>2. \A b \in Symbols \cup {Keyed, Unkeyed} :
          Append(air, b) \in Seq(Symbols \cup {Keyed, Unkeyed})
    BY <2>1
  <2>3. transmit => air \o <<bits, Unkeyed>> \in Seq(Symbols \cup {Keyed, Unkeyed})
    <3>1. transmit => <<bits, Unkeyed>> \in Seq(Symbols \cup {Keyed, Unkeyed})
      BY <2>1
    <3> QED
      BY <2>1, <3>1, ConcatProperties
  <2> QED
    BY <2>1, <2>2, <2>3
       DEF BitClock, TxStart, TxNext, TxEnd, KeyOn, OnAir, AirTypes, TypeInv
<1> QED
  BY <1>0, <1>1, <1>2, <1>3, TypesUnchanged DEF TypeInv

LEMMA SquelchType == TypeInv /\ (SquelchOpen \/ SquelchClose) => TypeInv'
<1> SUFFICES ASSUME TypeInv, SquelchOpen \/ SquelchClose PROVE TypeInv'
  OBVIOUS
<1>1. UNCHANGED clockVars /\ UNCHANGED <<user, own>> /\ UNCHANGED <<order, air>>
  BY DEF SquelchOpen, SquelchClose
<1>2. EncoderTypes'
  BY DEF SquelchOpen, SquelchClose, EncoderTypes, encoderVars, HasPacket, TypeInv
<1>3. RadioTypes'
  BY DEF SquelchOpen, SquelchClose, RadioTypes, TypeInv
<1> QED
  BY <1>1, <1>2, <1>3, TypesUnchanged DEF TypeInv

LEMMA UserType == ASSUME TypeInv, NEW u \in Users, User(u) PROVE TypeInv'
<1> USE DEF Require, Initialized, Release, LastUser, Slept, TestIdle, WaitIdle, WaitTxOff, TurnOff
<1>1. UNCHANGED clockVars
  BY DEF User, Put
<1>2. ASSUME NEW p \in Packets, Put(u, p) PROVE TypeInv'
  <2>1. UNCHANGED radioVars /\ UserTypes'
    BY <1>2 DEF Put, UserTypes, TypeInv
  <2>2. EncoderTypes'
    BY <1>2, TxAssumption DEF Put, EncoderTypes, HasPacket, TypeInv
  <2>3. AirTypes'
    BY <1>2 DEF Put, AirTypes, TypeInv
  <2> QED
    BY <1>1, <2>1, <2>2, <2>3, TypesUnchanged DEF TypeInv
<1>3. ASSUME \/ Require(u) \/ Initialized(u) \/ Release(u)
             \/ Slept(u) \/ TestIdle(u) \/ WaitIdle(u) \/ WaitTxOff(u) \/ TurnOff(u)
      PROVE  TypeInv'
  <2>1. UNCHANGED <<order, air>>
    BY <1>3
  <2>2. EncoderTypes'
    BY <1>3 DEF EncoderTypes, encoderVars, HasPacket, TypeInv
  <2>3. RadioTypes'
    <3>1. CASE Require(u)
      <4>1. count' \in Nat /\ mutex' \in Users \cup {None}
        BY <3>1 DEF RadioTypes, TypeInv
      <4>2. on' \in BOOLEAN /\ ptt' \in BOOLEAN /\ tx_off' \in BOOLEAN
        BY <3>1 DEF RadioTypes, TypeInv
      <4> QED
        BY <3>1, <4>1, <4>2 DEF RadioTypes, TypeInv
    <3>2. CASE Initialized(u)
      BY <3>2 DEF RadioTypes, TypeInv
    <3>5. CASE Release(u)
      BY <3>5 DEF RadioTypes, TypeInv
    <3>3. CASE Slept(u) \/ TestIdle(u) \/ WaitIdle(u)
      BY <3>3, TypesUnchanged DEF TypeInv
    <3>4. CASE WaitTxOff(u) \/ TurnOff(u)
      BY <3>4 DEF RadioTypes, TypeInv
    <3> QED
      BY <1>3, <3>1, <3>2, <3>3, <3>4, <3>5
  <2>4. UserTypes'
    BY <1>3 DEF UserTypes, TypeInv
  <2> QED
    BY <1>1, <2>1, <2>2, <2>3, <2>4, TypesUnchanged DEF TypeInv
<1> QED
  BY <1>2, <1>3 DEF User

LEMMA TypeStep == TypeInv /\ [Next]_vars => TypeInv'
<1>1. TypeInv /\ UNCHANGED vars => TypeInv'
  BY TypesUnchanged DEF TypeInv, vars
<1> QED
  BY <1>1, EncoderType, BitClockType, SquelchType, UserType DEF Next

(* TypeOK, for any users, packets and queue sizes.                         *)
THEOREM TypeCorrect == Spec => []TypeOK
<1>1. TypeInv => TypeOK
  BY DEF TypeInv, EncoderTypes, ClockTypes, RadioTypes, UserTypes, AirTypes, HasPacket, TypeOK
<1> QED
  BY <1>1, TypeInit, TypeStep, PTL DEF Spec

----------------------------------------------------------------------------
(* Threads, radio_mutex and power. *)

HasRadio == {"starting", "in"}

LEMMA RequiredFinite == IsFiniteSet(Required) /\ Cardinality(Required) \in Nat
BY TxAssumption, FS_Subset, FS_CardinalityType DEF Required

\* How the number of threads that have the radio changes with one of them.
LEMMA CountUp ==
  ASSUME UserTypes, NEW u \in Users, user[u] \notin HasRadio,
         NEW w \in HasRadio, user' = [user EXCEPT ![u] = w]
  PROVE  Cardinality(Required') = Cardinality(Required) + 1
<1>1. u \notin Required /\ Required' = Required \cup {u}
  BY DEF Required, UserTypes, HasRadio
<1> QED
  BY <1>1, RequiredFinite, FS_AddElement

LEMMA CountDown ==
  ASSUME UserTypes, NEW u \in Users, user[u] \in HasRadio,
         NEW w, w \notin HasRadio, user' = [user EXCEPT ![u] = w]
  PROVE  Cardinality(Required') = Cardinality(Required) - 1 /\ Cardinality(Required) > 0
<1>1. u \in Required /\ Required' = Required \ {u}
  BY DEF Required, UserTypes, HasRadio
<1>2. Cardinality(Required) # 0
  BY <1>1, RequiredFinite, FS_EmptySet
<1>3. Cardinality(Required') = Cardinality(Required) - 1
  BY <1>1, RequiredFinite, FS_RemoveElement
<1> QED
  BY <1>2, <1>3, RequiredFinite

LEMMA CountSame ==
  ASSUME UserTypes, NEW u \in Users, NEW w, user[u] \in HasRadio <=> w \in HasRadio,
         user' = [user EXCEPT ![u] = w]
  PROVE  Cardinality(Required') = Cardinality(Required)
<1>1. Required' = Required
  BY DEF Required, UserTypes, HasRadio
<1> QED
  BY <1>1

powerVars == <<user, mutex, count, on, radio_rdy>>

LEMMA PowerUnchanged == PowerInv /\ UNCHANGED powerVars => PowerInv'
BY DEF PowerInv, Required, powerVars

LEMMA PowerInit == Init => PowerInv
<1> SUFFICES ASSUME Init PROVE PowerInv
  OBVIOUS
<1>1. Required = {}
  BY DEF Init, Required
<1>2. Cardinality(Required) = 0
  BY <1>1, FS_EmptySet
<1> QED
  BY <1>2, TxAssumption DEF Init, PowerInv, StopPlaces

LEMMA PowerRequire == ASSUME TypeInv, PowerInv, NEW u \in Users, Require(u) PROVE PowerInv'
<1> USE DEF StopPlaces
<1>1. UserTypes /\ None \notin Users
  BY TxAssumption DEF TypeInv
<1>2. user[u] = "out" /\ mutex = None /\ radio_rdy' = radio_rdy
  BY DEF Require
<1>3. \A v \in Users : user[v] \notin StopPlaces \cup {"starting"}
  BY <1>1, <1>2 DEF PowerInv
<1>4. count = Cardinality(Required) /\ count \in Nat /\ count' = count + 1
  BY DEF PowerInv, RadioTypes, TypeInv, Require
<1>5. (radio_rdy <=> on) /\ (on <=> count > 0)
  BY <1>2, <1>3 DEF PowerInv
<1>6. CASE count = 0
  <2>1. user' = [user EXCEPT ![u] = "starting"] /\ mutex' = u /\ on' = TRUE
    BY <1>4, <1>5, <1>6 DEF Require
  <2>2. Cardinality(Required') = Cardinality(Required) + 1
    BY <1>1, <1>2, <2>1, CountUp DEF HasRadio
  <2>3. count' = Cardinality(Required')
    BY <1>4, <2>2
  <2>4. count' = 1
    BY <1>4, <1>6
  <2> QED
    BY <1>1, <1>2, <1>3, <1>5, <1>6, <2>1, <2>3, <2>4 DEF PowerInv, UserTypes
<1>7. CASE count > 0
  <2>1. user' = [user EXCEPT ![u] = "in"] /\ mutex' = mutex /\ on' = on
    BY <1>4, <1>5, <1>7 DEF Require
  <2>2. Cardinality(Required') = Cardinality(Required) + 1
    BY <1>1, <1>2, <2>1, CountUp DEF HasRadio
  <2>3. count' = Cardinality(Required') /\ count' > 0
    BY <1>4, <1>7, <2>2
  <2> QED
    BY <1>1, <1>2, <1>3, <1>5, <1>7, <2>1, <2>3 DEF PowerInv, UserTypes
<1> QED
  BY <1>4, <1>6, <1>7

LEMMA PowerInitialized == ASSUME TypeInv, PowerInv, NEW u \in Users, Initialized(u) PROVE PowerInv'
<1> USE DEF StopPlaces
<1>1. UserTypes /\ None \notin Users
  BY TxAssumption DEF TypeInv
<1>2. /\ user[u] = "starting" /\ user' = [user EXCEPT ![u] = "in"] /\ mutex' = None
      /\ radio_rdy' = TRUE /\ count' = count /\ on' = on
  BY DEF Initialized
<1>3. mutex = u /\ count = 1 /\ on
  BY <1>1, <1>2 DEF PowerInv
<1>4. \A v \in Users : v # u => user[v] \notin StopPlaces \cup {"starting"}
  BY <1>3 DEF PowerInv
<1>5. Cardinality(Required') = Cardinality(Required)
  BY <1>1, <1>2, CountSame DEF HasRadio
<1>6. count' = Cardinality(Required')
  BY <1>2, <1>5 DEF PowerInv
<1> QED
  BY <1>1, <1>2, <1>3, <1>4, <1>6 DEF PowerInv, UserTypes

LEMMA PowerRelease == ASSUME TypeInv, PowerInv, NEW u \in Users, Release(u) PROVE PowerInv'
<1> USE DEF StopPlaces
<1>1. UserTypes /\ None \notin Users
  BY TxAssumption DEF TypeInv
<1>2. user[u] = "in" /\ mutex = None /\ on' = on /\ radio_rdy' = radio_rdy
  BY DEF Release
<1>3. \A v \in Users : user[v] \notin StopPlaces \cup {"starting"}
  BY <1>1, <1>2 DEF PowerInv
<1>4. count = Cardinality(Required) /\ count \in Nat
  BY DEF PowerInv, RadioTypes, TypeInv
<1>5. (radio_rdy <=> on) /\ (on <=> count > 0)
  BY <1>2, <1>3 DEF PowerInv
<1>6. CASE count = 1
  <2>1. user' = [user EXCEPT ![u] = "sleep"] /\ mutex' = u /\ count' = 0
    BY <1>6 DEF Release, LastUser
  <2>2. Cardinality(Required') = Cardinality(Required) - 1
    BY <1>1, <1>2, <2>1, CountDown DEF HasRadio
  <2>3. Cardinality(Required') = count - 1
    BY <1>4, <2>2
  <2>4. count' = Cardinality(Required')
    BY <1>6, <2>1, <2>3
  <2> QED
    BY <1>1, <1>2, <1>3, <1>5, <1>6, <2>1, <2>4 DEF PowerInv, UserTypes
<1>7. CASE count # 1
  <2>1. user' = [user EXCEPT ![u] = "out"] /\ mutex' = mutex
    BY <1>7 DEF Release, LastUser
  <2>2. Cardinality(Required') = Cardinality(Required) - 1 /\ Cardinality(Required) > 0
    BY <1>1, <1>2, <2>1, CountDown DEF HasRadio
  <2>3. count' = count - 1
    BY <1>4, <2>2 DEF Release
  <2>4. count' = Cardinality(Required') /\ count' > 0 /\ count > 0
    BY <1>4, <1>7, <2>2, <2>3
  <2> QED
    BY <1>1, <1>2, <1>3, <1>5, <2>1, <2>4 DEF PowerInv, UserTypes
<1> QED
  BY <1>6, <1>7

\* From place to place of radio_release, with radio_mutex held.
LEMMA PowerStopping ==
  ASSUME TypeInv, PowerInv, NEW u \in Users,
         Slept(u) \/ TestIdle(u) \/ WaitIdle(u) \/ WaitTxOff(u)
  PROVE  PowerInv'
<1>1. UserTypes /\ UNCHANGED <<mutex, count, on, radio_rdy>>
  BY DEF Slept, TestIdle, WaitIdle, WaitTxOff, radioVars, TypeInv
<1>2. PICK w \in StopPlaces : user[u] \in StopPlaces /\ user' = [user EXCEPT ![u] = w]
  BY DEF Slept, TestIdle, WaitIdle, WaitTxOff, StopPlaces
<1>3. user[u] \notin HasRadio /\ w \notin HasRadio
  BY <1>2 DEF StopPlaces, HasRadio
<1>4. Cardinality(Required') = Cardinality(Required)
  BY <1>1, <1>2, <1>3, CountSame
<1> QED
  BY <1>1, <1>2, <1>3, <1>4 DEF PowerInv, UserTypes, HasRadio

LEMMA PowerTurnOff == ASSUME TypeInv, PowerInv, NEW u \in Users, TurnOff(u) PROVE PowerInv'
<1> USE DEF StopPlaces
<1>1. UserTypes /\ None \notin Users
  BY TxAssumption DEF TypeInv
<1>2. /\ user[u] = "stopping" /\ user' = [user EXCEPT ![u] = "out"] /\ mutex' = None
      /\ on' = FALSE /\ radio_rdy' = FALSE /\ count' = count
  BY DEF TurnOff
<1>3. mutex = u /\ count = 0
  BY <1>1, <1>2 DEF PowerInv
<1>4. \A v \in Users : v # u => user[v] \notin StopPlaces \cup {"starting"}
  BY <1>3 DEF PowerInv
<1>5. Cardinality(Required') = Cardinality(Required)
  BY <1>1, <1>2, CountSame DEF HasRadio
<1>6. count' = Cardinality(Required')
  BY <1>2, <1>5 DEF PowerInv
<1> QED
  BY <1>1, <1>2, <1>3, <1>4, <1>6 DEF PowerInv, UserTypes

LEMMA PowerUser == ASSUME TypeInv, PowerInv, NEW u \in Users, User(u) PROVE PowerInv'
<1>1. ASSUME NEW p \in Packets, Put(u, p) PROVE PowerInv'
  BY <1>1, PowerUnchanged DEF Put, powerVars, radioVars
<1> QED
  BY <1>1, PowerRequire, PowerInitialized, PowerRelease, PowerStopping, PowerTurnOff DEF User

LEMMA PowerStep == TypeInv /\ PowerInv /\ [Next]_vars => PowerInv'
<1> SUFFICES ASSUME TypeInv, PowerInv, [Next]_vars PROVE PowerInv'
  OBVIOUS
<1>1. ASSUME Encoder \/ BitClock \/ SquelchOpen \/ SquelchClose \/ UNCHANGED vars
      PROVE  UNCHANGED powerVars
  BY <1>1
     DEF Encoder, Fetch, Enable, WaitEnabled, ChannelFree, ChannelBusy, ChannelBlock, Preamble,
         Frame, FrameCheck, Between, Postamble, Pause, BitClock, TxStart, TxNext, TxEnd,
         SquelchOpen, SquelchClose, vars, radioVars, powerVars
<1> QED
  BY <1>1, PowerUser, PowerUnchanged DEF Next

(* UserHasRadio: whoever has required the transceiver finds it on and      *)
(* initialised, however many threads require and release it.               *)
THEOREM UserHasRadioHolds == Spec => []UserHasRadio
<1>1. TypeInv /\ PowerInv => UserHasRadio
  <2> SUFFICES ASSUME TypeInv, PowerInv, NEW u \in Users, user[u] = "in" PROVE on /\ radio_rdy
    BY DEF UserHasRadio
  <2>1. IsFiniteSet(Required) /\ u \in Required
    BY TxAssumption, FS_Subset DEF Required
  <2>2. count > 0
    BY <2>1, FS_EmptySet, FS_CardinalityType DEF PowerInv
  <2>3. ASSUME NEW v \in Users, user[v] = "starting" PROVE FALSE
    <3>1. v \in Required /\ v # u /\ Cardinality(Required) = 1
      BY <2>3 DEF PowerInv, Required
    <3> QED
      BY <2>1, <3>1, FS_Singleton
  <2> QED
    BY <2>2, <2>3 DEF PowerInv
<1> QED
  BY <1>1, TypeInit, TypeStep, PowerInit, PowerStep, PTL DEF Spec

----------------------------------------------------------------------------
(* Encoder, bit clock and the power that both need. *)

LEMMA KeyInit == Init => KeyInv
BY DEF Init, KeyInv, Transmitting

keyVars == <<hdlc_idle, enc, radio_rdy, user, ptt, transmit, on, tx_off, oq, isr_waits>>

LEMMA KeyUnchanged == KeyInv /\ UNCHANGED keyVars => KeyInv'
BY DEF KeyInv, keyVars

LEMMA KeyEncoder == TypeInv /\ PowerInv /\ KeyInv /\ Encoder => KeyInv'
<1> SUFFICES ASSUME TypeInv, PowerInv, KeyInv, Encoder PROVE KeyInv'
  OBVIOUS
<1> USE DEF Transmitting
<1>1. UNCHANGED <<radio_rdy, user, ptt, transmit, on, tx_off, isr_waits>>
  BY DEF Encoder, Fetch, Enable, WaitEnabled, ChannelFree, ChannelBusy, ChannelBlock, Preamble,
         Frame, FrameCheck, Between, Postamble, Pause, clockVars, radioVars
<1>2. hdlc_idle' <=> enc' \notin Transmitting
  BY DEF KeyInv, Encoder, Fetch, Enable, WaitEnabled, ChannelFree, ChannelBusy, ChannelBlock,
         Preamble, Frame, FrameCheck, Between, Postamble, Pause
<1>3. enc' \in Transmitting => radio_rdy /\ \A u \in Users : user[u] \notin {"tx_off", "stopping"}
  <2>1. CASE Enable
    <3>1. mutex = None /\ radio_rdy
      BY <2>1 DEF Enable
    <3>2. \A u \in Users : user[u] \notin {"tx_off", "stopping"}
      BY <3>1, TxAssumption DEF PowerInv, StopPlaces
    <3> QED
      BY <3>1, <3>2
  <2>2. CASE ~Enable
    <3>1. enc' \in Transmitting => enc \in Transmitting
      BY <2>2 DEF Encoder, Fetch, WaitEnabled, ChannelFree, ChannelBusy, ChannelBlock,
         Preamble, Frame, FrameCheck, Between, Postamble, Pause
    <3> QED
      BY <3>1 DEF KeyInv
  <2> QED
    BY <2>1, <2>2
<1>4. enc' \notin {"frame", "fcs", "between", "tail"} /\ oq' # << >> => transmit
  <2>1. CASE Postamble
    BY <2>1 DEF Postamble
  <2>2. CASE ~Postamble
    <3>1. enc' \notin {"frame", "fcs", "between", "tail"}
            => oq' = oq /\ enc \notin {"frame", "fcs", "between", "tail"}
      BY <2>2 DEF Encoder, Fetch, Enable, WaitEnabled, ChannelFree, ChannelBusy, ChannelBlock,
         Preamble, Frame, FrameCheck, Between, Pause, clockVars
    <3> QED
      BY <3>1 DEF KeyInv
  <2> QED
    BY <2>1, <2>2
<1> QED
  BY <1>1, <1>2, <1>3, <1>4 DEF KeyInv

\* When the bit clock finds a byte it can key the transmitter at once.
LEMMA KeyClock == TypeInv /\ PowerInv /\ KeyInv /\ BitClock => KeyInv'
<1> SUFFICES ASSUME TypeInv, PowerInv, KeyInv, BitClock PROVE KeyInv'
  OBVIOUS
<1>1. UNCHANGED <<hdlc_idle, enc, radio_rdy, user, on>>
  BY DEF BitClock, TxStart, TxNext, TxEnd, KeyOn, KeyOff, encoderVars, radioVars
<1>2. CASE TxStart
  <2>1. ~transmit /\ oq # << >> /\ transmit'
    BY <1>2 DEF TxStart
  <2>2. enc \in {"frame", "fcs", "between", "tail"}
    BY <2>1 DEF KeyInv
  <2>3. radio_rdy /\ \A u \in Users : user[u] \notin {"tx_off", "stopping"}
    BY <2>2 DEF KeyInv, Transmitting
  <2>4. on /\ ~ptt /\ tx_off /\ ~isr_waits
    BY <2>1, <2>3 DEF KeyInv, PowerInv
  <2>5. ptt' = TRUE /\ tx_off' = FALSE /\ isr_waits' = isr_waits
    BY <1>2, <2>4 DEF TxStart, KeyOn
  <2> QED
    BY <1>1, <2>1, <2>3, <2>4, <2>5 DEF KeyInv
<1>3. CASE TxNext
  <2>1. transmit /\ UNCHANGED <<transmit, ptt, tx_off, isr_waits>>
    BY <1>3 DEF TxNext, radioVars
  <2> QED
    BY <1>1, <2>1 DEF KeyInv
<1>4. CASE TxEnd
  <2>1. transmit /\ oq = << >> /\ oq' = oq /\ transmit' = FALSE /\ isr_waits' = isr_waits
    BY <1>4 DEF TxEnd
  <2>2. on /\ ~isr_waits /\ \A u \in Users : user[u] # "stopping"
    BY <2>1 DEF KeyInv
  <2>3. ptt' = FALSE /\ tx_off' = TRUE
    BY <1>4, <2>2 DEF TxEnd, KeyOff
  <2> QED
    BY <1>1, <2>1, <2>2, <2>3 DEF KeyInv
<1> QED
  BY <1>2, <1>3, <1>4 DEF BitClock

LEMMA KeySquelch == TypeInv /\ KeyInv /\ (SquelchOpen \/ SquelchClose) => KeyInv'
<1> SUFFICES ASSUME TypeInv, KeyInv, SquelchOpen \/ SquelchClose PROVE KeyInv'
  OBVIOUS
<1>1. CASE SquelchOpen
  BY <1>1, KeyUnchanged DEF SquelchOpen, keyVars, encoderVars, clockVars
<1>2. CASE SquelchClose
  <2>1. UNCHANGED <<hdlc_idle, radio_rdy, user, ptt, transmit, on, tx_off, oq, isr_waits>>
    BY <1>2 DEF SquelchClose, clockVars
  <2>2. /\ enc' \in Transmitting <=> enc \in Transmitting
        /\ enc' \in {"frame", "fcs", "between", "tail"}
             <=> enc \in {"frame", "fcs", "between", "tail"}
    BY <1>2 DEF SquelchClose, Transmitting
  <2> QED
    BY <2>1, <2>2 DEF KeyInv
<1> QED
  BY <1>1, <1>2

LEMMA KeyUser == ASSUME TypeInv, PowerInv, KeyInv, NEW u \in Users, User(u) PROVE KeyInv'
<1>1. UserTypes /\ None \notin Users
  BY TxAssumption DEF TypeInv
<1>2. ASSUME NEW p \in Packets, Put(u, p) PROVE KeyInv'
  BY <1>2, KeyUnchanged DEF Put, keyVars, radioVars, clockVars
<1>3. CASE Require(u)
  <2>1. /\ user[u] = "out" /\ UNCHANGED <<hdlc_idle, enc, radio_rdy, transmit, oq, isr_waits>>
        /\ mutex = None
    BY <1>3 DEF Require, encoderVars, clockVars
  <2>2. \A v \in Users : user'[v] \in {"tx_off", "stopping"} <=> user[v] \in {"tx_off", "stopping"}
    BY <1>1, <1>3, <2>1 DEF Require, UserTypes
  <2>3. \A v \in Users : user'[v] = "stopping" <=> user[v] = "stopping"
    BY <1>1, <1>3, <2>1 DEF Require, UserTypes
  <2>4. CASE count' = 1 /\ ~on
    <3>1. on' = TRUE /\ ptt' = FALSE /\ tx_off' = TRUE
      BY <1>3, <2>4 DEF Require
    <3>2. ~ptt /\ ~transmit
      BY <2>4 DEF KeyInv
    <3>3. \A v \in Users : user[v] # "stopping"
      BY <1>1, <2>1 DEF PowerInv, StopPlaces
    <3> QED
      BY <2>1, <2>2, <2>3, <3>1, <3>2, <3>3 DEF KeyInv
  <2>5. CASE ~(count' = 1 /\ ~on)
    <3>1. UNCHANGED <<on, ptt, tx_off>>
      BY <1>3, <2>5 DEF Require
    <3> QED
      BY <2>1, <2>2, <2>3, <3>1 DEF KeyInv
  <2> QED
    BY <2>4, <2>5
<1>4. CASE Initialized(u)
  <2>1. /\ UNCHANGED <<hdlc_idle, transmit, oq, isr_waits, on, ptt, tx_off>>
        /\ user[u] = "starting" /\ user' = [user EXCEPT ![u] = "in"] /\ radio_rdy' = TRUE
    BY <1>4 DEF Initialized, clockVars
  <2>2. ~radio_rdy
    BY <2>1 DEF PowerInv
  <2>3. enc \notin Transmitting /\ enc' \notin Transmitting
    BY <1>4, <2>2 DEF KeyInv, Initialized, Transmitting
  <2>4. \A v \in Users : user'[v] = "stopping" <=> user[v] = "stopping"
    BY <1>1, <2>1 DEF UserTypes
  <2> QED
    BY <2>1, <2>3, <2>4 DEF KeyInv, Transmitting
<1>5. CASE Release(u)
  <2>1. UNCHANGED <<hdlc_idle, enc, radio_rdy, ptt, transmit, on, tx_off, oq, isr_waits>>
    BY <1>5 DEF Release, encoderVars, clockVars
  <2>2. \A v \in Users : user'[v] \in {"tx_off", "stopping"} <=> user[v] \in {"tx_off", "stopping"}
    BY <1>1, <1>5 DEF Release, UserTypes
  <2>3. \A v \in Users : user'[v] = "stopping" <=> user[v] = "stopping"
    BY <1>1, <1>5 DEF Release, UserTypes
  <2> QED
    BY <2>1, <2>2, <2>3 DEF KeyInv
<1>6. CASE Slept(u) \/ WaitIdle(u)
  <2>1. UNCHANGED <<hdlc_idle, enc, radio_rdy, ptt, transmit, on, tx_off, oq, isr_waits>>
    BY <1>6 DEF Slept, WaitIdle, encoderVars, clockVars, radioVars
  <2>2. user[u] \in {"sleep", "idle_wait"} /\ user' = [user EXCEPT ![u] = "idle"]
    BY <1>6 DEF Slept, WaitIdle
  <2>3. \A v \in Users : user'[v] \in {"tx_off", "stopping"} <=> user[v] \in {"tx_off", "stopping"}
    BY <1>1, <2>2 DEF UserTypes
  <2>4. \A v \in Users : user'[v] = "stopping" <=> user[v] = "stopping"
    BY <1>1, <2>2 DEF UserTypes
  <2> QED
    BY <2>1, <2>3, <2>4 DEF KeyInv
<1>7. CASE TestIdle(u)
  <2>1. UNCHANGED <<hdlc_idle, enc, radio_rdy, ptt, transmit, on, tx_off, oq, isr_waits>>
    BY <1>7 DEF TestIdle, encoderVars, clockVars, radioVars
  <2>2. \A v \in Users : user'[v] = "stopping" <=> user[v] = "stopping"
    BY <1>1, <1>7 DEF TestIdle, UserTypes
  <2>3. ASSUME enc \in Transmitting, NEW v \in Users
        PROVE  user'[v] \notin {"tx_off", "stopping"}
    BY <1>1, <1>7, <2>3 DEF TestIdle, UserTypes, KeyInv
  <2> QED
    BY <2>1, <2>2, <2>3 DEF KeyInv
<1>8. CASE WaitTxOff(u)
  <2>1. UNCHANGED <<hdlc_idle, enc, radio_rdy, ptt, transmit, on, oq, isr_waits>>
    BY <1>8 DEF WaitTxOff, encoderVars, clockVars
  <2>2. user[u] = "tx_off" /\ tx_off /\ tx_off' = FALSE /\ user' = [user EXCEPT ![u] = "stopping"]
    BY <1>8 DEF WaitTxOff
  <2>3. ~ptt /\ ~transmit /\ enc \notin Transmitting
    BY <2>2 DEF KeyInv
  <2>4. user'[u] = "stopping"
    BY <1>1, <2>2 DEF UserTypes
  <2> QED
    BY <2>1, <2>2, <2>3, <2>4 DEF KeyInv
<1>9. CASE TurnOff(u)
  <2>1. UNCHANGED <<hdlc_idle, enc, ptt, tx_off, transmit, oq, isr_waits>>
    BY <1>9 DEF TurnOff, encoderVars, clockVars
  <2>2. /\ user[u] = "stopping" /\ on' = FALSE /\ radio_rdy' = FALSE
        /\ user' = [user EXCEPT ![u] = "out"]
    BY <1>9 DEF TurnOff
  <2>3. ~transmit /\ ~ptt /\ enc \notin Transmitting /\ ~tx_off
    BY <2>2 DEF KeyInv
  <2>4. \A v \in Users : user'[v] = "stopping" => user[v] = "stopping"
    BY <1>1, <2>2 DEF UserTypes
  <2> QED
    BY <2>1, <2>2, <2>3, <2>4 DEF KeyInv
<1> QED
  BY <1>2, <1>3, <1>4, <1>5, <1>6, <1>7, <1>8, <1>9 DEF User

LEMMA KeyStep == TypeInv /\ PowerInv /\ KeyInv /\ [Next]_vars => KeyInv'
<1>1. KeyInv /\ UNCHANGED vars => KeyInv'
  BY KeyUnchanged DEF vars, encoderVars, clockVars, radioVars, keyVars
<1> QED
  BY <1>1, KeyEncoder, KeyClock, KeySquelch, KeyUser DEF Next

(* KeyedMeansOn: the power is never cut while the transmitter is keyed.    *)
THEOREM KeyedMeansOnHolds == Spec => []KeyedMeansOn
<1>1. KeyInv => KeyedMeansOn
  BY DEF KeyInv, KeyedMeansOn
<1> QED
  BY <1>1, TypeInit, TypeStep, PowerInit, PowerStep, KeyInit, KeyStep, PTL DEF Spec

(* InterruptNeverWaits: whenever the bit clock finds a first byte, the     *)
(* semaphore that radio_PTT waits for is free.                             *)
THEOREM InterruptNeverWaitsHolds == Spec => []InterruptNeverWaits
<1>1. KeyInv => InterruptNeverWaits
  BY DEF KeyInv, InterruptNeverWaits
<1> QED
  BY <1>1, TypeInit, TypeStep, PowerInit, PowerStep, KeyInit, KeyStep, PTL DEF Spec

----------------------------------------------------------------------------
(* What may follow what. *)

LEMMA FollowsFacts ==
  /\ Follows(Unkeyed, Keyed) /\ Follows(Keyed, Flag)
  /\ Follows(Flag, Flag) /\ Follows(Flag, Unkeyed)
  /\ \A p \in Packets : Follows(Flag, Data(p)) /\ Follows(Data(p), Fcs(p)) /\ Follows(Fcs(p), Flag)
BY DEF Follows

LEMMA LinkedAppend ==
  ASSUME NEW S, NEW s \in Seq(S), NEW b \in S, Linked(s), s # << >> => Follows(s[Len(s)], b)
  PROVE  Linked(Append(s, b))
<1> SUFFICES ASSUME NEW k \in 1..Len(Append(s, b))-1
             PROVE  Follows(Append(s, b)[k], Append(s, b)[k+1])
  BY DEF Linked
<1>1. Len(s) \in Nat /\ Len(Append(s, b)) = Len(s) + 1 /\ k \in 1..Len(s)
  OBVIOUS
<1>2. Append(s, b)[k] = s[k]
  BY <1>1
<1>3. CASE k = Len(s)
  BY <1>1, <1>2, <1>3
<1>4. CASE k # Len(s)
  <2>1. k \in 1..Len(s)-1 /\ k+1 \in 1..Len(s)
    BY <1>1, <1>4
  <2>2. Append(s, b)[k+1] = s[k+1]
    BY <2>1
  <2> QED
    BY <1>2, <2>1, <2>2 DEF Linked
<1> QED
  BY <1>3, <1>4

LEMMA LinkedTail ==
  ASSUME NEW S, NEW s \in Seq(S), s # << >>, Linked(s)
  PROVE  /\ Linked(Tail(s))
         /\ Tail(s) # << >> => Follows(Head(s), Tail(s)[1]) /\ Tail(s)[Len(Tail(s))] = s[Len(s)]
         /\ Tail(s) = << >> => Head(s) = s[Len(s)]
<1>1. /\ Len(s) \in Nat \ {0} /\ Tail(s) \in Seq(S) /\ Len(Tail(s)) = Len(s) - 1
      /\ Head(s) = s[1]
  OBVIOUS
<1>2. \A k \in 1..Len(s)-1 : Tail(s)[k] = s[k+1]
  OBVIOUS
<1>3. Linked(Tail(s))
  <2> SUFFICES ASSUME NEW k \in 1..Len(Tail(s))-1 PROVE Follows(Tail(s)[k], Tail(s)[k+1])
    BY DEF Linked
  <2>1. k \in 1..Len(s)-1 /\ k+1 \in 1..Len(s)-1
    BY <1>1
  <2> QED
    BY <1>2, <2>1 DEF Linked
<1>4. ASSUME Tail(s) # << >>
      PROVE  Follows(Head(s), Tail(s)[1]) /\ Tail(s)[Len(Tail(s))] = s[Len(s)]
  <2>1. Len(Tail(s)) # 0
    BY <1>1, <1>4
  <2>2. 1 \in 1..Len(s)-1 /\ Len(Tail(s)) \in 1..Len(s)-1
    BY <1>1, <2>1
  <2>3. Follows(s[1], s[1+1]) /\ Tail(s)[1] = s[1+1] /\ Tail(s)[Len(Tail(s))] = s[Len(Tail(s))+1]
    BY <1>2, <2>2 DEF Linked
  <2>4. Len(Tail(s)) + 1 = Len(s)
    BY <1>1
  <2>5. Follows(Head(s), Tail(s)[1])
    BY <1>1, <2>3
  <2> QED
    BY <2>3, <2>4, <2>5
<1>5. ASSUME Tail(s) = << >> PROVE Head(s) = s[Len(s)]
  BY <1>1, <1>5
<1> QED
  BY <1>3, <1>4, <1>5

\* Byte queue and bit clock have symbols only, which "keyed" and "unkeyed" are not.
LEMMA LastPutFacts ==
  ASSUME TypeInv
  PROVE  /\ oq # << >> => oq[Len(oq)] \in Symbols
         /\ oq # << >> \/ transmit => LastPut \in Symbols
         /\ Unkeyed \notin Symbols
<1>1. oq \in Seq(Symbols) /\ (transmit => bits \in Symbols)
  BY DEF TypeInv, ClockTypes
<1>2. oq # << >> => oq[Len(oq)] \in Symbols
  BY <1>1
<1>3. Unkeyed \notin Symbols
  BY DEF Symbols, Unkeyed, Flag, Data, Fcs
<1> QED
  BY <1>1, <1>2, <1>3 DEF LastPut

\* A byte that fits behind the last one is put.
LEMMA PutLinks ==
  ASSUME TypeInv, QueueSide, NEW b \in Symbols, OqPut(b), UNCHANGED <<bits, transmit>>,
         LastPut = Unkeyed => b = Flag, LastPut # Unkeyed => Follows(LastPut, b)
  PROVE  QueueSide' /\ LastPut' = b
<1>1. oq \in Seq(Symbols) /\ oq' = Append(oq, b)
  BY DEF TypeInv, ClockTypes, OqPut
<1>2. oq' # << >> /\ oq'[Len(oq')] = b
  BY <1>1
<1>3. Linked(oq')
  <2>1. oq # << >> => Follows(oq[Len(oq)], b)
    BY LastPutFacts DEF LastPut
  <2> QED
    BY <1>1, <2>1, LinkedAppend DEF QueueSide
<1>4. IF transmit THEN Follows(bits, oq'[1]) ELSE oq'[1] = Flag
  <2>1. CASE oq = << >>
    <3>1. oq'[1] = b
      BY <1>1, <2>1
    <3>2. transmit => Follows(bits, b)
      BY <2>1, LastPutFacts DEF LastPut
    <3>3. ~transmit => b = Flag
      BY <2>1 DEF LastPut
    <3> QED
      BY <3>1, <3>2, <3>3
  <2>2. CASE oq # << >>
    <3>1. oq'[1] = oq[1]
      BY <1>1, <2>2
    <3> QED
      BY <2>2, <3>1 DEF QueueSide
  <2> QED
    BY <2>1, <2>2
<1> QED
  BY <1>2, <1>3, <1>4 DEF QueueSide, LastPut

\* What does not put or take a byte, inside a frame or outside.
LEMMA AirUnchanged ==
  ASSUME AirInv, UNCHANGED <<air, oq, bits, transmit>>,
         UNCHANGED <<enc, buffer>> \/ (enc \notin InFrames /\ enc' \notin InFrames)
  PROVE  AirInv'
<1>1. AirSide' /\ QueueSide' /\ LastPut' = LastPut
  BY DEF AirInv, AirSide, QueueSide, LastPut
<1>2. LastSide'
  BY <1>1 DEF AirInv, LastSide, InFrames
<1> QED
  BY <1>1, <1>2 DEF AirInv

LEMMA AirInit == Init => AirInv
<1> SUFFICES ASSUME Init PROVE AirInv
  OBVIOUS
<1>1. oq = << >> /\ air = << >> /\ transmit = FALSE /\ enc = "fetch"
  BY DEF Init
<1>2. LastPut = Unkeyed
  BY <1>1 DEF LastPut
<1>3. Linked(<< >>)
  BY DEF Linked
<1> QED
  BY <1>1, <1>2, <1>3 DEF AirInv, AirSide, QueueSide, LastSide, InFrames

LEMMA AirEncoder == TypeInv /\ AirInv /\ Encoder => AirInv'
<1> SUFFICES ASSUME TypeInv, AirInv, Encoder PROVE AirInv'
  OBVIOUS
<1> USE DEF InFrames
<1>1. CASE Fetch \/ Enable \/ WaitEnabled \/ ChannelFree \/ ChannelBusy \/ ChannelBlock \/ Pause
  <2>1. UNCHANGED <<air, oq, bits, transmit>> /\ enc \notin InFrames /\ enc' \notin InFrames
    BY <1>1 DEF Fetch, Enable, WaitEnabled, ChannelFree, ChannelBusy, ChannelBlock, Pause, clockVars
  <2> QED
    BY <2>1, AirUnchanged
<1>2. CASE Preamble \/ Frame \/ FrameCheck \/ Between \/ Postamble
  <2>1. UNCHANGED <<air, bits, transmit>>
    BY <1>2 DEF Preamble, Frame, FrameCheck, Between, Postamble
  <2>2. AirSide'
    BY <2>1 DEF AirInv, AirSide
  <2>3. enc \in {"frame", "fcs"} => buffer \in Packets
    BY DEF TypeInv, EncoderTypes, HasPacket
  <2>4. ASSUME NEW b \in Symbols, OqPut(b),
               LastPut = Unkeyed => b = Flag, LastPut # Unkeyed => Follows(LastPut, b)
        PROVE  QueueSide' /\ LastPut' = b
    BY <2>1, <2>4, PutLinks DEF AirInv
  <2>5. CASE Preamble
    <3>1. OqPut(Flag) /\ enc = "preamble" /\ enc' = "frame"
      BY <2>5 DEF Preamble
    <3>2. LastPut \in {Flag, Unkeyed}
      BY <3>1 DEF AirInv, LastSide
    <3>3. QueueSide' /\ LastPut' = Flag
      BY <2>4, <3>1, <3>2, SymbolsFacts, FollowsFacts
    <3> QED
      BY <2>2, <3>1, <3>3 DEF AirInv, LastSide
  <2>6. CASE Frame
    <3>1. OqPut(Data(buffer)) /\ enc = "frame" /\ enc' = "fcs" /\ buffer' = buffer
      BY <2>6 DEF Frame
    <3>2. LastPut = Flag /\ Flag # Unkeyed
      BY <3>1 DEF AirInv, LastSide, Flag, Unkeyed
    <3>3. QueueSide' /\ LastPut' = Data(buffer)
      BY <2>3, <2>4, <3>1, <3>2, SymbolsFacts, FollowsFacts
    <3> QED
      BY <2>2, <3>1, <3>3 DEF AirInv, LastSide, Data
  <2>7. CASE FrameCheck
    <3>1. OqPut(Fcs(buffer)) /\ enc = "fcs" /\ enc' \in {"between", "tail"}
      BY <2>7 DEF FrameCheck
    <3>2. LastPut = Data(buffer) /\ Data(buffer) # Unkeyed
      BY <3>1 DEF AirInv, LastSide, Data, Unkeyed
    <3>3. QueueSide' /\ LastPut' = Fcs(buffer)
      BY <2>3, <2>4, <3>1, <3>2, SymbolsFacts, FollowsFacts
    <3> QED
      BY <2>2, <2>3, <3>1, <3>3 DEF AirInv, LastSide
  <2>8. CASE Between \/ Postamble
    <3>1. /\ OqPut(Flag) /\ enc \in {"between", "tail"}
          /\ enc' \in {"frame", "tail", "pause"}
      BY <2>8 DEF Between, Postamble
    <3>2. LastPut = Flag \/ \E p \in Packets : LastPut = Fcs(p)
      BY <3>1 DEF AirInv, LastSide
    <3>3. LastPut # Unkeyed /\ Follows(LastPut, Flag)
      BY <3>2, FollowsFacts DEF Flag, Fcs, Unkeyed
    <3>4. QueueSide' /\ LastPut' = Flag
      BY <2>4, <3>1, <3>3, SymbolsFacts
    <3> QED
      BY <2>2, <3>1, <3>4 DEF AirInv, LastSide
  <2> QED
    BY <1>2, <2>5, <2>6, <2>7, <2>8
<1> QED
  BY <1>1, <1>2 DEF Encoder

\* As the transmitter is keyed exactly while the bit clock is sending, no
\* byte is lost on its way.
LEMMA ClockAir ==
  ASSUME PowerInv, KeyInv
  PROVE  /\ TxStart => air' = Append(air, Keyed)
         /\ TxNext => air' = Append(air, bits)
         /\ TxEnd => air' = air \o <<bits, Unkeyed>>
<1>1. ASSUME TxStart PROVE air' = Append(air, Keyed)
  <2>1. ~transmit /\ oq # << >>
    BY <1>1 DEF TxStart
  <2>2. enc \in {"frame", "fcs", "between", "tail"}
    BY <2>1 DEF KeyInv
  <2>3. on /\ tx_off
    BY <2>1, <2>2 DEF KeyInv, PowerInv, Transmitting
  <2> QED
    BY <1>1, <2>3 DEF TxStart, KeyOn
<1>2. TxNext => air' = Append(air, bits)
  BY DEF TxNext, OnAir, KeyInv
<1>3. TxEnd => air' = air \o <<bits, Unkeyed>>
  BY DEF TxEnd, KeyInv
<1> QED
  BY <1>1, <1>2, <1>3

LEMMA AirClock == TypeInv /\ PowerInv /\ KeyInv /\ AirInv /\ BitClock => AirInv'
<1> SUFFICES ASSUME TypeInv, PowerInv, KeyInv, AirInv, BitClock PROVE AirInv'
  OBVIOUS
<1> DEFINE S == Symbols \cup {Keyed, Unkeyed}
<1>1. /\ air \in Seq(S) /\ oq \in Seq(Symbols) /\ (transmit => bits \in S)
      /\ UNCHANGED <<enc, buffer>>
  BY DEF BitClock, TxStart, TxNext, TxEnd, encoderVars, TypeInv, AirTypes, ClockTypes
<1> HIDE DEF S
<1>2. Keyed \in S /\ Unkeyed \in S
  BY DEF S
<1>3. CASE (TxStart \/ TxNext) /\ transmit' = TRUE
  <2>1. oq # << >> /\ bits' = Head(oq) /\ oq' = Tail(oq)
    BY <1>3 DEF TxStart, TxNext
  <2>2. /\ Linked(oq')
        /\ oq' # << >> => Follows(bits', oq'[1]) /\ oq'[Len(oq')] = oq[Len(oq)]
        /\ oq' = << >> => bits' = oq[Len(oq)]
    BY <1>1, <2>1, LinkedTail DEF AirInv, QueueSide
  <2>3. QueueSide'
    BY <1>3, <2>2 DEF QueueSide
  <2>4. LastPut' = LastPut
    BY <1>3, <2>1, <2>2 DEF LastPut
  <2>5. LastSide'
    BY <1>1, <2>4 DEF AirInv, LastSide
  <2>6. PICK b \in S : air' = Append(air, b) /\ Follows(b, bits') /\ (air # << >> => Follows(air[Len(air)], b))
    <3>1. bits' = oq[1]
      BY <1>1, <2>1
    <3>2. CASE TxStart
      <4>1. air' = Append(air, Keyed) /\ ~transmit
        BY <3>2, ClockAir DEF TxStart
      <4>2. bits' = Flag /\ (air # << >> => air[Len(air)] = Unkeyed)
        BY <2>1, <3>1, <4>1 DEF AirInv, AirSide, QueueSide
      <4> QED
        BY <1>2, <4>1, <4>2, FollowsFacts
    <3>3. CASE TxNext
      <4>1. air' = Append(air, bits) /\ transmit
        BY <3>3, ClockAir DEF TxNext
      <4>2. Follows(bits, bits') /\ (air # << >> => Follows(air[Len(air)], bits))
        BY <2>1, <3>1, <4>1 DEF AirInv, AirSide, QueueSide
      <4> QED
        BY <1>1, <4>1, <4>2
    <3> QED
      BY <1>3, <3>2, <3>3
  <2>7. Linked(air')
    BY <1>1, <2>6, LinkedAppend DEF AirInv, AirSide
  <2>8. air' # << >> /\ air'[Len(air')] = b
    BY <1>1, <2>6
  <2>9. AirSide'
    BY <1>3, <2>6, <2>7, <2>8 DEF AirSide
  <2> QED
    BY <2>3, <2>5, <2>9 DEF AirInv
<1>4. CASE TxEnd
  <2>1. transmit /\ oq = << >> /\ oq' = << >> /\ transmit' = FALSE /\ enc \notin InFrames
    BY <1>4 DEF TxEnd, InFrames
  <2>2. bits = Flag
    <3>1. LastPut = bits /\ LastPut \in {Flag, Unkeyed}
      BY <2>1 DEF LastPut, AirInv, LastSide
    <3> QED
      BY <2>1, <3>1, LastPutFacts
  <2>3. air' = Append(Append(air, bits), Unkeyed)
    <3>1. air' = air \o <<bits, Unkeyed>>
      BY <1>4, ClockAir
    <3> QED
      BY <1>1, <1>2, <2>1, <3>1
  <2>4. Linked(Append(air, bits)) /\ Append(air, bits) \in Seq(S)
    BY <1>1, <2>1, LinkedAppend DEF AirInv, AirSide
  <2>5. Append(air, bits)[Len(Append(air, bits))] = bits
    BY <1>1, <2>1
  <2>6. Linked(air')
    BY <1>2, <2>2, <2>3, <2>4, <2>5, LinkedAppend, FollowsFacts
  <2>7. air'[Len(air')] = Unkeyed
    BY <1>2, <2>3, <2>4
  <2>8. AirSide'
    BY <2>1, <2>6, <2>7 DEF AirSide
  <2>9. LastPut' = Unkeyed
    BY <2>1 DEF LastPut
  <2>10. QueueSide'
    BY <2>1 DEF QueueSide, Linked
  <2>11. LastSide'
    BY <1>1, <2>1, <2>9 DEF LastSide, InFrames
  <2> QED
    BY <2>8, <2>10, <2>11 DEF AirInv
<1> QED
  BY <1>3, <1>4 DEF BitClock, TxStart, TxNext

LEMMA AirOthers ==
  ASSUME AirInv, SquelchOpen \/ SquelchClose \/ (\E u \in Users : User(u)) \/ UNCHANGED vars
  PROVE  AirInv'
<1>1. UNCHANGED <<air, oq, bits, transmit, buffer>>
  BY DEF SquelchOpen, SquelchClose, User, Put, Require, Initialized, Release, Slept, TestIdle,
         WaitIdle, WaitTxOff, TurnOff, vars, encoderVars, clockVars
<1>2. enc' = enc \/ (enc \notin InFrames /\ enc' \notin InFrames)
  BY DEF SquelchOpen, SquelchClose, User, Put, Require, Initialized, Release, Slept, TestIdle,
         WaitIdle, WaitTxOff, TurnOff, vars, encoderVars, InFrames
<1> QED
  BY <1>1, <1>2, AirUnchanged

LEMMA AirStep == TypeInv /\ PowerInv /\ KeyInv /\ AirInv /\ [Next]_vars => AirInv'
BY AirEncoder, AirClock, AirOthers DEF Next

(* WholeFrames: whatever joins or separates transmissions, what is on the  *)
(* air is flags and whole frames, each with its own checksum.              *)
THEOREM WholeFramesHolds == Spec => []WholeFrames
<1>1. AirInv => WholeFrames
  BY DEF AirInv, AirSide, Linked, WholeFrames
<1> QED
  BY <1>1, TypeInit, TypeStep, PowerInit, PowerStep, KeyInit, KeyStep, AirInit, AirStep, PTL DEF Spec

----------------------------------------------------------------------------
(* The order in which packets come. *)

\* The packet whose content a byte is, as a set of at most one.
Content(b) == {p \in Packets : b = Data(p)}

LEMMA ContentFacts ==
  /\ \A p \in Packets : Content(Data(p)) = {p} /\ Content(Fcs(p)) = {}
  /\ Content(Flag) = {} /\ Content(Keyed) = {} /\ Content(Unkeyed) = {}
BY DEF Content, Data, Fcs, Flag, Keyed, Unkeyed

LEMMA DataInAppend ==
  ASSUME NEW S, NEW s \in Seq(S), NEW b \in S
  PROVE  DataIn(Append(s, b)) = DataIn(s) \cup Content(b)
<1>1. /\ Len(s) \in Nat /\ Len(Append(s, b)) = Len(s) + 1 /\ Append(s, b)[Len(s) + 1] = b
      /\ \A k \in 1..Len(s) : Append(s, b)[k] = s[k]
  OBVIOUS
<1>2. \A k \in 1..Len(s) + 1 : k \in 1..Len(s) \/ k = Len(s) + 1
  BY <1>1
<1>3. 1..Len(s) \subseteq 1..Len(s) + 1 /\ Len(s) + 1 \in 1..Len(s) + 1
  BY <1>1
<1> QED
  BY <1>1, <1>2, <1>3 DEF DataIn, Content

LEMMA DataInTail ==
  ASSUME NEW S, NEW s \in Seq(S), s # << >>
  PROVE  DataIn(s) = Content(Head(s)) \cup DataIn(Tail(s))
<1>1. /\ Len(s) \in Nat \ {0} /\ Len(Tail(s)) = Len(s) - 1 /\ Head(s) = s[1]
      /\ \A k \in 1..Len(s)-1 : Tail(s)[k] = s[k+1]
  OBVIOUS
<1>2. \A k \in 1..Len(s) : k = 1 \/ (k-1 \in 1..Len(s)-1 /\ k = (k-1)+1)
  BY <1>1
<1>3. 1 \in 1..Len(s) /\ \A k \in 1..Len(s)-1 : k+1 \in 1..Len(s)
  BY <1>1
<1>4. DataIn(s) \subseteq Content(Head(s)) \cup DataIn(Tail(s))
  <2> SUFFICES ASSUME NEW p \in Packets, NEW k \in 1..Len(s), s[k] = Data(p)
               PROVE  p \in Content(Head(s)) \cup DataIn(Tail(s))
    BY DEF DataIn
  <2>1. CASE k = 1
    BY <1>1, <2>1 DEF Content
  <2>2. CASE k # 1
    <3>1. k-1 \in 1..Len(s)-1 /\ Tail(s)[k-1] = s[k]
      BY <1>1, <1>2, <2>2
    <3> QED
      BY <1>1, <3>1 DEF DataIn
  <2> QED
    BY <2>1, <2>2
<1>5. Content(Head(s)) \cup DataIn(Tail(s)) \subseteq DataIn(s)
  BY <1>1, <1>3 DEF DataIn, Content
<1> QED
  BY <1>4, <1>5

LEMMA AscendingAppend ==
  ASSUME NEW S, NEW s \in Seq(S), NEW b \in S, Ascending(s), Before(DataIn(s), Content(b))
  PROVE  Ascending(Append(s, b))
<1> SUFFICES ASSUME NEW i \in 1..Len(Append(s, b)), NEW j \in 1..Len(Append(s, b)), i < j,
                    NEW p \in Packets, NEW q \in Packets,
                    Append(s, b)[i] = Data(p), Append(s, b)[j] = Data(q)
             PROVE  PutBefore(p, q)
  BY DEF Ascending
<1>1. i \in 1..Len(s) /\ Append(s, b)[i] = s[i]
  OBVIOUS
<1>2. CASE j \in 1..Len(s)
  <2>1. Append(s, b)[j] = s[j]
    BY <1>2
  <2> QED
    BY <1>1, <1>2, <2>1 DEF Ascending
<1>3. CASE j \notin 1..Len(s)
  <2>1. Append(s, b)[j] = b
    BY <1>3
  <2> QED
    BY <1>1, <2>1 DEF Before, DataIn, Content
<1> QED
  BY <1>2, <1>3

LEMMA AscendingTail ==
  ASSUME NEW S, NEW s \in Seq(S), s # << >>, Ascending(s)
  PROVE  Ascending(Tail(s)) /\ Before(Content(Head(s)), DataIn(Tail(s)))
<1>1. /\ Len(s) \in Nat \ {0} /\ Len(Tail(s)) = Len(s) - 1 /\ Head(s) = s[1]
      /\ \A k \in 1..Len(s)-1 : Tail(s)[k] = s[k+1]
  OBVIOUS
<1>2. /\ 1 \in 1..Len(s) /\ \A k \in 1..Len(s)-1 : k+1 \in 1..Len(s) /\ 1 < k+1
      /\ \A i, j \in 1..Len(s)-1 : i < j => i+1 < j+1
  BY <1>1
<1>3. Ascending(Tail(s))
  BY <1>1, <1>2 DEF Ascending
<1>4. Before(Content(Head(s)), DataIn(Tail(s)))
  BY <1>1, <1>2 DEF Ascending, Before, Content, DataIn
<1> QED
  BY <1>3, <1>4

LEMMA RangeTail ==
  ASSUME NEW S, NEW s \in Seq(S), s # << >>
  PROVE  Range1(s) = {Head(s)} \cup Range1(Tail(s))
<1>1. /\ Len(s) \in Nat \ {0} /\ Len(Tail(s)) = Len(s) - 1 /\ Head(s) = s[1]
      /\ \A k \in 1..Len(s)-1 : Tail(s)[k] = s[k+1]
  OBVIOUS
<1>2. \A k \in 1..Len(s) : k = 1 \/ (k-1 \in 1..Len(s)-1 /\ Tail(s)[k-1] = s[k])
  BY <1>1
<1>3. 1 \in 1..Len(s) /\ \A k \in 1..Len(s)-1 : k+1 \in 1..Len(s)
  BY <1>1
<1> QED
  BY <1>1, <1>2, <1>3 DEF Range1

LEMMA RangeAppend ==
  ASSUME NEW S, NEW s \in Seq(S), NEW b \in S
  PROVE  Range1(Append(s, b)) = Range1(s) \cup {b}
<1>1. /\ Len(s) \in Nat /\ Len(Append(s, b)) = Len(s) + 1 /\ Append(s, b)[Len(s) + 1] = b
      /\ \A k \in 1..Len(s) : Append(s, b)[k] = s[k]
  OBVIOUS
<1>2. \A k \in 1..Len(s) + 1 : k \in 1..Len(s) \/ k = Len(s) + 1
  BY <1>1
<1>3. 1..Len(s) \subseteq 1..Len(s) + 1 /\ Len(s) + 1 \in 1..Len(s) + 1
  BY <1>1
<1> QED
  BY <1>1, <1>2, <1>3 DEF Range1

\* The packet at the head of the queue was put before all behind it.
LEMMA HeadFirst ==
  ASSUME TypeInv, WaitingInv, queue # << >>, queue' = Tail(queue)
  PROVE  /\ Head(queue) \in Packets /\ Range1(queue) = {Head(queue)} \cup Range1(queue')
         /\ Before({Head(queue)}, Range1(queue'))
         /\ \A k, l \in 1..Len(queue') : k < l => PutBefore(queue'[k], queue'[l])
<1>1. queue \in Seq(Packets)
  BY DEF TypeInv, EncoderTypes
<1>2. /\ Len(queue) \in Nat \ {0} /\ Len(queue') = Len(queue) - 1 /\ Head(queue) = queue[1]
      /\ \A k \in 1..Len(queue)-1 : queue'[k] = queue[k+1]
  BY <1>1
<1>3. /\ 1 \in 1..Len(queue) /\ \A k \in 1..Len(queue)-1 : k+1 \in 1..Len(queue) /\ 1 < k+1
      /\ \A i, j \in 1..Len(queue)-1 : i < j => i+1 < j+1
  BY <1>2
<1>4. \A k, l \in 1..Len(queue') : k < l => PutBefore(queue'[k], queue'[l])
  BY <1>2, <1>3 DEF WaitingInv
<1>5. Before({Head(queue)}, Range1(queue'))
  BY <1>2, <1>3 DEF WaitingInv, Before, Range1
<1> QED
  BY <1>1, <1>4, <1>5, RangeTail

LEMMA OrderInit == Init => OrderInv
<1> SUFFICES ASSUME Init PROVE OrderInv
  OBVIOUS
<1>1. /\ order = << >> /\ air = << >> /\ oq = << >> /\ queue = << >> /\ buffer = None
      /\ enc = "fetch" /\ transmit = FALSE
  BY DEF Init
<1>2. DataIn(air) = {} /\ DataIn(oq) = {} /\ DataSent = {} /\ Range1(queue) = {}
  BY <1>1 DEF DataIn, DataSent, Range1
<1>3. OnceInv /\ Ascending(air) /\ Ascending(oq)
  BY <1>1 DEF OnceInv, Ascending
<1>4. WayInv
  BY <1>2, <1>3 DEF WayInv, Before
<1>5. WaitingInv
  BY <1>1, <1>2 DEF WaitingInv, OnTheWay, Before, Unsent, HasPacket
<1>6. KnownInv
  BY <1>1, <1>2, TxAssumption DEF KnownInv, OnTheWay
<1> QED
  BY <1>3, <1>4, <1>5, <1>6 DEF OrderInv

\* What moves no packet.
LEMMA OrderUnchanged ==
  ASSUME OrderInv, UNCHANGED <<order, air, oq, bits, transmit, queue, buffer>>,
         enc' \in Unsent => enc \in Unsent
  PROVE  OrderInv'
<1>1. /\ (OnTheWay' = OnTheWay) /\ (DataSent' = DataSent) /\ (DataIn(air)' = DataIn(air))
      /\ (DataIn(oq)' = DataIn(oq)) /\ (Range1(queue)' = Range1(queue))
      /\ (Range1(order)' = Range1(order))
  BY DEF OnTheWay, DataSent, DataIn, Range1
<1>3. OnceInv'
  BY DEF OrderInv, OnceInv
<1>4. WayInv'
  BY <1>1 DEF OrderInv, WayInv, Ascending, Before, PutBefore
<1>5. WaitingInv'
  BY <1>1 DEF OrderInv, WaitingInv, Before, PutBefore
<1>6. KnownInv'
  BY <1>1 DEF OrderInv, KnownInv
<1> QED
  BY <1>3, <1>4, <1>5, <1>6 DEF OrderInv

\* A byte with no content is put: what is on its way stays.
LEMMA SamePackets ==
  ASSUME TypeInv, NEW b \in Symbols, OqPut(b), Content(b) = {}, UNCHANGED <<order, air, bits, transmit>>,
         WayInv
  PROVE  WayInv' /\ OnTheWay' = OnTheWay
<1>1. oq \in Seq(Symbols) /\ oq' = Append(oq, b)
  BY DEF TypeInv, ClockTypes, OqPut
<1>2. DataIn(oq') = DataIn(oq)
  <2>1. DataIn(Append(oq, b)) = DataIn(oq) \cup Content(b)
    BY <1>1, DataInAppend
  <2> QED
    BY <1>1, <2>1
<1>3. (DataIn(air)' = DataIn(air)) /\ (DataSent' = DataSent)
  BY DEF DataIn, DataSent
<1>4. Ascending(oq')
  BY <1>1, AscendingAppend DEF WayInv, Before
<1> QED
  BY <1>2, <1>3, <1>4 DEF WayInv, OnTheWay, Ascending, Before, PutBefore

LEMMA OrderEncoder == TypeInv /\ OrderInv /\ Encoder => OrderInv'
<1> SUFFICES ASSUME TypeInv, OrderInv, Encoder PROVE OrderInv'
  OBVIOUS
<1> USE DEF Unsent, HasPacket
<1>0. UNCHANGED <<order, air, bits, transmit>>
  BY DEF Encoder, Fetch, Enable, WaitEnabled, ChannelFree, ChannelBusy, ChannelBlock, Preamble,
         Frame, FrameCheck, Between, Postamble, Pause, clockVars
<1>1. /\ OnceInv' /\ (Range1(order)' = Range1(order))
      /\ \A p, q \in Packets : PutBefore(p, q) => PutBefore(p, q)'
  BY <1>0 DEF OrderInv, OnceInv, Range1, PutBefore
<1>2. CASE Enable \/ WaitEnabled \/ ChannelFree \/ ChannelBusy \/ ChannelBlock \/ Pause
  <2>1. UNCHANGED <<oq, queue, buffer>> /\ (enc' \in Unsent => enc \in Unsent)
    BY <1>2 DEF Enable, WaitEnabled, ChannelFree, ChannelBusy, ChannelBlock, Pause, clockVars
  <2> QED
    BY <1>0, <2>1, OrderUnchanged
<1>3. CASE Fetch
  <2>1. queue # << >> /\ buffer' = Head(queue) /\ queue' = Tail(queue) /\ oq' = oq
    BY <1>3 DEF Fetch, clockVars
  <2>2. /\ Head(queue) \in Packets /\ Range1(queue) = {Head(queue)} \cup Range1(queue')
        /\ Before({Head(queue)}, Range1(queue'))
        /\ \A k, l \in 1..Len(queue') : k < l => PutBefore(queue'[k], queue'[l])
    BY <2>1, HeadFirst DEF OrderInv
  <2>3. OnTheWay' = OnTheWay
    BY <1>0, <2>1 DEF OnTheWay, DataIn, DataSent
  <2>4. WayInv'
    BY <1>0, <2>1 DEF OrderInv, WayInv, Ascending, Before, DataIn, DataSent, PutBefore
  <2>5. Before(OnTheWay, {buffer'}) /\ Before(OnTheWay, Range1(queue')) /\ Before({buffer'}, Range1(queue'))
    BY <2>1, <2>2 DEF OrderInv, WaitingInv, Before
  <2>6. WaitingInv'
    BY <1>0, <2>2, <2>3, <2>5 DEF WaitingInv, Before, PutBefore
  <2>7. KnownInv'
    BY <1>1, <2>1, <2>2, <2>3 DEF OrderInv, KnownInv
  <2> QED
    BY <1>1, <2>4, <2>6, <2>7 DEF OrderInv
<1>4. CASE Frame
  <2>1. OqPut(Data(buffer)) /\ enc = "frame" /\ enc' = "fcs" /\ UNCHANGED <<queue, buffer>>
    BY <1>4 DEF Frame
  <2>2. buffer \in Packets /\ oq \in Seq(Symbols) /\ oq' = Append(oq, Data(buffer))
    BY <2>1 DEF TypeInv, EncoderTypes, ClockTypes, OqPut
  <2>3. Content(Data(buffer)) = {buffer} /\ Data(buffer) \in Symbols
    BY <2>2, ContentFacts, SymbolsFacts
  <2>4. DataIn(oq') = DataIn(oq) \cup {buffer}
    BY <2>2, <2>3, DataInAppend
  <2>5. (DataIn(air)' = DataIn(air)) /\ (DataSent' = DataSent)
    BY <1>0 DEF DataIn, DataSent
  <2>6. Before(OnTheWay, {buffer}) /\ Before({buffer}, Range1(queue))
    BY <2>1 DEF OrderInv, WaitingInv
  <2>7. Ascending(oq')
    BY <2>2, <2>3, <2>6, AscendingAppend DEF OrderInv, WayInv, OnTheWay, Before
  <2>8. WayInv'
    <3>1. (Ascending(air)') /\ (Ascending(oq)')
      BY <1>0, <2>7 DEF OrderInv, WayInv, Ascending, PutBefore
    <3>2. /\ Before(DataIn(air), DataSent \cup DataIn(oq')) /\ Before(DataSent, DataIn(oq'))
      BY <2>4, <2>6 DEF OrderInv, WayInv, OnTheWay, Before
    <3> QED
      BY <1>0, <2>5, <3>1, <3>2 DEF WayInv, Before, PutBefore
  <2>9. OnTheWay' = OnTheWay \cup {buffer}
    BY <2>4, <2>5 DEF OnTheWay
  <2>10. WaitingInv'
    BY <1>0, <2>1, <2>6, <2>9 DEF OrderInv, WaitingInv, Before, PutBefore
  <2>11. KnownInv'
    BY <1>1, <2>1, <2>2, <2>9 DEF OrderInv, KnownInv
  <2> QED
    BY <1>1, <2>8, <2>10, <2>11 DEF OrderInv
<1>5. CASE Preamble \/ FrameCheck \/ Postamble
  <2>1. PICK b \in Symbols : OqPut(b) /\ Content(b) = {}
    <3>1. enc = "fcs" => buffer \in Packets
      BY DEF TypeInv, EncoderTypes
    <3> QED
      BY <1>5, <3>1, ContentFacts, SymbolsFacts DEF Preamble, FrameCheck, Postamble
  <2>2. WayInv' /\ OnTheWay' = OnTheWay
    BY <1>0, <2>1, SamePackets DEF OrderInv
  <2>3. /\ queue' = queue /\ buffer' \in {buffer, None}
        /\ enc' \in Unsent => enc \in Unsent /\ buffer' = buffer
    BY <1>5 DEF Preamble, FrameCheck, Postamble
  <2>4. WaitingInv'
    BY <1>0, <2>2, <2>3 DEF OrderInv, WaitingInv, Before, PutBefore
  <2>5. KnownInv'
    BY <1>1, <2>2, <2>3, TxAssumption DEF OrderInv, KnownInv
  <2> QED
    BY <1>1, <2>2, <2>4, <2>5 DEF OrderInv
<1>6. CASE Between
  <2>1. OqPut(Flag) /\ enc = "between" /\ buffer' = Head(queue) /\ queue' = Tail(queue) /\ queue # << >>
    BY <1>6 DEF Between, TypeInv, EncoderTypes
  <2>2. WayInv' /\ OnTheWay' = OnTheWay
    BY <1>0, <2>1, SamePackets, ContentFacts, SymbolsFacts DEF OrderInv
  <2>3. /\ Head(queue) \in Packets /\ Range1(queue) = {Head(queue)} \cup Range1(queue')
        /\ Before({Head(queue)}, Range1(queue'))
        /\ \A k, l \in 1..Len(queue') : k < l => PutBefore(queue'[k], queue'[l])
    BY <2>1, HeadFirst DEF OrderInv
  <2>4. Before(OnTheWay, {buffer'}) /\ Before(OnTheWay, Range1(queue')) /\ Before({buffer'}, Range1(queue'))
    BY <2>1, <2>3 DEF OrderInv, WaitingInv, Before
  <2>5. WaitingInv'
    BY <1>0, <2>2, <2>3, <2>4 DEF WaitingInv, Before, PutBefore
  <2>6. KnownInv'
    BY <1>1, <2>1, <2>2, <2>3 DEF OrderInv, KnownInv
  <2> QED
    BY <1>1, <2>2, <2>5, <2>6 DEF OrderInv
<1> QED
  BY <1>2, <1>3, <1>4, <1>5, <1>6 DEF Encoder

LEMMA OrderClock == TypeInv /\ PowerInv /\ KeyInv /\ OrderInv /\ BitClock => OrderInv'
<1> SUFFICES ASSUME TypeInv, PowerInv, KeyInv, OrderInv, BitClock PROVE OrderInv'
  OBVIOUS
<1> DEFINE S == Symbols \cup {Keyed, Unkeyed}
<1>0. /\ air \in Seq(S) /\ oq \in Seq(Symbols) /\ (transmit => bits \in S)
      /\ UNCHANGED <<enc, buffer, queue, order>>
  BY DEF BitClock, TxStart, TxNext, TxEnd, encoderVars, TypeInv, AirTypes, ClockTypes
<1> HIDE DEF S
<1>1. Keyed \in S /\ Unkeyed \in S
  BY DEF S
\* The byte in front goes on the air and the byte behind it is taken.
<1>2. /\ Ascending(air') /\ Ascending(oq')
      /\ DataIn(air') = DataIn(air) \cup DataSent
      /\ (DataSent') \cup DataIn(oq') = DataIn(oq)
      /\ Before(DataSent', DataIn(oq'))
  <2>1. CASE (TxStart \/ TxNext) /\ transmit' = TRUE
    <3>1. oq # << >> /\ bits' = Head(oq) /\ oq' = Tail(oq)
      BY <2>1 DEF TxStart, TxNext
    <3>2. DataSent' = Content(Head(oq))
      BY <2>1, <3>1 DEF DataSent, Content
    <3>3. DataIn(oq) = Content(Head(oq)) \cup DataIn(oq')
      BY <1>0, <3>1, DataInTail
    <3>4. Ascending(oq') /\ Before(Content(Head(oq)), DataIn(oq'))
      BY <1>0, <3>1, AscendingTail DEF OrderInv, WayInv
    <3>5. PICK b \in S : air' = Append(air, b) /\ Content(b) = DataSent
      <4>1. CASE TxStart
        BY <1>1, <4>1, ClockAir, ContentFacts DEF TxStart, DataSent
      <4>2. CASE TxNext
        BY <1>0, <4>2, ClockAir DEF TxNext, DataSent, Content
      <4> QED
        BY <2>1, <4>1, <4>2
    <3>6. DataIn(air') = DataIn(air) \cup DataSent
      BY <1>0, <3>5, DataInAppend
    <3>7. Ascending(air')
      BY <1>0, <3>5, AscendingAppend DEF OrderInv, WayInv, Before
    <3> QED
      BY <3>2, <3>3, <3>4, <3>6, <3>7
  <2>2. CASE TxEnd
    <3>1. transmit /\ oq = << >> /\ oq' = << >> /\ transmit' = FALSE
      BY <2>2 DEF TxEnd
    <3>2. DataSent' = {} /\ DataIn(oq) = {} /\ DataIn(oq') = {} /\ DataSent = Content(bits)
      BY <3>1 DEF DataSent, DataIn, Content
    <3>3. air' = Append(Append(air, bits), Unkeyed)
      <4>1. air' = air \o <<bits, Unkeyed>>
        BY <2>2, ClockAir
      <4> QED
        BY <1>0, <1>1, <3>1, <4>1
    <3>4. Append(air, bits) \in Seq(S)
      BY <1>0, <3>1
    <3>5. DataIn(Append(air, bits)) = DataIn(air) \cup DataSent
      BY <1>0, <3>1, <3>2, DataInAppend
    <3>6. DataIn(air') = DataIn(air) \cup DataSent
      <4>1. DataIn(Append(Append(air, bits), Unkeyed)) = DataIn(Append(air, bits)) \cup Content(Unkeyed)
        <5> DEFINE longer == Append(air, bits)
        <5>1. longer \in Seq(S) /\ Unkeyed \in S
          BY <1>1, <3>4
        <5> HIDE DEF longer
        <5>2. DataIn(Append(longer, Unkeyed)) = DataIn(longer) \cup Content(Unkeyed)
          BY <5>1, DataInAppend
        <5> QED
          BY <5>2 DEF longer
      <4> QED
        BY <3>3, <3>5, <4>1, ContentFacts
    <3>7. Ascending(Append(air, bits))
      BY <1>0, <3>1, <3>2, AscendingAppend DEF OrderInv, WayInv, Before
    <3>8. Ascending(air')
      <4>1. Before(DataIn(Append(air, bits)), Content(Unkeyed))
        BY ContentFacts DEF Before
      <4> QED
        BY <1>1, <3>3, <3>4, <3>7, <4>1, AscendingAppend
    <3>9. Ascending(oq')
      BY <3>1 DEF Ascending
    <3> QED
      BY <3>2, <3>6, <3>8, <3>9 DEF Before
  <2> QED
    BY <2>1, <2>2 DEF BitClock, TxStart, TxNext
<1>3. OnTheWay' = OnTheWay
  BY <1>2 DEF OnTheWay
<1>4. WayInv'
  <2>1. Before(DataIn(air'), (DataSent') \cup DataIn(oq'))
    BY <1>2 DEF OrderInv, WayInv, Before
  <2>2. (Ascending(air)') /\ (Ascending(oq)')
    BY <1>0, <1>2 DEF Ascending, PutBefore
  <2> QED
    BY <1>0, <1>2, <2>1, <2>2 DEF WayInv, Before, PutBefore
<1>5. OnceInv' /\ (Range1(queue)' = Range1(queue)) /\ (Range1(order)' = Range1(order))
  BY <1>0 DEF OrderInv, OnceInv, Range1
<1>6. WaitingInv'
  BY <1>0, <1>3, <1>5 DEF OrderInv, WaitingInv, Before, PutBefore
<1>7. KnownInv'
  BY <1>0, <1>3, <1>5 DEF OrderInv, KnownInv
<1> QED
  BY <1>4, <1>5, <1>6, <1>7 DEF OrderInv

\* A packet that is put is put after all the others.
LEMMA OrderPut ==
  ASSUME TypeInv, OrderInv, NEW u \in Users, NEW p \in Packets, Put(u, p)
  PROVE  OrderInv'
<1>1. /\ order \in Seq(Packets) /\ queue \in Seq(Packets)
      /\ order' = Append(order, p) /\ queue' = Append(queue, p)
      /\ p \notin Range1(order) /\ UNCHANGED <<air, oq, bits, transmit, buffer, enc>>
  BY DEF TypeInv, AirTypes, EncoderTypes, Put, clockVars, Range1
<1>2. /\ Len(order) \in Nat /\ Len(order') = Len(order) + 1 /\ order'[Len(order) + 1] = p
      /\ \A k \in 1..Len(order) : order'[k] = order[k]
      /\ DOMAIN order = 1..Len(order) /\ DOMAIN order' = 1..Len(order) + 1
  BY <1>1
<1>3. \A k \in 1..Len(order) : k \in 1..Len(order) + 1 /\ k < Len(order) + 1
  BY <1>2
<1>4. Len(order) + 1 \in 1..Len(order) + 1
      /\ \A k \in 1..Len(order) + 1 : k \in 1..Len(order) \/ k = Len(order) + 1
  BY <1>2
<1>5. \A q, r : PutBefore(q, r) => PutBefore(q, r)'
  BY <1>2, <1>3 DEF PutBefore
<1>6. \A q \in Range1(order) : PutBefore(q, p)'
  BY <1>2, <1>3, <1>4 DEF PutBefore, Range1
<1>7. OnceInv'
  BY <1>1, <1>2, <1>4 DEF OrderInv, OnceInv, Range1
<1>8. Range1(order') = Range1(order) \cup {p} /\ Range1(queue') = Range1(queue) \cup {p}
  BY <1>1, RangeAppend
<1>9. (OnTheWay' = OnTheWay) /\ (DataIn(air)' = DataIn(air)) /\ (DataIn(oq)' = DataIn(oq)) /\ (DataSent' = DataSent)
  BY <1>1 DEF OnTheWay, DataIn, DataSent
<1>10. WayInv'
  <2>1. (Ascending(air)') /\ (Ascending(oq)')
    BY <1>1, <1>5 DEF OrderInv, WayInv, Ascending
  <2> QED
    BY <1>5, <1>9, <2>1 DEF OrderInv, WayInv, Before
<1>11. WaitingInv'
  <2>1. Before(OnTheWay, Range1(queue))'
    BY <1>5, <1>6, <1>8, <1>9 DEF OrderInv, WaitingInv, KnownInv, Before
  <2>2. ASSUME enc \in Unsent PROVE Before(OnTheWay, {buffer})' /\ Before({buffer}, Range1(queue))'
    <3>1. buffer \in Packets
      BY <2>2 DEF Unsent, TypeInv, EncoderTypes
    <3>2. Before(OnTheWay, {buffer})'
      BY <1>1, <1>5, <1>9, <2>2 DEF OrderInv, WaitingInv, Before
    <3>3. buffer \in Range1(order)
      BY <3>1 DEF OrderInv, KnownInv
    <3>4. Before({buffer}, Range1(queue))'
      BY <1>1, <1>5, <1>6, <1>8, <2>2, <3>3 DEF OrderInv, WaitingInv, Before
    <3> QED
      BY <3>2, <3>4
  <2>3. (\A k, l \in 1..Len(queue) : k < l => PutBefore(queue[k], queue[l]))'
    <3> SUFFICES ASSUME NEW k \in 1..Len(queue'), NEW l \in 1..Len(queue'), k < l
                 PROVE  PutBefore(queue[k], queue[l])'
      OBVIOUS
    <3>0. Len(queue) \in Nat /\ Len(queue') = Len(queue) + 1
      BY <1>1
    <3>1. k \in 1..Len(queue) /\ queue'[k] = queue[k]
      <4>1. k \in 1..Len(queue)
        BY <3>0
      <4> QED
        BY <1>1, <4>1
    <3>2. CASE l \in 1..Len(queue)
      <4>1. queue'[l] = queue[l]
        BY <1>1, <3>2
      <4> QED
        <5>1. PutBefore(queue[k], queue[l])
          BY <3>1, <3>2 DEF OrderInv, WaitingInv
        <5>2. PICK q, z : q = queue[k] /\ z = queue[l]
          OBVIOUS
        <5>3. PutBefore(q, z)'
          <6>1. PutBefore(q, z)
            BY <5>1, <5>2 DEF PutBefore
          <6> QED
            BY <1>5, <6>1
        <5>4. queue'[k] = q /\ queue'[l] = z
          BY <3>1, <4>1, <5>2
        <5> QED
          BY <5>3, <5>4 DEF PutBefore
    <3>3. CASE l \notin 1..Len(queue)
      <4>1. queue'[l] = p
        <5>1. l = Len(queue) + 1
          BY <3>0, <3>3
        <5> QED
          BY <1>1, <5>1
      <4>2. queue[k] \in Range1(order)
        BY <3>1 DEF OrderInv, KnownInv, Range1
      <4> QED
        BY <1>6, <3>1, <4>1, <4>2 DEF PutBefore
    <3> QED
      BY <3>2, <3>3
  <2> QED
    BY <1>1, <2>1, <2>2, <2>3 DEF WaitingInv
<1>12. KnownInv'
  BY <1>1, <1>8, <1>9 DEF OrderInv, KnownInv
<1> QED
  BY <1>7, <1>10, <1>11, <1>12 DEF OrderInv

LEMMA OrderOthers ==
  ASSUME TypeInv, OrderInv,
         SquelchOpen \/ SquelchClose \/ (\E u \in Users : User(u)) \/ UNCHANGED vars
  PROVE  OrderInv'
<1>1. CASE \E u \in Users, p \in Packets : Put(u, p)
  BY <1>1, OrderPut
<1>2. CASE ~\E u \in Users, p \in Packets : Put(u, p)
  <2>1. UNCHANGED <<order, air, oq, bits, transmit, queue, buffer>>
    BY <1>2 DEF SquelchOpen, SquelchClose, User, Require, Initialized, Release, Slept, TestIdle,
         WaitIdle, WaitTxOff, TurnOff, vars, encoderVars, clockVars
  <2>2. enc' \in Unsent => enc \in Unsent
    BY <1>2 DEF SquelchOpen, SquelchClose, User, Require, Initialized, Release, Slept, TestIdle,
         WaitIdle, WaitTxOff, TurnOff, vars, encoderVars, Unsent, HasPacket
  <2> QED
    BY <2>1, <2>2, OrderUnchanged
<1> QED
  BY <1>1, <1>2

LEMMA OrderStep == TypeInv /\ PowerInv /\ KeyInv /\ OrderInv /\ [Next]_vars => OrderInv'
BY OrderEncoder, OrderClock, OrderOthers DEF Next

(* InOrder: on the air the packets come in the order in which the threads  *)
(* put them into the queue.                                                *)
THEOREM InOrderHolds == Spec => []InOrder
<1>1. TypeInv /\ OrderInv => InOrder
  <2> SUFFICES ASSUME TypeInv, OrderInv PROVE InOrder
    OBVIOUS
  <2>1. DOMAIN air = 1..Len(air)
    BY DEF TypeInv, AirTypes
  <2> QED
    BY <2>1 DEF OrderInv, WayInv, Ascending, InOrder
<1> QED
  BY <1>1, TypeInit, TypeStep, PowerInit, PowerStep, KeyInit, KeyStep, OrderInit, OrderStep, PTL
     DEF Spec

\* A packet is on the air once at most.
NoneTwice == \A i, j \in DOMAIN air : \A p \in Packets :
  air[i] = Data(p) /\ air[j] = Data(p) => i = j

(* No packet goes on the air twice, however many are put and whichever     *)
(* transmissions are joined (hdlc_encoder.c:121-222).                      *)
THEOREM NoneTwiceHolds == Spec => []NoneTwice
<1>1. TypeInv /\ OrderInv => NoneTwice
  <2> SUFFICES ASSUME TypeInv, OrderInv PROVE NoneTwice
    OBVIOUS
  <2>1. DOMAIN air = 1..Len(air) /\ DOMAIN order = 1..Len(order)
    BY DEF TypeInv, AirTypes
  <2>2. Len(order) \in Nat /\ Len(air) \in Nat
    BY DEF TypeInv, AirTypes
  <2>3. \A p \in Packets : ~PutBefore(p, p)
    <3> SUFFICES ASSUME NEW i \in 1..Len(order), NEW j \in 1..Len(order), i < j, order[i] = order[j]
                 PROVE  FALSE
      BY <2>1 DEF PutBefore
    <3>1. i = j
      BY DEF OrderInv, OnceInv
    <3> QED
      BY <2>2, <3>1
  <2>4. \A i, j \in 1..Len(air) : i = j \/ i < j \/ j < i
    BY <2>2
  <2> QED
    BY <2>1, <2>3, <2>4 DEF OrderInv, WayInv, Ascending, NoneTwice
<1> QED
  BY <1>1, TypeInit, TypeStep, PowerInit, PowerStep, KeyInit, KeyStep, OrderInit, OrderStep, PTL
     DEF Spec

=============================================================================
