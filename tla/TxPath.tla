------------------------------ MODULE TxPath -------------------------------
(***************************************************************************)
(* The way of a packet out of the tracker: encoder thread                  *)
(* (hdlc_encoder.c), bit clock interrupt (afsk_tx.c) and transceiver       *)
(* (sr_frs.c), with the threads that need the transceiver.                 *)
(*                                                                         *)
(* The encoder takes packets from its queue, waits until the transceiver   *)
(* is on and the channel free, and puts the bytes of one transmission into *)
(* a byte queue; the bit clock empties that queue and keys the             *)
(* transmitter while there is something in it.  radio_release, holding     *)
(* radio_mutex, turns the transceiver off when the last user is done, and  *)
(* has to wait for both.                                                   *)
(*                                                                         *)
(* The preamble and the tail are one flag each and the content of a frame  *)
(* is one symbol; no packet monitor is attached to the encoder; the        *)
(* encoder's queue is the first-in first-out queue that Fbq implements.    *)
(***************************************************************************)
EXTENDS Integers, Sequences, FiniteSets, SequencesExt

CONSTANTS
  Users,        \* threads that call radio_require and radio_release
  Packets,      \* each is put into the encoder's queue at most once
  None,         \* no packet, no thread, no byte
  QueueSize,    \* HDLC_ENCODER_QUEUE_SIZE
  OqSize,       \* AFSK_TX_QUEUE_SIZE
  MaxFrame      \* the parameter MAXFRAME

ASSUME TxAssumption ==
  /\ IsFiniteSet(Users) /\ IsFiniteSet(Packets)
  /\ None \notin Users \cup Packets
  /\ QueueSize \in Nat \ {0} /\ OqSize \in Nat \ {0} /\ MaxFrame \in Nat \ {0}

VARIABLES
  \* encoder
  queue, buffer,       \* encoder_queue; the packet being sent, None at its end
  enc,                 \* where the encoder thread stands
  frames,              \* i: frames sent in this transmission
  hdlc_idle, enc_idle, \* the flag, and the semaphore that signals it
  \* bit clock
  oq, bits,            \* byte queue; byte being sent
  transmit,
  \* transceiver
  on, radio_rdy,       \* _on: powered; initialised
  ptt,                 \* the PTT pin
  tx_off,              \* semaphore: TRUE when it can be taken
  channel_rdy,         \* squelch closed (the opposite of _sq_on)
  count, mutex,        \* radio_mutex: the thread that holds it
  isr_waits,           \* TRUE once the bit clock interrupt has had to wait:
                       \* the processor is stuck, and the rest means nothing
  \* users
  user,                \* where each thread stands
  own,                 \* the packets it has put since it required the radio
  \* history
  order, air           \* the packets as they were put; what was on the air

encoderVars == <<queue, buffer, enc, frames, hdlc_idle, enc_idle>>
clockVars == <<oq, bits, transmit>>
radioVars == <<on, radio_rdy, ptt, tx_off, channel_rdy, count, mutex, isr_waits>>
vars == <<encoderVars, clockVars, radioVars, user, own, order, air>>

Flag == <<"flag", None>>
Data(p) == <<"data", p>>
Fcs(p) == <<"fcs", p>>
Keyed == <<"keyed", None>>      \* not a byte: the transmitter is keyed
Unkeyed == <<"unkeyed", None>>

Init ==
  /\ queue = << >> /\ buffer = None /\ enc = "fetch" /\ frames = 0
  /\ hdlc_idle = TRUE /\ enc_idle = TRUE
  /\ oq = << >> /\ bits = None /\ transmit = FALSE
  /\ on = FALSE /\ radio_rdy = FALSE /\ ptt = FALSE /\ tx_off = FALSE
  /\ channel_rdy = TRUE /\ count = 0 /\ mutex = None /\ isr_waits = FALSE
  /\ user = [u \in Users |-> "out"] /\ own = [u \in Users |-> {}]
  /\ order = << >> /\ air = << >>

----------------------------------------------------------------------------
(* Encoder thread. *)

Fetch ==
  /\ enc = "fetch" /\ queue # << >>
  /\ buffer' = Head(queue) /\ queue' = Tail(queue)
  /\ enc' = "enable"
  /\ UNCHANGED <<frames, hdlc_idle, enc_idle, clockVars, radioVars, user, own, order, air>>

\* Mutant: radio_wait_enabled does not take radio_mutex.
EnableUnlocked ==
  /\ enc = "enable" /\ radio_rdy
  /\ hdlc_idle' = FALSE
  /\ enc' = "channel"
  /\ UNCHANGED <<queue, buffer, frames, enc_idle, clockVars, radioVars, user, own, order, air>>

(* radio_wait_enabled, up to the statement after it. *)
Enable ==
  /\ enc = "enable" /\ mutex = None /\ radio_rdy
  /\ hdlc_idle' = FALSE
  /\ enc' = "channel"
  /\ UNCHANGED <<queue, buffer, frames, enc_idle, clockVars, radioVars, user, own, order, air>>

WaitEnabled ==
  /\ enc = "enable" /\ mutex = None /\ ~radio_rdy
  /\ enc' = "enable_wait"
  /\ UNCHANGED <<queue, buffer, frames, hdlc_idle, enc_idle,
                 clockVars, radioVars, user, own, order, air>>

(* wait_channel_ready and the persistence draw that follows it. *)
ChannelFree ==
  /\ enc = "channel" /\ channel_rdy
  /\ enc' = "preamble" /\ frames' = 0
  /\ UNCHANGED <<queue, buffer, hdlc_idle, enc_idle,
                 clockVars, radioVars, user, own, order, air>>

ChannelBusy ==
  /\ enc = "channel" /\ ~channel_rdy
  /\ enc' = "channel_block"
  /\ UNCHANGED <<queue, buffer, frames, hdlc_idle, enc_idle,
                 clockVars, radioVars, user, own, order, air>>

\* Nothing is locked against the squelch interrupt between test and wait.
ChannelBlock ==
  /\ enc = "channel_block"
  /\ enc' = "channel_wait"
  /\ UNCHANGED <<queue, buffer, frames, hdlc_idle, enc_idle,
                 clockVars, radioVars, user, own, order, air>>

(* oqPut, which waits while the byte queue is full. *)
OqPut(b) == Len(oq) < OqSize /\ oq' = Append(oq, b)

Preamble ==
  /\ enc = "preamble" /\ OqPut(Flag)
  /\ enc' = "frame"
  /\ UNCHANGED <<queue, buffer, frames, hdlc_idle, enc_idle,
                 bits, transmit, radioVars, user, own, order, air>>

(* The content of a frame; fbuf_release when its end is reached. *)
Frame ==
  /\ enc = "frame" /\ OqPut(Data(buffer))
  /\ enc' = "fcs"
  /\ UNCHANGED <<queue, buffer, frames, hdlc_idle, enc_idle,
                 bits, transmit, radioVars, user, own, order, air>>

\* The loop ends: i is less than maxfr whenever it is tested in its body.
More == queue # << >> /\ frames < MaxFrame

FrameCheck ==
  /\ enc = "fcs" /\ OqPut(Fcs(buffer))
  /\ buffer' = None
  /\ enc' = IF More THEN "between" ELSE "tail"
  /\ UNCHANGED <<queue, frames, hdlc_idle, enc_idle,
                 bits, transmit, radioVars, user, own, order, air>>

\* Mutant: no flag between two frames.
BetweenNoFlag ==
  /\ enc = "between"
  /\ buffer' = Head(queue) /\ queue' = Tail(queue)
  /\ frames' = frames + 1
  /\ enc' = IF frames' < MaxFrame THEN "frame" ELSE "tail"
  /\ UNCHANGED <<hdlc_idle, enc_idle, clockVars, radioVars, user, own, order, air>>

\* Mutant: the packet is read from the queue and left there.
BetweenPeek ==
  /\ enc = "between" /\ OqPut(Flag)
  /\ buffer' = Head(queue)
  /\ frames' = frames + 1
  /\ enc' = IF frames' < MaxFrame THEN "frame" ELSE "tail"
  /\ UNCHANGED <<queue, hdlc_idle, enc_idle, bits, transmit, radioVars, user, own, order, air>>

(* Flag, next packet, and the test of the for loop. *)
Between ==
  /\ enc = "between" /\ OqPut(Flag)
  /\ buffer' = Head(queue) /\ queue' = Tail(queue)
  /\ frames' = frames + 1
  /\ enc' = IF frames' < MaxFrame THEN "frame" ELSE "tail"
  /\ UNCHANGED <<hdlc_idle, enc_idle, bits, transmit, radioVars, user, own, order, air>>

\* Mutant: SIGNAL_IDLE is missing.
PostambleSilent ==
  /\ enc = "tail" /\ OqPut(Flag)
  /\ transmit
  /\ hdlc_idle' = TRUE
  /\ enc' = "pause"
  /\ UNCHANGED <<queue, buffer, frames, enc_idle, bits, transmit, radioVars,
                 user, own, order, air>>

(* The last byte; the encoder is idle again and sleeps for 50 ms.  The bit *)
(* clock has ticked since the first byte, and has keyed the transmitter.   *)
Postamble ==
  /\ enc = "tail" /\ OqPut(Flag)
  /\ transmit
  /\ hdlc_idle' = TRUE /\ enc_idle' = TRUE
  /\ enc' = "pause"
  /\ UNCHANGED <<queue, buffer, frames, bits, transmit, radioVars, user, own, order, air>>

Pause ==
  /\ enc = "pause"
  /\ enc' = "fetch"
  /\ UNCHANGED <<queue, buffer, frames, hdlc_idle, enc_idle,
                 clockVars, radioVars, user, own, order, air>>

Encoder ==
  \/ Fetch \/ Enable \/ WaitEnabled \/ ChannelFree \/ ChannelBusy \/ ChannelBlock
  \/ Preamble \/ Frame \/ FrameCheck \/ Between \/ Postamble \/ Pause

----------------------------------------------------------------------------
(* Bit clock interrupt, a byte at a time. *)

(* radio_PTT(on); nothing happens while the transceiver is off. *)
KeyOn ==
  IF ~on THEN UNCHANGED <<ptt, tx_off, isr_waits, air>>
  ELSE IF tx_off
    THEN /\ ptt' = TRUE /\ tx_off' = FALSE /\ air' = Append(air, Keyed)
         /\ UNCHANGED isr_waits
    ELSE isr_waits' = TRUE /\ UNCHANGED <<ptt, tx_off, air>>

KeyOff ==
  IF ~on THEN UNCHANGED <<ptt, tx_off>> ELSE ptt' = FALSE /\ tx_off' = TRUE

OnAir(b) == IF ptt THEN Append(air, b) ELSE air

TxStart ==
  /\ ~transmit /\ oq # << >>
  /\ bits' = Head(oq) /\ oq' = Tail(oq)
  /\ transmit' = TRUE
  /\ KeyOn
  /\ UNCHANGED <<encoderVars, on, radio_rdy, channel_rdy, count, mutex, user, own, order>>

TxNext ==
  /\ transmit /\ oq # << >>
  /\ air' = OnAir(bits)
  /\ bits' = Head(oq) /\ oq' = Tail(oq)
  /\ UNCHANGED <<encoderVars, transmit, radioVars, user, own, order>>

(* The byte queue is empty.  A byte lasts 6.7 ms, in which the encoder     *)
(* makes many: it runs empty at the end of a transmission only.            *)
TxEnd ==
  /\ transmit /\ oq = << >>
  /\ enc \notin {"preamble", "frame", "fcs", "between", "tail"}
  /\ air' = IF ptt THEN air \o <<bits, Unkeyed>> ELSE air
  /\ bits' = None
  /\ transmit' = FALSE
  /\ KeyOff
  /\ UNCHANGED <<encoderVars, oq, on, radio_rdy, channel_rdy, count, mutex,
                 isr_waits, user, own, order>>

BitClock == TxStart \/ TxNext \/ TxEnd

(* squelch_handler *)
SquelchOpen ==
  /\ channel_rdy /\ radio_rdy
  /\ channel_rdy' = FALSE
  /\ UNCHANGED <<encoderVars, clockVars, on, radio_rdy, ptt, tx_off, count, mutex,
                 isr_waits, user, own, order, air>>

SquelchClose ==
  /\ ~channel_rdy
  /\ channel_rdy' = TRUE
  /\ enc' = IF enc = "channel_wait" THEN "channel" ELSE enc
  /\ UNCHANGED <<queue, buffer, frames, hdlc_idle, enc_idle, clockVars,
                 on, radio_rdy, ptt, tx_off, count, mutex, isr_waits, user, own, order, air>>

----------------------------------------------------------------------------
(* The threads that use the transceiver. *)

Put(u, p) ==
  /\ user[u] \in {"out", "in"}
  /\ ~\E k \in DOMAIN order : order[k] = p
  /\ Len(queue) < QueueSize
  /\ queue' = Append(queue, p) /\ order' = Append(order, p)
  /\ own' = [own EXCEPT ![u] = IF user[u] = "in" THEN @ \cup {p} ELSE @]
  /\ UNCHANGED <<buffer, enc, frames, hdlc_idle, enc_idle, clockVars, radioVars, user, air>>

(* radio_require; the first user turns the transceiver on, which keys it   *)
(* off and then takes more than half a second, with radio_mutex held.      *)
Require(u) ==
  /\ user[u] = "out" /\ mutex = None
  /\ count' = count + 1
  /\ own' = [own EXCEPT ![u] = {}]
  /\ IF count' = 1 /\ ~on
       THEN /\ on' = TRUE
            /\ ptt' = FALSE /\ tx_off' = TRUE
            /\ mutex' = u
            /\ user' = [user EXCEPT ![u] = "starting"]
       ELSE /\ user' = [user EXCEPT ![u] = "in"]
            /\ UNCHANGED <<on, ptt, tx_off, mutex>>
  /\ UNCHANGED <<encoderVars, clockVars, radio_rdy, channel_rdy, isr_waits, order, air>>

(* The end of _initialize: the transceiver is ready. *)
Initialized(u) ==
  /\ user[u] = "starting"
  /\ radio_rdy' = TRUE
  /\ enc' = IF enc = "enable_wait" THEN "enable" ELSE enc
  /\ mutex' = None
  /\ user' = [user EXCEPT ![u] = "in"]
  /\ UNCHANGED <<queue, buffer, frames, hdlc_idle, enc_idle, clockVars,
                 on, ptt, tx_off, channel_rdy, count, isr_waits, own, order, air>>

\* Who puts a packet sleeps before it calls radio_release: an encoder that
\* can run has run.
EncoderBlocked ==
  /\ ~(enc = "fetch" /\ queue # << >>)
  /\ ~(enc = "enable" /\ mutex = None)

\* Mutant: any user's release turns the transceiver off.
AnyUser == count >= 1

LastUser == count = 1

(* radio_release; when count is 0 it sleeps 60 ms, with radio_mutex held.  *)
Release(u) ==
  /\ user[u] = "in" /\ mutex = None /\ EncoderBlocked
  /\ count' = IF count > 0 THEN count - 1 ELSE 0
  /\ IF LastUser
       THEN mutex' = u /\ user' = [user EXCEPT ![u] = "sleep"]
       ELSE user' = [user EXCEPT ![u] = "out"] /\ UNCHANGED mutex
  /\ UNCHANGED <<encoderVars, clockVars, on, radio_rdy, ptt, tx_off, channel_rdy,
                 isr_waits, own, order, air>>

\* The bit clock has ticked many times in 60 ms.
Slept(u) ==
  /\ user[u] = "sleep" /\ (transmit \/ oq = << >>)
  /\ user' = [user EXCEPT ![u] = "idle"]
  /\ UNCHANGED <<encoderVars, clockVars, radioVars, own, order, air>>

(* hdlc_wait_idle: while not idle, take the semaphore. *)
TestIdle(u) ==
  /\ user[u] = "idle"
  /\ user' = [user EXCEPT ![u] = IF hdlc_idle THEN "tx_off" ELSE "idle_wait"]
  /\ UNCHANGED <<encoderVars, clockVars, radioVars, own, order, air>>

WaitIdle(u) ==
  /\ user[u] = "idle_wait" /\ enc_idle
  /\ enc_idle' = FALSE
  /\ user' = [user EXCEPT ![u] = "idle"]
  /\ UNCHANGED <<queue, buffer, enc, frames, hdlc_idle, clockVars, radioVars,
                 own, order, air>>

\* Mutant: radio_release does not wait until the transmitter is off.
WaitTxOffSkipped(u) ==
  /\ user[u] = "tx_off"
  /\ user' = [user EXCEPT ![u] = "stopping"]
  /\ UNCHANGED <<encoderVars, clockVars, radioVars, own, order, air>>

(* WAIT_TX_OFF *)
WaitTxOff(u) ==
  /\ user[u] = "tx_off" /\ tx_off
  /\ tx_off' = FALSE
  /\ user' = [user EXCEPT ![u] = "stopping"]
  /\ UNCHANGED <<encoderVars, clockVars, on, radio_rdy, ptt, channel_rdy, count, mutex,
                 isr_waits, own, order, air>>

TurnOff(u) ==
  /\ user[u] = "stopping"
  /\ on' = FALSE /\ radio_rdy' = FALSE
  /\ mutex' = None
  /\ user' = [user EXCEPT ![u] = "out"]
  /\ UNCHANGED <<encoderVars, clockVars, ptt, tx_off, channel_rdy, count, isr_waits,
                 own, order, air>>

User(u) ==
  \/ \E p \in Packets : Put(u, p)
  \/ Require(u) \/ Initialized(u) \/ Release(u)
  \/ Slept(u) \/ TestIdle(u) \/ WaitIdle(u) \/ WaitTxOff(u) \/ TurnOff(u)

----------------------------------------------------------------------------
Next ==
  \/ Encoder \/ BitClock
  \/ SquelchOpen \/ SquelchClose
  \/ \E u \in Users : User(u)

Spec == Init /\ [][Next]_vars

(***************************************************************************)
(* The encoder is a ready thread, the bit clock a timer, and a thread that *)
(* turns the transceiver on or off goes on with it.  Nobody has to send a  *)
(* packet or to release the transceiver, and nothing is assumed of the     *)
(* traffic on the channel: it may stay silent or busy for ever.  Draws for *)
(* the persistence do not fail for ever.                                   *)
(***************************************************************************)
Fairness ==
  /\ WF_vars(Encoder) /\ WF_vars(BitClock)
  /\ \A u \in Users : WF_vars(Initialized(u) \/ Slept(u) \/ TestIdle(u) \/ WaitIdle(u)
                            \/ WaitTxOff(u) \/ TurnOff(u))

FairSpec == Spec /\ Fairness

----------------------------------------------------------------------------
Symbols == {Flag} \cup {Data(p) : p \in Packets} \cup {Fcs(p) : p \in Packets}

TypeOK ==
  /\ queue \in Seq(Packets) /\ Len(queue) <= QueueSize /\ buffer \in Packets \cup {None}
  /\ enc \in {"fetch", "enable", "enable_wait", "channel", "channel_block", "channel_wait",
              "preamble", "frame", "fcs", "between", "tail", "pause"}
  /\ frames \in 0..MaxFrame
  /\ hdlc_idle \in BOOLEAN /\ enc_idle \in BOOLEAN
  /\ oq \in Seq(Symbols) /\ Len(oq) <= OqSize /\ bits \in Symbols \cup {None} /\ transmit \in BOOLEAN
  /\ on \in BOOLEAN /\ radio_rdy \in BOOLEAN /\ ptt \in BOOLEAN /\ tx_off \in BOOLEAN
  /\ channel_rdy \in BOOLEAN /\ count \in Nat /\ mutex \in Users \cup {None}
  /\ isr_waits \in BOOLEAN
  /\ user \in [Users -> {"out", "starting", "in", "sleep", "idle", "idle_wait", "tx_off",
                      "stopping"}]
  /\ own \in [Users -> SUBSET Packets]
  /\ order \in Seq(Packets) /\ air \in Seq(Symbols \cup {Keyed, Unkeyed})

(***************************************************************************)
(* A thread that has required the transceiver and not released it finds it *)
(* on and initialised, whatever the others require and release meanwhile   *)
(* (sr_frs.c:70-100).                                                      *)
(***************************************************************************)
UserHasRadio == \A u \in Users : user[u] = "in" => on /\ radio_rdy

(***************************************************************************)
(* The transmitter is never keyed with the power off, nor is the power cut *)
(* while it is keyed: radio_release waits on tx_off (sr_frs.c:89-96).      *)
(***************************************************************************)
KeyedMeansOn == ptt => on /\ ~tx_off

(***************************************************************************)
(* The bit clock interrupt calls radio_PTT, which waits on a semaphore.    *)
(* It never has to: the semaphore is free when a transmission starts       *)
(* (afsk_tx.c:102, sr_frs.c:253).                                          *)
(***************************************************************************)
InterruptNeverWaits == ~isr_waits

\* What may come after what on the air.
Follows(a, b) ==
  \/ a = Keyed /\ b = Flag
  \/ a = Flag /\ b \in {Flag, Unkeyed} \cup {Data(p) : p \in Packets}
  \/ \E p \in Packets : a = Data(p) /\ b = Fcs(p)
  \/ b = Flag /\ \E p \in Packets : a = Fcs(p)
  \/ a = Unkeyed /\ b = Keyed

(***************************************************************************)
(* What is on the air is whole transmissions: each starts and ends with a  *)
(* flag, every frame is followed by its own checksum and a flag, also when *)
(* a transmission joins the one before it or the transceiver is turned off *)
(* and on in between (hdlc_encoder.c:176-222, afsk_tx.c:69-113).           *)
(***************************************************************************)
WholeFrames == \A k \in 1..Len(air)-1 : Follows(air[k], air[k+1])

(***************************************************************************)
(* Packets go on the air in the order they were put into the queue, none   *)
(* twice (hdlc_encoder.c:121-222).                                         *)
(***************************************************************************)
PutBefore(p, q) == \E i, j \in DOMAIN order : i < j /\ order[i] = p /\ order[j] = q

InOrder ==
  \A i, j \in DOMAIN air : \A p, q \in Packets :
    i < j /\ air[i] = Data(p) /\ air[j] = Data(q) => PutBefore(p, q)

WaitsForChannel == enc \in {"channel", "channel_block", "channel_wait"}

(***************************************************************************)
(* radio_release returns, or else the encoder waits for the channel from   *)
(* some time on: the thread that turns the transceiver off, which holds    *)
(* radio_mutex and waits for the encoder, the encoder, which needs         *)
(* radio_mutex, and the bit clock do not wait for each other               *)
(* (sr_frs.c:93-96, hdlc_encoder.c:136-148).  Whether the channel lets the *)
(* encoder go on is the subject of NoWaitOnFree.                           *)
(***************************************************************************)
ReleaseReturns ==
  \A u \in Users : [](user[u] = "sleep" => <>(user[u] = "out" \/ []WaitsForChannel))

(***************************************************************************)
(* "starts the transmitter as soon as the channel is free"                 *)
(* (hdlc_encoder.c:116-117): the encoder does not sleep on a channel that  *)
(* is free.  Broken when the squelch closes between its test and its wait  *)
(* (sr_frs.c:214): nobody wakes it before the end of later traffic.        *)
(***************************************************************************)
NoWaitOnFree == enc = "channel_wait" => ~channel_rdy

(***************************************************************************)
(* "Before turning off transceiver, wait until Packet is sent and          *)
(* transmitter is turned off" (sr_frs.c:89-92): what the thread has put    *)
(* into the queue while it had the transceiver is no longer waiting.       *)
(***************************************************************************)
Pending == {p \in Packets : p = buffer \/ \E k \in DOMAIN queue : queue[k] = p}

SentBeforeOff == [][\A u \in Users : TurnOff(u) => own[u] \cap Pending = {}]_vars

(***************************************************************************)
(* "HDLC encode and transmit one or more frames" (hdlc_encoder.c:171): a   *)
(* packet that the encoder has taken from its queue has been sent when the *)
(* encoder turns to the queue again.  Broken for the packet taken after    *)
(* the last frame that MAXFRAME allows (hdlc_encoder.c:211).               *)
(***************************************************************************)
EveryFetchedEncoded == enc = "fetch" => buffer = None

=============================================================================
