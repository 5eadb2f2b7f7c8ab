------------------------------- MODULE Modem -------------------------------
(***************************************************************************)
(* A transmission on its way from one station to another: the bits that    *)
(* hdlc_encoder.c makes of its frames, the tones of afsk_tx.c, the clock   *)
(* recovery of afsk_rx.c and the frames that hdlc_decoder.c finds.  The    *)
(* filters are left out: a sample is 1 for the one tone, 0 for the other.  *)
(*                                                                         *)
(* A frame is a sequence of octets, its checksum included, an octet a      *)
(* sequence of eight bits in the order they are sent.                      *)
(*                                                                         *)
(* The clocks of the two stations differ: after the preamble a bit may be  *)
(* a sample longer or shorter than it should be, one in SlipGap bits.      *)
(* Assumed: the decoder has taken all bits it was given before the next    *)
(* sample, so the queue between them never fills.                          *)
(***************************************************************************)
EXTENDS Integers, Sequences, SequencesExt

CONSTANTS
  Transmissions,   \* sequences of frames
  TXDELAY, TXTAIL, \* flags before and after them
  MinOctets,       \* frames must be longer than that: AX25_HDR_LEN(0) + 2
  MaxOctets,       \* MAX_HDLC_FRAME_SIZE
  LengthSize,      \* values of the uint8_t in which crc_match gets the length
  FBUF_SLOTSIZE,   \* octets in a slot of a packet buffer
  Phases,          \* phases of the receiver when the transmission starts
  SlipGap          \* at most one of so many bits is too long or too short

ASSUME ModemAssumption ==
  /\ Transmissions \subseteq Seq(Seq(Seq({0, 1})))
  /\ TXDELAY \in 0..255 /\ TXTAIL \in 0..255
  /\ MinOctets \in Nat \ {0} /\ MaxOctets \in Nat
  /\ LengthSize \in Nat \ {0} /\ FBUF_SLOTSIZE \in Nat \ {0} /\ Phases \subseteq 0..63 /\ SlipGap \in Nat

VARIABLES
  sending,      \* the transmission
  bitsSent,     \* bits of it that have been given to the tone generator
  tone, samplesLeft,          \* the tone, and samples until the next bit
  sinceSlip,    \* bits since one that was too long or too short
  sampled_bits, \* the last three samples, the newest first
  curr_phase, found_bits,     \* clock; the last bit found, before NRZI
  octet,        \* bits of the octet add_bit is filling
  bits,         \* bits the decoder has got from the queue
  decoder,      \* where the decoder stands in its loops
  inframe, ones_count,          \* octets it has, the last perhaps not full; ones in a row
  received      \* history: frames with a right checksum

air == <<sending, bitsSent, tone, samplesLeft, sinceSlip>>
receiver == <<sampled_bits, curr_phase, found_bits, octet>>
hdlc == <<bits, decoder, inframe, ones_count, received>>
modem == <<air, receiver, hdlc>>

SAMPLESPERBIT == 8
PHASE_BITS == 8
PHASE_INC == 1
PHASE_MAX == 64
PHASE_THRESHOLD == 32

HDLC_FLAG == <<0, 1, 1, 1, 1, 1, 1, 0>>
Flag == 2      \* what get_bit returns for it

----------------------------------------------------------------------------
(* HDLC encoder. *)

FiveOnes(out) == Len(out) >= 5 /\ \A k \in (Len(out) - 4)..Len(out) : out[k] = 1

\* Mutant: ones are counted from the start of the octet.
StuffedPerOctet(out, byte) ==
  FoldLeft(LAMBDA o, b : IF FiveOnes(o) THEN o \o <<0, b>> ELSE Append(o, b), <<>>, byte)

\* hdlc_encode_byte: the bits after it.  In a byte that is not a flag a zero
\* is stuffed before a bit that follows five ones.
EncodeByte(out, byte) ==
  FoldLeft(LAMBDA o, b : IF FiveOnes(o) THEN o \o <<0, b>> ELSE Append(o, b), out, byte)

EncodeFlags(out, n) == out \o [k \in 1..(8 * n) |-> HDLC_FLAG[((k - 1) % 8) + 1]]

EncodeFrame(out, f) == FoldLeft(EncodeByte, out, f)

\* hdlc_encode_frames.  Of the last bits those that fill no byte are kept back.
Encoded(transmission) ==
  LET start == EncodeFlags(<< >>, TXDELAY)
      all == FoldLeft(LAMBDA o, k : EncodeFrame(IF k = 1 THEN o ELSE EncodeFlags(o, 1), transmission[k]),
                      start, [k \in DOMAIN transmission |-> k])
      end == EncodeFlags(all, TXTAIL)
  IN  SubSeq(end, 1, 8 * (Len(end) \div 8))

Stream == [t \in Transmissions |-> Encoded(t)]

----------------------------------------------------------------------------
\* The receiver has been listening, to noise, for a while.
ModemStart(transmission, phase, n) ==
  /\ sending = transmission /\ bitsSent = 0 /\ tone = 0 /\ samplesLeft = 0 /\ sinceSlip = SlipGap
  /\ sampled_bits = <<0, 0, 0>> /\ curr_phase = phase /\ found_bits = 0
  /\ octet = [k \in 1..n |-> 1]
  /\ bits = [k \in 1..7 |-> 1]
  /\ decoder = "flag_sync" /\ inframe = << >> /\ ones_count = 0 /\ received = << >>

ModemInit == \E t \in Transmissions, phase \in Phases, n \in {0, 3} : ModemStart(t, phase, n)

(* The bit clock: a zero changes the tone. *)
Toned == IF samplesLeft = 0 /\ Stream[sending][bitsSent + 1] = 0 THEN 1 - tone ELSE tone

SentAll == bitsSent = Len(Stream[sending]) /\ samplesLeft = 0

TxBitClock ==
  /\ ~SentAll
  /\ tone' = Toned
  /\ IF samplesLeft > 0
     THEN samplesLeft' = samplesLeft - 1 /\ UNCHANGED <<bitsSent, sinceSlip>>
     ELSE /\ bitsSent' = bitsSent + 1
          /\ \E slip \in {-1, 0, 1} :
               /\ slip # 0 => sinceSlip = SlipGap /\ bitsSent >= 8 * TXDELAY
               /\ samplesLeft' = SAMPLESPERBIT - 1 + slip
               /\ sinceSlip' = IF slip # 0 THEN 0
                               ELSE IF sinceSlip < SlipGap THEN sinceSlip + 1 ELSE SlipGap
  /\ UNCHANGED sending

----------------------------------------------------------------------------
(* AFSK receiver. *)

Majority(samples) == IF samples[1] + samples[2] + samples[3] >= 2 THEN 1 ELSE 0

\* add_bit
AddBit(b) ==
  IF Len(octet) < 7 THEN octet' = Append(octet, b) /\ UNCHANGED bits
  ELSE octet' = << >> /\ bits' = bits \o Append(octet, b)

\* At a transition the phase moves towards the threshold.
Nudged(phase) == IF phase < PHASE_THRESHOLD THEN phase + PHASE_INC ELSE phase - PHASE_INC

\* afsk_process_sample
ProcessSample(sample) ==
  LET samples == <<sample, sampled_bits[1], sampled_bits[2]>>
      phase == PHASE_BITS + IF samples[1] # samples[2] THEN Nudged(curr_phase) ELSE curr_phase
  IN  /\ sampled_bits' = samples
      /\ curr_phase' = phase % PHASE_MAX
      /\ IF phase < PHASE_MAX THEN UNCHANGED <<found_bits, octet, bits>>
         ELSE /\ found_bits' = Majority(samples)
              /\ AddBit(IF found_bits' = found_bits THEN 1 ELSE 0)

Sample ==
  /\ Len(bits) < 8
  /\ TxBitClock
  /\ ProcessSample(Toned)
  /\ UNCHANGED <<decoder, inframe, ones_count, received>>

----------------------------------------------------------------------------
(* HDLC decoder. *)

GotBit == IF SubSeq(bits, 1, 8) = HDLC_FLAG THEN Flag ELSE bits[1]

\* fbuf_rseek(length-2) finds the checksum, but not at the start of a slot
\* other than the first: it then leaves the reader past the end of the one before.
FcsFound(length) == length = 2 \/ (length - 2) % FBUF_SLOTSIZE # 0

\* crc_match: what was sent has a right checksum, and nothing else has, nor what
\* is read from elsewhere or when the length does not fit into its type.
CrcMatch(f) ==
  /\ Len(f) < LengthSize /\ FcsFound(Len(f))
  /\ \E t \in Transmissions : \E k \in DOMAIN t : t[k] = f

OctetFull == inframe # << >> /\ Len(Last(inframe)) = 8

Goto(label) == decoder' = label /\ UNCHANGED <<inframe, ones_count, received>>

\* The next bit goes into the octet, or into a new one.
Shift(b, newOctet, f, ones) ==
  /\ inframe' = IF newOctet THEN Append(f, <<b>>) ELSE Front(f) \o <<Append(Last(f), b)>>
  /\ ones_count' = IF b = 1 THEN ones + 1 ELSE 0
  /\ decoder' = "octet"
  /\ UNCHANGED received

FlagSync(b) == decoder = "flag_sync" /\ Goto(IF b = Flag THEN "frame_sync" ELSE "flag_sync")

FrameSync(b) ==
  /\ decoder = "frame_sync"
  /\ IF b = Flag THEN Goto("frame_sync") ELSE Shift(b, TRUE, << >>, 0)

\* The end of the loop over an octet, and of that over a frame.
NextBit(b, ones) ==
  IF b = Flag
  THEN /\ decoder' = "frame_sync"
       /\ received' = IF OctetFull /\ Len(inframe) > MinOctets /\ CrcMatch(inframe)
                      THEN Append(received, inframe) ELSE received
       /\ UNCHANGED <<inframe, ones_count>>
  ELSE IF OctetFull /\ Len(inframe) > MaxOctets THEN Goto("flag_sync")
  ELSE Shift(b, OctetFull, inframe, ones)

Octet(b) ==
  /\ decoder = "octet"
  /\ IF ones_count # 5 THEN NextBit(b, ones_count)
     ELSE IF b # 0 THEN Goto("flag_sync")
     ELSE decoder' = "skip" /\ ones_count' = 0 /\ UNCHANGED <<inframe, received>>

Skip(b) == decoder = "skip" /\ NextBit(b, ones_count)

(* The decoder thread, from one get_bit to the next. *)
Decode ==
  /\ Len(bits) >= 8
  /\ bits' = SubSeq(bits, IF GotBit = Flag THEN 9 ELSE 2, Len(bits))
  /\ FlagSync(GotBit) \/ FrameSync(GotBit) \/ Octet(GotBit) \/ Skip(GotBit)
  /\ UNCHANGED <<air, receiver>>

ModemNext == Sample \/ Decode

----------------------------------------------------------------------------
\* Frames whose last five bits are ones: no zero is stuffed before the flag.
EndsInOnes(f) == FiveOnes(EncodeFrame(<< >>, f))

NoneEndsInOnes == \A k \in DOMAIN sending : ~EndsInOnes(sending[k])

AllDecoded == SentAll /\ Len(bits) < 8

\* Frames whose checksum crc_match looks at in the right place.
Checkable(f) == Len(f) < LengthSize /\ FcsFound(Len(f))

(***************************************************************************)
(* "Important: Sample rate must be divisible by bitrate", "adjust the      *)
(* phase of our sampler to stay in sync with the transmitter",             *)
(* "Two consecutive frames may share the same flag" (afsk_rx.c:26,         *)
(* 246-247, hdlc_decoder.c:152): whatever the phase the receiver starts    *)
(* in, the frames of a transmission arrive, whole, in order and nothing    *)
(* else with them, if none of them ends in five ones - except those of 256 *)
(* octets and more, and those whose checksum begins a slot of the buffer   *)
(* (34, 66, 98 octets ...), which crc_match refuses.                       *)
(***************************************************************************)
FrameArrives ==
  AllDecoded /\ NoneEndsInOnes => received = SelectSeq(sending, Checkable)

(***************************************************************************)
(* The encoder is "responsible for computing checksum, bit stuffing and    *)
(* for adding flags at start and end of frames" (hdlc_encoder.c:172-173):  *)
(* what it sends, and crc_match can check, arrives.                        *)
(***************************************************************************)
StuffingComplete == AllDecoded => received = SelectSeq(sending, Checkable)

(***************************************************************************)
(* "Get FCS from 2 last bytes of frame" (hdlc_decoder.c:169): frames of    *)
(* any length the decoder accepts arrive.                                  *)
(***************************************************************************)
AnyLengthArrives == AllDecoded /\ NoneEndsInOnes => received = sending

=============================================================================
