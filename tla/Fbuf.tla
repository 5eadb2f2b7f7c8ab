------------------------------- MODULE Fbuf --------------------------------
(***************************************************************************)
(* The pool of packet buffers of fbuf.c.  A packet (FBUF) is a chain of    *)
(* slots of the pool; a slot counts the packets whose chain it is in.      *)
(* Packets may share slots: all of them (fbuf_newRef) or the tail of the   *)
(* chain (fbuf_connect, which first splits a slot in two).                 *)
(*                                                                         *)
(* A handle is an FBUF variable of some thread or a place of a queue.  The *)
(* threads that share slots are scheduled cooperatively, so each function  *)
(* of fbuf.c is one step and the steps of the handles interleave.          *)
(*                                                                         *)
(* The bytes of a slot past its length have no meaning and are left out:   *)
(* a slot's data has exactly "length" bytes.  So are the content and the   *)
(* next slot of a free slot: _fbuf_newslot sets them before it is used.    *)
(*                                                                         *)
(* Left out are calls that leave the array of slots: a header that runs    *)
(* over the last slot of its frame, and fbuf_connect without a free slot.  *)
(***************************************************************************)
EXTENDS Integers, Sequences, FiniteSets, SequencesExt

CONSTANTS
  Handles,    \* FBUF variables
  FBUF_SLOTS, \* slots in the pool
  SLOTSIZE,   \* FBUF_SLOTSIZE
  LengthSize, \* values of a slot's length, a uint8_t: 256
  HeaderPast, \* bytes by which AX25_HDR_LEN may exceed a frame: 1 when frames
              \* without a PID octet are repeated, 0 otherwise
  MaxLength,  \* bound: bytes written to one packet
  MaxReaders  \* bound: packets that are being read at the same time

ASSUME FbufAssumption ==
  /\ IsFiniteSet(Handles)
  /\ FBUF_SLOTS \in Nat \ {0}
  /\ SLOTSIZE \in Nat \ {0} /\ LengthSize \in Nat /\ SLOTSIZE < LengthSize
  /\ MaxLength \in Nat /\ MaxReaders \in Nat
  /\ HeaderPast \in 0..1

VARIABLES
  pool,        \* the slots: reference count, next slot, content
  free_slots,  \* _free_slots
  fb,          \* the FBUF records
  phase,       \* what the program uses each handle for
  text,        \* the bytes each packet is meant to have
  nread        \* how many of them its reader has passed; Unset: not valid

vars == <<pool, free_slots, fb, phase, text, nread>>

Slots == 0 .. FBUF_SLOTS - 1
NILPTR == FBUF_SLOTS
Unset == -1

Disposed ==
  [head |-> NILPTR, wslot |-> NILPTR, rslot |-> NILPTR, rpos |-> 0, length |-> 0]

FreeSlot == [refcnt |-> 0, next |-> NILPTR, data |-> << >>]
FreshSlot == [refcnt |-> 1, next |-> NILPTR, data |-> << >>]

Init ==
  /\ pool = [s \in Slots |-> FreeSlot]
  /\ free_slots = FBUF_SLOTS
  /\ fb = [h \in Handles |-> Disposed]
  /\ phase = [h \in Handles |-> "free"]
  /\ text = [h \in Handles |-> << >>]
  /\ nread = [h \in Handles |-> Unset]

----------------------------------------------------------------------------
(* Walks along a chain. *)

\* The chain of slots of p that starts at s.
ChainIn(p, s) ==
  LET chain[k \in 0..FBUF_SLOTS] ==
        IF k = 0 THEN << >>
        ELSE LET c == chain[k-1]
                 next == IF c = << >> THEN s ELSE p[Last(c)].next
             IN  IF next = NILPTR THEN c ELSE Append(c, next)
  IN  chain[FBUF_SLOTS]

Chain(s) == ChainIn(pool, s)
ChainOf(h) == Chain(fb[h].head)
InChain(h, s) == Contains(ChainOf(h), s)

\* How a loop over slots stands: the slot it is at and the bytes still to go.
\* Each round of the loop takes the length of the slot off the position.
Walk(s, pos, more(_, _), advance(_)) ==
  LET at[k \in 0..FBUF_SLOTS] ==
        IF k = 0 THEN [slot |-> s, off |-> pos]
        ELSE LET w == at[k-1]
                 left == w.off - Len(pool[w.slot].data)
             IN  IF w.slot # NILPTR /\ more(w.slot, w.off)
                   THEN [slot |-> IF advance(left) THEN pool[w.slot].next ELSE w.slot,
                         off |-> left]
                   ELSE w
  IN  at[FBUF_SLOTS]

\* The loop of fbuf_rseek: it stays in a slot when pos is the slot's length.
SeekPlace(h, pos) ==
  Walk(fb[h].head, pos, LAMBDA s, i : i > Len(pool[s].data), LAMBDA i : TRUE)

\* The loop of fbuf_connect: it takes every slot it passes for a full one.
SplitPlace(x, pos) ==
  Walk(fb[x].head, pos, LAMBDA s, p : p >= SLOTSIZE, LAMBDA p : p > 0)

\* _fbuf_newslot takes the first free slot.
FreeSet == {s \in Slots : pool[s].refcnt = 0}
FirstFree ==
  IF FreeSet = {} THEN NILPTR ELSE CHOOSE s \in FreeSet : \A t \in FreeSet : s <= t

----------------------------------------------------------------------------
Live == {h \in Handles : phase[h] # "free"}

New(h) ==
  /\ phase[h] = "free"
  /\ fb' = [fb EXCEPT ![h] = [Disposed EXCEPT !.head = FirstFree,
                                              !.wslot = FirstFree, !.rslot = FirstFree]]
  /\ pool' = IF FirstFree = NILPTR THEN pool ELSE [pool EXCEPT ![FirstFree] = FreshSlot]
  /\ free_slots' = IF FirstFree = NILPTR THEN free_slots ELSE free_slots - 1
  /\ phase' = [phase EXCEPT ![h] = "building"]
  /\ text' = [text EXCEPT ![h] = << >>]
  /\ nread' = [nread EXCEPT ![h] = 0]

\* A byte that is new to its slot chain; the code never looks at the bytes.
NextByte(h) == <<h, fb[h].length>>

Full(s) == Len(pool[s].data) = SLOTSIZE

PutChar(h) ==
  LET f == fb[h]
      full == Full(f.wslot)
      slot == IF full THEN FirstFree ELSE f.wslot
  IN
  /\ phase[h] = "building" /\ f.length < MaxLength
  /\ f.wslot # NILPTR /\ slot # NILPTR  \* otherwise the byte is dropped
  /\ pool' = IF full
       THEN [pool EXCEPT ![slot] = [FreshSlot EXCEPT !.data = <<NextByte(h)>>],
                         ![f.wslot].next = slot]
       ELSE [pool EXCEPT ![slot].data = Append(@, NextByte(h))]
  /\ free_slots' = IF full THEN free_slots - 1 ELSE free_slots
  /\ fb' = [fb EXCEPT ![h].wslot = slot, ![h].length = @ + 1]
  /\ text' = [text EXCEPT ![h] = Append(@, NextByte(h))]
  /\ UNCHANGED <<phase, nread>>

\* A slot that n packets fewer have.
Dropped(slot, n) ==
  IF slot.refcnt = n THEN FreeSlot ELSE [slot EXCEPT !.refcnt = @ - n]

(* Once a packet is read, shortened or shared nothing is written to it.    *)
Finished(h) == [phase EXCEPT ![h] = IF @ = "building" THEN "written" ELSE @]

(* Only a packet that is not shared is shortened: the receiver drops the   *)
(* checksum of a frame.  wslot may be left at a freed slot.                *)
RemoveLast(h) ==
  LET c == ChainOf(h)
      xlast == Last(c)
      prev == IF Len(c) > 1 THEN c[Len(c) - 1] ELSE xlast
      emptied == Len(pool[xlast].data) = 1 /\ prev # xlast
      cut == [pool EXCEPT ![xlast].data = Front(@)]
  IN
  /\ phase[h] \in {"building", "written"} /\ fb[h].length > 1
  /\ pool' = IF emptied
       THEN [cut EXCEPT ![xlast] = Dropped(@, 1), ![prev].next = NILPTR]
       ELSE cut
  /\ free_slots' = IF emptied /\ pool[xlast].refcnt = 1 THEN free_slots + 1 ELSE free_slots
  /\ fb' = [fb EXCEPT ![h].length = @ - 1]
  /\ phase' = Finished(h)
  /\ text' = [text EXCEPT ![h] = Front(@)]
  /\ nread' = [nread EXCEPT ![h] = Unset]

(* g = fbuf_newRef(h).  No handle is written to once it is shared. *)
NewRef(h, g) ==
  /\ h \in Live /\ fb[h].length > 0
  /\ phase[g] = "free"
  /\ pool' = [s \in Slots |->
       IF InChain(h, s) THEN [pool[s] EXCEPT !.refcnt = @ + 1] ELSE pool[s]]
  /\ fb' = [fb EXCEPT ![g] = [fb[h] EXCEPT !.rslot = fb[h].head, !.rpos = 0]]
  /\ phase' = [phase EXCEPT ![h] = "shared", ![g] = "shared"]
  /\ text' = [text EXCEPT ![g] = text[h]]
  /\ nread' = [nread EXCEPT ![g] = 0]
  /\ UNCHANGED free_slots

\* Mutant: the reference count is not looked at.
UnsharedAll(h) == {s \in Slots : InChain(h, s)}

\* The slots that only h has.
Unshared(h) == {s \in Slots : InChain(h, s) /\ pool[s].refcnt = 1}

Release(h) ==
  /\ h \in Live
  /\ pool' = [s \in Slots |-> IF InChain(h, s) THEN Dropped(pool[s], 1) ELSE pool[s]]
  /\ free_slots' = free_slots + Cardinality(Unshared(h))
  /\ fb' = [fb EXCEPT ![h] = Disposed]
  /\ phase' = [phase EXCEPT ![h] = "free"]
  /\ text' = [text EXCEPT ![h] = << >>]
  /\ nread' = [nread EXCEPT ![h] = Unset]

----------------------------------------------------------------------------
(* fbuf_connect: b, a new header, continues with what x has from pos on. *)

\* What lies in the buffer of a slot behind the bytes that were put there.
Junk == <<Unset, Unset>>

\* The first p bytes of a slot that is cut at p, and those behind them.  When
\* p is past the end, a byte that nobody wrote belongs to the first part, and
\* the length of the second one wraps below zero.
Before(data, p) ==
  IF p <= Len(data) THEN SubSeq(data, 1, p) ELSE Append(data, Junk)

Behind(data, p) ==
  IF p <= Len(data) THEN SubSeq(data, p + 1, Len(data))
  ELSE [i \in 1 .. (Len(data) - p) % LengthSize |-> Junk]

\* Mutant: the new slot does not get the references of the old one.
SplitOne(s, p, new) ==
  IF p = 0 THEN pool
  ELSE [pool EXCEPT
         ![new] = [refcnt |-> 1, next |-> pool[s].next, data |-> Behind(pool[s].data, p)],
         ![s].next = new,
         ![s].data = Before(@, p)]

\* Mutant: the copy starts one byte early.
SplitEarly(s, p, new) ==
  IF p = 0 THEN pool
  ELSE [pool EXCEPT
         ![new] = [refcnt |-> pool[s].refcnt, next |-> pool[s].next,
                   data |-> SubSeq(pool[s].data, p, Len(pool[s].data) - 1)],
         ![s].next = new,
         ![s].data = Before(@, p)]

\* _split: a new slot takes what slot s has from p on.
Split(s, p, new) ==
  IF p = 0 THEN pool
  ELSE [pool EXCEPT
         ![new] = [refcnt |-> pool[s].refcnt, next |-> pool[s].next,
                   data |-> Behind(pool[s].data, p)],
         ![s].next = new,
         ![s].data = Before(@, p)]

\* Whoever cuts a frame cuts it at the length of its header, so a place that
\* is not in the slot was not cut off before: it is past the end of x.
Connect(b, x, pos) ==
  LET place == SplitPlace(x, pos)
      s == place.slot
      p == place.off
      new == FirstFree
      cut == Split(s, p, new)
      tail == IF p = 0 THEN Chain(pool[s].next) ELSE <<new>> \o Chain(pool[s].next)
      blast == Last(ChainOf(b))
  IN
  /\ b # x /\ x \in Live /\ phase[b] = "building" /\ fb[b].length > 0
  /\ fb[x].length > 0 /\ pos \in 1 .. fb[x].length + HeaderPast
  /\ s # NILPTR /\ (p <= Len(pool[s].data) \/ pos > fb[x].length)
  /\ p > 0 => new # NILPTR
  /\ pool' = [t \in Slots |->
       IF t = blast
         THEN [cut[t] EXCEPT !.next = IF tail = << >> THEN NILPTR ELSE Head(tail)]
       ELSE IF Contains(tail, t)
         THEN [cut[t] EXCEPT !.refcnt = @ + 1]
       ELSE cut[t]]
  /\ free_slots' = IF p = 0 THEN free_slots ELSE free_slots - 1
  /\ fb' = [fb EXCEPT ![b].wslot = NILPTR, ![x].wslot = NILPTR,
                      ![b].length = @ + fb[x].length - pos]
  /\ phase' = [phase EXCEPT ![b] = "shared", ![x] = "shared"]
  /\ text' = [text EXCEPT ![b] = @ \o SubSeq(text[x], pos + 1, Len(text[x]))]
  /\ UNCHANGED nread

----------------------------------------------------------------------------
(* Reading. *)

MayRead(h) == Cardinality({g \in Handles \ {h} : nread[g] > 0}) < MaxReaders

Reset(h) ==
  /\ h \in Live /\ fb[h].length > 0
  /\ fb' = [fb EXCEPT ![h].rslot = fb[h].head, ![h].rpos = 0]
  /\ nread' = [nread EXCEPT ![h] = 0]
  /\ phase' = Finished(h)
  /\ UNCHANGED <<pool, free_slots, text>>

Rseek(h, pos) ==
  LET place == SeekPlace(h, pos) IN
  /\ h \in Live /\ MayRead(h)
  /\ pos \in 0 .. fb[h].length - 1
  /\ fb' = [fb EXCEPT ![h].rslot = place.slot, ![h].rpos = place.off]
  /\ nread' = [nread EXCEPT ![h] = pos]
  /\ phase' = Finished(h)
  /\ UNCHANGED <<pool, free_slots, text>>

\* Mutant: the slot is left one byte late.
AtSlotEndLate(f) == f.rpos = Len(pool[f.rslot].data)

AtSlotEnd(f) == f.rpos = Len(pool[f.rslot].data) - 1

GetChar(h) ==
  LET f == fb[h] IN
  /\ h \in Live /\ MayRead(h)
  /\ nread[h] \in 0 .. Len(text[h]) - 1
  /\ fb' = IF AtSlotEnd(f)
             THEN [fb EXCEPT ![h].rslot = pool[f.rslot].next, ![h].rpos = 0]
             ELSE [fb EXCEPT ![h].rpos = @ + 1]
  /\ nread' = [nread EXCEPT ![h] = @ + 1]
  /\ phase' = Finished(h)
  /\ UNCHANGED <<pool, free_slots, text>>

\* fbuf_read: up to size bytes from the start; all of them when size is 0.
Read(h, size) ==
  LET want == IF fb[h].length < size \/ size = 0 THEN fb[h].length ELSE size
      c == ChainOf(h)
      read[k \in 0..Len(c)] ==
        IF k = 0 THEN << >>
        ELSE LET done == read[k-1]
                 data == pool[c[k]].data
                 rest == IF want - Len(done) < Len(data) THEN want - Len(done) ELSE Len(data)
             IN  done \o SubSeq(data, 1, rest)
  IN  read[Len(c)]

----------------------------------------------------------------------------
Next ==
  \E h \in Handles :
    \/ New(h) \/ PutChar(h) \/ RemoveLast(h) \/ Release(h)
    \/ Reset(h) \/ GetChar(h)
    \/ \E pos \in 0..2*MaxLength : Rseek(h, pos)
    \/ \E g \in Handles : NewRef(h, g)
    \/ \E x \in Handles, pos \in 1..2*MaxLength : Connect(h, x, pos)

Spec == Init /\ [][Next]_vars

----------------------------------------------------------------------------
SlotIndex == Slots \cup {NILPTR}

Bytes == Handles \X (0..MaxLength-1)

TypeOK ==
  /\ pool \in [Slots -> [refcnt : 0..Cardinality(Handles), next : SlotIndex,
                         data : Seq(Bytes)]]
  /\ \A s \in Slots : Len(pool[s].data) <= SLOTSIZE
  /\ free_slots \in 0..FBUF_SLOTS
  /\ fb \in [Handles -> [head : SlotIndex, wslot : SlotIndex, rslot : SlotIndex,
                         rpos : Nat, length : Nat]]
  /\ phase \in [Handles -> {"free", "building", "written", "shared"}]
  /\ \A h \in Handles : nread[h] \in {Unset} \cup (0..Len(text[h]))

(***************************************************************************)
(* A slot's reference count is the number of packets whose chain it is in. *)
(* So no packet in use has a slot that another one may be given, and a     *)
(* slot that no packet has is free again: none leaks (fbuf.c:105-140,      *)
(* 248-293).                                                               *)
(***************************************************************************)
RefExact ==
  \A s \in Slots : pool[s].refcnt = Cardinality({h \in Live : InChain(h, s)})

(***************************************************************************)
(* The counter behind fbuf_freeSlots and fbuf_usedSlots is exact, whatever *)
(* is split, shared or released (fbuf.c:32, 82, 113, 426).                 *)
(***************************************************************************)
FreeExact == free_slots = Cardinality(FreeSet)

(***************************************************************************)
(* "Do this non-destructively" (digipeater.c:206): however packets share   *)
(* their slots, and whatever is done with the others, reading a packet     *)
(* (fbuf_read) gives the bytes that were put into it, in order.            *)
(***************************************************************************)
ContentKept ==
  \A h \in Live :
    /\ fb[h].length = Len(text[h])
    /\ \A n \in 0..Len(text[h]) :
         Read(h, n) = IF n = 0 THEN text[h] ELSE SubSeq(text[h], 1, n)

\* What the slots of a chain c hold together.
Content(p, c) ==
  LET content[k \in 0..Len(c)] ==
        IF k = 0 THEN << >> ELSE content[k-1] \o p[c[k]].data
  IN  content[Len(c)]

\* Bytes of h's chain in the slots before the i-th.
BytesBefore(h, i) == Len(Content(pool, SubSeq(ChainOf(h), 1, i - 1)))

\* The reader stands in a slot, not behind its last byte.
AtByte(h) == fb[h].rslot # NILPTR /\ fb[h].rpos < Len(pool[fb[h].rslot].data)

(***************************************************************************)
(* A reader that stands at a byte stands at the one it is to read next,    *)
(* and one that is at NILPTR, which is fbuf_eof, has read the whole packet *)
(* - also when other threads share, split and release the slots it reads   *)
(* (fbuf.c:159-171, 329-340).  It may stand at no byte at all: the three   *)
(* properties below say how it comes there.                                *)
(***************************************************************************)
ReaderOK(h) ==
  nread[h] # Unset /\ text[h] # << >> =>
    /\ fb[h].rslot = NILPTR => nread[h] = Len(text[h])
    /\ AtByte(h) =>
         LET c == ChainOf(h) IN
         \E i \in 1..Len(c) :
           fb[h].rslot = c[i] /\ nread[h] = BytesBefore(h, i) + fb[h].rpos

ReaderExact == \A h \in Live : ReaderOK(h)

(***************************************************************************)
(* "we get two buffers, with different headers but with a shared last      *)
(* part" (fbuf.c:241-242): whoever has read such a buffer to its last byte *)
(* is at the end of it, so that the encoder's loop over it stops.  Broken  *)
(* when nothing is behind the header: the split leaves an empty slot.      *)
(***************************************************************************)
EofAtEnd ==
  \A h \in Live : nread[h] = Len(text[h]) /\ text[h] # << >> => fb[h].rslot = NILPTR

(***************************************************************************)
(* "reset or set read position of a buffer chain" (fbuf.c:144): wherever   *)
(* in a packet fbuf_rseek puts the reader, it stands at a byte.  Broken    *)
(* for a position at the boundary of two slots (hdlc_decoder.c:171).       *)
(***************************************************************************)
RseekExact ==
  \A h \in Live : \A pos \in 0 .. fb[h].length - 1 :
    LET place == SeekPlace(h, pos) IN place.off < Len(pool[place.slot].data)

(***************************************************************************)
(* "Do this non-destructively" (digipeater.c:206): that a frame gets a new *)
(* header moves no reader of another packet off its byte.  Broken for one  *)
(* that stands in the slot that is cut, behind the place of the cut.       *)
(***************************************************************************)
ReaderKept ==
  [][\A h, b, x \in Handles : \A pos \in 1..2*MaxLength :
       Connect(b, x, pos) /\ h \notin {b, x} /\ AtByte(h) => AtByte(h)']_vars

=============================================================================
