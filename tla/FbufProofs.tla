----------------------------- MODULE FbufProofs -----------------------------
(***************************************************************************)
(* The pool of packet buffers, for any number of slots and of packets that *)
(* share them: reference counts are exact, no slot leaks, and each packet  *)
(* keeps its bytes.                                                        *)
(*                                                                         *)
(* A chain is a path of distinct slots to NILPTR.  What the recursive      *)
(* functions of Fbuf compute along it is shown by induction on its length, *)
(* which rests on the order of the natural numbers being well-founded.     *)
(***************************************************************************)
EXTENDS Fbuf, FiniteSetTheorems, SequenceTheorems, WellFoundedInduction, TLAPS

----------------------------------------------------------------------------
(* Induction and recursion up to n. *)

LEMMA Steps ==
  ASSUME NEW n \in Nat, NEW T \in SUBSET Nat, 0 \in T, \A k \in 0..n-1 : k \in T => k + 1 \in T
  PROVE  0..n \subseteq T
<1>1. SUFFICES ASSUME (0..n) \ T # {} PROVE FALSE
  OBVIOUS
<1> DEFINE R == {ss \in Nat \X Nat : ss[1] < ss[2]}
<1>2. PICK m \in (0..n) \ T : \A y \in (0..n) \ T : ~(<<y, m>> \in R)
  <2>1. (0..n) \ T \subseteq Nat
    OBVIOUS
  <2>2. IsWellFoundedOn(R, Nat)
    BY NatLessThanWellFounded DEF OpToRel
  <2> HIDE DEF R
  <2> QED
    BY <1>1, <2>1, <2>2, WFMin
<1>3. ASSUME NEW y \in (0..n) \ T, y < m PROVE FALSE
  <2>1. <<y, m>> \in Nat \X Nat /\ <<y, m>>[1] < <<y, m>>[2]
    BY <1>3
  <2>2. <<y, m>> \in R
    BY <2>1
  <2> QED
    BY <1>2, <2>2
<1>4. m \in 1..n /\ m - 1 \in 0..n-1
  BY <1>2
<1>5. m - 1 \in T
  BY <1>3, <1>4
<1>6. m - 1 + 1 = m
  BY <1>4
<1> QED
  BY <1>2, <1>4, <1>5, <1>6

\* f is a at 0, and G of k and f[k-1] at k.
Recursive(f, n, a, G) == f[0] = a /\ \A k \in 1..n : f[k] = G[<<k, f[k-1]>>]

LEMMA Recursion ==
  ASSUME NEW n \in Nat, NEW S, NEW a \in S, NEW G \in [(1..n) \X S -> S]
  PROVE  \E f \in [0..n -> S] : Recursive(f, n, a, G)
<1> DEFINE Upto(m) == \E f \in [0..m -> S] : f[0] = a /\ \A k \in 1..m : f[k] = G[<<k, f[k-1]>>]
           T == {m \in Nat : Upto(m)}
<1>1. Upto(0)
  <2>1. /\ [k \in 0..0 |-> a] \in [0..0 -> S]
        /\ [k \in 0..0 |-> a][0] = a /\ 1..0 = {}
    OBVIOUS
  <2> QED
    BY <2>1
<1>2. ASSUME NEW m \in 0..n-1, Upto(m) PROVE Upto(m + 1)
  <2>1. PICK f \in [0..m -> S] : f[0] = a /\ \A k \in 1..m : f[k] = G[<<k, f[k-1]>>]
    BY <1>2
  <2> DEFINE g == [k \in 0..m+1 |-> IF k = m + 1 THEN G[<<m + 1, f[m]>>] ELSE f[k]]
  <2>2. m + 1 \in 1..n /\ f[m] \in S
    OBVIOUS
  <2>3. G[<<m + 1, f[m]>>] \in S
    BY <2>2
  <2>4. g \in [0..m+1 -> S]
    BY <2>3
  <2>5. g[0] = a
    BY <2>1
  <2>6. ASSUME NEW k \in 1..m+1 PROVE g[k] = G[<<k, g[k-1]>>]
    <3>1. CASE k = m + 1
      <4>1. g[m + 1] = G[<<m + 1, f[m]>>] /\ g[m] = f[m] /\ k - 1 = m
        BY <3>1
      <4> QED
        BY <3>1, <4>1
    <3>2. CASE k # m + 1
      BY <2>1, <3>2
    <3> QED
      BY <3>1, <3>2
  <2> QED
    BY <2>4, <2>5, <2>6
<1>3. 0..n \subseteq T
  <2>1. 0 \in T
    BY <1>1
  <2>2. \A k \in 0..n-1 : k \in T => k + 1 \in T
    BY <1>2
  <2> HIDE DEF T
  <2> QED
    BY <2>1, <2>2, Steps DEF T
<1>4. n \in T
  BY <1>3
<1> QED
  BY <1>4 DEF Recursive

----------------------------------------------------------------------------
(* Sequences of distinct slots. *)

Distinct(c) == \A i, j \in 1..Len(c) : c[i] = c[j] => i = j

LEMMA SlotsFacts ==
  /\ FBUF_SLOTS \in Nat \ {0} /\ NILPTR \notin Slots
  /\ IsFiniteSet(Slots) /\ Cardinality(Slots) = FBUF_SLOTS
<1>1. FBUF_SLOTS \in Nat \ {0} /\ 0 \in Int /\ FBUF_SLOTS - 1 \in Int
  BY FbufAssumption
<1>2. IsFiniteSet(0..FBUF_SLOTS-1) /\ Cardinality(0..FBUF_SLOTS-1) = FBUF_SLOTS - 1 - 0 + 1
  BY <1>1, FS_Interval
<1> QED
  BY <1>1, <1>2 DEF Slots, NILPTR

\* No chain is longer than the pool.
LEMMA DistinctLength ==
  ASSUME NEW c \in Seq(Slots), Distinct(c)
  PROVE  Len(c) <= FBUF_SLOTS
<1>1. Len(c) \in Nat /\ c \in [1..Len(c) -> Slots]
  OBVIOUS
<1>2. c \in Injection(1..Len(c), Slots)
  BY <1>1 DEF Distinct, Injection, IsInjective
<1>3. Cardinality(1..Len(c)) = Len(c)
  <2>1. 1 \in Int /\ Len(c) \in Int
    BY <1>1
  <2>2. Cardinality(1..Len(c)) = IF 1 > Len(c) THEN 0 ELSE Len(c) - 1 + 1
    BY <2>1, FS_Interval
  <2> QED
    BY <1>1, <2>2
<1>4. Cardinality(1..Len(c)) <= Cardinality(Slots)
  BY <1>2, SlotsFacts, FS_Injection
<1> QED
  BY <1>3, <1>4, SlotsFacts

LEMMA ConcatFacts ==
  ASSUME NEW S, NEW c \in Seq(S), NEW d \in Seq(S)
  PROVE  /\ c \o d \in Seq(S) /\ Len(c \o d) = Len(c) + Len(d)
         /\ \A i \in 1..Len(c) : (c \o d)[i] = c[i]
         /\ \A i \in 1..Len(d) : Len(c) + i \in 1..Len(c \o d) /\ (c \o d)[Len(c) + i] = d[i]
         /\ \A i \in 1..Len(c \o d) : i \in 1..Len(c) \/ i - Len(c) \in 1..Len(d)
OBVIOUS

LEMMA ContainsConcat ==
  ASSUME NEW S, NEW c \in Seq(S), NEW d \in Seq(S)
  PROVE  \A s : Contains(c \o d, s) <=> Contains(c, s) \/ Contains(d, s)
<1> SUFFICES ASSUME NEW s PROVE Contains(c \o d, s) <=> Contains(c, s) \/ Contains(d, s)
  OBVIOUS
<1>1. Contains(c \o d, s) => Contains(c, s) \/ Contains(d, s)
  BY ConcatFacts DEF Contains
<1>2. Contains(c, s) => Contains(c \o d, s)
  BY ConcatFacts DEF Contains
<1>3. Contains(d, s) => Contains(c \o d, s)
  BY ConcatFacts DEF Contains
<1> QED
  BY <1>1, <1>2, <1>3

LEMMA DistinctConcat ==
  ASSUME NEW S, NEW c \in Seq(S), NEW d \in Seq(S)
  PROVE  Distinct(c \o d) <=>
           Distinct(c) /\ Distinct(d) /\ \A s : ~(Contains(c, s) /\ Contains(d, s))
<1>0. /\ Len(c) \in Nat /\ Len(d) \in Nat /\ Len(c \o d) = Len(c) + Len(d)
      /\ \A i \in 1..Len(c) : i \in 1..Len(c \o d) /\ (c \o d)[i] = c[i]
      /\ \A i \in 1..Len(d) : Len(c) + i \in 1..Len(c \o d) /\ (c \o d)[Len(c) + i] = d[i]
      /\ \A i \in 1..Len(c \o d) :
           i \in 1..Len(c) \/ (i - Len(c) \in 1..Len(d) /\ (c \o d)[i] = d[i - Len(c)])
  OBVIOUS
<1>1. ASSUME Distinct(c \o d) PROVE Distinct(c)
  BY <1>0, <1>1 DEF Distinct
<1>2. ASSUME Distinct(c \o d) PROVE Distinct(d)
  <2> SUFFICES ASSUME NEW i \in 1..Len(d), NEW j \in 1..Len(d), d[i] = d[j] PROVE i = j
    BY DEF Distinct
  <2>1. Len(c) + i = Len(c) + j
    BY <1>0, <1>2 DEF Distinct
  <2> QED
    BY <1>0, <2>1
<1>3. ASSUME Distinct(c \o d), NEW s, Contains(c, s), Contains(d, s) PROVE FALSE
  <2>1. PICK i \in 1..Len(c) : c[i] = s
    BY <1>3 DEF Contains
  <2>2. PICK j \in 1..Len(d) : d[j] = s
    BY <1>3 DEF Contains
  <2>3. i = Len(c) + j
    BY <1>0, <1>3, <2>1, <2>2 DEF Distinct
  <2> QED
    BY <1>0, <2>3
<1>4. ASSUME Distinct(c), Distinct(d), \A s : ~(Contains(c, s) /\ Contains(d, s))
      PROVE  Distinct(c \o d)
  <2> SUFFICES ASSUME NEW i \in 1..Len(c \o d), NEW j \in 1..Len(c \o d), (c \o d)[i] = (c \o d)[j]
               PROVE  i = j
    BY DEF Distinct
  <2>1. CASE i \in 1..Len(c) /\ j \in 1..Len(c)
    BY <1>0, <1>4, <2>1 DEF Distinct
  <2>2. CASE i \notin 1..Len(c) /\ j \notin 1..Len(c)
    <3>1. i - Len(c) = j - Len(c)
      BY <1>0, <1>4, <2>2 DEF Distinct
    <3> QED
      BY <1>0, <3>1
  <2>3. CASE i \in 1..Len(c) /\ j \notin 1..Len(c)
    <3>1. c[i] = d[j - Len(c)] /\ j - Len(c) \in 1..Len(d)
      BY <1>0, <2>3
    <3>2. Contains(c, c[i]) /\ Contains(d, c[i])
      BY <2>3, <3>1 DEF Contains
    <3> QED
      BY <1>4, <3>2
  <2>4. CASE i \notin 1..Len(c) /\ j \in 1..Len(c)
    <3>1. c[j] = d[i - Len(c)] /\ i - Len(c) \in 1..Len(d)
      BY <1>0, <2>4
    <3>2. Contains(c, c[j]) /\ Contains(d, c[j])
      BY <2>4, <3>1 DEF Contains
    <3> QED
      BY <1>4, <3>2
  <2> QED
    BY <2>1, <2>2, <2>3, <2>4
<1> QED
  BY <1>1, <1>2, <1>3, <1>4

----------------------------------------------------------------------------
(* Paths. *)

Pools == [Slots -> [refcnt : Nat, next : SlotIndex, data : Seq(Bytes)]]

\* A walk that starts at s and goes along c; the place where it has come to.
Along(p, s, c) == \A i \in 1..Len(c) : c[i] = IF i = 1 THEN s ELSE p[c[i-1]].next
After(p, s, c) == IF c = << >> THEN s ELSE p[c[Len(c)]].next

Path(p, s, c) == c \in Seq(Slots) /\ Distinct(c) /\ Along(p, s, c) /\ After(p, s, c) = NILPTR

Longer(p, s, c) ==
  LET next == IF c = << >> THEN s ELSE p[Last(c)].next
  IN  IF next = NILPTR THEN c ELSE Append(c, next)

\* The recursive function of ChainIn is what its equation says.
LEMMA ChainRecursion ==
  ASSUME NEW p \in Pools, NEW s \in SlotIndex
  PROVE  \E chain \in [0..FBUF_SLOTS -> Seq(Slots)] :
           /\ ChainIn(p, s) = chain[FBUF_SLOTS]
           /\ chain[0] = << >>
           /\ \A k \in 1..FBUF_SLOTS : chain[k] = Longer(p, s, chain[k-1])
<1> DEFINE N == FBUF_SLOTS
           G == [kc \in (1..N) \X Seq(Slots) |-> Longer(p, s, kc[2])]
           Eq(f) == f = [k \in 0..N |-> IF k = 0 THEN << >> ELSE Longer(p, s, f[k-1])]
           chain == CHOOSE f : Eq(f)
<1>1. N \in Nat /\ << >> \in Seq(Slots)
  BY SlotsFacts
<1>2. ASSUME NEW c \in Seq(Slots) PROVE Longer(p, s, c) \in Seq(Slots)
  <2>1. CASE c = << >>
    BY <2>1 DEF Longer, SlotIndex
  <2>2. CASE c # << >>
    <3>1. c[Len(c)] \in Slots
      BY <2>2
    <3>2. p[c[Len(c)]].next \in SlotIndex
      BY <3>1 DEF Pools
    <3> QED
      BY <2>2, <3>2 DEF Longer, SlotIndex, Last
  <2> QED
    BY <2>1, <2>2
<1>3. G \in [(1..N) \X Seq(Slots) -> Seq(Slots)]
  BY <1>2
<1> HIDE DEF N
<1>4. PICK f \in [0..N -> Seq(Slots)] : f[0] = << >> /\ \A k \in 1..N : f[k] = G[<<k, f[k-1]>>]
  <2> DEFINE S == Seq(Slots)
             none == << >>
  <2>1. none \in S /\ G \in [(1..N) \X S -> S]
    BY <1>1, <1>3
  <2> HIDE DEF G, S, none
  <2>2. \E f \in [0..N -> S] : Recursive(f, N, none, G)
    BY <1>1, <2>1, Recursion
  <2> QED
    BY <2>2 DEF S, none, Recursive
<1>5. \A k \in 1..N : k - 1 \in 0..N /\ f[k] = Longer(p, s, f[k-1])
  <2> SUFFICES ASSUME NEW k \in 1..N PROVE k - 1 \in 0..N /\ f[k] = Longer(p, s, f[k-1])
    OBVIOUS
  <2>1. k - 1 \in 0..N
    BY <1>1
  <2>2. <<k, f[k-1]>> \in (1..N) \X Seq(Slots) /\ <<k, f[k-1]>>[2] = f[k-1]
    BY <2>1
  <2> QED
    BY <1>4, <2>1, <2>2
<1>6. Eq(f)
  BY <1>1, <1>4, <1>5
<1>7. Eq(chain)
  BY <1>6
<1>8. ChainIn(p, s) = chain[N]
  BY DEF ChainIn, Longer, N
<1> HIDE DEF chain
<1>9. chain[0] = << >> /\ \A k \in 1..N : chain[k] = Longer(p, s, chain[k-1])
  BY <1>1, <1>7
<1>10. \A k \in 0..N : chain[k] \in Seq(Slots)
  <2> DEFINE T == {k \in Nat : k <= N => chain[k] \in Seq(Slots)}
  <2>1. 0 \in T
    BY <1>1, <1>9
  <2>2. ASSUME NEW k \in 0..N-1, k \in T PROVE k + 1 \in T
    <3>1. chain[k] \in Seq(Slots) /\ k + 1 \in 1..N /\ k + 1 - 1 = k
      BY <1>1, <2>2
    <3>2. chain[k + 1] = Longer(p, s, chain[k])
      BY <1>9, <3>1
    <3> QED
      BY <1>2, <3>1, <3>2
  <2>3. 0..N \subseteq T
    <3> HIDE DEF T
    <3>1. T \subseteq Nat
      BY DEF T
    <3> QED
      BY <1>1, <2>1, <2>2, <3>1, Steps
  <2> QED
    BY <1>1, <2>3
<1>11. chain \in [0..N -> Seq(Slots)]
  BY <1>7, <1>10
<1> QED
  BY <1>8, <1>9, <1>11 DEF N

LEMMA ChainSeq ==
  ASSUME NEW p \in Pools, NEW s \in SlotIndex
  PROVE  ChainIn(p, s) \in Seq(Slots)
<1>1. PICK chain \in [0..FBUF_SLOTS -> Seq(Slots)] : ChainIn(p, s) = chain[FBUF_SLOTS]
  BY ChainRecursion
<1> QED
  BY <1>1, SlotsFacts

LEMMA ChainIsPath ==
  ASSUME NEW p \in Pools, NEW s \in SlotIndex, NEW c, Path(p, s, c)
  PROVE  ChainIn(p, s) = c
<1>0. FBUF_SLOTS \in Nat /\ NILPTR \notin Slots /\ c \in Seq(Slots) /\ Len(c) <= FBUF_SLOTS
  BY SlotsFacts, DistinctLength DEF Path
<1>1. PICK chain \in [0..FBUF_SLOTS -> Seq(Slots)] :
        /\ ChainIn(p, s) = chain[FBUF_SLOTS]
        /\ chain[0] = << >>
        /\ \A k \in 1..FBUF_SLOTS : chain[k] = Longer(p, s, chain[k-1])
  BY ChainRecursion
<1> DEFINE Part(k) == SubSeq(c, 1, IF k < Len(c) THEN k ELSE Len(c))
           T == {k \in Nat : k <= FBUF_SLOTS => chain[k] = Part(k)}
<1>2. 0 \in T
  BY <1>0, <1>1
<1>3. ASSUME NEW k \in 0..FBUF_SLOTS-1, k \in T PROVE chain[k + 1] = Part(k + 1)
  <2>1. chain[k + 1] = Longer(p, s, Part(k))
    <3>1. chain[k] = Part(k) /\ k + 1 \in 1..FBUF_SLOTS /\ k + 1 - 1 = k
      BY <1>0, <1>3
    <3>2. chain[k + 1] = Longer(p, s, chain[k + 1 - 1])
      BY <1>1, <3>1
    <3> QED
      BY <3>1, <3>2
  <2>2. CASE k < Len(c)
    <3>0. k \in Nat /\ Len(c) \in Nat /\ k + 1 \in 1..Len(c) /\ (k + 1) - 1 = k
          /\ (k + 1 = 1 <=> k = 0)
      BY <1>0, <2>2
    <3>1. c[k + 1] \in Slots /\ c[k + 1] = IF k = 0 THEN s ELSE p[c[k]].next
      <4>1. \A i \in 1..Len(c) : c[i] = IF i = 1 THEN s ELSE p[c[i-1]].next
        BY DEF Path, Along
      <4>2. c[k + 1] = IF k + 1 = 1 THEN s ELSE p[c[(k + 1) - 1]].next
        BY <3>0, <4>1
      <4>3. c[k + 1] \in Slots
        BY <1>0, <3>0
      <4> QED
        BY <3>0, <4>2, <4>3
    <3>2. Part(k) = SubSeq(c, 1, k) /\ Len(Part(k)) = k /\ (k > 0 => Part(k)[k] = c[k])
      <4>1. Part(k) = SubSeq(c, 1, k)
        BY <2>2
      <4>2. Len(SubSeq(c, 1, k)) = k
        BY <1>0, <2>2, <3>0
      <4>3. k > 0 => SubSeq(c, 1, k)[k] = c[k]
        BY <1>0, <2>2, <3>0
      <4> HIDE DEF Part
      <4> QED
        BY <4>1, <4>2, <4>3
    <3>3. k = 0 <=> Part(k) = << >>
      <4> HIDE DEF Part
      <4>1. ASSUME k = 0 PROVE Part(k) = << >>
        <5>1. Part(k) = SubSeq(c, 1, 0) /\ SubSeq(c, 1, 0) = << >>
          BY <1>0, <3>2, <4>1
        <5> QED
          BY <5>1
      <4>2. ASSUME Part(k) = << >> PROVE k = 0
        BY <3>2, <4>2
      <4> QED
        BY <4>1, <4>2
    <3>4. c[k + 1] = IF Part(k) = << >> THEN s ELSE p[Last(Part(k))].next
      BY <3>1, <3>2, <3>3 DEF Last
    <3>5. Longer(p, s, Part(k)) = Append(Part(k), c[k + 1])
      <4> HIDE DEF Part
      <4> QED
        BY <1>0, <3>1, <3>4 DEF Longer
    <3>6. Append(SubSeq(c, 1, k), c[k + 1]) = SubSeq(c, 1, k + 1)
      BY <1>0, <2>2
    <3>7. Part(k + 1) = SubSeq(c, 1, k + 1)
      BY <1>0, <2>2
    <3> QED
      BY <2>1, <3>2, <3>5, <3>6, <3>7
  <2>3. CASE k >= Len(c)
    <3>1. Part(k) = c /\ Part(k + 1) = c
      BY <1>0, <2>3
    <3>2. Longer(p, s, c) = c
      BY <1>0 DEF Longer, Last, Path, After
    <3> QED
      BY <2>1, <3>1, <3>2
  <2> QED
    BY <1>0, <2>2, <2>3
<1>4. FBUF_SLOTS \in T
  <2>1. \A k \in 0..FBUF_SLOTS-1 : k \in T => k + 1 \in T
    BY <1>3
  <2>2. T \subseteq Nat
    OBVIOUS
  <2> HIDE DEF T
  <2> QED
    <3>1. 0..FBUF_SLOTS \subseteq T
      BY <1>0, <1>2, <2>1, <2>2, Steps
    <3> QED
      BY <1>0, <3>1
<1>5. chain[FBUF_SLOTS] = Part(FBUF_SLOTS)
  BY <1>0, <1>4
<1>6. Part(FBUF_SLOTS) = c
  BY <1>0
<1> QED
  BY <1>1, <1>5, <1>6

LEMMA AlongConcat ==
  ASSUME NEW p, NEW s, NEW c \in Seq(Slots), NEW d \in Seq(Slots)
  PROVE  /\ Along(p, s, c \o d) <=> Along(p, s, c) /\ Along(p, After(p, s, c), d)
         /\ After(p, s, c \o d) = After(p, After(p, s, c), d)
<1>0. /\ Len(c) \in Nat /\ Len(d) \in Nat /\ Len(c \o d) = Len(c) + Len(d)
      /\ \A i \in 1..Len(c) : i \in 1..Len(c \o d) /\ (c \o d)[i] = c[i]
      /\ \A i \in 1..Len(d) : Len(c) + i \in 1..Len(c \o d) /\ (c \o d)[Len(c) + i] = d[i]
      /\ \A i \in 1..Len(c \o d) :
           i \in 1..Len(c) \/ (i - Len(c) \in 1..Len(d) /\ (c \o d)[i] = d[i - Len(c)])
  OBVIOUS
<1>1. CASE c = << >>
  <2>1. c \o d = d
    BY <1>1
  <2> QED
    BY <1>1, <2>1 DEF Along, After
<1>2. CASE d = << >>
  <2>1. c \o d = c
    BY <1>2
  <2> QED
    BY <1>2, <2>1 DEF Along, After
<1>3. CASE c # << >> /\ d # << >>
  <2>1. Len(c) \in 1..Len(c) /\ 1 \in 1..Len(d) /\ Len(d) \in 1..Len(d) /\ c \o d # << >>
    BY <1>0, <1>3
  <2>2. After(p, s, c \o d) = After(p, After(p, s, c), d)
    BY <1>0, <1>3, <2>1 DEF After
  <2>3. ASSUME Along(p, s, c \o d) PROVE Along(p, s, c)
    <3> SUFFICES ASSUME NEW i \in 1..Len(c) PROVE c[i] = IF i = 1 THEN s ELSE p[c[i-1]].next
      BY DEF Along
    <3>1. i \in 1..Len(c \o d) /\ (c \o d)[i] = c[i]
      BY <1>0
    <3>2. (c \o d)[i] = IF i = 1 THEN s ELSE p[(c \o d)[i-1]].next
      BY <2>3, <3>1 DEF Along
    <3>3. i # 1 => (c \o d)[i-1] = c[i-1]
      <4>1. i # 1 => i - 1 \in 1..Len(c)
        BY <1>0
      <4> QED
        BY <1>0, <4>1
    <3> QED
      BY <3>1, <3>2, <3>3
  <2>4. ASSUME Along(p, s, c \o d), NEW i \in 1..Len(d)
        PROVE  d[i] = IF i = 1 THEN After(p, s, c) ELSE p[d[i-1]].next
    <3>1. (c \o d)[Len(c) + i] = p[(c \o d)[Len(c) + i - 1]].next
      <4>1. Len(c) + i \in 1..Len(c \o d) /\ Len(c) + i # 1
        BY <1>0, <2>1
      <4> DEFINE e == c \o d
                 j == Len(c) + i
      <4>2. \A k \in 1..Len(e) : e[k] = IF k = 1 THEN s ELSE p[e[k-1]].next
        BY <2>4 DEF Along
      <4>3. j \in 1..Len(e) /\ j # 1
        BY <4>1
      <4> HIDE DEF e, j
      <4>4. e[j] = p[e[j-1]].next
        BY <4>2, <4>3
      <4>5. Len(c) + i - 1 = j - 1 /\ Len(c) + i = j
        BY <1>0 DEF j
      <4>6. e = c \o d
        BY DEF e
      <4> QED
        BY <4>4, <4>5, <4>6, Zenon
    <3>2. CASE i = 1
      BY <1>0, <1>3, <2>1, <3>1, <3>2 DEF After
    <3>3. CASE i # 1
      <4>1. i - 1 \in 1..Len(d) /\ Len(c) + (i - 1) = Len(c) + i - 1
        BY <1>0, <3>3
      <4> QED
        BY <1>0, <3>1, <3>3, <4>1
    <3> QED
      BY <3>2, <3>3
  <2>5. ASSUME Along(p, s, c), Along(p, After(p, s, c), d), NEW i \in 1..Len(c \o d)
        PROVE  (c \o d)[i] = IF i = 1 THEN s ELSE p[(c \o d)[i-1]].next
    <3>1. CASE i \in 1..Len(c)
      BY <1>0, <2>5, <3>1 DEF Along
    <3>2. CASE i = Len(c) + 1
      BY <1>0, <1>3, <2>1, <2>5, <3>2 DEF Along, After
    <3>3. CASE i - Len(c) \in 2..Len(d)
      <4> DEFINE j == i - Len(c)
      <4>1. /\ j \in 1..Len(d) /\ j - 1 \in 1..Len(d) /\ j # 1 /\ Len(c) + j = i
            /\ Len(c) + (j - 1) = i - 1
        BY <1>0, <3>3
      <4>2. d[j] = p[d[j-1]].next
        BY <2>5, <4>1 DEF Along
      <4>3. (c \o d)[i] = d[j] /\ (c \o d)[i-1] = d[j-1] /\ i # 1
        BY <1>0, <2>1, <4>1
      <4> QED
        BY <4>2, <4>3
    <3> QED
      BY <1>0, <3>1, <3>2, <3>3
  <2> QED
    BY <2>2, <2>3, <2>4, <2>5 DEF Along
<1> QED
  BY <1>1, <1>2, <1>3

\* Only the links of the slots on it matter.
LEMMA AlongFrame ==
  ASSUME NEW p, NEW q, NEW s, NEW c \in Seq(Slots),
         \A t \in Slots : Contains(c, t) => q[t].next = p[t].next
  PROVE  (Along(q, s, c) <=> Along(p, s, c)) /\ (After(q, s, c) = After(p, s, c))
<1>1. \A i \in 1..Len(c) : q[c[i]].next = p[c[i]].next
  BY DEF Contains
<1>2. c # << >> => Len(c) \in 1..Len(c)
  OBVIOUS
<1> QED
  BY <1>1, <1>2 DEF Along, After

----------------------------------------------------------------------------
(* The content of a chain. *)

LEMMA ConcatAssoc ==
  \A a, b, c \in Seq(Bytes) : (a \o b) \o c = a \o (b \o c)
BY ConcatAssociative

LEMMA ConcatSeq ==
  ASSUME NEW S, NEW a \in Seq(S), NEW b \in Seq(S), NEW c \in Seq(S)
  PROVE  /\ a \o b \in Seq(S) /\ (a \o b) \o c = a \o (b \o c)
         /\ << >> \o a = a /\ a \o << >> = a
         /\ Len(a \o b) = Len(a) + Len(b)
<1>1. a \o b \in Seq(S)
  OBVIOUS
<1>2. Len(a \o b) = Len(a) + Len(b)
  OBVIOUS
<1>3. (a \o b) \o c = a \o (b \o c)
  BY ConcatAssociative
<1>4. << >> \o a = a /\ a \o << >> = a
  OBVIOUS
<1> QED
  BY <1>1, <1>2, <1>3, <1>4

Plus(content, p, s) == content \o p[s].data

LEMMA PlusFacts ==
  ASSUME NEW p \in Pools, NEW s \in Slots, NEW a \in Seq(Bytes), NEW b \in Seq(Bytes)
  PROVE  /\ Plus(a, p, s) \in Seq(Bytes) /\ Plus(<< >>, p, s) = p[s].data
         /\ Plus(a \o b, p, s) = a \o Plus(b, p, s)
<1> DEFINE d == p[s].data
<1>1. d \in Seq(Bytes) /\ << >> \in Seq(Bytes)
  BY DEF Pools
<1> HIDE DEF d
<1>2. a \o d \in Seq(Bytes) /\ << >> \o d = d
  BY <1>1, ConcatSeq
<1>3. (a \o b) \o d = a \o (b \o d)
  BY <1>1, ConcatSeq
<1> QED
  BY <1>2, <1>3 DEF Plus, d

\* f grows by the content of one slot of c after the other.
Growing(f, p, c) ==
  /\ f \in [0..Len(c) -> Seq(Bytes)]
  /\ f[0] = << >> /\ \A k \in 1..Len(c) : f[k] = Plus(f[k-1], p, c[k])

LEMMA ContentGrows ==
  ASSUME NEW p \in Pools, NEW c \in Seq(Slots)
  PROVE  \E f : Growing(f, p, c) /\ Content(p, c) = f[Len(c)]
<1> DEFINE N == Len(c)
           G == [kb \in (1..N) \X Seq(Bytes) |-> Plus(kb[2], p, c[kb[1]])]
           Eq(f) == f = [k \in 0..N |-> IF k = 0 THEN << >> ELSE Plus(f[k-1], p, c[k])]
           content == CHOOSE f : Eq(f)
<1>1. N \in Nat /\ << >> \in Seq(Bytes)
  OBVIOUS
<1>2. ASSUME NEW k \in 1..N, NEW x \in Seq(Bytes) PROVE Plus(x, p, c[k]) \in Seq(Bytes)
  <2>1. c[k] \in Slots
    OBVIOUS
  <2> QED
    BY <2>1, PlusFacts
<1>3. G \in [(1..N) \X Seq(Bytes) -> Seq(Bytes)]
  BY <1>2
<1>4. Content(p, c) = content[N]
  BY DEF Content, Plus, N
<1> HIDE DEF N
<1>5. PICK f \in [0..N -> Seq(Bytes)] : f[0] = << >> /\ \A k \in 1..N : f[k] = G[<<k, f[k-1]>>]
  <2> DEFINE S == Seq(Bytes)
             none == << >>
  <2>1. none \in S /\ G \in [(1..N) \X S -> S]
    BY <1>1, <1>3
  <2> HIDE DEF G, S, none
  <2>2. \E f \in [0..N -> S] : Recursive(f, N, none, G)
    BY <1>1, <2>1, Recursion
  <2> QED
    BY <2>2 DEF S, none, Recursive
<1>6. \A k \in 1..N : k - 1 \in 0..N /\ f[k] = Plus(f[k-1], p, c[k])
  <2> SUFFICES ASSUME NEW k \in 1..N PROVE k - 1 \in 0..N /\ f[k] = Plus(f[k-1], p, c[k])
    OBVIOUS
  <2>1. k - 1 \in 0..N
    BY <1>1
  <2>2. /\ <<k, f[k-1]>> \in (1..N) \X Seq(Bytes)
        /\ <<k, f[k-1]>>[1] = k /\ <<k, f[k-1]>>[2] = f[k-1]
    BY <2>1
  <2> QED
    BY <1>5, <2>1, <2>2
<1>7. Eq(f)
  BY <1>1, <1>5, <1>6
<1>8. Eq(content)
  BY <1>7
<1> HIDE DEF content
<1>9. content[0] = << >> /\ \A k \in 1..N : content[k] = Plus(content[k-1], p, c[k])
  BY <1>1, <1>8
<1>10. \A k \in 0..N : content[k] \in Seq(Bytes)
  <2> DEFINE T == {k \in Nat : k <= N => content[k] \in Seq(Bytes)}
  <2>1. 0 \in T
    BY <1>1, <1>9
  <2>2. ASSUME NEW k \in 0..N-1, k \in T PROVE k + 1 \in T
    <3>1. content[k] \in Seq(Bytes) /\ k + 1 \in 1..N /\ k + 1 - 1 = k
      BY <1>1, <2>2
    <3>2. content[k + 1] = Plus(content[k], p, c[k + 1])
      BY <1>9, <3>1
    <3> QED
      BY <1>2, <3>1, <3>2
  <2>3. 0..N \subseteq T
    <3> HIDE DEF T
    <3>1. T \subseteq Nat
      BY DEF T
    <3> QED
      BY <1>1, <2>1, <2>2, <3>1, Steps
  <2> QED
    BY <1>1, <2>3
<1>11. content \in [0..N -> Seq(Bytes)]
  BY <1>8, <1>10
<1> QED
  BY <1>4, <1>9, <1>11 DEF N, Growing

LEMMA ContentIs ==
  ASSUME NEW p \in Pools, NEW c \in Seq(Slots), NEW f, Growing(f, p, c)
  PROVE  Content(p, c) = f[Len(c)] /\ Content(p, c) \in Seq(Bytes)
<1>1. PICK g : Growing(g, p, c) /\ Content(p, c) = g[Len(c)]
  BY ContentGrows
<1> DEFINE N == Len(c)
           T == {k \in Nat : k <= N => g[k] = f[k]}
<1>2. N \in Nat
  OBVIOUS
<1>3. 0 \in T
  BY <1>1 DEF Growing
<1>4. ASSUME NEW k \in 0..N-1, k \in T PROVE k + 1 \in T
  <2>1. g[k] = f[k] /\ k + 1 \in 1..N /\ k + 1 - 1 = k
    BY <1>2, <1>4
  <2>2. g[k + 1] = Plus(g[k], p, c[k + 1]) /\ f[k + 1] = Plus(f[k], p, c[k + 1])
    BY <1>1, <2>1 DEF Growing
  <2> QED
    BY <2>1, <2>2
<1>5. 0..N \subseteq T
  <2>1. T \subseteq Nat
    OBVIOUS
  <2> HIDE DEF T
  <2> QED
    BY <1>2, <1>3, <1>4, <2>1, Steps
<1>6. g[N] = f[N] /\ f[N] \in Seq(Bytes)
  BY <1>2, <1>5 DEF Growing
<1> QED
  BY <1>1, <1>6

LEMMA ContentNone ==
  ASSUME NEW p \in Pools
  PROVE  Content(p, << >>) = << >>
<1>1. Growing([k \in 0..0 |-> << >>], p, << >>)
  BY DEF Growing
<1> QED
  BY <1>1, ContentIs

LEMMA ContentOne ==
  ASSUME NEW p \in Pools, NEW s \in Slots
  PROVE  Content(p, <<s>>) = p[s].data
<1>1. p[s].data \in Seq(Bytes)
  BY DEF Pools
<1> DEFINE f == [k \in 0..1 |-> IF k = 0 THEN << >> ELSE p[s].data]
<1>2. Growing(f, p, <<s>>)
  <2>1. f \in [0..1 -> Seq(Bytes)] /\ f[0] = << >> /\ f[1] = Plus(f[0], p, s)
    BY <1>1, PlusFacts
  <2>2. Len(<<s>>) = 1 /\ <<s>>[1] = s /\ 1..1 = {1}
    OBVIOUS
  <2> QED
    BY <2>1, <2>2 DEF Growing
<1>3. Content(p, <<s>>) = f[1]
  BY <1>2, ContentIs
<1> QED
  BY <1>3

LEMMA ContentConcat ==
  ASSUME NEW p \in Pools, NEW c \in Seq(Slots), NEW d \in Seq(Slots)
  PROVE  Content(p, c \o d) = Content(p, c) \o Content(p, d)
<1>1. PICK f : Growing(f, p, c) /\ Content(p, c) = f[Len(c)]
  BY ContentGrows
<1>2. PICK g : Growing(g, p, d) /\ Content(p, d) = g[Len(d)]
  BY ContentGrows
<1> DEFINE n == Len(c)
           m == Len(d)
           e == c \o d
           h == [k \in 0..n+m |-> IF k <= n THEN f[k] ELSE f[n] \o g[k-n]]
<1>3. /\ n \in Nat /\ m \in Nat /\ e \in Seq(Slots) /\ Len(e) = n + m
      /\ \A i \in 1..n : e[i] = c[i]
      /\ \A i \in 1..m : e[n + i] = d[i]
  OBVIOUS
<1>4. /\ f \in [0..n -> Seq(Bytes)] /\ g \in [0..m -> Seq(Bytes)] /\ g[0] = << >> /\ f[0] = << >>
      /\ \A k \in 1..n : f[k] = Plus(f[k-1], p, c[k])
      /\ \A k \in 1..m : g[k] = Plus(g[k-1], p, d[k])
  BY <1>1, <1>2 DEF Growing
<1>5. \A k \in 1..m : d[k] \in Slots
  OBVIOUS
<1>14. \A k \in 0..n+m : h[k] = IF k <= n THEN f[k] ELSE f[n] \o g[k-n]
  OBVIOUS
<1> HIDE DEF n, m, e
<1>6. h \in [0..n+m -> Seq(Bytes)]
  <2> SUFFICES ASSUME NEW k \in 0..n+m PROVE h[k] \in Seq(Bytes)
    OBVIOUS
  <2>1. CASE k <= n
    BY <1>3, <1>4, <2>1
  <2>2. CASE k > n
    <3>1. f[n] \in Seq(Bytes) /\ g[k - n] \in Seq(Bytes)
      BY <1>3, <1>4, <2>2
    <3> QED
      BY <2>2, <3>1, <1>3, ConcatSeq
  <2> QED
    BY <1>3, <2>1, <2>2
<1>7. ASSUME NEW k \in 1..n+m PROVE h[k] = Plus(h[k-1], p, e[k])
  <2>1. CASE k <= n
    <3>1. k \in 1..n /\ k - 1 <= n /\ h[k] = f[k] /\ h[k-1] = f[k-1] /\ e[k] = c[k]
      BY <1>3, <2>1
    <3> QED
      BY <1>4, <3>1
  <2>2. CASE k > n
    <3> DEFINE j == k - n
    <3>1. j \in 1..m /\ j - 1 \in 0..m /\ n + j = k /\ k - 1 - n = j - 1
      BY <1>3, <2>2
    <3>2. h[k] = f[n] \o g[j] /\ e[k] = d[j]
      <4>1. k \in 0..n+m /\ ~(k <= n)
        BY <1>3, <2>2
      <4>2. h[k] = f[n] \o g[k-n]
        BY <1>14, <4>1
      <4> QED
        BY <1>3, <3>1, <4>2
    <3>3. f[n] \in Seq(Bytes) /\ g[j-1] \in Seq(Bytes) /\ d[j] \in Slots
      <4>1. n \in 0..n /\ j - 1 \in 0..m
        BY <1>3, <3>1
      <4> HIDE DEF j
      <4>2. f[n] \in Seq(Bytes)
        BY <1>4, <4>1
      <4>3. g[j-1] \in Seq(Bytes)
        BY <1>4, <4>1
      <4> QED
        BY <1>5, <3>1, <4>2, <4>3
    <3>4. h[k-1] = f[n] \o g[j-1]
      <4>1. CASE k - 1 > n
        <5>1. k - 1 \in 0..n+m /\ ~(k - 1 <= n)
          BY <1>3, <4>1
        <5>2. h[k-1] = f[n] \o g[k-1-n]
          BY <1>14, <5>1
        <5> QED
          BY <3>1, <5>2
      <4>2. CASE k - 1 = n
        <5>1. k - 1 \in 0..n+m /\ k - 1 <= n /\ j - 1 = 0
          BY <1>3, <4>2
        <5>2. h[k-1] = f[n] /\ g[j-1] = << >>
          BY <1>4, <1>14, <4>2, <5>1
        <5> QED
          BY <3>3, <5>2, ConcatSeq
      <4>3. k - 1 > n \/ k - 1 = n
        BY <1>3, <2>2
      <4> QED
        BY <4>1, <4>2, <4>3
    <3>5. g[j] = Plus(g[j-1], p, d[j])
      BY <1>4, <3>1
    <3>6. Plus(f[n] \o g[j-1], p, d[j]) = f[n] \o Plus(g[j-1], p, d[j])
      <4> HIDE DEF j
      <4> QED
        BY <3>3, PlusFacts
    <3> QED
      BY <3>2, <3>4, <3>5, <3>6
  <2>3. k <= n \/ k > n
    BY <1>3
  <2> QED
    BY <2>1, <2>2, <2>3
<1>8. h[0] = << >>
  BY <1>3, <1>4
<1>9. Growing(h, p, e)
  BY <1>3, <1>6, <1>7, <1>8 DEF Growing
<1>10. Content(p, e) = h[n + m]
  BY <1>3, <1>9, ContentIs
<1>11. h[n + m] = f[n] \o g[m]
  <2>1. CASE m = 0
    <3>1. n + m = n /\ n \in 0..n /\ f[n] \in Seq(Bytes) /\ g[m] = << >>
      BY <1>3, <1>4, <2>1
    <3>2. h[n + m] = f[n]
      BY <1>3, <3>1
    <3> QED
      BY <3>1, <3>2, ConcatSeq
  <2>2. CASE m > 0
    <3>1. ~(n + m <= n) /\ n + m \in 0..n+m /\ n + m - n = m
      BY <1>3, <2>2
    <3> DEFINE k == n + m
    <3>2. k \in 0..n+m /\ ~(k <= n) /\ k - n = m
      BY <1>3, <3>1
    <3> HIDE DEF h, k
    <3>3. h[k] = f[n] \o g[k - n]
      BY <1>14, <3>2
    <3> QED
      BY <3>2, <3>3 DEF k
  <2>3. m = 0 \/ m > 0
    BY <1>3
  <2> QED
    BY <2>1, <2>2, <2>3
<1> QED
  BY <1>1, <1>2, <1>10, <1>11 DEF n, m, e

LEMMA ContentFrame ==
  ASSUME NEW p \in Pools, NEW q \in Pools, NEW c \in Seq(Slots),
         \A t \in Slots : Contains(c, t) => q[t].data = p[t].data
  PROVE  Content(q, c) = Content(p, c)
<1>1. PICK f : Growing(f, p, c) /\ Content(p, c) = f[Len(c)]
  BY ContentGrows
<1>2. \A k \in 1..Len(c) : q[c[k]].data = p[c[k]].data
  BY DEF Contains
<1>3. Growing(f, q, c)
  BY <1>1, <1>2 DEF Growing, Plus
<1> QED
  BY <1>1, <1>3, ContentIs

LEMMA ContentType ==
  ASSUME NEW p \in Pools, NEW c \in Seq(Slots)
  PROVE  Content(p, c) \in Seq(Bytes)
BY ContentGrows, ContentIs

----------------------------------------------------------------------------
(* The invariant of the pool. *)

\* rslot and rpos are a reader's affair, see below.
FbTypes ==
  /\ fb = [h \in Handles |-> [head |-> fb[h].head, wslot |-> fb[h].wslot, rslot |-> fb[h].rslot,
                              rpos |-> fb[h].rpos, length |-> fb[h].length]]
  /\ \A h \in Handles : /\ fb[h].head \in SlotIndex /\ fb[h].wslot \in SlotIndex
                        /\ fb[h].length \in Nat

FbufTypes ==
  /\ pool \in Pools /\ FbTypes
  /\ phase \in [Handles -> {"free", "building", "written", "shared"}]
  /\ text \in [Handles -> Seq(Bytes)]
  /\ \A s \in Slots : Len(pool[s].data) <= SLOTSIZE

Chains == \A h \in Handles : Path(pool, fb[h].head, ChainOf(h))

\* A handle that is not used has nothing.
FreeHandles == \A h \in Handles : phase[h] = "free" => fb[h].head = NILPTR /\ text[h] = << >>

\* Nothing is shared of a packet that may be written to or shortened.
Owned == \A h, g \in Handles, s \in Slots :
  phase[h] \in {"building", "written"} /\ g # h /\ InChain(h, s) => ~InChain(g, s)

\* It has no empty slots, but for the first of an empty packet.
Filled == \A h \in Handles : phase[h] \in {"building", "written"} =>
  Len(ChainOf(h)) = 1 \/ \A s \in Slots : InChain(h, s) => pool[s].data # << >>

\* The end of such a packet is where it is written to.
Writable == \A h \in Handles : phase[h] = "building" =>
  fb[h].wslot = IF ChainOf(h) = << >> THEN NILPTR ELSE Last(ChainOf(h))

Users(s) == {h \in Handles : InChain(h, s)}
References == \A s \in Slots : pool[s].refcnt = Cardinality(Users(s))

Texts == \A h \in Handles : text[h] = Content(pool, ChainOf(h)) /\ fb[h].length = Len(text[h])

FbufInv ==
  /\ FbufTypes /\ Chains /\ FreeHandles /\ Owned /\ Filled /\ Writable /\ References /\ FreeExact
  /\ Texts

----------------------------------------------------------------------------
(* What the invariant says of one slot. *)

LEMMA PathFacts ==
  ASSUME NEW p \in Pools, NEW s \in SlotIndex, NEW c, Path(p, s, c)
  PROVE  /\ c \in Seq(Slots) /\ Distinct(c) /\ (s = NILPTR <=> c = << >>)
         /\ \A t : Contains(c, t) => t \in Slots
         /\ c # << >> => /\ Len(c) \in 1..Len(c) /\ Last(c) \in Slots /\ Contains(c, Last(c))
                         /\ p[Last(c)].next = NILPTR /\ c[1] = s
<1>1. c \in Seq(Slots) /\ Distinct(c) /\ Along(p, s, c) /\ After(p, s, c) = NILPTR
  BY DEF Path
<1>2. c # << >> => Len(c) \in 1..Len(c) /\ 1 \in 1..Len(c) /\ c[Len(c)] \in Slots /\ c[1] \in Slots
  BY <1>1
<1>3. c # << >> => c[1] = s /\ s # NILPTR
  BY <1>1, <1>2, SlotsFacts DEF Along
<1>4. c = << >> => s = NILPTR
  BY <1>1 DEF After
<1>5. \A t : Contains(c, t) => t \in Slots
  BY <1>1 DEF Contains
<1>6. c # << >> => Contains(c, Last(c)) /\ p[Last(c)].next = NILPTR
  BY <1>1, <1>2 DEF Contains, Last, After
<1> QED
  BY <1>1, <1>2, <1>3, <1>4, <1>5, <1>6 DEF Last

LEMMA PathFrame ==
  ASSUME NEW p, NEW q, NEW s, NEW c, Path(p, s, c),
         \A t \in Slots : Contains(c, t) => q[t].next = p[t].next
  PROVE  Path(q, s, c)
BY AlongFrame DEF Path

LEMMA UsersFacts ==
  ASSUME NEW S \in SUBSET Handles
  PROVE  /\ IsFiniteSet(S) /\ Cardinality(S) \in Nat /\ (Cardinality(S) = 0 <=> S = {})
         /\ \A h \in Handles : /\ h \notin S => Cardinality(S \cup {h}) = Cardinality(S) + 1
                               /\ h \in S => Cardinality(S \ {h}) = Cardinality(S) - 1
<1>1. IsFiniteSet(S) /\ Cardinality(S) \in Nat
  BY FbufAssumption, FS_Subset, FS_CardinalityType
<1> QED
  BY <1>1, FS_EmptySet, FS_AddElement, FS_RemoveElement

LEMMA SlotSets ==
  ASSUME NEW S \in SUBSET Slots
  PROVE  /\ IsFiniteSet(S) /\ Cardinality(S) \in Nat /\ (Cardinality(S) = 0 <=> S = {})
         /\ \A s \in Slots : /\ s \notin S => Cardinality(S \cup {s}) = Cardinality(S) + 1
                             /\ s \in S => Cardinality(S \ {s}) = Cardinality(S) - 1
<1>1. IsFiniteSet(S) /\ Cardinality(S) \in Nat
  BY SlotsFacts, FS_Subset, FS_CardinalityType
<1> QED
  BY <1>1, FS_EmptySet, FS_AddElement, FS_RemoveElement

LEMMA FirstFreeFacts ==
  /\ FirstFree \in SlotIndex
  /\ FirstFree # NILPTR => FirstFree \in Slots /\ pool[FirstFree].refcnt = 0
<1>1. CASE FreeSet = {}
  BY <1>1 DEF FirstFree, SlotIndex
<1>2. CASE FreeSet # {}
  <2> DEFINE R == {ss \in Nat \X Nat : ss[1] < ss[2]}
  <2>1. FreeSet \subseteq Nat
    BY FbufAssumption DEF FreeSet, Slots
  <2>2. PICK s \in FreeSet : \A t \in FreeSet : ~(<<t, s>> \in R)
    <3>1. IsWellFoundedOn(R, Nat)
      BY NatLessThanWellFounded DEF OpToRel
    <3> HIDE DEF R
    <3> QED
      BY <1>2, <2>1, <3>1, WFMin
  <2>3. ASSUME NEW t \in FreeSet PROVE s <= t
    <3>1. t \in Nat /\ s \in Nat
      BY <2>1
    <3>2. t < s => <<t, s>> \in R
      BY <3>1
    <3> QED
      BY <2>2, <3>1, <3>2
  <2>4. FirstFree = CHOOSE x \in FreeSet : \A t \in FreeSet : x <= t
    BY <1>2 DEF FirstFree
  <2>5. FirstFree \in FreeSet
    BY <2>3, <2>4
  <2> QED
    BY <2>5 DEF FreeSet, SlotIndex
<1> QED
  BY <1>1, <1>2

LEMMA SlotFacts ==
  ASSUME FbufInv, NEW s \in Slots
  PROVE  /\ pool[s].refcnt \in Nat /\ pool[s].next \in SlotIndex /\ pool[s].data \in Seq(Bytes)
         /\ pool[s] = [refcnt |-> pool[s].refcnt, next |-> pool[s].next, data |-> pool[s].data]
         /\ pool[s].refcnt = 0 <=> \A h \in Handles : ~InChain(h, s)
<1>1. pool \in Pools
  BY DEF FbufInv, FbufTypes
<1>2. pool[s] \in [refcnt : Nat, next : SlotIndex, data : Seq(Bytes)]
  BY <1>1 DEF Pools
<1>3. pool[s].refcnt = Cardinality(Users(s)) /\ Users(s) \in SUBSET Handles
  BY DEF FbufInv, References, Users
<1>4. pool[s].refcnt = 0 <=> Users(s) = {}
  BY <1>3, UsersFacts
<1> QED
  BY <1>2, <1>4 DEF Users

\* The invariant of the next state, from what the chains are then.
LEMMA InvFrom ==
  ASSUME FbufTypes', NEW ch,
         \A g \in Handles : Path(pool', fb'[g].head, ch[g]),
         \A g \in Handles : phase'[g] = "free" => fb'[g].head = NILPTR /\ text'[g] = << >>,
         \A h, g \in Handles, s \in Slots :
           phase'[h] \in {"building", "written"} /\ g # h /\ Contains(ch[h], s)
             => ~Contains(ch[g], s),
         \A h \in Handles : phase'[h] \in {"building", "written"} =>
           Len(ch[h]) = 1 \/ \A s \in Slots : Contains(ch[h], s) => pool'[s].data # << >>,
         \A h \in Handles : phase'[h] = "building" =>
           fb'[h].wslot = IF ch[h] = << >> THEN NILPTR ELSE Last(ch[h]),
         \A s \in Slots : pool'[s].refcnt = Cardinality({h \in Handles : Contains(ch[h], s)}),
         free_slots' = Cardinality({s \in Slots : pool'[s].refcnt = 0}),
         \A h \in Handles : text'[h] = Content(pool', ch[h]) /\ fb'[h].length = Len(text'[h])
  PROVE  FbufInv' /\ \A g \in Handles : ChainOf(g)' = ch[g]
<1>1. pool' \in Pools /\ \A g \in Handles : fb'[g].head \in SlotIndex
  BY DEF FbufTypes, FbTypes
<1>2. \A g \in Handles : ChainOf(g)' = ch[g]
  <2>1. \A g \in Handles : ChainOf(g)' = ChainIn(pool', fb'[g].head)
    BY DEF ChainOf, Chain
  <2>2. \A g \in Handles : ChainIn(pool', fb'[g].head) = ch[g]
    BY <1>1, ChainIsPath
  <2> QED
    BY <2>1, <2>2
<1>3. Chains' /\ FreeHandles'
  BY <1>2 DEF Chains, FreeHandles
<1>4. Owned' /\ Filled'
  BY <1>2 DEF Owned, Filled, InChain
<1>5. Writable' /\ Texts'
  BY <1>2 DEF Writable, Texts
<1>6. References'
  <2> SUFFICES ASSUME NEW s \in Slots PROVE pool'[s].refcnt = Cardinality(Users(s)')
    BY DEF References
  <2>1. Users(s)' = {h \in Handles : Contains(ch[h], s)}
    BY <1>2 DEF Users, InChain
  <2> QED
    BY <2>1
<1>7. FreeExact'
  BY DEF FreeExact, FreeSet
<1> QED
  BY <1>2, <1>3, <1>4, <1>5, <1>6, <1>7 DEF FbufInv

----------------------------------------------------------------------------
(* The steps. *)

Fb(head, wslot, rslot, rpos, length) ==
  [head |-> head, wslot |-> wslot, rslot |-> rslot, rpos |-> rpos, length |-> length]

LEMMA FbExcept ==
  ASSUME NEW a, NEW b, NEW c, NEW d, NEW e, NEW x
  PROVE  /\ [Fb(a, b, c, d, e) EXCEPT !.head = x] = Fb(x, b, c, d, e)
         /\ [Fb(a, b, c, d, e) EXCEPT !.wslot = x] = Fb(a, x, c, d, e)
         /\ [Fb(a, b, c, d, e) EXCEPT !.rslot = x] = Fb(a, b, x, d, e)
         /\ [Fb(a, b, c, d, e) EXCEPT !.rpos = x] = Fb(a, b, c, x, e)
         /\ [Fb(a, b, c, d, e) EXCEPT !.length = x] = Fb(a, b, c, d, x)
BY DEF Fb

LEMMA FbNew ==
  ASSUME NEW n
  PROVE  [Disposed EXCEPT !.head = n, !.wslot = n, !.rslot = n] = Fb(n, n, n, 0, 0)
<1> DEFINE f == [Disposed EXCEPT !.head = n]
           g == [f EXCEPT !.wslot = n]
<1>1. f = Fb(n, NILPTR, NILPTR, 0, 0)
  BY DEF Disposed, Fb
<1> HIDE DEF f
<1>2. g = Fb(n, n, NILPTR, 0, 0)
  BY <1>1, SMTT(30) DEF Fb
<1> HIDE DEF g
<1>3. [g EXCEPT !.rslot = n] = Fb(n, n, n, 0, 0)
  BY <1>2, SMTT(30) DEF Fb
<1> QED
  BY <1>3 DEF f, g

LEMMA FbEta ==
  ASSUME FbTypes, NEW h \in Handles
  PROVE  fb[h] = Fb(fb[h].head, fb[h].wslot, fb[h].rslot, fb[h].rpos, fb[h].length)
<1> DEFINE f(g) == [head |-> fb[g].head, wslot |-> fb[g].wslot, rslot |-> fb[g].rslot,
                    rpos |-> fb[g].rpos, length |-> fb[g].length]
<1>1. fb = [g \in Handles |-> f(g)]
  BY DEF FbTypes
<1> HIDE DEF f
<1>2. fb[h] = f(h)
  BY <1>1
<1> QED
  BY <1>2 DEF f, Fb

Whole(v) == v = Fb(v.head, v.wslot, v.rslot, v.rpos, v.length)

LEMMA FbWhole == \A a, b, c, d, e : Whole(Fb(a, b, c, d, e))
BY DEF Whole, Fb

LEMMA FbSet ==
  ASSUME FbTypes, NEW h \in Handles, NEW v, fb' = [fb EXCEPT ![h] = v],
         Whole(v), v.head \in SlotIndex, v.wslot \in SlotIndex, v.length \in Nat
  PROVE  FbTypes' /\ \A g \in Handles : fb'[g] = IF g = h THEN v ELSE fb[g]
<1>1. fb' = [g \in Handles |-> IF g = h THEN v ELSE fb[g]]
  BY DEF FbTypes
<1>2. \A g \in Handles : fb'[g] = IF g = h THEN v ELSE fb[g]
  BY <1>1
<1>3. \A g \in Handles : /\ fb'[g].head \in SlotIndex /\ fb'[g].wslot \in SlotIndex
                         /\ fb'[g].length \in Nat
  BY <1>2 DEF FbTypes
<1>4. \A g \in Handles : Whole(fb'[g])
  BY <1>2, FbEta DEF Whole
<1>5. fb' = [g \in Handles |-> [head |-> fb'[g].head, wslot |-> fb'[g].wslot,
             rslot |-> fb'[g].rslot, rpos |-> fb'[g].rpos, length |-> fb'[g].length]]
  <2> DEFINE e(g) == [head |-> fb'[g].head, wslot |-> fb'[g].wslot,
                      rslot |-> fb'[g].rslot, rpos |-> fb'[g].rpos, length |-> fb'[g].length]
  <2>1. \A g \in Handles : fb'[g] = e(g)
    BY <1>4 DEF Whole, Fb
  <2>2. fb' = [g \in Handles |-> fb'[g]]
    BY <1>1
  <2> HIDE DEF e
  <2>3. fb' = [g \in Handles |-> e(g)]
    BY <2>1, <2>2
  <2> QED
    BY <2>3 DEF e
<1> QED
  BY <1>2, <1>3, <1>5 DEF FbTypes

\* The pool is only read.
LEMMA PoolRead ==
  ASSUME FbufInv, FbTypes', UNCHANGED <<pool, free_slots, text>>, NEW h \in Handles,
         phase' = Finished(h) \/ phase' = phase, h \in Live,
         \A g \in Handles : /\ fb'[g].head = fb[g].head /\ fb'[g].wslot = fb[g].wslot
                            /\ fb'[g].length = fb[g].length
  PROVE  FbufInv' /\ \A g \in Handles : ChainOf(g)' = ChainOf(g)
<1>0. FbufTypes /\ Chains /\ FreeHandles /\ Owned /\ Filled /\ Writable /\ References /\ FreeExact /\ Texts
  BY DEF FbufInv
<1>1. phase' \in [Handles -> {"free", "building", "written", "shared"}]
  BY <1>0 DEF FbufTypes, Finished
<1>2. \A g \in Handles : /\ phase'[g] = "building" => phase[g] = "building"
                         /\ phase'[g] = "written" => phase[g] \in {"building", "written"}
                         /\ phase'[g] = "free" => phase[g] = "free"
  BY <1>0 DEF FbufTypes, Finished
<1>3. FbufTypes'
  BY <1>0, <1>1 DEF FbufTypes
<1> DEFINE ch == [g \in Handles |-> ChainOf(g)]
<1>4. \A g \in Handles : Path(pool', fb'[g].head, ch[g])
  BY <1>0 DEF Chains
<1>5. \A g \in Handles : phase'[g] = "free" => fb'[g].head = NILPTR /\ text'[g] = << >>
  BY <1>0, <1>2 DEF FreeHandles
<1>6. \A k, g \in Handles, s \in Slots :
        phase'[k] \in {"building", "written"} /\ g # k /\ Contains(ch[k], s) => ~Contains(ch[g], s)
  BY <1>0, <1>2 DEF Owned, InChain
<1>7. \A g \in Handles : phase'[g] \in {"building", "written"} =>
        Len(ch[g]) = 1 \/ \A s \in Slots : Contains(ch[g], s) => pool'[s].data # << >>
  BY <1>0, <1>2 DEF Filled, InChain
<1>8. \A g \in Handles : phase'[g] = "building" =>
           fb'[g].wslot = IF ch[g] = << >> THEN NILPTR ELSE Last(ch[g])
  BY <1>0, <1>2 DEF Writable
<1>9. \A s \in Slots : pool'[s].refcnt = Cardinality({g \in Handles : Contains(ch[g], s)})
  BY <1>0 DEF References, Users, InChain
<1>10. free_slots' = Cardinality({s \in Slots : pool'[s].refcnt = 0})
  BY <1>0 DEF FreeExact, FreeSet
<1>11. \A g \in Handles : text'[g] = Content(pool', ch[g]) /\ fb'[g].length = Len(text'[g])
  BY <1>0 DEF Texts
<1>12. \A g \in Handles : ch[g] = ChainOf(g)
  OBVIOUS
<1> HIDE DEF ch
<1> QED
  BY <1>3, <1>4, <1>5, <1>6, <1>7, <1>8, <1>9, <1>10, <1>11, <1>12, InvFrom

LEMMA ReadersStep ==
  ASSUME FbufInv, NEW h \in Handles,
         Reset(h) \/ GetChar(h) \/ \E pos \in 0..2*MaxLength : Rseek(h, pos)
  PROVE  FbufInv' /\ \A g \in Handles : ChainOf(g)' = ChainOf(g)
<1>1. FbTypes
  BY DEF FbufInv, FbufTypes
<1>2. h \in Live /\ UNCHANGED <<pool, free_slots, text>> /\ phase' = Finished(h)
  BY DEF Reset, GetChar, Rseek
<1> DEFINE head == fb[h].head
           wslot == fb[h].wslot
           rslot == fb[h].rslot
           length == fb[h].length
<1>3. /\ head \in SlotIndex /\ wslot \in SlotIndex /\ length \in Nat
      /\ fb[h] = Fb(head, wslot, rslot, fb[h].rpos, length) /\ DOMAIN fb = Handles
  BY <1>1, FbEta DEF FbTypes
<1>4. PICK r, q : fb' = [fb EXCEPT ![h].rslot = r, ![h].rpos = q] \/ fb' = [fb EXCEPT ![h].rpos = q]
  <2>1. \E r, q : fb' = [fb EXCEPT ![h].rslot = r, ![h].rpos = q] \/ fb' = [fb EXCEPT ![h].rpos = q]
    BY DEF Reset, GetChar, Rseek
  <2> QED
    BY <2>1
<1>5. \/ fb' = [fb EXCEPT ![h] = [[fb[h] EXCEPT !.rslot = r] EXCEPT !.rpos = q]]
      \/ fb' = [fb EXCEPT ![h] = [fb[h] EXCEPT !.rpos = q]]
  BY <1>3, <1>4
<1> DEFINE rpos == fb[h].rpos
<1>6. /\ FbTypes'
      /\ \A g \in Handles : /\ fb'[g].head = fb[g].head /\ fb'[g].wslot = fb[g].wslot
                            /\ fb'[g].length = fb[g].length
  <2>0. fb[h] = Fb(head, wslot, rslot, rpos, length)
    BY <1>3
  <2> HIDE DEF head, wslot, rslot, rpos, length
  <2>1. /\ [[fb[h] EXCEPT !.rslot = r] EXCEPT !.rpos = q] = Fb(head, wslot, r, q, length)
        /\ [fb[h] EXCEPT !.rpos = q] = Fb(head, wslot, rslot, q, length)
    <3> DEFINE f == fb[h]
    <3>1. f = Fb(head, wslot, rslot, rpos, length)
      BY <2>0
    <3> HIDE DEF f
    <3> DEFINE placed == [f EXCEPT !.rslot = r]
    <3>2. placed = Fb(head, wslot, r, rpos, length)
      BY <3>1, SMTT(30) DEF Fb
    <3>3. [f EXCEPT !.rpos = q] = Fb(head, wslot, rslot, q, length)
      BY <3>1, FbExcept
    <3> HIDE DEF placed
    <3>4. [placed EXCEPT !.rpos = q] = Fb(head, wslot, r, q, length)
      BY <3>2, SMTT(30) DEF Fb
    <3> QED
      BY <3>3, <3>4 DEF f, placed
  <2>2. PICK v : /\ v = Fb(head, wslot, r, q, length) \/ v = Fb(head, wslot, rslot, q, length)
                 /\ fb' = [fb EXCEPT ![h] = v]
    BY <1>5, <2>1
  <2>3. Whole(v) /\ v.head = head /\ v.wslot = wslot /\ v.length = length
    <3>1. Whole(v)
      BY <2>2, FbWhole
    <3> QED
      BY <2>2, <3>1 DEF Fb
  <2>4. FbTypes' /\ \A g \in Handles : fb'[g] = IF g = h THEN v ELSE fb[g]
    <3>1. v.head \in SlotIndex /\ v.wslot \in SlotIndex /\ v.length \in Nat
      BY <1>3, <2>3
    <3> QED
      BY <1>1, <2>2, <2>3, <3>1, FbSet
  <2> QED
    BY <2>3, <2>4 DEF head, wslot, length
<1> QED
  BY <1>2, <1>6, PoolRead

\* Chains of no slot and of one.
LEMMA Short ==
  /\ \A t : ~Contains(<< >>, t)
  /\ \A p : Path(p, NILPTR, << >>)
  /\ \A s : Last(<<s>>) = s /\ <<s>> # << >> /\ Len(<<s>>) = 1 /\ \A t : Contains(<<s>>, t) <=> t = s
  /\ \A p, s : s \in Slots /\ p[s].next = NILPTR => Path(p, s, <<s>>)
<1>1. \A t : ~Contains(<< >>, t)
  BY DEF Contains
<1>2. \A p : Path(p, NILPTR, << >>)
  <2>1. << >> \in Seq(Slots) /\ Len(<< >>) = 0
    BY EmptySeq
  <2> QED
    BY <2>1 DEF Path, Distinct, Along, After
<1>3. \A s : /\ Last(<<s>>) = s /\ <<s>> # << >> /\ Len(<<s>>) = 1
             /\ \A t : Contains(<<s>>, t) <=> t = s
  BY DEF Last, Contains
<1>4. \A p, s : s \in Slots /\ p[s].next = NILPTR => Path(p, s, <<s>>)
  BY DEF Path, Distinct, Along, After
<1> QED
  BY <1>1, <1>2, <1>3, <1>4

LEMMA InvInit == Init => FbufInv
<1> SUFFICES ASSUME Init PROVE FbufInv
  OBVIOUS
<1> USE DEF Init
<1>1. /\ pool \in Pools /\ \A s \in Slots : pool[s].refcnt = 0 /\ Len(pool[s].data) <= SLOTSIZE
      /\ << >> \in Seq(Slots) /\ << >> \in Seq(Bytes)
  BY FbufAssumption, EmptySeq DEF Pools, FreeSlot, SlotIndex
<1>2. FbTypes /\ \A h \in Handles : fb[h].head = NILPTR /\ fb[h].length = 0
  BY DEF FbTypes, Disposed, SlotIndex
<1>3. FbufTypes
  BY <1>1, <1>2 DEF FbufTypes
<1>4. Path(pool, NILPTR, << >>)
  BY <1>1 DEF Path, Distinct, Along, After
<1>5. \A h \in Handles : ChainOf(h) = << >>
  <2>1. ChainIn(pool, NILPTR) = << >>
    BY <1>1, <1>4, ChainIsPath DEF SlotIndex
  <2> QED
    BY <1>2, <2>1 DEF ChainOf, Chain
<1>6. \A h \in Handles, s \in Slots : ~InChain(h, s)
  BY <1>5 DEF InChain, Contains
<1>7. Chains /\ FreeHandles /\ Owned /\ Filled /\ Writable
  BY <1>2, <1>4, <1>5, <1>6 DEF Chains, FreeHandles, Owned, Filled, Writable
<1>8. References
  <2> SUFFICES ASSUME NEW s \in Slots PROVE Cardinality(Users(s)) = 0
    BY <1>1 DEF References
  <2>1. Users(s) = {}
    BY <1>6 DEF Users
  <2> QED
    BY <2>1, FS_EmptySet
<1>9. FreeExact
  <2>1. FreeSet = Slots
    BY <1>1 DEF FreeSet
  <2> QED
    BY <2>1, SlotsFacts DEF FreeExact
<1>10. Texts
  BY <1>1, <1>2, <1>5, ContentNone DEF Texts
<1> QED
  BY <1>3, <1>7, <1>8, <1>9, <1>10 DEF FbufInv

\* A new packet has one empty slot, or none.
LEMMA NewStep ==
  ASSUME FbufInv, NEW h \in Handles, New(h)
  PROVE  FbufInv'
<1> DEFINE new == FirstFree
           ch == [g \in Handles |-> IF g # h THEN ChainOf(g) ELSE IF new = NILPTR THEN << >> ELSE <<new>>]
<1>0. FbufTypes /\ Chains /\ FreeHandles /\ Owned /\ Filled /\ Writable /\ References /\ FreeExact /\ Texts
  BY DEF FbufInv
<1>1. new \in SlotIndex /\ NILPTR \notin Slots /\ (new # NILPTR => new \in Slots /\ pool[new].refcnt = 0)
  BY FirstFreeFacts, SlotsFacts
<1>2. /\ fb' = [fb EXCEPT ![h] = [Disposed EXCEPT !.head = new, !.wslot = new, !.rslot = new]]
      /\ pool' = IF new = NILPTR THEN pool ELSE [pool EXCEPT ![new] = FreshSlot]
      /\ free_slots' = IF new = NILPTR THEN free_slots ELSE free_slots - 1
      /\ phase' = [phase EXCEPT ![h] = "building"]
      /\ text' = [text EXCEPT ![h] = << >>]
      /\ phase[h] = "free"
  BY DEF New
<1>3. new # NILPTR => \A g \in Handles : ~Contains(ChainOf(g), new)
  BY <1>1, SlotFacts DEF InChain
<1>4. ChainOf(h) = << >>
  <2>1. Path(pool, NILPTR, ChainOf(h)) /\ NILPTR \in SlotIndex
    BY <1>0, <1>2 DEF Chains, FreeHandles, SlotIndex
  <2> QED
    BY <1>0, <2>1, PathFacts DEF FbufTypes
<1> HIDE DEF new
<1>5. /\ FbTypes'
      /\ \A g \in Handles : /\ fb'[g].head = IF g = h THEN new ELSE fb[g].head
                            /\ fb'[g].wslot = IF g = h THEN new ELSE fb[g].wslot
                            /\ fb'[g].length = IF g = h THEN 0 ELSE fb[g].length
  <2>1. [Disposed EXCEPT !.head = new, !.wslot = new, !.rslot = new] = Fb(new, new, new, 0, 0)
    BY FbNew, Zenon
  <2>2. FbTypes /\ 0 \in Nat
    BY <1>0 DEF FbufTypes
  <2>3. fb' = [fb EXCEPT ![h] = Fb(new, new, new, 0, 0)]
    BY <1>2, <2>1, Zenon
  <2>4. PICK v : v = Fb(new, new, new, 0, 0) /\ fb' = [fb EXCEPT ![h] = v]
    BY <2>3
  <2>5. Whole(v) /\ v.head = new /\ v.wslot = new /\ v.length = 0
    <3>1. Whole(v)
      BY <2>4, FbWhole
    <3> QED
      BY <2>4, <3>1 DEF Fb
  <2>6. /\ FbTypes'
        /\ \A g \in Handles : fb'[g] = IF g = h THEN v ELSE fb[g]
    <3>1. v.head \in SlotIndex /\ v.wslot \in SlotIndex /\ v.length \in Nat
      BY <1>1, <2>5
    <3> QED
      <4>1. /\ FbTypes /\ fb' = [fb EXCEPT ![h] = v]
            /\ Whole(v) /\ v.head \in SlotIndex /\ v.wslot \in SlotIndex /\ v.length \in Nat
        BY <2>2, <2>4, <2>5, <3>1, Zenon
      <4> QED
        BY <4>1, FbSet
  <2> QED
    BY <2>5, <2>6
<1>6. /\ pool' \in Pools /\ pool \in Pools
      /\ \A s \in Slots : IF s = new THEN pool'[s] = FreshSlot ELSE pool'[s] = pool[s]
  <2>1. FreshSlot \in [refcnt : Nat, next : SlotIndex, data : Seq(Bytes)]
    BY EmptySeq DEF FreshSlot, SlotIndex
  <2> QED
    BY <1>0, <1>1, <1>2, <2>1 DEF FbufTypes, Pools
<1>7. FbufTypes'
  <2>1. \A s \in Slots : Len(pool'[s].data) <= SLOTSIZE
    BY <1>0, <1>6, FbufAssumption DEF FbufTypes, FreshSlot
  <2>2. text' \in [Handles -> Seq(Bytes)]
    BY <1>0, <1>2, EmptySeq DEF FbufTypes
  <2>3. phase' \in [Handles -> {"free", "building", "written", "shared"}]
    BY <1>0, <1>2 DEF FbufTypes
  <2> QED
    BY <1>5, <1>6, <2>1, <2>2, <2>3 DEF FbufTypes
<1>8. \A g \in Handles : ch[g] = IF g # h THEN ChainOf(g) ELSE IF new = NILPTR THEN << >> ELSE <<new>>
  OBVIOUS
<1> HIDE DEF ch
<1>9. \A g \in Handles, s \in Slots : Contains(ch[g], s) <=> Contains(ChainOf(g), s) \/ (g = h /\ s = new)
  <2> SUFFICES ASSUME NEW g \in Handles, NEW s \in Slots
               PROVE  Contains(ch[g], s) <=> Contains(ChainOf(g), s) \/ (g = h /\ s = new)
    OBVIOUS
  <2>1. CASE g # h
    BY <1>8, <2>1
  <2>2. CASE g = h /\ new = NILPTR
    BY <1>1, <1>4, <1>8, <2>2 DEF Contains
  <2>3. CASE g = h /\ new # NILPTR
    <3>1. ch[g] = <<new>> /\ ChainOf(g) = << >>
      BY <1>4, <1>8, <2>3
    <3> QED
      BY <2>3, <3>1 DEF Contains
  <2> QED
    BY <2>1, <2>2, <2>3
<1>10. \A g \in Handles : Path(pool', fb'[g].head, ch[g])
  <2> SUFFICES ASSUME NEW g \in Handles PROVE Path(pool', fb'[g].head, ch[g])
    OBVIOUS
  <2>1. CASE g # h
    <3>1. Path(pool, fb'[g].head, ch[g])
      BY <1>0, <1>5, <1>8, <2>1 DEF Chains
    <3>2. \A t \in Slots : Contains(ch[g], t) => pool'[t].next = pool[t].next
      BY <1>1, <1>3, <1>6, <1>8, <2>1
    <3> QED
      BY <3>1, <3>2, PathFrame
  <2>2. CASE g = h /\ new = NILPTR
    BY <1>5, <1>8, <2>2, Short
  <2>3. CASE g = h /\ new # NILPTR
    <3>1. fb'[g].head = new /\ ch[g] = <<new>> /\ new \in Slots /\ pool'[new].next = NILPTR
      BY <1>1, <1>5, <1>6, <1>8, <2>3 DEF FreshSlot
    <3> QED
      BY <3>1, Short, <2>3
  <2> QED
    BY <2>1, <2>2, <2>3
<1>11. \A g \in Handles : phase'[g] = "free" => fb'[g].head = NILPTR /\ text'[g] = << >>
  BY <1>0, <1>2, <1>5 DEF FreeHandles, FbufTypes
<1>12. \A k, g \in Handles, s \in Slots :
         phase'[k] \in {"building", "written"} /\ g # k /\ Contains(ch[k], s) => ~Contains(ch[g], s)
  <2> SUFFICES ASSUME NEW k \in Handles, NEW g \in Handles, NEW s \in Slots, g # k,
                      phase'[k] \in {"building", "written"}, Contains(ch[k], s), Contains(ch[g], s)
               PROVE  FALSE
    OBVIOUS
  <2>1. s # new
    BY <1>1, <1>3, <1>9
  <2>2. Contains(ChainOf(k), s) /\ Contains(ChainOf(g), s)
    BY <1>9, <2>1
  <2>3. k # h
    BY <1>4, <2>2 DEF Contains
  <2>4. phase[k] \in {"building", "written"}
    BY <1>0, <1>2, <2>3 DEF FbufTypes
  <2> QED
    BY <1>0, <2>2, <2>4 DEF Owned, InChain
<1>13. \A g \in Handles : phase'[g] \in {"building", "written"} =>
         Len(ch[g]) = 1 \/ \A s \in Slots : Contains(ch[g], s) => pool'[s].data # << >>
  <2> SUFFICES ASSUME NEW g \in Handles, phase'[g] \in {"building", "written"}
               PROVE  Len(ch[g]) = 1 \/ \A s \in Slots : Contains(ch[g], s) => pool'[s].data # << >>
    OBVIOUS
  <2>1. CASE g = h
    <3>1. ch[g] = << >> \/ ch[g] = <<new>>
      BY <1>8, <2>1
    <3> QED
      BY <3>1, Short
  <2>2. CASE g # h
    <3>1. phase[g] \in {"building", "written"} /\ ch[g] = ChainOf(g)
      BY <1>0, <1>2, <1>8, <2>2 DEF FbufTypes
    <3>2. \A s \in Slots : Contains(ch[g], s) => pool'[s] = pool[s]
      BY <1>1, <1>3, <1>6, <3>1
    <3> QED
      BY <1>0, <3>1, <3>2 DEF Filled, InChain
  <2> QED
    BY <2>1, <2>2
<1>14. \A g \in Handles : phase'[g] = "building" =>
         fb'[g].wslot = IF ch[g] = << >> THEN NILPTR ELSE Last(ch[g])
  <2> SUFFICES ASSUME NEW g \in Handles, phase'[g] = "building"
               PROVE  fb'[g].wslot = IF ch[g] = << >> THEN NILPTR ELSE Last(ch[g])
    OBVIOUS
  <2>1. CASE g = h
    BY <1>5, <1>8, <2>1, Short
  <2>2. CASE g # h
    <3>1. phase[g] = "building" /\ ch[g] = ChainOf(g) /\ fb'[g].wslot = fb[g].wslot
      BY <1>0, <1>2, <1>5, <1>8, <2>2 DEF FbufTypes
    <3> QED
      BY <1>0, <3>1 DEF Writable
  <2> QED
    BY <2>1, <2>2
<1>15. \A s \in Slots : pool'[s].refcnt = Cardinality({g \in Handles : Contains(ch[g], s)})
  <2> SUFFICES ASSUME NEW s \in Slots
               PROVE  pool'[s].refcnt = Cardinality({g \in Handles : Contains(ch[g], s)})
    OBVIOUS
  <2>1. CASE s # new
    <3>1. {g \in Handles : Contains(ch[g], s)} = Users(s) /\ pool'[s] = pool[s]
      BY <1>6, <1>9, <2>1 DEF Users, InChain
    <3> QED
      BY <1>0, <3>1 DEF References
  <2>2. CASE s = new
    <3>1. new # NILPTR
      BY <1>1, <2>2
    <3>2. {g \in Handles : Contains(ch[g], s)} = {} \cup {h}
      BY <1>3, <1>9, <2>2, <3>1
    <3>3. pool'[s].refcnt = 1
      BY <1>6, <2>2 DEF FreshSlot
    <3>4. Cardinality({h}) = 1
      BY FS_Singleton
    <3> QED
      BY <3>2, <3>3, <3>4
  <2> QED
    BY <2>1, <2>2
<1>16. free_slots' = Cardinality({s \in Slots : pool'[s].refcnt = 0})
  <2>1. CASE new = NILPTR
    BY <1>0, <1>2, <2>1 DEF FreeExact, FreeSet
  <2>2. CASE new # NILPTR
    <3>1. {s \in Slots : pool'[s].refcnt = 0} = FreeSet \ {new} /\ new \in FreeSet /\ FreeSet \in SUBSET Slots
      BY <1>1, <1>6, <2>2 DEF FreeSet, FreshSlot
    <3>2. Cardinality(FreeSet \ {new}) = Cardinality(FreeSet) - 1
      BY <1>1, <2>2, <3>1, SlotSets
    <3> QED
      BY <1>0, <1>2, <2>2, <3>1, <3>2 DEF FreeExact
  <2> QED
    BY <2>1, <2>2
<1>17. \A g \in Handles : text'[g] = Content(pool', ch[g]) /\ fb'[g].length = Len(text'[g])
  <2> SUFFICES ASSUME NEW g \in Handles
               PROVE  text'[g] = Content(pool', ch[g]) /\ fb'[g].length = Len(text'[g])
    OBVIOUS
  <2>1. CASE g # h
    <3>1. text'[g] = text[g] /\ fb'[g].length = fb[g].length /\ ch[g] = ChainOf(g)
      BY <1>0, <1>2, <1>5, <1>8, <2>1 DEF FbufTypes
    <3>2. \A t \in Slots : Contains(ch[g], t) => pool'[t].data = pool[t].data
      BY <1>1, <1>3, <1>6, <3>1
    <3>3. ch[g] \in Seq(Slots)
      BY <1>0, <3>1 DEF Chains, Path
    <3>4. Content(pool', ch[g]) = Content(pool, ch[g])
      BY <1>6, <3>2, <3>3, ContentFrame
    <3> QED
      BY <1>0, <3>1, <3>4 DEF Texts
  <2>2. CASE g = h
    <3>1. text'[g] = << >> /\ fb'[g].length = 0
      BY <1>0, <1>2, <1>5, <2>2 DEF FbufTypes
    <3>2. Content(pool', ch[g]) = << >>
      <4>1. CASE new = NILPTR
        BY <1>6, <1>8, <2>2, <4>1, ContentNone
      <4>2. CASE new # NILPTR
        <5>1. Content(pool', <<new>>) = pool'[new].data /\ pool'[new].data = << >>
          BY <1>1, <1>6, <4>2, ContentOne DEF FreshSlot
        <5> QED
          BY <1>8, <2>2, <4>2, <5>1
      <4> QED
        BY <4>1, <4>2
    <3> QED
      BY <3>1, <3>2
  <2> QED
    BY <2>1, <2>2
<1> QED
  BY <1>7, <1>10, <1>11, <1>12, <1>13, <1>14, <1>15, <1>16, <1>17, InvFrom

\* A step on a packet h that shares nothing, whose chain is d then.
LEMMA OwnStep ==
  ASSUME FbufInv, FbufTypes', NEW h \in Handles, NEW d,
         phase[h] \in {"building", "written"}, phase'[h] # "free",
         \A g \in Handles : g # h => fb'[g] = fb[g] /\ phase'[g] = phase[g] /\ text'[g] = text[g],
         \A g \in Handles, s \in Slots : g # h /\ InChain(g, s) => pool'[s] = pool[s],
         Path(pool', fb'[h].head, d),
         \A g \in Handles, s \in Slots : g # h /\ InChain(g, s) => ~Contains(d, s),
         \A s \in Slots : pool'[s].refcnt = IF Contains(d, s) THEN 1
                                            ELSE IF InChain(h, s) THEN 0 ELSE pool[s].refcnt,
         free_slots' = Cardinality({s \in Slots : pool'[s].refcnt = 0}),
         phase'[h] \in {"building", "written"} =>
           Len(d) = 1 \/ \A s \in Slots : Contains(d, s) => pool'[s].data # << >>,
         phase'[h] = "building" => fb'[h].wslot = IF d = << >> THEN NILPTR ELSE Last(d),
         text'[h] = Content(pool', d), fb'[h].length = Len(text'[h])
  PROVE  FbufInv'
<1> DEFINE ch == [g \in Handles |-> IF g = h THEN d ELSE ChainOf(g)]
<1>0. FbufTypes /\ Chains /\ FreeHandles /\ Owned /\ Filled /\ Writable /\ References /\ FreeExact /\ Texts
  BY DEF FbufInv
<1>1. \A g \in Handles : ch[g] = IF g = h THEN d ELSE ChainOf(g)
  OBVIOUS
<1> HIDE DEF ch
<1>2. \A g \in Handles : Path(pool', fb'[g].head, ch[g])
  <2> SUFFICES ASSUME NEW g \in Handles, g # h PROVE Path(pool', fb'[g].head, ch[g])
    BY <1>1
  <2>1. Path(pool, fb'[g].head, ChainOf(g))
    BY <1>0 DEF Chains
  <2>2. \A t \in Slots : Contains(ChainOf(g), t) => pool'[t].next = pool[t].next
    BY DEF InChain
  <2> QED
    BY <1>1, <2>1, <2>2, PathFrame
<1>3. \A g \in Handles : phase'[g] = "free" => fb'[g].head = NILPTR /\ text'[g] = << >>
  BY <1>0 DEF FreeHandles
<1>4. \A k, g \in Handles, s \in Slots :
        phase'[k] \in {"building", "written"} /\ g # k /\ Contains(ch[k], s) => ~Contains(ch[g], s)
  <2> SUFFICES ASSUME NEW k \in Handles, NEW g \in Handles, NEW s \in Slots, g # k,
                      phase'[k] \in {"building", "written"}, Contains(ch[k], s), Contains(ch[g], s)
               PROVE  FALSE
    OBVIOUS
  <2>1. CASE g # h /\ k # h
    BY <1>0, <1>1, <2>1 DEF Owned, InChain
  <2>2. CASE g = h \/ k = h
    BY <1>1, <2>2 DEF InChain
  <2> QED
    BY <2>1, <2>2
<1>5. \A g \in Handles : phase'[g] \in {"building", "written"} =>
         Len(ch[g]) = 1 \/ \A s \in Slots : Contains(ch[g], s) => pool'[s].data # << >>
  <2> SUFFICES ASSUME NEW g \in Handles, g # h, phase'[g] \in {"building", "written"}
               PROVE  Len(ch[g]) = 1 \/ \A s \in Slots : Contains(ch[g], s) => pool'[s].data # << >>
    BY <1>1
  <2> QED
    BY <1>0, <1>1 DEF Filled, InChain
<1>6. \A g \in Handles : phase'[g] = "building" =>
         fb'[g].wslot = IF ch[g] = << >> THEN NILPTR ELSE Last(ch[g])
  BY <1>0, <1>1 DEF Writable
<1>7. \A s \in Slots : pool'[s].refcnt = Cardinality({g \in Handles : Contains(ch[g], s)})
  <2> SUFFICES ASSUME NEW s \in Slots
               PROVE  pool'[s].refcnt = Cardinality({g \in Handles : Contains(ch[g], s)})
    OBVIOUS
  <2>1. CASE Contains(d, s)
    <3>1. {g \in Handles : Contains(ch[g], s)} = {h}
      BY <1>1, <2>1 DEF InChain
    <3>2. Cardinality({h}) = 1
      BY FS_Singleton
    <3> QED
      BY <2>1, <3>1, <3>2
  <2>2. CASE ~Contains(d, s) /\ InChain(h, s)
    <3>1. {g \in Handles : Contains(ch[g], s)} = {}
      BY <1>0, <1>1, <2>2 DEF Owned, InChain
    <3> QED
      BY <2>2, <3>1, FS_EmptySet
  <2>3. CASE ~Contains(d, s) /\ ~InChain(h, s)
    <3>1. {g \in Handles : Contains(ch[g], s)} = Users(s)
      BY <1>1, <2>3 DEF Users, InChain
    <3> QED
      BY <1>0, <2>3, <3>1 DEF References
  <2> QED
    BY <2>1, <2>2, <2>3
<1>8. \A g \in Handles : text'[g] = Content(pool', ch[g]) /\ fb'[g].length = Len(text'[g])
  <2> SUFFICES ASSUME NEW g \in Handles, g # h
               PROVE  text'[g] = Content(pool', ch[g]) /\ fb'[g].length = Len(text'[g])
    BY <1>1
  <2>1. \A t \in Slots : Contains(ChainOf(g), t) => pool'[t].data = pool[t].data
    BY DEF InChain
  <2>2. pool \in Pools /\ pool' \in Pools /\ ChainOf(g) \in Seq(Slots)
    BY <1>0 DEF FbufTypes, Chains, Path
  <2>3. Content(pool', ChainOf(g)) = Content(pool, ChainOf(g))
    BY <2>1, <2>2, ContentFrame
  <2> QED
    BY <1>0, <1>1, <2>3 DEF Texts
<1> QED
  BY <1>2, <1>3, <1>4, <1>5, <1>6, <1>7, <1>8, InvFrom

\* A packet that shares nothing: its slots have one reference, its end is not free.
LEMMA OwnFacts ==
  ASSUME FbufInv, NEW h \in Handles, phase[h] \in {"building", "written"}
  PROVE  /\ \A g \in Handles, s \in Slots : g # h /\ InChain(g, s) => ~InChain(h, s)
         /\ \A s \in Slots : InChain(h, s) => pool[s].refcnt = 1
<1>1. \A g \in Handles, s \in Slots : g # h /\ InChain(g, s) => ~InChain(h, s)
  BY DEF FbufInv, Owned
<1>2. ASSUME NEW s \in Slots, InChain(h, s) PROVE pool[s].refcnt = 1
  <2>1. Users(s) = {h}
    BY <1>1, <1>2 DEF Users
  <2>2. Cardinality({h}) = 1
    BY FS_Singleton
  <2> QED
    BY <2>1, <2>2 DEF FbufInv, References
<1> QED
  BY <1>1, <1>2

\* A chain is continued with another one.
LEMMA PathJoin ==
  ASSUME NEW p, NEW q, NEW s, NEW c \in Seq(Slots), c # << >>, Distinct(c), Along(p, s, c),
         \A t \in Slots : Contains(c, t) /\ t # Last(c) => q[t].next = p[t].next,
         NEW e, Path(q, q[Last(c)].next, e), \A t : ~(Contains(c, t) /\ Contains(e, t))
  PROVE  Path(q, s, c \o e)
<1>1. /\ e \in Seq(Slots) /\ Distinct(e) /\ Along(q, q[Last(c)].next, e)
      /\ After(q, q[Last(c)].next, e) = NILPTR
  BY DEF Path
<1>2. c \o e \in Seq(Slots) /\ Distinct(c \o e)
  BY <1>1, DistinctConcat, ConcatSeq
<1>3. After(q, s, c) = q[Last(c)].next
  BY DEF After, Last
<1>4. Along(q, s, c)
  <2> SUFFICES ASSUME NEW i \in 1..Len(c) PROVE c[i] = IF i = 1 THEN s ELSE q[c[i-1]].next
    BY DEF Along
  <2>1. CASE i = 1
    BY <2>1 DEF Along
  <2>2. CASE i # 1
    <3>1. i - 1 \in 1..Len(c) /\ i - 1 # Len(c) /\ Len(c) \in 1..Len(c)
      BY <2>2
    <3>2. c[i-1] # c[Len(c)] /\ c[i-1] \in Slots
      BY <3>1 DEF Distinct
    <3>3. Contains(c, c[i-1])
      BY <3>1 DEF Contains
    <3>4. q[c[i-1]].next = p[c[i-1]].next
      BY <3>2, <3>3 DEF Last
    <3> QED
      BY <2>2, <3>4 DEF Along
  <2> QED
    BY <2>1, <2>2
<1> QED
  BY <1>1, <1>2, <1>3, <1>4, AlongConcat DEF Path

LEMMA LastSplit ==
  ASSUME NEW c \in Seq(Slots), c # << >>, Distinct(c)
  PROVE  /\ Front(c) \in Seq(Slots) /\ Last(c) \in Slots /\ c = Front(c) \o <<Last(c)>>
         /\ Len(Front(c)) = Len(c) - 1 /\ Contains(c, Last(c))
         /\ Distinct(Front(c)) /\ ~Contains(Front(c), Last(c))
         /\ \A t : Contains(c, t) <=> Contains(Front(c), t) \/ t = Last(c)
<1>1. /\ Front(c) \in Seq(Slots) /\ Last(c) \in Slots /\ Len(Front(c)) = Len(c) - 1
      /\ \A i \in 1..Len(c) - 1 : Front(c)[i] = c[i]
      /\ Len(c) \in 1..Len(c) /\ <<Last(c)>> \in Seq(Slots)
  <2>1. Len(c) \in 1..Len(c) /\ Len(c) - 1 \in Nat /\ Last(c) \in Slots
    BY DEF Last
  <2>2. Front(c) = SubSeq(c, 1, Len(c) - 1)
    BY DEF Front
  <2>3. Front(c) \in Seq(Slots) /\ Len(Front(c)) = Len(c) - 1
    <3> DEFINE n == Len(c) - 1
    <3>1. 1 \in Int /\ n \in Int /\ n \in Nat /\ \A i \in 1..n : c[i] \in Slots
      BY <2>1
    <3> HIDE DEF n
    <3>2. SubSeq(c, 1, n) \in Seq(Slots) /\ Len(SubSeq(c, 1, n)) = IF 1 <= n THEN n - 1 + 1 ELSE 0
      BY <3>1, SubSeqProperties
    <3>3. Front(c) = SubSeq(c, 1, n)
      BY <2>2 DEF n
    <3>4. Front(c) \in Seq(Slots) /\ Len(Front(c)) = n
      BY <3>1, <3>2, <3>3
    <3> QED
      BY <3>4 DEF n
  <2>4. \A i \in 1..Len(c) - 1 : Front(c)[i] = c[i]
    BY <2>1, <2>2
  <2> QED
    BY <2>1, <2>3, <2>4
<1>2. c = Front(c) \o <<Last(c)>>
  <2> DEFINE f == Front(c)
             l == Last(c)
  <2>1. /\ f \in Seq(Slots) /\ Len(f) = Len(c) - 1 /\ l = c[Len(c)] /\ Len(c) >= 1
        /\ \A i \in 1..Len(c) - 1 : f[i] = c[i]
    BY <1>1 DEF Last
  <2> HIDE DEF f, l
  <2>2. Len(f \o <<l>>) = Len(c)
    BY <2>1
  <2>3. \A i \in 1..Len(c) : (f \o <<l>>)[i] = c[i]
    BY <2>1
  <2>4. f \o <<l>> \in Seq(Slots)
    BY <1>1, <2>1, ConcatSeq DEF l
  <2> QED
    BY <2>2, <2>3, <2>4, SeqEqual DEF f, l
<1> DEFINE f == Front(c)
           l == Last(c)
<1>3. f \in Seq(Slots) /\ <<l>> \in Seq(Slots) /\ c = f \o <<l>>
  BY <1>1, <1>2
<1> HIDE DEF f, l
<1>4. Distinct(f) /\ \A t : ~(Contains(f, t) /\ Contains(<<l>>, t))
  BY <1>3, DistinctConcat
<1>5. \A t : Contains(c, t) <=> Contains(f, t) \/ Contains(<<l>>, t)
  BY <1>3, ContainsConcat
<1>6. \A t : Contains(<<l>>, t) <=> t = l
  BY Short
<1> QED
  BY <1>1, <1>2, <1>4, <1>5, <1>6 DEF f, l

LEMMA AppendConcat ==
  ASSUME NEW S, NEW c \in Seq(S), NEW x \in S
  PROVE  Append(c, x) = c \o <<x>> /\ Append(c, x) \in Seq(S) /\ <<x>> \in Seq(S)
         /\ Len(Append(c, x)) = Len(c) + 1
OBVIOUS

LEMMA PutFacts ==
  ASSUME FbufInv, NEW h \in Handles, PutChar(h)
  PROVE  LET w == fb[h].wslot
             c == ChainOf(h)
             byte == NextByte(h)
         IN  /\ w \in Slots /\ c # << >> /\ w = Last(c) /\ InChain(h, w) /\ pool[w].next = NILPTR
             /\ phase[h] = "building" /\ phase' = phase
             /\ byte \in Bytes /\ text' = [text EXCEPT ![h] = Append(@, byte)]
             /\ fb[h].length \in Nat /\ pool[w].refcnt = 1 /\ Path(pool, fb[h].head, c)
<1>0. FbufTypes /\ Chains /\ Writable
  BY DEF FbufInv
<1>1. /\ fb[h].wslot # NILPTR /\ phase[h] = "building" /\ fb[h].length < MaxLength /\ phase' = phase
      /\ text' = [text EXCEPT ![h] = Append(@, NextByte(h))]
  BY DEF PutChar
<1>2. fb[h].wslot = IF ChainOf(h) = << >> THEN NILPTR ELSE Last(ChainOf(h))
  BY <1>0, <1>1 DEF Writable
<1>3. Path(pool, fb[h].head, ChainOf(h)) /\ pool \in Pools /\ fb[h].head \in SlotIndex /\ fb[h].length \in Nat
  BY <1>0 DEF Chains, FbufTypes, FbTypes
<1>4. /\ ChainOf(h) # << >> /\ fb[h].wslot = Last(ChainOf(h)) /\ fb[h].wslot \in Slots
      /\ InChain(h, fb[h].wslot) /\ pool[fb[h].wslot].next = NILPTR
  BY <1>1, <1>2, <1>3, PathFacts DEF InChain
<1>5. pool[fb[h].wslot].refcnt = 1
  BY <1>1, <1>4, OwnFacts
<1>6. NextByte(h) \in Bytes
  BY <1>1, <1>3, FbufAssumption DEF NextByte, Bytes
<1> QED
  BY <1>1, <1>3, <1>4, <1>5, <1>6

\* The records of the packets after a byte was put.
LEMMA PutHandles ==
  ASSUME FbufInv, NEW h \in Handles, PutChar(h), NEW slot \in SlotIndex,
         fb' = [fb EXCEPT ![h].wslot = slot, ![h].length = @ + 1]
  PROVE  /\ FbTypes' /\ text' \in [Handles -> Seq(Bytes)]
         /\ \A g \in Handles : g # h => fb'[g] = fb[g] /\ phase'[g] = phase[g] /\ text'[g] = text[g]
         /\ fb'[h].head = fb[h].head /\ fb'[h].wslot = slot /\ fb'[h].length = fb[h].length + 1
         /\ fb'[h].rslot = fb[h].rslot /\ fb'[h].rpos = fb[h].rpos
         /\ text'[h] = Content(pool, ChainOf(h)) \o <<NextByte(h)>>
         /\ text'[h] \in Seq(Bytes) /\ fb'[h].length = Len(text'[h])
         /\ Content(pool, ChainOf(h)) \in Seq(Bytes)
<1>0. FbTypes /\ Texts /\ text \in [Handles -> Seq(Bytes)] /\ pool \in Pools /\ ChainOf(h) \in Seq(Slots)
  BY DEF FbufInv, FbufTypes, Chains, Path
<1>1. /\ NextByte(h) \in Bytes /\ text' = [text EXCEPT ![h] = Append(@, NextByte(h))]
      /\ phase' = phase /\ fb[h].length \in Nat
  BY PutFacts
<1> DEFINE head == fb[h].head
           wslot == fb[h].wslot
           rslot == fb[h].rslot
           rpos == fb[h].rpos
           length == fb[h].length
           more == length + 1
           f == fb[h]
           placed == [f EXCEPT !.wslot = slot]
           v == [placed EXCEPT !.length = more]
<1>2. f = Fb(head, wslot, rslot, rpos, length) /\ head \in SlotIndex /\ more \in Nat
  BY <1>0, <1>1, FbEta DEF FbTypes
<1>3. fb' = [fb EXCEPT ![h] = v]
  BY <1>0 DEF FbTypes
<1> HIDE DEF f, head, wslot, rslot, rpos, length, more
<1>4. placed = Fb(head, slot, rslot, rpos, length)
  BY <1>2, SMTT(30) DEF Fb
<1> HIDE DEF placed
<1>5. v = Fb(head, slot, rslot, rpos, more)
  BY <1>4, SMTT(30) DEF Fb
<1> HIDE DEF v
<1>6. Whole(v) /\ v.head = head /\ v.wslot = slot /\ v.length = more /\ v.rslot = rslot /\ v.rpos = rpos
  <2>1. Whole(v)
    BY <1>5, FbWhole
  <2> QED
    BY <1>5, <2>1 DEF Fb
<1>7. FbTypes' /\ \A g \in Handles : fb'[g] = IF g = h THEN v ELSE fb[g]
  <2>1. v.head \in SlotIndex /\ v.wslot \in SlotIndex /\ v.length \in Nat
    BY <1>2, <1>6
  <2> QED
    BY <1>0, <1>3, <1>6, <2>1, FbSet
<1>8. /\ \A g \in Handles : g # h => fb'[g] = fb[g] /\ phase'[g] = phase[g]
      /\ fb'[h].head = fb[h].head /\ fb'[h].wslot = slot /\ fb'[h].length = fb[h].length + 1
      /\ fb'[h].rslot = fb[h].rslot /\ fb'[h].rpos = fb[h].rpos
  BY <1>1, <1>6, <1>7 DEF head, more, length, rslot, rpos
<1>9. \A g \in Handles : text'[g] = IF g = h THEN Append(text[h], NextByte(h)) ELSE text[g]
  BY <1>0, <1>1
<1>10. /\ text[h] = Content(pool, ChainOf(h)) /\ fb[h].length = Len(text[h]) /\ text[h] \in Seq(Bytes)
  BY <1>0 DEF Texts
<1>11. /\ text'[h] = text[h] \o <<NextByte(h)>> /\ text'[h] \in Seq(Bytes)
       /\ Len(text'[h]) = Len(text[h]) + 1
  <2> DEFINE t == text[h]
             b == NextByte(h)
  <2>1. t \in Seq(Bytes) /\ b \in Bytes /\ text'[h] = Append(t, b)
    BY <1>1, <1>9, <1>10
  <2> HIDE DEF t, b
  <2>2. text'[h] = t \o <<b>> /\ text'[h] \in Seq(Bytes) /\ Len(text'[h]) = Len(t) + 1
    BY <2>1, AppendConcat
  <2> QED
    BY <2>2 DEF t, b
<1>12. text' \in [Handles -> Seq(Bytes)]
  BY <1>0, <1>1, <1>9, <1>11
<1> QED
  BY <1>7, <1>8, <1>9, <1>10, <1>11, <1>12

LEMMA PutInSlot ==
  ASSUME FbufInv, NEW h \in Handles, PutChar(h), ~Full(fb[h].wslot)
  PROVE  /\ FbufInv'
         /\ \A g \in Handles, s \in Slots : g # h /\ InChain(g, s) => pool'[s] = pool[s]
<1> DEFINE w == fb[h].wslot
           c == ChainOf(h)
           byte == NextByte(h)
<1>0. FbufTypes /\ Chains /\ Filled /\ References /\ FreeExact /\ phase[h] \in {"building", "written"}
  BY PutFacts DEF FbufInv
<1>1. /\ w \in Slots /\ c # << >> /\ w = Last(c) /\ InChain(h, w) /\ phase[h] = "building"
      /\ byte \in Bytes /\ Path(pool, fb[h].head, c) /\ phase' = phase
  BY PutFacts
<1>2. /\ pool' = [pool EXCEPT ![w].data = Append(@, byte)] /\ free_slots' = free_slots
      /\ fb' = [fb EXCEPT ![h].wslot = w, ![h].length = @ + 1]
  BY DEF PutChar
<1>3. w \in SlotIndex
  BY <1>1 DEF SlotIndex
<1>4. /\ FbTypes' /\ text' \in [Handles -> Seq(Bytes)]
      /\ \A g \in Handles : g # h => fb'[g] = fb[g] /\ phase'[g] = phase[g] /\ text'[g] = text[g]
      /\ fb'[h].head = fb[h].head /\ fb'[h].wslot = w
      /\ text'[h] = Content(pool, c) \o <<byte>>
      /\ fb'[h].length = Len(text'[h])
  <2> HIDE DEF w
  <2> QED
    BY <1>2, <1>3, PutHandles
<1>5. pool[w].data \in Seq(Bytes) /\ Len(pool[w].data) < SLOTSIZE
  BY <1>0, <1>1, FbufAssumption DEF FbufTypes, Pools, Full
<1>6. /\ pool' \in Pools /\ pool \in Pools /\ c \in Seq(Slots) /\ Distinct(c)
      /\ pool'[w].data = pool[w].data \o <<byte>> /\ pool'[w].data # << >>
      /\ Len(pool'[w].data) <= SLOTSIZE
      /\ \A s \in Slots : /\ pool'[s].next = pool[s].next /\ pool'[s].refcnt = pool[s].refcnt
                          /\ s # w => pool'[s] = pool[s]
  <2> DEFINE data == Append(pool[w].data, byte)
  <2>1. /\ data \in Seq(Bytes) /\ data = pool[w].data \o <<byte>> /\ data # << >>
        /\ Len(data) = Len(pool[w].data) + 1
    BY <1>1, <1>5
  <2>2. pool' = [pool EXCEPT ![w].data = data]
    BY <1>2
  <2> HIDE DEF data
  <2>3. /\ pool' \in Pools /\ pool'[w].data = data
        /\ \A s \in Slots : /\ pool'[s].next = pool[s].next /\ pool'[s].refcnt = pool[s].refcnt
                            /\ s # w => pool'[s] = pool[s]
    BY <1>0, <1>1, <2>1, <2>2 DEF FbufTypes, Pools
  <2> QED
    BY <1>0, <1>1, <1>5, <2>1, <2>3, FbufAssumption DEF FbufTypes, Path
<1> HIDE DEF c, byte
<1>7. FbufTypes'
  <2>1. \A s \in Slots : Len(pool'[s].data) <= SLOTSIZE
    BY <1>0, <1>6 DEF FbufTypes
  <2> QED
    BY <1>0, <1>1, <1>4, <1>6, <2>1 DEF FbufTypes
<1>8. Path(pool', fb'[h].head, c)
  BY <1>1, <1>4, <1>6, PathFrame
<1>9. \A g \in Handles, s \in Slots : g # h /\ InChain(g, s) => ~Contains(c, s)
  BY <1>0, OwnFacts DEF InChain, c
<1>10. \A s \in Slots : pool'[s].refcnt = IF Contains(c, s) THEN 1
                                           ELSE IF InChain(h, s) THEN 0 ELSE pool[s].refcnt
  BY <1>0, <1>6, OwnFacts DEF InChain, c
<1>11. free_slots' = Cardinality({s \in Slots : pool'[s].refcnt = 0})
  BY <1>0, <1>2, <1>6 DEF FreeExact, FreeSet
<1>12. Len(c) = 1 \/ \A s \in Slots : Contains(c, s) => pool'[s].data # << >>
  BY <1>0, <1>6 DEF Filled, InChain, c
<1>13. text'[h] = Content(pool', c)
  <2>1. Front(c) \in Seq(Slots) /\ c = Front(c) \o <<w>> /\ ~Contains(Front(c), w)
    BY <1>1, <1>6, LastSplit
  <2> DEFINE f == Front(c)
  <2>2. f \in Seq(Slots) /\ <<w>> \in Seq(Slots) /\ c = f \o <<w>> /\ ~Contains(f, w)
    BY <1>1, <2>1
  <2> HIDE DEF f, w
  <2>3. /\ Content(pool', c) = Content(pool', f) \o Content(pool', <<w>>)
        /\ Content(pool, c) = Content(pool, f) \o Content(pool, <<w>>)
    BY <1>6, <2>2, ContentConcat
  <2>4. Content(pool', f) = Content(pool, f)
    BY <1>6, <2>2, ContentFrame
  <2>5. Content(pool', <<w>>) = pool'[w].data /\ Content(pool, <<w>>) = pool[w].data
    BY <1>1, <1>6, ContentOne
  <2> DEFINE front == Content(pool, f)
             data == pool[w].data
             one == <<byte>>
  <2>6. front \in Seq(Bytes) /\ data \in Seq(Bytes) /\ one \in Seq(Bytes)
    BY <1>1, <1>5, <1>6, <2>2, ContentType DEF byte
  <2>7. text'[h] = Content(pool, c) \o one /\ Content(pool, c) = front \o data
    BY <1>4, <2>3, <2>5 DEF c, byte
  <2>8. Content(pool', c) = front \o (data \o one)
    BY <1>6, <2>3, <2>4, <2>5 DEF byte
  <2> HIDE DEF front, data, one
  <2>9. front \o (data \o one) = (front \o data) \o one
    BY <2>6, ConcatSeq
  <2> QED
    BY <2>7, <2>8, <2>9
<1>14. \A g \in Handles, s \in Slots : g # h /\ InChain(g, s) => pool'[s] = pool[s]
  BY <1>0, <1>1, <1>6, OwnFacts
<1>15. fb'[h].wslot = IF c = << >> THEN NILPTR ELSE Last(c)
  BY <1>1, <1>4
<1> QED
  BY <1>0, <1>1, <1>4, <1>7, <1>8, <1>9, <1>10, <1>11, <1>12, <1>13, <1>14, <1>15, OwnStep

LEMMA PutNewSlot ==
  ASSUME FbufInv, NEW h \in Handles, PutChar(h), Full(fb[h].wslot)
  PROVE  /\ FbufInv'
         /\ \A g \in Handles, s \in Slots : g # h /\ InChain(g, s) => pool'[s] = pool[s]
<1> DEFINE w == fb[h].wslot
           c == ChainOf(h)
           byte == NextByte(h)
           new == FirstFree
           one == <<new>>
           d == c \o one
<1>0. FbufTypes /\ Chains /\ Filled /\ References /\ FreeExact /\ phase[h] \in {"building", "written"}
  BY PutFacts DEF FbufInv
<1>1. /\ w \in Slots /\ c # << >> /\ w = Last(c) /\ InChain(h, w) /\ phase[h] = "building"
      /\ byte \in Bytes /\ Path(pool, fb[h].head, c) /\ phase' = phase /\ pool[w].refcnt = 1
  BY PutFacts
<1>2. /\ pool' = [pool EXCEPT ![new] = [FreshSlot EXCEPT !.data = <<byte>>], ![w].next = new]
      /\ free_slots' = free_slots - 1 /\ new # NILPTR
      /\ fb' = [fb EXCEPT ![h].wslot = new, ![h].length = @ + 1]
  BY DEF PutChar
<1>3. /\ new \in Slots /\ new \in SlotIndex /\ pool[new].refcnt = 0 /\ new # w
      /\ \A g \in Handles : ~InChain(g, new)
  BY <1>1, <1>2, FirstFreeFacts, SlotFacts DEF SlotIndex
<1> HIDE DEF w, new
<1>4. /\ FbTypes' /\ text' \in [Handles -> Seq(Bytes)]
      /\ \A g \in Handles : g # h => fb'[g] = fb[g] /\ phase'[g] = phase[g] /\ text'[g] = text[g]
      /\ fb'[h].head = fb[h].head /\ fb'[h].wslot = new
      /\ text'[h] = Content(pool, c) \o <<byte>>
      /\ fb'[h].length = Len(text'[h])
  BY <1>2, <1>3, PutHandles
<1>5. /\ pool' \in Pools /\ pool \in Pools /\ c \in Seq(Slots) /\ Distinct(c) /\ Along(pool, fb[h].head, c)
      /\ pool'[new].data = <<byte>> /\ pool'[new].refcnt = 1 /\ pool'[new].next = NILPTR
      /\ pool'[w].next = new /\ pool'[w].data = pool[w].data /\ pool'[w].refcnt = pool[w].refcnt
      /\ \A s \in Slots : s # w /\ s # new => pool'[s] = pool[s]
  <2> DEFINE fresh == [FreshSlot EXCEPT !.data = <<byte>>]
  <2>1. /\ fresh \in [refcnt : Nat, next : SlotIndex, data : Seq(Bytes)]
        /\ fresh.data = <<byte>> /\ fresh.refcnt = 1 /\ fresh.next = NILPTR
    <3>1. <<byte>> \in Seq(Bytes)
      BY <1>1
    <3> DEFINE data == <<byte>>
    <3> HIDE DEF data
    <3>2. [FreshSlot EXCEPT !.data = data] = [refcnt |-> 1, next |-> NILPTR, data |-> data]
      BY DEF FreshSlot
    <3>3. data \in Seq(Bytes) /\ NILPTR \in SlotIndex
      BY <3>1 DEF SlotIndex, data
    <3> DEFINE slot == [FreshSlot EXCEPT !.data = data]
    <3>4. slot = [refcnt |-> 1, next |-> NILPTR, data |-> data]
      BY <3>2
    <3> HIDE DEF slot
    <3>5. /\ slot \in [refcnt : Nat, next : SlotIndex, data : Seq(Bytes)]
          /\ slot.data = data /\ slot.refcnt = 1 /\ slot.next = NILPTR
      BY <3>3, <3>4
    <3> QED
      BY <3>5 DEF slot, data
  <2>2. pool' = [pool EXCEPT ![new] = fresh, ![w].next = new]
    BY <1>2
  <2> HIDE DEF fresh, byte
  <2>3. /\ pool' \in Pools /\ pool'[new] = fresh
        /\ pool'[w].next = new /\ pool'[w].data = pool[w].data /\ pool'[w].refcnt = pool[w].refcnt
        /\ \A s \in Slots : s # w /\ s # new => pool'[s] = pool[s]
    BY <1>0, <1>1, <1>3, <2>1, <2>2 DEF FbufTypes, Pools
  <2> QED
    BY <1>0, <1>1, <2>1, <2>3 DEF FbufTypes, Path
<1> HIDE DEF c, byte
<1>6. FbufTypes'
  <2>1. \A s \in Slots : Len(pool'[s].data) <= SLOTSIZE
    <3>1. Len(<<byte>>) = 1 /\ 1 <= SLOTSIZE
      BY FbufAssumption
    <3> QED
      BY <1>0, <1>1, <1>5, <3>1 DEF FbufTypes
  <2> QED
    BY <1>0, <1>1, <1>4, <1>5, <2>1 DEF FbufTypes
<1>7. /\ one \in Seq(Slots) /\ Last(d) = new /\ d # << >> /\ d \in Seq(Slots)
      /\ Content(pool', d) = Content(pool', c) \o Content(pool', one)
      /\ \A s : Contains(d, s) <=> Contains(c, s) \/ s = new
  <2>1. one \in Seq(Slots) /\ \A s : Contains(one, s) <=> s = new
    BY <1>3, Short
  <2>2. /\ d = Append(c, new) /\ d \in Seq(Slots) /\ Len(d) = Len(c) + 1 /\ Len(c) \in Nat
        /\ d[Len(c) + 1] = new
    BY <1>3, <1>5
  <2>3. Last(d) = new /\ d # << >>
    BY <2>2 DEF Last
  <2> HIDE DEF one
  <2>4. Content(pool', d) = Content(pool', c) \o Content(pool', one)
    BY <1>5, <2>1, ContentConcat
  <2>5. \A s : Contains(d, s) <=> Contains(c, s) \/ Contains(one, s)
    BY <1>5, <2>1, ContainsConcat
  <2> QED
    BY <2>1, <2>2, <2>3, <2>4, <2>5
<1>8. Path(pool', fb'[h].head, d)
  <2>1. Path(pool', pool'[Last(c)].next, one)
    BY <1>1, <1>3, <1>5, Short
  <2>2. \A t : ~(Contains(c, t) /\ Contains(one, t))
    BY <1>3, Short DEF InChain, c
  <2>3. \A t \in Slots : Contains(c, t) /\ t # Last(c) => pool'[t].next = pool[t].next
    BY <1>1, <1>3, <1>5 DEF InChain, c
  <2>4. c \in Seq(Slots) /\ c # << >> /\ Distinct(c) /\ Along(pool, fb[h].head, c)
    BY <1>1 DEF Path
  <2>5. fb'[h].head = fb[h].head
    BY <1>4
  <2> HIDE DEF one
  <2>6. Path(pool', fb[h].head, c \o one)
    BY <2>1, <2>2, <2>3, <2>4, PathJoin
  <2> QED
    BY <2>5, <2>6
<1>9. \A g \in Handles, s \in Slots : g # h /\ InChain(g, s) => ~Contains(d, s)
  BY <1>0, <1>3, <1>7, OwnFacts DEF InChain, c
<1>10. \A s \in Slots : pool'[s].refcnt = IF Contains(d, s) THEN 1
                                           ELSE IF InChain(h, s) THEN 0 ELSE pool[s].refcnt
  <2>1. \A s \in Slots : Contains(c, s) => pool[s].refcnt = 1
    BY <1>0, OwnFacts DEF InChain, c
  <2>2. \A s \in Slots : InChain(h, s) <=> Contains(c, s)
    BY DEF InChain, c
  <2> QED
    BY <1>1, <1>3, <1>5, <1>7, <2>1, <2>2
<1>11. free_slots' = Cardinality({s \in Slots : pool'[s].refcnt = 0})
  <2>1. \A s \in Slots : pool'[s].refcnt = 0 <=> pool[s].refcnt = 0 /\ s # new
    BY <1>3, <1>5
  <2>2. {s \in Slots : pool'[s].refcnt = 0} = FreeSet \ {new} /\ new \in FreeSet /\ FreeSet \in SUBSET Slots
    BY <1>3, <2>1 DEF FreeSet
  <2>3. Cardinality(FreeSet \ {new}) = Cardinality(FreeSet) - 1
    BY <1>3, <2>2, SlotSets
  <2> QED
    BY <1>0, <1>2, <2>2, <2>3 DEF FreeExact
<1>12. \A s \in Slots : Contains(d, s) => pool'[s].data # << >>
  <2>1. pool[w].data # << >>
    <3>1. Len(pool[w].data) = SLOTSIZE /\ SLOTSIZE > 0 /\ Len(<< >>) = 0
      BY FbufAssumption DEF Full, w
    <3> QED
      BY <3>1
  <2>2. \A s \in Slots : Contains(c, s) => pool[s].data # << >>
    <3>1. Len(c) = 1 \/ \A s \in Slots : Contains(c, s) => pool[s].data # << >>
      BY <1>0 DEF Filled, InChain, c
    <3>2. ASSUME Len(c) = 1, NEW s \in Slots, Contains(c, s) PROVE s = w
      BY <1>1, <1>5, <3>2 DEF Contains, Last
    <3> QED
      BY <2>1, <3>1, <3>2
  <2>3. <<byte>> # << >>
    OBVIOUS
  <2> QED
    BY <1>3, <1>5, <1>7, <2>2, <2>3
<1>13. text'[h] = Content(pool', d)
  <2>1. \A t \in Slots : Contains(c, t) => pool'[t].data = pool[t].data
    BY <1>3, <1>5 DEF InChain, c
  <2>2. Content(pool', c) = Content(pool, c)
    BY <1>5, <2>1, ContentFrame
  <2>3. Content(pool', one) = <<byte>>
    BY <1>3, <1>5, ContentOne
  <2> QED
    BY <1>4, <1>7, <2>2, <2>3
<1>14. \A g \in Handles, s \in Slots : g # h /\ InChain(g, s) => pool'[s] = pool[s]
  BY <1>0, <1>1, <1>3, <1>5, OwnFacts
<1>15. fb'[h].wslot = IF d = << >> THEN NILPTR ELSE Last(d)
  BY <1>4, <1>7
<1> HIDE DEF d
<1> QED
  BY <1>0, <1>1, <1>4, <1>6, <1>8, <1>9, <1>10, <1>11, <1>12, <1>13, <1>14, <1>15, OwnStep

LEMMA FrontFacts ==
  ASSUME NEW S, NEW a \in Seq(S), NEW b \in Seq(S), b # << >>
  PROVE  /\ Front(b) \in Seq(S) /\ Len(Front(b)) = Len(b) - 1 /\ (Len(b) = 1 => Front(b) = << >>)
         /\ Front(a \o b) = a \o Front(b)
<1>1. Len(a) \in Nat /\ Len(b) \in Nat /\ Len(b) >= 1 /\ a \o b \in Seq(S) /\ Len(a \o b) = Len(a) + Len(b)
  OBVIOUS
<1> DEFINE n == Len(b) - 1
           m == Len(a) + n
           f == Front(b)
           g == Front(a \o b)
<1>2. n \in Nat /\ m \in Nat /\ 1 \in Int /\ n \in Int /\ m \in Int
  BY <1>1
<1>3. f = SubSeq(b, 1, n)
  BY DEF Front
<1>4. g = SubSeq(a \o b, 1, m)
  <2>1. Len(a \o b) - 1 = m
    BY <1>1
  <2> QED
    BY <2>1 DEF Front
<1>5. f \in Seq(S) /\ Len(f) = n /\ \A i \in 1..n : f[i] = b[i]
  <2>1. \A i \in 1..n : b[i] \in S
    BY <1>1
  <2> HIDE DEF n, f
  <2>2. /\ SubSeq(b, 1, n) \in Seq(S) /\ Len(SubSeq(b, 1, n)) = IF 1 <= n THEN n - 1 + 1 ELSE 0
        /\ \A i \in 1..n-1+1 : SubSeq(b, 1, n)[i] = b[1 + i - 1]
    BY <1>2, <2>1, SubSeqProperties
  <2> QED
    BY <1>2, <1>3, <2>2
<1>6. g \in Seq(S) /\ Len(g) = m /\ \A i \in 1..m : g[i] = (a \o b)[i]
  <2> DEFINE ab == a \o b
  <2>1. \A i \in 1..m : ab[i] \in S
    BY <1>1
  <2>2. g = SubSeq(ab, 1, m)
    BY <1>4
  <2> HIDE DEF m, g, ab
  <2>3. /\ SubSeq(ab, 1, m) \in Seq(S) /\ Len(SubSeq(ab, 1, m)) = IF 1 <= m THEN m - 1 + 1 ELSE 0
        /\ \A i \in 1..m-1+1 : SubSeq(ab, 1, m)[i] = ab[1 + i - 1]
    BY <1>2, <2>1, SubSeqProperties
  <2>4. g \in Seq(S) /\ Len(g) = m /\ \A i \in 1..m : g[i] = ab[i]
    BY <1>2, <2>2, <2>3
  <2> QED
    BY <2>4 DEF ab
<1> HIDE DEF f, g
<1>7. Len(f) = Len(b) - 1 /\ (Len(b) = 1 => f = << >>)
  BY <1>5
<1>8. g = a \o f
  <2> DEFINE af == a \o f
  <2>1. /\ af \in Seq(S) /\ Len(af) = m
        /\ \A i \in 1..m : af[i] = IF i <= Len(a) THEN a[i] ELSE f[i - Len(a)]
    <3>1. f \in Seq(S) /\ Len(f) = n
      BY <1>5
    <3> HIDE DEF n
    <3>2. af \in Seq(S) /\ Len(af) = Len(a) + Len(f)
      BY <3>1, ConcatFacts
    <3>3. \A i \in 1..Len(a)+Len(f) : af[i] = IF i <= Len(a) THEN a[i] ELSE f[i - Len(a)]
      BY <3>1
    <3> QED
      BY <3>1, <3>2, <3>3
  <2>2. \A i \in 1..m : (a \o b)[i] = IF i <= Len(a) THEN a[i] ELSE b[i - Len(a)]
    BY <1>1
  <2> HIDE DEF af
  <2>3. ASSUME NEW i \in 1..m PROVE g[i] = af[i]
    <3>1. CASE i <= Len(a)
      BY <1>6, <2>1, <2>2, <3>1
    <3>2. CASE i > Len(a)
      <4>1. i - Len(a) \in 1..n /\ ~(i <= Len(a))
        BY <1>1, <3>2
      <4>2. g[i] = b[i - Len(a)] /\ af[i] = f[i - Len(a)]
        BY <1>6, <2>1, <2>2, <4>1
      <4> QED
        BY <1>5, <4>1, <4>2
    <3>3. i <= Len(a) \/ i > Len(a)
      BY <1>1, <1>2
    <3> QED
      BY <3>1, <3>2, <3>3
  <2>4. g = af
    BY <1>6, <2>1, <2>3, SeqEqual
  <2> QED
    BY <2>4 DEF af
<1> QED
  BY <1>5, <1>7, <1>8 DEF f, g

\* The packet that is shortened, before and after.
LEMMA RemoveFacts ==
  ASSUME FbufInv, NEW h \in Handles, RemoveLast(h)
  PROVE  LET c == ChainOf(h)
             l == Last(c)
         IN  /\ phase[h] \in {"building", "written"} /\ phase' = [phase EXCEPT ![h] = "written"]
             /\ Path(pool, fb[h].head, c) /\ c # << >> /\ c \in Seq(Slots) /\ Distinct(c)
             /\ l \in Slots /\ InChain(h, l) /\ pool[l].refcnt = 1
             /\ pool[l].data \in Seq(Bytes) /\ pool[l].data # << >>
             /\ text[h] \in Seq(Bytes) /\ text[h] # << >> /\ text' = [text EXCEPT ![h] = Front(@)]
             /\ fb[h].length = Len(text[h]) /\ text[h] = Content(pool, c)
<1>0. FbufTypes /\ Chains /\ Filled /\ Texts
  BY DEF FbufInv
<1>1. /\ phase[h] \in {"building", "written"} /\ fb[h].length > 1
      /\ phase' = Finished(h) /\ text' = [text EXCEPT ![h] = Front(@)]
  BY DEF RemoveLast
<1>2. phase' = [phase EXCEPT ![h] = "written"]
  BY <1>0, <1>1 DEF Finished, FbufTypes
<1>3. /\ Path(pool, fb[h].head, ChainOf(h)) /\ pool \in Pools /\ fb[h].head \in SlotIndex
      /\ text[h] \in Seq(Bytes) /\ fb[h].length = Len(text[h]) /\ text[h] = Content(pool, ChainOf(h))
  BY <1>0 DEF Chains, FbufTypes, FbTypes, Texts
<1>4. text[h] # << >>
  BY <1>1, <1>3
<1>5. ChainOf(h) # << >>
  BY <1>3, <1>4, ContentNone
<1>6. /\ ChainOf(h) \in Seq(Slots) /\ Distinct(ChainOf(h))
      /\ Last(ChainOf(h)) \in Slots /\ InChain(h, Last(ChainOf(h)))
  BY <1>3, <1>5, PathFacts DEF InChain
<1>7. pool[Last(ChainOf(h))].refcnt = 1
  BY <1>1, <1>6, OwnFacts
<1>8. pool[Last(ChainOf(h))].data \in Seq(Bytes)
  BY <1>3, <1>6 DEF Pools
<1>9. pool[Last(ChainOf(h))].data # << >>
  <2>1. CASE Len(ChainOf(h)) = 1
    <3> DEFINE c == ChainOf(h)
    <3>1. c = <<Last(c)>>
      BY <1>6, <2>1 DEF Last
    <3>2. text[h] = Content(pool, c) /\ Last(c) \in Slots
      BY <1>3, <1>6
    <3> HIDE DEF c
    <3>3. text[h] = pool[Last(c)].data
      BY <1>3, <3>1, <3>2, ContentOne
    <3> QED
      BY <1>4, <3>3 DEF c
  <2>2. CASE Len(ChainOf(h)) # 1
    BY <1>0, <1>1, <1>6, <2>2 DEF Filled
  <2> QED
    BY <2>1, <2>2
<1> QED
  BY <1>1, <1>2, <1>3, <1>4, <1>5, <1>6, <1>7, <1>8, <1>9

LEMMA RemoveHandles ==
  ASSUME FbufInv, NEW h \in Handles, RemoveLast(h)
  PROVE  /\ FbTypes' /\ text' \in [Handles -> Seq(Bytes)]
         /\ phase' \in [Handles -> {"free", "building", "written", "shared"}] /\ phase'[h] = "written"
         /\ \A g \in Handles : g # h => fb'[g] = fb[g] /\ phase'[g] = phase[g] /\ text'[g] = text[g]
         /\ fb'[h].head = fb[h].head
         /\ text'[h] = Front(text[h]) /\ fb'[h].length = Len(text'[h])
<1>0. FbTypes /\ text \in [Handles -> Seq(Bytes)] /\ phase \in [Handles -> {"free", "building", "written", "shared"}]
  BY DEF FbufInv, FbufTypes
<1>1. /\ text[h] \in Seq(Bytes) /\ text[h] # << >> /\ text' = [text EXCEPT ![h] = Front(@)]
      /\ fb[h].length = Len(text[h]) /\ phase' = [phase EXCEPT ![h] = "written"]
  BY RemoveFacts
<1>2. /\ Front(text[h]) \in Seq(Bytes) /\ Len(Front(text[h])) = Len(text[h]) - 1
      /\ Len(text[h]) - 1 \in Nat
  <2> DEFINE t == text[h]
  <2>1. t \in Seq(Bytes) /\ t # << >>
    BY <1>1
  <2> HIDE DEF t
  <2>2. Front(t) \in Seq(Bytes) /\ Len(Front(t)) = Len(t) - 1 /\ Len(t) - 1 \in Nat
    BY <2>1, FrontFacts
  <2> QED
    BY <2>2 DEF t
<1> DEFINE head == fb[h].head
           wslot == fb[h].wslot
           rslot == fb[h].rslot
           rpos == fb[h].rpos
           length == fb[h].length
           fewer == length - 1
           f == fb[h]
           v == [f EXCEPT !.length = fewer]
<1>3. /\ f = Fb(head, wslot, rslot, rpos, length) /\ head \in SlotIndex /\ wslot \in SlotIndex
      /\ fewer \in Nat
  BY <1>0, <1>1, <1>2, FbEta DEF FbTypes
<1>4. fb' = [fb EXCEPT ![h] = v]
  BY <1>0 DEF FbTypes, RemoveLast
<1> HIDE DEF f, head, wslot, rslot, rpos, length, fewer
<1>5. v = Fb(head, wslot, rslot, rpos, fewer)
  BY <1>3, SMTT(30) DEF Fb
<1> HIDE DEF v
<1>6. Whole(v) /\ v.head = head /\ v.wslot = wslot /\ v.length = fewer
  <2>1. Whole(v)
    BY <1>5, FbWhole
  <2> QED
    BY <1>5, <2>1 DEF Fb
<1>7. FbTypes' /\ \A g \in Handles : fb'[g] = IF g = h THEN v ELSE fb[g]
  <2>1. v.head \in SlotIndex /\ v.wslot \in SlotIndex /\ v.length \in Nat
    BY <1>3, <1>6
  <2> QED
    BY <1>0, <1>4, <1>6, <2>1, FbSet
<1>8. \A g \in Handles : /\ text'[g] = IF g = h THEN Front(text[h]) ELSE text[g]
                         /\ phase'[g] = IF g = h THEN "written" ELSE phase[g]
  BY <1>0, <1>1
<1>9. /\ text' \in [Handles -> Seq(Bytes)]
      /\ phase' \in [Handles -> {"free", "building", "written", "shared"}]
  <2>1. text' = [text EXCEPT ![h] = Front(text[h])]
    BY <1>0, <1>1
  <2> QED
    BY <1>0, <1>1, <1>2, <2>1
<1>10. fb'[h].head = fb[h].head /\ fb'[h].length = Len(text'[h])
  BY <1>1, <1>2, <1>6, <1>7, <1>8 DEF head, fewer, length
<1> QED
  BY <1>7, <1>8, <1>9, <1>10

\* The last slot is shortened, or is emptied and freed.
LEMMA RemoveStep ==
  ASSUME FbufInv, NEW h \in Handles, RemoveLast(h)
  PROVE  /\ FbufInv'
         /\ \A g \in Handles, s \in Slots : g # h /\ InChain(g, s) => pool'[s] = pool[s]
<1> DEFINE c == ChainOf(h)
           l == Last(c)
           f == Front(c)
           data == pool[l].data
           emptied == Len(data) = 1 /\ Len(c) > 1
           d == IF emptied THEN f ELSE c
<1>0. FbufTypes /\ Filled /\ FreeExact /\ pool \in Pools
  BY DEF FbufInv, FbufTypes
<1>1. /\ phase[h] \in {"building", "written"} /\ Path(pool, fb[h].head, c) /\ c # << >>
      /\ c \in Seq(Slots) /\ Distinct(c) /\ l \in Slots /\ InChain(h, l) /\ pool[l].refcnt = 1
      /\ data \in Seq(Bytes) /\ data # << >> /\ text[h] = Content(pool, c)
  BY RemoveFacts
<1>2. /\ FbTypes' /\ text' \in [Handles -> Seq(Bytes)]
      /\ phase' \in [Handles -> {"free", "building", "written", "shared"}] /\ phase'[h] = "written"
      /\ \A g \in Handles : g # h => fb'[g] = fb[g] /\ phase'[g] = phase[g] /\ text'[g] = text[g]
      /\ fb'[h].head = fb[h].head
      /\ text'[h] = Front(text[h]) /\ fb'[h].length = Len(text'[h])
  BY RemoveHandles
<1>3. /\ f \in Seq(Slots) /\ c = f \o <<l>> /\ Len(f) = Len(c) - 1 /\ Distinct(f) /\ ~Contains(f, l)
      /\ \A t : Contains(c, t) <=> Contains(f, t) \/ t = l
  BY <1>1, LastSplit
<1>4. Len(c) > 1 => /\ f # << >> /\ Last(f) = c[Len(c)-1] /\ Last(f) # l /\ Last(f) \in Slots
                    /\ Contains(f, Last(f)) /\ c[Len(c)-1] # l
  <2> SUFFICES ASSUME Len(c) > 1
               PROVE  /\ f # << >> /\ Last(f) = c[Len(c)-1] /\ Last(f) # l /\ Last(f) \in Slots
                      /\ Contains(f, Last(f)) /\ c[Len(c)-1] # l
    OBVIOUS
  <2>1. f # << >> /\ Len(c) \in Nat /\ Len(f) = Len(c) - 1 /\ Len(f) \in 1..Len(f)
    BY <1>1, <1>3
  <2>2. f[Len(f)] = c[Len(f)]
    <3> DEFINE one == <<l>>
    <3>1. one \in Seq(Slots) /\ c = f \o one
      BY <1>1, <1>3
    <3> HIDE DEF c, f, one
    <3> QED
      BY <1>3, <2>1, <3>1, ConcatFacts
  <2>3. Last(f) \in Slots /\ Contains(f, Last(f))
    BY <1>3, <2>1, LastSplit
  <2> QED
    BY <1>3, <2>1, <2>2, <2>3 DEF Last
<1>5. /\ emptied <=> Len(data) = 1 /\ (IF Len(c) > 1 THEN c[Len(c) - 1] ELSE l) # l
  BY <1>4
<1> DEFINE cut == [pool EXCEPT ![l].data = Front(@)]
<1>6. /\ pool' = IF emptied THEN [cut EXCEPT ![l] = Dropped(@, 1), ![c[Len(c) - 1]].next = NILPTR]
                 ELSE cut
      /\ free_slots' = IF emptied THEN free_slots + 1 ELSE free_slots
  <2>1. Len(c) > 1 => (IF Len(c) > 1 THEN c[Len(c) - 1] ELSE l) = c[Len(c) - 1]
    OBVIOUS
  <2> QED
    BY <1>1, <1>5, <2>1 DEF RemoveLast
<1>7. Front(data) \in Seq(Bytes) /\ Len(Front(data)) = Len(data) - 1 /\ (Len(data) = 1 => Front(data) = << >>)
  BY <1>1, FrontFacts
<1> DEFINE prev == Last(f)
<1>8. /\ cut \in Pools /\ cut[l].data = Front(data) /\ cut[l].refcnt = 1
      /\ \A s \in Slots : /\ cut[s].next = pool[s].next /\ cut[s].refcnt = pool[s].refcnt
                          /\ s # l => cut[s] = pool[s]
  <2> DEFINE rest == Front(data)
  <2>1. cut = [pool EXCEPT ![l].data = rest] /\ rest \in Seq(Bytes)
    BY <1>7
  <2> HIDE DEF rest, cut, l
  <2>2. /\ cut \in Pools /\ cut[l].data = rest /\ cut[l].refcnt = pool[l].refcnt
        /\ \A s \in Slots : /\ cut[s].next = pool[s].next /\ cut[s].refcnt = pool[s].refcnt
                            /\ s # l => cut[s] = pool[s]
    BY <1>0, <1>1, <2>1 DEF Pools
  <2> QED
    BY <1>1, <2>2 DEF rest
<1>9. /\ pool' \in Pools
      /\ ~emptied => pool' = cut
      /\ emptied => /\ pool'[l] = FreeSlot /\ pool'[prev].next = NILPTR
                    /\ pool'[prev].data = pool[prev].data /\ pool'[prev].refcnt = pool[prev].refcnt
                    /\ \A s \in Slots : s # l /\ s # prev => pool'[s] = pool[s]
  <2> HIDE DEF cut
  <2>1. CASE ~emptied
    BY <1>6, <1>8, <2>1
  <2>2. CASE emptied
    <3>1. prev \in Slots /\ prev # l /\ prev = c[Len(c) - 1]
      BY <1>4, <2>2
    <3> HIDE DEF prev
    <3>2. pool' = [cut EXCEPT ![l] = FreeSlot, ![prev].next = NILPTR]
      <4>1. Dropped(cut[l], 1) = FreeSlot
        BY <1>8 DEF Dropped
      <4>2. pool' = [cut EXCEPT ![l] = Dropped(@, 1), ![prev].next = NILPTR]
        BY <1>6, <2>2, <3>1
      <4> HIDE DEF l
      <4> QED
        BY <1>8, <4>1, <4>2 DEF Pools
    <3>3. FreeSlot \in [refcnt : Nat, next : SlotIndex, data : Seq(Bytes)] /\ NILPTR \in SlotIndex
      BY EmptySeq DEF FreeSlot, SlotIndex
    <3> HIDE DEF l, emptied
    <3>4. /\ pool' \in Pools /\ pool'[l] = FreeSlot /\ pool'[prev].next = NILPTR
          /\ pool'[prev].data = cut[prev].data /\ pool'[prev].refcnt = cut[prev].refcnt
          /\ \A s \in Slots : s # l /\ s # prev => pool'[s] = cut[s]
      BY <1>1, <1>8, <3>1, <3>2, <3>3 DEF Pools
    <3> QED
      BY <1>8, <2>2, <3>1, <3>4
  <2> QED
    BY <2>1, <2>2
<1>10. FbufTypes'
  <2>1. \A s \in Slots : Len(pool'[s].data) <= SLOTSIZE
    <3>1. \A s \in Slots : Len(cut[s].data) <= SLOTSIZE
      <4> HIDE DEF cut
      <4>1. Len(cut[l].data) <= SLOTSIZE
        BY <1>0, <1>1, <1>7, <1>8, FbufAssumption DEF FbufTypes
      <4> QED
        BY <1>0, <1>8, <4>1 DEF FbufTypes
    <3>2. Len(FreeSlot.data) <= SLOTSIZE
      BY FbufAssumption DEF FreeSlot
    <3> HIDE DEF cut, l, prev, emptied
    <3> QED
      BY <1>0, <1>9, <3>1, <3>2 DEF FbufTypes
  <2> QED
    BY <1>2, <1>9, <2>1 DEF FbufTypes
<1>11. \A s \in Slots : InChain(h, s) <=> Contains(c, s)
  BY DEF InChain
<1>12. \A g \in Handles, s \in Slots : g # h /\ InChain(g, s) => ~Contains(c, s)
  BY <1>1, <1>11, OwnFacts
<1>13. \A s \in Slots : Contains(c, s) => pool[s].refcnt = 1
  BY <1>1, <1>11, OwnFacts
<1> HIDE DEF cut, c, l, f, data, prev, emptied
<1>14. CASE ~emptied
  <2>1. /\ Path(pool', fb'[h].head, c)
        /\ \A s \in Slots : pool'[s].refcnt = IF Contains(c, s) THEN 1
                                              ELSE IF InChain(h, s) THEN 0 ELSE pool[s].refcnt
        /\ free_slots' = Cardinality({s \in Slots : pool'[s].refcnt = 0})
    <3>1. Path(pool', fb'[h].head, c)
      BY <1>1, <1>2, <1>8, <1>9, <1>14, PathFrame
    <3>2. \A s \in Slots : pool'[s].refcnt = IF Contains(c, s) THEN 1
                                              ELSE IF InChain(h, s) THEN 0 ELSE pool[s].refcnt
      BY <1>8, <1>9, <1>11, <1>13, <1>14
    <3>3. free_slots' = Cardinality({s \in Slots : pool'[s].refcnt = 0})
      <4>1. {s \in Slots : pool'[s].refcnt = 0} = FreeSet
        BY <1>8, <1>9, <1>14 DEF FreeSet
      <4> QED
        BY <1>0, <1>6, <1>14, <4>1 DEF FreeExact
    <3> QED
      BY <3>1, <3>2, <3>3
  <2>2. \A g \in Handles, s \in Slots : g # h /\ InChain(g, s) => pool'[s] = pool[s]
    BY <1>1, <1>8, <1>9, <1>12, <1>14, <1>11
  <2>3. Len(c) = 1 \/ \A s \in Slots : Contains(c, s) => pool'[s].data # << >>
    <3> SUFFICES ASSUME Len(c) # 1, NEW s \in Slots, Contains(c, s) PROVE pool'[s].data # << >>
      OBVIOUS
    <3>1. pool[s].data # << >>
      BY <1>0, <1>1, <1>11 DEF Filled, c
    <3>2. Len(data) # 1
      BY <1>1, <1>14 DEF emptied
    <3>3. Front(data) # << >>
      <4>1. Len(Front(data)) > 0 /\ Len(<< >>) = 0
        BY <1>1, <1>7, <3>2
      <4> QED
        BY <4>1
    <3> QED
      BY <1>8, <1>9, <1>14, <3>1, <3>3
  <2>4. text'[h] = Content(pool', c)
    <3> DEFINE one == <<l>>
               front == Content(pool, f)
    <3>1. one \in Seq(Slots) /\ c = f \o one /\ pool' \in Pools
      BY <1>1, <1>3, <1>9
    <3>2. Content(pool', one) = Front(data) /\ Content(pool, one) = data
      BY <1>0, <1>1, <1>8, <1>9, <1>14, ContentOne DEF data
    <3> HIDE DEF one
    <3>3. Content(pool', f) = front
      BY <1>0, <1>3, <1>8, <1>9, <1>14, ContentFrame
    <3>4. Content(pool', c) = front \o Front(data) /\ text[h] = front \o data
      BY <1>0, <1>1, <1>3, <3>1, <3>2, <3>3, ContentConcat
    <3>5. front \in Seq(Bytes)
      BY <1>0, <1>3, ContentType
    <3> HIDE DEF front
    <3>6. Front(front \o data) = front \o Front(data)
      BY <1>1, <3>5, FrontFacts
    <3> QED
      BY <1>2, <3>4, <3>6
  <2> QED
    BY <1>1, <1>2, <1>10, <1>12, <2>1, <2>2, <2>3, <2>4, <1>11, OwnStep
<1>15. CASE emptied
  <2>0. /\ f # << >> /\ prev \in Slots /\ prev # l /\ Contains(f, prev) /\ prev = Last(f)
    BY <1>4, <1>15 DEF emptied, prev
  <2>1. Path(pool', fb'[h].head, f)
    <3> DEFINE none == << >>
               one == <<l>>
    <3>1. Path(pool', pool'[Last(f)].next, none) /\ \A t : ~Contains(none, t)
      BY <1>9, <1>15, <2>0, Short
    <3>2. Along(pool, fb[h].head, f)
      <4>1. one \in Seq(Slots) /\ c = f \o one /\ Along(pool, fb[h].head, c)
        BY <1>1, <1>3 DEF Path
      <4> HIDE DEF one
      <4> QED
        BY <1>3, <4>1, AlongConcat
    <3>3. \A t \in Slots : Contains(f, t) /\ t # Last(f) => pool'[t].next = pool[t].next
      BY <1>3, <1>9, <1>15, <2>0
    <3>4. f \o none = f
      BY <1>3
    <3> HIDE DEF none
    <3>5. Path(pool', fb[h].head, f \o none)
      BY <1>3, <2>0, <3>1, <3>2, <3>3, PathJoin
    <3> QED
      BY <1>2, <3>4, <3>5
  <2>2. \A s \in Slots : pool'[s].refcnt = IF Contains(f, s) THEN 1
                                            ELSE IF InChain(h, s) THEN 0 ELSE pool[s].refcnt
    <3>1. \A s \in Slots : s # l => pool'[s].refcnt = pool[s].refcnt
      BY <1>9, <1>15
    <3>2. pool'[l].refcnt = 0
      BY <1>9, <1>15 DEF FreeSlot
    <3> QED
      BY <1>1, <1>3, <1>11, <1>13, <3>1, <3>2
  <2>3. free_slots' = Cardinality({s \in Slots : pool'[s].refcnt = 0})
    <3>1. \A s \in Slots : pool'[s].refcnt = 0 <=> pool[s].refcnt = 0 \/ s = l
      BY <1>9, <1>15 DEF FreeSlot
    <3>2. {s \in Slots : pool'[s].refcnt = 0} = FreeSet \cup {l} /\ l \notin FreeSet
      BY <1>1, <3>1 DEF FreeSet
    <3>3. FreeSet \in SUBSET Slots
      BY DEF FreeSet
    <3>4. Cardinality(FreeSet \cup {l}) = Cardinality(FreeSet) + 1
      BY <1>1, <3>2, <3>3, SlotSets
    <3> QED
      BY <1>0, <1>6, <1>15, <3>2, <3>4 DEF FreeExact
  <2>4. \A g \in Handles, s \in Slots : g # h /\ InChain(g, s) => pool'[s] = pool[s]
    BY <1>3, <1>9, <1>12, <1>15, <2>0
  <2>5. \A g \in Handles, s \in Slots : g # h /\ InChain(g, s) => ~Contains(f, s)
    BY <1>3, <1>12
  <2>6. \A s \in Slots : Contains(f, s) => pool'[s].data # << >>
    <3>1. \A s \in Slots : Contains(c, s) => pool[s].data # << >>
      <4>1. Len(c) # 1
        <5>1. c \in Seq(Slots)
          BY <1>1
        <5>2. Len(c) \in Nat /\ Len(c) > 1
          BY <1>15, <5>1 DEF emptied
        <5>3. \A n \in Nat : n > 1 => n # 1
          OBVIOUS
        <5> QED
          BY <5>2, <5>3, Zenon
      <4>2. Len(c) = 1 \/ \A s \in Slots : Contains(c, s) => pool[s].data # << >>
        BY <1>0, <1>1 DEF Filled, InChain, c
      <4> QED
        BY <1>1, <4>1, <4>2 DEF Contains
    <3> QED
      BY <1>3, <1>9, <1>15, <2>0, <3>1
  <2>7. text'[h] = Content(pool', f)
    <3> DEFINE one == <<l>>
               front == Content(pool, f)
    <3>1. one \in Seq(Slots) /\ c = f \o one /\ Content(pool, one) = data
      BY <1>0, <1>1, <1>3, ContentOne DEF data
    <3> HIDE DEF one
    <3>2. \A t \in Slots : Contains(f, t) => pool'[t].data = pool[t].data
      BY <1>3, <1>9, <1>15
    <3>3. Content(pool', f) = front
      BY <1>0, <1>3, <1>9, <3>2, ContentFrame
    <3>4. text[h] = front \o data
      BY <1>0, <1>1, <1>3, <3>1, ContentConcat
    <3>5. front \in Seq(Bytes)
      BY <1>0, <1>3, ContentType
    <3> HIDE DEF front
    <3>6. Front(front \o data) = front \o Front(data) /\ Front(data) = << >>
      BY <1>1, <1>7, <1>15, <3>5, FrontFacts DEF emptied
    <3>7. front \o << >> = front
      BY <3>5
    <3> QED
      BY <1>2, <3>3, <3>4, <3>6, <3>7
  <2>8. /\ phase[h] \in {"building", "written"} /\ phase'[h] # "free"
        /\ \A g \in Handles : g # h => fb'[g] = fb[g] /\ phase'[g] = phase[g] /\ text'[g] = text[g]
    BY <1>1, <1>2
  <2>9. /\ FbufTypes'
        /\ phase'[h] = "building" => fb'[h].wslot = IF f = << >> THEN NILPTR ELSE Last(f)
        /\ fb'[h].length = Len(text'[h])
    BY <1>1, <1>2, <1>10, <2>0
  <2> QED
    BY <2>1, <2>2, <2>3, <2>4, <2>5, <2>6, <2>7, <2>8, <2>9, OwnStep
<1> QED
  BY <1>14, <1>15

LEMMA FreeChain ==
  ASSUME FbufInv, NEW h \in Handles, phase[h] = "free"
  PROVE  ChainOf(h) = << >> /\ \A s \in Slots : ~InChain(h, s)
<1>1. fb[h].head = NILPTR /\ Path(pool, fb[h].head, ChainOf(h)) /\ pool \in Pools /\ NILPTR \in SlotIndex
  BY DEF FbufInv, FreeHandles, Chains, FbufTypes, SlotIndex
<1>2. ChainOf(h) = << >>
  BY <1>1, PathFacts
<1> QED
  BY <1>2, Short DEF InChain

\* Where only reference counts change.
LEMMA CountsOnly ==
  ASSUME FbufInv, pool' \in Pools,
         NEW g \in Handles,
         \A s \in Slots : InChain(g, s) => pool'[s].next = pool[s].next /\ pool'[s].data = pool[s].data
  PROVE  /\ Path(pool', fb[g].head, ChainOf(g))
         /\ text[g] = Content(pool', ChainOf(g)) /\ fb[g].length = Len(text[g])
<1>1. /\ pool \in Pools /\ Path(pool, fb[g].head, ChainOf(g)) /\ ChainOf(g) \in Seq(Slots)
      /\ text[g] = Content(pool, ChainOf(g)) /\ fb[g].length = Len(text[g])
  BY DEF FbufInv, FbufTypes, Chains, Path, Texts
<1>2. /\ \A s \in Slots : Contains(ChainOf(g), s) => pool'[s].next = pool[s].next
      /\ \A s \in Slots : Contains(ChainOf(g), s) => pool'[s].data = pool[s].data
  BY DEF InChain
<1>3. Path(pool', fb[g].head, ChainOf(g))
  BY <1>1, <1>2, PathFrame
<1>4. Content(pool', ChainOf(g)) = Content(pool, ChainOf(g))
  BY <1>1, <1>2, ContentFrame
<1> QED
  BY <1>1, <1>3, <1>4

LEMMA Counted ==
  ASSUME NEW v \in [refcnt : Nat, next : SlotIndex, data : Seq(Bytes)]
  PROVE  LET more == [v EXCEPT !.refcnt = @ + 1]
         IN  /\ more \in [refcnt : Nat, next : SlotIndex, data : Seq(Bytes)]
             /\ more.refcnt = v.refcnt + 1 /\ more.next = v.next /\ more.data = v.data
<1> DEFINE n == v.refcnt + 1
           more == [v EXCEPT !.refcnt = n]
<1>1. n \in Nat
  OBVIOUS
<1> HIDE DEF n
<1>2. /\ more \in [refcnt : Nat, next : SlotIndex, data : Seq(Bytes)]
      /\ more.refcnt = n /\ more.next = v.next /\ more.data = v.data
  BY <1>1
<1> QED
  BY <1>2 DEF n

LEMMA NewRefStep ==
  ASSUME FbufInv, NEW h \in Handles, NEW g \in Handles, NewRef(h, g)
  PROVE  /\ FbufInv'
         /\ \A s \in Slots : pool'[s].next = pool[s].next /\ pool'[s].data = pool[s].data
         /\ \A k \in Handles : /\ k # g => fb'[k] = fb[k]
                               /\ text'[k] = IF k = g THEN text[h] ELSE text[k]
                               /\ phase'[k] = IF k \in {g, h} THEN "shared" ELSE phase[k]
         /\ fb'[g].head = fb[h].head /\ fb'[g].rslot = fb[h].head /\ fb'[g].rpos = 0
<1> DEFINE ch == [k \in Handles |-> IF k = g THEN ChainOf(h) ELSE ChainOf(k)]
<1>0. FbufTypes /\ Chains /\ FreeHandles /\ Owned /\ Filled /\ Writable /\ References /\ FreeExact /\ Texts
  BY DEF FbufInv
<1>1. /\ phase[h] # "free" /\ phase[g] = "free" /\ g # h
      /\ pool' = [s \in Slots |-> IF InChain(h, s) THEN [pool[s] EXCEPT !.refcnt = @ + 1] ELSE pool[s]]
      /\ fb' = [fb EXCEPT ![g] = [fb[h] EXCEPT !.rslot = fb[h].head, !.rpos = 0]]
      /\ phase' = [phase EXCEPT ![h] = "shared", ![g] = "shared"]
      /\ text' = [text EXCEPT ![g] = text[h]]
      /\ free_slots' = free_slots
  BY DEF NewRef, Live
<1>2. \A s \in Slots : ~InChain(g, s)
  BY <1>1, FreeChain
<1>3. /\ pool' \in Pools
      /\ \A s \in Slots : /\ pool'[s].refcnt = IF InChain(h, s) THEN pool[s].refcnt + 1 ELSE pool[s].refcnt
                          /\ pool'[s].next = pool[s].next /\ pool'[s].data = pool[s].data
  <2> DEFINE more(s) == [pool[s] EXCEPT !.refcnt = @ + 1]
  <2>1. \A s \in Slots : /\ more(s) \in [refcnt : Nat, next : SlotIndex, data : Seq(Bytes)]
                         /\ more(s).refcnt = pool[s].refcnt + 1
                         /\ more(s).next = pool[s].next /\ more(s).data = pool[s].data
    BY <1>0, Counted DEF FbufTypes, Pools
  <2>2. pool' = [s \in Slots |-> IF InChain(h, s) THEN more(s) ELSE pool[s]]
    BY <1>1
  <2> HIDE DEF more
  <2> QED
    BY <1>0, <2>1, <2>2 DEF FbufTypes, Pools
<1>4. /\ FbTypes'
      /\ \A k \in Handles : k # g => fb'[k] = fb[k]
      /\ fb'[g].head = fb[h].head /\ fb'[g].length = fb[h].length
      /\ fb'[g].rslot = fb[h].head /\ fb'[g].rpos = 0
  <2> DEFINE f == fb[h]
             head == fb[h].head
             wslot == fb[h].wslot
             rslot == fb[h].rslot
             rpos == fb[h].rpos
             length == fb[h].length
             placed == [f EXCEPT !.rslot = head]
             v == [placed EXCEPT !.rpos = 0]
  <2>1. FbTypes /\ fb' = [fb EXCEPT ![g] = v]
    BY <1>0, <1>1 DEF FbufTypes
  <2>2. f = Fb(head, wslot, rslot, rpos, length) /\ head \in SlotIndex /\ wslot \in SlotIndex /\ length \in Nat
    BY <2>1, FbEta DEF FbTypes
  <2> HIDE DEF f, head, wslot, rslot, rpos, length
  <2>3. placed = Fb(head, wslot, head, rpos, length)
    BY <2>2, SMTT(30) DEF Fb
  <2> HIDE DEF placed
  <2>4. v = Fb(head, wslot, head, 0, length)
    BY <2>3, SMTT(30) DEF Fb
  <2> HIDE DEF v
  <2>5. Whole(v) /\ v.head = head /\ v.wslot = wslot /\ v.length = length
    <3>1. Whole(v)
      BY <2>4, FbWhole
    <3> QED
      BY <2>4, <3>1 DEF Fb
  <2>6. FbTypes' /\ \A k \in Handles : fb'[k] = IF k = g THEN v ELSE fb[k]
    <3>1. v.head \in SlotIndex /\ v.wslot \in SlotIndex /\ v.length \in Nat
      BY <2>2, <2>5
    <3> QED
      BY <2>1, <2>5, <3>1, FbSet
  <2>7. v.rslot = head /\ v.rpos = 0
    BY <2>4 DEF Fb
  <2> QED
    BY <2>5, <2>6, <2>7 DEF head, length
<1>5. /\ \A k \in Handles : /\ text'[k] = IF k = g THEN text[h] ELSE text[k]
                            /\ phase'[k] = IF k \in {g, h} THEN "shared" ELSE phase[k]
      /\ text' \in [Handles -> Seq(Bytes)] /\ phase' \in [Handles -> {"free", "building", "written", "shared"}]
  BY <1>0, <1>1 DEF FbufTypes
<1>6. FbufTypes'
  BY <1>0, <1>3, <1>4, <1>5 DEF FbufTypes
<1>7. \A k \in Handles : ch[k] = IF k = g THEN ChainOf(h) ELSE ChainOf(k)
  OBVIOUS
<1> HIDE DEF ch
<1>8. \A k \in Handles : /\ Path(pool', fb[k].head, ChainOf(k))
                         /\ text[k] = Content(pool', ChainOf(k)) /\ fb[k].length = Len(text[k])
  BY <1>3, CountsOnly
<1>9. \A k \in Handles : Path(pool', fb'[k].head, ch[k])
  BY <1>4, <1>7, <1>8
<1>10. \A k \in Handles : text'[k] = Content(pool', ch[k]) /\ fb'[k].length = Len(text'[k])
  BY <1>4, <1>5, <1>7, <1>8
<1>11. \A k \in Handles : phase'[k] = "free" => fb'[k].head = NILPTR /\ text'[k] = << >>
  BY <1>0, <1>4, <1>5 DEF FreeHandles
<1>12. \A k, j \in Handles, s \in Slots :
         phase'[k] \in {"building", "written"} /\ j # k /\ Contains(ch[k], s) => ~Contains(ch[j], s)
  <2> SUFFICES ASSUME NEW k \in Handles, NEW j \in Handles, NEW s \in Slots, j # k,
                      phase'[k] \in {"building", "written"}, Contains(ch[k], s), Contains(ch[j], s)
               PROVE  FALSE
    OBVIOUS
  <2>1. k # g /\ k # h /\ phase[k] \in {"building", "written"} /\ InChain(k, s)
    BY <1>5, <1>7 DEF InChain
  <2>2. InChain(j, s) \/ InChain(h, s)
    BY <1>7 DEF InChain
  <2> QED
    BY <1>0, <2>1, <2>2 DEF Owned
<1>13. \A k \in Handles : phase'[k] \in {"building", "written"} =>
         Len(ch[k]) = 1 \/ \A s \in Slots : Contains(ch[k], s) => pool'[s].data # << >>
  BY <1>0, <1>3, <1>5, <1>7 DEF Filled, InChain
<1>14. \A k \in Handles : phase'[k] = "building" =>
         fb'[k].wslot = IF ch[k] = << >> THEN NILPTR ELSE Last(ch[k])
  BY <1>0, <1>4, <1>5, <1>7 DEF Writable
<1>15. \A s \in Slots : pool'[s].refcnt = Cardinality({k \in Handles : Contains(ch[k], s)})
  <2> SUFFICES ASSUME NEW s \in Slots
               PROVE  pool'[s].refcnt = Cardinality({k \in Handles : Contains(ch[k], s)})
    OBVIOUS
  <2>1. Users(s) \in SUBSET Handles /\ g \notin Users(s) /\ pool[s].refcnt = Cardinality(Users(s))
    BY <1>0, <1>2 DEF Users, References
  <2>2. CASE InChain(h, s)
    <3>1. {k \in Handles : Contains(ch[k], s)} = Users(s) \cup {g}
      BY <1>7, <2>2 DEF Users, InChain
    <3>2. Cardinality(Users(s) \cup {g}) = Cardinality(Users(s)) + 1
      BY <2>1, UsersFacts
    <3> QED
      BY <1>3, <2>1, <2>2, <3>1, <3>2
  <2>3. CASE ~InChain(h, s)
    <3>1. {k \in Handles : Contains(ch[k], s)} = Users(s)
      BY <1>2, <1>7, <2>3 DEF Users, InChain
    <3> QED
      BY <1>3, <2>1, <2>3, <3>1
  <2> QED
    BY <2>2, <2>3
<1>16. free_slots' = Cardinality({s \in Slots : pool'[s].refcnt = 0})
  <2>1. \A s \in Slots : pool'[s].refcnt = 0 <=> pool[s].refcnt = 0
    <3>1. \A s \in Slots : pool[s].refcnt \in Nat
      BY <1>0 DEF FbufTypes, Pools
    <3>2. \A s \in Slots : pool[s].refcnt = 0 => ~InChain(h, s)
      BY SlotFacts
    <3> QED
      BY <1>3, <3>1, <3>2
  <2>2. {s \in Slots : pool'[s].refcnt = 0} = FreeSet
    BY <2>1 DEF FreeSet
  <2> QED
    BY <1>0, <1>1, <2>2 DEF FreeExact
<1>17. FbufInv'
  BY <1>6, <1>9, <1>10, <1>11, <1>12, <1>13, <1>14, <1>15, <1>16, InvFrom
<1> QED
  BY <1>3, <1>4, <1>5, <1>17

\* A slot of two packets has at least two references.
LEMMA SharedTwice ==
  ASSUME FbufInv, NEW h \in Handles, NEW g \in Handles, h # g, NEW s \in Slots, InChain(h, s)
  PROVE  /\ pool[s].refcnt \in Nat \ {0}
         /\ InChain(g, s) => pool[s].refcnt # 1
<1>1. /\ Users(s) \in SUBSET Handles /\ h \in Users(s)
      /\ pool[s].refcnt = Cardinality(Users(s))
  BY DEF FbufInv, References, Users
<1>2. Cardinality(Users(s)) \in Nat /\ Cardinality(Users(s)) # 0
  BY <1>1, UsersFacts
<1>3. ASSUME InChain(g, s) PROVE Cardinality(Users(s)) # 1
  <2>1. Users(s) \ {h} \in SUBSET Handles /\ g \in Users(s) \ {h}
    BY <1>1, <1>3 DEF Users
  <2>2. Cardinality(Users(s) \ {h}) = Cardinality(Users(s)) - 1
    BY <1>1, UsersFacts
  <2>3. Cardinality(Users(s) \ {h}) # 0
    BY <2>1, UsersFacts
  <2> QED
    BY <1>2, <2>2, <2>3
<1> QED
  BY <1>1, <1>2, <1>3

LEMMA ReleaseStep ==
  ASSUME FbufInv, NEW h \in Handles, Release(h)
  PROVE  /\ FbufInv'
         /\ \A k \in Handles, s \in Slots :
              k # h /\ InChain(k, s) => pool'[s].next = pool[s].next /\ pool'[s].data = pool[s].data
         /\ \A k \in Handles : k # h => fb'[k] = fb[k] /\ text'[k] = text[k] /\ phase'[k] = phase[k]
         /\ fb'[h].head = NILPTR /\ text'[h] = << >> /\ phase'[h] = "free"
<1> DEFINE ch == [k \in Handles |-> IF k = h THEN << >> ELSE ChainOf(k)]
<1>0. FbufTypes /\ Chains /\ FreeHandles /\ Owned /\ Filled /\ Writable /\ References /\ FreeExact /\ Texts
  BY DEF FbufInv
<1>1. /\ phase[h] # "free"
      /\ pool' = [s \in Slots |-> IF InChain(h, s) THEN Dropped(pool[s], 1) ELSE pool[s]]
      /\ fb' = [fb EXCEPT ![h] = Disposed]
      /\ phase' = [phase EXCEPT ![h] = "free"]
      /\ text' = [text EXCEPT ![h] = << >>]
      /\ free_slots' = free_slots + Cardinality(Unshared(h))
  BY DEF Release, Live
<1>2. ASSUME NEW s \in Slots
      PROVE  /\ Dropped(pool[s], 1) \in [refcnt : Nat, next : SlotIndex, data : Seq(Bytes)] \/ ~InChain(h, s)
             /\ pool[s].refcnt = 1 => Dropped(pool[s], 1) = FreeSlot
             /\ pool[s].refcnt # 1 => /\ Dropped(pool[s], 1).refcnt = pool[s].refcnt - 1
                                      /\ Dropped(pool[s], 1).next = pool[s].next
                                      /\ Dropped(pool[s], 1).data = pool[s].data
  <2>1. pool[s] \in [refcnt : Nat, next : SlotIndex, data : Seq(Bytes)]
    BY <1>0 DEF FbufTypes, Pools
  <2>2. FreeSlot \in [refcnt : Nat, next : SlotIndex, data : Seq(Bytes)]
    BY EmptySeq DEF FreeSlot, SlotIndex
  <2>3. InChain(h, s) => pool[s].refcnt - 1 \in Nat
    <3>1. InChain(h, s) => pool[s].refcnt # 0
      BY SlotFacts
    <3> QED
      BY <2>1, <3>1
  <2> DEFINE n == pool[s].refcnt - 1
             fewer == [pool[s] EXCEPT !.refcnt = n]
  <2>4. Dropped(pool[s], 1) = IF pool[s].refcnt = 1 THEN FreeSlot ELSE fewer
    BY DEF Dropped
  <2>5. n \in Nat \/ ~InChain(h, s)
    BY <2>3
  <2> HIDE DEF n
  <2>6. /\ n \in Nat => fewer \in [refcnt : Nat, next : SlotIndex, data : Seq(Bytes)]
        /\ fewer.refcnt = n /\ fewer.next = pool[s].next /\ fewer.data = pool[s].data
    BY <2>1
  <2> HIDE DEF fewer
  <2>7. Dropped(pool[s], 1) \in [refcnt : Nat, next : SlotIndex, data : Seq(Bytes)] \/ ~InChain(h, s)
    BY <2>2, <2>4, <2>5, <2>6
  <2> QED
    BY <2>4, <2>6, <2>7 DEF n
<1>3. /\ pool' \in Pools
      /\ \A s \in Slots : /\ ~InChain(h, s) => pool'[s] = pool[s]
                          /\ InChain(h, s) => pool'[s].refcnt = pool[s].refcnt - 1
                          /\ InChain(h, s) /\ pool[s].refcnt # 1 =>
                               pool'[s].next = pool[s].next /\ pool'[s].data = pool[s].data
  <2> DEFINE fewer(s) == Dropped(pool[s], 1)
  <2>1. \A s \in Slots : pool'[s] = IF InChain(h, s) THEN fewer(s) ELSE pool[s]
    BY <1>1
  <2>2. pool' \in Pools
    BY <1>0, <1>1, <1>2 DEF FbufTypes, Pools
  <2>3. FreeSlot.refcnt = 1 - 1
    BY DEF FreeSlot
  <2> QED
    BY <1>2, <2>1, <2>2, <2>3
<1>4. /\ FbTypes'
      /\ \A k \in Handles : fb'[k] = IF k = h THEN Disposed ELSE fb[k]
      /\ Disposed.head = NILPTR /\ Disposed.length = 0
  <2>1. Disposed = Fb(NILPTR, NILPTR, NILPTR, 0, 0)
    BY DEF Disposed, Fb
  <2>2. Whole(Disposed) /\ Disposed.head = NILPTR /\ Disposed.wslot = NILPTR /\ Disposed.length = 0
    <3>1. Whole(Disposed)
      BY <2>1, FbWhole
    <3> QED
      BY <3>1 DEF Disposed
  <2>3. FbTypes /\ NILPTR \in SlotIndex /\ 0 \in Nat
    BY <1>0 DEF FbufTypes, SlotIndex
  <2> QED
    BY <1>1, <2>2, <2>3, FbSet
<1>5. /\ \A k \in Handles : /\ text'[k] = IF k = h THEN << >> ELSE text[k]
                            /\ phase'[k] = IF k = h THEN "free" ELSE phase[k]
      /\ text' \in [Handles -> Seq(Bytes)] /\ phase' \in [Handles -> {"free", "building", "written", "shared"}]
  BY <1>0, <1>1, EmptySeq DEF FbufTypes
<1>6. FbufTypes'
  <2>1. \A s \in Slots : Len(pool'[s].data) <= SLOTSIZE
    <3>1. \A s \in Slots : pool'[s].data = pool[s].data \/ pool'[s].data = << >>
      <4>1. \A s \in Slots : InChain(h, s) /\ pool[s].refcnt = 1 => pool'[s] = FreeSlot
        BY <1>1, <1>2
      <4> QED
        BY <1>3, <4>1 DEF FreeSlot
    <3>2. Len(<< >>) = 0 /\ 0 <= SLOTSIZE
      BY FbufAssumption
    <3> QED
      BY <1>0, <3>1, <3>2 DEF FbufTypes
  <2> QED
    BY <1>3, <1>4, <1>5, <2>1 DEF FbufTypes
<1>7. \A k \in Handles : ch[k] = IF k = h THEN << >> ELSE ChainOf(k)
  OBVIOUS
<1> HIDE DEF ch
<1>8. \A k \in Handles, s \in Slots :
        k # h /\ InChain(k, s) => pool'[s].next = pool[s].next /\ pool'[s].data = pool[s].data
  BY <1>3, SharedTwice
<1>9. \A k \in Handles : k # h =>
        /\ Path(pool', fb[k].head, ChainOf(k))
        /\ text[k] = Content(pool', ChainOf(k)) /\ fb[k].length = Len(text[k])
  BY <1>3, <1>8, CountsOnly
<1>10. \A k \in Handles : Path(pool', fb'[k].head, ch[k])
  BY <1>4, <1>7, <1>9, Short
<1>11. \A k \in Handles : text'[k] = Content(pool', ch[k]) /\ fb'[k].length = Len(text'[k])
  <2>1. Content(pool', << >>) = << >> /\ Len(<< >>) = 0
    BY <1>3, ContentNone
  <2> QED
    BY <1>4, <1>5, <1>7, <1>9, <2>1
<1>12. \A k \in Handles : phase'[k] = "free" => fb'[k].head = NILPTR /\ text'[k] = << >>
  BY <1>0, <1>4, <1>5 DEF FreeHandles
<1>13. \A k \in Handles, s \in Slots : Contains(ch[k], s) <=> InChain(k, s) /\ k # h
  BY <1>7, Short DEF InChain
<1>14. \A k, j \in Handles, s \in Slots :
         phase'[k] \in {"building", "written"} /\ j # k /\ Contains(ch[k], s) => ~Contains(ch[j], s)
  BY <1>0, <1>5, <1>13 DEF Owned
<1>15. \A k \in Handles : phase'[k] \in {"building", "written"} =>
         Len(ch[k]) = 1 \/ \A s \in Slots : Contains(ch[k], s) => pool'[s].data # << >>
  <2> SUFFICES ASSUME NEW k \in Handles, k # h, phase'[k] \in {"building", "written"}
      PROVE  Len(ch[k]) = 1 \/ \A s \in Slots : Contains(ch[k], s) => pool'[s].data # << >>
    BY <1>5
  <2> QED
    BY <1>0, <1>5, <1>7, <1>8 DEF Filled, InChain
<1>16. \A k \in Handles : phase'[k] = "building" =>
         fb'[k].wslot = IF ch[k] = << >> THEN NILPTR ELSE Last(ch[k])
  BY <1>0, <1>4, <1>5, <1>7 DEF Writable
<1>17. \A s \in Slots : pool'[s].refcnt = Cardinality({k \in Handles : Contains(ch[k], s)})
  <2> SUFFICES ASSUME NEW s \in Slots
               PROVE  pool'[s].refcnt = Cardinality({k \in Handles : Contains(ch[k], s)})
    OBVIOUS
  <2>1. Users(s) \in SUBSET Handles /\ pool[s].refcnt = Cardinality(Users(s))
    BY <1>0 DEF Users, References
  <2>2. {k \in Handles : Contains(ch[k], s)} = Users(s) \ {h}
    BY <1>13 DEF Users
  <2>3. CASE InChain(h, s)
    <3>1. Cardinality(Users(s) \ {h}) = Cardinality(Users(s)) - 1
      <4>1. h \in Users(s)
        BY <2>3 DEF Users
      <4> QED
        BY <2>1, <4>1, UsersFacts
    <3> QED
      BY <1>3, <2>1, <2>2, <2>3, <3>1
  <2>4. CASE ~InChain(h, s)
    <3>1. Users(s) \ {h} = Users(s)
      BY <2>4 DEF Users
    <3> QED
      BY <1>3, <2>1, <2>2, <2>4, <3>1
  <2> QED
    BY <2>3, <2>4
<1>18. free_slots' = Cardinality({s \in Slots : pool'[s].refcnt = 0})
  <2>1. \A s \in Slots : pool'[s].refcnt = 0 <=> pool[s].refcnt = 0 \/ s \in Unshared(h)
    <3>1. \A s \in Slots : pool[s].refcnt \in Nat
      BY <1>0 DEF FbufTypes, Pools
    <3>2. \A s \in Slots : pool[s].refcnt = 0 => ~InChain(h, s)
      BY SlotFacts
    <3> QED
      BY <1>3, <3>1, <3>2 DEF Unshared
  <2>2. /\ {s \in Slots : pool'[s].refcnt = 0} = FreeSet \cup Unshared(h) /\ FreeSet \cap Unshared(h) = {}
        /\ IsFiniteSet(FreeSet) /\ IsFiniteSet(Unshared(h))
        /\ Cardinality(FreeSet) \in Nat /\ Cardinality(Unshared(h)) \in Nat
    <3>1. {s \in Slots : pool'[s].refcnt = 0} = FreeSet \cup Unshared(h)
      BY <2>1 DEF FreeSet, Unshared
    <3>2. FreeSet \in SUBSET Slots /\ Unshared(h) \in SUBSET Slots
      BY DEF FreeSet, Unshared
    <3>3. FreeSet \cap Unshared(h) = {}
      BY DEF FreeSet, Unshared
    <3> QED
      BY <3>1, <3>2, <3>3, SlotSets
  <2>3. Cardinality(FreeSet \cup Unshared(h)) = Cardinality(FreeSet) + Cardinality(Unshared(h)) - Cardinality({})
    BY <2>2, FS_Union
  <2>4. Cardinality({}) = 0
    BY FS_EmptySet
  <2> QED
    <3> DEFINE x == Cardinality(FreeSet)
               y == Cardinality(Unshared(h))
    <3>1. x \in Nat /\ y \in Nat /\ Cardinality(FreeSet \cup Unshared(h)) = x + y - 0
      BY <2>2, <2>3, <2>4
    <3>2. free_slots' = x + y
      BY <1>0, <1>1 DEF FreeExact
    <3> HIDE DEF x, y
    <3>3. x + y - 0 = x + y
      BY <3>1
    <3> QED
      BY <2>2, <3>1, <3>2, <3>3, Zenon
<1>19. FbufInv'
  BY <1>6, <1>10, <1>11, <1>12, <1>14, <1>15, <1>16, <1>17, <1>18, InvFrom
<1> QED
  BY <1>4, <1>5, <1>8, <1>19

----------------------------------------------------------------------------
(* Where a chain is cut. *)

LEMMA ConcatIndex ==
  ASSUME NEW S, NEW c \in Seq(S), NEW d \in Seq(S)
  PROVE  /\ c \o d \in Seq(S) /\ Len(c \o d) = Len(c) + Len(d)
         /\ \A j \in 1..Len(c)+Len(d) : (c \o d)[j] = IF j <= Len(c) THEN c[j] ELSE d[j - Len(c)]
OBVIOUS

\* A chain through s is a part before it, s, and a rest.
Cut(pre, s, rest) == pre \o (<<s>> \o rest)
Join(a, b, c) == a \o (b \o c)

LEMMA CutFacts ==
  ASSUME NEW p \in Pools, NEW a \in SlotIndex, NEW s \in Slots,
         NEW pre \in Seq(Slots), NEW rest \in Seq(Slots), Path(p, a, Cut(pre, s, rest))
  PROVE  /\ Distinct(pre) /\ ~Contains(pre, s) /\ ~Contains(rest, s)
         /\ \A t : ~(Contains(pre, t) /\ Contains(rest, t))
         /\ \A t : Contains(Cut(pre, s, rest), t) <=> Contains(pre, t) \/ t = s \/ Contains(rest, t)
         /\ Along(p, a, pre) /\ After(p, a, pre) = s /\ Path(p, p[s].next, rest)
         /\ Content(p, Cut(pre, s, rest)) = Join(Content(p, pre), p[s].data, Content(p, rest))
<1> DEFINE one == <<s>>
           tail == one \o rest
           c == pre \o tail
<1>1. one \in Seq(Slots) /\ (\A t : Contains(one, t) <=> t = s) /\ one[1] = s /\ Len(one) = 1 /\ one # << >>
  BY Short
<1>2. Distinct(c) /\ Along(p, a, c) /\ After(p, a, c) = NILPTR
  BY DEF Path, Cut
<1>3. tail \in Seq(Slots) /\ tail # << >> /\ tail[1] = s /\ Len(tail) >= 1
  BY <1>1
<1>4. Content(p, one) = p[s].data
  BY ContentOne
<1> HIDE DEF one
<1>5. /\ Content(p, tail) = p[s].data \o Content(p, rest)
      /\ \A t : Contains(tail, t) <=> Contains(one, t) \/ Contains(rest, t)
      /\ Distinct(tail) <=> Distinct(one) /\ Distinct(rest) /\ \A t : ~(Contains(one, t) /\ Contains(rest, t))
  <2>1. Content(p, tail) = p[s].data \o Content(p, rest)
    BY <1>1, <1>4, ContentConcat
  <2>2. \A t : Contains(tail, t) <=> Contains(one, t) \/ Contains(rest, t)
    BY <1>1, ContainsConcat
  <2>3. Distinct(tail) <=> Distinct(one) /\ Distinct(rest) /\ \A t : ~(Contains(one, t) /\ Contains(rest, t))
    BY <1>1, DistinctConcat
  <2> QED
    BY <2>1, <2>2, <2>3
<1>6. \A x : /\ Along(p, x, tail) <=> Along(p, x, one) /\ Along(p, After(p, x, one), rest)
             /\ After(p, x, tail) = After(p, After(p, x, one), rest)
  BY <1>1, AlongConcat
<1> HIDE DEF tail
<1>7. /\ Content(p, c) = Content(p, pre) \o Content(p, tail)
      /\ \A t : Contains(c, t) <=> Contains(pre, t) \/ Contains(tail, t)
      /\ Distinct(c) <=> Distinct(pre) /\ Distinct(tail) /\ \A t : ~(Contains(pre, t) /\ Contains(tail, t))
      /\ Along(p, a, c) <=> Along(p, a, pre) /\ Along(p, After(p, a, pre), tail)
      /\ After(p, a, c) = After(p, After(p, a, pre), tail)
  BY <1>3, ContentConcat, ContainsConcat, DistinctConcat, AlongConcat
<1>8. After(p, a, pre) = s
  <2>1. tail[1] = IF 1 = 1 THEN After(p, a, pre) ELSE p[tail[1-1]].next
    BY <1>2, <1>3, <1>7 DEF Along
  <2> QED
    BY <1>3, <2>1
<1>9. \A x : After(p, x, one) = p[s].next
  BY <1>1 DEF After
<1>10. Path(p, p[s].next, rest)
  BY <1>2, <1>5, <1>6, <1>7, <1>9 DEF Path
<1>11. Distinct(pre) /\ \A t : ~(Contains(pre, t) /\ (t = s \/ Contains(rest, t)))
  BY <1>1, <1>2, <1>5, <1>7
<1>12. ~Contains(rest, s)
  BY <1>1, <1>2, <1>5, <1>7
<1>13. \A t : Contains(c, t) <=> Contains(pre, t) \/ t = s \/ Contains(rest, t)
  BY <1>1, <1>5, <1>7
<1>14. Content(p, c) = Content(p, pre) \o (p[s].data \o Content(p, rest))
  BY <1>5, <1>7
<1>15. Along(p, a, pre)
  BY <1>2, <1>7
<1> QED
  BY <1>8, <1>10, <1>11, <1>12, <1>13, <1>14, <1>15 DEF tail, one, Cut, Join

\* The rest depends on s only.
LEMMA CutAt ==
  ASSUME NEW p \in Pools, NEW a \in SlotIndex, NEW c, Path(p, a, c)
  PROVE  \A s : Contains(c, s) =>
           /\ s \in Slots /\ ChainIn(p, p[s].next) \in Seq(Slots)
           /\ \E pre \in Seq(Slots) : c = Cut(pre, s, ChainIn(p, p[s].next))
<1> SUFFICES ASSUME NEW s, Contains(c, s)
             PROVE  /\ s \in Slots /\ ChainIn(p, p[s].next) \in Seq(Slots)
                    /\ \E pre \in Seq(Slots) : c = Cut(pre, s, ChainIn(p, p[s].next))
  OBVIOUS
<1>1. c \in Seq(Slots) /\ s \in Slots
  BY DEF Path, Contains
<1>2. PICK i \in 1..Len(c) : c[i] = s
  BY DEF Contains
<1> DEFINE n == Len(c) - i
           pre == [j \in 1..i-1 |-> c[j]]
           rest == [j \in 1..n |-> c[i + j]]
           one == <<s>>
           tail == one \o rest
<1>3. i - 1 \in Nat /\ n \in Nat /\ Len(c) \in Nat
  BY <1>1, <1>2
<1>4. /\ pre \in Seq(Slots) /\ Len(pre) = i - 1 /\ rest \in Seq(Slots) /\ Len(rest) = n
      /\ \A j \in 1..i-1 : pre[j] = c[j]
      /\ \A j \in 1..n : rest[j] = c[i + j]
  <2>1. \A j \in 1..i-1 : c[j] \in Slots
    BY <1>1, <1>2
  <2>2. \A j \in 1..n : c[i + j] \in Slots
    BY <1>1, <1>2, <1>3
  <2> HIDE DEF n
  <2> QED
    BY <1>3, <2>1, <2>2
<1>5. one \in Seq(Slots) /\ Len(one) = 1 /\ one[1] = s
  BY <1>1
<1> HIDE DEF pre, rest, one
<1>6. tail \in Seq(Slots) /\ Len(tail) = n + 1 /\ \A j \in 1..n+1 : tail[j] = c[i + j - 1]
  <2> HIDE DEF n
  <2> DEFINE k == 1
  <2>1. k = 1 /\ k = Len(one) /\ n = Len(rest)
    BY <1>4, <1>5
  <2> HIDE DEF k
  <2>2. /\ tail \in Seq(Slots) /\ Len(tail) = k + n
        /\ \A j \in 1..k+n : tail[j] = IF j <= k THEN one[j] ELSE rest[j - k]
    <3>1. /\ tail \in Seq(Slots) /\ Len(tail) = Len(one) + Len(rest)
          /\ \A j \in 1..Len(one)+Len(rest) :
               tail[j] = IF j <= Len(one) THEN one[j] ELSE rest[j - Len(one)]
      BY <1>4, <1>5, ConcatIndex
    <3> HIDE DEF tail
    <3> QED
      BY <2>1, <3>1
  <2>3. ASSUME NEW j \in 1..n+1 PROVE tail[j] = c[i + j - 1]
    <3>1. tail[j] = IF j <= 1 THEN one[j] ELSE rest[j - 1]
      <4>1. j \in 1..k+n
        BY <1>3, <2>1
      <4> QED
        BY <2>1, <2>2, <4>1
    <3>2. CASE j = 1
      <4>1. i + j - 1 = i /\ j <= 1
        BY <3>2
      <4>2. tail[j] = one[1]
        BY <3>1, <3>2, <4>1
      <4> QED
        BY <1>2, <1>5, <4>1, <4>2
    <3>3. CASE j # 1
      <4>1. j - 1 \in 1..n /\ i + (j - 1) = i + j - 1 /\ ~(j <= 1)
        BY <1>3, <3>3
      <4> QED
        BY <1>4, <3>1, <4>1
    <3> QED
      BY <3>2, <3>3
  <2>4. Len(tail) = n + 1
    BY <1>3, <2>1, <2>2
  <2> QED
    BY <2>2, <2>3, <2>4
<1> HIDE DEF tail
<1>7. c = pre \o tail
  <2> DEFINE d == pre \o tail
             m == i - 1
             k == n + 1
  <2>1. m = Len(pre) /\ k = Len(tail) /\ m + k = Len(c) /\ m \in Nat /\ k \in Nat
    BY <1>3, <1>4, <1>6
  <2> HIDE DEF m, k
  <2>2. /\ d \in Seq(Slots) /\ Len(d) = m + k
        /\ \A j \in 1..m+k : d[j] = IF j <= m THEN pre[j] ELSE tail[j - m]
    <3>1. /\ d \in Seq(Slots) /\ Len(d) = Len(pre) + Len(tail)
          /\ \A j \in 1..Len(pre)+Len(tail) :
               d[j] = IF j <= Len(pre) THEN pre[j] ELSE tail[j - Len(pre)]
      BY <1>4, <1>6, ConcatIndex
    <3> HIDE DEF d
    <3> QED
      BY <2>1, <3>1
  <2> HIDE DEF d, n
  <2>3. ASSUME NEW j \in 1..Len(c) PROVE c[j] = d[j]
    <3>1. CASE j <= m
      <4>1. j \in 1..m+k /\ j \in 1..i-1
        BY <1>3, <2>1, <3>1 DEF m
      <4>2. d[j] = pre[j]
        BY <2>2, <3>1, <4>1
      <4> QED
        BY <1>4, <4>1, <4>2
    <3>2. CASE j > m
      <4>1. j - m \in 1..n+1 /\ i + (j - m) - 1 = j /\ ~(j <= m) /\ j \in 1..m+k
        BY <1>3, <2>1, <3>2 DEF m, k
      <4>2. d[j] = tail[j - m]
        BY <2>2, <4>1
      <4> QED
        BY <1>6, <4>1, <4>2
    <3> QED
      BY <2>1, <3>1, <3>2
  <2>4. c = d
    BY <1>1, <2>1, <2>2, <2>3, SeqEqual
  <2> QED
    BY <2>4 DEF d
<1>8. Path(p, p[s].next, rest)
  BY <1>1, <1>4, <1>7, CutFacts DEF tail, one, Cut
<1>9. ChainIn(p, p[s].next) = rest
  <2>1. p[s].next \in SlotIndex
    BY <1>1 DEF Pools
  <2> QED
    BY <1>8, <2>1, ChainIsPath
<1> QED
  BY <1>1, <1>4, <1>7, <1>9 DEF tail, one, Cut

LEMMA CutFirst ==
  ASSUME NEW p \in Pools, NEW a \in SlotIndex, NEW c, Path(p, a, c), c # << >>
  PROVE  /\ a \in Slots /\ ChainIn(p, p[a].next) \in Seq(Slots)
         /\ c = <<a>> \o ChainIn(p, p[a].next)
<1>1. c \in Seq(Slots) /\ c[1] = a /\ Contains(c, a)
  <2>1. c \in Seq(Slots) /\ c[1] = a
    BY PathFacts
  <2>2. 1 \in 1..Len(c)
    BY <2>1
  <2> QED
    BY <2>1, <2>2 DEF Contains
<1> DEFINE rest == ChainIn(p, p[a].next)
           tail == <<a>> \o rest
<1>2. a \in Slots /\ rest \in Seq(Slots) /\ \E pre \in Seq(Slots) : c = Cut(pre, a, rest)
  <2>1. \A t : Contains(c, t) =>
          /\ t \in Slots /\ ChainIn(p, p[t].next) \in Seq(Slots)
          /\ \E pre \in Seq(Slots) : c = Cut(pre, t, ChainIn(p, p[t].next))
    BY CutAt
  <2> QED
    BY <1>1, <2>1
<1>3. PICK pre \in Seq(Slots) : c = Cut(pre, a, rest)
  BY <1>2
<1>4. ~Contains(pre, a)
  <2>1. Path(p, a, Cut(pre, a, rest))
    BY <1>3
  <2> HIDE DEF rest
  <2> QED
    BY <1>2, <2>1, CutFacts
<1> HIDE DEF rest
<1>5. tail \in Seq(Slots)
  BY <1>2
<1> HIDE DEF tail
<1>6. pre = << >>
  <2> SUFFICES ASSUME pre # << >> PROVE FALSE
    OBVIOUS
  <2>1. 1 \in 1..Len(pre)
    OBVIOUS
  <2>2. c[1] = pre[1]
    BY <1>3, <1>5, <2>1, ConcatFacts DEF Cut, tail
  <2> QED
    BY <1>1, <1>4, <2>1, <2>2 DEF Contains
<1>7. c = tail
  BY <1>3, <1>5, <1>6 DEF Cut, tail
<1> QED
  BY <1>2, <1>7 DEF tail, rest

\* A place w of the loop of fbuf_connect over c; off is 0 behind w.slot.
SplitAt(c, pos, w) ==
  /\ w.slot \in Slots /\ w.off \in Nat
  /\ \E pre \in Seq(Slots) :
       /\ c = Cut(pre, w.slot, Chain(pool[w.slot].next))
       /\ pos = Len(Content(pool, pre)) + (IF w.off = 0 THEN Len(pool[w.slot].data) ELSE w.off)

SplitRound(w) ==
  LET left == w.off - Len(pool[w.slot].data)
  IN  IF w.slot # NILPTR /\ w.off >= SLOTSIZE
        THEN [slot |-> IF left > 0 THEN pool[w.slot].next ELSE w.slot, off |-> left]
        ELSE w

LEMMA SplitRoundKeeps ==
  ASSUME FbufInv, NEW x \in Handles, NEW pos \in Nat, pos <= Len(text[x]),
         NEW w, SplitAt(ChainOf(x), pos, w)
  PROVE  SplitAt(ChainOf(x), pos, SplitRound(w))
<1> DEFINE c == ChainOf(x)
           s == w.slot
           off == w.off
           data == pool[s].data
           next == pool[s].next
           rest == Chain(next)
           one == <<s>>
           left == off - Len(data)
<1>0. /\ pool \in Pools /\ fb[x].head \in SlotIndex /\ Path(pool, fb[x].head, c)
      /\ text[x] = Content(pool, c) /\ \A t \in Slots : Len(pool[t].data) <= SLOTSIZE
  BY DEF FbufInv, FbufTypes, FbTypes, Chains, Texts
<1>1. s \in Slots /\ off \in Nat
  BY DEF SplitAt
<1>2. PICK pre \in Seq(Slots) :
        /\ c = Cut(pre, s, rest)
        /\ pos = Len(Content(pool, pre)) + (IF off = 0 THEN Len(data) ELSE off)
  BY DEF SplitAt
<1>3. next \in SlotIndex /\ data \in Seq(Bytes) /\ Len(data) \in Nat /\ Len(data) <= SLOTSIZE /\ SLOTSIZE > 0
  BY <1>0, <1>1, FbufAssumption DEF Pools
<1>4. rest \in Seq(Slots)
  BY <1>0, <1>3, ChainSeq DEF Chain
<1>5. CASE off < SLOTSIZE
  <2>1. SplitRound(w) = w
    <3>1. ~(w.off >= SLOTSIZE)
      BY <1>1, <1>5, FbufAssumption
    <3> QED
      BY <3>1, Zenon DEF SplitRound
  <2> QED
    BY <2>1
<1>6. CASE off >= SLOTSIZE /\ left = 0
  <2>1. SplitRound(w) = [slot |-> s, off |-> left]
    BY <1>1, <1>6, SlotsFacts DEF SplitRound
  <2>2. pos = Len(Content(pool, pre)) + Len(data) /\ off > 0
    <3>1. off = Len(data) /\ off >= SLOTSIZE /\ SLOTSIZE > 0 /\ off > 0
      BY <1>1, <1>3, <1>6, FbufAssumption
    <3> QED
      BY <1>2, <3>1
  <2> DEFINE v == SplitRound(w)
  <2>3. v.slot = s /\ v.off = 0
    BY <1>6, <2>1
  <2> HIDE DEF v
  <2>4. /\ v.slot \in Slots /\ v.off \in Nat
        /\ c = Cut(pre, v.slot, Chain(pool[v.slot].next))
        /\ pos = Len(Content(pool, pre)) + (IF v.off = 0 THEN Len(pool[v.slot].data) ELSE v.off)
    BY <1>1, <1>2, <2>2, <2>3
  <2> QED
    BY <2>4 DEF SplitAt, v
<1>7. CASE off >= SLOTSIZE /\ left # 0
  <2>1. left \in Nat \ {0} /\ off > 0 /\ left + Len(data) = off
    <3> DEFINE n == Len(data)
    <3>1. n \in Nat /\ n <= SLOTSIZE /\ SLOTSIZE \in Nat /\ SLOTSIZE > 0 /\ left = off - n
      BY <1>3, FbufAssumption
    <3> HIDE DEF n, off, left
    <3>2. left \in Nat \ {0} /\ off > 0 /\ left + n = off
      BY <1>1, <1>7, <3>1
    <3> QED
      BY <3>2 DEF n
  <2>2. SplitRound(w) = [slot |-> next, off |-> left]
    BY <1>1, <1>7, <2>1, SlotsFacts DEF SplitRound
  <2>3. Path(pool, next, rest) /\ Content(pool, c) = Content(pool, pre) \o (data \o Content(pool, rest))
    <3>1. Path(pool, fb[x].head, Cut(pre, s, rest))
      BY <1>0, <1>2
    <3> HIDE DEF rest, c, s
    <3>2. Path(pool, pool[s].next, rest)
      BY <1>0, <1>1, <1>4, <3>1, CutFacts
    <3>3. Content(pool, Cut(pre, s, rest)) = Join(Content(pool, pre), pool[s].data, Content(pool, rest))
      BY <1>0, <1>1, <1>4, <3>1, CutFacts
    <3> QED
      BY <1>2, <3>2, <3>3 DEF Join
  <2> DEFINE front == Content(pool, pre)
             after == Content(pool, rest)
  <2>4. front \in Seq(Bytes) /\ after \in Seq(Bytes) /\ Len(front) \in Nat
    BY <1>0, <1>4, ContentType
  <2>5. Len(Content(pool, c)) = Len(front) + Len(data) + Len(after)
    <3>1. Content(pool, c) = front \o (data \o after)
      BY <2>3
    <3>2. Len(data \o after) = Len(data) + Len(after) /\ data \o after \in Seq(Bytes)
      <4> HIDE DEF data, after
      <4> QED
        BY <1>3, <2>4, ConcatFacts
    <3> DEFINE last == data \o after
    <3> HIDE DEF last, front, data, after
    <3>3. Len(front \o last) = Len(front) + Len(last)
      BY <2>4, <3>2, ConcatFacts DEF last
    <3> QED
      BY <1>3, <2>4, <3>1, <3>2, <3>3 DEF last
  <2>6. rest # << >>
    <3> SUFFICES ASSUME rest = << >> PROVE FALSE
      OBVIOUS
    <3>1. Len(after) = 0
      BY <1>0, ContentNone
    <3>2. pos = Len(front) + off
      BY <1>1, <1>2, <2>1
    <3> QED
      BY <1>0, <1>3, <2>1, <2>4, <2>5, <3>1, <3>2
  <2>7. next \in Slots /\ rest = <<next>> \o Chain(pool[next].next) /\ Chain(pool[next].next) \in Seq(Slots)
    BY <1>0, <1>3, <2>3, <2>6, CutFirst DEF Chain
  <2>8. c = Cut(pre \o one, next, Chain(pool[next].next)) /\ pre \o one \in Seq(Slots)
    <3>1. one \in Seq(Slots)
      BY <1>1
    <3> HIDE DEF one, rest, c
    <3>2. (pre \o one) \o rest = pre \o (one \o rest) /\ pre \o one \in Seq(Slots)
      BY <1>4, <3>1, ConcatSeq
    <3> QED
      BY <1>2, <2>7, <3>2 DEF Cut, one
  <2>9. Len(Content(pool, pre \o one)) = Len(front) + Len(data)
    <3>1. one \in Seq(Slots) /\ Content(pool, one) = data
      BY <1>0, <1>1, ContentOne
    <3>2. Content(pool, pre \o one) = front \o data
      <4> HIDE DEF one
      <4> QED
        BY <1>0, <3>1, ContentConcat
    <3> HIDE DEF front, data
    <3> QED
      BY <1>3, <2>4, <3>2, ConcatFacts
  <2>10. pos = Len(front) + Len(data) + left
    <3>1. pos = Len(front) + off
      BY <1>2, <2>1
    <3>2. Len(data) \in Nat /\ off = left + Len(data)
      BY <1>3, <2>1
    <3> HIDE DEF front, data, left, off
    <3> QED
      BY <2>1, <2>4, <3>1, <3>2
  <2> DEFINE v == SplitRound(w)
  <2>11. v.slot = next /\ v.off = left
    BY <2>2
  <2> DEFINE longer == pre \o one
  <2>12. /\ longer \in Seq(Slots) /\ c = Cut(longer, v.slot, Chain(pool[v.slot].next))
         /\ pos = Len(Content(pool, longer)) + (IF v.off = 0 THEN Len(pool[v.slot].data) ELSE v.off)
    BY <2>1, <2>8, <2>9, <2>10, <2>11
  <2> HIDE DEF longer, v
  <2>13. v.slot \in Slots /\ v.off \in Nat
    BY <2>1, <2>7, <2>11
  <2> QED
    BY <2>12, <2>13 DEF SplitAt, v
<1> QED
  BY <1>1, <1>3, <1>5, <1>6, <1>7, FbufAssumption

\* Where fbuf_connect cuts, in whatever slots it passes.
LEMMA SplitPlaceFacts ==
  ASSUME FbufInv, NEW x \in Handles, NEW pos \in Nat \ {0}, pos <= Len(text[x])
  PROVE  SplitAt(ChainOf(x), pos, SplitPlace(x, pos))
<1> DEFINE N == FBUF_SLOTS
           c == ChainOf(x)
           start == [slot |-> fb[x].head, off |-> pos]
           J == {w \in [slot : SlotIndex, off : Nat] : SplitAt(c, pos, w)}
           G == [kw \in (1..N) \X J |-> SplitRound(kw[2])]
           Eq(f) == f = [k \in 0..N |-> IF k = 0 THEN start ELSE SplitRound(f[k-1])]
           at == CHOOSE f : Eq(f)
<1>0. /\ pool \in Pools /\ fb[x].head \in SlotIndex /\ Path(pool, fb[x].head, c)
      /\ text[x] = Content(pool, c) /\ text[x] \in Seq(Bytes)
  BY DEF FbufInv, FbufTypes, FbTypes, Chains, Texts
<1>1. N \in Nat
  BY SlotsFacts
<1>2. start \in J
  <2>1. c # << >>
    BY <1>0, ContentNone
  <2>2. fb[x].head \in Slots /\ c = <<fb[x].head>> \o Chain(pool[fb[x].head].next) /\ Chain(pool[fb[x].head].next) \in Seq(Slots)
    BY <1>0, <2>1, CutFirst DEF Chain
  <2> DEFINE none == << >>
  <2>3. none \in Seq(Slots) /\ Len(Content(pool, none)) = 0
    BY <1>0, ContentNone, EmptySeq
  <2>4. c = Cut(none, fb[x].head, Chain(pool[fb[x].head].next))
    BY <2>2 DEF Cut
  <2>5. start.slot = fb[x].head /\ start.off = pos /\ start \in [slot : SlotIndex, off : Nat]
    BY <1>0
  <2> HIDE DEF none, start, c
  <2>6. pos = Len(Content(pool, none)) + (IF start.off = 0 THEN Len(pool[start.slot].data) ELSE start.off)
    BY <2>3, <2>5
  <2>7. c = Cut(none, start.slot, Chain(pool[start.slot].next))
    BY <2>4, <2>5
  <2>8. SplitAt(c, pos, start)
    BY <2>2, <2>3, <2>5, <2>6, <2>7 DEF SplitAt
  <2> QED
    BY <2>5, <2>8
<1>3. ASSUME NEW w \in J PROVE SplitRound(w) \in J
  <2>1. SplitAt(c, pos, SplitRound(w)) /\ w.slot \in Slots
    <3>1. w.slot \in Slots /\ SplitAt(c, pos, w)
      BY <1>3 DEF SplitAt
    <3> QED
      BY <3>1, SplitRoundKeeps
  <2>2. SplitRound(w) = w \/ SplitRound(w) = [slot |-> SplitRound(w).slot, off |-> SplitRound(w).off]
    BY DEF SplitRound
  <2> DEFINE v == SplitRound(w)
  <2>3. v.slot \in SlotIndex /\ v.off \in Nat
    BY <2>1 DEF SplitAt, SlotIndex
  <2> HIDE DEF v
  <2>4. v = w \/ v = [slot |-> v.slot, off |-> v.off]
    BY <2>2 DEF v
  <2>5. v \in [slot : SlotIndex, off : Nat]
    BY <2>3, <2>4
  <2> QED
    BY <2>1, <2>5 DEF v
<1>4. SplitPlace(x, pos) = at[N]
  BY DEF SplitPlace, Walk, SplitRound, N
<1> HIDE DEF N, J, start
<1>5. G \in [(1..N) \X J -> J]
  BY <1>3
<1>6. PICK f \in [0..N -> J] : f[0] = start /\ \A k \in 1..N : f[k] = G[<<k, f[k-1]>>]
  <2> HIDE DEF G
  <2>1. \E f \in [0..N -> J] : Recursive(f, N, start, G)
    BY <1>1, <1>2, <1>5, Recursion
  <2> QED
    BY <2>1 DEF Recursive
<1>7. \A k \in 1..N : k - 1 \in 0..N /\ f[k] = SplitRound(f[k-1])
  <2> SUFFICES ASSUME NEW k \in 1..N PROVE k - 1 \in 0..N /\ f[k] = SplitRound(f[k-1])
    OBVIOUS
  <2>1. k - 1 \in 0..N
    BY <1>1
  <2>2. <<k, f[k-1]>> \in (1..N) \X J /\ <<k, f[k-1]>>[2] = f[k-1]
    BY <2>1
  <2> QED
    BY <1>6, <2>1, <2>2
<1>8. Eq(f)
  BY <1>1, <1>6, <1>7
<1>9. Eq(at)
  BY <1>8
<1> HIDE DEF at
<1>10. at[0] = start /\ \A k \in 1..N : at[k] = SplitRound(at[k-1])
  BY <1>1, <1>9
<1> DEFINE T == {k \in Nat : k <= N => at[k] \in J}
<1>11. 0 \in T
  BY <1>1, <1>2, <1>10
<1>12. ASSUME NEW k \in 0..N-1, k \in T PROVE k + 1 \in T
  <2>1. at[k] \in J /\ k + 1 \in 1..N /\ k + 1 - 1 = k
    BY <1>1, <1>12
  <2>2. at[k + 1] = SplitRound(at[k])
    BY <1>10, <2>1
  <2> QED
    BY <1>3, <2>1, <2>2
<1>13. 0..N \subseteq T
  <2>1. T \subseteq Nat
    OBVIOUS
  <2> HIDE DEF T
  <2> QED
    BY <1>1, <1>11, <1>12, <2>1, Steps
<1>14. at[N] \in J
  BY <1>1, <1>13
<1> QED
  BY <1>4, <1>14 DEF J

LEMMA TailOf ==
  ASSUME NEW S, NEW a \in Seq(S), NEW b \in Seq(S)
  PROVE  SubSeq(a \o b, Len(a) + 1, Len(a \o b)) = b
<1> DEFINE c == a \o b
           m == Len(a) + 1
           n == Len(c)
           d == SubSeq(c, m, n)
<1>1. /\ c \in Seq(S) /\ Len(c) = Len(a) + Len(b) /\ Len(a) \in Nat /\ Len(b) \in Nat
      /\ \A j \in 1..Len(a)+Len(b) : c[j] = IF j <= Len(a) THEN a[j] ELSE b[j - Len(a)]
  BY ConcatIndex
<1> HIDE DEF c
<1>2. m \in Int /\ n \in Int /\ \A i \in m..n : c[i] \in S
  BY <1>1
<1>3. /\ d \in Seq(S) /\ Len(d) = (IF m <= n THEN n - m + 1 ELSE 0)
      /\ \A i \in 1..n-m+1 : d[i] = c[m+i-1]
  <2> HIDE DEF m, n
  <2> QED
    BY <1>2, SubSeqProperties
<1>4. Len(d) = Len(b) /\ n - m + 1 = Len(b)
  BY <1>1, <1>3
<1>5. ASSUME NEW i \in 1..Len(b) PROVE d[i] = b[i]
  <2>1. m + i - 1 = Len(a) + i /\ Len(a) + i \in 1..Len(a)+Len(b) /\ ~(Len(a) + i <= Len(a)) /\ Len(a) + i - Len(a) = i
    BY <1>1
  <2>2. d[i] = c[m+i-1]
    BY <1>3, <1>4
  <2> HIDE DEF d, m
  <2> QED
    BY <1>1, <2>1, <2>2
<1> HIDE DEF d
<1>6. d = b
  BY <1>3, <1>4, <1>5, SeqEqual
<1> QED
  BY <1>6 DEF d, c

LEMMA ConcatEmpty == \A S : \A a \in Seq(S) : << >> \o a = a /\ a \o << >> = a
OBVIOUS

Two(c, a, b) == c = a \o b

\* In q, slot new has what s had in p at its end.
Halved(p, q, s, new) ==
  /\ q[s].next = new /\ q[new].next = p[s].next /\ Two(p[s].data, q[s].data, q[new].data)
  /\ \A t \in Slots : t # s /\ t # new => q[t].next = p[t].next /\ q[t].data = p[t].data

Prefixed(c, t, b) == c = <<t>> \o b

LEMMA SplitPath ==
  ASSUME NEW p \in Pools, NEW q \in Pools, NEW a \in SlotIndex, NEW s \in Slots, NEW new \in Slots,
         NEW pre \in Seq(Slots), NEW rest \in Seq(Slots), Path(p, a, Cut(pre, s, rest)),
         ~Contains(Cut(pre, s, rest), new), Halved(p, q, s, new),
         NEW tail \in Seq(Slots), Prefixed(tail, new, rest)
  PROVE  /\ Path(q, a, Cut(pre, s, tail)) /\ Path(q, new, tail)
         /\ Content(q, Cut(pre, s, tail)) = Content(p, Cut(pre, s, rest))
         /\ Content(q, pre) = Content(p, pre)
         /\ Content(q, tail) = q[new].data \o Content(p, rest) /\ Content(p, rest) \in Seq(Bytes)
         /\ \A t : Contains(Cut(pre, s, tail), t) <=> Contains(Cut(pre, s, rest), t) \/ t = new
         /\ \A t : Contains(tail, t) <=> Contains(rest, t) \/ t = new
<1> DEFINE first == <<new>>
           one == <<s>>
           front == pre \o one
<1>1. /\ Distinct(pre) /\ ~Contains(pre, s) /\ ~Contains(rest, s)
      /\ \A t : ~(Contains(pre, t) /\ Contains(rest, t))
      /\ \A t : Contains(Cut(pre, s, rest), t) <=> Contains(pre, t) \/ t = s \/ Contains(rest, t)
      /\ Along(p, a, pre) /\ After(p, a, pre) = s /\ Path(p, p[s].next, rest)
      /\ Content(p, Cut(pre, s, rest)) = Join(Content(p, pre), p[s].data, Content(p, rest))
  <2>1. Distinct(pre) /\ ~Contains(pre, s) /\ ~Contains(rest, s)
    BY CutFacts
  <2>2. \A t : ~(Contains(pre, t) /\ Contains(rest, t))
    BY CutFacts
  <2>3. \A t : Contains(Cut(pre, s, rest), t) <=> Contains(pre, t) \/ t = s \/ Contains(rest, t)
    BY CutFacts
  <2>4. Along(p, a, pre) /\ After(p, a, pre) = s /\ Path(p, p[s].next, rest)
    BY CutFacts
  <2>5. Content(p, Cut(pre, s, rest)) = Join(Content(p, pre), p[s].data, Content(p, rest))
    BY CutFacts
  <2> QED
    BY <2>1, <2>2, <2>3, <2>4, <2>5
<1>0. /\ q[s].next = new /\ q[new].next = p[s].next /\ Two(p[s].data, q[s].data, q[new].data)
      /\ \A t \in Slots : t # s /\ t # new => q[t].next = p[t].next /\ q[t].data = p[t].data
  BY DEF Halved
<1>2. ~Contains(pre, new) /\ ~Contains(rest, new) /\ new # s
  BY <1>1
<1>3. /\ first \in Seq(Slots) /\ first # << >> /\ Last(first) = new /\ Distinct(first) /\ Along(q, new, first)
      /\ \A t : Contains(first, t) <=> t = new
  BY Short DEF Distinct, Along
<1>4. /\ one \in Seq(Slots) /\ one # << >> /\ one[1] = s /\ Len(one) = 1 /\ Distinct(one)
      /\ \A t : Contains(one, t) <=> t = s
  BY Short DEF Distinct
<1>5. tail = first \o rest
  BY DEF Prefixed
<1>6. Content(q, first) = q[new].data /\ q[new].data \in Seq(Bytes) /\ q[s].data \in Seq(Bytes) /\ p[s].data \in Seq(Bytes)
  BY ContentOne DEF Pools
<1> HIDE DEF first, one
<1>7. Path(q, q[new].next, rest)
  BY <1>0, <1>1, <1>2, PathFrame
<1>8. Path(q, new, tail)
  BY <1>0, <1>2, <1>3, <1>5, <1>7, PathJoin
<1>9. \A t : Contains(tail, t) <=> Contains(rest, t) \/ t = new
  BY <1>3, <1>5, ContainsConcat
<1>10. front \in Seq(Slots) /\ front # << >> /\ Last(front) = s /\ \A t : Contains(front, t) <=> Contains(pre, t) \/ t = s
  <2>1. front \in Seq(Slots) /\ Len(front) = Len(pre) + Len(one) /\ Len(pre) \in Nat
    <3>1. one \in Seq(Slots) /\ Len(pre) \in Nat
      BY <1>4
    <3>2. front \in Seq(Slots) /\ Len(front) = Len(pre) + Len(one)
      BY <3>1, ConcatFacts
    <3> QED
      BY <3>1, <3>2
  <2>2. front[Len(pre) + 1] = s
    <3>1. 1 \in 1..Len(one)
      BY <1>4
    <3>2. front[Len(pre) + 1] = one[1]
      BY <1>4, <3>1, ConcatFacts
    <3> QED
      BY <1>4, <3>2
  <2>3. \A t : Contains(front, t) <=> Contains(pre, t) \/ t = s
    BY <1>4, ContainsConcat
  <2> HIDE DEF front
  <2> QED
    BY <1>4, <2>1, <2>2, <2>3 DEF Last
<1>11. Distinct(front) /\ Along(p, a, front)
  <2>1. Distinct(front)
    BY <1>1, <1>4, DistinctConcat
  <2>2. Along(p, s, one)
    BY <1>4 DEF Along
  <2> QED
    BY <1>1, <1>4, <2>1, <2>2, AlongConcat
<1>12. Cut(pre, s, tail) = front \o tail
  BY <1>4, ConcatSeq DEF Cut, one
<1> HIDE DEF front
<1>13. Path(q, a, front \o tail)
  BY <1>0, <1>1, <1>2, <1>8, <1>9, <1>10, <1>11, PathJoin
<1>14. Path(q, a, Cut(pre, s, tail))
  BY <1>12, <1>13
<1>15. Content(q, pre) = Content(p, pre) /\ Content(q, rest) = Content(p, rest)
  BY <1>0, <1>1, <1>2, ContentFrame
<1>16. Content(p, pre) \in Seq(Bytes) /\ Content(p, rest) \in Seq(Bytes)
  BY ContentType
<1>17. Content(q, tail) = q[new].data \o Content(p, rest)
  <2>1. Content(q, first \o rest) = Content(q, first) \o Content(q, rest)
    BY <1>3, ContentConcat
  <2> QED
    BY <1>5, <1>6, <1>15, <2>1
<1>18. /\ Content(q, Cut(pre, s, tail)) = Join(Content(q, pre), q[s].data, Content(q, tail))
       /\ \A t : Contains(Cut(pre, s, tail), t) <=> Contains(pre, t) \/ t = s \/ Contains(tail, t)
  <2>1. Content(q, Cut(pre, s, tail)) = Join(Content(q, pre), q[s].data, Content(q, tail))
    BY <1>14, CutFacts
  <2>2. \A t : Contains(Cut(pre, s, tail), t) <=> Contains(pre, t) \/ t = s \/ Contains(tail, t)
    BY <1>14, CutFacts
  <2> QED
    BY <2>1, <2>2
<1>19. Content(q, Cut(pre, s, tail)) = Content(p, Cut(pre, s, rest))
  <2> DEFINE x == Content(p, pre)
             y == q[s].data
             z == q[new].data
             w == Content(p, rest)
  <2>1. x \in Seq(Bytes) /\ y \in Seq(Bytes) /\ z \in Seq(Bytes) /\ w \in Seq(Bytes)
    BY <1>6, <1>16
  <2>2. /\ Content(q, Cut(pre, s, tail)) = Join(x, y, z \o w)
        /\ Content(p, Cut(pre, s, rest)) = Join(x, y \o z, w)
    BY <1>0, <1>1, <1>15, <1>17, <1>18 DEF Two
  <2> HIDE DEF x, y, z, w
  <2>3. y \o (z \o w) = (y \o z) \o w
    <3>1. y \in Seq(Bytes) /\ z \in Seq(Bytes) /\ w \in Seq(Bytes)
      BY <2>1
    <3>2. (y \o z) \o w = y \o (z \o w)
      BY <3>1, ConcatAssoc, Zenon
    <3> QED
      BY <3>2
  <2> QED
    BY <2>2, <2>3 DEF Join
<1>20. \A t : Contains(Cut(pre, s, tail), t) <=> Contains(Cut(pre, s, rest), t) \/ t = new
  BY <1>1, <1>9, <1>18
<1> QED
  BY <1>8, <1>9, <1>14, <1>15, <1>16, <1>17, <1>19, <1>20

----------------------------------------------------------------------------
(* fbuf_connect, first part: a slot is cut in two. *)

LEMMA Halves ==
  ASSUME NEW S, NEW d \in Seq(S), NEW n \in Nat, n <= Len(d)
  PROVE  /\ SubSeq(d, 1, n) \in Seq(S) /\ Len(SubSeq(d, 1, n)) = n
         /\ SubSeq(d, n + 1, Len(d)) \in Seq(S) /\ Len(SubSeq(d, n + 1, Len(d))) = Len(d) - n
         /\ Two(d, SubSeq(d, 1, n), SubSeq(d, n + 1, Len(d)))
<1> DEFINE l == Len(d)
           m == n + 1
           a == SubSeq(d, 1, n)
           b == SubSeq(d, m, l)
<1>1. l \in Nat /\ 1 \in Int /\ n \in Int /\ m \in Int /\ l \in Int /\ m = n + 1
  OBVIOUS
<1>2. (\A i \in 1..n : d[i] \in S) /\ (\A i \in m..l : d[i] \in S)
  BY <1>1
<1>3. /\ a \in Seq(S) /\ Len(a) = (IF 1 <= n THEN n - 1 + 1 ELSE 0)
      /\ \A i \in 1..n-1+1 : a[i] = d[1+i-1]
  BY <1>1, <1>2, SubSeqProperties
<1>4. /\ b \in Seq(S) /\ Len(b) = (IF m <= l THEN l - m + 1 ELSE 0)
      /\ \A i \in 1..l-m+1 : b[i] = d[m+i-1]
  <2> HIDE DEF m, l
  <2> QED
    BY <1>1, <1>2, SubSeqProperties
<1>5. n <= l /\ \A i \in 1..l : d[i] \in S
  BY <1>1
<1> HIDE DEF a, b, l, m
<1>6. Len(a) = n /\ Len(b) = l - n /\ l - m + 1 = l - n
  BY <1>1, <1>3, <1>4, <1>5
<1>7. \A i \in 1..n : a[i] = d[i]
  BY <1>3
<1>8. \A i \in 1..l-n : b[i] = d[n+i]
  <2> SUFFICES ASSUME NEW i \in 1..l-n PROVE b[i] = d[n+i]
    OBVIOUS
  <2>1. m + i - 1 = n + i
    BY <1>1
  <2> QED
    BY <1>4, <1>6, <2>1
<1>9. a \o b \in Seq(S) /\ Len(a \o b) = l
  <2>1. a \o b \in Seq(S) /\ Len(a \o b) = Len(a) + Len(b)
    BY <1>3, <1>4, ConcatIndex
  <2> QED
    BY <1>1, <1>6, <2>1
<1>10. ASSUME NEW i \in 1..l PROVE (a \o b)[i] = d[i]
  <2>1. (a \o b)[i] = IF i <= n THEN a[i] ELSE b[i-n]
    <3>1. i \in 1..Len(a)+Len(b)
      BY <1>1, <1>5, <1>6
    <3> QED
      BY <1>3, <1>4, <1>6, <3>1, ConcatIndex
  <2>2. CASE i <= n
    BY <1>7, <2>1, <2>2
  <2>3. CASE ~(i <= n)
    <3>1. i - n \in 1..l-n /\ n + (i - n) = i
      BY <1>1, <2>3
    <3> QED
      BY <1>8, <2>1, <2>3, <3>1
  <2> QED
    BY <2>2, <2>3
<1>11. d = a \o b
  <2>1. Len(d) = l
    BY DEF l
  <2> QED
    BY <1>9, <1>10, <2>1, SeqEqual
<1> QED
  BY <1>3, <1>4, <1>6, <1>11 DEF Two, a, b, l, m

LEMMA SplitPool ==
  ASSUME pool \in Pools, NEW s \in Slots, NEW new \in Slots, s # new,
         NEW n \in Nat, n # 0, n <= Len(pool[s].data)
  PROVE  LET q == Split(s, n, new)
         IN  /\ q \in Pools /\ q[s].next = new /\ q[s].refcnt = pool[s].refcnt
             /\ q[new].next = pool[s].next /\ q[new].refcnt = pool[s].refcnt
             /\ Two(pool[s].data, q[s].data, q[new].data)
             /\ Len(q[s].data) = n /\ Len(q[new].data) = Len(pool[s].data) - n
             /\ \A t \in Slots : t # s /\ t # new => q[t] = pool[t]
<1> DEFINE d == pool[s].data
           a == SubSeq(d, 1, n)
           b == SubSeq(d, n + 1, Len(d))
           q == Split(s, n, new)
           half == [refcnt |-> pool[s].refcnt, next |-> pool[s].next, data |-> b]
<1>1. /\ pool[s] \in [refcnt : Nat, next : SlotIndex, data : Seq(Bytes)]
      /\ d \in Seq(Bytes) /\ pool[s].refcnt \in Nat /\ pool[s].next \in SlotIndex
      /\ new \in SlotIndex
  BY DEF Pools, SlotIndex
<1>2. /\ a \in Seq(Bytes) /\ Len(a) = n /\ b \in Seq(Bytes) /\ Len(b) = Len(d) - n /\ Two(d, a, b)
  BY <1>1, Halves
<1>3. q = [pool EXCEPT ![new] = [refcnt |-> pool[s].refcnt, next |-> pool[s].next,
                                data |-> Behind(d, n)],
                       ![s].next = new, ![s].data = Before(@, n)]
  BY DEF Split
<1>7. Before(d, n) = a /\ Behind(d, n) = b
  BY DEF Before, Behind
<1>4. half \in [refcnt : Nat, next : SlotIndex, data : Seq(Bytes)]
      /\ half.refcnt = pool[s].refcnt /\ half.next = pool[s].next /\ half.data = b
  BY <1>1, <1>2
<1>8. q = [pool EXCEPT ![new] = half, ![s].next = new, ![s].data = Before(@, n)]
  BY <1>3, <1>7
<1> HIDE DEF half
<1>5. q = [pool EXCEPT ![new] = half, ![s].next = new, ![s].data = a]
  <2> HIDE DEF q, a, b
  <2> QED
    BY <1>1, <1>7, <1>8, SMTT(30) DEF Pools
<1> HIDE DEF q, a, b, d
<1>6. /\ q \in Pools /\ q[s].next = new /\ q[s].refcnt = pool[s].refcnt /\ q[s].data = a
      /\ q[new] = half
      /\ \A t \in Slots : t # s /\ t # new => q[t] = pool[t]
  BY <1>1, <1>2, <1>4, <1>5 DEF Pools
<1> QED
  BY <1>2, <1>4, <1>6 DEF q, d

HeadOf(c) == IF c = << >> THEN NILPTR ELSE Head(c)

\* Half of what s had is in new, in the pool q.
HalfIn(q, s, n, new) ==
  /\ q[s].next = new /\ q[new].next = pool[s].next
  /\ Two(pool[s].data, q[s].data, q[new].data)
  /\ Len(q[s].data) = n /\ Len(q[new].data) = Len(pool[s].data) - n
  /\ \A t \in Slots : t # s /\ t # new => q[t] = pool[t]

LEMMA SplitHalf ==
  ASSUME pool \in Pools, NEW s \in Slots, NEW new \in Slots, s # new,
         NEW n \in Nat, n # 0, n <= Len(pool[s].data)
  PROVE  HalfIn(Split(s, n, new), s, n, new)
BY SplitPool DEF HalfIn

LEMMA HeadOfPath ==
  ASSUME NEW p \in Pools, NEW s \in SlotIndex, NEW c, Path(p, s, c)
  PROVE  HeadOf(c) = s
<1>1. c \in Seq(Slots) /\ (s = NILPTR <=> c = << >>) /\ (c # << >> => c[1] = s)
  BY PathFacts
<1>2. c # << >> => Head(c) = c[1]
  BY <1>1
<1> QED
  BY <1>1, <1>2 DEF HeadOf

(* The pool q, the chains ch of the packets in it, and the part "tail" of  *)
(* x's chain that has what follows position pos; "free" slots are free.    *)
Parted(q, ch, tail, x, pos, free) ==
  /\ q \in Pools /\ \A t \in Slots : Len(q[t].data) <= SLOTSIZE
  /\ tail \in Seq(Slots) /\ Path(q, HeadOf(tail), tail)
  /\ \A t : Contains(tail, t) => Contains(ch[x], t)
  /\ SubSeq(text[x], pos + 1, Len(text[x])) = Content(q, tail)
  /\ \A g \in Handles : Path(q, fb[g].head, ch[g]) /\ text[g] = Content(q, ch[g])
  /\ \A t \in Slots : q[t].refcnt = Cardinality({g \in Handles : Contains(ch[g], t)})
  /\ free = Cardinality({t \in Slots : q[t].refcnt = 0})
  /\ \A g \in Handles : g # x /\ phase[g] \in {"building", "written"} =>
       /\ ch[g] = ChainOf(g) /\ \A t \in Slots : InChain(g, t) => q[t] = pool[t]
       /\ \A h \in Handles, t \in Slots : h # g /\ InChain(g, t) => ~Contains(ch[h], t)

\* What follows the bytes of a and b.
LEMMA Following ==
  ASSUME NEW a \in Seq(Bytes), NEW b \in Seq(Bytes), NEW c \in Seq(Bytes)
  PROVE  SubSeq(Join(a, b, c), Len(a) + Len(b) + 1, Len(Join(a, b, c))) = c
<1> DEFINE d == a \o b
<1>1. d \in Seq(Bytes) /\ Len(d) = Len(a) + Len(b) /\ Join(a, b, c) = d \o c
  BY ConcatSeq DEF Join
<1> HIDE DEF d
<1>2. SubSeq(d \o c, Len(d) + 1, Len(d \o c)) = c
  BY <1>1, TailOf
<1> QED
  BY <1>1, <1>2

LEMMA PartedNone ==
  ASSUME FbufInv, NEW x \in Handles, NEW pos, NEW w, SplitAt(ChainOf(x), pos, w), w.off = 0
  PROVE  Parted(pool, [g \in Handles |-> ChainOf(g)], Chain(pool[w.slot].next), x, pos, free_slots)
<1> DEFINE ch == [g \in Handles |-> ChainOf(g)]
           c == ChainOf(x)
           s == w.slot
           rest == Chain(pool[s].next)
<1>0. FbufTypes /\ Chains /\ Owned /\ References /\ FreeExact /\ Texts /\ pool \in Pools
  BY DEF FbufInv, FbufTypes
<1>1. s \in Slots /\ pool[s].next \in SlotIndex /\ pool[s].data \in Seq(Bytes)
  BY <1>0 DEF SplitAt, Pools
<1>2. PICK pre \in Seq(Slots) : /\ c = Cut(pre, s, rest)
                                /\ pos = Len(Content(pool, pre)) + Len(pool[s].data)
  BY DEF SplitAt
<1>3. Path(pool, fb[x].head, c) /\ fb[x].head \in SlotIndex /\ text[x] = Content(pool, c)
  BY <1>0 DEF Chains, FbufTypes, FbTypes, Texts
<1>4. Contains(c, s) /\ rest \in Seq(Slots)
  <2>1. SplitAt(c, pos, w)
    OBVIOUS
  <2>2. Path(pool, pool[s].next, rest) \/ rest \in Seq(Slots)
    BY <1>0, <1>1, ChainSeq DEF Chain
  <2>3. rest \in Seq(Slots)
    BY <2>2 DEF Path
  <2> HIDE DEF c, s, rest
  <2>4. <<s>> \in Seq(Slots) /\ <<s>> \o rest \in Seq(Slots) /\ Contains(<<s>>, s)
    BY <1>1, <2>3, Short, ConcatSeq
  <2>5. Contains(c, s)
    BY <1>2, <2>3, <2>4, ContainsConcat DEF Cut
  <2> QED
    BY <2>3, <2>5
<1> HIDE DEF c, s, rest
<1>5. /\ \A t : Contains(c, t) <=> Contains(pre, t) \/ t = s \/ Contains(rest, t)
      /\ Path(pool, pool[s].next, rest)
      /\ Content(pool, c) = Join(Content(pool, pre), pool[s].data, Content(pool, rest))
  <2>1. Path(pool, fb[x].head, Cut(pre, s, rest))
    BY <1>2, <1>3
  <2>2. \A t : Contains(Cut(pre, s, rest), t) <=> Contains(pre, t) \/ t = s \/ Contains(rest, t)
    BY <1>0, <1>1, <1>3, <1>4, <2>1, CutFacts
  <2>3. Path(pool, pool[s].next, rest)
    BY <1>0, <1>1, <1>3, <1>4, <2>1, CutFacts
  <2>4. Content(pool, Cut(pre, s, rest)) = Join(Content(pool, pre), pool[s].data, Content(pool, rest))
    BY <1>0, <1>1, <1>3, <1>4, <2>1, CutFacts
  <2> QED
    BY <1>2, <2>2, <2>3, <2>4
<1>6. HeadOf(rest) = pool[s].next
  BY <1>0, <1>1, <1>5, HeadOfPath
<1>7. SubSeq(text[x], pos + 1, Len(text[x])) = Content(pool, rest)
  <2>1. Content(pool, pre) \in Seq(Bytes) /\ Content(pool, rest) \in Seq(Bytes)
    BY <1>0, <1>4, ContentType
  <2> DEFINE d == pool[s].data
             y == Content(pool, pre)
             z == Content(pool, rest)
  <2>2. y \in Seq(Bytes) /\ z \in Seq(Bytes) /\ d \in Seq(Bytes) /\ pos = Len(y) + Len(d) /\ text[x] = Join(y, d, z)
    BY <1>1, <1>2, <1>3, <1>5, <2>1
  <2> HIDE DEF d, y, z
  <2>3. SubSeq(Join(y, d, z), Len(y) + Len(d) + 1, Len(Join(y, d, z))) = z
    BY <2>2, Following
  <2> QED
    BY <2>2, <2>3 DEF z
<1>8. \A g \in Handles : ch[g] = ChainOf(g)
  OBVIOUS
<1> HIDE DEF ch
<1>9. \A t \in Slots : pool[t].refcnt = Cardinality({g \in Handles : Contains(ch[g], t)})
  <2> SUFFICES ASSUME NEW t \in Slots
               PROVE  pool[t].refcnt = Cardinality({g \in Handles : Contains(ch[g], t)})
    OBVIOUS
  <2>1. Users(t) = {g \in Handles : Contains(ch[g], t)}
    BY <1>8 DEF Users, InChain
  <2> QED
    BY <1>0, <2>1 DEF References
<1>10. free_slots = Cardinality({t \in Slots : pool[t].refcnt = 0})
  BY <1>0 DEF FreeExact, FreeSet
<1>11. \A g \in Handles : Path(pool, fb[g].head, ch[g]) /\ text[g] = Content(pool, ch[g])
  BY <1>0, <1>8 DEF Chains, Texts
<1>12. \A g \in Handles : g # x /\ phase[g] \in {"building", "written"} =>
         /\ ch[g] = ChainOf(g) /\ \A t \in Slots : InChain(g, t) => pool[t] = pool[t]
         /\ \A h \in Handles, t \in Slots : h # g /\ InChain(g, t) => ~Contains(ch[h], t)
  BY <1>0, <1>8 DEF Owned, InChain
<1>13. \A t : Contains(rest, t) => Contains(ch[x], t)
  BY <1>5, <1>8 DEF c
<1> QED
  BY <1>0, <1>4, <1>5, <1>6, <1>7, <1>9, <1>10, <1>11, <1>12, <1>13 DEF Parted, FbufTypes, ch, rest, s

LEMMA PartedSlot ==
  ASSUME FbufInv, NEW x \in Handles, NEW pos, NEW w, SplitAt(ChainOf(x), pos, w), w.off # 0,
         w.off <= Len(pool[w.slot].data), FirstFree # NILPTR
  PROVE  \E ch : Parted(Split(w.slot, w.off, FirstFree), ch,
                        <<FirstFree>> \o Chain(pool[w.slot].next), x, pos, free_slots - 1)
<1> DEFINE s == w.slot
           n == w.off
           new == FirstFree
           q == Split(s, n, new)
           rest == Chain(pool[s].next)
           tail == <<new>> \o rest
           before(g) == CHOOSE pre \in Seq(Slots) : ChainOf(g) = Cut(pre, s, rest)
           ch == [g \in Handles |-> IF InChain(g, s) THEN Cut(before(g), s, tail) ELSE ChainOf(g)]
<1>0. /\ FbufTypes /\ Chains /\ Owned /\ References /\ FreeExact /\ Texts /\ pool \in Pools
      /\ \A g \in Handles : /\ Path(pool, fb[g].head, ChainOf(g)) /\ fb[g].head \in SlotIndex
                            /\ text[g] = Content(pool, ChainOf(g)) /\ ChainOf(g) \in Seq(Slots)
  BY DEF FbufInv, FbufTypes, FbTypes, Chains, Texts, Path
<1>1. /\ s \in Slots /\ n \in Nat /\ n # 0 /\ n <= Len(pool[s].data) /\ pool[s].next \in SlotIndex
      /\ pool[s].data \in Seq(Bytes)
  BY <1>0 DEF SplitAt, Pools
<1>2. PICK pre \in Seq(Slots) : ChainOf(x) = Cut(pre, s, rest) /\ pos = Len(Content(pool, pre)) + n
  BY DEF SplitAt
<1>3. new \in Slots /\ new \in SlotIndex /\ pool[new].refcnt = 0 /\ \A g \in Handles : ~InChain(g, new)
  BY FirstFreeFacts, SlotFacts DEF SlotIndex
<1>4. rest \in Seq(Slots) /\ InChain(x, s)
  <2>1. rest \in Seq(Slots)
    BY <1>0, <1>1, ChainSeq DEF Chain
  <2> HIDE DEF s, rest
  <2>2. <<s>> \in Seq(Slots) /\ <<s>> \o rest \in Seq(Slots) /\ Contains(<<s>>, s)
    BY <1>1, <2>1, Short, ConcatSeq
  <2>3. Contains(Cut(pre, s, rest), s)
    BY <2>1, <2>2, ContainsConcat DEF Cut
  <2>4. InChain(x, s)
    BY <1>2, <2>3 DEF InChain
  <2> QED
    BY <2>1, <2>4
<1>5. s # new
  BY <1>3, <1>4
<1>6. /\ q \in Pools /\ q[s].next = new /\ q[s].refcnt = pool[s].refcnt
      /\ q[new].next = pool[s].next /\ q[new].refcnt = pool[s].refcnt
      /\ Two(pool[s].data, q[s].data, q[new].data)
      /\ Len(q[s].data) = n /\ Len(q[new].data) = Len(pool[s].data) - n
      /\ \A t \in Slots : t # s /\ t # new => q[t] = pool[t]
  <2>1. pool \in Pools
    BY <1>0
  <2> HIDE DEF s, n, new
  <2> QED
    BY <1>1, <1>3, <1>5, <2>1, SplitPool
<1>7. tail \in Seq(Slots) /\ Prefixed(tail, new, rest)
  <2>1. <<new>> \in Seq(Slots)
    BY <1>3
  <2>2. tail \in Seq(Slots)
    BY <1>4, <2>1, ConcatFacts
  <2> QED
    BY <2>2 DEF Prefixed
<1>8. ASSUME NEW g \in Handles, InChain(g, s)
      PROVE  before(g) \in Seq(Slots) /\ ChainOf(g) = Cut(before(g), s, rest)
  <2>1. \E e \in Seq(Slots) : ChainOf(g) = Cut(e, s, rest)
    BY <1>0, <1>8, CutAt DEF InChain, Chain
  <2> QED
    BY <2>1
<1> HIDE DEF before
<1>9. \A g \in Handles : ch[g] = IF InChain(g, s) THEN Cut(before(g), s, tail) ELSE ChainOf(g)
  OBVIOUS
<1> HIDE DEF s, n, new, q, rest, tail, ch
<1>10. ASSUME NEW g \in Handles, NEW e \in Seq(Slots), ChainOf(g) = Cut(e, s, rest)
       PROVE  /\ Path(q, fb[g].head, Cut(e, s, tail)) /\ Path(q, new, tail)
              /\ Content(q, Cut(e, s, tail)) = text[g] /\ Content(q, e) = Content(pool, e)
              /\ \A t : Contains(Cut(e, s, tail), t) <=> InChain(g, t) \/ t = new
              /\ \A t : Contains(tail, t) <=> Contains(rest, t) \/ t = new
  <2> DEFINE a == fb[g].head
  <2>1. Path(pool, a, Cut(e, s, rest)) /\ a \in SlotIndex /\ ~Contains(Cut(e, s, rest), new)
    BY <1>0, <1>3, <1>10 DEF InChain
  <2>2. Halved(pool, q, s, new)
    BY <1>6 DEF Halved
  <2> HIDE DEF a
  <2>3. /\ Path(q, a, Cut(e, s, tail)) /\ Path(q, new, tail)
        /\ Content(q, Cut(e, s, tail)) = Content(pool, Cut(e, s, rest))
        /\ Content(q, e) = Content(pool, e)
        /\ \A t : Contains(Cut(e, s, tail), t) <=> Contains(Cut(e, s, rest), t) \/ t = new
        /\ \A t : Contains(tail, t) <=> Contains(rest, t) \/ t = new
    <3>1. /\ pool \in Pools /\ q \in Pools /\ s \in Slots /\ new \in Slots
          /\ rest \in Seq(Slots) /\ tail \in Seq(Slots) /\ Prefixed(tail, new, rest) /\ e \in Seq(Slots)
      BY <1>0, <1>1, <1>3, <1>4, <1>6, <1>7
    <3>2. Path(q, a, Cut(e, s, tail)) /\ Path(q, new, tail)
      BY <2>1, <2>2, <3>1, SplitPath
    <3>3. Content(q, Cut(e, s, tail)) = Content(pool, Cut(e, s, rest))
      BY <2>1, <2>2, <3>1, SplitPath
    <3>4. Content(q, e) = Content(pool, e)
      BY <2>1, <2>2, <3>1, SplitPath
    <3>5. \A t : Contains(Cut(e, s, tail), t) <=> Contains(Cut(e, s, rest), t) \/ t = new
      BY <2>1, <2>2, <3>1, SplitPath
    <3>6. \A t : Contains(tail, t) <=> Contains(rest, t) \/ t = new
      BY <2>1, <2>2, <3>1, SplitPath
    <3> QED
      BY <3>2, <3>3, <3>4, <3>5, <3>6
  <2>4. text[g] = Content(pool, Cut(e, s, rest)) /\ \A t : InChain(g, t) <=> Contains(Cut(e, s, rest), t)
    BY <1>0, <1>10 DEF InChain
  <2> QED
    BY <2>3, <2>4 DEF a
<1>11. ASSUME NEW g \in Handles, ~InChain(g, s)
       PROVE  Path(q, fb[g].head, ChainOf(g)) /\ text[g] = Content(q, ChainOf(g))
  <2>1. /\ \A t \in Slots : Contains(ChainOf(g), t) => q[t].next = pool[t].next
        /\ \A t \in Slots : Contains(ChainOf(g), t) => q[t].data = pool[t].data
    BY <1>3, <1>6, <1>11 DEF InChain
  <2>2. Path(q, fb[g].head, ChainOf(g))
    BY <1>0, <2>1, PathFrame
  <2>3. Content(q, ChainOf(g)) = Content(pool, ChainOf(g))
    BY <1>0, <1>6, <2>1, ContentFrame
  <2> QED
    BY <1>0, <2>2, <2>3
<1>12. ASSUME NEW g \in Handles
       PROVE  /\ Path(q, fb[g].head, ch[g]) /\ text[g] = Content(q, ch[g])
              /\ \A t : Contains(ch[g], t) <=> InChain(g, t) \/ (t = new /\ InChain(g, s))
  <2>1. CASE InChain(g, s)
    BY <1>8, <1>9, <1>10, <2>1
  <2>2. CASE ~InChain(g, s)
    BY <1>9, <1>11, <2>2 DEF InChain
  <2> QED
    BY <2>1, <2>2
<1>13. ASSUME NEW t \in Slots
       PROVE  q[t].refcnt = Cardinality({g \in Handles : Contains(ch[g], t)})
  <2>1. \A v \in Slots : pool[v].refcnt = Cardinality(Users(v))
    BY <1>0 DEF References
  <2>2. CASE t = new
    <3>1. {g \in Handles : Contains(ch[g], t)} = Users(s)
      BY <1>3, <1>12, <2>2 DEF Users
    <3> QED
      BY <1>1, <1>6, <2>1, <2>2, <3>1
  <2>3. CASE t # new
    <3>1. {g \in Handles : Contains(ch[g], t)} = Users(t)
      BY <1>12, <2>3 DEF Users
    <3>2. q[t].refcnt = pool[t].refcnt
      BY <1>6, <2>3
    <3> QED
      BY <2>1, <3>1, <3>2
  <2> QED
    BY <2>2, <2>3
<1>14. free_slots - 1 = Cardinality({t \in Slots : q[t].refcnt = 0})
  <2>1. pool[s].refcnt # 0
    BY <1>1, <1>4, SlotFacts
  <2>2. \A t \in Slots : q[t].refcnt = 0 <=> pool[t].refcnt = 0 /\ t # new
    BY <1>3, <1>5, <1>6, <2>1
  <2>3. {t \in Slots : q[t].refcnt = 0} = FreeSet \ {new} /\ new \in FreeSet /\ FreeSet \in SUBSET Slots
    BY <1>3, <2>2 DEF FreeSet
  <2>4. Cardinality(FreeSet \ {new}) = Cardinality(FreeSet) - 1
    BY <1>3, <2>3, SlotSets
  <2> QED
    BY <1>0, <2>3, <2>4 DEF FreeExact
<1>15. Path(q, HeadOf(tail), tail) /\ \A t : Contains(tail, t) => Contains(ch[x], t)
  <2>1. /\ Path(q, new, tail) /\ \A t : Contains(tail, t) <=> Contains(rest, t) \/ t = new
    BY <1>2, <1>10
  <2>2. HeadOf(tail) = new
    BY <1>3, <1>6, <2>1, HeadOfPath
  <2>3. \A t : Contains(Cut(pre, s, rest), t) <=> Contains(pre, t) \/ t = s \/ Contains(rest, t)
    <3>1. Path(pool, fb[x].head, Cut(pre, s, rest)) /\ fb[x].head \in SlotIndex
      BY <1>0, <1>2
    <3> QED
      BY <1>0, <1>1, <1>4, <3>1, CutFacts
  <2>4. \A t : Contains(rest, t) => InChain(x, t)
    BY <1>2, <2>3 DEF InChain
  <2> QED
    BY <1>4, <1>12, <2>1, <2>2, <2>4
<1>16. SubSeq(text[x], pos + 1, Len(text[x])) = Content(q, tail)
  <2> DEFINE y == Content(q, pre)
             d == q[s].data
             z == Content(q, tail)
  <2>1. /\ Path(q, fb[x].head, Cut(pre, s, tail)) /\ Content(q, Cut(pre, s, tail)) = text[x]
        /\ y = Content(pool, pre)
    BY <1>2, <1>10
  <2>2. Content(q, Cut(pre, s, tail)) = Join(y, d, z)
    BY <1>0, <1>1, <1>6, <1>7, <2>1, CutFacts
  <2>3. y \in Seq(Bytes) /\ z \in Seq(Bytes) /\ d \in Seq(Bytes)
    <3>1. y \in Seq(Bytes) /\ z \in Seq(Bytes)
      BY <1>6, <1>7, ContentType
    <3> QED
      BY <1>1, <1>6, <3>1 DEF Pools
  <2>4. pos = Len(y) + Len(d) /\ text[x] = Join(y, d, z)
    BY <1>2, <1>6, <2>1, <2>2
  <2> HIDE DEF d, y, z
  <2>5. SubSeq(Join(y, d, z), Len(y) + Len(d) + 1, Len(Join(y, d, z))) = z
    BY <2>3, Following
  <2> QED
    BY <2>4, <2>5 DEF z
<1>17. ASSUME NEW g \in Handles, g # x, phase[g] \in {"building", "written"}
       PROVE  /\ ch[g] = ChainOf(g) /\ \A t \in Slots : InChain(g, t) => q[t] = pool[t]
              /\ \A h \in Handles, t \in Slots : h # g /\ InChain(g, t) => ~Contains(ch[h], t)
  <2>1. ~InChain(g, s)
    BY <1>0, <1>1, <1>4, <1>17 DEF Owned
  <2>2. \A h \in Handles, t \in Slots : h # g /\ InChain(g, t) => ~InChain(h, t)
    BY <1>0, <1>17 DEF Owned
  <2> QED
    BY <1>3, <1>6, <1>9, <1>12, <2>1, <2>2
<1>18. ASSUME NEW t \in Slots PROVE Len(q[t].data) <= SLOTSIZE
  <2>1. \A v \in Slots : Len(pool[v].data) <= SLOTSIZE /\ Len(pool[v].data) \in Nat
    BY <1>0 DEF FbufTypes, Pools
  <2>2. SLOTSIZE \in Nat
    BY FbufAssumption
  <2>3. CASE t # s /\ t # new
    BY <1>6, <2>1, <2>3
  <2>4. CASE t = s
    BY <1>1, <1>6, <2>1, <2>2, <2>4
  <2>5. CASE t = new
    BY <1>1, <1>6, <2>1, <2>2, <2>5
  <2> QED
    BY <2>3, <2>4, <2>5
<1>19. Parted(q, ch, tail, x, pos, free_slots - 1)
  BY <1>6, <1>7, <1>12, <1>13, <1>14, <1>15, <1>16, <1>17, <1>18 DEF Parted
<1> QED
  BY <1>19 DEF q, tail, rest, s, n, new

----------------------------------------------------------------------------
(* fbuf_connect, second part: the tail gets a second header. *)

LEMMA FbTypesFrom ==
  ASSUME fb' = [g \in Handles |-> fb'[g]], \A g \in Handles : Whole(fb'[g]),
         \A g \in Handles : /\ fb'[g].head \in SlotIndex /\ fb'[g].wslot \in SlotIndex
                            /\ fb'[g].length \in Nat
  PROVE  FbTypes'
<1> DEFINE e(g) == [head |-> fb'[g].head, wslot |-> fb'[g].wslot,
                    rslot |-> fb'[g].rslot, rpos |-> fb'[g].rpos, length |-> fb'[g].length]
<1>1. \A g \in Handles : fb'[g] = e(g)
  BY DEF Whole, Fb
<1> HIDE DEF e
<1>2. fb' = [g \in Handles |-> e(g)]
  BY <1>1
<1> QED
  BY <1>2 DEF FbTypes, e

\* The records of the two packets after fbuf_connect.
LEMMA LinkHandles ==
  ASSUME FbufInv, NEW b \in Handles, NEW x \in Handles, b # x, NEW pos \in Nat, pos <= fb[x].length,
         fb' = [fb EXCEPT ![b].wslot = NILPTR, ![x].wslot = NILPTR,
                          ![b].length = @ + fb[x].length - pos]
  PROVE  /\ FbTypes' /\ \A g \in Handles : g \notin {b, x} => fb'[g] = fb[g]
         /\ \A g \in Handles : /\ fb'[g].head = fb[g].head
                               /\ fb'[g].rslot = fb[g].rslot /\ fb'[g].rpos = fb[g].rpos
         /\ fb'[b].length = fb[b].length + fb[x].length - pos /\ fb'[x].length = fb[x].length
<1> DEFINE n == fb[b].length + fb[x].length - pos
           v == [fb[b] EXCEPT !.wslot = NILPTR]
           u == [v EXCEPT !.length = n]
           y == [fb[x] EXCEPT !.wslot = NILPTR]
<1>1. FbTypes /\ n \in Nat /\ NILPTR \in SlotIndex
  <2>1. FbTypes /\ NILPTR \in SlotIndex
    BY DEF FbufInv, FbufTypes, SlotIndex
  <2>2. fb[b].length \in Nat /\ fb[x].length \in Nat
    BY <2>1 DEF FbTypes
  <2> QED
    BY <2>1, <2>2
<1>2. fb = [g \in Handles |-> fb[g]]
  BY <1>1 DEF FbTypes
<1>3. fb' = [g \in Handles |-> IF g = b THEN u ELSE IF g = x THEN y ELSE fb[g]]
  <2> DEFINE f1 == [fb EXCEPT ![b].wslot = NILPTR]
             f2 == [f1 EXCEPT ![x].wslot = NILPTR]
             f3 == [f2 EXCEPT ![b].length = n]
  <2>1. v.length = fb[b].length
    BY FbEta, <1>1 DEF Fb
  <2>2. f1 = [g \in Handles |-> IF g = b THEN v ELSE fb[g]]
    BY <1>2
  <2>3. f2 = [g \in Handles |-> IF g = b THEN v ELSE IF g = x THEN y ELSE fb[g]]
    <3> HIDE DEF f1, v
    <3> QED
      BY <2>2
  <2>4. f3 = [g \in Handles |-> IF g = b THEN u ELSE IF g = x THEN y ELSE fb[g]]
    <3> HIDE DEF f2, v, y, n
    <3> QED
      BY <2>3
  <2>5. fb' = [f2 EXCEPT ![b].length = @ + fb[x].length - pos]
    OBVIOUS
  <2>6. f2[b].length = fb[b].length
    <3> HIDE DEF f2, v, y
    <3> QED
      BY <2>1, <2>3
  <2>7. fb' = f3
    <3> HIDE DEF f2
    <3> QED
      BY <2>5, <2>6
  <2> QED
    BY <2>4, <2>7
<1> DEFINE bh == fb[b].head
           br == fb[b].rslot
           bp == fb[b].rpos
           bw == fb[b].wslot
           bl == fb[b].length
           xh == fb[x].head
           xr == fb[x].rslot
           xp == fb[x].rpos
           xw == fb[x].wslot
           xl == fb[x].length
<1>4. fb[b] = Fb(bh, bw, br, bp, bl) /\ fb[x] = Fb(xh, xw, xr, xp, xl)
  BY <1>1, FbEta
<1>5. bh \in SlotIndex /\ xh \in SlotIndex /\ xl \in Nat
  BY <1>1 DEF FbTypes
<1> HIDE DEF n
<1>6. v = Fb(bh, NILPTR, br, bp, bl)
  <2> HIDE DEF bh, bw, br, bp, bl
  <2> QED
    BY <1>4, SMTT(30) DEF Fb
<1> HIDE DEF v
<1>7. u = Fb(bh, NILPTR, br, bp, n)
  <2> HIDE DEF bh, bw, br, bp, bl
  <2> QED
    BY <1>6, SMTT(30) DEF Fb
<1>8. y = Fb(xh, NILPTR, xr, xp, xl)
  <2> HIDE DEF xh, xw, xr, xp, xl
  <2> QED
    BY <1>4, SMTT(30) DEF Fb
<1> HIDE DEF u, y
<1>9. Whole(u) /\ u.head = bh /\ u.wslot = NILPTR /\ u.length = n
  <2>1. Whole(u)
    BY <1>7, FbWhole
  <2> QED
    BY <1>7, <2>1 DEF Fb
<1>10. Whole(y) /\ y.head = xh /\ y.wslot = NILPTR /\ y.length = xl
  <2>1. Whole(y)
    BY <1>8, FbWhole
  <2> QED
    BY <1>8, <2>1 DEF Fb
<1>11. \A g \in Handles : fb'[g] = IF g = b THEN u ELSE IF g = x THEN y ELSE fb[g]
  BY <1>3
<1>13. u.rslot = br /\ u.rpos = bp /\ y.rslot = xr /\ y.rpos = xp
  BY <1>7, <1>8 DEF Fb
<1>12. FbTypes'
  <2>1. fb' = [g \in Handles |-> fb'[g]]
    BY <1>3
  <2>2. \A g \in Handles : Whole(fb'[g])
    <3>1. \A g \in Handles : Whole(fb[g])
      BY <1>1, FbEta DEF Whole
    <3> QED
      BY <1>9, <1>10, <1>11, <3>1
  <2>3. \A g \in Handles : /\ fb'[g].head \in SlotIndex /\ fb'[g].wslot \in SlotIndex
                           /\ fb'[g].length \in Nat
    BY <1>1, <1>5, <1>9, <1>10, <1>11 DEF FbTypes
  <2> QED
    BY <2>1, <2>2, <2>3, FbTypesFrom
<1> QED
  BY <1>9, <1>10, <1>11, <1>12, <1>13 DEF bh, xh, n, xl

\* In p, slot blast is followed by those of tail.
Linked(p, q, blast, tail, head) ==
  p = [t \in Slots |-> IF t = blast THEN [q[t] EXCEPT !.next = head]
                       ELSE IF Contains(tail, t) THEN [q[t] EXCEPT !.refcnt = @ + 1]
                       ELSE q[t]]

LEMMA LinkPool ==
  ASSUME NEW q \in Pools, NEW blast \in Slots, NEW tail \in Seq(Slots), ~Contains(tail, blast),
         NEW head \in SlotIndex, Linked(pool', q, blast, tail, head)
  PROVE  /\ pool' \in Pools
         /\ \A t \in Slots :
              /\ pool'[t].data = q[t].data
              /\ pool'[t].next = IF t = blast THEN head ELSE q[t].next
              /\ pool'[t].refcnt = IF Contains(tail, t) THEN q[t].refcnt + 1 ELSE q[t].refcnt
<1> DEFINE R == [refcnt : Nat, next : SlotIndex, data : Seq(Bytes)]
           more(t) == [q[t] EXCEPT !.refcnt = @ + 1]
           link(t) == [q[t] EXCEPT !.next = head]
<1>1. \A t \in Slots : q[t] \in R
  BY DEF Pools
<1>2. \A t \in Slots : /\ more(t) \in R /\ more(t).refcnt = q[t].refcnt + 1
                       /\ more(t).next = q[t].next /\ more(t).data = q[t].data
  BY <1>1, Counted
<1>3. \A t \in Slots : /\ link(t) \in R /\ link(t).refcnt = q[t].refcnt
                       /\ link(t).next = head /\ link(t).data = q[t].data
  BY <1>1
<1>4. pool' = [t \in Slots |-> IF t = blast THEN link(t)
                               ELSE IF Contains(tail, t) THEN more(t) ELSE q[t]]
  BY DEF Linked
<1> HIDE DEF more, link, R
<1>5. pool' \in [Slots -> R]
  BY <1>1, <1>2, <1>3, <1>4
<1>6. \A t \in Slots : pool'[t] = IF t = blast THEN link(t)
                                  ELSE IF Contains(tail, t) THEN more(t) ELSE q[t]
  BY <1>4
<1> QED
  BY <1>2, <1>3, <1>5, <1>6 DEF Pools, R

LEMMA LinkStep ==
  ASSUME FbufInv, NEW b \in Handles, NEW x \in Handles, b # x, phase[b] = "building",
         phase[x] # "free", fb[b].length > 0, NEW pos \in Nat, pos <= fb[x].length,
         NEW q, NEW ch, NEW tail, Parted(q, ch, tail, x, pos, free_slots'),
         pool' = [t \in Slots |->
           IF t = Last(ChainOf(b)) THEN [q[t] EXCEPT !.next = HeadOf(tail)]
           ELSE IF Contains(tail, t) THEN [q[t] EXCEPT !.refcnt = @ + 1]
           ELSE q[t]],
         fb' = [fb EXCEPT ![b].wslot = NILPTR, ![x].wslot = NILPTR,
                          ![b].length = @ + fb[x].length - pos],
         phase' = [phase EXCEPT ![b] = "shared", ![x] = "shared"],
         text' = [text EXCEPT ![b] = @ \o SubSeq(text[x], pos + 1, Len(text[x]))]
  PROVE  /\ FbufInv' /\ Last(ChainOf(b)) \in Slots /\ InChain(b, Last(ChainOf(b)))
         /\ HeadOf(tail) \in SlotIndex /\ ~Contains(tail, Last(ChainOf(b)))
         /\ \A t : Contains(ChainIn(pool', fb'[b].head), t) => InChain(b, t) \/ Contains(ch[x], t)
<1> DEFINE c == ChainOf(b)
           blast == Last(c)
           d == c \o tail
           new == [g \in Handles |-> IF g = b THEN d ELSE ch[g]]
           more == Content(q, tail)
<1>0. /\ FbufTypes /\ Chains /\ FreeHandles /\ Owned /\ Filled /\ Writable /\ Texts /\ pool \in Pools
      /\ \A g \in Handles : text[g] \in Seq(Bytes)
  BY DEF FbufInv, FbufTypes
<1>1. /\ q \in Pools /\ \A t \in Slots : Len(q[t].data) <= SLOTSIZE
      /\ tail \in Seq(Slots) /\ Path(q, HeadOf(tail), tail)
      /\ \A t : Contains(tail, t) => Contains(ch[x], t)
      /\ SubSeq(text[x], pos + 1, Len(text[x])) = more
  BY DEF Parted
<1>2. /\ \A g \in Handles : Path(q, fb[g].head, ch[g]) /\ text[g] = Content(q, ch[g])
      /\ \A t \in Slots : q[t].refcnt = Cardinality({g \in Handles : Contains(ch[g], t)})
      /\ free_slots' = Cardinality({t \in Slots : q[t].refcnt = 0})
  BY DEF Parted
<1>3. \A g \in Handles : g # x /\ phase[g] \in {"building", "written"} =>
        /\ ch[g] = ChainOf(g) /\ \A t \in Slots : InChain(g, t) => q[t] = pool[t]
        /\ \A h \in Handles, t \in Slots : h # g /\ InChain(g, t) => ~Contains(ch[h], t)
  BY DEF Parted
<1>4. /\ c # << >> /\ c \in Seq(Slots) /\ Distinct(c) /\ Along(q, fb[b].head, c)
      /\ blast \in Slots /\ InChain(b, blast) /\ ch[b] = c /\ Path(q, fb[b].head, c)
  <2>1. Content(pool, c) # << >>
    <3>1. fb[b].length = Len(text[b]) /\ text[b] = Content(pool, c)
      BY <1>0 DEF Texts
    <3>2. Len(<< >>) = 0 /\ Len(text[b]) > 0
      BY <3>1
    <3> QED
      BY <3>1, <3>2
  <2>2. c # << >>
    BY <1>0, <2>1, ContentNone
  <2>3. Path(pool, fb[b].head, c) /\ fb[b].head \in SlotIndex
    BY <1>0 DEF Chains, FbufTypes, FbTypes
  <2>4. blast \in Slots /\ InChain(b, blast)
    BY <1>0, <2>2, <2>3, PathFacts DEF InChain
  <2>5. ch[b] = c
    BY <1>3
  <2>6. Path(q, fb[b].head, c)
    BY <1>2, <2>5
  <2> HIDE DEF c, blast
  <2> QED
    BY <2>2, <2>4, <2>5, <2>6 DEF Path
<1>5. \A g \in Handles, t \in Slots : g # b /\ Contains(c, t) => ~Contains(ch[g], t)
  BY <1>3 DEF InChain
<1>6. \A t \in Slots : Contains(c, t) => ~Contains(tail, t)
  BY <1>1, <1>5
<1>7. Contains(c, blast) /\ ~Contains(tail, blast)
  BY <1>4, <1>6 DEF InChain
<1>8. HeadOf(tail) \in SlotIndex
  <2>1. tail # << >> => Head(tail) \in Slots
    BY <1>1
  <2> QED
    BY <2>1 DEF HeadOf, SlotIndex
<1> HIDE DEF c, blast, more
<1>9. /\ pool' \in Pools
      /\ \A t \in Slots :
           /\ pool'[t].data = q[t].data
           /\ pool'[t].next = IF t = blast THEN HeadOf(tail) ELSE q[t].next
           /\ pool'[t].refcnt = IF Contains(tail, t) THEN q[t].refcnt + 1 ELSE q[t].refcnt
  <2>1. pool' = [t \in Slots |-> IF t = blast THEN [q[t] EXCEPT !.next = HeadOf(tail)]
                                 ELSE IF Contains(tail, t) THEN [q[t] EXCEPT !.refcnt = @ + 1]
                                 ELSE q[t]]
    BY DEF blast, c
  <2> DEFINE hd == HeadOf(tail)
  <2>2. /\ q \in Pools /\ blast \in Slots /\ tail \in Seq(Slots) /\ ~Contains(tail, blast)
        /\ hd \in SlotIndex
    BY <1>1, <1>4, <1>7, <1>8
  <2>3. Linked(pool', q, blast, tail, hd)
    BY <2>1 DEF Linked
  <2> HIDE DEF hd
  <2>4. /\ pool' \in Pools
        /\ \A t \in Slots :
             /\ pool'[t].data = q[t].data
             /\ pool'[t].next = IF t = blast THEN hd ELSE q[t].next
             /\ pool'[t].refcnt = IF Contains(tail, t) THEN q[t].refcnt + 1 ELSE q[t].refcnt
    BY <2>2, <2>3, LinkPool
  <2> QED
    BY <2>4 DEF hd
<1>10. d \in Seq(Slots) /\ \A t : Contains(d, t) <=> Contains(c, t) \/ Contains(tail, t)
  BY <1>1, <1>4, ConcatFacts, ContainsConcat
<1>11. /\ FbTypes' /\ \A g \in Handles : g \notin {b, x} => fb'[g] = fb[g]
       /\ \A g \in Handles : fb'[g].head = fb[g].head
       /\ fb'[b].length = fb[b].length + fb[x].length - pos /\ fb'[x].length = fb[x].length
  BY LinkHandles
<1>12. more \in Seq(Bytes)
  BY <1>1, ContentType DEF more
<1>13. /\ \A g \in Handles : /\ text'[g] = IF g = b THEN text[b] \o more ELSE text[g]
                             /\ phase'[g] = IF g \in {b, x} THEN "shared" ELSE phase[g]
       /\ text' \in [Handles -> Seq(Bytes)]
       /\ phase' \in [Handles -> {"free", "building", "written", "shared"}]
  <2> DEFINE z == text[b] \o more
  <2>1. z \in Seq(Bytes)
    BY <1>0, <1>12, ConcatSeq
  <2>2. text' = [text EXCEPT ![b] = z]
    BY <1>1
  <2> HIDE DEF z
  <2>3. text \in [Handles -> Seq(Bytes)] /\ phase \in [Handles -> {"free", "building", "written", "shared"}]
    BY <1>0 DEF FbufTypes
  <2>4. /\ \A g \in Handles : text'[g] = IF g = b THEN z ELSE text[g]
        /\ text' \in [Handles -> Seq(Bytes)]
    BY <2>1, <2>2, <2>3
  <2>5. /\ \A g \in Handles : phase'[g] = IF g \in {b, x} THEN "shared" ELSE phase[g]
        /\ phase' \in [Handles -> {"free", "building", "written", "shared"}]
    BY <2>3
  <2> QED
    BY <2>4, <2>5 DEF z
<1>14. FbufTypes'
  BY <1>1, <1>9, <1>11, <1>13 DEF FbufTypes
<1>15. \A g \in Handles : new[g] = IF g = b THEN d ELSE ch[g]
  OBVIOUS
<1> HIDE DEF new
<1>16. \A g \in Handles : Path(pool', fb'[g].head, new[g])
  <2> SUFFICES ASSUME NEW g \in Handles PROVE Path(pool', fb'[g].head, new[g])
    OBVIOUS
  <2>1. CASE g # b
    <3>1. Path(q, fb[g].head, ch[g])
      BY <1>2
    <3>2. \A t \in Slots : Contains(ch[g], t) => pool'[t].next = q[t].next
      BY <1>5, <1>7, <1>9, <2>1
    <3>3. Path(pool', fb[g].head, ch[g])
      BY <3>1, <3>2, PathFrame
    <3> QED
      BY <1>11, <1>15, <2>1, <3>3
  <2>2. CASE g = b
    <3>1. \A t \in Slots : Contains(tail, t) => pool'[t].next = q[t].next
      BY <1>7, <1>9
    <3>2. Path(pool', HeadOf(tail), tail)
      BY <1>1, <3>1, PathFrame
    <3>3. Last(c) = blast
      BY DEF blast
    <3>4. Path(pool', pool'[Last(c)].next, tail)
      BY <1>4, <1>9, <3>2, <3>3
    <3>5. \A t \in Slots : Contains(c, t) /\ t # Last(c) => pool'[t].next = q[t].next
      BY <1>9, <3>3
    <3>6. \A t : ~(Contains(c, t) /\ Contains(tail, t))
      <4>1. \A t : Contains(c, t) => t \in Slots
        BY <1>4 DEF Contains
      <4> QED
        BY <1>6, <4>1
    <3>7. Path(pool', fb[b].head, d)
      BY <1>4, <3>4, <3>5, <3>6, PathJoin
    <3> QED
      BY <1>11, <1>15, <2>2, <3>7
  <2> QED
    BY <2>1, <2>2
<1>17. \A g \in Handles : text'[g] = Content(pool', new[g]) /\ fb'[g].length = Len(text'[g])
  <2>1. \A k \in Handles : text[k] = Content(q, ch[k]) /\ ch[k] \in Seq(Slots) /\ fb[k].length = Len(text[k])
    BY <1>0, <1>2 DEF Texts, Path
  <2>2. ASSUME NEW e \in Seq(Slots) PROVE Content(pool', e) = Content(q, e)
    <3>1. \A t \in Slots : Contains(e, t) => pool'[t].data = q[t].data
      BY <1>9
    <3> QED
      BY <1>1, <1>9, <3>1, ContentFrame
  <2> SUFFICES ASSUME NEW g \in Handles PROVE text'[g] = Content(pool', new[g]) /\ fb'[g].length = Len(text'[g])
    OBVIOUS
  <2>3. CASE g # b
    <3>1. text'[g] = Content(pool', new[g])
      <4>1. text'[g] = text[g] /\ new[g] = ch[g]
        BY <1>13, <1>15, <2>3
      <4>2. Content(pool', ch[g]) = Content(q, ch[g])
        BY <2>1, <2>2
      <4> QED
        BY <2>1, <4>1, <4>2
    <3>2. fb'[g].length = fb[g].length
      BY <1>11, <2>3
    <3> QED
      BY <1>13, <2>1, <2>3, <3>1, <3>2
  <2>4. CASE g = b
    <3>1. Content(pool', d) = Content(q, c) \o more
      <4>1. Content(q, d) = Content(q, c) \o more
        BY <1>1, <1>4, ContentConcat DEF more
      <4> QED
        BY <1>10, <2>2, <4>1
    <3>2. text[b] = Content(q, c)
      BY <1>4, <2>1
    <3>3. text'[b] = Content(pool', d)
      BY <1>13, <3>1, <3>2
    <3>4. Len(text[b] \o more) = Len(text[b]) + Len(more)
      BY <1>0, <1>12, ConcatFacts
    <3>5. Len(more) = Len(text[x]) - pos
      <4>1. text[x] \in Seq(Bytes) /\ pos <= Len(text[x])
        BY <1>0, <2>1
      <4>2. Len(SubSeq(text[x], pos + 1, Len(text[x]))) = Len(text[x]) - pos
        BY <4>1, Halves
      <4> QED
        BY <1>1, <4>2
    <3>6. fb'[b].length = Len(text[b]) + Len(text[x]) - pos
      BY <1>11, <2>1
    <3>7. Len(text'[b]) = Len(text[b]) + (Len(text[x]) - pos)
      BY <1>13, <3>4, <3>5
    <3>8. Len(text[b]) \in Nat /\ Len(text[x]) \in Nat
      BY <1>0
    <3>9. fb'[b].length = Len(text'[b])
      BY <3>6, <3>7, <3>8
    <3> QED
      BY <1>15, <2>4, <3>3, <3>9
  <2> QED
    BY <2>3, <2>4
<1>18. \A g \in Handles : phase'[g] = "free" => fb'[g].head = NILPTR /\ text'[g] = << >>
  BY <1>0, <1>11, <1>13 DEF FreeHandles
<1>19. \A g \in Handles, t \in Slots :
         Contains(new[g], t) <=> Contains(ch[g], t) \/ (g = b /\ Contains(tail, t))
  BY <1>4, <1>10, <1>15
<1>20. \A h \in Handles : phase'[h] \in {"building", "written"} =>
         /\ h \notin {b, x} /\ phase[h] \in {"building", "written"} /\ new[h] = ChainOf(h)
         /\ \A t \in Slots : Contains(new[h], t) =>
              pool'[t].data = pool[t].data /\ \A g \in Handles : g # h => ~Contains(ch[g], t)
  <2> SUFFICES ASSUME NEW h \in Handles, phase'[h] \in {"building", "written"}
      PROVE  /\ h \notin {b, x} /\ phase[h] \in {"building", "written"} /\ new[h] = ChainOf(h)
             /\ \A t \in Slots : Contains(new[h], t) =>
                  pool'[t].data = pool[t].data /\ \A g \in Handles : g # h => ~Contains(ch[g], t)
    OBVIOUS
  <2>1. h \notin {b, x} /\ phase[h] \in {"building", "written"}
    BY <1>13
  <2>2. new[h] = ChainOf(h)
    BY <1>3, <1>15, <2>1
  <2>3. ASSUME NEW t \in Slots, Contains(new[h], t)
        PROVE  pool'[t].data = pool[t].data /\ \A g \in Handles : g # h => ~Contains(ch[g], t)
    <3>1. InChain(h, t)
      BY <2>2, <2>3 DEF InChain
    <3>2. q[t] = pool[t] /\ \A g \in Handles : g # h => ~Contains(ch[g], t)
      BY <1>3, <2>1, <3>1
    <3> QED
      BY <1>9, <3>2
  <2> QED
    BY <2>1, <2>2, <2>3
<1>21. \A h, g \in Handles, t \in Slots :
         phase'[h] \in {"building", "written"} /\ g # h /\ Contains(new[h], t) => ~Contains(new[g], t)
  <2> SUFFICES ASSUME NEW h \in Handles, NEW g \in Handles, NEW t \in Slots, g # h,
                      phase'[h] \in {"building", "written"}, Contains(new[h], t), Contains(new[g], t)
               PROVE  FALSE
    OBVIOUS
  <2>1. \A k \in Handles : k # h => ~Contains(ch[k], t)
    BY <1>20
  <2>2. Contains(ch[g], t) \/ Contains(ch[x], t)
    BY <1>1, <1>19
  <2>3. h # x
    BY <1>20
  <2> QED
    BY <2>1, <2>2, <2>3
<1>22. \A h \in Handles : phase'[h] \in {"building", "written"} =>
         Len(new[h]) = 1 \/ \A t \in Slots : Contains(new[h], t) => pool'[t].data # << >>
  <2> SUFFICES ASSUME NEW h \in Handles, phase'[h] \in {"building", "written"}
      PROVE  Len(new[h]) = 1 \/ \A t \in Slots : Contains(new[h], t) => pool'[t].data # << >>
    OBVIOUS
  <2>1. /\ phase[h] \in {"building", "written"} /\ new[h] = ChainOf(h)
        /\ \A t \in Slots : Contains(new[h], t) => pool'[t].data = pool[t].data
    BY <1>20
  <2> QED
    BY <1>0, <2>1 DEF Filled, InChain
<1>23. \A h \in Handles : phase'[h] = "building" =>
         fb'[h].wslot = IF new[h] = << >> THEN NILPTR ELSE Last(new[h])
  <2> SUFFICES ASSUME NEW h \in Handles, phase'[h] = "building"
               PROVE  fb'[h].wslot = IF new[h] = << >> THEN NILPTR ELSE Last(new[h])
    OBVIOUS
  <2>1. h \notin {b, x} /\ new[h] = ChainOf(h)
    BY <1>20
  <2>2. phase[h] = "building" /\ fb'[h] = fb[h]
    BY <1>11, <1>13, <2>1
  <2> QED
    BY <1>0, <2>1, <2>2 DEF Writable
<1>24. \A t \in Slots : pool'[t].refcnt = Cardinality({g \in Handles : Contains(new[g], t)})
  <2> SUFFICES ASSUME NEW t \in Slots
               PROVE  pool'[t].refcnt = Cardinality({g \in Handles : Contains(new[g], t)})
    OBVIOUS
  <2> DEFINE U == {g \in Handles : Contains(ch[g], t)}
  <2>1. U \in SUBSET Handles /\ q[t].refcnt = Cardinality(U)
    BY <1>2
  <2>2. CASE Contains(tail, t)
    <3>1. b \notin U
      BY <1>4, <1>6, <2>2
    <3>2. {g \in Handles : Contains(new[g], t)} = U \cup {b}
      BY <1>19, <2>2
    <3>3. Cardinality(U \cup {b}) = Cardinality(U) + 1
      BY <2>1, <3>1, UsersFacts
    <3> QED
      BY <1>9, <2>1, <2>2, <3>2, <3>3
  <2>3. CASE ~Contains(tail, t)
    <3>1. {g \in Handles : Contains(new[g], t)} = U
      BY <1>19, <2>3
    <3> QED
      BY <1>9, <2>1, <2>3, <3>1
  <2> QED
    BY <2>2, <2>3
<1>25. free_slots' = Cardinality({t \in Slots : pool'[t].refcnt = 0})
  <2>1. \A t \in Slots : Contains(tail, t) => q[t].refcnt # 0
    <3> SUFFICES ASSUME NEW t \in Slots, Contains(tail, t) PROVE q[t].refcnt # 0
      OBVIOUS
    <3> DEFINE U == {g \in Handles : Contains(ch[g], t)}
    <3>1. U \in SUBSET Handles /\ q[t].refcnt = Cardinality(U) /\ x \in U
      BY <1>1, <1>2
    <3> HIDE DEF U
    <3> QED
      BY <3>1, UsersFacts
  <2>2. \A t \in Slots : q[t].refcnt \in Nat
    BY <1>1 DEF Pools
  <2>3. \A t \in Slots : pool'[t].refcnt = 0 <=> q[t].refcnt = 0
    BY <1>9, <2>1, <2>2
  <2>4. {t \in Slots : pool'[t].refcnt = 0} = {t \in Slots : q[t].refcnt = 0}
    BY <2>3
  <2> QED
    BY <1>2, <2>4
<1>26. FbufInv'
  BY <1>14, <1>16, <1>17, <1>18, <1>21, <1>22, <1>23, <1>24, <1>25, InvFrom
<1>27. ChainIn(pool', fb'[b].head) = new[b]
  <2> DEFINE p == pool'
             a == fb'[b].head
  <2>1. p \in Pools /\ a \in SlotIndex /\ Path(p, a, new[b])
    BY <1>9, <1>11, <1>16 DEF FbTypes
  <2> HIDE DEF p, a
  <2>2. ChainIn(p, a) = new[b]
    BY <2>1, ChainIsPath
  <2> QED
    BY <2>2 DEF p, a
<1>28. \A t : Contains(new[b], t) => InChain(b, t) \/ Contains(ch[x], t)
  BY <1>1, <1>10, <1>15 DEF InChain, c
<1> QED
  BY <1>4, <1>7, <1>8, <1>26, <1>27, <1>28 DEF blast, c

LEMMA ConnectStep ==
  ASSUME HeaderPast = 0, FbufInv, NEW b \in Handles, NEW x \in Handles, NEW pos \in Nat,
         Connect(b, x, pos)
  PROVE  LET w == SplitPlace(x, pos)
             q == Split(w.slot, w.off, FirstFree)
         IN  /\ FbufInv' /\ q \in Pools /\ w.slot \in Slots /\ w.off \in Nat /\ InChain(x, w.slot)
             /\ Last(ChainOf(b)) \in Slots /\ InChain(b, Last(ChainOf(b)))
             /\ \E tail \in Seq(Slots), head \in SlotIndex :
                  ~Contains(tail, Last(ChainOf(b))) /\ Linked(pool', q, Last(ChainOf(b)), tail, head)
             /\ \A t : Contains(ChainIn(pool', fb'[b].head), t)
                       => InChain(b, t) \/ Contains(ChainIn(q, fb[x].head), t)
<1> DEFINE w == SplitPlace(x, pos)
           s == w.slot
           n == w.off
           q == Split(s, n, FirstFree)
           rest == Chain(pool[s].next)
           tail == IF n = 0 THEN rest ELSE <<FirstFree>> \o rest
           free == IF n = 0 THEN free_slots ELSE free_slots - 1
<1>0. fb[x].length \in Nat /\ fb[x].length + HeaderPast = fb[x].length
  BY DEF FbufInv, FbufTypes, FbTypes
<1>1. /\ b # x /\ phase[x] # "free" /\ phase[b] = "building" /\ fb[b].length > 0
      /\ pos \in 1..fb[x].length
      /\ n <= Len(pool[s].data) /\ (n > 0 => FirstFree # NILPTR)
      /\ free_slots' = free
      /\ fb' = [fb EXCEPT ![b].wslot = NILPTR, ![x].wslot = NILPTR,
                          ![b].length = @ + fb[x].length - pos]
      /\ phase' = [phase EXCEPT ![b] = "shared", ![x] = "shared"]
      /\ text' = [text EXCEPT ![b] = @ \o SubSeq(text[x], pos + 1, Len(text[x]))]
  BY <1>0 DEF Connect, Live
<1>2. pool' = [t \in Slots |->
        IF t = Last(ChainOf(b)) THEN [q[t] EXCEPT !.next = HeadOf(tail)]
        ELSE IF Contains(tail, t) THEN [q[t] EXCEPT !.refcnt = @ + 1]
        ELSE q[t]]
  BY DEF Connect, HeadOf
<1>3. fb[x].length = Len(text[x]) /\ fb[x].length \in Nat
  BY DEF FbufInv, Texts, FbufTypes, FbTypes
<1>4. pos \in Nat \ {0} /\ pos <= Len(text[x]) /\ pos <= fb[x].length
  BY <1>1, <1>3
<1>5. SplitAt(ChainOf(x), pos, w)
  BY <1>4, SplitPlaceFacts
<1>6. n \in Nat
  BY <1>5 DEF SplitAt
<1> HIDE DEF w
<1>7. \E ch : Parted(q, ch, tail, x, pos, free)
  <2>1. CASE n = 0
    <3>1. Parted(pool, [g \in Handles |-> ChainOf(g)], rest, x, pos, free_slots)
      BY <1>5, <2>1, PartedNone
    <3>2. q = pool /\ tail = rest /\ free = free_slots
      BY <2>1 DEF Split
    <3> QED
      BY <3>1, <3>2
  <2>2. CASE n # 0
    <3>1. \E ch : Parted(q, ch, <<FirstFree>> \o rest, x, pos, free_slots - 1)
      BY <1>1, <1>5, <1>6, <2>2, PartedSlot
    <3>2. tail = <<FirstFree>> \o rest /\ free = free_slots - 1
      BY <2>2
    <3> HIDE DEF q, tail, rest, free
    <3> QED
      BY <3>1, <3>2
  <2> QED
    BY <2>1, <2>2
<1>8. PICK ch : Parted(q, ch, tail, x, pos, free_slots')
  BY <1>1, <1>7
<1>9. SplitAt(ChainOf(x), pos, w) /\ s \in Slots /\ InChain(x, s)
  <2>1. /\ fb[x].head \in SlotIndex /\ Path(pool, fb[x].head, ChainOf(x)) /\ pool \in Pools
        /\ s \in Slots /\ \E pre \in Seq(Slots) : ChainOf(x) = Cut(pre, s, rest)
    BY <1>5 DEF SplitAt, FbufInv, FbufTypes, FbTypes, Chains
  <2>2. PICK pre \in Seq(Slots) : ChainOf(x) = Cut(pre, s, rest)
    BY <2>1
  <2>3. rest \in Seq(Slots)
    <3>1. pool[s].next \in SlotIndex
      BY <2>1 DEF Pools
    <3> QED
      BY <2>1, <3>1, ChainSeq DEF Chain
  <2> HIDE DEF rest, s
  <2>4. Path(pool, fb[x].head, Cut(pre, s, rest))
    BY <2>1, <2>2
  <2>5. \A t : Contains(Cut(pre, s, rest), t) <=> Contains(pre, t) \/ t = s \/ Contains(rest, t)
    BY <2>1, <2>3, <2>4, CutFacts
  <2> QED
    BY <1>5, <2>1, <2>2, <2>5 DEF InChain
<1>10. q \in Pools /\ tail \in Seq(Slots) /\ ch[x] = ChainIn(q, fb[x].head)
  <2>1. q \in Pools /\ tail \in Seq(Slots) /\ Path(q, fb[x].head, ch[x])
    BY <1>8 DEF Parted
  <2>2. fb[x].head \in SlotIndex
    BY DEF FbufInv, FbufTypes, FbTypes
  <2> HIDE DEF q, tail
  <2>3. ch[x] = ChainIn(q, fb[x].head)
    BY <2>1, <2>2, ChainIsPath
  <2> QED
    BY <2>1, <2>3
<1> HIDE DEF q, tail, free, s, n
<1>11. /\ FbufInv' /\ Last(ChainOf(b)) \in Slots /\ InChain(b, Last(ChainOf(b)))
       /\ HeadOf(tail) \in SlotIndex /\ ~Contains(tail, Last(ChainOf(b)))
       /\ \A t : Contains(ChainIn(pool', fb'[b].head), t) => InChain(b, t) \/ Contains(ch[x], t)
  BY <1>1, <1>2, <1>4, <1>8, LinkStep
<1>12. Linked(pool', q, Last(ChainOf(b)), tail, HeadOf(tail))
  BY <1>2 DEF Linked
<1> QED
  BY <1>6, <1>9, <1>10, <1>11, <1>12 DEF q, s, n, w

----------------------------------------------------------------------------

\* The inductive invariant.
LEMMA Invariant ==
  ASSUME HeaderPast = 0
  PROVE  Spec => []FbufInv
<1>1. ASSUME FbufInv, [Next]_vars PROVE FbufInv'
  <2>1. CASE UNCHANGED vars
    <3>1. /\ pool' = pool /\ free_slots' = free_slots /\ fb' = fb /\ phase' = phase /\ text' = text
      BY <2>1 DEF vars
    <3> QED
      BY <1>1, <3>1 DEF FbufInv, FbufTypes, FbTypes, Chains, FreeHandles, Owned, Filled, Writable,
         References, Texts, FreeExact, FreeSet, Users, InChain, ChainOf, Chain
  <2>2. CASE Next
    <3>1. PICK h \in Handles :
            \/ New(h) \/ PutChar(h) \/ RemoveLast(h) \/ Release(h)
            \/ Reset(h) \/ GetChar(h)
            \/ \E pos \in 0..2*MaxLength : Rseek(h, pos)
            \/ \E g \in Handles : NewRef(h, g)
            \/ \E x \in Handles, pos \in 1..2*MaxLength : Connect(h, x, pos)
      BY <2>2 DEF Next
    <3>2. CASE New(h)
      BY <1>1, <3>2, NewStep
    <3>3. CASE PutChar(h)
      BY <1>1, <3>3, PutInSlot, PutNewSlot
    <3>4. CASE RemoveLast(h)
      BY <1>1, <3>4, RemoveStep
    <3>5. CASE Release(h)
      BY <1>1, <3>5, ReleaseStep
    <3>6. CASE Reset(h) \/ GetChar(h) \/ \E pos \in 0..2*MaxLength : Rseek(h, pos)
      BY <1>1, <3>6, ReadersStep
    <3>7. CASE \E g \in Handles : NewRef(h, g)
      BY <1>1, <3>7, NewRefStep
    <3>8. CASE \E x \in Handles, pos \in 1..2*MaxLength : Connect(h, x, pos)
      <4>1. PICK x \in Handles, pos \in 1..2*MaxLength : Connect(h, x, pos)
        BY <3>8
      <4>2. pos \in Nat
        OBVIOUS
      <4> QED
        BY <1>1, <4>1, <4>2, ConnectStep
    <3> QED
      BY <3>1, <3>2, <3>3, <3>4, <3>5, <3>6, <3>7, <3>8
  <2> QED
    BY <1>1, <2>1, <2>2
<1> QED
  BY <1>1, InvInit, PTL DEF Spec

(***************************************************************************)
(* Every slot's reference count is the number of packets that have it.     *)
(***************************************************************************)
THEOREM RefExactHolds ==
  ASSUME HeaderPast = 0
  PROVE  Spec => []RefExact
<1>1. ASSUME FbufInv PROVE RefExact
  <2> SUFFICES ASSUME NEW s \in Slots
               PROVE  pool[s].refcnt = Cardinality({h \in Live : InChain(h, s)})
    BY DEF RefExact
  <2>1. \A h \in Handles : InChain(h, s) => h \in Live
    BY <1>1, FreeChain DEF Live
  <2>2. {h \in Live : InChain(h, s)} = Users(s)
    BY <2>1 DEF Users, Live
  <2> QED
    BY <1>1, <2>2 DEF FbufInv, References
<1> QED
  BY <1>1, Invariant, PTL

(***************************************************************************)
(* The counter of the free slots is exact.                                 *)
(***************************************************************************)
THEOREM FreeExactHolds ==
  ASSUME HeaderPast = 0
  PROVE  Spec => []FreeExact
<1>1. FbufInv => FreeExact
  BY DEF FbufInv
<1> QED
  BY <1>1, Invariant, PTL

----------------------------------------------------------------------------
(* What is read is what was written. *)

\* At most the first w bytes of a.
Prefix(a, w) == SubSeq(a, 1, IF Len(a) < w THEN Len(a) ELSE w)

\* One round of fbuf_read.
ReadRound(done, data, want) ==
  LET rest == IF want - Len(done) < Len(data) THEN want - Len(done) ELSE Len(data)
  IN  done \o SubSeq(data, 1, rest)

LEMMA PrefixFacts ==
  ASSUME NEW a \in Seq(Bytes), NEW w \in Nat
  PROVE  /\ Prefix(a, w) \in Seq(Bytes)
         /\ Len(Prefix(a, w)) = IF Len(a) < w THEN Len(a) ELSE w
         /\ \A i \in 1..Len(Prefix(a, w)) : Prefix(a, w)[i] = a[i]
<1> DEFINE n == IF Len(a) < w THEN Len(a) ELSE w
           d == SubSeq(a, 1, n)
<1>1. n \in Nat /\ n <= Len(a) /\ 1 \in Int /\ n \in Int /\ \A i \in 1..n : a[i] \in Bytes
  OBVIOUS
<1>2. Prefix(a, w) = d
  BY DEF Prefix
<1> HIDE DEF n
<1>3. /\ d \in Seq(Bytes) /\ Len(d) = (IF 1 <= n THEN n - 1 + 1 ELSE 0)
      /\ \A i \in 1..n-1+1 : d[i] = a[1+i-1]
  BY <1>1, SubSeqProperties
<1> HIDE DEF d
<1>4. Len(d) = n /\ \A i \in 1..n : d[i] = a[i]
  BY <1>1, <1>3
<1> QED
  BY <1>2, <1>3, <1>4 DEF n

LEMMA PrefixGrows ==
  ASSUME NEW a \in Seq(Bytes), NEW d \in Seq(Bytes), NEW w \in Nat
  PROVE  ReadRound(Prefix(a, w), d, w) = Prefix(a \o d, w)
<1> DEFINE done == Prefix(a, w)
           b == a \o d
           r == IF w - Len(done) < Len(d) THEN w - Len(done) ELSE Len(d)
           e == Prefix(d, r)
           f == done \o e
           g == Prefix(b, w)
<1>1. /\ done \in Seq(Bytes) /\ Len(done) = (IF Len(a) < w THEN Len(a) ELSE w)
      /\ \A i \in 1..Len(done) : done[i] = a[i]
  BY PrefixFacts
<1>2. /\ b \in Seq(Bytes) /\ Len(b) = Len(a) + Len(d)
      /\ \A i \in 1..Len(a)+Len(d) : b[i] = IF i <= Len(a) THEN a[i] ELSE d[i - Len(a)]
  BY ConcatIndex
<1>3. Len(a) \in Nat /\ Len(d) \in Nat
  OBVIOUS
<1> HIDE DEF done, b
<1>4. r \in Nat /\ r <= Len(d) /\ r = IF w - Len(done) < Len(d) THEN w - Len(done) ELSE Len(d)
  BY <1>1, <1>3
<1>5. ReadRound(done, d, w) = done \o SubSeq(d, 1, r)
  BY DEF ReadRound
<1>6. SubSeq(d, 1, r) = e
  <2>1. (IF Len(d) < r THEN Len(d) ELSE r) = r
    BY <1>3, <1>4
  <2> QED
    BY <2>1 DEF Prefix
<1> HIDE DEF r
<1>7. e \in Seq(Bytes) /\ Len(e) = r /\ \A i \in 1..r : e[i] = d[i]
  <2>1. /\ e \in Seq(Bytes) /\ Len(e) = (IF Len(d) < r THEN Len(d) ELSE r)
        /\ \A i \in 1..Len(e) : e[i] = d[i]
    BY <1>4, PrefixFacts
  <2> HIDE DEF e
  <2> QED
    BY <1>3, <1>4, <2>1
<1>8. /\ g \in Seq(Bytes) /\ Len(g) = (IF Len(b) < w THEN Len(b) ELSE w)
      /\ \A i \in 1..Len(g) : g[i] = b[i]
  BY <1>2, PrefixFacts
<1> HIDE DEF e, g
<1>9. /\ f \in Seq(Bytes) /\ Len(f) = Len(done) + Len(e)
      /\ \A i \in 1..Len(done)+Len(e) : f[i] = IF i <= Len(done) THEN done[i] ELSE e[i - Len(done)]
  BY <1>1, <1>7, ConcatIndex
<1> HIDE DEF f
<1> DEFINE la == Len(a)
           ld == Len(d)
           lo == Len(done)
           lf == Len(f)
           lg == Len(g)
<1>a. /\ la \in Nat /\ ld \in Nat /\ lo = (IF la < w THEN la ELSE w) /\ r \in Nat
      /\ r = (IF w - lo < ld THEN w - lo ELSE ld) /\ lf = lo + r
      /\ lg = (IF la + ld < w THEN la + ld ELSE w) /\ Len(e) = r
  BY <1>1, <1>2, <1>3, <1>4, <1>7, <1>8, <1>9
<1> HIDE DEF la, ld, lo, lf, lg
<1>b. lf = lg /\ lf \in Nat /\ lo \in Nat /\ lo <= la /\ lo + r <= la + ld
  BY <1>a
<1>c. ASSUME NEW i \in 1..lf, ~(i <= lo) PROVE lo = la /\ i - la \in 1..r /\ ~(i <= la) /\ i \in 1..la+ld
  BY <1>a, <1>b, <1>c
<1>d. \A i \in 1..lf : i <= lo => i \in 1..lo /\ i \in 1..lo+r /\ i <= la /\ i \in 1..la+ld
  BY <1>a, <1>b
<1>e. \A i \in 1..lf : i \in 1..lo+r
  BY <1>a
<1>10. Len(f) = Len(g)
  BY <1>b DEF lf, lg
<1>11. ASSUME NEW i \in 1..Len(f) PROVE f[i] = g[i]
  <2>1. Len(f) \in Nat /\ Len(done) \in Nat /\ i \in 1..Len(g)
    BY <1>1, <1>9, <1>10
  <2>2. CASE i <= Len(done)
    <3>1. i \in 1..Len(done) /\ i \in 1..Len(done)+Len(e) /\ i <= Len(a) /\ i \in 1..Len(a)+Len(d)
      BY <1>a, <1>d, <2>2 DEF lf, lo, la, ld
    <3>2. f[i] = done[i] /\ done[i] = a[i]
      BY <1>1, <1>9, <2>2, <3>1
    <3>3. g[i] = b[i] /\ b[i] = a[i]
      BY <1>2, <1>8, <2>1, <3>1
    <3> QED
      BY <3>2, <3>3
  <2>3. CASE ~(i <= Len(done))
    <3>1. Len(done) = Len(a) /\ r \in Nat
      BY <1>a, <1>c, <2>3 DEF lf, lo, la
    <3>2. i \in 1..Len(done)+Len(e) /\ i - Len(a) \in 1..r /\ ~(i <= Len(a)) /\ i \in 1..Len(a)+Len(d)
      BY <1>a, <1>c, <1>e, <2>3 DEF lf, lo, la, ld
    <3>3. f[i] = e[i - Len(a)] /\ e[i - Len(a)] = d[i - Len(a)]
      BY <1>7, <1>9, <2>3, <3>1, <3>2
    <3>4. g[i] = b[i] /\ b[i] = d[i - Len(a)]
      BY <1>2, <1>8, <2>1, <3>2
    <3> QED
      BY <3>3, <3>4
  <2> QED
    BY <2>2, <2>3
<1>12. f = g
  BY <1>8, <1>9, <1>10, <1>11, SeqEqual
<1> QED
  BY <1>5, <1>6, <1>12 DEF done, b, f, g

LEMMA ReadIs ==
  ASSUME FbufInv, NEW h \in Handles, NEW size \in Nat
  PROVE  Read(h, size) =
           Prefix(text[h], IF fb[h].length < size \/ size = 0 THEN fb[h].length ELSE size)
<1> DEFINE want == IF fb[h].length < size \/ size = 0 THEN fb[h].length ELSE size
           c == ChainOf(h)
           N == Len(c)
           Eq(f) == f = [k \in 0..N |-> IF k = 0 THEN << >>
                                        ELSE ReadRound(f[k-1], pool[c[k]].data, want)]
           read == CHOOSE f : Eq(f)
<1>1. pool \in Pools /\ c \in Seq(Slots) /\ text[h] = Content(pool, c) /\ fb[h].length \in Nat
  BY DEF FbufInv, FbufTypes, FbTypes, Chains, Path, Texts
<1>2. want \in Nat /\ N \in Nat
  BY <1>1
<1>3. Read(h, size) = read[N]
  BY DEF Read, ReadRound
<1>4. PICK f : Growing(f, pool, c) /\ Content(pool, c) = f[N]
  BY <1>1, ContentGrows
<1> HIDE DEF want
<1>5. /\ f \in [0..N -> Seq(Bytes)] /\ f[0] = << >>
      /\ \A k \in 1..N : f[k] = f[k-1] \o pool[c[k]].data
  BY <1>4 DEF Growing, Plus
<1>6. \A k \in 1..N : pool[c[k]].data \in Seq(Bytes)
  BY <1>1 DEF Pools
<1> HIDE DEF c, N
<1> DEFINE e == [k \in 0..N |-> Prefix(f[k], want)]
<1>7. e[0] = << >>
  <2>1. f[0] \in Seq(Bytes) /\ Len(f[0]) = 0
    BY <1>5, EmptySeq
  <2> DEFINE z == Prefix(f[0], want)
  <2>2. z \in Seq(Bytes) /\ Len(z) = IF Len(f[0]) < want THEN Len(f[0]) ELSE want
    BY <1>2, <2>1, PrefixFacts
  <2> HIDE DEF z
  <2>3. Len(z) = 0
    BY <1>2, <2>1, <2>2
  <2>4. z = << >>
    BY <2>2, <2>3
  <2> QED
    BY <1>2, <2>4 DEF z
<1>8. ASSUME NEW k \in 1..N
      PROVE  k - 1 \in 0..N /\ k \in 0..N /\ e[k] = ReadRound(e[k-1], pool[c[k]].data, want)
  <2>1. k - 1 \in 0..N /\ k \in 0..N
    BY <1>2
  <2>2. e[k] = Prefix(f[k], want) /\ e[k-1] = Prefix(f[k-1], want) /\ f[k-1] \in Seq(Bytes)
    BY <1>5, <2>1
  <2> DEFINE y == f[k-1]
             d == pool[c[k]].data
  <2>3. y \in Seq(Bytes) /\ d \in Seq(Bytes) /\ f[k] = y \o d
    BY <1>5, <1>6, <2>2
  <2>4. e[k] = Prefix(y \o d, want) /\ e[k-1] = Prefix(y, want)
    BY <2>2, <2>3
  <2> HIDE DEF y, d, e
  <2>5. e[k] = ReadRound(e[k-1], d, want)
    BY <1>2, <2>3, <2>4, PrefixGrows
  <2> QED
    BY <2>1, <2>5 DEF d
<1>9. Eq(e)
  <2> DEFINE round(k) == ReadRound(e[k-1], pool[c[k]].data, want)
  <2>1. \A k \in 0..N : e[k] = IF k = 0 THEN << >> ELSE round(k)
    <3>1. \A k \in 0..N : k = 0 \/ k \in 1..N
      BY <1>2
    <3> HIDE DEF e
    <3> QED
      BY <1>7, <1>8, <3>1
  <2>2. e = [k \in 0..N |-> e[k]]
    OBVIOUS
  <2> HIDE DEF e, round
  <2>3. e = [k \in 0..N |-> IF k = 0 THEN << >> ELSE round(k)]
    BY <2>1, <2>2
  <2> QED
    BY <2>3 DEF round
<1> HIDE DEF e
<1>10. Eq(read)
  BY <1>9
<1> HIDE DEF read
<1>11. read[0] = << >> /\ \A k \in 1..N : read[k] = ReadRound(read[k-1], pool[c[k]].data, want)
  BY <1>2, <1>10
<1> DEFINE T == {k \in Nat : k <= N => read[k] = e[k]}
<1>12. 0 \in T
  BY <1>7, <1>11
<1>13. ASSUME NEW k \in 0..N-1, k \in T PROVE k + 1 \in T
  <2>1. k + 1 \in 1..N /\ k + 1 - 1 = k /\ read[k] = e[k] /\ k + 1 \in Nat
    BY <1>2, <1>13
  <2>2. read[k+1] = e[k+1]
    BY <1>8, <1>11, <2>1
  <2> QED
    BY <2>1, <2>2
<1>14. 0..N \subseteq T
  <2>1. T \subseteq Nat
    OBVIOUS
  <2> HIDE DEF T
  <2> QED
    BY <1>2, <1>12, <1>13, <2>1, Steps
<1>15. read[N] = e[N] /\ e[N] = Prefix(f[N], want)
  BY <1>2, <1>14 DEF e
<1> QED
  BY <1>1, <1>3, <1>4, <1>15 DEF want, N

(***************************************************************************)
(* Reading a packet gives what was put into it, however it shares slots.   *)
(***************************************************************************)
THEOREM ContentKeptHolds ==
  ASSUME HeaderPast = 0
  PROVE  Spec => []ContentKept
<1>1. ASSUME FbufInv, NEW h \in Handles, NEW n \in 0..Len(text[h])
      PROVE  Read(h, n) = IF n = 0 THEN text[h] ELSE SubSeq(text[h], 1, n)
  <2> DEFINE t == text[h]
  <2>1. t \in Seq(Bytes) /\ fb[h].length = Len(t)
    BY <1>1 DEF FbufInv, FbufTypes, Texts
  <2>2. Len(t) \in Nat /\ n \in Nat /\ n <= Len(t)
    BY <1>1, <2>1
  <2>3. Read(h, n) = Prefix(t, IF Len(t) < n \/ n = 0 THEN Len(t) ELSE n)
    BY <1>1, <2>1, <2>2, ReadIs
  <2> HIDE DEF t
  <2>4. CASE n = 0
    <3>1. Read(h, n) = Prefix(t, Len(t))
      BY <2>3, <2>4
    <3> DEFINE z == Prefix(t, Len(t))
    <3>2. z \in Seq(Bytes) /\ Len(z) = Len(t) /\ \A i \in 1..Len(z) : z[i] = t[i]
      BY <2>1, <2>2, PrefixFacts
    <3> HIDE DEF z
    <3>3. z = t
      BY <2>1, <3>2, SeqEqual
    <3> QED
      BY <2>4, <3>1, <3>3 DEF z, t
  <2>5. CASE n # 0
    <3>1. Read(h, n) = Prefix(t, n)
      BY <2>2, <2>3, <2>5
    <3>2. (IF Len(t) < n THEN Len(t) ELSE n) = n
      BY <2>2
    <3> QED
      BY <2>5, <3>1, <3>2 DEF Prefix, t
  <2> QED
    BY <2>4, <2>5
<1>2. FbufInv => ContentKept
  BY <1>1 DEF ContentKept, Live, FbufInv, Texts
<1> QED
  BY <1>2, Invariant, PTL

----------------------------------------------------------------------------
(* The readers.  What is left to read of a packet is the content of the    *)
(* chain from the reader's slot on, which sharing and splitting keep.      *)

ReaderIn(p, head, rslot, rpos, n, t) ==
  n # Unset /\ t # << >> =>
    /\ rslot \in SlotIndex /\ rpos \in Nat
    /\ rslot = NILPTR => n = Len(t)
    /\ rslot # NILPTR =>
         /\ Contains(ChainIn(p, head), rslot)
         /\ rpos < Len(p[rslot].data) => n + Len(Content(p, ChainIn(p, rslot))) = Len(t) + rpos

\* Nothing has been read of a packet that is still written to.
Starting(h) == phase[h] = "building" =>
  fb[h].rslot = fb[h].head /\ fb[h].rpos = 0 /\ nread[h] = 0

ReadOK(h) ==
  /\ nread[h] \in Int /\ Starting(h)
  /\ ReaderIn(pool, fb[h].head, fb[h].rslot, fb[h].rpos, nread[h], text[h])

ReadInv == FbufInv /\ nread \in [Handles -> Int] /\ \A h \in Handles : ReadOK(h)

LEMMA Suffix ==
  ASSUME NEW p \in Pools, NEW a \in SlotIndex, NEW c, Path(p, a, c), NEW r, Contains(c, r)
  PROVE  /\ r \in Slots /\ p[r].next \in SlotIndex /\ p[r].data \in Seq(Bytes)
         /\ Path(p, r, ChainIn(p, r)) /\ \A t : Contains(ChainIn(p, r), t) => Contains(c, t)
         /\ Path(p, p[r].next, ChainIn(p, p[r].next))
         /\ \A t : Contains(ChainIn(p, p[r].next), t) => Contains(c, t)
         /\ Content(p, ChainIn(p, r)) = p[r].data \o Content(p, ChainIn(p, p[r].next))
         /\ Content(p, ChainIn(p, p[r].next)) \in Seq(Bytes)
<1> DEFINE rest == ChainIn(p, p[r].next)
           one == <<r>>
           d == one \o rest
<1>1. r \in Slots /\ rest \in Seq(Slots) /\ \E pre \in Seq(Slots) : c = Cut(pre, r, rest)
  BY CutAt
<1>2. PICK pre \in Seq(Slots) : c = Cut(pre, r, rest)
  BY <1>1
<1>3. p[r].next \in SlotIndex /\ p[r].data \in Seq(Bytes)
  BY <1>1 DEF Pools
<1> HIDE DEF rest
<1>4. /\ ~Contains(rest, r) /\ Path(p, p[r].next, rest)
      /\ \A t : Contains(c, t) <=> Contains(pre, t) \/ t = r \/ Contains(rest, t)
  <2>1. Path(p, a, Cut(pre, r, rest))
    BY <1>2
  <2>2. ~Contains(rest, r) /\ Path(p, p[r].next, rest)
    BY <1>1, <2>1, CutFacts
  <2>3. \A t : Contains(Cut(pre, r, rest), t) <=> Contains(pre, t) \/ t = r \/ Contains(rest, t)
    BY <1>1, <2>1, CutFacts
  <2> QED
    BY <1>2, <2>2, <2>3
<1>5. /\ one \in Seq(Slots) /\ one # << >> /\ Last(one) = r /\ Distinct(one) /\ Along(p, r, one)
      /\ \A t : Contains(one, t) <=> t = r
  BY <1>1, Short DEF Distinct, Along
<1>6. Content(p, one) = p[r].data
  BY <1>1, ContentOne
<1> HIDE DEF one
<1>7. Path(p, r, d)
  BY <1>4, <1>5, PathJoin
<1>8. Content(p, d) = Content(p, one) \o Content(p, rest) /\ Content(p, rest) \in Seq(Bytes)
  BY <1>1, <1>5, ContentConcat, ContentType
<1>9. \A t : Contains(d, t) <=> Contains(one, t) \/ Contains(rest, t)
  BY <1>1, <1>5, ContainsConcat
<1> HIDE DEF d
<1>10. ChainIn(p, r) = d
  <2>1. r \in SlotIndex
    BY <1>1 DEF SlotIndex
  <2> QED
    BY <1>7, <2>1, ChainIsPath
<1> QED
  BY <1>1, <1>3, <1>4, <1>5, <1>6, <1>7, <1>8, <1>9, <1>10 DEF rest

\* A chain of p has the same content, from the same slot on, in q.
Carried(p, q, a) ==
  /\ Path(q, a, ChainIn(q, a))
  /\ Content(q, ChainIn(q, a)) = Content(p, ChainIn(p, a))
  /\ \A t : Contains(ChainIn(p, a), t) => Contains(ChainIn(q, a), t)

LEMMA CarriedFrame ==
  ASSUME NEW p \in Pools, NEW q \in Pools, NEW a \in SlotIndex, Path(p, a, ChainIn(p, a)),
         \A t \in Slots : Contains(ChainIn(p, a), t) => q[t].next = p[t].next /\ q[t].data = p[t].data
  PROVE  Carried(p, q, a) /\ ChainIn(q, a) = ChainIn(p, a)
<1> DEFINE c == ChainIn(p, a)
<1>1. c \in Seq(Slots) /\ Path(p, a, c)
  BY DEF Path
<1>2. \A t \in Slots : Contains(c, t) => q[t].next = p[t].next
  OBVIOUS
<1>3. \A t \in Slots : Contains(c, t) => q[t].data = p[t].data
  OBVIOUS
<1> HIDE DEF c
<1>4. Path(q, a, c)
  BY <1>1, <1>2, PathFrame
<1>5. Content(q, c) = Content(p, c)
  BY <1>1, <1>3, ContentFrame
<1>6. ChainIn(q, a) = c
  BY <1>4, ChainIsPath
<1> QED
  BY <1>4, <1>5, <1>6 DEF Carried, c

LEMMA ReaderCarried ==
  ASSUME NEW p \in Pools, NEW q \in Pools, NEW head, NEW rslot, NEW rpos, NEW n, NEW t,
         ReaderIn(p, head, rslot, rpos, n, t), Carried(p, q, head),
         n # Unset /\ t # << >> /\ rslot # NILPTR =>
           Carried(p, q, rslot) /\ (rpos < Len(q[rslot].data) => rpos < Len(p[rslot].data))
  PROVE  ReaderIn(q, head, rslot, rpos, n, t)
BY DEF ReaderIn, Carried

\* A reader that is at the first byte.
LEMMA ReaderStart ==
  ASSUME NEW p \in Pools, NEW head \in SlotIndex, NEW c, ChainIn(p, head) = c, Path(p, head, c),
         NEW t, t = Content(p, c)
  PROVE  ReaderIn(p, head, head, 0, 0, t)
<1>1. c \in Seq(Slots) /\ (head = NILPTR <=> c = << >>) /\ (c # << >> => c[1] = head)
  BY PathFacts
<1>2. t \in Seq(Bytes) /\ Len(t) \in Nat /\ Content(p, << >>) = << >>
  BY <1>1, ContentType, ContentNone
<1>3. head # NILPTR => Contains(c, head)
  BY <1>1 DEF Contains
<1>4. head = NILPTR => t = << >>
  BY <1>1, <1>2
<1>5. 0 + Len(Content(p, ChainIn(p, head))) = Len(t) + 0
  <2> DEFINE L == Len(t)
  <2>1. L \in Nat /\ Len(Content(p, ChainIn(p, head))) = L
    BY <1>2
  <2> HIDE DEF L
  <2>2. 0 + L = L + 0
    BY <2>1
  <2> QED
    BY <2>1, <2>2 DEF L
<1> QED
  BY <1>3, <1>4, <1>5 DEF ReaderIn

\* What the invariant says of one packet.
LEMMA ReadFacts ==
  ASSUME FbufInv, NEW g \in Handles
  PROVE  /\ pool \in Pools /\ fb[g].head \in SlotIndex /\ ChainIn(pool, fb[g].head) = ChainOf(g)
         /\ Path(pool, fb[g].head, ChainOf(g)) /\ ChainOf(g) \in Seq(Slots)
         /\ text[g] = Content(pool, ChainOf(g)) /\ text[g] \in Seq(Bytes)
         /\ fb[g].length = Len(text[g]) /\ Len(text[g]) \in Nat
<1>1. FbufTypes /\ FbTypes /\ Chains /\ Texts
  BY DEF FbufInv, FbufTypes
<1>2. text[g] \in Seq(Bytes)
  BY <1>1 DEF FbufTypes
<1> QED
  BY <1>1, <1>2 DEF FbufTypes, FbTypes, Chains, Texts, Path, ChainOf, Chain

\* A packet and its reader that a step leaves alone.
LEMMA ReadFrame ==
  ASSUME FbufInv, FbufInv', NEW g \in Handles, ReadOK(g),
         fb'[g].head = fb[g].head, fb'[g].rslot = fb[g].rslot, fb'[g].rpos = fb[g].rpos,
         nread'[g] = nread[g], text'[g] = text[g], phase'[g] = "building" => phase[g] = "building",
         \A s \in Slots : InChain(g, s) => pool'[s].next = pool[s].next /\ pool'[s].data = pool[s].data
  PROVE  ReadOK(g)' /\ ChainOf(g)' = ChainOf(g)
<1> DEFINE p == pool
           q == pool'
           head == fb[g].head
           rslot == fb[g].rslot
           rpos == fb[g].rpos
           n == nread[g]
           t == text[g]
           c == ChainOf(g)
<1>1. /\ p \in Pools /\ head \in SlotIndex /\ ChainIn(p, head) = c /\ Path(p, head, c) /\ q \in Pools
      /\ t = Content(p, c)
  BY ReadFacts DEF FbufInv, FbufTypes
<1>2. \A s \in Slots : Contains(c, s) => q[s].next = p[s].next /\ q[s].data = p[s].data
  BY DEF InChain
<1>3. ReaderIn(p, head, rslot, rpos, n, t) /\ n \in Int /\ Starting(g)
  BY DEF ReadOK
<1>4. ChainOf(g)' = ChainIn(q, head)
  BY DEF ChainOf, Chain
<1> HIDE DEF p, q, head, rslot, rpos, n, t, c
<1>5. Carried(p, q, head) /\ ChainIn(q, head) = c
  BY <1>1, <1>2, CarriedFrame
<1>6. ASSUME n # Unset, t # << >>, rslot # NILPTR
      PROVE  Carried(p, q, rslot) /\ (rpos < Len(q[rslot].data) => rpos < Len(p[rslot].data))
  <2>1. Contains(c, rslot)
    BY <1>1, <1>3, <1>6 DEF ReaderIn
  <2>2. /\ rslot \in Slots /\ Path(p, rslot, ChainIn(p, rslot))
        /\ \A u : Contains(ChainIn(p, rslot), u) => Contains(c, u)
    BY <1>1, <2>1, Suffix
  <2>3. rslot \in SlotIndex
    BY <2>2 DEF SlotIndex
  <2>4. Carried(p, q, rslot)
    BY <1>1, <1>2, <2>2, <2>3, CarriedFrame
  <2> QED
    BY <1>2, <2>1, <2>2, <2>4
<1>7. ReaderIn(q, head, rslot, rpos, n, t)
  BY <1>1, <1>3, <1>5, <1>6, ReaderCarried
<1>8. ReaderIn(pool', fb'[g].head, fb'[g].rslot, fb'[g].rpos, nread'[g], text'[g])
  BY <1>7 DEF q, head, rslot, rpos, n, t
<1>10. Starting(g)'
  BY <1>3 DEF Starting
<1>11. nread'[g] \in Int
  BY <1>3 DEF n
<1> QED
  BY <1>4, <1>5, <1>8, <1>10, <1>11 DEF ReadOK, c

\* A packet whose reader a step puts at the first byte.
LEMMA ReadStart ==
  ASSUME FbufInv', NEW g \in Handles,
         fb'[g].rslot = fb'[g].head, fb'[g].rpos = 0, nread'[g] = 0
  PROVE  ReadOK(g)'
<1> DEFINE q == pool'
           head == fb'[g].head
           t == text'[g]
           c == ChainIn(q, head)
<1>1. q \in Pools /\ head \in SlotIndex /\ Path(q, head, c) /\ t = Content(q, c)
  <2>1. FbufTypes' /\ FbTypes' /\ Chains' /\ Texts'
    BY DEF FbufInv, FbufTypes
  <2> QED
    BY <2>1 DEF FbufTypes, FbTypes, Chains, Texts, ChainOf, Chain
<1>3. ChainIn(q, head) = c
  OBVIOUS
<1> HIDE DEF q, head, t, c
<1>4. ReaderIn(q, head, head, 0, 0, t)
  BY <1>1, <1>3, ReaderStart
<1> QED
  BY <1>4 DEF ReadOK, Starting, q, head, t

LEMMA ReadNew ==
  ASSUME ReadInv, NEW h \in Handles, New(h), FbufInv', NEW g \in Handles
  PROVE  ReadOK(g)'
<1>0. FbufInv /\ ReadOK(g) /\ FbTypes /\ pool \in Pools
  BY DEF ReadInv, FbufInv, FbufTypes
<1> DEFINE new == FirstFree
           v == [Disposed EXCEPT !.head = new, !.wslot = new, !.rslot = new]
<1>1. /\ fb' = [fb EXCEPT ![h] = v] /\ text' = [text EXCEPT ![h] = << >>]
      /\ pool' = IF new = NILPTR THEN pool ELSE [pool EXCEPT ![new] = FreshSlot]
      /\ phase' = [phase EXCEPT ![h] = "building"] /\ nread' = [nread EXCEPT ![h] = 0]
  BY DEF New
<1>2. /\ DOMAIN fb = Handles /\ text \in [Handles -> Seq(Bytes)] /\ DOMAIN phase = Handles
  BY <1>0 DEF FbTypes, FbufInv, FbufTypes
<1>4. new # NILPTR => new \in Slots /\ ~InChain(g, new)
  BY <1>0, FirstFreeFacts, SlotFacts
<1> HIDE DEF new
<1>3. v = Fb(new, new, new, 0, 0)
  <2>1. [Disposed EXCEPT !.head = new, !.wslot = new, !.rslot = new] = Fb(new, new, new, 0, 0)
    BY FbNew, Zenon
  <2> QED
    BY <2>1
<1> HIDE DEF v
<1>5. CASE g # h
  <2>1. fb'[g] = fb[g] /\ text'[g] = text[g] /\ phase'[g] = phase[g]
    BY <1>1, <1>2, <1>5
  <2>2. \A s \in Slots : InChain(g, s) => pool'[s] = pool[s]
    BY <1>0, <1>1, <1>4 DEF Pools
  <2>3. nread'[g] = nread[g]
    BY <1>1, <1>5
  <2> QED
    BY <1>0, <2>1, <2>2, <2>3, ReadFrame
<1>6. CASE g = h
  <2>1. fb'[g].rslot = fb'[g].head /\ fb'[g].rpos = 0 /\ text'[g] = << >>
    <3>1. fb'[g] = v
      BY <1>1, <1>2, <1>6
    <3>2. v.rslot = new /\ v.head = new /\ v.rpos = 0
      BY <1>3 DEF Fb
    <3> QED
      BY <1>1, <1>2, <1>6, <3>1, <3>2
  <2>2. nread'[g] = 0
    BY <1>1, <1>6 DEF ReadInv
  <2> QED
    BY <2>1, <2>2, ReadStart
<1> QED
  BY <1>5, <1>6

LEMMA ReadPut ==
  ASSUME ReadInv, NEW h \in Handles, PutChar(h), FbufInv', NEW g \in Handles
  PROVE  ReadOK(g)'
<1>0. FbufInv /\ ReadOK(g) /\ phase[h] = "building" /\ phase' = phase /\ nread' = nread
  BY DEF ReadInv, PutChar
<1>1. \A k \in Handles, s \in Slots : k # h /\ InChain(k, s) => pool'[s] = pool[s]
  BY <1>0, PutInSlot, PutNewSlot
<1>2. /\ \A k \in Handles : k # h => fb'[k] = fb[k] /\ text'[k] = text[k]
      /\ fb'[h].head = fb[h].head /\ fb'[h].rslot = fb[h].rslot /\ fb'[h].rpos = fb[h].rpos
  <2> DEFINE slot == IF Full(fb[h].wslot) THEN FirstFree ELSE fb[h].wslot
  <2>1. fb' = [fb EXCEPT ![h].wslot = slot, ![h].length = @ + 1]
    BY DEF PutChar
  <2>2. slot \in SlotIndex
    BY <1>0, FirstFreeFacts, PutFacts DEF SlotIndex
  <2> HIDE DEF slot
  <2> QED
    BY <1>0, <2>1, <2>2, PutHandles
<1>3. CASE g # h
  <2>1. fb'[g] = fb[g] /\ text'[g] = text[g] /\ \A s \in Slots : InChain(g, s) => pool'[s] = pool[s]
    BY <1>1, <1>2, <1>3
  <2> QED
    BY <1>0, <2>1, ReadFrame
<1>4. CASE g = h
  <2>1. fb'[g].rslot = fb'[g].head /\ fb'[g].rpos = 0 /\ nread'[g] = 0
    BY <1>0, <1>2, <1>4 DEF ReadOK, Starting
  <2> QED
    BY <2>1, ReadStart
<1> QED
  BY <1>3, <1>4

LEMMA ReadRemove ==
  ASSUME ReadInv, NEW h \in Handles, RemoveLast(h), FbufInv', NEW g \in Handles
  PROVE  ReadOK(g)'
<1>0. FbufInv /\ ReadOK(g) /\ nread' = [nread EXCEPT ![h] = Unset]
  BY DEF ReadInv, RemoveLast
<1>1. \A k \in Handles, s \in Slots : k # h /\ InChain(k, s) => pool'[s] = pool[s]
  BY <1>0, RemoveStep
<1>2. /\ \A k \in Handles : k # h => fb'[k] = fb[k] /\ phase'[k] = phase[k] /\ text'[k] = text[k]
      /\ phase'[h] = "written"
  BY <1>0, RemoveHandles
<1>3. CASE g # h
  <2>1. /\ fb'[g] = fb[g] /\ text'[g] = text[g] /\ phase'[g] = phase[g]
        /\ \A s \in Slots : InChain(g, s) => pool'[s] = pool[s]
    BY <1>1, <1>2, <1>3
  <2>2. nread'[g] = nread[g]
    BY <1>0, <1>3
  <2> QED
    BY <1>0, <2>1, <2>2, ReadFrame
<1>4. CASE g = h
  <2>1. nread'[g] = Unset /\ Unset \in Int
    BY <1>0, <1>4 DEF ReadInv, Unset
  <2>2. Starting(g)'
    BY <1>2, <1>4 DEF Starting
  <2> QED
    BY <2>1, <2>2 DEF ReadOK, ReaderIn
<1> QED
  BY <1>3, <1>4

LEMMA ReadRelease ==
  ASSUME ReadInv, NEW h \in Handles, Release(h), FbufInv', NEW g \in Handles
  PROVE  ReadOK(g)'
<1>0. FbufInv /\ ReadOK(g) /\ nread' = [nread EXCEPT ![h] = Unset] /\ nread \in [Handles -> Int]
  BY DEF ReadInv, Release
<1>1. /\ \A k \in Handles, s \in Slots :
           k # h /\ InChain(k, s) => pool'[s].next = pool[s].next /\ pool'[s].data = pool[s].data
      /\ \A k \in Handles : k # h => fb'[k] = fb[k] /\ text'[k] = text[k] /\ phase'[k] = phase[k]
      /\ text'[h] = << >> /\ phase'[h] = "free"
  BY <1>0, ReleaseStep
<1>2. CASE g # h
  <2>1. /\ fb'[g] = fb[g] /\ text'[g] = text[g] /\ phase'[g] = phase[g] /\ nread'[g] = nread[g]
        /\ \A s \in Slots : InChain(g, s) => pool'[s].next = pool[s].next /\ pool'[s].data = pool[s].data
    BY <1>0, <1>1, <1>2
  <2> QED
    BY <1>0, <2>1, ReadFrame
<1>3. CASE g = h
  <2>1. text'[g] = << >> /\ phase'[g] = "free" /\ nread'[g] = Unset /\ Unset \in Int
    BY <1>0, <1>1, <1>3 DEF Unset
  <2> QED
    BY <2>1 DEF ReadOK, ReaderIn, Starting
<1> QED
  BY <1>2, <1>3

LEMMA ReadNewRef ==
  ASSUME ReadInv, NEW h \in Handles, NEW k \in Handles, NewRef(h, k), FbufInv', NEW g \in Handles
  PROVE  ReadOK(g)'
<1>0. /\ FbufInv /\ ReadOK(g) /\ ReadOK(h) /\ nread' = [nread EXCEPT ![k] = 0]
      /\ nread \in [Handles -> Int] /\ h # k
  BY DEF ReadInv, NewRef, Live
<1>1. /\ \A s \in Slots : pool'[s].next = pool[s].next /\ pool'[s].data = pool[s].data
      /\ \A j \in Handles : /\ j # k => fb'[j] = fb[j]
                            /\ text'[j] = IF j = k THEN text[h] ELSE text[j]
                            /\ phase'[j] = IF j \in {k, h} THEN "shared" ELSE phase[j]
      /\ fb'[k].head = fb[h].head /\ fb'[k].rslot = fb[h].head /\ fb'[k].rpos = 0
  BY <1>0, NewRefStep
<1>2. ASSUME NEW j \in Handles, j # k, ReadOK(j)
      PROVE  ReadOK(j)' /\ ChainOf(j)' = ChainOf(j)
  <2>1. /\ fb'[j] = fb[j] /\ text'[j] = text[j] /\ (phase'[j] = "building" => phase[j] = "building")
        /\ nread'[j] = nread[j]
        /\ \A s \in Slots : InChain(j, s) => pool'[s].next = pool[s].next /\ pool'[s].data = pool[s].data
    BY <1>0, <1>1, <1>2
  <2> QED
    BY <1>0, <1>2, <2>1, ReadFrame
<1>3. CASE g = k
  <2>1. fb'[k].rslot = fb'[k].head /\ fb'[k].rpos = 0 /\ nread'[k] = 0
    BY <1>0, <1>1
  <2> QED
    BY <1>3, <2>1, ReadStart
<1> QED
  BY <1>0, <1>2, <1>3

\* A step that only moves the reader of h.
Placed(h, r, q) ==
  /\ \A g \in Handles : fb'[g].head = fb[g].head /\ (g # h => fb'[g] = fb[g])
  /\ fb'[h].rslot = r /\ fb'[h].rpos = q

Moved(h, n) ==
  /\ nread' = [nread EXCEPT ![h] = n] /\ phase' = Finished(h)
  /\ pool' = pool /\ text' = text

LEMMA ReadMoves ==
  ASSUME ReadInv, NEW h \in Handles, FbufInv', NEW n \in Int, NEW r, NEW q,
         Placed(h, r, q), Moved(h, n), ReaderIn(pool, fb[h].head, r, q, n, text[h])
  PROVE  \A g \in Handles : ReadOK(g)'
<1>a. /\ \A g \in Handles : fb'[g].head = fb[g].head /\ (g # h => fb'[g] = fb[g])
      /\ fb'[h].rslot = r /\ fb'[h].rpos = q
      /\ nread' = [nread EXCEPT ![h] = n] /\ phase' = Finished(h) /\ pool' = pool /\ text' = text
  BY DEF Placed, Moved
<1>0. /\ FbufInv /\ nread \in [Handles -> Int] /\ \A g \in Handles : ReadOK(g)
      /\ phase \in [Handles -> {"free", "building", "written", "shared"}]
  BY DEF ReadInv, FbufInv, FbufTypes
<1>1. phase'[h] # "building" /\ \A g \in Handles : g # h => phase'[g] = phase[g]
  BY <1>0, <1>a DEF Finished
<1> SUFFICES ASSUME NEW g \in Handles PROVE ReadOK(g)'
  OBVIOUS
<1>2. CASE g # h
  <2>1. nread'[g] = nread[g]
    BY <1>0, <1>2, <1>a
  <2> QED
    BY <1>0, <1>1, <1>2, <1>a, <2>1, ReadFrame
<1>3. CASE g = h
  <2>1. nread'[h] = n
    BY <1>0, <1>a
  <2>2. ReaderIn(pool', fb'[h].head, fb'[h].rslot, fb'[h].rpos, nread'[h], text'[h])
    BY <1>a, <2>1
  <2> QED
    BY <1>1, <1>3, <2>1, <2>2 DEF ReadOK, Starting
<1> QED
  BY <1>2, <1>3

\* The assignments to the reader of h.
Placing(h, r, q) == fb' = [fb EXCEPT ![h].rslot = r, ![h].rpos = q]
Passing(h, q) == fb' = [fb EXCEPT ![h].rpos = q]

LEMMA ReaderPlaced ==
  ASSUME FbTypes, NEW h \in Handles, NEW r, NEW q, Placing(h, r, q)
  PROVE  Placed(h, r, q)
<1> DEFINE f == fb[h]
           head == f.head
           wslot == f.wslot
           rslot == f.rslot
           rpos == f.rpos
           length == f.length
           placed == [f EXCEPT !.rslot = r]
           v == [placed EXCEPT !.rpos = q]
<1>1. f = Fb(head, wslot, rslot, rpos, length) /\ DOMAIN fb = Handles
  BY FbEta DEF FbTypes
<1>2. fb' = [fb EXCEPT ![h] = v]
  BY <1>1 DEF Placing
<1> HIDE DEF f, head, wslot, rslot, rpos, length
<1>3. placed = Fb(head, wslot, r, rpos, length)
  BY <1>1, SMTT(30) DEF Fb
<1> HIDE DEF placed
<1>4. v = Fb(head, wslot, r, q, length)
  BY <1>3, SMTT(30) DEF Fb
<1> HIDE DEF v
<1>5. v.head = head /\ v.rslot = r /\ v.rpos = q
  BY <1>4 DEF Fb
<1>6. \A g \in Handles : fb'[g] = IF g = h THEN v ELSE fb[g]
  BY <1>1, <1>2
<1> QED
  BY <1>5, <1>6 DEF head, f, Placed

LEMMA ReaderPassed ==
  ASSUME FbTypes, NEW h \in Handles, NEW q, Passing(h, q)
  PROVE  Placed(h, fb[h].rslot, q)
<1> DEFINE f == fb[h]
           head == f.head
           wslot == f.wslot
           rslot == f.rslot
           rpos == f.rpos
           length == f.length
           v == [f EXCEPT !.rpos = q]
<1>1. f = Fb(head, wslot, rslot, rpos, length) /\ DOMAIN fb = Handles
  BY FbEta DEF FbTypes
<1>2. fb' = [fb EXCEPT ![h] = v]
  BY <1>1 DEF Passing
<1> HIDE DEF f, head, wslot, rslot, rpos, length
<1>3. v = Fb(head, wslot, rslot, q, length)
  BY <1>1, SMTT(30) DEF Fb
<1> HIDE DEF v
<1>4. v.head = head /\ v.rslot = rslot /\ v.rpos = q
  BY <1>3 DEF Fb
<1>5. \A g \in Handles : fb'[g] = IF g = h THEN v ELSE fb[g]
  BY <1>1, <1>2
<1> QED
  BY <1>4, <1>5 DEF head, rslot, f, Placed

LEMMA ReadReset ==
  ASSUME ReadInv, NEW h \in Handles, Reset(h), FbufInv'
  PROVE  \A g \in Handles : ReadOK(g)'
<1> DEFINE head == fb[h].head
<1>1. Placing(h, head, 0) /\ Moved(h, 0)
  BY DEF Reset, Placing, Moved
<1>2. FbufInv /\ FbTypes
  BY DEF ReadInv, FbufInv, FbufTypes
<1>3. Placed(h, head, 0)
  <2> HIDE DEF head
  <2> QED
    BY <1>1, <1>2, ReaderPlaced
<1>4. ReaderIn(pool, head, head, 0, 0, text[h])
  <2> DEFINE c == ChainOf(h)
             t == text[h]
  <2>1. /\ pool \in Pools /\ head \in SlotIndex /\ ChainIn(pool, head) = c /\ Path(pool, head, c)
        /\ t = Content(pool, c)
    BY <1>2, ReadFacts
  <2> HIDE DEF c, t, head
  <2>3. ReaderIn(pool, head, head, 0, 0, t)
    BY <2>1, ReaderStart
  <2> QED
    BY <2>3 DEF t
<1> QED
  BY <1>1, <1>3, <1>4, ReadMoves

\* A reader that has not read all is in a slot; if it is at a byte, the rest
\* of the slot and what follows it is before it.
LEMMA ReaderHere ==
  ASSUME ReadInv, NEW h \in Handles, nread[h] \in 0 .. Len(text[h]) - 1
  PROVE  LET s == fb[h].rslot
             next == pool[s].next
             rest == Content(pool, ChainIn(pool, next))
         IN  /\ s \in Slots /\ InChain(h, s) /\ next \in SlotIndex /\ Len(rest) \in Nat
             /\ fb[h].rpos \in Nat /\ Len(pool[s].data) \in Nat
             /\ fb[h].rpos < Len(pool[s].data) =>
                  nread[h] + Len(pool[s].data) + Len(rest) = Len(text[h]) + fb[h].rpos
             /\ next = NILPTR => Len(rest) = 0
             /\ next # NILPTR => InChain(h, next)
<1> DEFINE s == fb[h].rslot
           q == fb[h].rpos
           next == pool[s].next
           data == pool[s].data
           rest == Content(pool, ChainIn(pool, next))
           all == Content(pool, ChainIn(pool, s))
           n == nread[h]
           t == text[h]
           c == ChainOf(h)
<1>1. /\ pool \in Pools /\ fb[h].head \in SlotIndex /\ ChainIn(pool, fb[h].head) = c
      /\ Path(pool, fb[h].head, c) /\ t \in Seq(Bytes) /\ Len(t) \in Nat
  BY ReadFacts DEF ReadInv
<1>2. n \in 0 .. Len(t) - 1 /\ t # << >> /\ n # Unset
  <2>1. Len(<< >>) = 0
    OBVIOUS
  <2> QED
    BY <1>1, <2>1 DEF Unset
<1>3. ReaderIn(pool, fb[h].head, s, q, n, t)
  BY DEF ReadInv, ReadOK
<1>4. /\ s \in SlotIndex /\ q \in Nat
      /\ s = NILPTR => n = Len(t)
      /\ s # NILPTR => Contains(c, s) /\ (q < Len(data) => n + Len(all) = Len(t) + q)
  BY <1>1, <1>2, <1>3 DEF ReaderIn
<1>5. s # NILPTR
  BY <1>1, <1>2, <1>4
<1>6. /\ s \in Slots /\ next \in SlotIndex /\ data \in Seq(Bytes) /\ Path(pool, next, ChainIn(pool, next))
      /\ \A u : Contains(ChainIn(pool, next), u) => Contains(c, u)
      /\ all = data \o rest /\ rest \in Seq(Bytes)
  <2>1. Contains(c, s)
    BY <1>4, <1>5
  <2> QED
    BY <1>1, <2>1, Suffix
<1>7. Len(data) \in Nat /\ Len(rest) \in Nat /\ Len(all) = Len(data) + Len(rest)
  <2> HIDE DEF data, rest, all
  <2> QED
    BY <1>6
<1>8. next = NILPTR => Len(rest) = 0
  <2>1. NILPTR \in SlotIndex /\ Path(pool, NILPTR, << >>)
    BY Short DEF SlotIndex
  <2>2. ChainIn(pool, NILPTR) = << >>
    BY <1>1, <2>1, ChainIsPath
  <2>3. Content(pool, << >>) = << >> /\ Len(<< >>) = 0
    BY <1>1, ContentNone
  <2> QED
    BY <2>2, <2>3
<1>9. ASSUME next # NILPTR PROVE Contains(c, next)
  <2> DEFINE d == ChainIn(pool, next)
  <2>1. d \in Seq(Slots) /\ d # << >> /\ d[1] = next
    <3>1. pool \in Pools /\ next \in SlotIndex /\ Path(pool, next, d)
      BY <1>1, <1>6
    <3> HIDE DEF d, next
    <3>2. d \in Seq(Slots) /\ (next = NILPTR <=> d = << >>) /\ (d # << >> => d[1] = next)
      BY <3>1, PathFacts
    <3> QED
      BY <1>9, <3>2
  <2>2. Contains(d, next)
    BY <2>1 DEF Contains
  <2> QED
    BY <1>6, <2>2
<1>10. q < Len(data) => n + Len(data) + Len(rest) = Len(t) + q
  <2>1. q < Len(data) => n + Len(all) = Len(t) + q
    BY <1>4, <1>5
  <2> HIDE DEF data, rest, all, n, q, t
  <2> QED
    BY <1>1, <1>2, <1>4, <1>7, <2>1
<1> QED
  BY <1>4, <1>5, <1>6, <1>7, <1>8, <1>9, <1>10 DEF InChain

LEMMA ReadGetChar ==
  ASSUME ReadInv, NEW h \in Handles, GetChar(h), FbufInv'
  PROVE  \A g \in Handles : ReadOK(g)'
<1> DEFINE s == fb[h].rslot
           q == fb[h].rpos
           next == pool[s].next
           size == Len(pool[s].data)
           rest == ChainIn(pool, next)
           left == Len(Content(pool, rest))
           n == nread[h]
           head == fb[h].head
           t == text[h]
<1>1. /\ n \in 0 .. Len(t) - 1 /\ Moved(h, n + 1)
      /\ q = size - 1 => Placing(h, next, 0)
      /\ q # size - 1 => Passing(h, q + 1)
  BY DEF GetChar, AtSlotEnd, Moved, Placing, Passing
<1>2. FbTypes /\ FbufInv /\ Len(t) \in Nat
  BY ReadFacts DEF ReadInv, FbufInv, FbufTypes
<1>3. /\ s \in Slots /\ InChain(h, s) /\ next \in SlotIndex /\ left \in Nat
      /\ q \in Nat /\ size \in Nat
      /\ q < size => n + size + left = Len(t) + q
      /\ next = NILPTR => left = 0
      /\ next # NILPTR => InChain(h, next)
  BY <1>1, ReaderHere
<1>4. \A r : InChain(h, r) <=> Contains(ChainIn(pool, head), r)
  BY DEF InChain, ChainOf, Chain
<1>5. n + 1 \in Int
  BY <1>1, <1>2
<1>6. CASE q = size - 1
  <2>1. Placed(h, next, 0)
    <3> HIDE DEF next
    <3> QED
      BY <1>1, <1>2, <1>6, ReaderPlaced
  <2>2. n + 1 + left = Len(t) + 0
    <3> DEFINE L == Len(t)
    <3>1. /\ n \in 0 .. L - 1 /\ L \in Nat /\ left \in Nat /\ size \in Nat
          /\ (q < size => n + size + left = L + q) /\ q = size - 1
      BY <1>1, <1>2, <1>3, <1>6
    <3> HIDE DEF n, L, left, size, q
    <3>2. n + 1 + left = L + 0
      BY <3>1
    <3> QED
      BY <3>2 DEF L
  <2>3. ReaderIn(pool, head, next, 0, n + 1, t)
    <3> DEFINE L == Len(t)
               m == n + 1
    <3>1. m \in Int /\ L \in Nat /\ left \in Nat /\ m + left = L + 0
      BY <1>2, <1>3, <1>5, <2>2
    <3>2. left = 0 => m = L
      <4> HIDE DEF m, L, left
      <4> QED
        BY <3>1
    <3> HIDE DEF n, t, s, size, q
    <3> QED
      BY <1>3, <1>4, <2>2, <3>2 DEF ReaderIn
  <2> HIDE DEF next
  <2> QED
    BY <1>1, <1>5, <2>1, <2>3, ReadMoves
<1>7. CASE q # size - 1
  <2>1. Placed(h, s, q + 1)
    <3> DEFINE r == q + 1
    <3>1. Passing(h, r)
      BY <1>1, <1>7
    <3> HIDE DEF r
    <3>2. Placed(h, fb[h].rslot, r)
      BY <1>2, <3>1, ReaderPassed
    <3> QED
      BY <3>2 DEF r
  <2>2. Len(Content(pool, ChainIn(pool, s))) = size + left
    <3> DEFINE data == pool[s].data
               behind == Content(pool, rest)
    <3>1. /\ pool \in Pools /\ head \in SlotIndex /\ Path(pool, head, ChainOf(h)) /\ Contains(ChainOf(h), s)
      BY <1>2, <1>3, ReadFacts DEF InChain
    <3>2. data \in Seq(Bytes) /\ Content(pool, ChainIn(pool, s)) = data \o behind /\ behind \in Seq(Bytes)
      BY <3>1, Suffix
    <3> HIDE DEF data, behind
    <3>3. Len(data \o behind) = Len(data) + Len(behind)
      BY <3>2
    <3> QED
      BY <3>2, <3>3 DEF data, behind
  <2>3. (q + 1 < size => n + 1 + (size + left) = Len(t) + (q + 1)) /\ q + 1 \in Nat
    <3> HIDE DEF n, t, left, size, q
    <3> QED
      BY <1>1, <1>2, <1>3, <1>7
  <2>4. s \in SlotIndex /\ s # NILPTR
    BY <1>3, SlotsFacts DEF SlotIndex
  <2> DEFINE r == q + 1
             m == n + 1
             all == Len(Content(pool, ChainIn(pool, s)))
  <2>5. (r < size => m + all = Len(t) + r) /\ r \in Nat
    BY <2>2, <2>3
  <2> HIDE DEF r, m, all
  <2>6. ReaderIn(pool, head, s, r, m, t)
    BY <1>3, <1>4, <2>4, <2>5 DEF ReaderIn, all
  <2> QED
    BY <1>1, <1>5, <2>1, <2>6, ReadMoves DEF r, m
<1> QED
  BY <1>6, <1>7

\* A place of the loop of fbuf_rseek over the chain c of h.
SeekAt(h, pos, w) ==
  /\ w.slot \in Slots /\ InChain(h, w.slot) /\ w.off \in Nat
  /\ pos + Len(Content(pool, ChainIn(pool, w.slot))) = Len(text[h]) + w.off

SeekRound(w) ==
  LET left == w.off - Len(pool[w.slot].data)
  IN  IF w.slot # NILPTR /\ w.off > Len(pool[w.slot].data)
        THEN [slot |-> pool[w.slot].next, off |-> left]
        ELSE w

LEMMA SeekRoundKeeps ==
  ASSUME FbufInv, NEW h \in Handles, NEW pos \in Nat, pos < Len(text[h]), NEW w, SeekAt(h, pos, w)
  PROVE  SeekAt(h, pos, SeekRound(w))
<1> DEFINE s == w.slot
           off == w.off
           next == pool[s].next
           data == pool[s].data
           rest == Content(pool, ChainIn(pool, next))
           all == Content(pool, ChainIn(pool, s))
           c == ChainOf(h)
           t == text[h]
           v == [slot |-> next, off |-> off - Len(data)]
<1>1. /\ pool \in Pools /\ fb[h].head \in SlotIndex /\ Path(pool, fb[h].head, c) /\ Len(t) \in Nat
  BY ReadFacts
<1>2. s \in Slots /\ Contains(c, s) /\ off \in Nat /\ pos + Len(all) = Len(t) + off
  BY DEF SeekAt, InChain
<1>3. /\ next \in SlotIndex /\ data \in Seq(Bytes) /\ Path(pool, next, ChainIn(pool, next))
      /\ \A u : Contains(ChainIn(pool, next), u) => Contains(c, u)
      /\ all = data \o rest /\ rest \in Seq(Bytes)
  BY <1>1, <1>2, Suffix
<1>4. Len(data) \in Nat /\ Len(rest) \in Nat /\ Len(all) = Len(data) + Len(rest)
  <2> HIDE DEF data, rest, all
  <2> QED
    BY <1>3
<1>5. CASE off > Len(data)
  <2>1. SeekRound(w) = v
    BY <1>2, <1>5, SlotsFacts DEF SeekRound
  <2>2. /\ off - Len(data) \in Nat /\ pos + Len(rest) = Len(t) + (off - Len(data)) /\ Len(rest) # 0
    <3> DEFINE L == Len(t)
               d == Len(data)
               r == Len(rest)
    <3>1. /\ L \in Nat /\ d \in Nat /\ r \in Nat /\ off \in Nat /\ off > d /\ pos < L
          /\ pos + (d + r) = L + off
      BY <1>1, <1>2, <1>4, <1>5
    <3> HIDE DEF off, d, r, L
    <3>2. off - d \in Nat /\ pos + r = L + (off - d) /\ r # 0
      BY <3>1
    <3> QED
      BY <3>2 DEF L, d, r
  <2>3. next # NILPTR
    <3> SUFFICES ASSUME next = NILPTR PROVE FALSE
      OBVIOUS
    <3>1. NILPTR \in SlotIndex /\ Path(pool, NILPTR, << >>)
      BY Short DEF SlotIndex
    <3>2. ChainIn(pool, NILPTR) = << >>
      BY <1>1, <3>1, ChainIsPath
    <3>3. rest = << >>
      BY <1>1, <3>2, ContentNone
    <3> HIDE DEF rest
    <3> QED
      BY <2>2, <3>3
  <2>4. next \in Slots /\ Contains(c, next)
    <3> DEFINE d == ChainIn(pool, next)
    <3>1. d \in Seq(Slots) /\ d # << >> /\ d[1] = next
      BY <1>1, <1>3, <2>3, PathFacts
    <3>2. Contains(d, next) /\ next \in Slots
      BY <3>1 DEF Contains
    <3> QED
      BY <1>3, <3>2
  <2>5. v.slot = next /\ v.off = off - Len(data)
    OBVIOUS
  <2> HIDE DEF v
  <2>6. pos + Len(Content(pool, ChainIn(pool, v.slot))) = Len(text[h]) + v.off
    BY <2>2, <2>5
  <2> QED
    BY <2>1, <2>2, <2>4, <2>5, <2>6 DEF SeekAt, InChain
<1>6. CASE ~(off > Len(data))
  <2>1. SeekRound(w) = w
    BY <1>6 DEF SeekRound
  <2> QED
    BY <2>1
<1> QED
  BY <1>5, <1>6

LEMMA SeekPlaceFacts ==
  ASSUME FbufInv, NEW h \in Handles, NEW pos \in Nat, pos < Len(text[h])
  PROVE  SeekAt(h, pos, SeekPlace(h, pos))
<1> DEFINE N == FBUF_SLOTS
           c == ChainOf(h)
           start == [slot |-> fb[h].head, off |-> pos]
           J == {w \in [slot : SlotIndex, off : Nat] : SeekAt(h, pos, w)}
           G == [kw \in (1..N) \X J |-> SeekRound(kw[2])]
           Eq(f) == f = [k \in 0..N |-> IF k = 0 THEN start ELSE SeekRound(f[k-1])]
           at == CHOOSE f : Eq(f)
<1>0. /\ pool \in Pools /\ fb[h].head \in SlotIndex /\ Path(pool, fb[h].head, c)
      /\ ChainIn(pool, fb[h].head) = c /\ text[h] = Content(pool, c) /\ text[h] \in Seq(Bytes)
  BY ReadFacts
<1>1. N \in Nat
  BY SlotsFacts
<1>2. start \in J
  <2>1. c # << >>
    <3>1. Content(pool, << >>) = << >> /\ Len(<< >>) = 0
      BY <1>0, ContentNone
    <3> SUFFICES ASSUME c = << >> PROVE FALSE
      OBVIOUS
    <3>2. Len(text[h]) = 0
      BY <1>0, <3>1
    <3> QED
      BY <3>2
  <2>2. c \in Seq(Slots) /\ c[1] = fb[h].head
    BY <1>0, <2>1, PathFacts
  <2>3. fb[h].head \in Slots /\ InChain(h, fb[h].head)
    BY <2>1, <2>2 DEF InChain, Contains
  <2>4. start.slot = fb[h].head /\ start.off = pos /\ start \in [slot : SlotIndex, off : Nat]
    BY <1>0
  <2> HIDE DEF start, c
  <2>5. pos + Len(Content(pool, ChainIn(pool, start.slot))) = Len(text[h]) + start.off
    <3> DEFINE L == Len(text[h])
    <3>1. L \in Nat /\ pos + L = L + pos
      BY <1>0
    <3> HIDE DEF L
    <3>2. Len(Content(pool, ChainIn(pool, start.slot))) = L
      BY <1>0, <2>4 DEF L
    <3> QED
      BY <2>4, <3>1, <3>2 DEF L
  <2>6. SeekAt(h, pos, start)
    BY <2>3, <2>4, <2>5 DEF SeekAt
  <2> QED
    BY <2>4, <2>6
<1>3. ASSUME NEW w \in J PROVE SeekRound(w) \in J
  <2>1. SeekAt(h, pos, SeekRound(w)) /\ w.slot \in Slots
    BY <1>3, SeekRoundKeeps DEF SeekAt
  <2>2. SeekRound(w) = w \/ SeekRound(w) = [slot |-> SeekRound(w).slot, off |-> SeekRound(w).off]
    BY DEF SeekRound
  <2> DEFINE v == SeekRound(w)
  <2>3. v.slot \in SlotIndex /\ v.off \in Nat
    BY <2>1 DEF SeekAt, SlotIndex
  <2> HIDE DEF v
  <2>4. v = w \/ v = [slot |-> v.slot, off |-> v.off]
    BY <2>2 DEF v
  <2>5. v \in [slot : SlotIndex, off : Nat]
    BY <2>3, <2>4
  <2> QED
    BY <2>1, <2>5 DEF v
<1>4. SeekPlace(h, pos) = at[N]
  BY DEF SeekPlace, Walk, SeekRound, N
<1> HIDE DEF N, J, start
<1>5. G \in [(1..N) \X J -> J]
  BY <1>3
<1>6. PICK f \in [0..N -> J] : f[0] = start /\ \A k \in 1..N : f[k] = G[<<k, f[k-1]>>]
  <2> HIDE DEF G
  <2>1. \E f \in [0..N -> J] : Recursive(f, N, start, G)
    BY <1>1, <1>2, <1>5, Recursion
  <2> QED
    BY <2>1 DEF Recursive
<1>7. \A k \in 1..N : k - 1 \in 0..N /\ f[k] = SeekRound(f[k-1])
  <2> SUFFICES ASSUME NEW k \in 1..N PROVE k - 1 \in 0..N /\ f[k] = SeekRound(f[k-1])
    OBVIOUS
  <2>1. k - 1 \in 0..N
    BY <1>1
  <2>2. <<k, f[k-1]>> \in (1..N) \X J /\ <<k, f[k-1]>>[2] = f[k-1]
    BY <2>1
  <2> QED
    BY <1>6, <2>1, <2>2
<1>8. Eq(f)
  BY <1>1, <1>6, <1>7
<1>9. Eq(at)
  BY <1>8
<1> HIDE DEF at
<1>10. at[0] = start /\ \A k \in 1..N : at[k] = SeekRound(at[k-1])
  BY <1>1, <1>9
<1> DEFINE T == {k \in Nat : k <= N => at[k] \in J}
<1>11. 0 \in T
  BY <1>1, <1>2, <1>10
<1>12. ASSUME NEW k \in 0..N-1, k \in T PROVE k + 1 \in T
  <2>1. at[k] \in J /\ k + 1 \in 1..N /\ k + 1 - 1 = k
    BY <1>1, <1>12
  <2>2. at[k + 1] = SeekRound(at[k])
    BY <1>10, <2>1
  <2> QED
    BY <1>3, <2>1, <2>2
<1>13. 0..N \subseteq T
  <2>1. T \subseteq Nat
    OBVIOUS
  <2> HIDE DEF T
  <2> QED
    BY <1>1, <1>11, <1>12, <2>1, Steps
<1>14. at[N] \in J
  BY <1>1, <1>13
<1> QED
  BY <1>4, <1>14 DEF J

LEMMA ReadRseek ==
  ASSUME ReadInv, NEW h \in Handles, NEW pos \in Nat, Rseek(h, pos), FbufInv'
  PROVE  \A g \in Handles : ReadOK(g)'
<1> DEFINE place == SeekPlace(h, pos)
           s == place.slot
           q == place.off
<1>1. /\ Placing(h, s, q) /\ Moved(h, pos)
      /\ pos \in 0 .. fb[h].length - 1
  BY DEF Rseek, Placing, Moved
<1>2. FbTypes /\ FbufInv /\ Len(text[h]) \in Nat /\ fb[h].length = Len(text[h])
  BY ReadFacts DEF ReadInv, FbufInv, FbufTypes
<1>3. SeekAt(h, pos, place)
  <2>1. pos < Len(text[h])
    BY <1>1, <1>2
  <2> QED
    BY <1>2, <2>1, SeekPlaceFacts
<1> HIDE DEF place
<1>4. /\ s \in Slots /\ InChain(h, s) /\ q \in Nat
      /\ pos + Len(Content(pool, ChainIn(pool, s))) = Len(text[h]) + q
  BY <1>3 DEF SeekAt
<1>5. s \in SlotIndex /\ s # NILPTR /\ Contains(ChainIn(pool, fb[h].head), s)
  BY <1>4, SlotsFacts DEF SlotIndex, InChain, ChainOf, Chain
<1> HIDE DEF s, q
<1>6. ReaderIn(pool, fb[h].head, s, q, pos, text[h])
  BY <1>1, <1>4, <1>5 DEF ReaderIn
<1>7. Placed(h, s, q)
  BY <1>1, <1>2, ReaderPlaced
<1> QED
  BY <1>1, <1>6, <1>7, ReadMoves

\* A split keeps what is reached from a.
LEMMA SplitCarried ==
  ASSUME NEW p \in Pools, NEW q \in Pools, NEW s \in Slots, NEW new \in Slots, Halved(p, q, s, new),
         NEW a \in SlotIndex, Path(p, a, ChainIn(p, a)), ~Contains(ChainIn(p, a), new)
  PROVE  /\ Carried(p, q, a)
         /\ \A t : Contains(ChainIn(q, a), t) =>
              Contains(ChainIn(p, a), t) \/ (t = new /\ Contains(ChainIn(p, a), s))
<1> DEFINE c == ChainIn(p, a)
           rest == ChainIn(p, p[s].next)
           tail == <<new>> \o rest
<1>1. \A t \in Slots : t # s /\ t # new => q[t].next = p[t].next /\ q[t].data = p[t].data
  BY DEF Halved
<1>2. CASE ~Contains(c, s)
  <2>1. \A t \in Slots : Contains(c, t) => q[t].next = p[t].next /\ q[t].data = p[t].data
    BY <1>1, <1>2
  <2>2. Carried(p, q, a) /\ ChainIn(q, a) = c
    BY <2>1, CarriedFrame
  <2> QED
    BY <2>2
<1>3. CASE Contains(c, s)
  <2>1. rest \in Seq(Slots) /\ \E pre \in Seq(Slots) : c = Cut(pre, s, rest)
    BY <1>3, CutAt
  <2>2. PICK pre \in Seq(Slots) : c = Cut(pre, s, rest)
    BY <2>1
  <2>3. tail \in Seq(Slots) /\ Prefixed(tail, new, rest)
    <3>1. <<new>> \in Seq(Slots)
      OBVIOUS
    <3>2. tail \in Seq(Slots)
      BY <2>1, <3>1, ConcatFacts
    <3> QED
      BY <3>2 DEF Prefixed
  <2>4. Path(p, a, Cut(pre, s, rest)) /\ ~Contains(Cut(pre, s, rest), new) /\ Contains(Cut(pre, s, rest), s)
    BY <1>3, <2>2
  <2> HIDE DEF c, rest, tail
  <2> DEFINE d == Cut(pre, s, tail)
  <2>5. /\ p \in Pools /\ q \in Pools /\ a \in SlotIndex /\ s \in Slots /\ new \in Slots
        /\ rest \in Seq(Slots) /\ tail \in Seq(Slots) /\ Prefixed(tail, new, rest)
        /\ Path(p, a, Cut(pre, s, rest)) /\ ~Contains(Cut(pre, s, rest), new) /\ Halved(p, q, s, new)
    BY <2>1, <2>3, <2>4
  <2>6. Path(q, a, d)
    BY <2>5, SplitPath
  <2>7. Content(q, d) = Content(p, Cut(pre, s, rest))
    BY <2>5, SplitPath
  <2>8. \A t : Contains(d, t) <=> Contains(Cut(pre, s, rest), t) \/ t = new
    BY <2>5, SplitPath
  <2> HIDE DEF d
  <2>9. ChainIn(q, a) = d
    BY <2>6, ChainIsPath
  <2> QED
    BY <2>2, <2>4, <2>6, <2>7, <2>8, <2>9 DEF Carried, c
<1> QED
  BY <1>2, <1>3

LEMMA CarriedTwice ==
  ASSUME NEW p, NEW q, NEW r, NEW a, Carried(p, q, a), Carried(q, r, a)
  PROVE  Carried(p, r, a)
BY DEF Carried

\* What fbuf_connect does to the slots: it splits slot s at n, when n is not 0,
\* and appends to slot blast.
Connected(q, b, x, s, n, new) ==
  /\ q \in Pools /\ s \in Slots /\ InChain(x, s) /\ n \in Nat
  /\ n = 0 => q = pool
  /\ n # 0 => new \in Slots /\ Halved(pool, q, s, new) /\ Len(q[s].data) <= Len(pool[s].data)
  /\ n # 0 => \A g \in Handles : ~InChain(g, new)
  /\ \A t \in Slots : pool'[t].data = q[t].data /\ (t # Last(ChainOf(b)) => pool'[t].next = q[t].next)
  /\ pool' \in Pools

LEMMA ConnectedCarries ==
  ASSUME ReadInv, NEW b \in Handles, NEW x \in Handles, b # x, phase[b] = "building",
         InChain(b, Last(ChainOf(b))), NEW q, NEW s, NEW n, NEW new, Connected(q, b, x, s, n, new),
         NEW g \in Handles, g # b, NEW a \in SlotIndex, Path(pool, a, ChainIn(pool, a)),
         \A t : Contains(ChainIn(pool, a), t) => InChain(g, t)
  PROVE  /\ Carried(pool, pool', a) /\ ChainIn(pool', a) = ChainIn(q, a)
         /\ \A t : Contains(ChainIn(q, a), t) => InChain(g, t) \/ (n # 0 /\ t = new)
<1> DEFINE p == pool
           r == pool'
           blast == Last(ChainOf(b))
<1>1. /\ p \in Pools /\ q \in Pools /\ s \in Slots /\ n \in Nat /\ r \in Pools
      /\ \A t \in Slots : r[t].data = q[t].data /\ (t # blast => r[t].next = q[t].next)
  BY DEF Connected, ReadInv, FbufInv, FbufTypes
<1>2. Carried(p, q, a) /\ \A t : Contains(ChainIn(q, a), t) => InChain(g, t) \/ (n # 0 /\ t = new)
  <2>1. CASE n = 0
    <3>1. q = p
      BY <2>1 DEF Connected
    <3> QED
      BY <3>1 DEF Carried
  <2>2. CASE n # 0
    <3>1. new \in Slots /\ Halved(p, q, s, new) /\ ~InChain(g, new)
      BY <2>2 DEF Connected
    <3>2. ~Contains(ChainIn(p, a), new)
      BY <3>1
    <3> HIDE DEF p
    <3>3. /\ Carried(p, q, a)
          /\ \A t : Contains(ChainIn(q, a), t) =>
               Contains(ChainIn(p, a), t) \/ (t = new /\ Contains(ChainIn(p, a), s))
      BY <1>1, <3>1, <3>2, SplitCarried DEF p
    <3> QED
      BY <2>2, <3>3 DEF p
  <2> QED
    BY <2>1, <2>2
<1>3. \A t \in Slots : Contains(ChainIn(q, a), t) => t # blast
  <2>1. blast \in Slots \/ \A t \in Slots : t # blast
    OBVIOUS
  <2>2. blast \in Slots => ~InChain(g, blast)
    BY DEF ReadInv, FbufInv, Owned
  <2>3. n # 0 => new # blast
    BY DEF Connected
  <2> QED
    BY <1>2, <2>2, <2>3
<1>4. Path(q, a, ChainIn(q, a))
  BY <1>2 DEF Carried
<1>5. \A t \in Slots : Contains(ChainIn(q, a), t) => r[t].next = q[t].next /\ r[t].data = q[t].data
  BY <1>1, <1>3
<1> HIDE DEF r, p, blast
<1>6. Carried(q, r, a) /\ ChainIn(r, a) = ChainIn(q, a)
  BY <1>1, <1>4, <1>5, CarriedFrame
<1>7. Carried(p, r, a)
  BY <1>2, <1>6, CarriedTwice
<1> QED
  BY <1>2, <1>6, <1>7 DEF p, r

\* A reader of another packet than the new header.
LEMMA ReadConnected ==
  ASSUME ReadInv, FbufInv', NEW b \in Handles, NEW x \in Handles, b # x, phase[b] = "building",
         InChain(b, Last(ChainOf(b))), NEW q, NEW s, NEW n, NEW new, Connected(q, b, x, s, n, new),
         NEW g \in Handles, g # b,
         fb'[g].head = fb[g].head /\ fb'[g].rslot = fb[g].rslot /\ fb'[g].rpos = fb[g].rpos,
         nread'[g] = nread[g] /\ text'[g] = text[g] /\ (phase'[g] = "building" => phase[g] = "building")
  PROVE  ReadOK(g)'
<1> DEFINE p == pool
           r == pool'
           head == fb[g].head
           rslot == fb[g].rslot
           rpos == fb[g].rpos
           m == nread[g]
           t == text[g]
           c == ChainOf(g)
<1>1. /\ p \in Pools /\ r \in Pools /\ head \in SlotIndex /\ ChainIn(p, head) = c /\ Path(p, head, c)
  BY ReadFacts DEF ReadInv, FbufInv, FbufTypes
<1>2. ReadOK(g) /\ ReaderIn(p, head, rslot, rpos, m, t) /\ m \in Int /\ Starting(g)
  BY DEF ReadInv, ReadOK
<1>3. /\ Carried(p, r, head) /\ ChainIn(r, head) = ChainIn(q, head)
      /\ \A u : Contains(ChainIn(q, head), u) => InChain(g, u) \/ (n # 0 /\ u = new)
  <2>1. head \in SlotIndex /\ Path(pool, head, ChainIn(pool, head))
    BY <1>1
  <2>2. \A u : Contains(ChainIn(pool, head), u) => InChain(g, u)
    BY <1>1 DEF InChain
  <2> HIDE DEF head
  <2>3. /\ Carried(pool, pool', head) /\ ChainIn(pool', head) = ChainIn(q, head)
        /\ \A u : Contains(ChainIn(q, head), u) => InChain(g, u) \/ (n # 0 /\ u = new)
    BY <2>1, <2>2, ConnectedCarries
  <2> QED
    BY <2>3
<1>4. ASSUME m # Unset, t # << >>, rslot # NILPTR
      PROVE  Carried(p, r, rslot) /\ (rpos < Len(r[rslot].data) => rpos < Len(p[rslot].data))
  <2>1. Contains(c, rslot) /\ rpos \in Nat
    BY <1>1, <1>2, <1>4 DEF ReaderIn
  <2>2. /\ rslot \in Slots /\ Path(p, rslot, ChainIn(p, rslot))
        /\ \A u : Contains(ChainIn(p, rslot), u) => Contains(c, u)
    BY <1>1, <2>1, Suffix
  <2>3. Carried(p, r, rslot)
    <3>1. rslot \in SlotIndex /\ Path(pool, rslot, ChainIn(pool, rslot))
      BY <2>2 DEF SlotIndex
    <3>2. \A u : Contains(ChainIn(pool, rslot), u) => InChain(g, u)
      BY <2>2 DEF InChain
    <3> HIDE DEF rslot
    <3>3. Carried(pool, pool', rslot)
      BY <3>1, <3>2, ConnectedCarries
    <3> QED
      BY <3>3
  <2>4. rpos < Len(r[rslot].data) => rpos < Len(p[rslot].data)
    <3>1. CASE rslot = s /\ n # 0
      <4>1. r[rslot].data = q[s].data /\ Len(q[s].data) <= Len(p[s].data)
        BY <2>2, <3>1 DEF Connected
      <4>2. q[s].data \in Seq(Bytes) /\ p[s].data \in Seq(Bytes)
        BY <1>1, <2>2, <3>1 DEF Connected, Pools
      <4> DEFINE i == Len(q[s].data)
                 j == Len(p[s].data)
      <4>3. i \in Nat /\ j \in Nat /\ i <= j /\ rpos \in Nat
        BY <2>1, <4>1, <4>2
      <4> HIDE DEF i, j, rpos
      <4>4. rpos < i => rpos < j
        BY <4>3
      <4> QED
        BY <3>1, <4>1, <4>4 DEF i, j
    <3>2. CASE rslot # s \/ n = 0
      <4>1. rslot # new \/ n = 0
        BY <2>1 DEF Connected, InChain
      <4>2. r[rslot].data = q[rslot].data
        BY <2>2 DEF Connected
      <4>3. q[rslot].data = p[rslot].data
        BY <2>2, <3>2, <4>1 DEF Connected, Halved
      <4> QED
        BY <4>2, <4>3
    <3> QED
      BY <3>1, <3>2
  <2> QED
    BY <2>3, <2>4
<1>6. Starting(g)'
  BY <1>2 DEF Starting
<1> HIDE DEF p, r, head, rslot, rpos, m, t, c
<1>7. ReaderIn(r, head, rslot, rpos, m, t)
  BY <1>1, <1>2, <1>3, <1>4, ReaderCarried
<1>8. ReaderIn(pool', fb'[g].head, fb'[g].rslot, fb'[g].rpos, nread'[g], text'[g]) /\ nread'[g] \in Int
  BY <1>2, <1>7 DEF r, head, rslot, rpos, m, t
<1> QED
  BY <1>6, <1>8 DEF ReadOK

LEMMA IsConnected ==
  ASSUME HeaderPast = 0, ReadInv, NEW b \in Handles, NEW x \in Handles, NEW pos \in Nat,
         Connect(b, x, pos), NEW s, NEW n, NEW q,
         s = SplitPlace(x, pos).slot /\ n = SplitPlace(x, pos).off /\ q = Split(s, n, FirstFree)
  PROVE  Connected(q, b, x, s, n, FirstFree)
<1> DEFINE new == FirstFree
           blast == Last(ChainOf(b))
<1>0. FbufInv /\ pool \in Pools
  BY DEF ReadInv, FbufInv, FbufTypes
<1>1. /\ q \in Pools /\ s \in Slots /\ n \in Nat /\ InChain(x, s) /\ blast \in Slots
      /\ \E tail \in Seq(Slots), head \in SlotIndex :
           ~Contains(tail, blast) /\ Linked(pool', q, blast, tail, head)
  BY <1>0, ConnectStep
<1>2. n <= Len(pool[s].data) /\ (n > 0 => new # NILPTR)
  <2>1. fb[x].length \in Nat /\ fb[x].length + HeaderPast = fb[x].length
    BY <1>0 DEF FbufInv, FbufTypes, FbTypes
  <2> QED
    BY <2>1 DEF Connect
<1>3. PICK tail \in Seq(Slots), head \in SlotIndex :
        ~Contains(tail, blast) /\ Linked(pool', q, blast, tail, head)
  BY <1>1
<1>4. /\ pool' \in Pools
      /\ \A t \in Slots : pool'[t].data = q[t].data /\ (t # blast => pool'[t].next = q[t].next)
  <2> HIDE DEF blast
  <2>1. /\ pool' \in Pools
        /\ \A t \in Slots :
             /\ pool'[t].data = q[t].data
             /\ pool'[t].next = IF t = blast THEN head ELSE q[t].next
             /\ pool'[t].refcnt = IF Contains(tail, t) THEN q[t].refcnt + 1 ELSE q[t].refcnt
    BY <1>1, <1>3, LinkPool
  <2> QED
    BY <2>1
<1>5. n = 0 => q = pool
  BY DEF Split
<1>6. ASSUME n # 0
      PROVE  /\ new \in Slots /\ Halved(pool, q, s, new) /\ Len(q[s].data) <= Len(pool[s].data)
             /\ \A g \in Handles : ~InChain(g, new)
  <2>1. new # NILPTR
    BY <1>1, <1>2, <1>6
  <2>2. new \in Slots /\ \A g \in Handles : ~InChain(g, new)
    BY <1>0, <2>1, FirstFreeFacts, SlotFacts
  <2>3. s # new
    BY <1>1, <2>2
  <2> HIDE DEF new
  <2>4. q = Split(s, n, new)
    BY DEF new
  <2>5. /\ q[s].next = new /\ q[new].next = pool[s].next /\ Two(pool[s].data, q[s].data, q[new].data)
        /\ Len(q[s].data) = n /\ Len(q[new].data) = Len(pool[s].data) - n
        /\ \A t \in Slots : t # s /\ t # new => q[t] = pool[t]
    <3>1. /\ pool \in Pools /\ s \in Slots /\ new \in Slots /\ s # new
          /\ n \in Nat /\ n # 0 /\ n <= Len(pool[s].data)
      BY <1>0, <1>1, <1>2, <1>6, <2>2, <2>3
    <3>2. HalfIn(Split(s, n, new), s, n, new)
      BY <3>1, SplitHalf, Zenon
    <3>3. HalfIn(q, s, n, new)
      BY <2>4, <3>2, Zenon
    <3> QED
      BY <3>3, Zenon DEF HalfIn
  <2>6. Halved(pool, q, s, new)
    BY <2>5 DEF Halved
  <2> QED
    BY <1>2, <2>2, <2>5, <2>6
<1> QED
  BY <1>1, <1>4, <1>5, <1>6 DEF Connected

LEMMA ReadConnect ==
  ASSUME HeaderPast = 0, ReadInv, NEW b \in Handles, NEW x \in Handles, NEW pos \in Nat,
         Connect(b, x, pos), FbufInv', NEW g \in Handles
  PROVE  ReadOK(g)'
<1> DEFINE s == SplitPlace(x, pos).slot
           n == SplitPlace(x, pos).off
           new == FirstFree
           q == Split(s, n, new)
<1>0. FbufInv /\ pool \in Pools /\ FbTypes
  BY DEF ReadInv, FbufInv, FbufTypes
<1>8. fb[x].length \in Nat /\ fb[x].length + HeaderPast = fb[x].length
  BY <1>0 DEF FbTypes
<1>1. /\ b # x /\ phase[b] = "building" /\ fb[b].length > 0
      /\ pos \in 1..fb[x].length /\ phase[x] # "free"
      /\ fb' = [fb EXCEPT ![b].wslot = NILPTR, ![x].wslot = NILPTR,
                          ![b].length = @ + fb[x].length - pos]
      /\ phase' = [phase EXCEPT ![b] = "shared", ![x] = "shared"]
      /\ text' = [text EXCEPT ![b] = @ \o SubSeq(text[x], pos + 1, Len(text[x]))]
      /\ nread' = nread
  BY <1>8 DEF Connect, Live
<1>2. /\ InChain(b, Last(ChainOf(b)))
      /\ \A t : Contains(ChainIn(pool', fb'[b].head), t)
                  => InChain(b, t) \/ Contains(ChainIn(q, fb[x].head), t)
  BY <1>0, ConnectStep
<1>3. Connected(q, b, x, s, n, new)
  <2>1. s = SplitPlace(x, pos).slot /\ n = SplitPlace(x, pos).off /\ q = Split(s, n, new)
    OBVIOUS
  <2> HIDE DEF s, n, q
  <2> QED
    BY <2>1, IsConnected
<1> HIDE DEF s, n, q, new
<1>4. /\ fb'[g].head = fb[g].head /\ fb'[g].rslot = fb[g].rslot /\ fb'[g].rpos = fb[g].rpos
      /\ nread'[g] = nread[g]
  <2>1. fb[x].length \in Nat
    BY <1>0 DEF FbTypes
  <2>2. pos <= fb[x].length
    BY <1>1, <2>1
  <2> QED
    BY <1>0, <1>1, <2>2, LinkHandles
<1>5. /\ phase \in [Handles -> {"free", "building", "written", "shared"}]
      /\ text \in [Handles -> Seq(Bytes)]
  BY <1>0 DEF FbufInv, FbufTypes
<1>6. CASE g # b
  <2>1. text'[g] = text[g] /\ (phase'[g] = "building" => phase[g] = "building")
    BY <1>1, <1>5, <1>6
  <2> QED
    BY <1>1, <1>2, <1>3, <1>4, <1>6, <2>1, ReadConnected
<1>7. CASE g = b
  <2>1. fb'[b].rslot = fb'[b].head /\ fb'[b].rpos = 0 /\ nread'[b] = 0
    BY <1>1, <1>4, <1>7 DEF ReadInv, ReadOK, Starting
  <2> QED
    BY <1>7, <2>1, ReadStart
<1> QED
  BY <1>6, <1>7

LEMMA ReadInit == Init => ReadInv
<1> SUFFICES ASSUME Init PROVE ReadInv
  OBVIOUS
<1>1. FbufInv
  BY InvInit
<1>2. \A h \in Handles : text[h] = << >> /\ nread[h] = Unset /\ phase[h] = "free"
  BY DEF Init
<1>3. nread \in [Handles -> Int] /\ Unset \in Int
  BY DEF Init, Unset
<1>4. \A h \in Handles : ReadOK(h)
  BY <1>2, <1>3 DEF ReadOK, Starting, ReaderIn
<1> QED
  BY <1>1, <1>3, <1>4 DEF ReadInv

\* The inductive invariant of the readers.
LEMMA ReadInvariant ==
  ASSUME HeaderPast = 0
  PROVE  Spec => []ReadInv
<1>1. ASSUME ReadInv, [Next]_vars PROVE ReadInv'
  <2>0. FbufInv /\ nread \in [Handles -> Int] /\ \A g \in Handles : ReadOK(g)
    BY <1>1 DEF ReadInv
  <2>1. CASE UNCHANGED vars
    <3>1. /\ pool' = pool /\ free_slots' = free_slots /\ fb' = fb /\ phase' = phase /\ text' = text
          /\ nread' = nread
      BY <2>1 DEF vars
    <3>2. FbufInv'
      BY <2>0, <3>1 DEF FbufInv, FbufTypes, FbTypes, Chains, FreeHandles, Owned, Filled, Writable,
         References, Texts, FreeExact, FreeSet, Users, InChain, ChainOf, Chain
    <3>3. \A g \in Handles : ReadOK(g)'
      BY <2>0, <3>1 DEF ReadOK, Starting, InChain, ChainOf, Chain
    <3> QED
      BY <2>0, <3>1, <3>2, <3>3 DEF ReadInv
  <2>2. CASE Next
    <3>1. PICK h \in Handles :
            \/ New(h) \/ PutChar(h) \/ RemoveLast(h) \/ Release(h)
            \/ Reset(h) \/ GetChar(h)
            \/ \E pos \in 0..2*MaxLength : Rseek(h, pos)
            \/ \E g \in Handles : NewRef(h, g)
            \/ \E x \in Handles, pos \in 1..2*MaxLength : Connect(h, x, pos)
      BY <2>2 DEF Next
    <3>2. FbufInv'
      <4>1. CASE New(h)
        BY <2>0, <4>1, NewStep
      <4>2. CASE PutChar(h)
        BY <2>0, <4>2, PutInSlot, PutNewSlot
      <4>3. CASE RemoveLast(h)
        BY <2>0, <4>3, RemoveStep
      <4>4. CASE Release(h)
        BY <2>0, <4>4, ReleaseStep
      <4>5. CASE Reset(h) \/ GetChar(h) \/ \E pos \in 0..2*MaxLength : Rseek(h, pos)
        BY <2>0, <4>5, ReadersStep
      <4>6. CASE \E g \in Handles : NewRef(h, g)
        BY <2>0, <4>6, NewRefStep
      <4>7. CASE \E x \in Handles, pos \in 1..2*MaxLength : Connect(h, x, pos)
        <5>1. PICK x \in Handles, pos \in 1..2*MaxLength : Connect(h, x, pos)
          BY <4>7
        <5>2. pos \in Nat
          OBVIOUS
        <5> QED
          BY <2>0, <5>1, <5>2, ConnectStep
      <4> QED
        BY <3>1, <4>1, <4>2, <4>3, <4>4, <4>5, <4>6, <4>7
    <3>3. nread' \in [Handles -> Int]
      <4>1. /\ nread' = nread \/ \E k \in Handles, m \in Int : nread' = [nread EXCEPT ![k] = m]
        <5>1. 0 \in Int /\ Unset \in Int /\ nread[h] + 1 \in Int
          BY <2>0 DEF Unset
        <5>2. \A pos \in 0..2*MaxLength : pos \in Int
          OBVIOUS
        <5>3. CASE New(h) \/ RemoveLast(h) \/ Release(h) \/ Reset(h) \/ PutChar(h)
          BY <5>1, <5>3 DEF New, RemoveLast, Release, Reset, PutChar
        <5>4. CASE GetChar(h)
          BY <5>1, <5>4 DEF GetChar
        <5>5. CASE \E pos \in 0..2*MaxLength : Rseek(h, pos)
          BY <5>2, <5>5 DEF Rseek
        <5>6. CASE \E g \in Handles : NewRef(h, g)
          BY <5>1, <5>6 DEF NewRef
        <5>7. CASE \E x \in Handles, pos \in 1..2*MaxLength : Connect(h, x, pos)
          BY <5>7 DEF Connect
        <5> QED
          BY <3>1, <5>3, <5>4, <5>5, <5>6, <5>7
      <4> QED
        BY <2>0, <4>1
    <3>4. \A g \in Handles : ReadOK(g)'
      <4>1. CASE New(h)
        BY <1>1, <3>2, <4>1, ReadNew
      <4>2. CASE PutChar(h)
        BY <1>1, <3>2, <4>2, ReadPut
      <4>3. CASE RemoveLast(h)
        BY <1>1, <3>2, <4>3, ReadRemove
      <4>4. CASE Release(h)
        BY <1>1, <3>2, <4>4, ReadRelease
      <4>5. CASE Reset(h)
        BY <1>1, <3>2, <4>5, ReadReset
      <4>6. CASE GetChar(h)
        BY <1>1, <3>2, <4>6, ReadGetChar
      <4>7. CASE \E pos \in 0..2*MaxLength : Rseek(h, pos)
        <5>1. PICK pos \in 0..2*MaxLength : Rseek(h, pos)
          BY <4>7
        <5>2. pos \in Nat
          OBVIOUS
        <5> QED
          BY <1>1, <3>2, <5>1, <5>2, ReadRseek
      <4>8. CASE \E g \in Handles : NewRef(h, g)
        BY <1>1, <3>2, <4>8, ReadNewRef
      <4>9. CASE \E x \in Handles, pos \in 1..2*MaxLength : Connect(h, x, pos)
        <5>1. PICK x \in Handles, pos \in 1..2*MaxLength : Connect(h, x, pos)
          BY <4>9
        <5>2. pos \in Nat
          OBVIOUS
        <5> QED
          BY <1>1, <3>2, <5>1, <5>2, ReadConnect
      <4> QED
        BY <3>1, <4>1, <4>2, <4>3, <4>4, <4>5, <4>6, <4>7, <4>8, <4>9
    <3> QED
      BY <3>2, <3>3, <3>4 DEF ReadInv
  <2> QED
    BY <1>1, <2>1, <2>2
<1> QED
  BY <1>1, ReadInit, PTL DEF Spec

LEMMA CutBefore ==
  ASSUME NEW s \in Slots, NEW pre \in Seq(Slots), NEW rest \in Seq(Slots)
  PROVE  /\ Len(pre) + 1 \in 1..Len(Cut(pre, s, rest)) /\ Cut(pre, s, rest)[Len(pre) + 1] = s
         /\ SubSeq(Cut(pre, s, rest), 1, Len(pre)) = pre
<1> DEFINE one == <<s>>
           tail == one \o rest
           c == pre \o tail
           n == Len(pre)
           a == SubSeq(c, 1, n)
<1>1. one \in Seq(Slots) /\ Len(one) = 1 /\ one[1] = s
  OBVIOUS
<1> HIDE DEF one
<1>2. tail \in Seq(Slots) /\ Len(tail) = 1 + Len(rest) /\ tail[1] = s
  <2>1. /\ tail \in Seq(Slots) /\ Len(tail) = Len(one) + Len(rest)
        /\ \A j \in 1..Len(one)+Len(rest) : tail[j] = IF j <= Len(one) THEN one[j] ELSE rest[j - Len(one)]
    BY <1>1, ConcatIndex
  <2> QED
    BY <1>1, <2>1
<1> HIDE DEF tail
<1>3. /\ c \in Seq(Slots) /\ Len(c) = n + Len(tail)
      /\ \A j \in 1..n+Len(tail) : c[j] = IF j <= n THEN pre[j] ELSE tail[j - n]
  <2>1. tail \in Seq(Slots)
    BY <1>2
  <2> QED
    BY <2>1
<1>4. n \in Nat /\ Len(rest) \in Nat
  OBVIOUS
<1> HIDE DEF c, n
<1>5. n + 1 \in 1..Len(c) /\ c[n + 1] = s
  <2> DEFINE m == Len(tail)
  <2>1. m \in Nat /\ m >= 1
    BY <1>2, <1>4
  <2>2. Len(c) = n + m
    BY <1>3
  <2>3. n + 1 \in 1..n+m /\ ~(n + 1 <= n) /\ (n + 1) - n = 1
    <3> HIDE DEF m
    <3> QED
      BY <1>4, <2>1
  <2>4. \A j \in 1..n+m : c[j] = IF j <= n THEN pre[j] ELSE tail[j - n]
    BY <1>3
  <2> HIDE DEF m
  <2>5. c[n + 1] = s
    <3> DEFINE k == n + 1
    <3>1. k \in 1..n+m /\ ~(k <= n) /\ k - n = 1
      BY <2>3
    <3> HIDE DEF k
    <3>2. c[k] = IF k <= n THEN pre[k] ELSE tail[k - n]
      BY <2>4, <3>1, Zenon
    <3>3. c[k] = s
      BY <1>2, <3>1, <3>2
    <3> QED
      BY <3>3 DEF k
  <2> QED
    BY <2>2, <2>3, <2>5
<1>6. \A i \in 1..n : c[i] \in Slots /\ c[i] = pre[i]
  BY <1>2, <1>3, <1>4 DEF n
<1>7. /\ a \in Seq(Slots) /\ Len(a) = (IF 1 <= n THEN n - 1 + 1 ELSE 0)
      /\ \A i \in 1..n-1+1 : a[i] = c[1+i-1]
  BY <1>4, <1>6, SubSeqProperties
<1> HIDE DEF a
<1>8. Len(a) = n /\ \A i \in 1..n : a[i] = pre[i]
  BY <1>4, <1>6, <1>7
<1>9. a = pre
  BY <1>7, <1>8, SeqEqual DEF n
<1> QED
  BY <1>5, <1>9 DEF a, c, n, tail, one, Cut

\* The reader of h in the terms of ReaderExact.
LEMMA ReaderIs ==
  ASSUME ReadInv, NEW h \in Handles
  PROVE  ReaderOK(h)
<1> SUFFICES ASSUME nread[h] # Unset, text[h] # << >>
             PROVE  /\ fb[h].rslot = NILPTR => nread[h] = Len(text[h])
                    /\ AtByte(h) =>
                         \E i \in 1..Len(ChainOf(h)) :
                           fb[h].rslot = ChainOf(h)[i] /\ nread[h] = BytesBefore(h, i) + fb[h].rpos
  BY DEF ReaderOK
<1> DEFINE s == fb[h].rslot
           q == fb[h].rpos
           n == nread[h]
           t == text[h]
           c == ChainOf(h)
           all == Content(pool, ChainIn(pool, s))
           size == Len(pool[s].data)
<1>1. /\ pool \in Pools /\ fb[h].head \in SlotIndex /\ Path(pool, fb[h].head, c) /\ Len(t) \in Nat
      /\ t = Content(pool, c) /\ ChainIn(pool, fb[h].head) = c /\ c \in Seq(Slots)
  BY ReadFacts DEF ReadInv
<1>2. ReaderIn(pool, fb[h].head, s, q, n, t) /\ n \in Int
  BY DEF ReadInv, ReadOK
<1>3. /\ q \in Nat
      /\ s = NILPTR => n = Len(t)
      /\ s # NILPTR => Contains(c, s) /\ (q < size => n + Len(all) = Len(t) + q)
  BY <1>1, <1>2 DEF ReaderIn
<1>5. ASSUME AtByte(h)
      PROVE  \E i \in 1..Len(c) : s = c[i] /\ n = BytesBefore(h, i) + q
  <2>0. s # NILPTR /\ n + Len(all) = Len(t) + q
    BY <1>3, <1>5 DEF AtByte
  <2> DEFINE rest == ChainIn(pool, pool[s].next)
  <2>1. s \in Slots /\ rest \in Seq(Slots) /\ \E pre \in Seq(Slots) : c = Cut(pre, s, rest)
    BY <1>1, <1>3, <2>0, CutAt
  <2>2. PICK pre \in Seq(Slots) : c = Cut(pre, s, rest)
    BY <2>1
  <2>3. pool[s].data \in Seq(Bytes)
    BY <1>1, <2>1 DEF Pools
  <2> DEFINE y == Content(pool, pre)
             d == pool[s].data
             z == Content(pool, rest)
  <2>4. all = d \o z /\ z \in Seq(Bytes) /\ y \in Seq(Bytes) /\ d \in Seq(Bytes)
    <3>1. Content(pool, ChainIn(pool, s)) = pool[s].data \o Content(pool, rest) /\ Content(pool, rest) \in Seq(Bytes)
      BY <1>1, <1>3, <2>0, Suffix
    <3>2. y \in Seq(Bytes)
      BY <1>1, ContentType
    <3> QED
      BY <2>3, <3>1, <3>2
  <2> HIDE DEF rest
  <2>5. t = Join(y, d, z)
    <3>1. Path(pool, fb[h].head, Cut(pre, s, rest))
      BY <1>1, <2>2
    <3>2. Content(pool, Cut(pre, s, rest)) = Join(Content(pool, pre), pool[s].data, Content(pool, rest))
      BY <1>1, <2>1, <3>1, CutFacts
    <3> QED
      BY <1>1, <2>2, <3>2
  <2>6. n = Len(y) + q
    <3> HIDE DEF y, d, z, all, n, q, t
    <3>1. d \o z \in Seq(Bytes) /\ Len(d \o z) = Len(d) + Len(z)
      BY <2>4, ConcatSeq
    <3> DEFINE e == d \o z
    <3>2. e \in Seq(Bytes) /\ Len(e) = Len(all)
      BY <2>4, <3>1
    <3>3. t = y \o e
      BY <2>5 DEF Join
    <3> HIDE DEF e
    <3>4. Len(t) = Len(y) + Len(e)
      <4>1. Len(y \o e) = Len(y) + Len(e)
        BY <2>4, <3>2, ConcatFacts
      <4> QED
        BY <3>3, <4>1
    <3> DEFINE k == Len(all)
               m == Len(y)
    <3>5. k \in Nat /\ m \in Nat /\ q \in Nat /\ n \in Int /\ n + k = m + k + q
      BY <1>2, <1>3, <2>0, <2>4, <3>2, <3>4
    <3> HIDE DEF k, m
    <3>6. n = m + q
      BY <3>5
    <3> QED
      BY <3>6 DEF m
  <2>7. /\ Len(pre) + 1 \in 1..Len(c) /\ c[Len(pre) + 1] = s /\ SubSeq(c, 1, Len(pre)) = pre
    <3> HIDE DEF s, c
    <3>1. /\ Len(pre) + 1 \in 1..Len(Cut(pre, s, rest)) /\ Cut(pre, s, rest)[Len(pre) + 1] = s
          /\ SubSeq(Cut(pre, s, rest), 1, Len(pre)) = pre
      BY <2>1, CutBefore
    <3> QED
      BY <2>2, <3>1
  <2> DEFINE i == Len(pre) + 1
  <2>8. i - 1 = Len(pre)
    OBVIOUS
  <2>9. i \in 1..Len(c) /\ c[i] = s /\ SubSeq(c, 1, i - 1) = pre
    BY <2>7, <2>8
  <2> HIDE DEF i
  <2>10. BytesBefore(h, i) = Len(y)
    BY <2>9 DEF BytesBefore
  <2> QED
    BY <2>6, <2>9, <2>10
<1> QED
  BY <1>3, <1>5

(***************************************************************************)
(* A reader that stands at a byte stands at the one it is to read next,    *)
(* and one that is at fbuf_eof has read the packet to its end, whatever is *)
(* split and released meanwhile; of a reader that stands behind the end of *)
(* its slot this says nothing.                                             *)
(***************************************************************************)
THEOREM ReaderExactHolds ==
  ASSUME HeaderPast = 0
  PROVE  Spec => []ReaderExact
<1>1. ReadInv => ReaderExact
  BY ReaderIs DEF ReaderExact, Live
<1> QED
  BY <1>1, ReadInvariant, PTL

=============================================================================
