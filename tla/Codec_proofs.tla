---------------------------- MODULE Codec_proofs ----------------------------
(***************************************************************************)
(* Reading back what encode_schedule wrote, for every programme: which     *)
(* bytes are where, what the decoder has at each of them, and what it can  *)
(* no longer put right once it has taken a byte for another.               *)
(***************************************************************************)
EXTENDS Codec, SequenceTheorems, FiniteSetTheorems, WellFoundedInduction, TLAPS

-----------------------------------------------------------------------------
(* Recursion                                                               *)

(* Induction over the natural numbers, for a set.                          *)
LEMMA StrongInduction ==
  ASSUME NEW S \in SUBSET Nat,
         \A m \in Nat : (\A k \in 0 .. m - 1 : k \in S) => m \in S
  PROVE  \A m \in Nat : m \in S
<1> DEFINE T == Nat \ S
           Below(x) == 0 .. x - 1
           Family == {Below(x) : x \in T}
<1>1. SUFFICES ASSUME T # {} PROVE FALSE
  OBVIOUS
<1>2. Family \subseteq FiniteSubsetsOf(Nat)
  <2>1. ASSUME NEW x \in T PROVE Below(x) \in FiniteSubsetsOf(Nat)
    <3>1. x - 1 \in Int /\ 0 \in Int
      OBVIOUS
    <3>2. IsFiniteSet(0 .. x - 1)
      BY <3>1, FS_Interval
    <3>3. 0 .. x - 1 \in SUBSET Nat
      OBVIOUS
    <3>4. QED
      BY <3>2, <3>3 DEF FiniteSubsetsOf
  <2>2. QED
    BY <2>1
<1>3. Family # {}
  BY <1>1
<1>4. IsWellFoundedOn(StrictSubsetOrdering(Nat), FiniteSubsetsOf(Nat))
  BY FS_StrictSubsetOrderingWellFounded
<1> HIDE DEF Family
<1>5. \E F \in Family : \A G \in Family : ~ (<<G, F>> \in StrictSubsetOrdering(Nat))
  BY <1>2, <1>3, <1>4, WFMin
<1>6. PICK x \in T : \A G \in Family : ~ (<<G, Below(x)>> \in StrictSubsetOrdering(Nat))
  BY <1>5 DEF Family
<1>7. ASSUME NEW y \in Below(x) PROVE y \in S
  <2>1. SUFFICES ASSUME y \notin S PROVE FALSE
    OBVIOUS
  <2>2. Below(y) \in Family
    BY <2>1 DEF Family
  <2>3. /\ Below(y) \subseteq Below(x)
        /\ y \in Below(x) /\ y \notin Below(y)
    BY <2>1
  <2>4. Below(y) \in SUBSET Nat /\ Below(x) \in SUBSET Nat
    OBVIOUS
  <2>5. <<Below(y), Below(x)>> \in StrictSubsetOrdering(Nat)
    BY <2>3, <2>4 DEF StrictSubsetOrdering
  <2>6. QED
    BY <1>6, <2>2, <2>5
<1>8. QED
  BY <1>7

Codes == [BOOLEAN -> Seq(Byte)]

LEMMA CodesFacts ==
  ASSUME NEW code \in Codes
  PROVE  code[TRUE] \in Seq(Byte) /\ code[FALSE] \in Seq(Byte)
BY Zenon DEF Codes

(* One turn of the recursion of GapBytes.                                  *)
GapTurn(g, units) ==
  [useC9 \in BOOLEAN |->
     IF units < ContC9Value
       THEN <<units>>
       ELSE IF useC9 \/ units < ContFFValue
         THEN <<ContC9>> \o g[units - ContC9Value][FALSE]
         ELSE <<ContFF, 0>> \o g[units - ContFFValue][TRUE]]

LEMMA GapTurnType ==
  ASSUME NEW units \in Nat, NEW g,
         \A u \in 0 .. units - 1 : g[u] \in Codes
  PROVE  GapTurn(g, units) \in Codes
<1>1. SUFFICES ASSUME NEW useC9 \in BOOLEAN
      PROVE  GapTurn(g, units)[useC9] \in Seq(Byte)
  BY DEF GapTurn, Codes
<1>2. CASE units < ContC9Value
  BY <1>2 DEF GapTurn, Byte, ContC9Value
<1>3. CASE ~ (units < ContC9Value) /\ (useC9 \/ units < ContFFValue)
  <2>1. g[units - ContC9Value][FALSE] \in Seq(Byte)
    <3>1. units - ContC9Value \in 0 .. units - 1
      BY <1>3 DEF ContC9Value
    <3>2. QED
      BY <3>1, CodesFacts
  <2>2. <<ContC9>> \in Seq(Byte)
    BY DEF ContC9, Byte
  <2>3. QED
    BY <1>3, <2>1, <2>2, ConcatProperties DEF GapTurn
<1>4. CASE ~ (units < ContC9Value) /\ ~ (useC9 \/ units < ContFFValue)
  <2>1. g[units - ContFFValue][TRUE] \in Seq(Byte)
    <3>1. units - ContFFValue \in 0 .. units - 1
      BY <1>4 DEF ContFFValue
    <3>2. QED
      BY <3>1, CodesFacts
  <2>2. <<ContFF, 0>> \in Seq(Byte)
    BY DEF ContFF, Byte
  <2>3. QED
    BY <1>4, <2>1, <2>2, ConcatProperties DEF GapTurn
<1>5. QED
  BY <1>2, <1>3, <1>4

(* A turn looks at smaller gaps only.                                      *)
LEMMA GapTurnLocal ==
  ASSUME NEW units \in Nat, NEW g, NEW h,
         \A u \in 0 .. units - 1 : g[u] = h[u]
  PROVE  GapTurn(g, units) = GapTurn(h, units)
<1>1. units >= ContC9Value => g[units - ContC9Value] = h[units - ContC9Value]
  BY DEF ContC9Value
<1>2. units >= ContFFValue => g[units - ContFFValue] = h[units - ContFFValue]
  BY DEF ContFFValue
<1>3. CASE units < ContC9Value
  BY <1>3 DEF GapTurn
<1>4. CASE units >= ContC9Value /\ units < ContFFValue
  <2>1. ~ (units < ContC9Value)
    BY <1>4 DEF ContC9Value
  <2>2. QED
    BY <1>1, <1>4, <2>1 DEF GapTurn
<1>5. CASE units >= ContFFValue
  <2>1. ~ (units < ContC9Value) /\ ~ (units < ContFFValue) /\ units >= ContC9Value
    BY <1>5 DEF ContC9Value, ContFFValue
  <2>2. g[units - ContC9Value] = h[units - ContC9Value]
    BY <1>1, <2>1
  <2>3. QED
    BY <1>2, <1>5, <2>1, <2>2 DEF GapTurn
<1>6. QED
  BY <1>3, <1>4, <1>5 DEF ContC9Value, ContFFValue

(* The recursion up to a limit.                                            *)
Solves(g, m) ==
  /\ g \in [0 .. m -> Codes]
  /\ \A u \in 0 .. m : g[u] = GapTurn(g, u)

LEMMA SolutionsAgree ==
  ASSUME NEW m \in Nat, NEW q \in Nat, NEW g, NEW h, Solves(g, m), Solves(h, q)
  PROVE  \A u \in Nat : u =< m /\ u =< q => g[u] = h[u]
<1> DEFINE S == {u \in Nat : u =< m /\ u =< q => g[u] = h[u]}
<1>1. ASSUME NEW u \in Nat, \A w \in 0 .. u - 1 : w \in S
      PROVE  u \in S
  <2>1. SUFFICES ASSUME u =< m, u =< q PROVE g[u] = h[u]
    OBVIOUS
  <2>2. \A w \in 0 .. u - 1 : g[w] = h[w]
    BY <1>1, <2>1
  <2>3. GapTurn(g, u) = GapTurn(h, u)
    BY <2>2, GapTurnLocal
  <2>4. QED
    BY <2>1, <2>3 DEF Solves
<1>2. \A u \in Nat : u \in S
  <2>1. S \in SUBSET Nat
    OBVIOUS
  <2> HIDE DEF S
  <2>2. QED
    BY <1>1, <2>1, StrongInduction
<1>3. QED
  BY <1>2

LEMMA SolutionsExist == \A m \in Nat : \E g : Solves(g, m)
<1> DEFINE S == {m \in Nat : \E g : Solves(g, m)}
<1>1. ASSUME NEW m \in Nat, \A k \in 0 .. m - 1 : k \in S
      PROVE  m \in S
  <2>1. PICK g : m > 0 => Solves(g, m - 1)
    BY <1>1
  <2> DEFINE h == [u \in 0 .. m |-> IF u = m THEN GapTurn(g, m) ELSE g[u]]
  <2>2. \A u \in 0 .. m - 1 : g[u] \in Codes /\ g[u] = GapTurn(g, u) /\ h[u] = g[u]
    BY <2>1 DEF Solves
  <2>3. GapTurn(g, m) \in Codes
    BY <2>2, GapTurnType
  <2> \A u \in 0 .. m : u = m \/ u \in 0 .. m - 1
    OBVIOUS
  <2>4. h \in [0 .. m -> Codes]
    BY <2>2, <2>3
  <2>5. ASSUME NEW u \in 0 .. m PROVE h[u] = GapTurn(h, u)
    <3>1. \A w \in 0 .. u - 1 : g[w] = h[w]
      BY <2>2
    <3>2. GapTurn(g, u) = GapTurn(h, u)
      BY <3>1, GapTurnLocal
    <3>3. h[u] = GapTurn(g, u)
      <4>1. CASE u = m
        BY <4>1
      <4>2. CASE u \in 0 .. m - 1
        BY <2>2, <4>2
      <4>3. QED
        BY <4>1, <4>2
    <3>4. QED
      BY <3>2, <3>3
  <2> HIDE DEF h
  <2>6. QED
    BY <2>4, <2>5 DEF Solves
<1>2. \A m \in Nat : m \in S
  <2>1. S \in SUBSET Nat
    OBVIOUS
  <2> HIDE DEF S
  <2>2. QED
    BY <1>1, <2>1, StrongInduction
<1>3. QED
  BY <1>2

(* GapBytes is what its definition says it is.                             *)
LEMMA GapBytesIs ==
  /\ GapBytes \in [Nat -> Codes]
  /\ \A units \in Nat : GapBytes[units] = GapTurn(GapBytes, units)
<1> DEFINE Sol(m) == CHOOSE g : Solves(g, m)
           f == [u \in Nat |-> Sol(u)[u]]
<1>1. \A m \in Nat : Solves(Sol(m), m)
  BY SolutionsExist
<1> HIDE DEF Sol
<1>2. ASSUME NEW u \in Nat
      PROVE  f[u] = GapTurn(f, u) /\ f[u] \in Codes
  <2>1. ASSUME NEW w \in 0 .. u - 1 PROVE Sol(u)[w] = f[w]
    <3>1. w \in Nat /\ w =< u /\ w =< w
      OBVIOUS
    <3>2. Solves(Sol(u), u) /\ Solves(Sol(w), w)
      BY <1>1, <3>1
    <3>3. Sol(u)[w] = Sol(w)[w]
      BY <3>1, <3>2, SolutionsAgree
    <3>4. QED
      BY <3>1, <3>3
  <2>2. GapTurn(Sol(u), u) = GapTurn(f, u)
    BY <2>1, GapTurnLocal
  <2>3. Sol(u)[u] = GapTurn(Sol(u), u) /\ Sol(u)[u] \in Codes
    BY <1>1 DEF Solves
  <2>4. QED
    BY <2>2, <2>3
<1>3. f = [u \in Nat |-> GapTurn(f, u)]
  BY <1>2
<1>4. GapBytes = CHOOSE g : g = [u \in Nat |-> GapTurn(g, u)]
  BY DEF GapBytes, GapTurn
<1> HIDE DEF f
<1>5. GapBytes = [u \in Nat |-> GapTurn(GapBytes, u)]
  BY <1>3, <1>4
<1>6. GapBytes \in [Nat -> Codes]
  <2> DEFINE S == {u \in Nat : GapBytes[u] \in Codes}
  <2>1. ASSUME NEW u \in Nat, \A w \in 0 .. u - 1 : w \in S
        PROVE  u \in S
    BY <1>5, <2>1, GapTurnType
  <2>2. \A u \in Nat : u \in S
    <3>1. S \in SUBSET Nat
      OBVIOUS
    <3> HIDE DEF S
    <3>2. QED
      BY <2>1, <3>1, StrongInduction
  <2>3. QED
    BY <1>5, <2>2
<1>7. QED
  BY <1>5, <1>6

LEMMA GapBytesTurns ==
  ASSUME NEW units \in Nat, NEW useC9 \in BOOLEAN
  PROVE  /\ GapBytes[units][useC9] \in Seq(Byte)
         /\ units < ContC9Value => GapBytes[units][useC9] = <<units>>
         /\ units >= ContC9Value /\ (useC9 \/ units < ContFFValue) =>
              /\ units - ContC9Value \in Nat
              /\ GapBytes[units][useC9] = <<ContC9>> \o GapBytes[units - ContC9Value][FALSE]
         /\ units >= ContC9Value /\ ~ (useC9 \/ units < ContFFValue) =>
              /\ units - ContFFValue \in Nat
              /\ GapBytes[units][useC9] = <<ContFF, 0>> \o GapBytes[units - ContFFValue][TRUE]
<1>1. GapBytes[units] = GapTurn(GapBytes, units) /\ GapBytes[units] \in Codes
  BY GapBytesIs
<1>2. GapBytes[units][useC9] \in Seq(Byte)
  BY <1>1, CodesFacts
<1>3. GapBytes[units][useC9] =
        IF units < ContC9Value
          THEN <<units>>
          ELSE IF useC9 \/ units < ContFFValue
            THEN <<ContC9>> \o GapBytes[units - ContC9Value][FALSE]
            ELSE <<ContFF, 0>> \o GapBytes[units - ContFFValue][TRUE]
  BY <1>1 DEF GapTurn
<1>4. units >= ContC9Value <=> ~ (units < ContC9Value)
  BY DEF ContC9Value
<1>5. units >= ContC9Value => units - ContC9Value \in Nat
  BY DEF ContC9Value
<1>6. ~ (units < ContFFValue) => units - ContFFValue \in Nat
  BY DEF ContFFValue
<1> HIDE DEF ContC9Value
<1>7. QED
  BY <1>2, <1>3, <1>4, <1>5, <1>6

-----------------------------------------------------------------------------
(* The bytes of a gap                                                      *)

LEMMA ContValues ==
  /\ ContValue(ContC9) = ContC9Value
  /\ ContValue(ContFF) = ContFFValue
  /\ ContValue(0) = 0
  /\ \A byte \in Byte : ContValue(byte) \in Nat
  /\ \A byte \in {ContC9, ContFF} : ContValue(byte) > 0
BY DEF ContValue, ContC9, ContFF, ContC9Value, ContFFValue, Byte

(* The bytes s carry a gap: val[j] is what the bytes before the j-th add   *)
(* up to.  All but the last are continuations; 0xff is followed by a 0,    *)
(* and the byte that ends the gap never comes directly behind it.          *)
GapReads(s, units, val) ==
  /\ s \in Seq(Byte) /\ Len(s) >= 1
  /\ val \in [1 .. Len(s) -> Nat] /\ val[1] = 0
  /\ \A j \in 1 .. Len(s) - 1 :
       /\ \/ s[j] \in {ContC9, ContFF}
          \/ s[j] = 0 /\ j > 1 /\ s[j - 1] = ContFF
       /\ val[j + 1] = val[j] + ContValue(s[j])
  /\ s[Len(s)] < ContC9Value /\ val[Len(s)] + s[Len(s)] = units
  /\ Len(s) > 1 => s[Len(s) - 1] # ContFF

LEMMA GapReadsTypes ==
  ASSUME NEW s, NEW units, NEW val, GapReads(s, units, val)
  PROVE  /\ s \in Seq(Byte) /\ Len(s) \in Nat /\ Len(s) >= 1
         /\ \A j \in 1 .. Len(s) :
              /\ s[j] \in Byte /\ s[j] \in Nat /\ ContValue(s[j]) \in Nat
              /\ val[j] \in Nat
<1>1. s \in Seq(Byte) /\ Len(s) >= 1 /\ val \in [1 .. Len(s) -> Nat]
  BY DEF GapReads
<1>2. Len(s) \in Nat
  BY <1>1, LenProperties
<1>3. ASSUME NEW j \in 1 .. Len(s)
      PROVE  /\ s[j] \in Byte /\ s[j] \in Nat /\ ContValue(s[j]) \in Nat
             /\ val[j] \in Nat
  <2>1. s[j] \in Byte
    BY <1>1, ElementOfSeq
  <2>2. \A byte \in Byte : byte \in Nat
    BY DEF Byte
  <2>3. val[j] \in Nat
    BY <1>1
  <2>4. QED
    BY <2>1, <2>2, <2>3, ContValues
<1>4. QED
  BY <1>1, <1>2, <1>3

LEMMA ReadsAfterC9 ==
  ASSUME NEW s, NEW units \in Nat, NEW val, GapReads(s, units, val)
  PROVE  \E w : GapReads(<<ContC9>> \o s, units + ContC9Value, w)
<1> DEFINE t == <<ContC9>> \o s
           w == [j \in 1 .. Len(s) + 1 |-> IF j = 1 THEN 0 ELSE ContC9Value + val[j - 1]]
<1>1. /\ s \in Seq(Byte) /\ Len(s) \in Nat /\ Len(s) >= 1
      /\ \A j \in 1 .. Len(s) :
           /\ s[j] \in Byte /\ s[j] \in Nat /\ ContValue(s[j]) \in Nat
           /\ val[j] \in Nat
  BY GapReadsTypes
<1>2. /\ t \in Seq(Byte) /\ Len(t) = Len(s) + 1
      /\ t[1] = ContC9 /\ \A j \in 2 .. Len(s) + 1 : t[j] = s[j - 1]
  <2>1. <<ContC9>> \in Seq(Byte) /\ Len(<<ContC9>>) = 1 /\ <<ContC9>>[1] = ContC9
    BY DEF ContC9, Byte
  <2>2. QED
    BY <1>1, <2>1, ConcatProperties
<1> HIDE DEF t
<1>3. w \in [1 .. Len(t) -> Nat] /\ w[1] = 0
  BY <1>1, <1>2 DEF GapReads, ContC9Value
<1>4. ASSUME NEW j \in 1 .. Len(t) - 1
      PROVE  /\ \/ t[j] \in {ContC9, ContFF}
                \/ t[j] = 0 /\ j > 1 /\ t[j - 1] = ContFF
             /\ w[j + 1] = w[j] + ContValue(t[j])
  <2>1. CASE j = 1
    BY <1>1, <1>2, <2>1, ContValues DEF GapReads, ContC9Value
  <2>2. CASE j > 1
    <3>1. j - 1 \in 1 .. Len(s) - 1 /\ t[j] = s[j - 1] /\ j \in 1 .. Len(s)
      BY <1>1, <1>2, <2>2
    <3>2. /\ \/ s[j - 1] \in {ContC9, ContFF}
             \/ s[j - 1] = 0 /\ j - 1 > 1 /\ s[j - 2] = ContFF
          /\ val[j] = val[j - 1] + ContValue(s[j - 1])
      BY <3>1 DEF GapReads
    <3>3. j - 1 > 1 => t[j - 1] = s[j - 2]
      BY <1>1, <1>2, <3>1
    <3>4. val[j] \in Nat /\ val[j - 1] \in Nat /\ ContValue(s[j - 1]) \in Nat
      BY <1>1, <3>1
    <3>5. w[j + 1] = ContC9Value + val[j] /\ w[j] = ContC9Value + val[j - 1]
      BY <1>1, <1>2, <2>2, <3>1
    <3>6. \/ t[j] \in {ContC9, ContFF}
          \/ t[j] = 0 /\ j > 1 /\ t[j - 1] = ContFF
      <4>1. CASE s[j - 1] \in {ContC9, ContFF}
        BY <3>1, <4>1
      <4>2. CASE s[j - 1] = 0 /\ j - 1 > 1 /\ s[j - 2] = ContFF
        <5>1. t[j] = 0 /\ t[j - 1] = ContFF
          BY <3>1, <3>3, <4>2
        <5>2. QED
          BY <2>2, <5>1
      <4>3. QED
        BY <3>2, <4>1, <4>2
    <3>7. ContValue(t[j]) = ContValue(s[j - 1]) /\ ContC9Value \in Nat
      BY <3>1 DEF ContC9Value
    <3> HIDE DEF w
    <3>8. w[j + 1] = w[j] + ContValue(t[j])
      <4>1. val[j] = val[j - 1] + ContValue(s[j - 1])
        BY <3>2
      <4>2. ContC9Value + val[j] = (ContC9Value + val[j - 1]) + ContValue(s[j - 1])
        BY <3>4, <3>7, <4>1
      <4>3. QED
        BY <3>5, <3>7, <4>2
    <3>9. QED
      BY <3>6, <3>8
  <2>3. QED
    BY <2>1, <2>2, <1>1, <1>2
<1>5. /\ t[Len(t)] < ContC9Value /\ w[Len(t)] + t[Len(t)] = units + ContC9Value
      /\ Len(t) > 1 => t[Len(t) - 1] # ContFF
  <2>1. t[Len(t)] = s[Len(s)] /\ w[Len(t)] = ContC9Value + val[Len(s)]
    BY <1>1, <1>2
  <2>2. val[Len(s)] \in Nat /\ s[Len(s)] \in Nat
    BY <1>1
  <2>3. t[Len(t) - 1] # ContFF
    <3>1. CASE Len(s) = 1
      BY <1>2, <3>1 DEF ContC9, ContFF
    <3>2. CASE Len(s) > 1
      <4>1. s[Len(s) - 1] # ContFF
        BY <3>2 DEF GapReads
      <4>2. t[Len(t) - 1] = s[Len(s) - 1]
        BY <1>1, <1>2, <3>2
      <4>3. QED
        BY <4>1, <4>2
    <3>3. Len(s) = 1 \/ Len(s) > 1
      BY <1>1
    <3>4. QED
      BY <3>1, <3>2, <3>3
  <2>4. QED
    BY <2>1, <2>2, <2>3 DEF GapReads, ContC9Value
<1> HIDE DEF w
<1>6. GapReads(t, units + ContC9Value, w)
  BY <1>1, <1>2, <1>3, <1>4, <1>5 DEF GapReads
<1>7. QED
  BY <1>6 DEF t

LEMMA ReadsAfterFF ==
  ASSUME NEW s, NEW units \in Nat, NEW val, GapReads(s, units, val)
  PROVE  \E w : GapReads(<<ContFF, 0>> \o s, units + ContFFValue, w)
<1> DEFINE t == <<ContFF, 0>> \o s
           w == [j \in 1 .. Len(s) + 2 |->
                   IF j = 1 THEN 0 ELSE IF j = 2 THEN ContFFValue ELSE ContFFValue + val[j - 2]]
<1>1. /\ s \in Seq(Byte) /\ Len(s) \in Nat /\ Len(s) >= 1
      /\ \A j \in 1 .. Len(s) :
           /\ s[j] \in Byte /\ s[j] \in Nat /\ ContValue(s[j]) \in Nat
           /\ val[j] \in Nat
  BY GapReadsTypes
<1>2. /\ t \in Seq(Byte) /\ Len(t) = Len(s) + 2
      /\ t[1] = ContFF /\ t[2] = 0 /\ \A j \in 3 .. Len(s) + 2 : t[j] = s[j - 2]
  <2>1. /\ <<ContFF, 0>> \in Seq(Byte) /\ Len(<<ContFF, 0>>) = 2
        /\ <<ContFF, 0>>[1] = ContFF /\ <<ContFF, 0>>[2] = 0
    BY DEF ContFF, Byte
  <2>2. QED
    BY <1>1, <2>1, ConcatProperties
<1> HIDE DEF t
<1>3. w \in [1 .. Len(t) -> Nat] /\ w[1] = 0 /\ w[2] = ContFFValue
  BY <1>1, <1>2 DEF GapReads, ContFFValue
<1>4. ASSUME NEW j \in 1 .. Len(t) - 1
      PROVE  /\ \/ t[j] \in {ContC9, ContFF}
                \/ t[j] = 0 /\ j > 1 /\ t[j - 1] = ContFF
             /\ w[j + 1] = w[j] + ContValue(t[j])
  <2>1. CASE j = 1
    BY <1>2, <1>3, <2>1, ContValues DEF ContFFValue
  <2>2. CASE j = 2
    <3>1. w[3] = ContFFValue
      BY <1>1 DEF GapReads, ContFFValue
    <3>2. QED
      BY <1>2, <1>3, <2>2, <3>1, ContValues DEF ContFFValue
  <2>3. CASE j > 2
    <3>1. j - 2 \in 1 .. Len(s) - 1 /\ t[j] = s[j - 2] /\ j - 1 \in 1 .. Len(s)
      BY <1>1, <1>2, <2>3
    <3>2. /\ \/ s[j - 2] \in {ContC9, ContFF}
             \/ s[j - 2] = 0 /\ j - 2 > 1 /\ s[j - 3] = ContFF
          /\ val[j - 1] = val[j - 2] + ContValue(s[j - 2])
      BY <3>1 DEF GapReads
    <3>3. j - 2 > 1 => t[j - 1] = s[j - 3]
      <4>1. SUFFICES ASSUME j - 2 > 1 PROVE t[j - 1] = s[j - 3]
        OBVIOUS
      <4>2. j - 1 \in 3 .. Len(s) + 2 /\ (j - 1) - 2 = j - 3
        BY <1>1, <3>1, <4>1
      <4>3. QED
        BY <1>2, <4>2
    <3>4. val[j - 1] \in Nat /\ val[j - 2] \in Nat /\ ContValue(s[j - 2]) \in Nat
      BY <1>1, <3>1
    <3>5. w[j + 1] = ContFFValue + val[j - 1] /\ w[j] = ContFFValue + val[j - 2]
      BY <1>1, <1>2, <2>3, <3>1
    <3>6. \/ t[j] \in {ContC9, ContFF}
          \/ t[j] = 0 /\ j > 1 /\ t[j - 1] = ContFF
      <4>1. CASE s[j - 2] \in {ContC9, ContFF}
        BY <3>1, <4>1
      <4>2. CASE s[j - 2] = 0 /\ j - 2 > 1 /\ s[j - 3] = ContFF
        <5>1. t[j] = 0 /\ t[j - 1] = ContFF
          BY <3>1, <3>3, <4>2
        <5>2. QED
          BY <2>3, <5>1
      <4>3. QED
        BY <3>2, <4>1, <4>2
    <3>7. ContValue(t[j]) = ContValue(s[j - 2]) /\ ContFFValue \in Nat
      BY <3>1 DEF ContFFValue
    <3> HIDE DEF w
    <3>8. w[j + 1] = w[j] + ContValue(t[j])
      <4>1. val[j - 1] = val[j - 2] + ContValue(s[j - 2])
        BY <3>2
      <4>2. ContFFValue + val[j - 1] = (ContFFValue + val[j - 2]) + ContValue(s[j - 2])
        BY <3>4, <3>7, <4>1
      <4>3. QED
        BY <3>5, <3>7, <4>2
    <3>9. QED
      BY <3>6, <3>8
  <2>4. QED
    BY <2>1, <2>2, <2>3, <1>1, <1>2
<1>5. /\ t[Len(t)] < ContC9Value /\ w[Len(t)] + t[Len(t)] = units + ContFFValue
      /\ Len(t) > 1 => t[Len(t) - 1] # ContFF
  <2>1. t[Len(t)] = s[Len(s)] /\ w[Len(t)] = ContFFValue + val[Len(s)]
    BY <1>1, <1>2
  <2>2. val[Len(s)] \in Nat /\ s[Len(s)] \in Nat
    BY <1>1
  <2>3. t[Len(t) - 1] # ContFF
    <3>1. CASE Len(s) = 1
      BY <1>2, <3>1 DEF ContFF
    <3>2. CASE Len(s) > 1
      <4>1. s[Len(s) - 1] # ContFF
        BY <3>2 DEF GapReads
      <4>2. t[Len(t) - 1] = s[Len(s) - 1]
        <5>1. /\ Len(t) - 1 \in 3 .. Len(s) + 2
              /\ (Len(t) - 1) - 2 = Len(s) - 1
          BY <1>1, <1>2, <3>2
        <5>2. QED
          BY <1>2, <5>1
      <4>3. QED
        BY <4>1, <4>2
    <3>3. Len(s) = 1 \/ Len(s) > 1
      BY <1>1
    <3>4. QED
      BY <3>1, <3>2, <3>3
  <2>4. QED
    BY <2>1, <2>2, <2>3 DEF GapReads, ContFFValue
<1> HIDE DEF w
<1>6. GapReads(t, units + ContFFValue, w)
  BY <1>1, <1>2, <1>3, <1>4, <1>5 DEF GapReads
<1>7. QED
  BY <1>6 DEF t

LEMMA GapBytesRead ==
  \A units \in Nat : \A useC9 \in BOOLEAN :
    \E val : GapReads(GapBytes[units][useC9], units, val)
<1> DEFINE Readable(u) == \A useC9 \in BOOLEAN : \E val : GapReads(GapBytes[u][useC9], u, val)
           S == {u \in Nat : Readable(u)}
<1>1. ASSUME NEW u \in Nat, \A k \in 0 .. u - 1 : k \in S
      PROVE  Readable(u)
  <2>1. SUFFICES ASSUME NEW useC9 \in BOOLEAN
        PROVE  \E val : GapReads(GapBytes[u][useC9], u, val)
    OBVIOUS
  <2>2. CASE u < ContC9Value
    <3> DEFINE val == [j \in 1 .. 1 |-> 0]
    <3>1. GapBytes[u][useC9] = <<u>>
      BY <2>2, GapBytesTurns
    <3>2. <<u>> \in Seq(Byte) /\ Len(<<u>>) = 1 /\ <<u>>[1] = u
      BY <2>2 DEF Byte, ContC9Value
    <3>3. GapReads(<<u>>, u, val)
      BY <2>2, <3>2 DEF GapReads
    <3>4. QED
      BY <3>1, <3>3
  <2>3. CASE u >= ContC9Value /\ (useC9 \/ u < ContFFValue)
    <3>1. /\ u - ContC9Value \in Nat
          /\ GapBytes[u][useC9] = <<ContC9>> \o GapBytes[u - ContC9Value][FALSE]
      BY <2>3, GapBytesTurns
    <3>2. u - ContC9Value \in 0 .. u - 1 /\ (u - ContC9Value) + ContC9Value = u
      BY <3>1 DEF ContC9Value
    <3>3. Readable(u - ContC9Value)
      BY <1>1, <3>2
    <3>4. PICK val : GapReads(GapBytes[u - ContC9Value][FALSE], u - ContC9Value, val)
      BY <3>3
    <3>5. QED
      BY <3>1, <3>2, <3>4, ReadsAfterC9
  <2>4. CASE u >= ContC9Value /\ ~ (useC9 \/ u < ContFFValue)
    <3>1. /\ u - ContFFValue \in Nat
          /\ GapBytes[u][useC9] = <<ContFF, 0>> \o GapBytes[u - ContFFValue][TRUE]
      BY <2>4, GapBytesTurns
    <3>2. u - ContFFValue \in 0 .. u - 1 /\ (u - ContFFValue) + ContFFValue = u
      BY <3>1 DEF ContFFValue
    <3>3. Readable(u - ContFFValue)
      BY <1>1, <3>2
    <3>4. PICK val : GapReads(GapBytes[u - ContFFValue][TRUE], u - ContFFValue, val)
      BY <3>3
    <3>5. QED
      BY <3>1, <3>2, <3>4, ReadsAfterFF
  <2>5. QED
    BY <2>2, <2>3, <2>4 DEF ContC9Value
<1> HIDE DEF Readable
<1>2. \A u \in Nat : u \in S
  <2>1. S \in SUBSET Nat
    OBVIOUS
  <2>2. \A u \in Nat : (\A k \in 0 .. u - 1 : k \in S) => u \in S
    BY <1>1
  <2> HIDE DEF S
  <2>3. QED
    BY <2>1, <2>2, StrongInduction
<1>3. QED
  BY <1>2 DEF Readable

-----------------------------------------------------------------------------
(* Where the bytes of a programme are                                      *)

(* What encode_schedule accepts, without the limits of its totals.         *)
Carried(c) ==
  /\ c \in ChainSet
  /\ \A k \in 1 .. Len(c.events) : c.events[k].gap >= 0 /\ c.events[k].duration \in Byte

LEMMA CarriedFacts ==
  ASSUME NEW c, Carried(c)
  PROVE  /\ c.events \in Seq([duration : Int, gap : Int]) /\ Len(c.events) \in Nat
         /\ \A k \in 1 .. Len(c.events) :
              /\ c.events[k] \in [duration : Int, gap : Int]
              /\ c.events[k].gap \in Nat /\ c.events[k].duration \in Byte
         /\ \A k \in 0 .. Len(c.events) : GapAfter(c, k) \in Nat
<1>1. c.events \in Seq([duration : Int, gap : Int]) /\ c.lead \in Nat
  BY CycleAssumption DEF Carried, ChainSet
<1>2. Len(c.events) \in Nat
  BY <1>1, LenProperties
<1>3. ASSUME NEW k \in 1 .. Len(c.events)
      PROVE  /\ c.events[k] \in [duration : Int, gap : Int]
             /\ c.events[k].gap \in Nat /\ c.events[k].duration \in Byte
  <2>1. c.events[k] \in [duration : Int, gap : Int]
    BY <1>1, ElementOfSeq
  <2>2. QED
    BY <2>1 DEF Carried
<1>4. ASSUME NEW k \in 0 .. Len(c.events) PROVE GapAfter(c, k) \in Nat
  BY <1>1, <1>2, <1>3 DEF GapAfter
<1>5. QED
  BY <1>1, <1>2, <1>3, <1>4

(* The bytes of a gap are read by some values, here given a name.          *)
Bytes(c, k) == EncodeGap(GapAfter(c, k))

Values(c, k) == CHOOSE val : GapReads(Bytes(c, k), GapAfter(c, k), val)

LEMMA BytesRead ==
  ASSUME NEW c, Carried(c), NEW k \in 0 .. Len(c.events)
  PROVE  /\ GapReads(Bytes(c, k), GapAfter(c, k), Values(c, k))
         /\ Bytes(c, k) \in Seq(Byte)
         /\ Len(Bytes(c, k)) \in Nat /\ Len(Bytes(c, k)) >= 1
<1>1. GapAfter(c, k) \in Nat
  BY CarriedFacts
<1>2. \E val : GapReads(Bytes(c, k), GapAfter(c, k), val)
  BY <1>1, GapBytesRead DEF Bytes, EncodeGap
<1>3. GapReads(Bytes(c, k), GapAfter(c, k), Values(c, k))
  BY <1>2 DEF Values
<1>4. QED
  BY <1>3, GapReadsTypes

(* One turn of the loop of encode_schedule.                                *)
WrittenTurn(g, c, k) ==
  (IF k = 0 THEN <<0>> ELSE Append(g[k - 1], c.events[k].duration)) \o Bytes(c, k)

FirstTurn(new, c) ==
  /\ Len(new) = 1 + Len(Bytes(c, 0)) /\ new[1] = 0
  /\ \A j \in 1 .. Len(Bytes(c, 0)) : new[1 + j] = Bytes(c, 0)[j]

LaterTurn(new, old, c, k) ==
  /\ Len(new) = Len(old) + 1 + Len(Bytes(c, k))
  /\ \A x \in 1 .. Len(old) : new[x] = old[x]
  /\ new[Len(old) + 1] = c.events[k].duration
  /\ \A j \in 1 .. Len(Bytes(c, k)) : new[Len(old) + 1 + j] = Bytes(c, k)[j]

LEMMA WrittenTurnType ==
  ASSUME NEW c, Carried(c), NEW k \in 0 .. Len(c.events), NEW g,
         k > 0 => g[k - 1] \in Seq(Byte)
  PROVE  /\ WrittenTurn(g, c, k) \in Seq(Byte)
         /\ k = 0 => FirstTurn(WrittenTurn(g, c, k), c)
         /\ k > 0 => LaterTurn(WrittenTurn(g, c, k), g[k - 1], c, k)
<1> DEFINE head == IF k = 0 THEN <<0>> ELSE Append(g[k - 1], c.events[k].duration)
           tail == Bytes(c, k)
<1>1. tail \in Seq(Byte) /\ Len(tail) \in Nat
  BY BytesRead
<1>2. /\ head \in Seq(Byte) /\ Len(head) \in Nat
      /\ k = 0 => Len(head) = 1 /\ head[1] = 0
      /\ k > 0 =>
           /\ Len(head) = Len(g[k - 1]) + 1
           /\ \A x \in 1 .. Len(g[k - 1]) : head[x] = g[k - 1][x]
           /\ head[Len(g[k - 1]) + 1] = c.events[k].duration
  <2>1. CASE k = 0
    <3>1. <<0>> \in Seq(Byte) /\ Len(<<0>>) = 1 /\ <<0>>[1] = 0
      BY DEF Byte
    <3>2. QED
      BY <2>1, <3>1
  <2>2. CASE k > 0
    <3>1. c.events[k].duration \in Byte
      BY <2>2, CarriedFacts
    <3>2. g[k - 1] \in Seq(Byte)
      BY <2>2
    <3>3. head = Append(g[k - 1], c.events[k].duration)
      BY <2>2
    <3> HIDE DEF head
    <3>4. QED
      BY <2>2, <3>1, <3>2, <3>3, AppendProperties, LenProperties
  <2>3. QED
    BY <2>1, <2>2
<1> HIDE DEF head, tail
<1>3. /\ head \o tail \in Seq(Byte) /\ Len(head \o tail) = Len(head) + Len(tail)
      /\ \A x \in 1 .. Len(head) : (head \o tail)[x] = head[x]
      /\ \A j \in 1 .. Len(tail) : (head \o tail)[Len(head) + j] = tail[j]
  BY <1>1, <1>2, ConcatProperties
<1>4. WrittenTurn(g, c, k) = head \o tail /\ tail = Bytes(c, k)
  BY DEF WrittenTurn, head, tail
<1>5. k > 0 => g[k - 1] \in Seq(Byte) /\ Len(g[k - 1]) \in Nat
  BY LenProperties
<1>6. CASE k = 0
  <2>1. Len(head) = 1 /\ head[1] = 0
    BY <1>2, <1>6
  <2>2. (head \o tail)[1] = 0
    BY <1>3, <2>1
  <2>3. FirstTurn(head \o tail, c)
    BY <1>3, <1>4, <1>6, <2>1, <2>2 DEF FirstTurn
  <2>4. QED
    BY <1>3, <1>4, <1>6, <2>3
<1>7. CASE k > 0
  <2>1. /\ Len(head) = Len(g[k - 1]) + 1 /\ Len(head) \in 1 .. Len(head)
        /\ \A x \in 1 .. Len(g[k - 1]) : x \in 1 .. Len(head)
    BY <1>2, <1>5, <1>7
  <2>2. \A x \in 1 .. Len(g[k - 1]) : (head \o tail)[x] = g[k - 1][x]
    BY <1>2, <1>3, <1>7, <2>1
  <2>3. (head \o tail)[Len(g[k - 1]) + 1] = c.events[k].duration
    BY <1>2, <1>3, <1>7, <2>1
  <2>4. /\ Len(head \o tail) = Len(g[k - 1]) + 1 + Len(tail)
        /\ \A j \in 1 .. Len(tail) : (head \o tail)[Len(g[k - 1]) + 1 + j] = tail[j]
    BY <1>3, <2>1
  <2>5. LaterTurn(head \o tail, g[k - 1], c, k)
    BY <1>4, <2>2, <2>3, <2>4 DEF LaterTurn
  <2>6. QED
    BY <1>3, <1>4, <1>7, <2>5
<1>8. k = 0 \/ k > 0
  BY CarriedFacts
<1>9. QED
  BY <1>6, <1>7, <1>8

(* The loop of encode_schedule, m turns of it.                             *)
Writes(g, c, m) ==
  /\ g \in [0 .. m -> Seq(Byte)]
  /\ \A k \in 0 .. m : g[k] = WrittenTurn(g, c, k)

LEMMA WrittenIs ==
  ASSUME NEW c, Carried(c)
  PROVE  Writes(Written(c), c, Len(c.events))
<1> DEFINE n == Len(c.events)
           S == {m \in Nat : m =< n => \E g : Writes(g, c, m)}
<1>1. n \in Nat
  BY CarriedFacts
<1>2. ASSUME NEW m \in Nat, \A k \in 0 .. m - 1 : k \in S
      PROVE  m \in S
  <2>1. SUFFICES ASSUME m =< n PROVE \E g : Writes(g, c, m)
    OBVIOUS
  <2>2. PICK g : m > 0 => Writes(g, c, m - 1)
    <3>1. CASE m > 0
      <4>1. m - 1 \in S /\ m - 1 =< n
        BY <1>1, <1>2, <2>1, <3>1
      <4>2. QED
        BY <4>1
    <3>2. QED
      BY <3>1
  <2> DEFINE h == [k \in 0 .. m |-> IF k = m THEN WrittenTurn(g, c, m) ELSE g[k]]
  <2>3. \A k \in 0 .. m - 1 : g[k] \in Seq(Byte) /\ g[k] = WrittenTurn(g, c, k) /\ h[k] = g[k]
    BY <2>2 DEF Writes
  <2>4. WrittenTurn(g, c, m) \in Seq(Byte)
    <3>1. m \in 0 .. Len(c.events)
      BY <1>1, <2>1
    <3>2. m > 0 => g[m - 1] \in Seq(Byte)
      <4>1. m > 0 => m - 1 \in 0 .. m - 1
        OBVIOUS
      <4>2. QED
        BY <2>3, <4>1
    <3>3. QED
      BY <3>1, <3>2, WrittenTurnType
  <2> \A k \in 0 .. m : k = m \/ k \in 0 .. m - 1
    OBVIOUS
  <2>5. h \in [0 .. m -> Seq(Byte)]
    BY <2>3, <2>4
  <2>6. ASSUME NEW k \in 0 .. m PROVE h[k] = WrittenTurn(h, c, k)
    <3>1. k # 0 => g[k - 1] = h[k - 1]
      BY <2>3
    <3>2. WrittenTurn(g, c, k) = WrittenTurn(h, c, k)
      BY <3>1 DEF WrittenTurn
    <3>3. h[k] = WrittenTurn(g, c, k)
      <4>1. CASE k = m
        BY <4>1
      <4>2. CASE k \in 0 .. m - 1
        BY <2>3, <4>2
      <4>3. QED
        BY <4>1, <4>2
    <3>4. QED
      BY <3>2, <3>3
  <2> HIDE DEF h
  <2>7. QED
    BY <2>5, <2>6 DEF Writes
<1>3. \A m \in Nat : m \in S
  <2>1. S \in SUBSET Nat
    OBVIOUS
  <2> HIDE DEF S
  <2>2. QED
    BY <1>2, <2>1, StrongInduction
<1>4. PICK g : Writes(g, c, n)
  BY <1>1, <1>3
<1>5. g = [k \in 0 .. n |-> WrittenTurn(g, c, k)]
  BY <1>4 DEF Writes
<1>6. Written(c) = CHOOSE f : f = [k \in 0 .. n |-> WrittenTurn(f, c, k)]
  BY DEF Written, WrittenTurn, Bytes
<1> HIDE DEF n
<1>7. Written(c) = [k \in 0 .. n |-> WrittenTurn(Written(c), c, k)]
  BY <1>5, <1>6
<1>8. ASSUME NEW k \in 0 .. n PROVE Written(c)[k] \in Seq(Byte)
  <2> DEFINE R == {m \in Nat : m =< n => Written(c)[m] \in Seq(Byte)}
  <2>1. ASSUME NEW m \in Nat, \A x \in 0 .. m - 1 : x \in R
        PROVE  m \in R
    <3>1. SUFFICES ASSUME m =< n PROVE Written(c)[m] \in Seq(Byte)
      OBVIOUS
    <3>2. m > 0 => Written(c)[m - 1] \in Seq(Byte)
      BY <1>1, <2>1, <3>1
    <3>3. m \in 0 .. Len(c.events)
      BY <1>1, <3>1 DEF n
    <3>4. WrittenTurn(Written(c), c, m) \in Seq(Byte)
      BY <3>2, <3>3, WrittenTurnType
    <3>5. QED
      BY <1>7, <3>3, <3>4 DEF n
  <2>2. \A m \in Nat : m \in R
    <3>1. R \in SUBSET Nat
      OBVIOUS
    <3> HIDE DEF R
    <3>2. QED
      BY <2>1, <3>1, StrongInduction
  <2>3. QED
    BY <1>1, <2>2
<1>9. Written(c) \in [0 .. n -> Seq(Byte)]
  BY <1>7, <1>8
<1>10. QED
  BY <1>7, <1>9 DEF Writes, n

(* Where the gap after the k-th watering starts and ends.                  *)
End(c, k) == Len(Written(c)[k])

Start(c, k) == IF k = 0 THEN 2 ELSE End(c, k - 1) + 2

(* In s, the gap after the k-th watering is there, behind its duration.    *)
Placed(s, c, k) ==
  /\ Start(c, k) \in Nat /\ Start(c, k) >= 2 /\ End(c, k) \in Nat
  /\ End(c, k) + 1 = Start(c, k) + Len(Bytes(c, k))
  /\ \A j \in 1 .. Len(Bytes(c, k)) : s[Start(c, k) + j - 1] = Bytes(c, k)[j]
  /\ IF k = 0
       THEN Start(c, k) = 2 /\ s[1] = 0
       ELSE /\ End(c, k - 1) \in Nat /\ Start(c, k) = End(c, k - 1) + 2
            /\ s[Start(c, k) - 1] = c.events[k].duration

LEMMA Turns ==
  ASSUME NEW c, Carried(c), NEW k \in 0 .. Len(c.events)
  PROVE  /\ Written(c)[k] \in Seq(Byte)
         /\ Placed(Written(c)[k], c, k)
         /\ k > 0 => \A x \in 1 .. End(c, k - 1) : Written(c)[k][x] = Written(c)[k - 1][x]
<1> DEFINE W == Written(c)
           len == Len(Bytes(c, k))
<1>1. W[k] = WrittenTurn(W, c, k) /\ W[k] \in Seq(Byte)
  BY WrittenIs DEF Writes
<1>2. k > 0 => W[k - 1] \in Seq(Byte)
  <2>1. k > 0 => k - 1 \in 0 .. Len(c.events)
    BY CarriedFacts
  <2>2. QED
    BY <2>1, WrittenIs DEF Writes
<1>3. /\ k = 0 => FirstTurn(W[k], c)
      /\ k > 0 => LaterTurn(W[k], W[k - 1], c, k)
  BY <1>1, <1>2, WrittenTurnType
<1>4. len \in Nat /\ len >= 1
  BY BytesRead
<1>5. Len(W[k]) \in Nat /\ (k > 0 => Len(W[k - 1]) \in Nat)
  BY <1>1, <1>2, LenProperties
<1>6. CASE k = 0
  <2>1. /\ Len(W[k]) = 1 + len /\ W[k][1] = 0
        /\ \A j \in 1 .. len : W[k][1 + j] = Bytes(c, k)[j]
    BY <1>3, <1>6 DEF FirstTurn
  <2>2. Start(c, k) = 2 /\ End(c, k) = 1 + len
    BY <1>6, <2>1 DEF Start, End
  <2>3. ASSUME NEW j \in 1 .. len PROVE W[k][Start(c, k) + j - 1] = Bytes(c, k)[j]
    <3>1. Start(c, k) + j - 1 = 1 + j
      BY <1>4, <2>2
    <3>2. QED
      BY <2>1, <3>1
  <2>4. Placed(W[k], c, k)
    BY <1>4, <1>6, <2>1, <2>2, <2>3 DEF Placed
  <2>5. QED
    BY <1>1, <1>6, <2>4
<1>7. CASE k > 0
  <2>1. /\ Len(W[k]) = Len(W[k - 1]) + 1 + len
        /\ \A x \in 1 .. Len(W[k - 1]) : W[k][x] = W[k - 1][x]
        /\ W[k][Len(W[k - 1]) + 1] = c.events[k].duration
        /\ \A j \in 1 .. len : W[k][Len(W[k - 1]) + 1 + j] = Bytes(c, k)[j]
    BY <1>3, <1>7 DEF LaterTurn
  <2>2. /\ Start(c, k) = Len(W[k - 1]) + 2 /\ End(c, k) = Len(W[k])
        /\ End(c, k - 1) = Len(W[k - 1])
    BY <1>7 DEF Start, End
  <2>3. ASSUME NEW j \in 1 .. len PROVE W[k][Start(c, k) + j - 1] = Bytes(c, k)[j]
    <3>1. Start(c, k) + j - 1 = Len(W[k - 1]) + 1 + j
      BY <1>4, <1>5, <1>7, <2>2
    <3>2. QED
      BY <2>1, <3>1
  <2>4. Start(c, k) - 1 = Len(W[k - 1]) + 1
    BY <1>5, <1>7, <2>2
  <2>5. /\ Start(c, k) \in Nat /\ Start(c, k) >= 2 /\ End(c, k) \in Nat
        /\ End(c, k) + 1 = Start(c, k) + len
        /\ End(c, k - 1) \in Nat /\ Start(c, k) = End(c, k - 1) + 2
    BY <1>4, <1>5, <1>7, <2>1, <2>2
  <2>6. ~ (k = 0)
    BY <1>7
  <2>7. W[k][Start(c, k) - 1] = c.events[k].duration
    BY <2>1, <2>4
  <2>8. Placed(W[k], c, k)
    BY <2>3, <2>5, <2>6, <2>7 DEF Placed
  <2>9. QED
    BY <1>1, <2>1, <2>2, <2>8
<1>8. k = 0 \/ k > 0
  BY CarriedFacts
<1>9. QED
  BY <1>6, <1>7, <1>8

(* A later turn leaves the bytes of an earlier one where they are.         *)
LEMMA TurnsAppend ==
  ASSUME NEW c, Carried(c), NEW k \in 0 .. Len(c.events)
  PROVE  /\ End(c, k) =< End(c, Len(c.events))
         /\ \A x \in 1 .. End(c, k) : Written(c)[Len(c.events)][x] = Written(c)[k][x]
<1> DEFINE n == Len(c.events)
           Stays(m) == /\ End(c, m) =< End(c, n)
                       /\ \A x \in 1 .. End(c, m) : Written(c)[n][x] = Written(c)[m][x]
           S == {d \in Nat : d =< n => Stays(n - d)}
<1>1. n \in Nat
  BY CarriedFacts
<1>2. \A m \in 0 .. n : End(c, m) \in Nat
  BY Turns DEF Placed
<1>3. ASSUME NEW m \in 1 .. n
      PROVE  /\ End(c, m - 1) < End(c, m)
             /\ \A x \in 1 .. End(c, m - 1) : Written(c)[m][x] = Written(c)[m - 1][x]
  <2>1. m \in 0 .. Len(c.events) /\ m > 0 /\ ~ (m = 0)
    BY <1>1
  <2>2. /\ Placed(Written(c)[m], c, m)
        /\ \A x \in 1 .. End(c, m - 1) : Written(c)[m][x] = Written(c)[m - 1][x]
    BY <2>1, Turns
  <2>3. /\ End(c, m) + 1 = Start(c, m) + Len(Bytes(c, m))
        /\ End(c, m - 1) \in Nat /\ Start(c, m) = End(c, m - 1) + 2 /\ End(c, m) \in Nat
    BY <2>1, <2>2 DEF Placed
  <2>4. Len(Bytes(c, m)) \in Nat
    BY <2>1, BytesRead
  <2>5. QED
    BY <2>2, <2>3, <2>4
<1>4. ASSUME NEW d \in Nat, \A e \in 0 .. d - 1 : e \in S, d =< n
      PROVE  Stays(n - d)
  <2>1. CASE d = 0
    BY <1>1, <1>2, <2>1
  <2>2. CASE d > 0
    <3> DEFINE m == (n - d) + 1
    <3>1. m \in 1 .. n /\ n - (d - 1) = m /\ m - 1 = n - d /\ d - 1 \in 0 .. d - 1
      BY <1>1, <1>4, <2>2
    <3>2. Stays(m)
      <4>1. d - 1 \in S /\ d - 1 =< n
        BY <1>1, <1>4, <3>1
      <4>2. Stays(n - (d - 1))
        BY <4>1
      <4>3. QED
        BY <3>1, <4>2
    <3>3. /\ End(c, m - 1) < End(c, m)
          /\ \A x \in 1 .. End(c, m - 1) : Written(c)[m][x] = Written(c)[m - 1][x]
      BY <1>3, <3>1
    <3>4. End(c, n) \in Nat /\ End(c, m) \in Nat /\ End(c, m - 1) \in Nat
      <4>1. n \in 0 .. n /\ m \in 0 .. n /\ m - 1 \in 0 .. n
        BY <1>1, <3>1
      <4>2. QED
        BY <1>2, <4>1
    <3> HIDE DEF m
    <3>5. Stays(m - 1)
      BY <3>2, <3>3, <3>4
    <3>6. QED
      BY <3>1, <3>5
  <2>3. QED
    BY <2>1, <2>2
<1> HIDE DEF Stays
<1>5. \A d \in Nat : d \in S
  <2>1. S \in SUBSET Nat
    OBVIOUS
  <2>2. \A d \in Nat : (\A e \in 0 .. d - 1 : e \in S) => d \in S
    BY <1>4
  <2> HIDE DEF S
  <2>3. QED
    BY <2>1, <2>2, StrongInduction
<1>6. n - k \in Nat /\ n - k =< n /\ n - (n - k) = k
  BY <1>1
<1>7. Stays(n - (n - k))
  BY <1>5, <1>6
<1>8. QED
  BY <1>6, <1>7 DEF Stays

(* The bytes of a programme, by the waterings they belong to.              *)
LEMMA Layout ==
  ASSUME NEW c, Carried(c)
  PROVE  /\ Encode(c) \in Seq(Byte)
         /\ Len(Encode(c)) = End(c, Len(c.events)) + 2
         /\ Encode(c)[End(c, Len(c.events)) + 1] = 0
         /\ Encode(c)[End(c, Len(c.events)) + 2] = 204
         /\ \A k \in 0 .. Len(c.events) :
              Placed(Encode(c), c, k) /\ End(c, k) =< End(c, Len(c.events))
<1> DEFINE n == Len(c.events)
           W == Written(c)
<1>1. n \in Nat /\ n \in 0 .. n
  BY CarriedFacts
<1>2. W[n] \in Seq(Byte) /\ Len(W[n]) = End(c, n) /\ End(c, n) \in Nat
  BY <1>1, Turns DEF End, Placed
<1>3. /\ Terminator \in Seq(Byte) /\ Len(Terminator) = 2
      /\ Terminator[1] = 0 /\ Terminator[2] = 204
  BY DEF Terminator, Byte
<1>4. /\ Encode(c) \in Seq(Byte)
      /\ Len(Encode(c)) = End(c, n) + 2
      /\ \A x \in 1 .. End(c, n) : Encode(c)[x] = W[n][x]
      /\ Encode(c)[End(c, n) + 1] = 0 /\ Encode(c)[End(c, n) + 2] = 204
  <2> DEFINE head == W[n]
             tail == Terminator
  <2>1. Encode(c) = head \o tail
    BY DEF Encode
  <2>2. head \in Seq(Byte) /\ Len(head) = End(c, n)
    BY <1>2
  <2>3. /\ tail \in Seq(Byte) /\ Len(tail) = 2
        /\ tail[1] = 0 /\ tail[2] = 204
    BY <1>3
  <2> HIDE DEF head, tail
  <2>4. Len(head) \in Nat /\ head \in Seq(Byte) /\ tail \in Seq(Byte) /\ Len(tail) \in Nat
    BY <1>2, <2>2, <2>3
  <2>5. /\ head \o tail \in Seq(Byte) /\ Len(head \o tail) = Len(head) + Len(tail)
        /\ \A x \in 1 .. Len(head) : (head \o tail)[x] = head[x]
        /\ \A x \in 1 .. Len(tail) : (head \o tail)[Len(head) + x] = tail[x]
    BY <2>4, ConcatProperties
  <2>6. /\ Encode(c)[End(c, n) + 1] = tail[1]
        /\ Encode(c)[End(c, n) + 2] = tail[2]
    BY <2>1, <2>2, <2>3, <2>5
  <2>7. \A x \in 1 .. End(c, n) : Encode(c)[x] = head[x]
    BY <2>1, <2>2, <2>5
  <2>8. Encode(c) \in Seq(Byte) /\ Len(Encode(c)) = End(c, n) + 2
    BY <2>1, <2>2, <2>3, <2>5
  <2>9. QED
    BY <2>3, <2>6, <2>7, <2>8 DEF head
<1>5. ASSUME NEW k \in 0 .. n
      PROVE  Placed(Encode(c), c, k) /\ End(c, k) =< End(c, n)
  <2>1. Placed(W[k], c, k)
    BY Turns
  <2>2. End(c, k) =< End(c, n) /\ \A x \in 1 .. End(c, k) : W[n][x] = W[k][x]
    BY TurnsAppend
  <2>3. Len(Bytes(c, k)) \in Nat /\ Len(Bytes(c, k)) >= 1
    BY BytesRead
  <2>4. /\ Start(c, k) \in Nat /\ Start(c, k) >= 2 /\ End(c, k) \in Nat
        /\ End(c, k) + 1 = Start(c, k) + Len(Bytes(c, k))
    BY <2>1 DEF Placed
  <2>5. \A x \in 1 .. End(c, k) : Encode(c)[x] = W[k][x]
    BY <1>2, <1>4, <2>2, <2>4
  <2>6. /\ Start(c, k) - 1 \in 1 .. End(c, k) /\ 1 \in 1 .. End(c, k)
        /\ \A j \in 1 .. Len(Bytes(c, k)) : Start(c, k) + j - 1 \in 1 .. End(c, k)
    BY <2>3, <2>4
  <2>7. /\ \A j \in 1 .. Len(Bytes(c, k)) :
             Encode(c)[Start(c, k) + j - 1] = W[k][Start(c, k) + j - 1]
        /\ Encode(c)[Start(c, k) - 1] = W[k][Start(c, k) - 1] /\ Encode(c)[1] = W[k][1]
    BY <2>5, <2>6
  <2>8. QED
    BY <2>1, <2>2, <2>7 DEF Placed
<1>6. QED
  BY <1>4, <1>5

-----------------------------------------------------------------------------
(* What the decoder compares                                               *)

LEMMA FunctionSeq ==
  ASSUME NEW S, NEW size \in Nat, NEW f \in [1 .. size -> S]
  PROVE  f \in Seq(S) /\ Len(f) = size
OBVIOUS

LEMMA PairIs ==
  ASSUME NEW s \in Seq(Byte), NEW x \in Nat, x >= 1, x < Len(s),
         NEW a \in Byte, NEW b \in Byte
  PROVE  SubSeq(s, x, x + 1) = <<a, b>> <=> s[x] = a /\ s[x + 1] = b
<1> DEFINE t == SubSeq(s, x, x + 1)
<1>1. Len(s) \in Nat
  BY LenProperties
<1>2. \A y \in x .. x + 1 : s[y] \in Byte
  <2>1. \A y \in 1 .. Len(s) : s[y] \in Byte
    BY ElementOfSeq
  <2>2. QED
    BY <1>1, <2>1
<1>3. /\ t \in Seq(Byte) /\ Len(t) = 2
      /\ t[1] = s[x] /\ t[2] = s[x + 1]
  <2>1. x \in Int /\ x + 1 \in Int
    OBVIOUS
  <2>2. /\ t \in Seq(Byte)
        /\ Len(t) = IF x =< x + 1 THEN (x + 1) - x + 1 ELSE 0
        /\ \A y \in 1 .. (x + 1) - x + 1 : t[y] = s[x + y - 1]
    BY <1>2, <2>1, SubSeqProperties
  <2> HIDE DEF t
  <2>3. (x + 1) - x + 1 = 2 /\ x + 1 - 1 = x /\ x + 2 - 1 = x + 1
    OBVIOUS
  <2>4. t[1] = s[x + 1 - 1] /\ t[2] = s[x + 2 - 1]
    BY <2>2, <2>3
  <2>5. QED
    BY <2>2, <2>3, <2>4
<1> HIDE DEF t
<1>4. t = <<a, b>> <=> t[1] = a /\ t[2] = b
  <2>1. <<a, b>> \in Seq(Byte) /\ Len(<<a, b>>) = 2
    OBVIOUS
  <2>2. ASSUME t[1] = a, t[2] = b PROVE t = <<a, b>>
    BY <1>3, <2>1, <2>2, SeqEqual
  <2>3. QED
    BY <2>2
<1>5. QED
  BY <1>3, <1>4 DEF t

LEMMA AtEndIs ==
  ASSUME blob \in Seq(Byte), NEW x \in Nat, x >= 1
  PROVE  /\ x < Len(blob) => (AtEnd(x) <=> blob[x] = 0 /\ blob[x + 1] = 204)
         /\ x >= Len(blob) => AtEnd(x)
<1>1. Len(blob) \in Nat
  BY LenProperties
<1>2. x >= Len(blob) => AtEnd(x)
  BY DEF AtEnd
<1>3. ASSUME x < Len(blob)
      PROVE  AtEnd(x) <=> blob[x] = 0 /\ blob[x + 1] = 204
  <2>1. SubSeq(blob, x, x + 1) = <<0, 204>> <=> blob[x] = 0 /\ blob[x + 1] = 204
    <3>1. 0 \in Byte /\ 204 \in Byte
      BY DEF Byte
    <3>2. QED
      BY <1>3, <3>1, PairIs
  <2>2. ~ (x >= Len(blob))
    BY <1>1, <1>3
  <2>3. QED
    BY <2>1, <2>2 DEF AtEnd, Terminator
<1>4. QED
  BY <1>2, <1>3

LEMMA SuffixIs ==
  ASSUME NEW s \in Seq(Byte), NEW a \in Byte, NEW b \in Byte
  PROVE  IsSuffix(<<a, b>>, s) <=>
           Len(s) >= 2 /\ s[Len(s) - 1] = a /\ s[Len(s)] = b
<1> DEFINE p == <<a, b>>
           r == Reverse(p)
           t == Reverse(s)
<1>1. Len(s) \in Nat /\ \A y \in 1 .. Len(s) : s[y] \in Byte
  BY LenProperties, ElementOfSeq
<1>2. /\ t \in Seq(Byte) /\ Len(t) = Len(s)
      /\ \A y \in 1 .. Len(s) : t[y] = s[(Len(s) - y) + 1]
  <2>1. \A y \in 1 .. Len(s) : (Len(s) - y) + 1 \in 1 .. Len(s)
    BY <1>1
  <2>2. t = [y \in 1 .. Len(s) |-> s[(Len(s) - y) + 1]]
    BY DEF Reverse
  <2> HIDE DEF t
  <2>3. t \in [1 .. Len(s) -> Byte]
    BY <1>1, <2>1, <2>2
  <2>4. t \in Seq(Byte) /\ Len(t) = Len(s)
    BY <1>1, <2>3
  <2>5. QED
    BY <2>2, <2>4
<1>3. r \in Seq(Byte) /\ Len(r) = 2 /\ r[1] = b /\ r[2] = a
  <2>1. p \in Seq(Byte) /\ Len(p) = 2 /\ p[1] = a /\ p[2] = b
    OBVIOUS
  <2> HIDE DEF p
  <2>2. r = [y \in 1 .. 2 |-> p[(2 - y) + 1]]
    BY <2>1 DEF Reverse
  <2> HIDE DEF r
  <2>3. r[1] = b /\ r[2] = a
    BY <2>1, <2>2
  <2>4. r \in [1 .. 2 -> Byte]
    <3>1. \A y \in 1 .. 2 : (2 - y) + 1 = 1 \/ (2 - y) + 1 = 2
      OBVIOUS
    <3>2. \A y \in 1 .. 2 : p[(2 - y) + 1] \in Byte
      BY <2>1, <3>1
    <3>3. QED
      BY <2>2, <3>2
  <2>5. r \in Seq(Byte) /\ Len(r) = 2
    BY <2>4, FunctionSeq
  <2>6. QED
    BY <2>3, <2>5
<1> HIDE DEF r, t
<1>4. IsSuffix(p, s) <=> Len(r) <= Len(t) /\ SubSeq(r, 1, Len(r)) = SubSeq(t, 1, Len(r))
  BY DEF IsSuffix, IsPrefix, r, t
<1>5. SubSeq(r, 1, Len(r)) = <<b, a>>
  <2>1. SubSeq(r, 1, Len(r)) = r
    BY <1>3, SubSeqFull
  <2>2. r = <<b, a>>
    <3>1. <<b, a>> \in Seq(Byte) /\ Len(<<b, a>>) = 2
          /\ <<b, a>>[1] = b /\ <<b, a>>[2] = a
      OBVIOUS
    <3> DEFINE q == <<b, a>>
    <3> HIDE DEF q
    <3>2. q \in Seq(Byte) /\ Len(q) = 2 /\ q[1] = b /\ q[2] = a
      BY <3>1 DEF q
    <3>3. r = q
      BY <1>3, <3>2, SeqEqual
    <3>4. QED
      BY <3>3 DEF q
  <2>3. QED
    BY <2>1, <2>2
<1>6. CASE Len(s) > 2
  <2>1. SubSeq(t, 1, 1 + 1) = <<b, a>> <=> t[1] = b /\ t[1 + 1] = a
    BY <1>2, <1>6, PairIs
  <2>2. t[1] = s[Len(s)] /\ t[2] = s[Len(s) - 1]
    BY <1>1, <1>2, <1>6
  <2>3. QED
    BY <1>1, <1>2, <1>3, <1>4, <1>5, <1>6, <2>1, <2>2 DEF p
<1>7. CASE Len(s) = 2
  <2>1. SubSeq(t, 1, Len(t)) = t
    BY <1>2, SubSeqFull
  <2>2. t[1] = s[2] /\ t[2] = s[1]
    BY <1>1, <1>2, <1>7
  <2>3. t = r <=> t[1] = b /\ t[2] = a
    BY <1>2, <1>3, <1>7, SeqEqual
  <2>4. SubSeq(r, 1, Len(r)) = r
    BY <1>3, SubSeqFull
  <2>5. QED
    BY <1>2, <1>3, <1>4, <1>7, <2>1, <2>2, <2>3, <2>4 DEF p
<1>8. CASE Len(s) < 2
  BY <1>1, <1>2, <1>3, <1>4, <1>8 DEF p
<1>9. QED
  BY <1>1, <1>6, <1>7, <1>8

(* The bytes of a gap, and what makes them ambiguous.                      *)
LEMMA GapEnds ==
  ASSUME NEW c, Carried(c), NEW k \in 0 .. Len(c.events)
  PROVE  LET E == Bytes(c, k)
             L == Len(E)
         IN  /\ RunsOn(GapAfter(c, k)) <=> L >= 2 /\ E[L - 1] = ContC9 /\ E[L] = 0
             /\ EndsInZero(GapAfter(c, k)) <=> E[L] = 0
             /\ E[1] # 204
             /\ E[1] = 0 <=> GapAfter(c, k) = 0
             /\ GapAfter(c, k) = 0 => E = <<0>> /\ L = 1 /\ E[1] = 0
<1> DEFINE E == Bytes(c, k)
           g == GapAfter(c, k)
<1>1. g \in Nat
  BY CarriedFacts
<1>2. E \in Seq(Byte) /\ Len(E) \in Nat /\ Len(E) >= 1
  BY BytesRead
<1>3. E = GapBytes[g][TRUE]
  BY DEF Bytes, EncodeGap
<1>4. RunsOn(g) <=> Len(E) >= 2 /\ E[Len(E) - 1] = ContC9 /\ E[Len(E)] = 0
  <2>1. ContC9 \in Byte /\ 0 \in Byte
    BY DEF Byte, ContC9
  <2>2. IsSuffix(<<ContC9, 0>>, E) <=>
          Len(E) >= 2 /\ E[Len(E) - 1] = ContC9 /\ E[Len(E)] = 0
    <3> HIDE DEF E
    <3>1. QED
      BY <1>2, <2>1, SuffixIs
  <2>3. QED
    BY <2>2 DEF RunsOn, Bytes
<1>5. EndsInZero(g) <=> E[Len(E)] = 0
  BY DEF EndsInZero, Last, Bytes
<1>6. /\ E[1] # 204 /\ (E[1] = 0 <=> g = 0)
      /\ g = 0 => E = <<0>>
  <2>1. CASE g < ContC9Value
    <3>1. E = <<g>>
      BY <1>1, <1>3, <2>1, GapBytesTurns
    <3> HIDE DEF E, g
    <3>2. QED
      BY <1>1, <2>1, <3>1 DEF ContC9Value
  <2>2. CASE g >= ContC9Value
    <3> DEFINE rest == GapBytes[g - ContC9Value][FALSE]
    <3>1. g - ContC9Value \in Nat /\ E = <<ContC9>> \o rest
      BY <1>1, <1>3, <2>2, GapBytesTurns
    <3>2. rest \in Seq(Byte)
      BY <3>1, GapBytesTurns
    <3> HIDE DEF E, rest
    <3>3. <<ContC9>> \in Seq(Byte) /\ Len(<<ContC9>>) = 1 /\ <<ContC9>>[1] = ContC9
      BY DEF ContC9, Byte
    <3>4. (<<ContC9>> \o rest)[1] = ContC9
      <4>1. Len(rest) \in Nat
        BY <3>2, LenProperties
      <4>2. QED
        BY <3>2, <3>3, <4>1, ConcatProperties
    <3>5. QED
      BY <2>2, <3>1, <3>4 DEF ContC9, ContC9Value
  <2>3. QED
    BY <1>1, <2>1, <2>2 DEF ContC9Value
<1>7. QED
  BY <1>4, <1>5, <1>6

-----------------------------------------------------------------------------
(* The types                                                               *)

Watering == [duration : Byte, gap : Nat]

(* The bytes are those of the chain, which encode_schedule accepted.       *)
Sent == Carried(sent) /\ blob = Encode(sent)

(* Closing a gap changes the gap of the last watering and nothing else.    *)
LEMMA WithGapIs ==
  ASSUME events \in Seq(Watering), NEW g \in Nat
  PROVE  /\ WithGap(g) \in Seq(Watering) /\ Len(WithGap(g)) = Len(events)
         /\ \A m \in 1 .. Len(events) :
              /\ WithGap(g)[m].duration = events[m].duration
              /\ m < Len(events) => WithGap(g)[m] = events[m]
              /\ m = Len(events) /\ lead # NoLead => WithGap(g)[m].gap = g
<1> DEFINE len == Len(events)
<1>1. len \in Nat /\ (events = <<>> <=> len = 0)
  BY LenProperties, EmptySeq
<1>2. \A m \in 1 .. len : events[m] \in Watering
  BY ElementOfSeq
<1>3. CASE lead = NoLead \/ events = <<>>
  BY <1>1, <1>3 DEF WithGap
<1>4. CASE lead # NoLead /\ len > 0
  <2> DEFINE new == [events[len] EXCEPT !.gap = g]
  <2>1. len \in 1 .. len
    BY <1>1, <1>4
  <2>2. new \in Watering /\ new.gap = g /\ new.duration = events[len].duration
    BY <1>2, <2>1 DEF Watering
  <2>3. WithGap(g) = [events EXCEPT ![len] = new]
    BY <1>1, <1>4 DEF WithGap
  <2> HIDE DEF new
  <2>4. /\ WithGap(g) \in Seq(Watering) /\ Len(WithGap(g)) = len
        /\ \A m \in 1 .. len : WithGap(g)[m] = IF m = len THEN new ELSE events[m]
    BY <2>1, <2>2, <2>3, ExceptSeq
  <2>5. QED
    BY <2>2, <2>4
<1>5. QED
  BY <1>1, <1>3, <1>4

LEMMA Accepted ==
  ASSUME NEW c \in Chains, Encodable(c)
  PROVE  Carried(c) /\ c \in ChainSet
<1>1. c \in ChainSet
  BY ChainsAssumption
<1>2. DOMAIN c.events = 1 .. Len(c.events)
  BY <1>1, LenProperties DEF ChainSet
<1>3. QED
  BY <1>1, <1>2 DEF Encodable, Carried

LEMMA InitTypes == Init => TypeOK /\ Sent
<1> SUFFICES ASSUME Init PROVE TypeOK /\ Sent
  OBVIOUS
<1>1. sent \in Chains /\ Encodable(sent) /\ blob = Encode(sent)
  BY DEF Init
<1>2. Carried(sent) /\ sent \in ChainSet
  BY <1>1, Accepted
<1>3. blob \in Seq(Byte) /\ Len(blob) <= Room
  BY <1>1, <1>2, Layout DEF Encodable
<1>4. i \in 2 .. Len(blob)
  <2>1. Len(sent.events) \in 0 .. Len(sent.events)
    BY <1>2, CarriedFacts
  <2>2. End(sent, Len(sent.events)) \in Nat
    BY <1>2, <2>1, Layout DEF Placed
  <2>3. Len(blob) = End(sent, Len(sent.events)) + 2
    BY <1>1, <1>2, Layout
  <2>4. QED
    BY <2>2, <2>3 DEF Init
<1>5. acc \in Nat /\ lead \in Nat \cup {NoLead} /\ done \in BOOLEAN
  BY DEF Init
<1>6. events \in Seq([duration : Byte, gap : Nat])
  BY DEF Init
<1>7. QED
  BY <1>1, <1>2, <1>3, <1>4, <1>5, <1>6 DEF TypeOK, Sent

LEMMA ByteNext ==
  ASSUME TypeOK, ~ AtEnd(i)
  PROVE  /\ i \in Nat /\ i >= 2 /\ Len(blob) \in Nat /\ i < Len(blob)
         /\ blob[i] \in Byte /\ blob[i] \in Nat /\ ContValue(blob[i]) \in Nat
         /\ blob[i + 1] \in Byte /\ blob[i + 1] \in Nat
<1>1. blob \in Seq(Byte) /\ i \in 2 .. Len(blob)
  BY DEF TypeOK
<1>2. Len(blob) \in Nat /\ \A x \in 1 .. Len(blob) : blob[x] \in Byte
  BY <1>1, LenProperties, ElementOfSeq
<1>3. i \in Nat /\ i >= 1 /\ i >= 2
  BY <1>1, <1>2
<1>4. i < Len(blob)
  BY <1>1, <1>2, <1>3, AtEndIs
<1>5. i \in 1 .. Len(blob) /\ i + 1 \in 1 .. Len(blob)
  BY <1>2, <1>3, <1>4
<1>6. \A byte \in Byte : byte \in Nat
  BY DEF Byte
<1>7. QED
  BY <1>2, <1>3, <1>4, <1>5, <1>6, ContValues

(* What a turn that ends a gap leaves.                                     *)
LEMMA EndGapIs ==
  ASSUME TypeOK, EndGap
  PROVE  LET w == WithGap(acc + blob[i])
         IN  /\ acc + blob[i] \in Nat
             /\ lead' = (IF lead = NoLead THEN acc + blob[i] ELSE lead) /\ lead' \in Nat
             /\ sent' = sent /\ blob' = blob /\ done' = done /\ acc' = 0
             /\ events' \in Seq(Watering)
             /\ AtEnd(i + 1) => i' = i + 1 /\ events' = w
             /\ ~ AtEnd(i + 1) =>
                  /\ i' = i + 2 /\ i + 1 < Len(blob)
                  /\ Len(events') = Len(events) + 1
                  /\ \A m \in 1 .. Len(events) : events'[m] = w[m]
                  /\ events' = Append(w, [duration |-> blob[i + 1], gap |-> 0])
                  /\ events'[Len(events) + 1] = [duration |-> blob[i + 1], gap |-> 0]
<1> DEFINE g == acc + blob[i]
           w == WithGap(g)
           next == [duration |-> blob[i + 1], gap |-> 0]
<1>1. ~ AtEnd(i)
  BY DEF EndGap
<1>2. /\ i \in Nat /\ i >= 2 /\ Len(blob) \in Nat /\ i < Len(blob)
      /\ blob[i] \in Nat /\ blob[i + 1] \in Byte
  BY <1>1, ByteNext
<1>3. g \in Nat /\ events \in Seq(Watering) /\ lead \in Nat \cup {NoLead}
  BY <1>2 DEF TypeOK, Watering
<1>4. w \in Seq(Watering) /\ Len(w) = Len(events) /\ Len(events) \in Nat
  <2> HIDE DEF g
  <2>1. QED
    BY <1>3, WithGapIs, LenProperties
<1>5. next \in Watering
  BY <1>2 DEF Watering
<1>6. /\ sent' = sent /\ blob' = blob /\ done' = done /\ acc' = 0
      /\ lead' = IF lead = NoLead THEN g ELSE lead
      /\ AtEnd(i + 1) => i' = i + 1 /\ events' = w
      /\ ~ AtEnd(i + 1) => i' = i + 2 /\ events' = Append(w, next)
  BY DEF EndGap
<1>7. lead' \in Nat
  BY <1>3, <1>6
<1>8. ~ AtEnd(i + 1) => i + 1 < Len(blob)
  BY <1>2, AtEndIs DEF TypeOK
<1> HIDE DEF w, next
<1>9. /\ Append(w, next) \in Seq(Watering) /\ Len(Append(w, next)) = Len(events) + 1
      /\ \A m \in 1 .. Len(events) : Append(w, next)[m] = w[m]
      /\ Append(w, next)[Len(events) + 1] = next
  BY <1>4, <1>5, AppendProperties
<1>10. events' \in Seq(Watering)
  BY <1>4, <1>6, <1>9
<1>11. QED
  BY <1>3, <1>6, <1>7, <1>8, <1>9, <1>10 DEF w, next

LEMMA TypesNext ==
  ASSUME TypeOK, Sent, [Next]_vars
  PROVE  TypeOK' /\ Sent'
<1>1. CASE Continue
  <2>1. ~ AtEnd(i)
    BY <1>1 DEF Continue
  <2>2. /\ i \in Nat /\ i >= 2 /\ Len(blob) \in Nat /\ i < Len(blob)
        /\ ContValue(blob[i]) \in Nat
    BY <2>1, ByteNext
  <2>3. /\ UNCHANGED <<sent, blob, lead, events, done>>
        /\ acc' = acc + ContValue(blob[i]) /\ i' = i + 1
    BY <1>1 DEF Continue
  <2>4. acc' \in Nat /\ i' \in 2 .. Len(blob)
    BY <2>2, <2>3 DEF TypeOK
  <2>5. QED
    BY <2>3, <2>4 DEF TypeOK, Sent
<1>2. CASE EndGap
  <2>1. ~ AtEnd(i)
    BY <1>2 DEF EndGap
  <2>2. i \in Nat /\ i >= 2 /\ Len(blob) \in Nat /\ i < Len(blob)
    BY <2>1, ByteNext
  <2>3. /\ lead' \in Nat /\ acc' = 0 /\ events' \in Seq(Watering)
        /\ sent' = sent /\ blob' = blob /\ done' = done
        /\ i' = i + 1 \/ (i' = i + 2 /\ i + 1 < Len(blob))
    BY <1>2, EndGapIs
  <2>4. i' \in 2 .. Len(blob)
    BY <2>2, <2>3
  <2>5. QED
    BY <2>3, <2>4 DEF TypeOK, Sent, Watering
<1>3. CASE Finish
  <2>1. lead' \in Nat \cup {NoLead}
    BY <1>3 DEF Finish, TypeOK
  <2>2. UNCHANGED <<sent, blob, i, acc, events>> /\ done' = TRUE
    BY <1>3 DEF Finish
  <2>3. QED
    BY <2>1, <2>2 DEF TypeOK, Sent
<1>4. CASE UNCHANGED vars
  BY <1>4 DEF TypeOK, Sent, vars
<1>5. QED
  BY <1>1, <1>2, <1>3, <1>4 DEF Next

(* Every variable keeps its type, and the decoder never reads beyond the   *)
(* last byte, whichever bytes a chain gives.                               *)
THEOREM TypeCorrect == Spec => []TypeOK
<1> DEFINE Inv == TypeOK /\ Sent
<1>1. Init => Inv
  BY InitTypes
<1>2. Inv /\ [Next]_vars => Inv'
  BY TypesNext
<1>3. Inv => TypeOK
  OBVIOUS
<1> HIDE DEF Inv
<1>4. QED
  BY <1>1, <1>2, <1>3, PTL DEF Spec

-----------------------------------------------------------------------------
(* What the decoder has                                                    *)

(* The first k waterings, all their gaps read, and with the last gap open. *)
Kept(c, k) == [m \in 1 .. k |-> c.events[m]]

Opened(c, k) ==
  [m \in 1 .. k |-> [duration |-> c.events[m].duration,
                     gap |-> IF m = k THEN 0 ELSE c.events[m].gap]]

LeadAt(c, k) == IF k = 0 THEN NoLead ELSE c.lead

LEMMA Opening ==
  ASSUME NEW c, Carried(c), NEW k \in 0 .. Len(c.events)
  PROVE  /\ Kept(c, k) \in Seq(Watering) /\ Len(Kept(c, k)) = k
         /\ Opened(c, k) \in Seq(Watering) /\ Len(Opened(c, k)) = k
         /\ \A m \in 1 .. k :
              /\ Kept(c, k)[m] = c.events[m]
              /\ Opened(c, k)[m] = [duration |-> c.events[m].duration,
                                    gap |-> IF m = k THEN 0 ELSE c.events[m].gap]
              /\ c.events[m] = [duration |-> c.events[m].duration, gap |-> c.events[m].gap]
<1>1. k \in Nat /\ Len(c.events) \in Nat
  BY CarriedFacts
<1>2. \A m \in 1 .. k : /\ c.events[m] \in Watering /\ c.events[m].gap \in Nat
                        /\ c.events[m].duration \in Byte
                        /\ c.events[m] =
                             [duration |-> c.events[m].duration, gap |-> c.events[m].gap]
  <2>1. ASSUME NEW m \in 1 .. k
        PROVE  /\ c.events[m] \in Watering /\ c.events[m].gap \in Nat
               /\ c.events[m].duration \in Byte
               /\ c.events[m] =
                    [duration |-> c.events[m].duration, gap |-> c.events[m].gap]
    <3>1. m \in 1 .. Len(c.events)
      BY <1>1
    <3>2. /\ c.events[m] \in [duration : Int, gap : Int]
          /\ c.events[m].gap \in Nat /\ c.events[m].duration \in Byte
      BY <3>1, CarriedFacts
    <3>3. QED
      BY <3>2 DEF Watering
  <2>2. QED
    BY <2>1
<1>3. Kept(c, k) \in [1 .. k -> Watering]
  BY <1>2 DEF Kept
<1>4. Opened(c, k) \in [1 .. k -> Watering]
  BY <1>2 DEF Opened, Watering
<1>5. /\ Kept(c, k) \in Seq(Watering) /\ Len(Kept(c, k)) = k
      /\ Opened(c, k) \in Seq(Watering) /\ Len(Opened(c, k)) = k
  BY <1>1, <1>3, <1>4, FunctionSeq
<1>6. \A m \in 1 .. k :
        /\ Kept(c, k)[m] = c.events[m]
        /\ Opened(c, k)[m] = [duration |-> c.events[m].duration,
                              gap |-> IF m = k THEN 0 ELSE c.events[m].gap]
  BY DEF Kept, Opened
<1>7. QED
  BY <1>2, <1>5, <1>6

LEMMA AllKept ==
  ASSUME NEW c, Carried(c)
  PROVE  Kept(c, Len(c.events)) = c.events
<1> DEFINE n == Len(c.events)
<1>1. /\ c.events \in Seq([duration : Int, gap : Int]) /\ n \in Nat /\ n \in 0 .. n
  BY CarriedFacts
<1>2. c.events = [m \in 1 .. n |-> c.events[m]]
  BY <1>1, LenProperties
<1>3. QED
  BY <1>2 DEF Kept

(* The gap closes, and the next watering opens.                            *)
LEMMA KeptOpens ==
  ASSUME NEW c, Carried(c), NEW k \in 0 .. Len(c.events) - 1
  PROVE  Opened(c, k + 1) =
           Append(Kept(c, k), [duration |-> c.events[k + 1].duration, gap |-> 0])
<1> DEFINE next == [duration |-> c.events[k + 1].duration, gap |-> 0]
           new == Append(Kept(c, k), next)
<1>1. /\ Len(c.events) \in Nat /\ k \in Nat
      /\ k \in 0 .. Len(c.events) /\ k + 1 \in 0 .. Len(c.events)
      /\ k + 1 \in 1 .. Len(c.events)
  BY CarriedFacts
<1>2. /\ Kept(c, k) \in Seq(Watering) /\ Len(Kept(c, k)) = k
      /\ \A m \in 1 .. k : /\ Kept(c, k)[m] = c.events[m]
                           /\ c.events[m] = [duration |-> c.events[m].duration,
                                             gap |-> c.events[m].gap]
  BY <1>1, Opening
<1>3. /\ Opened(c, k + 1) \in Seq(Watering) /\ Len(Opened(c, k + 1)) = k + 1
      /\ \A m \in 1 .. k + 1 :
           Opened(c, k + 1)[m] = [duration |-> c.events[m].duration,
                                  gap |-> IF m = k + 1 THEN 0 ELSE c.events[m].gap]
  BY <1>1, Opening
<1>4. next \in Watering
  BY <1>1, CarriedFacts DEF Watering
<1>5. /\ new \in Seq(Watering) /\ Len(new) = k + 1
      /\ \A m \in 1 .. k : new[m] = Kept(c, k)[m]
      /\ new[k + 1] = next
  BY <1>2, <1>4, AppendProperties
<1>6. ASSUME NEW m \in 1 .. k + 1 PROVE Opened(c, k + 1)[m] = new[m]
  <2>1. CASE m = k + 1
    BY <1>3, <1>5, <2>1
  <2>2. CASE m \in 1 .. k
    <3>1. ~ (m = k + 1)
      BY <1>1, <2>2
    <3>2. QED
      BY <1>2, <1>3, <1>5, <2>2, <3>1
  <2>3. m = k + 1 \/ m \in 1 .. k
    BY <1>1
  <2>4. QED
    BY <2>1, <2>2, <2>3
<1> HIDE DEF new
<1>7. Opened(c, k + 1) = new
  BY <1>3, <1>5, <1>6, SeqEqual
<1>8. QED
  BY <1>7 DEF new

LEMMA ClosingKeeps ==
  ASSUME Carried(sent), NEW k \in 0 .. Len(sent.events),
         events = Opened(sent, k), lead = LeadAt(sent, k)
  PROVE  /\ WithGap(GapAfter(sent, k)) = Kept(sent, k)
         /\ Len(events) = k
         /\ (IF lead = NoLead THEN GapAfter(sent, k) ELSE lead) = sent.lead
<1> DEFINE g == GapAfter(sent, k)
           w == WithGap(g)
<1>1. g \in Nat /\ k \in Nat /\ sent.lead \in Nat
  <2>1. sent.lead \in Nat
    BY CycleAssumption DEF Carried, ChainSet
  <2>2. QED
    BY <2>1, CarriedFacts
<1>2. /\ events \in Seq(Watering) /\ Len(events) = k
      /\ Kept(sent, k) \in Seq(Watering) /\ Len(Kept(sent, k)) = k
      /\ \A m \in 1 .. k :
           /\ Kept(sent, k)[m] = sent.events[m]
           /\ events[m] = [duration |-> sent.events[m].duration,
                           gap |-> IF m = k THEN 0 ELSE sent.events[m].gap]
           /\ sent.events[m] =
                [duration |-> sent.events[m].duration, gap |-> sent.events[m].gap]
  BY Opening
<1>3. k > 0 => lead # NoLead
  BY <1>1 DEF LeadAt, NoLead
<1>4. /\ w \in Seq(Watering) /\ Len(w) = k
      /\ \A m \in 1 .. k :
           /\ w[m].duration = events[m].duration
           /\ m < k => w[m] = events[m]
           /\ m = k /\ lead # NoLead => w[m].gap = g
  <2> HIDE DEF g
  <2>1. QED
    BY <1>1, <1>2, WithGapIs
<1>5. ASSUME NEW m \in 1 .. k PROVE w[m] = Kept(sent, k)[m]
  <2>1. CASE m < k
    <3>1. ~ (m = k)
      BY <2>1
    <3>2. QED
      BY <1>2, <1>4, <2>1, <3>1
  <2>2. CASE m = k
    <3>1. w[m] \in Watering
      BY <1>4, ElementOfSeq
    <3>2. w[m].duration = sent.events[m].duration
      <4> DEFINE d == sent.events[m].duration
                 rest == IF m = k THEN 0 ELSE sent.events[m].gap
      <4>1. events[m].duration = sent.events[m].duration
        <5>1. events[m] = [duration |-> d, gap |-> rest]
          BY <1>2
        <5> HIDE DEF d, rest
        <5>2. events[m].duration = d
          BY <5>1
        <5>3. QED
          BY <5>2 DEF d
      <4>2. w[m].duration = events[m].duration
        BY <1>4
      <4>3. QED
        BY <4>1, <4>2
    <3>3. g = sent.events[m].gap
      BY <1>1, <2>2 DEF GapAfter
    <3>4. w[m].gap = sent.events[m].gap
      BY <1>3, <1>4, <2>2, <3>3
    <3>5. w[m] = [duration |-> w[m].duration, gap |-> w[m].gap]
      BY <3>1 DEF Watering
    <3>6. QED
      BY <1>2, <3>2, <3>4, <3>5
  <2>3. QED
    BY <1>1, <2>1, <2>2
<1> HIDE DEF w
<1>6. w = Kept(sent, k)
  BY <1>2, <1>4, <1>5, SeqEqual
<1>7. (IF lead = NoLead THEN g ELSE lead) = sent.lead
  BY <1>1, <1>3 DEF LeadAt, GapAfter, NoLead
<1>8. QED
  BY <1>2, <1>6, <1>7 DEF w

-----------------------------------------------------------------------------
(* Where the decoder is                                                    *)

(* The bytes around the gap after the k-th watering.                       *)
GapIn(k) ==
  LET len == Len(Bytes(sent, k))
  IN  /\ Start(sent, k) \in Nat /\ Start(sent, k) >= 2 /\ End(sent, k) \in Nat
      /\ len \in Nat /\ len >= 1
      /\ End(sent, k) + 1 = Start(sent, k) + len /\ End(sent, k) + 2 =< Len(blob)
      /\ \A j \in 1 .. len : blob[Start(sent, k) + j - 1] = Bytes(sent, k)[j]
      /\ blob[Start(sent, k) - 1] = IF k = 0 THEN 0 ELSE sent.events[k].duration

(* The bytes behind it.                                                    *)
BehindGap(k) ==
  IF k = Len(sent.events)
    THEN /\ blob[End(sent, k) + 1] = 0 /\ blob[End(sent, k) + 2] = 204
         /\ Len(blob) = End(sent, k) + 2
    ELSE /\ Start(sent, k + 1) = End(sent, k) + 2
         /\ blob[End(sent, k) + 1] = sent.events[k + 1].duration
         /\ blob[End(sent, k) + 2] = Bytes(sent, k + 1)[1]
         /\ End(sent, k) + 4 =< Len(blob)

LEMMA GapIsIn ==
  ASSUME Sent, NEW k \in 0 .. Len(sent.events)
  PROVE  GapIn(k)
<1> DEFINE n == Len(sent.events)
<1>1. Carried(sent) /\ blob = Encode(sent)
  BY DEF Sent
<1>2. /\ Placed(blob, sent, k) /\ End(sent, k) =< End(sent, n)
      /\ Len(blob) = End(sent, n) + 2
  BY <1>1, Layout
<1>3. Len(Bytes(sent, k)) \in Nat /\ Len(Bytes(sent, k)) >= 1
  BY <1>1, BytesRead
<1>4. End(sent, n) \in Nat
  <2>1. n \in 0 .. n
    BY <1>1, CarriedFacts
  <2>2. Placed(blob, sent, n)
    BY <1>1, <2>1, Layout
  <2>3. QED
    BY <2>2 DEF Placed
<1>5. blob[Start(sent, k) - 1] = IF k = 0 THEN 0 ELSE sent.events[k].duration
  <2>1. CASE k = 0
    <3>1. Start(sent, k) = 2 /\ blob[1] = 0
      BY <1>2, <2>1 DEF Placed
    <3>2. QED
      BY <2>1, <3>1
  <2>2. CASE ~ (k = 0)
    BY <1>2, <2>2 DEF Placed
  <2>3. QED
    BY <2>1, <2>2
<1>6. /\ Start(sent, k) \in Nat /\ Start(sent, k) >= 2 /\ End(sent, k) \in Nat
      /\ End(sent, k) + 1 = Start(sent, k) + Len(Bytes(sent, k))
      /\ \A j \in 1 .. Len(Bytes(sent, k)) : blob[Start(sent, k) + j - 1] = Bytes(sent, k)[j]
  BY <1>2 DEF Placed
<1>7. End(sent, k) + 2 =< Len(blob)
  BY <1>2, <1>4, <1>6
<1>8. QED
  BY <1>3, <1>5, <1>6, <1>7 DEF GapIn

LEMMA BehindIsIn ==
  ASSUME Sent, NEW k \in 0 .. Len(sent.events)
  PROVE  BehindGap(k)
<1> DEFINE n == Len(sent.events)
<1>1. Carried(sent) /\ blob = Encode(sent) /\ n \in Nat
  BY CarriedFacts DEF Sent
<1>2. CASE k = n
  BY <1>1, <1>2, Layout DEF BehindGap
<1>3. CASE k < n
  <2>1. k + 1 \in 0 .. n /\ ~ (k + 1 = 0) /\ (k + 1) - 1 = k /\ ~ (k = n)
    BY <1>1, <1>3
  <2>2. Placed(blob, sent, k + 1) /\ GapIn(k + 1) /\ GapIn(k)
    BY <1>1, <2>1, Layout, GapIsIn
  <2>3. End(sent, k) \in Nat
    BY <2>2 DEF GapIn
  <2>4. /\ Start(sent, k + 1) = End(sent, k) + 2
        /\ blob[Start(sent, k + 1) - 1] = sent.events[k + 1].duration
    <3>1. Start(sent, k + 1) = End(sent, (k + 1) - 1) + 2
      BY <2>1, <2>2 DEF Placed
    <3>2. blob[Start(sent, k + 1) - 1] = sent.events[k + 1].duration
      BY <2>1, <2>2 DEF GapIn
    <3>3. QED
      BY <2>1, <3>1, <3>2
  <2>5. /\ Len(Bytes(sent, k + 1)) \in Nat /\ Len(Bytes(sent, k + 1)) >= 1
        /\ End(sent, k + 1) + 1 = Start(sent, k + 1) + Len(Bytes(sent, k + 1))
        /\ End(sent, k + 1) + 2 =< Len(blob) /\ End(sent, k + 1) \in Nat
        /\ \A j \in 1 .. Len(Bytes(sent, k + 1)) :
             blob[Start(sent, k + 1) + j - 1] = Bytes(sent, k + 1)[j]
    BY <2>2 DEF GapIn
  <2>6. blob[Start(sent, k + 1) + 1 - 1] = Bytes(sent, k + 1)[1]
    BY <2>5
  <2>7. /\ Start(sent, k + 1) + 1 - 1 = End(sent, k) + 2
        /\ Start(sent, k + 1) - 1 = End(sent, k) + 1
    BY <2>3, <2>4
  <2>8. Len(blob) \in Nat
    BY <1>1, Layout, LenProperties
  <2>9. End(sent, k) + 4 =< Len(blob)
    BY <2>3, <2>4, <2>5, <2>8
  <2>10. QED
    BY <2>1, <2>4, <2>6, <2>7, <2>9 DEF BehindGap
<1>4. QED
  BY <1>1, <1>2, <1>3

(* The 0 that ends the gap after the k-th watering reads as one byte more  *)
(* of a gap.                                                               *)
Slips(c, k) ==
  \/ RunsOn(GapAfter(c, k))
  \/ k > 0 /\ c.events[k].gap = 0 /\ c.events[k].duration \in {ContC9, ContFF}

(* The terminator seems to be between the gap and the next watering.       *)
EndsEarly(c, k) ==
  k < Len(c.events) /\ EndsInZero(GapAfter(c, k)) /\ c.events[k + 1].duration = 204

(* Inside a gap every byte continues it.                                   *)
LEMMA InsideGap ==
  ASSUME TypeOK, Sent, NEW k \in 0 .. Len(sent.events), NEW j \in 1 .. Len(Bytes(sent, k)) - 1,
         i = Start(sent, k) + j - 1
  PROVE  /\ ~ AtEnd(i) /\ IsContinuation(i)
         /\ j + 1 \in 1 .. Len(Bytes(sent, k)) /\ i + 1 = Start(sent, k) + (j + 1) - 1
         /\ Values(sent, k)[j + 1] = Values(sent, k)[j] + ContValue(blob[i])
<1> DEFINE E == Bytes(sent, k)
           len == Len(E)
<1>1. /\ Start(sent, k) \in Nat /\ Start(sent, k) >= 2
      /\ len \in Nat /\ len >= 1 /\ Start(sent, k) + len + 1 =< Len(blob)
      /\ \A x \in 1 .. len : blob[Start(sent, k) + x - 1] = E[x]
  <2>1. /\ Start(sent, k) \in Nat /\ Start(sent, k) >= 2 /\ End(sent, k) \in Nat
        /\ len \in Nat /\ len >= 1
        /\ End(sent, k) + 1 = Start(sent, k) + len /\ End(sent, k) + 2 =< Len(blob)
        /\ \A x \in 1 .. len : blob[Start(sent, k) + x - 1] = E[x]
    BY GapIsIn DEF GapIn
  <2>2. Len(blob) \in Nat
    BY LenProperties DEF TypeOK
  <2> HIDE DEF E, len
  <2>3. Start(sent, k) + len + 1 =< Len(blob)
    BY <2>1, <2>2
  <2>4. QED
    BY <2>1, <2>3
<1>2. GapReads(E, GapAfter(sent, k), Values(sent, k))
  BY BytesRead DEF Sent
<1>3. /\ \/ E[j] \in {ContC9, ContFF}
         \/ E[j] = 0 /\ j > 1 /\ E[j - 1] = ContFF
      /\ Values(sent, k)[j + 1] = Values(sent, k)[j] + ContValue(E[j])
      /\ E[len] < ContC9Value
      /\ \A x \in 1 .. len - 1 : E[x] \in {ContC9, ContFF} \/ E[x] = 0
  BY <1>2 DEF GapReads
<1>4. j \in 1 .. len /\ j + 1 \in 1 .. len /\ j \in Nat /\ j \in 1 .. len - 1
  <2>1. j \in 1 .. len - 1
    OBVIOUS
  <2> HIDE DEF len
  <2>2. QED
    BY <1>1, <2>1
<1> HIDE DEF E, len
<1>5. blob[i] = E[j] /\ blob[i + 1] = E[j + 1] /\ i + 1 = Start(sent, k) + (j + 1) - 1
  <2>1. i + 1 = Start(sent, k) + (j + 1) - 1
    BY <1>1, <1>4
  <2>2. QED
    BY <1>1, <1>4, <2>1
<1>6. E[j + 1] # 204
  <2>1. CASE j + 1 = len
    BY <1>3, <2>1 DEF ContC9Value
  <2>2. CASE j + 1 \in 1 .. len - 1
    BY <1>3, <2>2 DEF ContC9, ContFF
  <2>3. QED
    BY <1>1, <1>4, <2>1, <2>2
<1>7. ~ AtEnd(i)
  <2>1. blob \in Seq(Byte) /\ i \in Nat /\ i >= 1
    <3>1. i = Start(sent, k) + j - 1
      OBVIOUS
    <3>2. blob \in Seq(Byte)
      BY DEF TypeOK
    <3>3. QED
      BY <1>1, <1>4, <3>1, <3>2
  <2>2. i < Len(blob)
    <3>1. Len(blob) \in Nat
      BY <2>1, LenProperties
    <3>2. QED
      BY <1>1, <1>4, <3>1
  <2>3. QED
    BY <1>5, <1>6, <2>1, <2>2, AtEndIs
<1>8. j > 1 => blob[i - 1] = E[j - 1]
  <2>1. SUFFICES ASSUME j > 1 PROVE blob[i - 1] = E[j - 1]
    OBVIOUS
  <2>2. j - 1 \in 1 .. len /\ i - 1 = Start(sent, k) + (j - 1) - 1
    BY <1>1, <1>4, <2>1
  <2>3. QED
    BY <1>1, <2>2
<1>9. IsContinuation(i)
  BY <1>3, <1>5, <1>8 DEF IsContinuation
<1>10. QED
  BY <1>3, <1>4, <1>5, <1>7, <1>9 DEF E, len

(* At the last byte of a gap.                                              *)
LEMMA LastOfGap ==
  ASSUME TypeOK, Sent, NEW k \in 0 .. Len(sent.events), i = End(sent, k)
  PROVE  /\ blob[i] \in Nat /\ Values(sent, k)[Len(Bytes(sent, k))] \in Nat
         /\ Values(sent, k)[Len(Bytes(sent, k))] + blob[i] = GapAfter(sent, k)
         /\ IsContinuation(i) <=> Slips(sent, k)
         /\ IsContinuation(i) => blob[i] = 0
         /\ AtEnd(i) <=> EndsEarly(sent, k)
         /\ AtEnd(i + 1) <=> k = Len(sent.events)
<1> DEFINE E == Bytes(sent, k)
           len == Len(E)
           g == GapAfter(sent, k)
           n == Len(sent.events)
<1>1. Carried(sent) /\ n \in Nat /\ k \in Nat /\ k =< n
  BY CarriedFacts DEF Sent
<1>2. /\ Start(sent, k) \in Nat /\ Start(sent, k) >= 2
      /\ len \in Nat /\ len >= 1 /\ i + 1 = Start(sent, k) + len /\ i + 2 =< Len(blob)
      /\ \A x \in 1 .. len : blob[Start(sent, k) + x - 1] = E[x]
      /\ blob[Start(sent, k) - 1] = IF k = 0 THEN 0 ELSE sent.events[k].duration
      /\ i \in Nat
  BY GapIsIn DEF GapIn
<1>3. /\ E[len] < ContC9Value /\ Values(sent, k)[len] + E[len] = g
      /\ len > 1 => E[len - 1] # ContFF
      /\ E[len] \in Nat /\ Values(sent, k)[len] \in Nat
  <2>1. GapReads(E, g, Values(sent, k))
    BY <1>1, BytesRead
  <2>2. len \in 1 .. len
    BY <1>2
  <2>3. E[len] \in Nat /\ Values(sent, k)[len] \in Nat
    BY <2>1, <2>2, GapReadsTypes
  <2>4. QED
    BY <2>1, <2>3 DEF GapReads
<1>4. /\ RunsOn(g) <=> len >= 2 /\ E[len - 1] = ContC9 /\ E[len] = 0
      /\ EndsInZero(g) <=> E[len] = 0
      /\ E[1] = 0 <=> g = 0
      /\ g = 0 => len = 1
  BY <1>1, GapEnds
<1>5. k > 0 => g = sent.events[k].gap
  BY <1>1 DEF GapAfter
<1> HIDE DEF E, g, len, n
<1>6. /\ blob[i] = E[len] /\ i >= 2 /\ i < Len(blob) /\ i + 1 < Len(blob)
      /\ Len(blob) \in Nat
  <2>1. i = Start(sent, k) + len - 1 /\ len \in 1 .. len
    <3>1. len \in Nat /\ len >= 1 /\ Start(sent, k) \in Nat
      BY <1>2
    <3>2. i \in Nat /\ i + 1 = Start(sent, k) + len
      BY <1>2
    <3>3. QED
      BY <3>1, <3>2
  <2>2. Len(blob) \in Nat
    BY LenProperties DEF TypeOK
  <2>3. blob[i] = E[len]
    BY <1>2, <2>1
  <2>4. i >= 2
    BY <1>2, <2>1
  <2>5. i < Len(blob) /\ i + 1 < Len(blob)
    BY <1>2, <2>2
  <2>6. QED
    BY <2>2, <2>3, <2>4, <2>5
<1>7. ~ (blob[i] \in {ContC9, ContFF})
  BY <1>3, <1>6 DEF ContC9, ContFF, ContC9Value
<1>8. IsContinuation(i) <=> Slips(sent, k)
  <2>1. IsContinuation(i) <=> blob[i] = 0 /\ blob[i - 1] \in {ContC9, ContFF}
    BY <1>7 DEF IsContinuation
  <2>2. CASE len > 1
    <3>1. blob[i - 1] = E[len - 1]
      <4>1. len \in Nat /\ Start(sent, k) \in Nat /\ i \in Nat /\ i + 1 = Start(sent, k) + len
        BY <1>2
      <4>2. len - 1 \in 1 .. len
        BY <2>2, <4>1
      <4>3. i - 1 = Start(sent, k) + (len - 1) - 1
        BY <4>1
      <4>4. QED
        BY <1>2, <4>2, <4>3
    <3>2. g # 0
      BY <1>4, <2>2
    <3>3. Slips(sent, k) <=> RunsOn(g)
      BY <1>5, <3>2 DEF Slips, g
    <3>4. len >= 2
      BY <1>2, <2>2
    <3>5. QED
      BY <1>3, <1>4, <1>6, <2>1, <2>2, <3>1, <3>3, <3>4
  <2>3. CASE len = 1
    <3>1. i - 1 = Start(sent, k) - 1
      BY <1>2, <2>3
    <3>2. ~ RunsOn(g)
      BY <1>4, <2>3
    <3>3. blob[i] = 0 <=> g = 0
      BY <1>4, <1>6, <2>3
    <3>4. blob[i - 1] = IF k = 0 THEN 0 ELSE sent.events[k].duration
      BY <1>2, <3>1
    <3>5. Slips(sent, k) <=>
            k > 0 /\ sent.events[k].gap = 0 /\ sent.events[k].duration \in {ContC9, ContFF}
      BY <3>2 DEF Slips, g
    <3>6. CASE k = 0
      <4>1. ~ (blob[i - 1] \in {ContC9, ContFF})
        BY <3>4, <3>6 DEF ContC9, ContFF
      <4>2. QED
        BY <2>1, <3>5, <3>6, <4>1
    <3>7. CASE k > 0
      <4>1. blob[i - 1] = sent.events[k].duration
        BY <3>4, <3>7
      <4>2. QED
        BY <1>5, <2>1, <3>3, <3>5, <3>7, <4>1
    <3>8. QED
      BY <1>1, <3>6, <3>7
  <2>4. QED
    BY <1>2, <2>2, <2>3
<1>9. AtEnd(i) <=> EndsEarly(sent, k)
  <2>1. AtEnd(i) <=> blob[i] = 0 /\ blob[i + 1] = 204
    <3>1. i >= 1
      BY <1>6, <1>2
    <3>2. QED
      BY <1>2, <1>6, <3>1, AtEndIs DEF TypeOK
  <2>2. BehindGap(k)
    BY BehindIsIn
  <2>3. CASE k = n
    <3>1. blob[i + 1] = 0
      BY <2>2, <2>3 DEF BehindGap, n
    <3>2. ~ (k < n)
      BY <1>1, <2>3
    <3>3. QED
      BY <2>1, <3>1, <3>2 DEF EndsEarly, n
  <2>4. CASE k < n
    <3>1. ~ (k = n)
      BY <1>1, <2>4
    <3>2. blob[i + 1] = sent.events[k + 1].duration
      BY <2>2, <3>1 DEF BehindGap, n
    <3>3. QED
      BY <1>4, <1>6, <2>1, <2>4, <3>2 DEF EndsEarly, g, n
  <2>5. QED
    BY <1>1, <2>3, <2>4
<1>10. AtEnd(i + 1) <=> k = n
  <2>1. AtEnd(i + 1) <=> blob[i + 1] = 0 /\ blob[i + 2] = 204
    <3>1. i + 1 \in Nat /\ i + 1 >= 1 /\ (i + 1) + 1 = i + 2
      BY <1>2
    <3>2. AtEnd(i + 1) <=> blob[i + 1] = 0 /\ blob[(i + 1) + 1] = 204
      BY <1>6, <3>1, AtEndIs DEF TypeOK
    <3>3. QED
      BY <3>1, <3>2
  <2>2. BehindGap(k)
    BY BehindIsIn
  <2>3. CASE k = n
    BY <2>1, <2>2, <2>3 DEF BehindGap, n
  <2>4. CASE k < n
    <3>1. ~ (k = n) /\ k + 1 \in 0 .. Len(sent.events)
      BY <1>1, <2>4 DEF n
    <3>2. blob[i + 2] = Bytes(sent, k + 1)[1]
      BY <2>2, <3>1 DEF BehindGap, n
    <3>3. Bytes(sent, k + 1)[1] # 204
      BY <1>1, <3>1, GapEnds
    <3>4. QED
      BY <2>1, <3>1, <3>2, <3>3
  <2>5. QED
    BY <1>1, <2>3, <2>4
<1>11. blob[i] \in Nat /\ Values(sent, k)[len] + blob[i] = g /\ (IsContinuation(i) => blob[i] = 0)
  BY <1>3, <1>6, <1>7 DEF IsContinuation
<1>12. QED
  BY <1>3, <1>8, <1>9, <1>10, <1>11 DEF E, g, len, n

-----------------------------------------------------------------------------
(* The inductive invariant                                                 *)

LEMMA AmbiguityIs ==
  ASSUME NEW c, NEW k
  PROVE  /\ EndsEarly(c, k) => AmbiguousAt(c, k)
         /\ Slips(c, k) /\ ~ OnlyZerosFollow(c, k) => AmbiguousAt(c, k)
         /\ ~ Slips(c, k) /\ ~ EndsEarly(c, k) => ~ AmbiguousAt(c, k)
BY DEF EndsEarly, Slips, AmbiguousAt

ClearBefore(c, k) == \A x \in 0 .. k - 1 : ~ AmbiguousAt(c, x)

Zeros(c, k, m) == \A x \in k + 1 .. m : c.events[x] = [duration |-> 0, gap |-> 0]

(* At the j-th byte of the gap after the k-th watering, all read right.    *)
InGap(k, j) ==
  /\ i = Start(sent, k) + j - 1 /\ acc = Values(sent, k)[j]
  /\ events = Opened(sent, k) /\ lead = LeadAt(sent, k)
  /\ ~ done /\ ClearBefore(sent, k)

(* The gap after the k-th watering ran on by a byte, and since then only   *)
(* zeros were read: nothing shows yet.                                     *)
Shifted(k, m) ==
  /\ i = End(sent, m) + 1 /\ blob[i - 1] = 0 /\ acc = GapAfter(sent, m)
  /\ events = Opened(sent, m) /\ lead = LeadAt(sent, m)
  /\ ~ done /\ ClearBefore(sent, k) /\ Slips(sent, k) /\ Zeros(sent, k, m)

ReadRight ==
  /\ i = End(sent, Len(sent.events)) + 1
  /\ DecodesTo(sent) /\ ~ Ambiguous(sent)

(* What later bytes cannot put right: an open gap that is too long, the    *)
(* gap that leads, an end that comes early, a duration, a closed gap.      *)
TooLong ==
  /\ Len(events) < Len(sent.events) /\ acc > GapAfter(sent, Len(events))
  /\ lead = NoLead <=> Len(events) = 0

LeadOff == lead \notin {NoLead, sent.lead}

Short == Len(events) < Len(sent.events) /\ AtEnd(i)

WateringOff(m) ==
  /\ m =< Len(events)
  /\ \/ events[m].duration # sent.events[m].duration
     \/ events[m].gap # sent.events[m].gap /\ (m < Len(events) \/ AtEnd(i))

Off == TooLong \/ LeadOff \/ Short \/ \E m \in 1 .. Len(sent.events) : WateringOff(m)

Where ==
  \/ \E k \in 0 .. Len(sent.events) : \E j \in 1 .. Len(Bytes(sent, k)) : InGap(k, j)
  \/ \E m \in 0 .. Len(sent.events) : \E k \in 0 .. m : Shifted(k, m)
  \/ ReadRight
  \/ Ambiguous(sent) /\ Off

IInv == (done => AtEnd(i)) /\ Where

LEMMA EndMoves ==
  ASSUME blob' = blob
  PROVE  /\ AtEnd(i)' <=> AtEnd(i')
         /\ i' = i => (AtEnd(i)' <=> AtEnd(i))
         /\ i' = i + 1 => (AtEnd(i)' <=> AtEnd(i + 1))
BY DEF AtEnd

(* What is off stays off.                                                  *)
LEMMA OffStays ==
  ASSUME TypeOK, Sent, Off, Next
  PROVE  Off'
<1> DEFINE n == Len(sent.events)
           p == Len(events)
<1>1. /\ events \in Seq(Watering) /\ p \in Nat /\ n \in Nat /\ sent.lead \in Nat /\ acc \in Nat
      /\ \A k \in 0 .. n : GapAfter(sent, k) \in Nat
  <2>1. events \in Seq(Watering) /\ acc \in Nat
    BY DEF TypeOK, Watering
  <2>2. sent.lead \in Nat
    BY CycleAssumption DEF Sent, Carried, ChainSet
  <2>3. QED
    BY <2>1, <2>2, LenProperties, CarriedFacts DEF Sent
<1>2. CASE Continue
  <2>1. ~ AtEnd(i)
    BY <1>2 DEF Continue
  <2>2. /\ UNCHANGED <<sent, blob, lead, events, done>>
        /\ acc' = acc + ContValue(blob[i])
    BY <1>2 DEF Continue
  <2>3. ContValue(blob[i]) \in Nat
    BY <2>1, ByteNext
  <2>4. CASE TooLong
    <3>1. /\ p < n /\ acc > GapAfter(sent, p) /\ (lead = NoLead <=> p = 0)
      BY <2>4 DEF TooLong
    <3>2. GapAfter(sent, p) \in Nat
      BY <1>1, <3>1
    <3>3. acc' > GapAfter(sent, p)
      BY <1>1, <2>2, <2>3, <3>1, <3>2
    <3>4. TooLong'
      BY <2>2, <3>1, <3>3 DEF TooLong
    <3>5. QED
      BY <3>4 DEF Off
  <2>5. CASE LeadOff
    BY <2>2, <2>5 DEF LeadOff, Off
  <2>6. ~ Short
    BY <2>1 DEF Short
  <2>7. ASSUME NEW m \in 1 .. n, WateringOff(m)
        PROVE  Off'
    <3>1. WateringOff(m)'
      BY <2>1, <2>2, <2>7 DEF WateringOff
    <3>2. m \in 1 .. Len(sent.events)'
      BY <2>2
    <3>3. QED
      BY <3>1, <3>2 DEF Off
  <2>8. QED
    BY <2>4, <2>5, <2>6, <2>7 DEF Off
<1>3. CASE EndGap
  <2> DEFINE g == acc + blob[i]
             w == WithGap(g)
  <2>1. ~ AtEnd(i)
    BY <1>3 DEF EndGap
  <2>2. blob[i] \in Nat
    BY <2>1, ByteNext
  <2>3. /\ g \in Nat /\ lead' = (IF lead = NoLead THEN g ELSE lead)
        /\ sent' = sent /\ blob' = blob
        /\ events' \in Seq(Watering)
        /\ AtEnd(i + 1) => i' = i + 1 /\ events' = w
        /\ ~ AtEnd(i + 1) => /\ Len(events') = p + 1
                             /\ \A m \in 1 .. p : events'[m] = w[m]
    BY <1>3, EndGapIs
  <2>4. /\ Len(w) = p
        /\ \A m \in 1 .. p :
             /\ w[m].duration = events[m].duration
             /\ m < p => w[m] = events[m]
             /\ m = p /\ lead # NoLead => w[m].gap = g
    <3>1. g \in Nat
      BY <2>3
    <3> HIDE DEF g
    <3>2. QED
      BY <1>1, <3>1, WithGapIs
  <2> HIDE DEF w
  <2>5. /\ Len(events)' >= p /\ Len(events)' \in Nat
        /\ \A m \in 1 .. p : events'[m] = w[m]
        /\ Len(events)' > p \/ AtEnd(i)'
    <3>1. CASE AtEnd(i + 1)
      <4>1. i' = i + 1 /\ events' = w
        BY <2>3, <3>1
      <4>2. AtEnd(i)'
        BY <2>3, <3>1, <4>1, EndMoves
      <4>3. QED
        BY <1>1, <2>4, <4>1, <4>2
    <3>2. CASE ~ AtEnd(i + 1)
      BY <1>1, <2>3, <3>2
    <3>3. QED
      BY <3>1, <3>2
  <2>6. CASE TooLong
    <3>1. /\ p < n /\ acc > GapAfter(sent, p) /\ (lead = NoLead <=> p = 0)
          /\ GapAfter(sent, p) \in Nat
      BY <1>1, <2>6 DEF TooLong
    <3>2. g > GapAfter(sent, p)
      BY <1>1, <2>2, <3>1
    <3>3. CASE p = 0
      <4>1. lead' = g /\ g > sent.lead
        BY <2>3, <3>1, <3>2, <3>3 DEF GapAfter
      <4>2. lead' # NoLead /\ lead' # sent.lead
        BY <1>1, <2>3, <4>1 DEF NoLead
      <4>3. LeadOff'
        BY <2>3, <4>2 DEF LeadOff
      <4>4. QED
        BY <4>3 DEF Off
    <3>4. CASE p > 0
      <4>1. p \in 1 .. p /\ p \in 1 .. n /\ ~ (p = 0)
        BY <1>1, <3>1, <3>4
      <4>2. w[p].gap = g /\ events'[p] = w[p]
        BY <2>4, <2>5, <3>1, <4>1
      <4>3. sent.events[p].gap = GapAfter(sent, p)
        BY <4>1 DEF GapAfter
      <4>4. events'[p].gap # sent.events[p].gap
        BY <2>3, <3>1, <3>2, <4>2, <4>3
      <4>5. ASSUME NEW m \in 1 .. n, m = p
            PROVE  Off'
        <5>1. m =< Len(events)' /\ (m < Len(events)' \/ AtEnd(i)')
          BY <1>1, <2>5, <4>5
        <5>2. events'[m].gap # sent'.events[m].gap
          BY <2>3, <4>4, <4>5
        <5>3. WateringOff(m)'
          BY <5>1, <5>2 DEF WateringOff
        <5>4. QED
          BY <2>3, <5>3 DEF Off
      <4>6. QED
        BY <4>1, <4>5
    <3>5. QED
      BY <1>1, <3>3, <3>4
  <2>7. CASE LeadOff
    <3>1. lead # NoLead /\ lead # sent.lead
      BY <2>7 DEF LeadOff
    <3>2. LeadOff'
      BY <2>3, <3>1 DEF LeadOff
    <3>3. QED
      BY <3>2 DEF Off
  <2>8. ~ Short
    BY <2>1 DEF Short
  <2>9. ASSUME NEW m \in 1 .. n, WateringOff(m)
        PROVE  Off'
    <3>1. m \in 1 .. p /\ m =< Len(events)'
      BY <1>1, <2>5, <2>9 DEF WateringOff
    <3>2. events'[m].duration = events[m].duration
      BY <2>4, <2>5, <3>1
    <3>3. m < p => events'[m] = events[m] /\ m < Len(events)'
      BY <1>1, <2>4, <2>5, <3>1
    <3>4. \/ events[m].duration # sent.events[m].duration
          \/ events[m].gap # sent.events[m].gap /\ m < p
      BY <2>1, <2>9 DEF WateringOff
    <3>5. \/ events'[m].duration # sent'.events[m].duration
          \/ events'[m].gap # sent'.events[m].gap /\ m < Len(events)'
      BY <2>3, <3>2, <3>3, <3>4
    <3>6. WateringOff(m)'
      BY <3>1, <3>5 DEF WateringOff
    <3>7. QED
      BY <2>3, <3>6 DEF Off
  <2>10. QED
    BY <2>6, <2>7, <2>8, <2>9 DEF Off
<1>4. CASE Finish
  <2>1. /\ AtEnd(i) /\ UNCHANGED <<sent, blob, i, acc, events>>
        /\ lead' = IF lead = NoLead THEN 0 ELSE lead
    BY <1>4 DEF Finish
  <2>2. AtEnd(i)'
    BY <2>1, EndMoves
  <2>3. CASE TooLong \/ Short
    <3>1. Short'
      BY <2>1, <2>2, <2>3 DEF TooLong, Short
    <3>2. QED
      BY <3>1 DEF Off
  <2>4. CASE LeadOff
    BY <2>1, <2>4 DEF LeadOff, Off
  <2>5. ASSUME NEW m \in 1 .. n, WateringOff(m)
        PROVE  Off'
    <3>1. WateringOff(m)'
      BY <2>1, <2>2, <2>5 DEF WateringOff
    <3>2. QED
      BY <2>1, <3>1 DEF Off
  <2>6. QED
    BY <2>3, <2>4, <2>5 DEF Off
<1>5. QED
  BY <1>2, <1>3, <1>4 DEF Next

LEMMA InGapContinues ==
  ASSUME TypeOK, Sent, NEW k \in 0 .. Len(sent.events),
         NEW j \in 1 .. Len(Bytes(sent, k)) - 1, InGap(k, j), Next
  PROVE  IInv'
<1>1. i = Start(sent, k) + j - 1
  BY DEF InGap
<1>2. /\ ~ AtEnd(i) /\ IsContinuation(i)
      /\ j + 1 \in 1 .. Len(Bytes(sent, k)) /\ i + 1 = Start(sent, k) + (j + 1) - 1
      /\ Values(sent, k)[j + 1] = Values(sent, k)[j] + ContValue(blob[i])
  BY <1>1, InsideGap
<1>3. Continue
  BY <1>2 DEF Next, EndGap, Finish
<1>4. /\ UNCHANGED <<sent, blob, lead, events, done>>
      /\ acc' = acc + ContValue(blob[i]) /\ i' = i + 1
  BY <1>3 DEF Continue
<1>5. InGap(k, j + 1)'
  BY <1>2, <1>4 DEF InGap
<1>6. ~ done'
  BY <1>4 DEF InGap
<1>7. k \in 0 .. Len(sent.events)' /\ j + 1 \in 1 .. Len(Bytes(sent, k))'
  BY <1>2, <1>4
<1>8. Where'
  BY <1>5, <1>7 DEF Where
<1>9. QED
  BY <1>6, <1>8 DEF IInv

LEMMA InGapEnds ==
  ASSUME TypeOK, Sent, NEW k \in 0 .. Len(sent.events),
         InGap(k, Len(Bytes(sent, k))), Next
  PROVE  IInv'
<1> DEFINE n == Len(sent.events)
           len == Len(Bytes(sent, k))
<1>1. Carried(sent) /\ n \in Nat /\ k \in Nat /\ k =< n
  BY CarriedFacts DEF Sent
<1>2. i = End(sent, k) /\ i \in Nat /\ i >= 2
  <2>1. /\ Start(sent, k) \in Nat /\ Start(sent, k) >= 2 /\ End(sent, k) \in Nat
        /\ len \in Nat /\ len >= 1 /\ End(sent, k) + 1 = Start(sent, k) + len
    BY GapIsIn DEF GapIn
  <2>2. i = Start(sent, k) + len - 1
    BY DEF InGap
  <2> HIDE DEF len
  <2>3. QED
    BY <2>1, <2>2
<1>3. /\ blob[i] \in Nat /\ Values(sent, k)[len] \in Nat
      /\ Values(sent, k)[len] + blob[i] = GapAfter(sent, k)
      /\ IsContinuation(i) <=> Slips(sent, k)
      /\ IsContinuation(i) => blob[i] = 0
      /\ AtEnd(i) <=> EndsEarly(sent, k)
      /\ AtEnd(i + 1) <=> k = n
  BY <1>2, LastOfGap
<1>4. /\ acc = Values(sent, k)[len] /\ events = Opened(sent, k) /\ lead = LeadAt(sent, k)
      /\ ~ done /\ ClearBefore(sent, k)
  BY DEF InGap
<1>5. CASE Continue
  <2>1. /\ UNCHANGED <<sent, blob, lead, events, done>>
        /\ acc' = acc + ContValue(blob[i]) /\ i' = i + 1 /\ IsContinuation(i)
    BY <1>5 DEF Continue
  <2>2. Slips(sent, k) /\ blob[i] = 0
    BY <1>3, <2>1
  <2>3. acc' = GapAfter(sent, k)
    BY <1>3, <1>4, <2>1, <2>2, ContValues
  <2>4. i' = End(sent, k) + 1 /\ blob[i' - 1] = 0
    BY <1>2, <2>1, <2>2
  <2>5. Zeros(sent, k, k)
    BY <1>1 DEF Zeros
  <2>6. Shifted(k, k)'
    BY <1>4, <2>1, <2>2, <2>3, <2>4, <2>5 DEF Shifted
  <2>7. Where'
    <3>1. k \in 0 .. k /\ k \in 0 .. Len(sent.events)'
      BY <1>1, <2>1
    <3>2. QED
      BY <2>6, <3>1 DEF Where
  <2>8. QED
    BY <1>4, <2>1, <2>7 DEF IInv
<1>6. CASE Finish
  <2>1. AtEnd(i) /\ UNCHANGED <<sent, blob, i, acc, events>>
    BY <1>6 DEF Finish
  <2>2. EndsEarly(sent, k)
    BY <1>3, <2>1
  <2>3. Ambiguous(sent)
    BY <2>2, AmbiguityIs DEF Ambiguous
  <2>4. Len(events) < n
    BY <1>1, <1>4, <2>2, Opening DEF EndsEarly
  <2>5. AtEnd(i)'
    BY <2>1, EndMoves
  <2>6. Off'
    BY <2>1, <2>4, <2>5 DEF Off, Short
  <2>7. Where'
    BY <2>1, <2>3, <2>6 DEF Where
  <2>8. QED
    BY <2>5, <2>7 DEF IInv
<1>7. CASE EndGap
  <2> DEFINE g == GapAfter(sent, k)
  <2>1. ~ AtEnd(i) /\ ~ IsContinuation(i)
    BY <1>7 DEF EndGap
  <2>2. acc + blob[i] = g
    BY <1>3, <1>4
  <2>3. /\ WithGap(g) = Kept(sent, k)
        /\ (IF lead = NoLead THEN g ELSE lead) = sent.lead
    BY <1>1, <1>4, ClosingKeeps
  <2>4. ~ AmbiguousAt(sent, k)
    BY <1>3, <2>1, AmbiguityIs
  <2>5. \A x \in 0 .. k : ~ AmbiguousAt(sent, x)
    BY <1>1, <1>4, <2>4 DEF ClearBefore
  <2>6. /\ lead' = sent.lead /\ sent' = sent /\ blob' = blob /\ done' = done /\ acc' = 0
        /\ AtEnd(i + 1) => i' = i + 1 /\ events' = Kept(sent, k)
        /\ ~ AtEnd(i + 1) =>
             /\ i' = i + 2
             /\ events' = Append(Kept(sent, k), [duration |-> blob[i + 1], gap |-> 0])
    BY <1>7, <2>2, <2>3, EndGapIs
  <2>7. CASE k = n
    <3>1. i' = i + 1 /\ events' = sent.events
      BY <1>1, <1>3, <2>6, <2>7, AllKept
    <3>2. ~ Ambiguous(sent)
      BY <2>5, <2>7 DEF Ambiguous
    <3>3. ReadRight'
      BY <1>2, <2>6, <2>7, <3>1, <3>2 DEF ReadRight, DecodesTo
    <3>4. ~ done'
      BY <1>4, <2>6
    <3>5. QED
      BY <3>3, <3>4 DEF IInv, Where
  <2>8. CASE k < n
    <3>1. /\ ~ (k = n) /\ k + 1 \in 0 .. Len(sent.events) /\ k \in 0 .. Len(sent.events) - 1
          /\ ~ (k + 1 = 0) /\ (k + 1) - 1 = k
      BY <1>1, <2>8
    <3>2. /\ i' = i + 2
          /\ events' = Append(Kept(sent, k), [duration |-> blob[i + 1], gap |-> 0])
      BY <1>3, <2>6, <3>1
    <3>3. /\ Start(sent, k + 1) = End(sent, k) + 2
          /\ blob[End(sent, k) + 1] = sent.events[k + 1].duration
      BY <3>1, BehindIsIn DEF BehindGap
    <3>4. events' = Opened(sent, k + 1)
      BY <1>1, <1>2, <3>1, <3>2, <3>3, KeptOpens
    <3>5. lead' = LeadAt(sent, k + 1)
      BY <2>6, <3>1 DEF LeadAt
    <3>6. /\ Values(sent, k + 1)[1] = 0
          /\ Len(Bytes(sent, k + 1)) \in Nat /\ Len(Bytes(sent, k + 1)) >= 1
      BY <1>1, <3>1, BytesRead DEF GapReads
    <3>7. ClearBefore(sent, k + 1)
      BY <2>5, <3>1 DEF ClearBefore
    <3>8. i' = Start(sent, k + 1) + 1 - 1
      BY <1>2, <3>2, <3>3
    <3>9. InGap(k + 1, 1)'
      BY <1>4, <2>6, <3>4, <3>5, <3>6, <3>7, <3>8 DEF InGap
    <3>10. k + 1 \in 0 .. Len(sent.events)' /\ 1 \in 1 .. Len(Bytes(sent, k + 1))'
      BY <2>6, <3>1, <3>6
    <3>11. Where'
      BY <3>9, <3>10 DEF Where
    <3>12. QED
      BY <1>4, <2>6, <3>11 DEF IInv
  <2>9. QED
    BY <1>1, <2>7, <2>8
<1>8. QED
  BY <1>5, <1>6, <1>7 DEF Next

(* A gap of 0 does not run on.                                             *)
LEMMA NothingRunsOn ==
  ASSUME NEW c, Carried(c), NEW k \in 0 .. Len(c.events), GapAfter(c, k) = 0
  PROVE  ~ RunsOn(GapAfter(c, k))
<1>1. Len(Bytes(c, k)) = 1
  BY GapEnds
<1>2. ~ (Len(Bytes(c, k)) >= 2)
  BY <1>1
<1>3. QED
  BY <1>2, GapEnds

(* At the end of the chain, one byte late.                                 *)
LEMMA ShiftedEnds ==
  ASSUME TypeOK, Sent, NEW k \in 0 .. Len(sent.events),
         Shifted(k, Len(sent.events)), Next
  PROVE  IInv'
<1> DEFINE n == Len(sent.events)
<1>1. Carried(sent) /\ n \in Nat /\ k \in Nat /\ k =< n /\ n \in 0 .. n
  BY CarriedFacts DEF Sent
<1>2. /\ i = End(sent, n) + 1 /\ events = Opened(sent, n) /\ lead = LeadAt(sent, n)
      /\ acc = GapAfter(sent, n)
      /\ ~ done /\ ClearBefore(sent, k) /\ Slips(sent, k) /\ Zeros(sent, k, n)
  BY DEF Shifted
<1>3. AtEnd(i)
  <2>1. /\ blob[i] = 0 /\ blob[End(sent, n) + 2] = 204 /\ Len(blob) = End(sent, n) + 2
    BY <1>1, <1>2, BehindIsIn DEF BehindGap
  <2>2. End(sent, n) \in Nat
    BY <1>1, GapIsIn DEF GapIn
  <2>3. i \in Nat /\ i >= 1 /\ i < Len(blob) /\ i + 1 = End(sent, n) + 2
    BY <1>2, <2>1, <2>2
  <2>4. QED
    BY <2>1, <2>3, AtEndIs DEF TypeOK
<1>4. Finish
  BY <1>3 DEF Next, Continue, EndGap
<1>5. /\ UNCHANGED <<sent, blob, i, acc, events>>
      /\ lead' = IF lead = NoLead THEN 0 ELSE lead
  BY <1>4 DEF Finish
<1>6. AtEnd(i)'
  BY <1>3, <1>5, EndMoves
<1>7. CASE RunsOn(GapAfter(sent, k)) /\ k = n
  <2>1. Ambiguous(sent)
    BY <1>1, <1>7 DEF Ambiguous, AmbiguousAt
  <2>2. GapAfter(sent, n) # 0
    BY <1>1, <1>7, NothingRunsOn
  <2>3. CASE n = 0
    <3>1. lead' = 0 /\ sent.lead # 0
      BY <1>2, <1>5, <2>2, <2>3 DEF LeadAt, GapAfter
    <3>2. LeadOff'
      BY <1>5, <3>1 DEF LeadOff, NoLead
    <3>3. QED
      BY <1>5, <1>6, <2>1, <3>2 DEF IInv, Where, Off
  <2>4. CASE n > 0
    <3>1. n \in 1 .. n /\ ~ (n = 0)
      BY <1>1, <2>4
    <3>2. events[n].gap = 0 /\ Len(events) = n
      <4>1. /\ events[n] = [duration |-> sent.events[n].duration, gap |-> 0]
            /\ Len(events) = n
        BY <1>1, <1>2, <3>1, Opening
      <4>2. QED
        BY <4>1
    <3>3. sent.events[n].gap # 0
      BY <2>2, <3>1 DEF GapAfter
    <3>4. ASSUME NEW m \in 1 .. n, m = n
          PROVE  Off'
      <4>1. m =< Len(events)' /\ events'[m].gap # sent'.events[m].gap
        BY <1>1, <1>5, <3>2, <3>3, <3>4
      <4>2. WateringOff(m)'
        BY <1>6, <4>1 DEF WateringOff
      <4>3. QED
        BY <1>5, <4>2 DEF Off
    <3>5. Off'
      BY <3>1, <3>4
    <3>6. QED
      BY <1>5, <1>6, <2>1, <3>5 DEF IInv, Where
  <2>5. QED
    BY <1>1, <2>3, <2>4
<1>8. CASE ~ (RunsOn(GapAfter(sent, k)) /\ k = n)
  <2>1. n > 0 /\ GapAfter(sent, n) = 0
    <3>1. CASE k = n
      <4>1. k > 0 /\ sent.events[k].gap = 0
        BY <1>2, <1>8, <3>1 DEF Slips
      <4>2. QED
        BY <1>1, <3>1, <4>1 DEF GapAfter
    <3>2. CASE k < n
      <4>1. n \in k + 1 .. n /\ ~ (n = 0) /\ n > 0
        BY <1>1, <3>2
      <4>2. sent.events[n] = [duration |-> 0, gap |-> 0]
        BY <1>2, <4>1 DEF Zeros
      <4>3. QED
        BY <4>1, <4>2 DEF GapAfter
    <3>3. QED
      BY <1>1, <3>1, <3>2
  <2>2. events = sent.events
    <3>1. /\ Opened(sent, n) \in Seq(Watering) /\ Len(Opened(sent, n)) = n
          /\ Kept(sent, n) \in Seq(Watering) /\ Len(Kept(sent, n)) = n
          /\ \A m \in 1 .. n :
               /\ Kept(sent, n)[m] = sent.events[m]
               /\ Opened(sent, n)[m] = [duration |-> sent.events[m].duration,
                                        gap |-> IF m = n THEN 0 ELSE sent.events[m].gap]
               /\ sent.events[m] =
                    [duration |-> sent.events[m].duration, gap |-> sent.events[m].gap]
      BY <1>1, Opening
    <3>2. sent.events[n].gap = 0
      BY <2>1 DEF GapAfter
    <3>3. ASSUME NEW m \in 1 .. n PROVE Opened(sent, n)[m] = Kept(sent, n)[m]
      <4>1. (IF m = n THEN 0 ELSE sent.events[m].gap) = sent.events[m].gap
        BY <3>2
      <4>2. QED
        BY <3>1, <4>1
    <3>4. Opened(sent, n) = Kept(sent, n)
      BY <3>1, <3>3, SeqEqual
    <3>5. QED
      BY <1>1, <1>2, <3>4, AllKept
  <2>3. lead' = sent.lead
    <3>1. ~ (n = 0)
      BY <2>1
    <3>2. lead = sent.lead
      BY <1>2, <3>1 DEF LeadAt
    <3>3. sent.lead # NoLead
      BY <1>1, CycleAssumption DEF Carried, ChainSet, NoLead
    <3>4. QED
      BY <1>5, <3>2, <3>3
  <2>4. OnlyZerosFollow(sent, k)
    BY <1>2 DEF OnlyZerosFollow, Zeros
  <2>5. ASSUME NEW x \in 0 .. n PROVE ~ AmbiguousAt(sent, x)
    <3>1. CASE x < k
      BY <1>2, <3>1 DEF ClearBefore
    <3>2. CASE x >= k
      <4>1. x < n => sent.events[x + 1] = [duration |-> 0, gap |-> 0]
        <5>1. x < n => x + 1 \in k + 1 .. n
          BY <1>1, <3>2
        <5>2. QED
          BY <1>2, <5>1 DEF Zeros
      <4>2. ~ EndsEarly(sent, x)
        BY <4>1 DEF EndsEarly
      <4>3. CASE x = k
        BY <1>8, <2>4, <4>2, <4>3 DEF AmbiguousAt, EndsEarly
      <4>4. CASE x > k
        <5>1. x \in k + 1 .. n /\ ~ (x = 0) /\ x \in 0 .. Len(sent.events)
          BY <1>1, <4>4
        <5>2. sent.events[x] = [duration |-> 0, gap |-> 0]
          BY <1>2, <5>1 DEF Zeros
        <5>3. sent.events[x].duration = 0 /\ GapAfter(sent, x) = 0
          BY <5>1, <5>2 DEF GapAfter
        <5>4. ~ RunsOn(GapAfter(sent, x))
          BY <1>1, <5>1, <5>3, NothingRunsOn
        <5>5. ~ Slips(sent, x)
          BY <5>3, <5>4 DEF Slips, ContC9, ContFF
        <5>6. QED
          BY <4>2, <5>5, AmbiguityIs
      <4>5. QED
        BY <1>1, <3>2, <4>3, <4>4
    <3>3. QED
      BY <1>1, <3>1, <3>2
  <2>6. ~ Ambiguous(sent)
    BY <2>5 DEF Ambiguous
  <2>7. ReadRight'
    BY <1>2, <1>5, <2>2, <2>3, <2>6 DEF ReadRight, DecodesTo
  <2>8. QED
    BY <1>6, <2>7 DEF IInv, Where
<1>9. QED
  BY <1>7, <1>8

(* A gap or a duration that is not 0 behind a gap that ran on.             *)
LEMMA ShiftShows ==
  ASSUME NEW c, Carried(c), NEW k \in 0 .. Len(c.events), Slips(c, k),
         NEW x \in k + 1 .. Len(c.events),
         c.events[x].duration # 0 \/ GapAfter(c, x) # 0
  PROVE  Ambiguous(c)
<1>1. ~ (x = 0) /\ k \in Nat /\ Len(c.events) \in Nat
  BY CarriedFacts
<1>2. GapAfter(c, x) = c.events[x].gap
  BY <1>1 DEF GapAfter
<1>3. c.events[x] # [duration |-> 0, gap |-> 0]
  BY <1>2
<1>4. ~ OnlyZerosFollow(c, k)
  BY <1>3 DEF OnlyZerosFollow
<1>5. QED
  BY <1>4, AmbiguityIs DEF Ambiguous

LEMMA Indices ==
  ASSUME NEW n \in Nat, NEW m \in 0 .. n - 1, NEW k \in 0 .. m
  PROVE  /\ m \in Nat /\ k \in Nat
         /\ m \in 0 .. n /\ k \in 0 .. n /\ m < n /\ ~ (m = n) /\ m + 1 \in k + 1 .. n
         /\ m + 1 \in 0 .. n /\ m + 1 \in 1 .. n /\ ~ (m + 1 = 0) /\ (m + 1) - 1 = m
OBVIOUS

(* One byte late, the next byte is the duration of a watering.             *)
LEMMA ShiftedContinues ==
  ASSUME TypeOK, Sent, NEW m \in 0 .. Len(sent.events) - 1, NEW k \in 0 .. m,
         Shifted(k, m), Continue
  PROVE  IInv'
<1> DEFINE n == Len(sent.events)
<1>1. /\ Carried(sent) /\ n \in Nat /\ m \in Nat /\ k \in Nat
      /\ m \in 0 .. n /\ k \in 0 .. n /\ m < n /\ ~ (m = n) /\ m + 1 \in k + 1 .. n
  <2>1. Carried(sent) /\ Len(sent.events) \in Nat
    BY CarriedFacts DEF Sent
  <2>2. QED
    BY <2>1, Indices
<1>2. /\ i = End(sent, m) + 1 /\ blob[i - 1] = 0 /\ acc = GapAfter(sent, m)
      /\ events = Opened(sent, m) /\ lead = LeadAt(sent, m) /\ ~ done /\ Slips(sent, k)
  BY DEF Shifted
<1>3. blob[i] = sent.events[m + 1].duration
  BY <1>1, <1>2, BehindIsIn DEF BehindGap
<1>4. /\ ~ AtEnd(i) /\ IsContinuation(i) /\ i' = i + 1
      /\ UNCHANGED <<sent, blob, lead, events, done>> /\ acc' = acc + ContValue(blob[i])
  BY DEF Continue
<1>5. blob[i] \in {ContC9, ContFF}
  BY <1>2, <1>4 DEF IsContinuation, ContC9, ContFF
<1>6. Ambiguous(sent)
  <2>1. sent.events[m + 1].duration # 0
    BY <1>3, <1>5 DEF ContC9, ContFF
  <2>2. QED
    BY <1>1, <1>2, <2>1, ShiftShows
<1>7. ContValue(blob[i]) > 0 /\ ContValue(blob[i]) \in Nat /\ acc \in Nat
  BY <1>4, <1>5, ByteNext, ContValues DEF TypeOK
<1>8. Len(events) = m
  BY <1>1, <1>2, Opening
<1>9. lead = NoLead <=> m = 0
  BY <1>1, <1>2, CycleAssumption DEF LeadAt, NoLead, Carried, ChainSet
<1>10. TooLong'
  <2>1. acc' > GapAfter(sent, m)
    BY <1>2, <1>4, <1>7
  <2>2. QED
    BY <1>1, <1>4, <1>8, <1>9, <2>1 DEF TooLong
<1>11. QED
  BY <1>2, <1>4, <1>6, <1>10 DEF IInv, Where, Off

LEMMA ShiftedEndsGap ==
  ASSUME TypeOK, Sent, NEW m \in 0 .. Len(sent.events) - 1, NEW k \in 0 .. m,
         Shifted(k, m), EndGap
  PROVE  IInv'
<1> DEFINE n == Len(sent.events)
           D == sent.events[m + 1].duration
           g == acc + blob[i]
           w == WithGap(g)
<1>1. /\ Carried(sent) /\ n \in Nat /\ m \in Nat /\ k \in Nat
      /\ m \in 0 .. n /\ k \in 0 .. n /\ m < n /\ ~ (m = n) /\ m + 1 \in k + 1 .. n
      /\ m + 1 \in 0 .. n /\ m + 1 \in 1 .. n /\ ~ (m + 1 = 0) /\ (m + 1) - 1 = m
  <2>1. Carried(sent) /\ Len(sent.events) \in Nat
    BY CarriedFacts DEF Sent
  <2>2. QED
    BY <2>1, Indices
<1>2. /\ i = End(sent, m) + 1 /\ blob[i - 1] = 0 /\ acc = GapAfter(sent, m)
      /\ events = Opened(sent, m) /\ lead = LeadAt(sent, m) /\ ~ done
      /\ ClearBefore(sent, k) /\ Slips(sent, k) /\ Zeros(sent, k, m)
  BY DEF Shifted
<1>3. End(sent, m) \in Nat /\ i \in Nat
  <2>1. GapIn(m)
    BY <1>1, GapIsIn
  <2>2. End(sent, m) \in Nat
    BY <2>1 DEF GapIn
  <2>3. QED
    BY <1>2, <2>2
<1>4. /\ blob[i] = D /\ blob[i + 1] = Bytes(sent, m + 1)[1]
      /\ Start(sent, m + 1) = End(sent, m) + 2 /\ i + 3 =< Len(blob)
  <2>1. /\ blob[End(sent, m) + 1] = D /\ blob[End(sent, m) + 2] = Bytes(sent, m + 1)[1]
        /\ Start(sent, m + 1) = End(sent, m) + 2 /\ End(sent, m) + 4 =< Len(blob)
    BY <1>1, BehindIsIn DEF BehindGap
  <2>2. i + 1 = End(sent, m) + 2 /\ i + 3 = End(sent, m) + 4
    BY <1>2, <1>3
  <2>3. QED
    BY <1>2, <2>1, <2>2
<1>5. /\ g \in Nat /\ lead' = (IF lead = NoLead THEN g ELSE lead)
      /\ sent' = sent /\ blob' = blob /\ done' = done /\ acc' = 0
      /\ AtEnd(i + 1) => i' = i + 1 /\ events' = w
      /\ ~ AtEnd(i + 1) =>
           /\ i' = i + 2 /\ Len(events') = Len(events) + 1
           /\ \A x \in 1 .. Len(events) : events'[x] = w[x]
           /\ events' = Append(w, [duration |-> blob[i + 1], gap |-> 0])
           /\ events'[Len(events) + 1] = [duration |-> blob[i + 1], gap |-> 0]
  BY EndGapIs
<1>6. /\ events \in Seq(Watering) /\ Len(events) = m
      /\ GapAfter(sent, m) \in Nat /\ sent.lead \in Nat /\ D \in Nat /\ D \in Byte
  <2>1. D \in Byte /\ \A byte \in Byte : byte \in Nat
    <3>1. D \in Byte
      BY <1>1, CarriedFacts
    <3>2. QED
      BY <3>1 DEF Byte
  <2>2. sent.lead \in Nat
    BY <1>1, CycleAssumption DEF Carried, ChainSet
  <2>3. QED
    BY <1>1, <1>2, <2>1, <2>2, Opening, CarriedFacts
<1>7. Len(w) = m /\ (m > 0 /\ lead # NoLead => w[m].gap = g)
  <2>1. g \in Nat
    BY <1>5
  <2> HIDE DEF g
  <2>2. /\ Len(WithGap(g)) = Len(events)
        /\ \A x \in 1 .. Len(events) :
             x = Len(events) /\ lead # NoLead => WithGap(g)[x].gap = g
    BY <1>6, <2>1, WithGapIs
  <2>3. m > 0 => m \in 1 .. m
    BY <1>1
  <2>4. QED
    BY <1>6, <2>2, <2>3
<1> HIDE DEF w, D
<1>8. CASE D # 0
  <2>1. Ambiguous(sent)
    BY <1>1, <1>2, <1>8, ShiftShows DEF D
  <2>2. g # GapAfter(sent, m)
    BY <1>2, <1>4, <1>6, <1>8
  <2>3. CASE m = 0
    <3>1. lead' = g /\ sent.lead = GapAfter(sent, m)
      BY <1>2, <1>5, <2>3 DEF LeadAt, GapAfter
    <3>2. LeadOff'
      BY <1>5, <2>2, <3>1 DEF LeadOff, NoLead
    <3>3. QED
      BY <1>2, <1>5, <2>1, <3>2 DEF IInv, Where, Off
  <2>4. CASE m > 0
    <3>1. lead # NoLead /\ m \in 1 .. m /\ m \in 1 .. n /\ ~ (m = 0)
      BY <1>1, <1>2, <1>6, <2>4 DEF LeadAt, NoLead
    <3>2. sent.events[m].gap = GapAfter(sent, m)
      BY <3>1 DEF GapAfter
    <3>3. /\ Len(events)' >= m /\ events'[m] = w[m]
          /\ m < Len(events)' \/ AtEnd(i)'
      <4>1. CASE AtEnd(i + 1)
        BY <1>1, <1>5, <1>7, <4>1, EndMoves
      <4>2. CASE ~ AtEnd(i + 1)
        BY <1>1, <1>5, <1>6, <3>1, <4>2
      <4>3. QED
        BY <4>1, <4>2
    <3>4. events'[m].gap # sent'.events[m].gap
      BY <1>5, <1>7, <2>2, <2>4, <3>1, <3>2, <3>3
    <3>5. WateringOff(m)'
      BY <3>3, <3>4 DEF WateringOff
    <3>6. Off'
      BY <1>5, <3>1, <3>5 DEF Off
    <3>7. QED
      BY <1>2, <1>5, <2>1, <3>6 DEF IInv, Where
  <2>5. QED
    BY <1>1, <2>3, <2>4
<1>9. CASE D = 0
  <2>1. g = GapAfter(sent, m)
    BY <1>2, <1>4, <1>6, <1>9
  <2>2. w = Kept(sent, m) /\ lead' = sent.lead
    BY <1>1, <1>2, <1>5, <2>1, ClosingKeeps DEF w
  <2>3. /\ Bytes(sent, m + 1)[1] # 204
        /\ Bytes(sent, m + 1)[1] = 0 <=> GapAfter(sent, m + 1) = 0
        /\ GapAfter(sent, m + 1) = 0 => Len(Bytes(sent, m + 1)) = 1
    BY <1>1, GapEnds
  <2>4. /\ End(sent, m + 1) \in Nat
        /\ End(sent, m + 1) + 1 = Start(sent, m + 1) + Len(Bytes(sent, m + 1))
    BY <1>1, GapIsIn DEF GapIn
  <2>5. GapAfter(sent, m + 1) = 0 => End(sent, m + 1) = i + 1
    <3>1. SUFFICES ASSUME GapAfter(sent, m + 1) = 0 PROVE End(sent, m + 1) = i + 1
      OBVIOUS
    <3>2. End(sent, m + 1) + 1 = (End(sent, m) + 2) + 1
      BY <1>4, <2>3, <2>4, <3>1
    <3>3. QED
      BY <1>2, <1>3, <2>4, <3>2
  <2>6. CASE AtEnd(i + 1)
    <3>1. blob[i + 1] = 0 /\ blob[i + 2] = 204
      <4>1. i + 1 \in Nat /\ i + 1 >= 1 /\ (i + 1) + 1 = i + 2 /\ i + 1 < Len(blob)
        <5>1. Len(blob) \in Nat
          BY LenProperties DEF TypeOK
        <5>2. QED
          BY <1>3, <1>4, <5>1
      <4>2. AtEnd(i + 1) <=> blob[i + 1] = 0 /\ blob[(i + 1) + 1] = 204
        BY <4>1, AtEndIs DEF TypeOK
      <4>3. QED
        BY <2>6, <4>1, <4>2
    <3>2. GapAfter(sent, m + 1) = 0 /\ i + 2 = End(sent, m + 1) + 1
      BY <1>3, <1>4, <2>3, <2>5, <3>1
    <3>3. m + 1 # n
      <4>1. m + 1 = n => blob[End(sent, m + 1) + 1] = 0
        BY <1>1, BehindIsIn DEF BehindGap
      <4>2. QED
        BY <3>1, <3>2, <4>1
    <3>4. (m + 1) + 1 \in k + 1 .. n
      BY <1>1, <3>3
    <3>5. sent.events[(m + 1) + 1].duration = 204
      <4>1. blob[End(sent, m + 1) + 1] = sent.events[(m + 1) + 1].duration
        BY <1>1, <3>3, BehindIsIn DEF BehindGap
      <4>2. QED
        BY <3>1, <3>2, <4>1
    <3>6. Ambiguous(sent)
      <4>1. sent.events[(m + 1) + 1].duration # 0
        BY <3>5
      <4>2. QED
        BY <1>1, <1>2, <3>4, <4>1, ShiftShows
    <3>7. Short'
      <4>1. AtEnd(i)'
        BY <1>5, <2>6, EndMoves
      <4>2. Len(events)' < n
        BY <1>1, <1>5, <1>7, <2>6
      <4>3. QED
        BY <1>5, <4>1, <4>2 DEF Short
    <3>8. QED
      BY <1>2, <1>5, <3>6, <3>7 DEF IInv, Where, Off
  <2>7. CASE ~ AtEnd(i + 1) /\ blob[i + 1] # 0
    <3>1. Ambiguous(sent)
      <4>1. GapAfter(sent, m + 1) # 0
        BY <1>4, <2>3, <2>7
      <4>2. QED
        BY <1>1, <1>2, <4>1, ShiftShows
    <3>2. events'[m + 1] = [duration |-> blob[i + 1], gap |-> 0] /\ Len(events)' = m + 1
      BY <1>5, <1>6, <2>7
    <3>3. events'[m + 1].duration = blob[i + 1]
      BY <3>2
    <3>4. events'[m + 1].duration # sent'.events[m + 1].duration
      BY <1>5, <1>9, <2>7, <3>3 DEF D
    <3>5. WateringOff(m + 1)'
      BY <1>1, <3>2, <3>4 DEF WateringOff
    <3>6. Off'
      <4>1. m + 1 \in 1 .. Len(sent.events)'
        BY <1>1, <1>5
      <4>2. QED
        BY <3>5, <4>1 DEF Off
    <3>7. QED
      BY <1>2, <1>5, <3>1, <3>6 DEF IInv, Where
  <2>8. CASE ~ AtEnd(i + 1) /\ blob[i + 1] = 0
    <3>1. GapAfter(sent, m + 1) = 0
      BY <1>4, <2>3, <2>8
    <3>2. i' = End(sent, m + 1) + 1 /\ blob[i' - 1] = 0
      <4>1. i' = i + 2 /\ (i + 2) - 1 = i + 1
        BY <1>3, <1>5, <2>8
      <4>2. QED
        BY <1>3, <2>5, <2>8, <3>1, <4>1
    <3>3. events' = Opened(sent, m + 1)
      <4>1. events' = Append(Kept(sent, m), [duration |-> D, gap |-> 0])
        BY <1>5, <1>9, <2>2, <2>8
      <4>2. QED
        BY <1>1, <4>1, KeptOpens DEF D
    <3>4. Zeros(sent, k, m + 1)
      <4>1. sent.events[m + 1] = [duration |-> 0, gap |-> 0]
        <5>1. sent.events[m + 1].gap = 0
          BY <1>1, <3>1 DEF GapAfter
        <5>2. sent.events[m + 1] = [duration |-> sent.events[m + 1].duration,
                                    gap |-> sent.events[m + 1].gap]
          <6>1. m + 1 \in 1 .. m + 1
            BY <1>1
          <6>2. QED
            BY <1>1, <6>1, Opening
        <5>3. QED
          BY <1>9, <5>1, <5>2 DEF D
      <4>2. \A x \in k + 1 .. m + 1 : x = m + 1 \/ x \in k + 1 .. m
        BY <1>1
      <4>3. QED
        BY <1>2, <4>1, <4>2 DEF Zeros
    <3>5. lead' = LeadAt(sent, m + 1)
      BY <1>1, <2>2 DEF LeadAt
    <3>6. Shifted(k, m + 1)'
      BY <1>2, <1>5, <3>1, <3>2, <3>3, <3>4, <3>5 DEF Shifted
    <3>7. m + 1 \in 0 .. Len(sent.events)' /\ k \in 0 .. m + 1
      BY <1>1, <1>5
    <3>8. Where'
      BY <3>6, <3>7 DEF Where
    <3>9. QED
      BY <1>2, <1>5, <3>8 DEF IInv
  <2>9. QED
    BY <2>6, <2>7, <2>8
<1>10. QED
  BY <1>8, <1>9

LEMMA ShiftedReads ==
  ASSUME TypeOK, Sent, NEW m \in 0 .. Len(sent.events) - 1, NEW k \in 0 .. m,
         Shifted(k, m), Next
  PROVE  IInv'
<1>1. /\ Carried(sent) /\ Len(sent.events) \in Nat
      /\ m \in 0 .. Len(sent.events) /\ ~ (m = Len(sent.events))
      /\ m + 1 \in 0 .. Len(sent.events)
  BY CarriedFacts DEF Sent
<1>2. i = End(sent, m) + 1 /\ End(sent, m) \in Nat
  BY <1>1, GapIsIn DEF GapIn, Shifted
<1>3. ~ AtEnd(i)
  <2>1. blob[End(sent, m) + 2] = Bytes(sent, m + 1)[1] /\ End(sent, m) + 4 =< Len(blob)
    BY <1>1, BehindIsIn DEF BehindGap
  <2>2. Bytes(sent, m + 1)[1] # 204
    BY <1>1, GapEnds
  <2>3. i \in Nat /\ i >= 1 /\ i < Len(blob) /\ i + 1 = End(sent, m) + 2
    <3>1. Len(blob) \in Nat
      BY LenProperties DEF TypeOK
    <3>2. QED
      BY <1>2, <2>1, <3>1
  <2>4. QED
    BY <2>1, <2>2, <2>3, AtEndIs DEF TypeOK
<1>4. Continue \/ EndGap
  BY <1>3 DEF Next, Finish
<1>5. QED
  BY <1>4, ShiftedContinues, ShiftedEndsGap

LEMMA ReadRightStays ==
  ASSUME TypeOK, Sent, ReadRight, Next
  PROVE  IInv'
<1> DEFINE n == Len(sent.events)
<1>1. Carried(sent) /\ n \in Nat /\ n \in 0 .. n
  BY CarriedFacts DEF Sent
<1>2. AtEnd(i)
  <2>1. /\ blob[End(sent, n) + 1] = 0 /\ blob[End(sent, n) + 2] = 204
        /\ Len(blob) = End(sent, n) + 2
    BY <1>1, BehindIsIn DEF BehindGap
  <2>2. End(sent, n) \in Nat
    BY <1>1, GapIsIn DEF GapIn
  <2>3. /\ i \in Nat /\ i >= 1 /\ i < Len(blob)
        /\ i + 1 = End(sent, n) + 2 /\ i = End(sent, n) + 1
    BY <2>1, <2>2 DEF ReadRight
  <2>4. QED
    BY <2>1, <2>3, AtEndIs DEF TypeOK
<1>3. Finish
  BY <1>2 DEF Next, Continue, EndGap
<1>4. /\ UNCHANGED <<sent, blob, i, acc, events>>
      /\ lead' = IF lead = NoLead THEN 0 ELSE lead
  BY <1>3 DEF Finish
<1>5. lead = sent.lead /\ sent.lead # NoLead
  BY <1>1, CycleAssumption DEF ReadRight, DecodesTo, Carried, ChainSet, NoLead
<1>6. ReadRight'
  BY <1>4, <1>5 DEF ReadRight, DecodesTo
<1>7. AtEnd(i)'
  BY <1>2, <1>4, EndMoves
<1>8. QED
  BY <1>6, <1>7 DEF IInv, Where

LEMMA IInvInit == Init => IInv
<1> SUFFICES ASSUME Init PROVE IInv
  OBVIOUS
<1>1. TypeOK /\ Sent
  BY InitTypes
<1>2. Carried(sent) /\ Len(sent.events) \in Nat /\ 0 \in 0 .. Len(sent.events)
  BY <1>1, CarriedFacts DEF Sent
<1>3. /\ Values(sent, 0)[1] = 0
      /\ Len(Bytes(sent, 0)) \in Nat /\ Len(Bytes(sent, 0)) >= 1
  BY <1>2, BytesRead DEF GapReads
<1>4. i = Start(sent, 0) + 1 - 1 /\ acc = 0 /\ lead = NoLead /\ events = <<>> /\ ~ done
  BY DEF Init, Start
<1>5. events = Opened(sent, 0) /\ lead = LeadAt(sent, 0)
  <2>1. Opened(sent, 0) \in Seq(Watering) /\ Len(Opened(sent, 0)) = 0
    BY <1>2, Opening
  <2>2. Opened(sent, 0) = <<>>
    BY <2>1, EmptySeq
  <2>3. QED
    BY <1>4, <2>2 DEF LeadAt
<1>6. InGap(0, 1)
  BY <1>3, <1>4, <1>5 DEF InGap, ClearBefore
<1>7. 1 \in 1 .. Len(Bytes(sent, 0))
  BY <1>3
<1>8. QED
  BY <1>2, <1>4, <1>6, <1>7 DEF IInv, Where

LEMMA IInvNext == TypeOK /\ Sent /\ IInv /\ [Next]_vars => IInv'
<1> SUFFICES ASSUME TypeOK, Sent, IInv, [Next]_vars PROVE IInv'
  OBVIOUS
<1> DEFINE n == Len(sent.events)
<1>1. Carried(sent) /\ n \in Nat
  BY CarriedFacts DEF Sent
<1>2. CASE UNCHANGED vars
  BY <1>2 DEF vars, IInv, Where, InGap, Shifted, ReadRight, DecodesTo, Off, TooLong,
              LeadOff, Short, WateringOff, AtEnd
<1>3. ASSUME Next, NEW k \in 0 .. n, NEW j \in 1 .. Len(Bytes(sent, k)), InGap(k, j)
      PROVE  IInv'
  <2>1. Len(Bytes(sent, k)) \in Nat
    BY <1>1, BytesRead
  <2>2. CASE j = Len(Bytes(sent, k))
    BY <1>3, <2>2, InGapEnds
  <2>3. CASE j \in 1 .. Len(Bytes(sent, k)) - 1
    BY <1>3, <2>3, InGapContinues
  <2>4. QED
    BY <2>1, <2>2, <2>3
<1>4. ASSUME Next, NEW m \in 0 .. n, NEW k \in 0 .. m, Shifted(k, m)
      PROVE  IInv'
  <2>1. CASE m = n
    BY <1>1, <1>4, <2>1, ShiftedEnds
  <2>2. CASE m \in 0 .. n - 1
    BY <1>4, <2>2, ShiftedReads
  <2>3. QED
    BY <1>1, <2>1, <2>2
<1>5. ASSUME Next, Ambiguous(sent), Off
      PROVE  IInv'
  <2>1. Off'
    BY <1>5, OffStays
  <2>2. sent' = sent
    BY <1>5 DEF Next, Continue, EndGap, Finish
  <2>3. (done => AtEnd(i))'
    <3>1. CASE done
      BY <1>5, <3>1 DEF Next, Continue, EndGap, Finish
    <3>2. CASE Finish
      BY <3>2, EndMoves DEF Finish
    <3>3. CASE ~ done /\ ~ Finish
      BY <1>5, <3>3 DEF Next, Continue, EndGap
    <3>4. QED
      BY <3>1, <3>2, <3>3
  <2>4. Where'
    BY <1>5, <2>1, <2>2 DEF Where
  <2>5. QED
    BY <2>3, <2>4 DEF IInv
<1>6. ASSUME Next PROVE IInv'
  BY <1>3, <1>4, <1>5, <1>6, ReadRightStays DEF IInv, Where
<1>7. QED
  BY <1>2, <1>6

LEMMA IInvSuffices == TypeOK /\ Sent /\ IInv => MisreadExactlyIfAmbiguous
<1> SUFFICES ASSUME TypeOK, Sent, IInv, done
             PROVE  DecodesTo(sent) <=> ~ Ambiguous(sent)
  BY DEF MisreadExactlyIfAmbiguous
<1> DEFINE n == Len(sent.events)
<1>1. AtEnd(i)
  BY DEF IInv
<1>2. Len(events) \in Nat /\ n \in Nat
  BY LenProperties, CarriedFacts DEF TypeOK, Sent
<1>3. ReadRight \/ (Ambiguous(sent) /\ Off)
  BY DEF IInv, Where, InGap, Shifted
<1>4. CASE ReadRight
  BY <1>4 DEF ReadRight
<1>5. CASE Ambiguous(sent) /\ Off
  <2>1. SUFFICES ASSUME DecodesTo(sent) PROVE FALSE
    BY <1>5
  <2>2. lead = sent.lead /\ events = sent.events
    BY <2>1 DEF DecodesTo
  <2>3. ~ TooLong /\ ~ LeadOff /\ ~ Short /\ \A m \in 1 .. n : ~ WateringOff(m)
    BY <1>2, <2>2 DEF TooLong, LeadOff, Short, WateringOff
  <2>4. QED
    BY <1>5, <2>3 DEF Off
<1>6. QED
  BY <1>3, <1>4, <1>5

(* Whatever programme encode_schedule accepts, decode_schedule gives back  *)
(* the same chain exactly if none of its waterings is ambiguous.           *)
THEOREM ReadBackUnlessAmbiguous == Spec => []MisreadExactlyIfAmbiguous
<1> DEFINE Inv == TypeOK /\ Sent /\ IInv
<1>1. Init => Inv
  BY InitTypes, IInvInit
<1>2. Inv /\ [Next]_vars => Inv'
  BY TypesNext, IInvNext
<1>3. Inv => MisreadExactlyIfAmbiguous
  BY IInvSuffices
<1> HIDE DEF Inv
<1>4. QED
  BY <1>1, <1>2, <1>3, PTL DEF Spec

(* The decoder stops at the terminator.                                    *)
StopsInTime == i < Len(blob)

LEMMA TerminatorIsSeen ==
  ASSUME TypeOK, Sent
  PROVE  Len(blob) \in Nat /\ AtEnd(Len(blob) - 1)
<1> DEFINE n == Len(sent.events)
<1>1. n \in 0 .. n /\ Carried(sent)
  BY CarriedFacts DEF Sent
<1>2. /\ Len(blob) = End(sent, n) + 2
      /\ blob[End(sent, n) + 1] = 0 /\ blob[End(sent, n) + 2] = 204
      /\ Placed(blob, sent, n)
  BY <1>1, Layout DEF Sent
<1>3. End(sent, n) \in Nat /\ End(sent, n) >= 2
  <2>1. /\ End(sent, n) \in Nat /\ Start(sent, n) \in Nat /\ Start(sent, n) >= 2
        /\ End(sent, n) + 1 = Start(sent, n) + Len(Bytes(sent, n))
    BY <1>2 DEF Placed
  <2>2. Len(Bytes(sent, n)) \in Nat /\ Len(Bytes(sent, n)) >= 1
    BY <1>1, BytesRead
  <2>3. QED
    BY <2>1, <2>2
<1>4. /\ Len(blob) \in Nat /\ Len(blob) - 1 \in Nat /\ Len(blob) - 1 >= 1
      /\ Len(blob) - 1 < Len(blob) /\ Len(blob) - 1 = End(sent, n) + 1
      /\ (Len(blob) - 1) + 1 = End(sent, n) + 2
  BY <1>2, <1>3
<1>5. QED
  BY <1>2, <1>4, AtEndIs DEF TypeOK

(* Whatever it takes the bytes for, the decoder ends at the terminator and *)
(* never reads the padding, the flags or the checksum behind it: what it   *)
(* makes of a programme does not depend on them.                           *)
THEOREM PaddingIsNotRead == Spec => []StopsInTime
<1> DEFINE Inv == TypeOK /\ Sent /\ StopsInTime
<1>1. Init => Inv
  <2> SUFFICES ASSUME Init PROVE Inv
    OBVIOUS
  <2>1. TypeOK /\ Sent
    BY InitTypes
  <2>2. /\ Carried(sent) /\ Len(sent.events) \in 0 .. Len(sent.events)
        /\ 0 \in 0 .. Len(sent.events)
    BY <2>1, CarriedFacts DEF Sent
  <2>3. GapIn(0)
    BY <2>1, <2>2, GapIsIn
  <2>4. /\ End(sent, 0) + 1 = Start(sent, 0) + Len(Bytes(sent, 0))
        /\ Len(Bytes(sent, 0)) \in Nat /\ Len(Bytes(sent, 0)) >= 1
        /\ End(sent, 0) + 2 =< Len(blob) /\ End(sent, 0) \in Nat
    BY <2>3 DEF GapIn
  <2>5. Start(sent, 0) = 2 /\ i = 2
    BY DEF Start, Init
  <2>6. Len(blob) \in Nat
    BY <2>1, TerminatorIsSeen
  <2>7. i < Len(blob)
    BY <2>4, <2>5, <2>6
  <2>8. QED
    BY <2>1, <2>7 DEF StopsInTime
<1>2. Inv /\ [Next]_vars => Inv'
  <2> SUFFICES ASSUME TypeOK, Sent, StopsInTime, [Next]_vars PROVE Inv'
    OBVIOUS
  <2>1. TypeOK' /\ Sent'
    BY TypesNext
  <2>2. Len(blob) \in Nat /\ AtEnd(Len(blob) - 1) /\ i \in Nat
    <3>1. Len(blob) \in Nat /\ AtEnd(Len(blob) - 1)
      BY TerminatorIsSeen
    <3>2. QED
      BY <3>1 DEF TypeOK
  <2>3. CASE Continue
    <3>1. ~ AtEnd(i) /\ i' = i + 1 /\ blob' = blob
      BY <2>3 DEF Continue
    <3>2. i # Len(blob) - 1 /\ i < Len(blob)
      BY <2>2, <3>1 DEF StopsInTime
    <3>3. i' < Len(blob)
      BY <2>2, <3>1, <3>2
    <3>4. QED
      BY <2>1, <3>1, <3>3 DEF StopsInTime
  <2>4. CASE EndGap
    <3>1. ~ AtEnd(i) /\ blob' = blob
      BY <2>4 DEF EndGap
    <3>2. i # Len(blob) - 1 /\ i < Len(blob)
      BY <2>2, <3>1 DEF StopsInTime
    <3>3. CASE AtEnd(i + 1)
      <4>1. i' = i + 1
        BY <2>4, <3>3, EndGapIs
      <4>2. i' < Len(blob)
        BY <2>2, <3>2, <4>1
      <4>3. QED
        BY <2>1, <3>1, <4>2 DEF StopsInTime
    <3>4. CASE ~ AtEnd(i + 1)
      <4>1. i' = i + 2 /\ i + 1 < Len(blob)
        BY <2>4, <3>4, EndGapIs
      <4>2. i + 1 # Len(blob) - 1
        BY <2>2, <3>4
      <4>3. i' < Len(blob)
        BY <2>2, <4>1, <4>2
      <4>4. QED
        BY <2>1, <3>1, <4>3 DEF StopsInTime
    <3>5. QED
      BY <3>3, <3>4
  <2>5. CASE Finish \/ UNCHANGED vars
    <3>1. i' = i /\ blob' = blob
      BY <2>5 DEF Finish, vars
    <3>2. QED
      BY <2>1, <3>1 DEF StopsInTime
  <2>6. QED
    BY <2>3, <2>4, <2>5 DEF Next
<1>3. Inv => StopsInTime
  OBVIOUS
<1> HIDE DEF Inv
<1>4. QED
  BY <1>1, <1>2, <1>3, PTL DEF Spec

=============================================================================
