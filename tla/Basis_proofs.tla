---------------------------- MODULE Basis_proofs ----------------------------
(***************************************************************************)
(* Solving the checksum, for every affine checksum, every set of positions *)
(* and every file of samples: no false alarm, and no wrong prediction.     *)
(***************************************************************************)
EXTENDS Basis, FiniteSetTheorems, WellFoundedInduction, TLAPS

(* Exclusive or is the sum of an abelian group in which each element is    *)
(* its own inverse.                                                        *)
LEMMA XorLaws ==
  /\ \A a : Xor(a, a) = {}
  /\ \A a : Xor(a, {}) = a
  /\ \A a, b : Xor(a, b) = Xor(b, a)
  /\ \A a, b, c : Xor(Xor(a, b), c) = Xor(a, Xor(b, c))
  /\ \A S : \A a, b \in SUBSET S : Xor(a, b) \in SUBSET S
<1>1. \A a : Xor(a, a) = {}
  BY DEF Xor
<1>2. \A a : Xor(a, {}) = a
  BY DEF Xor
<1>3. \A a, b : Xor(a, b) = Xor(b, a)
  BY DEF Xor
<1>4. \A a, b, c : Xor(Xor(a, b), c) = Xor(a, Xor(b, c))
  BY DEF Xor
<1>5. \A S : \A a, b \in SUBSET S : Xor(a, b) \in SUBSET S
  BY DEF Xor
<1> QED
  BY <1>1, <1>2, <1>3, <1>4, <1>5

(* What cancels in a sum.                                                  *)
LEMMA XorCancels ==
  /\ \A a, b : Xor(Xor(a, b), b) = a
  /\ \A a, b, c : Xor(Xor(a, c), Xor(b, c)) = Xor(a, b)
<1>1. \A a, b : Xor(Xor(a, b), b) = a
  BY DEF Xor
<1>2. \A a, b, c : Xor(Xor(a, c), Xor(b, c)) = Xor(a, b)
  BY DEF Xor
<1> QED
  BY <1>1, <1>2

(* The image of a sum is the sum of the images.                            *)
LEMMA ImageOfSum ==
  ASSUME ck \in Checksums, NEW a \in Blobs, NEW b \in Blobs
  PROVE  Image(Xor(a, b)) = Xor(Image(a), Image(b))
<1>1. ck[Xor(a, b)] = Xor(Xor(ck[a], ck[b]), ck[{}])
  BY ChecksumsAssumption DEF Affine
<1>2. Image(Xor(a, b)) = Xor(ck[a], ck[b])
  BY <1>1, XorCancels DEF Image
<1> QED
  BY <1>2, XorCancels DEF Image

(* The difference of two usable programmes, over the varying positions,    *)
(* determines the difference of their checksums.                           *)
LEMMA ImageOfDifference ==
  ASSUME ck \in Checksums, NEW a \in Blobs, NEW b \in Blobs, Usable(a), Usable(b)
  PROVE  /\ Xor(Word(a), Word(b)) \in SUBSET Varying
         /\ Image(Xor(Word(a), Word(b))) = Xor(ck[a], ck[b])
<1>1. Xor(Word(a), Word(b)) = Xor(a, b)
  BY DEF Xor, Word, Usable, Blobs
<1>2. ck[Xor(a, b)] = Xor(Xor(ck[a], ck[b]), ck[{}])
  BY ChecksumsAssumption DEF Affine
<1>3. Image(Xor(a, b)) = Xor(ck[a], ck[b])
  BY <1>2, XorCancels DEF Image
<1>4. Xor(Word(a), Word(b)) \in SUBSET Varying
  BY DEF Xor, Word
<1> QED
  BY <1>1, <1>3, <1>4

(* What bits_of sees of a programme, padded, is a programme as short as    *)
(* the samples, and the programme itself if that is as short.              *)
LEMMA ShortFacts ==
  ASSUME NEW blob \in Blobs
  PROVE  /\ ShortOf(blob) \in Blobs
         /\ Usable(ShortOf(blob))
         /\ Word(ShortOf(blob)) = Word(blob)
         /\ Usable(blob) => ShortOf(blob) = blob
BY PositionsAssumption DEF ShortOf, Usable, Word, Blobs

(* Checksums and images are words of check bits.                           *)
LEMMA ImageType ==
  ASSUME ck \in Checksums, NEW a \in Blobs
  PROVE  ck[a] \in SUBSET Checks /\ Image(a) \in SUBSET Checks
<1>1. {} \in Blobs
  BY DEF Blobs
<1>2. ck \in [Blobs -> SUBSET Checks]
  BY ChecksumsAssumption
<1>3. ck[a] \in SUBSET Checks /\ ck[{}] \in SUBSET Checks
  BY <1>1, <1>2
<1> QED
  BY <1>3, XorLaws DEF Image

-----------------------------------------------------------------------------
(* The invariant holds at the start.                                       *)
LEMMA InitInv == Init => IInv
<1> SUFFICES ASSUME Init PROVE IInv
  OBVIOUS
<1>1. DOMAIN basis = {}
  BY DEF Init
<1>2. TypeOK
  <2>1. file \in Seq(Blobs)
    BY FilesAssumption DEF Init
  <2>2. {} \in Blobs
    BY DEF Blobs
  <2> QED
    BY <1>1, <2>1, <2>2 DEF Init, TypeOK
<1> QED
  BY <1>1, <1>2 DEF Init, IInv, EntriesAreImages, LoopInvariant, NoFalseAlarm, PredictionsAreRight,
     OverlongIsTakenForShort

(* Reading a line.                                                         *)
LEMMA ReadInv == IInv /\ (Skip \/ First \/ Take) => IInv'
<1> SUFFICES ASSUME IInv, Skip \/ First \/ Take PROVE IInv'
  OBVIOUS
<1> USE DEF IInv, TypeOK, EntriesAreImages, LoopInvariant, NoFalseAlarm, PredictionsAreRight,
            OverlongIsTakenForShort, Image, Usable
<1>1. CASE Skip
  BY <1>1 DEF Skip
<1>2. file[k] \in Blobs
  BY DEF Skip, First, Take
<1>3. CASE First
  BY <1>2, <1>3 DEF First, NextLine
<1>4. CASE Take
  <2>1. /\ v' \in SUBSET Varying
        /\ Image(v') = Xor(ck[file[k]], ck[ref])
    <3>1. /\ Xor(Word(file[k]), Word(ref)) \in SUBSET Varying
          /\ Image(Xor(Word(file[k]), Word(ref))) = Xor(ck[file[k]], ck[ref])
      BY <1>2, <1>4, ImageOfDifference DEF Take
    <3> QED
      BY <1>4, <3>1 DEF Take, BitsOf
  <2>2. v' \in Blobs
    BY <2>1 DEF Blobs
  <2>3. img' = Image(v') /\ img' \in SUBSET Checks
    BY <1>4, <2>1, <2>2, ImageType DEF Take
  <2> QED
    BY <1>4, <2>1, <2>3 DEF Take
<1> QED
  BY <1>1, <1>3, <1>4

(* A turn of a loop cancels an entry from the difference and its image.    *)
LEMMA CancelInv == IInv /\ Cancel => IInv'
<1> SUFFICES ASSUME IInv, Cancel PROVE IInv'
  OBVIOUS
<1> DEFINE e == basis[Leading(v)]
<1>1. Leading(v) \in DOMAIN basis
  BY DEF Cancel
<1>2. /\ e.vector \in SUBSET Varying /\ e.image \in SUBSET Checks
      /\ e.image = Image(e.vector)
  BY <1>1 DEF IInv, TypeOK, EntriesAreImages
<1>3. v \in Blobs /\ e.vector \in Blobs
  BY <1>2 DEF IInv, TypeOK, Blobs
<1>4. ck \in Checksums
  BY DEF IInv, TypeOK
<1>5. Image(v') = Xor(Image(v), e.image)
  BY <1>2, <1>3, <1>4, ImageOfSum DEF Cancel
<1>6. v' \in SUBSET Varying /\ img' \in SUBSET Checks
  BY <1>2, XorLaws DEF Cancel, IInv, TypeOK
<1>7. stage = "reduce" => img' = Image(v')
  BY <1>5 DEF Cancel, IInv, LoopInvariant
<1>8. stage = "predict" => img' = Xor(ck[ShortOf(asked)], Image(v'))
  <2>1. stage = "predict" => img' = Xor(Xor(ck[ShortOf(asked)], Image(v)), e.image)
    BY DEF Cancel, IInv, LoopInvariant
  <2> QED
    BY <1>5, <2>1, XorLaws
<1> HIDE DEF e
<1> QED
  BY <1>6, <1>7, <1>8 DEF Cancel, IInv, TypeOK, EntriesAreImages, LoopInvariant, NoFalseAlarm,
     PredictionsAreRight, OverlongIsTakenForShort, Image, Usable

(* What is left of a difference becomes an entry.                          *)
LEMMA ExtendInv == IInv /\ Extend => IInv'
<1> SUFFICES ASSUME IInv, Extend PROVE IInv'
  OBVIOUS
<1> DEFINE l == Leading(v)
<1>1. /\ DOMAIN basis' = DOMAIN basis \cup {l}
      /\ basis'[l] = [vector |-> v, image |-> img]
      /\ \A h \in DOMAIN basis \ {l} : basis'[h] = basis[h]
  BY DEF Extend
<1> HIDE DEF l
<1>2. \A h \in DOMAIN basis' :
         /\ basis'[h].vector \in SUBSET Varying /\ basis'[h].image \in SUBSET Checks
         /\ basis'[h].image = Image(basis'[h].vector)
  <2>1. img = Image(v)
    BY DEF Extend, IInv, LoopInvariant
  <2>2. v \in SUBSET Varying /\ img \in SUBSET Checks
    BY DEF IInv, TypeOK
  <2> SUFFICES ASSUME NEW h \in DOMAIN basis'
               PROVE  /\ basis'[h].vector \in SUBSET Varying /\ basis'[h].image \in SUBSET Checks
                      /\ basis'[h].image = Image(basis'[h].vector)
    OBVIOUS
  <2>3. CASE h = l
    BY <1>1, <2>1, <2>2, <2>3
  <2>4. CASE h # l
    BY <1>1, <2>4 DEF IInv, TypeOK, EntriesAreImages
  <2> QED
    BY <2>3, <2>4
<1> QED
  BY <1>2 DEF Extend, NextLine, IInv, TypeOK, EntriesAreImages, LoopInvariant, NoFalseAlarm,
     PredictionsAreRight, OverlongIsTakenForShort, Image, Usable

(* A difference that vanishes has an image that does.                      *)
LEMMA SpannedInv == IInv /\ Spanned => IInv'
<1> SUFFICES ASSUME IInv, Spanned PROVE IInv'
  OBVIOUS
<1>1. img = {}
  BY XorLaws DEF Spanned, IInv, LoopInvariant, Image
<1> QED
  BY <1>1 DEF Spanned, NextLine, IInv, TypeOK, EntriesAreImages, LoopInvariant, NoFalseAlarm,
     PredictionsAreRight, OverlongIsTakenForShort, Image, Usable

(* Predicting.                                                             *)
LEMMA PredictInv ==
  IInv /\ (Solved \/ (\E blob \in Blobs : Ask(blob)) \/ Predict \/ OutsideTheSpan) => IInv'
<1> USE DEF IInv, TypeOK, EntriesAreImages, LoopInvariant, NoFalseAlarm, PredictionsAreRight,
            OverlongIsTakenForShort, Image, Usable
<1>1. IInv /\ Solved => IInv'
  BY DEF Solved
<1>2. ASSUME IInv, NEW blob \in Blobs, Ask(blob) PROVE IInv'
  <2>1. v' \in SUBSET Varying
    BY <1>2, XorLaws DEF Ask, BitsOf, Word
  <2>2. img' \in SUBSET Checks
    BY <1>2, ImageType DEF Ask
  <2>3. img' = Xor(ck[ShortOf(blob)], Image(v'))
    <3>1. ShortOf(blob) \in Blobs /\ Usable(ShortOf(blob)) /\ Word(ShortOf(blob)) = Word(blob)
      BY ShortFacts
    <3>2. Image(v') = Xor(ck[ShortOf(blob)], ck[ref])
      BY <1>2, <3>1, ImageOfDifference DEF Ask, BitsOf
    <3> QED
      BY <1>2, <3>2, XorLaws, XorCancels DEF Ask
  <2> QED
    BY <1>2, <2>1, <2>2, <2>3 DEF Ask
<1>3. ASSUME IInv, Predict PROVE IInv'
  <2>1. Image({}) = {}
    BY XorLaws
  <2>2. img = ck[ShortOf(asked)]
    BY <1>3, <2>1, XorLaws DEF Predict
  <2>3. Usable(asked) => ShortOf(asked) = asked
    BY <1>3, ShortFacts
  <2> QED
    BY <1>3, <2>2, <2>3 DEF Predict
<1>4. IInv /\ OutsideTheSpan => IInv'
  BY DEF OutsideTheSpan
<1> QED
  BY <1>1, <1>2, <1>3, <1>4

(* Every step keeps the invariant.                                         *)
LEMMA NextInv == IInv /\ [Next]_vars => IInv'
<1> SUFFICES ASSUME IInv, [Next]_vars PROVE IInv'
  OBVIOUS
<1>1. CASE Next
  BY <1>1, ReadInv, CancelInv, ExtendInv, SpannedInv, PredictInv DEF Next
<1>2. CASE UNCHANGED vars
  BY <1>2 DEF vars, IInv, TypeOK, EntriesAreImages, LoopInvariant, NoFalseAlarm,
     PredictionsAreRight, OverlongIsTakenForShort, Image, Usable
<1> QED
  BY <1>1, <1>2

(* The tool keeps the inductive invariant: among its parts, samples of an  *)
(* affine checksum are never called inconsistent.                          *)
THEOREM BasisInvariant == Spec => []IInv
<1>1. Init => IInv
  BY InitInv
<1>2. IInv /\ [Next]_vars => IInv'
  BY NextInv
<1> QED
  BY <1>1, <1>2, PTL DEF Spec

(* Whatever affine checksum the service computes and whatever was          *)
(* recorded, checksum_with answers a programme no longer than the samples  *)
(* with its checksum or not at all.                                        *)
THEOREM PredictionsAreAlwaysRight == Spec => []PredictionsAreRight
<1>1. IInv => PredictionsAreRight
  BY DEF IInv
<1> QED
  BY <1>1, BasisInvariant, PTL

(* A longer programme gets the checksum of the programme bits_of takes it  *)
(* for, or no answer.                                                      *)
THEOREM OverlongAnswers == Spec => []OverlongIsTakenForShort
<1>1. IInv => OverlongIsTakenForShort
  BY DEF IInv
<1> QED
  BY <1>1, BasisInvariant, PTL

-----------------------------------------------------------------------------
(* A word that is not 0 has a highest bit, and Leading is it.              *)
LEMMA LeadingIsHighest ==
  ASSUME NEW w \in SUBSET Varying, w # {}
  PROVE  Leading(w) \in w /\ \A c \in w : c <= Leading(w)
<1> DEFINE depths == {Width - c : c \in w}
<1>1. w \subseteq Int /\ \A c \in w : c < Width
  BY PositionsAssumption DEF Varying
<1>2. depths \subseteq Nat /\ depths # {}
  <2>1. \A c \in w : Width - c \in Nat
    BY <1>1, PositionsAssumption
  <2>2. PICK c \in w : TRUE
    OBVIOUS
  <2> QED
    BY <2>1, <2>2
<1>3. PICK d \in depths : \A y \in depths : ~ (<<y, d>> \in OpToRel(<, Nat))
  <2> HIDE DEF depths
  <2> QED
    BY <1>2, WFMin, NatLessThanWellFounded
<1>4. \A y \in depths : ~ (y < d)
  <2> HIDE DEF depths
  <2> QED
    BY <1>2, <1>3 DEF OpToRel
<1>5. PICK h \in w : d = Width - h
  OBVIOUS
<1>6. \A c \in w : h >= c
  BY <1>1, <1>4, <1>5, PositionsAssumption
<1>7. Leading(w) \in w /\ \A c \in w : Leading(w) >= c
  BY <1>6 DEF Leading, Max
<1> QED
  BY <1>1, <1>7

(* Entries are stored under their leading bits.                            *)
LEMMA LeadingBitsInv ==
  ASSUME IInv, LeadingBits, [Next]_vars
  PROVE  LeadingBits'
<1>1. CASE Extend
  <2>1. v \in SUBSET Varying /\ v # {}
    BY <1>1 DEF Extend, IInv, TypeOK
  <2>2. Leading(v) \in v /\ \A c \in v : c <= Leading(v)
    BY <2>1, LeadingIsHighest
  <2> DEFINE l == Leading(v)
  <2>3. /\ DOMAIN basis' = DOMAIN basis \cup {l}
        /\ basis'[l] = [vector |-> v, image |-> img]
        /\ \A h \in DOMAIN basis \ {l} : basis'[h] = basis[h]
    BY <1>1 DEF Extend
  <2>4. l \in v /\ \A c \in v : c <= l
    BY <2>2
  <2> HIDE DEF l
  <2> QED
    BY <2>3, <2>4 DEF LeadingBits
<1>2. CASE UNCHANGED basis
  BY <1>2 DEF LeadingBits
<1>3. Extend \/ UNCHANGED basis
  BY DEF Next, vars, Skip, First, Take, Cancel, Spanned, Solved, Ask, Predict, OutsideTheSpan
<1> QED
  BY <1>1, <1>2, <1>3

(* Each turn of a while loop lowers the leading bit, which is a natural    *)
(* number: the loops of build_basis and checksum_with end.                 *)
THEOREM LoopsAlwaysEnd == Spec => LoopsEnd
<1> DEFINE Turn == v # {} /\ v' # {} /\ v' # v /\ stage' = stage /\ stage \in {"reduce", "predict"}
<1>1. Init => LeadingBits
  BY DEF Init, LeadingBits
<1>2. ASSUME IInv, LeadingBits, [Next]_vars, Turn
      PROVE  Leading(v') < Leading(v)
  <2>1. Cancel
    BY <1>2 DEF Next, vars, Skip, First, Take, Extend, Spanned, Solved, Ask, Predict, OutsideTheSpan
  <2> DEFINE h == Leading(v)
             e == basis[h].vector
  <2>2. v \in SUBSET Varying /\ h \in DOMAIN basis /\ v' = Xor(v, e)
    BY <1>2, <2>1 DEF Cancel, IInv, TypeOK
  <2>3. e \in SUBSET Varying
    BY <1>2, <2>2 DEF IInv, TypeOK
  <2>4. h \in v /\ \A c \in v : c <= h
    BY <1>2, <2>2, LeadingIsHighest
  <2>5. h \in e /\ \A c \in e : c <= h
    BY <1>2, <2>2 DEF LeadingBits
  <2>6. v' \in SUBSET Varying
    BY <2>2, <2>3, XorLaws
  <2>7. Leading(v') \in v'
    BY <1>2, <2>6, LeadingIsHighest
  <2> HIDE DEF h, e
  <2>8. \A c \in v' : c <= h /\ c # h
    BY <2>2, <2>4, <2>5 DEF Xor
  <2>9. v' \subseteq Int /\ h \in Int
    BY <2>2, <2>4, <2>6, PositionsAssumption DEF Varying
  <2>10. \A g \in v' : g < h
    BY <2>8, <2>9
  <2> QED
    BY <2>7, <2>10 DEF h
<1>3. IInv /\ LeadingBits /\ [Next]_vars => LeadingBits'
  BY LeadingBitsInv
<1>4. IInv /\ LeadingBits /\ [Next]_vars => [Turn => Leading(v') < Leading(v)]_vars
  BY <1>2
<1> QED
  BY <1>1, <1>3, <1>4, BasisInvariant, PTL DEF Spec, LoopsEnd

-----------------------------------------------------------------------------
(* The size of an exclusive or is odd when one size is and the other not.  *)
LEMMA OddXor ==
  ASSUME NEW a, NEW b, IsFiniteSet(a), IsFiniteSet(b)
  PROVE  Cardinality(Xor(a, b)) % 2 = 1
           <=> ~ (Cardinality(a) % 2 = 1 <=> Cardinality(b) % 2 = 1)
<1> DEFINE x == Cardinality(a)
           y == Cardinality(b)
           z == Cardinality(a \cap b)
<1>1. x \in Nat /\ y \in Nat
  BY FS_CardinalityType
<1>2. IsFiniteSet(a \cap b) /\ z \in Nat
  BY FS_Intersection, FS_CardinalityType
<1>3. IsFiniteSet(a \ b) /\ Cardinality(a \ b) = x - z
  BY FS_Difference
<1>4. IsFiniteSet(b \ a) /\ Cardinality(b \ a) = y - z
  <2>1. b \cap a = a \cap b
    OBVIOUS
  <2> QED
    BY <2>1, FS_Difference
<1>5. Cardinality(Xor(a, b)) = x + y - 2 * z
  <2>1. (a \ b) \cap (b \ a) = {}
    OBVIOUS
  <2>2. Cardinality({}) = 0
    BY FS_EmptySet
  <2>3. Cardinality(Xor(a, b)) = Cardinality(a \ b) + Cardinality(b \ a) - 0
    BY <1>3, <1>4, <2>1, <2>2, FS_Union DEF Xor
  <2> HIDE DEF x, y, z
  <2> QED
    BY <1>1, <1>2, <1>3, <1>4, <2>3
<1> HIDE DEF x, y, z
<1>6. (x + y - 2 * z) % 2 = 1 <=> ~ (x % 2 = 1 <=> y % 2 = 1)
  BY <1>1, <1>2
<1> QED
  BY <1>5, <1>6 DEF x, y

(* The closed form the server computes is affine, whatever its columns: it *)
(* is one of the maps the tool's measurements can determine.               *)
THEOREM ClosedFormIsAffine ==
  ASSUME NEW base, NEW columns
  PROVE  Affine(Closed(base, columns))
<1> DEFINE hits(a, c) == {b \in a : c \in columns[b]}
           odd(a) == {c \in Checks : Cardinality(hits(a, c)) % 2 = 1}
<1>1. \A a \in Blobs : Closed(base, columns)[a] = Xor(base, odd(a))
  BY DEF Closed
<1>2. \A a \in Blobs : \A c : IsFiniteSet(hits(a, c))
  <2>1. IsFiniteSet(Varying \cup Padding)
    <3>1. IsFiniteSet(Varying)
      <4>1. 0 \in Int /\ Width - 1 \in Int
        BY PositionsAssumption
      <4> QED
        BY <4>1, FS_Interval DEF Varying
    <3> QED
      BY <3>1, PositionsAssumption, FS_Union
  <2>2. \A a \in Blobs : \A c : hits(a, c) \subseteq Varying \cup Padding
    BY DEF Blobs
  <2> HIDE DEF hits
  <2> QED
    BY <2>1, <2>2, FS_Subset
<1>3. ASSUME NEW a \in Blobs, NEW b \in Blobs
      PROVE  odd(Xor(a, b)) = Xor(odd(a), odd(b))
  <2>1. \A c : hits(Xor(a, b), c) = Xor(hits(a, c), hits(b, c))
    BY DEF Xor
  <2>2. \A c : Cardinality(hits(Xor(a, b), c)) % 2 = 1
          <=> ~ (Cardinality(hits(a, c)) % 2 = 1 <=> Cardinality(hits(b, c)) % 2 = 1)
    <3> HIDE DEF hits
    <3> QED
      BY <1>2, <1>3, <2>1, OddXor
  <2> HIDE DEF hits
  <2> QED
    BY <2>2 DEF Xor
<1>4. {} \in Blobs /\ \A a, b \in Blobs : Xor(a, b) \in Blobs
  BY DEF Blobs, Xor
<1>5. odd({}) = {}
  <2>1. \A c : hits({}, c) = {}
    OBVIOUS
  <2>2. \A c : Cardinality(hits({}, c)) = 0
    BY <2>1, FS_EmptySet
  <2> HIDE DEF hits
  <2> QED
    BY <2>2
<1> HIDE DEF hits, odd
<1> SUFFICES ASSUME NEW a \in Blobs, NEW b \in Blobs
             PROVE  Closed(base, columns)[Xor(a, b)] =
                      Xor(Xor(Closed(base, columns)[a], Closed(base, columns)[b]),
                          Closed(base, columns)[{}])
  BY DEF Affine
<1>6. Closed(base, columns)[Xor(a, b)] = Xor(base, Xor(odd(a), odd(b)))
  <2>1. Xor(a, b) \in Blobs
    BY <1>4
  <2>2. Closed(base, columns)[Xor(a, b)] = Xor(base, odd(Xor(a, b)))
    BY <1>1, <2>1
  <2>3. odd(Xor(a, b)) = Xor(odd(a), odd(b))
    BY <1>3
  <2> QED
    BY <2>2, <2>3
<1>7. Closed(base, columns)[{}] = base
  BY <1>1, <1>4, <1>5, XorLaws
<1>8. Xor(Xor(Xor(base, odd(a)), Xor(base, odd(b))), base) = Xor(base, Xor(odd(a), odd(b)))
  BY DEF Xor
<1> QED
  BY <1>1, <1>6, <1>7, <1>8

-----------------------------------------------------------------------------
(* Spans                                                                   *)

Words == SUBSET Varying

(* The span of some words is the least space that has them.                *)
LEMMA SpanFacts ==
  ASSUME NEW W \in SUBSET Words
  PROVE  /\ Span(W) \subseteq Words /\ W \subseteq Span(W) /\ {} \in Span(W)
         /\ \A a, b \in Span(W) : Xor(a, b) \in Span(W)
         /\ \A space \in Subspaces : W \subseteq space => Span(W) \subseteq space
<1>1. ASSUME NEW a \in Span(W), NEW b \in Span(W) PROVE Xor(a, b) \in Span(W)
  <2>1. Xor(a, b) \in Words
    BY XorLaws DEF Span, Words
  <2>2. ASSUME NEW space \in Subspaces, W \subseteq space PROVE Xor(a, b) \in space
    <3>1. a \in space /\ b \in space
      BY <2>2 DEF Span
    <3>2. QED
      BY <3>1 DEF Subspaces
  <2>3. QED
    BY <2>1, <2>2 DEF Span, Words
<1>2. {} \in Span(W)
  BY DEF Span, Subspaces
<1>3. QED
  BY <1>1, <1>2 DEF Span, Words

LEMMA SpanIsSpace == ASSUME NEW W \in SUBSET Words PROVE Span(W) \in Subspaces
BY SpanFacts DEF Subspaces, Words

LEMMA SpanGrows ==
  ASSUME NEW W \in SUBSET Words, NEW V \in SUBSET Words, W \subseteq V
  PROVE  Span(W) \subseteq Span(V)
BY SpanFacts, SpanIsSpace

(* One more word doubles the span: each sum is there with it and without.  *)
LEMMA SpanOfMore ==
  ASSUME NEW W \in SUBSET Words, NEW d \in Words
  PROVE  Span(W \cup {d}) = {a \in Words : a \in Span(W) \/ Xor(a, d) \in Span(W)}
<1> DEFINE S == Span(W)
           T == {a \in Words : a \in S \/ Xor(a, d) \in S}
<1>1. /\ S \subseteq Words /\ W \subseteq S /\ {} \in S
      /\ \A a, b \in S : Xor(a, b) \in S
  BY SpanFacts
<1> HIDE DEF S
<1>2. ASSUME NEW a \in T, NEW b \in T PROVE Xor(a, b) \in T
  <2>1. Xor(a, b) \in Words
    BY XorLaws DEF Words
  <2>2. CASE a \in S /\ b \in S
    BY <1>1, <2>1, <2>2
  <2>3. CASE a \in S /\ Xor(b, d) \in S
    <3>1. Xor(Xor(a, b), d) = Xor(a, Xor(b, d))
      BY XorLaws
    <3>2. Xor(a, Xor(b, d)) \in S
      BY <1>1, <2>3
    <3>3. QED
      BY <2>1, <3>1, <3>2
  <2>4. CASE Xor(a, d) \in S /\ b \in S
    <3>1. Xor(Xor(a, b), d) = Xor(Xor(a, d), b)
      BY DEF Xor
    <3>2. QED
      BY <1>1, <2>1, <2>4, <3>1
  <2>5. CASE Xor(a, d) \in S /\ Xor(b, d) \in S
    BY <1>1, <2>1, <2>5, XorCancels
  <2>6. QED
    BY <2>2, <2>3, <2>4, <2>5
<1>3. T \in Subspaces
  BY <1>1, <1>2 DEF Subspaces, Words
<1>4. W \cup {d} \subseteq T
  <2>1. Xor(d, d) \in S
    BY <1>1, XorLaws
  <2>2. QED
    BY <1>1, <2>1
<1>5. W \cup {d} \in SUBSET Words
  OBVIOUS
<1>6. Span(W \cup {d}) \subseteq T
  BY <1>3, <1>4, <1>5, SpanFacts
<1>7. ASSUME NEW a \in T PROVE a \in Span(W \cup {d})
  <2>1. S \subseteq Span(W \cup {d}) /\ d \in Span(W \cup {d})
    BY <1>5, SpanGrows, SpanFacts DEF S
  <2>2. Xor(Xor(a, d), d) = a
    BY XorCancels
  <2>3. CASE a \in S
    BY <2>1, <2>3
  <2>4. CASE Xor(a, d) \in S
    <3>1. Xor(a, d) \in Span(W \cup {d})
      BY <2>1, <2>4
    <3>2. Xor(Xor(a, d), d) \in Span(W \cup {d})
      BY <1>5, <2>1, <3>1, SpanFacts
    <3>3. QED
      BY <2>2, <3>2
  <2>5. QED
    BY <2>3, <2>4
<1>8. QED
  BY <1>6, <1>7 DEF S

(* A word that is spanned adds nothing.                                    *)
LEMMA SpanOfSpanned ==
  ASSUME NEW W \in SUBSET Words, NEW d \in Span(W)
  PROVE  Span(W \cup {d}) = Span(W)
<1>1. /\ Span(W) \subseteq Words /\ W \subseteq Span(W)
      /\ W \cup {d} \in SUBSET Words
  BY SpanFacts
<1>2. W \cup {d} \subseteq Span(W)
  BY <1>1
<1>3. Span(W \cup {d}) \subseteq Span(W)
  BY <1>1, <1>2, SpanFacts, SpanIsSpace
<1>4. QED
  BY <1>1, <1>3, SpanGrows

(* Words that differ by a spanned one add the same.                        *)
LEMMA SpanOfEither ==
  ASSUME NEW W \in SUBSET Words, NEW c \in Words, NEW d \in Words, Xor(c, d) \in Span(W)
  PROVE  Span(W \cup {c}) = Span(W \cup {d})
<1>1. ASSUME NEW a, NEW e \in Words, NEW f \in Words,
             Xor(e, f) \in Span(W), Xor(a, e) \in Span(W)
      PROVE  Xor(a, f) \in Span(W)
  <2>1. Xor(Xor(a, e), Xor(e, f)) = Xor(a, f)
    BY DEF Xor
  <2>2. Xor(Xor(a, e), Xor(e, f)) \in Span(W)
    BY <1>1, SpanFacts
  <2>3. QED
    BY <2>1, <2>2
<1>2. Xor(d, c) = Xor(c, d)
  BY XorLaws
<1>3. \A a : Xor(a, c) \in Span(W) <=> Xor(a, d) \in Span(W)
  BY <1>1, <1>2
<1>4. /\ Span(W \cup {c}) = {a \in Words : a \in Span(W) \/ Xor(a, c) \in Span(W)}
      /\ Span(W \cup {d}) = {a \in Words : a \in Span(W) \/ Xor(a, d) \in Span(W)}
  BY SpanOfMore
<1>5. QED
  BY <1>3, <1>4

-----------------------------------------------------------------------------
(* The basis spans what was read                                           *)

Entries == Vectors(DOMAIN basis)

(* The basis spans what the samples read so far span, and what is reduced  *)
(* differs from what it began as by a sum of entries.                      *)
ReductionInv ==
  /\ stage = "open" => DOMAIN basis = {} /\ Differences = {}
  /\ stage # "open" => Span(Entries) = Span(Differences)
  /\ stage = "reduce" =>
       /\ k <= Len(file) /\ Usable(file[k])
       /\ Xor(BitsOf(file[k]), v) \in Span(Entries)
  /\ stage = "predict" => Xor(BitsOf(asked), v) \in Span(Entries)
  /\ stage = "answered" => (answer # {} <=> BitsOf(asked) \in Span(Entries))

(* A sum of entries leads with a bit that an entry leads with.             *)
LeadersTaken == \A a \in Span(Entries) \ {{}} : Leading(a) \in DOMAIN basis

Independent ==
  \A h \in DOMAIN basis : basis[h].vector \notin Span(Vectors(DOMAIN basis \ {h}))

SpanInv == ReductionInv /\ LeadersTaken /\ Independent

(* The numbers of the samples read.                                        *)
ReadBefore(n) == {i \in 1 .. n - 1 : i <= Len(file) /\ Usable(file[i])}

LEMMA ReadNext ==
  ASSUME k \in Nat \ {0}, k <= Len(file), Len(file) \in Nat
  PROVE  ReadBefore(k + 1) = ReadBefore(k) \cup (IF Usable(file[k]) THEN {k} ELSE {})
<1>1. 1 .. (k + 1) - 1 = (1 .. k - 1) \cup {k}
  OBVIOUS
<1>2. QED
  BY <1>1 DEF ReadBefore

LEMMA DifferencesRead == Differences = {BitsOf(file[j]) : j \in ReadBefore(k)}
BY DEF Differences, ReadBefore

LEMMA WordTypes ==
  ASSUME TypeOK
  PROVE  /\ Entries \in SUBSET Words /\ Differences \in SUBSET Words
         /\ \A leaders \in SUBSET DOMAIN basis : Vectors(leaders) \in SUBSET Words
         /\ \A blob : BitsOf(blob) \in Words
         /\ v \in Words
<1>1. \A leaders \in SUBSET DOMAIN basis : Vectors(leaders) \in SUBSET Words
  BY DEF TypeOK, Vectors, Words
<1>2. \A blob : BitsOf(blob) \in Words
  BY DEF BitsOf, Word, Xor, Words
<1>3. Differences \in SUBSET Words
  BY <1>2 DEF Differences
<1>4. QED
  BY <1>1, <1>2, <1>3 DEF TypeOK, Words, Entries

LEMMA SpanOfNothing == Span({}) = {{}} /\ Span({{}}) = {{}}
<1>1. {{}} \in Subspaces
  BY XorLaws DEF Subspaces
<1>2. \A W \in SUBSET Words : {} \in Span(W)
  BY SpanFacts
<1>3. {} \in SUBSET Words /\ {{}} \in SUBSET Words
  BY DEF Words
<1>4. Span({}) \subseteq {{}} /\ Span({{}}) \subseteq {{}}
  BY <1>1, <1>3, SpanFacts
<1>5. QED
  BY <1>2, <1>3, <1>4

(* The word with the higher leading bit keeps it in a sum.                 *)
LEMMA LeadingOfSum ==
  ASSUME NEW a \in Words, NEW b \in Words, a # {}, b # {}, Leading(a) # Leading(b)
  PROVE  Leading(Xor(a, b)) \in {Leading(a), Leading(b)}
<1>1. /\ Leading(a) \in a /\ \A c \in a : c <= Leading(a)
      /\ Leading(b) \in b /\ \A c \in b : c <= Leading(b)
  BY LeadingIsHighest DEF Words
<1>2. a \subseteq Int /\ b \subseteq Int
  BY PositionsAssumption DEF Words, Varying
<1>3. ASSUME NEW e \in Words, NEW f \in Words, NEW h \in Int, NEW g \in Int,
             e \subseteq Int, f \subseteq Int, h \in e, \A c \in e : c <= h,
             \A c \in f : c <= g, g < h
      PROVE  Leading(Xor(e, f)) = h
  <2>1. h \in Xor(e, f)
    BY <1>3 DEF Xor
  <2>2. \A c \in Xor(e, f) : c <= h
    BY <1>3 DEF Xor
  <2>3. Xor(e, f) \in SUBSET Varying
    BY XorLaws DEF Words
  <2>4. /\ Leading(Xor(e, f)) \in Xor(e, f)
        /\ \A c \in Xor(e, f) : c <= Leading(Xor(e, f))
    BY <2>1, <2>3, LeadingIsHighest
  <2>5. Leading(Xor(e, f)) \in Int
    BY <2>3, <2>4, PositionsAssumption DEF Varying
  <2>6. QED
    BY <2>1, <2>2, <2>4, <2>5
<1>4. Xor(a, b) = Xor(b, a)
  BY XorLaws
<1>5. CASE Leading(a) < Leading(b)
  <2>1. Leading(Xor(b, a)) = Leading(b)
    BY <1>1, <1>2, <1>3, <1>5
  <2>2. QED
    BY <1>4, <2>1
<1>6. CASE Leading(b) < Leading(a)
  <2>1. Leading(Xor(a, b)) = Leading(a)
    BY <1>1, <1>2, <1>3, <1>6
  <2>2. QED
    BY <2>1
<1>7. Leading(a) \in Int /\ Leading(b) \in Int
  BY <1>1, <1>2
<1>8. Leading(a) < Leading(b) \/ Leading(b) < Leading(a)
  BY <1>7
<1>9. QED
  BY <1>5, <1>6, <1>8

LEMMA InitSpan == Init => SpanInv
<1> SUFFICES ASSUME Init PROVE SpanInv
  OBVIOUS
<1>1. DOMAIN basis = {} /\ k = 1 /\ stage = "open"
  BY DEF Init
<1>2. Differences = {}
  BY <1>1 DEF Differences
<1>3. Entries = {}
  BY <1>1 DEF Entries, Vectors
<1>4. QED
  BY <1>1, <1>2, <1>3, SpanOfNothing DEF SpanInv, ReductionInv, LeadersTaken, Independent

(* Where the basis stays as it is, so do its spans.                        *)
LEMMA SameBasis ==
  ASSUME SpanInv, UNCHANGED basis
  PROVE  /\ LeadersTaken' /\ Independent' /\ Entries' = Entries
         /\ Span(Entries)' = Span(Entries)
<1>1. Entries' = Entries
  BY DEF Entries, Vectors
<1>2. Span(Entries)' = Span(Entries)
  BY <1>1 DEF Span
<1>3. LeadersTaken'
  BY <1>2 DEF SpanInv, LeadersTaken
<1>4. ASSUME NEW h \in DOMAIN basis
      PROVE  Span(Vectors(DOMAIN basis \ {h}))' = Span(Vectors(DOMAIN basis \ {h}))
  BY DEF Vectors, Span
<1>5. Independent'
  BY <1>4 DEF SpanInv, Independent
<1>6. QED
  BY <1>1, <1>2, <1>3, <1>5

LEMMA ReadSpan == IInv /\ SpanInv /\ (Skip \/ First \/ Take) => SpanInv'
<1> SUFFICES ASSUME IInv, SpanInv, Skip \/ First \/ Take PROVE SpanInv'
  OBVIOUS
<1>1. /\ UNCHANGED <<basis, file, asked, answer>> /\ k \in Nat \ {0} /\ k <= Len(file)
      /\ Len(file) \in Nat
  BY DEF Skip, First, Take, IInv, TypeOK
<1>2. /\ LeadersTaken' /\ Independent' /\ Entries' = Entries
      /\ Span(Entries)' = Span(Entries)
  BY <1>1, SameBasis
<1>3. ReadBefore(k + 1) = ReadBefore(k) \cup (IF Usable(file[k]) THEN {k} ELSE {})
  BY <1>1, ReadNext
<1>4. ReductionInv'
  <2>1. CASE Skip
    <3>1. /\ Differences' = {BitsOf(file[j]) : j \in ReadBefore(k')}
          /\ stage' = stage /\ stage \in {"open", "read"} /\ k' = k + 1
      BY <1>1, <2>1 DEF Skip, Differences, ReadBefore, BitsOf, Usable, Word
    <3>2. ReadBefore(k') = ReadBefore(k)
      BY <1>3, <2>1, <3>1 DEF Skip
    <3>3. Differences' = Differences
      BY <3>1, <3>2, DifferencesRead
    <3>4. Span(Differences)' = Span(Differences)
      BY <3>3 DEF Span
    <3>5. QED
      BY <1>1, <1>2, <3>1, <3>3, <3>4 DEF SpanInv, ReductionInv
  <2>2. CASE First
    <3>1. ReadBefore(k) = {} /\ Entries = {}
      <4>1. Differences = {} /\ DOMAIN basis = {}
        BY <2>2 DEF SpanInv, ReductionInv, First
      <4>2. QED
        BY <4>1, DifferencesRead DEF Entries, Vectors
    <3>2. ReadBefore(k + 1) = {k} /\ k' = k + 1 /\ stage' = "read"
      BY <1>3, <2>2, <3>1 DEF First, NextLine
    <3>3. Differences' = {{}}
      <4>1. ReadBefore(k)' = {k}
        BY <1>1, <3>2 DEF ReadBefore, Usable
      <4>2. Differences' = {Xor(Word(file[j]), Word(ref')) : j \in ReadBefore(k)'}
        BY <1>1 DEF Differences, ReadBefore, BitsOf, Word
      <4>3. Xor(Word(file[k]), Word(ref')) = {}
        BY <2>2, XorLaws DEF First
      <4>4. QED
        BY <4>1, <4>2, <4>3
    <3>4. Span(Entries)' = Span(Differences)'
      BY <1>2, <3>1, <3>3, SpanOfNothing DEF Span
    <3>5. QED
      BY <3>2, <3>4 DEF ReductionInv
  <2>3. CASE Take
    <3>1. /\ stage = "read" /\ stage' = "reduce" /\ UNCHANGED <<k, file, ref>>
          /\ v' = BitsOf(file[k]) /\ Usable(file[k])
      BY <2>3 DEF Take
    <3>2. Differences' = Differences /\ BitsOf(file[k])' = BitsOf(file[k])
      BY <3>1 DEF Differences, BitsOf
    <3>3. Span(Differences)' = Span(Differences)
      BY <3>2 DEF Span
    <3>4. (Xor(BitsOf(file[k]), v) \in Span(Entries))'
      <4>1. {} \in Span(Entries)
        BY WordTypes, SpanFacts DEF IInv
      <4>2. Xor(BitsOf(file[k]), v)' = {}
        BY <3>1, <3>2, XorLaws
      <4>3. QED
        BY <1>2, <4>1, <4>2
    <3>5. (k <= Len(file) /\ Usable(file[k]))'
      BY <1>1, <3>1 DEF Usable
    <3>6. QED
      BY <1>2, <3>1, <3>3, <3>4, <3>5 DEF SpanInv, ReductionInv
  <2>4. QED
    BY <2>1, <2>2, <2>3
<1>5. QED
  BY <1>2, <1>4 DEF SpanInv

(* An entry is cancelled from both, so the difference stays a sum.         *)
LEMMA CancelSpan == IInv /\ SpanInv /\ Cancel => SpanInv'
<1> SUFFICES ASSUME IInv, SpanInv, Cancel PROVE SpanInv'
  OBVIOUS
<1> DEFINE e == basis[Leading(v)].vector
<1>1. /\ UNCHANGED <<basis, file, k, ref, stage, asked, answer>> /\ v' = Xor(v, e)
      /\ stage \in {"reduce", "predict"}
  BY DEF Cancel
<1>2. /\ LeadersTaken' /\ Independent' /\ Entries' = Entries
      /\ Span(Entries)' = Span(Entries)
  BY <1>1, SameBasis
<1>3. Differences' = Differences /\ \A blob : BitsOf(blob)' = BitsOf(blob)
  BY <1>1 DEF Differences, BitsOf, Usable
<1>4. Span(Differences)' = Span(Differences)
  BY <1>3 DEF Span
<1>5. e \in Span(Entries)
  <2>1. e \in Entries
    BY DEF Cancel, Entries, Vectors
  <2>2. QED
    BY <2>1, WordTypes, SpanFacts DEF IInv
<1> HIDE DEF e
<1>6. ASSUME NEW d, Xor(d, v) \in Span(Entries) PROVE Xor(d, v') \in Span(Entries)
  <2>1. Xor(d, v') = Xor(Xor(d, v), e)
    BY <1>1, XorLaws
  <2>2. Xor(Xor(d, v), e) \in Span(Entries)
    BY <1>5, <1>6, WordTypes, SpanFacts DEF IInv
  <2>3. QED
    BY <2>1, <2>2
<1>7. stage = "reduce" => Xor(BitsOf(file[k]), v') \in Span(Entries)
  BY <1>6 DEF SpanInv, ReductionInv
<1>8. stage = "predict" => Xor(BitsOf(asked), v') \in Span(Entries)
  BY <1>6 DEF SpanInv, ReductionInv
<1>9. BitsOf(file[k])' = BitsOf(file[k]) /\ BitsOf(asked)' = BitsOf(asked)
  BY <1>1 DEF BitsOf
<1>10. ReductionInv'
  BY <1>1, <1>2, <1>4, <1>7, <1>8, <1>9 DEF SpanInv, ReductionInv, Usable
<1>11. QED
  BY <1>2, <1>10 DEF SpanInv

(* The sample that was reduced is read.                                    *)
LEMMA NextDifference ==
  ASSUME IInv, SpanInv, stage = "reduce", k' = k + 1, UNCHANGED <<file, ref>>
  PROVE  /\ Differences' = Differences \cup {BitsOf(file[k])}
         /\ Span(Differences)' = Span(Entries \cup {BitsOf(file[k])})
<1>1. k \in Nat \ {0} /\ k <= Len(file) /\ Len(file) \in Nat /\ Usable(file[k])
  BY DEF IInv, TypeOK, SpanInv, ReductionInv
<1>2. ReadBefore(k + 1) = ReadBefore(k) \cup {k}
  BY <1>1, ReadNext
<1>3. Differences' = {BitsOf(file[j]) : j \in ReadBefore(k + 1)}
  BY DEF Differences, ReadBefore, BitsOf, Usable
<1>4. Differences' = Differences \cup {BitsOf(file[k])}
  BY <1>2, <1>3, DifferencesRead
<1>5. /\ Entries \in SUBSET Words /\ Differences \in SUBSET Words
      /\ BitsOf(file[k]) \in Words
  BY WordTypes DEF IInv
<1>6. Span(Entries) = Span(Differences)
  BY DEF SpanInv, ReductionInv
<1>7. Span(Differences \cup {BitsOf(file[k])}) = Span(Entries \cup {BitsOf(file[k])})
  <2> DEFINE d == BitsOf(file[k])
  <2>1. /\ Span(Differences \cup {d}) =
             {a \in Words : a \in Span(Differences) \/ Xor(a, d) \in Span(Differences)}
        /\ Span(Entries \cup {d}) =
             {a \in Words : a \in Span(Entries) \/ Xor(a, d) \in Span(Entries)}
    BY <1>5, SpanOfMore
  <2>2. QED
    BY <1>6, <2>1
<1>8. Span(Differences)' = Span(Differences \cup {BitsOf(file[k])})
  BY <1>4 DEF Span
<1>9. QED
  BY <1>4, <1>7, <1>8

(* What a new entry adds to the span.                                      *)
LEMMA Extended ==
  ASSUME IInv, SpanInv, Extend
  PROVE  /\ v \in Words /\ v # {} /\ v \notin Span(Entries)
         /\ DOMAIN basis' = DOMAIN basis \cup {Leading(v)} /\ Leading(v) \notin DOMAIN basis
         /\ basis'[Leading(v)].vector = v
         /\ \A h \in DOMAIN basis : basis'[h].vector = basis[h].vector
         /\ Span(Entries)' = Span(Entries \cup {v})
<1> DEFINE l == Leading(v)
<1>1. /\ v # {} /\ l \notin DOMAIN basis /\ stage = "reduce"
      /\ DOMAIN basis' = DOMAIN basis \cup {l}
      /\ basis'[l].vector = v
      /\ \A h \in DOMAIN basis : basis'[h].vector = basis[h].vector
  BY DEF Extend
<1>2. v \notin Span(Entries)
  BY <1>1 DEF SpanInv, LeadersTaken
<1> HIDE DEF l
<1>3. Entries' = Entries \cup {v}
  BY <1>1 DEF Entries, Vectors
<1>4. Span(Entries)' = Span(Entries \cup {v})
  BY <1>3 DEF Span
<1>5. v \in Words
  BY WordTypes DEF IInv
<1>6. QED
  BY <1>1, <1>2, <1>4, <1>5 DEF l

LEMMA ExtendSpan == IInv /\ SpanInv /\ Extend => SpanInv'
<1> SUFFICES ASSUME IInv, SpanInv, Extend PROVE SpanInv'
  OBVIOUS
<1> DEFINE l == Leading(v)
           d == BitsOf(file[k])
<1>1. /\ v \in Words /\ v # {} /\ v \notin Span(Entries)
      /\ DOMAIN basis' = DOMAIN basis \cup {l} /\ l \notin DOMAIN basis
      /\ basis'[l].vector = v
      /\ \A h \in DOMAIN basis : basis'[h].vector = basis[h].vector
      /\ Span(Entries)' = Span(Entries \cup {v})
  BY Extended
<1>2. /\ Entries \in SUBSET Words /\ d \in Words
      /\ \A leaders \in SUBSET DOMAIN basis : Vectors(leaders) \in SUBSET Words
  BY WordTypes DEF IInv
<1>3. Span(Entries \cup {v}) =
        {a \in Words : a \in Span(Entries) \/ Xor(a, v) \in Span(Entries)}
  BY <1>1, <1>2, SpanOfMore
<1>4. LeadersTaken'
  <2>1. SUFFICES ASSUME NEW a \in Span(Entries \cup {v}), a # {}
                 PROVE  Leading(a) \in DOMAIN basis \cup {l}
    BY <1>1 DEF LeadersTaken
  <2>2. CASE a \in Span(Entries)
    BY <2>1, <2>2 DEF SpanInv, LeadersTaken
  <2>3. CASE Xor(a, v) \in Span(Entries)
    <3> DEFINE s == Xor(a, v)
    <3>1. a = Xor(s, v) /\ s \in Words
      BY <1>2, <2>3, XorCancels, SpanFacts
    <3> HIDE DEF s
    <3>2. CASE s = {}
      <4>1. a = v
        BY <3>1, <3>2, XorLaws
      <4>2. QED
        BY <4>1
    <3>3. CASE s # {}
      <4>1. Leading(s) \in DOMAIN basis
        BY <2>3, <3>3 DEF SpanInv, LeadersTaken, s
      <4>2. Leading(a) \in {Leading(s), l}
        BY <1>1, <3>1, <3>3, <4>1, LeadingOfSum
      <4>3. QED
        BY <4>1, <4>2
    <3>4. QED
      BY <3>2, <3>3
  <2>4. QED
    BY <1>3, <2>2, <2>3
<1>5. Independent'
  <2> HIDE DEF l
  <2>1. SUFFICES ASSUME NEW h \in DOMAIN basis \cup {l}
                 PROVE  basis'[h].vector \notin Span(Vectors(DOMAIN basis \ {h}))'
    BY <1>1 DEF Independent
  <2>2. CASE h = l
    <3>1. Vectors(DOMAIN basis \ {h})' = Entries
      BY <1>1, <2>2 DEF Entries, Vectors
    <3>2. Span(Vectors(DOMAIN basis \ {h}))' = Span(Entries)
      BY <3>1 DEF Span
    <3>3. QED
      BY <1>1, <2>2, <3>2
  <2>3. CASE h # l
    <3> DEFINE others == Vectors(DOMAIN basis \ {h})
               e == basis[h].vector
    <3>1. h \in DOMAIN basis
      BY <2>3
    <3>2. others' = others \cup {v}
      BY <1>1, <2>3, <3>1 DEF Vectors
    <3>3. Span(others)' = Span(others \cup {v})
      BY <3>2 DEF Span
    <3>4. /\ others \in SUBSET Words /\ others \subseteq Entries
          /\ e \in Entries /\ e \in Words
      BY <1>2, <3>1 DEF Vectors, Entries
    <3>5. e \notin Span(others) /\ basis'[h].vector = e
      BY <1>1, <3>1 DEF SpanInv, Independent
    <3> HIDE DEF others, e
    <3>6. Span(others) \subseteq Span(Entries) /\ e \in Span(Entries)
      BY <1>2, <3>4, SpanGrows, SpanFacts
    <3>7. Xor(e, v) \notin Span(others)
      <4>1. SUFFICES ASSUME Xor(e, v) \in Span(others) PROVE FALSE
        OBVIOUS
      <4>2. Xor(Xor(e, v), e) \in Span(Entries)
        BY <1>2, <3>6, <4>1, SpanFacts
      <4>3. Xor(Xor(e, v), e) = v
        BY DEF Xor
      <4>4. QED
        BY <1>1, <4>2, <4>3
    <3>8. e \notin Span(others \cup {v})
      BY <1>1, <3>4, <3>5, <3>7, SpanOfMore
    <3>9. QED
      BY <3>3, <3>5, <3>8 DEF others
  <2>4. QED
    BY <2>2, <2>3
<1>6. ReductionInv'
  <2>1. stage = "reduce" /\ stage' = "read" /\ k' = k + 1 /\ UNCHANGED <<file, ref>>
    BY DEF Extend, NextLine
  <2>2. Span(Differences)' = Span(Entries \cup {d})
    BY <2>1, NextDifference
  <2>3. Xor(d, v) \in Span(Entries)
    BY <2>1 DEF SpanInv, ReductionInv
  <2>4. Span(Entries \cup {d}) = Span(Entries \cup {v})
    BY <1>1, <1>2, <2>3, SpanOfEither
  <2>5. QED
    BY <1>1, <2>1, <2>2, <2>4 DEF ReductionInv
<1>7. QED
  BY <1>4, <1>5, <1>6 DEF SpanInv

(* A difference that vanishes was spanned.                                 *)
LEMMA SpannedSpan == IInv /\ SpanInv /\ Spanned => SpanInv'
<1> SUFFICES ASSUME IInv, SpanInv, Spanned PROVE SpanInv'
  OBVIOUS
<1>1. /\ stage = "reduce" /\ v = {} /\ stage' = "read" /\ k' = k + 1
      /\ UNCHANGED <<file, ref, basis>>
  BY DEF Spanned, NextLine
<1>2. /\ LeadersTaken' /\ Independent' /\ Entries' = Entries
      /\ Span(Entries)' = Span(Entries)
  BY <1>1, SameBasis
<1>3. Span(Differences)' = Span(Entries \cup {BitsOf(file[k])})
  BY <1>1, NextDifference
<1>4. BitsOf(file[k]) \in Span(Entries)
  BY <1>1, XorLaws DEF SpanInv, ReductionInv
<1>5. Span(Entries \cup {BitsOf(file[k])}) = Span(Entries)
  BY <1>4, WordTypes, SpanOfSpanned DEF IInv
<1>6. ReductionInv'
  BY <1>1, <1>2, <1>3, <1>5 DEF ReductionInv
<1>7. QED
  BY <1>2, <1>6 DEF SpanInv

(* An answer is refused exactly when what is left leads with a free bit.   *)
LEMMA PredictSpan ==
  IInv /\ SpanInv /\ (Solved \/ (\E blob \in Blobs : Ask(blob)) \/ Predict \/ OutsideTheSpan)
    => SpanInv'
<1> SUFFICES ASSUME IInv, SpanInv,
                    Solved \/ (\E blob \in Blobs : Ask(blob)) \/ Predict \/ OutsideTheSpan
             PROVE  SpanInv'
  OBVIOUS
<1>1. UNCHANGED <<basis, file, k, ref>> /\ stage # "open"
  BY DEF Solved, Ask, Predict, OutsideTheSpan
<1>2. /\ LeadersTaken' /\ Independent' /\ Entries' = Entries
      /\ Span(Entries)' = Span(Entries)
  BY <1>1, SameBasis
<1>3. Differences' = Differences
  BY <1>1 DEF Differences, BitsOf, Usable
<1>4. Span(Differences)' = Span(Differences)
  BY <1>3 DEF Span
<1>5. Span(Entries)' = Span(Differences)'
  BY <1>1, <1>2, <1>4 DEF SpanInv, ReductionInv
<1>6. ASSUME Solved PROVE ReductionInv'
  BY <1>5, <1>6 DEF Solved, ReductionInv
<1>7. ASSUME NEW blob \in Blobs, Ask(blob) PROVE ReductionInv'
  <2>1. {} \in Span(Entries)
    BY WordTypes, SpanFacts DEF IInv
  <2>2. Xor(BitsOf(asked), v)' = {}
    BY <1>7, XorLaws DEF Ask, BitsOf
  <2>3. QED
    BY <1>2, <1>5, <1>7, <2>1, <2>2 DEF Ask, ReductionInv
<1>8. ASSUME Predict PROVE ReductionInv'
  <2>1. BitsOf(asked) \in Span(Entries)
    BY <1>8, XorLaws DEF Predict, SpanInv, ReductionInv
  <2>2. BitsOf(asked)' = BitsOf(asked) /\ answer' # {} /\ stage' = "answered"
    BY <1>8 DEF Predict, BitsOf
  <2>3. QED
    BY <1>2, <1>5, <2>1, <2>2 DEF ReductionInv
<1>9. ASSUME OutsideTheSpan PROVE ReductionInv'
  <2>1. /\ stage = "predict" /\ v # {} /\ Leading(v) \notin DOMAIN basis
        /\ answer' = answer /\ stage' = "answered" /\ asked' = asked
    BY <1>9 DEF OutsideTheSpan
  <2>2. v \notin Span(Entries)
    BY <2>1 DEF SpanInv, LeadersTaken
  <2>3. BitsOf(asked) \notin Span(Entries)
    <3>1. SUFFICES ASSUME BitsOf(asked) \in Span(Entries) PROVE FALSE
      OBVIOUS
    <3>2. Xor(BitsOf(asked), v) \in Span(Entries)
      BY <2>1 DEF SpanInv, ReductionInv
    <3>3. Xor(BitsOf(asked), Xor(BitsOf(asked), v)) \in Span(Entries)
      BY <3>1, <3>2, WordTypes, SpanFacts DEF IInv
    <3>4. Xor(BitsOf(asked), Xor(BitsOf(asked), v)) = v
      BY DEF Xor
    <3>5. QED
      BY <2>2, <3>3, <3>4
  <2>4. BitsOf(asked)' = BitsOf(asked) /\ answer = {}
    BY <1>1, <2>1 DEF BitsOf, IInv, LoopInvariant
  <2>5. QED
    BY <1>2, <1>5, <2>1, <2>3, <2>4 DEF ReductionInv
<1>10. QED
  BY <1>2, <1>6, <1>7, <1>8, <1>9 DEF SpanInv

(* The basis always spans what was read, and reducing stays within that.   *)
THEOREM SpanInvariance == Spec => []SpanInv
<1>1. IInv /\ SpanInv /\ [Next]_vars => SpanInv'
  <2> SUFFICES ASSUME IInv, SpanInv, [Next]_vars PROVE SpanInv'
    OBVIOUS
  <2>1. CASE UNCHANGED vars
    <3>1. /\ UNCHANGED <<basis, file, k, ref, stage, v, asked, answer>>
      BY <2>1 DEF vars
    <3>2. /\ LeadersTaken' /\ Independent' /\ Entries' = Entries
          /\ Span(Entries)' = Span(Entries)
      BY <3>1, SameBasis
    <3>3. Differences' = Differences
      BY <3>1 DEF Differences, BitsOf, Usable
    <3>4. Span(Differences)' = Span(Differences)
      BY <3>3 DEF Span
    <3>5. BitsOf(file[k])' = BitsOf(file[k]) /\ BitsOf(asked)' = BitsOf(asked)
      BY <3>1 DEF BitsOf
    <3>6. ReductionInv'
      BY <3>1, <3>2, <3>3, <3>4, <3>5 DEF SpanInv, ReductionInv, Usable
    <3>7. QED
      BY <3>2, <3>6 DEF SpanInv
  <2>2. QED
    BY <2>1, ReadSpan, CancelSpan, ExtendSpan, SpannedSpan, PredictSpan DEF Next
<1>2. QED
  BY <1>1, InitSpan, BasisInvariant, PTL DEF Spec

(* The entries are a basis of what the samples span, so their number is    *)
(* the rank that collecting waits for.                                     *)
THEOREM EntriesAreABasis == Spec => []RankIsDimension
<1>1. SpanInv => RankIsDimension
  BY DEF SpanInv, ReductionInv, Independent, Entries, RankIsDimension
<1>2. QED
  BY <1>1, SpanInvariance, PTL

(* checksum_with answers for what the samples span, and for nothing else.  *)
THEOREM AnswersExactlyTheSpan == Spec => []AnsweredInTheSpan
<1>1. SpanInv => AnsweredInTheSpan
  BY DEF SpanInv, ReductionInv, AnsweredInTheSpan
<1>2. QED
  BY <1>1, SpanInvariance, PTL

-----------------------------------------------------------------------------
(* Bits that are not missing                                               *)

(* A set of numbers has a least one.                                       *)
LEMMA LeastNumber ==
  ASSUME NEW T \in SUBSET Nat, T # {}
  PROVE  \E x \in T : \A y \in T : x <= y
<1>1. PICK x \in T : \A y \in T : ~ (<<y, x>> \in OpToRel(<, Nat))
  BY WFMin, NatLessThanWellFounded
<1>2. \A y \in T : ~ (y < x)
  BY <1>1 DEF OpToRel
<1>3. QED
  BY <1>2

(* What holds at Width, and below whatever it holds at, holds at 0.        *)
LEMMA DownToZero ==
  ASSUME NEW T \in SUBSET (0 .. Width), Width \in T, \A m \in T : m > 0 => m - 1 \in T
  PROVE  0 \in T
<1>1. T \in SUBSET Nat
  OBVIOUS
<1>2. PICK x \in T : \A y \in T : x <= y
  BY <1>1, LeastNumber
<1>3. QED
  BY <1>2

(* A word is a sum of entries if each of its bits by itself is one.        *)
LEMMA SumOfBits ==
  ASSUME NEW W \in SUBSET Words, NEW w \in Words, \A b \in w : {b} \in Span(W)
  PROVE  w \in Span(W)
<1> DEFINE Above(m) == {b \in w : m <= b}
           T == {m \in 0 .. Width : Above(m) \in Span(W)}
<1>1. Width \in Nat /\ \A b \in w : b \in Int /\ 0 <= b /\ b < Width
  BY PositionsAssumption DEF Words, Varying
<1>2. {} \in Span(W) /\ \A a, b \in Span(W) : Xor(a, b) \in Span(W)
  BY SpanFacts
<1>3. Width \in T
  <2>1. \A b \in w : ~ (Width <= b)
    BY <1>1
  <2>2. Above(Width) = {}
    BY <2>1
  <2> HIDE DEF Above
  <2>3. QED
    BY <1>1, <1>2, <2>2
<1>4. ASSUME NEW m \in T, m > 0 PROVE m - 1 \in T
  <2>1. m \in Nat /\ m - 1 \in 0 .. Width
    BY <1>1, <1>4
  <2>2. Above(m) \in Span(W)
    OBVIOUS
  <2>3. \A b \in w : m - 1 <= b <=> m <= b \/ b = m - 1
    BY <1>1, <2>1
  <2>4. CASE m - 1 \in w
    <3>1. m - 1 \notin Above(m)
      BY <2>1
    <3>2. Above(m - 1) = Above(m) \cup {m - 1}
      BY <2>3, <2>4
    <3>3. Above(m - 1) = Xor(Above(m), {m - 1})
      BY <3>1, <3>2 DEF Xor
    <3> HIDE DEF Above
    <3>4. Above(m - 1) \in Span(W)
      BY <1>2, <2>2, <2>4, <3>3
    <3>5. QED
      BY <2>1, <3>4
  <2>5. CASE m - 1 \notin w
    <3>1. Above(m - 1) = Above(m)
      BY <2>3, <2>5
    <3> HIDE DEF Above
    <3>2. QED
      BY <2>1, <2>2, <3>1
  <2>6. QED
    BY <2>4, <2>5
<1>5. 0 \in T
  <2> HIDE DEF T
  <2>1. T \in SUBSET (0 .. Width)
    BY DEF T
  <2>2. QED
    BY <1>3, <1>4, <2>1, DownToZero
<1>6. Above(0) = w
  BY <1>1
<1>7. QED
  BY <1>5, <1>6

(* What Remainder does at position h.                                      *)
Cancelled(h, w) == IF h \in w /\ h \in DOMAIN basis THEN Xor(w, basis[h].vector) ELSE w

IsReduction(f, word) ==
  f = [h \in 0 .. Width |-> IF h = Width THEN word ELSE Cancelled(h, f[h + 1])]

(* A reduction of word as far down as m.                                   *)
ReducesTo(f, word, m) ==
  /\ f[Width] = word
  /\ \A h \in 0 .. Width - 1 : m <= h => f[h] = Cancelled(h, f[h + 1])

(* Cancelling position after position is defined for every basis.          *)
LEMMA ReductionExists == ASSUME NEW word PROVE \E f : IsReduction(f, word)
<1> DEFINE T == {m \in 0 .. Width : \E f : ReducesTo(f, word, m)}
<1>1. Width \in Nat
  BY PositionsAssumption
<1>2. Width \in T
  <2> DEFINE f == [h \in 0 .. Width |-> word]
  <2>1. f[Width] = word /\ \A h \in 0 .. Width - 1 : ~ (Width <= h)
    BY <1>1
  <2> HIDE DEF f
  <2>2. ReducesTo(f, word, Width)
    BY <2>1 DEF ReducesTo
  <2>3. QED
    BY <1>1, <2>2
<1>3. ASSUME NEW m \in T, m > 0 PROVE m - 1 \in T
  <2>1. m \in 0 .. Width /\ m - 1 \in 0 .. Width
    BY <1>1, <1>3
  <2>2. PICK f : ReducesTo(f, word, m)
    OBVIOUS
  <2> DEFINE g == [h \in 0 .. Width |-> IF h = m - 1 THEN Cancelled(h, f[m]) ELSE f[h]]
  <2>3. \A h \in 0 .. Width : g[h] = IF h = m - 1 THEN Cancelled(h, f[m]) ELSE f[h]
    OBVIOUS
  <2> HIDE DEF g
  <2>4. g[Width] = word
    BY <1>1, <1>3, <2>1, <2>2, <2>3 DEF ReducesTo
  <2>5. ASSUME NEW h \in 0 .. Width - 1, m - 1 <= h
        PROVE  g[h] = Cancelled(h, g[h + 1])
    <3>1. /\ h \in 0 .. Width /\ h + 1 \in 0 .. Width /\ h + 1 # m - 1
          /\ h = m - 1 \/ m <= h
      BY <1>1, <2>1, <2>5
    <3>2. g[h + 1] = f[h + 1]
      BY <2>3, <3>1
    <3>3. CASE h = m - 1
      <4>1. g[h] = Cancelled(h, f[m]) /\ h + 1 = m
        BY <2>1, <2>3, <3>1, <3>3
      <4>2. QED
        BY <3>2, <4>1
    <3>4. CASE h # m - 1
      <4>1. g[h] = f[h] /\ m <= h
        BY <2>3, <3>1, <3>4
      <4>2. f[h] = Cancelled(h, f[h + 1])
        BY <2>2, <4>1 DEF ReducesTo
      <4>3. QED
        BY <3>2, <4>1, <4>2
    <3>5. QED
      BY <3>3, <3>4
  <2>6. ReducesTo(g, word, m - 1)
    BY <2>4, <2>5 DEF ReducesTo
  <2>7. QED
    BY <2>1, <2>6
<1>4. 0 \in T
  <2> HIDE DEF T
  <2>1. T \in SUBSET (0 .. Width)
    BY DEF T
  <2>2. QED
    BY <1>2, <1>3, <2>1, DownToZero
<1>5. PICK f : ReducesTo(f, word, 0)
  BY <1>4
<1> DEFINE r == [h \in 0 .. Width |-> f[h]]
<1>6. \A h \in 0 .. Width : r[h] = IF h = Width THEN word ELSE Cancelled(h, r[h + 1])
  <2>1. SUFFICES ASSUME NEW h \in 0 .. Width
                 PROVE  r[h] = IF h = Width THEN word ELSE Cancelled(h, r[h + 1])
    OBVIOUS
  <2>2. CASE h = Width
    BY <1>5, <2>2 DEF ReducesTo
  <2>3. CASE h # Width
    <3>1. h \in 0 .. Width - 1 /\ h + 1 \in 0 .. Width /\ 0 <= h
      BY <1>1, <2>3
    <3>2. f[h] = Cancelled(h, f[h + 1])
      BY <1>5, <3>1 DEF ReducesTo
    <3>3. r[h] = f[h] /\ r[h + 1] = f[h + 1]
      BY <3>1
    <3>4. QED
      BY <2>3, <3>2, <3>3
  <2>4. QED
    BY <2>2, <2>3
<1>7. r = [h \in 0 .. Width |-> IF h = Width THEN word ELSE Cancelled(h, r[h + 1])]
  <2>1. r = [h \in 0 .. Width |-> r[h]]
    OBVIOUS
  <2> HIDE DEF r
  <2>2. QED
    BY <1>6, <2>1
<1>8. QED
  BY <1>7 DEF IsReduction

LEMMA RemainderIsReduction ==
  ASSUME NEW word
  PROVE  \E f : IsReduction(f, word) /\ Remainder(word) = f[0]
<1> DEFINE f == CHOOSE g : IsReduction(g, word)
<1>1. IsReduction(f, word)
  BY ReductionExists
<1>2. Remainder(word) = f[0]
  BY DEF Remainder, IsReduction, Cancelled
<1>3. QED
  BY <1>1, <1>2

(* A word whose remainder vanishes is a sum of entries.                    *)
LEMMA NothingRemains ==
  ASSUME TypeOK, NEW word \in Words, Remainder(word) = {}
  PROVE  word \in Span(Entries)
<1> DEFINE S == Span(Entries)
<1>1. Width \in Nat /\ Entries \in SUBSET Words
  BY PositionsAssumption, WordTypes
<1>2. S \subseteq Words /\ {} \in S /\ \A a, b \in S : Xor(a, b) \in S
  BY <1>1, SpanFacts
<1>3. \A h \in DOMAIN basis : basis[h].vector \in S
  BY <1>1, SpanFacts DEF Entries, Vectors
<1> HIDE DEF S
<1>4. PICK f : IsReduction(f, word) /\ Remainder(word) = f[0]
  BY RemainderIsReduction
<1> DEFINE T == {m \in 0 .. Width : Xor(f[m], word) \in S}
<1>5. Width \in T
  <2>1. f[Width] = word
    BY <1>1, <1>4 DEF IsReduction
  <2>2. Xor(f[Width], word) \in S
    BY <1>2, <2>1, XorLaws
  <2>3. QED
    BY <1>1, <2>2
<1>6. ASSUME NEW m \in T, m > 0 PROVE m - 1 \in T
  <2>1. m - 1 \in 0 .. Width /\ m - 1 # Width /\ (m - 1) + 1 = m
    BY <1>1, <1>6
  <2>2. f[m - 1] = Cancelled(m - 1, f[m])
    BY <1>4, <2>1 DEF IsReduction
  <2>3. CASE f[m - 1] = f[m]
    BY <2>1, <2>3
  <2>4. CASE m - 1 \in DOMAIN basis /\ f[m - 1] = Xor(f[m], basis[m - 1].vector)
    <3>1. Xor(f[m - 1], word) = Xor(Xor(f[m], word), basis[m - 1].vector)
      BY <2>4 DEF Xor
    <3>2. Xor(Xor(f[m], word), basis[m - 1].vector) \in S
      BY <1>2, <1>3, <2>4
    <3>3. QED
      BY <2>1, <3>1, <3>2
  <2>5. QED
    BY <2>2, <2>3, <2>4 DEF Cancelled
<1>7. 0 \in T
  <2> HIDE DEF T
  <2>1. T \in SUBSET (0 .. Width)
    BY DEF T
  <2>2. QED
    BY <1>5, <1>6, <2>1, DownToZero
<1>8. Xor({}, word) = word
  BY DEF Xor
<1>9. QED
  BY <1>4, <1>7, <1>8 DEF S

(* When no needed bit is missing, every programme that differs from the    *)
(* first sample in bits the server sets gets an answer: it is safe to stop *)
(* collecting.                                                             *)
THEOREM StoppingIsSafe == Spec => []NothingMissingIsEnough
<1>1. IInv /\ SpanInv => NothingMissingIsEnough
  <2>1. SUFFICES ASSUME IInv, SpanInv, stage = "answered", NeededMissing = {},
                        BitsOf(asked) \cap Unreachable = {}
                 PROVE  answer # {}
    BY DEF NothingMissingIsEnough
  <2>2. TypeOK /\ Entries \in SUBSET Words /\ BitsOf(asked) \in Words
    BY <2>1, WordTypes DEF IInv
  <2>3. ASSUME NEW b \in BitsOf(asked) PROVE {b} \in Span(Entries)
    <3>1. b \in Varying /\ b \notin Unreachable
      BY <2>1, <2>2 DEF Words
    <3>2. Remainder({b}) = {}
      BY <2>1, <3>1 DEF NeededMissing, MissingBits
    <3>3. {b} \in Words
      BY <3>1 DEF Words
    <3>4. QED
      BY <2>2, <3>2, <3>3, NothingRemains
  <2>4. BitsOf(asked) \in Span(Entries)
    BY <2>2, <2>3, SumOfBits
  <2>5. QED
    BY <2>1, <2>4 DEF SpanInv, ReductionInv
<1>2. QED
  BY <1>1, BasisInvariant, SpanInvariance, PTL

=============================================================================
