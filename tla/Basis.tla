-------------------------------- MODULE Basis --------------------------------
(***************************************************************************)
(* How the schedule checksum was solved (capture/collect-checksums.py):    *)
(* build_basis reduces recorded programmes to a basis of differences with  *)
(* the change of the checksum each makes, and checksum_with predicts the   *)
(* checksum of a programme from it.  One step is one line of the sample    *)
(* file or one turn of a while loop.                                       *)
(*                                                                         *)
(* A word of bits is the set of positions that are 1, so exclusive or is   *)
(* symmetric difference.  The checksum is the real service's: it is only   *)
(* known to be affine, which is what the tool relies on.                   *)
(***************************************************************************)
EXTENDS Integers, Sequences, FiniteSets, FiniteSetsExt

CONSTANTS
  Width,       \* bits bits_of looks at: those of the VARYING bytes
  Padding,     \* positions behind PAYLOAD_END, set by the padding
  Unreachable, \* bits of Width that no programme of the server sets
  Checks,      \* positions of the checksum's bits
  Checksums,   \* the maps the service may compute
  Files        \* contents of checksum-samples.jsonl

Varying == 0 .. Width - 1

Xor(a, b) == (a \ b) \cup (b \ a)

Blobs == SUBSET (Varying \cup Padding)

Affine(f) == \A a, b \in Blobs : f[Xor(a, b)] = Xor(Xor(f[a], f[b]), f[{}])

(* schedule_checksum.checksum, the form the service's map was found to     *)
(* have: each bit that is set contributes its column.                      *)
Closed(base, columns) ==
  [blob \in Blobs |->
     Xor(base, {c \in Checks : Cardinality({b \in blob : c \in columns[b]}) % 2 = 1})]

ASSUME PositionsAssumption ==
  /\ Width \in Nat
  /\ IsFiniteSet(Padding)
  /\ Unreachable \subseteq Varying
  /\ Varying \cap Padding = {}

ASSUME ChecksumsAssumption ==
  Checksums \subseteq [Blobs -> SUBSET Checks] /\ \A f \in Checksums : Affine(f)

ASSUME FilesAssumption == Files \subseteq Seq(Blobs)

VARIABLES
  ck,       \* the service's checksum
  file,     \* the samples on file
  k,        \* the next of them
  stage,    \* what the tool is doing: see TypeOK
  ref,      \* the first usable sample
  v, img,   \* the difference being reduced, and its image
  basis,    \* leading bit -> difference and image
  bad,      \* inconsistencies
  asked,    \* the programme to predict the checksum of
  answer    \* the prediction, as a set: none if it is outside the span

vars == <<ck, file, k, stage, ref, v, img, basis, bad, asked, answer>>

(* Mutant: samples of any length.                                          *)
UsableAnyLength(blob) == TRUE

(* load_samples leaves out a longer payload, which shows in the padding.   *)
Usable(blob) == Padding \subseteq blob

Word(blob) == blob \cap Varying

(* bits_of: the difference over the varying positions.                     *)
BitsOf(blob) == Xor(Word(blob), Word(ref))

(* The programme that blob looks like to bits_of, as short as the samples. *)
ShortOf(blob) == Word(blob) \cup Padding

(* The highest bit of a word that is not 0.                                *)
Leading(word) == Max(word)

(* rank_of: the samples are collected until this no longer grows.          *)
Rank == Cardinality(DOMAIN basis)

(* What missing_bits leaves of a word: the positions are cancelled from    *)
(* the highest down, as far as the basis has them.                         *)
Remainder(word) ==
  LET below[h \in 0 .. Width] ==
        IF h = Width THEN word
        ELSE LET w == below[h + 1]
             IN  IF h \in w /\ h \in DOMAIN basis THEN Xor(w, basis[h].vector) ELSE w
  IN  below[0]

(* Mutant: a bit is missing when no difference leads with it.              *)
MissingByLeading == Varying \ DOMAIN basis

(* missing_bits: the bits that the samples do not determine one by one.    *)
MissingBits == {b \in Varying : Remainder({b}) # {}}

NeededMissing == MissingBits \ Unreachable

-----------------------------------------------------------------------------
Init ==
  /\ ck \in Checksums
  /\ file \in Files
  /\ k = 1
  /\ stage = "open"
  /\ ref = {}
  /\ v = {} /\ img = {}
  /\ basis = [h \in {} |-> [vector |-> {}, image |-> {}]]
  /\ bad = 0
  /\ asked = {} /\ answer = {}

NextLine == stage' = "read" /\ k' = k + 1

Skip ==
  /\ stage \in {"open", "read"} /\ k <= Len(file)
  /\ ~ Usable(file[k])
  /\ k' = k + 1
  /\ UNCHANGED <<ck, file, stage, ref, v, img, basis, bad, asked, answer>>

First ==
  /\ stage = "open" /\ k <= Len(file)
  /\ Usable(file[k])
  /\ ref' = file[k]
  /\ NextLine
  /\ UNCHANGED <<ck, file, v, img, basis, bad, asked, answer>>

(* Mutant: the sample itself is reduced, not its difference.               *)
TakeWhole ==
  /\ stage = "read" /\ k <= Len(file)
  /\ Usable(file[k])
  /\ v' = Word(file[k])
  /\ img' = Xor(ck[file[k]], ck[ref])
  /\ stage' = "reduce"
  /\ UNCHANGED <<ck, file, k, ref, basis, bad, asked, answer>>

Take ==
  /\ stage = "read" /\ k <= Len(file)
  /\ Usable(file[k])
  /\ v' = BitsOf(file[k])
  /\ img' = Xor(ck[file[k]], ck[ref])
  /\ stage' = "reduce"
  /\ UNCHANGED <<ck, file, k, ref, basis, bad, asked, answer>>

(* Mutant: the image is not carried along.                                 *)
CancelVectorOnly ==
  /\ stage \in {"reduce", "predict"}
  /\ v # {} /\ Leading(v) \in DOMAIN basis
  /\ v' = Xor(v, basis[Leading(v)].vector)
  /\ UNCHANGED <<ck, file, k, stage, ref, img, basis, bad, asked, answer>>

(* Mutant: a leading bit that is taken ends the reduction.                 *)
CancelOnce ==
  /\ stage \in {"reduce", "predict"}
  /\ v # {} /\ Leading(v) \in DOMAIN basis
  /\ v' = {}
  /\ img' = Xor(img, basis[Leading(v)].image)
  /\ UNCHANGED <<ck, file, k, stage, ref, basis, bad, asked, answer>>

(* A turn of the loop: the leading bit is cancelled.                       *)
Cancel ==
  /\ stage \in {"reduce", "predict"}
  /\ v # {} /\ Leading(v) \in DOMAIN basis
  /\ v' = Xor(v, basis[Leading(v)].vector)
  /\ img' = Xor(img, basis[Leading(v)].image)
  /\ UNCHANGED <<ck, file, k, stage, ref, basis, bad, asked, answer>>

(* Mutant: the difference is stored as it was before the reduction.        *)
ExtendUnreduced ==
  /\ stage = "reduce"
  /\ v # {} /\ Leading(v) \notin DOMAIN basis
  /\ basis' = [h \in DOMAIN basis \cup {Leading(v)} |->
                 IF h = Leading(v) THEN [vector |-> BitsOf(file[k]), image |-> img] ELSE basis[h]]
  /\ NextLine
  /\ UNCHANGED <<ck, file, ref, v, img, bad, asked, answer>>

(* The reduced difference gets its leading bit.                            *)
Extend ==
  /\ stage = "reduce"
  /\ v # {} /\ Leading(v) \notin DOMAIN basis
  /\ basis' = [h \in DOMAIN basis \cup {Leading(v)} |->
                 IF h = Leading(v) THEN [vector |-> v, image |-> img] ELSE basis[h]]
  /\ NextLine
  /\ UNCHANGED <<ck, file, ref, v, img, bad, asked, answer>>

Spanned ==
  /\ stage = "reduce" /\ v = {}
  /\ bad' = IF img = {} THEN bad ELSE bad + 1
  /\ NextLine
  /\ UNCHANGED <<ck, file, ref, v, img, basis, asked, answer>>

(* solve goes on only with two samples and no inconsistency.               *)
Solved ==
  /\ stage = "read" /\ k > Len(file)
  /\ Cardinality({j \in 1 .. Len(file) : Usable(file[j])}) >= 2
  /\ bad = 0
  /\ stage' = "ready"
  /\ UNCHANGED <<ck, file, k, ref, v, img, basis, bad, asked, answer>>

(* checksum_with.                                                          *)
Ask(blob) ==
  /\ stage \in {"ready", "answered"}
  /\ asked' = blob
  /\ answer' = {}
  /\ v' = BitsOf(blob)
  /\ img' = ck[ref]
  /\ stage' = "predict"
  /\ UNCHANGED <<ck, file, k, ref, basis, bad>>

Predict ==
  /\ stage = "predict" /\ v = {}
  /\ answer' = {img}
  /\ stage' = "answered"
  /\ UNCHANGED <<ck, file, k, ref, v, img, basis, bad, asked>>

OutsideTheSpan ==
  /\ stage = "predict"
  /\ v # {} /\ Leading(v) \notin DOMAIN basis
  /\ stage' = "answered"
  /\ UNCHANGED <<ck, file, k, ref, v, img, basis, bad, asked, answer>>

Next ==
  \/ Skip \/ First \/ Take
  \/ Cancel \/ Extend \/ Spanned
  \/ Solved
  \/ \E blob \in Blobs : Ask(blob)
  \/ Predict \/ OutsideTheSpan

Spec == Init /\ [][Next]_vars

-----------------------------------------------------------------------------
(* Properties                                                              *)

(* Every variable keeps its type; basis vectors lie in the payload.        *)
TypeOK ==
  /\ ck \in Checksums
  /\ file \in Seq(Blobs)
  /\ k \in Nat \ {0}
  /\ stage \in {"open", "read", "reduce", "ready", "predict", "answered"}
  /\ ref \in Blobs
  /\ v \in SUBSET Varying /\ img \in SUBSET Checks
  /\ \A h \in DOMAIN basis :
       basis[h].vector \in SUBSET Varying /\ basis[h].image \in SUBSET Checks
  /\ bad \in Nat
  /\ asked \in Blobs
  /\ answer \in SUBSET (SUBSET Checks)

(* What the checksum changes by when the bits of word change.              *)
Image(word) == Xor(ck[word], ck[{}])

(* Every entry of the basis is the image of its difference.                *)
EntriesAreImages == \A h \in DOMAIN basis : basis[h].image = Image(basis[h].vector)

(* So is the difference under reduction, of a sample or of the programme   *)
(* asked for, as far as bits_of sees it.                                   *)
LoopInvariant ==
  /\ stage # "open" => Usable(ref)
  /\ stage = "reduce" => img = Image(v)
  /\ stage # "answered" => answer = {}
  /\ stage = "predict" => img = Xor(ck[ShortOf(asked)], Image(v))

(* Samples of an affine checksum are never reported as inconsistent, so    *)
(* "the checksum depends on bytes outside VARYING" is no false alarm.      *)
NoFalseAlarm == bad = 0

(* A prediction is the checksum the service would give, whatever samples   *)
(* were collected and in whatever order.                                   *)
PredictionsAreRight ==
  stage = "answered" /\ Usable(asked) => answer \subseteq {ck[asked]}

(* A programme longer than the samples is taken for the one its first      *)
(* bytes make, since checksum_with looks no further: no answer is refused, *)
(* and the one given is the checksum of the short programme.               *)
OverlongIsTakenForShort ==
  stage = "answered" /\ ~ Usable(asked) =>
    answer \subseteq {ck[ShortOf(asked)]}

(* The inductive invariant.                                                *)
IInv ==
  TypeOK /\ EntriesAreImages /\ LoopInvariant /\ NoFalseAlarm /\ PredictionsAreRight
    /\ OverlongIsTakenForShort

(* Each entry is stored under the highest bit of its difference.           *)
LeadingBits == \A h \in DOMAIN basis :
  h \in basis[h].vector /\ \A c \in basis[h].vector : c <= h

(* A turn of either while loop lowers the leading bit, so that they end.   *)
LoopsEnd ==
  [][v # {} /\ v' # {} /\ v' # v /\ stage' = stage /\ stage \in {"reduce", "predict"}
       => Leading(v') < Leading(v)]_vars

(* The spaces of words: with two words, each has their sum.                *)
Subspaces ==
  {space \in SUBSET SUBSET Varying :
     {} \in space /\ \A a, b \in space : Xor(a, b) \in space}

(* All sums of some words: what every space with them has.                 *)
Span(words) ==
  {a \in SUBSET Varying : \A space \in Subspaces : words \subseteq space => a \in space}

Differences == {BitsOf(file[j]) : j \in {i \in 1 .. k - 1 : i <= Len(file) /\ Usable(file[i])}}

Vectors(leaders) == {basis[h].vector : h \in leaders}

(* The entries are a basis of what the samples read so far span: they span *)
(* no less and no more, and none of them is a sum of others.  So their     *)
(* number is the rank that tells when to stop collecting.                  *)
RankIsDimension ==
  stage \in {"read", "ready"} =>
    /\ Span(Vectors(DOMAIN basis)) = Span(Differences)
    /\ \A h \in DOMAIN basis : basis[h].vector \notin Span(Vectors(DOMAIN basis \ {h}))

(* None is answered for no programme within the span of the samples.       *)
AnsweredInTheSpan ==
  stage = "answered" =>
    (answer # {} <=> BitsOf(asked) \in Span(Differences))

(* "every bit the server needs is now spanned": when no needed bit is      *)
(* missing, collecting may stop, since every programme that differs from   *)
(* the first sample in bits the server sets gets an answer.                *)
NothingMissingIsEnough ==
  /\ stage = "answered" /\ NeededMissing = {}
  /\ BitsOf(asked) \cap Unreachable = {}
  => answer # {}

=============================================================================
