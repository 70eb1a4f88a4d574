------------------------------- MODULE Codec --------------------------------
(***************************************************************************)
(* The bytes of a programme (codec.py): encode_schedule writes a chain of  *)
(* gaps and durations, and decode_schedule reads it back, one turn of its  *)
(* loop a step.  A gap of ContC9Value units or more takes several bytes.   *)
(* Padding, flags and checksum follow the terminator and are not read.     *)
(***************************************************************************)
EXTENDS Integers, Sequences, SequencesExt

CONSTANTS
  CycleUnits,   \* units in a week
  Room,         \* bytes of a programme before its flags: 211
  Chains        \* the chains to encode: see ChainSet

ContC9 == 201
ContFF == 255
ContC9Value == 200
ContFFValue == 255
Terminator == <<0, 204>>

Byte == 0 .. 255

ChainSet == [lead : 0 .. CycleUnits, events : Seq([duration : Int, gap : Int])]

ASSUME CycleAssumption == CycleUnits \in Nat /\ Room \in Nat
ASSUME ChainsAssumption == Chains \subseteq ChainSet

(* The bytes of a gap.  useC9 alternates between the two continuation      *)
(* bytes; 255 does not carry a remainder of 200 .. 254.                    *)
GapBytes[units \in Nat] ==
  [useC9 \in BOOLEAN |->
     IF units < ContC9Value
       THEN <<units>>
       ELSE IF useC9 \/ units < ContFFValue
         THEN <<ContC9>> \o GapBytes[units - ContC9Value][FALSE]
         ELSE <<ContFF, 0>> \o GapBytes[units - ContFFValue][TRUE]]

EncodeGap(units) == GapBytes[units][TRUE]

(* The gap in front of the first watering, and that after the k-th.        *)
GapAfter(c, k) == IF k = 0 THEN c.lead ELSE c.events[k].gap

(* The loop of encode_schedule: what is written after k waterings.         *)
Written(c) ==
  LET out[k \in 0 .. Len(c.events)] ==
        (IF k = 0 THEN <<0>> ELSE Append(out[k - 1], c.events[k].duration))
          \o EncodeGap(GapAfter(c, k))
  IN  out

Encode(c) == Written(c)[Len(c.events)] \o Terminator

(* The checks of encode_schedule.                                          *)
TotalUnits(c) == FoldSeq(LAMBDA event, sum : event.gap + sum, c.lead, c.events)

Encodable(c) ==
  /\ c.events # <<>> => TotalUnits(c) = CycleUnits
  /\ \A k \in DOMAIN c.events : c.events[k].gap >= 0 /\ c.events[k].duration \in Byte
  /\ Len(Encode(c)) <= Room

-----------------------------------------------------------------------------
VARIABLES
  sent,     \* the chain that was encoded
  blob,     \* its bytes
  i,        \* index of the next byte, from 1
  acc,      \* the gap so far
  lead,     \* the leading gap, NoLead before it is known
  events,   \* the waterings so far
  done      \* the loop has ended

vars == <<sent, blob, i, acc, lead, events, done>>

NoLead == -1

Init ==
  /\ sent \in {c \in Chains : Encodable(c)}
  /\ blob = Encode(sent)
  /\ i = 2
  /\ acc = 0
  /\ lead = NoLead
  /\ events = <<>>
  /\ done = FALSE

AtEnd(k) == k >= Len(blob) \/ SubSeq(blob, k, k + 1) = Terminator

(* Mutant: a 0 continues a gap only behind 0xff.                           *)
IsContinuationOfFF(k) ==
  \/ blob[k] \in {ContC9, ContFF}
  \/ blob[k] = 0 /\ blob[k - 1] = ContFF

IsContinuation(k) ==
  \/ blob[k] \in {ContC9, ContFF}
  \/ blob[k] = 0 /\ blob[k - 1] \in {ContC9, ContFF}

ContValue(byte) ==
  CASE byte = ContC9 -> ContC9Value
    [] byte = ContFF -> ContFFValue
    [] OTHER -> 0

Continue ==
  /\ ~ done /\ ~ AtEnd(i)
  /\ IsContinuation(i)
  /\ acc' = acc + ContValue(blob[i])
  /\ i' = i + 1
  /\ UNCHANGED <<sent, blob, lead, events, done>>

(* The gap's last byte.  The first gap leads; any other belongs to the     *)
(* last watering.                                                          *)
WithGap(gap) ==
  IF lead = NoLead \/ events = <<>>
    THEN events ELSE [events EXCEPT ![Len(events)].gap = gap]

(* The byte behind a gap is a duration, unless the programme ends there.   *)
EndGap ==
  /\ ~ done /\ ~ AtEnd(i)
  /\ ~ IsContinuation(i)
  /\ lead' = IF lead = NoLead THEN acc + blob[i] ELSE lead
  /\ acc' = 0
  /\ IF AtEnd(i + 1)
       THEN /\ events' = WithGap(acc + blob[i])
            /\ i' = i + 1
       ELSE /\ events' = Append(WithGap(acc + blob[i]), [duration |-> blob[i + 1], gap |-> 0])
            /\ i' = i + 2
  /\ UNCHANGED <<sent, blob, done>>

Finish ==
  /\ ~ done /\ AtEnd(i)
  /\ done' = TRUE
  /\ lead' = IF lead = NoLead THEN 0 ELSE lead
  /\ UNCHANGED <<sent, blob, i, acc, events>>

Next == Continue \/ EndGap \/ Finish

Spec == Init /\ [][Next]_vars

-----------------------------------------------------------------------------
(* Properties                                                              *)

(* Every variable keeps its type; the decoder stays within the bytes.      *)
TypeOK ==
  /\ sent \in ChainSet
  /\ blob \in Seq(Byte) /\ Len(blob) <= Room
  /\ i \in 2 .. Len(blob)
  /\ acc \in Nat
  /\ lead \in Nat \cup {NoLead}
  /\ events \in Seq([duration : Byte, gap : Nat])
  /\ done \in BOOLEAN

(* The bytes that have two readings: a gap that ends in 0xc9 0x00, whose   *)
(* 0 reads as one more continuation; a gap of 0 behind a duration that     *)
(* looks like a continuation byte; a gap that ends in 0 before a duration  *)
(* of 204, which together read as the terminator.  The first two shift     *)
(* what follows by a byte, which shows unless only zeros follow.           *)
RunsOn(gap) == IsSuffix(<<ContC9, 0>>, EncodeGap(gap))

EndsInZero(gap) == Last(EncodeGap(gap)) = 0

OnlyZerosFollow(c, k) ==
  \A m \in k + 1 .. Len(c.events) : c.events[m] = [duration |-> 0, gap |-> 0]

AmbiguousAt(c, k) ==
  \/ RunsOn(GapAfter(c, k)) /\ (k = Len(c.events) \/ ~ OnlyZerosFollow(c, k))
  \/ /\ k > 0 /\ c.events[k].gap = 0 /\ c.events[k].duration \in {ContC9, ContFF}
     /\ ~ OnlyZerosFollow(c, k)
  \/ k < Len(c.events) /\ EndsInZero(GapAfter(c, k)) /\ c.events[k + 1].duration = 204

Ambiguous(c) == \E k \in 0 .. Len(c.events) : AmbiguousAt(c, k)

DecodesTo(c) == lead = c.lead /\ events = c.events

(* A programme is read back as it was meant unless it is ambiguous; then   *)
(* it is always misread, and nothing later in the chain makes up for it.   *)
MisreadExactlyIfAmbiguous == done => (DecodesTo(sent) <=> ~ Ambiguous(sent))

=============================================================================
