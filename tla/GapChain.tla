------------------------------ MODULE GapChain ------------------------------
(***************************************************************************)
(* From the waterings of a week to the chain of gaps and durations the hub *)
(* repeats (schedule.py: clamp_gaps and build).  The hub knows no times: it *)
(* waits for a number of units of five minutes, waters, and waits again    *)
(* for CycleUnits units in all.  Times are counted in ticks from the start *)
(* of the clock week; the sun keeps to no minute.                          *)
(*                                                                         *)
(* One step is one turn of a loop of the code: first clamp_gaps pulls      *)
(* waterings closer together, then build turns distances into gaps, then   *)
(* the last gap takes what rounding has lost.                              *)
(***************************************************************************)
EXTENDS Integers, Sequences

CONSTANTS
  GapUnit,       \* ticks in a unit
  CycleUnits,    \* units in a week
  MaxGapUnits,   \* the longest gap clamp_gaps leaves
  FiringLists    \* the waterings of a week, as Overlays.apply returns them

ASSUME GapUnitAssumption == GapUnit \in Nat \ {0}

ASSUME CycleAssumption == CycleUnits \in Nat /\ MaxGapUnits \in Nat \ {0}

WeekTicks == GapUnit * CycleUnits

Firing == [when : 0 .. WeekTicks - 1, duration : Nat]

(* resolve returns sorted(out), and build keeps what falls in the week.    *)
ASSUME FiringListsAssumption ==
  /\ FiringLists \subseteq Seq(Firing)
  /\ \A f \in FiringLists : \A i, j \in 1 .. Len(f) : i < j => f[i].when <= f[j].when

VARIABLES
  asked,     \* the waterings as the schedule puts them
  firings,   \* the waterings as clamp_gaps leaves them
  stage,     \* "clamp", "gaps" or "done"
  i,         \* the loop variable of the stage
  lead,      \* units before the first watering
  chain      \* what is built so far; start is the hub's clock, in units

vars == <<asked, firings, stage, i, lead, chain>>

n == Len(asked)

(* Mutant: whole units only.                                               *)
ToUnitsDown(ticks) == ticks \div GapUnit

(* Halfway between two units.                                              *)
Tied(ticks) == 2 * (ticks % GapUnit) = GapUnit

(* _to_units: to the nearest unit, and to the even one of two as near.     *)
ToUnits(ticks) ==
  LET whole == ticks \div GapUnit
      up == 2 * (ticks % GapUnit) > GapUnit \/ (Tied(ticks) /\ whole % 2 = 1)
  IN  IF up THEN whole + 1 ELSE whole

(* Where the gap after the k-th watering ends.                             *)
GapEnd(k) == IF k < n THEN firings[k + 1].when ELSE WeekTicks

(* Mutant: the excess is taken of the times asked for, not of those pulled. *)
OverAsAsked(k) ==
  ToUnits((IF k < n THEN asked[k + 1].when ELSE WeekTicks) - asked[k].when) - MaxGapUnits

(* How many units the gap after the k-th watering is too long.             *)
Over(k) == ToUnits(GapEnd(k) - firings[k].when) - MaxGapUnits

-----------------------------------------------------------------------------
Init ==
  /\ asked \in FiringLists
  /\ firings = asked
  /\ stage = IF n = 0 THEN "done" ELSE "clamp"
  /\ i = 1
  /\ lead = 0
  /\ chain = <<>>

(* Mutant: the next watering is put at MaxGapUnits whatever the gap is.    *)
PullAlways ==
  /\ stage = "clamp" /\ i < n
  /\ firings' = [firings EXCEPT ![i + 1].when = @ - Over(i) * GapUnit]
  /\ i' = i + 1
  /\ UNCHANGED <<asked, stage, lead, chain>>

(* clamp_gaps: the next watering is pulled earlier.                        *)
Pull ==
  /\ stage = "clamp" /\ i < n
  /\ Over(i) > 0
  /\ firings' = [firings EXCEPT ![i + 1].when = @ - Over(i) * GapUnit]
  /\ i' = i + 1
  /\ UNCHANGED <<asked, stage, lead, chain>>

(* The gap is short enough, or it is the last: nothing is pulled.          *)
Keep ==
  /\ stage = "clamp" /\ i <= n
  /\ Over(i) <= 0 \/ i = n
  /\ i' = i + 1
  /\ UNCHANGED <<asked, firings, stage, lead, chain>>

(* build: the gap in front of the first watering.                          *)
Lead ==
  /\ stage = "clamp" /\ i > n
  /\ stage' = "gaps"
  /\ i' = 1
  /\ lead' = ToUnits(firings[1].when)
  /\ UNCHANGED <<asked, firings, chain>>

(* The units counted so far.                                               *)
Total == IF chain = <<>> THEN lead ELSE chain[Len(chain)].start + chain[Len(chain)].gap

Gap ==
  /\ stage = "gaps" /\ i <= n
  /\ chain' = Append(chain, [duration |-> firings[i].duration, start |-> Total,
                             gap |-> ToUnits(GapEnd(i) - firings[i].when)])
  /\ i' = i + 1
  /\ UNCHANGED <<asked, firings, stage, lead>>

(* Mutant: the drift is worked out without the gap in front.               *)
CloseWithoutLead ==
  /\ stage = "gaps" /\ i > n
  /\ chain' = [chain EXCEPT ![n].gap = @ + (CycleUnits - (Total - lead))]
  /\ stage' = "done"
  /\ UNCHANGED <<asked, firings, i, lead>>

(* The last gap absorbs the drift.                                         *)
Close ==
  /\ stage = "gaps" /\ i > n
  /\ chain' = [chain EXCEPT ![n].gap = @ + (CycleUnits - Total)]
  /\ stage' = "done"
  /\ UNCHANGED <<asked, firings, i, lead>>

Next == Pull \/ Keep \/ Lead \/ Gap \/ Close

Spec == Init /\ [][Next]_vars

-----------------------------------------------------------------------------
(* Properties                                                              *)

(* Every variable keeps its type; a pulled watering is still in the week.  *)
TypeOK ==
  /\ asked \in FiringLists
  /\ firings \in Seq(Firing) /\ Len(firings) = n
  /\ stage \in {"clamp", "gaps", "done"}
  /\ i \in 1 .. n + 1
  /\ lead \in 0 .. CycleUnits
  /\ chain \in Seq([duration : Nat, start : Int, gap : Int])
  /\ Len(chain) <= n

(* clamp_gaps keeps the waterings in order and never makes one later, so   *)
(* no gap runs backwards.                                                  *)
PulledInOrder ==
  /\ \A j, k \in 1 .. n : j < k => firings[j].when <= firings[k].when
  /\ \A k \in 1 .. n : firings[k].when <= asked[k].when
  /\ n > 0 => firings[1] = asked[1]

(* Between two waterings the hub never waits longer than MaxGapUnits, so   *)
(* their gap is one byte; but a distance halfway between two units, which  *)
(* only the sun can leave, may round to one unit more after it was pulled. *)
InnerGapsAreShort ==
  \A k \in 1 .. Len(chain) : k < n =>
    \/ chain[k].gap \in 0 .. MaxGapUnits
    \/ chain[k].gap = MaxGapUnits + 1 /\ Tied(GapEnd(k) - firings[k].when)

(* units is as good as ticks, give or take so many half units.             *)
Near(units, ticks, halves) ==
  /\ 2 * (GapUnit * units) <= 2 * ticks + GapUnit * halves
  /\ 2 * ticks <= 2 * (GapUnit * units) + GapUnit * halves

(* Rounding each gap by itself moves the k-th watering by no more than k   *)
(* half units.                                                             *)
RoundingIsBounded ==
  \A k \in 1 .. Len(chain) : Near(chain[k].start, firings[k].when, k)

(* The last gap takes what rounding has lost: with it the hub repeats a    *)
(* week exactly, and it is the rest of the week still, give or take half a *)
(* unit for each watering.  So it is negative, and encode_gap raises for   *)
(* it, only if the last watering is that near to the end of the week.      *)
LastGapIsTheRest ==
  stage = "done" /\ n > 0 =>
    /\ chain[n].start + chain[n].gap = CycleUnits
    /\ Near(chain[n].gap, WeekTicks - firings[n].when, n)
    /\ chain[n].gap < 0 => 2 * (WeekTicks - firings[n].when) <= GapUnit * (n - 2)

(* Waterings no further apart than a byte reaches are not pulled.          *)
CloseTogether ==
  \A k \in 1 .. n - 1 : ToUnits(asked[k + 1].when - asked[k].when) <= MaxGapUnits

Unpulled == CloseTogether => firings = asked

(* What holds between two turns of a loop: where the loop is, what         *)
(* clamp_gaps has seen, and what build has counted.                        *)
Progress ==
  /\ n = 0 => stage = "done"
  /\ stage = "clamp" => chain = <<>>
  /\ stage = "gaps" => Len(chain) = i - 1
  /\ stage # "clamp" /\ n > 0 => lead = ToUnits(firings[1].when)

Clamped ==
  \A k \in 1 .. n - 1 : stage # "clamp" \/ k < i =>
    Over(k) <= 0 \/ (Over(k) = 1 /\ Tied(GapEnd(k) - firings[k].when))

Counted ==
  /\ \A k \in 1 .. Len(chain) :
       /\ chain[k].duration = firings[k].duration
       /\ k < n => chain[k].gap = ToUnits(GapEnd(k) - firings[k].when)
  /\ stage = "gaps" => Near(Total, IF i <= n THEN firings[i].when ELSE WeekTicks, i)

(* Each watering starts where the gap before it ends, and the last gap     *)
(* ends with the week.                                                     *)
Joined ==
  /\ \A k \in 1 .. Len(chain) - 1 : chain[k + 1].start = chain[k].start + chain[k].gap
  /\ chain # <<>> => chain[1].start = lead
  /\ stage = "done" /\ n > 0 => Len(chain) = n /\ chain[n].start + chain[n].gap = CycleUnits

IInv ==
  TypeOK /\ PulledInOrder /\ Unpulled /\ Joined /\ RoundingIsBounded
    /\ Progress /\ Clamped /\ Counted

=============================================================================
