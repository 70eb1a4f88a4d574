----------------------------- MODULE Programme ------------------------------
(***************************************************************************)
(* What the server puts in a programme (schedule.py, state.py), with time  *)
(* counted in watering opportunities.  A clock week has SlotsPerWeek       *)
(* slots; time t is the moment just before the slot t % SlotsPerWeek of    *)
(* week t \div SlotsPerWeek.  An event list is the set of slots it waters  *)
(* in, and a programme is the set of waterings the hub repeats every week. *)
(* Solar times are resolved against the dates of one week, so a watering   *)
(* remembers the week it was computed for.                                 *)
(***************************************************************************)
EXTENDS Integers, FiniteSets, FiniteSetsExt

CONSTANTS
  SlotsPerWeek,   \* waterings a week can hold
  Capacity,       \* waterings that fit in the 218 bytes of a programme
  Overrun         \* the weeks' waterings whose gaps, rounded, leave a negative
                  \* one at the end: sets of times

ASSUME SlotsAssumption == SlotsPerWeek \in Nat \ {0}
ASSUME CapacityAssumption == Capacity \in Nat
ASSUME OverrunAssumption == Overrun \subseteq SUBSET Nat

(* Python's None for a time; the clock starts after it.                    *)
NoTime == 0

Slots == 0 .. SlotsPerWeek - 1

EventLists == SUBSET Slots

OverlaySet == [pause_until : Nat, adjust_until : Nat]

NoOverlays == [pause_until |-> NoTime, adjust_until |-> NoTime]

WateringSet == [slot : Slots, week : Nat, adjusted : BOOLEAN]

Week(t) == t \div SlotsPerWeek

(* The slots of week w, as times.                                          *)
Horizon(w) == w * SlotsPerWeek .. w * SlotsPerWeek + SlotsPerWeek - 1

(* A watering that starts before pause_until is dropped, so a set of       *)
(* times keeps those the pause leaves.                                     *)
Unpaused(times, events, overlays) ==
  {t \in times : t % SlotsPerWeek \in events /\ t >= overlays.pause_until}

(* The programme for week w.                                               *)
Build(events, overlays, w) ==
  {[slot |-> t % SlotsPerWeek, week |-> w,
    adjusted |-> t < overlays.adjust_until] :
      t \in Unpaused(Horizon(w), events, overlays)}

(* encode_schedule raises: the programme is too long, or rounding has      *)
(* taken more than the last gap holds, which depends on the week the sun   *)
(* is asked about.  The trial build that guards an edit asks the same.     *)
Rejects(events, overlays, w) ==
  LET times == Unpaused(Horizon(w), events, overlays)
  IN  Cardinality(times) > Capacity \/ times \in Overrun

(* The first watering from now on.  The search covers eight days, so a     *)
(* slot that is due now is also seen a week ahead.                         *)
NextWatering(enabled, events, overlays, now) ==
  LET due == Unpaused(now .. now + SlotsPerWeek, events, overlays)
  IN  IF enabled /\ due # {} THEN Min(due) ELSE NoTime

(* The overlays that have lapsed at time now are dropped.                  *)
Lapsed(until, now) == until # NoTime /\ now >= until

AnyLapsed(overlays, now) ==
  Lapsed(overlays.pause_until, now) \/ Lapsed(overlays.adjust_until, now)

Expire(overlays, now) ==
  [pause_until  |-> IF Lapsed(overlays.pause_until, now)
                      THEN NoTime ELSE overlays.pause_until,
   adjust_until |-> IF Lapsed(overlays.adjust_until, now)
                      THEN NoTime ELSE overlays.adjust_until]

=============================================================================
