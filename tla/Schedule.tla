------------------------------ MODULE Schedule ------------------------------
(***************************************************************************)
(* A schedule of waterings by clock or sun, resolved to the times of one   *)
(* clock week (schedule.py: resolve, Overlays.apply, scale_duration and    *)
(* the first half of build).  GapChain.tla makes the chain of it.          *)
(***************************************************************************)
EXTENDS GapChain, FiniteSets, FiniteSetsExt

CONSTANTS
  MinuteTicks,   \* ticks in a minute; astral's times are in microseconds
  Orders,        \* schedules with the overlays on them: see OrderSet
  Sun            \* sunrise and sunset of each day of the horizon

ASSUME MinuteAssumption == MinuteTicks \in Nat \ {0}

DayMinutes == 1440
DayTicks == DayMinutes * MinuteTicks
HorizonDays == 7

(* The clock week starts on a Saturday, late in the evening; the last day  *)
(* of the horizon is the one after the week.                               *)
EpochTicks == (22 * 60 + 55) * MinuteTicks
EpochWeekday == 5

Horizon == 0 .. HorizonDays

Weekday(day) == (EpochWeekday + day) % 7

(* Python's None for an end; time 0 is a moment of the week.               *)
Never == -1

(* An event waters by the clock, at minute at of the day, or by the sun.   *)
EventSet ==
  [mode : {"clock", "sunrise", "sunset"}, at : 0 .. DayMinutes - 1,
   days : SUBSET (0 .. 6), duration : Nat, offset : Int]

OrderSet ==
  [events : Seq(EventSet), pause_until : Int, adjust_until : Int, percent : Int]

ASSUME OrdersAssumption == Orders \subseteq OrderSet

(* CYCLE_UNITS units of GAP_UNIT_MIN minutes are the horizon.               *)
ASSUME WeekAssumption == WeekTicks = HorizonDays * DayTicks

ASSUME SunAssumption == Sun \in [{"sunrise", "sunset"} -> [Horizon -> 0 .. DayTicks - 1]]

-----------------------------------------------------------------------------
(* The time of day at which an event waters, before its offset.            *)
TimeOfDay(event, day) ==
  IF event.mode = "clock" THEN event.at * MinuteTicks ELSE Sun[event.mode][day]

When(event, day) ==
  day * DayTicks - EpochTicks + TimeOfDay(event, day) + event.offset * MinuteTicks

Matching(events, days) ==
  {p \in (DOMAIN events) \X days : Weekday(p[2]) \in events[p[1]].days}

(* A watering <<when, duration, event>> of every event on every day it     *)
(* waters on.                                                              *)
ResolveDays(events, days) ==
  {<<When(events[p[1]], p[2]), events[p[1]].duration, p[1]>> : p \in Matching(events, days)}

(* Mutant: the horizon ends with the seventh day.                          *)
ResolveSevenDays(events) == ResolveDays(events, 0 .. HorizonDays - 1)

Resolve(events) == ResolveDays(events, Horizon)

(* sorted: a watering stands behind those that are before it.              *)
Before(a, b) ==
  \/ a[1] < b[1]
  \/ a[1] = b[1] /\ a[2] < b[2]
  \/ a[1] = b[1] /\ a[2] = b[2] /\ a[3] < b[3]

Sorted(waterings) ==
  [k \in 1 .. Cardinality(waterings) |->
     CHOOSE w \in waterings : Cardinality({v \in waterings : Before(v, w)}) = k - 1]

(* Mutant: the scaled duration wraps in its byte.                          *)
ScaleAndWrap(duration, percent) == ((duration * (100 + percent) + 50) \div 100) % 256

(* scale_duration rounds to the nearest minute and stays within a byte.    *)
ScaleDuration(duration, percent) ==
  Max({0, Min({255, (duration * (100 + percent) + 50) \div 100})})

(* Overlays.apply.                                                         *)
Adjusts(o, when) == o.percent # 0 /\ o.adjust_until # Never /\ when < o.adjust_until

Unpaused(o, when) == o.pause_until = Never \/ when >= o.pause_until

(* The waterings in the week that are not paused.                          *)
Kept(o) ==
  {w \in Resolve(o.events) : w[1] >= 0 /\ w[1] < WeekTicks /\ Unpaused(o, w[1])}

(* What build makes the chain of; leaving waterings out keeps the others   *)
(* in order.                                                               *)
Firings(o) ==
  LET kept == Sorted(Kept(o))
  IN  [k \in DOMAIN kept |->
         [when |-> kept[k][1],
          duration |-> IF Adjusts(o, kept[k][1])
                         THEN ScaleDuration(kept[k][2], o.percent) ELSE kept[k][2]]]

-----------------------------------------------------------------------------
(* Properties of what the chain is made of                                 *)

(* What every order resolves to, and what it would without its adjustment. *)
Resolved == [o \in Orders |-> Firings(o)]

Unadjusted == [o \in Orders |-> Firings([o EXCEPT !.percent = 0])]

(* An event stays in its day of the clock week: its offset does not carry  *)
(* it over the start, nor does the sun in the week from the first evening   *)
(* to the last.                                                            *)
Steady(event) ==
  /\ \A day \in 1 .. HorizonDays - 1 : When(event, day) \in 0 .. WeekTicks - 1
  /\ When(event, 0) >= 0 <=> When(event, HorizonDays) >= WeekTicks

(* When in the clock week a steady event waters for its day: what stands   *)
(* after the end of the week waters in the evening the week starts with.   *)
WhenInWeek(event, day) ==
  IF day = HorizonDays /\ When(event, day) >= WeekTicks
    THEN When(event, 0) ELSE When(event, day)

DurationThen(o, event, when) ==
  IF Adjusts(o, when) THEN ScaleDuration(event.duration, o.percent) ELSE event.duration

(* The chain of a week without a pause waters every steady event on each   *)
(* of its days, once, at the time asked for as far as rounding allows and  *)
(* for the minutes asked for: those of the evening before the next week    *)
(* starts included.  This holds as long as no two waterings are so far     *)
(* apart that the second is pulled; one watering a day is pulled by more   *)
(* than seven hours a day, and two days go without.                        *)
EveryDayIsServed ==
  \A o \in Orders :
    /\ stage = "done" /\ o.pause_until = Never /\ asked = Resolved[o]
    /\ \A k \in DOMAIN o.events : Steady(o.events[k])
    /\ CloseTogether
    => LET week == Matching(o.events, 1 .. HorizonDays)
       IN  /\ Len(chain) = Cardinality(week)
           /\ \A p \in week :
                LET event == o.events[p[1]]
                    when == WhenInWeek(event, p[2])
                IN  \E j \in 1 .. Len(chain) :
                      /\ Near(chain[j].start, when, j)
                      /\ chain[j].duration = DurationThen(o, event, when)

(* An adjustment lengthens or shortens as its percentage says, and the     *)
(* result fits a byte if the schedule does.                                *)
AdjustedTheRightWay ==
  \A o \in Orders : asked = Resolved[o] =>
    LET plain == Unadjusted[o]
    IN  /\ Len(plain) = n
        /\ \A k \in 1 .. n :
             /\ plain[k].duration <= 255 => asked[k].duration <= 255
             /\ o.percent <= 0 => asked[k].duration <= plain[k].duration
             /\ o.percent >= 0 /\ plain[k].duration <= 255
                  => asked[k].duration >= plain[k].duration

=============================================================================
