----------------------------- MODULE MCSchedule -----------------------------
(* Schedules resolved in a week of late spring, to the second.             *)
EXTENDS Schedule

Seconds(hours, minutes, seconds) == (hours * 60 + minutes) * 60 + seconds

(* The days draw out by four minutes and a quarter.  On the third the      *)
(* sun is up for 200 units and a half, so that the gap is tied.            *)
Spring ==
  [sunrise |-> [d \in Horizon |-> Seconds(4, 40, 20) - 128 * d],
   sunset |-> [d \in Horizon |-> Seconds(21, 14, 18) + 128 * d]]

Clock(minute, days) ==
  [mode |-> "clock", at |-> minute, days |-> days, duration |-> 45, offset |-> 0]

Solar(mode, offset) ==
  [mode |-> mode, at |-> 0, days |-> 0 .. 6, duration |-> 60, offset |-> offset]

Weekly == 0 .. 6

(* Waterings next to the start of the clock week, at the same minute,      *)
(* minutes apart, once, twice, thrice and four times a day; one that       *)
(* crosses the start of the week as the days draw out; and one so late in  *)
(* the week, after gaps that all round up, that the last gap is negative.  *)
SomeEvents ==
  {<<>>,
   <<Clock(360, {1})>>,
   <<Clock(360, Weekly)>>,
   <<Clock(1375, Weekly)>>,
   <<Clock(1374, {5}), Clock(1375, {5})>>,
   <<Clock(360, {0, 3}), Solar("sunset", -15)>>,
   <<Solar("sunrise", 0), Solar("sunset", 0)>>,
   <<Clock(360, Weekly), Clock(1260, Weekly)>>,
   <<Clock(720, Weekly), Clock(1375, Weekly)>>,
   <<Clock(600, Weekly), Clock(600, {5, 6}), Clock(603, Weekly)>>,
   <<Clock(360, Weekly), Clock(723, Weekly), Clock(1086, Weekly)>>,
   <<Clock(360, Weekly), Clock(723, Weekly), Clock(1086, Weekly), Clock(1374, Weekly)>>,
   <<Solar("sunset", 95)>>}

NoOverlay == [pause_until |-> Never, percent |-> 0, adjust_until |-> Never]

SomeOverlays ==
  {NoOverlay,
   [NoOverlay EXCEPT !.pause_until = 180000],
   [pause_until |-> 90000, percent |-> -60, adjust_until |-> 240000],
   [NoOverlay EXCEPT !.percent = 90, !.adjust_until = 360000],
   [NoOverlay EXCEPT !.percent = 400, !.adjust_until = 360000]}

Order(events, o) ==
  [events |-> events, pause_until |-> o.pause_until, percent |-> o.percent,
   adjust_until |-> o.adjust_until]

SomeOrders == {Order(e, o) : e \in SomeEvents, o \in SomeOverlays}

SomeFirings == {Firings(o) : o \in SomeOrders}

=============================================================================
