------------------------------ MODULE MCEditing ------------------------------
(* A small instance of Editing, seeded by an import from the cloud.        *)
EXTENDS Editing

Watering(ms, minutes, on) ==
  [startTime |-> ms, duration |-> minutes * MinuteMs, enabled |-> on]

Daily(waterings) ==
  LET days == <<"mon", "tue", "wed", "thu", "fri", "sat", "sun">>
  IN  [k \in DOMAIN days |-> [day |-> days[k], wateringEvents |-> waterings]]

(* "home" waters at sunrise, longer on Sundays, where the clock time of    *)
(* one watering is half a minute off and another is listed twice; "away"   *)
(* is a schedule without a name, too long for a programme.                 *)
FromTheApp ==
  << [name |-> "home", scheduleID |-> "s1", scheduleDays |->
        <<[day |-> "sun", wateringEvents |->
             <<Watering(-2000, 30, TRUE), Watering(-2000, 30, TRUE),
               Watering(-1000, 30, FALSE)>>],
          [day |-> "other", wateringEvents |-> <<Watering(-3000, 5, TRUE)>>],
          [day |-> "mon", wateringEvents |->
             <<Watering(30000 + 360 * MinuteMs, 45, TRUE), Watering(-2000, 10, TRUE)>>],
          [day |-> "tue", wateringEvents |->
             <<Watering(360 * MinuteMs, 45, TRUE)>>]>>],
     [name |-> NoName, scheduleID |-> "away", scheduleDays |->
        Daily(<<Watering(1439 * MinuteMs + 30000, 20, TRUE), Watering(-1000, 20, TRUE)>>)] >>

Call(slot, mode, at, minutes) ==
  [slot |-> slot, mode |-> mode, at |-> at, minutes |-> minutes]

SomeCalls ==
  {Call(1, "clock", None, None), Call(1, NoMode, 420, None), Call(1, "sunset", None, None),
   Call(1, "unused", 2000, None), Call(3, NoMode, None, 255), Call(5, NoMode, None, 5),
   Call(2, NoMode, DayMinutes, None), Call(2, NoMode, None, 256)}

Evening(minutes, days) ==
  [mode |-> "sunset", at |-> 0, duration_min |-> minutes, days |-> days, offset_min |-> -20]

(* The second list has too many waterings, the third one too long; the     *)
(* others end too near to the end of the week, the last one by the sun and *)
(* only in the second week.                                                *)
Late(mode) ==
  <<[mode |-> mode, at |-> IF mode = "clock" THEN 1374 ELSE 0, duration_min |-> 30,
     days |-> {"tue", "sat"}, offset_min |-> 0]>>

SomeLists ==
  {<<>>, <<Evening(30, DAYS), Evening(30, {"mon", "wed"}), Evening(30, DAYS)>>,
   <<Evening(300, {"fri"})>>, Late("clock"), Late("sunset")}

LateLists == {<<Late("clock"), w>> : w \in Weeks} \cup {<<Late("sunset"), 2>>}

SomeAdjustments == {<<50, 1>>, <<0, 0>>, <<-50, 0>>}

(* By hand: only a name that is not defined; schedules of an older version *)
(* with no field for what is new, of which the first does not fit and the  *)
(* second has no name.                                                     *)
SomeFiles ==
  {Json([NoData EXCEPT !.active_schedule = {"gone"}]),
   Json([NoData EXCEPT
     !.schedules = {<<[name |-> "old", events |-> <<Evening(300, DAYS)>>],
                      [name |-> NoName, events |-> <<>>],
                      [name |-> "new", events |-> <<Evening(30, DAYS)>>]>>},
     !.active_schedule = {"new"},
     !.schedule_enabled = {FALSE}])}

=============================================================================
