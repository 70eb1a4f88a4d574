----------------------------- MODULE CloudImport -----------------------------
(***************************************************************************)
(* Schedules taken over from the cloud (schedule.py: from_cloud_schedules, *)
(* to_config) and seeded from config.yaml (__main__.py:                    *)
(* schedules_from_config).  The cloud keeps a list of waterings for each   *)
(* weekday, in milliseconds; the server keeps one event for each time and  *)
(* duration, with the days it waters on.                                   *)
(***************************************************************************)
EXTENDS Integers, SequencesExt

CONSTANTS
  Payload   \* what the cloud's REST interface returned: see CloudSchedules

DAYS == {"mon", "tue", "wed", "thu", "fri", "sat", "sun"}

MinuteMs == 60000

DayMinutes == 1440

(* Python's None for a name.                                               *)
NoName == ""

DefaultName == "Default"

(* A watering as the server keeps it.  at is a minute of the day, and 0    *)
(* when the sun says the time.                                             *)
EventSet ==
  [mode : {"clock", "sunrise", "sunset"}, at : 0 .. DayMinutes - 1,
   duration_min : Nat, days : SUBSET DAYS, offset_min : Int]

ScheduleSet == [name : STRING, events : Seq(EventSet)]

(* A day the import cannot name has day "other".                           *)
CloudEvents == [startTime : Int, duration : Nat, enabled : BOOLEAN]

CloudDays == [day : DAYS \cup {"other"}, wateringEvents : Seq(CloudEvents)]

CloudSchedules == [name : STRING, scheduleID : STRING, scheduleDays : Seq(CloudDays)]

ASSUME PayloadAssumption == Payload \in Seq(CloudSchedules)

-----------------------------------------------------------------------------
(* Import                                                                  *)

(* round: to the nearest minute, ties to the even one.                     *)
Rounded(ms) ==
  LET whole == ms \div MinuteMs
      rest  == 2 * (ms % MinuteMs)
  IN  IF rest > MinuteMs \/ (rest = MinuteMs /\ whole % 2 = 1) THEN whole + 1 ELSE whole

(* Negative start times are sentinels.                                     *)
CLOUD_SOLAR == [ms \in {-2000, -1000} |-> IF ms = -2000 THEN "sunrise" ELSE "sunset"]

Importable(ms) == ms >= 0 \/ ms \in DOMAIN CLOUD_SOLAR

CloudTime(ms) ==
  IF ms \in DOMAIN CLOUD_SOLAR
    THEN [mode |-> CLOUD_SOLAR[ms], at |-> 0]
    ELSE [mode |-> "clock", at |-> Rounded(ms) % DayMinutes]

(* The waterings of a day that are switched on.                            *)
Enabled(day) == {e \in ToSet(day.wateringEvents) : e.enabled}

(* A watering is found by its day and its number in the day; they are read *)
(* in that order.                                                          *)
CloudEvent(sch, p) == sch.scheduleDays[p[1]].wateringEvents[p[2]]

ReadBefore(p, q) == p[1] < q[1] \/ (p[1] = q[1] /\ p[2] < q[2])

(* What the import reads: the waterings that are on, of the days it knows. *)
Entries(sch) ==
  {p \in UNION {{d} \X DOMAIN sch.scheduleDays[d].wateringEvents :
                  d \in DOMAIN sch.scheduleDays} :
     sch.scheduleDays[p[1]].day \in DAYS /\ CloudEvent(sch, p).enabled}

Time(sch, p) == CloudTime(CloudEvent(sch, p).startTime)

Minutes(sch, p) == Rounded(CloudEvent(sch, p).duration)

(* Mutant: waterings at one time are grouped whatever their durations.     *)
SameGroupByTime(sch, p, q) == Time(sch, p) = Time(sch, q)

(* Waterings that share their time and duration become one event.          *)
SameGroup(sch, p, q) ==
  Time(sch, p) = Time(sch, q) /\ Minutes(sch, p) = Minutes(sch, q)

Group(sch, p) == {q \in Entries(sch) : SameGroup(sch, q, p)}

(* An event is named by the first of its waterings.                        *)
Firsts(sch) == {p \in Entries(sch) : \A q \in Group(sch, p) : ~ ReadBefore(q, p)}

OrderHint(mode) == IF mode = "sunrise" THEN 6 * 60 ELSE 21 * 60

Order(time) == IF time.mode = "clock" THEN time.at ELSE OrderHint(time.mode)

(* The order of the export: by hour and duration, otherwise as read.       *)
Earlier(sch, p, q) ==
  LET a == Order(Time(sch, p))  b == Order(Time(sch, q))
      m == Minutes(sch, p)      n == Minutes(sch, q)
  IN  a < b \/ (a = b /\ (m < n \/ (m = n /\ ReadBefore(p, q))))

(* The event that stands behind k others.                                  *)
Ranked(sch, k) ==
  CHOOSE p \in Firsts(sch) : Cardinality({q \in Firsts(sch) : Earlier(sch, q, p)}) = k

EventOf(sch, p) ==
  [mode |-> Time(sch, p).mode, at |-> Time(sch, p).at, duration_min |-> Minutes(sch, p),
   days |-> {sch.scheduleDays[q[1]].day : q \in Group(sch, p)}, offset_min |-> 0]

Events(sch) ==
  [k \in 1 .. Cardinality(Firsts(sch)) |-> EventOf(sch, Ranked(sch, k - 1))]

(* An unknown sentinel stops the import.                                   *)
Imports(payload) ==
  \A s \in DOMAIN payload : \A d \in DOMAIN payload[s].scheduleDays :
    LET day == payload[s].scheduleDays[d]
    IN  day.day \in DAYS => \A e \in Enabled(day) : Importable(e.startTime)

FirstName(names) == LET given == SelectSeq(names, LAMBDA n : n # NoName)
                    IN  IF given = <<>> THEN "Schedule" ELSE Head(given)

FromCloud(payload) ==
  [s \in DOMAIN payload |->
     [name |-> FirstName(<<payload[s].name, payload[s].scheduleID>>),
      events |-> Events(payload[s])]]

-----------------------------------------------------------------------------
(* config.yaml                                                             *)

(* An event of config.yaml has its days only when they are not all seven.  *)
ToConfig(schedules) ==
  [s \in DOMAIN schedules |->
     [name |-> schedules[s].name,
      events |-> [k \in DOMAIN schedules[s].events |->
        LET e == schedules[s].events[k]
        IN  [event |-> [e EXCEPT !.days = {}],
             listed |-> IF e.days = DAYS THEN {} ELSE {e.days}]]]]

(* config.yaml as an import leaves it.                                     *)
ImportedConfig == [schedules |-> ToConfig(FromCloud(Payload)), schedule |-> <<>>]

(* An event waters every day unless the file lists its days.               *)
Seeded(c) ==
  [c.event EXCEPT !.days = IF c.listed = {} THEN DAYS ELSE CHOOSE d \in c.listed : TRUE]

SeededEvents(events) == [k \in DOMAIN events |-> Seeded(events[k])]

(* The schedules of config.yaml, or its older single schedule as one.      *)
SchedulesFromConfig(config) ==
  IF config.schedules = <<>>
    THEN <<[name |-> DefaultName, events |-> SeededEvents(config.schedule)]>>
    ELSE [s \in DOMAIN config.schedules |->
            [name |-> config.schedules[s].name,
             events |-> SeededEvents(config.schedules[s].events)]]

-----------------------------------------------------------------------------
(* Properties                                                              *)

(* What a schedule of the cloud waters on a day: time, offset and minutes. *)
CloudWaterings(sch, day) ==
  {<<CloudTime(e.startTime), 0, Rounded(e.duration)>> :
     e \in UNION {Enabled(sch.scheduleDays[d]) :
                    d \in {x \in DOMAIN sch.scheduleDays : sch.scheduleDays[x].day = day}}}

EventWaterings(schedule, day) ==
  {<<[mode |-> e.mode, at |-> e.at], e.offset_min, e.duration_min>> :
     e \in {x \in ToSet(schedule.events) : day \in x.days}}

(* Taking schedules over from the cloud by way of config.yaml keeps, for   *)
(* every schedule and weekday, exactly the waterings that were switched    *)
(* on; grouping, sorting and the days left out in the file change none.    *)
ImportKeepsWaterings ==
  Imports(Payload) =>
    LET seeded == SchedulesFromConfig(ImportedConfig)
    IN  \A s \in DOMAIN Payload : \A day \in DAYS :
          EventWaterings(seeded[s], day) = CloudWaterings(Payload[s], day)

=============================================================================
