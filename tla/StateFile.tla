------------------------------ MODULE StateFile ------------------------------
(***************************************************************************)
(* What survives the process: state.json (persist.py), and the settings a  *)
(* start makes of it, of config.yaml, or of what is missing in either      *)
(* (__main__.py: load; state.py: HubState.__init__).                       *)
(***************************************************************************)
EXTENDS CloudImport

CONSTANTS
  Config,         \* the schedules in config.yaml: see SchedulesFromConfig
  ConfigActive    \* its active_schedule; NoName when absent

(* An event of config.yaml lists its days, or does not.                    *)
ConfigEvents == [event : EventSet, listed : SUBSET SUBSET DAYS]

ConfigSet ==
  [schedules : Seq([name : STRING, events : Seq(ConfigEvents)]), schedule : Seq(ConfigEvents)]

(* The names the program makes up.  TLA+ knows that a literal is a string, *)
(* but its provers do not.                                                 *)
ASSUME LiteralAssumption == {NoName, DefaultName} \subseteq STRING

ASSUME ConfigAssumption == Config \in ConfigSet /\ ConfigActive \in STRING

(* Python's None for a time.                                               *)
NoTime == 0

SettingsSet ==
  [schedules : Seq(ScheduleSet), active_schedule : STRING,
   schedule_enabled : BOOLEAN, pause_until : Nat,
   adjust_percent : Int, adjust_until : Nat]

Names(schedules) == {schedules[s].name : s \in DOMAIN schedules}

(* _find: the first schedule of that name.                                 *)
Find(schedules, name) ==
  CHOOSE s \in DOMAIN schedules :
    /\ schedules[s].name = name
    /\ \A r \in DOMAIN schedules : schedules[r].name = name => s <= r

(* active falls back on the first schedule.                                *)
ActiveIndex(settings) ==
  IF settings.active_schedule \in Names(settings.schedules)
    THEN Find(settings.schedules, settings.active_schedule) ELSE 1

ActiveEvents(settings) == settings.schedules[ActiveIndex(settings)].events

-----------------------------------------------------------------------------
(* A field of the file is a set of at most one value: a file written by    *)
(* hand, or by an older version, may lack it.                              *)
Snapshot(settings) ==
  [schedules |-> {settings.schedules},
   active_schedule |-> {settings.active_schedule},
   schedule_enabled |-> {settings.schedule_enabled},
   pause_until |-> {settings.pause_until},
   adjust_percent |-> {settings.adjust_percent},
   adjust_until |-> {settings.adjust_until}]

Get(field, default) == IF field = {} THEN default ELSE CHOOSE v \in field : TRUE

Parse(data) ==
  [schedules |-> Get(data.schedules, <<>>),
   active_schedule |-> Get(data.active_schedule, NoName),
   schedule_enabled |-> Get(data.schedule_enabled, TRUE),
   pause_until |-> Get(data.pause_until, NoTime),
   adjust_percent |-> Get(data.adjust_percent, 0),
   adjust_until |-> Get(data.adjust_until, NoTime)]

NoData == [schedules |-> {}, active_schedule |-> {}, schedule_enabled |-> {},
           pause_until |-> {}, adjust_percent |-> {}, adjust_until |-> {}]

(* Absent, unreadable, or JSON of the right shape.                         *)
Absent == [kind |-> "absent", data |-> NoData]
Unreadable == [kind |-> "unreadable", data |-> NoData]
Json(data) == [kind |-> "json", data |-> data]

FileSet == {Absent, Unreadable} \cup
  [kind : {"json"},
   data : [schedules : SUBSET Seq(ScheduleSet), active_schedule : SUBSET STRING,
           schedule_enabled : SUBSET BOOLEAN, pause_until : SUBSET Nat,
           adjust_percent : SUBSET Int, adjust_until : SUBSET Nat]]

Seed ==
  [schedules |-> SchedulesFromConfig(Config), active_schedule |-> ConfigActive,
   schedule_enabled |-> TRUE, pause_until |-> NoTime,
   adjust_percent |-> 0, adjust_until |-> NoTime]

(* Mutant: the name of the active schedule is taken as it comes.           *)
ConstructedAsNamed(s) ==
  [s EXCEPT !.schedules =
     IF @ = <<>> THEN <<[name |-> DefaultName, events |-> <<>>]>> ELSE @]

(* HubState.__init__: there is a schedule, and the active one is defined.  *)
(* An empty name counts as none, also when a schedule has it.              *)
Constructed(s) ==
  LET schedules == IF s.schedules = <<>>
                     THEN <<[name |-> DefaultName, events |-> <<>>]>> ELSE s.schedules
  IN  [s EXCEPT !.schedules = schedules,
                !.active_schedule = IF @ # NoName /\ @ \in Names(schedules) THEN @
                                    ELSE schedules[1].name]

(* A file that cannot be read counts as none.                              *)
IsSeeded(file) == file.kind = "json"

Load(file) == Constructed(IF IsSeeded(file) THEN Parse(file.data) ELSE Seed)

=============================================================================
