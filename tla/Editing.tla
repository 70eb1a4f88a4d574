------------------------------- MODULE Editing -------------------------------
(***************************************************************************)
(* Schedules as users edit them (state.py), slot by slot, and what a crash *)
(* leaves of their edits (persist.py).                                     *)
(*                                                                         *)
(* The user interface, the refresher and the MQTT thread change one        *)
(* HubState, each on a thread of its own and none waiting for another.  An *)
(* edit is tried by building its programme and, if that works, committed;  *)
(* then its thread writes a snapshot of all settings, whoever made them,   *)
(* to a temporary file and renames that.  select_schedule makes the new    *)
(* schedule active before it tries it.  Programmes are counted in          *)
(* waterings; overlays begin and end with a week.                          *)
(***************************************************************************)
EXTENDS StateFile, FiniteSets

CONSTANTS
  Calls,        \* the set_event messages of the user interface: see CallSet
  Lists,        \* the event lists set_schedule is called with
  PauseWeeks,   \* lengths of a pause; 0 cancels
  Adjustments,  \* percentages and weeks of adjustments; 0 percent cancels
  Tampered,     \* files people put in the place of state.json
  Capacity,     \* waterings a programme holds
  Overrun,      \* lists and weeks whose rounding exceeds the last gap
  MaxEvents,    \* bound: edits, failed saves and changed files together
  MaxWeek       \* bound: the last week modelled

None == -1
NoMode == ""
SixOClock == 6 * 60
MaxDuration == 255

Weeks == 1 .. MaxWeek

(* load saves the seed before the other threads are started.               *)
Threads == {"load", "ui", "mqtt", "refresher"}

(* A message sets a slot's mode, time or minutes; a time that is not one   *)
(* of the day stands for everything the checks of the time refuse.         *)
CallSet ==
  [slot : Nat \ {0}, mode : STRING, at : Nat \cup {None}, minutes : Nat \cup {None}]

ASSUME CallsAssumption == Calls \subseteq CallSet
ASSUME ListsAssumption == Lists \subseteq Seq(EventSet)
ASSUME WeeksAssumption == PauseWeeks \subseteq Nat /\ Adjustments \subseteq Int \X Nat
ASSUME TamperedAssumption == Tampered \subseteq FileSet
ASSUME BoundsAssumption ==
  Capacity \in Nat /\ MaxEvents \in Nat /\ MaxWeek \in Nat \ {0}

(* Sunrise and sunset: what depends on the week.                           *)
Solar == {"sunrise", "sunset"}

HasSun(list) == \E k \in DOMAIN list : list[k].mode \in Solar

ASSUME OverrunAssumption ==
  /\ Overrun \subseteq Seq(EventSet) \X Weeks
  /\ \A p \in Overrun : ~ HasSun(p[1]) => {p[1]} \X Weeks \subseteq Overrun

VARIABLES
  up,         \* the server is running
  week,       \* the clock
  settings,   \* HubState: schedules, active_schedule, schedule_enabled, overlays
  previous,   \* select_schedule's local while a trial is on: the old name
  file,       \* state.json
  unsaved,    \* threads that have committed and not yet written a snapshot
  temp,       \* the snapshot in each thread's temporary file, before renaming
  recent,     \* history: settings with no edit that was refused, from the
              \* newest on that a crash cannot cost to those in force
  taken,      \* history: which of recent each thread's snapshot is of
  caught,     \* history: whose snapshots were made while a trial was on
  untried,    \* history: active lists that no trial has seen whole
  tampered,   \* history: people changed the file since the last start
  events      \* bound: edits, failed saves and changed files so far

history == <<recent, taken, caught, untried, tampered>>
vars == <<up, week, settings, previous, file, unsaved, temp, history, events>>

-----------------------------------------------------------------------------
(* set_event                                                               *)

(* A new slot waters for no minutes at all, but it is served.              *)
Blank == [mode |-> "clock", at |-> SixOClock, duration_min |-> 0, days |-> DAYS,
          offset_min |-> 0]

(* Mutant: new slots come with the minutes of a watering.                  *)
PaddedToWater(list, slot) ==
  list \o [k \in 1 .. (IF slot > Len(list) THEN slot - Len(list) ELSE 0) |->
             [Blank EXCEPT !.duration_min = 45]]

Padded(list, slot) ==
  list \o [k \in 1 .. (IF slot > Len(list) THEN slot - Len(list) ELSE 0) |-> Blank]

(* Mutant: every message with mode clock sets the time.                    *)
WithModeAlways(e, c) ==
  IF c.mode \in Solar THEN [e EXCEPT !.mode = c.mode, !.at = 0]
  ELSE IF c.mode = "clock"
    THEN [e EXCEPT !.mode = "clock", !.at = IF c.at = None THEN SixOClock ELSE c.at]
    ELSE e

(* A switch from the sun to the clock takes the time of the same message.  *)
WithMode(e, c) ==
  IF c.mode \in Solar THEN [e EXCEPT !.mode = c.mode, !.at = 0]
  ELSE IF c.mode = "clock" /\ e.mode \in Solar
    THEN [e EXCEPT !.mode = "clock", !.at = IF c.at = None THEN SixOClock ELSE c.at]
    ELSE e

(* A time for a slot of the sun is dropped.                                *)
WithTime(e, c) == IF c.at = None \/ e.mode \in Solar THEN e ELSE [e EXCEPT !.at = c.at]

WithMinutes(e, c) == IF c.minutes = None THEN e ELSE [e EXCEPT !.duration_min = c.minutes]

Malformed(c) ==
  \/ c.mode \notin Solar \cup {NoMode, "unused", "clock"}
  \/ c.mode # "unused" /\ (c.at >= DayMinutes \/ c.minutes > MaxDuration)

(* The list after message c; an unused slot closes up.                     *)
Edited(list, c) ==
  LET slots == Padded(list, c.slot)
  IN  IF c.mode = "unused"
        THEN RemoveAt(slots, c.slot)
        ELSE [slots EXCEPT ![c.slot] = WithMinutes(WithTime(WithMode(@, c), c), c)]

-----------------------------------------------------------------------------
(* The trial                                                               *)

Waterings(list) == FoldLeft(LAMBDA sum, e : sum + Cardinality(e.days), 0, list)

(* Overlays: a pause hides every watering of the weeks before its end, and *)
(* an adjusted duration is cut to what a byte carries.                     *)
Paused(s, w) == w < s.pause_until

Adjusting(s, w) == s.adjust_percent # 0 /\ w < s.adjust_until

(* build and encode_schedule return: the waterings fit, each for a byte,   *)
(* and the last gap is not negative.                                       *)
Fits(list, s, w) ==
  /\ Waterings(list) <= Capacity
  /\ Adjusting(s, w) \/ \A k \in DOMAIN list : list[k].duration_min <= MaxDuration
  /\ <<list, w>> \notin Overrun

(* _rejects list under the overlays of s.                                  *)
Rejects(list, s) == ~ Paused(s, week) /\ ~ Fits(list, s, week)

(* schedule_blob raises.                                                   *)
Unservable == settings.schedule_enabled /\ Rejects(ActiveEvents(settings), settings)

-----------------------------------------------------------------------------
(* Saving                                                                  *)

Saving == {t \in Threads : temp[t] # {}}

(* Mutant: the file is written in place, so a crash leaves part of it.     *)
SaveInPlace(t) ==
  /\ t \in unsaved
  /\ unsaved' = unsaved \ {t}
  /\ temp' = [temp EXCEPT ![t] = {Snapshot(settings)}]
  /\ file' = Unreadable
  /\ taken' = [taken EXCEPT ![t] = Len(recent)]
  /\ caught' = (caught \ {t}) \cup (IF previous = {} THEN {} ELSE {t})
  /\ untried' = untried \cup (IF previous = {} THEN {} ELSE {ActiveEvents(settings)})
  /\ UNCHANGED <<up, week, settings, previous, recent, tampered, events>>

(* Mutant: the end of the adjustment is left out of the snapshot.          *)
SaveWithoutEnd(t) ==
  /\ t \in unsaved
  /\ unsaved' = unsaved \ {t}
  /\ temp' = [temp EXCEPT ![t] = {[Snapshot(settings) EXCEPT !.adjust_until = {}]}]
  /\ taken' = [taken EXCEPT ![t] = Len(recent)]
  /\ caught' = (caught \ {t}) \cup (IF previous = {} THEN {} ELSE {t})
  /\ untried' = untried \cup (IF previous = {} THEN {} ELSE {ActiveEvents(settings)})
  /\ UNCHANGED <<up, week, settings, previous, file, recent, tampered, events>>

(* save: a snapshot of what is in force now goes to a temporary file; the  *)
(* candidate of a trial that is on goes with it.                           *)
Save(t) ==
  /\ t \in unsaved
  /\ unsaved' = unsaved \ {t}
  /\ temp' = [temp EXCEPT ![t] = {Snapshot(settings)}]
  /\ taken' = [taken EXCEPT ![t] = Len(recent)]
  /\ caught' = (caught \ {t}) \cup (IF previous = {} THEN {} ELSE {t})
  /\ untried' = untried \cup (IF previous = {} THEN {} ELSE {ActiveEvents(settings)})
  /\ UNCHANGED <<up, week, settings, previous, file, recent, tampered, events>>

(* The oldest snapshot that is in the file or may still get there.         *)
Oldest == CHOOSE v \in {taken[t] : t \in Saving} : \A t \in Saving : v <= taken[t]

(* The temporary file takes the place of state.json, be it the older one.  *)
Rename(t) ==
  /\ temp[t] # {}
  /\ file' = Json(CHOOSE d \in temp[t] : TRUE)
  /\ temp' = [temp EXCEPT ![t] = {}]
  /\ recent' = SubSeq(recent, Oldest, Len(recent))
  /\ taken' = [u \in Threads |-> IF temp'[u] = {} THEN 1 ELSE taken[u] - (Oldest - 1)]
  /\ caught' = (caught \ {t, "file"}) \cup (IF t \in caught THEN {"file"} ELSE {})
  /\ UNCHANGED <<up, week, settings, previous, unsaved, untried, tampered, events>>

Bounded == events < MaxEvents /\ events' = events + 1

(* The disk refuses; the temporary file is removed, the error logged.      *)
SaveFails(t) ==
  /\ temp[t] # {}
  /\ Bounded
  /\ temp' = [temp EXCEPT ![t] = {}]
  /\ taken' = [taken EXCEPT ![t] = 1]
  /\ caught' = caught \ {t}
  /\ UNCHANGED <<up, week, settings, previous, file, unsaved, recent, untried, tampered>>

-----------------------------------------------------------------------------
(* Edits                                                                   *)

Init ==
  /\ up = FALSE
  /\ week = 1
  /\ settings = Load(Absent)
  /\ previous = {}
  /\ file \in {Absent} \cup Tampered
  /\ unsaved = {} /\ temp = [t \in Threads |-> {}]
  /\ recent = <<settings>> /\ taken = [t \in Threads |-> 1]
  /\ caught = {} /\ untried = {} /\ tampered = TRUE
  /\ events = 0

(* Thread t is there and has ended its last save.                          *)
Idle(t) == up /\ \A u \in {t, "load"} : u \notin unsaved /\ temp[u] = {}

(* The settings without a trial that is on.                                *)
Undo(s, trial) ==
  [s EXCEPT !.active_schedule = IF trial = {} THEN @ ELSE CHOOSE n \in trial : TRUE]

accepted == recent[Len(recent)]

(* A new list is untried if overlays hid part of it.                       *)
Unseen(s) ==
  /\ Paused(s, week) \/ Adjusting(s, week)
  /\ ActiveEvents(s) # ActiveEvents(accepted)

Commit(t, s) ==
  /\ Idle(t)
  /\ settings' = s
  /\ unsaved' = unsaved \cup {t}
  /\ recent' = Append(recent, Undo(s, previous'))
  /\ untried' = untried \cup (IF Unseen(Undo(s, previous')) THEN {ActiveEvents(s)} ELSE {})
  /\ UNCHANGED <<up, week, file, temp, taken, caught, tampered>>

WithActiveEvents(list) ==
  [settings EXCEPT !.schedules[ActiveIndex(settings)].events = list]

(* Calls of the user interface's thread, which is busy during a trial.     *)
Free == previous = {} /\ previous' = {}

(* Mutant: a message is not tried before it is committed.                  *)
SetEventUntried(c) ==
  /\ Free /\ Bounded
  /\ ~ Malformed(c)
  /\ Commit("ui", WithActiveEvents(Edited(ActiveEvents(settings), c)))

SetEvent(c) ==
  /\ Free /\ Bounded
  /\ ~ Malformed(c)
  /\ LET list == Edited(ActiveEvents(settings), c)
     IN  /\ ~ Rejects(list, settings)
         /\ Commit("ui", WithActiveEvents(list))

SetSchedule(list) ==
  /\ Free /\ Bounded
  /\ ~ Rejects(list, settings)
  /\ Commit("ui", WithActiveEvents(list))

(* The end of an overlay of n weeks.                                       *)
Until(n) == IF n = 0 THEN NoTime ELSE week + n

(* An overlay is tried with the active list.                               *)
SetOverlay(s) ==
  /\ Free /\ Bounded
  /\ ~ Rejects(ActiveEvents(s), s)
  /\ Commit("ui", s)

Pause(n) == SetOverlay([settings EXCEPT !.pause_until = Until(n)])

Adjust(percent, n) ==
  /\ percent # 0 => n > 0
  /\ SetOverlay([settings EXCEPT !.adjust_percent = percent,
                                 !.adjust_until = IF percent = 0 THEN NoTime ELSE Until(n)])

(* select_schedule: the new name is active before it is tried.             *)
BeginSelect(name) ==
  /\ Idle("ui") /\ previous = {}
  /\ Bounded
  /\ name \in Names(settings.schedules) \ {settings.active_schedule}
  /\ settings' = [settings EXCEPT !.active_schedule = name]
  /\ previous' = {settings.active_schedule}
  /\ UNCHANGED <<up, week, file, unsaved, temp, history>>

(* Mutant: the refused schedule stays active.                              *)
RefuseAndKeep ==
  /\ up /\ previous # {}
  /\ Rejects(ActiveEvents(settings), settings)
  /\ previous' = {}
  /\ UNCHANGED <<up, week, settings, file, unsaved, temp, history, events>>

RefuseSelect ==
  /\ up /\ previous # {}
  /\ Rejects(ActiveEvents(settings), settings)
  /\ settings' = Undo(settings, previous)
  /\ previous' = {}
  /\ UNCHANGED <<up, week, file, unsaved, temp, history, events>>

AcceptSelect ==
  /\ previous # {}
  /\ ~ Rejects(ActiveEvents(settings), settings)
  /\ previous' = {}
  /\ Commit("ui", settings)
  /\ UNCHANGED events

(* set_enabled, called by the MQTT thread.                                 *)
SetEnabled(b) ==
  /\ Bounded
  /\ UNCHANGED previous
  /\ Commit("mqtt", [settings EXCEPT !.schedule_enabled = b])

Lapsed(until) == until # NoTime /\ week >= until

(* expire_overlays, called by the refresher: lapsed overlays are dropped.  *)
Expire ==
  /\ Lapsed(settings.pause_until) \/ Lapsed(settings.adjust_until)
  /\ UNCHANGED <<previous, events>>
  /\ LET ended == Lapsed(settings.adjust_until)
     IN  Commit("refresher",
           [settings EXCEPT !.pause_until = IF Lapsed(@) THEN NoTime ELSE @,
                            !.adjust_percent = IF ended THEN 0 ELSE @,
                            !.adjust_until = IF ended THEN NoTime ELSE @])

-----------------------------------------------------------------------------
(* Restarts                                                                *)

(* A temporary file that was not renamed is left behind and never read.    *)
Crash ==
  /\ up
  /\ up' = FALSE
  /\ unsaved' = {} /\ temp' = [t \in Threads |-> {}]
  /\ previous' = {}
  /\ taken' = [t \in Threads |-> 1]
  /\ caught' = caught \cap {"file"}
  /\ UNCHANGED <<week, settings, file, recent, untried, tampered, events>>

(* load: the seed is saved at once, in the place of what was unreadable.   *)
Start ==
  /\ ~ up
  /\ up' = TRUE
  /\ settings' = Load(file)
  /\ unsaved' = IF IsSeeded(file) THEN {} ELSE {"load"}
  /\ recent' = <<settings'>>
  /\ caught' = {} /\ tampered' = FALSE
  /\ untried' = untried \cup
       (IF tampered \/ settings'.active_schedule \notin file.data.active_schedule
          THEN {ActiveEvents(settings')} ELSE {})
  /\ UNCHANGED <<week, previous, file, temp, taken, events>>

(* People replace, damage or delete the file while the server is down.     *)
Tamper(f) ==
  /\ ~ up /\ Bounded
  /\ file' = f
  /\ caught' = {} /\ tampered' = TRUE
  /\ UNCHANGED <<up, week, settings, previous, unsaved, temp, recent, taken, untried>>

WeekTurns ==
  /\ week < MaxWeek
  /\ week' = week + 1
  /\ UNCHANGED <<up, settings, previous, file, unsaved, temp, history, events>>

Next ==
  \/ \E t \in Threads : Save(t) \/ Rename(t) \/ SaveFails(t)
  \/ \E c \in Calls : SetEvent(c)
  \/ \E list \in Lists : SetSchedule(list)
  \/ \E n \in PauseWeeks : Pause(n)
  \/ \E a \in Adjustments : Adjust(a[1], a[2])
  \/ \E name \in Names(settings.schedules) : BeginSelect(name)
  \/ RefuseSelect \/ AcceptSelect
  \/ \E b \in BOOLEAN : SetEnabled(b)
  \/ Expire \/ Crash \/ Start
  \/ \E f \in Tampered \cup {Absent, Unreadable} : Tamper(f)
  \/ WeekTurns

Spec == Init /\ [][Next]_vars

-----------------------------------------------------------------------------
(* Properties                                                              *)

(* Every variable keeps its type; the active schedule is always a defined  *)
(* one, whatever file the server was started on.                           *)
TypeOK ==
  /\ up \in BOOLEAN /\ week \in Weeks
  /\ settings \in SettingsSet
  /\ settings.active_schedule \in Names(settings.schedules)
  /\ previous \in SUBSET Names(settings.schedules)
  /\ file \in FileSet
  /\ unsaved \subseteq Threads
  /\ DOMAIN temp = Threads
  /\ \A t \in Threads : \A data \in temp[t] : Json(data) \in FileSet
  /\ recent \in Seq(SettingsSet) /\ recent # <<>>
  /\ taken \in [Threads -> DOMAIN recent]
  /\ caught \subseteq Threads \cup {"file"}
  /\ untried \subseteq Seq(EventSet)
  /\ tampered \in BOOLEAN
  /\ events \in Nat

(* An edit that is refused leaves nothing behind: outside a trial the      *)
(* settings are those of the accepted edits, whoever committed what while  *)
(* select_schedule had its candidate in place.                             *)
RefusalLeavesNoTrace == up /\ previous = {} => settings = accepted

(* What is left of settings that are saved and loaded again: an active     *)
(* schedule whose name is empty is not found, so the first one is active.  *)
Named(s) ==
  [s EXCEPT !.active_schedule = IF @ = NoName THEN s.schedules[1].name ELSE @]

(* The last edit has been saved, and no older snapshot was or is waiting   *)
(* to be renamed over it.                                                  *)
Saved == Len(recent) = 1 /\ "file" \notin caught

(* From then on a restart changes nothing: snapshot, parse and the         *)
(* constructor together give back what is in force, overlays and offsets   *)
(* included, also when the server was started on a file with fields        *)
(* missing.  Left out are a save that failed or that another overtook, and *)
(* one made while a trial was on.                                          *)
RestartChangesNothing == up /\ previous = {} /\ Saved => Load(file) = Named(settings)

(* Whenever the process dies, with up to three saves under way, some       *)
(* failed and some overtaken: a restart gives the settings of one moment   *)
(* between two edits, never a mix of them, and no older moment than the    *)
(* last that was saved with no older snapshot waiting.                     *)
RestartCostsOnlyUnsaved ==
  [][~ up /\ up' /\ ~ tampered /\ "file" \notin caught
       => \E k \in DOMAIN recent : settings' = Named(recent[k])]_vars

(* A fetch can only fail for a list that people put into a file, that a    *)
(* start fell back on, that a pause or an adjustment hid from its trial or *)
(* that was saved during one; or for a list with slots of the sun, in a    *)
(* week when they stand badly.                                             *)
ServableUnlessUntried ==
  LET list == ActiveEvents(settings)
  IN  up /\ previous = {} /\ Unservable =>
        list \in untried \/ (HasSun(list) /\ <<list, week>> \in Overrun)

Message(slot, mode, at) == [slot |-> slot, mode |-> mode, at |-> at, minutes |-> None]

Timed(c) == c.at \in 0 .. DayMinutes - 1

(* The mode and the time of a slot come as two messages.  The mode first,  *)
(* they do what one message with both would; the time first as well, but   *)
(* for a slot of the sun, whose time is not carried as state.py says it is. *)
ModeAndTimeAreOneEdit ==
  LET list == ActiveEvents(settings)
  IN  \A c \in {x \in Calls : Timed(x)} :
        LET mode == Message(c.slot, "clock", None)
            time == Message(c.slot, NoMode, c.at)
            both == Edited(list, Message(c.slot, "clock", c.at))
            solar == c.slot \in DOMAIN list /\ list[c.slot].mode \in Solar
        IN  /\ Edited(Edited(list, mode), time) = both
            /\ ~ solar => Edited(Edited(list, time), mode) = both

(* A message changes the waterings of its own slot only, and one that      *)
(* arrives twice changes nothing more, unless it makes a slot unused: that *)
(* moves the slots behind it up, and takes one of them at each repetition. *)
EditTouchesOneSlot ==
  LET list == ActiveEvents(settings)
      Watering(l, k) == IF k \in DOMAIN l /\ l[k].duration_min > 0 THEN {l[k]} ELSE {}
  IN  \A c \in {x \in Calls : ~ Malformed(x)} :
        LET once == Edited(list, c)  twice == Edited(once, c)
        IN  IF c.mode = "unused"
              THEN /\ \A k \in 1 .. c.slot - 1 : Watering(once, k) = Watering(list, k)
                   /\ \A k \in c.slot .. Len(list) :
                        /\ Watering(once, k) = Watering(list, k + 1)
                        /\ Watering(twice, k) = Watering(list, k + 2)
              ELSE /\ \A k \in (1 .. Len(once)) \ {c.slot} : Watering(once, k) = Watering(list, k)
                   /\ twice = once

=============================================================================
