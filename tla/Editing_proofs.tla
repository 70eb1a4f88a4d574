--------------------------- MODULE Editing_proofs ----------------------------
(* Theorems about Editing, for every config.yaml, every set of messages,   *)
(* lists and files, and every capacity of a programme.                     *)
EXTENDS Editing, SequenceTheorems, FiniteSetTheorems, WellFoundedInduction, TLAPS

-----------------------------------------------------------------------------
(* The active schedule                                                     *)

(* A set of numbers has a least one.                                       *)
LEMMA LeastNumber ==
  ASSUME NEW T \in SUBSET Nat, T # {}
  PROVE  \E x \in T : \A y \in T : x <= y
<1>1. PICK x \in T : \A y \in T : ~ (<<y, x>> \in OpToRel(<, Nat))
  BY WFMin, NatLessThanWellFounded
<1>2. \A y \in T : ~ (y < x)
  BY <1>1 DEF OpToRel
<1>3. QED
  BY <1>2

(* _find finds a schedule of that name.                                    *)
LEMMA FindCorrect ==
  ASSUME NEW schedules \in Seq(ScheduleSet), NEW name \in Names(schedules)
  PROVE  /\ Find(schedules, name) \in DOMAIN schedules
         /\ schedules[Find(schedules, name)].name = name
<1> DEFINE T == {s \in DOMAIN schedules : schedules[s].name = name}
<1>1. T \in SUBSET Nat /\ T # {}
  BY DEF Names
<1>2. \E s \in T : \A r \in T : s <= r
  BY <1>1, LeastNumber
<1>3. QED
  BY <1>2 DEF Find

LEMMA NamesAreStrings ==
  ASSUME NEW schedules \in Seq(ScheduleSet), NEW name \in Names(schedules)
  PROVE  name \in STRING
<1>1. PICK k \in DOMAIN schedules : name = schedules[k].name
  BY DEF Names
<1>2. schedules[k] \in ScheduleSet
  BY LenProperties, ElementOfSeq
<1>3. QED
  BY <1>1, <1>2 DEF ScheduleSet

(* Settings whose active schedule is defined.                              *)
Defined == {s \in SettingsSet : s.active_schedule \in Names(s.schedules)}

LEMMA ActiveFacts ==
  ASSUME NEW s \in Defined
  PROVE  /\ ActiveIndex(s) \in 1 .. Len(s.schedules)
         /\ s.schedules[ActiveIndex(s)] \in ScheduleSet
         /\ ActiveEvents(s) \in Seq(EventSet)
<1>1. ActiveIndex(s) \in 1 .. Len(s.schedules)
  BY FindCorrect DEF Defined, SettingsSet, ActiveIndex
<1>2. s.schedules[ActiveIndex(s)] \in ScheduleSet
  BY <1>1, ElementOfSeq DEF Defined, SettingsSet
<1>3. QED
  BY <1>1, <1>2 DEF ActiveEvents, ScheduleSet

(* Which list is active depends on the schedules and the name only.        *)
LEMMA SameActive ==
  ASSUME NEW r, NEW s, r.schedules = s.schedules, r.active_schedule = s.active_schedule
  PROVE  ActiveEvents(r) = ActiveEvents(s)
BY DEF ActiveEvents, ActiveIndex

(* A new list for the active schedule is the active list afterwards, and   *)
(* renames nothing.                                                        *)
LEMMA NewActiveList ==
  ASSUME settings \in Defined, NEW list \in Seq(EventSet)
  PROVE  /\ WithActiveEvents(list) \in Defined
         /\ ActiveEvents(WithActiveEvents(list)) = list
         /\ WithActiveEvents(list).active_schedule = settings.active_schedule
         /\ WithActiveEvents(list).pause_until = settings.pause_until
         /\ WithActiveEvents(list).adjust_percent = settings.adjust_percent
         /\ WithActiveEvents(list).adjust_until = settings.adjust_until
<1> DEFINE i == ActiveIndex(settings)
           old == settings.schedules
           entry == [old[i] EXCEPT !.events = list]
           new == [old EXCEPT ![i] = entry]
           s == WithActiveEvents(list)
<1>1. i \in 1 .. Len(old) /\ old[i] \in ScheduleSet /\ old \in Seq(ScheduleSet)
  BY ActiveFacts DEF Defined, SettingsSet
<1>2. entry \in ScheduleSet /\ entry.name = old[i].name /\ entry.events = list
  BY <1>1 DEF ScheduleSet
<1>3. /\ new \in Seq(ScheduleSet) /\ DOMAIN new = DOMAIN old
      /\ \A j \in DOMAIN old : new[j] = IF j = i THEN entry ELSE old[j]
  BY <1>1, <1>2, ExceptSeq
<1>4. s = [settings EXCEPT !.schedules = new]
  BY DEF WithActiveEvents, Defined, SettingsSet
<1>5. /\ s \in SettingsSet /\ s.schedules = new
      /\ s.active_schedule = settings.active_schedule
      /\ s.pause_until = settings.pause_until
      /\ s.adjust_percent = settings.adjust_percent
      /\ s.adjust_until = settings.adjust_until
  BY <1>3, <1>4 DEF Defined, SettingsSet
<1>6. \A j \in DOMAIN old : new[j].name = old[j].name
  BY <1>2, <1>3
<1>7. Names(new) = Names(old)
  BY <1>3, <1>6 DEF Names
<1>8. Find(new, settings.active_schedule) = Find(old, settings.active_schedule)
  BY <1>3, <1>6 DEF Find
<1>9. ActiveIndex(s) = i
  BY <1>5, <1>7, <1>8 DEF ActiveIndex
<1>10. ActiveEvents(s) = list
  BY <1>1, <1>2, <1>3, <1>5, <1>9 DEF ActiveEvents
<1>11. QED
  BY <1>5, <1>7, <1>10 DEF Defined

-----------------------------------------------------------------------------
(* The file                                                                *)

(* The constructor repairs what it is given: there is a schedule, and the  *)
(* active one is defined.                                                  *)
LEMMA ConstructedDefined ==
  ASSUME NEW s \in SettingsSet
  PROVE  Constructed(s) \in Defined
<1> DEFINE default == <<[name |-> DefaultName, events |-> <<>>]>>
           schedules == IF s.schedules = <<>> THEN default ELSE s.schedules
           name == IF s.active_schedule # NoName /\ s.active_schedule \in Names(schedules)
                     THEN s.active_schedule ELSE schedules[1].name
<1>1. default \in Seq(ScheduleSet) /\ default # <<>>
  <2>1. <<>> \in Seq(EventSet)
    BY EmptySeq
  <2>2. [name |-> DefaultName, events |-> <<>>] \in ScheduleSet
    BY <2>1, LiteralAssumption DEF ScheduleSet
  <2>3. QED
    BY <2>2
<1>2. schedules \in Seq(ScheduleSet) /\ schedules # <<>>
  BY <1>1 DEF SettingsSet
<1> HIDE DEF schedules
<1>3. 1 \in DOMAIN schedules /\ schedules[1] \in ScheduleSet
  BY <1>2, EmptySeq, LenProperties, ElementOfSeq
<1>4. name \in Names(schedules) /\ name \in STRING
  BY <1>3 DEF Names, ScheduleSet, SettingsSet
<1>5. Constructed(s) = [s EXCEPT !.schedules = schedules, !.active_schedule = name]
  BY DEF Constructed, schedules, SettingsSet
<1>6. QED
  BY <1>2, <1>4, <1>5 DEF Defined, SettingsSet

(* An empty name is not found, any other that is defined is kept.          *)
LEMMA ConstructedIsNamed ==
  /\ \A s \in Defined : Constructed(s) = Named(s)
  /\ \A s \in SettingsSet : Named(Constructed(s)) = Constructed(s)
<1>1. ASSUME NEW s \in Defined PROVE Constructed(s) = Named(s)
  <2>1. s.schedules # <<>>
    BY DEF Defined, Names
  <2>2. Constructed(s) =
          [s EXCEPT !.schedules = s.schedules,
                    !.active_schedule = IF s.active_schedule # NoName THEN s.active_schedule
                                        ELSE s.schedules[1].name]
    BY <2>1 DEF Constructed, Defined, SettingsSet
  <2>3. Named(s) =
          [s EXCEPT !.active_schedule = IF s.active_schedule = NoName THEN s.schedules[1].name
                                        ELSE s.active_schedule]
    BY DEF Named, Defined, SettingsSet
  <2>4. QED
    BY <2>2, <2>3 DEF Defined, SettingsSet
<1>2. ASSUME NEW s \in SettingsSet PROVE Named(Constructed(s)) = Constructed(s)
  <2> DEFINE t == Constructed(s)
  <2>1. t \in SettingsSet
    BY ConstructedDefined DEF Defined
  <2>2. t.active_schedule # NoName \/ t.active_schedule = t.schedules[1].name
    BY DEF Constructed, SettingsSet
  <2> HIDE DEF t
  <2>3. Named(t) =
          [t EXCEPT !.active_schedule = IF t.active_schedule = NoName THEN t.schedules[1].name
                                        ELSE t.active_schedule]
    BY <2>1 DEF Named, SettingsSet
  <2>4. Named(t) = t
    BY <2>1, <2>2, <2>3 DEF SettingsSet
  <2>5. QED
    BY <2>4 DEF t
<1>3. QED
  BY <1>1, <1>2

LEMMA SeededType ==
  ASSUME NEW list \in Seq(ConfigEvents)
  PROVE  SeededEvents(list) \in Seq(EventSet)
<1>1. ASSUME NEW c \in ConfigEvents PROVE Seeded(c) \in EventSet
  <2>1. c.listed # {} => (CHOOSE d \in c.listed : TRUE) \in SUBSET DAYS
    BY DEF ConfigEvents
  <2>2. QED
    BY <2>1 DEF Seeded, ConfigEvents, EventSet
<1>2. \A k \in 1 .. Len(list) : Seeded(list[k]) \in EventSet
  BY <1>1, ElementOfSeq
<1>3. DOMAIN list = 1 .. Len(list) /\ Len(list) \in Nat
  BY LenProperties
<1>4. QED
  BY <1>2, <1>3, IsASeq DEF SeededEvents

LEMMA SeedType == Seed \in SettingsSet
<1> DEFINE config == Config
<1>1. /\ config.schedules \in Seq([name : STRING, events : Seq(ConfigEvents)])
      /\ config.schedule \in Seq(ConfigEvents) /\ ConfigActive \in STRING
  BY ConfigAssumption DEF ConfigSet
<1>2. ASSUME NEW k \in 1 .. Len(config.schedules)
      PROVE  [name |-> config.schedules[k].name,
              events |-> SeededEvents(config.schedules[k].events)] \in ScheduleSet
  <2>1. config.schedules[k] \in [name : STRING, events : Seq(ConfigEvents)]
    BY <1>1, ElementOfSeq
  <2>2. QED
    BY <2>1, SeededType DEF ScheduleSet
<1>3. DOMAIN config.schedules = 1 .. Len(config.schedules) /\ Len(config.schedules) \in Nat
  BY <1>1, LenProperties
<1>4. [k \in DOMAIN config.schedules |->
         [name |-> config.schedules[k].name,
          events |-> SeededEvents(config.schedules[k].events)]] \in Seq(ScheduleSet)
  BY <1>2, <1>3, IsASeq
<1>5. <<[name |-> DefaultName, events |-> SeededEvents(config.schedule)]>> \in Seq(ScheduleSet)
  <2>1. [name |-> DefaultName, events |-> SeededEvents(config.schedule)] \in ScheduleSet
    <3>1. SeededEvents(config.schedule) \in Seq(EventSet)
      BY <1>1, SeededType
    <3>2. QED
      BY <3>1, LiteralAssumption DEF ScheduleSet
  <2>2. QED
    BY <2>1
<1>6. SchedulesFromConfig(config) \in Seq(ScheduleSet)
  BY <1>4, <1>5 DEF SchedulesFromConfig
<1>7. QED
  BY <1>1, <1>6 DEF Seed, SettingsSet, NoTime

LEMMA ParsedType ==
  ASSUME NEW f \in FileSet, IsSeeded(f)
  PROVE  Parse(f.data) \in SettingsSet
<1>1. /\ f.data.schedules \in SUBSET Seq(ScheduleSet)
      /\ f.data.active_schedule \in SUBSET STRING
      /\ f.data.schedule_enabled \in SUBSET BOOLEAN
      /\ f.data.pause_until \in SUBSET Nat
      /\ f.data.adjust_percent \in SUBSET Int
      /\ f.data.adjust_until \in SUBSET Nat
  BY DEF IsSeeded, FileSet, Absent, Unreadable
<1>2. \A F, d : Get(F, d) \in F \cup {d}
  BY DEF Get
<1>3. <<>> \in Seq(ScheduleSet)
  BY EmptySeq
<1>4. NoName \in STRING
  BY LiteralAssumption
<1>5. NoTime \in Nat /\ 0 \in Int
  BY DEF NoTime
<1>6. /\ Get(f.data.schedules, <<>>) \in Seq(ScheduleSet)
      /\ Get(f.data.active_schedule, NoName) \in STRING
  BY <1>1, <1>2, <1>3, <1>4, Zenon
<1>7. /\ Get(f.data.pause_until, NoTime) \in Nat
      /\ Get(f.data.adjust_percent, 0) \in Int
      /\ Get(f.data.adjust_until, NoTime) \in Nat
  BY <1>1, <1>2, <1>5, Zenon
<1>8. Get(f.data.schedule_enabled, TRUE) \in BOOLEAN
  BY <1>1, <1>2, Zenon
<1>9. QED
  BY <1>6, <1>7, <1>8 DEF Parse, SettingsSet

(* A start gets settings with a defined active schedule out of any file,   *)
(* and another start from those would get the same.                        *)
LEMMA LoadDefined ==
  ASSUME NEW f \in FileSet
  PROVE  Load(f) \in Defined /\ Named(Load(f)) = Load(f)
<1>1. CASE IsSeeded(f)
  BY <1>1, ParsedType, ConstructedDefined, ConstructedIsNamed DEF Load
<1>2. CASE ~ IsSeeded(f)
  BY <1>2, SeedType, ConstructedDefined, ConstructedIsNamed DEF Load
<1>3. QED
  BY <1>1, <1>2

LEMMA SnapshotType ==
  ASSUME NEW s \in SettingsSet
  PROVE  Json(Snapshot(s)) \in FileSet
<1>1. /\ {s.schedules} \in SUBSET Seq(ScheduleSet)
      /\ {s.active_schedule} \in SUBSET STRING
      /\ {s.schedule_enabled} \in SUBSET BOOLEAN
      /\ {s.pause_until} \in SUBSET Nat
      /\ {s.adjust_percent} \in SUBSET Int
      /\ {s.adjust_until} \in SUBSET Nat
  BY DEF SettingsSet
<1>2. QED
  BY <1>1 DEF Json, Snapshot, FileSet

(* What snapshot writes, parse reads, field by field.                      *)
LEMMA SnapshotIsParsed ==
  ASSUME NEW s \in SettingsSet
  PROVE  Parse(Snapshot(s)) = s
<1>1. \A v, d : Get({v}, d) = v
  BY DEF Get
<1>2. Parse(Snapshot(s)) =
        [schedules |-> s.schedules, active_schedule |-> s.active_schedule,
         schedule_enabled |-> s.schedule_enabled, pause_until |-> s.pause_until,
         adjust_percent |-> s.adjust_percent, adjust_until |-> s.adjust_until]
  BY <1>1 DEF Parse, Snapshot
<1>3. QED
  BY <1>2 DEF SettingsSet

(* So a start finds what was saved, every schedule, event, offset and      *)
(* overlay of it, but for an active schedule without a name: the first one *)
(* is active then.                                                         *)
THEOREM SavedIsLoaded ==
  ASSUME NEW s \in Defined
  PROVE  /\ Load(Json(Snapshot(s))) = Named(s)
         /\ s.active_schedule # NoName => Load(Json(Snapshot(s))) = s
<1>1. Parse(Snapshot(s)) = s
  BY SnapshotIsParsed DEF Defined
<1>2. Load(Json(Snapshot(s))) = Constructed(Parse(Snapshot(s)))
  BY DEF Load, Json, IsSeeded
<1>3. s.active_schedule # NoName => Named(s) = s
  BY DEF Named, Defined, SettingsSet
<1>4. QED
  BY <1>1, <1>2, <1>3, ConstructedIsNamed

-----------------------------------------------------------------------------
(* What a message makes of a list of events                                *)

LEMMA PaddedFacts ==
  ASSUME NEW S, Blank \in S, NEW list \in Seq(S), NEW slot \in Nat \ {0}
  PROVE  /\ Padded(list, slot) \in Seq(S)
         /\ Len(Padded(list, slot)) = IF slot > Len(list) THEN slot ELSE Len(list)
         /\ \A k \in 1 .. Len(Padded(list, slot)) :
              Padded(list, slot)[k] = IF k <= Len(list) THEN list[k] ELSE Blank
<1> DEFINE n == IF slot > Len(list) THEN slot - Len(list) ELSE 0
           blanks == [k \in 1 .. n |-> Blank]
<1>1. Len(list) \in Nat /\ n \in Nat
  BY LenProperties
<1>2. blanks \in Seq(S) /\ Len(blanks) = n
  BY <1>1
<1>3. Padded(list, slot) = list \o blanks
  BY DEF Padded
<1> HIDE DEF blanks
<1>4. /\ list \o blanks \in Seq(S)
      /\ Len(list \o blanks) = Len(list) + n
      /\ \A k \in 1 .. Len(list) + n :
           (list \o blanks)[k] = IF k <= Len(list) THEN list[k] ELSE blanks[k - Len(list)]
  BY <1>2, ConcatProperties
<1>5. ASSUME NEW k \in 1 .. Len(list) + n, ~ (k <= Len(list))
      PROVE  blanks[k - Len(list)] = Blank
  BY <1>1, <1>5 DEF blanks
<1>6. Len(list) + n = IF slot > Len(list) THEN slot ELSE Len(list)
  BY <1>1
<1>7. QED
  BY <1>3, <1>4, <1>5, <1>6

(* A slot that is there needs no padding.                                  *)
LEMMA PaddedEnough ==
  ASSUME NEW S, Blank \in S, NEW list \in Seq(S), NEW slot \in 1 .. Len(list)
  PROVE  Padded(list, slot) = list
<1>1. Len(list) \in Nat /\ slot \in Nat \ {0}
  BY LenProperties
<1>2. /\ Padded(list, slot) \in Seq(S) /\ Len(Padded(list, slot)) = Len(list)
      /\ \A k \in 1 .. Len(list) : Padded(list, slot)[k] = list[k]
  BY <1>1, PaddedFacts
<1>3. QED
  BY <1>2, SeqEqual

(* What a message makes of the event in its slot.                          *)
Changed(e, c) == WithMinutes(WithTime(WithMode(e, c), c), c)

LEMMA ChangedList ==
  ASSUME NEW S, Blank \in S, NEW list \in Seq(S), NEW c,
         c.slot \in Nat \ {0}, c.mode # "unused",
         Changed(Padded(list, c.slot)[c.slot], c) \in S
  PROVE  /\ Edited(list, c) \in Seq(S)
         /\ Len(Edited(list, c)) = Len(Padded(list, c.slot))
         /\ \A k \in 1 .. Len(Padded(list, c.slot)) :
              Edited(list, c)[k] =
                IF k = c.slot THEN Changed(Padded(list, c.slot)[k], c)
                ELSE Padded(list, c.slot)[k]
<1> DEFINE slots == Padded(list, c.slot)
<1>1. /\ slots \in Seq(S) /\ Len(list) \in Nat
      /\ Len(slots) = IF c.slot > Len(list) THEN c.slot ELSE Len(list)
  BY PaddedFacts, LenProperties
<1>2. c.slot \in 1 .. Len(slots)
  BY <1>1
<1>3. Edited(list, c) = [slots EXCEPT ![c.slot] = Changed(slots[c.slot], c)]
  BY DEF Edited, Changed
<1> HIDE DEF slots
<1>4. QED
  BY <1>1, <1>2, <1>3, ExceptSeq DEF slots

LEMMA RemovedList ==
  ASSUME NEW S, Blank \in S, NEW list \in Seq(S), NEW c,
         c.slot \in Nat \ {0}, c.mode = "unused"
  PROVE  /\ Edited(list, c) \in Seq(S)
         /\ Len(Edited(list, c)) = Len(Padded(list, c.slot)) - 1
         /\ \A k \in 1 .. Len(Padded(list, c.slot)) - 1 :
              Edited(list, c)[k] =
                Padded(list, c.slot)[IF k < c.slot THEN k ELSE k + 1]
<1> DEFINE slots == Padded(list, c.slot)
           i == c.slot
           front == SubSeq(slots, 1, i - 1)
           back == SubSeq(slots, i + 1, Len(slots))
<1>1. slots \in Seq(S) /\ Len(slots) \in Nat /\ i \in 1 .. Len(slots)
  <2>1. /\ slots \in Seq(S) /\ Len(list) \in Nat
        /\ Len(slots) = IF c.slot > Len(list) THEN c.slot ELSE Len(list)
    BY PaddedFacts, LenProperties
  <2>2. QED
    BY <2>1
<1>2. Edited(list, c) = front \o back
  BY DEF Edited, RemoveAt
<1> HIDE DEF slots
<1>3. \A k \in 1 .. Len(slots) : slots[k] \in S
  BY <1>1, ElementOfSeq
<1>4. /\ front \in Seq(S) /\ Len(front) = i - 1
      /\ \A k \in 1 .. i - 1 : front[k] = slots[k]
  <2>1. \A k \in 1 .. i - 1 : slots[k] \in S
    BY <1>1, <1>3
  <2>2. /\ front \in Seq(S)
        /\ Len(front) = IF 1 <= i - 1 THEN (i - 1) - 1 + 1 ELSE 0
        /\ \A k \in 1 .. (i - 1) - 1 + 1 : front[k] = slots[1 + k - 1]
    BY <1>1, <2>1, SubSeqProperties
  <2>3. QED
    BY <1>1, <2>2
<1>5. /\ back \in Seq(S) /\ Len(back) = Len(slots) - i
      /\ \A k \in 1 .. Len(slots) - i : back[k] = slots[i + k]
  <2>1. \A k \in i + 1 .. Len(slots) : slots[k] \in S
    BY <1>1, <1>3
  <2>2. /\ back \in Seq(S)
        /\ Len(back) = IF i + 1 <= Len(slots) THEN Len(slots) - (i + 1) + 1 ELSE 0
        /\ \A k \in 1 .. Len(slots) - (i + 1) + 1 : back[k] = slots[(i + 1) + k - 1]
    BY <1>1, <2>1, SubSeqProperties
  <2>3. QED
    BY <1>1, <2>2
<1> HIDE DEF front, back
<1>6. /\ front \o back \in Seq(S)
      /\ Len(front \o back) = Len(front) + Len(back)
      /\ \A k \in 1 .. Len(front) + Len(back) :
           (front \o back)[k] = IF k <= Len(front) THEN front[k] ELSE back[k - Len(front)]
  BY <1>4, <1>5, ConcatProperties
<1>7. Len(front) + Len(back) = Len(slots) - 1
  BY <1>1, <1>4, <1>5
<1>8. ASSUME NEW k \in 1 .. Len(slots) - 1
      PROVE  (front \o back)[k] = slots[IF k < i THEN k ELSE k + 1]
  <2>1. CASE k < i
    BY <1>1, <1>4, <1>6, <1>7, <2>1
  <2>2. CASE ~ (k < i)
    <3>1. k - (i - 1) \in 1 .. Len(slots) - i /\ i + (k - (i - 1)) = k + 1
      BY <1>1, <2>2
    <3>2. (front \o back)[k] = back[k - (i - 1)]
      <4>1. k \in 1 .. Len(front) + Len(back)
        BY <1>7
      <4>2. Len(front) = i - 1 /\ ~ (k <= Len(front))
        BY <1>1, <1>4, <2>2
      <4>3. QED
        BY <1>6, <4>1, <4>2
    <3>3. QED
      BY <1>5, <2>2, <3>1, <3>2
  <2>3. QED
    BY <2>1, <2>2
<1>9. QED
  BY <1>2, <1>6, <1>7, <1>8 DEF slots

LEMMA BlankType == Blank \in EventSet
BY DEF Blank, EventSet, SixOClock, DayMinutes

LEMMA ChangedType ==
  ASSUME NEW e \in EventSet, NEW c \in CallSet, ~ Malformed(c), c.mode # "unused"
  PROVE  Changed(e, c) \in EventSet
<1>1. c.at \in {None} \cup (0 .. DayMinutes - 1) /\ c.minutes \in {None} \cup Nat
  BY DEF Malformed, CallSet, None, DayMinutes
<1>2. WithMode(e, c) \in EventSet
  <2>1. CASE c.mode \in Solar
    <3>1. WithMode(e, c) = [e EXCEPT !.mode = c.mode, !.at = 0]
      BY <2>1 DEF WithMode
    <3>2. c.mode \in {"clock", "sunrise", "sunset"}
      BY <2>1 DEF Solar
    <3>3. 0 \in 0 .. DayMinutes - 1
      BY DEF DayMinutes
    <3>4. QED
      BY <3>1, <3>2, <3>3 DEF EventSet
  <2>2. CASE c.mode \notin Solar /\ c.mode = "clock" /\ e.mode \in Solar
    <3>1. WithMode(e, c) =
            [e EXCEPT !.mode = "clock", !.at = IF c.at = None THEN SixOClock ELSE c.at]
      BY <2>2 DEF WithMode
    <3>2. (IF c.at = None THEN SixOClock ELSE c.at) \in 0 .. DayMinutes - 1
      BY <1>1 DEF SixOClock, DayMinutes
    <3>3. QED
      BY <3>1, <3>2 DEF EventSet
  <2>3. CASE c.mode \notin Solar /\ ~ (c.mode = "clock" /\ e.mode \in Solar)
    BY <2>3 DEF WithMode
  <2>4. QED
    BY <2>1, <2>2, <2>3
<1>3. WithTime(WithMode(e, c), c) \in EventSet
  BY <1>1, <1>2 DEF WithTime, EventSet
<1>4. QED
  BY <1>1, <1>3 DEF Changed, WithMinutes, EventSet

LEMMA EditedType ==
  ASSUME NEW list \in Seq(EventSet), NEW c \in CallSet, ~ Malformed(c)
  PROVE  Edited(list, c) \in Seq(EventSet)
<1>1. c.slot \in Nat \ {0}
  BY DEF CallSet
<1>2. CASE c.mode = "unused"
  BY <1>1, <1>2, BlankType, RemovedList
<1>3. CASE c.mode # "unused"
  <2>1. /\ Padded(list, c.slot) \in Seq(EventSet) /\ Len(list) \in Nat
        /\ Len(Padded(list, c.slot)) = IF c.slot > Len(list) THEN c.slot ELSE Len(list)
    BY <1>1, BlankType, PaddedFacts, LenProperties
  <2>2. c.slot \in 1 .. Len(Padded(list, c.slot))
    BY <1>1, <2>1
  <2>3. Padded(list, c.slot)[c.slot] \in EventSet
    BY <2>1, <2>2, ElementOfSeq
  <2>4. QED
    BY <1>1, <1>3, <2>3, BlankType, ChangedType, ChangedList
<1>4. QED
  BY <1>2, <1>3

-----------------------------------------------------------------------------
(* The inductive invariants                                                *)

(* A trial and all saves end with the process.                             *)
NothingPendsWhileDown ==
  ~ up => /\ previous = {} /\ unsaved = {}
          /\ \A t \in Threads : temp[t] = {} /\ taken[t] = 1

(* A file people changed is found by the next start.                       *)
ReadOnceStarted == up => ~ tampered

(* Without the trial that may be on, the settings are the accepted ones.   *)
AcceptedInForce == up => Undo(settings, previous) = accepted

RecentDefined == \A k \in DOMAIN recent : recent[k] \in Defined

(* A snapshot is of defined settings: of those its thread took it of,      *)
(* unless a trial was on.                                                  *)
SnapshotsAreTaken ==
  \A t \in Threads : temp[t] # {} =>
    /\ \E s \in Defined : temp[t] = {Snapshot(s)}
    /\ t \notin caught => temp[t] = {Snapshot(recent[taken[t]])}

(* The file is of one of the recent settings.                              *)
FileIsRecent ==
  ~ tampered /\ "file" \notin caught =>
    \E k \in DOMAIN recent : Load(file) = Named(recent[k])

EditInv ==
  /\ NothingPendsWhileDown
  /\ ReadOnceStarted
  /\ AcceptedInForce
  /\ RecentDefined
  /\ SnapshotsAreTaken
  /\ FileIsRecent

(* A list that fits whatever the overlays, and in every week unless the    *)
(* sun has a part in it.                                                   *)
FitsAlone(list) ==
  /\ Waterings(list) <= Capacity
  /\ \A k \in DOMAIN list : list[k].duration_min <= MaxDuration
  /\ HasSun(list) \/ \A w \in Weeks : <<list, w>> \notin Overrun

Known(list) == FitsAlone(list) \/ list \in untried

(* Whatever list is active, in the file, or on its way there.              *)
ListsAreKnown ==
  /\ up => Known(ActiveEvents(accepted))
  /\ \A t \in Threads : \A s \in Defined :
       temp[t] = {Snapshot(s)} => Known(ActiveEvents(s))
  /\ ~ tampered /\ Load(file).active_schedule \in file.data.active_schedule =>
       Known(ActiveEvents(Load(file)))

-----------------------------------------------------------------------------
(* Types                                                                   *)

LEMMA UndoFacts ==
  ASSUME NEW s \in Defined, NEW trial \in SUBSET Names(s.schedules)
  PROVE  /\ Undo(s, trial) \in Defined
         /\ Undo(s, trial).schedules = s.schedules
         /\ Undo(s, trial).pause_until = s.pause_until
         /\ Undo(s, trial).adjust_percent = s.adjust_percent
         /\ Undo(s, trial).adjust_until = s.adjust_until
         /\ trial = {} => Undo(s, trial) = s
<1> DEFINE name == IF trial = {} THEN s.active_schedule ELSE CHOOSE n \in trial : TRUE
<1>1. \A n \in Names(s.schedules) : n \in STRING
  BY NamesAreStrings DEF Defined, SettingsSet
<1>2. name \in Names(s.schedules) /\ name \in STRING
  BY <1>1 DEF Defined, SettingsSet
<1>3. Undo(s, trial) = [s EXCEPT !.active_schedule = name]
  BY DEF Undo, Defined, SettingsSet
<1>4. Undo(s, trial) \in Defined
  BY <1>2, <1>3 DEF Defined, SettingsSet
<1>5. QED
  BY <1>3, <1>4 DEF Defined, SettingsSet

(* Other overlays, or watering switched off, leave the active list.        *)
SameLists(s) ==
  s.schedules = settings.schedules /\ s.active_schedule = settings.active_schedule

(* The steps that commit settings.                                         *)
Commits ==
  \/ \E c \in Calls : SetEvent(c)
  \/ \E list \in Lists : SetSchedule(list)
  \/ \E n \in PauseWeeks : Pause(n)
  \/ \E a \in Adjustments : Adjust(a[1], a[2])
  \/ AcceptSelect
  \/ \E b \in BOOLEAN : SetEnabled(b)
  \/ Expire

(* They are of four kinds: a list that is not rejected becomes active, an  *)
(* overlay is not rejected, a trial ends well, or the lists stay.          *)
LEMMA CommitCases ==
  ASSUME TypeOK, Commits
  PROVE  /\ events' \in Nat
         /\ \/ \E list \in Seq(EventSet) :
                 Free /\ ~ Rejects(list, settings) /\ Commit("ui", WithActiveEvents(list))
            \/ \E s \in Defined : Free /\ SameLists(s) /\ Commit("ui", s)
            \/ AcceptSelect
            \/ \E s \in Defined : \E t \in Threads :
                 UNCHANGED previous /\ SameLists(s) /\ Commit(t, s)
<1> settings \in Defined
  BY DEF TypeOK, Defined
<1>1. Bounded => events' \in Nat
  BY DEF Bounded, TypeOK
<1>2. CASE \E c \in Calls : SetEvent(c)
  <2> PICK c \in Calls : SetEvent(c)
    BY <1>2
  <2>1. Edited(ActiveEvents(settings), c) \in Seq(EventSet)
    BY ActiveFacts, EditedType, CallsAssumption DEF SetEvent
  <2>2. QED
    BY <1>1, <2>1 DEF SetEvent
<1>3. CASE \E list \in Lists : SetSchedule(list)
  BY <1>1, <1>3, ListsAssumption DEF SetSchedule
<1>4. settings.schedule_enabled \in BOOLEAN /\ settings.pause_until \in Nat
      /\ settings.adjust_percent \in Int /\ settings.adjust_until \in Nat
  BY DEF Defined, SettingsSet
<1>5. \A n \in Nat : Until(n) \in Nat
  BY DEF Until, NoTime, TypeOK, Weeks
<1>6. CASE \E n \in PauseWeeks : Pause(n)
  <2> PICK n \in PauseWeeks : Pause(n)
    BY <1>6
  <2> DEFINE s == [settings EXCEPT !.pause_until = Until(n)]
  <2>1. Until(n) \in Nat
    BY <1>5, WeeksAssumption
  <2>2. s \in Defined /\ SameLists(s)
    BY <2>1 DEF Defined, SettingsSet, SameLists
  <2>3. SetOverlay(s)
    BY DEF Pause
  <2> HIDE DEF s
  <2>4. QED
    BY <1>1, <2>2, <2>3 DEF SetOverlay
<1>7. CASE \E a \in Adjustments : Adjust(a[1], a[2])
  <2> PICK a \in Adjustments : Adjust(a[1], a[2])
    BY <1>7
  <2> DEFINE until == IF a[1] = 0 THEN NoTime ELSE Until(a[2])
             s == [settings EXCEPT !.adjust_percent = a[1], !.adjust_until = until]
  <2>1. a[1] \in Int /\ a[2] \in Nat
    BY WeeksAssumption
  <2>2. until \in Nat
    BY <1>5, <2>1 DEF NoTime
  <2> HIDE DEF until
  <2>3. s \in Defined /\ SameLists(s)
    BY <2>1, <2>2 DEF Defined, SettingsSet, SameLists
  <2>4. SetOverlay(s)
    BY DEF Adjust, until
  <2> HIDE DEF s
  <2>5. QED
    BY <1>1, <2>3, <2>4 DEF SetOverlay
<1>8. CASE AcceptSelect
  BY <1>8 DEF AcceptSelect, TypeOK
<1>9. CASE \E b \in BOOLEAN : SetEnabled(b)
  <2> PICK b \in BOOLEAN : SetEnabled(b)
    BY <1>9
  <2> DEFINE s == [settings EXCEPT !.schedule_enabled = b]
  <2>1. s \in Defined /\ SameLists(s)
    BY DEF Defined, SettingsSet, SameLists
  <2>2. UNCHANGED previous /\ Commit("mqtt", s) /\ "mqtt" \in Threads
    BY DEF SetEnabled, Threads
  <2> HIDE DEF s
  <2>3. QED
    BY <1>1, <2>1, <2>2 DEF SetEnabled
<1>10. CASE Expire
  <2> DEFINE pause == IF Lapsed(settings.pause_until) THEN NoTime ELSE settings.pause_until
             ended == Lapsed(settings.adjust_until)
             percent == IF ended THEN 0 ELSE settings.adjust_percent
             until == IF ended THEN NoTime ELSE settings.adjust_until
             s == [settings EXCEPT !.pause_until = pause, !.adjust_percent = percent,
                                   !.adjust_until = until]
  <2>1. Commit("refresher", s) /\ UNCHANGED <<previous, events>>
    BY <1>10 DEF Expire
  <2>2. pause \in Nat /\ percent \in Int /\ until \in Nat
    BY <1>4 DEF NoTime
  <2> HIDE DEF pause, percent, until
  <2>3. s \in Defined /\ SameLists(s)
    BY <2>2 DEF Defined, SettingsSet, SameLists
  <2> HIDE DEF s
  <2>4. events' \in Nat /\ "refresher" \in Threads /\ UNCHANGED previous
    BY <2>1 DEF TypeOK, Threads
  <2>5. QED
    BY <2>1, <2>3, <2>4
<1>11. QED
  BY <1>2, <1>3, <1>6, <1>7, <1>8, <1>9, <1>10 DEF Commits

(* What they commit is well formed, and a trial that goes on can be undone. *)
LEMMA CommitsDefined ==
  ASSUME TypeOK, Commits
  PROVE  \E t \in Threads : \E s \in Defined :
           /\ Commit(t, s) /\ previous' \in SUBSET Names(s.schedules)
           /\ events' \in Nat
<1> settings \in Defined /\ "ui" \in Threads
  BY DEF TypeOK, Defined, Threads
<1>1. events' \in Nat
  BY CommitCases
<1>2. CASE \E list \in Seq(EventSet) :
             Free /\ ~ Rejects(list, settings) /\ Commit("ui", WithActiveEvents(list))
  BY <1>1, <1>2, NewActiveList DEF Free
<1>3. CASE \E s \in Defined : Free /\ SameLists(s) /\ Commit("ui", s)
  BY <1>1, <1>3 DEF Free
<1>4. CASE AcceptSelect
  BY <1>1, <1>4 DEF AcceptSelect
<1>5. CASE \E s \in Defined : \E t \in Threads :
             UNCHANGED previous /\ SameLists(s) /\ Commit(t, s)
  BY <1>1, <1>5 DEF SameLists, TypeOK
<1>6. QED
  BY <1>2, <1>3, <1>4, <1>5, CommitCases

LEMMA CommitType ==
  ASSUME TypeOK, NEW t \in Threads, NEW s \in Defined, Commit(t, s),
         previous' \in SUBSET Names(s.schedules), events' \in Nat
  PROVE  TypeOK'
<1>1. /\ settings' = s /\ unsaved' = unsaved \cup {t}
      /\ recent' = Append(recent, Undo(s, previous'))
      /\ UNCHANGED <<up, week, file, temp, taken, caught, tampered>>
  BY DEF Commit
<1>2. s \in SettingsSet /\ s.active_schedule \in Names(s.schedules)
  BY DEF Defined
<1>3. Undo(s, previous') \in SettingsSet
  BY UndoFacts DEF Defined
<1>4. /\ recent' \in Seq(SettingsSet) /\ recent' # <<>>
      /\ DOMAIN recent \subseteq DOMAIN recent'
  BY <1>1, <1>3 DEF TypeOK
<1>5. taken' \in [Threads -> DOMAIN recent']
  BY <1>1, <1>4 DEF TypeOK
<1>6. untried' \subseteq Seq(EventSet)
  BY ActiveFacts DEF Commit, TypeOK
<1>7. QED
  BY <1>1, <1>2, <1>4, <1>5, <1>6 DEF TypeOK

LEMMA InitTypeOK == Init => TypeOK
<1> SUFFICES ASSUME Init PROVE TypeOK
  OBVIOUS
<1>1. Absent \in FileSet /\ file \in FileSet
  BY TamperedAssumption DEF Init, FileSet
<1>2. settings \in SettingsSet /\ settings.active_schedule \in Names(settings.schedules)
  BY <1>1, LoadDefined DEF Init, Defined
<1>3. up \in BOOLEAN /\ tampered \in BOOLEAN /\ week \in Weeks
  <2>1. 1 \in 1 .. MaxWeek
    BY BoundsAssumption
  <2>2. QED
    BY <2>1 DEF Init, Weeks
<1>4. recent \in Seq(SettingsSet) /\ recent # <<>> /\ DOMAIN recent = {1}
  BY <1>2 DEF Init
<1>5. taken \in [Threads -> DOMAIN recent]
  BY <1>4 DEF Init
<1>6. QED
  BY <1>1, <1>2, <1>3, <1>4, <1>5 DEF Init, TypeOK

LEMMA SelectType ==
  ASSUME TypeOK, (\E name \in Names(settings.schedules) : BeginSelect(name)) \/ RefuseSelect
  PROVE  TypeOK'
<1> settings \in Defined
  BY DEF TypeOK, Defined
<1>1. UNCHANGED <<up, week, file, unsaved, temp, recent, taken, caught, untried, tampered>>
  BY DEF BeginSelect, RefuseSelect, history
<1>2. CASE \E name \in Names(settings.schedules) : BeginSelect(name)
  <2> PICK name \in Names(settings.schedules) : BeginSelect(name)
    BY <1>2
  <2>1. name \in STRING
    BY NamesAreStrings DEF Defined, SettingsSet
  <2>2. /\ settings' \in SettingsSet
        /\ settings'.schedules = settings.schedules /\ settings'.active_schedule = name
    BY <2>1 DEF BeginSelect, Defined, SettingsSet
  <2>3. previous' \in SUBSET Names(settings.schedules) /\ events' \in Nat
    BY DEF BeginSelect, Bounded, TypeOK
  <2>4. QED
    BY <1>1, <2>2, <2>3 DEF TypeOK
<1>3. CASE RefuseSelect
  <2>1. Undo(settings, previous) \in Defined
    BY UndoFacts DEF TypeOK
  <2>2. settings' \in SettingsSet /\ settings'.active_schedule \in Names(settings'.schedules)
    BY <1>3, <2>1 DEF RefuseSelect, Defined
  <2>3. previous' = {} /\ UNCHANGED events
    BY <1>3 DEF RefuseSelect
  <2>4. QED
    BY <1>1, <2>2, <2>3 DEF TypeOK
<1>4. QED
  BY <1>2, <1>3

(* There is an oldest snapshot as long as there is one.                    *)
LEMMA OldestFacts ==
  ASSUME TypeOK, NEW t \in Saving
  PROVE  /\ Oldest \in 1 .. Len(recent)
         /\ \A u \in Saving : Oldest <= taken[u]
         /\ \A u \in Saving : taken[u] \in 1 .. Len(recent)
<1> DEFINE T == {taken[u] : u \in Saving}
<1>1. \A u \in Saving : taken[u] \in 1 .. Len(recent)
  BY LenProperties DEF TypeOK, Saving
<1>2. T \in SUBSET Nat /\ T # {}
  BY <1>1
<1>3. \E v \in T : \A w \in T : v <= w
  BY <1>2, LeastNumber
<1>4. Oldest \in T /\ \A u \in Saving : Oldest <= taken[u]
  BY <1>3 DEF Oldest
<1>5. QED
  BY <1>1, <1>4

(* A rename leaves the settings that a crash may cost from then on.        *)
LEMMA RenameFacts ==
  ASSUME TypeOK, NEW t \in Threads, Rename(t)
  PROVE  /\ Oldest \in 1 .. Len(recent)
         /\ recent' \in Seq(SettingsSet)
         /\ Len(recent') = Len(recent) - (Oldest - 1) /\ Len(recent') \in Nat \ {0}
         /\ DOMAIN recent' = 1 .. Len(recent')
         /\ \A k \in 1 .. Len(recent') :
              /\ k + (Oldest - 1) \in DOMAIN recent
              /\ recent'[k] = recent[k + (Oldest - 1)]
         /\ \A u \in Threads :
              IF u # t /\ temp[u] # {}
                THEN /\ taken'[u] = taken[u] - (Oldest - 1) /\ taken'[u] \in DOMAIN recent'
                     /\ recent'[taken'[u]] = recent[taken[u]]
                ELSE taken'[u] = 1 /\ taken'[u] \in DOMAIN recent'
         /\ taken[t] - (Oldest - 1) \in DOMAIN recent'
         /\ recent'[taken[t] - (Oldest - 1)] = recent[taken[t]]
         /\ accepted' = accepted
         /\ temp' = [temp EXCEPT ![t] = {}]
         /\ DOMAIN temp' = Threads
<1> DEFINE o == Oldest
           n == Len(recent)
<1>1. /\ recent' = SubSeq(recent, o, n) /\ temp' = [temp EXCEPT ![t] = {}]
      /\ taken' = [u \in Threads |-> IF temp'[u] = {} THEN 1 ELSE taken[u] - (o - 1)]
      /\ t \in Saving
  BY DEF Rename, Saving
<1>2. /\ o \in 1 .. n
      /\ \A u \in Saving : o <= taken[u] /\ taken[u] \in 1 .. n
  BY <1>1, OldestFacts
<1>3. n \in Nat /\ DOMAIN recent = 1 .. n /\ recent \in Seq(SettingsSet)
  BY LenProperties DEF TypeOK
<1> HIDE DEF o, n
<1>4. /\ recent' \in Seq(SettingsSet) /\ Len(recent') = n - (o - 1)
      /\ \A k \in 1 .. n - (o - 1) : recent'[k] = recent[k + (o - 1)]
  <2>1. \A k \in o .. n : recent[k] \in SettingsSet
    BY <1>2, <1>3, ElementOfSeq DEF n
  <2>2. recent' = [k \in 1 .. (n - o) + 1 |-> recent[(o + k) - 1]]
    BY <1>1, <1>2, <1>3
  <2>3. \A k \in 1 .. (n - o) + 1 : recent[(o + k) - 1] \in SettingsSet
    BY <1>2, <1>3, <2>1
  <2>4. (n - o) + 1 \in Nat /\ (n - o) + 1 = n - (o - 1)
    BY <1>2, <1>3
  <2>5. recent' \in Seq(SettingsSet) /\ Len(recent') = (n - o) + 1
    BY <2>2, <2>3, <2>4, IsASeq
  <2>6. \A k \in 1 .. n - (o - 1) : recent'[k] = recent[(o + k) - 1] /\ (o + k) - 1 = k + (o - 1)
    BY <1>2, <1>3, <2>2, <2>4
  <2>7. QED
    BY <2>4, <2>5, <2>6
<1>5. /\ Len(recent') \in Nat \ {0} /\ DOMAIN recent' = 1 .. n - (o - 1)
      /\ \A k \in 1 .. n - (o - 1) : k + (o - 1) \in 1 .. n
  BY <1>2, <1>3, <1>4, LenProperties
<1>6. ASSUME NEW u \in Saving
      PROVE  /\ taken[u] - (o - 1) \in DOMAIN recent'
             /\ recent'[taken[u] - (o - 1)] = recent[taken[u]]
  <2>1. PICK v \in 1 .. n : v = taken[u] /\ o <= v
    BY <1>2
  <2>2. v - (o - 1) \in 1 .. n - (o - 1) /\ (v - (o - 1)) + (o - 1) = v
    BY <1>2, <1>3, <2>1
  <2>3. QED
    BY <1>4, <1>5, <2>1, <2>2
<1>7. DOMAIN temp' = Threads /\ \A u \in Threads : temp'[u] = IF u = t THEN {} ELSE temp[u]
  BY <1>1 DEF TypeOK
<1>8. ASSUME NEW u \in Threads
      PROVE  IF u # t /\ temp[u] # {}
                THEN /\ taken'[u] = taken[u] - (o - 1) /\ taken'[u] \in DOMAIN recent'
                     /\ recent'[taken'[u]] = recent[taken[u]]
                ELSE taken'[u] = 1 /\ taken'[u] \in DOMAIN recent'
  <2>1. 1 \in DOMAIN recent'
    BY <1>4, <1>5
  <2>2. taken'[u] = IF temp'[u] = {} THEN 1 ELSE taken[u] - (o - 1)
    BY <1>1
  <2>3. CASE u # t /\ temp[u] # {}
    BY <1>6, <1>7, <2>2, <2>3 DEF Saving
  <2>4. CASE ~ (u # t /\ temp[u] # {})
    BY <1>7, <2>1, <2>2, <2>4
  <2>5. QED
    BY <2>3, <2>4
<1>9. accepted' = accepted
  <2>1. n - (o - 1) \in 1 .. n - (o - 1) /\ (n - (o - 1)) + (o - 1) = n
    BY <1>2, <1>3
  <2>2. recent'[n - (o - 1)] = recent[n]
    BY <1>4, <2>1
  <2>3. QED
    BY <1>4, <2>2 DEF accepted, n
<1>10. QED
  BY <1>1, <1>2, <1>3, <1>4, <1>5, <1>6, <1>7, <1>8, <1>9 DEF o, n

LEMMA SaveType ==
  ASSUME TypeOK, NEW t \in Threads, Save(t) \/ Rename(t) \/ SaveFails(t)
  PROVE  TypeOK'
<1> settings \in Defined
  BY DEF TypeOK, Defined
<1>1. CASE Save(t)
  <2>1. Len(recent) \in DOMAIN recent
    BY LenProperties, EmptySeq DEF TypeOK
  <2>2. taken' \in [Threads -> DOMAIN recent]
    BY <1>1, <2>1 DEF Save, TypeOK
  <2>3. untried' \subseteq Seq(EventSet)
    BY <1>1, ActiveFacts DEF Save, TypeOK
  <2>4. \A u \in Threads : \A data \in temp'[u] : Json(data) \in FileSet
    BY <1>1, SnapshotType DEF Save, TypeOK
  <2>5. /\ DOMAIN temp' = Threads /\ unsaved' \subseteq Threads
        /\ caught' \subseteq Threads \cup {"file"}
    BY <1>1 DEF Save, TypeOK
  <2>6. UNCHANGED <<up, week, settings, previous, file, recent, tampered, events>>
    BY <1>1 DEF Save
  <2>7. QED
    BY <2>2, <2>3, <2>4, <2>5, <2>6 DEF TypeOK
<1>2. CASE Rename(t)
  <2>1. /\ recent' \in Seq(SettingsSet) /\ recent' # <<>>
        /\ \A u \in Threads : taken'[u] \in DOMAIN recent'
        /\ temp' = [temp EXCEPT ![t] = {}] /\ DOMAIN temp' = Threads
    <3>1. /\ recent' \in Seq(SettingsSet) /\ Len(recent') \in Nat \ {0}
          /\ \A u \in Threads : taken'[u] \in DOMAIN recent'
          /\ temp' = [temp EXCEPT ![t] = {}] /\ DOMAIN temp' = Threads
      BY <1>2, RenameFacts
    <3>2. QED
      BY <3>1, EmptySeq
  <2>2. taken' \in [Threads -> DOMAIN recent']
    BY <1>2, <2>1 DEF Rename
  <2>3. file' \in FileSet
    BY <1>2 DEF Rename, TypeOK
  <2>4. \A u \in Threads : \A data \in temp'[u] : Json(data) \in FileSet
    BY <2>1 DEF TypeOK
  <2>5. caught' \subseteq Threads \cup {"file"}
    BY <1>2 DEF Rename, TypeOK
  <2>6. UNCHANGED <<up, week, settings, previous, unsaved, untried, tampered, events>>
    BY <1>2 DEF Rename
  <2>7. QED
    BY <2>1, <2>2, <2>3, <2>4, <2>5, <2>6 DEF TypeOK
<1>3. CASE SaveFails(t)
  <2>1. 1 \in DOMAIN recent
    BY LenProperties, EmptySeq DEF TypeOK
  <2>2. taken' \in [Threads -> DOMAIN recent]
    BY <1>3, <2>1 DEF SaveFails, TypeOK
  <2>3. /\ DOMAIN temp' = Threads /\ caught' \subseteq Threads \cup {"file"} /\ events' \in Nat
        /\ \A u \in Threads : \A data \in temp'[u] : Json(data) \in FileSet
    BY <1>3 DEF SaveFails, Bounded, TypeOK
  <2>4. UNCHANGED <<up, week, settings, previous, file, unsaved, recent, untried, tampered>>
    BY <1>3 DEF SaveFails
  <2>5. QED
    BY <2>2, <2>3, <2>4 DEF TypeOK
<1>4. QED
  BY <1>1, <1>2, <1>3

LEMMA RestartType ==
  ASSUME TypeOK, NothingPendsWhileDown,
         \/ Crash \/ Start \/ WeekTurns
         \/ \E f \in Tampered \cup {Absent, Unreadable} : Tamper(f)
  PROVE  TypeOK'
<1>1. 1 \in DOMAIN recent
  BY LenProperties, EmptySeq DEF TypeOK
<1>2. CASE Crash
  <2>1. /\ up' \in BOOLEAN /\ unsaved' \subseteq Threads /\ previous' = {}
        /\ taken' \in [Threads -> DOMAIN recent] /\ caught' \subseteq Threads \cup {"file"}
        /\ DOMAIN temp' = Threads /\ \A t \in Threads : temp'[t] = {}
    BY <1>1, <1>2 DEF Crash, TypeOK
  <2>2. UNCHANGED <<week, settings, file, recent, untried, tampered, events>>
    BY <1>2 DEF Crash
  <2>3. QED
    BY <2>1, <2>2 DEF TypeOK
<1>3. CASE Start
  <2>1. /\ settings' \in Defined /\ settings' \in SettingsSet
        /\ settings'.active_schedule \in Names(settings'.schedules)
    BY <1>3, LoadDefined DEF Start, TypeOK, Defined
  <2>2. /\ recent' \in Seq(SettingsSet) /\ recent' # <<>> /\ DOMAIN recent' = {1}
    BY <1>3, <2>1 DEF Start
  <2>3. taken' \in [Threads -> DOMAIN recent']
    BY <1>3, <2>2 DEF Start, NothingPendsWhileDown, TypeOK
  <2>4. untried' \subseteq Seq(EventSet)
    BY <1>3, <2>1, ActiveFacts DEF Start, TypeOK
  <2>5. /\ previous' = {} /\ up' \in BOOLEAN /\ unsaved' \subseteq Threads /\ caught' = {}
        /\ tampered' \in BOOLEAN /\ UNCHANGED <<week, file, temp, events>>
    BY <1>3 DEF Start, NothingPendsWhileDown, Threads
  <2>6. QED
    BY <2>1, <2>2, <2>3, <2>4, <2>5 DEF TypeOK
<1>4. CASE WeekTurns
  <2>1. week' \in Weeks
    BY <1>4, BoundsAssumption DEF WeekTurns, TypeOK, Weeks
  <2>2. UNCHANGED <<up, settings, previous, file, unsaved, temp, recent, taken, caught, untried,
                   tampered, events>>
    BY <1>4 DEF WeekTurns, history
  <2>3. QED
    BY <2>1, <2>2 DEF TypeOK
<1>5. CASE \E f \in Tampered \cup {Absent, Unreadable} : Tamper(f)
  <2>1. file' \in FileSet
    BY <1>5, TamperedAssumption DEF Tamper, FileSet
  <2>2. events' \in Nat /\ tampered' \in BOOLEAN /\ caught' = {}
    BY <1>5 DEF Tamper, Bounded, TypeOK
  <2>3. UNCHANGED <<up, week, settings, previous, unsaved, temp, recent, taken, untried>>
    BY <1>5 DEF Tamper
  <2>4. QED
    BY <2>1, <2>2, <2>3 DEF TypeOK
<1>6. QED
  BY <1>2, <1>3, <1>4, <1>5

LEMMA NextTypeOK == TypeOK /\ NothingPendsWhileDown /\ [Next]_vars => TypeOK'
<1> SUFFICES ASSUME TypeOK, NothingPendsWhileDown, [Next]_vars PROVE TypeOK'
  OBVIOUS
<1>1. CASE Commits
  BY <1>1, CommitsDefined, CommitType
<1>2. CASE UNCHANGED vars
  BY <1>2 DEF vars, history, TypeOK
<1>3. QED
  BY <1>1, <1>2, SelectType, SaveType, RestartType DEF Next, Commits

-----------------------------------------------------------------------------
(* What is accepted, saved and loaded                                      *)

LEMMA CommitEdit ==
  ASSUME TypeOK, EditInv, NEW t \in Threads, NEW s \in Defined, Commit(t, s),
         previous' \in SUBSET Names(s.schedules)
  PROVE  EditInv'
<1>1. /\ up /\ settings' = s /\ recent' = Append(recent, Undo(s, previous'))
      /\ UNCHANGED <<up, file, temp, taken, caught, tampered>>
  BY DEF Commit, Idle
<1>2. Undo(s, previous') \in Defined /\ Undo(s, previous') \in SettingsSet
  BY UndoFacts DEF Defined
<1>3. /\ Len(recent) \in Nat /\ Len(recent') = Len(recent) + 1
      /\ DOMAIN recent = 1 .. Len(recent) /\ DOMAIN recent' = 1 .. Len(recent) + 1
      /\ \A k \in DOMAIN recent : recent'[k] = recent[k]
      /\ recent'[Len(recent) + 1] = Undo(s, previous')
  BY <1>1, <1>2, AppendProperties, LenProperties DEF TypeOK
<1>4. DOMAIN recent \subseteq DOMAIN recent'
  BY <1>3
<1>5. AcceptedInForce'
  BY <1>1, <1>3 DEF AcceptedInForce, accepted
<1>6. RecentDefined'
  BY <1>2, <1>3 DEF RecentDefined, EditInv
<1>7. SnapshotsAreTaken'
  <2>1. \A u \in Threads : recent'[taken[u]] = recent[taken[u]]
    BY <1>3 DEF TypeOK
  <2>2. QED
    BY <1>1, <2>1 DEF SnapshotsAreTaken, EditInv
<1>8. FileIsRecent'
  BY <1>1, <1>3, <1>4 DEF FileIsRecent, EditInv
<1>9. NothingPendsWhileDown' /\ ReadOnceStarted'
  BY <1>1 DEF NothingPendsWhileDown, ReadOnceStarted, EditInv
<1>10. QED
  BY <1>5, <1>6, <1>7, <1>8, <1>9 DEF EditInv

(* Making a candidate active and undoing it leaves what was accepted.      *)
LEMMA SelectEdit ==
  ASSUME TypeOK, EditInv,
         (\E name \in Names(settings.schedules) : BeginSelect(name)) \/ RefuseSelect
  PROVE  EditInv'
<1> settings \in Defined
  BY DEF TypeOK, Defined
<1>1. up /\ UNCHANGED <<up, file, unsaved, temp, recent, taken, caught, tampered>>
  BY DEF BeginSelect, RefuseSelect, history, Idle
<1>2. Undo(settings', previous') = accepted
  <2>1. CASE \E name \in Names(settings.schedules) : BeginSelect(name)
    <3> PICK name \in Names(settings.schedules) : BeginSelect(name)
      BY <2>1
    <3>1. previous = {} /\ accepted = settings
      BY <1>1, UndoFacts DEF BeginSelect, EditInv, AcceptedInForce, TypeOK
    <3>2. /\ settings' = [settings EXCEPT !.active_schedule = name]
          /\ previous' = {settings.active_schedule}
      BY DEF BeginSelect
    <3>3. Undo(settings', previous') =
            [settings' EXCEPT !.active_schedule = settings.active_schedule]
      BY <3>2 DEF Undo, Defined, SettingsSet
    <3>4. QED
      BY <3>1, <3>2, <3>3 DEF Defined, SettingsSet
  <2>2. CASE RefuseSelect
    <3>1. settings' = accepted /\ settings' \in Defined /\ previous' = {}
      BY <1>1, <2>2, UndoFacts DEF RefuseSelect, EditInv, AcceptedInForce, TypeOK
    <3>2. QED
      BY <3>1, UndoFacts
  <2>3. QED
    BY <2>1, <2>2
<1>3. AcceptedInForce'
  BY <1>1, <1>2 DEF AcceptedInForce, accepted
<1>4. /\ NothingPendsWhileDown' /\ ReadOnceStarted' /\ RecentDefined'
      /\ SnapshotsAreTaken' /\ FileIsRecent'
  BY <1>1 DEF EditInv, NothingPendsWhileDown, ReadOnceStarted, RecentDefined,
     SnapshotsAreTaken, FileIsRecent
<1>5. QED
  BY <1>3, <1>4 DEF EditInv

(* A snapshot is of the last accepted settings, unless a trial is on.      *)
LEMMA SaveEdit ==
  ASSUME TypeOK, EditInv, NEW t \in Threads, Save(t)
  PROVE  EditInv'
<1> settings \in Defined
  BY DEF TypeOK, Defined
<1>1. /\ t \in unsaved /\ temp' = [temp EXCEPT ![t] = {Snapshot(settings)}]
      /\ taken' = [taken EXCEPT ![t] = Len(recent)]
      /\ caught' = (caught \ {t}) \cup (IF previous = {} THEN {} ELSE {t})
      /\ UNCHANGED <<up, settings, previous, file, recent, tampered>>
  BY DEF Save
<1>2. up
  BY <1>1 DEF EditInv, NothingPendsWhileDown
<1>3. previous = {} => settings = recent[Len(recent)]
  BY <1>2, UndoFacts DEF EditInv, AcceptedInForce, accepted
<1>4. \A u \in Threads :
        /\ temp'[u] = IF u = t THEN {Snapshot(settings)} ELSE temp[u]
        /\ taken'[u] = IF u = t THEN Len(recent) ELSE taken[u]
  BY <1>1 DEF TypeOK
<1>5. SnapshotsAreTaken'
  <2>1. ASSUME NEW u \in Threads, temp'[u] # {}
        PROVE  /\ \E s \in Defined : temp'[u] = {Snapshot(s)}
               /\ u \notin caught' => temp'[u] = {Snapshot(recent[taken'[u]])}
    <3>1. CASE u = t
      BY <1>1, <1>3, <1>4, <3>1
    <3>2. CASE u # t
      <4>1. temp'[u] = temp[u] /\ taken'[u] = taken[u] /\ (u \in caught => u \in caught')
        BY <1>1, <1>4, <3>2
      <4>2. QED
        BY <2>1, <4>1 DEF EditInv, SnapshotsAreTaken
    <3>3. QED
      BY <3>1, <3>2
  <2>2. QED
    BY <1>1, <2>1 DEF SnapshotsAreTaken
<1>6. "file" \in caught => "file" \in caught'
  BY <1>1 DEF Threads
<1>7. FileIsRecent'
  BY <1>1, <1>6 DEF EditInv, FileIsRecent
<1>8. NothingPendsWhileDown' /\ ReadOnceStarted' /\ AcceptedInForce' /\ RecentDefined'
  BY <1>1, <1>2 DEF EditInv, NothingPendsWhileDown, ReadOnceStarted, AcceptedInForce, accepted,
     RecentDefined
<1>9. QED
  BY <1>5, <1>7, <1>8 DEF EditInv

(* A file that is renamed over is of the settings its snapshot is of, and  *)
(* these stay recent, however many newer ones there are.                   *)
LEMMA RenameEdit ==
  ASSUME TypeOK, EditInv, NEW t \in Threads, Rename(t)
  PROVE  EditInv'
<1>1. /\ temp[t] # {} /\ file' = Json(CHOOSE d \in temp[t] : TRUE)
      /\ caught' = (caught \ {t, "file"}) \cup (IF t \in caught THEN {"file"} ELSE {})
      /\ UNCHANGED <<up, settings, previous, tampered>>
  BY DEF Rename
<1>2. up
  BY <1>1 DEF EditInv, NothingPendsWhileDown
<1> DEFINE o == Oldest
<1>3. /\ DOMAIN recent' = 1 .. Len(recent')
      /\ \A k \in 1 .. Len(recent') :
           k + (o - 1) \in DOMAIN recent /\ recent'[k] = recent[k + (o - 1)]
      /\ \A u \in Threads :
           u # t /\ temp[u] # {} => recent'[taken'[u]] = recent[taken[u]]
      /\ taken[t] - (o - 1) \in DOMAIN recent'
      /\ recent'[taken[t] - (o - 1)] = recent[taken[t]]
      /\ accepted' = accepted
      /\ temp' = [temp EXCEPT ![t] = {}]
  BY RenameFacts
<1> HIDE DEF o
<1>4. RecentDefined'
  BY <1>3 DEF EditInv, RecentDefined
<1>5. SnapshotsAreTaken'
  <2>1. ASSUME NEW u \in Threads, temp'[u] # {}
        PROVE  /\ \E s \in Defined : temp'[u] = {Snapshot(s)}
               /\ u \notin caught' => temp'[u] = {Snapshot(recent'[taken'[u]])}
    <3>1. u # t /\ temp'[u] = temp[u]
      BY <1>3, <2>1 DEF TypeOK
    <3>2. recent'[taken'[u]] = recent[taken[u]]
      BY <1>3, <2>1, <3>1
    <3>3. u \in caught => u \in caught'
      BY <1>1, <3>1 DEF Threads
    <3>4. QED
      BY <2>1, <3>1, <3>2, <3>3 DEF EditInv, SnapshotsAreTaken
  <2>2. QED
    BY <2>1 DEF SnapshotsAreTaken
<1>6. FileIsRecent'
  <2>1. SUFFICES ASSUME "file" \notin caught'
                 PROVE  \E k \in DOMAIN recent' : Load(file') = Named(recent'[k])
    BY DEF FileIsRecent
  <2>2. t \notin caught
    BY <1>1, <2>1
  <2>3. temp[t] = {Snapshot(recent[taken[t]])}
    BY <1>1, <2>2 DEF EditInv, SnapshotsAreTaken
  <2>4. file' = Json(Snapshot(recent[taken[t]]))
    BY <1>1, <2>3
  <2>5. recent[taken[t]] \in Defined
    BY DEF EditInv, RecentDefined, TypeOK
  <2>6. Load(file') = Named(recent[taken[t]])
    BY <2>4, <2>5, SavedIsLoaded
  <2>7. QED
    BY <1>3, <2>6
<1>7. NothingPendsWhileDown' /\ ReadOnceStarted' /\ AcceptedInForce'
  BY <1>1, <1>2, <1>3 DEF EditInv, NothingPendsWhileDown, ReadOnceStarted, AcceptedInForce
<1>8. QED
  BY <1>4, <1>5, <1>6, <1>7 DEF EditInv

LEMMA SaveFailsEdit ==
  ASSUME TypeOK, EditInv, NEW t \in Threads, SaveFails(t)
  PROVE  EditInv'
<1>1. /\ temp[t] # {} /\ temp' = [temp EXCEPT ![t] = {}] /\ taken' = [taken EXCEPT ![t] = 1]
      /\ caught' = caught \ {t}
      /\ UNCHANGED <<up, settings, previous, file, recent, tampered>>
  BY DEF SaveFails
<1>2. up
  BY <1>1 DEF EditInv, NothingPendsWhileDown
<1>3. SnapshotsAreTaken'
  <2>1. ASSUME NEW u \in Threads, temp'[u] # {}
        PROVE  /\ \E s \in Defined : temp'[u] = {Snapshot(s)}
               /\ u \notin caught' => temp'[u] = {Snapshot(recent[taken'[u]])}
    <3>1. u # t /\ temp'[u] = temp[u] /\ taken'[u] = taken[u]
      BY <1>1, <2>1 DEF TypeOK
    <3>2. u \in caught => u \in caught'
      BY <1>1, <3>1
    <3>3. QED
      BY <2>1, <3>1, <3>2 DEF EditInv, SnapshotsAreTaken
  <2>2. QED
    BY <1>1, <2>1 DEF SnapshotsAreTaken
<1>4. "file" \in caught => "file" \in caught'
  BY <1>1 DEF Threads
<1>5. QED
  BY <1>1, <1>2, <1>3, <1>4 DEF EditInv, NothingPendsWhileDown, ReadOnceStarted,
     AcceptedInForce, accepted, RecentDefined, FileIsRecent

LEMMA RestartEdit ==
  ASSUME TypeOK, EditInv,
         \/ Crash \/ Start \/ WeekTurns \/ UNCHANGED vars
         \/ \E f \in Tampered \cup {Absent, Unreadable} : Tamper(f)
  PROVE  EditInv'
<1>1. CASE Crash
  <2>1. /\ ~ up' /\ previous' = {} /\ unsaved' = {}
        /\ \A t \in Threads : temp'[t] = {} /\ taken'[t] = 1
        /\ "file" \in caught => "file" \in caught'
        /\ UNCHANGED <<file, recent, tampered>>
    BY <1>1 DEF Crash
  <2>2. QED
    BY <2>1 DEF EditInv, NothingPendsWhileDown, ReadOnceStarted, AcceptedInForce,
       RecentDefined, SnapshotsAreTaken, FileIsRecent
<1>2. CASE Start
  <2>1. settings' \in Defined /\ Named(settings') = settings'
    BY <1>2, LoadDefined DEF Start, TypeOK
  <2>2. /\ up' /\ previous' = {} /\ recent' = <<settings'>> /\ ~ tampered' /\ UNCHANGED file
        /\ settings' = Load(file) /\ \A t \in Threads : temp'[t] = {}
    BY <1>2 DEF Start, EditInv, NothingPendsWhileDown
  <2>3. DOMAIN recent' = {1} /\ recent'[1] = settings' /\ Len(recent') = 1
    BY <2>2
  <2>4. AcceptedInForce'
    BY <2>1, <2>2, <2>3, UndoFacts DEF AcceptedInForce, accepted
  <2>5. RecentDefined' /\ SnapshotsAreTaken' /\ NothingPendsWhileDown' /\ ReadOnceStarted'
    BY <2>1, <2>2, <2>3 DEF RecentDefined, SnapshotsAreTaken, NothingPendsWhileDown,
       ReadOnceStarted
  <2>6. FileIsRecent'
    BY <2>1, <2>2, <2>3 DEF FileIsRecent
  <2>7. QED
    BY <2>4, <2>5, <2>6 DEF EditInv
<1>3. CASE WeekTurns \/ UNCHANGED vars
  <2>1. UNCHANGED <<up, settings, previous, file, unsaved, temp, recent, taken, caught, tampered>>
    BY <1>3 DEF WeekTurns, vars, history
  <2>2. QED
    BY <2>1 DEF EditInv, NothingPendsWhileDown, ReadOnceStarted, AcceptedInForce, accepted,
       RecentDefined, SnapshotsAreTaken, FileIsRecent
<1>4. CASE \E f \in Tampered \cup {Absent, Unreadable} : Tamper(f)
  <2>1. /\ ~ up /\ tampered'
        /\ UNCHANGED <<up, settings, previous, unsaved, temp, recent, taken>>
    BY <1>4 DEF Tamper
  <2>2. QED
    BY <2>1 DEF EditInv, NothingPendsWhileDown, ReadOnceStarted, AcceptedInForce,
       RecentDefined, SnapshotsAreTaken, FileIsRecent
<1>5. QED
  BY <1>1, <1>2, <1>3, <1>4

LEMMA NextEdit == TypeOK /\ EditInv /\ [Next]_vars => EditInv'
<1> SUFFICES ASSUME TypeOK, EditInv, [Next]_vars PROVE EditInv'
  OBVIOUS
<1>1. CASE Commits
  BY <1>1, CommitsDefined, CommitEdit
<1>2. QED
  BY <1>1, SelectEdit, SaveEdit, RenameEdit, SaveFailsEdit, RestartEdit DEF Next, Commits

LEMMA InitEdit == Init => EditInv
<1> SUFFICES ASSUME Init PROVE EditInv
  OBVIOUS
<1>1. Absent \in FileSet
  BY DEF FileSet
<1>2. settings \in Defined
  BY <1>1, LoadDefined DEF Init
<1>3. DOMAIN recent = {1} /\ recent[1] = settings
  BY DEF Init
<1>4. QED
  BY <1>2, <1>3 DEF Init, EditInv, NothingPendsWhileDown, ReadOnceStarted, AcceptedInForce,
     RecentDefined, SnapshotsAreTaken, FileIsRecent

(* The inductive invariant of edits, trials and saves.                     *)
THEOREM EditInvariance == Spec => [](TypeOK /\ EditInv)
<1>1. Init => TypeOK /\ EditInv
  BY InitTypeOK, InitEdit
<1>2. (TypeOK /\ EditInv) /\ [Next]_vars => (TypeOK /\ EditInv)'
  BY NextTypeOK, NextEdit DEF EditInv
<1>3. QED
  BY <1>1, <1>2, PTL DEF Spec

(* Whatever file the server is started on, its settings are well formed    *)
(* and the active schedule is a defined one.                               *)
THEOREM TypeCorrect == Spec => []TypeOK
BY EditInvariance, PTL

LEMMA InForce ==
  ASSUME TypeOK, EditInv, up, previous = {}
  PROVE  settings = accepted
<1>1. settings \in Defined
  BY DEF TypeOK, Defined
<1>2. QED
  BY <1>1, UndoFacts DEF EditInv, AcceptedInForce

(* A refused edit leaves nothing behind, whoever committed what while      *)
(* select_schedule had its candidate in place.                             *)
THEOREM RefusalsLeaveNoTrace == Spec => []RefusalLeavesNoTrace
<1>1. TypeOK /\ EditInv => RefusalLeavesNoTrace
  BY InForce DEF RefusalLeavesNoTrace
<1>2. QED
  BY <1>1, EditInvariance, PTL

(* Once the last edit is saved and no older snapshot has been or can be    *)
(* renamed over it, the file gives back what is in force.                  *)
THEOREM RestartsChangeNothing == Spec => []RestartChangesNothing
<1>1. TypeOK /\ EditInv => RestartChangesNothing
  <2>1. SUFFICES ASSUME TypeOK, EditInv, up, previous = {}, Saved
                 PROVE  Load(file) = Named(settings)
    BY DEF RestartChangesNothing
  <2>2. settings = accepted
    BY <2>1, InForce
  <2>3. DOMAIN recent = {1} /\ accepted = recent[1]
    BY <2>1, LenProperties DEF Saved, TypeOK, accepted
  <2>4. \E k \in DOMAIN recent : Load(file) = Named(recent[k])
    BY <2>1 DEF Saved, EditInv, FileIsRecent, ReadOnceStarted
  <2>5. QED
    BY <2>2, <2>3, <2>4
<1>2. QED
  BY <1>1, EditInvariance, PTL

RestoresRecent ==
  ~ up /\ up' /\ ~ tampered /\ "file" \notin caught
    => \E k \in DOMAIN recent : settings' = Named(recent[k])

(* A crash, wherever it falls and whatever saves it cuts off, leaves the   *)
(* settings of one moment, and the last one that was safely saved or a     *)
(* later one.                                                              *)
THEOREM RestartsCostOnlyUnsaved == Spec => RestartCostsOnlyUnsaved
<1>1. TypeOK /\ EditInv /\ [Next]_vars => [RestoresRecent]_vars
  <2>1. SUFFICES ASSUME EditInv, [Next]_vars, ~ up, up', ~ tampered, "file" \notin caught
        PROVE  \E k \in DOMAIN recent : settings' = Named(recent[k])
    BY DEF RestoresRecent
  <2>2. CASE Start
    BY <2>1, <2>2 DEF Start, EditInv, FileIsRecent
  <2>3. CASE ~ Start
    BY <2>1, <2>3 DEF Next, SetEvent, SetSchedule, Pause, Adjust, SetOverlay, AcceptSelect,
       SetEnabled, Expire, Commit, Idle, BeginSelect, RefuseSelect, Save, Rename, SaveFails,
       Crash, Tamper, WeekTurns, vars
  <2>4. QED
    BY <2>2, <2>3
<1>2. QED
  BY <1>1, EditInvariance, PTL DEF Spec, RestartCostsOnlyUnsaved, RestoresRecent

-----------------------------------------------------------------------------
(* Which lists have seen a trial                                           *)

LEMMA SnapshotIsOne ==
  ASSUME NEW r \in Defined, NEW s \in Defined, Snapshot(r) = Snapshot(s)
  PROVE  r = s
BY SnapshotIsParsed DEF Defined

(* A list that is not rejected while no overlay is on fits alone.          *)
LEMMA TriedWhole ==
  ASSUME TypeOK, NEW list, NEW s, ~ Rejects(list, s),
         ~ Paused(s, week), ~ Adjusting(s, week)
  PROVE  FitsAlone(list)
<1>1. /\ Waterings(list) <= Capacity
      /\ \A k \in DOMAIN list : list[k].duration_min <= MaxDuration
      /\ <<list, week>> \notin Overrun
  BY DEF Rejects, Fits
<1>2. ASSUME ~ HasSun(list), NEW w \in Weeks, <<list, w>> \in Overrun PROVE FALSE
  <2> DEFINE p == <<list, w>>
  <2>1. p \in Overrun /\ p[1] = list
    BY <1>2
  <2>2. {list} \X Weeks \subseteq Overrun
    BY <1>2, <2>1, OverrunAssumption
  <2>3. <<list, week>> \in {list} \X Weeks
    BY DEF TypeOK
  <2>4. QED
    BY <1>1, <2>2, <2>3
<1>3. QED
  BY <1>1, <1>2 DEF FitsAlone

(* A commit outside a trial is of a list that fits alone, that an overlay  *)
(* hides, or that was accepted before; a commit during one leaves the      *)
(* accepted list.                                                          *)
LEMMA CommitKnown ==
  ASSUME TypeOK, ListsAreKnown, NEW t \in Threads, NEW s \in Defined, Commit(t, s),
         previous' \in SUBSET Names(s.schedules),
         \/ previous' = {} /\ ~ Rejects(ActiveEvents(s), s)
         \/ ActiveEvents(Undo(s, previous')) = ActiveEvents(accepted)
  PROVE  ListsAreKnown'
<1> PICK r : r = Undo(s, previous')
  OBVIOUS
<1>1. /\ up /\ recent' = Append(recent, r)
      /\ untried' = untried \cup (IF Unseen(r) THEN {ActiveEvents(s)} ELSE {})
      /\ UNCHANGED <<up, file, temp, tampered>>
  BY DEF Commit, Idle
<1>2. accepted' = r
  <2>1. r \in SettingsSet
    BY UndoFacts DEF Defined
  <2>2. QED
    BY <1>1, <2>1, AppendProperties DEF TypeOK, accepted
<1>3. Known(ActiveEvents(accepted))
  BY <1>1 DEF ListsAreKnown
<1>4. previous' = {} => r = s
  BY UndoFacts
<1>5. FitsAlone(ActiveEvents(r)) \/ ActiveEvents(r) \in untried'
  <2>1. CASE ActiveEvents(r) = ActiveEvents(accepted)
    BY <1>1, <1>3, <2>1 DEF Known
  <2>2. CASE /\ ActiveEvents(r) # ActiveEvents(accepted)
             /\ previous' = {} /\ ~ Rejects(ActiveEvents(s), s)
    <3>1. r = s
      BY <1>4, <2>2
    <3>2. CASE Paused(s, week) \/ Adjusting(s, week)
      BY <1>1, <2>2, <3>1, <3>2 DEF Unseen, Known
    <3>3. CASE ~ (Paused(s, week) \/ Adjusting(s, week))
      BY <2>2, <3>1, <3>3, TriedWhole DEF Known
    <3>4. QED
      BY <3>2, <3>3
  <2>3. QED
    BY <2>1, <2>2
<1>6. QED
  BY <1>1, <1>2, <1>5 DEF ListsAreKnown, Known

LEMMA CommitsKnown ==
  ASSUME TypeOK, EditInv, ListsAreKnown, Commits
  PROVE  ListsAreKnown'
<1> settings \in Defined /\ "ui" \in Threads
  BY DEF TypeOK, Defined, Threads
<1>1. CASE \E list \in Seq(EventSet) :
             Free /\ ~ Rejects(list, settings) /\ Commit("ui", WithActiveEvents(list))
  <2> PICK list \in Seq(EventSet) :
             Free /\ ~ Rejects(list, settings) /\ Commit("ui", WithActiveEvents(list))
    BY <1>1
  <2> DEFINE s == WithActiveEvents(list)
  <2>1. /\ s \in Defined /\ ActiveEvents(s) = list /\ s.pause_until = settings.pause_until
        /\ s.adjust_percent = settings.adjust_percent /\ s.adjust_until = settings.adjust_until
    BY NewActiveList
  <2>2. Commit("ui", s) /\ previous' = {}
    BY DEF Free
  <2> HIDE DEF s
  <2>3. ~ Rejects(ActiveEvents(s), s)
    BY <2>1 DEF Rejects, Fits, Paused, Adjusting
  <2>4. QED
    BY <2>1, <2>2, <2>3, CommitKnown
<1>2. ASSUME NEW s \in Defined, NEW t \in Threads, UNCHANGED previous, SameLists(s), Commit(t, s)
      PROVE  ListsAreKnown'
  <2>1. previous' \in SUBSET Names(s.schedules)
    BY <1>2 DEF TypeOK, SameLists
  <2>2. ActiveEvents(Undo(s, previous')) = ActiveEvents(Undo(settings, previous))
    <3>1. /\ Undo(s, previous').schedules = Undo(settings, previous).schedules
          /\ Undo(s, previous').active_schedule = Undo(settings, previous).active_schedule
      BY <1>2 DEF Undo, Defined, SettingsSet, SameLists
    <3>2. QED
      BY <3>1, SameActive
  <2>3. ActiveEvents(Undo(s, previous')) = ActiveEvents(accepted)
    BY <1>2, <2>2 DEF EditInv, AcceptedInForce, Commit, Idle
  <2>4. QED
    BY <1>2, <2>1, <2>3, CommitKnown
<1>3. CASE \E s \in Defined : Free /\ SameLists(s) /\ Commit("ui", s)
  BY <1>2, <1>3 DEF Free
<1>4. CASE AcceptSelect
  BY <1>4, CommitKnown DEF AcceptSelect
<1>5. QED
  BY <1>1, <1>2, <1>3, <1>4, CommitCases

LEMMA SavesKnown ==
  ASSUME TypeOK, EditInv, ListsAreKnown, NEW t \in Threads, Save(t) \/ Rename(t) \/ SaveFails(t)
  PROVE  ListsAreKnown'
<1> settings \in Defined
  BY DEF TypeOK, Defined
<1>1. CASE Save(t)
  <2>1. /\ t \in unsaved /\ temp' = [temp EXCEPT ![t] = {Snapshot(settings)}]
        /\ untried' = untried \cup (IF previous = {} THEN {} ELSE {ActiveEvents(settings)})
        /\ UNCHANGED <<up, settings, previous, file, recent, tampered>>
    BY <1>1 DEF Save
  <2>2. up
    BY <2>1 DEF EditInv, NothingPendsWhileDown
  <2>3. Known(ActiveEvents(settings))'
    BY <2>1, <2>2, InForce DEF ListsAreKnown, Known
  <2>4. ASSUME NEW u \in Threads, NEW s \in Defined, temp'[u] = {Snapshot(s)}
        PROVE  Known(ActiveEvents(s))'
    <3>1. CASE u = t
      <4>1. Snapshot(s) = Snapshot(settings)
        BY <2>1, <2>4, <3>1 DEF TypeOK
      <4>2. s = settings
        BY <4>1, SnapshotIsOne
      <4>3. QED
        BY <2>1, <2>3, <4>2
    <3>2. CASE u # t
      <4>1. temp[u] = {Snapshot(s)}
        BY <2>1, <2>4, <3>2 DEF TypeOK
      <4>2. QED
        BY <2>1, <4>1 DEF ListsAreKnown, Known
    <3>3. QED
      BY <3>1, <3>2
  <2>5. QED
    BY <2>1, <2>4 DEF ListsAreKnown, Known, accepted
<1>2. CASE Rename(t)
  <2>1. /\ temp[t] # {} /\ file' = Json(CHOOSE d \in temp[t] : TRUE)
        /\ temp' = [temp EXCEPT ![t] = {}]
        /\ UNCHANGED <<up, untried, tampered>> /\ accepted' = accepted
    BY <1>2, RenameFacts DEF Rename
  <2>2. PICK s \in Defined : temp[t] = {Snapshot(s)}
    BY <2>1 DEF EditInv, SnapshotsAreTaken
  <2>3. file' = Json(Snapshot(s)) /\ Known(ActiveEvents(s))
    BY <2>1, <2>2 DEF ListsAreKnown
  <2>4. /\ Load(file') = Named(s)
        /\ file'.data.active_schedule = {s.active_schedule}
    BY <2>3, SavedIsLoaded DEF Json, Snapshot
  <2>5. Load(file').active_schedule \in file'.data.active_schedule => Load(file') = s
    <3>1. Named(s) = [s EXCEPT !.active_schedule = Named(s).active_schedule]
      BY DEF Named, Defined, SettingsSet
    <3>2. Named(s).active_schedule = s.active_schedule => Named(s) = s
      BY <3>1 DEF Defined, SettingsSet
    <3>3. QED
      BY <2>4, <3>2
  <2>6. \A u \in Threads : temp'[u] # {} => temp'[u] = temp[u]
    BY <2>1 DEF TypeOK
  <2>7. QED
    BY <2>1, <2>3, <2>5, <2>6 DEF ListsAreKnown, Known
<1>3. CASE SaveFails(t)
  <2>1. UNCHANGED <<up, file, recent, untried, tampered>> /\ temp' = [temp EXCEPT ![t] = {}]
    BY <1>3 DEF SaveFails
  <2>2. \A u \in Threads : temp'[u] # {} => temp'[u] = temp[u]
    BY <2>1 DEF TypeOK
  <2>3. QED
    BY <2>1, <2>2 DEF ListsAreKnown, Known, accepted
<1>4. QED
  BY <1>1, <1>2, <1>3

LEMMA NextKnown == TypeOK /\ EditInv /\ ListsAreKnown /\ [Next]_vars => ListsAreKnown'
<1> SUFFICES ASSUME TypeOK, EditInv, ListsAreKnown, [Next]_vars PROVE ListsAreKnown'
  OBVIOUS
<1>1. CASE Start
  <2>1. /\ settings' = Load(file) /\ recent' = <<settings'>> /\ file' = file
        /\ untried' = untried \cup
             (IF tampered \/ settings'.active_schedule \notin file.data.active_schedule
                THEN {ActiveEvents(settings')} ELSE {})
        /\ \A t \in Threads : temp'[t] = {}
    BY <1>1 DEF Start, EditInv, NothingPendsWhileDown
  <2>2. Known(ActiveEvents(settings))'
    BY <2>1 DEF ListsAreKnown, Known
  <2>3. accepted' = settings'
    BY <2>1 DEF accepted
  <2>4. QED
    BY <2>1, <2>2, <2>3 DEF ListsAreKnown
<1>2. CASE Crash \/ \E f \in Tampered \cup {Absent, Unreadable} : Tamper(f)
  <2>1. /\ UNCHANGED <<recent, untried>>
        /\ \A t \in Threads : temp'[t] = {} \/ temp'[t] = temp[t]
        /\ up' => up
        /\ ~ tampered' => ~ tampered /\ file' = file
    BY <1>2 DEF Crash, Tamper
  <2>2. QED
    BY <2>1 DEF ListsAreKnown, Known, accepted
<1>3. CASE \/ \E name \in Names(settings.schedules) : BeginSelect(name)
           \/ RefuseSelect \/ WeekTurns \/ UNCHANGED vars
  <2>1. UNCHANGED <<up, recent, untried, temp, tampered, file>>
    BY <1>3 DEF BeginSelect, RefuseSelect, WeekTurns, vars, history
  <2>2. QED
    BY <2>1 DEF ListsAreKnown, Known, accepted
<1>4. QED
  BY <1>1, <1>2, <1>3, CommitsKnown, SavesKnown DEF Next, Commits

(* A fetch fails only for a list that people put into a file, that a start *)
(* fell back on, that an overlay hid from its trial or that was saved      *)
(* during one; or, for a list with slots of the sun, in a week other than  *)
(* that of its trial.                                                      *)
THEOREM ServableWhenTried == Spec => []ServableUnlessUntried
<1>1. Init => TypeOK /\ EditInv /\ ListsAreKnown
  <2>1. Init => ListsAreKnown
    BY DEF Init, ListsAreKnown
  <2>2. QED
    BY <2>1, InitTypeOK, InitEdit
<1>2. TypeOK /\ EditInv /\ ListsAreKnown /\ [Next]_vars => (TypeOK /\ EditInv /\ ListsAreKnown)'
  BY NextTypeOK, NextEdit, NextKnown DEF EditInv
<1>3. TypeOK /\ EditInv /\ ListsAreKnown => ServableUnlessUntried
  <2>1. SUFFICES ASSUME TypeOK, EditInv, ListsAreKnown, up, previous = {}, Unservable
        PROVE  LET list == ActiveEvents(settings)
               IN  list \in untried \/ (HasSun(list) /\ <<list, week>> \in Overrun)
    BY DEF ServableUnlessUntried
  <2>2. Known(ActiveEvents(settings))
    BY <2>1, InForce DEF ListsAreKnown
  <2>3. ~ Fits(ActiveEvents(settings), settings, week) /\ week \in Weeks
    BY <2>1 DEF Unservable, Rejects, TypeOK
  <2>4. QED
    BY <2>2, <2>3 DEF Known, FitsAlone, Fits
<1>4. QED
  BY <1>1, <1>2, <1>3, PTL DEF Spec

-----------------------------------------------------------------------------
(* Two messages to one slot                                                *)

(* The second message finds the slot padded and works on what the first    *)
(* left in it.                                                             *)
LEMMA TwoChanges ==
  ASSUME NEW S, Blank \in S, NEW list \in Seq(S), NEW c, NEW d,
         c.slot \in Nat \ {0}, d.slot = c.slot, c.mode # "unused", d.mode # "unused",
         \A e \in S : Changed(e, c) \in S /\ Changed(e, d) \in S
  PROVE  LET slots == Padded(list, c.slot)
             once == Edited(list, c)
             twice == Edited(once, d)
         IN  /\ once \in Seq(S) /\ Len(once) = Len(slots)
             /\ twice \in Seq(S) /\ Len(twice) = Len(slots)
             /\ c.slot \in 1 .. Len(slots)
             /\ \A k \in 1 .. Len(slots) :
                  /\ slots[k] \in S
                  /\ once[k] = IF k = c.slot THEN Changed(slots[k], c) ELSE slots[k]
                  /\ twice[k] = IF k = c.slot THEN Changed(Changed(slots[k], c), d) ELSE slots[k]
<1> DEFINE slots == Padded(list, c.slot)
           once == Edited(list, c)
           twice == Edited(once, d)
<1>1. /\ slots \in Seq(S) /\ Len(list) \in Nat
      /\ Len(slots) = IF c.slot > Len(list) THEN c.slot ELSE Len(list)
  BY PaddedFacts, LenProperties
<1>2. c.slot \in 1 .. Len(slots) /\ \A k \in 1 .. Len(slots) : slots[k] \in S
  BY <1>1, ElementOfSeq
<1>3. /\ once \in Seq(S) /\ Len(once) = Len(slots)
      /\ \A k \in 1 .. Len(slots) :
           once[k] = IF k = c.slot THEN Changed(slots[k], c) ELSE slots[k]
  BY <1>2, ChangedList
<1> HIDE DEF once
<1>4. Padded(once, d.slot) = once
  BY <1>2, <1>3, PaddedEnough
<1>5. Changed(once[d.slot], d) \in S
  BY <1>2, <1>3
<1>6. /\ twice \in Seq(S) /\ Len(twice) = Len(once)
      /\ \A k \in 1 .. Len(once) :
           twice[k] = IF k = d.slot THEN Changed(once[k], d) ELSE once[k]
  BY <1>3, <1>4, <1>5, ChangedList
<1> HIDE DEF slots, twice
<1>7. \A k \in 1 .. Len(slots) :
        twice[k] = IF k = c.slot THEN Changed(Changed(slots[k], c), d) ELSE slots[k]
  BY <1>2, <1>3, <1>6
<1>8. QED
  BY <1>2, <1>3, <1>6, <1>7 DEF once, slots, twice

(* The time of a message that makes a slot unused may be none of the day.  *)
AnyTime ==
  [mode : {"clock", "sunrise", "sunset"}, at : Nat, duration_min : Nat, days : SUBSET DAYS,
   offset_min : Int]

LEMMA ModeAndTime ==
  ASSUME NEW e \in AnyTime, NEW slot, NEW at \in Nat
  PROVE  LET mode == Message(slot, "clock", None)
             time == Message(slot, NoMode, at)
             both == Message(slot, "clock", at)
         IN  /\ Changed(e, mode) \in AnyTime
             /\ Changed(e, time) \in AnyTime
             /\ Changed(e, both) \in AnyTime
             /\ Changed(Changed(e, mode), time) = Changed(e, both)
             /\ Changed(Changed(e, time), mode) =
                  IF e.mode \in Solar THEN [Changed(e, both) EXCEPT !.at = SixOClock]
                  ELSE Changed(e, both)
<1> DEFINE mode == Message(slot, "clock", None)
           time == Message(slot, NoMode, at)
           both == Message(slot, "clock", at)
<1>1. at # None /\ SixOClock \in Nat
  BY DEF None, SixOClock
<1>2. CASE e.mode \in Solar
  <2>1. Changed(e, mode) = [e EXCEPT !.mode = "clock", !.at = SixOClock]
    BY <1>1, <1>2 DEF Changed, WithMode, WithTime, WithMinutes, Message, Solar
  <2>2. Changed(e, time) = e
    BY <1>1, <1>2 DEF Changed, WithMode, WithTime, WithMinutes, Message, Solar, NoMode
  <2>3. Changed(e, both) = [e EXCEPT !.mode = "clock", !.at = at]
    BY <1>1, <1>2 DEF Changed, WithMode, WithTime, WithMinutes, Message, Solar, AnyTime
  <2>4. Changed([e EXCEPT !.mode = "clock", !.at = SixOClock], time) =
          [e EXCEPT !.mode = "clock", !.at = at]
    BY <1>1, <1>2 DEF Changed, WithMode, WithTime, WithMinutes, Message, Solar, NoMode, AnyTime
  <2>5. QED
    BY <1>1, <1>2, <2>1, <2>2, <2>3, <2>4 DEF AnyTime
<1>3. CASE e.mode \notin Solar
  <2>1. Changed(e, mode) = e
    BY <1>1, <1>3 DEF Changed, WithMode, WithTime, WithMinutes, Message, Solar
  <2>2. Changed(e, time) = [e EXCEPT !.at = at]
    BY <1>1, <1>3 DEF Changed, WithMode, WithTime, WithMinutes, Message, Solar, NoMode
  <2>3. Changed(e, both) = [e EXCEPT !.at = at]
    BY <1>1, <1>3 DEF Changed, WithMode, WithTime, WithMinutes, Message, Solar
  <2>4. Changed([e EXCEPT !.at = at], mode) = [e EXCEPT !.at = at]
    BY <1>1, <1>3 DEF Changed, WithMode, WithTime, WithMinutes, Message, Solar, AnyTime
  <2>5. QED
    BY <1>3, <2>1, <2>2, <2>3, <2>4 DEF AnyTime
<1>4. QED
  BY <1>2, <1>3

(* The same message twice in a row is that message once.                   *)
LEMMA ChangedTwice ==
  ASSUME NEW e \in EventSet, NEW c \in CallSet, ~ Malformed(c), c.mode # "unused"
  PROVE  Changed(Changed(e, c), c) = Changed(e, c)
<1> DEFINE at == IF c.at = None THEN SixOClock ELSE c.at
           minutes == IF c.minutes = None THEN e.duration_min ELSE c.minutes
<1>1. CASE c.mode \in Solar
  <2>1. Changed(e, c) = [e EXCEPT !.mode = c.mode, !.at = 0, !.duration_min = minutes]
    BY <1>1 DEF Changed, WithMode, WithTime, WithMinutes, Solar, EventSet
  <2>2. QED
    BY <1>1, <2>1 DEF Changed, WithMode, WithTime, WithMinutes, Solar, EventSet
<1>2. CASE c.mode = "clock" /\ e.mode \in Solar
  <2> DEFINE f == [e EXCEPT !.mode = "clock", !.at = at, !.duration_min = minutes]
  <2>1. Changed(e, c) = f
    BY <1>2 DEF Changed, WithMode, WithTime, WithMinutes, Solar, EventSet
  <2>2. f.mode = "clock" /\ f.at = at /\ f.duration_min = minutes
    BY DEF EventSet
  <2>3. WithMode(f, c) = f
    BY <1>2, <2>2 DEF WithMode, Solar
  <2>4. WithTime(f, c) = f
    BY <2>2 DEF WithTime, EventSet
  <2>5. WithMinutes(f, c) = f
    BY <2>2 DEF WithMinutes, EventSet
  <2>6. QED
    BY <2>1, <2>3, <2>4, <2>5 DEF Changed
<1>3. CASE c.mode \notin Solar /\ ~ (c.mode = "clock" /\ e.mode \in Solar)
  <2>1. WithMode(e, c) = e
    BY <1>3 DEF WithMode
  <2>2. /\ Changed(e, c).mode = e.mode
        /\ Changed(e, c) = WithMinutes(WithTime(e, c), c)
    BY <2>1 DEF Changed, WithTime, WithMinutes, EventSet
  <2>3. WithMode(Changed(e, c), c) = Changed(e, c)
    BY <1>3, <2>2 DEF WithMode
  <2>4. QED
    BY <2>2, <2>3 DEF Changed, WithTime, WithMinutes, EventSet
<1>4. QED
  BY <1>1, <1>2, <1>3

LEMMA AnyTimeList ==
  /\ Blank \in AnyTime
  /\ \A e \in EventSet : e \in AnyTime
  /\ \A list \in Seq(EventSet) : list \in Seq(AnyTime)
<1>1. \A e \in EventSet : e \in AnyTime
  BY DEF EventSet, AnyTime, DayMinutes
<1>2. EventSet \subseteq AnyTime
  BY <1>1
<1>3. QED
  BY <1>1, <1>2, BlankType, SeqMonotonic

LEMMA ModeThenTimeOnList ==
  ASSUME NEW list \in Seq(EventSet), NEW slot \in Nat \ {0}, NEW at \in Nat
  PROVE  LET mode == Message(slot, "clock", None)
             time == Message(slot, NoMode, at)
             both == Edited(list, Message(slot, "clock", at))
             solar == slot <= Len(list) /\ list[slot].mode \in Solar
         IN  /\ Edited(Edited(list, mode), time) = both
             /\ Edited(Edited(list, time), mode) =
                  IF solar THEN [both EXCEPT ![slot].at = SixOClock] ELSE both
<1> DEFINE mode == Message(slot, "clock", None)
           time == Message(slot, NoMode, at)
           m == Message(slot, "clock", at)
           both == Edited(list, m)
           solar == slot <= Len(list) /\ list[slot].mode \in Solar
           slots == Padded(list, slot)
<1>1. /\ mode.slot = slot /\ time.slot = slot /\ m.slot = slot
      /\ mode.mode # "unused" /\ time.mode # "unused" /\ m.mode # "unused"
  BY DEF Message, NoMode
<1>2. /\ \A e \in AnyTime : Changed(e, mode) \in AnyTime
      /\ \A e \in AnyTime : Changed(e, time) \in AnyTime
      /\ \A e \in AnyTime : Changed(e, m) \in AnyTime
  BY ModeAndTime
<1>3. \A e \in AnyTime :
        /\ Changed(Changed(e, mode), time) = Changed(e, m)
        /\ Changed(Changed(e, time), mode) =
             IF e.mode \in Solar THEN [Changed(e, m) EXCEPT !.at = SixOClock] ELSE Changed(e, m)
  BY ModeAndTime
<1>4. list \in Seq(AnyTime) /\ Blank \in AnyTime
  BY AnyTimeList
<1> HIDE DEF mode, time, m
<1>5. /\ both \in Seq(AnyTime) /\ Len(both) = Len(slots)
      /\ slot \in 1 .. Len(slots)
      /\ \A k \in 1 .. Len(slots) :
           /\ slots[k] \in AnyTime
           /\ both[k] = IF k = slot THEN Changed(slots[k], m) ELSE slots[k]
  <2>1. /\ slots \in Seq(AnyTime) /\ Len(list) \in Nat
        /\ Len(slots) = IF slot > Len(list) THEN slot ELSE Len(list)
    BY <1>4, PaddedFacts, LenProperties
  <2>2. slot \in 1 .. Len(slots) /\ \A k \in 1 .. Len(slots) : slots[k] \in AnyTime
    BY <2>1, ElementOfSeq
  <2>3. Changed(slots[slot], m) \in AnyTime
    BY <1>2, <2>2
  <2>4. QED
    BY <1>1, <1>4, <2>2, <2>3, ChangedList
<1>6. LET twice == Edited(Edited(list, mode), time)
      IN  /\ twice \in Seq(AnyTime) /\ Len(twice) = Len(slots)
          /\ \A k \in 1 .. Len(slots) :
               twice[k] = IF k = slot THEN Changed(Changed(slots[k], mode), time) ELSE slots[k]
  BY <1>1, <1>2, <1>4, TwoChanges
<1>7. LET twice == Edited(Edited(list, time), mode)
      IN  /\ twice \in Seq(AnyTime) /\ Len(twice) = Len(slots)
          /\ \A k \in 1 .. Len(slots) :
               twice[k] = IF k = slot THEN Changed(Changed(slots[k], time), mode) ELSE slots[k]
  BY <1>1, <1>2, <1>4, TwoChanges
<1>8. slots[slot].mode \in Solar <=> solar
  <2>1. slots[slot] = IF slot <= Len(list) THEN list[slot] ELSE Blank
    BY <1>4, <1>5, PaddedFacts
  <2>2. Blank.mode \notin Solar
    BY DEF Blank, Solar
  <2>3. QED
    BY <2>1, <2>2
<1>9. Edited(Edited(list, mode), time) = both
  <2>1. \A k \in 1 .. Len(slots) : Edited(Edited(list, mode), time)[k] = both[k]
    BY <1>3, <1>5, <1>6
  <2> HIDE DEF both, slots
  <2>2. QED
    BY <1>5, <1>6, <2>1, SeqEqual
<1>10. Edited(Edited(list, time), mode) = IF solar THEN [both EXCEPT ![slot].at = SixOClock] ELSE both
  <2> DEFINE late == [both[slot] EXCEPT !.at = SixOClock]
             result == IF solar THEN [both EXCEPT ![slot] = late] ELSE both
  <2>1. late \in AnyTime
    <3>1. both[slot] \in AnyTime /\ SixOClock \in Nat
      BY <1>2, <1>5 DEF SixOClock
    <3>2. QED
      BY <3>1 DEF AnyTime
  <2> HIDE DEF both, solar, slots
  <2>2. /\ result \in Seq(AnyTime) /\ Len(result) = Len(slots)
        /\ \A k \in 1 .. Len(slots) : result[k] = IF k = slot /\ solar THEN late ELSE both[k]
    BY <1>5, <2>1, ExceptSeq
  <2>3. \A k \in 1 .. Len(slots) : Edited(Edited(list, time), mode)[k] = result[k]
    BY <1>3, <1>5, <1>7, <1>8, <2>2
  <2>4. Edited(Edited(list, time), mode) = result
    <3> HIDE DEF result
    <3>1. QED
      BY <1>7, <2>2, <2>3, SeqEqual
  <2>5. QED
    BY <2>4
<1>11. QED
  BY <1>9, <1>10 DEF mode, time, m

(* The mode and the time of a slot, sent one after the other, come to what *)
(* one message with both would do, but for a slot of the sun that is told  *)
(* the time first.                                                         *)
THEOREM TwoMessagesAreOneEdit == Spec => []ModeAndTimeAreOneEdit
<1>1. TypeOK => ModeAndTimeAreOneEdit
  <2>1. SUFFICES ASSUME TypeOK, NEW c \in Calls, Timed(c)
        PROVE  LET list == ActiveEvents(settings)
                   mode == Message(c.slot, "clock", None)
                   time == Message(c.slot, NoMode, c.at)
                   both == Edited(list, Message(c.slot, "clock", c.at))
                   solar == c.slot \in DOMAIN list /\ list[c.slot].mode \in Solar
               IN  /\ Edited(Edited(list, mode), time) = both
                   /\ ~ solar => Edited(Edited(list, time), mode) = both
    BY Zenon DEF ModeAndTimeAreOneEdit
  <2>2. c.slot \in Nat \ {0} /\ c.at \in Nat
    BY <2>1, CallsAssumption DEF CallSet, Timed, DayMinutes
  <2> DEFINE list == ActiveEvents(settings)
  <2>3. list \in Seq(EventSet)
    BY <2>1, ActiveFacts DEF TypeOK, Defined
  <2> HIDE DEF list
  <2>4. c.slot \in DOMAIN list <=> c.slot <= Len(list)
    BY <2>2, <2>3, LenProperties
  <2>5. QED
    BY <2>2, <2>3, <2>4, ModeThenTimeOnList DEF list
<1>2. QED
  BY <1>1, TypeCorrect, PTL

-----------------------------------------------------------------------------
(* What a message waters                                                   *)

(* What the slot with number k of a list waters, if there is one.          *)
WateringAt(l, k) == IF k \in DOMAIN l /\ l[k].duration_min > 0 THEN {l[k]} ELSE {}

(* Padding waters nothing.                                                 *)
LEMMA PaddedWaters ==
  ASSUME NEW list \in Seq(EventSet), NEW slot \in Nat \ {0}, NEW k \in Nat \ {0}
  PROVE  WateringAt(Padded(list, slot), k) = WateringAt(list, k)
<1> DEFINE slots == Padded(list, slot)
<1>1. /\ slots \in Seq(EventSet) /\ Len(slots) \in Nat /\ Len(list) \in Nat
      /\ DOMAIN slots = 1 .. Len(slots) /\ DOMAIN list = 1 .. Len(list)
      /\ Len(slots) = IF slot > Len(list) THEN slot ELSE Len(list)
      /\ \A j \in 1 .. Len(slots) : slots[j] = IF j <= Len(list) THEN list[j] ELSE Blank
  BY PaddedFacts, BlankType, LenProperties
<1> HIDE DEF slots
<1>2. CASE k <= Len(list)
  <2>1. k \in DOMAIN slots /\ k \in DOMAIN list /\ slots[k] = list[k]
    BY <1>1, <1>2
  <2>2. QED
    BY <2>1 DEF WateringAt, slots
<1>3. CASE ~ (k <= Len(list))
  <2>1. k \notin DOMAIN list
    BY <1>1, <1>3
  <2>2. k \in DOMAIN slots => slots[k] = Blank
    BY <1>1, <1>3
  <2>3. ~ (Blank.duration_min > 0)
    BY DEF Blank
  <2>4. QED
    BY <2>1, <2>2, <2>3 DEF WateringAt, slots
<1>4. QED
  BY <1>2, <1>3

(* An unused slot moves the waterings behind it up by one.                 *)
LEMMA RemovedWaters ==
  ASSUME NEW list \in Seq(EventSet), NEW c, c.slot \in Nat \ {0}, c.mode = "unused",
         NEW k \in Nat \ {0}
  PROVE  WateringAt(Edited(list, c), k) = WateringAt(list, IF k < c.slot THEN k ELSE k + 1)
<1> DEFINE slots == Padded(list, c.slot)
           once == Edited(list, c)
           from == IF k < c.slot THEN k ELSE k + 1
<1>1. /\ slots \in Seq(EventSet) /\ Len(slots) \in Nat /\ Len(list) \in Nat
      /\ DOMAIN slots = 1 .. Len(slots)
      /\ Len(slots) = IF c.slot > Len(list) THEN c.slot ELSE Len(list)
  BY PaddedFacts, BlankType, LenProperties
<1>2. /\ once \in Seq(EventSet) /\ DOMAIN once = 1 .. Len(slots) - 1
      /\ \A j \in 1 .. Len(slots) - 1 : once[j] = slots[IF j < c.slot THEN j ELSE j + 1]
  BY RemovedList, BlankType, LenProperties
<1>3. WateringAt(slots, from) = WateringAt(list, from)
  BY PaddedWaters
<1> HIDE DEF slots, once
<1>4. k \in DOMAIN once <=> from \in DOMAIN slots
  BY <1>1, <1>2
<1>5. k \in DOMAIN once => once[k] = slots[from]
  BY <1>2
<1>6. WateringAt(once, k) = WateringAt(slots, from)
  BY <1>4, <1>5 DEF WateringAt
<1>7. QED
  BY <1>3, <1>6 DEF once

(* Any other message leaves the waterings of the other slots alone, and    *)
(* changes nothing more when it is repeated.                               *)
LEMMA ChangedWaters ==
  ASSUME NEW list \in Seq(EventSet), NEW c \in CallSet, ~ Malformed(c), c.mode # "unused"
  PROVE  /\ \A k \in (1 .. Len(Edited(list, c))) \ {c.slot} :
              WateringAt(Edited(list, c), k) = WateringAt(list, k)
         /\ Edited(Edited(list, c), c) = Edited(list, c)
<1> DEFINE slots == Padded(list, c.slot)
           once == Edited(list, c)
           twice == Edited(once, c)
<1>1. c.slot \in Nat \ {0}
  BY DEF CallSet
<1>2. \A e \in EventSet : Changed(e, c) \in EventSet
  BY ChangedType
<1>3. /\ slots \in Seq(EventSet) /\ DOMAIN slots = 1 .. Len(slots) /\ Len(slots) \in Nat
      /\ c.slot \in 1 .. Len(slots)
      /\ \A k \in 1 .. Len(slots) : slots[k] \in EventSet
  <2>1. /\ slots \in Seq(EventSet) /\ Len(list) \in Nat
        /\ Len(slots) = IF c.slot > Len(list) THEN c.slot ELSE Len(list)
    BY <1>1, BlankType, PaddedFacts, LenProperties
  <2>2. QED
    BY <1>1, <2>1, ElementOfSeq, LenProperties
<1>4. /\ once \in Seq(EventSet) /\ Len(once) = Len(slots)
      /\ \A k \in 1 .. Len(slots) :
           once[k] = IF k = c.slot THEN Changed(slots[k], c) ELSE slots[k]
  BY <1>1, <1>2, <1>3, BlankType, ChangedList
<1>5. DOMAIN once = 1 .. Len(once)
  BY <1>4, LenProperties
<1> HIDE DEF once
<1>6. Padded(once, c.slot) = once
  BY <1>3, <1>4, BlankType, PaddedEnough
<1>7. /\ twice \in Seq(EventSet) /\ Len(twice) = Len(once)
      /\ \A k \in 1 .. Len(once) :
           twice[k] = IF k = c.slot THEN Changed(once[k], c) ELSE once[k]
  <2>1. once[c.slot] \in EventSet
    BY <1>2, <1>3, <1>4
  <2>2. QED
    BY <1>1, <1>2, <1>4, <1>6, <2>1, BlankType, ChangedList
<1> HIDE DEF slots, twice
<1>8. twice = once
  <2>1. Changed(once[c.slot], c) = once[c.slot]
    BY <1>3, <1>4, ChangedTwice
  <2>2. \A k \in 1 .. Len(once) : twice[k] = once[k]
    BY <1>7, <2>1
  <2>3. QED
    BY <1>4, <1>7, <2>2, SeqEqual
<1>9. ASSUME NEW k \in (1 .. Len(once)) \ {c.slot}
      PROVE  WateringAt(once, k) = WateringAt(list, k)
  <2>1. k \in DOMAIN once /\ k \in DOMAIN slots /\ once[k] = slots[k]
    BY <1>3, <1>4, <1>5
  <2>2. WateringAt(once, k) = WateringAt(slots, k)
    BY <2>1 DEF WateringAt
  <2>3. WateringAt(slots, k) = WateringAt(list, k)
    BY <1>1, <1>3, PaddedWaters DEF slots
  <2>4. QED
    BY <2>2, <2>3
<1>10. QED
  BY <1>8, <1>9 DEF once, twice

(* A message changes the waterings of its own slot only, and one that      *)
(* arrives twice changes nothing more, unless it makes a slot unused: that *)
(* moves the slots behind it up, and takes one of them at each repetition. *)
THEOREM MessagesTouchOneSlot == Spec => []EditTouchesOneSlot
<1>1. TypeOK => EditTouchesOneSlot
  <2> SUFFICES ASSUME TypeOK PROVE EditTouchesOneSlot
    OBVIOUS
  <2> DEFINE list == ActiveEvents(settings)
  <2>1. list \in Seq(EventSet)
    BY ActiveFacts DEF TypeOK, Defined
  <2> HIDE DEF list
  <2>2. ASSUME NEW c \in Calls, ~ Malformed(c), c.mode = "unused"
        PROVE  LET once == Edited(list, c)  twice == Edited(once, c)
               IN  /\ \A k \in 1 .. c.slot - 1 : WateringAt(once, k) = WateringAt(list, k)
                   /\ \A k \in c.slot .. Len(list) :
                        /\ WateringAt(once, k) = WateringAt(list, k + 1)
                        /\ WateringAt(twice, k) = WateringAt(list, k + 2)
    <3> DEFINE once == Edited(list, c)
               twice == Edited(once, c)
    <3>1. c.slot \in Nat \ {0} /\ c \in CallSet
      BY CallsAssumption DEF CallSet
    <3>2. once \in Seq(EventSet)
      BY <2>1, <2>2, <3>1, EditedType
    <3>3. \A k \in Nat \ {0} :
            WateringAt(once, k) = WateringAt(list, IF k < c.slot THEN k ELSE k + 1)
      BY <2>1, <2>2, <3>1, RemovedWaters
    <3> HIDE DEF once
    <3>4. \A k \in Nat \ {0} :
            WateringAt(twice, k) = WateringAt(once, IF k < c.slot THEN k ELSE k + 1)
      BY <2>2, <3>1, <3>2, RemovedWaters
    <3> HIDE DEF twice
    <3>5. \A k \in 1 .. c.slot - 1 : WateringAt(once, k) = WateringAt(list, k)
      BY <3>1, <3>3
    <3>6. ASSUME NEW k \in c.slot .. Len(list)
          PROVE  /\ WateringAt(once, k) = WateringAt(list, k + 1)
                 /\ WateringAt(twice, k) = WateringAt(list, k + 2)
      <4>1. /\ k \in Nat \ {0} /\ ~ (k < c.slot)
            /\ k + 1 \in Nat \ {0} /\ ~ (k + 1 < c.slot) /\ (k + 1) + 1 = k + 2
        BY <2>1, <3>1, LenProperties
      <4>2. /\ WateringAt(once, k) = WateringAt(list, k + 1)
            /\ WateringAt(once, k + 1) = WateringAt(list, (k + 1) + 1)
            /\ WateringAt(twice, k) = WateringAt(once, k + 1)
        BY <3>3, <3>4, <4>1
      <4>3. QED
        BY <4>1, <4>2
    <3>7. QED
      BY <3>5, <3>6 DEF once, twice
  <2>3. ASSUME NEW c \in Calls, ~ Malformed(c), c.mode # "unused"
        PROVE  /\ \A k \in (1 .. Len(Edited(list, c))) \ {c.slot} :
                    WateringAt(Edited(list, c), k) = WateringAt(list, k)
               /\ Edited(Edited(list, c), c) = Edited(list, c)
    BY <2>1, <2>3, CallsAssumption, ChangedWaters
  <2>4. QED
    BY <2>2, <2>3, Zenon DEF EditTouchesOneSlot, WateringAt, list
<1>2. QED
  BY <1>1, TypeCorrect, PTL

-----------------------------------------------------------------------------
(* Schedules from the cloud                                                *)

StrictOrder(ahead, S) ==
  /\ \A x \in S : <<x, x>> \notin ahead
  /\ \A x, y, z \in S : <<x, y>> \in ahead /\ <<y, z>> \in ahead => <<x, z>> \in ahead
  /\ \A x, y \in S : x = y \/ <<x, y>> \in ahead \/ <<y, x>> \in ahead

(* How many others are ahead of x.                                         *)
RankIn(S, ahead, x) == Cardinality({y \in S : <<y, x>> \in ahead})

(* In a finite set that is ordered, the numbers below its size are the     *)
(* ranks of its elements.                                                  *)
LEMMA Ranks ==
  ASSUME NEW S, IsFiniteSet(S), NEW ahead, StrictOrder(ahead, S)
  PROVE  /\ \A x \in S : RankIn(S, ahead, x) \in 0 .. Cardinality(S) - 1
         /\ \A x, y \in S : RankIn(S, ahead, x) = RankIn(S, ahead, y) => x = y
         /\ \A k \in 0 .. Cardinality(S) - 1 : \E x \in S : RankIn(S, ahead, x) = k
<1> DEFINE Below(x) == {y \in S : <<y, x>> \in ahead}
           rank == [x \in S |-> Cardinality(Below(x))]
           size == Cardinality(S)
<1>1. size \in Nat
  BY FS_CardinalityType
<1>2. ASSUME NEW x \in S
      PROVE  /\ IsFiniteSet(Below(x)) /\ Cardinality(Below(x)) \in Nat
             /\ Cardinality(Below(x)) <= size - 1
  <2>1. Below(x) \in SUBSET (S \ {x})
    BY DEF StrictOrder
  <2>2. IsFiniteSet(S \ {x}) /\ Cardinality(S \ {x}) = size - 1
    BY FS_RemoveElement
  <2> HIDE DEF Below, size
  <2>3. IsFiniteSet(Below(x)) /\ Cardinality(Below(x)) <= size - 1
    BY <2>1, <2>2, FS_Subset
  <2>4. QED
    BY <2>3, FS_CardinalityType
<1>3. ASSUME NEW x \in S, NEW y \in S, <<x, y>> \in ahead
      PROVE  Cardinality(Below(x)) < Cardinality(Below(y))
  <2>1. Below(x) \in SUBSET Below(y) /\ x \in Below(y) /\ x \notin Below(x)
    BY <1>3 DEF StrictOrder
  <2> HIDE DEF Below
  <2>2. Cardinality(Below(x)) <= Cardinality(Below(y)) /\ Cardinality(Below(x)) # Cardinality(Below(y))
    BY <1>2, <2>1, FS_Subset
  <2>3. QED
    BY <1>2, <2>2
<1>4. ASSUME NEW x \in S, NEW y \in S, Cardinality(Below(x)) = Cardinality(Below(y))
      PROVE  x = y
  <2> HIDE DEF Below
  <2>1. ~ (<<x, y>> \in ahead) /\ ~ (<<y, x>> \in ahead)
    <3>1. ~ (Cardinality(Below(x)) < Cardinality(Below(y))) /\ ~ (Cardinality(Below(y)) < Cardinality(Below(x)))
      BY <1>2, <1>4
    <3>2. QED
      BY <1>3, <3>1
  <2>2. QED
    BY <2>1 DEF StrictOrder
<1>5. IsFiniteSet(0 .. size - 1) /\ Cardinality(0 .. size - 1) = size
  <2> HIDE DEF size
  <2>1. 0 \in Int /\ size - 1 \in Int
    BY <1>1
  <2>2. QED
    BY <1>1, <2>1, FS_Interval
<1>6. ASSUME NEW k \in 0 .. size - 1 PROVE \E x \in S : Cardinality(Below(x)) = k
  <2> HIDE DEF Below, size
  <2>1. rank \in [S -> 0 .. size - 1]
    BY <1>1, <1>2
  <2>2. \A x, y \in S : rank[x] = rank[y] => x = y
    BY <1>4
  <2> HIDE DEF rank
  <2>3. rank \in Injection(S, 0 .. size - 1)
    BY <2>1, <2>2 DEF Injection, IsInjective
  <2>4. rank \in Surjection(S, 0 .. size - 1)
    BY <1>5, <2>3, FS_Injection DEF size
  <2>5. \E x \in S : rank[x] = k
    BY <2>4 DEF Surjection
  <2>6. QED
    BY <2>5 DEF rank
<1>7. ASSUME NEW x \in S PROVE Cardinality(Below(x)) \in 0 .. size - 1
  <2> HIDE DEF Below, size
  <2>1. QED
    BY <1>1, <1>2
<1>8. QED
  BY <1>4, <1>6, <1>7 DEF RankIn

LEMMA TimeType ==
  ASSUME NEW ms \in Int
  PROVE  /\ CloudTime(ms) = [mode |-> CloudTime(ms).mode, at |-> CloudTime(ms).at]
         /\ Order(CloudTime(ms)) \in Int
<1>1. CASE ms \in {-2000, -1000}
  <2>1. /\ CloudTime(ms) = [mode |-> CLOUD_SOLAR[ms], at |-> 0]
        /\ CLOUD_SOLAR[ms] \in {"sunrise", "sunset"}
    BY <1>1 DEF CloudTime, CLOUD_SOLAR
  <2>2. QED
    BY <2>1 DEF Order, OrderHint
<1>2. CASE ms \notin {-2000, -1000}
  <2>1. CloudTime(ms) = [mode |-> "clock", at |-> Rounded(ms) % DayMinutes]
    BY <1>2 DEF CloudTime, CLOUD_SOLAR
  <2>2. Rounded(ms) % DayMinutes \in Int
    BY DEF Rounded, DayMinutes, MinuteMs
  <2>3. QED
    BY <2>1, <2>2 DEF Order
<1>3. QED
  BY <1>1, <1>2

(* The waterings the import reads are waterings of the cloud.              *)
LEMMA EntryFacts ==
  ASSUME NEW sch \in CloudSchedules, NEW p \in Entries(sch)
  PROVE  /\ p = <<p[1], p[2]>> /\ p[1] \in Nat /\ p[2] \in Nat
         /\ p[1] \in DOMAIN sch.scheduleDays /\ sch.scheduleDays[p[1]].day \in DAYS
         /\ CloudEvent(sch, p) \in Enabled(sch.scheduleDays[p[1]])
         /\ Time(sch, p) = [mode |-> Time(sch, p).mode, at |-> Time(sch, p).at]
         /\ Order(Time(sch, p)) \in Int
         /\ Minutes(sch, p) \in Int
<1>1. PICK d \in DOMAIN sch.scheduleDays :
        p \in {d} \X DOMAIN sch.scheduleDays[d].wateringEvents
  BY DEF Entries
<1>2. sch.scheduleDays \in Seq(CloudDays)
  BY DEF CloudSchedules
<1>3. d \in Nat /\ sch.scheduleDays[d] \in CloudDays
  BY <1>1, <1>2
<1>4. sch.scheduleDays[d].wateringEvents \in Seq(CloudEvents)
  BY <1>3 DEF CloudDays
<1>5. /\ p = <<p[1], p[2]>> /\ p[1] = d
      /\ p[2] \in DOMAIN sch.scheduleDays[d].wateringEvents
  BY <1>1
<1>6. p[2] \in Nat /\ sch.scheduleDays[d].wateringEvents[p[2]] \in CloudEvents
  BY <1>4, <1>5
<1>7. CloudEvent(sch, p) \in CloudEvents
  BY <1>5, <1>6 DEF CloudEvent
<1>8. CloudEvent(sch, p).startTime \in Int /\ CloudEvent(sch, p).duration \in Int
  BY <1>7 DEF CloudEvents
<1>9. Minutes(sch, p) \in Int
  BY <1>8 DEF Minutes, Rounded, MinuteMs
<1>10. CloudEvent(sch, p) \in Enabled(sch.scheduleDays[p[1]])
  BY <1>5 DEF Entries, Enabled, CloudEvent, ToSet
<1>11. sch.scheduleDays[p[1]].day \in DAYS
  BY DEF Entries
<1>12. QED
  BY <1>1, <1>3, <1>5, <1>6, <1>8, <1>9, <1>10, <1>11, TimeType DEF Time

(* There are finitely many.                                                *)
LEMMA EntriesFinite ==
  ASSUME NEW sch \in CloudSchedules
  PROVE  IsFiniteSet(Entries(sch))
<1> DEFINE days == sch.scheduleDays
           Places(d) == {d} \X DOMAIN days[d].wateringEvents
           place == [d \in DOMAIN days |-> Places(d)]
           image == {Places(d) : d \in DOMAIN days}
<1>1. days \in Seq(CloudDays)
  BY DEF CloudSchedules
<1>2. DOMAIN days = 1 .. Len(days) /\ Len(days) \in Nat
  BY <1>1
<1>3. IsFiniteSet(DOMAIN days)
  BY <1>2, FS_Interval
<1>4. place \in Surjection(DOMAIN days, image)
  BY DEF Surjection
<1>5. IsFiniteSet(image)
  BY <1>3, <1>4, FS_Surjection
<1>6. ASSUME NEW d \in DOMAIN days PROVE IsFiniteSet(Places(d))
  <2>1. days[d] \in CloudDays
    BY <1>1
  <2>2. days[d].wateringEvents \in Seq(CloudEvents)
    BY <2>1 DEF CloudDays
  <2>3. /\ DOMAIN days[d].wateringEvents = 1 .. Len(days[d].wateringEvents)
        /\ Len(days[d].wateringEvents) \in Nat
    BY <2>2
  <2>4. IsFiniteSet(DOMAIN days[d].wateringEvents)
    BY <2>3, FS_Interval
  <2>5. IsFiniteSet({d})
    BY FS_Singleton
  <2>6. QED
    BY <2>4, <2>5, FS_Product
<1>7. IsFiniteSet(UNION image)
  BY <1>5, <1>6, FS_UNION
<1>8. Entries(sch) \in SUBSET UNION image
  BY DEF Entries
<1>9. QED
  BY <1>7, <1>8, FS_Subset

(* Every watering that is read has a first one in its group.               *)
LEMMA FirstExists ==
  ASSUME NEW sch \in CloudSchedules, NEW q \in Entries(sch)
  PROVE  \E p \in Firsts(sch) : q \in Group(sch, p)
<1> DEFINE S == Group(sch, q)
           ahead == {r \in S \X S : ReadBefore(r[1], r[2])}
<1>1. S \in SUBSET Entries(sch) /\ q \in S
  BY DEF Group, SameGroup
<1>2. IsFiniteSet(S) /\ Cardinality(S) \in Nat /\ Cardinality(S) # 0
  BY <1>1, EntriesFinite, FS_Subset, FS_EmptySet, FS_CardinalityType
<1>3. \A x, y \in S : <<x, y>> \in ahead <=> ReadBefore(x, y)
  OBVIOUS
<1>4. \A x \in S : x = <<x[1], x[2]>> /\ x[1] \in Nat /\ x[2] \in Nat
  BY <1>1, EntryFacts
<1>5. /\ \A x \in S : ~ ReadBefore(x, x)
      /\ \A x, y, z \in S : ReadBefore(x, y) /\ ReadBefore(y, z) => ReadBefore(x, z)
      /\ \A x, y \in S : x = y \/ ReadBefore(x, y) \/ ReadBefore(y, x)
  BY <1>4 DEF ReadBefore
<1> HIDE DEF ahead
<1>6. PICK p \in S : RankIn(S, ahead, p) = 0
  <2> HIDE DEF S
  <2>1. 0 \in 0 .. Cardinality(S) - 1
    BY <1>2
  <2>2. StrictOrder(ahead, S)
    BY <1>3, <1>5 DEF StrictOrder
  <2>3. \A k \in 0 .. Cardinality(S) - 1 : \E x \in S : RankIn(S, ahead, x) = k
    BY <1>2, <2>2, Ranks
  <2>4. QED
    BY <2>1, <2>3
<1>7. {y \in S : <<y, p>> \in ahead} = {}
  BY <1>2, <1>6, FS_Subset, FS_EmptySet DEF RankIn
<1>8. Group(sch, p) = S
  BY <1>6 DEF Group, SameGroup
<1>9. p \in Firsts(sch)
  BY <1>1, <1>3, <1>6, <1>7, <1>8 DEF Firsts
<1>10. QED
  BY <1>1, <1>8, <1>9

(* Sorting loses no event.                                                 *)
LEMMA EventsOfFirsts ==
  ASSUME NEW sch \in CloudSchedules
  PROVE  ToSet(Events(sch)) = {EventOf(sch, p) : p \in Firsts(sch)}
<1> DEFINE S == Firsts(sch)
           ahead == {r \in S \X S : Earlier(sch, r[1], r[2])}
           Below(p) == {q \in S : Earlier(sch, q, p)}
<1>1. S \in SUBSET Entries(sch)
  BY DEF Firsts
<1>2. IsFiniteSet(S) /\ Cardinality(S) \in Nat
  BY <1>1, EntriesFinite, FS_Subset, FS_CardinalityType
<1>3. \A x, y \in S : <<x, y>> \in ahead <=> Earlier(sch, x, y)
  OBVIOUS
<1>4. \A x \in S : /\ x = <<x[1], x[2]>> /\ x[1] \in Nat /\ x[2] \in Nat
                   /\ Order(Time(sch, x)) \in Int /\ Minutes(sch, x) \in Int
  BY <1>1, EntryFacts
<1>5. /\ \A x \in S : ~ Earlier(sch, x, x)
      /\ \A x, y, z \in S : Earlier(sch, x, y) /\ Earlier(sch, y, z) => Earlier(sch, x, z)
      /\ \A x, y \in S : x = y \/ Earlier(sch, x, y) \/ Earlier(sch, y, x)
  BY <1>4 DEF Earlier, ReadBefore
<1> HIDE DEF ahead
<1>6. \A x \in S : RankIn(S, ahead, x) = Cardinality(Below(x))
  <2>1. \A x \in S : {y \in S : <<y, x>> \in ahead} = Below(x)
    BY <1>3
  <2>2. QED
    BY <2>1 DEF RankIn
<1>7. /\ \A x \in S : Cardinality(Below(x)) \in 0 .. Cardinality(S) - 1
      /\ \A x, y \in S : Cardinality(Below(x)) = Cardinality(Below(y)) => x = y
      /\ \A k \in 0 .. Cardinality(S) - 1 : \E x \in S : Cardinality(Below(x)) = k
  <2> HIDE DEF S, Below
  <2>1. StrictOrder(ahead, S)
    BY <1>3, <1>5 DEF StrictOrder
  <2>2. /\ \A x \in S : RankIn(S, ahead, x) \in 0 .. Cardinality(S) - 1
        /\ \A x, y \in S : RankIn(S, ahead, x) = RankIn(S, ahead, y) => x = y
        /\ \A k \in 0 .. Cardinality(S) - 1 : \E x \in S : RankIn(S, ahead, x) = k
    BY <1>2, <2>1, Ranks
  <2>3. QED
    BY <1>6, <2>2
<1>8. ASSUME NEW k \in 0 .. Cardinality(S) - 1
      PROVE  Ranked(sch, k) \in S /\ Cardinality(Below(Ranked(sch, k))) = k
  BY <1>7 DEF Ranked
<1> HIDE DEF Below
<1>9. ASSUME NEW p \in S
      PROVE  \E k \in 0 .. Cardinality(S) - 1 : p = Ranked(sch, k)
  BY <1>7, <1>8
<1>10. QED
  <2>1. ASSUME NEW e \in ToSet(Events(sch)) PROVE \E p \in S : e = EventOf(sch, p)
    <3>1. PICK k \in 1 .. Cardinality(S) : e = EventOf(sch, Ranked(sch, k - 1))
      BY DEF ToSet, Events
    <3>2. k - 1 \in 0 .. Cardinality(S) - 1
      BY <1>2
    <3>3. QED
      BY <1>8, <3>1, <3>2
  <2>2. ASSUME NEW p \in S PROVE EventOf(sch, p) \in ToSet(Events(sch))
    <3>1. PICK k \in 0 .. Cardinality(S) - 1 : p = Ranked(sch, k)
      BY <1>9
    <3>2. k + 1 \in 1 .. Cardinality(S) /\ (k + 1) - 1 = k
      BY <1>2
    <3>3. Events(sch)[k + 1] = EventOf(sch, p) /\ k + 1 \in DOMAIN Events(sch)
      BY <3>1, <3>2 DEF Events
    <3>4. QED
      BY <3>3 DEF ToSet
  <2>3. QED
    BY <2>1, <2>2

(* What is seeded from config.yaml is what the import exported: the days   *)
(* it leaves out are the days that are filled in.                          *)
LEMMA SeededAsExported ==
  ASSUME NEW s \in DOMAIN Payload
  PROVE  SchedulesFromConfig(ImportedConfig)[s].events = Events(Payload[s])
<1> DEFINE sch == Payload[s]
           exported == ToConfig(FromCloud(Payload))
           drawn == Events(sch)
<1>1. sch \in CloudSchedules
  BY PayloadAssumption
<1>2. FromCloud(Payload)[s].events = drawn /\ DOMAIN FromCloud(Payload) = DOMAIN Payload
  BY DEF FromCloud
<1>3. ASSUME NEW k \in DOMAIN drawn
      PROVE  /\ drawn[k] = [mode |-> drawn[k].mode, at |-> drawn[k].at,
                             duration_min |-> drawn[k].duration_min, days |-> drawn[k].days,
                             offset_min |-> drawn[k].offset_min]
             /\ drawn[k].days \subseteq DAYS
  <2>1. drawn[k] \in ToSet(drawn)
    BY DEF ToSet
  <2>2. PICK p \in Firsts(sch) : drawn[k] = EventOf(sch, p)
    BY <1>1, <2>1, EventsOfFirsts
  <2>3. \A q \in Group(sch, p) : sch.scheduleDays[q[1]].day \in DAYS
    BY <1>1, EntryFacts DEF Group
  <2>4. QED
    BY <2>2, <2>3 DEF EventOf
<1>4. /\ exported[s].events =
           [k \in DOMAIN drawn |->
              [event |-> [drawn[k] EXCEPT !.days = {}],
               listed |-> IF drawn[k].days = DAYS THEN {} ELSE {drawn[k].days}]]
      /\ DOMAIN exported = DOMAIN Payload
  BY <1>2 DEF ToConfig
<1>5. exported # <<>>
  BY <1>4
<1> HIDE DEF drawn, exported
<1>6. SchedulesFromConfig(ImportedConfig)[s].events = SeededEvents(exported[s].events)
  <2>1. ImportedConfig.schedules = exported
    BY DEF ImportedConfig, exported
  <2>2. QED
    BY <1>4, <1>5, <2>1 DEF SchedulesFromConfig
<1>7. ASSUME NEW k \in DOMAIN drawn
      PROVE  Seeded(exported[s].events[k]) = drawn[k]
  <2>1. exported[s].events[k] =
          [event |-> [drawn[k] EXCEPT !.days = {}],
           listed |-> IF drawn[k].days = DAYS THEN {} ELSE {drawn[k].days}]
    BY <1>4
  <2> DEFINE e == drawn[k]
             c == exported[s].events[k]
             filled == IF c.listed = {} THEN DAYS ELSE CHOOSE d \in c.listed : TRUE
  <2>2. e = [mode |-> e.mode, at |-> e.at, duration_min |-> e.duration_min, days |-> e.days,
             offset_min |-> e.offset_min]
    BY <1>3
  <2>3. filled = e.days
    <3>1. c.listed = IF e.days = DAYS THEN {} ELSE {e.days}
      BY <2>1
    <3> HIDE DEF c, e
    <3>2. CASE e.days = DAYS
      BY <3>1, <3>2
    <3>3. CASE e.days # DAYS
      BY <3>1, <3>3
    <3>4. QED
      BY <3>2, <3>3
  <2>4. c.event = [mode |-> e.mode, at |-> e.at, duration_min |-> e.duration_min, days |-> {},
                   offset_min |-> e.offset_min]
    BY <2>1, <2>2
  <2>5. Seeded(c) = [c.event EXCEPT !.days = filled]
    BY DEF Seeded
  <2> HIDE DEF c, e, filled
  <2>6. Seeded(c) = e
    BY <2>2, <2>3, <2>4, <2>5
  <2>7. QED
    BY <2>6 DEF c, e
<1>8. SeededEvents(exported[s].events) = [k \in DOMAIN drawn |-> drawn[k]]
  BY <1>4, <1>7 DEF SeededEvents
<1>9. drawn = [k \in DOMAIN drawn |-> drawn[k]]
  BY DEF drawn, Events
<1>10. QED
  BY <1>6, <1>8, <1>9 DEF drawn

(* An import by way of config.yaml keeps every watering that was switched  *)
(* on and adds none: each group has a first watering and so an event, and  *)
(* an event waters on the days of its group.                               *)
THEOREM ImportsKeepWaterings == ImportKeepsWaterings
<1> SUFFICES ASSUME NEW s \in DOMAIN Payload, NEW day \in DAYS
             PROVE  EventWaterings(SchedulesFromConfig(ImportedConfig)[s], day)
                      = CloudWaterings(Payload[s], day)
  BY DEF ImportKeepsWaterings
<1> DEFINE sch == Payload[s]
           schedule == SchedulesFromConfig(ImportedConfig)[s]
<1>1. sch \in CloudSchedules
  BY PayloadAssumption
<1>2. ToSet(schedule.events) = {EventOf(sch, p) : p \in Firsts(sch)}
  BY <1>1, SeededAsExported, EventsOfFirsts
<1> HIDE DEF schedule
<1>3. ASSUME NEW w \in EventWaterings(schedule, day)
      PROVE  w \in CloudWaterings(sch, day)
  <2>1. PICK e \in ToSet(schedule.events) :
          day \in e.days /\ w = <<[mode |-> e.mode, at |-> e.at], e.offset_min, e.duration_min>>
    BY DEF EventWaterings
  <2>2. PICK p \in Firsts(sch) : e = EventOf(sch, p)
    BY <1>2, <2>1
  <2>3. PICK q \in Group(sch, p) : day = sch.scheduleDays[q[1]].day
    BY <2>1, <2>2 DEF EventOf
  <2>4. /\ p \in Entries(sch) /\ q \in Entries(sch)
        /\ Time(sch, q) = Time(sch, p) /\ Minutes(sch, q) = Minutes(sch, p)
    BY <2>2, <2>3 DEF Firsts, Group, SameGroup
  <2>5. w = <<Time(sch, q), 0, Minutes(sch, q)>>
    BY <1>1, <2>1, <2>2, <2>4, EntryFacts DEF EventOf
  <2>6. CloudEvent(sch, q) \in Enabled(sch.scheduleDays[q[1]]) /\ q[1] \in DOMAIN sch.scheduleDays
    BY <1>1, <2>4, EntryFacts
  <2>7. QED
    BY <2>3, <2>5, <2>6 DEF CloudWaterings, Time, Minutes
<1>4. ASSUME NEW w \in CloudWaterings(sch, day)
      PROVE  w \in EventWaterings(schedule, day)
  <2>1. PICK d \in DOMAIN sch.scheduleDays : \E e \in Enabled(sch.scheduleDays[d]) :
          /\ sch.scheduleDays[d].day = day
          /\ w = <<CloudTime(e.startTime), 0, Rounded(e.duration)>>
    BY DEF CloudWaterings
  <2>2. PICK n \in DOMAIN sch.scheduleDays[d].wateringEvents :
          LET e == sch.scheduleDays[d].wateringEvents[n]
          IN  e.enabled /\ w = <<CloudTime(e.startTime), 0, Rounded(e.duration)>>
    BY <2>1 DEF Enabled, ToSet
  <2> DEFINE q == <<d, n>>
  <2>3. q \in Entries(sch)
    BY <2>1, <2>2 DEF Entries, CloudEvent
  <2>4. w = <<Time(sch, q), 0, Minutes(sch, q)>>
    BY <2>2 DEF Time, Minutes, CloudEvent
  <2>5. PICK p \in Firsts(sch) : q \in Group(sch, p)
    BY <1>1, <2>3, FirstExists
  <2>6. /\ p \in Entries(sch)
        /\ Time(sch, q) = Time(sch, p) /\ Minutes(sch, q) = Minutes(sch, p)
    BY <2>5 DEF Firsts, Group, SameGroup
  <2>7. day \in EventOf(sch, p).days
    BY <2>1, <2>5 DEF EventOf
  <2>8. w = <<[mode |-> EventOf(sch, p).mode, at |-> EventOf(sch, p).at],
              EventOf(sch, p).offset_min, EventOf(sch, p).duration_min>>
    BY <1>1, <2>4, <2>6, EntryFacts DEF EventOf
  <2>9. EventOf(sch, p) \in ToSet(schedule.events)
    BY <1>2, <2>5
  <2>10. QED
    BY <2>7, <2>8, <2>9 DEF EventWaterings
<1>5. QED
  BY <1>3, <1>4 DEF schedule

=============================================================================
