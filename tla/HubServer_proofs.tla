-------------------------- MODULE HubServer_proofs ---------------------------
(* Theorems about HubServer, for every table of generations, length of     *)
(* week, set of edits, commands, faults and threads.                       *)
EXTENDS HubDelivers, FiniteSetTheorems, WellFoundedInduction, TLAPS

-----------------------------------------------------------------------------
(* Generations, as in HubThreads_proofs                                    *)

(* Positions lie in the table, and name the number they were asked for.    *)
LEMMA PositionCorrect ==
  ASSUME NEW g
  PROVE  /\ Position(g) \in 0 .. Len(Captured)
         /\ Position(g) # 0 => Captured[Position(g)] = g
<1>1. Len(Captured) \in Nat
  BY CapturedAssumption
<1>2. CASE g \in CapturedGenerations
  <2>1. \E i \in 1 .. Len(Captured) : Captured[i] = g
    BY <1>2 DEF CapturedGenerations
  <2>2. Position(g) \in 1 .. Len(Captured) /\ Captured[Position(g)] = g
    BY <1>2, <2>1 DEF Position
  <2>3. QED
    BY <2>2, <1>1
<1>3. CASE g \notin CapturedGenerations
  BY <1>3, <1>1 DEF Position
<1>4. QED
  BY <1>2, <1>3

(* The place the restricted counter steps to is in the table.              *)
LEMMA NextPlace ==
  ASSUME NEW i \in 0 .. Len(Captured)
  PROVE  /\ (i % Len(Captured)) + 1 \in 1 .. Len(Captured)
         /\ (i % Len(Captured)) + 1 # i
<1>1. Len(Captured) \in Nat /\ Len(Captured) >= 2
  BY CapturedAssumption
<1>2. CASE i = Len(Captured)
  <2>1. i % Len(Captured) = 0
    BY <1>1, <1>2
  <2>2. QED
    BY <1>1, <1>2, <2>1
<1>3. CASE i < Len(Captured)
  <2>1. i % Len(Captured) = i
    BY <1>1, <1>3
  <2>2. QED
    BY <1>1, <1>3, <2>1
<1>4. QED
  BY <1>1, <1>2, <1>3

(* bump never hands out 0, the number of a hub that has just booted.       *)
LEMMA BumpIsPositive ==
  ASSUME NEW g \in Nat
  PROVE  Bump(g) \in Nat \ {0}
<1>1. CASE RestrictGenerations
  <2>1. (Position(g) % Len(Captured)) + 1 \in 1 .. Len(Captured)
    BY PositionCorrect, NextPlace
  <2>2. QED
    BY <1>1, <2>1, CapturedAssumption DEF Bump
<1>2. CASE ~ RestrictGenerations
  <2>1. g % GenerationMax \in 0 .. GenerationMax - 1
    BY GenerationMaxAssumption
  <2>2. QED
    BY <1>2, <2>1, GenerationMaxAssumption DEF Bump
<1>3. QED
  BY <1>1, <1>2

(* The first number is not 0 either, so a booted hub always fetches.       *)
LEMMA InitialIsPositive == InitialGeneration \in Nat \ {0}
<1>1. Captured[1] \in Nat \ {0}
  BY CapturedAssumption
<1>2. QED
  BY <1>1, ConfiguredAssumption DEF InitialGeneration

-----------------------------------------------------------------------------
(* Programmes and next waterings, for every length of week                 *)

(* Division by the length of a week.                                       *)
LEMMA WeekOf ==
  ASSUME NEW t \in Nat
  PROVE  /\ Week(t) \in Nat
         /\ t % SlotsPerWeek \in Slots
         /\ SlotsPerWeek * Week(t) <= t
         /\ t < SlotsPerWeek * Week(t) + SlotsPerWeek
<1>1. /\ t % SlotsPerWeek \in 0 .. SlotsPerWeek - 1
      /\ t = SlotsPerWeek * (t \div SlotsPerWeek) + (t % SlotsPerWeek)
      /\ t \div SlotsPerWeek \in Nat
  BY SlotsAssumption
<1>2. SlotsPerWeek * (t \div SlotsPerWeek) \in Nat
  BY <1>1, SlotsAssumption
<1>3. QED
  BY <1>1, <1>2, SlotsAssumption DEF Week, Slots

(* Weeks follow time, and a span of one week spans two weeks at most.      *)
LEMMA WeekMonotone ==
  ASSUME NEW s \in Nat, NEW t \in Nat, s <= t
  PROVE  Week(s) <= Week(t)
<1>1. /\ Week(s) \in Nat /\ Week(t) \in Nat
      /\ SlotsPerWeek * Week(s) <= s
      /\ t < SlotsPerWeek * Week(t) + SlotsPerWeek
  BY WeekOf
<1>2. SUFFICES ASSUME Week(t) + 1 <= Week(s) PROVE FALSE
  BY <1>1
<1>3. \A m, n, k \in Nat : m <= n => k * m <= k * n
  OBVIOUS
<1>4. SlotsPerWeek * (Week(t) + 1) <= SlotsPerWeek * Week(s)
  BY <1>1, <1>2, <1>3, SlotsAssumption
<1>5. SlotsPerWeek * (Week(t) + 1) = SlotsPerWeek * Week(t) + SlotsPerWeek
  BY <1>1, SlotsAssumption
<1>6. /\ SlotsPerWeek * Week(t) \in Nat
      /\ SlotsPerWeek * Week(s) \in Nat
  BY <1>1, SlotsAssumption
<1>7. QED
  BY <1>1, <1>4, <1>5, <1>6, SlotsAssumption

LEMMA WeekLater ==
  ASSUME NEW t \in Nat
  PROVE  Week(t + SlotsPerWeek) = Week(t) + 1
<1> DEFINE q == Week(t + SlotsPerWeek)
<1>1. /\ Week(t) \in Nat
      /\ SlotsPerWeek * Week(t) <= t
      /\ t < SlotsPerWeek * Week(t) + SlotsPerWeek
  BY WeekOf
<1>2. /\ q \in Nat
      /\ SlotsPerWeek * q <= t + SlotsPerWeek
      /\ t + SlotsPerWeek < SlotsPerWeek * q + SlotsPerWeek
  BY WeekOf, SlotsAssumption
<1>3. \A m, n, k \in Nat : m <= n => k * m <= k * n
  OBVIOUS
<1> HIDE DEF q
<1>4. ASSUME q <= Week(t) PROVE FALSE
  <2>1. SlotsPerWeek * q <= SlotsPerWeek * Week(t)
    BY <1>1, <1>2, <1>3, <1>4, SlotsAssumption
  <2>2. SlotsPerWeek * q \in Nat /\ SlotsPerWeek * Week(t) \in Nat
    BY <1>1, <1>2, SlotsAssumption
  <2>3. QED
    BY <1>1, <1>2, <2>1, <2>2, SlotsAssumption
<1>5. ASSUME Week(t) + 2 <= q PROVE FALSE
  <2>1. SlotsPerWeek * (Week(t) + 2) <= SlotsPerWeek * q
    BY <1>1, <1>2, <1>3, <1>5, SlotsAssumption
  <2>2. SlotsPerWeek * (Week(t) + 2) = SlotsPerWeek * Week(t) + SlotsPerWeek + SlotsPerWeek
    BY <1>1, SlotsAssumption
  <2>3. SlotsPerWeek * q \in Nat /\ SlotsPerWeek * Week(t) \in Nat
    BY <1>1, <1>2, SlotsAssumption
  <2>4. QED
    BY <1>1, <1>2, <2>1, <2>2, <2>3, SlotsAssumption
<1>6. q = Week(t) + 1
  BY <1>1, <1>2, <1>4, <1>5
<1>7. QED
  BY <1>6 DEF q

(* A programme is a set of waterings of its week.                          *)
LEMMA BuildType ==
  ASSUME NEW list \in EventLists, NEW overlays \in OverlaySet, NEW w \in Nat
  PROVE  /\ Build(list, overlays, w) \in SUBSET WateringSet
         /\ \A p \in Build(list, overlays, w) : p.week = w
<1>1. w * SlotsPerWeek \in Nat
  BY SlotsAssumption
<1>2. \A t \in Horizon(w) : t \in Nat
  BY <1>1, SlotsAssumption DEF Horizon
<1>3. \A t \in Horizon(w) : t % SlotsPerWeek \in Slots
  BY <1>2, WeekOf
<1>4. SUFFICES ASSUME NEW t \in Horizon(w)
      PROVE  [slot |-> t % SlotsPerWeek, week |-> w,
              adjusted |-> t < overlays.adjust_until] \in WateringSet
  BY DEF Build, Unpaused
<1>5. (t < overlays.adjust_until) \in BOOLEAN
  OBVIOUS
<1>6. QED
  BY <1>3, <1>5 DEF WateringSet

(* A set of times has a first one, which is what Min picks: the intervals  *)
(* below the times are finite sets, and inclusion of those is well founded. *)
LEMMA MinOfTimes ==
  ASSUME NEW T \in SUBSET Nat, T # {}
  PROVE  Min(T) \in T
<1> DEFINE Below(x) == 0 .. x - 1
           Family == {Below(x) : x \in T}
<1>1. Family \subseteq FiniteSubsetsOf(Nat)
  <2>1. ASSUME NEW x \in T PROVE Below(x) \in FiniteSubsetsOf(Nat)
    <3>1. x - 1 \in Int /\ 0 \in Int
      OBVIOUS
    <3>2. IsFiniteSet(0 .. x - 1)
      BY <3>1, FS_Interval
    <3>3. 0 .. x - 1 \in SUBSET Nat
      OBVIOUS
    <3>4. QED
      BY <3>2, <3>3 DEF FiniteSubsetsOf
  <2>2. QED
    BY <2>1
<1>2. Family # {}
  OBVIOUS
<1>3. IsWellFoundedOn(StrictSubsetOrdering(Nat), FiniteSubsetsOf(Nat))
  BY FS_StrictSubsetOrderingWellFounded
<1> HIDE DEF Family
<1>4. \E F \in Family : \A G \in Family : ~ (<<G, F>> \in StrictSubsetOrdering(Nat))
  BY <1>1, <1>2, <1>3, WFMin
<1>5. PICK x \in T : \A G \in Family : ~ (<<G, Below(x)>> \in StrictSubsetOrdering(Nat))
  BY <1>4 DEF Family
<1>6. \A y \in T : x =< y
  <2>1. SUFFICES ASSUME NEW y \in T, y < x PROVE FALSE
    OBVIOUS
  <2>2. Below(y) \in Family
    BY DEF Family
  <2>3. /\ Below(y) \subseteq Below(x)
        /\ y \in Below(x) /\ y \notin Below(y)
    BY <2>1
  <2>4. Below(y) \in SUBSET Nat /\ Below(x) \in SUBSET Nat
    OBVIOUS
  <2>5. <<Below(y), Below(x)>> \in StrictSubsetOrdering(Nat)
    BY <2>3, <2>4 DEF StrictSubsetOrdering
  <2>6. QED
    BY <1>5, <2>2, <2>5
<1>7. QED
  BY <1>6 DEF Min

(* The next watering is due within a week, or there is none.               *)
LEMMA NextWateringBounds ==
  ASSUME NEW enabled \in BOOLEAN, NEW list \in EventLists,
         NEW overlays \in OverlaySet, NEW time \in Nat
  PROVE  \/ NextWatering(enabled, list, overlays, time) = NoTime
         \/ NextWatering(enabled, list, overlays, time) \in time .. time + SlotsPerWeek
<1> DEFINE due == Unpaused(time .. time + SlotsPerWeek, list, overlays)
<1>1. due \subseteq time .. time + SlotsPerWeek
  BY DEF Unpaused
<1>2. due \in SUBSET Nat
  BY <1>1, SlotsAssumption
<1>3. due # {} => Min(due) \in due
  BY <1>2, MinOfTimes
<1>4. QED
  BY <1>1, <1>3 DEF NextWatering

LEMMA ExpireType ==
  ASSUME NEW overlays \in OverlaySet, NEW time \in Nat
  PROVE  Expire(overlays, time) \in OverlaySet
BY DEF Expire, OverlaySet, NoTime

-----------------------------------------------------------------------------
(* Types                                                                   *)

LEMMA SettingsFacts ==
  ASSUME NEW s \in SettingsSet
  PROVE  /\ s.schedule_enabled \in BOOLEAN
         /\ s.schedules \in [Names -> EventLists]
         /\ s.active_schedule \in Names
         /\ s.overlays \in OverlaySet
         /\ ActiveEvents(s) \in EventLists
         /\ ServedEvents(s) \in EventLists
BY DEF SettingsSet, ActiveEvents, ServedEvents, EventLists

LEMMA WateringsType ==
  ASSUME NEW s \in SettingsSet, NEW w \in Nat
  PROVE  /\ Waterings(s, w) \in SUBSET WateringSet
         /\ \A p \in Waterings(s, w) : p.week = w
BY SettingsFacts, BuildType DEF Waterings

LEMMA NextWateringType ==
  ASSUME NEW s \in SettingsSet, now \in Nat
  PROVE  /\ NextWateringNow(s) \in Nat
         /\ \/ NextWateringNow(s) = NoTime
            \/ NextWateringNow(s) \in now .. now + SlotsPerWeek
<1>1. \/ NextWateringNow(s) = NoTime
      \/ NextWateringNow(s) \in now .. now + SlotsPerWeek
  BY SettingsFacts, NextWateringBounds DEF NextWateringNow
<1>2. QED
  BY <1>1, SlotsAssumption DEF NoTime

(* What each edit installs is a record of settings again.                  *)
LEMMA EditTypes ==
  ASSUME settings \in SettingsSet, now \in Nat
  PROVE  /\ \A b \in BOOLEAN : [settings EXCEPT !.schedule_enabled = b] \in SettingsSet
         /\ \A e \in EditEvents :
              [settings EXCEPT !.schedules[settings.active_schedule] = e] \in SettingsSet
         /\ \A n \in Names : [settings EXCEPT !.active_schedule = n] \in SettingsSet
         /\ \A o \in OverlaySet : [settings EXCEPT !.overlays = o] \in SettingsSet
         /\ \A d \in PauseSpans :
              [settings.overlays EXCEPT !.pause_until = Until(d)] \in OverlaySet
         /\ \A d \in AdjustSpans :
              [settings.overlays EXCEPT !.adjust_until = Until(d)] \in OverlaySet
<1>1. \A d \in PauseSpans \cup AdjustSpans : Until(d) \in Nat
  BY SpansAssumption DEF Until, NoTime
<1>2. QED
  BY <1>1, SettingsFacts, EditAssumption DEF SettingsSet, OverlaySet

LEMMA NothingTypes ==
  /\ NoProgramme \in ProgrammeSet
  /\ NoRequest \in RequestSet
  /\ NoReply \in ReplySet
BY DEF NoProgramme, ProgrammeSet, NoRequest, RequestSet, NoReply, ReplySet

(* Every edit commits some settings.                                       *)
LEMMA EditsCommit ==
  ASSUME settings \in SettingsSet, now \in Nat, Edits,
         ~ \E c \in Commands : Queue(c)
  PROVE  \E s \in SettingsSet : Edit(s)
<1>1. CASE \E b \in BOOLEAN : SetEnabled(b)
  BY <1>1, EditTypes DEF SetEnabled
<1>2. CASE \E e \in EditEvents : SetSchedule(e)
  BY <1>2, EditTypes DEF SetSchedule
<1>3. CASE \E n \in Names : SelectSchedule(n)
  BY <1>3, EditTypes DEF SelectSchedule
<1>4. CASE \E d \in PauseSpans : Pause(d)
  BY <1>4, EditTypes DEF Pause, SetOverlays
<1>5. CASE \E d \in AdjustSpans : Adjust(d)
  BY <1>5, EditTypes DEF Adjust, SetOverlays
<1>6. QED
  BY <1>1, <1>2, <1>3, <1>4, <1>5 DEF Edits

LEMMA InitTypeOK == Init => TypeOK
<1> SUFFICES ASSUME Init PROVE TypeOK
  OBVIOUS
<1>1. settings \in SettingsSet
  BY NamesAssumption, ConfigAssumption DEF Init, SettingsSet, NoOverlays, OverlaySet, NoTime
<1>2. ServerTypeOK
  <2>1. /\ now \in Nat /\ last \in Nat /\ generation \in Nat \ {0}
        /\ saved = settings /\ pending = NoCommand
    BY InitialIsPositive, SlotsAssumption DEF Init, NoTime
  <2>2. QED
    BY <1>1, <2>1 DEF ServerTypeOK
<1>3. WireTypeOK
  BY NothingTypes DEF Init, WireTypeOK
<1>4. HubTypeOK
  BY NothingTypes DEF Init, HubTypeOK
<1>5. GhostTypeOK
  <2>1. reused \in BOOLEAN
    BY Zenon DEF Init
  <2>2. issue = 0 /\ starts = 1 /\ runs = 0 /\ bumped_at \in Nat /\ events = 0
    BY SlotsAssumption DEF Init
  <2>3. QED
    BY <2>1, <2>2 DEF GhostTypeOK
<1>6. QED
  BY <1>2, <1>3, <1>4, <1>5 DEF TypeOK

LEMMA CommitTypeOK ==
  ASSUME TypeOK, NEW s \in SettingsSet, Commit(s)
  PROVE  /\ settings' \in SettingsSet /\ saved' \in SettingsSet
         /\ generation' \in Nat \ {0} /\ bumped_at' \in Nat
         /\ reused' \in BOOLEAN
BY BumpIsPositive DEF Commit, BumpGeneration, Persist, TypeOK, ServerTypeOK, GhostTypeOK

LEMMA EditTypeOK ==
  ASSUME TypeOK, NEW s \in SettingsSet, Edit(s)
  PROVE  TypeOK'
<1>1. ServerTypeOK'
  BY CommitTypeOK DEF Edit, TypeOK, ServerTypeOK
<1>2. WireTypeOK' /\ HubTypeOK'
  BY DEF Edit, TypeOK, WireTypeOK, HubTypeOK, hub
<1>3. GhostTypeOK'
  BY CommitTypeOK DEF Edit, TypeOK, GhostTypeOK
<1>4. QED
  BY <1>1, <1>2, <1>3 DEF TypeOK

LEMMA QueueTypeOK ==
  ASSUME TypeOK, NEW c \in Commands, Queue(c)
  PROVE  TypeOK'
<1>1. ServerTypeOK'
  BY BumpIsPositive DEF Queue, BumpGeneration, TypeOK, ServerTypeOK
<1>2. WireTypeOK' /\ HubTypeOK'
  BY DEF Queue, TypeOK, WireTypeOK, HubTypeOK, hub
<1>3. GhostTypeOK'
  BY DEF Queue, BumpGeneration, TypeOK, ServerTypeOK, GhostTypeOK
<1>4. QED
  BY <1>1, <1>2, <1>3 DEF TypeOK

LEMMA RefreshTypeOK ==
  ASSUME TypeOK, Refresh
  PROVE  TypeOK'
<1>1. CASE RefreshExpired
  <2> DEFINE s == [settings EXCEPT !.overlays = Expire(settings.overlays, now)]
  <2>1. s \in SettingsSet
    BY SettingsFacts, EditTypes, ExpireType DEF TypeOK, ServerTypeOK
  <2>2. Commit(s) /\ settings' \in SettingsSet
    BY <1>1, <2>1, CommitTypeOK DEF RefreshExpired
  <2>3. now' = now /\ last' = NextWateringNow(settings')
    BY <1>1 DEF RefreshExpired
  <2>4. last' \in Nat
    BY <2>2, <2>3, NextWateringType DEF TypeOK, ServerTypeOK
  <2> HIDE DEF s
  <2>5. ServerTypeOK'
    BY <1>1, <2>1, <2>2, <2>4, CommitTypeOK DEF RefreshExpired, TypeOK, ServerTypeOK
  <2>6. WireTypeOK' /\ HubTypeOK'
    BY <1>1 DEF RefreshExpired, TypeOK, WireTypeOK, HubTypeOK, hub
  <2>7. GhostTypeOK'
    BY <1>1, <2>1, <2>2, CommitTypeOK DEF RefreshExpired, TypeOK, GhostTypeOK
  <2>8. QED
    BY <2>5, <2>6, <2>7 DEF TypeOK
<1>2. CASE RefreshMoved
  <2>1. ServerTypeOK'
    BY <1>2, BumpIsPositive, NextWateringType
       DEF RefreshMoved, BumpGeneration, TypeOK, ServerTypeOK
  <2>2. WireTypeOK' /\ HubTypeOK'
    BY <1>2 DEF RefreshMoved, TypeOK, WireTypeOK, HubTypeOK, hub
  <2>3. GhostTypeOK'
    BY <1>2 DEF RefreshMoved, BumpGeneration, TypeOK, ServerTypeOK, GhostTypeOK
  <2>4. QED
    BY <2>1, <2>2, <2>3 DEF TypeOK
<1>3. QED
  BY <1>1, <1>2 DEF Refresh

LEMMA ServeTypeOK ==
  ASSUME TypeOK, Serve
  PROVE  TypeOK'
<1> PICK h \in Handlers : HandleHeartbeat(h) \/ HandleTap(h) \/ HandleTapFails(h)
  BY DEF Serve
<1>1. Handle(h)
  BY DEF HandleHeartbeat, HandleTap, HandleTapFails
<1>2. ServerTypeOK'
  BY <1>1 DEF Handle, Observe, TypeOK, ServerTypeOK
<1>3. HubTypeOK' /\ GhostTypeOK'
  BY <1>1 DEF Handle, TypeOK, HubTypeOK, GhostTypeOK, hub, ghosts
<1>4. conn' \in [Handlers -> RequestSet]
  BY <1>1, NothingTypes DEF Handle, TypeOK, WireTypeOK
<1>5. reply' \in ReplySet
  <2>1. CASE HandleHeartbeat(h)
    <3>1. [NoReply EXCEPT !.kind = "generation", !.generation = generation] \in ReplySet
      BY NothingTypes DEF ReplySet, TypeOK, ServerTypeOK
    <3>2. QED
      BY <2>1, <3>1 DEF HandleHeartbeat, Answer, TypeOK, WireTypeOK
  <2>2. CASE HandleTap(h)
    <3>1. Waterings(settings, Week(now)) \in SUBSET WateringSet
      BY WateringsType, WeekOf DEF TypeOK, ServerTypeOK
    <3>2. Blob(settings, pending') \in ProgrammeSet
      BY <1>2, <3>1 DEF Blob, ProgrammeSet, TypeOK, ServerTypeOK, GhostTypeOK
    <3>3. [NoReply EXCEPT !.kind = "programme", !.programme = Blob(settings, pending')] \in ReplySet
      BY <3>2, NothingTypes DEF ReplySet
    <3>4. QED
      BY <2>2, <3>3 DEF HandleTap, Answer, TypeOK, WireTypeOK
  <2>3. CASE HandleTapFails(h)
    BY <2>3 DEF HandleTapFails, TypeOK, WireTypeOK
  <2>4. QED
    BY <2>1, <2>2, <2>3
<1>6. QED
  BY <1>2, <1>3, <1>4, <1>5 DEF TypeOK, WireTypeOK

LEMMA RestartTypeOK ==
  ASSUME TypeOK, Restart
  PROVE  TypeOK'
<1>1. ServerTypeOK'
  BY InitialIsPositive DEF Restart, TypeOK, ServerTypeOK, NoTime
<1>2. WireTypeOK'
  BY NothingTypes DEF Restart, TypeOK, WireTypeOK
<1>3. HubTypeOK'
  BY DEF Restart, TypeOK, HubTypeOK, hub
<1>4. GhostTypeOK'
  BY DEF Restart, TypeOK, ServerTypeOK, GhostTypeOK
<1>5. QED
  BY <1>1, <1>2, <1>3, <1>4 DEF TypeOK

LEMMA TimePassesTypeOK ==
  ASSUME TypeOK, TimePasses
  PROVE  TypeOK'
<1>1. ServerTypeOK'
  BY DEF TimePasses, TypeOK, ServerTypeOK
<1>2. WireTypeOK' /\ HubTypeOK' /\ GhostTypeOK'
  BY DEF TimePasses, TypeOK, WireTypeOK, HubTypeOK, GhostTypeOK, hub, ghosts
<1>3. QED
  BY <1>1, <1>2 DEF TypeOK

LEMMA HubTypeStep ==
  ASSUME TypeOK, HubStep
  PROVE  TypeOK'
<1>1. ServerTypeOK'
  BY DEF HubStep, SendHeartbeat, SendFetch, Send, LearnGeneration, Install,
         GiveUp, HubReboot, ControllerPoll, server, TypeOK, ServerTypeOK
<1>2. CASE \E h \in Handlers : SendHeartbeat(h) \/ SendFetch(h)
  <2> PICK h \in Handlers : SendHeartbeat(h) \/ SendFetch(h)
    BY <1>2
  <2>1. WireTypeOK'
    <3>1. \A tap \in BOOLEAN :
            [open |-> TRUE, tap |-> tap, confirmed |-> confirmed] \in RequestSet
      BY DEF RequestSet, TypeOK, HubTypeOK
    <3>2. \E tap \in BOOLEAN : Send(h, tap)
      BY DEF SendHeartbeat, SendFetch
    <3>3. QED
      BY <3>1, <3>2 DEF Send, TypeOK, WireTypeOK
  <2>2. HubTypeOK' /\ GhostTypeOK'
    BY DEF SendHeartbeat, SendFetch, Send, ghosts, TypeOK, HubTypeOK, GhostTypeOK
  <2>3. QED
    BY <1>1, <2>1, <2>2 DEF TypeOK
<1>3. CASE LearnGeneration \/ Install \/ GiveUp \/ HubReboot
  <2>1. WireTypeOK'
    BY <1>3, NothingTypes DEF LearnGeneration, Install, GiveUp, HubReboot, TypeOK, WireTypeOK
  <2>2. HubTypeOK'
    BY <1>3, NothingTypes DEF LearnGeneration, Install, GiveUp, HubReboot,
       TypeOK, WireTypeOK, HubTypeOK, ReplySet
  <2>3. GhostTypeOK'
    BY <1>3 DEF LearnGeneration, Install, GiveUp, HubReboot, ghosts, TypeOK, GhostTypeOK
  <2>4. QED
    BY <1>1, <2>1, <2>2, <2>3 DEF TypeOK
<1>4. CASE ControllerPoll
  <2>1. WireTypeOK' /\ HubTypeOK' /\ GhostTypeOK'
    BY <1>4 DEF ControllerPoll, TypeOK, WireTypeOK, HubTypeOK, GhostTypeOK
  <2>2. QED
    BY <1>1, <2>1 DEF TypeOK
<1>5. QED
  BY <1>2, <1>3, <1>4 DEF HubStep

LEMMA NextTypeOK == TypeOK /\ [Next]_vars => TypeOK'
<1> SUFFICES ASSUME TypeOK, [Next]_vars PROVE TypeOK'
  OBVIOUS
<1>1. CASE Edits
  <2>1. CASE \E c \in Commands : Queue(c)
    BY <2>1, QueueTypeOK
  <2>2. CASE ~ \E c \in Commands : Queue(c)
    BY <1>1, <2>2, EditsCommit, EditTypeOK DEF TypeOK, ServerTypeOK
  <2>3. QED
    BY <2>1, <2>2
<1>2. CASE UNCHANGED vars
  BY <1>2 DEF vars, server, hub, ghosts, TypeOK, ServerTypeOK, WireTypeOK,
              HubTypeOK, GhostTypeOK
<1>3. QED
  BY <1>1, <1>2, RefreshTypeOK, ServeTypeOK, RestartTypeOK, TimePassesTypeOK,
     HubTypeStep DEF Next

(* Every variable keeps its type: in particular the generation is never 0, *)
(* the number of a hub that has just booted.                               *)
THEOREM TypeCorrect == Spec => []TypeOK
<1>1. QED
  BY InitTypeOK, NextTypeOK, PTL DEF Spec

-----------------------------------------------------------------------------
(* The hub's programme and the server's settings                           *)

LEMMA InitIInv == Init => IInv
<1> SUFFICES ASSUME Init PROVE IInv
  OBVIOUS
<1>1. TypeOK
  BY InitTypeOK
<1>2. /\ held = 0 /\ confirmed = 0 /\ generation # 0 /\ pending = NoCommand
      /\ reply.kind = "none" /\ asked = NoHandler /\ phase = "idle"
      /\ bumped_at = now /\ last = NoTime
  BY InitialIsPositive DEF Init, NoReply
<1>3. Exchange
  BY <1>1, <1>2 DEF Exchange, TypeOK, ServerTypeOK
<1>4. HubIsCurrent /\ ReplyIsCurrent /\ ConfirmedMeansActed /\ LastIsRecent
  BY <1>2 DEF HubIsCurrent, ReplyIsCurrent, ConfirmedMeansActed, LastIsRecent
<1>5. QED
  BY <1>1, <1>3, <1>4 DEF IInv

(* After a bump nothing outside the server carries the new number, or the  *)
(* bump is recorded in reused.                                             *)
LEMMA BumpStep ==
  ASSUME IInv, BumpGeneration, UNCHANGED <<now, conn, hub, reply>>
  PROVE  Exchange' /\ HubIsCurrent' /\ ReplyIsCurrent' /\ ConfirmedMeansActed'
<1> USE DEF IInv
<1>1. Exchange'
  BY DEF Exchange, hub, BumpGeneration, TypeOK, ServerTypeOK
<1>2. CASE reused'
  BY <1>1, <1>2 DEF HubIsCurrent, ReplyIsCurrent, ConfirmedMeansActed
<1>3. CASE ~ reused'
  <2>1. generation' \notin LiveLabels
    BY <1>3, Zenon DEF BumpGeneration
  <2>2. held' # generation' /\ confirmed' # generation'
    BY <2>1 DEF LiveLabels, HubLabels, hub
  <2>3. phase' = "fetching" => target' # generation'
    BY <2>1 DEF LiveLabels, HubLabels, hub
  <2>4. \A h \in Handlers : conn'[h].open => conn'[h].confirmed # generation'
    BY <2>1 DEF LiveLabels
  <2>5. QED
    BY <1>1, <2>2, <2>3, <2>4
       DEF Exchange, HubIsCurrent, ReplyIsCurrent, ConfirmedMeansActed
<1>4. QED
  BY <1>2, <1>3

(* What is current stays current while the settings stay, even if the      *)
(* command is dropped and time passes.                                     *)
LEMMA CurrentStable ==
  ASSUME TypeOK, NEW p, Current(p), now' \in Nat, now <= now',
         UNCHANGED <<settings, issue, bumped_at>>,
         pending' = pending \/ pending' = NoCommand
  PROVE  Current(p)'
<1>1. Week(now) <= Week(now')
  BY WeekMonotone DEF TypeOK, ServerTypeOK
<1>2. /\ Week(bumped_at) \in Nat /\ Week(now) \in Nat /\ Week(now') \in Nat
  BY WeekOf DEF TypeOK, ServerTypeOK, GhostTypeOK
<1>3. PICK w \in Week(bumped_at) .. Week(now) : p.waterings = Waterings(settings, w)
  BY DEF Current
<1>4. w \in Week(bumped_at') .. Week(now')
  BY <1>1, <1>2, <1>3
<1>5. p.waterings = Waterings(settings', w)
  BY <1>3
<1>6. pending' # NoCommand => p.command = pending' /\ p.issue = issue'
  BY DEF Current
<1>7. QED
  BY <1>4, <1>5, <1>6 DEF Current

LEMMA EditIInv ==
  ASSUME IInv, NEW s \in SettingsSet, Edit(s)
  PROVE  IInv'
<1>1. TypeOK'
  BY EditTypeOK DEF IInv
<1>2. BumpGeneration /\ UNCHANGED <<now, conn, hub, reply, last>>
  BY DEF Edit, Commit
<1>3. LastIsRecent'
  BY <1>2, SlotsAssumption DEF BumpGeneration, IInv, Exchange, LastIsRecent, TypeOK,
     ServerTypeOK, GhostTypeOK
<1>4. QED
  BY <1>1, <1>2, <1>3, BumpStep DEF IInv

LEMMA QueueIInv ==
  ASSUME IInv, NEW c \in Commands, Queue(c)
  PROVE  IInv'
<1>1. TypeOK'
  BY QueueTypeOK DEF IInv
<1>2. BumpGeneration /\ UNCHANGED <<now, conn, hub, reply, last>>
  BY DEF Queue
<1>3. LastIsRecent'
  BY <1>2, SlotsAssumption DEF BumpGeneration, IInv, Exchange, LastIsRecent, TypeOK,
     ServerTypeOK, GhostTypeOK
<1>4. QED
  BY <1>1, <1>2, <1>3, BumpStep DEF IInv

LEMMA RefreshIInv ==
  ASSUME IInv, Refresh
  PROVE  IInv'
<1>1. TypeOK'
  BY RefreshTypeOK DEF IInv
<1>2. BumpGeneration /\ UNCHANGED <<now, conn, hub, reply>>
  BY DEF Refresh, RefreshExpired, RefreshMoved, Commit
<1>3. last' = NextWateringNow(settings')
  BY DEF Refresh, RefreshExpired, RefreshMoved
<1>4. settings' \in SettingsSet /\ now' \in Nat
  BY <1>1 DEF TypeOK, ServerTypeOK
<1>5. last' = NoTime \/ last' \in now' .. now' + SlotsPerWeek
  BY <1>2, <1>3, <1>4, NextWateringType
<1>6. LastIsRecent'
  BY <1>2, <1>4, <1>5, SlotsAssumption DEF BumpGeneration, LastIsRecent
<1>7. QED
  BY <1>1, <1>2, <1>6, BumpStep DEF IInv

LEMMA ServeIInv ==
  ASSUME IInv, Serve
  PROVE  IInv'
<1> USE DEF IInv
<1>1. TypeOK'
  BY ServeTypeOK
<1> PICK h \in Handlers : HandleHeartbeat(h) \/ HandleTap(h) \/ HandleTapFails(h)
  BY DEF Serve
<1>2. /\ conn[h].open /\ conn' = [conn EXCEPT ![h] = NoRequest]
      /\ UNCHANGED <<now, settings, generation, last, hub, ghosts>>
      /\ pending' = pending \/ pending' = NoCommand
  BY DEF HandleHeartbeat, HandleTap, HandleTapFails, Handle, Observe
<1>3. \A k \in Handlers : conn'[k].open => k # h /\ conn'[k] = conn[k]
  BY <1>2 DEF NoRequest, TypeOK, WireTypeOK
<1>4. \A p : Current(p) => Current(p)'
  BY <1>1, <1>2, CurrentStable DEF TypeOK, ServerTypeOK, ghosts
<1>5. HubIsCurrent'
  BY <1>2, <1>4 DEF HubIsCurrent, hub, ghosts
<1>6. ConfirmedMeansActed'
  BY <1>2, <1>3 DEF ConfirmedMeansActed, hub, ghosts
<1>7. LastIsRecent'
  BY <1>2 DEF LastIsRecent, ghosts
<1>8. Exchange' /\ ReplyIsCurrent'
  <2>1. CASE reply' = reply
    BY <1>2, <1>3, <1>4, <2>1 DEF Exchange, ReplyIsCurrent, hub, ghosts,
       TypeOK, WireTypeOK, HubTypeOK
  <2>2. CASE asked = h /\ HandleHeartbeat(h)
    <3>1. reply'.kind = "generation"
      BY <2>2 DEF HandleHeartbeat, Answer, NoReply
    <3>2. phase = "asking"
      BY <1>2, <2>2, HandlersAssumption DEF HandleHeartbeat, Exchange, TypeOK, HubTypeOK
    <3>3. QED
      BY <1>2, <1>3, <2>2, <3>1, <3>2 DEF Exchange, ReplyIsCurrent, hub, ghosts
  <2>3. CASE asked = h /\ HandleTap(h)
    <3>1. reply'.kind = "programme" /\ reply'.programme = Blob(settings, pending')
      BY <2>3 DEF HandleTap, Answer, NoReply
    <3>2. phase = "fetching"
      BY <1>2, <2>3, HandlersAssumption DEF HandleTap, Exchange, TypeOK, HubTypeOK
    <3>3. Exchange'
      BY <1>2, <1>3, <2>3, <3>1, <3>2 DEF Exchange, hub, ghosts
    <3>4. Week(now) \in Week(bumped_at) .. Week(now)
      BY WeekMonotone, WeekOf DEF Exchange, TypeOK, ServerTypeOK, GhostTypeOK
    <3>5. reply'.programme.waterings = Waterings(settings, Week(now))
      BY <3>1 DEF Blob
    <3>6. reply'.programme.command = pending' /\ reply'.programme.issue = issue
      BY <3>1 DEF Blob
    <3>7. Current(reply.programme)'
      BY <1>2, <3>4, <3>5, <3>6 DEF Current, ghosts
    <3>8. QED
      BY <3>3, <3>7 DEF ReplyIsCurrent
  <2>4. QED
    BY <2>1, <2>2, <2>3 DEF HandleHeartbeat, HandleTap, HandleTapFails, Answer
<1>9. QED
  BY <1>1, <1>5, <1>6, <1>7, <1>8

LEMMA RestartIInv ==
  ASSUME IInv, Restart
  PROVE  IInv'
<1> USE DEF IInv
<1>1. TypeOK'
  BY RestartTypeOK
<1>2. /\ \A h \in Handlers : ~ conn'[h].open
      /\ UNCHANGED <<now, hub, reply>> /\ bumped_at' = now
      /\ pending' = NoCommand /\ last' = NoTime
  BY DEF Restart, NoRequest
<1>3. Exchange'
  BY <1>2 DEF Exchange, hub, TypeOK, ServerTypeOK, HubTypeOK
<1>4. ~ reused' => generation' \notin HubLabels
  BY Zenon DEF Restart
<1>5. HubIsCurrent' /\ ReplyIsCurrent'
  BY <1>2, <1>3, <1>4 DEF HubLabels, Exchange, HubIsCurrent, ReplyIsCurrent, hub
<1>6. ConfirmedMeansActed' /\ LastIsRecent'
  BY <1>2 DEF ConfirmedMeansActed, LastIsRecent
<1>7. QED
  BY <1>1, <1>3, <1>5, <1>6

LEMMA TimePassesIInv ==
  ASSUME IInv, TimePasses
  PROVE  IInv'
<1> USE DEF IInv
<1>1. TypeOK'
  BY TimePassesTypeOK
<1>2. /\ now' = now + 1
      /\ UNCHANGED <<settings, pending, generation, last, conn, hub, reply, ghosts>>
  BY DEF TimePasses
<1>3. \A p : Current(p) => Current(p)'
  BY <1>1, <1>2, CurrentStable DEF TypeOK, ServerTypeOK, ghosts
<1>4. Exchange' /\ LastIsRecent'
  BY <1>2 DEF Exchange, LastIsRecent, TypeOK, ServerTypeOK, GhostTypeOK, hub, ghosts
<1>5. HubIsCurrent' /\ ReplyIsCurrent'
  BY <1>2, <1>3 DEF HubIsCurrent, ReplyIsCurrent, hub, ghosts
<1>6. ConfirmedMeansActed'
  BY <1>2 DEF ConfirmedMeansActed, hub, ghosts
<1>7. QED
  BY <1>1, <1>4, <1>5, <1>6

LEMMA HubStepIInv ==
  ASSUME IInv, HubStep
  PROVE  IInv'
<1> USE DEF IInv
<1>1. TypeOK'
  BY HubTypeStep
<1>2. UNCHANGED <<now, settings, pending, generation, last, issue, bumped_at, reused>>
  BY DEF HubStep, SendHeartbeat, SendFetch, Send, LearnGeneration, Install,
         GiveUp, HubReboot, ControllerPoll, server, ghosts
<1>3. \A p : Current(p) => Current(p)'
  BY <1>1, <1>2, CurrentStable DEF TypeOK, ServerTypeOK
<1>4. LastIsRecent'
  BY <1>2 DEF LastIsRecent
<1>5. CASE \E h \in Handlers : SendHeartbeat(h) \/ SendFetch(h)
  <2> PICK h \in Handlers : SendHeartbeat(h) \/ SendFetch(h)
    BY <1>5
  <2>1. /\ phase \in {"idle", "behind"} /\ asked' = h
        /\ phase' = IF phase = "behind" THEN "fetching" ELSE "asking"
        /\ UNCHANGED <<held, confirmed, programme, target, reply, ghosts>>
    BY DEF SendHeartbeat, SendFetch, Send
  <2>2. /\ conn'[h].open /\ conn'[h].confirmed = confirmed
        /\ conn'[h].tap <=> phase = "behind"
        /\ \A k \in Handlers \ {h} : conn'[k] = conn[k]
    BY DEF SendHeartbeat, SendFetch, Send, TypeOK, WireTypeOK
  <2>3. Exchange'
    BY <1>2, <2>1, <2>2 DEF Exchange
  <2>4. HubIsCurrent' /\ ReplyIsCurrent'
    BY <1>2, <1>3, <2>1 DEF HubIsCurrent, ReplyIsCurrent
  <2>5. ConfirmedMeansActed'
    BY <1>2, <2>1, <2>2 DEF ConfirmedMeansActed, ghosts
  <2>6. QED
    BY <1>1, <1>4, <2>3, <2>4, <2>5
<1>6. CASE LearnGeneration
  <2>1. /\ reply'.kind = "none" /\ asked' = NoHandler
        /\ phase' \in {"idle", "behind"}
        /\ UNCHANGED <<conn, held, confirmed, programme, runs>>
    BY <1>6 DEF LearnGeneration, NoReply, ghosts
  <2>2. Exchange' /\ ReplyIsCurrent'
    BY <1>2, <2>1 DEF Exchange, ReplyIsCurrent
  <2>3. HubIsCurrent' /\ ConfirmedMeansActed'
    BY <1>2, <1>3, <2>1 DEF HubIsCurrent, ConfirmedMeansActed
  <2>4. QED
    BY <1>1, <1>4, <2>2, <2>3
<1>7. CASE Install
  <2>1. /\ reply.kind = "programme" /\ reply'.kind = "none" /\ asked' = NoHandler
        /\ phase' = "idle" /\ held' = target /\ programme' = reply.programme
        /\ UNCHANGED <<conn, confirmed, runs>>
    BY <1>7 DEF Install, NoReply, ghosts
  <2>2. Exchange' /\ ReplyIsCurrent'
    BY <1>2, <2>1 DEF Exchange, ReplyIsCurrent
  <2>3. HubIsCurrent'
    BY <1>2, <1>3, <2>1 DEF HubIsCurrent, ReplyIsCurrent
  <2>4. ConfirmedMeansActed'
    BY <1>2, <2>1 DEF ConfirmedMeansActed
  <2>5. QED
    BY <1>1, <1>4, <2>2, <2>3, <2>4
<1>8. CASE GiveUp
  <2>1. /\ reply'.kind = "none" /\ asked' = NoHandler /\ phase' = "idle"
        /\ UNCHANGED <<conn, held, confirmed, programme, runs>>
    BY <1>8 DEF GiveUp, NoReply, ghosts
  <2>2. Exchange' /\ ReplyIsCurrent'
    BY <1>2, <2>1 DEF Exchange, ReplyIsCurrent
  <2>3. HubIsCurrent' /\ ConfirmedMeansActed'
    BY <1>2, <1>3, <2>1 DEF HubIsCurrent, ConfirmedMeansActed
  <2>4. QED
    BY <1>1, <1>4, <2>2, <2>3
<1>9. CASE HubReboot
  <2>1. /\ reply'.kind = "none" /\ asked' = NoHandler /\ phase' = "idle"
        /\ held' = 0 /\ confirmed' = 0 /\ UNCHANGED <<conn, runs>>
    BY <1>9 DEF HubReboot, NoReply, ghosts
  <2>2. generation' # 0
    BY <1>1 DEF TypeOK, ServerTypeOK
  <2>3. Exchange' /\ ReplyIsCurrent'
    BY <1>2, <2>1 DEF Exchange, ReplyIsCurrent
  <2>4. HubIsCurrent' /\ ConfirmedMeansActed'
    BY <1>2, <2>1, <2>2 DEF HubIsCurrent, ConfirmedMeansActed
  <2>5. QED
    BY <1>1, <1>4, <2>3, <2>4
<1>10. CASE ControllerPoll
  <2>1. /\ confirmed' = held
        /\ runs' = IF /\ programme.command # NoCommand
                      /\ programme.issue = issue
                      /\ runs < 2
                     THEN runs + 1 ELSE runs
        /\ UNCHANGED <<conn, held, programme, phase, target, asked, reply>>
    BY <1>10 DEF ControllerPoll
  <2>2. Exchange' /\ HubIsCurrent' /\ ReplyIsCurrent'
    BY <1>2, <1>3, <2>1 DEF Exchange, HubIsCurrent, ReplyIsCurrent
  <2>3. runs > 0 => runs' > 0
    BY <2>1 DEF TypeOK, GhostTypeOK
  <2>4. ~ reused /\ pending # NoCommand /\ held = generation => runs' > 0
    BY <2>1 DEF HubIsCurrent, Current, TypeOK, GhostTypeOK
  <2>5. ConfirmedMeansActed'
    BY <1>2, <2>1, <2>3, <2>4 DEF ConfirmedMeansActed
  <2>6. QED
    BY <1>1, <1>4, <2>2, <2>5
<1>11. QED
  BY <1>5, <1>6, <1>7, <1>8, <1>9, <1>10 DEF HubStep

LEMMA NextIInv == IInv /\ [Next]_vars => IInv'
<1> SUFFICES ASSUME IInv, [Next]_vars PROVE IInv'
  OBVIOUS
<1>1. CASE Edits
  <2>1. CASE \E c \in Commands : Queue(c)
    BY <2>1, QueueIInv
  <2>2. CASE ~ \E c \in Commands : Queue(c)
    BY <1>1, <2>2, EditsCommit, EditIInv DEF IInv, TypeOK, ServerTypeOK
  <2>3. QED
    BY <2>1, <2>2
<1>2. CASE UNCHANGED vars
  <2>1. TypeOK'
    BY <1>2, NextTypeOK DEF IInv
  <2>2. Exchange' /\ LastIsRecent' /\ ConfirmedMeansActed'
    BY <1>2 DEF vars, server, hub, ghosts, IInv, Exchange, LastIsRecent, ConfirmedMeansActed
  <2>3. \A p : Current(p) => Current(p)'
    BY <1>2 DEF vars, server, ghosts, Current
  <2>4. HubIsCurrent' /\ ReplyIsCurrent'
    BY <1>2, <2>3 DEF vars, server, hub, ghosts, IInv, HubIsCurrent, ReplyIsCurrent
  <2>5. QED
    BY <2>1, <2>2, <2>4 DEF IInv
<1>3. QED
  BY <1>1, <1>2, RefreshIInv, ServeIInv, RestartIInv, TimePassesIInv, HubStepIInv
     DEF Next

(* Everything in flight fits together: whatever the order in which edits,    *)
(* expiries, lost answers, late requests and restarts meet an exchange, a    *)
(* reply, a fetch and a confirmation say of the server's programme what the  *)
(* server will take them to say.  The theorems below follow from it.         *)
THEOREM Invariance == Spec => []IInv
BY InitIInv, NextIInv, PTL DEF Spec

(* A hub that holds the server's number holds the server's programme: no   *)
(* edit, expiry or command is left behind under a number it already has,   *)
(* whichever requests, replies, reboots and restarts cross it.             *)
THEOREM HubIsAlwaysCurrent == Spec => []HubIsCurrent
<1>1. IInv => HubIsCurrent
  BY DEF IInv
<1>2. QED
  BY <1>1, Invariance, PTL

(* When a number the server gives out is confirmed, the pending command    *)
(* has been executed.                                                      *)
THEOREM ConfirmationMeansExecution == Spec => []ConfirmedMeansActed
<1>1. IInv => ConfirmedMeansActed
  BY DEF IInv
<1>2. QED
  BY <1>1, Invariance, PTL

LEMMA DropStep == IInv /\ [Next]_vars => [ExecutedIfDropped]_vars
<1> SUFFICES ASSUME IInv, Next, pending # NoCommand, pending' = NoCommand,
                    starts' = starts, ~ reused
             PROVE  runs > 0
  BY DEF ExecutedIfDropped
<1>1. starts \in Nat
  BY DEF IInv, TypeOK, GhostTypeOK
<1>2. CASE Edits
  <2>1. CASE \E c \in Commands : Queue(c)
    BY <2>1, CommandsAssumption DEF Queue, NoCommand
  <2>2. CASE ~ \E c \in Commands : Queue(c)
    BY <1>1, <1>2, <2>2, EditsCommit DEF Edit, IInv, TypeOK, ServerTypeOK
  <2>3. QED
    BY <2>1, <2>2
<1>3. CASE Serve
  <2> PICK h \in Handlers : Handle(h)
    BY <1>3 DEF Serve, HandleHeartbeat, HandleTap, HandleTapFails
  <2>1. conn[h].open /\ conn[h].confirmed = generation
    BY DEF Handle, Observe
  <2>2. QED
    BY <2>1 DEF IInv, ConfirmedMeansActed
<1>4. CASE Refresh \/ TimePasses
  BY <1>4 DEF Refresh, RefreshExpired, RefreshMoved, TimePasses
<1>5. CASE Restart
  BY <1>1, <1>5 DEF Restart
<1>6. CASE HubStep
  BY <1>6 DEF HubStep, SendHeartbeat, SendFetch, Send, LearnGeneration, Install,
              GiveUp, HubReboot, ControllerPoll, server
<1>7. QED
  BY <1>2, <1>3, <1>4, <1>5, <1>6 DEF Next

(* No acknowledgement, however late or out of order, makes the server      *)
(* forget a command the controller has not executed.                       *)
THEOREM CommandsAreNotLost == Spec => ClearedOnlyAfterActing
BY Invariance, DropStep, PTL DEF Spec, ClearedOnlyAfterActing

(* Once the refresher has looked, the solar times the hub follows are at   *)
(* most one week old, for every length of week and every schedule.         *)
THEOREM NeverMoreThanAWeekBehind == Spec => []AtMostAWeekBehind
<1>1. IInv => AtMostAWeekBehind
  <2> SUFFICES ASSUME IInv, ~ reused, held = generation, last # NoTime,
                      last = NextWateringNow(settings), NEW p \in programme.waterings
               PROVE  p.week >= Week(now) - 1
    BY DEF AtMostAWeekBehind
  <2>1. /\ now \in Nat /\ bumped_at \in Nat /\ bumped_at <= now
        /\ settings \in SettingsSet
    BY DEF IInv, Exchange, TypeOK, ServerTypeOK, GhostTypeOK
  <2>2. last \in now .. now + SlotsPerWeek
    BY <2>1, NextWateringType
  <2>3. now <= bumped_at + SlotsPerWeek
    BY <2>1, <2>2, SlotsAssumption DEF IInv, LastIsRecent
  <2>4. Week(now) <= Week(bumped_at) + 1
    BY <2>1, <2>3, WeekMonotone, WeekLater, SlotsAssumption
  <2>5. PICK w \in Week(bumped_at) .. Week(now) : programme.waterings = Waterings(settings, w)
    BY DEF IInv, HubIsCurrent, Current
  <2>6. w \in Nat /\ Week(now) \in Nat /\ Week(bumped_at) \in Nat
    BY <2>1, <2>5, WeekOf
  <2>7. p.week = w
    BY <2>1, <2>5, <2>6, WateringsType
  <2>8. QED
    BY <2>4, <2>5, <2>6, <2>7
<1>2. QED
  BY <1>1, Invariance, PTL

(* While saves succeed, every step that changes the settings saves them,   *)
(* and a restart brings back exactly the settings it stopped with.         *)
THEOREM NothingIsLeftUnsaved == Spec => []SavedSettingsInForce
<1>1. Init => SavedSettingsInForce
  BY DEF Init, SavedSettingsInForce
<1>2. SavedSettingsInForce /\ [Next]_vars => SavedSettingsInForce'
  <2> SUFFICES ASSUME SavedSettingsInForce, Next, "save" \notin Faults
               PROVE  saved' = settings'
    BY DEF SavedSettingsInForce, vars, server
  <2>1. saved = settings
    BY DEF SavedSettingsInForce
  <2>2. CASE Edits
    BY <2>1, <2>2 DEF Edits, SetEnabled, SetSchedule, SelectSchedule, Pause, Adjust,
                      SetOverlays, Edit, Commit, Persist, Queue
  <2>3. CASE Refresh
    BY <2>1, <2>3 DEF Refresh, RefreshExpired, RefreshMoved, Commit, Persist
  <2>4. CASE Serve
    BY <2>1, <2>4 DEF Serve, HandleHeartbeat, HandleTap, HandleTapFails, Handle
  <2>5. CASE Restart
    BY <2>5 DEF Restart
  <2>6. CASE TimePasses
    BY <2>1, <2>6 DEF TimePasses
  <2>7. CASE HubStep
    BY <2>1, <2>7 DEF HubStep, SendHeartbeat, SendFetch, Send, LearnGeneration, Install,
                      GiveUp, HubReboot, ControllerPoll, server
  <2>8. QED
    BY <2>2, <2>3, <2>4, <2>5, <2>6, <2>7 DEF Next
<1>3. QED
  BY <1>1, <1>2, PTL DEF Spec

-----------------------------------------------------------------------------
(* A command that is over is not carried out again                         *)

(* The server's number has come back to it, or is about to.                *)
ServerIsConfirmed ==
  \/ confirmed = generation
  \/ \E h \in Handlers : conn[h].open /\ conn[h].confirmed = generation

(* The hub fetches what it does not hold, and holds what it has confirmed. *)
HubMoves ==
  /\ phase \in {"behind", "fetching"} => target \notin {0, held}
  /\ reply.kind = "generation" => reply.generation # 0
  /\ held = 0 => confirmed = 0

(* What the hub is about to fetch is the server's number.                  *)
HubLooksAhead ==
  /\ phase \in {"behind", "fetching"} => target = generation
  /\ reply.kind = "generation" => reply.generation = generation

(* Once the hub has had the server's number, older ones do not come back.  *)
NothingOlder ==
  ~ reused =>
    /\ held = generation \/ ServerIsConfirmed => HubLooksAhead
    /\ ServerIsConfirmed => held \in {0, generation} /\ confirmed \in {0, generation}

(* The commands of old that the hub still has are those the controller has *)
(* collected, unless the hub rebooted in between.                          *)
CommandIsOver ==
  ~ reused /\ "restart" \notin Faults /\ pending = NoCommand =>
    /\ programme.command # NoCommand => confirmed \in {0, held}
    /\ reply.kind = "programme" /\ reply.programme.command # NoCommand => held = 0

RepeatInv == HubMoves /\ NothingOlder /\ CommandIsOver

LEMMA InitRepeatInv == Init => RepeatInv
<1> SUFFICES ASSUME Init PROVE RepeatInv
  OBVIOUS
<1>1. /\ held = 0 /\ confirmed = 0 /\ phase = "idle" /\ reply.kind = "none"
      /\ programme.command = NoCommand
  BY DEF Init, NoReply, NoProgramme
<1>2. HubMoves /\ NothingOlder /\ CommandIsOver
  BY <1>1 DEF HubMoves, NothingOlder, HubLooksAhead, CommandIsOver
<1>3. QED
  BY <1>2 DEF RepeatInv

(* A number that has just been given out is nowhere else.                  *)
LEMMA BumpRepeats ==
  ASSUME RepeatInv, BumpGeneration, UNCHANGED <<conn, hub, reply>>,
         pending' = NoCommand => pending = NoCommand
  PROVE  RepeatInv'
<1>1. HubMoves'
  BY DEF RepeatInv, HubMoves, hub
<1>2. ASSUME ~ reused' PROVE ~ reused /\ generation' \notin LiveLabels
  BY <1>2, Zenon DEF BumpGeneration
<1>3. NothingOlder'
  <2> SUFFICES ASSUME ~ reused' PROVE held' # generation' /\ ~ ServerIsConfirmed'
    BY DEF NothingOlder
  <2>1. generation' \notin LiveLabels
    BY <1>2
  <2>2. held' # generation' /\ confirmed' # generation'
    BY <2>1 DEF LiveLabels, HubLabels, hub
  <2>3. \A h \in Handlers : conn'[h].open => conn'[h].confirmed # generation'
    BY <2>1 DEF LiveLabels
  <2>4. QED
    BY <2>2, <2>3 DEF ServerIsConfirmed
<1>4. CommandIsOver'
  BY <1>2 DEF RepeatInv, CommandIsOver, hub
<1>5. QED
  BY <1>1, <1>3, <1>4 DEF RepeatInv

(* A request that drops the command has seen the hub confirm it.           *)
LEMMA ServeRepeats ==
  ASSUME IInv, RepeatInv, Serve
  PROVE  RepeatInv'
<1> PICK h \in Handlers : HandleHeartbeat(h) \/ HandleTap(h) \/ HandleTapFails(h)
  BY DEF Serve
<1>1. /\ conn[h].open /\ conn' = [conn EXCEPT ![h] = NoRequest]
      /\ UNCHANGED <<generation, held, confirmed, programme, phase, target, reused>>
      /\ \/ pending' = pending
         \/ pending' = NoCommand /\ conn[h].confirmed = generation
  BY DEF HandleHeartbeat, HandleTap, HandleTapFails, Handle, Observe, hub, ghosts
<1>2. generation # 0
  BY DEF IInv, TypeOK, ServerTypeOK
<1>3. \/ reply' = reply
      \/ reply'.kind = "generation" /\ reply'.generation = generation
      \/ reply'.kind = "programme" /\ reply'.programme.command = pending'
  <2>1. CASE HandleHeartbeat(h)
    BY <2>1 DEF HandleHeartbeat, Answer, NoReply
  <2>2. CASE HandleTap(h)
    <3>1. \/ reply' = reply
          \/ reply'.kind = "programme" /\ reply'.programme = Blob(settings, pending')
      BY <2>2 DEF HandleTap, Answer, NoReply
    <3>2. Blob(settings, pending').command = pending'
      BY DEF Blob
    <3>3. QED
      BY <3>1, <3>2
  <2>3. CASE HandleTapFails(h)
    BY <2>3 DEF HandleTapFails
  <2>4. QED
    BY <2>1, <2>2, <2>3
<1>4. HubMoves'
  BY <1>1, <1>2, <1>3 DEF RepeatInv, HubMoves
<1>5. ServerIsConfirmed' => ServerIsConfirmed
  <2>1. \A k \in Handlers : conn'[k].open => conn'[k] = conn[k]
    BY <1>1 DEF NoRequest, IInv, TypeOK, WireTypeOK
  <2>2. QED
    BY <1>1, <2>1 DEF ServerIsConfirmed
<1>6. HubLooksAhead => HubLooksAhead'
  BY <1>1, <1>3 DEF HubLooksAhead
<1>7. NothingOlder'
  BY <1>1, <1>5, <1>6 DEF RepeatInv, NothingOlder
<1>8. CommandIsOver'
  <2> SUFFICES ASSUME ~ reused', "restart" \notin Faults, pending' = NoCommand
               PROVE  /\ programme.command # NoCommand => confirmed \in {0, held}
                      /\ reply'.kind = "programme" /\ reply'.programme.command # NoCommand
                           => held = 0
    BY <1>1 DEF CommandIsOver
  <2>1. ~ reused
    BY <1>1, Zenon
  <2>2. CASE pending = NoCommand
    BY <1>3, <2>1, <2>2 DEF RepeatInv, CommandIsOver
  <2>3. CASE pending # NoCommand
    <3>1. ServerIsConfirmed
      BY <1>1, <2>3 DEF ServerIsConfirmed
    <3>2. HubLooksAhead /\ held \in {0, generation} /\ confirmed \in {0, generation}
      BY <2>1, <3>1 DEF RepeatInv, NothingOlder
    <3>3. confirmed \in {0, held}
      BY <1>2, <3>2 DEF RepeatInv, HubMoves
    <3>4. ASSUME reply.kind = "programme" PROVE held = 0
      BY <3>2, <3>4 DEF HubLooksAhead, RepeatInv, HubMoves, IInv, Exchange
    <3>5. QED
      BY <1>3, <3>3, <3>4
  <2>4. QED
    BY <2>2, <2>3
<1>9. QED
  BY <1>4, <1>7, <1>8 DEF RepeatInv

LEMMA RestartRepeats ==
  ASSUME RepeatInv, Restart
  PROVE  RepeatInv'
<1>1. /\ \A h \in Handlers : ~ conn'[h].open
      /\ UNCHANGED <<hub, reply>> /\ "restart" \in Faults
  BY DEF Restart, NoRequest
<1>2. ~ reused' => generation' \notin HubLabels
  BY Zenon DEF Restart
<1>3. HubMoves' /\ CommandIsOver'
  BY <1>1 DEF RepeatInv, HubMoves, CommandIsOver, hub
<1>4. ~ reused' => held' # generation' /\ ~ ServerIsConfirmed'
  BY <1>1, <1>2 DEF HubLabels, ServerIsConfirmed, hub
<1>5. NothingOlder'
  BY <1>4 DEF NothingOlder
<1>6. QED
  BY <1>3, <1>5 DEF RepeatInv

LEMMA HubStepRepeats ==
  ASSUME IInv, RepeatInv, HubStep
  PROVE  RepeatInv'
<1>1. UNCHANGED <<pending, generation, reused>>
  BY DEF HubStep, SendHeartbeat, SendFetch, Send, LearnGeneration, Install,
         GiveUp, HubReboot, ControllerPoll, server, ghosts
<1>2. generation # 0
  BY DEF IInv, TypeOK, ServerTypeOK
<1>3. CASE \E h \in Handlers : SendHeartbeat(h) \/ SendFetch(h)
  <2> PICK h \in Handlers : SendHeartbeat(h) \/ SendFetch(h)
    BY <1>3
  <2>1. /\ UNCHANGED <<held, confirmed, programme, target, reply>>
        /\ phase' \in {"behind", "fetching"} => phase \in {"behind", "fetching"}
    BY DEF SendHeartbeat, SendFetch, Send
  <2>2. /\ conn'[h].confirmed = confirmed
        /\ \A k \in Handlers \ {h} : conn'[k] = conn[k]
    BY DEF SendHeartbeat, SendFetch, Send, IInv, TypeOK, WireTypeOK
  <2>3. ServerIsConfirmed' => ServerIsConfirmed
    BY <1>1, <2>1, <2>2 DEF ServerIsConfirmed
  <2>4. HubLooksAhead => HubLooksAhead'
    BY <1>1, <2>1 DEF HubLooksAhead
  <2>5. QED
    BY <1>1, <2>1, <2>3, <2>4 DEF RepeatInv, HubMoves, NothingOlder, CommandIsOver
<1>4. CASE LearnGeneration
  <2>1. /\ reply.kind = "generation" /\ reply'.kind = "none"
        /\ phase' \in {"behind", "fetching"} => reply.generation # held
        /\ target' = reply.generation
        /\ UNCHANGED <<conn, held, confirmed, programme>>
    BY <1>4 DEF LearnGeneration, NoReply
  <2>2. HubMoves' /\ CommandIsOver'
    BY <1>1, <2>1 DEF RepeatInv, HubMoves, CommandIsOver
  <2>3. ServerIsConfirmed' => ServerIsConfirmed
    BY <1>1, <2>1 DEF ServerIsConfirmed
  <2>4. HubLooksAhead => HubLooksAhead'
    BY <1>1, <2>1 DEF HubLooksAhead
  <2>5. NothingOlder'
    BY <1>1, <2>1, <2>3, <2>4 DEF RepeatInv, NothingOlder
  <2>6. QED
    BY <2>2, <2>5 DEF RepeatInv
<1>5. CASE Install
  <2>1. /\ reply.kind = "programme" /\ reply'.kind = "none" /\ phase' = "idle"
        /\ held' = target /\ programme' = reply.programme
        /\ UNCHANGED <<conn, confirmed>>
    BY <1>5 DEF Install, NoReply
  <2>2. phase = "fetching"
    BY <2>1 DEF IInv, Exchange
  <2>3. HubMoves' /\ HubLooksAhead'
    BY <2>1, <2>2 DEF RepeatInv, HubMoves, HubLooksAhead
  <2>4. ServerIsConfirmed' => ServerIsConfirmed
    BY <1>1, <2>1 DEF ServerIsConfirmed
  <2>5. NothingOlder'
    BY <1>1, <2>1, <2>2, <2>3, <2>4 DEF RepeatInv, NothingOlder, HubLooksAhead
  <2>6. CommandIsOver'
    BY <1>1, <2>1 DEF RepeatInv, HubMoves, CommandIsOver
  <2>7. QED
    BY <2>3, <2>5, <2>6 DEF RepeatInv
<1>6. CASE GiveUp
  <2>1. /\ reply'.kind = "none" /\ phase' = "idle"
        /\ UNCHANGED <<conn, held, confirmed, programme>>
    BY <1>6 DEF GiveUp, NoReply
  <2>2. ServerIsConfirmed' => ServerIsConfirmed
    BY <1>1, <2>1 DEF ServerIsConfirmed
  <2>3. QED
    BY <1>1, <2>1, <2>2 DEF RepeatInv, HubMoves, NothingOlder, HubLooksAhead, CommandIsOver
<1>7. CASE HubReboot
  <2>1. /\ reply'.kind = "none" /\ phase' = "idle"
        /\ held' = 0 /\ confirmed' = 0 /\ UNCHANGED conn
    BY <1>7 DEF HubReboot, NoReply
  <2>2. QED
    BY <1>1, <2>1 DEF RepeatInv, HubMoves, NothingOlder, HubLooksAhead, CommandIsOver
<1>8. CASE ControllerPoll
  <2>1. /\ confirmed' = held
        /\ UNCHANGED <<conn, held, programme, phase, target, reply>>
    BY <1>8 DEF ControllerPoll
  <2>2. ServerIsConfirmed' => held = generation \/ ServerIsConfirmed
    BY <1>1, <2>1 DEF ServerIsConfirmed
  <2>3. HubMoves' /\ CommandIsOver'
    BY <1>1, <2>1 DEF RepeatInv, HubMoves, CommandIsOver
  <2>4. NothingOlder'
    BY <1>1, <2>1, <2>2 DEF RepeatInv, NothingOlder, HubLooksAhead
  <2>5. QED
    BY <2>3, <2>4 DEF RepeatInv
<1>9. QED
  BY <1>3, <1>4, <1>5, <1>6, <1>7, <1>8 DEF HubStep

LEMMA NextRepeatInv == IInv /\ RepeatInv /\ [Next]_vars => RepeatInv'
<1> SUFFICES ASSUME IInv, RepeatInv, [Next]_vars PROVE RepeatInv'
  OBVIOUS
<1>1. CASE Edits
  <2>1. CASE \E c \in Commands : Queue(c)
    BY <2>1, CommandsAssumption, BumpRepeats DEF Queue, NoCommand
  <2>2. CASE ~ \E c \in Commands : Queue(c)
    <3>1. PICK s \in SettingsSet : Edit(s)
      BY <1>1, <2>2, EditsCommit DEF IInv, TypeOK, ServerTypeOK
    <3>2. QED
      BY <3>1, BumpRepeats DEF Edit, Commit
  <2>3. QED
    BY <2>1, <2>2
<1>2. CASE Refresh
  BY <1>2, BumpRepeats DEF Refresh, RefreshExpired, RefreshMoved, Commit
<1>3. CASE TimePasses \/ UNCHANGED vars
  <2>1. UNCHANGED <<pending, generation, conn, hub, reply, reused>>
    BY <1>3 DEF TimePasses, vars, server, ghosts
  <2>2. (ServerIsConfirmed' <=> ServerIsConfirmed) /\ (HubLooksAhead' <=> HubLooksAhead)
    BY <2>1 DEF ServerIsConfirmed, HubLooksAhead, hub
  <2>3. QED
    BY <2>1, <2>2 DEF RepeatInv, HubMoves, NothingOlder, CommandIsOver, hub
<1>4. QED
  BY <1>1, <1>2, <1>3, ServeRepeats, RestartRepeats, HubStepRepeats DEF Next

LEMMA RepeatStep == TypeOK /\ RepeatInv /\ [Next]_vars => [RepeatedOnlyWhilePending]_vars
<1> SUFFICES ASSUME TypeOK, RepeatInv, Next, runs' > runs, ~ reused, "restart" \notin Faults,
                    pending = NoCommand
             PROVE  confirmed = 0
  BY DEF RepeatedOnlyWhilePending
<1>1. CASE ControllerPoll
  BY <1>1 DEF ControllerPoll, RepeatInv, CommandIsOver
<1>2. CASE ~ ControllerPoll
  <2>1. runs' = runs \/ runs' = 0
    BY <1>2 DEF Next, Edits, SetEnabled, SetSchedule, SelectSchedule, Pause, Adjust,
       SetOverlays, Edit, Commit, Queue, Refresh, RefreshExpired, RefreshMoved, Serve,
       HandleHeartbeat, HandleTap, HandleTapFails, Handle, Restart, TimePasses, HubStep,
       SendHeartbeat, SendFetch, Send, LearnGeneration, Install, GiveUp, HubReboot, ghosts
  <2>2. runs \in Nat
    BY DEF TypeOK, GhostTypeOK
  <2>3. QED
    BY <2>1, <2>2
<1>3. QED
  BY <1>1, <1>2

(* A command the server has let go of is not carried out again, whatever   *)
(* late requests, answers and bumps are still under way, unless the hub    *)
(* rebooted and fetched the programme anew while it was still pending.     *)
THEOREM CommandsAreNotRepeated == Spec => NoLateRepetition
BY InitRepeatInv, NextRepeatInv, RepeatStep, Invariance, TypeCorrect, PTL DEF Spec, NoLateRepetition

-----------------------------------------------------------------------------
(* The exchange keeps the promise of Delivery.tla                          *)

LEMMA InitDelivers == Init => D!Init
<1> SUFFICES ASSUME Init PROVE D!Init
  OBVIOUS
<1>1. held # generation /\ reused = FALSE /\ order = "none" /\ issue = 0 /\ starts = 1
  BY InitialIsPositive DEF Init, order
<1>2. Current(programme) \in BOOLEAN
  BY DEF Current
<1>3. QED
  BY <1>1, <1>2 DEF D!Init

(* A number that is not in use elsewhere outdates the hub.                 *)
LEMMA OutdatedByBump ==
  ASSUME BumpGeneration, ~ reused', UNCHANGED hub
  PROVE  ~ reused /\ (held # generation)'
<1>1. ~ reused /\ Bump(generation) \notin LiveLabels /\ generation' = Bump(generation)
  BY Zenon DEF BumpGeneration
<1>2. held \in LiveLabels /\ held' = held
  BY DEF LiveLabels, HubLabels, hub
<1>3. QED
  BY <1>1, <1>2

LEMMA ChangeDelivers ==
  ASSUME ~ reused, ~ reused', (held # generation)', UNCHANGED <<pending, issue, starts, runs>>
  PROVE  D!Next
<1>1. UNCHANGED order
  BY DEF order
<1>2. Current(programme)' \in BOOLEAN
  BY DEF Current
<1>3. QED
  BY <1>1, <1>2, Zenon DEF D!Next, D!Step, D!Change, D!Outdate

LEMMA EditDelivers ==
  ASSUME NEW s, Edit(s), ~ reused'
  PROVE  D!Next
<1>1. BumpGeneration /\ UNCHANGED hub /\ UNCHANGED <<pending, issue, starts, runs>>
  BY DEF Edit, Commit
<1>2. QED
  BY <1>1, OutdatedByBump, ChangeDelivers

LEMMA QueueDelivers ==
  ASSUME NEW c \in Commands, Queue(c), ~ reused'
  PROVE  D!Next
<1>1. BumpGeneration /\ UNCHANGED hub
  BY DEF Queue
<1>2. order' = "waiting" /\ issue' = issue + 1 /\ starts' = starts
  BY CommandsAssumption DEF Queue, order, NoCommand
<1>3. Current(programme)' \in BOOLEAN
  BY DEF Current
<1>4. ~ reused /\ (held # generation)'
  BY <1>1, OutdatedByBump
<1>5. QED
  BY <1>2, <1>3, <1>4, Zenon DEF D!Next, D!Step, D!Order, D!Outdate

LEMMA RefreshDelivers ==
  ASSUME Refresh, ~ reused'
  PROVE  D!Next
<1>1. BumpGeneration /\ UNCHANGED hub /\ UNCHANGED <<pending, issue, starts, runs>>
  BY DEF Refresh, RefreshExpired, RefreshMoved, Commit
<1>2. QED
  BY <1>1, OutdatedByBump, ChangeDelivers

(* A step that leaves the hub's number and the server's alone, ages what   *)
(* the hub holds at most, and drops no command before it is carried out.   *)
LEMMA StayDelivers ==
  ASSUME ~ reused, ~ reused', UNCHANGED <<held, generation, issue, starts, runs>>,
         Current(programme) => Current(programme)',
         \/ pending' = pending
         \/ pending # NoCommand /\ pending' = NoCommand /\ runs > 0
  PROVE  D!Next
<1>1. D!Stay
  BY DEF D!Stay
<1>2. CASE pending' = pending
  <2>1. UNCHANGED order
    BY <1>2 DEF order
  <2>2. QED
    BY <1>1, <2>1, Zenon DEF D!Next, D!Step, D!Age
<1>3. CASE pending # NoCommand /\ pending' = NoCommand /\ runs > 0
  <2>1. order = "done" /\ order' = "none"
    BY <1>3 DEF order
  <2>2. QED
    BY <1>1, <2>1, Zenon DEF D!Next, D!Step, D!Acknowledge
<1>4. QED
  BY <1>2, <1>3

LEMMA ServeDelivers ==
  ASSUME IInv, Serve, ~ reused'
  PROVE  D!Next
<1> PICK h \in Handlers : Handle(h)
  BY DEF Serve, HandleHeartbeat, HandleTap, HandleTapFails
<1>1. /\ UNCHANGED <<now, settings, generation, hub, ghosts>>
      /\ conn[h].open
      /\ \/ pending' = pending
         \/ pending # NoCommand /\ pending' = NoCommand
            /\ conn[h].confirmed = generation
  BY DEF Handle, Observe
<1>2. UNCHANGED <<held, programme, runs, reused, issue, starts, bumped_at>>
  BY <1>1 DEF hub, ghosts
<1>3. \A p : Current(p) => Current(p)'
  BY <1>1, <1>2, CurrentStable DEF IInv, TypeOK, ServerTypeOK
<1>4. pending' # pending => pending # NoCommand /\ pending' = NoCommand /\ runs > 0
  BY <1>1, <1>2 DEF IInv, ConfirmedMeansActed
<1>5. QED
  BY <1>1, <1>2, <1>3, <1>4, StayDelivers

LEMMA RestartDelivers ==
  ASSUME Restart, ~ reused'
  PROVE  D!Next
<1>1. ~ reused /\ InitialGeneration \notin HubLabels
  BY Zenon DEF Restart
<1>2. (held # generation)'
  BY <1>1 DEF Restart, HubLabels, hub
<1>3. order' = "none" /\ starts' = starts + 1 /\ issue' = issue
  BY DEF Restart, order
<1>4. Current(programme)' \in BOOLEAN
  BY DEF Current
<1>5. QED
  BY <1>1, <1>2, <1>3, <1>4, Zenon DEF D!Next, D!Step, D!Forget, D!Outdate

LEMMA TimePassesDelivers ==
  ASSUME IInv, TimePasses, ~ reused'
  PROVE  D!Next
<1>1. /\ now' = now + 1
      /\ UNCHANGED <<settings, pending, generation, held, programme, runs, reused,
                     issue, starts, bumped_at>>
  BY DEF TimePasses, hub, ghosts
<1>2. \A p : Current(p) => Current(p)'
  BY <1>1, CurrentStable DEF IInv, TypeOK, ServerTypeOK
<1>3. QED
  BY <1>1, <1>2, StayDelivers

(* The hub installs a programme: it is in sync with the server, and then   *)
(* the invariant knows the programme is current, or it is not.             *)
LEMMA InstallDelivers ==
  ASSUME IInv, IInv', Install, ~ reused'
  PROVE  D!Next
<1>1. UNCHANGED <<pending, issue, starts, runs, reused>>
  BY DEF Install, server, ghosts
<1>2. CASE (held # generation)'
  BY <1>1, <1>2, ChangeDelivers
<1>3. CASE (held = generation)'
  <2>1. Current(programme)'
    BY <1>3 DEF IInv, HubIsCurrent
  <2>2. UNCHANGED order
    BY <1>1 DEF order
  <2>3. QED
    BY <1>1, <1>3, <2>1, <2>2, Zenon DEF D!Next, D!Step, D!Sync
<1>4. QED
  BY <1>2, <1>3

LEMMA PollDelivers ==
  ASSUME IInv, ControllerPoll, ~ reused'
  PROVE  D!Next \/ UNCHANGED D!dvars
<1>1. /\ UNCHANGED <<now, settings, pending, generation, held, programme, reused,
                     issue, starts, bumped_at>>
      /\ runs' = runs \/ runs' = runs + 1
  BY DEF ControllerPoll, server
<1>2. Current(programme)' = Current(programme)
  BY <1>1 DEF Current, Waterings, Week, ServedEvents, ActiveEvents
<1>3. runs \in Nat
  BY DEF IInv, TypeOK, GhostTypeOK
<1>4. CASE order' = order
  BY <1>1, <1>2, <1>4, Zenon DEF D!dvars
<1>5. CASE order' # order
  <2>1. order = "waiting" /\ order' = "done"
    BY <1>1, <1>3, <1>5 DEF order
  <2>2. QED
    BY <1>1, <1>2, <2>1, Zenon DEF D!Next, D!Step, D!Obey
<1>6. QED
  BY <1>4, <1>5

LEMMA HubStepDelivers ==
  ASSUME IInv, IInv', HubStep, ~ reused'
  PROVE  D!Next \/ UNCHANGED D!dvars
<1>1. CASE Install
  BY <1>1, InstallDelivers
<1>2. CASE ControllerPoll
  BY <1>2, PollDelivers
<1>3. CASE HubReboot
  <2>1. UNCHANGED <<pending, issue, starts, runs, reused, generation>> /\ held' = 0
    BY <1>3 DEF HubReboot, server, ghosts
  <2>2. (held # generation)'
    BY <2>1 DEF IInv, TypeOK, ServerTypeOK
  <2>3. QED
    BY <2>1, <2>2, ChangeDelivers
<1>4. CASE \/ \E h \in Handlers : SendHeartbeat(h) \/ SendFetch(h)
           \/ LearnGeneration \/ GiveUp
  <2>1. UNCHANGED <<now, settings, pending, generation, held, programme, runs, reused,
                    issue, starts, bumped_at>>
    BY <1>4 DEF SendHeartbeat, SendFetch, Send, LearnGeneration, GiveUp, server, ghosts
  <2>2. Current(programme)' = Current(programme)
    BY <2>1 DEF Current, Waterings, Week, ServedEvents, ActiveEvents
  <2>3. UNCHANGED order
    BY <2>1 DEF order
  <2>4. QED
    BY <2>1, <2>2, <2>3, Zenon DEF D!dvars
<1>5. QED
  BY <1>1, <1>2, <1>3, <1>4 DEF HubStep

LEMMA StutterDelivers ==
  ASSUME UNCHANGED vars
  PROVE  UNCHANGED D!dvars
<1>1. UNCHANGED <<now, settings, pending, generation, held, programme, runs, reused,
                  issue, starts, bumped_at>>
  BY DEF vars, server, hub, ghosts
<1>2. Current(programme)' = Current(programme)
  BY <1>1 DEF Current, Waterings, Week, ServedEvents, ActiveEvents
<1>3. UNCHANGED order
  BY <1>1 DEF order
<1>4. QED
  BY <1>1, <1>2, <1>3, Zenon DEF D!dvars

LEMMA StepDelivers ==
  ASSUME IInv, IInv', [Next]_vars
  PROVE  [D!Next]_(D!dvars)
<1>1. CASE UNCHANGED vars
  BY <1>1, StutterDelivers
<1>2. CASE reused'
  BY <1>2, Zenon DEF D!Next
<1>3. CASE Next /\ ~ reused'
  <2>1. CASE \E c \in Commands : Queue(c)
    BY <1>3, <2>1, QueueDelivers
  <2>2. CASE Edits /\ ~ \E c \in Commands : Queue(c)
    BY <1>3, <2>2, EditsCommit, EditDelivers DEF IInv, TypeOK, ServerTypeOK
  <2>3. QED
    BY <1>3, <2>1, <2>2, RefreshDelivers, ServeDelivers, RestartDelivers,
       TimePassesDelivers, HubStepDelivers DEF Next
<1>4. QED
  BY <1>1, <1>2, <1>3

(* Whatever requests, threads, losses, reboots and restarts come together, *)
(* the exchange keeps the promise: as long as no number in use is given    *)
(* out again, an up-to-date hub has the right programme and no command is  *)
(* forgotten before it was carried out, except by a restart.               *)
THEOREM ExchangeDelivers == Spec => Delivers
<1>1. IInv /\ IInv' /\ [Next]_vars => [D!Next]_(D!dvars)
  BY StepDelivers
<1>2. QED
  BY <1>1, InitDelivers, Invariance, PTL DEF Spec, Delivers, D!Spec

=============================================================================
