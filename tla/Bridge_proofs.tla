--------------------------- MODULE Bridge_proofs -----------------------------
(* Theorems about Bridge, for every interval, lag, span and number of      *)
(* presses, faults and overlays.                                           *)
EXTENDS Bridge, TLAPS

-----------------------------------------------------------------------------
(* The will                                                                *)

(* "online" stands as long as the connection of a running server does, or  *)
(* because it was sent behind "offline".                                   *)
OnlineWhileConnected ==
  /\ link \in BOOLEAN
  /\ process \in {"up", "stopping", "gone"}
  /\ callback = "online" => Running
  /\ available \in {"online", "offline"}
  /\ available = "online" => crossed \/ (link /\ process = "up")

LEMMA WillInit == Init => OnlineWhileConnected
BY DEF Init, OnlineWhileConnected, Running

LEMMA ConnectionStep ==
  ASSUME OnlineWhileConnected, Connect \/ GoOnline \/ Subscribe \/ Drop
  PROVE  OnlineWhileConnected'
<1>1. CASE Connect
  BY <1>1 DEF OnlineWhileConnected, Connect, Idle, Running, home, ghosts
<1>2. CASE GoOnline
  <2>1. /\ link' = link /\ process' = process /\ callback = "online"
        /\ callback' = "subscribe"
        /\ available' = IF link THEN "online" ELSE available
    BY <1>2 DEF GoOnline
  <2>2. CASE link
    <3>1. process = "stopping" => crossed'
      BY <1>2, <2>2, Zenon DEF GoOnline
    <3>2. QED
      BY <2>1, <2>2, <3>1 DEF OnlineWhileConnected, Running
  <2>3. CASE ~ link
    <3>1. crossed' = crossed
      BY <1>2, <2>3, Zenon DEF GoOnline
    <3>2. QED
      BY <2>1, <2>3, <3>1 DEF OnlineWhileConnected, Running
  <2>4. QED
    BY <2>2, <2>3
<1>3. CASE Subscribe
  BY <1>3 DEF OnlineWhileConnected, Subscribe, home, Running
<1>4. CASE Drop
  BY <1>4 DEF OnlineWhileConnected, Drop, Disconnected, Will, Running
<1>5. QED
  BY <1>1, <1>2, <1>3, <1>4

LEMMA ProcessStep ==
  ASSUME OnlineWhileConnected, Kill \/ Stop \/ Disconnect \/ Start
  PROVE  OnlineWhileConnected'
<1>1. CASE Kill
  BY <1>1 DEF OnlineWhileConnected, Kill, End, Will, Disconnected, Running
<1>2. CASE Stop
  BY <1>2 DEF OnlineWhileConnected, Stop, Running, broker, ghosts
<1>3. CASE Disconnect
  BY <1>3 DEF OnlineWhileConnected, Disconnect, End, Disconnected, Idle, Running, home
<1>4. CASE Start
  BY <1>4 DEF OnlineWhileConnected, Start, Running, broker, home
<1>5. QED
  BY <1>1, <1>2, <1>3, <1>4

(* Nothing else looks at the connection.                                   *)
LEMMA OtherStep ==
  ASSUME OnlineWhileConnected,
         \/ UNCHANGED vars
         \/ PublishStep \/ HeardFromHub \/ OnMessage
         \/ (\E o \in Overlays, d \in Spans : SetOverlay(o, d))
         \/ Turn \/ Sleep \/ TimePasses
         \/ (\E p \in Presses : Press(p)) \/ HomeRestart
  PROVE  OnlineWhileConnected'
<1>1. UNCHANGED <<link, process, available, crossed, callback>>
  BY DEF PublishStep, ReadNext, Read, Publish, HeardFromHub, Observe, OnMessage,
         SetOverlay, Turn, TurnLapsed, TurnMoved, Sleep, TimePasses, Press, HomeRestart,
         broker, home, ghosts, vars
<1>2. QED
  BY <1>1 DEF OnlineWhileConnected, Running

(* A server that is gone is shown as offline, however often it was killed, *)
(* stopped and started, unless a connection crossed the last stop.         *)
THEOREM OfflineAfterTheEnd == Spec => []OfflineWhenGone
<1>1. OnlineWhileConnected /\ [Next]_vars => OnlineWhileConnected'
  BY ConnectionStep, ProcessStep, OtherStep DEF Next
<1>2. OnlineWhileConnected => OfflineWhenGone
  BY DEF OnlineWhileConnected, OfflineWhenGone, Running
<1>3. QED
  BY WillInit, <1>1, <1>2, PTL DEF Spec

-----------------------------------------------------------------------------
(* Publications                                                            *)

LEMMA TopicFacts ==
  /\ Len(Topics) = 3 /\ LastTopic = 3
  /\ Topics[1] = "attributes" /\ Topics[2] = "next_watering" /\ Topics[3] = "schedule"
  /\ TopicNames = {"attributes", "next_watering", "schedule"}
<1>1. /\ Len(Topics) = 3 /\ LastTopic = 3 /\ DOMAIN Topics = 1 .. 3
      /\ Topics[1] = "attributes" /\ Topics[2] = "next_watering" /\ Topics[3] = "schedule"
  BY DEF Topics, LastTopic
<1>2. 1 .. 3 = {1, 2, 3}
  OBVIOUS
<1>3. QED
  BY <1>1, <1>2 DEF TopicNames

Publication(p) ==
  /\ p = [at |-> p.at, next |-> p.next, value |-> p.value]
  /\ p.at \in 0 .. 3
  /\ p.at = 0 => p.next = Nothing /\ p.value = Nothing

(* Each thread has its publication, begun by a running server only, and    *)
(* its own: the refresher in a turn, the network thread after a callback.  *)
PublicationsFit ==
  /\ pub = [t \in Threads |-> pub[t]]
  /\ \A t \in Threads : Publication(pub[t])
  /\ callback # "none" => Running /\ pub["network"].at = 0
  /\ ~ Running => \A t \in Threads : pub[t].at = 0
  /\ Running => (pub["refresher"].at # 0 <=> stage = "publishing")

(* What publication p has read is true, and what it has sent is shown.     *)
Fresh(p) ==
  /\ p.next = Nothing \/ p.next = Truth["next_watering"]
  /\ p.value = Nothing \/ p.value = Truth[Topics[p.at]]
  /\ \A i \in 1 .. 3 : i < p.at => shown[Topics[i]] = Truth[Topics[i]]

(* While nothing came in between there is one publication, and it is fresh.*)
CleanIsFresh ==
  clean =>
    /\ Running
    /\ \A t, u \in Threads : pub[t].at # 0 /\ pub[u].at # 0 => t = u
    /\ \A t \in Threads : pub[t].at # 0 => Fresh(pub[t])
    /\ (\A t \in Threads : pub[t].at = 0) => shown = Truth

ShownInv ==
  /\ PublicationsFit
  /\ shown = [x \in TopicNames |-> shown[x]]
  /\ clean \in BOOLEAN
  /\ CleanIsFresh

LEMMA RestingFits ==
  /\ Publication(Resting) /\ Resting.at = 0
BY DEF Publication, Resting

LEMMA ShownInit == Init => ShownInv
<1> SUFFICES ASSUME Init PROVE ShownInv
  OBVIOUS
<1>1. pub = [t \in Threads |-> Resting] /\ "refresher" \in Threads
  BY DEF Init, Threads
<1>2. PublicationsFit
  BY <1>1, RestingFits DEF Init, RefresherInit, PublicationsFit, Running
<1>3. QED
  BY <1>2 DEF Init, ShownInv, CleanIsFresh, Blank

(* The thread t begins to publish.                                         *)
LEMMA NotifyFits ==
  ASSUME ShownInv, NEW t \in Threads, Notify(t), pub[t].at = 0, Running, Running',
         shown' = shown,
         IF t = "refresher" THEN stage' = "publishing" ELSE stage' = stage,
         IF t = "network" THEN callback' = "none" ELSE callback' = callback
  PROVE  ShownInv'
<1>1. /\ pub = [u \in Threads |-> pub[u]] /\ "refresher" \in Threads
      /\ \A u \in Threads : Publication(pub[u])
  BY DEF ShownInv, PublicationsFit, Threads
<1>2. pub' = [pub EXCEPT ![t].at = 1] /\ clean' = (Busy = {})
  BY DEF Notify
<1>3. /\ pub' = [u \in Threads |-> pub'[u]]
      /\ pub'[t] = [at |-> 1, next |-> Nothing, value |-> Nothing]
      /\ \A u \in Threads \ {t} : pub'[u] = pub[u]
  BY <1>1, <1>2 DEF Publication
<1>4. \A u \in Threads : Publication(pub[u])'
  BY <1>1, <1>3 DEF Publication
<1>5. PublicationsFit'
  BY <1>1, <1>3, <1>4 DEF ShownInv, PublicationsFit, Threads
<1>6. clean' \in BOOLEAN
  BY <1>2, Zenon
<1>7. ASSUME clean'
      PROVE  \A u \in Threads : pub[u].at = 0
  <2>1. Busy = {}
    BY <1>2, <1>7, Zenon
  <2>2. QED
    BY <2>1 DEF Busy
<1>8. Fresh(pub[t])'
  BY <1>3 DEF Fresh
<1>9. CleanIsFresh'
  BY <1>3, <1>7, <1>8 DEF CleanIsFresh
<1>10. QED
  BY <1>5, <1>6, <1>9 DEF ShownInv

LEMMA NotifyingStep ==
  ASSUME ShownInv,
         \/ HeardFromHub \/ OnMessage \/ TurnLapsed \/ Subscribe
         \/ (\E o \in Overlays, d \in Spans : SetOverlay(o, d))
  PROVE  ShownInv'
<1> USE DEF Threads
<1>1. CASE HeardFromHub
  BY <1>1, NotifyFits DEF HeardFromHub, Observe, Running, clock, home, broker
<1>2. CASE OnMessage
  BY <1>2, NotifyFits DEF OnMessage, Idle, Running, clock, home
<1>3. CASE \E o \in Overlays, d \in Spans : SetOverlay(o, d)
  BY <1>3, NotifyFits DEF SetOverlay, Idle, Running, home, broker
<1>4. CASE TurnLapsed
  <2>1. Running /\ pub["refresher"].at = 0
    BY <1>4 DEF TurnLapsed, ShownInv, PublicationsFit
  <2>2. QED
    BY <1>4, <2>1, NotifyFits DEF TurnLapsed, Running, home, broker
<1>5. CASE Subscribe
  <2>1. Running /\ pub["network"].at = 0
    BY <1>5 DEF Subscribe, ShownInv, PublicationsFit
  <2>2. QED
    BY <1>5, <2>1, NotifyFits DEF Subscribe, Running, clock, home
<1>6. QED
  BY <1>1, <1>2, <1>3, <1>4, <1>5

(* A thread reads, or sends one topic and goes on to the next.             *)
LEMMA ReadingStep ==
  ASSUME ShownInv, NEW t \in Threads, ReadNext(t) \/ Read(t)
  PROVE  ShownInv'
<1>1. /\ pub = [u \in Threads |-> pub[u]] /\ "refresher" \in Threads
      /\ \A u \in Threads : Publication(pub[u])
  BY DEF ShownInv, PublicationsFit, Threads
<1>2. /\ UNCHANGED <<stage, callback, process, shown, clean>>
      /\ UNCHANGED <<ends, now, enabled, watering, generation>>
  BY DEF ReadNext, Read, clock, state, broker, home, ghosts
<1>3. Truth' = Truth /\ (Running' <=> Running)
  BY <1>2 DEF Truth, NextWatering, Running
<1>4. /\ pub' = [u \in Threads |-> pub'[u]]
      /\ pub'[t].at = pub[t].at /\ pub[t].at # 0
      /\ Publication(pub[t])'
      /\ \A u \in Threads \ {t} : pub'[u] = pub[u]
      /\ \/ /\ pub'[t].next = Truth["next_watering"] /\ pub'[t].value = pub[t].value
         \/ /\ pub'[t].next = pub[t].next /\ pub[t].next # Nothing
            /\ pub'[t].value = IF Topics[pub[t].at] = "next_watering"
                                THEN pub[t].next ELSE Truth[Topics[pub[t].at]]
  <2>1. CASE ReadNext(t)
    BY <1>1, <2>1 DEF ReadNext, Publication
  <2>2. CASE Read(t)
    BY <1>1, <2>2 DEF Read, Publication
  <2>3. QED
    BY <2>1, <2>2
<1>5. PublicationsFit'
  BY <1>1, <1>2, <1>3, <1>4 DEF ShownInv, PublicationsFit, Threads
<1>6. Fresh(pub[t]) => Fresh(pub[t])'
  BY <1>2, <1>3, <1>4 DEF Fresh
<1>7. \A u \in Threads : Fresh(pub[u]) => Fresh(pub[u])'
  BY <1>2, <1>3, <1>4, <1>6 DEF Fresh
<1>8. CleanIsFresh'
  BY <1>2, <1>3, <1>4, <1>7 DEF ShownInv, CleanIsFresh
<1>9. QED
  BY <1>2, <1>5, <1>8 DEF ShownInv

LEMMA SendingStep ==
  ASSUME ShownInv, NEW t \in Threads, Publish(t)
  PROVE  ShownInv'
<1>1. /\ pub = [u \in Threads |-> pub[u]] /\ "refresher" \in Threads
      /\ \A u \in Threads : Publication(pub[u])
      /\ shown = [x \in TopicNames |-> shown[x]]
  BY DEF ShownInv, PublicationsFit, Threads
<1>2. /\ UNCHANGED <<callback, process, link>>
      /\ UNCHANGED <<ends, now, enabled, watering, generation>>
      /\ pub[t].value # Nothing /\ pub[t].at \in {1, 2, 3}
  BY <1>1 DEF Publish, broker, Publication
<1>3. Truth' = Truth /\ (Running' <=> Running)
  BY <1>2 DEF Truth, NextWatering, Running
<1>4. /\ pub' = [u \in Threads |-> pub'[u]]
      /\ pub'[t] = IF pub[t].at < 3
                     THEN [at |-> pub[t].at + 1, next |-> pub[t].next, value |-> Nothing]
                     ELSE Resting
      /\ \A u \in Threads \ {t} : pub'[u] = pub[u]
  BY <1>1, TopicFacts DEF Publish, Publication
<1>5. Publication(pub[t])'
  <2>1. CASE pub[t].at < 3
    BY <1>1, <1>2, <1>4, <2>1 DEF Publication
  <2>2. CASE ~ pub[t].at < 3
    BY <1>4, <2>2, RestingFits
  <2>3. QED
    BY <2>1, <2>2
<1>6. IF t = "refresher" /\ ~ pub[t].at < 3 THEN stage' = "planning" ELSE stage' = stage
  BY TopicFacts DEF Publish
<1>7. PublicationsFit'
  BY <1>1, <1>2, <1>3, <1>4, <1>5, <1>6, RestingFits
     DEF ShownInv, PublicationsFit, Threads
<1>8. /\ shown' = [x \in TopicNames |-> shown'[x]]
      /\ link => shown' = [shown EXCEPT ![Topics[pub[t].at]] = pub[t].value]
  BY <1>1 DEF Publish
<1>9. clean' \in BOOLEAN /\ (clean' => clean /\ link)
  BY Zenon DEF Publish
<1>10. ASSUME clean'
       PROVE  /\ Running
              /\ \A u \in Threads : pub[u].at # 0 => u = t
              /\ pub[t].at < 3 => Fresh(pub[t])'
              /\ pub[t].at = 3 => shown' = Truth'
  <2>1. clean /\ link
    BY <1>9, <1>10
  <2>2. /\ Running /\ Fresh(pub[t])
        /\ \A u \in Threads : pub[u].at # 0 => u = t
    BY <1>2, <2>1 DEF ShownInv, CleanIsFresh
  <2>3. \A i \in {1, 2, 3} : i <= pub[t].at => shown'[Topics[i]] = Truth[Topics[i]]
    BY <1>1, <1>2, <1>8, <2>1, <2>2, TopicFacts DEF Fresh
  <2>4. pub[t].at < 3 => Fresh(pub[t])'
    BY <1>2, <1>3, <1>4, <2>2, <2>3 DEF Fresh
  <2>5. pub[t].at = 3 => shown' = Truth'
    <3>1. Truth = [x \in TopicNames |-> Truth[x]]
      BY TopicFacts DEF Truth
    <3>2. pub[t].at = 3 => \A x \in TopicNames : shown'[x] = Truth[x]
      BY <2>3, TopicFacts
    <3>3. QED
      BY <1>3, <1>8, <3>1, <3>2
  <2>6. QED
    BY <2>2, <2>4, <2>5
<1>11. CleanIsFresh'
  BY <1>2, <1>3, <1>4, <1>10, RestingFits DEF CleanIsFresh
<1>12. QED
  BY <1>7, <1>8, <1>9, <1>11 DEF ShownInv

(* Steps that change nothing to be shown, or make the record unclean.      *)
LEMMA QuietFits ==
  ASSUME ShownInv, UNCHANGED pub, Running' <=> Running,
         stage' = stage \/ (stage # "publishing" /\ stage' # "publishing"),
         callback' = callback \/ (callback' # "none" => Running /\ pub["network"].at = 0),
         shown' = [x \in TopicNames |-> shown'[x]],
         clean' \in BOOLEAN,
         clean' => clean /\ shown' = shown /\ (Truth' = Truth)
  PROVE  ShownInv'
<1>1. PublicationsFit'
  BY DEF ShownInv, PublicationsFit
<1>2. ASSUME clean', NEW t \in Threads, Fresh(pub[t])
      PROVE  Fresh(pub[t])'
  BY <1>2 DEF Fresh
<1>3. CleanIsFresh'
  BY <1>2 DEF ShownInv, CleanIsFresh
<1>4. QED
  BY <1>1, <1>3 DEF ShownInv

LEMMA QuietStep ==
  ASSUME ShownInv,
         \/ UNCHANGED vars \/ Sleep \/ Connect \/ GoOnline \/ Stop
         \/ (\E p \in Presses : Press(p))
  PROVE  ShownInv'
<1>1. /\ UNCHANGED <<pub, shown, clean, ends, now, enabled, watering, generation>>
      /\ stage' = stage \/ (stage # "publishing" /\ stage' # "publishing")
  BY DEF Sleep, PlanSleep, WakeUp, Connect, GoOnline, Stop, Press, clock, state, home,
         ghosts, vars
<1>2. Truth' = Truth
  BY <1>1 DEF Truth, NextWatering
<1>3. (Running' <=> Running)
      /\ (callback' = callback \/ (callback' # "none" => Running /\ pub["network"].at = 0))
  <2>1. CASE GoOnline
    BY <2>1 DEF GoOnline, Running, ShownInv, PublicationsFit
  <2>2. CASE Connect
    BY <2>2 DEF Connect, Idle, Running
  <2>3. CASE ~ GoOnline /\ ~ Connect
    BY <2>3 DEF Sleep, Stop, Press, Running, broker, vars
  <2>4. QED
    BY <2>1, <2>2, <2>3
<1>4. shown' = [x \in TopicNames |-> shown'[x]] /\ clean' \in BOOLEAN
  BY <1>1 DEF ShownInv
<1>5. QED
  BY <1>1, <1>2, <1>3, <1>4, QuietFits

(* A tick takes the record with it if it changes what is to be shown.      *)
LEMMA TickStep ==
  ASSUME ShownInv, TimePasses
  PROVE  ShownInv'
<1>1. /\ UNCHANGED <<pub, shown, stage, callback, process>>
  BY DEF TimePasses, Tick, broker, home
<1>2. clean' \in BOOLEAN /\ (clean' => clean /\ Truth' = Truth)
  BY Zenon DEF TimePasses
<1>3. QED
  BY <1>1, <1>2, QuietFits DEF ShownInv, Running

(* A turn without a lapse is not announced; a bump makes it unclean.       *)
LEMMA MovedStep ==
  ASSUME ShownInv, TurnMoved
  PROVE  ShownInv'
<1>1. /\ UNCHANGED <<pub, shown, callback, process, ends, now, enabled, watering>>
      /\ stage # "publishing" /\ stage' # "publishing"
      /\ ~ clean' \/ (clean' = clean /\ generation' = generation)
  BY DEF TurnMoved, broker, home
<1>2. clean' \in BOOLEAN
  BY DEF TurnMoved, ShownInv
<1>3. clean' => clean /\ Truth' = Truth
  BY <1>1 DEF Truth, NextWatering
<1>4. QED
  BY <1>1, <1>2, <1>3, QuietFits DEF ShownInv, Running

LEMMA LossStep ==
  ASSUME ShownInv, Drop \/ HomeRestart
  PROVE  ShownInv'
<1>1. /\ UNCHANGED <<pub, stage, callback, process>> /\ clean' = FALSE
      /\ shown' = shown \/ shown' = Blank
  BY DEF Drop, HomeRestart, Disconnected, clock, broker
<1>2. shown' = [x \in TopicNames |-> shown'[x]]
  BY <1>1 DEF ShownInv, Blank
<1>3. QED
  BY <1>1, <1>2, QuietFits DEF Running

LEMMA EndStep ==
  ASSUME ShownInv, Kill \/ Disconnect
  PROVE  ShownInv'
<1>1. /\ process' = "gone" /\ callback' = "none" /\ clean' = FALSE
      /\ pub' = [t \in Threads |-> Resting]
      /\ shown' = shown
  BY DEF Kill, Disconnect, End, Disconnected, home
<1>2. PublicationsFit'
  BY <1>1, RestingFits DEF PublicationsFit, Running
<1>3. QED
  BY <1>1, <1>2 DEF ShownInv, CleanIsFresh

LEMMA StartStep ==
  ASSUME ShownInv, Start
  PROVE  ShownInv'
<1>1. /\ UNCHANGED <<pub, callback, shown, clean>>
      /\ ~ Running /\ stage' = "planning" /\ Running'
  BY DEF Start, Running, broker, home
<1>2. ~ clean /\ "refresher" \in Threads
  BY <1>1 DEF ShownInv, CleanIsFresh, Threads
<1>3. PublicationsFit'
  BY <1>1, <1>2 DEF ShownInv, PublicationsFit
<1>4. QED
  BY <1>1, <1>2, <1>3 DEF ShownInv, CleanIsFresh

LEMMA NextShown == ShownInv /\ [Next]_vars => ShownInv'
BY NotifyingStep, ReadingStep, SendingStep, QuietStep, TickStep, MovedStep, LossStep,
   EndStep, StartStep DEF Next, PublishStep, Turn

LEMMA ShownInvariance == Spec => []ShownInv
BY ShownInit, NextShown, PTL DEF Spec

(* Home Assistant shows what is, unless publications crossed, the          *)
(* refresher or the clock changed it without a word, or a message was lost.*)
THEOREM HomeShowsTheTruth == Spec => []ShowsTheTruth
<1>1. ShownInv => ShowsTheTruth
  BY DEF ShownInv, CleanIsFresh, ShowsTheTruth, Busy
<1>2. QED
  BY <1>1, ShownInvariance, PTL

-----------------------------------------------------------------------------
(* The refresher                                                           *)

LEMMA MaxOfTwo ==
  ASSUME NEW a \in Int, NEW b \in Int
  PROVE  /\ Max({a, b}) \in {a, b}
         /\ Max({a, b}) >= a /\ Max({a, b}) >= b
<1>1. \E x \in {a, b} : \A y \in {a, b} : x >= y
  <2>1. CASE a >= b
    BY <2>1
  <2>2. CASE b >= a
    BY <2>2
  <2>3. QED
    BY <2>1, <2>2
<1>2. /\ Max({a, b}) \in {a, b}
      /\ \A y \in {a, b} : Max({a, b}) >= y
  BY <1>1 DEF Max
<1>3. QED
  BY <1>2

LEMMA MinOfTwo ==
  ASSUME NEW a \in Int, NEW b \in Int
  PROVE  /\ Min({a, b}) \in {a, b}
         /\ Min({a, b}) <= a /\ Min({a, b}) <= b
<1>1. \E x \in {a, b} : \A y \in {a, b} : x <= y
  <2>1. CASE a <= b
    BY <2>1
  <2>2. CASE b <= a
    BY <2>2
  <2>3. QED
    BY <2>1, <2>2
<1>2. /\ Min({a, b}) \in {a, b}
      /\ \A y \in {a, b} : Min({a, b}) <= y
  BY <1>1 DEF Min
<1>3. QED
  BY <1>2

(* The next end planned for is one ahead, or there is none.                *)
LEMMA NextExpiryAhead ==
  ASSUME now \in Nat, ends \in [Overlays -> Nat]
  PROVE  NextExpiry = NoTime \/ (NextExpiry \in Nat /\ NextExpiry > now)
<1> DEFINE ahead == {ends[o] : o \in {p \in Overlays : ends[p] > now}}
<1>1. \A x \in ahead : x \in Nat /\ x > now
  OBVIOUS
<1>2. CASE ahead = {}
  BY <1>2 DEF NextExpiry
<1>3. CASE ahead # {}
  <2>1. ahead \subseteq {ends["pause"], ends["adjust"]}
    BY DEF Overlays
  <2>2. ends["pause"] \in Nat /\ ends["adjust"] \in Nat
    BY DEF Overlays
  <2>3. PICK a \in ahead, b \in ahead : ahead = {a, b}
    BY <1>3, <2>1
  <2>4. Min(ahead) \in ahead
    <3>1. a \in Int /\ b \in Int
      BY <1>1
    <3>2. Min({a, b}) \in {a, b}
      BY <3>1, MinOfTwo, Zenon
    <3>3. QED
      BY <2>3, <3>2, Zenon
  <2> HIDE DEF ahead
  <2>5. NextExpiry = Min(ahead)
    BY <1>3 DEF NextExpiry, ahead
  <2>6. QED
    BY <1>1, <2>4, <2>5
<1>4. QED
  BY <1>2, <1>3

(* A sleep is no longer than the interval, nor than what is left.          *)
LEMMA DelayBounds ==
  ASSUME now \in Nat, NEW end \in Nat, end = NoTime \/ end > now
  PROVE  /\ Delay(end) \in Nat
         /\ Delay(end) <= Interval
         /\ end # NoTime => now + Delay(end) <= end
<1>1. CASE end = NoTime
  BY <1>1, TimesAssumption DEF Delay
<1>2. CASE end # NoTime
  <2> DEFINE least == Min({Interval, end - now})
  <2>1. end - now \in Int /\ end - now >= 1 /\ Interval \in Int /\ Interval >= 1
    BY <1>2, TimesAssumption
  <2>2. least \in Int /\ least >= 1 /\ least <= Interval /\ least <= end - now
    BY <2>1, MinOfTwo
  <2> HIDE DEF least
  <2>3. Max({1, least}) = least
    <3>1. 1 \in Int
      OBVIOUS
    <3>2. /\ Max({1, least}) \in {1, least}
          /\ Max({1, least}) >= 1 /\ Max({1, least}) >= least
      BY <2>2, <3>1, MaxOfTwo, Zenon
    <3>3. QED
      BY <2>2, <3>2
  <2>4. Delay(end) = least
    BY <1>2, <2>3 DEF Delay, least
  <2>5. QED
    BY <2>1, <2>2, <2>4
<1>3. QED
  BY <1>1, <1>2

-----------------------------------------------------------------------------
(* The moment from which an overlay can be late.                           *)
Due(o) == Max({ends[o], started})

(* A sleep ends in time for each overlay, however it was set, and while    *)
(* the refresher is not asleep it is no later than its lag.                *)
OnTime ==
  /\ stage \in {"asleep", "turn"} =>
       /\ now <= wake + lag /\ wake <= now + Interval
       /\ expiry # NoTime => wake <= expiry
       /\ \A o \in Overlays : ends[o] # NoTime => wake <= Due(o) + Interval + MaxLag
  /\ stage \in {"planning", "publishing"} =>
       \A o \in Overlays : ends[o] # NoTime =>
         /\ now <= Due(o) + lag
         /\ expiry = ends[o] => now <= ends[o] + lag

TimeInv ==
  /\ RefresherTypeOK
  /\ started \in 1 .. MaxTime /\ started <= now
  /\ Running => OnTime

LEMMA DueFacts ==
  ASSUME ends \in [Overlays -> Nat], started \in Nat, NEW o \in Overlays
  PROVE  Due(o) \in Nat /\ Due(o) >= ends[o] /\ Due(o) >= started
<1>1. ends[o] \in Int /\ started \in Int
  OBVIOUS
<1>2. /\ Due(o) \in {ends[o], started}
      /\ Due(o) >= ends[o] /\ Due(o) >= started
  BY <1>1, MaxOfTwo, Zenon DEF Due
<1>3. QED
  BY <1>2

(* The same in the next state.                                             *)
LEMMA DueFactsLater ==
  ASSUME ends' \in [Overlays -> Nat], started' \in Nat, NEW o \in Overlays
  PROVE  Due(o)' \in Nat /\ Due(o)' >= ends'[o] /\ Due(o)' >= started'
<1>1. ends'[o] \in Int /\ started' \in Int
  OBVIOUS
<1>2. /\ Due(o)' \in {ends'[o], started'}
      /\ Due(o)' >= ends'[o] /\ Due(o)' >= started'
  BY <1>1, MaxOfTwo, Zenon DEF Due
<1>3. QED
  BY <1>2

LEMMA TimeInit == Init => TimeInv
<1> SUFFICES ASSUME Init PROVE TimeInv
  OBVIOUS
<1>1. now \in 1 .. MaxTime /\ started = now
  BY BoundsAssumption, TimesAssumption DEF Init, RefresherInit
<1>2. RefresherTypeOK
  BY <1>1, TimesAssumption DEF Init, RefresherInit, RefresherTypeOK, NoTime
<1>3. OnTime
  BY DEF Init, RefresherInit, OnTime
<1>4. QED
  BY <1>1, <1>2, <1>3 DEF TimeInv

(* The refresher goes to sleep.                                            *)
LEMMA PlanTime ==
  ASSUME TimeInv, Running, PlanSleep, UNCHANGED started
  PROVE  TimeInv'
<1>1. /\ now \in 1 .. MaxTime /\ ends \in [Overlays -> Nat] /\ lag \in 0 .. MaxLag
      /\ now' = now /\ ends' = ends /\ lag' = 0 /\ stage = "planning" /\ stage' = "asleep"
      /\ MaxLag \in Nat /\ Interval \in Nat /\ MaxTime \in Nat
  BY TimesAssumption DEF TimeInv, RefresherTypeOK, PlanSleep
<1>2. /\ expiry' = NextExpiry /\ wake' = now + Delay(expiry')
  BY DEF PlanSleep
<1>3. expiry' \in Nat /\ (expiry' = NoTime \/ expiry' > now)
  BY <1>1, <1>2, NextExpiryAhead DEF NoTime
<1>4. Delay(expiry') \in Nat /\ Delay(expiry') <= Interval
      /\ (expiry' # NoTime => now + Delay(expiry') <= expiry')
  BY <1>1, <1>3, DelayBounds
<1>5. wake' \in Nat /\ wake' <= now + Interval /\ now <= wake'
      /\ (expiry' # NoTime => wake' <= expiry')
  BY <1>1, <1>2, <1>4
<1>6. \A o \in Overlays : Due(o)' = Due(o)
  BY <1>1 DEF Due
<1>7. \A o \in Overlays : ends[o] # NoTime => wake' <= Due(o) + Interval + MaxLag
  <2> SUFFICES ASSUME NEW o \in Overlays, ends[o] # NoTime
               PROVE  wake' <= Due(o) + Interval + MaxLag
    OBVIOUS
  <2>1. Due(o) \in Nat /\ now <= Due(o) + lag
    BY <1>1, DueFacts DEF TimeInv, OnTime
  <2>2. QED
    BY <1>1, <1>5, <2>1
<1>8. OnTime'
  <2>1. now' <= wake' + lag' /\ wake' <= now' + Interval
    <3>1. now' = now /\ lag' = 0
      BY <1>1
    <3>2. wake' \in Nat /\ now <= wake' /\ wake' <= now + Interval
      BY <1>5
    <3>3. \A w \in Nat : w + 0 = w
      OBVIOUS
    <3>4. QED
      BY <3>1, <3>2, <3>3
  <2>2. \A o \in Overlays : ends'[o] # NoTime => wake' <= Due(o)' + Interval + MaxLag
    BY <1>1, <1>6, <1>7
  <2>3. QED
    BY <1>1, <1>5, <2>1, <2>2 DEF OnTime
<1>9. RefresherTypeOK'
  BY <1>1, <1>3, <1>5 DEF RefresherTypeOK
<1>10. QED
  BY <1>1, <1>8, <1>9 DEF TimeInv

LEMMA SleepTime ==
  ASSUME TimeInv, Sleep
  PROVE  TimeInv'
<1>1. Running /\ UNCHANGED started
  BY DEF Sleep, ghosts
<1>2. CASE PlanSleep
  BY <1>1, <1>2, PlanTime
<1>3. CASE WakeUp
  <2>1. /\ UNCHANGED <<now, ends, expiry, wake, lag, started, process>>
        /\ stage = "asleep" /\ stage' = "turn"
    BY <1>1, <1>3 DEF WakeUp, Sleep, ghosts
  <2>2. \A o \in Overlays : Due(o)' = Due(o)
    BY <2>1 DEF Due
  <2>3. QED
    BY <1>1, <2>1, <2>2 DEF TimeInv, OnTime, RefresherTypeOK, Running
<1>4. QED
  BY <1>2, <1>3 DEF Sleep

(* A turn leaves no overlay in force that has lapsed.                      *)
LEMMA TurnTime ==
  ASSUME TimeInv, Turn
  PROVE  TimeInv'
<1>1. /\ now \in 1 .. MaxTime /\ ends \in [Overlays -> Nat] /\ lag \in 0 .. MaxLag
      /\ started \in 1 .. MaxTime /\ started <= now
      /\ Running /\ stage = "turn" /\ MaxTime \in Nat /\ MaxLag \in Nat
  BY TimesAssumption DEF TimeInv, RefresherTypeOK, Turn, TurnLapsed, TurnMoved
<1>2. /\ UNCHANGED <<now, expiry, wake, lag, started, process>>
      /\ stage' \in {"planning", "publishing"}
  BY DEF Turn, TurnLapsed, TurnMoved
<1>3. ends' \in [Overlays -> Nat] /\ \A o \in Overlays : ends'[o] # NoTime => now < ends'[o]
  <2>1. CASE TurnLapsed
    <3>1. ends' = [o \in Overlays |-> IF Lapsed(o) THEN NoTime ELSE ends[o]]
      BY <2>1 DEF TurnLapsed, Unlapsed
    <3>2. QED
      BY <1>1, <3>1 DEF Lapsed, NoTime
  <2>2. CASE TurnMoved
    BY <1>1, <2>2 DEF TurnMoved, Lapsed
  <2>3. QED
    BY <2>1, <2>2 DEF Turn
<1>4. \A o \in Overlays : Due(o)' \in Nat /\ Due(o)' >= ends'[o]
  BY <1>1, <1>2, <1>3, DueFactsLater
<1>5. \A o \in Overlays : ends'[o] # NoTime => now' <= Due(o)' + lag' /\ now' <= ends'[o] + lag'
  <2> SUFFICES ASSUME NEW o \in Overlays, ends'[o] # NoTime
               PROVE  now' <= Due(o)' + lag' /\ now' <= ends'[o] + lag'
    OBVIOUS
  <2>1. ends'[o] \in Nat /\ now < ends'[o] /\ Due(o)' \in Nat /\ Due(o)' >= ends'[o]
    BY <1>3, <1>4
  <2>2. QED
    BY <1>1, <1>2, <2>1
<1>6. OnTime'
  BY <1>2, <1>5 DEF OnTime
<1>7. RefresherTypeOK'
  BY <1>1, <1>2, <1>3 DEF TimeInv, RefresherTypeOK
<1>8. QED
  BY <1>1, <1>2, <1>6, <1>7 DEF TimeInv

(* An overlay that is set does not end before it began, and the sleep that *)
(* is on ends within the interval.                                         *)
LEMMA OverlayTime ==
  ASSUME TimeInv, NEW p \in Overlays, NEW span \in Spans, SetOverlay(p, span)
  PROVE  TimeInv'
<1>1. /\ now \in 1 .. MaxTime /\ ends \in [Overlays -> Nat] /\ lag \in 0 .. MaxLag
      /\ started \in 1 .. MaxTime /\ started <= now /\ wake \in Nat /\ expiry \in Nat
      /\ Running /\ MaxTime \in Nat /\ MaxLag \in Nat /\ Interval \in Nat
      /\ stage \in {"planning", "asleep", "turn", "publishing"} /\ OnTime
  BY TimesAssumption DEF TimeInv, RefresherTypeOK, SetOverlay, Idle
<1>2. /\ UNCHANGED <<now, stage, expiry, wake, lag, started, process>>
      /\ ends' = [ends EXCEPT ![p] = IF span = 0 THEN NoTime ELSE now + span]
  BY DEF SetOverlay
<1>3. span \in Nat
  BY SpansAssumption
<1>4. /\ ends' \in [Overlays -> Nat]
      /\ \A o \in Overlays : ends'[o] # NoTime => ends'[o] = ends[o] \/ ends'[o] >= now
      /\ \A o \in Overlays : ends'[o] # NoTime /\ ends'[o] # ends[o] => o = p
  BY <1>1, <1>2, <1>3 DEF NoTime
<1>5. \A o \in Overlays : Due(o)' \in Nat /\ Due(o)' >= ends'[o]
  BY <1>1, <1>2, <1>4, DueFactsLater
<1>6. \A o \in Overlays : ends'[o] = ends[o] => Due(o)' = Due(o)
  BY <1>2 DEF Due
<1>7. ASSUME NEW o \in Overlays, ends'[o] # NoTime
      PROVE  /\ stage \in {"asleep", "turn"} => wake <= Due(o)' + Interval + MaxLag
             /\ stage \in {"planning", "publishing"} =>
                  /\ now <= Due(o)' + lag
                  /\ expiry = ends'[o] => now <= ends'[o] + lag
  <2>1. CASE ends'[o] = ends[o]
    BY <1>1, <1>6, <1>7, <2>1 DEF OnTime
  <2>2. CASE ends'[o] >= now
    <3>1. ends'[o] \in Nat /\ Due(o)' \in Nat /\ Due(o)' >= ends'[o]
      BY <1>4, <1>5
    <3>2. stage \in {"asleep", "turn"} => wake <= now + Interval
      BY <1>1 DEF OnTime
    <3>3. QED
      BY <1>1, <2>2, <3>1, <3>2
  <2>3. QED
    BY <1>4, <1>7, <2>1, <2>2
<1>8. OnTime'
  BY <1>1, <1>2, <1>7 DEF OnTime
<1>9. RefresherTypeOK'
  BY <1>1, <1>2, <1>4 DEF RefresherTypeOK
<1>10. QED
  BY <1>1, <1>2, <1>8, <1>9 DEF TimeInv

(* The clock only gains on a refresher that is late.                       *)
LEMMA TickTime ==
  ASSUME TimeInv, TimePasses
  PROVE  TimeInv'
<1>1. /\ now \in 1 .. MaxTime /\ lag \in 0 .. MaxLag /\ wake \in Nat
      /\ started \in 1 .. MaxTime /\ started <= now
      /\ ends \in [Overlays -> Nat]
      /\ stage \in {"planning", "asleep", "turn", "publishing"}
      /\ MaxTime \in Nat /\ MaxLag \in Nat /\ Interval \in Nat
  BY TimesAssumption DEF TimeInv, RefresherTypeOK
<1>2. /\ UNCHANGED <<ends, stage, expiry, wake, started, process>>
      /\ now < MaxTime /\ now' = now + 1
  BY DEF TimePasses, Tick
<1>3. /\ Running /\ Awake => lag < MaxLag /\ lag' = lag + 1
      /\ ~ (Running /\ Awake) => lag' = lag
  BY DEF TimePasses, Tick
<1>4. \A o \in Overlays : Due(o)' = Due(o)
  BY <1>2 DEF Due
<1>5. RefresherTypeOK'
  BY <1>1, <1>2, <1>3 DEF TimeInv, RefresherTypeOK
<1>6. ASSUME Running
      PROVE  OnTime'
  <2>1. OnTime
    BY <1>6 DEF TimeInv
  <2>2. CASE stage \in {"asleep", "turn"}
    <3>1. now + 1 <= wake + lag'
      BY <1>1, <1>3, <1>6, <2>1, <2>2 DEF Awake, OnTime
    <3>2. QED
      BY <1>1, <1>2, <1>4, <2>1, <2>2, <3>1 DEF OnTime
  <2>3. CASE stage \in {"planning", "publishing"}
    <3>1. lag' = lag + 1
      BY <1>3, <1>6, <2>3 DEF Awake
    <3>2. \A o \in Overlays : Due(o) \in Nat
      BY <1>1, DueFacts
    <3>3. QED
      BY <1>1, <1>2, <1>4, <2>1, <2>3, <3>1, <3>2 DEF OnTime
  <2>4. QED
    BY <1>1, <2>2, <2>3
<1>7. Running' => OnTime'
  BY <1>2, <1>6 DEF Running
<1>8. QED
  BY <1>1, <1>2, <1>5, <1>7 DEF TimeInv

LEMMA StartTime ==
  ASSUME TimeInv, Start
  PROVE  TimeInv'
<1>1. /\ now \in 1 .. MaxTime /\ MaxTime \in Nat /\ MaxLag \in Nat
      /\ ends \in [Overlays -> Nat]
  BY TimesAssumption DEF TimeInv, RefresherTypeOK
<1>2. /\ now' = now /\ ends' = ends /\ started' = now
      /\ stage' = "planning" /\ expiry' = NoTime /\ wake' = NoTime /\ lag' = 0
  BY DEF Start
<1>3. \A o \in Overlays : Due(o)' \in Nat /\ Due(o)' >= now
  BY <1>1, <1>2, DueFactsLater
<1>4. OnTime'
  BY <1>1, <1>2, <1>3 DEF OnTime
<1>5. RefresherTypeOK'
  BY <1>1, <1>2 DEF RefresherTypeOK, NoTime
<1>6. QED
  BY <1>1, <1>2, <1>4, <1>5 DEF TimeInv

(* A publication ends the refresher's turn; nothing else moves the clock.  *)
LEMMA OtherTime ==
  ASSUME TimeInv, PublicationsFit,
         \/ UNCHANGED vars
         \/ PublishStep \/ HeardFromHub \/ OnMessage
         \/ Connect \/ GoOnline \/ Subscribe \/ Drop
         \/ (\E p \in Presses : Press(p)) \/ HomeRestart
         \/ Kill \/ Stop \/ Disconnect
  PROVE  TimeInv'
<1>1. /\ UNCHANGED <<now, ends, expiry, wake, lag, started>>
      /\ stage' = stage \/ (stage = "publishing" /\ stage' = "planning")
      /\ Running' => Running
  <2>1. CASE PublishStep
    <3>1. PICK t \in Threads : ReadNext(t) \/ Read(t) \/ Publish(t)
      BY <2>1 DEF PublishStep
    <3>2. CASE Publish(t) /\ stage' # stage
      <4>1. t = "refresher" /\ stage' = "planning" /\ pub[t].value # Nothing
        BY <3>2 DEF Publish
      <4>2. pub[t].at # 0 /\ Running
        BY <4>1 DEF PublicationsFit, Publication
      <4>3. QED
        BY <3>2, <4>1, <4>2 DEF Publish, PublicationsFit
    <3>3. CASE ~ (Publish(t) /\ stage' # stage)
      BY <3>1, <3>3 DEF ReadNext, Read, Publish, Running, clock, ghosts
    <3>4. QED
      BY <3>2, <3>3
  <2>2. CASE ~ PublishStep
    BY <2>2 DEF HeardFromHub, Observe, OnMessage, Idle, Connect, GoOnline, Subscribe,
                Drop, Press, HomeRestart, Kill, End, Stop, Disconnect, Running, clock,
                ghosts, vars
  <2>3. QED
    BY <2>1, <2>2
<1>2. \A o \in Overlays : Due(o)' = Due(o)
  BY <1>1 DEF Due
<1>3. RefresherTypeOK'
  BY <1>1 DEF TimeInv, RefresherTypeOK
<1>4. CASE stage' = stage
  BY <1>1, <1>2, <1>3, <1>4 DEF TimeInv, OnTime
<1>5. CASE stage = "publishing" /\ stage' = "planning"
  BY <1>1, <1>2, <1>3, <1>5 DEF TimeInv, OnTime
<1>6. QED
  BY <1>1, <1>4, <1>5

LEMMA NextTime == TimeInv /\ ShownInv /\ [Next]_vars => TimeInv'
BY SleepTime, TurnTime, OverlayTime, TickTime, StartTime, OtherTime
   DEF Next, ShownInv

LEMMA InTime == TimeInv => OverlaysLapseInTime
<1> SUFFICES ASSUME TimeInv, Running, NEW o \in Overlays, ends[o] # NoTime
             PROVE  /\ now <= Max({ends[o], started}) + Interval + 2 * MaxLag
                    /\ expiry = ends[o] => now <= ends[o] + MaxLag
  BY DEF OverlaysLapseInTime
<1>1. /\ now \in Nat /\ ends \in [Overlays -> Nat] /\ started \in Nat
      /\ wake \in Nat /\ expiry \in Nat /\ ends[o] \in Nat
      /\ lag \in Nat /\ lag <= MaxLag /\ MaxLag \in Nat /\ Interval \in Nat
      /\ stage \in {"planning", "asleep", "turn", "publishing"} /\ OnTime
  BY TimesAssumption DEF TimeInv, RefresherTypeOK
<1>2. Due(o) \in Nat
  BY <1>1, DueFacts
<1>3. /\ now <= Due(o) + Interval + 2 * MaxLag
      /\ expiry = ends[o] => now <= ends[o] + MaxLag
  <2>1. CASE stage \in {"asleep", "turn"}
    <3>1. /\ now <= wake + lag
          /\ expiry # NoTime => wake <= expiry
          /\ wake <= Due(o) + Interval + MaxLag
      BY <1>1, <2>1 DEF OnTime
    <3>2. QED
      BY <1>1, <1>2, <3>1
  <2>2. CASE stage \in {"planning", "publishing"}
    <3>1. /\ now <= Due(o) + lag
          /\ expiry = ends[o] => now <= ends[o] + lag
      BY <1>1, <2>2 DEF OnTime
    <3>2. QED
      BY <1>1, <1>2, <3>1
  <2>3. QED
    BY <1>1, <2>1, <2>2
<1>4. QED
  BY <1>3 DEF Due

(* An end the refresher planned for is met up to its lag; any other        *)
(* overlay lapses within an interval and twice the lag.                    *)
THEOREM LapsesInTime == Spec => []OverlaysLapseInTime
BY TimeInit, NextTime, InTime, ShownInvariance, PTL DEF Spec
=============================================================================
