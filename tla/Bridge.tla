------------------------------- MODULE Bridge --------------------------------
(***************************************************************************)
(* The bridge to Home Assistant (mqtt_bridge.py), the threads that make it *)
(* publish, the broker, and what Home Assistant shows.                     *)
(*                                                                         *)
(* Whoever changes the state publishes all of it, on a thread of its own   *)
(* and one topic after the other: a request thread that has heard from the *)
(* hub, the network thread of the MQTT client that carries out a command   *)
(* or has connected, the refresher when an overlay lapses.  Nothing orders *)
(* them.  The topics of the state are not retained and nothing is sent     *)
(* again, so a value that is lost or overtaken stays on the screen until   *)
(* the next publication.                                                   *)
(***************************************************************************)
EXTENDS Refresher, Generation

CONSTANTS
  Presses,     \* what users press: subset of {"water_now", "stop", "ON", "OFF"}
  Spans,       \* the spans of the overlays users set
  MaxEvents,   \* bound: presses and overlays
  MaxFaults,   \* bound: dropped connections, restarts, stops and kills
  Company      \* bound: ticks with the hub and the broker

ASSUME PressesAssumption == Presses \subseteq {"water_now", "stop", "ON", "OFF"}
ASSUME SpansAssumption == Spans \subseteq Nat
ASSUME BoundsAssumption == MaxEvents \in Nat /\ MaxFaults \in Nat /\ Company \in 0 .. MaxTime - 1

Threads == {"network", "request", "refresher"}

VARIABLES
  enabled,     \* HubState: schedule_enabled
  watering,    \* HubState: what the hub last said it does
  generation,  \* HubState
  last,        \* refresher: the next watering it last saw
  process,     \* "up", "stopping" in the finally of main, or "gone"
  link,        \* the client is connected to the broker
  callback,    \* the rest of _on_connect: "online", "subscribe" or "none"
  subscribed,  \* the broker sends the commands on
  inbox,       \* commands received and not looked at
  pub,         \* publish_state on each thread: see Resting
  shown,       \* Home Assistant: the last value of each topic
  available,   \* broker: the retained availability
  clean,       \* history: the last publication began alone and nothing else
               \* to be shown has changed, and nothing was lost, since
  crossed,     \* history: the last "online" was sent behind stop's "offline"
  started,     \* history: when the process last started
  apart,           \* bound: neither the hub nor the broker is there
  events, faults   \* bounds

state == <<enabled, watering, generation, last>>
broker == <<link, callback, subscribed, inbox>>
home == <<shown, available>>
ghosts == <<clean, crossed, started>>
bounds == <<apart, events, faults>>
vars == <<clock, state, process, broker, pub, home, ghosts, bounds>>

(* A value is <<v>>; <<>> is none yet.                                     *)
Nothing == <<>>

(* watering, whose value the attributes carry too, and last_contact, which *)
(* every call of the hub changes, are left out.                            *)
Topics == <<"attributes", "next_watering", "schedule">>

TopicNames == {Topics[i] : i \in DOMAIN Topics}

Blank == [t \in TopicNames |-> Nothing]

Disabled == -1

(* next_watering: a pause is what moves it here.                           *)
NextWatering ==
  IF ~ enabled THEN Disabled
  ELSE IF ends["pause"] > now THEN ends["pause"] ELSE NoTime

(* What a publication would show that took no time.                        *)
Truth ==
  [attributes |-> <<watering, generation>>,
   next_watering |-> <<NextWatering>>, schedule |-> <<enabled>>]

(* A publication: the topic it is at, the next watering it read first, and *)
(* the value it has read for the topic.                                    *)
Resting == [at |-> 0, next |-> Nothing, value |-> Nothing]

Busy == {t \in Threads : pub[t].at # 0}

(* The clock starts early in a time without hub and broker, and late in    *)
(* one with both.                                                          *)
Init ==
  /\ apart \in BOOLEAN
  /\ RefresherInit(IF apart THEN 1 ELSE MaxTime - Company)
  /\ enabled = TRUE /\ watering = "idle" /\ generation = InitialGeneration
  /\ last = Nothing
  /\ process = "up"
  /\ link = FALSE /\ callback = "none" /\ subscribed = FALSE /\ inbox = <<>>
  /\ pub = [t \in Threads |-> Resting]
  /\ shown = Blank /\ available = "offline"
  /\ clean = FALSE /\ crossed = FALSE /\ started = now
  /\ events = 0 /\ faults = 0

Running == process # "gone"
Event == events < MaxEvents /\ events' = events + 1 /\ UNCHANGED apart
Fault == faults < MaxFaults /\ faults' = faults + 1 /\ UNCHANGED apart

-----------------------------------------------------------------------------
(* publish_state                                                           *)

(* _notify: the thread t starts to publish.                                *)
Notify(t) ==
  /\ pub' = [pub EXCEPT ![t].at = 1]
  /\ clean' = (Busy = {})

(* The next watering is read before anything is published.                 *)
ReadNext(t) ==
  /\ pub[t].at = 1 /\ pub[t].next = Nothing
  /\ pub' = [pub EXCEPT ![t].next = Truth["next_watering"]]
  /\ UNCHANGED <<clock, state, process, broker, home, ghosts, bounds>>

Read(t) ==
  /\ pub[t].at # 0 /\ pub[t].next # Nothing /\ pub[t].value = Nothing
  /\ LET topic == Topics[pub[t].at] IN
       pub' = [pub EXCEPT ![t].value =
                 IF topic = "next_watering" THEN pub[t].next ELSE Truth[topic]]
  /\ UNCHANGED <<clock, state, process, broker, home, ghosts, bounds>>

(* Mutant: the last topic is forgotten.                                    *)
AllButOne == Len(Topics) - 1

LastTopic == Len(Topics)

(* A message goes out if there is a connection, and is dropped otherwise.  *)
Publish(t) ==
  /\ pub[t].value # Nothing
  /\ shown' = IF link THEN [shown EXCEPT ![Topics[pub[t].at]] = pub[t].value]
                      ELSE shown
  /\ clean' = (clean /\ link)
  /\ IF pub[t].at < LastTopic
       THEN /\ pub' = [pub EXCEPT ![t].at = @ + 1, ![t].value = Nothing]
            /\ UNCHANGED <<stage, last>>
       ELSE /\ pub' = [pub EXCEPT ![t] = Resting]
            /\ IF t = "refresher"
                 THEN stage' = "planning" /\ last' = <<NextWatering>>
                 ELSE UNCHANGED <<stage, last>>
  /\ UNCHANGED <<now, ends, expiry, wake, lag, enabled, watering, generation,
                 process, broker, available, crossed, started, bounds>>

-----------------------------------------------------------------------------
(* What makes a thread publish                                             *)

(* Mutant: the hub is heard and nobody is told.                            *)
ObserveUntold(w) ==
  /\ Running /\ pub["request"].at = 0 /\ ~ apart
  /\ watering' = w
  /\ clean' = (clean /\ w = watering)
  /\ UNCHANGED <<clock, enabled, generation, last, process, broker, pub, home,
                 crossed, started, bounds>>

Observe(w) ==
  /\ Running /\ pub["request"].at = 0 /\ ~ apart
  /\ watering' = w
  /\ Notify("request")
  /\ UNCHANGED <<clock, enabled, generation, last, process, broker, home,
                 crossed, started, bounds>>

(* The network thread runs one callback at a time.                         *)
Idle == Running /\ callback = "none" /\ pub["network"].at = 0

(* water_now, stop_watering and set_enabled.                               *)
OnMessage ==
  /\ Idle /\ inbox # <<>>
  /\ inbox' = Tail(inbox)
  /\ enabled' = IF Head(inbox) \in {"ON", "OFF"} THEN Head(inbox) = "ON" ELSE enabled
  /\ generation' = Bump(generation)
  /\ Notify("network")
  /\ UNCHANGED <<clock, watering, last, process, link, callback, subscribed, home,
                 crossed, started, bounds>>

(* pause and adjust; 0 cancels.  No topic leads to them yet; a call would  *)
(* be made where set_enabled is.                                           *)
SetOverlay(o, span) ==
  /\ Idle /\ Event
  /\ ends' = [ends EXCEPT ![o] = IF span = 0 THEN NoTime ELSE now + span]
  /\ generation' = Bump(generation)
  /\ Notify("network")
  /\ UNCHANGED <<now, stage, expiry, wake, lag, enabled, watering, last, process,
                 broker, home, crossed, started, faults>>

(* One turn of the refresher.  Only a lapse is announced.                  *)
TurnLapsed ==
  /\ Running /\ stage = "turn" /\ \E o \in Overlays : Lapsed(o)
  /\ ends' = Unlapsed
  /\ generation' = Bump(generation)
  /\ stage' = "publishing"
  /\ Notify("refresher")
  /\ UNCHANGED <<now, expiry, wake, lag, enabled, watering, last, process, broker,
                 home, crossed, started, bounds>>

TurnMoved ==
  /\ Running /\ stage = "turn" /\ ~ \E o \in Overlays : Lapsed(o)
  /\ stage' = "planning"
  /\ last' = <<NextWatering>>
  /\ IF last' # last
       THEN generation' = Bump(generation) /\ clean' = FALSE
       ELSE UNCHANGED <<generation, clean>>
  /\ UNCHANGED <<now, ends, expiry, wake, lag, enabled, watering, process, broker,
                 pub, home, crossed, started, bounds>>

Sleep ==
  /\ Running
  /\ PlanSleep \/ WakeUp
  /\ UNCHANGED <<state, process, broker, pub, home, ghosts, bounds>>

(* A publication takes less than a tick.                                   *)
TimePasses ==
  /\ Busy = {} /\ callback = "none"
  /\ Tick(Running)
  /\ UNCHANGED <<state, process, broker, pub, home, crossed, started, bounds>>
  /\ clean' = (clean /\ Truth' = Truth)

-----------------------------------------------------------------------------
(* The connection                                                          *)

Connect ==
  /\ Idle /\ ~ link /\ ~ apart
  /\ link' = TRUE
  /\ callback' = "online"
  /\ UNCHANGED <<clock, state, process, subscribed, inbox, pub, home, ghosts,
                 bounds>>

(* _on_connect: availability and discovery, which the broker keeps,        *)
GoOnline ==
  /\ callback = "online"
  /\ available' = IF link THEN "online" ELSE available
  /\ crossed' = IF link THEN process = "stopping" ELSE crossed
  /\ callback' = "subscribe"
  /\ UNCHANGED <<clock, state, process, link, subscribed, inbox, pub, shown, clean,
                 started, bounds>>

(* then the subscriptions and the state.                                   *)
Subscribe ==
  /\ callback = "subscribe"
  /\ subscribed' = link
  /\ callback' = "none"
  /\ Notify("network")
  /\ UNCHANGED <<clock, state, process, link, inbox, home, crossed, started,
                 bounds>>

(* The broker misses the client and publishes its will.                    *)
Disconnected ==
  /\ link' = FALSE /\ subscribed' = FALSE /\ inbox' = <<>>
  /\ clean' = FALSE

(* Mutant: the client leaves no will.                                      *)
NoWill == UNCHANGED available

Will == available' = IF link THEN "offline" ELSE available

Drop ==
  /\ link /\ Fault
  /\ Disconnected /\ Will
  /\ UNCHANGED <<clock, state, process, callback, pub, shown, crossed, started, events>>

(* A command is lost when nobody is subscribed to it.                      *)
Press(p) ==
  /\ available = "online" /\ Event
  /\ inbox' = IF subscribed THEN Append(inbox, p) ELSE inbox
  /\ UNCHANGED <<clock, state, process, link, callback, subscribed, pub, home,
                 ghosts, faults>>

HomeRestart ==
  /\ Fault
  /\ shown' = Blank
  /\ clean' = FALSE
  /\ UNCHANGED <<clock, state, process, broker, pub, available, crossed, started, events>>

-----------------------------------------------------------------------------
(* The process                                                             *)

End ==
  /\ process' = "gone"
  /\ Disconnected
  /\ callback' = "none"
  /\ pub' = [t \in Threads |-> Resting]

Kill ==
  /\ Running /\ Fault
  /\ End /\ Will
  /\ UNCHANGED <<clock, state, shown, crossed, started, events>>

(* stop: "offline", then loop_stop waits for the callback that runs, and   *)
(* the broker is told that nothing is wrong.                               *)
Stop ==
  /\ process = "up" /\ Fault
  /\ process' = "stopping"
  /\ available' = IF link THEN "offline" ELSE available
  /\ UNCHANGED <<clock, state, broker, pub, shown, ghosts, events>>

Disconnect ==
  /\ process = "stopping" /\ Idle
  /\ End
  /\ UNCHANGED <<clock, state, home, crossed, started, bounds>>

(* The overlays and the switch come back from state.json.                  *)
Start ==
  /\ ~ Running
  /\ process' = "up"
  /\ stage' = "planning" /\ expiry' = NoTime /\ wake' = NoTime /\ lag' = 0
  /\ watering' = "idle" /\ generation' = InitialGeneration /\ last' = Nothing
  /\ started' = now
  /\ UNCHANGED <<now, ends, enabled, broker, pub, home, clean, crossed, bounds>>

-----------------------------------------------------------------------------
PublishStep == \E t \in Threads : ReadNext(t) \/ Read(t) \/ Publish(t)

HeardFromHub == \E w \in {"idle", "watering"} : Observe(w)

Turn == TurnLapsed \/ TurnMoved

Next ==
  \/ PublishStep \/ HeardFromHub \/ OnMessage
  \/ (\E o \in Overlays, d \in Spans : SetOverlay(o, d))
  \/ Turn \/ Sleep \/ TimePasses
  \/ Connect \/ GoOnline \/ Subscribe \/ Drop
  \/ (\E p \in Presses : Press(p)) \/ HomeRestart
  \/ Kill \/ Stop \/ Disconnect \/ Start

Spec == Init /\ [][Next]_vars

(* The threads run, the client connects again by itself, and the hub keeps *)
(* calling.  Nothing is assumed of the users, the faults or the clock.     *)
Fairness ==
  /\ \A t \in Threads : WF_vars(ReadNext(t) \/ Read(t) \/ Publish(t))
  /\ WF_vars(HeardFromHub)
  /\ WF_vars(OnMessage) /\ WF_vars(Turn) /\ WF_vars(Sleep)
  /\ WF_vars(Connect) /\ WF_vars(GoOnline) /\ WF_vars(Subscribe)

FairSpec == Spec /\ Fairness

-----------------------------------------------------------------------------
(* Properties                                                              *)

(* Every variable keeps its type, and only the refresher's own turn has it *)
(* publish.                                                                *)
TypeOK ==
  /\ RefresherTypeOK
  /\ enabled \in BOOLEAN /\ watering \in {"idle", "watering"}
  /\ generation \in 1 .. GenerationMax
  /\ process \in {"up", "stopping", "gone"}
  /\ link \in BOOLEAN /\ subscribed \in BOOLEAN
  /\ callback \in {"none", "online", "subscribe"}
  /\ inbox \in Seq(Presses)
  /\ \A t \in Threads : pub[t].at \in 0 .. Len(Topics) /\ Len(pub[t].next) <= 1
  /\ DOMAIN shown = TopicNames /\ available \in {"online", "offline"}
  /\ clean \in BOOLEAN /\ crossed \in BOOLEAN /\ started \in 1 .. MaxTime
  /\ subscribed => link
  /\ Running => (pub["refresher"].at # 0 <=> stage = "publishing")

(* Home Assistant shows what is, unless a publication met another one, the *)
(* refresher or the clock changed what is to be shown without a word, or a *)
(* message was lost.                                                       *)
ShowsTheTruth == clean /\ Busy = {} => shown = Truth

(* An end the refresher planned for is met when it comes; any other        *)
(* overlay in force, one that was set while it slept, or that ended behind *)
(* its turn or while the server was down, lapses within the interval.      *)
OverlaysLapseInTime ==
  Running => \A o \in Overlays :
    ends[o] # NoTime =>
      /\ now <= Max({ends[o], started}) + Interval + 2 * MaxLag
      /\ expiry = ends[o] => now <= ends[o] + MaxLag

(* "LWT so HA shows the entities as unavailable if this process dies": a   *)
(* server that is gone, killed or stopped, is shown as offline, however    *)
(* often it went; only a connection made while one stopped can leave it    *)
(* online, until the next one is made.                                     *)
OfflineWhenGone == ~ Running => available = "offline" \/ crossed

(* While the server and the connection stay, Home Assistant shows the      *)
(* truth again and again: the hub's next call repairs what was overtaken.  *)
HomeCatchesUp ==
  <>[](process = "up" /\ link) => []<>(shown = Truth)

=============================================================================
