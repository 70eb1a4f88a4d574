----------------------------- MODULE HubServer ------------------------------
(***************************************************************************)
(* The server that replaces the Hozelock cloud, the hub it serves and the  *)
(* tap controller behind the hub.                                          *)
(*                                                                         *)
(* The server never speaks first.  The hub sends a heartbeat, learns the   *)
(* server's generation, and fetches the programme when that number is not  *)
(* the one it holds.  The controller collects the programme by radio,      *)
(* minutes later, acts on its command flag, and the hub's next heartbeats  *)
(* confirm it.  Requests are served by one thread each; here a request, an *)
(* edit or a tick of the refresher is one step (HubThreads.tla splits      *)
(* them).                                                                  *)
(***************************************************************************)
EXTENDS Generation, Programme

CONSTANTS
  Names,          \* the names of the schedules
  ConfigEvents,   \* config.yaml: the event list each name is seeded with
  ActiveName,     \* config.yaml: the schedule that is active at first
  EditEvents,     \* the event lists users replace the active one with
  PauseSpans,     \* the spans users pause for; 0 cancels
  AdjustSpans,    \* the spans users adjust durations for; 0 cancels
  Commands,       \* manual commands users queue: subset of {"water", "stop"}
  Faults,         \* subset of {"restart", "save", "reboot"}
  Handlers,       \* request threads of the HTTP server
  MaxEvents,      \* bound: edits, commands and faults together
  MaxTime         \* bound: last slot of the modelled period

NoCommand == "none"
NoHandler == "nobody"

ASSUME NamesAssumption == ActiveName \in Names
ASSUME ConfigAssumption == ConfigEvents \in [Names -> EventLists]
ASSUME EditAssumption == EditEvents \subseteq EventLists
ASSUME SpansAssumption == PauseSpans \subseteq Nat /\ AdjustSpans \subseteq Nat
ASSUME CommandsAssumption == Commands \subseteq {"water", "stop"}
ASSUME FaultsAssumption == Faults \subseteq {"restart", "save", "reboot"}
ASSUME HandlersAssumption == NoHandler \notin Handlers
ASSUME BoundsAssumption == MaxEvents \in Nat /\ MaxTime \in Nat

VARIABLES
  now,          \* the clock
  settings,     \* what persist.snapshot saves: see SettingsSet
  saved,        \* the settings in state.json
  pending,      \* the queued manual command
  generation,   \* the number the heartbeat replies carry
  last,         \* the refresher's local: the next watering it last saw
  conn,         \* the request each thread has accepted and not answered
  held,         \* hub: generation of the programme it holds
  confirmed,    \* hub: generation the controller has collected
  programme,    \* hub: the programme it holds
  phase,        \* hub: what it is doing
  target,       \* hub: generation of the programme it is fetching
  asked,        \* hub: the thread whose answer it waits for
  reply,        \* the answer on its way to the hub
  issue,        \* history: number of commands queued
  starts,       \* history: times the server was started
  runs,         \* history: times the last queued command was executed
  bumped_at,    \* history: time of the last change of generation
  reused,       \* history: a generation was given out while the old
                \* programme of that number was still in use
  events        \* bound: edits, commands and faults so far

server == <<now, settings, saved, pending, generation, last>>
hub == <<held, confirmed, programme, phase, target, asked>>
ghosts == <<issue, starts, runs, bumped_at, reused>>
vars == <<server, conn, hub, reply, ghosts, events>>

-----------------------------------------------------------------------------
(* Data                                                                    *)

SettingsSet ==
  [schedule_enabled : BOOLEAN, schedules : [Names -> EventLists],
   active_schedule : Names, overlays : OverlaySet]

(* A programme carries the waterings, and the command in its flag bytes.   *)
(* issue tells the commands apart; the bytes do not.                       *)
ProgrammeSet ==
  [waterings : SUBSET WateringSet, command : Commands \cup {NoCommand},
   issue : Nat]

NoProgramme == [waterings |-> {}, command |-> NoCommand, issue |-> 0]

RequestSet == [open : BOOLEAN, tap : BOOLEAN, confirmed : Nat]

NoRequest == [open |-> FALSE, tap |-> FALSE, confirmed |-> 0]

ReplySet ==
  [kind : {"none", "generation", "programme"}, generation : Nat,
   programme : ProgrammeSet]

NoReply == [kind |-> "none", generation |-> 0, programme |-> NoProgramme]

ActiveEvents(s) == s.schedules[s.active_schedule]

(* The events schedule_blob builds from.                                   *)
ServedEvents(s) == IF s.schedule_enabled THEN ActiveEvents(s) ELSE {}

(* The waterings the server would hand out in week w.                      *)
Waterings(s, w) == Build(ServedEvents(s), s.overlays, w)

(* The blob served now, and whether building it raises an error.           *)
Blob(s, command) ==
  [waterings |-> Waterings(s, Week(now)), command |-> command,
   issue |-> issue]

Unservable(s) == Rejects(ServedEvents(s), s.overlays, Week(now))

NextWateringNow(s) ==
  NextWatering(s.schedule_enabled, ActiveEvents(s), s.overlays, now)

(* Generations in use outside the server: in the hub, on their way to it,  *)
(* or in a request that waits to be served.                                *)
HubLabels ==
  {held, confirmed}
    \cup (IF phase \in {"behind", "fetching"} THEN {target} ELSE {})
    \cup (IF reply.kind = "generation" THEN {reply.generation} ELSE {})

LiveLabels == HubLabels \cup {conn[h].confirmed : h \in {k \in Handlers : conn[k].open}}

-----------------------------------------------------------------------------
Init ==
  /\ now = SlotsPerWeek
  /\ settings = [schedule_enabled |-> TRUE, schedules |-> ConfigEvents,
                 active_schedule |-> ActiveName, overlays |-> NoOverlays]
  /\ saved = settings
  /\ pending = NoCommand
  /\ generation = InitialGeneration
  /\ last = NoTime
  /\ conn = [h \in Handlers |-> NoRequest]
  /\ held = 0 /\ confirmed = 0 /\ programme = NoProgramme
  /\ phase = "idle" /\ target = 0 /\ asked = NoHandler
  /\ reply = NoReply
  /\ issue = 0 /\ starts = 1 /\ runs = 0 /\ bumped_at = SlotsPerWeek /\ reused = FALSE
  /\ events = 0

-----------------------------------------------------------------------------
(* The server's operations                                                 *)

BumpGeneration ==
  /\ generation' = Bump(generation)
  /\ bumped_at' = now
  /\ reused' = (reused \/ Bump(generation) \in LiveLabels)

(* os.replace puts the whole snapshot in place, or the error is logged and *)
(* the old file stays.                                                     *)
Persist ==
  \/ saved' = settings'
  \/ "save" \in Faults /\ UNCHANGED saved

Commit(s) ==
  /\ settings' = s
  /\ BumpGeneration
  /\ Persist

(* Mutant: an edit that is saved and not announced to the hub.             *)
EditUnannounced(s) ==
  /\ events < MaxEvents /\ events' = events + 1
  /\ settings' = s
  /\ Persist
  /\ UNCHANGED <<now, pending, generation, last, conn, hub, reply, ghosts>>

(* An edit made by a user.                                                 *)
Edit(s) ==
  /\ events < MaxEvents /\ events' = events + 1
  /\ Commit(s)
  /\ UNCHANGED <<now, pending, last, conn, hub, reply, issue, starts, runs>>

SetEnabled(b) == Edit([settings EXCEPT !.schedule_enabled = b])

(* set_schedule and set_event: a new event list for the active schedule.   *)
SetSchedule(e) ==
  /\ ~ Rejects(e, settings.overlays, Week(now))
  /\ Edit([settings EXCEPT !.schedules[settings.active_schedule] = e])

SelectSchedule(n) ==
  /\ n # settings.active_schedule
  /\ ~ Rejects(settings.schedules[n], settings.overlays, Week(now))
  /\ Edit([settings EXCEPT !.active_schedule = n])

(* The end of an overlay that lasts for span from now; 0 cancels it.       *)
Until(span) == IF span = 0 THEN NoTime ELSE now + span

SetOverlays(o) ==
  /\ ~ Rejects(ActiveEvents(settings), o, Week(now))
  /\ Edit([settings EXCEPT !.overlays = o])

Pause(span) == SetOverlays([settings.overlays EXCEPT !.pause_until = Until(span)])

Adjust(span) == SetOverlays([settings.overlays EXCEPT !.adjust_until = Until(span)])

(* Mutant: a command that does not make the hub fetch.                     *)
QueueUnannounced(c) ==
  /\ events < MaxEvents /\ events' = events + 1
  /\ pending' = c
  /\ issue' = issue + 1 /\ runs' = 0
  /\ UNCHANGED <<now, settings, saved, generation, last, conn, hub, reply,
                 starts, bumped_at, reused>>

(* One slot, last write wins.                                              *)
Queue(c) ==
  /\ events < MaxEvents /\ events' = events + 1
  /\ pending' = c
  /\ BumpGeneration
  /\ issue' = issue + 1 /\ runs' = 0
  /\ UNCHANGED <<now, settings, saved, last, conn, hub, reply, starts>>

(* Mutant: the lapsed overlays stay in state.json.                         *)
RefreshExpiredUnsaved ==
  /\ AnyLapsed(settings.overlays, now)
  /\ settings' = [settings EXCEPT !.overlays = Expire(settings.overlays, now)]
  /\ BumpGeneration
  /\ last' = NextWateringNow(settings')
  /\ UNCHANGED <<now, saved, pending, conn, hub, reply, issue, starts, runs, events>>

(* Mutant: the refresher notes the new watering and tells nobody.          *)
RefreshMovedUnannounced ==
  /\ ~ AnyLapsed(settings.overlays, now)
  /\ NextWateringNow(settings) # last
  /\ last' = NextWateringNow(settings)
  /\ UNCHANGED <<now, settings, saved, pending, generation, conn, hub, reply, ghosts, events>>

(* One turn of the refresher's loop, after its sleep.                      *)
RefreshExpired ==
  /\ AnyLapsed(settings.overlays, now)
  /\ Commit([settings EXCEPT !.overlays = Expire(settings.overlays, now)])
  /\ last' = NextWateringNow(settings')
  /\ UNCHANGED <<now, pending, conn, hub, reply, issue, starts, runs, events>>

RefreshMoved ==
  /\ ~ AnyLapsed(settings.overlays, now)
  /\ NextWateringNow(settings) # last
  /\ last' = NextWateringNow(settings)
  /\ BumpGeneration
  /\ UNCHANGED <<now, settings, saved, pending, conn, hub, reply, issue, starts, runs, events>>

Refresh == RefreshExpired \/ RefreshMoved

(* Mutants: generations compared by size, as if they only grew; any        *)
(* confirmation taken for that of the command; and the command kept until  *)
(* the hub confirms a number not given out yet.                            *)
ObserveAtLeast(c) ==
  pending' = IF pending # NoCommand /\ c >= generation THEN NoCommand ELSE pending

ObserveAny(c) ==
  pending' = IF pending # NoCommand /\ c # 0 THEN NoCommand ELSE pending

ObserveBeyond(c) ==
  pending' = IF pending # NoCommand /\ c > generation THEN NoCommand ELSE pending

(* do_GET: observe first, then the answer, which goes to the hub if it is  *)
(* still waiting for this thread.                                          *)
Observe(c) ==
  pending' = IF pending # NoCommand /\ c = generation THEN NoCommand ELSE pending

Answer(h, r) == reply' = IF asked = h THEN r ELSE reply

Handle(h) ==
  /\ conn[h].open
  /\ conn' = [conn EXCEPT ![h] = NoRequest]
  /\ Observe(conn[h].confirmed)
  /\ UNCHANGED <<now, settings, saved, generation, last, hub, ghosts, events>>

HandleHeartbeat(h) ==
  /\ ~ conn[h].tap
  /\ Handle(h)
  /\ Answer(h, [NoReply EXCEPT !.kind = "generation", !.generation = generation])

(* Mutant: a command is dropped as soon as a programme has carried it.     *)
HandleTapAndForget(h) ==
  /\ conn[h].open /\ conn[h].tap
  /\ ~ Unservable(settings)
  /\ conn' = [conn EXCEPT ![h] = NoRequest]
  /\ pending' = NoCommand
  /\ Answer(h, [NoReply EXCEPT !.kind = "programme",
                               !.programme = Blob(settings, pending)])
  /\ UNCHANGED <<now, settings, saved, generation, last, hub, ghosts, events>>

HandleTap(h) ==
  /\ conn[h].tap
  /\ ~ Unservable(settings)
  /\ Handle(h)
  /\ Answer(h, [NoReply EXCEPT !.kind = "programme",
                               !.programme = Blob(settings, pending')])

(* schedule_blob raises: the thread dies and the hub gets no answer.       *)
HandleTapFails(h) ==
  /\ conn[h].tap
  /\ Unservable(settings)
  /\ Handle(h)
  /\ UNCHANGED reply

(* The process stops and load reads state.json: only the settings survive. *)
Restart ==
  /\ "restart" \in Faults
  /\ events < MaxEvents /\ events' = events + 1
  /\ settings' = saved
  /\ pending' = NoCommand
  /\ generation' = InitialGeneration
  /\ last' = NoTime
  /\ conn' = [h \in Handlers |-> NoRequest]
  /\ bumped_at' = now
  /\ reused' = (reused \/ InitialGeneration \in HubLabels)
  /\ starts' = starts + 1
  /\ UNCHANGED <<now, saved, hub, reply, issue, runs>>

TimePasses ==
  /\ now < MaxTime
  /\ now' = now + 1
  /\ UNCHANGED <<settings, saved, pending, generation, last, conn, hub, reply,
                 ghosts, events>>

-----------------------------------------------------------------------------
(* The hub and the controller, as the captured traffic shows them          *)

Send(h, tap) ==
  /\ ~ conn[h].open
  /\ conn' = [conn EXCEPT ![h] = [open |-> TRUE, tap |-> tap, confirmed |-> confirmed]]
  /\ asked' = h
  /\ UNCHANGED <<server, held, confirmed, programme, target, reply, ghosts, events>>

SendHeartbeat(h) == phase = "idle" /\ phase' = "asking" /\ Send(h, FALSE)

SendFetch(h) == phase = "behind" /\ phase' = "fetching" /\ Send(h, TRUE)

LearnGeneration ==
  /\ reply.kind = "generation"
  /\ phase' = IF reply.generation = held THEN "idle" ELSE "behind"
  /\ target' = reply.generation
  /\ asked' = NoHandler
  /\ reply' = NoReply
  /\ UNCHANGED <<server, conn, held, confirmed, programme, ghosts, events>>

(* The programme has no number of its own: it gets the heartbeat's.        *)
Install ==
  /\ reply.kind = "programme"
  /\ programme' = reply.programme
  /\ held' = target
  /\ phase' = "idle"
  /\ asked' = NoHandler
  /\ reply' = NoReply
  /\ UNCHANGED <<server, conn, confirmed, target, ghosts, events>>

(* The connection breaks or times out; the request may still be served.    *)
GiveUp ==
  /\ phase \in {"asking", "fetching"}
  /\ phase' = "idle"
  /\ asked' = NoHandler
  /\ reply' = NoReply
  /\ UNCHANGED <<server, conn, held, confirmed, programme, target, ghosts, events>>

HubReboot ==
  /\ "reboot" \in Faults
  /\ events < MaxEvents /\ events' = events + 1
  /\ held' = 0 /\ confirmed' = 0 /\ programme' = NoProgramme
  /\ phase' = "idle"
  /\ asked' = NoHandler
  /\ reply' = NoReply
  /\ UNCHANGED <<server, conn, target, ghosts>>

(* The controller collects the programme and acts on its flag.             *)
ControllerPoll ==
  /\ confirmed # held
  /\ confirmed' = held
  /\ runs' = IF /\ programme.command # NoCommand
                /\ programme.issue = issue
                /\ runs < 2
               THEN runs + 1 ELSE runs
  /\ UNCHANGED <<server, conn, held, programme, phase, target, asked, reply,
                 issue, starts, bumped_at, reused, events>>

-----------------------------------------------------------------------------
Edits ==
  \/ \E b \in BOOLEAN : SetEnabled(b)
  \/ \E e \in EditEvents : SetSchedule(e)
  \/ \E n \in Names : SelectSchedule(n)
  \/ \E d \in PauseSpans : Pause(d)
  \/ \E d \in AdjustSpans : Adjust(d)
  \/ \E c \in Commands : Queue(c)

Serve == \E h \in Handlers : HandleHeartbeat(h) \/ HandleTap(h) \/ HandleTapFails(h)

HubStep ==
  \/ \E h \in Handlers : SendHeartbeat(h) \/ SendFetch(h)
  \/ LearnGeneration
  \/ Install
  \/ GiveUp
  \/ HubReboot
  \/ ControllerPoll

Next == Edits \/ Refresh \/ Serve \/ Restart \/ TimePasses \/ HubStep

Spec == Init /\ [][Next]_vars

(* The refresher's loop always comes round.  The hub keeps calling, and    *)
(* neither its heartbeats nor its fetches are lost for ever: a request it  *)
(* waits for is served again and again, and answers arrive again and       *)
(* again.  The controller keeps polling.                                   *)
Fairness ==
  /\ WF_vars(Refresh)
  /\ \A h \in Handlers : WF_vars(HandleHeartbeat(h) \/ HandleTap(h) \/ HandleTapFails(h))
  /\ SF_vars(\E h \in Handlers : asked = h /\ HandleHeartbeat(h))
  /\ SF_vars(\E h \in Handlers : asked = h /\ HandleTap(h))
  /\ WF_vars(\E h \in Handlers : SendHeartbeat(h))
  /\ WF_vars(\E h \in Handlers : SendFetch(h))
  /\ SF_vars(LearnGeneration)
  /\ SF_vars(Install)
  /\ WF_vars(ControllerPoll)

FairSpec == Spec /\ Fairness

-----------------------------------------------------------------------------
(* Properties                                                              *)

(* Every variable keeps the type the code gives it, owner by owner.        *)
ServerTypeOK ==
  /\ now \in Nat
  /\ settings \in SettingsSet
  /\ saved \in SettingsSet
  /\ pending \in Commands \cup {NoCommand}
  /\ generation \in Nat \ {0}
  /\ last \in Nat

WireTypeOK == conn \in [Handlers -> RequestSet] /\ reply \in ReplySet

HubTypeOK ==
  /\ held \in Nat
  /\ confirmed \in Nat
  /\ programme \in ProgrammeSet
  /\ phase \in {"idle", "asking", "behind", "fetching"}
  /\ target \in Nat
  /\ asked \in Handlers \cup {NoHandler}

GhostTypeOK ==
  /\ issue \in Nat /\ starts \in Nat
  /\ runs \in 0 .. 2
  /\ bumped_at \in Nat
  /\ reused \in BOOLEAN
  /\ events \in Nat

TypeOK == ServerTypeOK /\ WireTypeOK /\ HubTypeOK /\ GhostTypeOK

(* p is what the server would hand out, built in a week no older than the  *)
(* last bump, and it carries the pending command.                          *)
Current(p) ==
  /\ \E w \in Week(bumped_at) .. Week(now) : p.waterings = Waterings(settings, w)
  /\ pending # NoCommand => p.command = pending /\ p.issue = issue

(* A hub that holds the server's number holds the server's programme: every *)
(* edit, expiry and command bumps, so no change is left behind under a     *)
(* number the hub already has, whatever requests cross it.                 *)
HubIsCurrent == ~ reused /\ held = generation => Current(programme)

(* While the server stays up, a command is only dropped once the           *)
(* controller has executed it.                                             *)
ExecutedIfDropped ==
  /\ pending # NoCommand /\ pending' = NoCommand
  /\ starts' = starts
  /\ ~ reused
  => runs > 0

ClearedOnlyAfterActing == [][ExecutedIfDropped]_vars

(* The refresher notices a watering going by, so a programme it has seen   *)
(* to is never more than one week behind: the solar times a hub follows    *)
(* are at most a week old.                                                 *)
AtMostAWeekBehind ==
  /\ ~ reused /\ held = generation
  /\ last # NoTime /\ last = NextWateringNow(settings)
  => \A p \in programme.waterings : p.week >= Week(now) - 1

(* The settings on disk are the ones in force unless a save has failed:    *)
(* every path that changes them saves them, so a restart undoes nothing.   *)
SavedSettingsInForce == "save" \notin Faults => saved = settings

(* The parts of one exchange agree: a thread's request and the answer match   *)
(* what the hub is doing, and generations do not change in the future.     *)
Exchange ==
  /\ phase \in {"idle", "behind"} => asked = NoHandler /\ reply.kind = "none"
  /\ asked # NoHandler /\ conn[asked].open => (conn[asked].tap <=> phase = "fetching")
  /\ reply.kind = "generation" => phase = "asking"
  /\ reply.kind = "programme" => phase = "fetching"
  /\ bumped_at <= now

(* A programme on its way to the hub under the server's number is current. *)
ReplyIsCurrent ==
  ~ reused /\ reply.kind = "programme" /\ target = generation
    => Current(reply.programme)

(* When the hub confirms the server's number, or a request that confirms   *)
(* it is on its way, the pending command has been executed.                *)
ConfirmedMeansActed ==
  /\ ~ reused /\ pending # NoCommand
  /\ \/ confirmed = generation
     \/ \E h \in Handlers : conn[h].open /\ conn[h].confirmed = generation
  => runs > 0

(* The refresher has bumped since it last looked for the next watering.    *)
LastIsRecent == last # NoTime => last <= bumped_at + SlotsPerWeek

(* The inductive invariant: what has to hold of everything in flight for   *)
(* the properties above to survive every step.                             *)
IInv ==
  TypeOK /\ Exchange /\ HubIsCurrent /\ ReplyIsCurrent /\ ConfirmedMeansActed
    /\ LastIsRecent

(* A manual command is eventually carried out or replaced, and its slot    *)
(* freed.                                                                  *)
CommandIsCleared == pending # NoCommand ~> pending = NoCommand

(* A command that was dropped is over: it may be carried out more than     *)
(* once, since any bump before its confirmation makes the hub fetch it     *)
(* again, but not after the server let go of it, unless the hub rebooted   *)
(* (it has then collected nothing) or the server did.                      *)
RepeatedOnlyWhilePending ==
  /\ runs' > runs /\ ~ reused
  /\ "restart" \notin Faults
  => pending # NoCommand \/ confirmed = 0

NoLateRepetition == [][RepeatedOnlyWhilePending]_vars

(* The hub catches up with the server after every change.                  *)
HubCatchesUp == []<>(held = generation /\ Current(programme))

-----------------------------------------------------------------------------
(* What the repository says and the code does not keep                     *)

(* state.py: "Always changes, so the hub always re-fetches."  A hub that   *)
(* sees no reason to fetch has the programme.                              *)
HubAlwaysRefetches == held = generation => Current(programme)

=============================================================================
