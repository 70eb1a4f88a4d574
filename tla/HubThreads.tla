----------------------------- MODULE HubThreads -----------------------------
(***************************************************************************)
(* The threads of the server, statement by statement.  One thread runs the *)
(* MQTT callbacks, one the refresher, and each request of the hub has its  *)
(* own.  They share the attributes of one HubState; only bump takes a      *)
(* lock.  A step is one read or write of a shared attribute.               *)
(*                                                                         *)
(* The hub follows the protocol of HubServer.tla; an answer reaches it in  *)
(* the step that sends it, since between the two it does nothing else.     *)
(***************************************************************************)
EXTENDS Generation

CONSTANTS
  mqtt, refresher,  \* the two threads that change the state
  Handlers,         \* the threads that answer the hub
  Commands,         \* the manual commands: subset of {"water", "stop"}
  MaxChanges,       \* bound: switches and commands from MQTT
  MaxRefreshes,     \* bound: bumps of the refresher for a passed watering
  MaxLosses         \* bound: exchanges the hub gives up

Writers == {mqtt, refresher}
Threads == Writers \cup Handlers
NoThread == "nobody"
NoCommand == "none"

ASSUME ThreadsAssumption ==
  mqtt # refresher /\ Writers \cap Handlers = {} /\ NoThread \notin Threads
ASSUME CommandsAssumption == Commands \subseteq {"water", "stop"}
ASSUME BoundsAssumption == MaxChanges \in Nat /\ MaxRefreshes \in Nat /\ MaxLosses \in Nat

VARIABLES
  enabled, overlay,      \* HubState: schedule_enabled; an overlay in force
  pending, generation,   \* HubState: the same names
  generation_confirmed,  \* HubState: what the last request confirmed
  lock,                  \* HubState._lock: the thread that holds it
  disk,                  \* what state.json says
  pc,                    \* the statement each thread runs next
  read,                  \* bump and heartbeat_response: the number read
  image,                 \* persist.save: the snapshot to write;
                         \* schedule_blob: what has been read so far
  request,               \* the request a handler answers
  held, confirmed, programme, target, phase, asked,   \* the hub
  issue, acted,          \* history: last command, and whether it was executed
  overlapped,            \* history: the last save met another on its way
  reused,                \* history: a number came round while the hub used it
  changes, refreshes, losses   \* bounds

shared == <<enabled, overlay, pending, generation, generation_confirmed>>
hub == <<held, confirmed, programme, target, phase, asked>>
history == <<issue, acted, overlapped, reused>>
vars == <<shared, lock, disk, pc, read, image, request, hub, history,
          changes, refreshes, losses>>

Blank == [enabled |-> FALSE, overlay |-> FALSE, command |-> NoCommand, issue |-> 0]

NoRequest == [tap |-> FALSE, confirmed |-> 0]

Init ==
  /\ enabled = TRUE /\ overlay = TRUE
  /\ pending = NoCommand /\ generation = InitialGeneration
  /\ generation_confirmed = 0
  /\ lock = NoThread
  /\ disk = [enabled |-> enabled, overlay |-> overlay]
  /\ pc = [t \in Threads |-> "ready"]
  /\ read = [t \in Threads |-> 0]
  /\ image = [t \in Threads |-> Blank]
  /\ request = [h \in Handlers |-> NoRequest]
  /\ held = 0 /\ confirmed = 0 /\ programme = Blank
  /\ target = 0 /\ phase = "idle" /\ asked = NoThread
  /\ issue = 0 /\ acted = FALSE /\ overlapped = FALSE /\ reused = FALSE
  /\ changes = 0 /\ refreshes = 0 /\ losses = 0

Goto(t, label) == pc' = [pc EXCEPT ![t] = label]

-----------------------------------------------------------------------------
(* bump, called with the label the thread goes on to afterwards            *)

(* The numbers the hub holds or is fetching a programme for.               *)
LiveLabels == {held} \cup (IF phase \in {"behind", "fetching"} THEN {target} ELSE {})

(* The counter cycles: the number that comes next is one of an earlier     *)
(* round which the hub still uses, for another programme.                  *)
ComesRound == Bump(generation) \in LiveLabels \ {generation}

(* Mutant: bump without its lock.                                          *)
AcquireUnlocked(t) ==
  /\ pc[t] \in {"bump", "bump_commit"}
  /\ Goto(t, IF pc[t] = "bump" THEN "read" ELSE "read_commit")
  /\ UNCHANGED <<shared, lock, disk, read, image, request, hub, history,
                 changes, refreshes, losses>>

Acquire(t) ==
  /\ pc[t] \in {"bump", "bump_commit"}
  /\ lock = NoThread
  /\ lock' = t
  /\ Goto(t, IF pc[t] = "bump" THEN "read" ELSE "read_commit")
  /\ UNCHANGED <<shared, disk, read, image, request, hub, history, changes, refreshes, losses>>

ReadGeneration(t) ==
  /\ pc[t] \in {"read", "read_commit"}
  /\ read' = [read EXCEPT ![t] = generation]
  /\ Goto(t, IF pc[t] = "read" THEN "store" ELSE "store_commit")
  /\ UNCHANGED <<shared, lock, disk, image, request, hub, history, changes, refreshes, losses>>

(* Mutant: the lock is not released.                                       *)
StoreAndKeepLock(t) ==
  /\ pc[t] \in {"store", "store_commit"}
  /\ generation' = Bump(read[t])
  /\ reused' = (reused \/ ComesRound)
  /\ read' = [read EXCEPT ![t] = 0]
  /\ Goto(t, IF pc[t] = "store" THEN "ready" ELSE "snapshot")
  /\ UNCHANGED <<enabled, overlay, pending, generation_confirmed, lock, disk, image,
                 request, hub, issue, acted, overlapped, changes, refreshes, losses>>

StoreGeneration(t) ==
  /\ pc[t] \in {"store", "store_commit"}
  /\ generation' = Bump(read[t])
  /\ reused' = (reused \/ ComesRound)
  /\ lock' = NoThread
  /\ read' = [read EXCEPT ![t] = 0]
  /\ Goto(t, IF pc[t] = "store" THEN "ready" ELSE "snapshot")
  /\ UNCHANGED <<enabled, overlay, pending, generation_confirmed, disk, image,
                 request, hub, issue, acted, overlapped, changes, refreshes, losses>>

(* persist.save: the snapshot is taken field by field, and replaces the    *)
(* file later; nothing orders two savers.                                  *)
SnapshotEnabled(t) ==
  /\ pc[t] = "snapshot"
  /\ image' = [image EXCEPT ![t].enabled = enabled]
  /\ overlapped' = (\E u \in Writers \ {t} : pc[u] \in {"snapshot_overlay", "replace"})
  /\ Goto(t, "snapshot_overlay")
  /\ UNCHANGED <<shared, lock, disk, read, request, hub, issue, acted, reused, changes,
                 refreshes, losses>>

SnapshotOverlay(t) ==
  /\ pc[t] = "snapshot_overlay"
  /\ image' = [image EXCEPT ![t].overlay = overlay]
  /\ Goto(t, "replace")
  /\ UNCHANGED <<shared, lock, disk, read, request, hub, history, changes, refreshes, losses>>

ReplaceFile(t) ==
  /\ pc[t] = "replace"
  /\ disk' = [enabled |-> image[t].enabled, overlay |-> image[t].overlay]
  /\ image' = [image EXCEPT ![t] = Blank]
  /\ Goto(t, "ready")
  /\ UNCHANGED <<shared, lock, read, request, hub, history, changes, refreshes, losses>>

-----------------------------------------------------------------------------
(* The MQTT thread: set_enabled and _queue write first and bump afterwards *)

SetEnabled(b) ==
  /\ pc[mqtt] = "ready"
  /\ changes < MaxChanges /\ changes' = changes + 1
  /\ enabled' = b
  /\ Goto(mqtt, "bump_commit")
  /\ UNCHANGED <<overlay, pending, generation, generation_confirmed, lock, disk, read,
                 image, request, hub, history, refreshes, losses>>

Queue(c) ==
  /\ pc[mqtt] = "ready"
  /\ changes < MaxChanges /\ changes' = changes + 1
  /\ pending' = c
  /\ issue' = issue + 1 /\ acted' = FALSE
  /\ Goto(mqtt, "bump")
  /\ UNCHANGED <<enabled, overlay, generation, generation_confirmed, lock, disk, read,
                 image, request, hub, overlapped, reused, refreshes, losses>>

(* Mutant: an overlay that lapses is announced and not saved.              *)
ExpireUnsaved ==
  /\ pc[refresher] = "ready"
  /\ overlay
  /\ overlay' = FALSE
  /\ Goto(refresher, "bump")
  /\ UNCHANGED <<enabled, pending, generation, generation_confirmed, lock, disk, read,
                 image, request, hub, history, changes, refreshes, losses>>

(* The refresher thread: an overlay lapses, or a watering has gone by.     *)
ExpireOverlay ==
  /\ pc[refresher] = "ready"
  /\ overlay
  /\ overlay' = FALSE
  /\ Goto(refresher, "bump_commit")
  /\ UNCHANGED <<enabled, pending, generation, generation_confirmed, lock, disk, read,
                 image, request, hub, history, changes, refreshes, losses>>

RefreshMoved ==
  /\ pc[refresher] = "ready"
  /\ refreshes < MaxRefreshes /\ refreshes' = refreshes + 1
  /\ Goto(refresher, "bump")
  /\ UNCHANGED <<shared, lock, disk, read, image, request, hub, history, changes, losses>>

-----------------------------------------------------------------------------
(* A request thread: observe, then the answer                              *)

NoteConfirmed(h) ==
  /\ pc[h] = "observe"
  /\ generation_confirmed' = request[h].confirmed
  /\ Goto(h, "test_pending")
  /\ UNCHANGED <<enabled, overlay, pending, generation, lock, disk, read, image,
                 request, hub, history, changes, refreshes, losses>>

FirstRead(h) == IF request[h].tap THEN "read_events" ELSE "checksum"

TestPending(h) ==
  /\ pc[h] = "test_pending"
  /\ Goto(h, IF pending # NoCommand THEN "compare" ELSE FirstRead(h))
  /\ UNCHANGED <<shared, lock, disk, read, image, request, hub, history, changes, refreshes, losses>>

CompareGenerations(h) ==
  /\ pc[h] = "compare"
  /\ Goto(h, IF generation_confirmed = generation THEN "clear" ELSE FirstRead(h))
  /\ UNCHANGED <<shared, lock, disk, read, image, request, hub, history, changes, refreshes, losses>>

ClearPending(h) ==
  /\ pc[h] = "clear"
  /\ pending' = NoCommand
  /\ Goto(h, FirstRead(h))
  /\ UNCHANGED <<enabled, overlay, generation, generation_confirmed, lock, disk, read,
                 image, request, hub, history, changes, refreshes, losses>>

(* The thread ends, and its locals with it.                                *)
Done(h) ==
  /\ Goto(h, "ready")
  /\ read' = [read EXCEPT ![h] = 0]
  /\ image' = [image EXCEPT ![h] = Blank]
  /\ request' = [request EXCEPT ![h] = NoRequest]

(* heartbeat_response reads generation once for the checksum ...           *)
ReadForChecksum(h) ==
  /\ pc[h] = "checksum"
  /\ read' = [read EXCEPT ![h] = generation]
  /\ Goto(h, "heartbeat")
  /\ UNCHANGED <<shared, lock, disk, image, request, hub, history, changes, refreshes, losses>>

(* ... and once more for the reply.  The hub ignores a reply whose         *)
(* checksum is wrong and asks again at its next heartbeat.                 *)
AnswerHeartbeat(h) ==
  /\ pc[h] = "heartbeat"
  /\ IF asked = h
       THEN /\ asked' = NoThread
            /\ phase' = IF read[h] = generation /\ generation # held
                          THEN "behind" ELSE "idle"
            /\ target' = IF read[h] = generation THEN generation ELSE target
       ELSE UNCHANGED <<asked, phase, target>>
  /\ Done(h)
  /\ UNCHANGED <<shared, lock, disk, held, confirmed, programme, history,
                 changes, refreshes, losses>>

(* schedule_blob reads the switch, the overlays and the command in turn.   *)
ReadEvents(h) ==
  /\ pc[h] = "read_events"
  /\ image' = [image EXCEPT ![h].enabled = enabled]
  /\ Goto(h, "read_overlays")
  /\ UNCHANGED <<shared, lock, disk, read, request, hub, history, changes, refreshes, losses>>

ReadOverlays(h) ==
  /\ pc[h] = "read_overlays"
  /\ image' = [image EXCEPT ![h].overlay = overlay]
  /\ Goto(h, "programme")
  /\ UNCHANGED <<shared, lock, disk, read, request, hub, history, changes, refreshes, losses>>

AnswerTap(h) ==
  /\ pc[h] = "programme"
  /\ IF asked = h
       THEN /\ programme' = [image[h] EXCEPT !.command = pending, !.issue = issue]
            /\ held' = target /\ phase' = "idle" /\ asked' = NoThread
       ELSE UNCHANGED <<programme, held, phase, asked>>
  /\ Done(h)
  /\ UNCHANGED <<shared, lock, disk, confirmed, target, history,
                 changes, refreshes, losses>>

-----------------------------------------------------------------------------
(* The hub and the controller                                              *)

Send(h) ==
  /\ phase \in {"idle", "behind"}
  /\ pc[h] = "ready"
  /\ request' = [request EXCEPT ![h] = [tap |-> phase = "behind", confirmed |-> confirmed]]
  /\ phase' = IF phase = "behind" THEN "fetching" ELSE "asking"
  /\ asked' = h
  /\ Goto(h, "observe")
  /\ UNCHANGED <<shared, lock, disk, read, image, held, confirmed, programme, target,
                 history, changes, refreshes, losses>>

GiveUp ==
  /\ phase \in {"asking", "fetching"}
  /\ losses < MaxLosses /\ losses' = losses + 1
  /\ phase' = "idle" /\ asked' = NoThread
  /\ UNCHANGED <<shared, lock, disk, pc, read, image, request, held, confirmed,
                 programme, target, history, changes, refreshes>>

ControllerPoll ==
  /\ confirmed # held
  /\ confirmed' = held
  /\ acted' = (acted \/ (programme.command # NoCommand /\ programme.issue = issue))
  /\ UNCHANGED <<shared, lock, disk, pc, read, image, request, held, programme, target,
                 phase, asked, issue, overlapped, reused, changes, refreshes, losses>>

-----------------------------------------------------------------------------
Bumping(t) == Acquire(t) \/ ReadGeneration(t) \/ StoreGeneration(t)

Saving(t) == SnapshotEnabled(t) \/ SnapshotOverlay(t) \/ ReplaceFile(t)

Observing(h) ==
  NoteConfirmed(h) \/ TestPending(h) \/ CompareGenerations(h) \/ ClearPending(h)

Answering(h) ==
  \/ ReadForChecksum(h) \/ AnswerHeartbeat(h)
  \/ ReadEvents(h) \/ ReadOverlays(h) \/ AnswerTap(h)

Mqtt == (\E b \in BOOLEAN : SetEnabled(b)) \/ (\E c \in Commands : Queue(c))

Next ==
  \/ \E t \in Writers : Bumping(t) \/ Saving(t)
  \/ Mqtt
  \/ ExpireOverlay \/ RefreshMoved
  \/ \E h \in Handlers : Observing(h) \/ Answering(h) \/ Send(h)
  \/ GiveUp
  \/ ControllerPoll

Spec == Init /\ [][Next]_vars

HandlerLabels ==
  {"ready", "observe", "test_pending", "compare", "clear", "checksum", "heartbeat",
   "read_events", "read_overlays", "programme"}

(* The threads keep running, and the lock is handed on fairly enough for   *)
(* neither writer to starve.  The hub keeps calling.                       *)
Fairness ==
  /\ \A t \in Writers : SF_vars(Acquire(t)) /\ WF_vars(Bumping(t) \/ Saving(t))
  /\ \A h \in Handlers : WF_vars(Observing(h) \/ Answering(h))
  /\ WF_vars(\E h \in Handlers : Send(h))
  /\ WF_vars(ControllerPoll)

FairSpec == Spec /\ Fairness

-----------------------------------------------------------------------------
(* Properties                                                              *)

Images == [enabled : BOOLEAN, overlay : BOOLEAN, command : Commands \cup {NoCommand},
           issue : Nat]

WriterLabels ==
  {"ready", "bump", "bump_commit", "read", "read_commit", "store", "store_commit",
   "snapshot", "snapshot_overlay", "replace"}

(* Every variable keeps its type.                                          *)
TypeOK ==
  /\ enabled \in BOOLEAN /\ overlay \in BOOLEAN
  /\ pending \in Commands \cup {NoCommand}
  /\ generation \in Nat \ {0} /\ generation_confirmed \in Nat
  /\ lock \in Writers \cup {NoThread}
  /\ disk \in [enabled : BOOLEAN, overlay : BOOLEAN]
  /\ pc \in [Threads -> WriterLabels \cup HandlerLabels]
  /\ \A t \in Writers : pc[t] \in WriterLabels
  /\ \A h \in Handlers : pc[h] \in HandlerLabels
  /\ read \in [Threads -> Nat]
  /\ image \in [Threads -> Images]
  /\ request \in [Handlers -> [tap : BOOLEAN, confirmed : Nat]]
  /\ held \in Nat /\ confirmed \in Nat /\ target \in Nat
  /\ programme \in Images
  /\ phase \in {"idle", "asking", "behind", "fetching"}
  /\ asked \in Handlers \cup {NoThread}
  /\ issue \in Nat /\ acted \in BOOLEAN /\ overlapped \in BOOLEAN /\ reused \in BOOLEAN
  /\ changes \in 0 .. MaxChanges /\ refreshes \in 0 .. MaxRefreshes
  /\ losses \in 0 .. MaxLosses

(* The thread has changed something and not bumped yet.                    *)
BumpDue(t) ==
  pc[t] \in {"bump", "bump_commit", "read", "read_commit", "store", "store_commit"}

(* Even a programme read while a writer was between two statements is      *)
(* replaced: when every change has been followed by its bump, a hub that   *)
(* holds the server's number holds the state in force, torn by no writer.  *)
(* Only a hub that slept through a whole cycle of numbers can be wrong.    *)
NoTornProgramme ==
  /\ held = generation
  /\ \A t \in Writers : ~ BumpDue(t)
  /\ ~ reused
  => /\ programme.enabled = enabled
     /\ programme.overlay = overlay
     /\ pending # NoCommand => programme.command = pending /\ programme.issue = issue

(* persist.py: the file is the source of truth.  When nobody is saving it  *)
(* holds the settings in force, whatever the writers did while it was      *)
(* written, unless two saves overlapped: then the older may have been last. *)
FileIsTheTruth ==
  /\ \A t \in Writers : pc[t] = "ready"
  /\ ~ overlapped
  => disk = [enabled |-> enabled, overlay |-> overlay]

(* However the threads interleave, the hub ends up with what the last      *)
(* writer left.                                                            *)
HubSettles == <>[](held = generation /\ programme.enabled = enabled
                   /\ programme.overlay = overlay)

-----------------------------------------------------------------------------
(* What the repository says and the threads do not keep                    *)

(* state.py: "The hub only echoes a command once it has acted on it", so   *)
(* pending is cleared only for a command that was executed.                *)
OnlyEchoedCommandsAreCleared ==
  [][pending # NoCommand /\ pending' = NoCommand => acted]_vars

=============================================================================
