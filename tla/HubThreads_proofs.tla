-------------------------- MODULE HubThreads_proofs --------------------------
(* Theorems about HubThreads, for any number of request threads, commands, *)
(* changes, losses and captured numbers.                                   *)
EXTENDS HubThreads, TLAPS

-----------------------------------------------------------------------------
(* What a bump of the generation does                                      *)

(* Positions lie in the table, and name the number they were asked for.    *)
LEMMA PositionCorrect ==
  ASSUME NEW g
  PROVE  /\ Position(g) \in 0 .. Len(Captured)
         /\ Position(g) # 0 => Captured[Position(g)] = g
<1>1. Len(Captured) \in Nat
  BY CapturedAssumption
<1>2. CASE g \in CapturedGenerations
  <2>1. \E i \in 1 .. Len(Captured) : Captured[i] = g
    BY <1>2 DEF CapturedGenerations
  <2>2. Position(g) \in 1 .. Len(Captured) /\ Captured[Position(g)] = g
    BY <1>2, <2>1 DEF Position
  <2>3. QED
    BY <2>2, <1>1
<1>3. CASE g \notin CapturedGenerations
  BY <1>3, <1>1 DEF Position
<1>4. QED
  BY <1>2, <1>3

(* The place the restricted counter steps to is in the table.              *)
LEMMA NextPlace ==
  ASSUME NEW i \in 0 .. Len(Captured)
  PROVE  /\ (i % Len(Captured)) + 1 \in 1 .. Len(Captured)
         /\ (i % Len(Captured)) + 1 # i
<1>1. Len(Captured) \in Nat /\ Len(Captured) >= 2
  BY CapturedAssumption
<1>2. CASE i = Len(Captured)
  <2>1. i % Len(Captured) = 0
    BY <1>1, <1>2
  <2>2. QED
    BY <1>1, <1>2, <2>1
<1>3. CASE i < Len(Captured)
  <2>1. i % Len(Captured) = i
    BY <1>1, <1>3
  <2>2. QED
    BY <1>1, <1>3, <2>1
<1>4. QED
  BY <1>1, <1>2, <1>3

(* bump never hands out 0, the number of a hub that has just booted.       *)
THEOREM BumpIsPositive ==
  ASSUME NEW g \in Nat
  PROVE  Bump(g) \in Nat \ {0}
<1>1. CASE RestrictGenerations
  <2>1. (Position(g) % Len(Captured)) + 1 \in 1 .. Len(Captured)
    BY PositionCorrect, NextPlace
  <2>2. QED
    BY <1>1, <2>1, CapturedAssumption DEF Bump
<1>2. CASE ~ RestrictGenerations
  <2>1. g % GenerationMax \in 0 .. GenerationMax - 1
    BY GenerationMaxAssumption
  <2>2. QED
    BY <1>2, <2>1, GenerationMaxAssumption DEF Bump
<1>3. QED
  BY <1>1, <1>2

(* bump always changes the number (state.py: "Always changes").            *)
THEOREM BumpChanges ==
  ASSUME NEW g \in Nat \ {0}
  PROVE  Bump(g) # g
<1>1. CASE RestrictGenerations
  <2> DEFINE i == Position(g)
             k == (Position(g) % Len(Captured)) + 1
  <2>1. i \in 0 .. Len(Captured) /\ (i # 0 => Captured[i] = g)
    BY PositionCorrect
  <2>2. k \in 1 .. Len(Captured) /\ k # i
    BY <2>1, NextPlace
  <2>3. Bump(g) = Captured[k]
    BY <1>1 DEF Bump
  <2>4. CASE i = 0
    <3>1. g \notin CapturedGenerations
      <4>1. SUFFICES ASSUME g \in CapturedGenerations PROVE FALSE
        OBVIOUS
      <4>2. \E j \in 1 .. Len(Captured) : Captured[j] = g
        BY <4>1 DEF CapturedGenerations
      <4>3. Position(g) \in 1 .. Len(Captured)
        BY <4>1, <4>2 DEF Position
      <4>4. QED
        BY <4>3, <2>4
    <3>2. QED
      BY <3>1, <2>2, <2>3 DEF CapturedGenerations
  <2>5. CASE i # 0
    <3>1. i \in 1 .. Len(Captured) /\ Captured[i] = g
      BY <2>1, <2>5
    <3>2. Captured[k] # Captured[i]
      <4>1. Captured[k] \in Nat /\ Captured[i] \in Nat
        BY <2>2, <3>1, CapturedAssumption
      <4>2. k < i \/ i < k
        BY <2>2, <3>1, CapturedAssumption
      <4>3. QED
        BY <4>1, <4>2, <2>2, <3>1, CapturedAssumption
    <3>3. QED
      BY <2>3, <3>1, <3>2
  <2>6. QED
    BY <2>4, <2>5
<1>2. CASE ~ RestrictGenerations
  <2>1. Bump(g) = (g % GenerationMax) + 1
    BY <1>2 DEF Bump
  <2>2. CASE g < GenerationMax
    <3>1. g % GenerationMax = g
      BY <2>2, GenerationMaxAssumption
    <3>2. QED
      BY <2>1, <3>1
  <2>3. CASE g >= GenerationMax
    <3>1. g % GenerationMax \in 0 .. GenerationMax - 1
      BY GenerationMaxAssumption
    <3>2. CASE g = GenerationMax
      <4>1. g % GenerationMax = 0
        BY <3>2, GenerationMaxAssumption
      <4>2. QED
        BY <2>1, <3>2, <4>1, GenerationMaxAssumption
    <3>3. CASE g # GenerationMax
      BY <2>1, <2>3, <3>1, <3>3, GenerationMaxAssumption
    <3>4. QED
      BY <3>2, <3>3
  <2>4. QED
    BY <2>2, <2>3, GenerationMaxAssumption
<1>3. QED
  BY <1>1, <1>2

(* The first number is not 0 either, so a booted hub always fetches.       *)
THEOREM InitialIsPositive == InitialGeneration \in Nat \ {0}
<1>1. Captured[1] \in Nat \ {0}
  BY CapturedAssumption
<1>2. QED
  BY <1>1, ConfiguredAssumption DEF InitialGeneration

-----------------------------------------------------------------------------
(* The inductive invariants                                                *)

(* The statements of bump that run under the lock.                         *)
UnderLock(t) == pc[t] \in {"read", "read_commit", "store", "store_commit"}

(* The lock is held by the one thread that is inside bump, which stores    *)
(* the successor of the number in force and not of an older one.           *)
BumpIsAtomic ==
  \A t \in Writers :
    /\ UnderLock(t) <=> lock = t
    /\ pc[t] \in {"store", "store_commit"} => read[t] = generation

TapLabels == {"read_events", "read_overlays", "programme"}

(* The thread the hub waits for answers what the hub asked.                *)
AskedAndAnswered ==
  \A h \in Handlers :
    /\ pc[h] \in TapLabels => request[h].tap
    /\ asked = h => (request[h].tap <=> phase = "fetching")

BumpsDone == \A t \in Writers : ~ BumpDue(t)

(* While the number the hub fetches for is in force, what has been read    *)
(* for it is in force too.                                                 *)
ReadSoFarIsCurrent ==
  \A h \in Handlers :
    asked = h /\ phase = "fetching" /\ target = generation /\ BumpsDone /\ ~ reused =>
      /\ pc[h] \in {"read_overlays", "programme"} => image[h].enabled = enabled
      /\ pc[h] = "programme" => image[h].overlay = overlay

Saver(t) == pc[t] \in {"snapshot_overlay", "replace"}

(* The thread has changed a setting and not begun to save it.              *)
SaveDue(t) == pc[t] \in {"bump_commit", "read_commit", "store_commit", "snapshot"}

SavesBegun == \A t \in Writers : ~ SaveDue(t)

(* A save that met no other is alone to its end.                           *)
OneSaver ==
  ~ overlapped => \A t, u \in Writers : Saver(t) /\ Saver(u) => t = u

(* What a snapshot has taken so far is in force until the next change.     *)
SnapshotIsCurrent ==
  ~ overlapped /\ SavesBegun =>
    \A t \in Writers :
      /\ Saver(t) => image[t].enabled = enabled
      /\ pc[t] = "replace" => image[t].overlay = overlay

(* And so is the file, when nobody saves.                                  *)
FileIsCurrent ==
  ~ overlapped /\ SavesBegun /\ (\A t \in Writers : ~ Saver(t)) =>
    disk = [enabled |-> enabled, overlay |-> overlay]

FileInv == OneSaver /\ SnapshotIsCurrent /\ FileIsCurrent

HubInv == BumpIsAtomic /\ AskedAndAnswered /\ ReadSoFarIsCurrent /\ NoTornProgramme

-----------------------------------------------------------------------------
(* Types                                                                   *)

LEMMA BlankTypes == Blank \in Images /\ NoRequest \in [tap : BOOLEAN, confirmed : Nat]
BY DEF Blank, Images, NoRequest

LEMMA InitTypeOK == Init => TypeOK
<1> SUFFICES ASSUME Init PROVE TypeOK
  OBVIOUS
<1>1. generation \in Nat \ {0}
  BY InitialIsPositive DEF Init
<1>2. image \in [Threads -> Images] /\ programme \in Images
  BY BlankTypes DEF Init
<1>3. /\ pc \in [Threads -> WriterLabels \cup HandlerLabels]
      /\ \A t \in Writers : pc[t] \in WriterLabels
      /\ \A h \in Handlers : pc[h] \in HandlerLabels
  BY DEF Init, Threads, WriterLabels, HandlerLabels
<1>4. request \in [Handlers -> [tap : BOOLEAN, confirmed : Nat]]
  BY BlankTypes DEF Init
<1>5. /\ enabled \in BOOLEAN /\ overlay \in BOOLEAN
      /\ acted \in BOOLEAN /\ overlapped \in BOOLEAN /\ reused \in BOOLEAN
  BY DEF Init
<1>6. disk \in [enabled : BOOLEAN, overlay : BOOLEAN]
  BY <1>5 DEF Init
<1>7. /\ changes \in 0 .. MaxChanges /\ refreshes \in 0 .. MaxRefreshes
      /\ losses \in 0 .. MaxLosses
  BY BoundsAssumption DEF Init
<1>8. /\ pending \in Commands \cup {NoCommand} /\ generation_confirmed \in Nat
      /\ lock \in Writers \cup {NoThread} /\ read \in [Threads -> Nat]
      /\ held \in Nat /\ confirmed \in Nat /\ target \in Nat /\ issue \in Nat
      /\ phase \in {"idle", "asking", "behind", "fetching"}
      /\ asked \in Handlers \cup {NoThread}
  BY DEF Init
<1>9. QED
  BY <1>1, <1>2, <1>3, <1>4, <1>5, <1>6, <1>7, <1>8 DEF TypeOK

(* What the actions of a writer leave of the types of the threads.         *)
LEMMA GotoType ==
  ASSUME TypeOK, NEW t \in Threads, NEW label, Goto(t, label),
         \/ t \in Writers /\ label \in WriterLabels
         \/ t \in Handlers /\ label \in HandlerLabels
  PROVE  /\ pc' \in [Threads -> WriterLabels \cup HandlerLabels]
         /\ \A u \in Writers : pc'[u] \in WriterLabels
         /\ \A h \in Handlers : pc'[h] \in HandlerLabels
<1>1. Writers \cap Handlers = {}
  BY ThreadsAssumption
<1>2. QED
  BY <1>1 DEF Goto, TypeOK, Threads

LEMMA BumpingType ==
  ASSUME TypeOK, NEW t \in Writers, Bumping(t)
  PROVE  TypeOK'
<1> t \in Threads
  BY DEF Threads
<1>1. CASE Acquire(t)
  <2>1. \E label \in WriterLabels : Goto(t, label)
    BY <1>1 DEF Acquire, WriterLabels
  <2>2. QED
    BY <1>1, <2>1, GotoType DEF Acquire, TypeOK, shared, hub, history
<1>2. CASE ReadGeneration(t)
  <2>1. \E label \in WriterLabels : Goto(t, label)
    BY <1>2 DEF ReadGeneration, WriterLabels
  <2>2. QED
    BY <1>2, <2>1, GotoType DEF ReadGeneration, TypeOK, shared, hub, history
<1>3. CASE StoreGeneration(t)
  <2>1. \E label \in WriterLabels : Goto(t, label)
    BY <1>3 DEF StoreGeneration, WriterLabels
  <2>2. generation' \in Nat \ {0}
    BY <1>3, BumpIsPositive DEF StoreGeneration, TypeOK
  <2>3. read' \in [Threads -> Nat] /\ reused' \in BOOLEAN
    BY <1>3 DEF StoreGeneration, TypeOK, ComesRound
  <2>4. QED
    BY <1>3, <2>1, <2>2, <2>3, GotoType DEF StoreGeneration, TypeOK, hub
<1>4. QED
  BY <1>1, <1>2, <1>3 DEF Bumping

LEMMA SavingType ==
  ASSUME TypeOK, NEW t \in Writers, Saving(t)
  PROVE  TypeOK'
<1> t \in Threads
  BY DEF Threads
<1>1. \E label \in WriterLabels : Goto(t, label)
  BY DEF Saving, SnapshotEnabled, SnapshotOverlay, ReplaceFile, WriterLabels
<1>2. image' \in [Threads -> Images]
  <2>1. \A b \in BOOLEAN : [image[t] EXCEPT !.enabled = b] \in Images
                         /\ [image[t] EXCEPT !.overlay = b] \in Images
    BY DEF TypeOK, Images
  <2>2. QED
    BY <2>1, BlankTypes DEF Saving, SnapshotEnabled, SnapshotOverlay, ReplaceFile, TypeOK
<1>3. /\ disk' \in [enabled : BOOLEAN, overlay : BOOLEAN]
      /\ overlapped' \in BOOLEAN
  <2>1. image[t].enabled \in BOOLEAN /\ image[t].overlay \in BOOLEAN
    BY DEF TypeOK, Images
  <2>2. CASE SnapshotEnabled(t)
    <3>1. overlapped' \in BOOLEAN
      BY <2>2, Zenon DEF SnapshotEnabled
    <3>2. UNCHANGED disk
      BY <2>2 DEF SnapshotEnabled
    <3>3. QED
      BY <3>1, <3>2 DEF TypeOK
  <2>3. CASE SnapshotOverlay(t)
    BY <2>3 DEF SnapshotOverlay, TypeOK, history
  <2>4. CASE ReplaceFile(t)
    BY <2>1, <2>4 DEF ReplaceFile, TypeOK, history
  <2>5. QED
    BY <2>2, <2>3, <2>4 DEF Saving
<1>4. QED
  BY <1>1, <1>2, <1>3, GotoType DEF Saving, SnapshotEnabled, SnapshotOverlay, ReplaceFile,
     TypeOK, shared, hub, history

LEMMA ChangingType ==
  ASSUME TypeOK, Mqtt \/ ExpireOverlay \/ RefreshMoved
  PROVE  TypeOK'
<1> mqtt \in Threads /\ refresher \in Threads /\ mqtt \in Writers /\ refresher \in Writers
  BY DEF Threads, Writers
<1>1. CASE \E b \in BOOLEAN : SetEnabled(b)
  <2>1. Goto(mqtt, "bump_commit") /\ "bump_commit" \in WriterLabels
    BY <1>1 DEF SetEnabled, WriterLabels
  <2>2. QED
    BY <1>1, <2>1, GotoType, BoundsAssumption DEF SetEnabled, TypeOK, hub, history
<1>2. CASE \E c \in Commands : Queue(c)
  <2>1. Goto(mqtt, "bump") /\ "bump" \in WriterLabels
    BY <1>2 DEF Queue, WriterLabels
  <2>2. QED
    <3>1. pending' \in Commands \cup {NoCommand}
      BY <1>2 DEF Queue
    <3>2. acted' \in BOOLEAN
      BY <1>2 DEF Queue
    <3>3. issue' \in Nat /\ changes' \in 0 .. MaxChanges
      BY <1>2, BoundsAssumption DEF Queue, TypeOK
    <3>4. QED
      BY <1>2, <2>1, <3>1, <3>2, <3>3, GotoType DEF Queue, TypeOK, hub
<1>3. CASE ExpireOverlay
  <2>1. Goto(refresher, "bump_commit") /\ "bump_commit" \in WriterLabels
    BY <1>3 DEF ExpireOverlay, WriterLabels
  <2>2. QED
    <3>1. overlay' \in BOOLEAN
      BY <1>3 DEF ExpireOverlay
    <3>2. QED
      BY <1>3, <2>1, <3>1, GotoType DEF ExpireOverlay, TypeOK, hub, history
<1>4. CASE RefreshMoved
  <2>1. Goto(refresher, "bump") /\ "bump" \in WriterLabels
    BY <1>4 DEF RefreshMoved, WriterLabels
  <2>2. QED
    BY <1>4, <2>1, GotoType, BoundsAssumption DEF RefreshMoved, TypeOK, shared, hub, history
<1>5. QED
  BY <1>1, <1>2, <1>3, <1>4 DEF Mqtt

LEMMA ObservingType ==
  ASSUME TypeOK, NEW h \in Handlers, Observing(h)
  PROVE  TypeOK'
<1> h \in Threads
  BY DEF Threads
<1>1. FirstRead(h) \in HandlerLabels
  BY DEF FirstRead, HandlerLabels
<1>2. \E label \in HandlerLabels : Goto(h, label)
  BY <1>1 DEF Observing, NoteConfirmed, TestPending, CompareGenerations, ClearPending,
     HandlerLabels
<1>3. generation_confirmed' \in Nat /\ pending' \in Commands \cup {NoCommand}
  BY DEF Observing, NoteConfirmed, TestPending, CompareGenerations, ClearPending, TypeOK, shared
<1>4. QED
  BY <1>2, <1>3, GotoType DEF Observing, NoteConfirmed, TestPending, CompareGenerations,
     ClearPending, TypeOK, shared, hub, history

LEMMA DoneType ==
  ASSUME TypeOK, NEW h \in Handlers, Done(h)
  PROVE  /\ pc' \in [Threads -> WriterLabels \cup HandlerLabels]
         /\ \A u \in Writers : pc'[u] \in WriterLabels
         /\ \A g \in Handlers : pc'[g] \in HandlerLabels
         /\ read' \in [Threads -> Nat]
         /\ image' \in [Threads -> Images]
         /\ request' \in [Handlers -> [tap : BOOLEAN, confirmed : Nat]]
<1>1. h \in Threads /\ "ready" \in HandlerLabels
  BY DEF Threads, HandlerLabels
<1>2. QED
  BY <1>1, GotoType, BlankTypes DEF Done, TypeOK

LEMMA AnsweringType ==
  ASSUME TypeOK, NEW h \in Handlers, Answering(h)
  PROVE  TypeOK'
<1> h \in Threads
  BY DEF Threads
<1>1. CASE ReadForChecksum(h)
  <2>1. Goto(h, "heartbeat") /\ "heartbeat" \in HandlerLabels
    BY <1>1 DEF ReadForChecksum, HandlerLabels
  <2>2. QED
    BY <1>1, <2>1, GotoType DEF ReadForChecksum, TypeOK, shared, hub, history
<1>2. CASE AnswerHeartbeat(h)
  <2>1. /\ phase' \in {"idle", "asking", "behind", "fetching"}
        /\ target' \in Nat /\ asked' \in Handlers \cup {NoThread}
    BY <1>2 DEF AnswerHeartbeat, TypeOK
  <2>2. Done(h)
    BY <1>2 DEF AnswerHeartbeat
  <2>3. QED
    BY <1>2, <2>1, <2>2, DoneType DEF AnswerHeartbeat, TypeOK, shared, history
<1>3. CASE ReadEvents(h) \/ ReadOverlays(h)
  <2>1. \E label \in HandlerLabels : Goto(h, label)
    BY <1>3 DEF ReadEvents, ReadOverlays, HandlerLabels
  <2>2. image' \in [Threads -> Images]
    <3>1. \A b \in BOOLEAN : [image[h] EXCEPT !.enabled = b] \in Images
                           /\ [image[h] EXCEPT !.overlay = b] \in Images
      BY DEF TypeOK, Images
    <3>2. QED
      BY <1>3, <3>1 DEF ReadEvents, ReadOverlays, TypeOK
  <2>3. QED
    BY <1>3, <2>1, <2>2, GotoType DEF ReadEvents, ReadOverlays, TypeOK, shared, hub, history
<1>4. CASE AnswerTap(h)
  <2>1. [image[h] EXCEPT !.command = pending, !.issue = issue] \in Images
    BY DEF TypeOK, Images
  <2>2. /\ phase' \in {"idle", "asking", "behind", "fetching"} /\ programme' \in Images
        /\ held' \in Nat /\ asked' \in Handlers \cup {NoThread}
    BY <1>4, <2>1 DEF AnswerTap, TypeOK
  <2>3. Done(h)
    BY <1>4 DEF AnswerTap
  <2>4. QED
    BY <1>4, <2>2, <2>3, DoneType DEF AnswerTap, TypeOK, shared, history
<1>5. QED
  BY <1>1, <1>2, <1>3, <1>4 DEF Answering

LEMMA HubType ==
  ASSUME TypeOK, (\E h \in Handlers : Send(h)) \/ GiveUp \/ ControllerPoll
  PROVE  TypeOK'
<1>1. CASE \E h \in Handlers : Send(h)
  <2> PICK h \in Handlers : Send(h)
    BY <1>1
  <2>1. h \in Threads /\ Goto(h, "observe") /\ "observe" \in HandlerLabels
    BY DEF Send, HandlerLabels, Threads
  <2>2. request' \in [Handlers -> [tap : BOOLEAN, confirmed : Nat]]
    BY DEF Send, TypeOK
  <2>3. phase' \in {"idle", "asking", "behind", "fetching"} /\ asked' \in Handlers \cup {NoThread}
    BY DEF Send, TypeOK
  <2>4. QED
    BY <2>1, <2>2, <2>3, GotoType DEF Send, TypeOK, shared, history
<1>2. CASE GiveUp
  BY <1>2, BoundsAssumption DEF GiveUp, TypeOK, shared, history
<1>3. CASE ControllerPoll
  <2>1. acted' \in BOOLEAN /\ confirmed' \in Nat
    BY <1>3 DEF ControllerPoll, TypeOK
  <2>2. QED
    BY <1>3, <2>1 DEF ControllerPoll, TypeOK, shared
<1>4. QED
  BY <1>1, <1>2, <1>3

LEMMA NextTypeOK == TypeOK /\ [Next]_vars => TypeOK'
<1> SUFFICES ASSUME TypeOK, [Next]_vars PROVE TypeOK'
  OBVIOUS
<1>1. CASE Next
  BY <1>1, BumpingType, SavingType, ChangingType, ObservingType, AnsweringType, HubType DEF Next
<1>2. CASE UNCHANGED vars
  BY <1>2 DEF vars, shared, hub, history, TypeOK
<1>3. QED
  BY <1>1, <1>2

(* Every variable of the threads and of the hub keeps its type.            *)
THEOREM TypeCorrect == Spec => []TypeOK
BY InitTypeOK, NextTypeOK, PTL DEF Spec

-----------------------------------------------------------------------------
(* The lock                                                                *)

(* A step of a thread moves that thread only.                              *)
LEMMA GotoMoves ==
  ASSUME TypeOK, NEW t \in Threads, NEW label, Goto(t, label)
  PROVE  /\ pc'[t] = label
         /\ \A u \in Threads \ {t} : pc'[u] = pc[u]
BY DEF Goto, TypeOK

(* The steps that leave bump's statements, its lock and what it read alone. *)
LEMMA LockUntouched ==
  ASSUME TypeOK, BumpIsAtomic, UNCHANGED <<lock, generation>>,
         \A t \in Writers : UnderLock(t)' <=> UnderLock(t),
         \A t \in Writers : UnderLock(t) => pc'[t] = pc[t] /\ read'[t] = read[t]
  PROVE  BumpIsAtomic'
BY DEF BumpIsAtomic, UnderLock

LEMMA WritersAndHandlers ==
  /\ mqtt \in Writers /\ refresher \in Writers
  /\ \A t \in Writers : t \in Threads /\ t # NoThread /\ t \notin Handlers
  /\ \A h \in Handlers : h \in Threads /\ h # NoThread /\ h \notin Writers
BY ThreadsAssumption DEF Threads, Writers

LEMMA BumpingAtomic ==
  ASSUME TypeOK, BumpIsAtomic, NEW t \in Writers, Bumping(t)
  PROVE  BumpIsAtomic'
<1> USE WritersAndHandlers
<1>1. CASE Acquire(t)
  <2>1. pc'[t] \in {"read", "read_commit"} /\ \A u \in Threads \ {t} : pc'[u] = pc[u]
    BY <1>1, GotoMoves DEF Acquire
  <2>2. lock' = t /\ lock = NoThread /\ UNCHANGED <<read, generation>>
    BY <1>1 DEF Acquire, shared
  <2>3. QED
    BY <2>1, <2>2 DEF BumpIsAtomic, UnderLock
<1>2. CASE ReadGeneration(t)
  <2>1. /\ pc[t] \in {"read", "read_commit"} /\ pc'[t] \in {"store", "store_commit"}
        /\ \A u \in Threads \ {t} : pc'[u] = pc[u]
    BY <1>2, GotoMoves DEF ReadGeneration
  <2>2. /\ UNCHANGED <<lock, generation>>
        /\ read'[t] = generation /\ \A u \in Threads \ {t} : read'[u] = read[u]
    BY <1>2 DEF ReadGeneration, shared, TypeOK
  <2>3. QED
    BY <2>1, <2>2 DEF BumpIsAtomic, UnderLock
<1>3. CASE StoreGeneration(t)
  <2>1. /\ pc[t] \in {"store", "store_commit"} /\ pc'[t] \in {"ready", "snapshot"}
        /\ \A u \in Threads \ {t} : pc'[u] = pc[u]
    BY <1>3, GotoMoves DEF StoreGeneration
  <2>2. lock = t /\ \A u \in Writers \ {t} : ~ UnderLock(u)
    BY <2>1 DEF BumpIsAtomic, UnderLock
  <2>3. lock' = NoThread
    BY <1>3 DEF StoreGeneration
  <2>4. QED
    BY <2>1, <2>2, <2>3 DEF BumpIsAtomic, UnderLock
<1>4. QED
  BY <1>1, <1>2, <1>3 DEF Bumping

LEMMA NextAtomic == TypeOK /\ BumpIsAtomic /\ [Next]_vars => BumpIsAtomic'
<1> SUFFICES ASSUME TypeOK, BumpIsAtomic, [Next]_vars PROVE BumpIsAtomic'
  OBVIOUS
<1> USE WritersAndHandlers
<1>1. ASSUME NEW t \in Writers, Bumping(t) PROVE BumpIsAtomic'
  BY <1>1, BumpingAtomic
<1>2. ASSUME NEW t \in Writers, Saving(t) PROVE BumpIsAtomic'
  <2>1. /\ pc[t] \in {"snapshot", "snapshot_overlay", "replace"}
        /\ pc'[t] \in {"snapshot_overlay", "replace", "ready"}
        /\ \A u \in Threads \ {t} : pc'[u] = pc[u]
    BY <1>2, GotoMoves DEF Saving, SnapshotEnabled, SnapshotOverlay, ReplaceFile
  <2>2. UNCHANGED <<lock, generation, read>>
    BY <1>2 DEF Saving, SnapshotEnabled, SnapshotOverlay, ReplaceFile, shared
  <2>3. QED
    BY <2>1, <2>2, LockUntouched DEF UnderLock
<1>3. ASSUME Mqtt \/ ExpireOverlay \/ RefreshMoved PROVE BumpIsAtomic'
  <2>1. \E t \in Writers :
          /\ pc[t] = "ready" /\ pc'[t] \in {"bump", "bump_commit"}
          /\ \A u \in Threads \ {t} : pc'[u] = pc[u]
    BY <1>3, GotoMoves DEF Mqtt, SetEnabled, Queue, ExpireOverlay, RefreshMoved
  <2>2. UNCHANGED <<lock, generation, read>>
    BY <1>3 DEF Mqtt, SetEnabled, Queue, ExpireOverlay, RefreshMoved, shared
  <2>3. QED
    BY <2>1, <2>2, LockUntouched DEF UnderLock
<1>4. ASSUME NEW h \in Handlers, Observing(h) \/ Answering(h) \/ Send(h)
      PROVE  BumpIsAtomic'
  <2>1. \A t \in Threads \ {h} : pc'[t] = pc[t]
    BY <1>4, GotoMoves DEF Observing, NoteConfirmed, TestPending, CompareGenerations,
       ClearPending, Answering, ReadForChecksum, AnswerHeartbeat, ReadEvents, ReadOverlays,
       AnswerTap, Send, Done
  <2>2. /\ UNCHANGED <<lock, generation>>
        /\ \A t \in Threads \ {h} : read'[t] = read[t]
    BY <1>4 DEF Observing, NoteConfirmed, TestPending, CompareGenerations,
       ClearPending, Answering, ReadForChecksum, AnswerHeartbeat, ReadEvents, ReadOverlays,
       AnswerTap, Send, Done, shared, TypeOK
  <2>3. QED
    BY <2>1, <2>2, LockUntouched DEF UnderLock
<1>5. ASSUME GiveUp \/ ControllerPoll \/ UNCHANGED vars PROVE BumpIsAtomic'
  <2>1. UNCHANGED <<lock, generation, read, pc>>
    BY <1>5 DEF GiveUp, ControllerPoll, vars, shared
  <2>2. QED
    BY <2>1, LockUntouched DEF UnderLock
<1>6. QED
  BY <1>1, <1>2, <1>3, <1>4, <1>5 DEF Next

LEMMA InitAtomic == Init => BumpIsAtomic
BY WritersAndHandlers DEF Init, BumpIsAtomic, UnderLock

(* bump is atomic: at most one thread is between acquiring the lock and    *)
(* releasing it, and what it stores is the successor of the number that is *)
(* in force when it stores it.                                             *)
THEOREM BumpsAreAtomic == Spec => []BumpIsAtomic
<1>1. Init => TypeOK /\ BumpIsAtomic
  BY InitTypeOK, InitAtomic
<1>2. (TypeOK /\ BumpIsAtomic) /\ [Next]_vars => (TypeOK /\ BumpIsAtomic)'
  BY NextTypeOK, NextAtomic
<1>3. QED
  BY <1>1, <1>2, PTL DEF Spec

-----------------------------------------------------------------------------
(* The hub and its programme                                               *)

(* A step of a writer that changes neither the settings nor the number.    *)
LEMMA HubUntouched ==
  ASSUME TypeOK, HubInv,
         UNCHANGED <<enabled, overlay, pending, generation, hub, request, issue, reused>>,
         \A h \in Handlers : pc'[h] = pc[h] /\ image'[h] = image[h],
         BumpsDone' => BumpsDone
  PROVE  AskedAndAnswered' /\ ReadSoFarIsCurrent' /\ NoTornProgramme'
<1>1. AskedAndAnswered'
  BY DEF HubInv, AskedAndAnswered, TapLabels, hub
<1>2. ReadSoFarIsCurrent'
  BY DEF HubInv, ReadSoFarIsCurrent, hub
<1>3. NoTornProgramme'
  BY DEF HubInv, NoTornProgramme, BumpsDone, hub
<1>4. QED
  BY <1>1, <1>2, <1>3

(* A new number is neither the hub's nor the one it fetches for.           *)
LEMMA StoreMovesOn ==
  ASSUME TypeOK, BumpIsAtomic, NEW t \in Writers, StoreGeneration(t), ~ reused'
  PROVE  /\ held' # generation'
         /\ phase' = "fetching" => target' # generation'
<1>1. generation' = Bump(generation)
  BY DEF StoreGeneration, BumpIsAtomic
<1>2. Bump(generation) # generation
  BY BumpChanges DEF TypeOK
<1>3. ~ ComesRound
  BY DEF StoreGeneration
<1>4. UNCHANGED hub
  BY DEF StoreGeneration
<1>5. QED
  BY <1>1, <1>2, <1>3, <1>4 DEF ComesRound, LiveLabels, hub

LEMMA BumpingHub ==
  ASSUME TypeOK, HubInv, NEW t \in Writers, Bumping(t)
  PROVE  AskedAndAnswered' /\ ReadSoFarIsCurrent' /\ NoTornProgramme'
<1> USE WritersAndHandlers
<1>1. CASE Acquire(t) \/ ReadGeneration(t)
  <2>1. /\ pc[t] \in {"bump", "bump_commit", "read", "read_commit"}
        /\ pc'[t] \in {"read", "read_commit", "store", "store_commit"}
        /\ \A u \in Threads \ {t} : pc'[u] = pc[u]
    BY <1>1, GotoMoves DEF Acquire, ReadGeneration
  <2>2. /\ UNCHANGED <<enabled, overlay, pending, generation, hub, request, issue, reused>>
        /\ UNCHANGED image
    BY <1>1 DEF Acquire, ReadGeneration, shared, history
  <2>3. ~ BumpsDone'
    BY <2>1 DEF BumpsDone, BumpDue
  <2>4. QED
    BY <2>1, <2>2, <2>3, HubUntouched
<1>2. CASE StoreGeneration(t)
  <2>1. \A u \in Threads \ {t} : pc'[u] = pc[u]
    BY <1>2, GotoMoves DEF StoreGeneration
  <2>2. UNCHANGED <<hub, request, image>>
    BY <1>2 DEF StoreGeneration
  <2>3. AskedAndAnswered'
    BY <2>1, <2>2 DEF HubInv, AskedAndAnswered, TapLabels, hub
  <2>4. ReadSoFarIsCurrent'
    BY <1>2, StoreMovesOn DEF HubInv, ReadSoFarIsCurrent
  <2>5. NoTornProgramme'
    BY <1>2, StoreMovesOn DEF HubInv, NoTornProgramme
  <2>6. QED
    BY <2>3, <2>4, <2>5
<1>3. QED
  BY <1>1, <1>2 DEF Bumping

LEMMA SavingHub ==
  ASSUME TypeOK, HubInv, NEW t \in Writers, Saving(t)
  PROVE  AskedAndAnswered' /\ ReadSoFarIsCurrent' /\ NoTornProgramme'
<1> USE WritersAndHandlers
<1>1. /\ pc[t] \in {"snapshot", "snapshot_overlay", "replace"}
      /\ \A u \in Threads \ {t} : pc'[u] = pc[u]
  BY GotoMoves DEF Saving, SnapshotEnabled, SnapshotOverlay, ReplaceFile
<1>2. UNCHANGED <<enabled, overlay, pending, generation, hub, request, issue, reused>>
  BY DEF Saving, SnapshotEnabled, SnapshotOverlay, ReplaceFile, shared, history
<1>3. \A u \in Threads \ {t} : image'[u] = image[u]
  BY DEF Saving, SnapshotEnabled, SnapshotOverlay, ReplaceFile, TypeOK
<1>4. BumpsDone' => BumpsDone
  BY <1>1 DEF BumpsDone, BumpDue
<1>5. QED
  BY <1>1, <1>2, <1>3, <1>4, HubUntouched

LEMMA ChangingHub ==
  ASSUME TypeOK, HubInv, Mqtt \/ ExpireOverlay \/ RefreshMoved
  PROVE  AskedAndAnswered' /\ ReadSoFarIsCurrent' /\ NoTornProgramme'
<1> USE WritersAndHandlers
<1>1. \E t \in Writers :
        /\ pc'[t] \in {"bump", "bump_commit"}
        /\ \A u \in Threads \ {t} : pc'[u] = pc[u]
  BY GotoMoves DEF Mqtt, SetEnabled, Queue, ExpireOverlay, RefreshMoved
<1>2. ~ BumpsDone'
  BY <1>1 DEF BumpsDone, BumpDue
<1>3. UNCHANGED <<hub, request>>
  BY DEF Mqtt, SetEnabled, Queue, ExpireOverlay, RefreshMoved
<1>4. AskedAndAnswered'
  BY <1>1, <1>3 DEF HubInv, AskedAndAnswered, TapLabels, hub
<1>5. QED
  BY <1>2, <1>4 DEF ReadSoFarIsCurrent, NoTornProgramme, BumpsDone

(* observe may clear a command, and reads nothing for the programme yet.   *)
LEMMA ObservingHub ==
  ASSUME TypeOK, HubInv, NEW h \in Handlers, Observing(h)
  PROVE  AskedAndAnswered' /\ ReadSoFarIsCurrent' /\ NoTornProgramme'
<1> USE WritersAndHandlers
<1>1. /\ pc'[h] \in {"test_pending", "compare", "clear", FirstRead(h)}
      /\ \A u \in Threads \ {h} : pc'[u] = pc[u]
  BY GotoMoves DEF Observing, NoteConfirmed, TestPending, CompareGenerations, ClearPending
<1>2. /\ UNCHANGED <<enabled, overlay, generation, hub, request, issue, reused, image>>
      /\ pending' = pending \/ pending' = NoCommand
  BY DEF Observing, NoteConfirmed, TestPending, CompareGenerations, ClearPending, shared, history
<1>3. pc'[h] \in TapLabels => request[h].tap /\ pc'[h] = "read_events"
  BY <1>1 DEF TapLabels, FirstRead
<1>4. AskedAndAnswered'
  BY <1>1, <1>2, <1>3 DEF HubInv, AskedAndAnswered, TapLabels, hub
<1>5. BumpsDone' => BumpsDone
  BY <1>1 DEF BumpsDone, BumpDue
<1>6. ReadSoFarIsCurrent'
  BY <1>1, <1>2, <1>3, <1>5 DEF HubInv, ReadSoFarIsCurrent, TapLabels, hub
<1>7. NoTornProgramme'
  BY <1>2, <1>5 DEF HubInv, NoTornProgramme, BumpsDone, hub
<1>8. QED
  BY <1>4, <1>6, <1>7

(* A thread that ends leaves the others' requests and readings alone.      *)
LEMMA DoneMoves ==
  ASSUME TypeOK, NEW h \in Handlers, Done(h)
  PROVE  /\ pc'[h] = "ready"
         /\ \A u \in Threads \ {h} : pc'[u] = pc[u] /\ image'[u] = image[u]
         /\ \A g \in Handlers \ {h} : request'[g] = request[g]
BY WritersAndHandlers, GotoMoves DEF Done, TypeOK

LEMMA AnswerHeartbeatHub ==
  ASSUME TypeOK, HubInv, NEW h \in Handlers, AnswerHeartbeat(h)
  PROVE  AskedAndAnswered' /\ ReadSoFarIsCurrent' /\ NoTornProgramme'
<1> USE WritersAndHandlers
<1>1. /\ pc'[h] = "ready"
      /\ \A u \in Threads \ {h} : pc'[u] = pc[u] /\ image'[u] = image[u]
      /\ \A g \in Handlers \ {h} : request'[g] = request[g]
  BY DoneMoves DEF AnswerHeartbeat
<1>2. UNCHANGED <<enabled, overlay, pending, generation, held, programme, issue, reused>>
  BY DEF AnswerHeartbeat, shared, history
<1>3. \/ asked = h /\ asked' = NoThread
      \/ asked # h /\ UNCHANGED <<asked, phase, target>>
  BY DEF AnswerHeartbeat
<1>4. AskedAndAnswered'
  BY <1>1, <1>3 DEF HubInv, AskedAndAnswered, TapLabels
<1>5. BumpsDone' => BumpsDone
  BY <1>1 DEF BumpsDone, BumpDue
<1>6. ReadSoFarIsCurrent'
  BY <1>1, <1>2, <1>3, <1>5 DEF HubInv, ReadSoFarIsCurrent
<1>7. NoTornProgramme'
  BY <1>2, <1>5 DEF HubInv, NoTornProgramme, BumpsDone
<1>8. QED
  BY <1>4, <1>6, <1>7

(* What is being read for the programme is read from the state in force.   *)
LEMMA ReadingHub ==
  ASSUME TypeOK, HubInv, NEW h \in Handlers,
         ReadForChecksum(h) \/ ReadEvents(h) \/ ReadOverlays(h)
  PROVE  AskedAndAnswered' /\ ReadSoFarIsCurrent' /\ NoTornProgramme'
<1> USE WritersAndHandlers
<1>1. \A u \in Threads \ {h} : pc'[u] = pc[u] /\ image'[u] = image[u]
  BY GotoMoves DEF ReadForChecksum, ReadEvents, ReadOverlays, TypeOK
<1>2. UNCHANGED <<enabled, overlay, pending, generation, hub, request, issue, reused>>
  BY DEF ReadForChecksum, ReadEvents, ReadOverlays, shared, history
<1>3. \/ pc'[h] = "heartbeat"
      \/ pc[h] = "read_events" /\ pc'[h] = "read_overlays" /\ image'[h].enabled = enabled
      \/ /\ pc[h] = "read_overlays" /\ pc'[h] = "programme"
         /\ image'[h].enabled = image[h].enabled /\ image'[h].overlay = overlay
  BY GotoMoves DEF ReadForChecksum, ReadEvents, ReadOverlays, TypeOK, Images
<1>4. AskedAndAnswered'
  BY <1>1, <1>2, <1>3 DEF HubInv, AskedAndAnswered, TapLabels, hub
<1>5. BumpsDone' => BumpsDone
  BY <1>1 DEF BumpsDone, BumpDue
<1>6. ReadSoFarIsCurrent'
  BY <1>1, <1>2, <1>3, <1>5 DEF HubInv, ReadSoFarIsCurrent, hub
<1>7. NoTornProgramme'
  BY <1>2, <1>5 DEF HubInv, NoTornProgramme, BumpsDone, hub
<1>8. QED
  BY <1>4, <1>6, <1>7

(* The programme is current when it reaches the hub, which is why it may   *)
(* be filed under the number it was fetched for.                           *)
LEMMA AnswerTapHub ==
  ASSUME TypeOK, HubInv, NEW h \in Handlers, AnswerTap(h)
  PROVE  AskedAndAnswered' /\ ReadSoFarIsCurrent' /\ NoTornProgramme'
<1> USE WritersAndHandlers
<1>1. /\ pc'[h] = "ready"
      /\ \A u \in Threads \ {h} : pc'[u] = pc[u] /\ image'[u] = image[u]
      /\ \A g \in Handlers \ {h} : request'[g] = request[g]
  BY DoneMoves DEF AnswerTap
<1>2. UNCHANGED <<enabled, overlay, pending, generation, target, issue, reused>>
  BY DEF AnswerTap, shared, history
<1>3. BumpsDone' => BumpsDone
  BY <1>1 DEF BumpsDone, BumpDue
<1>4. CASE asked = h
  <2>1. phase = "fetching" /\ pc[h] = "programme"
    BY <1>4 DEF AnswerTap, HubInv, AskedAndAnswered, TapLabels
  <2>2. /\ asked' = NoThread /\ held' = target
        /\ programme' = [image[h] EXCEPT !.command = pending, !.issue = issue]
    BY <1>4 DEF AnswerTap
  <2>3. AskedAndAnswered'
    BY <1>1, <2>2 DEF HubInv, AskedAndAnswered, TapLabels
  <2>4. ReadSoFarIsCurrent'
    BY <2>2 DEF ReadSoFarIsCurrent
  <2>5. /\ programme'.enabled = image[h].enabled /\ programme'.overlay = image[h].overlay
        /\ programme'.command = pending /\ programme'.issue = issue
    BY <2>2 DEF TypeOK, Images
  <2>6. NoTornProgramme'
    BY <1>2, <1>3, <1>4, <2>1, <2>2, <2>5
       DEF HubInv, ReadSoFarIsCurrent, NoTornProgramme, BumpsDone
  <2>7. QED
    BY <2>3, <2>4, <2>6
<1>5. CASE asked # h
  <2>1. UNCHANGED <<asked, held, phase, programme>>
    BY <1>5 DEF AnswerTap
  <2>2. AskedAndAnswered'
    BY <1>1, <1>5, <2>1 DEF HubInv, AskedAndAnswered, TapLabels
  <2>3. ReadSoFarIsCurrent'
    BY <1>1, <1>2, <1>3, <1>5, <2>1 DEF HubInv, ReadSoFarIsCurrent
  <2>4. NoTornProgramme'
    BY <1>2, <1>3, <2>1 DEF HubInv, NoTornProgramme, BumpsDone
  <2>5. QED
    BY <2>2, <2>3, <2>4
<1>6. QED
  BY <1>4, <1>5

LEMMA SendHub ==
  ASSUME TypeOK, HubInv, NEW h \in Handlers, Send(h)
  PROVE  AskedAndAnswered' /\ ReadSoFarIsCurrent' /\ NoTornProgramme'
<1> USE WritersAndHandlers
<1>1. pc'[h] = "observe" /\ \A u \in Threads \ {h} : pc'[u] = pc[u]
  BY GotoMoves DEF Send
<1>2. UNCHANGED <<enabled, overlay, pending, generation, held, programme, target, issue,
                  reused, image>>
  BY DEF Send, shared, history
<1>3. /\ asked' = h
      /\ request'[h].tap <=> phase' = "fetching"
      /\ \A g \in Handlers \ {h} : request'[g] = request[g]
  BY DEF Send, TypeOK
<1>4. AskedAndAnswered'
  BY <1>1, <1>3 DEF HubInv, AskedAndAnswered, TapLabels
<1>5. ReadSoFarIsCurrent'
  BY <1>1, <1>3 DEF ReadSoFarIsCurrent
<1>6. BumpsDone' => BumpsDone
  BY <1>1 DEF BumpsDone, BumpDue
<1>7. NoTornProgramme'
  BY <1>2, <1>6 DEF HubInv, NoTornProgramme, BumpsDone
<1>8. QED
  BY <1>4, <1>5, <1>7

LEMMA NextHub == TypeOK /\ HubInv /\ [Next]_vars => HubInv'
<1> SUFFICES ASSUME TypeOK, HubInv, [Next]_vars PROVE HubInv'
  OBVIOUS
<1>1. BumpIsAtomic'
  BY NextAtomic DEF HubInv
<1>2. AskedAndAnswered' /\ ReadSoFarIsCurrent' /\ NoTornProgramme'
  <2>1. CASE \E t \in Writers : Bumping(t) \/ Saving(t)
    BY <2>1, BumpingHub, SavingHub
  <2>2. CASE Mqtt \/ ExpireOverlay \/ RefreshMoved
    BY <2>2, ChangingHub
  <2>3. CASE \E h \in Handlers : Observing(h) \/ Answering(h) \/ Send(h)
    BY <2>3, ObservingHub, AnswerHeartbeatHub, ReadingHub, AnswerTapHub, SendHub DEF Answering
  <2>4. CASE GiveUp
    <3>1. /\ asked' = NoThread
          /\ UNCHANGED <<enabled, overlay, pending, generation, held, programme, issue,
                         reused, request, pc>>
      BY <2>4 DEF GiveUp, shared, history
    <3>2. AskedAndAnswered' /\ ReadSoFarIsCurrent'
      BY <3>1, WritersAndHandlers DEF HubInv, AskedAndAnswered, ReadSoFarIsCurrent, TapLabels
    <3>3. NoTornProgramme'
      BY <3>1 DEF HubInv, NoTornProgramme, BumpDue
    <3>4. QED
      BY <3>2, <3>3
  <2>5. CASE ControllerPoll \/ UNCHANGED vars
    <3>1. UNCHANGED <<enabled, overlay, pending, generation, held, programme, target, phase,
                      asked, issue, reused, request, pc, image>>
      BY <2>5 DEF ControllerPoll, vars, shared, hub, history
    <3>2. AskedAndAnswered'
      BY <3>1 DEF HubInv, AskedAndAnswered, TapLabels
    <3>3. ReadSoFarIsCurrent'
      BY <3>1 DEF HubInv, ReadSoFarIsCurrent, BumpsDone, BumpDue
    <3>4. NoTornProgramme'
      BY <3>1 DEF HubInv, NoTornProgramme, BumpDue
    <3>5. QED
      BY <3>2, <3>3, <3>4
  <2>6. QED
    BY <2>1, <2>2, <2>3, <2>4, <2>5 DEF Next
<1>3. QED
  BY <1>1, <1>2 DEF HubInv

LEMMA InitHub == Init => HubInv
<1> SUFFICES ASSUME Init PROVE HubInv
  OBVIOUS
<1>1. BumpIsAtomic
  BY InitAtomic
<1>2. AskedAndAnswered /\ ReadSoFarIsCurrent
  BY WritersAndHandlers DEF Init, AskedAndAnswered, ReadSoFarIsCurrent, TapLabels, Threads
<1>3. NoTornProgramme
  <2>1. generation # 0 /\ held = 0
    BY InitialIsPositive DEF Init
  <2>2. QED
    BY <2>1 DEF NoTornProgramme
<1>4. QED
  BY <1>1, <1>2, <1>3 DEF HubInv

(* However many threads read the state while others write it, a hub that   *)
(* holds the number in force holds the state in force, once every change   *)
(* has had its bump, unless the numbers came round under the hub.          *)
THEOREM ProgrammesAreNotTorn == Spec => []NoTornProgramme
<1>1. Init => TypeOK /\ HubInv
  BY InitTypeOK, InitHub
<1>2. (TypeOK /\ HubInv) /\ [Next]_vars => (TypeOK /\ HubInv)'
  BY NextTypeOK, NextHub
<1>3. TypeOK /\ HubInv => NoTornProgramme
  BY DEF HubInv
<1>4. QED
  BY <1>1, <1>2, <1>3, PTL DEF Spec

-----------------------------------------------------------------------------
(* The file                                                                *)

(* A step that neither begins, continues nor ends a save, nor changes a    *)
(* setting.                                                                *)
LEMMA FileUntouched ==
  ASSUME TypeOK, FileInv, UNCHANGED <<enabled, overlay, disk, overlapped>>,
         \A t \in Writers :
           /\ image'[t] = image[t]
           /\ Saver(t)' <=> Saver(t)
           /\ pc'[t] = "replace" => pc[t] = "replace"
           /\ SaveDue(t) => SaveDue(t)'
  PROVE  FileInv'
<1>1. SavesBegun' => SavesBegun
  BY DEF SavesBegun
<1>2. OneSaver'
  BY DEF FileInv, OneSaver
<1>3. SnapshotIsCurrent'
  BY <1>1 DEF FileInv, SnapshotIsCurrent
<1>4. FileIsCurrent'
  BY <1>1 DEF FileInv, FileIsCurrent
<1>5. QED
  BY <1>2, <1>3, <1>4 DEF FileInv

LEMMA BumpingFile ==
  ASSUME TypeOK, FileInv, NEW t \in Writers, Bumping(t)
  PROVE  FileInv'
<1> USE WritersAndHandlers
<1>1. UNCHANGED <<enabled, overlay, disk, overlapped, image>>
  BY DEF Bumping, Acquire, ReadGeneration, StoreGeneration, shared, history
<1>2. /\ \A u \in Threads \ {t} : pc'[u] = pc[u]
      /\ \/ pc[t] = "bump" /\ pc'[t] = "read"
         \/ pc[t] = "bump_commit" /\ pc'[t] = "read_commit"
         \/ pc[t] = "read" /\ pc'[t] = "store"
         \/ pc[t] = "read_commit" /\ pc'[t] = "store_commit"
         \/ pc[t] = "store" /\ pc'[t] = "ready"
         \/ pc[t] = "store_commit" /\ pc'[t] = "snapshot"
  BY GotoMoves DEF Bumping, Acquire, ReadGeneration, StoreGeneration
<1>3. QED
  BY <1>1, <1>2, FileUntouched DEF Saver, SaveDue

(* The first step of a save is the one that can meet another.              *)
LEMMA SnapshotEnabledFile ==
  ASSUME TypeOK, FileInv, NEW t \in Writers, SnapshotEnabled(t)
  PROVE  FileInv'
<1> USE WritersAndHandlers
<1>1. /\ pc'[t] = "snapshot_overlay"
      /\ \A u \in Threads \ {t} : pc'[u] = pc[u]
  BY GotoMoves DEF SnapshotEnabled
<1>2. UNCHANGED <<enabled, overlay>> /\ image'[t].enabled = enabled
  BY DEF SnapshotEnabled, shared, TypeOK, Images
<1>3. ~ overlapped' => \A u \in Writers \ {t} : ~ Saver(u)
  BY Zenon DEF SnapshotEnabled, Saver
<1>4. ~ overlapped' => \A u \in Writers \ {t} : ~ Saver(u)'
  BY <1>1, <1>3 DEF Saver
<1>5. OneSaver'
  BY <1>4 DEF OneSaver
<1>6. SnapshotIsCurrent'
  <2>1. SUFFICES ASSUME ~ overlapped', NEW u \in Writers, Saver(u)'
        PROVE  u = t
    BY <1>1, <1>2 DEF SnapshotIsCurrent, Saver
  <2>2. QED
    BY <1>4, <2>1
<1>7. FileIsCurrent'
  <2>1. Saver(t)'
    BY <1>1 DEF Saver
  <2>2. QED
    BY <2>1 DEF FileIsCurrent
<1>8. QED
  BY <1>5, <1>6, <1>7 DEF FileInv

LEMMA SnapshotOverlayFile ==
  ASSUME TypeOK, FileInv, NEW t \in Writers, SnapshotOverlay(t)
  PROVE  FileInv'
<1> USE WritersAndHandlers
<1>1. /\ pc[t] = "snapshot_overlay" /\ pc'[t] = "replace"
      /\ \A u \in Threads \ {t} : pc'[u] = pc[u]
  BY GotoMoves DEF SnapshotOverlay
<1>2. /\ UNCHANGED <<enabled, overlay, disk, overlapped>>
      /\ image'[t].enabled = image[t].enabled /\ image'[t].overlay = overlay
      /\ \A u \in Threads \ {t} : image'[u] = image[u]
  BY DEF SnapshotOverlay, shared, history, TypeOK, Images
<1>3. /\ SavesBegun' => SavesBegun
      /\ \A u \in Writers : Saver(u)' <=> Saver(u)
  BY <1>1 DEF SavesBegun, SaveDue, Saver
<1>4. OneSaver'
  BY <1>2, <1>3 DEF FileInv, OneSaver
<1>5. SnapshotIsCurrent'
  BY <1>1, <1>2, <1>3 DEF FileInv, SnapshotIsCurrent
<1>6. FileIsCurrent'
  BY <1>2, <1>3 DEF FileInv, FileIsCurrent
<1>7. QED
  BY <1>4, <1>5, <1>6 DEF FileInv

(* The file takes over what the snapshot has.                              *)
LEMMA ReplaceFileFile ==
  ASSUME TypeOK, FileInv, NEW t \in Writers, ReplaceFile(t)
  PROVE  FileInv'
<1> USE WritersAndHandlers
<1>1. /\ pc[t] = "replace" /\ pc'[t] = "ready"
      /\ \A u \in Threads \ {t} : pc'[u] = pc[u]
  BY GotoMoves DEF ReplaceFile
<1>2. /\ UNCHANGED <<enabled, overlay, overlapped>>
      /\ disk' = [enabled |-> image[t].enabled, overlay |-> image[t].overlay]
      /\ \A u \in Threads \ {t} : image'[u] = image[u]
  BY DEF ReplaceFile, shared, history, TypeOK
<1>3. /\ SavesBegun' => SavesBegun
      /\ Saver(t) /\ ~ Saver(t)'
      /\ \A u \in Writers \ {t} : Saver(u)' <=> Saver(u)
  BY <1>1 DEF SavesBegun, SaveDue, Saver
<1>4. OneSaver'
  BY <1>2, <1>3 DEF FileInv, OneSaver
<1>5. SnapshotIsCurrent'
  BY <1>1, <1>2, <1>3 DEF FileInv, SnapshotIsCurrent
<1>6. FileIsCurrent'
  BY <1>1, <1>2, <1>3 DEF FileInv, SnapshotIsCurrent, FileIsCurrent
<1>7. QED
  BY <1>4, <1>5, <1>6 DEF FileInv

LEMMA ChangingFile ==
  ASSUME TypeOK, FileInv, Mqtt \/ ExpireOverlay \/ RefreshMoved
  PROVE  FileInv'
<1> USE WritersAndHandlers
<1>1. CASE (\E b \in BOOLEAN : SetEnabled(b)) \/ ExpireOverlay
  <2>1. PICK t \in Writers :
          /\ pc[t] = "ready" /\ pc'[t] = "bump_commit"
          /\ \A u \in Threads \ {t} : pc'[u] = pc[u]
    BY <1>1, GotoMoves DEF SetEnabled, ExpireOverlay
  <2>2. UNCHANGED overlapped
    BY <1>1 DEF SetEnabled, ExpireOverlay, history
  <2>3. OneSaver'
    BY <2>1, <2>2 DEF FileInv, OneSaver, Saver
  <2>4. ~ SavesBegun'
    BY <2>1 DEF SavesBegun, SaveDue
  <2>5. QED
    BY <2>3, <2>4 DEF FileInv, SnapshotIsCurrent, FileIsCurrent
<1>2. CASE (\E c \in Commands : Queue(c)) \/ RefreshMoved
  <2>1. PICK t \in Writers :
          /\ pc[t] = "ready" /\ pc'[t] = "bump"
          /\ \A u \in Threads \ {t} : pc'[u] = pc[u]
    BY <1>2, GotoMoves DEF Queue, RefreshMoved
  <2>2. UNCHANGED <<enabled, overlay, disk, overlapped, image>>
    BY <1>2 DEF Queue, RefreshMoved, shared, history
  <2>3. QED
    BY <2>1, <2>2, FileUntouched DEF Saver, SaveDue
<1>3. QED
  BY <1>1, <1>2 DEF Mqtt

LEMMA NextFile == TypeOK /\ FileInv /\ [Next]_vars => FileInv'
<1> SUFFICES ASSUME TypeOK, FileInv, [Next]_vars PROVE FileInv'
  OBVIOUS
<1> USE WritersAndHandlers
<1>1. CASE \E t \in Writers : Bumping(t) \/ Saving(t)
  BY <1>1, BumpingFile, SnapshotEnabledFile, SnapshotOverlayFile, ReplaceFileFile DEF Saving
<1>2. CASE Mqtt \/ ExpireOverlay \/ RefreshMoved
  BY <1>2, ChangingFile
<1>3. ASSUME NEW h \in Handlers, Observing(h) \/ Answering(h) \/ Send(h)
      PROVE  FileInv'
  <2>1. \A t \in Threads \ {h} : pc'[t] = pc[t]
    BY <1>3, GotoMoves DEF Observing, NoteConfirmed, TestPending, CompareGenerations,
       ClearPending, Answering, ReadForChecksum, AnswerHeartbeat, ReadEvents, ReadOverlays,
       AnswerTap, Send, Done
  <2>2. \A t \in Threads \ {h} : image'[t] = image[t]
    BY <1>3 DEF Observing, NoteConfirmed, TestPending, CompareGenerations,
       ClearPending, Answering, ReadForChecksum, AnswerHeartbeat, ReadEvents, ReadOverlays,
       AnswerTap, Send, Done, TypeOK
  <2>3. UNCHANGED <<enabled, overlay, disk, overlapped>>
    BY <1>3 DEF Observing, NoteConfirmed, TestPending, CompareGenerations,
       ClearPending, Answering, ReadForChecksum, AnswerHeartbeat, ReadEvents, ReadOverlays,
       AnswerTap, Send, Done, shared, history
  <2>4. QED
    BY <2>1, <2>2, <2>3, FileUntouched DEF Saver, SaveDue
<1>4. CASE GiveUp \/ ControllerPoll \/ UNCHANGED vars
  <2>1. UNCHANGED <<enabled, overlay, disk, overlapped, image, pc>>
    BY <1>4 DEF GiveUp, ControllerPoll, vars, shared, history
  <2>2. QED
    BY <2>1, FileUntouched DEF Saver, SaveDue
<1>5. QED
  BY <1>1, <1>2, <1>3, <1>4 DEF Next

LEMMA InitFile == Init => FileInv
BY WritersAndHandlers DEF Init, FileInv, OneSaver, SnapshotIsCurrent, FileIsCurrent, Saver

(* When nobody is saving, the file holds the settings in force, unless the *)
(* last two saves overlapped, whatever was changed while they ran.         *)
THEOREM TheFileIsTheTruth == Spec => []FileIsTheTruth
<1>1. Init => TypeOK /\ FileInv
  BY InitTypeOK, InitFile
<1>2. (TypeOK /\ FileInv) /\ [Next]_vars => (TypeOK /\ FileInv)'
  BY NextTypeOK, NextFile
<1>3. TypeOK /\ FileInv => FileIsTheTruth
  BY DEF FileInv, FileIsCurrent, FileIsTheTruth, SavesBegun, SaveDue, Saver
<1>4. QED
  BY <1>1, <1>2, <1>3, PTL DEF Spec

=============================================================================
