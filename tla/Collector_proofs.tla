-------------------------- MODULE Collector_proofs ---------------------------
(* Theorems about Collector, for every number of rounds, repetitions,      *)
(* attempts, starts and faults.                                            *)
EXTENDS Collector, SequenceTheorems, TLAPS

(* What a run of collect found is in the file from its start on, what it   *)
(* puts back is what it found, and the account has it when it says so.     *)
FoundIsFiled == tool = "collect" => snapshot = original

PutsBackWhatWasFound == pc = "restoring" => wanted = original

EachToItsOwn ==
  /\ pc \in {"round", "putting", "waiting", "restoring"} => tool = "collect"
  /\ pc \in {"probing", "shape", "unshape"} => tool = "probe"

ReportIsTrue ==
  pc = "off" /\ tool = "collect" /\ said = "restored" => overtaken \/ account = original

IInv == FoundIsFiled /\ PutsBackWhatWasFound /\ EachToItsOwn /\ ReportIsTrue

LEMMA InitIInv == Init => IInv
BY DEF Init, IInv, FoundIsFiled, PutsBackWhatWasFound, EachToItsOwn, ReportIsTrue

(* A run that begins has filed what it found, unless it is a probe.        *)
LEMMA BeginIInv ==
  ASSUME IInv, Collect \/ Probe
  PROVE  IInv'
BY DEF IInv, FoundIsFiled, PutsBackWhatWasFound, EachToItsOwn, ReportIsTrue,
       Collect, Probe, Begin

(* The rounds touch neither the file nor what was found.                   *)
LEMMA RoundIInv ==
  ASSUME IInv,
         Put \/ Retry \/ PutSucceeds \/ PutFails \/ Pass \/ Record \/ WaitLapses
  PROVE  IInv'
<1>1. /\ pc # "off" /\ pc' # "off"
      /\ UNCHANGED <<snapshot, original, tool>>
      /\ \/ pc' \in {"round", "putting", "waiting"}
            /\ pc \in {"round", "putting", "waiting"}
         \/ UNCHANGED <<pc, wanted>>
  BY DEF Put, Retry, PutSucceeds, PutFails, Pass, Record, WaitLapses, Request,
         Requesting, files, locals, ghosts
<1>2. QED
  BY <1>1 DEF IInv, FoundIsFiled, PutsBackWhatWasFound, EachToItsOwn, ReportIsTrue

LEMMA LeaveIInv ==
  ASSUME IInv, Leave
  PROVE  IInv'
BY DEF IInv, FoundIsFiled, PutsBackWhatWasFound, EachToItsOwn, ReportIsTrue,
       Leave, Restore, Request, files, ghosts

LEMMA RestoreIInv ==
  ASSUME IInv, RestoreSucceeds \/ RestoreFails
  PROVE  IInv'
<1>1. pc = "restoring" /\ wanted = original /\ tool = "collect"
  BY DEF IInv, EachToItsOwn, PutsBackWhatWasFound, RestoreSucceeds, RestoreFails
<1>2. UNCHANGED <<snapshot, original, tool>>
  BY DEF RestoreSucceeds, RestoreFails, files, locals
<1>3. CASE RestoreSucceeds
  <2>1. pc' = "off" /\ account' = original'
    BY <1>1, <1>2, <1>3 DEF RestoreSucceeds, Succeeds, Off
  <2>2. QED
    BY <1>1, <1>2, <2>1
       DEF IInv, FoundIsFiled, PutsBackWhatWasFound, EachToItsOwn, ReportIsTrue
<1>4. CASE RestoreFails
  <2>1. \/ pc' = "restoring" /\ wanted' = original
        \/ pc' = "off" /\ said' = "could not restore"
    BY <1>1, <1>4 DEF RestoreFails, Request, Off
  <2>2. QED
    BY <1>1, <1>2, <2>1
       DEF IInv, FoundIsFiled, PutsBackWhatWasFound, EachToItsOwn, ReportIsTrue
<1>5. QED
  BY <1>3, <1>4

(* A signal leads to restore; after the second one, and after a kill,      *)
(* nothing is said.                                                        *)
LEMMA SignalIInv ==
  ASSUME IInv, Signal \/ Kill
  PROVE  IInv'
<1>1. /\ UNCHANGED <<snapshot, tool>>
      /\ \/ pc' = "off" /\ said' = "nothing"
         \/ pc' = "restoring" /\ wanted' = original /\ tool = "collect"
      /\ original' = original
  BY DEF IInv, EachToItsOwn, Signal, Kill, Restore, Request, Off, files, locals
<1>2. QED
  BY <1>1 DEF IInv, FoundIsFiled, PutsBackWhatWasFound, EachToItsOwn, ReportIsTrue

LEMMA ProbeIInv ==
  ASSUME IInv, PutShape \/ ShapeDone \/ PutBack \/ PutBackDone
  PROVE  IInv'
<1>1. /\ tool' = tool /\ tool = "probe"
      /\ pc' \in {"probing", "shape", "unshape", "off"}
  BY DEF IInv, EachToItsOwn, PutShape, ShapeDone, PutBack, PutBackDone, Request, Off, ghosts
<1>2. QED
  BY <1>1 DEF IInv, FoundIsFiled, PutsBackWhatWasFound, EachToItsOwn, ReportIsTrue

(* A late request is remembered; applying the file again puts what was     *)
(* found back.                                                             *)
LEMMA CloudIInv ==
  ASSUME IInv, HubFetches \/ (\E s \in late : Land(s)) \/ Reapply
  PROVE  IInv'
<1>1. UNCHANGED <<snapshot, original, pc, wanted, said, tool>>
  BY DEF HubFetches, Land, Reapply, files, locals, ghosts
<1>2. overtaken => overtaken'
  BY Zenon DEF HubFetches, Land, Reapply, ghosts
<1>3. overtaken' \/ account' = account \/ (pc = "off" /\ account' = snapshot)
  BY Zenon DEF HubFetches, Land, Reapply
<1>4. QED
  BY <1>1, <1>2, <1>3
     DEF IInv, FoundIsFiled, PutsBackWhatWasFound, EachToItsOwn, ReportIsTrue

LEMMA NextIInv == IInv /\ [Next]_vars => IInv'
<1> SUFFICES ASSUME IInv, [Next]_vars PROVE IInv'
  OBVIOUS
<1>1. CASE UNCHANGED vars
  BY <1>1 DEF vars, cloud, files, locals, ghosts, IInv, FoundIsFiled,
              PutsBackWhatWasFound, EachToItsOwn, ReportIsTrue
<1>2. CASE Next
  BY <1>2, BeginIInv, RoundIInv, LeaveIInv, RestoreIInv, SignalIInv, ProbeIInv,
     CloudIInv DEF Next
<1>3. QED
  BY <1>1, <1>2

LEMMA Invariance == Spec => []IInv
BY InitIInv, NextIInv, PTL DEF Spec

-----------------------------------------------------------------------------
(* However a run of collect ends, the account has what it found if it says *)
(* so and no late request has changed it since, and the file has it if it  *)
(* does not say so.  Nothing is claimed of a probe.                        *)
THEOREM ScheduleIsPutBack == Spec => []PutsBackOrKeeps
<1>1. IInv => PutsBackOrKeeps
  BY DEF IInv, FoundIsFiled, ReportIsTrue, PutsBackOrKeeps
<1>2. QED
  BY <1>1, Invariance, PTL

(* A step after a run that was not cut: it has said how it ended.          *)
EndIsSaid == pc = "off" /\ ~ cut => said # "nothing"

LEMMA EndStep == EndIsSaid /\ [Next]_vars => EndIsSaid'
<1> SUFFICES ASSUME EndIsSaid, [Next]_vars PROVE EndIsSaid'
  OBVIOUS
<1>1. CASE Signal \/ Kill
  BY <1>1 DEF EndIsSaid, Signal, Kill, Restore, Request, Off
<1>2. CASE RestoreSucceeds \/ RestoreFails \/ PutBackDone
  BY <1>2 DEF EndIsSaid, RestoreSucceeds, RestoreFails, PutBackDone, Request, Off
<1>3. CASE Collect \/ Probe \/ Put \/ Leave \/ PutShape \/ PutBack \/ PutSucceeds
           \/ PutFails \/ Record \/ WaitLapses \/ ShapeDone
  BY <1>3 DEF EndIsSaid, Collect, Probe, Begin, Put, Leave, Restore, PutShape, PutBack,
              PutSucceeds, PutFails, Record, WaitLapses, ShapeDone, Request
<1>4. CASE \/ Retry \/ Pass \/ HubFetches \/ (\E s \in late : Land(s)) \/ Reapply
           \/ UNCHANGED vars
  <2>1. UNCHANGED <<pc, said>> /\ cut' = cut
    BY <1>4 DEF Retry, Pass, HubFetches, Land, Reapply, ghosts, vars
  <2>2. QED
    BY <2>1 DEF EndIsSaid
<1>5. QED
  BY <1>1, <1>2, <1>3, <1>4 DEF Next

LEMMA LoseStep == IInv /\ EndIsSaid /\ TypeOK /\ [Next]_vars => [LosesTheSchedule]_vars
<1> SUFFICES ASSUME IInv, EndIsSaid, TypeOK, Next, snapshot = UserSchedule,
                    snapshot' # UserSchedule,
                    ~ cut, ~ overtaken, said # "could not restore", tool # "probe"
             PROVE  FALSE
  BY DEF LosesTheSchedule
<1>1. Collect
  BY DEF Next, Put, Retry, PutSucceeds, PutFails, Pass, Record, WaitLapses, Leave,
         RestoreSucceeds, RestoreFails, Signal, Kill, Probe, Begin, PutShape, ShapeDone,
         PutBack, PutBackDone, HubFetches, Land, Reapply, files
<1>2. pc = "off" /\ snapshot' = account
  BY <1>1 DEF Collect, Begin
<1>3. said = "restored" /\ tool = "collect"
  BY <1>2, Zenon DEF EndIsSaid, TypeOK
<1>4. account = original /\ snapshot = original
  BY <1>2, <1>3 DEF IInv, FoundIsFiled, ReportIsTrue
<1>5. QED
  BY <1>2, <1>4

-----------------------------------------------------------------------------
(* Types                                                                   *)

LEMMA InitTypeOK == Init => TypeOK
<1> SUFFICES ASSUME Init PROVE TypeOK
  OBVIOUS
<1>1. 0 \in 0 .. Retries - 1 /\ 0 \in 0 .. Attempts - 1 /\ 0 \in 0 .. Rounds
      /\ 0 \in 0 .. Runs /\ 0 \in 0 .. MaxFaults
  BY ParametersAssumption
<1>2. account \in Schedules /\ late \subseteq Schedules
  BY DEF Init, UserSchedule, Schedules
<1>3. pipe = <<>> /\ samples = <<>>
  BY DEF Init
<1>4. pc \in Places /\ restored \in BOOLEAN /\ pc = "off"
  BY DEF Init, Places
<1>5. cut \in BOOLEAN /\ lapsed \in BOOLEAN /\ overtaken \in BOOLEAN
  BY DEF Init
<1>6. QED
  BY <1>1, <1>2, <1>3, <1>4, <1>5 DEF Init, TypeOK

LEMMA Numbers ==
  ASSUME TypeOK
  PROVE  /\ tries \in 0 .. Retries - 1 /\ attempt \in 0 .. Attempts - 1
         /\ round \in 0 .. Rounds /\ runs \in 0 .. Runs /\ faults \in 0 .. MaxFaults
BY Zenon DEF TypeOK

LEMMA Sequences ==
  ASSUME TypeOK
  PROVE  /\ pipe \in Seq(Schedules)
         /\ samples \in Seq([events : Schedules, blob : Schedules])
BY Zenon DEF TypeOK

(* What a request does to the account and to the requests given up.        *)
LEMMA RequestType ==
  ASSUME TypeOK, Requesting, wanted \in Schedules,
         Succeeds \/ Refused \/ Fails \/ Unanswered
  PROVE  account' \in Schedules /\ late' \subseteq Schedules
BY DEF TypeOK, Succeeds, Refused, Fails, Unanswered

LEMMA FaultType == ASSUME TypeOK, Fault \/ UNCHANGED faults PROVE faults' \in 0 .. MaxFaults
BY Numbers, ParametersAssumption DEF Fault

(* A tool that runs knows what it found and, while it asks, what it wants. *)
RunningType ==
  /\ pc # "off" => original \in Schedules
  /\ Requesting \/ pc = "waiting" => wanted \in Schedules

LEMMA TestScheduleType == ASSUME TypeOK PROVE TestSchedule \in Schedules /\ TestSchedule > 10 * runs
BY Numbers, ParametersAssumption DEF TestSchedule, Schedules

LEMMA BeginType ==
  ASSUME TypeOK, Collect \/ Probe
  PROVE  TypeOK' /\ RunningType'
<1>1. /\ original' = account /\ restored' = FALSE /\ previous' = NoSchedule
      /\ wanted' = NoSchedule /\ tries' = 0 /\ attempt' = 0 /\ round' = 0
      /\ pipe' = <<>> /\ runs < Runs /\ runs' = runs + 1
      /\ said' = "nothing" /\ cut' = FALSE /\ lapsed' = FALSE /\ overtaken' = FALSE
      /\ UNCHANGED <<account, late, samples, faults>>
      /\ pc' \in {"round", "probing"} /\ snapshot' \in {account, snapshot}
      /\ tool' \in {"collect", "probe"}
  BY DEF Collect, Probe, Begin
<1>2. /\ tries' \in 0 .. Retries - 1 /\ attempt' \in 0 .. Attempts - 1
      /\ round' \in 0 .. Rounds /\ runs' \in 0 .. Runs
  BY <1>1, Numbers, ParametersAssumption
<1>3. pc' \in Places /\ ~ Requesting' /\ pc' # "waiting"
  BY <1>1 DEF Places, Requesting
<1>4. original' \in Schedules /\ snapshot' \in Schedules \cup {NoSchedule}
  BY <1>1 DEF TypeOK
<1>5. pipe' \in Seq(Schedules)
  BY <1>1
<1>6. restored' \in BOOLEAN /\ cut' \in BOOLEAN /\ lapsed' \in BOOLEAN /\ overtaken' \in BOOLEAN
  BY <1>1
<1>7. QED
  BY <1>1, <1>2, <1>3, <1>4, <1>5, <1>6 DEF TypeOK, RunningType

(* Steps that leave the file, the samples and what was found alone, and    *)
(* how they move the tool.                                                 *)
Asking ==
  \/ Put \/ Retry \/ PutSucceeds \/ PutFails \/ Leave
  \/ RestoreSucceeds \/ RestoreFails \/ Signal \/ Kill
  \/ PutShape \/ ShapeDone \/ PutBack \/ PutBackDone

AskingStep ==
  /\ tries' = 0 \/ tries' = tries \/ (tries' = tries + 1 /\ tries + 1 < Retries)
  /\ attempt' = 0 \/ attempt' = attempt \/ (attempt' = attempt + 1 /\ attempt + 1 < Attempts)
  /\ round' = round \/ (round' = round + 1 /\ round < Rounds)
  /\ pc # "off"
  /\ \/ wanted' = TestSchedule \/ wanted' = original
     \/ wanted' = wanted /\ (Requesting' \/ pc' = "waiting" => Requesting \/ pc = "waiting")

LEMMA AskingMoves == ASSUME Asking PROVE AskingStep
<1>1. CASE Put
  BY <1>1 DEF Put, Request, AskingStep
<1>2. CASE Retry
  BY <1>2 DEF Retry, Requesting, AskingStep
<1>3. CASE PutSucceeds \/ PutFails
  BY <1>3 DEF PutSucceeds, PutFails, locals, Requesting, AskingStep
<1>4. CASE Leave
  BY <1>4 DEF Leave, Restore, Request, AskingStep
<1>5. CASE RestoreSucceeds
  BY <1>5 DEF RestoreSucceeds, Off, locals, Requesting, AskingStep
<1>6. CASE RestoreFails
  BY <1>6 DEF RestoreFails, Off, Request, Requesting, AskingStep
<1>7. CASE Signal
  <2>1. pc # "off"
    BY <1>7 DEF Signal
  <2>2. CASE Restore
    BY <2>1, <2>2 DEF Restore, Request, AskingStep
  <2>3. CASE Off("nothing") /\ UNCHANGED locals
    BY <2>1, <2>3 DEF Off, locals, Requesting, AskingStep
  <2>4. QED
    BY <1>7, <2>2, <2>3 DEF Signal
<1>8. CASE Kill
  BY <1>8 DEF Kill, Off, locals, Requesting, AskingStep
<1>9. CASE PutShape
  BY <1>9 DEF PutShape, Request, AskingStep
<1>10. CASE ShapeDone \/ PutBackDone
  BY <1>10 DEF ShapeDone, PutBackDone, Off, locals, Requesting, AskingStep
<1>11. CASE PutBack
  BY <1>11 DEF PutBack, Request, AskingStep
<1>12. QED
  BY <1>1, <1>2, <1>3, <1>4, <1>5, <1>6, <1>7, <1>8, <1>9, <1>10, <1>11 DEF Asking

LEMMA AskingType ==
  ASSUME TypeOK, RunningType, Asking
  PROVE  TypeOK' /\ RunningType'
<1>1. UNCHANGED <<pipe, snapshot, samples, original, previous, runs, overtaken>>
  BY DEF Asking, Put, Retry, PutSucceeds, PutFails, Leave, Restore, RestoreSucceeds, RestoreFails,
         Signal, Kill, PutShape, ShapeDone, PutBack, PutBackDone, cloud, files, locals, ghosts
<1>2. account' \in Schedules /\ late' \subseteq Schedules
  <2>1. \/ UNCHANGED <<account, late>>
        \/ Requesting /\ (Succeeds \/ Refused \/ Fails \/ Unanswered)
    BY DEF Asking, Put, Retry, PutSucceeds, PutFails, Leave, RestoreSucceeds, RestoreFails,
           Signal, Kill, PutShape, ShapeDone, PutBack, PutBackDone, cloud, Abandon,
           Requesting
  <2>2. QED
    BY <2>1, RequestType DEF RunningType, TypeOK
<1>3. faults' \in 0 .. MaxFaults
  <2>1. Fault \/ UNCHANGED faults
    BY DEF Asking, Put, Retry, PutSucceeds, PutFails, Leave, RestoreSucceeds, RestoreFails,
           Signal, Kill, PutShape, ShapeDone, PutBack, PutBackDone, Succeeds, Refused,
           Fails
  <2>2. QED
    BY <2>1, FaultType
<1>4. tries' \in 0 .. Retries - 1 /\ attempt' \in 0 .. Attempts - 1 /\ round' \in 0 .. Rounds
  BY AskingMoves, Numbers, ParametersAssumption DEF AskingStep
<1>5. /\ wanted' \in Schedules \cup {NoSchedule}
      /\ Requesting' \/ pc' = "waiting" => wanted' \in Schedules
  <2>1. original \in Schedules
    BY AskingMoves DEF AskingStep, RunningType
  <2>2. wanted \in Schedules \cup {NoSchedule}
    BY Zenon DEF TypeOK
  <2>3. QED
    BY <2>1, <2>2, AskingMoves, TestScheduleType DEF AskingStep, RunningType
<1>6. /\ said' \in {"nothing", "restored", "could not restore"}
      /\ tool' \in {"collect", "probe"}
  BY DEF Asking, Put, Retry, PutSucceeds, PutFails, Leave, RestoreSucceeds, RestoreFails, Off,
         Signal, Kill, PutShape, ShapeDone, PutBack, PutBackDone, TypeOK, ghosts
<1>7. cut' \in BOOLEAN
  BY DEF Asking, Put, Retry, PutSucceeds, PutFails, Leave, RestoreSucceeds, RestoreFails,
         Signal, Kill, PutShape, ShapeDone, PutBack, PutBackDone, TypeOK, ghosts
<1>8. lapsed' \in BOOLEAN
  <2>1. lapsed' \in {lapsed, TRUE, lapsed \/ tries > 0}
    BY DEF Asking, Put, Retry, PutSucceeds, PutFails, Leave, RestoreSucceeds, RestoreFails,
           Signal, Kill, PutShape, ShapeDone, PutBack, PutBackDone, ghosts
  <2>2. (lapsed \/ tries > 0) \in BOOLEAN
    OBVIOUS
  <2>3. QED
    BY <2>1, <2>2 DEF TypeOK
<1>9. pc' \in Places /\ pc # "off"
  BY AskingMoves DEF AskingStep, Asking, Put, Retry, PutSucceeds, PutFails, Leave, Restore,
         RestoreSucceeds, RestoreFails, Signal, Kill, PutShape, ShapeDone, PutBack,
         PutBackDone, Request, Off, TypeOK, Places
<1>10. restored' \in BOOLEAN /\ (pc' \notin {"restoring", "off"} => ~ restored')
  <2>1. \/ pc' \in {"restoring", "off"} /\ (restored' = restored \/ restored' = TRUE)
        \/ pc \notin {"restoring", "off"} /\ restored' = restored
    BY DEF Asking, Put, Retry, PutSucceeds, PutFails, Leave, Restore, RestoreSucceeds,
           RestoreFails, Signal, Kill, PutShape, ShapeDone, PutBack, PutBackDone, Request,
           Off, Requesting, locals
  <2>2. restored \in BOOLEAN /\ (pc \notin {"restoring", "off"} => ~ restored)
    BY Zenon DEF TypeOK
  <2>3. CASE restored' = restored
    BY <2>1, <2>2, <2>3
  <2>4. CASE restored' = TRUE
    <3>1. pc' \in {"restoring", "off"} \/ ~ restored'
      BY <2>1, <2>2
    <3>2. QED
      BY <2>4, <3>1
  <2>5. QED
    BY <2>1, <2>3, <2>4
<1>11. QED
  BY <1>1, <1>2, <1>3, <1>4, <1>5, <1>6, <1>7, <1>8, <1>9, <1>10 DEF TypeOK, RunningType

(* Steps that leave the file and the requests of the tool alone.           *)
Reading == Pass \/ Record \/ WaitLapses \/ HubFetches \/ (\E s \in late : Land(s)) \/ Reapply

LEMMA ReadingMoves ==
  ASSUME Reading
  PROVE  /\ UNCHANGED <<snapshot, original, wanted, tries, attempt, round, runs>>
         /\ UNCHANGED <<restored, tool, said, cut>>
         /\ pc' = pc \/ (pc = "waiting" /\ pc' = "round")
         /\ late' = late \/ \E s \in late : late' = late \ {s}
         /\ \/ account' = account \/ \E s \in late : account' = s
            \/ account' = snapshot /\ snapshot # NoSchedule
         /\ lapsed' = lapsed \/ lapsed' = TRUE
         /\ overtaken' = overtaken \/ \E s \in late : overtaken' = (overtaken \/ account # s)
<1>1. CASE Pass
  BY <1>1 DEF Pass, files, locals, ghosts
<1>2. CASE Record
  BY <1>2 DEF Record, ghosts
<1>3. CASE WaitLapses
  BY <1>3 DEF WaitLapses, cloud, files, locals
<1>4. CASE HubFetches
  BY <1>4 DEF HubFetches, files, locals, ghosts
<1>5. ASSUME NEW s \in late, Land(s)
      PROVE  /\ UNCHANGED <<snapshot, original, wanted, tries, attempt, round, runs>>
             /\ UNCHANGED <<restored, tool, said, cut, pc, lapsed>>
             /\ late' = late \ {s} /\ account' = s
             /\ overtaken' = (overtaken \/ account # s)
  BY <1>5, Zenon DEF Land, files, locals
<1>6. CASE Reapply
  BY <1>6 DEF Reapply, files, locals, ghosts
<1>7. QED
  BY <1>1, <1>2, <1>3, <1>4, <1>5, <1>6, Zenon DEF Reading

LEMMA ReadingType ==
  ASSUME TypeOK, RunningType, Reading
  PROVE  TypeOK' /\ RunningType'
<1>1. account' \in Schedules /\ late' \subseteq Schedules
  <2>1. /\ account \in Schedules /\ late \subseteq Schedules
        /\ snapshot \in Schedules \cup {NoSchedule}
    BY Zenon DEF TypeOK
  <2>2. QED
    BY <2>1, ReadingMoves
<1>2. /\ pipe' \in Seq(Schedules) /\ previous' \in Schedules \cup {NoSchedule}
      /\ samples' \in Seq([events : Schedules, blob : Schedules])
  <2>1. account \in Schedules /\ previous \in Schedules \cup {NoSchedule}
    BY Zenon DEF TypeOK
  <2>2. pipe # <<>> => Head(pipe) \in Schedules /\ Tail(pipe) \in Seq(Schedules)
    BY Sequences
  <2>3. Append(pipe, account) \in Seq(Schedules)
    BY <2>1, Sequences
  <2>4. CASE Record
    <3>1. wanted \in Schedules /\ pipe # <<>>
      BY <2>4 DEF Record, RunningType
    <3>2. [events |-> wanted, blob |-> Head(pipe)] \in [events : Schedules, blob : Schedules]
      BY <2>2, <3>1
    <3>3. Append(samples, [events |-> wanted, blob |-> Head(pipe)])
            \in Seq([events : Schedules, blob : Schedules])
      BY <3>2, Sequences, AppendProperties
    <3>4. QED
      BY <2>2, <2>4, <3>1, <3>3 DEF Record
  <2>5. CASE Pass
    BY <2>1, <2>2, <2>5, Sequences DEF Pass, files, locals
  <2>6. CASE WaitLapses \/ HubFetches \/ Reapply
    BY <2>1, <2>3, <2>6, Sequences DEF WaitLapses, HubFetches, Reapply, cloud, files, locals
  <2>7. ASSUME NEW s \in late, Land(s) PROVE UNCHANGED <<pipe, samples, previous>>
    BY <2>7 DEF Land, files, locals
  <2>8. QED
    BY <2>1, <2>4, <2>5, <2>6, <2>7, Sequences DEF Reading
<1>3. faults' \in 0 .. MaxFaults
  <2>1. Fault \/ UNCHANGED faults
    BY DEF Reading, Pass, Record, WaitLapses, HubFetches, Land, Reapply
  <2>2. QED
    BY <2>1, FaultType
<1>4. lapsed' \in BOOLEAN /\ overtaken' \in BOOLEAN
  <2>1. lapsed \in BOOLEAN /\ overtaken \in BOOLEAN
    BY Zenon DEF TypeOK
  <2>2. \A s : (overtaken \/ account # s) \in BOOLEAN
    OBVIOUS
  <2>3. QED
    BY <2>1, <2>2, ReadingMoves
<1>5. /\ restored' \in BOOLEAN /\ cut' \in BOOLEAN
      /\ said' \in {"nothing", "restored", "could not restore"}
      /\ tool' \in {"collect", "probe"}
      /\ snapshot' \in Schedules \cup {NoSchedule} /\ original' \in Schedules \cup {NoSchedule}
      /\ wanted' \in Schedules \cup {NoSchedule}
  BY ReadingMoves, Zenon DEF TypeOK
<1>6. /\ tries' \in 0 .. Retries - 1 /\ attempt' \in 0 .. Attempts - 1
      /\ round' \in 0 .. Rounds /\ runs' \in 0 .. Runs
  BY ReadingMoves, Numbers
<1>7. pc' \in Places /\ (pc' \notin {"restoring", "off"} => ~ restored')
  <2>1. pc \in Places /\ (pc \notin {"restoring", "off"} => ~ restored)
    BY Zenon DEF TypeOK
  <2>2. CASE pc' = pc
    BY <2>1, <2>2, ReadingMoves
  <2>3. CASE pc = "waiting" /\ pc' = "round"
    BY <2>1, <2>3, ReadingMoves DEF Places
  <2>4. QED
    BY <2>2, <2>3, ReadingMoves
<1>8. RunningType'
  BY ReadingMoves DEF RunningType, Requesting
<1>9. QED
  BY <1>1, <1>2, <1>3, <1>4, <1>5, <1>6, <1>7, <1>8 DEF TypeOK

LEMMA NextType == TypeOK /\ RunningType /\ [Next]_vars => TypeOK' /\ RunningType'
<1>1. TypeOK /\ RunningType /\ UNCHANGED vars => TypeOK' /\ RunningType'
  <2> SUFFICES ASSUME TypeOK, RunningType, UNCHANGED vars PROVE TypeOK' /\ RunningType'
    OBVIOUS
  <2>1. RunningType'
    BY DEF vars, locals, RunningType, Requesting
  <2>2. TypeOK'
    BY Zenon DEF vars, cloud, files, locals, ghosts, TypeOK
  <2>3. QED
    BY <2>1, <2>2
<1>2. QED
  BY <1>1, BeginType, AskingType, ReadingType DEF Next, Asking, Reading

LEMMA Types == Spec => [](TypeOK /\ RunningType)
<1>1. Init => RunningType
  BY DEF Init, RunningType, Requesting
<1>2. QED
  BY <1>1, InitTypeOK, NextType, PTL DEF Spec

(* Every variable keeps its type, however often the tool is started and    *)
(* whatever the cloud and the user do.                                     *)
THEOREM TypeCorrect == Spec => []TypeOK
BY Types, PTL

(* The snapshot of the user's schedule is only overwritten by another one  *)
(* after a run that was cut, could not restore, was overtaken by a late    *)
(* request, or was a probe.                                                *)
THEOREM SnapshotIsKept == Spec => FileKeepsTheSchedule
<1>1. Init => EndIsSaid
  BY DEF Init, EndIsSaid
<1>2. QED
  BY <1>1, Invariance, TypeCorrect, EndStep, LoseStep, PTL DEF Spec, FileKeepsTheSchedule

-----------------------------------------------------------------------------
(* Which programme a line shows                                            *)

(* Nothing has happened in this run that can shift a line.                 *)
Trusted == ~ lapsed /\ ~ overtaken /\ (previous = NoSchedule \/ RightSoFar)

(* The hub has fetched nothing but what is on the account, which is what   *)
(* the last line shows.                                                    *)
Still ==
  /\ \A i \in DOMAIN pipe : pipe[i] = account
  /\ previous # NoSchedule => account = previous

(* Behind a programme of the schedule being put there is no other.         *)
InOrder ==
  \A i \in DOMAIN pipe : pipe[i] = wanted =>
    account = wanted /\ \A j \in DOMAIN pipe : i < j => pipe[j] = wanted

(* The programmes on the wire are of the last round or of this one.        *)
OldOrNew ==
  previous # NoSchedule =>
    /\ account \in {previous, wanted}
    /\ \A i \in DOMAIN pipe : pipe[i] \in {previous, wanted}

LabelInv ==
  /\ pc \in {"putting", "waiting"} => wanted > 10 * runs
  /\ Trusted =>
       /\ pc = "round" => Still
       /\ pc = "putting" => InOrder /\ OldOrNew /\ (tries = 0 => Still)
       /\ pc = "waiting" => InOrder /\ OldOrNew /\ account = wanted

(* A step that records nothing in a run makes nothing more trusted.        *)
LEMMA StillTrusted ==
  ASSUME UNCHANGED <<samples, previous, runs>>, lapsed => lapsed', overtaken => overtaken',
         Trusted'
  PROVE  Trusted /\ ~ lapsed' /\ ~ overtaken'
BY Zenon DEF Trusted, RightSoFar

LEMMA LabelOfPut == ASSUME TypeOK, LabelInv, Put PROVE LabelInv'
<1>1. /\ pc = "round" /\ pc' = "putting" /\ wanted' = TestSchedule /\ tries' = 0
      /\ UNCHANGED <<account, pipe, samples, previous, runs>>
      /\ lapsed' = lapsed /\ overtaken' = overtaken
  BY DEF Put, Request, cloud, files, ghosts
<1>2. wanted' > 10 * runs'
  BY <1>1, TestScheduleType
<1>3. ASSUME Trusted' PROVE InOrder' /\ OldOrNew' /\ Still'
  <2>1. Trusted
    BY <1>1, <1>3, StillTrusted
  <2>2. Still
    BY <1>1, <2>1 DEF LabelInv
  <2>3. Still'
    BY <1>1, <2>2 DEF Still
  <2>4. InOrder'
    BY <1>1, <2>2 DEF Still, InOrder
  <2>5. OldOrNew'
    BY <1>1, <2>2 DEF Still, OldOrNew
  <2>6. QED
    BY <2>3, <2>4, <2>5
<1>4. QED
  BY <1>1, <1>2, <1>3 DEF LabelInv

LEMMA LabelOfRequest ==
  ASSUME TypeOK, LabelInv, Retry \/ PutSucceeds \/ PutFails
  PROVE  LabelInv'
<1>1. /\ UNCHANGED <<pipe, samples, previous, wanted, runs>>
      /\ overtaken' = overtaken /\ (lapsed => lapsed')
  <2>1. UNCHANGED <<pipe, samples, previous, wanted, runs>>
    BY DEF Retry, PutSucceeds, PutFails, files, locals, ghosts
  <2>2. overtaken' = overtaken
    BY Zenon DEF Retry, PutSucceeds, PutFails, ghosts
  <2>3. lapsed => lapsed'
    <3>1. CASE Retry \/ PutSucceeds
      BY <3>1, Zenon DEF Retry, PutSucceeds, ghosts
    <3>2. CASE PutFails
      BY <3>2, Zenon DEF PutFails
    <3>3. QED
      BY <3>1, <3>2
  <2>4. QED
    BY <2>1, <2>2, <2>3
<1>2. Requesting
  BY DEF Retry, PutSucceeds, PutFails, Requesting
<1>3. Trusted' => Trusted
  BY <1>1, StillTrusted
<1>4. ASSUME account' \in {account, wanted}, InOrder, OldOrNew
      PROVE  InOrder' /\ OldOrNew'
  BY <1>1, <1>4 DEF InOrder, OldOrNew
<1>5. CASE Retry
  <2>1. pc' = pc /\ account' \in {account, wanted} /\ tries' # 0
    <3>1. tries' = tries + 1
      BY <1>5 DEF Retry
    <3>2. tries' # 0
      BY <3>1, Numbers
    <3>3. QED
      BY <1>5, <3>2 DEF Retry, Unanswered
  <2>2. pc # "round" /\ pc # "waiting"
    BY <1>2 DEF Requesting
  <2>3. QED
    BY <1>1, <1>3, <1>4, <2>1, <2>2 DEF LabelInv
<1>6. CASE PutSucceeds
  <2>1. pc = "putting" /\ pc' = "waiting" /\ account' = wanted
    BY <1>6 DEF PutSucceeds, Succeeds
  <2>2. QED
    BY <1>1, <1>3, <1>4, <2>1 DEF LabelInv
<1>7. CASE PutFails
  <2>1. pc = "putting" /\ pc' = "round"
    BY <1>7 DEF PutFails
  <2>2. lapsed' \/ (account' = account /\ ~ (tries > 0))
    BY <1>7, Zenon DEF PutFails, Refused
  <2>3. ASSUME Trusted' PROVE Still'
    <3>1. account' = account /\ ~ (tries > 0)
      BY <2>2, <2>3 DEF Trusted
    <3>2. tries = 0
      BY <3>1, Numbers
    <3>3. Still
      BY <1>3, <2>1, <2>3, <3>2 DEF LabelInv
    <3>4. QED
      BY <1>1, <3>1, <3>3 DEF Still
  <2>4. QED
    BY <2>1, <2>3 DEF LabelInv
<1>8. QED
  BY <1>5, <1>6, <1>7

(* What remains of the wire when its first programme is read.              *)
LEMMA RestOfPipe ==
  ASSUME TypeOK, pipe # <<>>
  PROVE  /\ 1 \in DOMAIN pipe /\ Head(pipe) = pipe[1]
         /\ \A i \in DOMAIN Tail(pipe) :
              i \in Nat \ {0} /\ i + 1 \in DOMAIN pipe /\ Tail(pipe)[i] = pipe[i + 1]
<1>1. pipe \in Seq(Schedules)
  BY Sequences
<1>2. /\ Head(pipe) = pipe[1] /\ Len(pipe) \in Nat /\ Len(pipe) > 0
      /\ DOMAIN pipe = 1 .. Len(pipe) /\ DOMAIN Tail(pipe) = 1 .. Len(pipe) - 1
      /\ \A i \in 1 .. Len(pipe) - 1 : Tail(pipe)[i] = pipe[i + 1]
  BY <1>1
<1>3. QED
  BY <1>2

LEMMA LabelOfPass == ASSUME TypeOK, LabelInv, Pass PROVE LabelInv'
<1>1. /\ pc = "waiting" /\ pc' = "waiting" /\ pipe # <<>> /\ pipe' = Tail(pipe)
      /\ UNCHANGED <<account, samples, previous, wanted, runs>>
      /\ lapsed' = lapsed /\ overtaken' = overtaken
  BY DEF Pass, files, locals, ghosts
<1>2. Trusted' => Trusted
  BY <1>1, StillTrusted
<1>3. ASSUME InOrder PROVE InOrder'
  BY <1>1, <1>3, RestOfPipe DEF InOrder
<1>4. ASSUME OldOrNew PROVE OldOrNew'
  BY <1>1, <1>4, RestOfPipe DEF OldOrNew
<1>5. QED
  BY <1>1, <1>2, <1>3, <1>4 DEF LabelInv

(* The line that is recorded.                                              *)
LEMMA NewLine ==
  ASSUME TypeOK, RunningType, Record
  PROVE  /\ Len(samples') = Len(samples) + 1
         /\ samples'[Len(samples')] = [events |-> wanted, blob |-> Head(pipe)]
         /\ \A i \in DOMAIN samples : samples'[i] = samples[i]
         /\ DOMAIN samples' = DOMAIN samples \cup {Len(samples')}
<1>1. /\ wanted \in Schedules /\ Head(pipe) \in Schedules
      /\ samples' = Append(samples, [events |-> wanted, blob |-> Head(pipe)])
  <2>1. pipe \in Seq(Schedules) /\ pipe # <<>>
    BY Sequences DEF Record
  <2>2. Head(pipe) \in Schedules
    BY <2>1
  <2>3. QED
    BY <2>2 DEF Record, RunningType
<1>2. /\ [events |-> wanted, blob |-> Head(pipe)] \in [events : Schedules, blob : Schedules]
      /\ samples \in Seq([events : Schedules, blob : Schedules])
  BY <1>1, Sequences
<1>3. /\ Len(samples') = Len(samples) + 1 /\ Len(samples) \in Nat
      /\ \A i \in 1 .. Len(samples) : samples'[i] = samples[i]
      /\ samples'[Len(samples) + 1] = [events |-> wanted, blob |-> Head(pipe)]
      /\ DOMAIN samples = 1 .. Len(samples) /\ DOMAIN samples' = 1 .. Len(samples')
  BY <1>1, <1>2, AppendProperties, LenProperties
<1>4. QED
  BY <1>3

(* A line is right as long as the run is trusted and there is one before.  *)
LEMMA RecordIsRight ==
  ASSUME TypeOK, RunningType, LabelInv, Record, RightSoFar, previous # NoSchedule,
         ~ lapsed, ~ overtaken
  PROVE  RightSoFar'
<1>1. pc = "waiting" /\ pipe # <<>> /\ Head(pipe) # previous /\ runs' = runs
  BY DEF Record, New, ghosts
<1>2. Head(pipe) \in {previous, wanted}
  <2>1. OldOrNew
    BY <1>1 DEF LabelInv, Trusted
  <2>2. QED
    BY <1>1, <2>1, RestOfPipe DEF OldOrNew
<1>3. Head(pipe) = wanted
  BY <1>1, <1>2
<1>4. ASSUME NEW i \in DOMAIN samples', samples'[i].events > 10 * runs'
      PROVE  samples'[i].blob = samples'[i].events
  <2>1. CASE i \in DOMAIN samples
    <3>1. samples'[i] = samples[i]
      BY <2>1, NewLine
    <3>2. QED
      BY <1>1, <1>4, <2>1, <3>1 DEF RightSoFar
  <2>2. CASE i = Len(samples')
    <3>1. samples'[i] = [events |-> wanted, blob |-> Head(pipe)]
      BY <2>2, NewLine
    <3>2. QED
      BY <1>3, <3>1
  <2>3. QED
    BY <1>4, <2>1, <2>2, NewLine
<1>5. QED
  BY <1>4 DEF RightSoFar

LEMMA LabelOfRecord == ASSUME TypeOK, RunningType, LabelInv, Record PROVE LabelInv'
<1>1. /\ pc = "waiting" /\ pc' = "round" /\ pipe # <<>> /\ pipe' = Tail(pipe)
      /\ previous' = Head(pipe)
      /\ UNCHANGED <<account, wanted, runs>> /\ lapsed' = lapsed /\ overtaken' = overtaken
  BY DEF Record, ghosts
<1>2. ASSUME Trusted' PROVE Still'
  <2>1. previous' # NoSchedule
    <3>1. Head(pipe) \in Schedules
      BY <1>1, Sequences
    <3>2. QED
      BY <1>1, <3>1 DEF Schedules, NoSchedule
  <2>2. RightSoFar'
    BY <1>2, <2>1, Zenon DEF Trusted
  <2>3. RightSoFar
    BY <1>1, <2>2, NewLine DEF RightSoFar
  <2>4. Head(pipe) = wanted
    <3>1. wanted > 10 * runs
      BY <1>1 DEF LabelInv
    <3>2. QED
      BY <1>1, <2>2, <3>1, NewLine DEF RightSoFar
  <2>5. InOrder /\ account = wanted
    BY <1>1, <1>2, <2>3, Zenon DEF LabelInv, Trusted
  <2>6. \A i \in DOMAIN pipe : 1 < i => pipe[i] = wanted
    BY <1>1, <2>4, <2>5, RestOfPipe DEF InOrder
  <2>7. \A i \in DOMAIN pipe' : pipe'[i] = wanted
    BY <1>1, <2>6, RestOfPipe
  <2>8. QED
    BY <1>1, <2>4, <2>5, <2>7 DEF Still
<1>3. QED
  BY <1>1, <1>2 DEF LabelInv

LEMMA LabelOfWorld ==
  ASSUME TypeOK, LabelInv,
         WaitLapses \/ HubFetches \/ (\E s \in late : Land(s))
  PROVE  LabelInv'
<1>1. CASE WaitLapses
  BY <1>1 DEF WaitLapses, LabelInv, Trusted
<1>2. CASE HubFetches
  <2>1. /\ pipe' = Append(pipe, account)
        /\ UNCHANGED <<account, samples, pc, previous, wanted, tries, runs>>
        /\ lapsed' = lapsed /\ overtaken' = overtaken
    BY <1>2 DEF HubFetches, files, locals, ghosts
  <2>2. Trusted' => Trusted
    BY <2>1, StillTrusted
  <2>3. /\ DOMAIN pipe' = DOMAIN pipe \cup {Len(pipe')} /\ pipe'[Len(pipe')] = account
        /\ \A i \in DOMAIN pipe : pipe'[i] = pipe[i] /\ i < Len(pipe')
    <3>1. account \in Schedules /\ pipe \in Seq(Schedules)
      BY Sequences, Zenon DEF TypeOK
    <3>2. /\ Len(pipe') = Len(pipe) + 1 /\ Len(pipe) \in Nat
          /\ \A i \in 1 .. Len(pipe) : pipe'[i] = pipe[i]
          /\ pipe'[Len(pipe) + 1] = account
          /\ DOMAIN pipe = 1 .. Len(pipe) /\ DOMAIN pipe' = 1 .. Len(pipe')
      BY <2>1, <3>1, AppendProperties, LenProperties
    <3>3. QED
      BY <3>2
  <2>4. Still => Still'
    BY <2>1, <2>3 DEF Still
  <2>5. InOrder => InOrder'
    BY <2>1, <2>3 DEF InOrder
  <2>6. OldOrNew => OldOrNew'
    BY <2>1, <2>3 DEF OldOrNew
  <2>7. QED
    BY <2>1, <2>2, <2>4, <2>5, <2>6 DEF LabelInv
<1>3. ASSUME NEW s \in late, Land(s) PROVE LabelInv'
  <2>1. /\ UNCHANGED <<pipe, samples, pc, previous, wanted, tries, runs>>
        /\ lapsed' = lapsed /\ account' = s
    BY <1>3 DEF Land, files, locals
  <2>2. overtaken' = (overtaken \/ account # s)
    BY <1>3 DEF Land
  <2>3. ASSUME Trusted' PROVE Trusted /\ account' = account
    <3>1. ~ overtaken' /\ (overtaken => overtaken')
      BY <2>2, <2>3, Zenon DEF Trusted
    <3>2. account = s
      BY <2>2, <3>1
    <3>3. Trusted
      BY <2>1, <2>3, <3>1, StillTrusted
    <3>4. QED
      BY <2>1, <3>2, <3>3
  <2>4. QED
    BY <2>1, <2>3 DEF LabelInv, Still, InOrder, OldOrNew
<1>4. QED
  BY <1>1, <1>2, <1>3

LEMMA NextLabel == TypeOK /\ RunningType /\ LabelInv /\ [Next]_vars => LabelInv'
<1> SUFFICES ASSUME TypeOK, RunningType, LabelInv, [Next]_vars PROVE LabelInv'
  OBVIOUS
<1>1. CASE Collect
  <2>1. pc' = "round" /\ pipe' = <<>> /\ previous' = NoSchedule
    BY <1>1 DEF Collect, Begin
  <2>2. QED
    BY <2>1 DEF LabelInv, Still
<1>2. CASE \/ Leave \/ RestoreSucceeds \/ RestoreFails \/ Signal \/ Kill
           \/ Probe \/ PutShape \/ ShapeDone \/ PutBack \/ PutBackDone
  <2>1. pc' \notin {"round", "putting", "waiting"}
    BY <1>2 DEF Leave, Restore, RestoreSucceeds, RestoreFails, Signal, Kill, Probe, PutShape,
               ShapeDone, PutBack, PutBackDone, Request, Off
  <2>2. QED
    BY <2>1 DEF LabelInv
<1>3. CASE Reapply
  <2>1. pc' = "off"
    BY <1>3 DEF Reapply
  <2>2. QED
    BY <2>1 DEF LabelInv
<1>4. CASE UNCHANGED vars
  <2>1. /\ UNCHANGED <<account, pipe, samples, pc, previous, wanted, tries, runs>>
        /\ lapsed' = lapsed /\ overtaken' = overtaken
    BY <1>4 DEF vars, cloud, files, locals, ghosts
  <2>2. Trusted' => Trusted
    BY <2>1, StillTrusted
  <2>3. QED
    BY <2>1, <2>2 DEF LabelInv, Still, InOrder, OldOrNew
<1>5. QED
  BY <1>1, <1>2, <1>3, <1>4, LabelOfPut, LabelOfRequest, LabelOfPass, LabelOfRecord,
     LabelOfWorld DEF Next

(* Behind a right line of the same run there are only right ones, unless a *)
(* put went unanswered, a wait lapsed or a late request came in: for any   *)
(* number of rounds, and however long the wire is.                         *)
THEOREM LinesStayRight == Spec => LabelsAreRight
<1>1. Init => LabelInv
  BY DEF Init, LabelInv
<1>2. TypeOK /\ RunningType /\ LabelInv /\ [Next]_vars => [RecordsWhatWasPut]_vars
  <2> SUFFICES ASSUME TypeOK, RunningType, LabelInv, Next, samples' # samples,
                      previous # NoSchedule, RightSoFar, ~ lapsed, ~ overtaken
               PROVE  RightSoFar'
    BY DEF RecordsWhatWasPut
  <2>1. Record
    BY DEF Next, Collect, Begin, Put, Retry, PutSucceeds, PutFails, Pass, WaitLapses, Leave,
           RestoreSucceeds, RestoreFails, Signal, Kill, Probe, PutShape, ShapeDone, PutBack,
           PutBackDone, HubFetches, Land, Reapply, files
  <2>2. QED
    BY <2>1, RecordIsRight
<1>3. QED
  BY <1>1, <1>2, Types, NextLabel, PTL DEF Spec, LabelsAreRight

=============================================================================
