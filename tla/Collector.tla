------------------------------ MODULE Collector ------------------------------
(***************************************************************************)
(* Collecting samples of the checksum from the old cloud                   *)
(* (collect-checksums.py, hozelock-api.py).                                *)
(*                                                                         *)
(* Each round puts a test schedule in the place of the user's, waits for   *)
(* the programme the cloud makes of it, and records the two.  The user's   *)
(* own schedule is written to a file first and put back at the end.  A     *)
(* request can be refused, lost, carried out without an answer or with an  *)
(* error for one, or carried out after the tool has given it up; the tool  *)
(* can be interrupted or killed at any point.  A schedule is a number, and *)
(* so is its programme.                                                    *)
(***************************************************************************)
EXTENDS Integers, Sequences

CONSTANTS
  Rounds,      \* --rounds
  Retries,     \* of a call whose request fails
  Attempts,    \* of restore
  Runs,        \* bound: times the tool is started
  MaxFaults,   \* bound: failed requests, lapsed waits, signals and kills
  PipeLength   \* bound: programmes on the wire the tool has not read

UserSchedule == 0
NoSchedule == -1

ASSUME ParametersAssumption ==
  /\ Rounds \in Nat /\ Retries \in Nat \ {0} /\ Attempts \in Nat \ {0}
  /\ Runs \in Nat /\ MaxFaults \in Nat /\ PipeLength \in Nat

VARIABLES
  account,     \* cloud: the schedule on the user's account
  late,        \* schedules in requests the tool gave up and the cloud still has
  pipe,        \* programmes tcpdump has written and the Sniffer not read
  snapshot,    \* schedule-snapshot.json
  samples,     \* checksum-samples.jsonl: events and programme of each line
  pc,          \* what the tool is doing; "off" when it does not run
  original,    \* local of collect and probe_shapes
  restored,    \* local of collect: restore was called
  previous,    \* local of collect: the last programme recorded
  wanted,      \* the schedule being put
  tries,       \* requests made for it by call
  attempt,     \* of restore
  round,       \* rounds begun
  runs,        \* history: times started; also makes test schedules distinct
  tool,        \* history: what was started last, "collect" or "probe"
  said,        \* history: what the last run reported in the end
  cut,         \* history: the last run was killed, or its restore interrupted
  lapsed,      \* history: in this run a put failed that may have been carried
               \* out, or a wait
  overtaken,   \* history: a late request changed the account since the start
  faults       \* bound: faults so far

cloud == <<account, late, pipe>>
files == <<snapshot, samples>>
locals == <<original, restored, previous, wanted, tries, attempt, round>>
ghosts == <<runs, tool, said, cut, lapsed, overtaken>>
vars == <<cloud, files, pc, locals, ghosts, faults>>

Schedules == Nat

TestSchedule == 10 * runs + round + 1

Init ==
  /\ account = UserSchedule /\ late = {} /\ pipe = <<>>
  /\ snapshot = NoSchedule /\ samples = <<>>
  /\ pc = "off"
  /\ original = NoSchedule /\ restored = FALSE /\ previous = NoSchedule
  /\ wanted = NoSchedule /\ tries = 0 /\ attempt = 0 /\ round = 0
  /\ runs = 0 /\ tool = "collect" /\ said = "nothing" /\ cut = TRUE
  /\ lapsed = FALSE /\ overtaken = FALSE
  /\ faults = 0

Fault == faults < MaxFaults /\ faults' = faults + 1

-----------------------------------------------------------------------------
(* One request of call, and what is left of it when it is interrupted      *)

(* What a request that is not answered can do to the account, or one that  *)
(* is answered by a gateway or a server that failed.                       *)
Unanswered ==
  \/ UNCHANGED <<account, late>>                            \* lost
  \/ account' = wanted /\ UNCHANGED late                    \* carried out
  \/ late' = late \cup {wanted} /\ UNCHANGED account        \* not yet

Requesting == pc \in {"putting", "restoring", "shape", "unshape"}

(* A call is repeated by itself when no answer comes, not when it is refused. *)
Retry ==
  /\ Requesting /\ tries + 1 < Retries
  /\ Fault /\ Unanswered
  /\ tries' = tries + 1
  /\ UNCHANGED <<pipe, files, pc, original, restored, previous, wanted, attempt,
                 round, ghosts>>

(* The results of a call: done, refused, or failed, by the status of an    *)
(* error on the way, at any try, or by the last network error.             *)
Succeeds == account' = wanted /\ UNCHANGED <<late, faults>>
Refused == Fault /\ UNCHANGED <<account, late>>
Fails == Fault /\ Unanswered
NetworkError == tries + 1 = Retries /\ Fails

-----------------------------------------------------------------------------
(* collect                                                                 *)

Begin(name) ==
  /\ pc = "off" /\ runs < Runs
  /\ runs' = runs + 1 /\ tool' = name
  /\ original' = account
  /\ restored' = FALSE /\ previous' = NoSchedule
  /\ wanted' = NoSchedule /\ tries' = 0 /\ attempt' = 0 /\ round' = 0
  /\ pipe' = <<>>
  /\ said' = "nothing" /\ cut' = FALSE /\ lapsed' = FALSE /\ overtaken' = FALSE
  /\ UNCHANGED <<account, late, samples, faults>>

(* Mutant: the user's schedule is only kept in memory.                     *)
CollectUnsaved == Begin("collect") /\ pc' = "round" /\ UNCHANGED snapshot

Collect == Begin("collect") /\ pc' = "round" /\ snapshot' = account

Request(place, schedule) ==
  /\ pc' = place /\ wanted' = schedule /\ tries' = 0

Put ==
  /\ pc = "round" /\ round < Rounds
  /\ Request("putting", TestSchedule)
  /\ round' = round + 1
  /\ UNCHANGED <<cloud, files, original, restored, previous, attempt, ghosts, faults>>

PutSucceeds ==
  /\ pc = "putting"
  /\ Succeeds
  /\ pc' = "waiting"
  /\ UNCHANGED <<pipe, files, locals, ghosts>>

PutFails ==
  /\ pc = "putting"
  /\ \/ Refused /\ lapsed' = (lapsed \/ tries > 0)
     \/ Fails /\ lapsed' = TRUE
  /\ pc' = "round"
  /\ UNCHANGED <<pipe, files, locals, runs, tool, said, cut, overtaken>>

(* Mutant: the first programme that comes is taken for the new one.        *)
AnyProgramme(blob) == TRUE

(* wait_for_new: programmes like the last one recorded are passed over.    *)
New(blob) == blob # previous

Pass ==
  /\ pc = "waiting" /\ pipe # <<>> /\ ~ New(Head(pipe))
  /\ pipe' = Tail(pipe)
  /\ UNCHANGED <<account, late, files, pc, locals, ghosts, faults>>

Record ==
  /\ pc = "waiting" /\ pipe # <<>> /\ New(Head(pipe))
  /\ pipe' = Tail(pipe)
  /\ previous' = Head(pipe)
  /\ samples' = Append(samples, [events |-> wanted, blob |-> Head(pipe)])
  /\ pc' = "round"
  /\ UNCHANGED <<account, late, snapshot, original, restored, wanted, tries, attempt,
                 round, ghosts, faults>>

WaitLapses ==
  /\ pc = "waiting" /\ Fault
  /\ pc' = "round"
  /\ lapsed' = TRUE
  /\ UNCHANGED <<cloud, files, locals, runs, tool, said, cut, overtaken>>

-----------------------------------------------------------------------------
(* restore                                                                 *)

(* Called by finally or atexit; it marks itself done before it begins.     *)
Restore ==
  /\ ~ restored
  /\ restored' = TRUE
  /\ attempt' = 0
  /\ Request("restoring", original)
  /\ UNCHANGED <<original, previous, round>>

(* The rounds are over, or no needed bit is missing any more.              *)
Leave ==
  /\ pc = "round"
  /\ round = Rounds \/ samples # <<>>
  /\ Restore
  /\ UNCHANGED <<cloud, files, ghosts, faults>>

Off(report) == pc' = "off" /\ said' = report

(* Mutant: a network error, code 0, counts as success.                     *)
TrustAnyCode ==
  /\ pc = "restoring"
  /\ Succeeds \/ NetworkError
  /\ Off("restored")
  /\ UNCHANGED <<pipe, files, locals, runs, tool, cut, lapsed, overtaken>>

RestoreSucceeds ==
  /\ pc = "restoring"
  /\ Succeeds
  /\ Off("restored")
  /\ UNCHANGED <<pipe, files, locals, runs, tool, cut, lapsed, overtaken>>

RestoreFails ==
  /\ pc = "restoring"
  /\ Fails
  /\ IF attempt + 1 < Attempts
       THEN /\ attempt' = attempt + 1 /\ Request("restoring", original)
            /\ UNCHANGED said
       ELSE Off("could not restore") /\ UNCHANGED <<attempt, wanted, tries>>
  /\ UNCHANGED <<pipe, files, original, restored, previous, round, runs, tool, cut,
                 lapsed, overtaken>>

(* What becomes of a request that is interrupted.                          *)
Abandon == IF Requesting THEN Unanswered ELSE UNCHANGED <<account, late>>

(* SIGINT or SIGTERM: sys.exit, so that finally restores.  In restore it   *)
(* ends the attempt, and atexit finds restore marked as done.              *)
Signal ==
  /\ pc \in {"round", "putting", "waiting", "restoring"}
  /\ Fault /\ Abandon
  /\ \/ Restore /\ UNCHANGED <<said, cut>>
     \/ restored /\ Off("nothing") /\ cut' = TRUE /\ UNCHANGED locals
  /\ UNCHANGED <<pipe, files, runs, tool, lapsed, overtaken>>

Kill ==
  /\ pc # "off"
  /\ Fault /\ Abandon
  /\ Off("nothing") /\ cut' = TRUE
  /\ UNCHANGED <<pipe, files, locals, runs, tool, lapsed, overtaken>>

-----------------------------------------------------------------------------
(* probe_shapes: no snapshot, and no attempt after the first               *)

Probe == Begin("probe") /\ pc' = "probing" /\ UNCHANGED snapshot

PutShape ==
  /\ pc = "probing" /\ round < Rounds
  /\ Request("shape", TestSchedule)
  /\ round' = round + 1
  /\ UNCHANGED <<cloud, files, original, restored, previous, attempt, ghosts, faults>>

ShapeDone ==
  /\ pc = "shape"
  /\ Succeeds \/ Fails
  /\ pc' = "probing"
  /\ UNCHANGED <<pipe, files, locals, ghosts>>

(* finally, at the end or for KeyboardInterrupt.                           *)
PutBack ==
  /\ \/ pc = "probing" /\ round = Rounds /\ UNCHANGED <<account, late, faults>>
     \/ pc \in {"probing", "shape"} /\ Fault /\ Abandon
  /\ Request("unshape", original)
  /\ UNCHANGED <<pipe, files, original, restored, previous, attempt, round, ghosts>>

(* "original schedule restored", whatever became of it.                    *)
PutBackDone ==
  /\ pc = "unshape"
  /\ Succeeds \/ Fails
  /\ Off("restored")
  /\ UNCHANGED <<pipe, files, locals, runs, tool, cut, lapsed, overtaken>>

-----------------------------------------------------------------------------
(* The cloud, the hub and the user                                         *)

(* The hub fetches what the cloud makes of the schedule, time and again.   *)
HubFetches ==
  /\ pc \in {"round", "putting", "waiting"}
  /\ Len(pipe) < PipeLength
  /\ pipe' = Append(pipe, account)
  /\ UNCHANGED <<account, late, files, pc, locals, ghosts, faults>>

Land(schedule) ==
  /\ late' = late \ {schedule}
  /\ account' = schedule
  /\ overtaken' = (overtaken \/ account # schedule)
  /\ UNCHANGED <<pipe, files, pc, locals, runs, tool, said, cut, lapsed, faults>>

(* "re-apply it when the API is reachable"                                 *)
Reapply ==
  /\ pc = "off" /\ snapshot # NoSchedule
  /\ account' = snapshot
  /\ UNCHANGED <<late, pipe, files, pc, locals, ghosts, faults>>

-----------------------------------------------------------------------------
Next ==
  \/ Collect \/ Put \/ Retry \/ PutSucceeds \/ PutFails
  \/ Pass \/ Record \/ WaitLapses
  \/ Leave \/ RestoreSucceeds \/ RestoreFails
  \/ Signal \/ Kill
  \/ Probe \/ PutShape \/ ShapeDone \/ PutBack \/ PutBackDone
  \/ HubFetches \/ (\E s \in late : Land(s)) \/ Reapply

Spec == Init /\ [][Next]_vars

-----------------------------------------------------------------------------
(* Properties                                                              *)

Places ==
  {"off", "round", "putting", "waiting", "restoring", "probing", "shape", "unshape"}

(* Every variable keeps its type; only restoring runs have called restore. *)
TypeOK ==
  /\ account \in Schedules /\ late \subseteq Schedules /\ pipe \in Seq(Schedules)
  /\ snapshot \in Schedules \cup {NoSchedule}
  /\ samples \in Seq([events : Schedules, blob : Schedules])
  /\ pc \in Places
  /\ original \in Schedules \cup {NoSchedule} /\ previous \in Schedules \cup {NoSchedule}
  /\ wanted \in Schedules \cup {NoSchedule}
  /\ restored \in BOOLEAN /\ (pc \notin {"restoring", "off"} => ~ restored)
  /\ tries \in 0 .. Retries - 1 /\ attempt \in 0 .. Attempts - 1
  /\ round \in 0 .. Rounds /\ runs \in 0 .. Runs
  /\ tool \in {"collect", "probe"}
  /\ said \in {"nothing", "restored", "could not restore"}
  /\ cut \in BOOLEAN /\ lapsed \in BOOLEAN /\ overtaken \in BOOLEAN
  /\ faults \in 0 .. MaxFaults

(* A run of collect, however it ends, puts back what it found if it says   *)
(* so, and has it in the file if it does not: if it could not restore, was *)
(* killed, or was interrupted a second time.  A request that was given up  *)
(* but reaches the cloud later can undo what was put back.  A probe keeps  *)
(* nothing of this: it reports the schedule restored without looking.      *)
PutsBackOrKeeps ==
  pc = "off" /\ tool = "collect" =>
    \/ said = "restored" /\ (overtaken \/ account = original)
    \/ said # "restored" /\ snapshot = original

(* Once the user's schedule is in the file, a later run puts another in    *)
(* its place only if the run before was killed, interrupted in its restore, *)
(* unable to restore, overtaken by a late request, or a probe, which keeps *)
(* no file: the run then takes a test schedule for the user's.             *)
LosesTheSchedule ==
  snapshot = UserSchedule /\ snapshot' # UserSchedule =>
    cut \/ overtaken \/ said = "could not restore" \/ tool = "probe"

FileKeepsTheSchedule == [][LosesTheSchedule]_vars

(* A sample behind a right one of the same run is right as well: its       *)
(* programme was made from the events it is recorded with, as long as      *)
(* every put was answered and every wait was met.  The first sample may    *)
(* show the schedule that was found, and a lapse leaves a programme behind *)
(* for the next round: one wrong line shifts the lines behind it.          *)
RightSoFar ==
  \A i \in DOMAIN samples :
    samples[i].events > 10 * runs => samples[i].blob = samples[i].events

RecordsWhatWasPut ==
  samples' # samples /\ previous # NoSchedule /\ RightSoFar
  /\ ~ lapsed /\ ~ overtaken =>
    RightSoFar'

LabelsAreRight == [][RecordsWhatWasPut]_vars

=============================================================================
