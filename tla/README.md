# Verification of the Hozelock local server

The program under `src/server` replaces the vanished Hozelock cloud for one
"Cloud Controller" watering hub.  The hub calls; the server can only answer.
A number in the answer to a heartbeat, the *generation*, tells the hub whether
to fetch its programme again, and everything a user wants to happen in the
garden travels in that programme.  This directory models that exchange, the
threads behind it, the editing and saving of schedules, the bridge to Home
Assistant, the computation of a programme from a schedule, and the tool that
collected what the server knows from the old cloud; it checks the models with
TLC and proves the central claims with TLAPS.

## The system

| Component | Source | State | Operations | Modelled in |
|---|---|---|---|---|
| Hub state | `hozelock/state.py` | schedules, active schedule, overlays, `schedule_enabled`, `pending` command, `generation`, what the last request said | `bump`, `set_schedule`, `set_event`, `select_schedule`, `pause`, `adjust`, `expire_overlays`, `set_enabled`, `water_now`, `stop_watering`, `observe`, `heartbeat_response`, `schedule_blob`, `next_watering` | `Generation`, `Programme`, `HubServer`, `HubThreads`, `Editing` |
| Requests | `hozelock/server.py` | none of its own; one thread per request | `do_GET` for `/notify/<hub>/` (heartbeat) and `/notify/<hub>/tap/0/` (fetch) | `HubServer`, `HubThreads` |
| Refresher and start-up | `hozelock/__main__.py` | `last`, the next watering last seen; the end it sleeps for | `refresher` loop, `load`, `schedules_from_config`, `main` | `Refresher`, `Bridge`, `StateFile`, `HubServer` |
| Persistence | `hozelock/persist.py` | `state.json` and its temporary file | `snapshot`, `parse`, `load`, `save` | `StateFile`, `Editing` |
| Schedule engine | `hozelock/schedule.py` | none | `resolve`, `Overlays.apply`, `scale_duration`, `clamp_gaps`, `build`, `from_cloud_schedules`, `to_config` | `Schedule`, `GapChain`, `CloudImport` |
| Codec | `hozelock/codec.py` | none | programme and heartbeat encoding and decoding, base64, HTML frame | `Codec` (programmes) |
| MQTT bridge | `hozelock/mqtt_bridge.py` | the connection; what the broker keeps | `_on_connect`, `_on_message`, `publish_state`, `start`, `stop`, the will | `Bridge` |
| Checksums | `hozelock/*checksum*.py` | none | bit-linear maps | `Basis` (their form) |
| Checksum solver | `src/capture/collect-checksums.py` | `checksum-samples.jsonl` | `load_samples`, `build_basis`, `checksum_with`, `missing_bits`, `needed_missing`, `solve` | `Basis` |
| Collecting | `collect-checksums.py`, `hozelock-api.py` | the account, the samples, `schedule-snapshot.json` | `collect`, `wait_for_new`, `restore`, `probe_shapes`, `call` | `Collector` |
| Other capture tools | `src/capture` | files | replay and analysis of recorded traffic | not modelled |
| Hub, tap controller, broker, Home Assistant, old cloud | not in the repository | generation held and confirmed, programme; retained topics; account | heartbeat, fetch, radio poll; publish, subscribe | external parts of `HubServer`, `Bridge`, `Collector` |

How they interact.  One `HubState` object is shared by the MQTT network
thread, the refresher thread and one thread per HTTP request.  Only `bump`
takes a lock.  Every change writes its attribute first, then bumps, then saves
`state.json`, then calls the listeners, of which the bridge is one: it
publishes on the thread of whoever made the change.  The hub sends a heartbeat
every few minutes; each request carries the generation the controller has
confirmed, so a request is also an acknowledgement (`observe`).  When the
answer's generation differs from the one it holds, the hub fetches; the
programme itself carries no number, and is filed under the one the heartbeat
told.  The controller collects the programme by radio minutes later and acts
on the command flag in it.  The collecting tool is a program of its own, which
put test schedules in the place of the user's and recorded what the old cloud
made of them.

What is hard here:

* nothing is pushed, so a change that misses its bump is never noticed;
* generations cycle, restart from the beginning with the process, and are
  compared only for equality;
* answers are lost, and requests the hub gave up are still served later;
* overlays lapse and solar times move while nobody edits anything, and while
  the thread that should notice is asleep;
* threads read several attributes one after the other while others write them,
  and publish what they read in no order;
* an edit is tried under the overlays of the moment, and one of them makes the
  candidate active before it is tried;
* saves take no lock: they fail, race, or are cut; files are damaged or written by hand;
* gaps are rounded and clamped one by one but must total exactly one week, and
  the last one takes all that the others have lost;
* the gap encoding reuses byte values that durations also have;
* the collecting tool changes something that is not its own, and must put it
  back over a network that loses and delays requests.

What makes each part correct:

* exchange: a hub that holds the server's number holds the server's programme;
  a command is kept until executed; both happen in the end;
* editing: a refused edit leaves no trace, a message changes its slot only, and
  what is in force can be served;
* persistence: what is in force is on disk, a crash costs only what has not been
  saved and gives back one moment between two edits, never a mix, and any file starts a server whose settings a restart keeps;
* refresher: overlays lapse in time; solar times in use are at most a week old;
* bridge: Home Assistant shows the truth once things are quiet, and shows a
  server that is gone as unavailable;
* schedule: every event waters on each of its days, in order, near its time,
  and the last gap makes the chain one week long without being negative; an import loses no watering;
* codec: a programme reads back as the chain it was made of;
* solver: what it predicts is the checksum the service would have computed,
  it predicts whatever the samples determine, and it asks for samples as long
  as that is not enough;
* collecting: the user's schedule is put back or kept, and a sample is recorded
  with the events it was made of.

## The modules

| Module | Models | Notes |
|---|---|---|
| `Generation` | `bump`, `generations_for`, the initial number | both the free-running cycle and the captured table |
| `Programme` | what a programme contains, expiry of overlays, `next_watering`, trial builds | time counted in slots; extended by `HubServer` |
| `HubServer` | server, hub and controller, one step per operation | extends `Generation`, `Programme` |
| `Delivery` | the promise: an up-to-date hub has the right programme, a command is kept until done | abstract |
| `HubDelivers` | `HubServer` under its refinement mapping to `Delivery` | `D == INSTANCE Delivery WITH ...` |
| `HubThreads` | the same server one statement at a time | extends `Generation` |
| `CloudImport` | `from_cloud_schedules`, `to_config`, `schedules_from_config` | functions on lists |
| `StateFile` | `snapshot`, `parse`, `load`, the repairs of `HubState.__init__` | extends `CloudImport` |
| `Editing` | `set_event`, `set_schedule`, `select_schedule`, `pause`, `adjust`, trials, `save` on three threads, crashes, damaged files | extends `StateFile` |
| `Refresher` | the overlays' ends, the plan, sleep and turn of the refresher, with a clock | extended by `Bridge` |
| `Bridge` | three publishing threads, the client's callbacks, broker, Home Assistant, the process | extends `Refresher`, `Generation` |
| `GapChain` | `clamp_gaps` and the loop of `build`, one turn a step | in ticks (seconds) and units |
| `Schedule` | `resolve`, overlays, `scale_duration` | extends `GapChain`; the start of its input |
| `Codec` | `encode_schedule`, the loop of `decode_schedule` | byte by byte |
| `Basis` | reading samples, `build_basis`, `checksum_with`, `needed_missing`; the closed form of the checksum | one line of the file or one turn of a loop a step |
| `Collector` | `collect`, `restore`, `probe_shapes`, requests to the cloud, signals and kills | one step a request, programme or signal |
| `MCHubServer`, `MCHubThreads`, `MCEditing`, `MCBridge`, `MCSchedule`, `MCCodec`, `MCBasis` | instances for TLC | `Collector` has constants a configuration can give directly |
| `*_proofs` | theorems about `HubServer`, `HubThreads`, `Editing`, `Schedule`, `Codec`, `Basis`, `Collector`, `Bridge` and what they extend | those of `Programme` and `HubDelivers` are in `HubServer_proofs`, of `Generation` in `HubThreads_proofs`, of `CloudImport` and `StateFile` in `Editing_proofs`, of `GapChain` in `Schedule_proofs` |

Definitions headed `Mutant:` are not part of a model.  Each is a definition of
the model with a plausible mistake in it, and for each property there is one
that TLC finds to break it.

### HubServer

`settings` is what `persist.snapshot` saves; `saved` is `state.json`.
`SetEnabled`, `SetSchedule`, `SelectSchedule`, `Pause`, `Adjust` are the
methods of the same names up to and including `_commit` (bump, save); `Queue`
is `_queue`, which bumps and does not save.  `set_event` is `SetSchedule` with
another list; which list, says `Editing`.  `Refresh` is one turn of the refresher's loop.  `HandleHeartbeat`
and `HandleTap` are `do_GET`: `observe` first, then the answer, which reaches
the hub only if it still waits for that thread (`asked`); `HandleTapFails` is
`schedule_blob` raising.  `conn` holds requests accepted and not yet served, so
a request the hub has given up can be served at any later time.  `Restart`
keeps `saved` only.

Time is counted in watering opportunities: `SlotsPerWeek` of them make a clock
week, an event list is a set of slots, and each watering in a programme
remembers for which week it was computed, which stands for the solar times of
that week's dates.  Durations appear as "adjusted or not".  `encode_schedule`
refuses a programme that is too long, a number of waterings (`Capacity`), and
one whose last gap rounding has made negative: `Overrun` are the sets of times,
week by week, that this happens to.  `GapChain` says when it does.  The hub and controller are external:
their actions (`SendHeartbeat`, `SendFetch`, `LearnGeneration`, `Install`,
`GiveUp`, `HubReboot`, `ControllerPoll`) are what `docs/protocol.md` and the
captured traffic say of them.

`issue`, `runs`, `starts`, `bumped_at` and `reused` are history variables, and `events`
counts edits, commands and faults up to `MaxEvents`.  `reused` becomes true
when a bump or a restart gives out a number still in use elsewhere.  With the
code's 8191 numbers a wrap cannot do that in practice; a restart does it
easily, and the run `restart` shows what follows.

### Delivery

What a user may expect, without a number or a message in it: the hub is
`synced` or not, what it has is `current` or not, and the `order` given is
waiting, done or none.  The only step that makes the hub synced (`Sync`) leaves
it current, and `order` goes from waiting to none by `Obey` and `Acknowledge`,
or by `Forget`, which is a start of the server and counted in `starts`; every
other step leaves `starts` alone, and only `Order` counts up `given`, so a step
that drops a waiting command is neither.  `HubDelivers` maps `synced` to "holds
the server's generation", `current` to "holds the programme the server would
hand out now", `order` to the pending command and whether the controller ran
it, `given` to the commands issued and `starts` to the server's own count.  The
promise ends when a number was reused (`trusted`).

### HubThreads

One step reads or writes one attribute.  `pc` is the next statement of each
thread; the labels of `bump` come in two forms, one returning to `_queue` or
the refresher, one (`..._commit`) going on to save.  Only the operations that
another thread really calls are here: `set_enabled`, `water_now` and
`stop_watering` come from MQTT, expiry and refresh from the refresher,
`observe`, `heartbeat_response` and `schedule_blob` from requests.  The other
edits are methods of `HubState` that nothing in the repository calls from a
second thread yet.  An overlay is one Boolean, the switch is another: two
attributes are enough to see a torn read.  `reused` is history: a bump came
round to a number the hub held or was fetching, as in `HubServer`.

### CloudImport, StateFile and Editing

`FromCloud`, `ToConfig` and `SchedulesFromConfig` are the three functions a
schedule goes through from the old cloud's JSON to the server.  A start time is
milliseconds or a negative sentinel, rounded as Python rounds.  A watering of
the cloud is known by its place, day and number (`Entries`); waterings of one
time and duration are a group, which becomes the event of its first one
(`Firsts`), and `Ranked` sorts the events as the export does.  An absent field
of a file is an empty set, so that `Parse` can say what its default is.
`Constructed` is the part of `HubState.__init__` that gives every server a
schedule and a defined active one.

An active schedule whose name is empty counts as none there, also when a
schedule has that name (`Constructed`, `Named`).

In `Editing`, `settings` is the `HubState`, `file` is `state.json`.  `SetEvent`,
`SetSchedule`, `Pause` and `Adjust` try and commit in one step, for their thread
holds what they try in locals; `BeginSelect` and `AcceptSelect` or `RefuseSelect`
are two steps, since `select_schedule` puts its candidate in place first.
`SetEnabled` (MQTT) and `Expire` (refresher) commit on threads of their own
whenever they like, since nothing makes one commit wait for another: a thread
that has committed is `unsaved`, takes its snapshot of all that is in force then
(`Save`), and has it in its own temporary file (`temp`) until `Rename` or
`SaveFails`.  So several edits can be unsaved at a time, snapshots can be renamed
in either order, and one can hold the candidate of a trial.  Only a thread itself
is in order, and `load` saves a seed before the others are started (`Idle`).
`Crash` may come anywhere; `Tamper` is a person with an editor, while the server
is down.  The other edits are put on one thread, that of the user interface the
comments speak of.

Settings and file have all of `snapshot`'s fields: overlays with the
adjustment, offsets of events, the switch.  Overlays begin and end with a week,
so a pause hides all of a programme or none.  `Fits` is what `encode_schedule`
accepts: at most `Capacity` waterings, of at most 255 minutes unless an
adjustment cuts them, and no list that is in `Overrun` in this week.  Where the
last gap is negative for a list of clock times it is so every week; for a list
with solar slots it depends on the week (`OverrunAssumption`).  The generation
is left out here: every commit bumps it, which is `HubServer`'s subject.

`recent`, `taken`, `caught`, `untried` and `tampered` are history.  `recent` are
the settings after each edit that was not refused, from the newest that a crash
cannot cost to those in force; `taken` says which of them a thread's snapshot
shows, `caught` whose snapshots hold a trial's candidate, and `untried` are the
active lists that no trial has seen whole, because overlays hid something of
them, another thread saved them during a trial, a file brought them, or a start
fell back on them.

### Refresher and Bridge

The refresher reads the clock, plans its sleep to the next end of an overlay
(`PlanSleep`), sleeps (`WakeUp`) and takes its turn.  A tick is the least sleep;
`lag` counts the ticks between a wake-up and the next plan.  In `Bridge` it is
one of three threads that publish: `Notify` starts `publish_state` on a thread,
`ReadNext`, `Read` and `Publish` are its reads and messages, one by one.
`Connect`, `GoOnline`, `Subscribe` are `_on_connect`, `OnMessage` is
`_on_message`, both on the client's network thread, which runs one callback at a
time.  The broker keeps `available` and publishes the will when it misses the
client; the topics of the state are not kept.  `Stop` and `Disconnect` are
`stop`, `Kill` and `Start` the process dying and coming back with what
`state.json` has: the overlays and the switch, not the rest.

`clean` says that the last publication began alone and nothing has changed or
been lost since, `crossed` that the last "online" was sent behind the "offline"
of `stop`; both are history.  `apart` is chosen once: it lets the clock run with
neither hub nor broker there, which is what the times of overlays need, and
otherwise starts it `Company` ticks before its end.

### GapChain and Schedule

`Schedule.Firings` computes the waterings of a week (`resolve`, the filter of
`build`, `Overlays.apply`); the filters come before the sorting here, since
leaving waterings out keeps the order of the others.  `GapChain` starts from
such a list and does the two loops.  The Python works in local datetimes, the
model in ticks from the start of the clock week, Saturday 22:55; a tick is a
second in the runs, any fraction of a minute in the proofs.  Clock times are
whole minutes and solar ones are not, so a watering can be half a unit from one.
`ToUnits` rounds as Python's `round`: of two units as near, to the even one
(`Tied`).  A pulled gap that is tied may thereby round to 200 units after all.
`Sun` is a table, since computing sunrise is a library's work.

An event is `Steady` if its offset leaves it in its day of the clock week and the
sun does not carry it over the start of the week between the first evening and
the last; an event that crosses waters twice in one week, or not on one of its
days, which is what a rolling week must do.  `EveryDayIsServed` is about the
chain the hub gets, not about the list asked for: where no watering had to be
pulled (`CloseTogether`) each steady event is found in it once for each of its
days, at the time asked for up to rounding and with its minutes.  Where waterings
are pulled the code does not keep that: see Findings.

### Codec

`GapBytes` is the loop of `encode_gap` and `Written` the one of
`encode_schedule`, both as recursive functions; `Continue`, `EndGap` and
`Finish` are the branches of one turn of `decode_schedule`.  Padding, flags and
checksum lie behind the terminator and are never read (`PaddingIsNotRead`).

Three forms have two readings (`AmbiguousAt`).  A gap that ends in `0xc9 0x00`
runs on, and so does a gap of 0 behind a duration of 201 or 255: the decoder is
then off by a byte.  A gap that ends in 0 before a duration of 204 reads as the
terminator.  Being off by a byte does not show as long as only waterings of no
minutes with no gap follow, and at the end of the chain only in the first form:
`OnlyZerosFollow` says which programmes read back all the same.

### Basis

The server's checksum was found by recording what the old service computed.
`build_basis` reduces the recorded programmes to a basis of differences, each
with the change of the checksum it makes, and `checksum_with` predicts from it.
A word is the set of its positions that hold 1, exclusive or is symmetric
difference, and `bit_length() - 1` is the greatest element.  `ck` is the
service's checksum; all that is known of it is that it is affine over GF(2),
which is the assumption the tool rests on (`ChecksumsAssumption`), and which
the closed form in `schedule_checksum.py` satisfies (`ClosedFormIsAffine`).
`Padding` stands for the bytes behind `PAYLOAD_END`, by which `load_samples`
tells a longer payload.  `file` and `k` are the sample file and the line being
read; `Cancel` is a turn of either while loop, `Extend` and `Spanned` are the
two ways out of the one in `build_basis`, `Predict` and `OutsideTheSpan` those
of the one in `checksum_with`.  `Solved` is `solve` finding two samples and no
inconsistency; its held-out test is `checksum_with` on a smaller file, which is
another initial state.  `Unreachable` are the bits the server never sets;
`collect` may end when `NeededMissing` is empty.

### Collector

A schedule is a number, 0 the user's, and its programme is the same number.
`wanted` and `tries` are the request `call` is making: it is repeated when no
answer comes and not when it is refused, and one that is not answered was lost,
carried out, or waits in `late` to be carried out at any later time.  An HTTP
error ends the call at once, but only one by which the cloud itself refuses
(`Refused`) leaves the account alone for certain: an error of a gateway or a
failing server says as little as no answer (`Fails`).  The hub
fetches the account's programme whenever it likes (`HubFetches`), and the
sniffer's queue `pipe` holds what the tool has not read.  `Collect` to
`WaitLapses` are `collect`, `Restore` to `RestoreFails` its `restore`, which
`Signal` enters from `finally` and leaves for good when it comes again; `Probe`
to `PutBackDone` are `probe_shapes`, which keeps no file.  `Reapply` is the user
doing what the tool's last message asks.  `tool` is history: which of the two was
started last.  That the tool leaves before its rounds
are over depends on the bits its samples span, so it may, once it has a sample.

## The runs

| Run | Instance | Shows |
|---|---|---|
| `exchange` | two schedules, two request threads, edits, commands, restarts, failing saves, hub reboots; captured generations 2, 3, 5, 7, 8 from 7, two events | `HubIsCurrent`, `ClearedOnlyAfterActing`, and that every step is one of `Delivery` (`Delivers`) |
| `overlays` | three weeks of two slots, pauses and adjustments of one and two slots; room for one watering, and one set of times that rounding is too much for; generations from 98 of 99 | the inductive invariant of the exchange, `SavedSettingsInForce`, `AtMostAWeekBehind` |
| `live` | fair specification, two events, hub reboots | `CommandIsCleared`, `HubCatchesUp`, `NoLateRepetition` |
| `threads` | fair specification, statement by statement: one change, an expiry, a refresh and a loss, from generation 98 of 99 | `NoTornProgramme`, `FileIsTheTruth`, `HubSettles`: also that the lock is always released |
| `chain` | thirteen schedules under five overlays, to the second, one of them crossing the start of the week, real constants (300 s, 2016, 199) | `PulledInOrder`, `InnerGapsAreShort`, `LastGapIsTheRest`, `RoundingIsBounded`, `EveryDayIsServed`, `AdjustedTheRightWay` |
| `bytes` | chains of up to two waterings with gaps and durations around 0, 200, 201, 204, 255, 400, 455, 655, and of up to four that end in nothing but zeros | `MisreadExactlyIfAmbiguous` |
| `solve` | three payload bits of which the server never sets one, one bit of padding, two check bits; six checksums; all files of three samples of which the second may be too long, and all of four short ones that begin with an empty payload | the inductive invariant, `PredictionsAreRight`, `RankIsDimension`, `AnsweredInTheSpan`, `NothingMissingIsEnough`, `LoopsEnd` |
| `edits` | two imported schedules, one too long to be served; eight messages, five lists, of which two overrun the week, pauses and an adjustment of a week, two files written by hand; room for 13 waterings; three edits, failed saves or changed files, two weeks | what a trial, a refusal, a save, a restart and an import leave |
| `bridge` | fair specification, three threads, one press or overlay, one fault, interval 2, lag 1, seven ticks | `ShowsTheTruth`, `OverlaysLapseInTime`, `OfflineWhenGone`, `HomeCatchesUp` |
| `collector` | two runs of two rounds, two requests a call, two attempts, three faults | `PutsBackOrKeeps`, `FileKeepsTheSchedule`, `LabelsAreRight` |
| `restart`, `lost` | small instances of the same | a statement of the repository the code does not keep: see Findings |

Each module has one type invariant.  All but that of `Bridge` are
proved; that of `Editing` is listed in its run too, because it says that every
file yields a defined active schedule.

Why the bounds are enough.  The exchange has one hub and one programme, so a
violation needs a change, an exchange overtaken by it, and at most one late
request: two events and two threads contain each pair of events in each order,
around every point of an exchange.  Captured numbers come in fives because an
exchange touches at most four (held, confirmed, target, in a late request), so
both reuse and its absence occur.  Two slots a week give an early and a late
watering, which is what the turn of the week and a lapsing overlay need; five
slots of time after the start reach the third week, the first in which "more than
a week old" is possible.  `overlays` has room for one watering while its edit
asks for two, so refused edits and failing fetches occur.  In `threads`
generations wrap within the run.  For `chain` the constants are those of the
code, and the schedules are chosen next to the limits: the first and last
minute of the clock week, two events at the same minute, three minutes apart,
one to four waterings a day, an empty week, a sunset with an offset
that is on the other side of the start at the end of the week, a day of 200 units
and a half, which is tied, and a watering a minute before the end of the week
behind gaps that all round up, whose last gap is negative.  A gap is encoded in chunks
of 200 and 255 alternately; 655 = 200 + 255 + 200 goes once through the
alternation and begins again.  The tails of zeros, before and at their end, are
where a shift by a byte does or does not show.  In `solve` four samples are three differences,
enough to span the three bits in every order and to be dependent in every way;
the checksums have independent, equal and vanishing columns, so that distinct
programmes do share a checksum.

In `edits` a trial, another thread's edit during it and an edit before or behind
it are three events, and expiry, crashes and starts are not counted; so three
threads can have snapshots that differ, in any order of renaming.  The two schedules
lie on either side of the limit of 13 waterings, and the list of three slots is
beyond it alone; two weeks are an overlay of a week in force and at its end, and
a week in which the solar list fits and one in which it does not.  In `bridge` the interval is the least one
that can be cut short by an end, the longest overdue end is an interval and two
lags behind, and the seven ticks go beyond that; one press is enough because
every other publication is the hub's, the refresher's or the connection's, which
no bound limits.  All its safety properties are proved for every bound, so the
run's own question is `HomeCatchesUp`.  In `collector` the second run begins on
what the first one left, which is where a snapshot is lost; three faults are a
lost put, a signal and another, and two rounds are the least in which a
programme can meet the wrong line.

`chain` and `bytes` stop when the computation is done, `solve` when the samples
do not suffice, `collector` when the tool has run as often as it may, and in
`bridge` a refresher with neither hub nor broker there sleeps on when the clock
has come to its bound; these do not look for deadlock.  All others do.

### Fairness

`HubServer.FairSpec`: the refresher's loop always comes round (it catches its
own exceptions); the HTTP server serves each accepted request; the hub goes on
sending heartbeats and fetching after it learned it is behind; the controller
goes on polling.  The network is only required not to lose every exchange: a
request the hub waits for is served again and again, and answers arrive again
and again, hence strong fairness for those.  Nothing is assumed of users,
restarts or time.  `HubThreads.FairSpec`: threads run on, and the lock is not
withheld for ever from one of the two writers (strong fairness of `Acquire`);
Python's `threading.Lock` promises no order, and a writer that bumps for ever
without pause does not exist in the code.  `Bridge.FairSpec`: the three threads
run, the client connects again by itself (paho's `loop_start` does), and the hub
goes on calling.  Nothing is assumed of users, faults or the clock, and
`HomeCatchesUp` only speaks of behaviours in which the process and the connection
stay in the end.

## What is proved

Theorems hold for every value of the constants that satisfies the named
assumptions: any number of threads, schedules, weeks, rounds, faults and events.

* `HubThreads_proofs`, about `Generation`: `BumpIsPositive`, `BumpChanges` and
  `InitialIsPositive`: a bump gives a positive number different from the one before, from any starting point, in
  both modes.  That is what "the hub will fetch" rests on.
* `HubServer_proofs`: `TypeCorrect`; `Invariance`; `HubIsAlwaysCurrent`;
  `ConfirmationMeansExecution`; `CommandsAreNotLost`; `NeverMoreThanAWeekBehind`.
  `HubIsCurrent` is not inductive: an old answer on its way could be installed
  under the current number, and dropping a command needs to know what a
  confirmation means.  `IInv` adds that the phases of an exchange fit each other
  (`Exchange`), that a programme on its way under the server's number is
  current (`ReplyIsCurrent`), that the current number confirmed, or in a
  request on its way, means the command has been executed
  (`ConfirmedMeansActed`), and that what the refresher last saw was seen not
  more than a week after the last bump (`LastIsRecent`).  Every bump makes the
  first three vacuous, because the new number is not in use (`BumpStep`); every
  other step keeps a current programme current (`CurrentStable`).
  `NothingIsLeftUnsaved` needs only that each step that changes the settings
  saves them, or fails to and says so.
* Also in `HubServer_proofs`: `ExchangeDelivers`, `Spec => Delivers`.  Each
  action of `HubServer` is mapped to one of `Delivery`: a bump to `Change` or
  `Order`, for its number is in nobody's hands; `Install` to `Sync`, which is
  where `ReplyIsCurrent` is needed; the controller's first execution to `Obey`;
  `observe` dropping the command to `Acknowledge`, where `ConfirmedMeansActed`
  says that the order was done; time and refreshing to `Age`; a restart, and nothing
  else, to `Forget`.  The rest are stutters.  And `CommandsAreNotRepeated`: once the hub
  has had the server's number no older one comes back (`NothingOlder`), and when
  no command is pending the ones the hub still has are those the controller has
  collected (`CommandIsOver`).
* `HubThreads_proofs` again, for any number of request threads and any changes:
  `BumpsAreAtomic` (one thread at a time is inside the lock of `bump`, and the
  number it read is still in force when it stores the next), `ProgrammesAreNotTorn`,
  `TheFileIsTheTruth`.
  The second needs what each thread has read so far, by the statement it has
  reached: a read that belongs to the number in force is current, or some writer
  still owes its bump (`ReadSoFarIsCurrent`, `AskedAndAnswered`).  The third
  follows the one saver from its two reads to the rename (`SnapshotIsCurrent`,
  `FileIsCurrent`).
* `Editing_proofs`, for every configuration, cloud payload, set of messages and
  lists, file and capacity, and any lists that rounding is too much for:
  `SavedIsLoaded`, that `Parse` and the constructor undo `Snapshot` up to an
  empty name; `EditInvariance`; and from them `RefusalsLeaveNoTrace`,
  `RestartsChangeNothing`, `RestartsCostOnlyUnsaved`.  No lock helps here, so the
  invariant follows a list of settings, `recent`: its last is what is in force
  without a trial (`AcceptedInForce`), each thread's snapshot is one of them
  (`SnapshotsAreTaken`), and so is the file, no older than the oldest snapshot
  that could still be renamed over it (`FileIsRecent`), unless a trial's
  candidate was caught.  A rename cuts off what is older (`RenameFacts`).
  `ServableWhenTried` says in addition of every list in force, in the file or on
  its way there that it fits, but for the sun in some weeks, or counts as untried
  (`ListsAreKnown`).
  `TwoMessagesAreOneEdit` and `MessagesTouchOneSlot` are facts about `Edited`
  for any list and message, from how padding, changing and trimming move the
  slots.  `ImportsKeepWaterings` is about any payload: every group has a first
  watering (`FirstExists`), the ranks of a finite order are the numbers below
  its size (`Ranks`), so sorting loses no event (`EventsOfFirsts`), and the days
  left out in `config.yaml` are those filled in (`SeededAsExported`).
* `Schedule_proofs`: `TypeCorrect`, `Invariance`, `ClampingKeepsOrder`,
  `ClampingShortensGaps`, `LastGapStaysTheRest`, `RoundingStaysBounded`, for any
  unit, any week and any sorted list of waterings.  `IInv` adds where the loop is
  (`Progress`), that the gaps behind it are short or tied (`Clamped`), that each
  unit counted stands for the ticks it was rounded from (`Counted`), and that
  each watering starts where the gap before it ends (`Joined`).  Joined is what
  the code does by construction; what it gives is that the last gap is off by no
  more than what was rounded before it, and so when it can be negative.
  `FiringsAreInOrder` discharges what those assume of the list
  (`FiringListsAssumption`), for any order and sun.  `AdjustmentsGoTheRightWay`
  compares the lists with and without the adjustment watering by watering
  (`KeptUnadjusted`, `ScaleBounds`).  `EventsAreServedEachDay` combines three
  facts: the evening before the first day has an event exactly when the last day
  has not, so the eight days of the horizon give each event its seven
  (`SevenDays`, a bijection); a list that is close together is not pulled
  (`Unpulled`); and what the chain makes of it is near it (`RoundingIsBounded`).
* `Codec_proofs`: `TypeCorrect`, `ReadBackUnlessAmbiguous`, `PaddingIsNotRead`,
  for every chain that `encode_schedule` accepts, of any length and with gaps of
  any size.  The two recursive functions of the encoder exist and satisfy their
  equations (`GapBytesIs`, `WrittenIs`; induction over a gap with the set of the
  numbers for which all smaller ones have a solution, `StrongInduction`).
  `GapBytesRead` says that the bytes of a gap carry it: all but the last are
  continuation bytes that count what is missing, and the last is one only after
  `0xc9`, as a 0.  `Layout` puts each gap and duration at its bytes.  `IInv`
  says where the decoder can be: within a gap with all before it right
  (`InGap`), a byte behind with only zeros read since (`Shifted`), at the end
  with the chain it was sent (`ReadRight`), or, if the chain is ambiguous, with
  something no later byte puts right (`Off`: an open gap too long, the leading
  gap wrong, an end too early, or a closed watering that differs).  `Shifted` is
  needed because being off by a byte is not yet being wrong, and `Off` because
  the other direction, that an ambiguous programme is always misread, is about
  all of the bytes that follow.  An earlier `Ambiguous` lacked `OnlyZerosFollow`:
  the step into `Off` could not be proved, and a programme with leading gap 1361,
  a watering of 30 and one of 0 minutes showed why.
* `Basis_proofs`: `BasisInvariant`, `PredictionsAreAlwaysRight`,
  `OverlongAnswers`, `LoopsAlwaysEnd`, `ClosedFormIsAffine`, for any width, any
  finite padding, any affine checksum and any file.  The invariant pairs each
  entry, and the difference under reduction, with its image
  (`EntriesAreImages`, `LoopInvariant`); it rests on the group laws of exclusive
  or (`XorLaws`) and on `ImageOfSum`.  Inconsistencies cannot be found among
  samples of an affine checksum (`NoFalseAlarm`), so finding one does refute the
  model.  The loop sees a programme only as far as `bits_of` does, which is why
  an overlong one gets the answer of its first bytes (`OverlongAnswers`).  That
  the loops end needs in addition that an entry is stored under its leading bit
  (`LeadingBits`).  What the samples span is the least space that contains them
  (`Span`), which needs no sums: `SpanInvariance` says that the basis and what
  is still being reduced span what the samples read so far do, and that an entry
  is the only one with its leading bit, so that none is a combination of others
  (`EntriesAreABasis`) and the reduction ends at zero exactly for what is spanned
  (`AnswersExactlyTheSpan`).  For `StoppingIsSafe`, `missing_bits` is a recursive
  function over the positions; that it exists is proved (`ReductionExists`), and
  that nothing remains of a spanned bit (`NothingRemains`).
* `Collector_proofs`: `TypeCorrect`, `ScheduleIsPutBack`, `SnapshotIsKept`,
  `LinesStayRight`.  The second is about `collect`; of `probe_shapes` it does not
  hold, see Findings.  From the start of a `collect` on
  the file holds what the tool found (`FoundIsFiled`), a restore asks for
  nothing else (`PutsBackWhatWasFound`), and a report that it is restored is
  true (`ReportIsTrue`); only a late request can change the account behind it,
  and that is `overtaken`.  For the labels, `LabelInv` says that the
  programmes on the wire are the last line's or the round's (`OldOrNew`), that
  behind one of the round there is none of the last line (`InOrder`), and that
  between rounds the account has what the last line shows (`Still`).  A late
  request does no harm before it is carried out, which is `overtaken`.
* `Bridge_proofs`: `HomeShowsTheTruth`, `LapsesInTime`, `OfflineAfterTheEnd`.
  The first needs that a publication that began alone, and stayed so, has read
  and sent only what still holds (`CleanIsFresh`), and that a thread publishes
  only where it can (`PublicationsFit`).  For the second, `OnTime` bounds the
  clock by stage: before the wake-up, in the turn, and in the plan after it, each
  with the lag used up.

What the theorems assume of the constants.  `ConfigAssumption`,
`PayloadAssumption`, `TamperedAssumption`, `CallsAssumption`, `OrdersAssumption`
and their like are types: what the YAML and JSON readers, the REST interface and
the callers can hand over.  `TamperedAssumption` lets a file be
unreadable or lack any field; a field of another type either makes `parse` fail,
which `load` treats as an unreadable file, or is taken on trust, which is left
out.
`OverrunAssumption` says of `Editing` that the time between clock waterings does
not depend on the week, of `Programme` only a type.
`LiteralAssumption` says that two literals are strings, which TLA+ knows and the
provers do not.  `WeekAssumption`, `CycleAssumption` and `GapUnitAssumption` are
relations between constants of `codec.py` and `schedule.py`.

Only model-checked: liveness, so `CommandIsCleared`, `HubCatchesUp`,
`HubSettles`, `HomeCatchesUp`, which need fairness and `ENABLED`.  Every safety
property of the runs is proved.  The type invariant of `Bridge` documents its
types and can be added to its run.

## Findings

Each is a run that TLC stops with a counterexample, and was looked up in the
Python afterwards.

1. `restart`: generations begin again at every start, so the hub may hold the
   number of an older programme and never fetch the new one.
2. `lost`: `_queue` writes `pending` before it bumps.  A request that confirms
   the old number in between drops a command no programme has carried.

Met on the way, and visible in the models, but without a run of their own.

Exchange and threads:

* The refresher compares the next watering, which already has the coming
  week's date before the week turns.  Nothing bumps until the first watering of
  the new week has gone by, so it happens by last week's sun, where
  `__main__.py` speaks of yesterday's.  `AtMostAWeekBehind` shows the lag is
  never longer.
* A command can be executed twice: any bump after the controller's poll makes
  the confirmation stale, and the flag is fetched again.  So does a hub reboot,
  and so does a command queued between a heartbeat and its fetch, which is
  delivered under the old number and again under its own.
  `NoLateRepetition` shows that it ends with the confirmation.
* `heartbeat_response` reads the generation twice; a bump in between sends a
  checksum that does not belong to it.  The hub ignores the reply, and
  `HubSettles` shows it recovers.
* Two overlapping saves can leave the older snapshot in `state.json`;
  `FileIsTheTruth` shows nothing else can, and `RestartCostsOnlyUnsaved` what a
  restart then gives back: one moment between two edits.

Editing and files:

* A pause hides a programme that does not fit: an edit is tried under the
  overlays of the moment (`_rejects`, whose docstring is about fetches that must
  not fail), and when the pause lapses nothing is tried and every fetch fails.
  `ServableUnlessUntried` names the lists concerned.
* While `select_schedule` tries its candidate, a commit of another thread saves
  it; if it is then refused, the file keeps it until the next save.
* An unused slot "is simply absent from the served programme", but slots before
  it that were never set are served as waterings of 0 minutes, and the slots
  behind it move up, so the same message again removes the next one
  (`EditTouchesOneSlot`).
* A time sent for a solar slot is dropped, so when the mode follows as a second
  message the slot waters at 06:00, and so does one that goes from clock to sun
  and back.  The comment (state.py:241-242) says "Carry the existing clock time
  across a solar->clock switch; the UI sends mode and time as two separate
  messages".  `ModeAndTimeAreOneEdit` leaves this order out; it says that every
  other slot and order keeps the time.
* A schedule with an empty name cannot stay active over a restart: the
  constructor takes the empty name for none (`Named`).
* An unreadable `state.json` is overwritten by the seed as soon as the server
  starts, while the log says to "Move it aside to stop this recurring".
* `pause`, `adjust`, `set_event` and `select_schedule` have no caller under
  `src/server` yet; the models call them from the user interface the comments
  speak of.

Refresher and bridge:

* A pause set while the refresher sleeps does not wake it, and an end that
  passes while it takes its turn, or while the server is down, is not planned
  for: an overlay can stay a whole interval (an hour) too long.
* The refresher's bump for a moved watering is silent: Home Assistant shows the
  old generation until the hub calls.
* `publish_state` on two threads can leave the older value on the screen, and
  "online" can follow the "offline" of `stop`.
* Availability goes "online" before the commands are subscribed to, so a press
  in between is lost.

Schedules and bytes:

* A gap is measured from a watering already pulled, so one watering a day at
  06:00 is served at 06:00, 22:35, 15:10, 07:45 and so on, and on two days not
  at all, where the comment on `MAX_GAP_UNITS` (schedule.py:127-130) speaks of "a
  few minutes' shift for about a week around midsummer".  This is why
  `EveryDayIsServed` asks for waterings that are close together.
* Rounding errors of one sign add up: 06:00, 12:03 and 18:06 daily start 30
  minutes late by the end of the week (`RoundingIsBounded` states how far this
  can go).  With 22:54 behind them the week comes to seven units too many, the
  last gap to minus seven, and `encode_gap` raises: such a schedule is refused,
  and one with the sun in it can be accepted in one week and fail in another.
  The comment (schedule.py:171) says that rounding "can lose a unit".
  `LastGapIsTheRest` says which programmes are at risk, `ServableUnlessUntried`
  what it does to fetches.
* Distances halfway between two units round to the even one, so a gap that was
  pulled to 199 units and a half becomes 200 and needs the continuation byte
  (`InnerGapsAreShort`).
* The gap before the first and after the last watering is not clamped, so the
  byte `0xc9` does occur; and a gap of 200 units (or 655) encodes to a final
  `0xc9 0x00`, which the decoder takes for a longer continuation.  From there it
  is off by a byte, which shows unless only zeros follow.
  `MisreadExactlyIfAmbiguous` characterises the programmes concerned.

Solver and collecting:

* `checksum_with` looks at the positions of `VARYING` only.  Asked for a
  programme longer than the samples it answers with the checksum of another,
  where its docstring promises `None` (`OverlongAnswers`).
  `verify_deployment` counts such programmes as covered.
* A lapsed wait, or a put that failed without an answer, leaves a programme
  behind that is recorded with the next round's events, and the lines after it
  shift; the first line may show the schedule that was found.  The solver uses
  programmes and checksums only, so its results do not suffer.
* `restore` marks itself done before it begins, so a second signal ends it for
  good; and a run after a failed restore overwrites the snapshot with a test
  schedule.
* `probe_shapes` looks at no code when it puts the schedule back, prints "original
  schedule restored" and has no file; the header (collect-checksums.py:20-21)
  says the schedule is "snapshotted at start and restored on exit, including on
  Ctrl-C or a crash".

## Not modelled, and why

* `decode.py`: prints recorded traffic once, front to back; the formats are
  those of `Codec`.
* How `schedule_checksum` generates its columns along the positions, and the
  heartbeat's checksum: constants, which the repository tests against every
  captured pair.
* base64, the HTML frame, headers, logging, the texts of MQTT discovery, the
  topics `watering` and `last_contact`: formatting, or repeated by what is
  modelled.
* Solar computation and daylight saving: the sun is a table, and a clock week
  has seven days of 1440 minutes.
* In `Editing`, overlays that begin or end within a week: they hide all of a
  programme or none, and adjust all or none.  `Programme` and `Schedule` have the
  watering by watering form.
* `replay_blob` and `corrupt_checksum`: experiments that bypass the programme.
* Requests for another hub id.  They are observed before they are refused, so
  one could confirm a command; such a hub gets neither number nor programme
  from this server, and what it would confirm is anybody's guess.
* `collect_flags`, `keep_demo`, `import_corpus`, `verify_deployment` and the
  statistics of the collecting tool: they restore nothing and predict nothing
  new.  The printing commands of `hozelock-api.py`.

## Plan

Done: the exchange with its invariant and proof; the threads; the schedule
engine; the codec; the solver; the abstract promise and its refinement; editing,
files and import; refresher and bridge; collecting; proofs of every safety
property.  Open:

1. `Checksum`: the recurrence of the columns along the positions, and how it
   relates the heartbeat's two byte tables.
2. A second hub, with an id of its own, at the same server.
