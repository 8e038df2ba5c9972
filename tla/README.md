# Specifications of the anti-cheat for CS:GO

TLA+ models of the user-mode anti-cheat in `src/`, checked with TLC on small
instances, and theorems about them proved with TLAPS for all instances.

The program has three parts, each a process of its own:

```
 CSGO (game)                          web server (PHP)                Ring3AC.exe
 +--------------------------+   POST  +---------------------+  GET   +------------------+
 | CSGOModule.dll           | ------> | ac_batch.php        |        | cheat_hndl       |
 |  CreateMove hook: checks |         |   <session>.jsonl   | <----- |  every 10 s      |
 |  packet buffer, uploads  |         | process_session.php |        | process_check    |
 |  HeartbeatThread (5 s)   | ------> | heartbeat.php       |        | mouse hook       |
 +--------------------------+   GET   | check_dll.php       |        | VM thread        |
        ^                             | check_ban.php       |        +------------------+
        | session id (shared memory)  +---------------------+            | TerminateProcess
        +---------------------------------------------------------------+
```

`Ring3AC.exe` finds the game, makes a session id, publishes it in shared memory
and injects the module. The module looks at every command of the player,
buffers one packet of nine flags per command and uploads them in batches of
512. The handler thread of Ring3AC makes the server judge what was uploaded,
asks whether the module is alive and whether the session is banned, and
terminates the game if it has to.

## Inventory

Paths are relative to `src/`. State is what the component keeps between two
operations.

| component | state | operations | interacts with |
|---|---|---|---|
| `Php backend/api/process_session.php` | session log, session state, analysis log, ban list (files) | one request: load the log, judge it, load and update the state, append the analysis, append the ban record, save the state, delete the log, reply | `ac_batch.php` appends to the log meanwhile, `check_ban.php` reads the state, a second request may overlap after a client timeout |
| `Php backend/ac_batch.php` | session log | append one line per packet | uploads of several threads overlap |
| `Php backend/api/check_ban.php` | none | read the state without a lock | handler |
| `Php backend/api/heartbeat.php`, `check_dll.php` | stamp file | rewrite without a lock; read and compare with 15 s | heartbeat thread, handler |
| `Ring3AC/Handler.cpp` | `info` (shared), the session id | loop: process session, check module, check ban, check debugger, count injected input, terminate, reset | all server endpoints, all threads of Ring3AC |
| `Ring3AC/Ring3AC.cpp` | `info.PID`, session id | find the game (until found once), start the session, start the threads; the process scan raises the flag every second | threads, module |
| `Ring3AC/InjectedInput.cpp` | `info.injected_input_detection` | the mouse hook counts injected events | handler resets the counter |
| `Ring3AC/AntiVM.cpp`, `anti_debug.cpp` | none | probes; the VM thread terminates the game itself | `info.PID` |
| `Ring3AC/ac_shared.cpp` | shared memory block | create, write (magic, pid, id, ready), read | module start-up |
| `Ring3AC/ModuleInjection.cpp` | none | map the module into the game and run its entry point | module start-up |
| `CSGOModule/DllMain.cpp` | `g_sessionId`, `g_running` | wait for the id, install the hooks, heartbeat every 5 s | shared memory, `heartbeat.php` |
| `CSGOModule/Hooks.cpp` | saved camera angle | `createmove`: checks the command before the one just made | the game's ring of commands |
| `CSGOModule/ACFunctions.cpp`, checks | choke cycle, tick, angles, pointer to the previous command, zero-mouse window, side-move count | nine detections per command | each other, through `prev_cmd` and `cmd_tickcount` |
| `CSGOModule/ACFunctions.cpp`, telemetry | `g_packetBuffer`, upload threads | buffer, swap out when 512, post once | `ac_batch.php` |

What is hard here, and what makes each part correct:

* **Server.** Several requests work on four files without a transaction. It is
  correct when nothing is judged twice, the state is what the analyses add up
  to, a ban is never forgotten, is recorded once and before it is enforced, and
  a row that a request can read is judged in the end, whatever times out or dies.
  It is not correct for every row: one that is appended after a request has read
  the log and before that request deletes it is deleted unjudged
  (`process_session.php:134`, `:331`). The models keep that, and `DeletedIsJudged`
  says that no other row is lost in this way.
* **Enforcement.** Five threads share `info` without a lock and the operating
  system reuses process ids. It is correct when nothing is terminated without a
  cause and a raised flag does close the game.
* **Watchdog.** Two loops with their own periods meet in one file. It is
  correct when a running module is never declared dead and a dead one is
  noticed in bounded time.
* **Start-up.** Processes that start, end and start again meet in one shared
  block without a lock, and every call can fail unnoticed. It is correct when a
  module takes the id of its own main, whole, when the first heartbeat comes
  before the first check although only sleeps order them, and when a start-up that
  failed does not leave a game without supervision.
* **Checks.** Counters, windows and remembered commands that must stay in step
  over skipped calls; a check that resets its state must not disturb another.
* **Telemetry.** Uploads overlap, fail and are not retried; packets may get
  lost, but not duplicated or reordered within their batch.

The hazards are listed one by one, with the line where they bite and the
properties that cover them, in `PROJECT.json`.

## Modules

| module | models | state and actions |
|---|---|---|
| `ChunkVerdict` | the rules of `process_session.php` | operators only: `Judge` a chunk, `Updated` state; a chunk is a sequence of runs of packets, ratios are compared exactly |
| `BanLatch` | abstract: what server and handler promise about a ban | `Ban`, `Record`, `Answer` |
| `SessionServer` | `process_session.php`, `ac_batch.php`, `check_ban.php` and the handler that drives them | one action per file access of a request (`Load` ... `Reply`), `AppendRows`, `Request`, `Timeout`, `CheckBan`, `Crash`; `disk.form` says whether the state file is absent, truncated or whole |
| `Enforcer` | Ring3AC.exe around `info` | one action per access to `info` of main, handler, scan, hook and VM thread; the environment starts and ends processes and makes offences |
| `Watchdog` | heartbeat thread, `heartbeat.php`, `check_dll.php`, handler | discrete seconds (`Tick`), one action per step of a request, `Die` |
| `SessionStart` | `main`, `ac_shared.cpp`, outcomes of `ModuleInjection.cpp`, `DllMain`, `WaitForSessionId`, `initialize`, `HeartbeatThread`, the handler's check of the module | discrete time (`Tick`) and the code's sleeps; one action per store and load of the shared block, per outcome of a call or request that can fail, and per start and end of a process; the heartbeat thread begins and ends a request (`BeatBegins`, `Stamp`, `HeartbeatLost`), the handler asks for the age of the stamp (`ModuleAlive`, `ModuleDead`, `CheckFails`) |
| `CommandChecks` | `createmove`, `possible_backtrack`, `possible_rage_aim`, `prev_cmd` | one action per call of the hook, with an unusable command (early return) or outside the world (`NotInWorld`) |
| `FakeLag` | `using_fakelag` | one action per call, for every number of choked commands |
| `PatternChecks` | `possible_desync`, `using_micromovement`, `possible_aimbot_zero_mouse` | one action per call with any yaw, move and hit, and a pause in which the game overwrites the command behind `prev_cmd` |
| `LossyChannel` | abstract: what the telemetry path promises | `Send`, `Deliver`, `Drop` |
| `Telemetry` | packet buffer, `ac_async`, upload threads, `ac_batch.php` | one action per command, post, appended row and failure |

`SessionServer` extends `ChunkVerdict`. `MCSessionServer`, `MCEnforcer`,
`MCCommandChecks` and `MCPatternChecks` only define the constants of the
instances. The checks inside `determine_ban_createmove` share `prev_cmd`, which
only the end of the call writes, and `cmd_tickcount`, which only
`CommandChecks` touches; apart from that their state is disjoint, so they are
modelled in three modules, each driven by all inputs a call can have.
`SessionServer`, `Watchdog`, `Enforcer` and `SessionStart` each contain the
handler with the part of its work that matters to them; what they leave out (the
answer of the other endpoints) is an input of `Enforcer` (`Ask`) and a delay of
`Watchdog` (`ProcessSession`); `SessionStart` has the handler's sleeps and its check
of the module, for several sessions at once, with whole stamps (the torn ones are
`CheckFails` there and a step of their own in `Watchdog`).

Two modules are abstract specifications that a detailed one implements, with a
refinement mapping that is nothing but a renaming of state:

* `Telemetry` implements `LossyChannel` with `sent <- produced`, `got <- log`,
  `dropped <- lost` (`IsLossyChannel`). The buffer, the threads and the
  requests are hidden: filling, handing over and posting are stutters or drops.
* `SessionServer`, as long as nothing fails but the deletion of a judged log,
  implements `BanLatch` with `banned <- Banning` (an analysis ended in a ban),
  `records <- Len(banlist)` and `told` (`IsBanLatch`): appending the analysis is `Ban`, appending the record is
  `Record`, `check_ban.php` is `Answer`, and everything else stutters.

Operators introduced by a comment "Mutant of X" are not part of
the models: each is X with a plausible mistake, and the property named with
it in `PROJECT.json` must fail when X is replaced by it.

Abstractions:

* A packet's flags are counts per run. 512 packets are two runs of 256, so
  that a request can see half of an upload, with ratios as in the code.
* Names of sessions, JSON, HTTP and paths are left out. A request that is
  refused for its form (missing session, wrong size) changes no state.
* `load_jsonl_rows` reads the log in one step: appends are seen or not.
* `createmove` passes `iChokedCommands > 0` as `send_packet`, which is the
  wrong way round; the desync check is symmetric in the two angles, so nothing
  depends on it, and `possible_desync` takes it as it comes.
* Angles are whole degrees and side moves hundredths; the limits of the code
  (50 degrees, 1.1 and 3.4 with tolerances of 0.2 and 0.15) are exact in them.
* In `SessionStart` an id is the number of its main, in two halves, so that
  a copy can be seen half done; the stores of `game_pid` and of `ready = 0`
  are one step, since `ready` is 0 there anyway. A string that another thread is
  assigning to shows `Garbage`. Mains and games are numbered in the order they
  start; one game runs at a time, which is what the system's id look-up assumes.
  It is the release build: a debug build has a fixed id and no heartbeat thread.
  Time is counted in units that the instance chooses (seconds in `start_times`).
  `WaitForSessionId`, the heartbeat thread and its request are never later than
  their sleep or `MaxDelay` allows; the handler may be, because other requests
  come before the check. A termination always succeeds here; one that fails is
  in `Enforcer`.
* `command_number`, `tick_count` and `randomseed` are tested together: an empty
  slot has `made = FALSE`, any other unusable command has tick 0.
* `previous_cmd_tickcount` is written before each use and is no state.

## Runs

"Passing" runs explore the whole state space of their instance.

| run | instance | shows |
|---|---|---|
| `server_quiet` | two uploads of two runs each out of five kinds (clean, zero mouse, fake duck, a score of 2, a score of 5), two workers, one deletion that may fail and nothing else, so that one request runs at a time | `AuditAgrees`, `PiecesHideNothing`, `IsBanLatch`, `BanReachesHandler`: while requests do not overlap and every write succeeds, the sequence read, judge, save, delete forgets no verdict it has reached, and what breaks a hard rule in all the packets that were judged bans in one of the chunks. Rows that are appended between the read and the deletion are deleted unjudged here too; these properties speak of what was judged |
| `server_faults` | two overlapping requests, one upload, at most two faults of five kinds (client timeout, crash, failing delete, failing record, other failing file access) | `StatesWellFormed`, `SuspiciousRuleIsDead`, `EnforcedBanIsRecorded`, `NoDoubleCount`, `DeletedIsJudged`, `StoredIsJudged`: a row that is in the log while no request is between its read and its deletion is judged in the end, and only one that came later may be deleted unjudged; a failing ban record or state counts nothing twice |
| `enforcer_threads` | two process ids, three kinds of offences, two injected events with a limit of 2, two launches, one failing termination | `KillJustified`, `FlagClosesGame`, `NoFlagIsLost`, `OthersAreSpared` |
| `enforcer_relaunch` | a suspicious process, two launches | **violated**: `ToolClosesGame` (finding 1) |
| `watchdog_loops` | requests of up to one second, single lost heartbeats, failing checks, torn reads, a module that dies or never starts | `NoFalseQuit`, `DeathIsNoticed`, `DeathClosesGame` |
| `watchdog_torn` | torn reads, no other failure | **violated**: `ClosedOnlyWhenDead` (finding 2) |
| `commands_ring` | a ring of four, nine commands at the limits (4 and 32 ticks back and more, 60 degrees, 5 and 6 degrees off camera, unusable) | `PreviousAgree`, `BacktrackIsAStepBack`, `FlicksAreReported`, `RageAimHasCause` |
| `fakelag_cycles` | 0 to 14 choked commands | `PeakIsOfThisCycle`, `FlagTakesThreeCycles`, `RaisedAtCycleEnd`, `FlagRunsOut`, `FlagDecays` |
| `patterns` | windows of 3 commands with a cooldown of two windows, three steps for a micro-movement, yaws on both sides of 180 and 49 to 50 degrees apart, six moves | `DesyncIsAngular`, `MicroAlternates`, `FlagsAreSpaced`, `CooldownHidesFew` |
| `telemetry_lossy` | batches of 3, ten packets, all failures | `ExactlyOnce`, `IsLossyChannel`, `FullBatchArrives` |
| `start_times` | one main, two games, two failing calls or requests; the seconds of the code (5, 5, 2 + 20, 10, 15), requests of up to 5 | `ClosedForAReason`, `UnattendedGameEnds` |
| `start_mains` | two mains, one game, no failure, the shortest times | `IdIsWhole`, `IdIsThatOfTheMain`, `ClosedForAReason`, `UnattendedGameEnds`: every meeting of two writers or of a writer and a reader in the block; a module that took the id of the other main beats for the other session only, and its own main closes the game |

Only the type invariant of `SessionServer` is in a run; those of the other
modules are theorems (`SpecTypeOK`), as is `RowsInOrder`, which follows from the
refinement that `telemetry_lossy` checks.

### Bounds

* `Workers`, `Uploads`: the handler has one request outstanding; a second
  one runs only after it gave up on the first, so two overlap, and a third adds
  no new kind of overlap. Two uploads of two runs give every position of an
  append relative to a request, and chunks of one to four runs. Two scores of
  five in a row reach the session limit of 6.
* `MaxFaults = 2` pairs every fault with every other; the state properties are
  proved for any number. `FaultKinds` are the failures that may happen:
  all five in `server_faults`, only the failing deletion in `server_quiet`, the
  one that `IsBanLatch` withstands.
* `Limit = 2` instead of 5 in `enforcer_threads`: the limit is a parameter, and
  two events suffice to interleave the read, the write and the reset.
  `MaxLaunches = 2`: a restarted game, and a process id that is reused.
* `MaxDelay = 1`, `MaxLosses = 1` is the largest loss for which 15 seconds are
  enough with that delay: one more of either breaks `Patience` (see below).
* `Slots = 4` instead of 150: the ring wraps, and up to two skipped calls keep
  `prev_cmd` valid while three do not. The ring's theorem is for any size.
* `MaxChoke = 14`: well above the limit of 4 and the closeness of 2, and what the game lets a client choke; `MaxScore = 6` lets
  the score pass the flag limit of 4 and decay from there.
* `Window = 3`, `Rounds = 2`, `MaxTreshold = 3` instead of 64, 2 and 16: two
  commands of a window, its end, and a cooldown of two windows;
  `MaxTicks = 4` passes the threshold. The theorems are for any size.
* `SessionStart`: time and interleaving multiply, so two instances share the
  work. `start_times` has the code's seconds and every single failure and pair of
  failures, with a game that ends and is started again, but one main, so nobody
  disturbs the block. `MaxDelay = 5` is the most `PatienceAssumption` allows with
  these seconds: without that assumption TLC finds `ClosedForAReason` violated at 6
  by the first check (5 + 5 + 2 * 6 is not less than 22), and, with a later first
  check, at 11 by the age (5 + 11 is more than 15). `start_mains` has a main that is
  restarted or run twice beside one game, and the shortest times that satisfy the
  assumption: a failed read is not repeated there (`WaitTime = 0`), in `start_times`
  it is. That two mains never look after different games in a run is made up for by
  the theorems, which hold for any number of games and any such times; only
  `UnattendedGameEnds` rests on the two instances alone.
* `BatchSize = 3`, `MaxPackets = 10`: three batches in flight and a partial one.

### Fairness and liveness

* `SessionServer!Fairness`: a request that runs goes on (PHP finishes or
  dies), the handler loops (`while (true)`), uploads owe nothing. There are
  finitely many faults, so `StoredIsJudged` says that a fault delays the judgement
  of a row but does not prevent it. It excuses `io`, because an analysis that
  cannot be appended does not keep the code from deleting the log.
* `Enforcer!Fairness`: the threads run; the environment need not do anything.
  `FlagClosesGame` is about the first launch: finding 1 is about the second.
* `Watchdog!FairSpec`: the clock and the loops go on. Urgency is in the guards:
  a thread whose sleep is over acts before the clock moves on.
* `FakeLag!QuietSpec`: the player goes on moving and stops choking at some time.
* `Telemetry!Fairness`: a thread or a request that exists is run.
* `SessionStart!Fairness`: time passes, a main that found its game goes on, and so
  do `WaitForSessionId` and the heartbeat thread; the user, the player, the game's
  loading of `serverbrowser.dll` and the failures owe nothing. Nothing but the
  sleeps orders the first heartbeat and the first check, as in the code
  (`Ring3AC.cpp:34`, `Handler.cpp:275`); that they suffice is `ClosedForAReason`, and
  what they suffice for is `PatienceAssumption`.

Deadlock is checked wherever the system cannot stop. In `Watchdog` the game
is closed in the end, in `Telemetry` the packets are used up and in
`SessionStart` the mains and games, so there it is switched off.

## Findings

1. `Ring3AC.cpp:123` promises to quit the game for a suspicious process. The
   first termination sets `info.PID` to 0 and nothing looks the id up again
   (`Handler.cpp:322`, `Ring3AC.cpp:143`): a restarted game stays open.
2. `DllMain.cpp:32` describes the heartbeat as the check whether the module is
   alive. `heartbeat.php:36` truncates the stamp file before it writes, without a lock;
   a check in between reads 0, answers `BAD`, and closes the game of a module
   that runs.

Also met, and not the subject of a run:

* `ACFunctions.cpp:202` tests for a jump of the pitch by 60 degrees or more; the
  comment on the same line says "more than 50 degrees". The model has the 60, so
  `FlicksAreReported` says nothing of a jump in between, which is only
  reported when the camera does not follow it.
* A row that is appended between the reading and the deletion of the log is
  deleted unjudged (`process_session.php:134`, `:331`). No line of the repository
  promises otherwise; `DeletedIsJudged` says where this ends.

## Proofs

One module of proofs per component. Each theorem holds for every value of the
constants that the named assumptions allow.

| theorem | assumptions | argument |
|---|---|---|
| `SessionServerProofs!SpecTypeOK`, `SpecStatesWellFormed`, `SpecSuspiciousRuleIsDead` | types of shapes and faults | `IInv` = types and `Sound`: every session state in memory, on disk and on the ban list is well formed. `JudgeFacts` and `UpdatedFacts` show that a chunk keeps a state well formed: the score grows by at least 3 with every suspicious chunk, so it reaches 6 before the counter reaches 5. `WellFormed` alone is inductive only together with "the rule has not fired" |
| `SessionServerProofs!SpecEnforcedBanIsRecorded` | the same | `RecordInv`: past the step that writes the record, a banned state claims a record unless writing failed, and who claims one has one. The order of the steps, kept in `pc`, makes it inductive |
| `SessionServerProofs!SpecIsBanLatch` | `Quiet`: nothing fails but the deletion of the log; any number of workers | `LatchInv`: before the analysis is appended and after the state is saved, the stored state knows of the ban and of its record; in between the state in memory does, and nobody asks because the handler waits. That only one request runs is not assumed but follows: `Lone`, until a request times out or dies. Typing of the states comes from `IInv` |
| `SessionServerProofs!SpecNoDoubleCount` | types of shapes and faults | `CountInv`, with `Lone`: ids are given out in order; the log holds nothing that has been judged except between the step that appends the analysis and the one that deletes the log, and in between nobody reads it. The failures that excuse a double count are part of the property, so none is assumed away |
| `SessionServerProofs!SpecAuditAgrees` | the same | `AuditInv`, with `Lone`: a judged chunk is in memory before it is in the analysis log, and there before it is in the stored state; in each of the three phases one of the states is exactly what the log adds up to. `SumFacts` says what the sum of a log with one more entry is |
| `SessionServerProofs!SpecDeletedIsJudged` | the same | `LossInv`: a request that has read a row of the log has read every older one that is still there (ids are given out in order, `Numbered`), and past the step that appends the analysis what it has read is in one. Overlaps, time-outs and crashes are not excused |
| `SessionServerProofs!HardReasonsOfPieces`, `SpecPiecesHideNothing` | the same | a ratio of two lists together is never above both of theirs, so a hard reason of the whole is one of a piece; the converse is false, a piece may well have a reason that the whole has not: `CountsAdd` (counts of a concatenation add up, from `SumConcat`) and, for any number of chunks, `SumRatio`. `PieceInv`: a chunk that breaks a hard rule has a ban in its analysis |
| `EnforcerProofs!SpecTypeOK`, `SpecKillJustified` | ids are not 0, `Limit > 0` | `Counting`: the counter, and a count the hook has read but not written, never exceed the events injected; `Observing`: a raised flag has an observed reason |
| `EnforcerProofs!SpecNoFlagIsLost`, `SpecOthersAreSpared` | the same | `PointInv`: from its discovery to its end the first game runs under `info.PID`, unless that is 0; after a termination that did not fail it no longer runs, and the flag is only cleared after that (`handler` at `pid` or `flag`) |
| `WatchdogProofs!SpecNoFalseQuit` | `Patience`: `MaxDelay + (MaxLosses + 1) * (5 + MaxDelay) <= 15` | `Fresh` bounds the age of the stamp by what the heartbeat thread is doing and the losses so far, `Early` that the first check comes after the first stamp, `Calm` that a check in between was answered alive |
| `WatchdogProofs!SpecTypeOK`, `SpecDeathIsNoticed` | delays and losses are naturals (no `Patience`) | `LastStamp`: a module that stopped stamps at most with the request it was in, so its stamp is no more than `MaxDelay` younger than its end; `Overdue`: the handler finds that stamp young at most 15 seconds later and then not again, which bounds `deadFor` step by step through its loop |
| `CommandChecksProofs!SpecPreviousAgree`, `SpecBacktrackIsAStepBack` | a ring of at least two slots | `Placed`: the slot of `prev_cmd` lies `age + 1` calls behind, round the ring, and is not overwritten while that is less than the ring; `TickOfBefore`: the remembered tick is 0 or that of the command evaluated last |
| `CommandChecksProofs!SpecTypeOK`, `SpecFlicksAreReported`, `SpecRageAimHasCause` | the same, and usable commands have a tick that is not 0 | `AimInv`: what was evaluated is usable, and a saved angle is the camera of the newest command of the ring; with `Placed`, `pVerifiedCommands[prev_cmd]` is the command evaluated before, so what the code compares is what the properties compare |
| `FakeLagProofs!SpecTypeOK`, `SpecPeakIsOfThisCycle`, `SpecFlagTakesThreeCycles`, `SpecRaisedAtCycleEnd` | none on the program | `Scored`: n suspicious cycles bring at most 2n - 1 points, because the first has no peak to resemble |
| `FakeLagProofs!SpecFlagRunsOut` | the same | `TicksLeft` (16 for each point above 3, less the cooldown) falls by one with every unchoked tick and is positive as long as the flag is up: the bound behind `FlagDecays` |
| `PatternChecksProofs!SpecDesyncIsAngular` | yaws of -180 to 180 degrees | an angle that is not 0 is one that was looked at; 50 degrees between the amounts of two angles are 50 on the shorter arc too |
| `PatternChecksProofs!SpecMicroAlternates` | a positive threshold | while nothing was overwritten, the counted flips are at most the steps in a row, and `prev_cmd` is the command before: a flip of two moves that big and that close to opposite is a step to the other side |
| `PatternChecksProofs!SpecTypeOK`, `SpecFlagsAreSpaced`, `SpecCooldownHidesFew` | window and rounds positive | what is left of the cooldown is what is missing to `CoolDown` calls since the last flag; the windows missed since and the part of the current one fit into what is over of the cooldown |
| `SessionStartProofs!SpecTypeOK`, `SpecIdIsThatOfTheMain` | bounds and times are naturals | `OwnInv`: as long as no other main disturbed it, the block holds exactly what a main has written so far, and while its module reads, its id or nothing; so the second half that is read belongs to the first. Needs `TypeInv`, which places main and module relative to each other |
| `SessionStartProofs!SpecIdIsWhole` | the same | `WholeInv`: without a clash only one main is writing and nobody reads while it does, so the block holds what it has written so far, is not `ready` before all of it is there, and stays what a module has tested and read so far |
| `SessionStartProofs!SpecClosedForAReason` | also `PatienceAssumption`: `WaitTime + BeatPeriod + 2 * MaxDelay < FirstCheck` and `BeatPeriod + MaxDelay <= MaxAge` | `GoodInv`, on top of `OwnInv`: while a start-up is without failure and interference, its block is complete at the injection, both threads of the module run, each test of the block succeeds, and the id it ends with is the main's. `TimeInv` adds the clocks: what is left until the next stamp at the latest (`Due`: the rest of the wait, of the sleep, of the request) is less than what is left of the handler's first sleep, or the last stamp will still be young enough then; every step keeps that (`MainKeepsTime`, `ModuleKeepsTime`, `BeatKeepsTime`), a tick takes one from both sides (`TickKeepsTime`) |
| `TelemetryProofs!SpecChannelInv`, `SpecIsLossyChannel` | a positive batch size | `ChannelInv`: whatever is under way (the buffer, a thread's payload, the rest of a request) is the rest of one batch after its first packets; exactly these packets of the batch are open; no two carriers hold the same batch. Hence an appended row is the first open packet of its batch (`Deliver`), a failure drops open ones (`Drop`) |
| `TelemetryProofs!ChannelIsInOrder`, `SpecRowsInOrder` | the same | the first is about the abstract specification alone: in front of a packet that has arrived nothing of its batch is open (`ArrivedInv`), so the next to arrive is behind it. The second inherits it through `SpecIsLossyChannel` |
| `TelemetryProofs!SpecTypeOK`, `SpecExactlyOnce` | the same | `PlaceInv`: a row that was appended is there once and not lost, and an open packet is in the buffer or in a carrier; with `ChannelInv` no two of these hold the same packet, so the sum of the places is one |

Sums and counts over a log are recursive functions (`SumTo`). The library's
induction rules take an operator as a parameter, which the provers cannot instantiate,
so `SessionServerProofs` inducts in another form: `SetInduction` says that a set of
naturals that contains 0 and n + 1 with n is everything (a least counterexample,
`WFMin` and `NatLessThanWellFounded`, would be the successor of a member), and each
lemma about sums gives such a set. `SumIs` derives the recursive equation from the
existence and uniqueness of the function.

Only model-checked is what needs fairness, which the prover does not treat:
`BanReachesHandler`, `StoredIsJudged`, `FlagClosesGame`, `DeathClosesGame`,
`FlagDecays`, `FullBatchArrives` and `UnattendedGameEnds`. Every invariant and every
action property of the passing runs is also a theorem, and so are both refinements.
The safety half of the liveness properties is proved where it can be stated:
`NoFlagIsLost` for `FlagClosesGame`, `DeathIsNoticed` for `DeathClosesGame`,
`FlagRunsOut` for `FlagDecays`, `ExactlyOnce` for `FullBatchArrives`,
`DeletedIsJudged` for `StoredIsJudged`.

## Not modelled

* Detours and MinHook, build artefacts, SDK declarations, vector, CRC and hash
  helpers: not the program's own logic. They are most of the repository: of
  its 84 700 lines of implementation some 78 000 are in `Detours-main`, a copy of
  Microsoft's library with all its samples, of which the program only links
  a `.lib` and calls nothing. The program's own C++ and PHP is about 3 500 lines,
  of which the models cover most that keeps state.
* `ModuleInjection.cpp` beyond its outcomes: copying headers and sections,
  relocations and imports write the memory of another process, and no
  result is looked at.
* The debugger and the virtual machine probes, the scan for process names: single
  queries of the operating system without state. Their outcomes are inputs of
  `Enforcer`.
* Roll angle, fake duck and tick base shift are pure tests of one or two commands.
* Several sessions on one server: their files are disjoint except for the
  append-only analysis log and ban list.
* The session id in `Watchdog`, and the torn stamp in `SessionStart`. A composition
  of the two would have the seconds of both and the steps of both.

## Plan

What is left, in this order:

1. A composition of `Watchdog` and `Enforcer`: from a stopped module to a
   terminated game, in seconds.
2. The rows that are lost between a read and a deletion, counted: how many packets
   of an upload can go unjudged, in terms of its size.
3. Two sessions on one server, with interleaved lines of the shared ban list.
