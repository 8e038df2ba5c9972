----------------------------- MODULE SessionStart -----------------------------
(***************************************************************************)
(* From the start of Ring3AC.exe to the first heartbeats (Ring3AC.cpp,     *)
(* ac_shared.cpp, ModuleInjection.cpp, DllMain.cpp).  A main finds a game, *)
(* publishes its session id in a block of shared memory, injects the       *)
(* module and starts its handler; the module's initialize thread reads the *)
(* id back and installs the hooks, its heartbeat thread starts to beat as  *)
(* soon as there is an id, and the handler closes a game whose last        *)
(* heartbeat with its own id is too old.  Nothing but sleeps brings the    *)
(* first heartbeat before the first check: time is discrete, and no thread *)
(* oversleeps.                                                             *)
(*                                                                         *)
(* The block has one name for all processes and no lock: a main that is    *)
(* started again, or a second one, writes the block of the first.          *)
(***************************************************************************)
EXTENDS Naturals, FiniteSets

CONSTANTS
    MaxMains,   \* bound: runs of Ring3AC.exe, numbered as they find a game; the
                \* number stands for the session id, which is new in every run
    MaxGames,   \* bound: runs of csgo.exe, numbered as they start; the number
                \* stands for the process id
    MaxFaults,  \* bound: failing calls of the operating system, and requests
    WaitTime,   \* WaitForSessionId: 5 seconds
    BeatPeriod, \* HeartbeatThread: 5
    FirstCheck, \* StartGameSession and cheat_hndl before their loop: 2 + 20
    CheckPeriod, \* cheat_hndl: 10
    MaxAge,     \* check_dll.php: 15
    MaxDelay    \* bound: the time a heartbeat takes to arrive

ASSUME BoundsAssumption == MaxMains \in Nat /\ MaxGames \in Nat /\ MaxFaults \in Nat

ASSUME TimesAssumption ==
    {WaitTime, BeatPeriod, FirstCheck, CheckPeriod, MaxAge, MaxDelay} \subseteq Nat

\* What the sleeps of the code leave for a heartbeat: up to 5 seconds.
ASSUME PatienceAssumption ==
    /\ WaitTime + BeatPeriod + 2 * MaxDelay < FirstCheck
    /\ BeatPeriod + MaxDelay <= MaxAge

Mains == 1..MaxMains
Games == 1..MaxGames
None  == 0   \* no process id, nothing of an id

\* A session id is a string; its halves may come from different writers.
\* Garbage is what a string shows that another thread is assigning to.
Id(m)   == [first |-> m, second |-> m]
NoId    == Id(None)
Garbage == Id(MaxMains + 1)
Ids     == [first : Mains \union {None}, second : Mains \union {None}]

\* ZeroMemory.
ZeroBlock == [magic |-> FALSE, game_pid |-> None, ready |-> 0, session_id |-> NoId]

VARIABLES
    pc,           \* what each main does next
    PID,          \* info.PID of each main
    game,         \* "none", "up" or "ended"
    block,        \* the SharedSessionBlock
    image,        \* the game each main's module has been mapped into, or None
    init,         \* what the initialize thread of each module does next
    waited,       \* ... how long it has been in WaitForSessionId
    session,      \* ... what it has read of the id
    beat,         \* modules with a heartbeat thread
    rest,         \* ... the time it still sleeps, or its request may still take
    sent,         \* ... the id in that request, or NoId
    g_sessionId,  \* of each module
    age,          \* of the stamp of each main's session: MaxAge + 1 is too old, or none
    timer,        \* the time each handler still sleeps
    faults,       \* failing calls so far
    failed,       \* history: mains in whose start-up a call failed
    disturbed,    \* history: mains whose block another main wrote before it was read
    clash         \* history: a main wrote while another wrote or a module read

main_vars   == <<pc, PID, failed>>
module_vars == <<image, init, waited, session, beat, rest, sent, g_sessionId>>
clocks      == <<age, timer>>
vars == <<main_vars, game, block, module_vars, clocks, faults, disturbed, clash>>

Writing == {"zero", "zero_again", "magic", "game_pid", "id_first", "id_second", "ready"}
Reading == {"is_ready", "is_game", "read_first", "read_second"}
Waiting == {"open", "is_magic", "assign", "assigned"} \union Reading

TypeOK ==
    /\ pc \in [Mains -> {"find", "map", "inject", "join", "run", "unmapped", "gone"}
                     \union Writing]
    /\ PID \in [Mains -> Games \union {None}]
    /\ game \in [Games -> {"none", "up", "ended"}]
    /\ block \in [magic : BOOLEAN, game_pid : Games \union {None}, ready : {0, 1},
                  session_id : Ids]
    /\ image \in [Mains -> Games \union {None}]
    /\ init \in [Mains -> {"none", "hook", "hooked", "ended"} \union Waiting]
    /\ waited \in [Mains -> 0..WaitTime] /\ session \in [Mains -> Ids]
    /\ g_sessionId \in [Mains -> Ids \union {Garbage}]
    /\ rest \in [Mains -> Nat] /\ sent \in [Mains -> Ids \union {Garbage}]
    /\ age \in [Mains -> 0..MaxAge + 1] /\ timer \in [Mains -> Nat]
    /\ faults \in 0..MaxFaults
    /\ beat \subseteq Mains /\ failed \subseteq Mains /\ disturbed \subseteq Mains
    /\ clash \in BOOLEAN

Init ==
    /\ pc = [m \in Mains |-> "find"] /\ PID = [m \in Mains |-> None]
    /\ game = [g \in Games |-> "none"]
    /\ block = ZeroBlock
    /\ image = [m \in Mains |-> None] /\ init = [m \in Mains |-> "none"]
    /\ waited = [m \in Mains |-> 0] /\ session = [m \in Mains |-> NoId]
    /\ beat = {} /\ rest = [m \in Mains |-> 0] /\ sent = [m \in Mains |-> NoId]
    /\ g_sessionId = [m \in Mains |-> NoId]
    /\ age = [m \in Mains |-> MaxAge + 1] /\ timer = [m \in Mains |-> 0]
    /\ faults = 0
    /\ failed = {} /\ disturbed = {} /\ clash = FALSE

Fault == faults < MaxFaults /\ faults' = faults + 1

-----------------------------------------------------------------------------
(* The processes *)

\* One game at a time; it ends whenever the player likes.
StartGame(g) ==
    /\ game[g] = "none" /\ \A h \in 1..g - 1 : game[h] = "ended"
    /\ game' = [game EXCEPT ![g] = "up"]
    /\ UNCHANGED <<main_vars, block, module_vars, clocks, faults, disturbed, clash>>

\* The modules end with the game.
Ends(g) ==
    LET modules == {m \in Mains : image[m] = g}
    IN  /\ game' = [game EXCEPT ![g] = "ended"]
        /\ image' = [m \in Mains |-> IF m \in modules THEN None ELSE image[m]]
        /\ init' = [m \in Mains |-> IF m \in modules THEN "none" ELSE init[m]]
        /\ waited' = [m \in Mains |-> IF m \in modules THEN 0 ELSE waited[m]]
        /\ session' = [m \in Mains |-> IF m \in modules THEN NoId ELSE session[m]]
        /\ g_sessionId' = [m \in Mains |-> IF m \in modules THEN NoId ELSE g_sessionId[m]]
        /\ beat' = beat \ modules
        /\ rest' = [m \in Mains |-> IF m \in modules THEN 0 ELSE rest[m]]
        /\ sent' = [m \in Mains |-> IF m \in modules THEN NoId ELSE sent[m]]

EndGame(g) ==
    /\ game[g] = "up"
    /\ Ends(g)
    /\ UNCHANGED <<main_vars, block, clocks, faults, disturbed, clash>>

Go(m, next) == pc' = [pc EXCEPT ![m] = next]

\* Nothing stops a main but its user.
EndMain(m) ==
    /\ pc[m] \notin {"find", "gone"}
    /\ Go(m, "gone")
    /\ PID' = [PID EXCEPT ![m] = None]
    /\ UNCHANGED <<failed, game, block, module_vars, clocks, faults,
                   disturbed, clash>>

\* The main has been started, and get_process_id finds the game in the end.
FindGame(m) ==
    /\ pc[m] = "find" /\ \A n \in 1..m - 1 : pc[n] # "find"
    /\ \E g \in Games : game[g] = "up" /\ PID' = [PID EXCEPT ![m] = g]
    /\ Go(m, "map")
    /\ UNCHANGED <<failed, game, block, module_vars, clocks, faults,
                   disturbed, clash>>

-----------------------------------------------------------------------------
(* CreateForMain and WriteSession *)

InGame(m) == image[m] # None

\* The mapping exists as long as some process has a handle.  A main keeps its
\* own, WaitForSessionId holds one during a read.
Holders == {m \in Mains : pc[m] \in Writing \union {"inject", "join", "run"}}
Readers == {m \in Mains : InGame(m) /\ init[m] \in Reading \union {"is_magic"}}
Exists  == Holders \union Readers # {}

\* Mutant of MapBlock: a block that is there is taken as it is.
MapBlockOnly(m) ==
    /\ pc[m] = "map"
    /\ block' = IF Exists THEN block ELSE ZeroBlock
    /\ Go(m, IF Exists THEN "inject" ELSE "zero")
    /\ UNCHANGED <<PID, failed, game, module_vars, clocks, faults, disturbed, clash>>

\* CreateFileMapping opens the mapping if there is one, and makes it of zeros
\* otherwise.
MapBlock(m) ==
    /\ pc[m] = "map"
    /\ block' = IF Exists THEN block ELSE ZeroBlock
    /\ Go(m, "zero")
    /\ UNCHANGED <<PID, failed, game, module_vars, clocks, faults, disturbed, clash>>

\* The handler's thread starts, and sleeps.
StartHandler(m, next) ==
    /\ Go(m, next)
    /\ timer' = [timer EXCEPT ![m] = FirstCheck]

\* StartGameSession's result is ignored: the threads are started all the same,
\* in this case without its sleep of 2 seconds.
MapFails(m) ==
    /\ pc[m] = "map"
    /\ Fault
    /\ StartHandler(m, "unmapped")
    /\ failed' = failed \union {m}
    /\ UNCHANGED <<PID, game, block, module_vars, age, disturbed, clash>>

\* A module of m that will still read the block, or that m is going to inject.
Expects(m) ==
    \/ pc[m] \in Writing \union {"inject", "join"} /\ init[m] = "none"
    \/ InGame(m) /\ init[m] \in Waiting \ {"assign", "assigned"}

Write(m, from, to, new) ==
    /\ pc[m] = from
    /\ block' = new
    /\ Go(m, to)
    /\ disturbed' = disturbed \union {n \in Mains \ {m} : Expects(n)}
    /\ clash' = (clash \/ \E n \in Mains :
                     \/ n # m /\ pc[n] \in Writing
                     \/ n \in Readers)
    /\ UNCHANGED <<PID, failed, game, module_vars, clocks, faults>>

\* Mutant of WriteSession: ready is set before the id is there.
WriteSessionEarly(m) ==
    \/ Write(m, "zero", "zero_again", ZeroBlock)
    \/ Write(m, "zero_again", "magic", ZeroBlock)
    \/ Write(m, "magic", "game_pid", [block EXCEPT !.magic = TRUE])
    \/ Write(m, "game_pid", "ready", [block EXCEPT !.game_pid = PID[m]])
    \/ Write(m, "ready", "id_first", [block EXCEPT !.ready = 1])
    \/ Write(m, "id_first", "id_second", [block EXCEPT !.session_id.first = m])
    \/ Write(m, "id_second", "inject", [block EXCEPT !.session_id.second = m])

\* The string is copied byte by byte; ready is set last.
WriteSession(m) ==
    \/ Write(m, "zero", "zero_again", ZeroBlock)
    \/ Write(m, "zero_again", "magic", ZeroBlock)
    \/ Write(m, "magic", "game_pid", [block EXCEPT !.magic = TRUE])
    \/ Write(m, "game_pid", "id_first", [block EXCEPT !.game_pid = PID[m], !.ready = 0])
    \/ Write(m, "id_first", "id_second", [block EXCEPT !.session_id.first = m])
    \/ Write(m, "id_second", "ready", [block EXCEPT !.session_id.second = m])
    \/ Write(m, "ready", "inject", [block EXCEPT !.ready = 1])

-----------------------------------------------------------------------------
(* DllModuleInjection::Run *)

\* The file is not there: its headers are read through a null pointer.
FileMissing(m) ==
    /\ pc[m] = "inject"
    /\ Fault
    /\ Go(m, "gone")
    /\ failed' = failed \union {m}
    /\ UNCHANGED <<PID, game, block, module_vars, clocks, disturbed, clash>>

\* The game has ended, or memory, the thread or an import fails: no result is
\* looked at, there is just no module.
NotInjected(m) ==
    /\ pc[m] = "inject"
    /\ \/ game[PID[m]] = "up" /\ Fault
       \/ game[PID[m]] # "up" /\ UNCHANGED faults
    /\ Go(m, "join")
    /\ failed' = failed \union {m}
    /\ UNCHANGED <<PID, game, block, module_vars, clocks, disturbed, clash>>

\* LibraryLoader calls DllMain in the game, which starts its two threads.
Inject(m) ==
    /\ pc[m] = "inject"
    /\ game[PID[m]] = "up"
    /\ Go(m, "join")
    /\ image' = [image EXCEPT ![m] = PID[m]]
    /\ \E started \in SUBSET {"initialize", "HeartbeatThread"} :
           /\ init' = [init EXCEPT ![m] = IF "initialize" \in started THEN "open" ELSE "none"]
           /\ beat' = beat \union {n \in {m} : "HeartbeatThread" \in started}
           /\ IF Cardinality(started) = 2
              THEN UNCHANGED <<faults, failed>>
              ELSE Fault /\ failed' = failed \union {m}
    /\ UNCHANGED <<PID, game, block, waited, session, rest, sent, g_sessionId,
                   clocks, disturbed, clash>>

\* Mutant of Join: the handler checks as soon as it starts.
JoinUnrested(m) ==
    /\ pc[m] = "join"
    /\ Go(m, "run")
    /\ UNCHANGED <<PID, failed, game, block, module_vars, clocks, faults,
                   disturbed, clash>>

\* The main waits for the loader's thread, not for those of the module.
Join(m) ==
    /\ pc[m] = "join"
    /\ StartHandler(m, "run")
    /\ UNCHANGED <<PID, failed, game, block, module_vars, age, faults,
                   disturbed, clash>>

-----------------------------------------------------------------------------
(* The initialize thread: WaitForSessionId and ReadSession *)

Step(m, from, to) == InGame(m) /\ init[m] = from /\ init' = [init EXCEPT ![m] = to]

others == <<main_vars, game, block, image, beat, rest, sent, clocks, disturbed, clash>>

\* A read that fails is repeated, for as long as the timeout allows.
ReadFails(m) ==
    /\ init' = [init EXCEPT ![m] = IF waited[m] < WaitTime THEN "open" ELSE "ended"]
    /\ waited' = [waited EXCEPT ![m] = IF waited[m] < WaitTime THEN @ ELSE 0]

OpenForDll(m) ==
    /\ InGame(m) /\ init[m] = "open"
    /\ IF Exists
       THEN init' = [init EXCEPT ![m] = "is_magic"] /\ UNCHANGED waited
       ELSE ReadFails(m)
    /\ UNCHANGED <<others, session, g_sessionId, faults>>

\* A mapping that is there cannot be opened, or not be mapped.
OpenFails(m) ==
    /\ InGame(m) /\ init[m] = "open" /\ Exists
    /\ Fault /\ failed' = failed \union {m}
    /\ ReadFails(m)
    /\ UNCHANGED <<pc, PID, game, block, image, session, beat, rest, sent, g_sessionId,
                   clocks, disturbed, clash>>

Accepted(m, field) ==
    \/ field = "is_magic" /\ block.magic
    \/ field = "is_ready" /\ block.ready = 1
    \/ field = "is_game" /\ block.game_pid = image[m]

Check(m, field, next) ==
    /\ InGame(m) /\ init[m] = field
    /\ IF Accepted(m, field)
       THEN init' = [init EXCEPT ![m] = next] /\ UNCHANGED waited
       ELSE ReadFails(m)
    /\ UNCHANGED <<others, session, g_sessionId, faults>>

\* The string is read byte by byte, up to the first zero.
ReadFirst(m) ==
    /\ InGame(m) /\ init[m] = "read_first"
    /\ session' = [session EXCEPT ![m].first = block.session_id.first]
    /\ IF block.session_id.first # None
       THEN init' = [init EXCEPT ![m] = "read_second"] /\ UNCHANGED waited
       ELSE ReadFails(m)
    /\ UNCHANGED <<others, g_sessionId, faults>>

ReadSecond(m) ==
    /\ Step(m, "read_second", "assign")
    /\ session' = [session EXCEPT ![m].second = block.session_id.second]
    /\ UNCHANGED <<others, waited, g_sessionId, faults>>

ReadSession(m) ==
    \/ Check(m, "is_magic", "is_ready")
    \/ Check(m, "is_ready", "is_game")
    \/ Check(m, "is_game", "read_first")
    \/ ReadFirst(m) \/ ReadSecond(m)

\* g_sessionId is a string without a lock.
AssignBegins(m) ==
    /\ Step(m, "assign", "assigned")
    /\ g_sessionId' = [g_sessionId EXCEPT ![m] = Garbage]
    /\ UNCHANGED <<others, waited, session, faults>>

AssignEnds(m) ==
    /\ Step(m, "assigned", "hook")
    /\ g_sessionId' = [g_sessionId EXCEPT ![m] = session[m]]
    /\ waited' = [waited EXCEPT ![m] = 0] /\ session' = [session EXCEPT ![m] = NoId]
    /\ UNCHANGED <<others, faults>>

WaitForSessionId(m) ==
    OpenForDll(m) \/ ReadSession(m) \/ AssignBegins(m) \/ AssignEnds(m)

\* When the game has loaded serverbrowser.dll, however long that takes.
InstallHooks(m) ==
    /\ Step(m, "hook", "hooked")
    /\ UNCHANGED <<others, waited, session, g_sessionId, faults>>

\* An exception ends this thread; FreeLibraryAndExitThread does not know an
\* image that was mapped by hand, so the module and its heartbeats stay.
HooksFail(m) ==
    /\ Step(m, "hook", "ended")
    /\ Fault
    /\ UNCHANGED <<others, waited, session, g_sessionId>>

\* Ctrl and End: in the same way only this thread ends.
Unload(m) ==
    /\ Step(m, "hooked", "ended")
    /\ UNCHANGED <<others, waited, session, g_sessionId, faults>>

initialize(m) ==
    \/ WaitForSessionId(m) \/ OpenFails(m)
    \/ InstallHooks(m) \/ HooksFail(m) \/ Unload(m)

-----------------------------------------------------------------------------
(* The heartbeat thread *)

Beats(m) == InGame(m) /\ m \in beat /\ rest[m] = 0

Rest(m, time) == rest' = [rest EXCEPT ![m] = time]

\* Nothing is sent while the id is empty.  While the string is assigned to, it
\* does not look empty.
BeatBegins(m) ==
    /\ Beats(m) /\ sent[m] = NoId
    /\ sent' = [sent EXCEPT ![m] = g_sessionId[m]]
    /\ Rest(m, IF g_sessionId[m] = NoId THEN BeatPeriod ELSE MaxDelay)
    /\ UNCHANGED <<main_vars, game, block, image, init, waited, session, beat, g_sessionId,
                   clocks, faults, disturbed, clash>>

\* The answer is there, or the request failed.
BeatEnds(m) ==
    /\ InGame(m) /\ m \in beat /\ sent[m] # NoId
    /\ sent' = [sent EXCEPT ![m] = NoId]
    /\ Rest(m, BeatPeriod)
    /\ UNCHANGED <<pc, PID, game, block, image, init, waited, session, beat, g_sessionId,
                   timer, disturbed, clash>>

\* heartbeat.php stamps the session.
Stamp(m) ==
    /\ BeatEnds(m)
    /\ age' = [n \in Mains |-> IF Id(n) = sent[m] THEN 0 ELSE age[n]]
    /\ UNCHANGED <<failed, faults>>

\* The failure only sets the module's own should_quit_game, which nobody reads.
HeartbeatLost(m) ==
    /\ BeatEnds(m)
    /\ Fault /\ failed' = failed \union {m}
    /\ UNCHANGED age

HeartbeatThread(m) == BeatBegins(m) \/ Stamp(m)

-----------------------------------------------------------------------------
(* The handler *)

\* The handler's thread runs, with or without a block.
Supervises(m) == pc[m] \in {"run", "unmapped"} /\ PID[m] # None

\* The handler asks when it has slept, at once or after the other requests of
\* its round.
Asks(m) == Supervises(m) /\ timer[m] = 0

\* TerminateProcessByPID, for a game that is still there, and the reset of PID.
CloseGame(m) ==
    /\ IF game[PID[m]] = "up"
       THEN Ends(PID[m]) ELSE UNCHANGED <<game, module_vars>>
    /\ PID' = [PID EXCEPT ![m] = None]
    /\ UNCHANGED <<pc, block, clocks, disturbed, clash>>

\* check_dll.php says OK: the handler sleeps again.
ModuleAlive(m) ==
    /\ Asks(m) /\ age[m] <= MaxAge
    /\ timer' = [timer EXCEPT ![m] = CheckPeriod]
    /\ UNCHANGED <<main_vars, game, block, module_vars, age, faults, disturbed, clash>>

\* Mutant of ModuleDead: without a module there is nothing to check.
ModuleDeadInjected(m) ==
    /\ Asks(m) /\ age[m] > MaxAge /\ InGame(m)
    /\ CloseGame(m) /\ UNCHANGED <<failed, faults>>

\* Mutant of ModuleDead: the stamp of any session will do.
ModuleDeadEverywhere(m) ==
    /\ Asks(m) /\ \A n \in Mains : age[n] > MaxAge
    /\ CloseGame(m) /\ UNCHANGED <<failed, faults>>

\* There is no stamp of the session, or it is too old.
ModuleDead(m) ==
    /\ Asks(m) /\ age[m] > MaxAge
    /\ CloseGame(m) /\ UNCHANGED <<failed, faults>>

CheckModule(m) == ModuleAlive(m) \/ ModuleDead(m)

\* Whatever else comes back, a torn stamp's "BAD" (Watchdog) included.
CheckFails(m) ==
    /\ Asks(m)
    /\ Fault /\ failed' = failed \union {m}
    /\ CloseGame(m)

-----------------------------------------------------------------------------
(* Time *)

\* No thread oversleeps, and no heartbeat takes longer than MaxDelay.
Overdue(m) ==
    \/ InGame(m) /\ init[m] \in Waiting /\ waited[m] = WaitTime
    \/ Beats(m)

Less(clock) == [m \in Mains |-> IF clock[m] = 0 THEN 0 ELSE clock[m] - 1]

Tick ==
    /\ \A m \in Mains : ~Overdue(m)
    /\ waited' = [m \in Mains |-> IF init[m] \in Waiting THEN waited[m] + 1 ELSE waited[m]]
    /\ rest' = Less(rest)
    /\ age' = [m \in Mains |-> IF age[m] <= MaxAge THEN age[m] + 1 ELSE age[m]]
    /\ timer' = Less(timer)
    /\ UNCHANGED <<main_vars, game, block, image, init, session, beat, sent, g_sessionId,
                   faults, disturbed, clash>>

-----------------------------------------------------------------------------

MainStep(m) ==
    MapBlock(m) \/ WriteSession(m) \/ Inject(m) \/ Join(m) \/ CheckModule(m)

Next ==
    \/ Tick
    \/ \E g \in Games : StartGame(g) \/ EndGame(g)
    \/ \E m \in Mains :
        \/ FindGame(m) \/ EndMain(m)
        \/ MainStep(m) \/ MapFails(m) \/ FileMissing(m) \/ NotInjected(m)
        \/ initialize(m)
        \/ HeartbeatThread(m) \/ HeartbeatLost(m) \/ CheckFails(m)

\* Time passes and threads that can go on do; the user, the game's loading of its
\* libraries and the failures need not.
Fairness ==
    /\ WF_vars(Tick)
    /\ \A m \in Mains :
        /\ WF_vars(MainStep(m) \/ NotInjected(m))
        /\ WF_vars(WaitForSessionId(m))
        /\ WF_vars(HeartbeatThread(m))

Spec == Init /\ [][Next]_vars /\ Fairness

-----------------------------------------------------------------------------
(* Properties *)

\* INVARIANT.  The id a module takes for its session is that of one main, which
\* looks after the same game if it still runs: never a prefix, a mixture or that
\* of another game, unless two mains wrote at once or one wrote during a read.
\* ready is set after the id and tested before it (ac_shared.cpp:85-119).
IdIsWhole ==
    ~clash => \A m \in Mains :
        \/ g_sessionId[m] \in {NoId, Garbage}
        \/ \E n \in Mains : g_sessionId[m] = Id(n) /\ PID[n] \in {None, image[m]}

\* INVARIANT.  It is the id of the main that injected the module, unless another
\* main wrote the block in between (Ring3AC.cpp:26-38).
IdIsThatOfTheMain ==
    \A m \in Mains \ disturbed : g_sessionId[m] \in {Id(m), NoId, Garbage}

\* ACTION PROPERTY.  The handler closes a game for want of heartbeats only if a
\* call or a request of it or of its module failed, or another main took its
\* block before the module had read it: the sleeps alone bring the first
\* heartbeat before the first check, and the next before the stamp is too old
\* (Handler.cpp:275-300, DllMain.cpp:7-25 and 134-146, check_dll.php:51).
ClosedForAReason ==
    [][\A m \in Mains :
           Supervises(m) /\ pc'[m] # "gone" /\ PID'[m] = None /\ game[PID[m]] = "up"
           => m \in failed' \union disturbed]_vars

\* LIVENESS.  A start-up that went wrong is not forgotten: the game of a running
\* main ends, unless heartbeats with its id go on arriving (Ring3AC.cpp:148,
\* DllMain.cpp:150-155).
UnattendedGameEnds ==
    \A m \in Mains :
        Supervises(m) /\ (\E g \in Games : PID[m] = g /\ game[g] = "up")
        ~> \/ pc[m] = "gone" \/ age[m] <= MaxAge
           \/ \A g \in Games : game[g] # "up"
=============================================================================
