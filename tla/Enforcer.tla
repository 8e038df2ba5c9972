------------------------------ MODULE Enforcer ------------------------------
(***************************************************************************)
(* The main application (Ring3AC.exe): main, the handler thread, the       *)
(* process scan, the virtual machine thread and the mouse hook share the   *)
(* unsynchronised global `info` and terminate the process whose id is      *)
(* info.PID.  Each access to `info` is a step of its own.                  *)
(*                                                                         *)
(* The environment starts and ends processes (ids are reused), makes and   *)
(* withdraws offences, and injects mouse events.                           *)
(***************************************************************************)
EXTENDS Naturals, FiniteSets

CONSTANTS
    Pids,          \* process ids, all different from 0
    Offences,      \* the offences that may occur, a subset of AllOffences
    Limit,         \* injected mouse events that close the game: 5 in the code
    MaxEvents,     \* bound on the number of injected mouse events
    MaxLaunches,   \* bound on the number of times the game is started
    MaxFailures    \* bound on the number of failing terminations

\* dll: check_dll.php does not answer OK; ban: check_ban.php answers banned;
\* debugger, tool, vm: a debugger, a suspicious process, a virtual machine.
AllOffences == {"dll", "ban", "debugger", "tool", "vm"}

ASSUME PidsAssumption == Pids \subseteq Nat \ {0}
ASSUME OffencesAssumption == Offences \subseteq AllOffences
ASSUME LimitAssumption == Limit \in Nat \ {0}
ASSUME BoundsAssumption == {MaxEvents, MaxLaunches, MaxFailures} \subseteq Nat

VARIABLES
    PID, injected_input_detection, should_quit_game,  \* info
    main,      \* where main is
    handler,   \* where cheat_hndl is
    answer,    \* dllAlive and banned of cheat_hndl, as offences
    hook,      \* the count read by the mouse hook and not yet written
    owner,     \* what runs under each process id
    present,   \* the offences that hold now
    launches, failures,
    events,    \* history: injected mouse events so far
    observed,  \* history: offences that some thread has seen
    closed     \* history: what the application terminated

info == <<PID, injected_input_detection, should_quit_game>>
system == <<owner, present, launches, failures>>
history == <<events, observed, closed>>
vars == <<info, main, handler, answer, hook, system, history>>

None == MaxEvents + 1       \* the hook has nothing to write

TypeOK ==
    /\ PID \in Pids \cup {0}
    /\ injected_input_detection \in 0..MaxEvents
    /\ should_quit_game \in BOOLEAN
    /\ main \in {"search", "session", "threads"}
    /\ handler \in {"sleep", "dll", "ban", "decide", "count", "test", "kill",
                    "flag", "pid", "reset"}
    /\ answer \subseteq Offences \cap {"dll", "ban"}
    /\ hook \in 0..MaxEvents + 1
    /\ owner \in [Pids -> {"free", "game", "other"}]
    /\ present \subseteq Offences
    /\ launches \in 0..MaxLaunches
    /\ failures \in 0..MaxFailures
    /\ events \in 0..MaxEvents
    /\ observed \subseteq Offences \cup {"input"}
    /\ closed \subseteq {"game", "other"}

Init ==
    /\ PID = 0 /\ injected_input_detection = 0 /\ should_quit_game = FALSE
    /\ main = "search" /\ handler = "sleep" /\ answer = {} /\ hook = None
    /\ owner = [p \in Pids |-> "free"]
    /\ present = {} /\ launches = 0 /\ failures = 0
    /\ events = 0 /\ observed = {} /\ closed = {}

-----------------------------------------------------------------------------
(* main *)

\* Mutant of get_process_id: the name of the process is not compared.
get_any_process_id ==
    /\ main = "search"
    /\ \E p \in Pids : owner[p] # "free" /\ PID' = p
    /\ main' = "session"
    /\ UNCHANGED <<injected_input_detection, should_quit_game, handler,
                   answer, hook, system, history>>

\* One look at the process list; nothing found, nothing changed.
get_process_id ==
    /\ main = "search"
    /\ \E p \in Pids : owner[p] = "game" /\ PID' = p
    /\ main' = "session"
    /\ UNCHANGED <<injected_input_detection, should_quit_game, handler,
                   answer, hook, system, history>>

\* StartGameSession, whose result is ignored, then the threads.
StartThreads ==
    /\ main = "session"
    /\ main' = "threads"
    /\ UNCHANGED <<info, handler, answer, hook, system, history>>

-----------------------------------------------------------------------------
(* Terminating the process info.PID *)

\* No process under this id (0 included) or access denied: nothing happens.
TerminateProcessByPID ==
    \/ /\ PID # 0 /\ owner[PID] # "free"
       /\ owner' = [owner EXCEPT ![PID] = "free"]
       /\ closed' = closed \cup {owner[PID]}
       /\ UNCHANGED failures
    \/ /\ PID # 0 /\ owner[PID] # "free"
       /\ failures < MaxFailures /\ failures' = failures + 1
       /\ UNCHANGED <<owner, closed>>
    \/ /\ PID # 0 => owner[PID] = "free"
       /\ UNCHANGED <<owner, closed, failures>>

\* IsRunningInVM: at once, and without forgetting the id.
VmScan ==
    /\ main = "threads" /\ "vm" \in present
    /\ TerminateProcessByPID
    /\ observed' = observed \cup {"vm"}
    /\ UNCHANGED <<info, main, handler, answer, hook, present, launches, events>>

-----------------------------------------------------------------------------
(* process_check and the mouse hook *)

ProcessCheck ==
    /\ main = "threads" /\ "tool" \in present
    /\ should_quit_game' = TRUE
    /\ observed' = observed \cup {"tool"}
    /\ UNCHANGED <<PID, injected_input_detection, main, handler, answer, hook,
                   system, events, closed>>

\* injected_input_detection++ reads and writes.
HookRead ==
    /\ main = "threads" /\ hook = None /\ events < MaxEvents
    /\ hook' = injected_input_detection
    /\ events' = events + 1
    /\ UNCHANGED <<info, main, handler, answer, system, observed, closed>>

HookWrite ==
    /\ hook # None
    /\ injected_input_detection' = hook + 1
    /\ hook' = None
    /\ UNCHANGED <<PID, should_quit_game, main, handler, answer, system, history>>

-----------------------------------------------------------------------------
(* cheat_hndl *)

Step(from, to) == handler = from /\ handler' = to

Wake ==
    /\ main = "threads" /\ Step("sleep", "dll")
    /\ answer' = {}
    /\ UNCHANGED <<info, main, hook, system, history>>

\* CheckDLLAlive, then IsSessionBanned.
Ask(question, next) ==
    /\ Step(question, next)
    /\ answer' = answer \cup ({question} \cap present)
    /\ UNCHANGED <<info, main, hook, system, history>>

\* The debugger check and the two answers.
Decide ==
    /\ Step("decide", "count")
    /\ LET seen == answer \cup ({"debugger"} \cap present)
       IN  /\ should_quit_game' = (should_quit_game \/ seen # {})
           /\ observed' = observed \cup seen
    /\ UNCHANGED <<PID, injected_input_detection, main, answer, hook, system,
                   events, closed>>

\* Mutant of CountInjected: off by one.
CountInjectedEarly ==
    /\ Step("count", "test")
    /\ IF injected_input_detection + 1 >= Limit
       THEN should_quit_game' = TRUE /\ observed' = observed \cup {"input"}
       ELSE UNCHANGED <<should_quit_game, observed>>
    /\ UNCHANGED <<PID, injected_input_detection, main, answer, hook, system,
                   events, closed>>

CountInjected ==
    /\ Step("count", "test")
    /\ IF injected_input_detection >= Limit
       THEN should_quit_game' = TRUE /\ observed' = observed \cup {"input"}
       ELSE UNCHANGED <<should_quit_game, observed>>
    /\ UNCHANGED <<PID, injected_input_detection, main, answer, hook, system,
                   events, closed>>

\* Mutant of TestFlag: the flag is cleared instead of acted upon.
TestFlagClears ==
    /\ Step("test", IF should_quit_game THEN "flag" ELSE "sleep")
    /\ UNCHANGED <<info, main, answer, hook, system, history>>

TestFlag ==
    /\ Step("test", IF should_quit_game THEN "kill" ELSE "sleep")
    /\ UNCHANGED <<info, main, answer, hook, system, history>>

Kill ==
    /\ Step("kill", "flag")
    /\ TerminateProcessByPID
    /\ UNCHANGED <<info, main, answer, hook, present, launches, events, observed>>

ClearFlag ==
    /\ Step("flag", "pid")
    /\ should_quit_game' = FALSE
    /\ UNCHANGED <<PID, injected_input_detection, main, answer, hook, system, history>>

ClearPid ==
    /\ Step("pid", "reset")
    /\ PID' = 0
    /\ UNCHANGED <<injected_input_detection, should_quit_game, main, answer,
                   hook, system, history>>

ClearInjected ==
    /\ Step("reset", "sleep")
    /\ injected_input_detection' = 0
    /\ UNCHANGED <<PID, should_quit_game, main, answer, hook, system, history>>

Handler ==
    \/ Wake \/ Ask("dll", "ban") \/ Ask("ban", "decide") \/ Decide
    \/ CountInjected \/ TestFlag \/ Kill \/ ClearFlag \/ ClearPid
    \/ ClearInjected

-----------------------------------------------------------------------------
(* The environment *)

Runs(kind) == \E p \in Pids : owner[p] = kind

Machine == UNCHANGED <<info, main, handler, answer, hook, failures, history>>

LaunchGame(p) ==
    /\ owner[p] = "free" /\ ~Runs("game")
    /\ launches < MaxLaunches /\ launches' = launches + 1
    /\ owner' = [owner EXCEPT ![p] = "game"]
    /\ UNCHANGED present /\ Machine

\* Another program gets the id.
LaunchOther(p) ==
    /\ owner[p] = "free" /\ ~Runs("other")
    /\ owner' = [owner EXCEPT ![p] = "other"]
    /\ UNCHANGED <<present, launches>> /\ Machine

Exit(p) ==
    /\ owner[p] # "free"
    /\ owner' = [owner EXCEPT ![p] = "free"]
    /\ UNCHANGED <<present, launches>> /\ Machine

\* A ban lasts; the other offences come and go.
Offend(o) ==
    /\ present' = IF o \in present THEN present \ ({o} \ {"ban"})
                  ELSE present \cup {o}
    /\ present' # present
    /\ UNCHANGED <<owner, launches>> /\ Machine

Environment ==
    \/ \E p \in Pids : LaunchGame(p) \/ LaunchOther(p) \/ Exit(p)
    \/ \E o \in Offences : Offend(o)

-----------------------------------------------------------------------------
Next ==
    \/ get_process_id \/ StartThreads
    \/ VmScan \/ ProcessCheck \/ HookRead \/ HookWrite
    \/ Handler
    \/ Environment

Spec == Init /\ [][Next]_vars

\* The threads of the application run; the environment owes nothing.
Fairness ==
    /\ WF_vars(get_process_id) /\ WF_vars(StartThreads)
    /\ WF_vars(VmScan) /\ WF_vars(ProcessCheck) /\ WF_vars(HookWrite)
    /\ WF_vars(Handler)

FairSpec == Spec /\ Fairness
-----------------------------------------------------------------------------
(* Properties *)

\* INVARIANT.  Nothing is terminated (Handler.cpp:274-324, AntiVM.cpp:189)
\* unless a thread has seen an offence or at least Limit mouse events were
\* injected: the racing increment and reset of the counter lose events but
\* never invent any.
KillJustified == closed # {} => observed \ {"input"} # {} \/ events >= Limit

\* LIVENESS.  A should_quit_game raised while the first game runs closes it,
\* unless a termination fails: although the handler resets the flag without
\* looking at who raised it in the meantime (Handler.cpp:318-321), no raised
\* flag is lost before the game is closed.
FlagClosesGame ==
    should_quit_game /\ Runs("game") /\ launches = 1 ~> ~Runs("game") \/ failures > 0

\* ACTION.  The handler clears should_quit_game without a lock and without
\* looking at who raised it since it tested it (Handler.cpp:318-321).  None of
\* these flags is lost: when it is cleared, the first game has been closed,
\* unless a termination failed.
NoFlagIsLost ==
    [][should_quit_game /\ ~should_quit_game' =>
         ~Runs("game") \/ failures > 0 \/ launches > 1]_vars

\* ACTION.  info.PID outlives its process and the id may be given to another
\* (Handler.cpp:320, AntiVM.cpp:189), but as long as the game that was found
\* runs, nothing else is terminated.
OthersAreSpared ==
    [][Runs("game") /\ launches = 1 => closed' \subseteq closed \cup {"game"}]_vars

\* VIOLATED.  Ring3AC.cpp:123 says "cheatengine - quit game"; but info.PID is
\* 0 for good after the first termination, and a game started again runs on.
ToolClosesGame ==
    ~<>[](main = "threads" /\ "tool" \in present /\ Runs("game"))
=============================================================================
