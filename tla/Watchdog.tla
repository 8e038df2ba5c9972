------------------------------ MODULE Watchdog ------------------------------
(***************************************************************************)
(* "Is the DLL alive?": the heartbeat thread of the game module makes      *)
(* heartbeat.php stamp a file, the handler of the main application asks    *)
(* check_dll.php how old the stamp is and closes the game when it is not   *)
(* told OK.                                                                *)
(*                                                                         *)
(* Time is discrete: a Tick is the clock of the server moving on to the    *)
(* next second.  A thread whose sleep is over acts before the next Tick,   *)
(* and a request spans at most MaxDelay Ticks.                             *)
(***************************************************************************)
EXTENDS Naturals

CONSTANTS
    MaxDelay,      \* Ticks a request may take
    MaxLosses,     \* heartbeats in a row that may get lost
    TornReads,     \* may a check read the stamp file while it is rewritten?
    FailingChecks, \* may a check request fail?
    DllDies        \* may the module stop, or never start?

ASSUME DelayAssumption == MaxDelay \in Nat /\ MaxLosses \in Nat
ASSUME SwitchAssumption == {TornReads, FailingChecks, DllDies} \subseteq BOOLEAN

BeatPeriod  == 5        \* HeartbeatThread
FirstCheck  == 2 + 20   \* StartGameSession, then cheat_hndl
CheckPeriod == 10       \* cheat_hndl
MaxAgeTen == 10         \* mutant of MaxAge

MaxAge      == 15       \* check_dll.php

VARIABLES
    dll,       \* "running" or "dead"
    beat,      \* where the heartbeat thread (or its last request) is
    beatTimer, \* seconds left to sleep, or Ticks spent in the request
    lost,      \* heartbeats lost since the last stamp
    file,      \* heartbeat/<session>.txt
    age,       \* seconds since the last stamp, or the start; up to MaxAge + 1
    check,     \* where cheat_hndl is
    checkTimer,
    alive,     \* dllAlive of cheat_hndl
    deadFor,   \* history: seconds since the module stopped
    misread    \* history: has a check failed or read a torn stamp?

module  == <<dll, beat, beatTimer, lost, file, age>>
handler == <<check, checkTimer, alive>>
history == <<deadFor, misread>>
vars == <<module, handler, history>>

\* A stopped module is noticed after at most this many seconds: the last
\* request in flight, the stamp growing old, a check period and the requests
\* of two rounds of the handler.
Latency == MaxAge + CheckPeriod + 5 * MaxDelay

TypeOK ==
    /\ dll \in {"running", "dead"}
    /\ beat \in {"sleep", "request", "write", "reply"}
    /\ beatTimer \in 0..(BeatPeriod + MaxDelay)
    /\ lost \in 0..MaxLosses
    /\ file \in {"absent", "torn", "whole"}
    /\ age \in 0..MaxAge + 1
    /\ check \in {"sleep", "process", "check", "ban", "closed"}
    /\ checkTimer \in 0..(FirstCheck + MaxDelay)
    /\ alive \in BOOLEAN
    /\ deadFor \in 0..Latency + 1 /\ misread \in BOOLEAN

\* The thread starts before or after the session id is known; a module that
\* never gets one never beats.
Init ==
    /\ dll \in IF DllDies THEN {"running", "dead"} ELSE {"running"}
    /\ beat = "sleep" /\ beatTimer \in {0, BeatPeriod}
    /\ lost = 0 /\ file = "absent" /\ age = 0
    /\ check = "sleep" /\ checkTimer = FirstCheck /\ alive = TRUE
    /\ deadFor = 0 /\ misread = FALSE

-----------------------------------------------------------------------------
(* Time *)

Request(timer) == timer < MaxDelay

BeatMayWait ==
    \/ beat = "sleep" /\ (beatTimer > 0 \/ dll = "dead")
    \/ beat \in {"request", "reply"} /\ Request(beatTimer)

CheckMayWait ==
    \/ check = "sleep" /\ checkTimer > 0
    \/ check \in {"process", "check", "ban"} /\ Request(checkTimer)

Tick ==
    /\ check # "closed" /\ BeatMayWait /\ CheckMayWait
    /\ beatTimer' = IF beat # "sleep" THEN beatTimer + 1
                    ELSE IF beatTimer > 0 THEN beatTimer - 1 ELSE 0
    /\ checkTimer' = IF check = "sleep" THEN checkTimer - 1 ELSE checkTimer + 1
    /\ age' = IF age <= MaxAge THEN age + 1 ELSE age
    /\ deadFor' = IF dll = "dead" /\ deadFor <= Latency THEN deadFor + 1 ELSE deadFor
    /\ UNCHANGED <<dll, beat, lost, file, check, alive, misread>>

-----------------------------------------------------------------------------
(* HeartbeatThread and heartbeat.php *)

SendHeartbeat ==
    /\ dll = "running" /\ beat = "sleep" /\ beatTimer = 0
    /\ beat' = "request"
    /\ UNCHANGED <<dll, beatTimer, lost, file, age, handler, history>>

\* file_put_contents without a lock: truncate, then write time().
Truncate ==
    /\ beat = "request"
    /\ beat' = "write"
    /\ file' = "torn"
    /\ UNCHANGED <<dll, beatTimer, lost, age, handler, history>>

Stamp ==
    /\ beat = "write"
    /\ beat' = "reply"
    /\ file' = "whole" /\ age' = 0 /\ lost' = 0
    /\ UNCHANGED <<dll, beatTimer, handler, history>>

\* The answer is there, or the request failed; the failure only sets the
\* module's own should_quit_game, which nobody reads.
Sleep == beat' = "sleep" /\ beatTimer' = BeatPeriod

Reply ==
    /\ beat = "reply" /\ Sleep
    /\ UNCHANGED <<dll, lost, file, age, handler, history>>

Lose ==
    /\ beat = "request" /\ Sleep
    /\ lost < MaxLosses /\ lost' = lost + 1
    /\ UNCHANGED <<dll, file, age, handler, history>>

Die ==
    /\ DllDies /\ dll = "running"
    /\ dll' = "dead"
    /\ UNCHANGED <<beat, beatTimer, lost, file, age, handler, history>>

-----------------------------------------------------------------------------
(* cheat_hndl and check_dll.php *)

Enter(from, to) == check = from /\ check' = to /\ checkTimer' = 0

Wake ==
    /\ checkTimer = 0 /\ Enter("sleep", "process")
    /\ UNCHANGED <<module, alive, history>>

ProcessSession ==
    /\ Enter("process", "check")
    /\ UNCHANGED <<module, alive, history>>

\* Mutant of CheckDLLAlive: WAIT is taken for OK.
CheckDLLAliveWaits ==
    /\ Enter("check", "ban")
    /\ alive' = (file = "absent" \/ age <= MaxAge)
    /\ UNCHANGED <<module, history>>

\* check_dll.php answers OK; no file is WAIT and a torn file is the stamp 0.
check_dll == file = "whole" /\ age <= MaxAge

CheckDLLAlive ==
    /\ Enter("check", "ban")
    /\ \/ /\ file = "torn" => TornReads
          /\ alive' = check_dll
          /\ misread' = (misread \/ file = "torn")
       \/ FailingChecks /\ alive' = FALSE /\ misread' = TRUE
    /\ UNCHANGED <<module, deadFor>>

\* Mutant of Act: every sleep is as long as the first one.
ActSlowly ==
    /\ check = "ban"
    /\ \/ alive  /\ check' = "sleep"  /\ checkTimer' = FirstCheck
       \/ ~alive /\ check' = "closed" /\ checkTimer' = 0
    /\ UNCHANGED <<module, alive, history>>

\* After the ban check the game is closed, or the handler sleeps.
Act ==
    /\ check = "ban"
    /\ \/ alive  /\ check' = "sleep"  /\ checkTimer' = CheckPeriod
       \/ ~alive /\ check' = "closed" /\ checkTimer' = 0
    /\ UNCHANGED <<module, alive, history>>

-----------------------------------------------------------------------------
Next ==
    \/ Tick
    \/ SendHeartbeat \/ Truncate \/ Stamp \/ Reply \/ Lose \/ Die
    \/ Wake \/ ProcessSession \/ CheckDLLAlive \/ Act

Spec == Init /\ [][Next]_vars

\* The clock and the threads go on.
FairSpec == Spec /\ WF_vars(Next)

-----------------------------------------------------------------------------
(* Properties *)

\* INVARIANT, when delays and losses fit into MaxAge.  The handler closes the
\* game of a module that runs only after a check that failed or read a torn
\* stamp: neither the start of the two programs nor late or lost heartbeats
\* are enough (the 15 seconds of check_dll.php:51 against the 5 of
\* DllMain.cpp:144 and the 22 before the first check).
NoFalseQuit == check = "closed" => dll = "dead" \/ misread

\* INVARIANT.  A module that stopped, or never got a session, is noticed
\* within Latency seconds, wherever the two loops stand when it happens.
DeathIsNoticed == deadFor <= Latency

\* LIVENESS.  A stopped module closes the game (Handler.cpp:300-320).
DeathClosesGame == dll = "dead" ~> check = "closed"

\* VIOLATED.  DllMain.cpp:32 says of the heartbeat "is dll alive? check - if
\* not and we are in game, we close the game"; it also closes the game of a
\* module that runs, when the check reads the file between truncation and
\* write (heartbeat.php:36, check_dll.php:46).
ClosedOnlyWhenDead == check = "closed" => dll = "dead"
=============================================================================
