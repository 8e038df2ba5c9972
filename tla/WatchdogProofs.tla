--------------------------- MODULE WatchdogProofs ---------------------------
(***************************************************************************)
(* Why the handler never closes the game of a module that runs, for every  *)
(* request delay and number of lost heartbeats that 15 seconds allow.      *)
(***************************************************************************)
EXTENDS Watchdog, TLAPS

\* From one stamp to the next with every allowed loss, and no later.
Patience == MaxDelay + (MaxLosses + 1) * (BeatPeriod + MaxDelay) <= MaxAge

Round == BeatPeriod + MaxDelay

\* The time that lost heartbeats have cost since the last stamp.
Cost(n) == n * Round

USE DEF BeatPeriod, FirstCheck, CheckPeriod, MaxAge

LEMMA CostFacts ==
    /\ Round \in Nat /\ Cost(0) = 0
    /\ \A n \in Nat : Cost(n) \in Nat /\ Cost(n + 1) = Cost(n) + Round
    /\ \A n \in Nat : n <= MaxLosses => Cost(n) <= Cost(MaxLosses)
<1>1. Round \in Nat
  BY DelayAssumption DEF Round
<1> QED
  BY <1>1, DelayAssumption DEF Cost

\* The typing the argument needs.
Typed ==
    /\ beatTimer \in Nat /\ lost \in 0..MaxLosses /\ age \in Nat
    /\ checkTimer \in Nat /\ beat \in {"sleep", "request", "write", "reply"}
    /\ file \in {"absent", "torn", "whole"} /\ dll \in {"running", "dead"}

\* How old the stamp can be while the module runs, by what it is doing.
Fresh ==
    /\ beat = "sleep" => age + beatTimer <= MaxDelay + BeatPeriod + Cost(lost)
    /\ beat \in {"request", "write"} =>
          /\ age <= MaxDelay + BeatPeriod + beatTimer + Cost(lost)
          /\ beatTimer <= MaxDelay
    /\ beat = "reply" => age <= beatTimer /\ beatTimer <= MaxDelay

\* Before the first stamp the handler sleeps its first 22 seconds.
Early ==
    file = "absent" => check = "sleep" /\ checkTimer + age = FirstCheck

Calm == ~misread => check # "closed" /\ (check = "ban" => alive)

IInv == Typed /\ (dll = "running" => Fresh /\ Early /\ Calm)

LEMMA InitIInv == Init => IInv
BY DelayAssumption, CostFacts DEF Init, IInv, Typed, Fresh, Early, Calm

\* While the module runs the stamp stays young enough for check_dll.php.
LEMMA Young ==
    ASSUME Patience, Typed, Fresh
    PROVE  age <= MaxAge
<1>1. Cost(lost) <= Cost(MaxLosses) /\ Cost(lost) \in Nat
  BY CostFacts, DelayAssumption DEF Typed
<1>2. MaxDelay + Cost(MaxLosses) + Round <= MaxAge
  <2>1. Cost(MaxLosses + 1) = Cost(MaxLosses) + Round
    BY CostFacts, DelayAssumption
  <2> QED
    BY <2>1, CostFacts, DelayAssumption DEF Patience, Cost, Round
<1>3. Cost(MaxLosses) \in Nat
  BY CostFacts, DelayAssumption
<1> QED
  BY <1>1, <1>2, <1>3, DelayAssumption DEF Typed, Fresh, Round

LEMMA NextIInv ==
    ASSUME Patience, IInv, [Next]_vars
    PROVE  IInv'
<1> USE DelayAssumption, CostFacts DEF IInv, module, handler, history
<1>0. Cost(lost) \in Nat
  BY DEF Typed
<1>1. CASE Tick
  <2>1. UNCHANGED <<dll, beat, lost, file, check, alive>> /\ age' <= age + 1
    BY <1>1 DEF Tick, Typed
  <2>2. Typed'
    BY <1>1, <2>1 DEF Tick, BeatMayWait, CheckMayWait, Request, Typed
  <2>3. ASSUME dll = "running" PROVE Fresh'
    <3>1. CASE beat = "sleep"
      BY <1>0, <1>1, <2>1, <2>2, <2>3, <3>1 DEF Tick, BeatMayWait, Typed, Fresh
    <3>2. CASE beat \in {"request", "reply"}
      BY <1>0, <1>1, <2>1, <2>2, <2>3, <3>2 DEF Tick, BeatMayWait, Request, Typed, Fresh
    <3> QED
      BY <1>1, <3>1, <3>2 DEF Tick, BeatMayWait
  <2>4. ASSUME dll = "running" PROVE Early' /\ Calm'
    <3>1. age <= 15
      BY <2>4, Young
    <3>2. age' = age + 1
      BY <1>1, <3>1 DEF Tick
    <3> QED
      BY <1>1, <2>1, <2>4, <3>2 DEF Tick, CheckMayWait, Typed, Early, Calm
  <2> QED
    BY <2>1, <2>2, <2>3, <2>4
<1>2. CASE SendHeartbeat
  BY <1>0, <1>2 DEF SendHeartbeat, Typed, Fresh, Early, Calm
<1>3. CASE Truncate
  BY <1>0, <1>3 DEF Truncate, Typed, Fresh, Early, Calm
<1>4. CASE Stamp
  BY <1>0, <1>4 DEF Stamp, Typed, Fresh, Early, Calm
<1>5. CASE Reply
  BY <1>0, <1>5 DEF Reply, Sleep, Typed, Fresh, Early, Calm
<1>6. CASE Lose
  <2>1. Cost(lost') = Cost(lost) + Round
    BY <1>6 DEF Lose, Typed
  <2> QED
    BY <1>0, <1>6, <2>1 DEF Lose, Sleep, Typed, Fresh, Early, Calm, Round
<1>7. CASE Die
  BY <1>7 DEF Die, Typed
<1>8. CASE Wake
  <2>1. dll = "running" => file # "absent"
    <3> SUFFICES ASSUME dll = "running", file = "absent" PROVE FALSE
      OBVIOUS
    <3>1. age <= 15
      BY Young
    <3>2. checkTimer + age = 22 /\ checkTimer = 0
      BY <1>8 DEF Wake, Early
    <3> QED
      BY <3>1, <3>2 DEF Typed
  <2> QED
    BY <1>8, <2>1 DEF Wake, Enter, Typed, Fresh, Early, Calm
<1>9. CASE ProcessSession
  BY <1>9 DEF ProcessSession, Enter, Typed, Fresh, Early, Calm
<1>10. CASE CheckDLLAlive
  <2>1. dll = "running" => file # "absent" /\ age <= MaxAge
    BY <1>10, Young DEF CheckDLLAlive, Enter, Early
  <2>2. dll = "running" => misread' \/ alive'
    BY <1>10, <2>1 DEF CheckDLLAlive, check_dll, Typed
  <2>3. Enter("check", "ban") /\ UNCHANGED <<module, deadFor>>
    BY <1>10 DEF CheckDLLAlive
  <2> QED
    BY <2>2, <2>3 DEF Enter, Typed, Fresh, Early, Calm
<1>11. CASE Act
  BY <1>11 DEF Act, Typed, Fresh, Early, Calm
<1>12. CASE UNCHANGED vars
  BY <1>12 DEF vars, Typed, Fresh, Early, Calm
<1> QED
  BY <1>1, <1>2, <1>3, <1>4, <1>5, <1>6, <1>7, <1>8, <1>9, <1>10, <1>11, <1>12
  DEF Next

\* A module that runs is only declared dead by a check that failed or read a
\* torn stamp, as long as the delays and losses of heartbeats fit into the 15
\* seconds of check_dll.php:51.
THEOREM SpecNoFalseQuit ==
    ASSUME Patience
    PROVE  Spec => []NoFalseQuit
<1>1. IInv /\ [Next]_vars => IInv'
  BY NextIInv
<1>2. IInv => NoFalseQuit
  BY DEF IInv, Typed, Calm, NoFalseQuit
<1> QED
  BY <1>1, <1>2, InitIInv, PTL DEF Spec
-----------------------------------------------------------------------------
(* How long a stopped module goes unnoticed, for every delay *)

\* How long the timers run in each step of the two loops.
Timed ==
    /\ beat = "sleep" => beatTimer <= BeatPeriod
    /\ beat # "sleep" => beatTimer <= MaxDelay
    /\ check = "sleep" => checkTimer <= FirstCheck
    /\ check \in {"process", "check", "ban"} => checkTimer <= MaxDelay
    /\ check = "closed" => checkTimer = 0

\* A module that stopped still stamps, but only with the request it was in; so
\* its last stamp is no more than MaxDelay younger than its end.
LastStamp ==
    /\ dll = "running" => deadFor = 0
    /\ beat \in {"request", "write"} => deadFor <= beatTimer
    /\ age <= MaxAge => deadFor <= MaxDelay + age

\* The handler found the stamp young at most MaxAge seconds after that, and does
\* not a second time: what it has still to do, step by step.
Overdue ==
    /\ check = "sleep" => deadFor + checkTimer <= MaxAge + CheckPeriod + 2 * MaxDelay
    /\ check = "process" => deadFor <= MaxAge + CheckPeriod + 2 * MaxDelay + checkTimer
    /\ check = "check" => deadFor <= MaxAge + CheckPeriod + 3 * MaxDelay + checkTimer
    /\ check = "ban" => deadFor <= IF alive THEN MaxAge + MaxDelay + checkTimer
                                   ELSE MaxAge + CheckPeriod + 4 * MaxDelay + checkTimer
    /\ check = "closed" => deadFor <= Latency

NoticeInv == TypeOK /\ Timed /\ LastStamp /\ Overdue

LEMMA InitNoticeInv == Init => NoticeInv
<1> SUFFICES ASSUME Init PROVE NoticeInv
  OBVIOUS
<1>1. alive \in BOOLEAN /\ misread \in BOOLEAN
  BY Zenon DEF Init
<1> QED
  BY <1>1, DelayAssumption DEF Init, NoticeInv, TypeOK, Timed, LastStamp, Overdue, Latency

LEMMA NextNoticeInv ==
    ASSUME NoticeInv, [Next]_vars
    PROVE  NoticeInv'
<1> USE DelayAssumption DEF NoticeInv, module, handler, history
<1>1. CASE Tick
  <2>1. /\ UNCHANGED <<dll, beat, lost, file, check, alive, misread>>
        /\ check # "closed" /\ BeatMayWait /\ CheckMayWait
        /\ deadFor' \in {deadFor, deadFor + 1} /\ deadFor' \in 0..Latency + 1
        /\ dll = "running" => deadFor' = deadFor
        /\ age' = IF age <= MaxAge THEN age + 1 ELSE age
    BY <1>1 DEF Tick, TypeOK, Latency
  <2>2. /\ beat = "sleep" => beatTimer' <= beatTimer /\ beatTimer' \in Nat
        /\ beat # "sleep" => beatTimer' = beatTimer + 1 /\ beatTimer < MaxDelay
        /\ beat # "write"
    BY <1>1, <2>1 DEF Tick, TypeOK, BeatMayWait, Request
  <2>3. /\ check = "sleep" => checkTimer' = checkTimer - 1 /\ checkTimer' \in Nat
        /\ check # "sleep" => checkTimer' = checkTimer + 1 /\ checkTimer < MaxDelay
    BY <1>1, <2>1 DEF Tick, TypeOK, CheckMayWait, Request
  <2>4. Timed'
    BY <2>1, <2>2, <2>3 DEF Timed, TypeOK
  <2>5. TypeOK'
    BY <2>1, <2>2, <2>3, <2>4 DEF Timed, TypeOK
  <2>6. LastStamp'
    BY <2>1, <2>2 DEF LastStamp, TypeOK
  <2>7. Overdue'
    BY <2>1, <2>3 DEF Overdue, TypeOK
  <2> QED
    BY <2>4, <2>5, <2>6, <2>7
<1>2. CASE SendHeartbeat
  BY <1>2 DEF SendHeartbeat, TypeOK, Timed, LastStamp, Overdue
<1>3. CASE Truncate
  BY <1>3 DEF Truncate, TypeOK, Timed, LastStamp, Overdue
<1>4. CASE Stamp
  BY <1>4 DEF Stamp, TypeOK, Timed, LastStamp, Overdue
<1>5. CASE Reply
  BY <1>5 DEF Reply, Sleep, TypeOK, Timed, LastStamp, Overdue
<1>6. CASE Lose
  BY <1>6 DEF Lose, Sleep, TypeOK, Timed, LastStamp, Overdue
<1>7. CASE Die
  BY <1>7 DEF Die, TypeOK, Timed, LastStamp, Overdue
<1>8. CASE Wake
  BY <1>8 DEF Wake, Enter, TypeOK, Timed, LastStamp, Overdue
<1>9. CASE ProcessSession
  BY <1>9 DEF ProcessSession, Enter, TypeOK, Timed, LastStamp, Overdue
<1>10. CASE CheckDLLAlive
  <2>1. Enter("check", "ban") /\ UNCHANGED <<module, deadFor>>
    BY <1>10 DEF CheckDLLAlive
  <2>2. alive' \in BOOLEAN /\ misread' \in BOOLEAN
    BY <1>10, Zenon DEF CheckDLLAlive, check_dll, TypeOK
  <2>3. alive' => age <= MaxAge
    BY <1>10 DEF CheckDLLAlive, check_dll
  <2> QED
    BY <2>1, <2>2, <2>3 DEF Enter, TypeOK, Timed, LastStamp, Overdue
<1>11. CASE Act
  BY <1>11 DEF Act, TypeOK, Timed, LastStamp, Overdue, Latency
<1>12. CASE UNCHANGED vars
  BY <1>12 DEF vars, TypeOK, Timed, LastStamp, Overdue
<1> QED
  BY <1>1, <1>2, <1>3, <1>4, <1>5, <1>6, <1>7, <1>8, <1>9, <1>10, <1>11, <1>12
  DEF Next

LEMMA SpecNoticeInv == Spec => []NoticeInv
<1>1. NoticeInv /\ [Next]_vars => NoticeInv'
  BY NextNoticeInv
<1> QED
  BY <1>1, InitNoticeInv, PTL DEF Spec

\* The types, for all delays and losses.
THEOREM SpecTypeOK == Spec => []TypeOK
<1>1. NoticeInv => TypeOK
  BY DEF NoticeInv
<1> QED
  BY <1>1, SpecNoticeInv, PTL

\* A module that stopped, or never got a session, is noticed within Latency
\* seconds, whatever the delays and losses and wherever the two loops stand
\* (DllMain.cpp:134-148, Handler.cpp:274-327, check_dll.php:51).
THEOREM SpecDeathIsNoticed == Spec => []DeathIsNoticed
<1>1. NoticeInv => DeathIsNoticed
  BY DelayAssumption
  DEF NoticeInv, TypeOK, Timed, Overdue, DeathIsNoticed, Latency
<1> QED
  BY <1>1, SpecNoticeInv, PTL
=============================================================================
