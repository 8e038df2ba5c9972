--------------------------- MODULE EnforcerProofs ---------------------------
(***************************************************************************)
(* Proofs about Enforcer for any process ids, offences and bounds.         *)
(***************************************************************************)
EXTENDS Enforcer, TLAPS

\* The counter never exceeds the number of injected events, not even by the
\* write of an increment that read the counter before it was reset.
Counting ==
    /\ injected_input_detection <= events
    /\ hook # None => hook + 1 <= events
    /\ "input" \in observed => events >= Limit

\* What has been raised, is being acted on or was done has been observed.
Observing ==
    should_quit_game \/ handler = "kill" \/ closed # {} => observed # {}

IInv == TypeOK /\ Counting /\ Observing

LEMMA InitIInv == Init => IInv
<1> SUFFICES ASSUME Init PROVE IInv
  OBVIOUS
<1>1. TypeOK
  <2>1. should_quit_game \in BOOLEAN
    BY Zenon DEF Init
  <2>2. 0 \in 0..MaxEvents /\ 0 \in 0..MaxLaunches /\ 0 \in 0..MaxFailures
        /\ None \in 0..MaxEvents + 1
    BY BoundsAssumption DEF None
  <2> QED
    BY <2>1, <2>2 DEF Init, TypeOK
<1>2. Counting /\ Observing
  BY BoundsAssumption, LimitAssumption DEF Init, Counting, Observing
<1> QED
  BY <1>1, <1>2 DEF IInv

\* Terminating a process keeps the types and closes nothing unobserved.
LEMMA TerminateFacts ==
    ASSUME TypeOK, TerminateProcessByPID
    PROVE  /\ owner' \in [Pids -> {"free", "game", "other"}]
           /\ failures' \in 0..MaxFailures
           /\ closed' \subseteq {"game", "other"}
<1>1. CASE PID # 0 => owner[PID] = "free"
  BY <1>1 DEF TerminateProcessByPID, TypeOK
<1>2. CASE PID # 0 /\ owner[PID] # "free"
  <2>1. PID \in Pids /\ owner[PID] \in {"game", "other"}
    BY <1>2 DEF TypeOK
  <2>2. CASE UNCHANGED failures /\ owner' = [owner EXCEPT ![PID] = "free"]
             /\ closed' = closed \cup {owner[PID]}
    BY <2>1, <2>2 DEF TypeOK
  <2>3. CASE failures < MaxFailures /\ failures' = failures + 1 /\ UNCHANGED <<owner, closed>>
    BY <2>3, BoundsAssumption DEF TypeOK
  <2> QED
    BY <1>2, <2>2, <2>3 DEF TerminateProcessByPID
<1> QED
  BY <1>1, <1>2

LEMMA NextIInv == IInv /\ [Next]_vars => IInv'
<1> SUFFICES ASSUME IInv, [Next]_vars PROVE IInv'
  OBVIOUS
<1> USE DEF IInv, info, system, history
<1>0. /\ Limit \in Nat /\ MaxEvents \in Nat /\ MaxLaunches \in Nat /\ MaxFailures \in Nat
      /\ Offences \subseteq {"dll", "ban", "debugger", "tool", "vm"}
  BY LimitAssumption, BoundsAssumption, OffencesAssumption DEF AllOffences
<1>1. CASE get_process_id
  BY <1>1 DEF get_process_id, TypeOK, Counting, Observing
<1>2. CASE StartThreads
  BY <1>2 DEF StartThreads, TypeOK, Counting, Observing
<1>3. CASE VmScan
  BY <1>0, <1>3, TerminateFacts DEF VmScan, TypeOK, Counting, Observing
<1>4. CASE ProcessCheck
  BY <1>0, <1>4 DEF ProcessCheck, TypeOK, Counting, Observing
<1>5. CASE HookRead
  BY <1>0, <1>5 DEF HookRead, TypeOK, Counting, Observing, None
<1>6. CASE HookWrite
  BY <1>0, <1>6 DEF HookWrite, TypeOK, Counting, Observing, None
<1>7. CASE Wake
  BY <1>7 DEF Wake, Step, TypeOK, Counting, Observing
<1>8. CASE Ask("dll", "ban") \/ Ask("ban", "decide")
  <2>1. answer' \subseteq Offences \cap {"dll", "ban"} /\ handler' \in {"ban", "decide"}
    BY <1>8 DEF Ask, Step, TypeOK
  <2>2. UNCHANGED <<info, main, hook, system, history>>
    BY <1>8 DEF Ask
  <2> QED
    BY <2>1, <2>2 DEF TypeOK, Counting, Observing
<1>9. CASE Decide
  <2> DEFINE seen == answer \cup ({"debugger"} \cap present)
  <2>1. /\ seen \subseteq Offences
        /\ observed' = observed \cup seen
        /\ should_quit_game' = (should_quit_game \/ seen # {})
        /\ handler' = "count"
        /\ UNCHANGED <<PID, injected_input_detection, main, answer, hook, system,
                       events, closed>>
    BY <1>9 DEF Decide, Step, TypeOK
  <2>2. should_quit_game' \in BOOLEAN
    BY <2>1, Zenon
  <2>3. observed' \subseteq Offences \cup {"input"}
    BY <2>1 DEF TypeOK
  <2>4. TypeOK'
    BY <2>1, <2>2, <2>3 DEF TypeOK
  <2>5. Counting'
    BY <1>0, <2>1 DEF Counting
  <2>6. should_quit_game' => observed' # {}
    BY <2>1 DEF Observing
  <2>7. Observing'
    BY <2>1, <2>6 DEF Observing
  <2> QED
    BY <2>4, <2>5, <2>7
<1>10. CASE CountInjected
  <2>1. CASE injected_input_detection >= Limit
    <3>1. events >= Limit
      BY <2>1, <1>0 DEF TypeOK, Counting
    <3> QED
      BY <1>0, <1>10, <2>1, <3>1 DEF CountInjected, Step, TypeOK, Counting, Observing
  <2>2. CASE ~(injected_input_detection >= Limit)
    BY <1>0, <1>10, <2>2 DEF CountInjected, Step, TypeOK, Counting, Observing
  <2> QED
    BY <2>1, <2>2
<1>11. CASE TestFlag
  BY <1>11 DEF TestFlag, Step, TypeOK, Counting, Observing
<1>12. CASE Kill
  BY <1>12, TerminateFacts DEF Kill, Step, TypeOK, Counting, Observing
<1>13. CASE ClearFlag
  BY <1>13 DEF ClearFlag, Step, TypeOK, Counting, Observing
<1>14. CASE ClearPid
  BY <1>14 DEF ClearPid, Step, TypeOK, Counting, Observing
<1>15. CASE ClearInjected
  BY <1>0, <1>15 DEF ClearInjected, Step, TypeOK, Counting, Observing
<1>16. CASE Environment
  <2>1. ASSUME NEW p \in Pids, LaunchGame(p) \/ LaunchOther(p) \/ Exit(p)
        PROVE  IInv'
    <3>1. owner' \in [Pids -> {"free", "game", "other"}] /\ UNCHANGED present
      BY <2>1 DEF LaunchGame, LaunchOther, Exit, TypeOK
    <3>2. launches' \in 0..MaxLaunches
      BY <1>0, <2>1 DEF LaunchGame, LaunchOther, Exit, TypeOK
    <3>3. Machine
      BY <2>1 DEF LaunchGame, LaunchOther, Exit
    <3> QED
      BY <3>1, <3>2, <3>3 DEF Machine, TypeOK, Counting, Observing
  <2>2. ASSUME NEW o \in Offences, Offend(o) PROVE IInv'
    <3>1. present' \subseteq Offences
      BY <2>2 DEF Offend, TypeOK
    <3> QED
      BY <2>2, <3>1 DEF Offend, Machine, TypeOK, Counting, Observing
  <2> QED
    BY <1>16, <2>1, <2>2 DEF Environment
<1>17. CASE UNCHANGED vars
  BY <1>17 DEF vars, TypeOK, Counting, Observing
<1> QED
  BY <1>1, <1>2, <1>3, <1>4, <1>5, <1>6, <1>7, <1>8, <1>9, <1>10, <1>11, <1>12,
     <1>13, <1>14, <1>15, <1>16, <1>17 DEF Next, Handler

LEMMA SpecIInv == Spec => []IInv
BY InitIInv, NextIInv, PTL DEF Spec

\* Every variable keeps its type; the counter stays within the events.
THEOREM SpecTypeOK == Spec => []TypeOK
<1>1. IInv => TypeOK
  BY DEF IInv
<1> QED
  BY <1>1, SpecIInv, PTL

\* Whatever the interleaving of the threads, nothing is terminated without an
\* observed offence or Limit injected mouse events (Handler.cpp:274-324).
THEOREM SpecKillJustified == Spec => []KillJustified
<1>1. IInv => KillJustified
  BY DEF IInv, Counting, Observing, KillJustified
<1> QED
  BY <1>1, SpecIInv, PTL
-----------------------------------------------------------------------------
(* What the id points at *)

\* One game runs at a time, and none before it was started; until main has
\* found it, nobody looks at the id.
Starting ==
    /\ \A p, q \in Pids : owner[p] = "game" /\ owner[q] = "game" => p = q
    /\ launches = 0 => ~Runs("game")
    /\ main # "search" => launches > 0
    /\ main # "threads" => handler = "sleep"

First == main # "search" /\ launches = 1

\* The first game runs under the id that was found, until that is forgotten;
\* and unless a termination failed it is gone before the flag is cleared.
Pointing == First =>
    /\ \A p \in Pids : owner[p] = "game" => PID \in {0, p}
    /\ failures = 0 /\ (PID = 0 \/ handler \in {"flag", "pid"}) => ~Runs("game")

PointInv == Starting /\ Pointing

\* What is terminated is what runs under the id, and if that is the game and
\* nothing fails, no game is left.
LEMMA TerminateOwner ==
    ASSUME TypeOK, TerminateProcessByPID
    PROVE  /\ \A p \in Pids : owner'[p] = "game" => owner[p] = "game"
           /\ failures' = 0 => failures = 0
           /\ failures' = 0 /\ PID # 0 => owner'[PID] = "free"
           /\ \/ UNCHANGED closed
              \/ PID \in Pids /\ closed' = closed \cup {owner[PID]}
<1>1. CASE PID # 0 => owner[PID] = "free"
  BY <1>1 DEF TerminateProcessByPID, TypeOK
<1>2. CASE PID # 0 /\ owner[PID] # "free"
  <2>1. PID \in Pids
    BY <1>2 DEF TypeOK
  <2>2. CASE UNCHANGED failures /\ owner' = [owner EXCEPT ![PID] = "free"]
             /\ closed' = closed \cup {owner[PID]}
    BY <2>1, <2>2 DEF TypeOK
  <2>3. CASE failures < MaxFailures /\ failures' = failures + 1 /\ UNCHANGED <<owner, closed>>
    BY <2>3, BoundsAssumption DEF TypeOK
  <2> QED
    BY <1>2, <2>2, <2>3 DEF TerminateProcessByPID
<1> QED
  BY <1>1, <1>2

LEMMA NextPointInv == TypeOK /\ PointInv /\ [Next]_vars => PointInv'
<1> SUFFICES ASSUME TypeOK, PointInv, [Next]_vars PROVE PointInv'
  OBVIOUS
<1> USE DEF PointInv, Starting, Pointing, First, Runs
<1>0. launches \in Nat /\ 0 \notin Pids
  BY PidsAssumption, BoundsAssumption DEF TypeOK
<1>1. CASE get_process_id
  <2>1. PICK p \in Pids : owner[p] = "game" /\ PID' = p
    BY <1>1 DEF get_process_id
  <2>2. /\ main = "search" /\ main' = "session"
        /\ UNCHANGED <<handler, owner, launches, failures>>
    BY <1>1 DEF get_process_id, system
  <2> QED
    BY <1>0, <2>1, <2>2
<1>2. CASE StartThreads
  BY <1>2 DEF StartThreads, info, system
<1>3. CASE VmScan
  <2>1. TerminateProcessByPID /\ UNCHANGED <<PID, main, handler, launches>>
    BY <1>3 DEF VmScan, info
  <2> QED
    BY <2>1, TerminateOwner
<1>4. CASE Kill
  <2>1. /\ TerminateProcessByPID /\ handler = "kill" /\ handler' = "flag"
        /\ UNCHANGED <<PID, main, launches>>
    BY <1>4 DEF Kill, Step, info
  <2>2. First' /\ failures' = 0 => ~Runs("game")'
    BY <2>1, TerminateOwner
  <2> QED
    BY <2>1, <2>2, TerminateOwner
<1>5. CASE ClearPid
  <2>1. /\ handler = "pid" /\ handler' = "reset" /\ PID' = 0
        /\ UNCHANGED <<main, owner, launches, failures>>
    BY <1>5 DEF ClearPid, Step, system
  <2> QED
    BY <2>1
<1>6. CASE Wake \/ Ask("dll", "ban") \/ Ask("ban", "decide") \/ Decide
           \/ CountInjected \/ TestFlag \/ ClearFlag \/ ClearInjected
  <2>1. /\ UNCHANGED <<PID, main, owner, launches, failures>>
        /\ main # "threads" => handler' = handler
        /\ handler' \in {"flag", "pid"} => handler \in {"flag", "pid"}
    BY <1>6 DEF Wake, Ask, Decide, CountInjected, TestFlag, ClearFlag, ClearInjected,
                Step, info, system
  <2> QED
    BY <2>1
<1>7. CASE Environment
  <2>1. UNCHANGED <<PID, main, handler, failures>>
    BY <1>7 DEF Environment, LaunchGame, LaunchOther, Exit, Offend, Machine, info
  <2>2. CASE \E p \in Pids : LaunchGame(p)
    <3>1. PICK p \in Pids : LaunchGame(p)
      BY <2>2
    <3>2. /\ ~Runs("game") /\ launches' = launches + 1
          /\ \A q \in Pids : owner'[q] = "game" => q = p
      BY <3>1 DEF LaunchGame, TypeOK
    <3>3. Starting'
      BY <1>0, <2>1, <3>2
    <3>4. ~First'
      BY <1>0, <2>1, <3>2
    <3> QED
      BY <3>3, <3>4
  <2>3. CASE \E p \in Pids : LaunchOther(p) \/ Exit(p)
    <3>1. UNCHANGED launches /\ \A q \in Pids : owner'[q] = "game" => owner[q] = "game"
      BY <2>3 DEF LaunchOther, Exit, TypeOK
    <3> QED
      BY <2>1, <3>1
  <2>4. CASE \E o \in Offences : Offend(o)
    BY <2>1, <2>4 DEF Offend
  <2> QED
    BY <1>7, <2>2, <2>3, <2>4 DEF Environment
<1>8. CASE ProcessCheck \/ HookRead \/ HookWrite \/ UNCHANGED vars
  <2>1. UNCHANGED <<PID, main, handler, owner, launches, failures>>
    BY <1>8 DEF ProcessCheck, HookRead, HookWrite, vars, info, system
  <2> QED
    BY <2>1
<1> QED
  BY <1>1, <1>2, <1>3, <1>4, <1>5, <1>6, <1>7, <1>8 DEF Next, Handler

LEMMA SpecPointInv == Spec => []PointInv
<1>1. Init => PointInv
  BY DEF Init, PointInv, Starting, Pointing, First, Runs
<1> QED
  BY <1>1, NextPointInv, SpecTypeOK, PTL DEF Spec

\* Only the handler clears the flag, and it does so after the termination.
\* Whoever raised it in the meantime, the first game is closed by then
\* (Handler.cpp:318-321).
THEOREM SpecNoFlagIsLost == Spec => NoFlagIsLost
<1>1. TypeOK /\ PointInv /\ [Next]_vars =>
        [should_quit_game /\ ~should_quit_game' =>
           ~Runs("game") \/ failures > 0 \/ launches > 1]_vars
  <2> SUFFICES ASSUME TypeOK, PointInv, Next, should_quit_game, ~should_quit_game'
               PROVE  ~Runs("game") \/ failures > 0 \/ launches > 1
    OBVIOUS
  <2>1. ClearFlag
    BY Zenon DEF Next, Handler, get_process_id, StartThreads, VmScan, ProcessCheck, HookRead,
           HookWrite, Wake, Ask, Decide, CountInjected, TestFlag, Kill, ClearPid,
           ClearInjected, Environment, LaunchGame, LaunchOther, Exit, Offend,
           Machine, info
  <2>2. handler = "flag"
    BY <2>1 DEF ClearFlag, Step
  <2>3. failures \in Nat /\ launches \in Nat
    BY BoundsAssumption DEF TypeOK
  <2> QED
    BY <2>2, <2>3 DEF PointInv, Starting, Pointing, First
<1> QED
  BY <1>1, SpecTypeOK, SpecPointInv, PTL DEF Spec, NoFlagIsLost

\* However often ids are given to other programs: while the game that was
\* found runs, a termination hits it or nothing (Handler.cpp:320,
\* AntiVM.cpp:189).
THEOREM SpecOthersAreSpared == Spec => OthersAreSpared
<1>1. TypeOK /\ PointInv /\ [Next]_vars =>
        [Runs("game") /\ launches = 1 => closed' \subseteq closed \cup {"game"}]_vars
  <2> SUFFICES ASSUME TypeOK, PointInv, Next, Runs("game"), launches = 1
               PROVE  closed' \subseteq closed \cup {"game"}
    OBVIOUS
  <2>1. ASSUME TerminateProcessByPID, main # "search"
        PROVE  closed' \subseteq closed \cup {"game"}
    <3>1. CASE UNCHANGED closed
      BY <3>1
    <3>2. CASE PID \in Pids /\ closed' = closed \cup {owner[PID]}
      <4>1. PICK p \in Pids : owner[p] = "game"
        BY DEF Runs
      <4>2. PID = p
        BY <2>1, <3>2, <4>1, PidsAssumption DEF PointInv, Pointing, First
      <4> QED
        BY <3>2, <4>1, <4>2
    <3> QED
      BY <2>1, <3>1, <3>2, TerminateOwner
  <2>2. CASE VmScan
    BY <2>1, <2>2 DEF VmScan
  <2>3. CASE Kill
    BY <2>1, <2>3 DEF Kill, Step, PointInv, Starting
  <2>4. CASE ~VmScan /\ ~Kill
    <3>1. UNCHANGED closed
      BY <2>4 DEF Next, Handler, get_process_id, StartThreads, ProcessCheck, HookRead,
             HookWrite, Wake, Ask, Decide, CountInjected, TestFlag, ClearFlag, ClearPid,
             ClearInjected, Environment, LaunchGame, LaunchOther, Exit, Offend,
             Machine, history
    <3> QED
      BY <3>1
  <2> QED
    BY <2>2, <2>3, <2>4
<1> QED
  BY <1>1, SpecTypeOK, SpecPointInv, PTL DEF Spec, OthersAreSpared
=============================================================================
