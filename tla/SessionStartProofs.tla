-------------------------- MODULE SessionStartProofs --------------------------
(***************************************************************************)
(* Proofs about SessionStart, for any number of mains, games and failing   *)
(* calls and any times that leave a heartbeat its time: whose id a module  *)
(* can take for its session, and when the handler closes its game.         *)
(***************************************************************************)
EXTENDS SessionStart, FiniteSetTheorems, TLAPS

BeforeModule == {"find", "map", "inject"} \union Writing

\* What there is of a module: nothing before it is injected and after its game
\* has ended, and no id before it has been assigned.
Placed(m) ==
    /\ pc[m] \in BeforeModule => image[m] = None
    /\ pc[m] \in BeforeModule \ {"find"} => PID[m] # None
    /\ image[m] = None => init[m] = "none" /\ g_sessionId[m] = NoId
    /\ init[m] \in Waiting \ {"assigned"} => g_sessionId[m] = NoId

TypeInv == TypeOK /\ \A m \in Mains : Placed(m)

LEMMA InitTypeInv == Init => TypeInv
<1> SUFFICES ASSUME Init PROVE TypeInv
  OBVIOUS
<1>1. clash \in BOOLEAN
  BY Zenon DEF Init
<1>2. ZeroBlock \in [magic : BOOLEAN, game_pid : Games \union {None}, ready : {0, 1},
                     session_id : Ids]
  BY DEF ZeroBlock, Ids, NoId, Id
<1>3. TypeOK
  BY <1>1, <1>2, BoundsAssumption, TimesAssumption DEF Init, TypeOK, Ids, NoId, Id
<1>4. \A m \in Mains : Placed(m)
  BY DEF Init, Placed, BeforeModule, Waiting, Reading
<1> QED
  BY <1>3, <1>4 DEF TypeInv

\* The steps that move nothing but the clocks and the requests.
Calm ==
    /\ UNCHANGED <<pc, PID, game, block, image, init, session, beat, g_sessionId, disturbed,
                   clash>>
    /\ failed \subseteq failed'

LEMMA CalmSteps ==
    ASSUME Tick \/ \E m \in Mains : HeartbeatThread(m) \/ HeartbeatLost(m) \/ ModuleAlive(m)
    PROVE  Calm
BY DEF Tick, HeartbeatThread, BeatBegins, Stamp, HeartbeatLost, BeatEnds, ModuleAlive, Calm,
       main_vars, module_vars

\* What is common to the two ways the handler closes the game.
LEMMA Closes ==
    ASSUME TypeInv, NEW m \in Mains, ModuleDead(m) \/ CheckFails(m)
    PROVE  /\ PID[m] \in Games /\ pc[m] \in {"run", "unmapped"} /\ CloseGame(m)
           /\ failed \subseteq failed' /\ failed' \subseteq Mains /\ faults' \in 0..MaxFaults
BY BoundsAssumption DEF ModuleDead, CheckFails, Asks, Supervises, Fault, TypeInv, TypeOK

LEMMA EndsKeepsTypeInv ==
    ASSUME TypeInv, NEW g \in Games, Ends(g),
           UNCHANGED <<pc, block, clocks, disturbed, clash>>,
           failed' \subseteq Mains, faults' \in 0..MaxFaults,
           PID' \in [Mains -> Games \union {None}],
           \A m \in Mains : pc[m] \in BeforeModule => PID'[m] = PID[m]
    PROVE  TypeInv'
<1>1. NoId \in Ids
  BY DEF NoId, Id, Ids
<1>2. /\ game' \in [Games -> {"none", "up", "ended"}]
      /\ image' \in [Mains -> Games \union {None}] /\ waited' \in [Mains -> 0..WaitTime]
      /\ init' \in [Mains -> {"none", "hook", "hooked", "ended"} \union Waiting]
      /\ session' \in [Mains -> Ids] /\ g_sessionId' \in [Mains -> Ids \union {Garbage}]
      /\ beat' \subseteq Mains
  BY <1>1, TimesAssumption DEF TypeInv, TypeOK, Ends
<1>5. rest' \in [Mains -> Nat] /\ sent' \in [Mains -> Ids \union {Garbage}]
  BY <1>1 DEF TypeInv, TypeOK, Ends
<1>4. TypeOK'
  BY <1>2, <1>5 DEF TypeInv, TypeOK, clocks
<1>3. \A m \in Mains : Placed(m)'
  BY DEF TypeInv, TypeOK, Placed, Ends, Waiting, Reading
<1> QED
  BY <1>4, <1>3 DEF TypeInv

LEMMA WriteKeepsTypeInv ==
    ASSUME TypeInv, NEW m \in Mains, WriteSession(m)
    PROVE  TypeInv'
<1> DEFINE Blocks == [magic : BOOLEAN, game_pid : Games \union {None}, ready : {0, 1},
                      session_id : Ids]
<1>1. ASSUME NEW from, NEW to \in Writing \union {"inject"}, NEW new \in Blocks,
             from \in Writing, Write(m, from, to, new)
      PROVE  TypeInv'
  <2>1. clash' \in BOOLEAN
    BY <1>1, Zenon DEF Write
  <2>2. TypeOK'
    BY <1>1, <2>1 DEF TypeInv, TypeOK, Write, Go, module_vars, clocks
  <2>3. /\ UNCHANGED <<PID, image, init, g_sessionId>>
        /\ pc' = [pc EXCEPT ![m] = to] /\ pc[m] \in BeforeModule \ {"find"}
        /\ to # "find"
    BY <1>1 DEF Write, Go, module_vars, BeforeModule, Writing
  <2>4. ASSUME NEW n \in Mains PROVE Placed(n)'
    <3>1. pc'[n] \in BeforeModule \ {"find"} => pc[n] \in BeforeModule \ {"find"}
      BY <2>3 DEF TypeInv, TypeOK
    <3>2. pc'[n] \in BeforeModule => pc[n] \in BeforeModule
      BY <2>3 DEF TypeInv, TypeOK
    <3> QED
      BY <2>3, <3>1, <3>2 DEF TypeInv, Placed
  <2> QED
    BY <2>2, <2>4 DEF TypeInv
<1>2. ZeroBlock \in Blocks
  BY DEF ZeroBlock, NoId, Id, Ids
<1>3. /\ [block EXCEPT !.magic = TRUE] \in Blocks
      /\ [block EXCEPT !.game_pid = PID[m], !.ready = 0] \in Blocks
      /\ [block EXCEPT !.session_id.first = m] \in Blocks
      /\ [block EXCEPT !.session_id.second = m] \in Blocks
      /\ [block EXCEPT !.ready = 1] \in Blocks
  BY DEF TypeInv, TypeOK, Ids
<1> QED
  BY <1>1, <1>2, <1>3 DEF WriteSession, Writing

\* The steps of the loader.
LEMMA InjectKeepsTypeInv ==
    ASSUME TypeInv, NEW m \in Mains, Inject(m)
    PROVE  TypeInv'
<1>1. PICK started \in SUBSET {"initialize", "HeartbeatThread"} :
        /\ init' = [init EXCEPT ![m] = IF "initialize" \in started THEN "open" ELSE "none"]
        /\ beat' = beat \union {n \in {m} : "HeartbeatThread" \in started}
        /\ IF Cardinality(started) = 2
           THEN UNCHANGED <<faults, failed>>
           ELSE Fault /\ failed' = failed \union {m}
  BY DEF Inject
<1>2. faults' \in 0..MaxFaults /\ failed' \subseteq Mains
  BY <1>1, BoundsAssumption DEF TypeInv, TypeOK, Fault
<1>3. /\ PID[m] \in Games
      /\ pc[m] = "inject" /\ image[m] = None /\ g_sessionId[m] = NoId
      /\ image' = [image EXCEPT ![m] = PID[m]]
      /\ pc' = [pc EXCEPT ![m] = "join"]
      /\ UNCHANGED <<PID, game, block, waited, session, rest, sent, g_sessionId, age, timer,
                     disturbed, clash>>
  BY DEF Inject, Go, TypeInv, TypeOK, Placed, BeforeModule, clocks
<1>4. TypeOK'
  BY <1>1, <1>2, <1>3 DEF TypeInv, TypeOK, Waiting
<1>6. \A n \in Mains : Placed(n)'
  BY <1>1, <1>3 DEF TypeInv, TypeOK, Placed, BeforeModule, Waiting, Reading, Writing
<1> QED
  BY <1>4, <1>6 DEF TypeInv

\* The steps of a main that only go on, and what they leave alone.
LEMMA MainKeepsTypeInv ==
    ASSUME TypeInv, NEW m \in Mains,
           \/ EndMain(m) \/ FindGame(m) \/ MapBlock(m) \/ MapFails(m)
           \/ FileMissing(m) \/ NotInjected(m) \/ Join(m)
    PROVE  TypeInv'
<1> DEFINE PCs == {"find", "map", "inject", "join", "run", "unmapped", "gone"} \union Writing
<1>1. UNCHANGED <<image, init, waited, session, beat, rest, sent, g_sessionId, game, age,
                  disturbed, clash>>
  BY DEF EndMain, FindGame, MapBlock, MapFails, FileMissing, NotInjected, Join, module_vars,
         clocks
<1>7. timer' \in [Mains -> Nat]
  BY TimesAssumption DEF TypeInv, TypeOK, EndMain, FindGame, MapBlock, MapFails, FileMissing,
                         NotInjected, Join, StartHandler, clocks
<1>2. failed' \subseteq Mains /\ faults' \in 0..MaxFaults
  BY BoundsAssumption DEF TypeInv, TypeOK, EndMain, FindGame, MapBlock, MapFails, FileMissing,
                          NotInjected, Join, Fault
<1>3. block' \in [magic : BOOLEAN, game_pid : Games \union {None}, ready : {0, 1},
                  session_id : Ids]
  <2>1. ZeroBlock \in [magic : BOOLEAN, game_pid : Games \union {None}, ready : {0, 1},
                       session_id : Ids]
    BY DEF ZeroBlock, Ids, NoId, Id
  <2> QED
    BY <2>1 DEF TypeInv, TypeOK, EndMain, FindGame, MapBlock, MapFails, FileMissing,
                NotInjected, Join
<1>4. ASSUME NEW to \in {"map", "zero", "join", "run", "unmapped", "gone"}, Go(m, to),
             PID' = PID, to # "zero" => to \notin BeforeModule,
             to = "zero" => pc[m] = "map"
      PROVE  TypeInv'
  <2>1. TypeOK'
    BY <1>1, <1>2, <1>3, <1>4, <1>7 DEF TypeInv, TypeOK, Go, Writing
  <2>2. ASSUME NEW n \in Mains PROVE Placed(n)'
    <3>1. pc'[n] \in BeforeModule => pc[n] \in BeforeModule \ {"find"} \/ pc'[n] = pc[n]
      BY <1>4 DEF TypeInv, TypeOK, Go, BeforeModule
    <3> QED
      BY <1>1, <1>4, <3>1 DEF TypeInv, Placed, BeforeModule
  <2> QED
    BY <2>1, <2>2 DEF TypeInv
<1>5. CASE FindGame(m)
  <2>1. /\ pc[m] = "find" /\ pc' = [pc EXCEPT ![m] = "map"]
        /\ PID' \in [Mains -> Games \union {None}]
        /\ PID'[m] # None /\ \A n \in Mains \ {m} : PID'[n] = PID[n]
    BY <1>5 DEF FindGame, Go, TypeInv, TypeOK, Games, None
  <2>2. TypeOK'
    BY <1>1, <1>2, <1>3, <1>7, <2>1 DEF TypeInv, TypeOK
  <2>3. \A n \in Mains : Placed(n)'
    BY <1>1, <2>1 DEF TypeInv, TypeOK, Placed, BeforeModule
  <2> QED
    BY <2>2, <2>3 DEF TypeInv
<1>6. CASE EndMain(m)
  <2>1. pc' = [pc EXCEPT ![m] = "gone"] /\ PID' = [PID EXCEPT ![m] = None]
    BY <1>6 DEF EndMain, Go
  <2>2. TypeOK'
    BY <1>1, <1>2, <1>3, <1>7, <2>1 DEF TypeInv, TypeOK
  <2>3. \A n \in Mains : Placed(n)'
    BY <1>1, <2>1 DEF TypeInv, TypeOK, Placed, BeforeModule, Writing
  <2> QED
    BY <2>2, <2>3 DEF TypeInv
<1>8. CASE MapBlock(m) \/ MapFails(m) \/ FileMissing(m) \/ NotInjected(m) \/ Join(m)
  BY <1>4, <1>8 DEF MapBlock, MapFails, FileMissing, NotInjected, Join, StartHandler,
                    BeforeModule, Writing
<1> QED
  BY <1>5, <1>6, <1>8

\* The steps of the initialize thread.
LEMMA ModuleKeepsTypeInv ==
    ASSUME TypeInv, NEW m \in Mains, initialize(m)
    PROVE  TypeInv'
<1>1. /\ UNCHANGED <<pc, PID, game, block, image, beat, rest, sent, age, timer, disturbed, clash>>
      /\ image[m] # None
  BY DEF initialize, WaitForSessionId, OpenFails, HooksFail, Unload, OpenForDll, ReadSession, Check,
         ReadFirst, ReadSecond, AssignBegins, AssignEnds, InstallHooks, Step, InGame, others,
         main_vars, clocks
<1>2. failed' \subseteq Mains /\ faults' \in 0..MaxFaults
  BY BoundsAssumption DEF TypeInv, TypeOK, initialize, WaitForSessionId, OpenFails, HooksFail,
         Unload, OpenForDll, ReadSession, Check, ReadFirst, ReadSecond, AssignBegins, AssignEnds,
         InstallHooks, others, main_vars, Fault
<1> DEFINE Inits == {"none", "hook", "hooked", "ended"} \union Waiting
           Early == Waiting \ {"assign", "assigned"}
<1>3. ASSUME NEW to \in Inits, init' = [init EXCEPT ![m] = to],
             waited' \in [Mains -> 0..WaitTime], session' \in [Mains -> Ids],
             g_sessionId' \in [Mains -> Ids \union {Garbage}],
             \A n \in Mains \ {m} : g_sessionId'[n] = g_sessionId[n],
             to \in Early \union {"assign"} => g_sessionId'[m] = NoId
      PROVE  TypeInv'
  <2>1. TypeOK'
    BY <1>1, <1>2, <1>3 DEF TypeInv, TypeOK
  <2>2. \A n \in Mains : Placed(n)'
    BY <1>1, <1>3 DEF TypeInv, TypeOK, Placed, BeforeModule, Waiting, Reading
  <2> QED
    BY <2>1, <2>2 DEF TypeInv
<1>4. ASSUME ReadFails(m), init[m] \in Early, session' \in [Mains -> Ids],
             UNCHANGED g_sessionId
      PROVE  TypeInv'
  <2>1. PICK to \in {"open", "ended"} : init' = [init EXCEPT ![m] = to]
    BY <1>4 DEF ReadFails
  <2>2. waited' \in [Mains -> 0..WaitTime]
    BY <1>4, TimesAssumption DEF ReadFails, TypeInv, TypeOK
  <2>3. g_sessionId[m] = NoId
    BY <1>4 DEF TypeInv, Placed
  <2> QED
    BY <1>3, <1>4, <2>1, <2>2, <2>3 DEF TypeInv, TypeOK, Waiting
<1>5. /\ session[m] \in Ids /\ block.session_id \in Ids
      /\ init[m] \in Early \union {"assign"} => g_sessionId[m] = NoId
      /\ NoId \in Ids
  BY DEF TypeInv, TypeOK, Placed, Waiting, NoId, Id, Ids
<1>6. CASE OpenForDll(m) \/ OpenFails(m)
  <2>1. init[m] = "open" /\ session' = session /\ UNCHANGED g_sessionId
    BY <1>6 DEF OpenForDll, OpenFails
  <2>2. CASE OpenForDll(m) /\ Exists
    BY <1>3, <1>5, <2>1, <2>2 DEF OpenForDll, TypeInv, TypeOK, Waiting, Reading
  <2>3. CASE ReadFails(m)
    BY <1>4, <2>1, <2>3 DEF TypeInv, TypeOK, Waiting
  <2> QED
    BY <1>6, <2>2, <2>3 DEF OpenForDll, OpenFails
<1>7. ASSUME NEW field \in {"is_magic", "is_ready", "is_game"},
             NEW next \in {"is_ready", "is_game", "read_first"}, Check(m, field, next)
      PROVE  TypeInv'
  <2>1. init[m] = field /\ session' = session /\ UNCHANGED g_sessionId
    BY <1>7 DEF Check
  <2>2. CASE Accepted(m, field)
    BY <1>3, <1>5, <1>7, <2>1, <2>2 DEF Check, TypeInv, TypeOK, Waiting, Reading
  <2>3. CASE ~Accepted(m, field)
    BY <1>4, <1>7, <2>1, <2>3 DEF Check, TypeInv, TypeOK, Waiting, Reading
  <2> QED
    BY <2>2, <2>3
<1>8. CASE ReadFirst(m)
  <2>1. /\ init[m] = "read_first" /\ UNCHANGED g_sessionId
        /\ session' = [session EXCEPT ![m].first = block.session_id.first]
    BY <1>8 DEF ReadFirst
  <2>2. session' \in [Mains -> Ids]
    BY <1>5, <2>1 DEF TypeInv, TypeOK, Ids
  <2>3. CASE block.session_id.first # None
    BY <1>3, <1>5, <1>8, <2>1, <2>2, <2>3 DEF ReadFirst, TypeInv, TypeOK, Waiting, Reading
  <2>4. CASE block.session_id.first = None
    BY <1>4, <1>8, <2>1, <2>2, <2>4 DEF ReadFirst, Waiting, Reading
  <2> QED
    BY <2>3, <2>4
<1>9. CASE ReadSecond(m)
  <2>1. /\ init[m] = "read_second" /\ init' = [init EXCEPT ![m] = "assign"]
        /\ UNCHANGED <<waited, g_sessionId>>
        /\ session' = [session EXCEPT ![m].second = block.session_id.second]
    BY <1>9 DEF ReadSecond, Step
  <2>2. session' \in [Mains -> Ids]
    BY <1>5, <2>1 DEF TypeInv, TypeOK, Ids
  <2> QED
    BY <1>3, <1>5, <2>1, <2>2 DEF TypeInv, TypeOK, Waiting, Reading
<1>10. CASE AssignBegins(m) \/ AssignEnds(m)
  <2>1. /\ init' = [init EXCEPT ![m] = IF AssignBegins(m) THEN "assigned" ELSE "hook"]
        /\ waited' \in [Mains -> 0..WaitTime] /\ session' \in [Mains -> Ids]
        /\ g_sessionId' \in [Mains -> Ids \union {Garbage}]
        /\ \A n \in Mains \ {m} : g_sessionId'[n] = g_sessionId[n]
    BY <1>5, <1>10, TimesAssumption DEF AssignBegins, AssignEnds, Step, TypeInv, TypeOK
  <2> QED
    BY <1>3, <2>1 DEF Waiting, Reading
<1>11. CASE InstallHooks(m) \/ HooksFail(m) \/ Unload(m)
  BY <1>3, <1>11 DEF InstallHooks, HooksFail, Unload, Step, TypeInv, TypeOK, Waiting, Reading
<1> QED
  BY <1>6, <1>7, <1>8, <1>9, <1>10, <1>11 DEF initialize, WaitForSessionId, ReadSession

\* The steps of the clock, the heartbeats and a check that goes well.
LEMMA CalmKeepsTypeInv ==
    ASSUME TypeInv,
           Tick \/ \E m \in Mains : HeartbeatThread(m) \/ HeartbeatLost(m) \/ ModuleAlive(m)
    PROVE  TypeInv'
<1>1. Calm
  BY CalmSteps
<1>2. \A n \in Mains : Placed(n)'
  BY <1>1 DEF Calm, TypeInv, Placed
<1>3. NoId \in Ids /\ MaxDelay \in Nat /\ BeatPeriod \in Nat /\ CheckPeriod \in Nat
      /\ MaxAge \in Nat
  BY TimesAssumption DEF NoId, Id, Ids
<1>4. CASE Tick
  <2>1. \A n \in Mains : init[n] \in Waiting => waited[n] # WaitTime
    BY <1>4 DEF Tick, Overdue, InGame, TypeInv, Placed, Waiting, Reading
  <2>2. waited' \in [Mains -> 0..WaitTime] /\ age' \in [Mains -> 0..MaxAge + 1]
    BY <1>3, <1>4, <2>1, TimesAssumption DEF Tick, TypeInv, TypeOK
  <2>3. rest' \in [Mains -> Nat] /\ timer' \in [Mains -> Nat]
    <3>1. ASSUME NEW clock \in [Mains -> Nat] PROVE Less(clock) \in [Mains -> Nat]
      BY <3>1 DEF Less
    <3> QED
      BY <1>4, <3>1 DEF Tick, TypeInv, TypeOK
  <2>4. TypeOK'
    BY <1>1, <1>4, <2>2, <2>3 DEF Tick, Calm, TypeInv, TypeOK, main_vars
  <2> QED
    BY <1>2, <2>4 DEF TypeInv
<1>5. ASSUME NEW m \in Mains, HeartbeatThread(m) \/ HeartbeatLost(m) \/ ModuleAlive(m)
      PROVE  TypeInv'
  <2>1. /\ rest' \in [Mains -> Nat] /\ sent' \in [Mains -> Ids \union {Garbage}]
        /\ waited' = waited
    BY <1>3, <1>5 DEF HeartbeatThread, BeatBegins, Stamp, HeartbeatLost, BeatEnds, Rest,
                      ModuleAlive, TypeInv, TypeOK, module_vars
  <2>2. age' \in [Mains -> 0..MaxAge + 1] /\ timer' \in [Mains -> Nat]
    BY <1>3, <1>5 DEF HeartbeatThread, BeatBegins, Stamp, HeartbeatLost, BeatEnds,
                      ModuleAlive, TypeInv, TypeOK, clocks
  <2>3. failed' \subseteq Mains /\ faults' \in 0..MaxFaults
    BY <1>5, BoundsAssumption DEF HeartbeatThread, BeatBegins, Stamp, HeartbeatLost, Fault,
                      ModuleAlive, TypeInv, TypeOK, main_vars
  <2>4. TypeOK'
    BY <1>1, <2>1, <2>2, <2>3 DEF Calm, TypeInv, TypeOK
  <2> QED
    BY <1>2, <2>4 DEF TypeInv
<1> QED
  BY <1>4, <1>5

LEMMA NextTypeInv == TypeInv /\ [Next]_vars => TypeInv'
<1> SUFFICES ASSUME TypeInv, [Next]_vars PROVE TypeInv'
  OBVIOUS
<1>1. ASSUME NEW g \in Games, StartGame(g) PROVE TypeInv'
  <2>1. /\ game' \in [Games -> {"none", "up", "ended"}]
        /\ UNCHANGED <<pc, PID, failed, block, image, init, waited, session, beat, rest, sent,
                       g_sessionId, age, timer, faults, disturbed, clash>>
    BY <1>1 DEF StartGame, TypeInv, TypeOK, main_vars, module_vars, clocks
  <2> QED
    BY <2>1 DEF TypeInv, TypeOK, Placed
<1>2. ASSUME NEW g \in Games, EndGame(g) PROVE TypeInv'
  BY <1>2, EndsKeepsTypeInv DEF EndGame, main_vars, TypeInv, TypeOK
<1>3. ASSUME NEW m \in Mains, ModuleDead(m) \/ CheckFails(m) PROVE TypeInv'
  <2>1. /\ PID[m] \in Games /\ pc[m] \in {"run", "unmapped"} /\ CloseGame(m)
        /\ PID' = [PID EXCEPT ![m] = None]
        /\ UNCHANGED <<pc, block, clocks, disturbed, clash>>
        /\ failed' \subseteq Mains /\ faults' \in 0..MaxFaults
    BY <1>3, Closes DEF CloseGame
  <2>2. /\ PID' \in [Mains -> Games \union {None}]
        /\ \A n \in Mains : pc[n] \in BeforeModule => PID'[n] = PID[n]
    BY <2>1 DEF TypeInv, TypeOK, BeforeModule, Writing
  <2>3. CASE Ends(PID[m])
    BY <2>1, <2>2, <2>3, EndsKeepsTypeInv
  <2>4. CASE UNCHANGED <<game, module_vars>>
    BY <2>1, <2>2, <2>4 DEF TypeInv, TypeOK, Placed, module_vars, clocks
  <2> QED
    BY <2>1, <2>3, <2>4 DEF CloseGame
<1>4. CASE UNCHANGED vars
  BY <1>4 DEF vars, main_vars, module_vars, clocks, TypeInv, TypeOK, Placed
<1> QED
  BY <1>1, <1>2, <1>3, <1>4, WriteKeepsTypeInv, InjectKeepsTypeInv, MainKeepsTypeInv,
     ModuleKeepsTypeInv, CalmKeepsTypeInv DEF Next, MainStep, CheckModule

\* The types, for any number of mains, games and faults and any times.
THEOREM SpecTypeOK == Spec => []TypeOK
<1>1. TypeInv => TypeOK
  BY DEF TypeInv
<1> QED
  BY <1>1, InitTypeInv, NextTypeInv, PTL DEF Spec

-----------------------------------------------------------------------------
(* A main whose block no other has written: its module reads its id. *)

Half(m) == [first |-> m, second |-> None]

Own(m) ==
    /\ pc[m] \in {"zero_again", "magic", "game_pid", "id_first"} => block.session_id = NoId
    /\ pc[m] = "id_second" => block.session_id = Half(m)
    /\ pc[m] \in {"ready", "inject"} => block.session_id = Id(m)
    /\ init[m] \in {"open", "is_magic"} \union Reading => block.session_id \in {Id(m), NoId}
    /\ init[m] = "read_second" => session[m].first = m /\ block.session_id = Id(m)
    /\ init[m] \in {"assign", "assigned"} => session[m] = Id(m)
    /\ g_sessionId[m] \in {Id(m), NoId, Garbage}

OwnInv == \A m \in Mains \ disturbed : Own(m)

LEMMA InitOwnInv == Init => OwnInv
BY DEF Init, OwnInv, Own, Writing, Reading

\* What one main writes disturbs every other that expects its own id, and the
\* writer goes on from what it wrote.
LEMMA WriteKeepsOwn ==
    ASSUME TypeInv, OwnInv, NEW m \in Mains, WriteSession(m)
    PROVE  OwnInv'
<1>1. /\ UNCHANGED <<image, init, session, g_sessionId>>
      /\ \A n \in Mains \ {m} : pc'[n] = pc[n]
      /\ disturbed' = disturbed \union {n \in Mains \ {m} : Expects(n)}
      /\ pc[m] \in Writing /\ pc'[m] \in Writing \union {"inject"}
  BY DEF WriteSession, Write, Go, module_vars, TypeInv, TypeOK, Writing
<1>2. ASSUME NEW n \in Mains \ {m}, n \notin disturbed' PROVE Own(n)'
  <2>1. n \notin disturbed /\ ~Expects(n) /\ Own(n)
    BY <1>1, <1>2 DEF OwnInv
  <2>2. init[n] \notin {"open", "is_magic"} \union Reading
    BY <2>1 DEF Expects, Waiting, Reading, InGame, TypeInv, Placed
  <2>3. pc[n] \notin Writing \union {"inject"}
    BY <2>1 DEF Expects, TypeInv, Placed, BeforeModule
  <2>4. /\ pc'[n] = pc[n] /\ init'[n] = init[n]
        /\ session'[n] = session[n] /\ g_sessionId'[n] = g_sessionId[n]
    BY <1>1, <1>2
  <2>5. pc'[n] \notin {"zero_again", "magic", "game_pid", "id_first", "id_second", "ready", "inject"}
    BY <2>3, <2>4 DEF Writing
  <2>6. init'[n] \notin {"open", "is_magic", "read_second"} \union Reading
    BY <2>2, <2>4 DEF Reading
  <2> QED
    BY <2>1, <2>4, <2>5, <2>6 DEF Own
<1>3. ASSUME m \notin disturbed' PROVE Own(m)'
  <2>1. Own(m) /\ init[m] = "none" /\ g_sessionId[m] = NoId
    BY <1>1, <1>3 DEF OwnInv, TypeInv, Placed, BeforeModule
  <2>2. /\ pc'[m] \in {"zero_again", "magic", "game_pid", "id_first"} => block'.session_id = NoId
        /\ pc'[m] = "id_second" => block'.session_id = Half(m)
        /\ pc'[m] \in {"ready", "inject"} => block'.session_id = Id(m)
        /\ pc'[m] # "zero"
    <3>2. CASE Write(m, "zero", "zero_again", ZeroBlock) \/ Write(m, "zero_again", "magic", ZeroBlock)
      BY <3>2 DEF Write, Go, TypeInv, TypeOK, ZeroBlock
    <3>3. CASE \/ Write(m, "magic", "game_pid", [block EXCEPT !.magic = TRUE])
               \/ Write(m, "game_pid", "id_first", [block EXCEPT !.game_pid = PID[m], !.ready = 0])
      BY <2>1, <3>3 DEF Write, Go, TypeInv, TypeOK, Own
    <3>4. CASE Write(m, "id_first", "id_second", [block EXCEPT !.session_id.first = m])
      BY <2>1, <3>4 DEF Write, Go, TypeInv, TypeOK, Own, NoId, Id, Half
    <3>5. CASE Write(m, "id_second", "ready", [block EXCEPT !.session_id.second = m])
      BY <2>1, <3>5 DEF Write, Go, TypeInv, TypeOK, Own, Id, Half
    <3>6. CASE Write(m, "ready", "inject", [block EXCEPT !.ready = 1])
      BY <2>1, <3>6 DEF Write, Go, TypeInv, TypeOK, Own
    <3> QED
      BY <3>2, <3>3, <3>4, <3>5, <3>6 DEF WriteSession
  <2> QED
    BY <1>1, <2>1, <2>2 DEF Own, Reading
<1> QED
  BY <1>2, <1>3 DEF OwnInv

\* The other steps of the mains do not write the block while it is in use.
LEMMA MainKeepsOwn ==
    ASSUME TypeInv, OwnInv, NEW m \in Mains,
           \/ EndMain(m) \/ FindGame(m) \/ MapBlock(m) \/ MapFails(m)
           \/ FileMissing(m) \/ NotInjected(m) \/ Join(m) \/ Inject(m)
    PROVE  OwnInv'
<1>1. UNCHANGED <<session, g_sessionId, disturbed>>
  BY DEF EndMain, FindGame, MapBlock, MapFails, FileMissing, NotInjected, Join, Inject, module_vars
<1>2. /\ \A n \in Mains \ {m} : pc'[n] = pc[n]
      /\ pc'[m] \notin (Writing \ {"zero"}) \union {"inject"}
  BY DEF EndMain, FindGame, MapBlock, MapFails, FileMissing, NotInjected, Join, Inject, StartHandler, Go,
         TypeInv, TypeOK, Writing
<1>3. ASSUME UNCHANGED block, UNCHANGED init PROVE OwnInv'
  BY <1>1, <1>2, <1>3 DEF OwnInv, Own, Writing
<1>4. CASE MapBlock(m)
  <2>1. UNCHANGED init /\ (block' = block \/ (block' = ZeroBlock /\ ~Exists))
    BY <1>4 DEF MapBlock, module_vars
  <2>2. ASSUME block' = ZeroBlock, ~Exists, NEW n \in Mains \ disturbed PROVE Own(n)'
    <3>1. init[n] \notin Reading \union {"is_magic"}
      BY <2>2 DEF Exists, Readers, InGame, TypeInv, Placed, Reading
    <3>2. pc[n] \notin Writing \union {"inject"}
      BY <2>2 DEF Exists, Holders
    <3>3. block'.session_id = NoId
      BY <2>2 DEF ZeroBlock
    <3> QED
      BY <1>1, <1>2, <2>1, <3>1, <3>2, <3>3 DEF OwnInv, Own, Writing, Reading
  <2> QED
    BY <1>1, <1>3, <2>1, <2>2 DEF OwnInv
<1>5. CASE Inject(m)
  <2>1. /\ pc[m] = "inject" /\ UNCHANGED block
        /\ init'[m] \in {"open", "none"} /\ \A n \in Mains \ {m} : init'[n] = init[n]
    BY <1>5 DEF Inject, TypeInv, TypeOK
  <2> QED
    BY <1>1, <1>2, <2>1 DEF OwnInv, Own, Writing, Reading
<1> QED
  BY <1>3, <1>4, <1>5 DEF EndMain, FindGame, MapFails, FileMissing, NotInjected, Join, module_vars

LEMMA ModuleKeepsOwn ==
    ASSUME TypeInv, OwnInv, NEW m \in Mains, initialize(m)
    PROVE  OwnInv'
<1>1. UNCHANGED <<pc, block, disturbed>>
  BY DEF initialize, WaitForSessionId, OpenFails, HooksFail, Unload, OpenForDll, ReadSession,
         Check, ReadFirst, ReadSecond, AssignBegins, AssignEnds, InstallHooks, others, main_vars
<1>2. /\ \A n \in Mains \ {m} : /\ init'[n] = init[n] /\ session'[n] = session[n]
                               /\ g_sessionId'[n] = g_sessionId[n]
  BY DEF initialize, WaitForSessionId, OpenFails, HooksFail, Unload, OpenForDll, ReadSession,
         Check, ReadFirst, ReadSecond, AssignBegins, AssignEnds, InstallHooks, Step, ReadFails, TypeInv, TypeOK,
         module_vars
<1>3. ASSUME m \notin disturbed, Own(m)' PROVE OwnInv'
  BY <1>1, <1>2, <1>3 DEF OwnInv, Own
<1>4. ASSUME m \in disturbed PROVE OwnInv'
  BY <1>1, <1>2, <1>4 DEF OwnInv, Own
<1>5. ASSUME m \notin disturbed PROVE Own(m)'
  <2>1. Own(m) /\ pc'[m] = pc[m] /\ block' = block
    BY <1>1, <1>5 DEF OwnInv
  <2>2. CASE OpenForDll(m) \/ OpenFails(m) \/ Check(m, "is_magic", "is_ready") \/ Check(m, "is_ready", "is_game")
             \/ Check(m, "is_game", "read_first")
    <3>1. /\ UNCHANGED <<session, g_sessionId>>
          /\ init[m] \in {"open", "is_magic", "is_ready", "is_game"}
          /\ init'[m] \in {"open", "ended", "is_magic", "is_ready", "is_game", "read_first"}
      BY <2>2 DEF OpenForDll, OpenFails, Check, ReadFails, TypeInv, TypeOK
    <3> QED
      BY <2>1, <3>1 DEF Own, Reading
  <2>3. CASE ReadFirst(m)
    <3>1. /\ init[m] = "read_first" /\ UNCHANGED g_sessionId
          /\ session'[m].first = block.session_id.first
          /\ IF block.session_id.first # None THEN init'[m] = "read_second"
             ELSE init'[m] \in {"open", "ended"}
      BY <2>3 DEF ReadFirst, ReadFails, TypeInv, TypeOK, Ids
    <3>2. block.session_id \in {Id(m), NoId}
      BY <2>1, <3>1 DEF Own, Reading
    <3>3. Id(m).first = m /\ NoId.first = None
      BY DEF Id, NoId
    <3> QED
      BY <2>1, <3>1, <3>2, <3>3 DEF Own, Reading
  <2>4. CASE ReadSecond(m)
    <3>1. /\ init[m] = "read_second" /\ init'[m] = "assign" /\ UNCHANGED g_sessionId
          /\ session' = [session EXCEPT ![m].second = block.session_id.second]
      BY <2>4 DEF ReadSecond, Step, TypeInv, TypeOK
    <3>2. session[m] \in Ids /\ session[m].first = m /\ block.session_id = Id(m)
      BY <2>1, <3>1 DEF Own, TypeInv, TypeOK
    <3>3. session'[m] = Id(m)
      BY <3>1, <3>2 DEF TypeInv, TypeOK, Ids, Id
    <3> QED
      BY <2>1, <3>1, <3>3 DEF Own, Reading
  <2>5. CASE AssignBegins(m) \/ AssignEnds(m)
    <3>1. /\ init[m] \in {"assign", "assigned"} /\ session[m] = Id(m)
          /\ init[m] = "assign" => init'[m] = "assigned" /\ session' = session
          /\ init[m] = "assigned" => init'[m] = "hook"
          /\ g_sessionId'[m] \in {Garbage, session[m]}
      BY <2>1, <2>5 DEF AssignBegins, AssignEnds, Step, TypeInv, TypeOK, Own
    <3> QED
      BY <2>1, <3>1 DEF Own, Reading
  <2>6. CASE InstallHooks(m) \/ HooksFail(m) \/ Unload(m)
    <3>1. /\ UNCHANGED <<session, g_sessionId>>
          /\ init'[m] \in {init[m], "hooked", "ended"}
      BY <2>6 DEF InstallHooks, HooksFail, Unload, Step, TypeInv, TypeOK
    <3> QED
      BY <2>1, <3>1 DEF Own, Reading
  <2> QED
    BY <2>2, <2>3, <2>4, <2>5, <2>6 DEF initialize, WaitForSessionId, ReadSession
<1> QED
  BY <1>3, <1>4, <1>5

LEMMA NextOwnInv == TypeInv /\ OwnInv /\ [Next]_vars => OwnInv'
<1> SUFFICES ASSUME TypeInv, OwnInv, [Next]_vars PROVE OwnInv'
  OBVIOUS
<1>1. ASSUME NEW g \in Games, Ends(g), UNCHANGED <<pc, block, disturbed>> PROVE OwnInv'
  <2>1. ASSUME NEW n \in Mains \ disturbed PROVE Own(n)'
    <3>1. CASE image[n] = g
      <4>1. init'[n] = "none" /\ g_sessionId'[n] = NoId
        BY <1>1, <3>1 DEF Ends
      <4> QED
        BY <1>1, <4>1 DEF OwnInv, Own, Reading
    <3>2. CASE image[n] # g
      <4>1. init'[n] = init[n] /\ g_sessionId'[n] = g_sessionId[n] /\ session'[n] = session[n]
        BY <1>1, <3>2 DEF Ends
      <4> QED
        BY <1>1, <4>1 DEF OwnInv, Own
    <3> QED
      BY <3>1, <3>2
  <2> QED
    BY <1>1, <2>1 DEF OwnInv
<1>2. ASSUME UNCHANGED <<pc, block, disturbed, init, session, g_sessionId>> PROVE OwnInv'
  BY <1>2 DEF OwnInv, Own
<1>3. ASSUME NEW g \in Games, StartGame(g) \/ EndGame(g) PROVE OwnInv'
  BY <1>1, <1>2, <1>3 DEF StartGame, EndGame, main_vars, module_vars
<1>4. ASSUME NEW m \in Mains, ModuleDead(m) \/ CheckFails(m) PROVE OwnInv'
  <2>1. PID[m] \in Games /\ CloseGame(m)
    BY <1>4, Closes
  <2> QED
    BY <1>1, <1>2, <2>1 DEF CloseGame, module_vars
<1>5. CASE UNCHANGED vars
  BY <1>2, <1>5 DEF vars, main_vars, module_vars
<1>6. CASE Calm
  BY <1>2, <1>6 DEF Calm
<1> QED
  BY <1>3, <1>4, <1>5, <1>6, CalmSteps, WriteKeepsOwn, MainKeepsOwn, ModuleKeepsOwn
  DEF Next, MainStep, CheckModule

\* A module's id is that of the main that injected it, unless another main
\* wrote the block before it was read (Ring3AC.cpp:26-38, ac_shared.cpp:85-119).
THEOREM SpecIdIsThatOfTheMain == Spec => []IdIsThatOfTheMain
<1>1. OwnInv => IdIsThatOfTheMain
  BY DEF OwnInv, Own, IdIsThatOfTheMain
<1> QED
  BY <1>1, InitTypeInv, NextTypeInv, InitOwnInv, NextOwnInv, PTL DEF Spec
-----------------------------------------------------------------------------
(* Without two mains in the block at once, an id is read as it was written. *)

\* The id of a main that found its game, which is g if it still looks after one.
Whole(id, g) == \E n \in Mains : id = Id(n) /\ pc[n] # "find" /\ PID[n] \in {None, g}

\* What a main has written so far is what the block holds.
Written(m) ==
    /\ pc[m] \in Writing \ {"zero"} => block.ready = 0
    /\ pc[m] \in {"id_first", "id_second", "ready"} => block.game_pid = PID[m]
    /\ pc[m] \in {"id_second", "ready"} => block.session_id.first = m
    /\ pc[m] = "ready" => block.session_id.second = m

\* What a module has tested and read so far is still so.
Read(m) ==
    /\ init[m] \in {"is_game", "read_first", "read_second"} => block.ready = 1
    /\ init[m] \in {"read_first", "read_second"} => block.game_pid = image[m]
    /\ init[m] = "read_second" => session[m].first = block.session_id.first
    /\ init[m] \in {"assign", "assigned"} => Whole(session[m], image[m])
    /\ g_sessionId[m] \in {NoId, Garbage} \/ Whole(g_sessionId[m], image[m])

WholeInv ==
    ~clash =>
        /\ block.ready = 1 => Whole(block.session_id, block.game_pid)
        /\ \A m \in Mains : Written(m) /\ Read(m)

LEMMA InitWholeInv == Init => WholeInv
BY DEF Init, WholeInv, Written, Read, ZeroBlock, Writing

\* A main finds a game once, and then only loses it.
LEMMA FoundOnce ==
    ASSUME TypeInv, [Next]_vars, NEW n \in Mains, pc[n] # "find"
    PROVE  pc'[n] # "find" /\ PID'[n] \in {PID[n], None}
<1> USE DEF TypeInv, TypeOK
<1>1. ASSUME NEW m \in Mains, MainStep(m)
      PROVE  pc'[n] # "find" /\ PID'[n] \in {PID[n], None}
  BY <1>1 DEF MainStep, MapBlock, WriteSession, Write, Inject, Join, StartHandler, CheckModule,
              ModuleAlive, ModuleDead, CloseGame, Go, main_vars
<1>2. ASSUME NEW m \in Mains, \/ FindGame(m) \/ EndMain(m) \/ MapFails(m) \/ FileMissing(m)
                              \/ NotInjected(m) \/ CheckFails(m)
      PROVE  pc'[n] # "find" /\ PID'[n] \in {PID[n], None}
  BY <1>2 DEF FindGame, EndMain, MapFails, FileMissing, NotInjected, StartHandler, CheckFails,
              CloseGame, Go
<1>3. ASSUME NEW m \in Mains, initialize(m)
      PROVE  UNCHANGED <<pc, PID>>
  BY <1>3 DEF initialize, WaitForSessionId, OpenFails, HooksFail, Unload, OpenForDll, ReadSession,
         Check, ReadFirst, ReadSecond, AssignBegins, AssignEnds, InstallHooks, others, main_vars
<1>4. ASSUME NEW g \in Games, StartGame(g) \/ EndGame(g)
      PROVE  UNCHANGED <<pc, PID>>
  BY <1>4 DEF StartGame, EndGame, main_vars
<1> QED
  BY <1>1, <1>2, <1>3, <1>4, CalmSteps DEF Calm, Next, vars, main_vars

\* A main that is writing keeps its game.
LEMMA PidKept ==
    ASSUME TypeInv, [Next]_vars, UNCHANGED pc, NEW n \in Mains, pc[n] \in Writing
    PROVE  PID'[n] = PID[n]
<1> USE DEF TypeInv, TypeOK, Writing
<1>1. ASSUME NEW m \in Mains, MainStep(m) PROVE PID'[n] = PID[n]
  BY <1>1 DEF MainStep, MapBlock, WriteSession, Write, Inject, Join, CheckModule, ModuleAlive,
              ModuleDead, CloseGame, Asks, Supervises, main_vars
<1>2. ASSUME NEW m \in Mains, \/ FindGame(m) \/ EndMain(m) \/ MapFails(m) \/ FileMissing(m)
                              \/ NotInjected(m) \/ CheckFails(m)
      PROVE  PID'[n] = PID[n]
  BY <1>2 DEF FindGame, EndMain, MapFails, FileMissing, NotInjected, CheckFails, CloseGame,
              Asks, Supervises, Go
<1>3. ASSUME NEW m \in Mains, initialize(m)
      PROVE  PID'[n] = PID[n]
  BY <1>3 DEF initialize, WaitForSessionId, OpenFails, HooksFail, Unload, OpenForDll, ReadSession,
         Check, ReadFirst, ReadSecond, AssignBegins, AssignEnds, InstallHooks, others, main_vars
<1>4. ASSUME NEW g \in Games, StartGame(g) \/ EndGame(g) PROVE PID'[n] = PID[n]
  BY <1>4 DEF StartGame, EndGame, main_vars
<1> QED
  BY <1>1, <1>2, <1>3, <1>4, CalmSteps DEF Calm, Next, vars, main_vars

LEMMA WholeStays ==
    ASSUME TypeInv, [Next]_vars, NEW id, NEW g, Whole(id, g)
    PROVE  Whole(id, g)'
BY FoundOnce DEF Whole

\* A writer has the block for itself, and nobody is reading.
LEMMA WriteKeepsWhole ==
    ASSUME TypeInv, WholeInv, [Next]_vars, ~clash', NEW m \in Mains, WriteSession(m)
    PROVE  WholeInv'
<1>1. /\ UNCHANGED <<PID, image, init, session, g_sessionId>>
      /\ \A n \in Mains \ {m} : pc'[n] = pc[n] /\ pc[n] \notin Writing
      /\ \A n \in Mains : n \notin Readers
      /\ ~clash
      /\ pc[m] \in Writing
  BY DEF WriteSession, Write, Go, module_vars, TypeInv, TypeOK, Writing
<1>2. ASSUME NEW n \in Mains PROVE Read(n)'
  <2>1. init[n] \notin Reading
    BY <1>1 DEF Readers, InGame, TypeInv, Placed, Reading
  <2>2. Read(n)
    BY <1>1 DEF WholeInv
  <2> QED
    BY <1>1, <2>1, <2>2, WholeStays DEF Read, Reading
<1>3. ASSUME NEW n \in Mains \ {m} PROVE Written(n)'
  BY <1>1 DEF Written, Writing
<1>4. Written(m)' /\ (block'.ready = 1 => Whole(block.session_id, block.game_pid)')
  <2>1. Written(m)
    BY <1>1 DEF WholeInv
  <2>2. /\ block \in [magic : BOOLEAN, game_pid : Games \union {None}, ready : {0, 1},
                      session_id : Ids]
        /\ pc'[m] # "find"
    BY <1>1 DEF TypeInv, TypeOK, WriteSession, Write, Go
  <2>3. CASE Write(m, "zero", "zero_again", ZeroBlock) \/ Write(m, "zero_again", "magic", ZeroBlock)
    BY <2>3 DEF Write, Go, TypeInv, TypeOK, ZeroBlock, Written
  <2>4. CASE \/ Write(m, "magic", "game_pid", [block EXCEPT !.magic = TRUE])
             \/ Write(m, "game_pid", "id_first", [block EXCEPT !.game_pid = PID[m], !.ready = 0])
    <3>1. /\ block'.ready = 0 /\ pc'[m] \in {"game_pid", "id_first"}
          /\ pc'[m] = "id_first" => block'.game_pid = PID[m]
      BY <2>1, <2>2, <2>4 DEF Write, Go, TypeInv, TypeOK, Written, Writing
    <3> QED
      BY <1>1, <3>1 DEF Written
  <2>5. CASE Write(m, "id_first", "id_second", [block EXCEPT !.session_id.first = m])
    BY <1>1, <2>1, <2>2, <2>5 DEF Write, Go, TypeInv, TypeOK, Written, Writing, Ids
  <2>6. CASE Write(m, "id_second", "ready", [block EXCEPT !.session_id.second = m])
    BY <1>1, <2>1, <2>2, <2>6 DEF Write, Go, TypeInv, TypeOK, Written, Writing, Ids
  <2>7. CASE Write(m, "ready", "inject", [block EXCEPT !.ready = 1])
    <3>1. /\ block'.session_id = block.session_id /\ block'.game_pid = block.game_pid
          /\ pc[m] = "ready" /\ pc'[m] = "inject"
      BY <2>2, <2>7 DEF Write, Go, TypeInv, TypeOK
    <3>2. block.session_id = Id(m) /\ block.game_pid = PID[m]
      BY <2>1, <2>2, <3>1 DEF Written, Writing, Ids, Id
    <3>3. Whole(block.session_id, block.game_pid)'
      BY <1>1, <2>2, <3>1, <3>2 DEF Whole
    <3> QED
      BY <3>1, <3>3 DEF Written, Writing
  <2> QED
    BY <2>3, <2>4, <2>5, <2>6, <2>7 DEF WriteSession
<1> QED
  BY <1>2, <1>3, <1>4 DEF WholeInv

LEMMA MainKeepsWhole ==
    ASSUME TypeInv, WholeInv, [Next]_vars, ~clash', NEW m \in Mains,
           \/ EndMain(m) \/ FindGame(m) \/ MapBlock(m) \/ MapFails(m)
           \/ FileMissing(m) \/ NotInjected(m) \/ Join(m) \/ Inject(m)
    PROVE  WholeInv'
<1>1. /\ UNCHANGED <<session, g_sessionId>> /\ ~clash
      /\ \A n \in Mains \ {m} : pc'[n] = pc[n] /\ PID'[n] = PID[n]
      /\ pc'[m] \notin Writing \ {"zero"}
  BY DEF EndMain, FindGame, MapBlock, MapFails, FileMissing, NotInjected, Join, Inject, StartHandler, Go,
         TypeInv, TypeOK, Writing, module_vars
<1>2. /\ block.ready = 1 => Whole(block.session_id, block.game_pid)
      /\ \A n \in Mains : Written(n) /\ Read(n)
  BY <1>1 DEF WholeInv
<1>3. block' = block \/ (block' = ZeroBlock /\ ~Exists)
  BY DEF EndMain, FindGame, MapBlock, MapFails, FileMissing, NotInjected, Join, Inject
<1>4. ASSUME NEW n \in Mains PROVE Written(n)'
  <2>1. CASE n = m
    BY <1>1, <2>1 DEF Written, Writing
  <2>2. CASE n # m /\ block' = block
    BY <1>1, <1>2, <2>2 DEF Written
  <2>3. CASE n # m /\ ~Exists
    <3>1. pc'[n] \notin Writing
      BY <1>1, <2>3 DEF Exists, Holders
    <3> QED
      BY <3>1 DEF Written, Writing
  <2> QED
    BY <1>3, <2>1, <2>2, <2>3
<1>5. ASSUME NEW n \in Mains PROVE Read(n)'
  <2>1. \/ init'[n] = init[n] /\ image'[n] = image[n]
        \/ init'[n] \in {"none", "open"} /\ g_sessionId'[n] = NoId
    <3>1. CASE Inject(m)
      <4>1. /\ pc[m] = "inject" /\ init'[m] \in {"none", "open"}
            /\ n # m => init'[n] = init[n] /\ image'[n] = image[n]
        BY <3>1 DEF Inject, TypeInv, TypeOK
      <4>2. g_sessionId[m] = NoId
        BY <4>1 DEF TypeInv, Placed, BeforeModule
      <4> QED
        BY <1>1, <4>1, <4>2
    <3>2. CASE UNCHANGED <<init, image>>
      BY <3>2
    <3> QED
      BY <3>1, <3>2 DEF EndMain, FindGame, MapBlock, MapFails, FileMissing, NotInjected, Join,
                        module_vars
  <2>2. block' = block \/ init[n] \notin Reading
    BY <1>3 DEF Exists, Readers, InGame, TypeInv, Placed, Reading
  <2> QED
    BY <1>1, <1>2, <2>1, <2>2, WholeStays DEF Read, Reading
<1>6. block'.ready = 1 => Whole(block.session_id, block.game_pid)'
  <2>1. CASE block' = block
    BY <1>2, <2>1, WholeStays
  <2>2. CASE block' = ZeroBlock
    BY <2>2 DEF ZeroBlock
  <2> QED
    BY <1>3, <2>1, <2>2
<1> QED
  BY <1>4, <1>5, <1>6 DEF WholeInv

LEMMA ModuleKeepsWhole ==
    ASSUME TypeInv, WholeInv, [Next]_vars, ~clash', NEW m \in Mains,
           initialize(m)
    PROVE  WholeInv'
<1>1. UNCHANGED <<pc, PID, block, image>> /\ ~clash
  BY DEF initialize, WaitForSessionId, OpenFails, HooksFail, Unload, OpenForDll, ReadSession,
         Check, ReadFirst, ReadSecond, AssignBegins, AssignEnds, InstallHooks, others, main_vars, module_vars
<1>2. /\ \A n \in Mains \ {m} : /\ init'[n] = init[n] /\ session'[n] = session[n]
                               /\ g_sessionId'[n] = g_sessionId[n]
  BY DEF initialize, WaitForSessionId, OpenFails, HooksFail, Unload, OpenForDll, ReadSession,
         Check, ReadFirst, ReadSecond, AssignBegins, AssignEnds, InstallHooks, Step, ReadFails, TypeInv, TypeOK,
         module_vars
<1>3. /\ block.ready = 1 => Whole(block.session_id, block.game_pid)
      /\ \A n \in Mains : Written(n) /\ Read(n)
  BY <1>1 DEF WholeInv
<1>4. (block.ready = 1 => Whole(block.session_id, block.game_pid))'
  BY <1>1, <1>3, WholeStays
<1>5. \A n \in Mains : Written(n)'
  BY <1>1, <1>3 DEF Written
<1>6. ASSUME NEW n \in Mains \ {m} PROVE Read(n)'
  BY <1>1, <1>2, <1>3, WholeStays DEF Read
<1>7. Read(m)'
  <2>1. Read(m)
    BY <1>3
  <2>2. CASE OpenForDll(m) \/ OpenFails(m) \/ Check(m, "is_magic", "is_ready")
    <3>1. /\ UNCHANGED <<session, g_sessionId>>
          /\ init'[m] \in {"open", "ended", "is_magic", "is_ready"}
      BY <2>2 DEF OpenForDll, OpenFails, Check, ReadFails, TypeInv, TypeOK
    <3> QED
      BY <1>1, <2>1, <3>1, WholeStays DEF Read
  <2>3. CASE Check(m, "is_ready", "is_game") \/ Check(m, "is_game", "read_first")
    <3>1. /\ UNCHANGED <<session, g_sessionId>>
          /\ init[m] \in {"is_ready", "is_game"}
          /\ init'[m] \in {"open", "ended", "is_game", "read_first"}
          /\ init'[m] = "is_game" => block.ready = 1
          /\ init'[m] = "read_first" => init[m] = "is_game" /\ block.game_pid = image[m]
      BY <2>3 DEF Check, ReadFails, Accepted, TypeInv, TypeOK
    <3> QED
      BY <1>1, <2>1, <3>1, WholeStays DEF Read
  <2>4. CASE ReadFirst(m)
    <3>1. /\ init[m] = "read_first" /\ UNCHANGED g_sessionId
          /\ session'[m].first = block.session_id.first
          /\ init'[m] \in {"open", "ended", "read_second"}
      BY <2>4 DEF ReadFirst, ReadFails, TypeInv, TypeOK, Ids
    <3> QED
      BY <1>1, <2>1, <3>1, WholeStays DEF Read
  <2>5. CASE ReadSecond(m)
    <3>1. /\ init[m] = "read_second" /\ init'[m] = "assign" /\ UNCHANGED g_sessionId
          /\ session' = [session EXCEPT ![m].second = block.session_id.second]
      BY <2>5 DEF ReadSecond, Step, TypeInv, TypeOK
    <3>2. /\ session[m] \in Ids /\ block.session_id \in Ids
          /\ session[m].first = block.session_id.first
      BY <2>1, <3>1 DEF Read, TypeInv, TypeOK
    <3>3. session'[m] = block.session_id
      BY <3>1, <3>2 DEF TypeInv, TypeOK, Ids
    <3>4. Whole(block.session_id, image[m])
      BY <1>3, <2>1, <3>1 DEF Read
    <3> QED
      BY <1>1, <2>1, <3>1, <3>3, <3>4, WholeStays DEF Read
  <2>6. CASE AssignBegins(m) \/ AssignEnds(m)
    <3>1. /\ init[m] \in {"assign", "assigned"}
          /\ init[m] = "assign" => init'[m] = "assigned" /\ session' = session
          /\ init[m] = "assigned" => init'[m] = "hook"
          /\ g_sessionId'[m] \in {Garbage, session[m]}
      BY <2>6 DEF AssignBegins, AssignEnds, Step, TypeInv, TypeOK
    <3>2. Whole(session[m], image[m])
      BY <2>1, <3>1 DEF Read
    <3> QED
      BY <1>1, <3>1, <3>2, WholeStays DEF Read
  <2>7. CASE InstallHooks(m) \/ HooksFail(m) \/ Unload(m)
    <3>1. /\ UNCHANGED <<session, g_sessionId>>
          /\ init'[m] \in {init[m], "hooked", "ended"}
      BY <2>7 DEF InstallHooks, HooksFail, Unload, Step, TypeInv, TypeOK
    <3> QED
      BY <1>1, <2>1, <3>1, WholeStays DEF Read
  <2> QED
    BY <2>2, <2>3, <2>4, <2>5, <2>6, <2>7 DEF initialize, WaitForSessionId, ReadSession
<1> QED
  BY <1>4, <1>5, <1>6, <1>7 DEF WholeInv

LEMMA NextWholeInv == TypeInv /\ WholeInv /\ [Next]_vars => WholeInv'
<1> SUFFICES ASSUME TypeInv, WholeInv, [Next]_vars, ~clash' PROVE WholeInv'
  BY DEF WholeInv
<1>1. ASSUME NEW g \in Games, Ends(g), UNCHANGED <<pc, block, clash>> PROVE WholeInv'
  <2>1. ASSUME NEW n \in Mains PROVE Read(n)'
    <3>1. CASE image[n] = g
      <4>1. init'[n] = "none" /\ g_sessionId'[n] = NoId
        BY <1>1, <3>1 DEF Ends
      <4> QED
        BY <4>1 DEF Read
    <3>2. CASE image[n] # g
      <4>1. /\ init'[n] = init[n] /\ g_sessionId'[n] = g_sessionId[n] /\ session'[n] = session[n]
            /\ image'[n] = image[n]
        BY <1>1, <3>2 DEF Ends
      <4>2. Read(n)
        BY <1>1 DEF WholeInv
      <4> QED
        BY <1>1, <4>1, <4>2, WholeStays DEF Read
    <3> QED
      BY <3>1, <3>2
  <2>2. \A n \in Mains : PID'[n] = PID[n] \/ pc[n] \notin Writing => Written(n)'
    BY <1>1 DEF WholeInv, Written, Writing
  <2> QED
    BY <1>1, <2>1, <2>2, WholeStays, PidKept DEF WholeInv
<1>2. ASSUME UNCHANGED <<block, clash, image, init, session, g_sessionId, pc>> PROVE WholeInv'
  <2>1. \A n \in Mains : Read(n)'
    BY <1>2, WholeStays DEF WholeInv, Read
  <2> QED
    BY <1>2, <2>1, WholeStays, PidKept DEF WholeInv, Written, Writing
<1>3. ASSUME NEW g \in Games, StartGame(g) \/ EndGame(g) PROVE WholeInv'
  BY <1>1, <1>2, <1>3 DEF StartGame, EndGame, main_vars, module_vars
<1>4. ASSUME NEW m \in Mains, ModuleDead(m) \/ CheckFails(m) PROVE WholeInv'
  <2>1. PID[m] \in Games /\ CloseGame(m)
    BY <1>4, Closes
  <2> QED
    BY <1>1, <1>2, <2>1 DEF CloseGame, module_vars
<1>5. CASE UNCHANGED vars
  BY <1>2, <1>5 DEF vars, main_vars, module_vars
<1>6. CASE Calm
  BY <1>2, <1>6 DEF Calm
<1> QED
  BY <1>3, <1>4, <1>5, <1>6, CalmSteps, WriteKeepsWhole, MainKeepsWhole, ModuleKeepsWhole
  DEF Next, MainStep, CheckModule

\* Unless two mains wrote the block at once, or one wrote during a read, the id
\* a module takes is whole, and of a main that looks after no other game
\* (ac_shared.cpp:85-119), for any number of mains, games, reads and failures.
THEOREM SpecIdIsWhole == Spec => []IdIsWhole
<1>1. WholeInv => IdIsWhole
  BY DEF WholeInv, Read, Whole, IdIsWhole
<1> QED
  BY <1>1, InitTypeInv, NextTypeInv, InitWholeInv, NextWholeInv, PTL DEF Spec
-----------------------------------------------------------------------------
(* A start-up in which nothing failed and nobody interfered ends with heartbeats. *)

Published(m) ==
    block.magic /\ block.game_pid = PID[m] /\ block.ready = 1 /\ block.session_id = Id(m)

\* What has been written is in the block, and a module in a game that is up has
\* both threads, finds the id it looks for, and keeps it.
Good(m) ==
    /\ pc[m] # "unmapped"
    /\ pc[m] \in {"game_pid", "id_first", "id_second", "ready"} => block.magic
    /\ pc[m] \in {"id_first", "id_second", "ready"} => block.game_pid = PID[m]
    /\ pc[m] = "inject" => Published(m)
    /\ pc[m] \in {"join", "run"} /\ PID[m] # None /\ game[PID[m]] = "up" =>
          /\ image[m] = PID[m] /\ m \in beat
          /\ \/ init[m] \in {"open", "is_magic"} \union Reading /\ Published(m)
             \/ init[m] \in {"assign", "assigned"}
             \/ init[m] \in {"hook", "hooked", "ended"} /\ g_sessionId[m] = Id(m)

GoodInv ==
    /\ \A m \in Mains : PID[m] # None => game[PID[m]] # "none"
    /\ \A m \in Mains \ (failed \union disturbed) : Good(m)

LEMMA InitGoodInv == Init => GoodInv
BY DEF Init, GoodInv, Good

\* A main's writes keep its own start-up good, and disturb every other that
\* still needs the block.
LEMMA WriteKeepsGood ==
    ASSUME TypeInv, OwnInv, GoodInv, NEW m \in Mains, WriteSession(m)
    PROVE  GoodInv'
<1>1. /\ UNCHANGED <<PID, game, image, init, beat, session, g_sessionId, failed>>
      /\ \A n \in Mains \ {m} : pc'[n] = pc[n]
      /\ disturbed' = disturbed \union {n \in Mains \ {m} : Expects(n)}
      /\ pc[m] \in Writing /\ pc'[m] \in Writing \union {"inject"} /\ pc'[m] # "zero"
  BY DEF WriteSession, Write, Go, module_vars, TypeInv, TypeOK, Writing
<1>2. ASSUME NEW n \in Mains \ {m}, n \notin failed' \union disturbed' PROVE Good(n)'
  <2>1. ~Expects(n) /\ Good(n)
    BY <1>1, <1>2 DEF GoodInv
  <2>2. init[n] \notin {"open", "is_magic"} \union Reading
    BY <2>1 DEF Expects, Waiting, Reading, InGame, TypeInv, Placed
  <2>3. pc[n] \notin Writing \union {"inject"}
    BY <2>1 DEF Expects, TypeInv, Placed, BeforeModule
  <2> QED
    BY <1>1, <2>1, <2>2, <2>3 DEF Good, Writing
<1>3. ASSUME m \notin failed' \union disturbed' PROVE Good(m)'
  <2>1. Good(m) /\ Own(m)
    BY <1>1, <1>3 DEF GoodInv, OwnInv
  <2>2. block \in [magic : BOOLEAN, game_pid : Games \union {None}, ready : {0, 1},
                   session_id : Ids]
    BY DEF TypeInv, TypeOK
  <2>3. /\ pc'[m] \in {"game_pid", "id_first", "id_second", "ready", "inject"} => block'.magic
        /\ pc'[m] \in {"id_first", "id_second", "ready", "inject"} => block'.game_pid = PID[m]
        /\ pc'[m] = "inject" => block'.ready = 1 /\ block'.session_id = Id(m)
    <3>1. CASE Write(m, "zero", "zero_again", ZeroBlock) \/ Write(m, "zero_again", "magic", ZeroBlock)
      BY <3>1 DEF Write, Go, TypeInv, TypeOK
    <3>2. CASE Write(m, "magic", "game_pid", [block EXCEPT !.magic = TRUE])
      BY <2>2, <3>2 DEF Write, Go, TypeInv, TypeOK
    <3>3. CASE Write(m, "game_pid", "id_first", [block EXCEPT !.game_pid = PID[m], !.ready = 0])
      BY <2>1, <2>2, <3>3 DEF Write, Go, TypeInv, TypeOK, Good
    <3>4. CASE Write(m, "id_first", "id_second", [block EXCEPT !.session_id.first = m])
      BY <2>1, <2>2, <3>4 DEF Write, Go, TypeInv, TypeOK, Good
    <3>5. CASE Write(m, "id_second", "ready", [block EXCEPT !.session_id.second = m])
      BY <2>1, <2>2, <3>5 DEF Write, Go, TypeInv, TypeOK, Good
    <3>6. CASE Write(m, "ready", "inject", [block EXCEPT !.ready = 1])
      BY <2>1, <2>2, <3>6 DEF Write, Go, TypeInv, TypeOK, Good, Own
    <3> QED
      BY <3>1, <3>2, <3>3, <3>4, <3>5, <3>6 DEF WriteSession
  <2> QED
    BY <1>1, <2>3 DEF Good, Published, Writing
<1> QED
  BY <1>1, <1>2, <1>3 DEF GoodInv

LEMMA BothStarted ==
    ASSUME NEW started \in SUBSET {"initialize", "HeartbeatThread"}, Cardinality(started) = 2
    PROVE  started = {"initialize", "HeartbeatThread"}
<1>1. Cardinality({}) = 0 /\ Cardinality({"initialize"}) = 1 /\ Cardinality({"HeartbeatThread"}) = 1
  BY FS_EmptySet, FS_Singleton
<1>2. \/ started = {} \/ started = {"initialize"} \/ started = {"HeartbeatThread"}
      \/ started = {"initialize", "HeartbeatThread"}
  OBVIOUS
<1>3. started # {}
  <2>1. started = {} => Cardinality(started) = Cardinality({})
    BY Zenon
  <2> QED
    BY <1>1, <2>1
<1>4. ASSUME NEW x \in {"initialize", "HeartbeatThread"} PROVE started # {x}
  <2>1. started = {x} => Cardinality(started) = Cardinality({x})
    BY Zenon
  <2>2. Cardinality({x}) = 1
    BY <1>1
  <2> QED
    BY <2>1, <2>2
<1> QED
  BY <1>2, <1>3, <1>4

\* The other steps of the mains: a call that fails is remembered.
LEMMA MainKeepsGood ==
    ASSUME TypeInv, GoodInv, NEW m \in Mains,
           \/ EndMain(m) \/ FindGame(m) \/ MapBlock(m) \/ MapFails(m)
           \/ FileMissing(m) \/ NotInjected(m) \/ Join(m) \/ Inject(m)
    PROVE  GoodInv'
<1>1. /\ UNCHANGED <<session, g_sessionId, disturbed, game>>
      /\ failed \subseteq failed' /\ beat \subseteq beat'
      /\ \A n \in Mains \ {m} : /\ pc'[n] = pc[n] /\ PID'[n] = PID[n]
                               /\ init'[n] = init[n] /\ image'[n] = image[n]
  BY DEF EndMain, FindGame, MapBlock, MapFails, FileMissing, NotInjected, Join, Inject, StartHandler, Go,
         TypeInv, TypeOK, module_vars
<1>2. block' = block \/ (block' = ZeroBlock /\ ~Exists)
  BY DEF EndMain, FindGame, MapBlock, MapFails, FileMissing, NotInjected, Join, Inject
<1>3. \A n \in Mains : PID'[n] # None => game'[PID'[n]] # "none"
  <2>1. PID'[m] # None => game'[PID'[m]] # "none"
    BY <1>1 DEF GoodInv, EndMain, FindGame, MapBlock, MapFails, FileMissing, NotInjected, Join,
                Inject, TypeInv, TypeOK
  <2> QED
    BY <1>1, <2>1 DEF GoodInv
<1>4. ASSUME NEW n \in Mains \ {m}, n \notin failed' \union disturbed' PROVE Good(n)'
  <2>1. Good(n)
    BY <1>1, <1>4 DEF GoodInv
  <2>2. CASE block' = block
    BY <1>1, <2>1, <2>2 DEF Good, Published
  <2>3. CASE ~Exists
    <3>1. pc[n] \notin Writing \union {"inject", "join", "run"}
      BY <2>3 DEF Exists, Holders
    <3> QED
      BY <1>1, <2>1, <3>1 DEF Good, Writing
  <2> QED
    BY <1>2, <2>2, <2>3
<1>5. ASSUME m \notin failed' \union disturbed' PROVE Good(m)'
  <2>1. Good(m) /\ m \notin failed
    BY <1>1, <1>5 DEF GoodInv
  <2>2. CASE EndMain(m) \/ FindGame(m) \/ MapBlock(m)
    <3>1. pc'[m] \in {"gone", "map", "zero"}
      BY <2>2 DEF EndMain, FindGame, MapBlock, Go, TypeInv, TypeOK
    <3> QED
      BY <3>1 DEF Good
  <2>3. CASE MapFails(m) \/ FileMissing(m) \/ NotInjected(m)
    BY <1>5, <2>3 DEF MapFails, FileMissing, NotInjected
  <2>4. CASE Join(m)
    <3>1. /\ UNCHANGED <<block, PID, game, module_vars>> /\ pc[m] = "join" /\ pc'[m] = "run"
      BY <2>4 DEF Join, StartHandler, Go, TypeInv, TypeOK
    <3> QED
      BY <2>1, <3>1 DEF Good, Published, module_vars
  <2>5. CASE Inject(m)
    <3>1. PICK started \in SUBSET {"initialize", "HeartbeatThread"} :
            /\ init' = [init EXCEPT ![m] = IF "initialize" \in started THEN "open" ELSE "none"]
            /\ beat' = beat \union {n \in {m} : "HeartbeatThread" \in started}
            /\ IF Cardinality(started) = 2
               THEN UNCHANGED <<faults, failed>>
               ELSE Fault /\ failed' = failed \union {m}
      BY <2>5 DEF Inject
    <3>2. Cardinality(started) = 2
      BY <1>5, <3>1
    <3>3. started = {"initialize", "HeartbeatThread"}
      BY <3>2, BothStarted
    <3>4. init'[m] = "open" /\ m \in beat'
      BY <3>1, <3>3 DEF TypeInv, TypeOK
    <3>5. /\ pc[m] = "inject" /\ pc'[m] = "join" /\ image'[m] = PID[m]
          /\ UNCHANGED <<block, PID>>
      BY <2>5 DEF Inject, Go, TypeInv, TypeOK
    <3> QED
      BY <2>1, <3>4, <3>5 DEF Good, Published
  <2> QED
    BY <2>2, <2>3, <2>4, <2>5
<1> QED
  BY <1>3, <1>4, <1>5 DEF GoodInv

\* A module that finds its own id in the block accepts it at once.
LEMMA ModuleKeepsGood ==
    ASSUME TypeInv, OwnInv, GoodInv, NEW m \in Mains,
           initialize(m)
    PROVE  GoodInv'
<1>1. UNCHANGED <<pc, PID, game, block, image, beat, disturbed>> /\ failed \subseteq failed'
  BY DEF initialize, WaitForSessionId, OpenFails, HooksFail, Unload, OpenForDll, ReadSession,
         Check, ReadFirst, ReadSecond, AssignBegins, AssignEnds, InstallHooks, others, main_vars, module_vars
<1>2. /\ \A n \in Mains \ {m} : init'[n] = init[n] /\ g_sessionId'[n] = g_sessionId[n]
  BY DEF initialize, WaitForSessionId, OpenFails, HooksFail, Unload, OpenForDll, ReadSession,
         Check, ReadFirst, ReadSecond, AssignBegins, AssignEnds, InstallHooks, Step, ReadFails, TypeInv, TypeOK,
         module_vars
<1>3. ASSUME NEW n \in Mains \ {m}, n \notin failed' \union disturbed PROVE Good(n)'
  BY <1>1, <1>2, <1>3 DEF GoodInv, Good, Published
<1>4. ASSUME m \notin failed' \union disturbed PROVE Good(m)'
  <2>1. Good(m) /\ Own(m)
    BY <1>1, <1>4 DEF GoodInv, OwnInv
  <2> SUFFICES ASSUME pc[m] \in {"join", "run"}, PID[m] # None, game[PID[m]] = "up"
               PROVE  \/ init'[m] \in {"open", "is_magic"} \union Reading
                      \/ init'[m] \in {"assign", "assigned"}
                      \/ init'[m] \in {"hook", "hooked", "ended"} /\ g_sessionId'[m] = Id(m)
    <3>1. init'[m] \in {"open", "is_magic"} \union Reading
            => init[m] \in {"open", "is_magic"} \union Reading
      BY DEF initialize, WaitForSessionId, OpenFails, HooksFail, Unload, OpenForDll, ReadSession,
             Check, ReadFirst, ReadSecond, AssignBegins, AssignEnds, InstallHooks, Step, TypeInv,
             TypeOK, Reading
    <3>2. init[m] \in {"open", "is_magic"} \union Reading
            => init[m] \notin {"assign", "assigned", "hook", "hooked", "ended"}
      BY DEF Reading
    <3> QED
      BY <1>1, <2>1, <3>1, <3>2 DEF Good, Published
  <2>2. /\ image[m] = PID[m]
        /\ \/ init[m] \in {"open", "is_magic"} \union Reading /\ Published(m)
           \/ init[m] \in {"assign", "assigned"}
           \/ init[m] \in {"hook", "hooked", "ended"} /\ g_sessionId[m] = Id(m)
    BY <2>1 DEF Good
  <2>3. CASE OpenForDll(m)
    <3>1. Exists
      BY DEF Exists, Holders
    <3> QED
      BY <2>3, <3>1 DEF OpenForDll, TypeInv, TypeOK
  <2>4. ASSUME NEW field \in {"is_magic", "is_ready", "is_game"},
               NEW next \in {"is_ready", "is_game", "read_first"}, Check(m, field, next)
        PROVE  init'[m] \in Reading
    <3>1. Published(m)
      BY <2>2, <2>4 DEF Check, Reading
    <3>2. Accepted(m, field)
      BY <2>2, <3>1 DEF Accepted, Published
    <3> QED
      BY <2>4, <3>2 DEF Check, TypeInv, TypeOK, Reading
  <2>5. CASE ReadFirst(m)
    <3>1. Published(m)
      BY <2>2, <2>5 DEF ReadFirst, Reading
    <3>2. block.session_id.first # None
      BY <3>1 DEF Published, Id, Mains, None
    <3> QED
      BY <2>5, <3>2 DEF ReadFirst, TypeInv, TypeOK, Reading
  <2>6. CASE ReadSecond(m) \/ AssignBegins(m)
    BY <2>6 DEF ReadSecond, AssignBegins, Step, TypeInv, TypeOK
  <2>7. CASE AssignEnds(m)
    <3>1. session[m] = Id(m)
      BY <2>1, <2>7 DEF AssignEnds, Step, Own
    <3> QED
      BY <2>7, <3>1 DEF AssignEnds, Step, TypeInv, TypeOK
  <2>8. CASE InstallHooks(m) \/ HooksFail(m) \/ Unload(m)
    <3>1. /\ init[m] \in {"hook", "hooked"} /\ init'[m] \in {"hooked", "ended"}
          /\ UNCHANGED g_sessionId
      BY <2>8 DEF InstallHooks, HooksFail, Unload, Step, TypeInv, TypeOK
    <3> QED
      BY <2>2, <3>1 DEF Reading
  <2>9. CASE OpenFails(m)
    BY <1>4, <2>9 DEF OpenFails
  <2> QED
    BY <2>3, <2>4, <2>5, <2>6, <2>7, <2>8, <2>9 DEF initialize, WaitForSessionId, ReadSession
<1> QED
  BY <1>1, <1>3, <1>4 DEF GoodInv

LEMMA NextGoodInv == TypeInv /\ OwnInv /\ GoodInv /\ [Next]_vars => GoodInv'
<1> SUFFICES ASSUME TypeInv, OwnInv, GoodInv, [Next]_vars PROVE GoodInv'
  OBVIOUS
<1> DEFINE Lost == \A n \in Mains : PID'[n] \in {PID[n], None}
                                   /\ (pc[n] \notin {"run", "unmapped"} => PID'[n] = PID[n])
<1>1. ASSUME NEW g \in Games, Ends(g), Lost, UNCHANGED <<pc, block, disturbed>>,
             failed \subseteq failed'
      PROVE  GoodInv'
  <2>1. /\ game'[g] = "ended" /\ \A h \in Games \ {g} : game'[h] = game[h]
        /\ \A n \in Mains : image[n] # g => /\ image'[n] = image[n] /\ init'[n] = init[n]
                                            /\ g_sessionId'[n] = g_sessionId[n]
                                            /\ n \in beat => n \in beat'
    BY <1>1 DEF Ends, TypeInv, TypeOK
  <2>2. ASSUME NEW n \in Mains \ (failed \union disturbed) PROVE Good(n)'
    <3>1. Good(n) /\ PID[n] \in Games \union {None}
      BY <2>2 DEF GoodInv, TypeInv, TypeOK
    <3>2. CASE PID'[n] = PID[n]
      BY <1>1, <2>1, <3>1, <3>2 DEF Good, Published
    <3>3. CASE PID'[n] = None /\ pc[n] \in {"run", "unmapped"}
      BY <1>1, <3>1, <3>3 DEF Good
    <3> QED
      BY <1>1, <3>2, <3>3
  <2>3. ASSUME NEW n \in Mains, PID'[n] # None PROVE game'[PID'[n]] # "none"
    BY <1>1, <2>1, <2>3 DEF GoodInv, TypeInv, TypeOK
  <2> QED
    BY <1>1, <2>2, <2>3 DEF GoodInv
<1>2. ASSUME Lost, UNCHANGED <<pc, block, disturbed, game, image, init, beat, g_sessionId>>,
             failed \subseteq failed'
      PROVE  GoodInv'
  <2>1. ASSUME NEW n \in Mains \ (failed \union disturbed) PROVE Good(n)'
    BY <1>2, <2>1 DEF GoodInv, Good, Published
  <2> QED
    BY <1>2, <2>1 DEF GoodInv
<1>3. ASSUME NEW g \in Games, StartGame(g) PROVE GoodInv'
  <2>1. /\ game[g] = "none" /\ game'[g] # "none" /\ \A h \in Games \ {g} : game'[h] = game[h]
        /\ UNCHANGED <<pc, PID, failed, block, module_vars, disturbed>>
    BY <1>3 DEF StartGame, main_vars, TypeInv, TypeOK
  <2>2. \A n \in Mains : PID[n] # g /\ (PID[n] # None => game'[PID[n]] = game[PID[n]])
    BY <2>1 DEF GoodInv, TypeInv, TypeOK, Games, None
  <2>3. ASSUME NEW n \in Mains \ (failed \union disturbed) PROVE Good(n)'
    BY <2>1, <2>2, <2>3 DEF GoodInv, Good, Published, module_vars
  <2> QED
    BY <2>1, <2>2, <2>3 DEF GoodInv
<1>4. ASSUME NEW g \in Games, EndGame(g) PROVE GoodInv'
  BY <1>1, <1>4 DEF EndGame, main_vars
<1>5. ASSUME NEW m \in Mains, ModuleDead(m) \/ CheckFails(m) PROVE GoodInv'
  <2>1. /\ PID[m] \in Games /\ Lost /\ UNCHANGED <<pc, block, disturbed>> /\ CloseGame(m)
        /\ failed \subseteq failed'
    BY <1>5, Closes DEF CloseGame, TypeInv, TypeOK
  <2> QED
    BY <1>1, <1>2, <2>1 DEF CloseGame, module_vars
<1>6. CASE UNCHANGED vars
  BY <1>2, <1>6 DEF vars, main_vars, module_vars
<1>7. CASE Calm
  BY <1>2, <1>7 DEF Calm
<1> QED
  BY <1>3, <1>4, <1>5, <1>6, <1>7, CalmSteps, WriteKeepsGood, MainKeepsGood, ModuleKeepsGood
  DEF Next, MainStep, CheckModule

-----------------------------------------------------------------------------
(* Such a start-up gets its heartbeats in time.  Due is the time by which   *)
(* the next one with the module's own id has come, if none is lost: after   *)
(* what is left of WaitForSessionId, a request that still carries garbage   *)
(* and a sleep; after the sleep; or after what is left of the request.      *)

Due(m) ==
    IF init[m] \in Waiting THEN WaitTime - waited[m] + BeatPeriod + 2 * MaxDelay
    ELSE IF sent[m] = NoId THEN rest[m] + MaxDelay
    ELSE IF sent[m] = Id(m) THEN rest[m] ELSE rest[m] + BeatPeriod + MaxDelay

Phase(m) == rest[m] <= IF sent[m] = NoId THEN BeatPeriod ELSE MaxDelay

Watched(m) == pc[m] = "run" /\ PID[m] # None /\ game[PID[m]] = "up"

\* The heartbeat comes before the stamp is too old, or before the first check.
InTime(m) == age[m] + Due(m) <= MaxAge \/ Due(m) < timer[m]

TimeInv ==
    /\ \A m \in Mains : Phase(m)
    /\ \A m \in Mains \ (failed \union disturbed) : Watched(m) => InTime(m)

LEMMA InitTimeInv == Init => TimeInv
BY TimesAssumption DEF Init, TimeInv, Phase, Watched

\* The clocks and what Due depends on, as numbers.
LEMMA Numbers ==
    ASSUME TypeInv, NEW m \in Mains
    PROVE  /\ waited[m] \in Nat /\ waited[m] <= WaitTime /\ rest[m] \in Nat
           /\ age[m] \in Nat /\ timer[m] \in Nat /\ Due(m) \in Nat
           /\ WaitTime \in Nat /\ BeatPeriod \in Nat /\ MaxDelay \in Nat /\ MaxAge \in Nat
           /\ FirstCheck \in Nat /\ CheckPeriod \in Nat
           /\ Id(m) # NoId
<1>1. /\ waited[m] \in Nat /\ waited[m] <= WaitTime /\ rest[m] \in Nat
      /\ age[m] \in Nat /\ timer[m] \in Nat
      /\ WaitTime \in Nat /\ BeatPeriod \in Nat /\ MaxDelay \in Nat /\ MaxAge \in Nat
      /\ FirstCheck \in Nat /\ CheckPeriod \in Nat
  BY TimesAssumption DEF TypeInv, TypeOK
<1>2. Due(m) \in Nat
  BY <1>1 DEF Due
<1>3. Id(m) # NoId
  BY DEF Id, NoId, Mains, None
<1> QED
  BY <1>1, <1>2, <1>3

\* A step in which nothing of this starts, but may end.
LEMMA StillInTime ==
    ASSUME TypeInv, TimeInv, NEW n \in Mains, UNCHANGED <<rest, sent, age>>,
           failed \subseteq failed', disturbed \subseteq disturbed',
           n \notin failed' \union disturbed', Watched(n)',
           pc'[n] = pc[n], PID'[n] = PID[n], game'[PID[n]] = game[PID[n]],
           waited'[n] = waited[n], init'[n] = init[n], timer'[n] = timer[n]
    PROVE  InTime(n)'
<1>1. Watched(n)
  BY DEF Watched
<1>2. InTime(n)
  BY <1>1 DEF TimeInv
<1>3. Due(n)' = Due(n)
  BY DEF Due
<1> QED
  BY <1>2, <1>3 DEF InTime

\* The handler starts with the long sleep; nothing else of a main matters.
LEMMA MainKeepsTime ==
    ASSUME TypeInv, GoodInv, TimeInv, NEW m \in Mains,
           \/ EndMain(m) \/ FindGame(m) \/ MapBlock(m) \/ MapFails(m) \/ WriteSession(m)
           \/ FileMissing(m) \/ NotInjected(m) \/ Join(m) \/ Inject(m)
    PROVE  TimeInv'
<1>1. /\ UNCHANGED <<rest, sent, age, waited, game>>
      /\ failed \subseteq failed' /\ disturbed \subseteq disturbed'
      /\ \A n \in Mains \ {m} : /\ pc'[n] = pc[n] /\ PID'[n] = PID[n] /\ init'[n] = init[n]
                               /\ timer'[n] = timer[n]
      /\ pc'[m] = "run" => Join(m)
  BY DEF EndMain, FindGame, MapBlock, MapFails, FileMissing, NotInjected, Join, Inject,
         WriteSession, Write, StartHandler, Go, TypeInv, TypeOK, module_vars, clocks
<1>2. \A n \in Mains : Phase(n)'
  BY <1>1 DEF TimeInv, Phase
<1>3. ASSUME NEW n \in Mains \ {m}, n \notin failed' \union disturbed', Watched(n)'
      PROVE  InTime(n)'
  BY <1>1, <1>3, StillInTime DEF TypeInv, TypeOK
<1>4. ASSUME Join(m) PROVE InTime(m)'
  <2>1. timer'[m] = FirstCheck /\ init'[m] = init[m] /\ waited'[m] = waited[m]
        /\ rest'[m] = rest[m] /\ sent'[m] = sent[m]
    BY <1>4 DEF Join, StartHandler, TypeInv, TypeOK, module_vars
  <2>2. Due(m)' = Due(m)
    BY <2>1 DEF Due
  <2>3. Phase(m)
    BY DEF TimeInv
  <2>4. Due(m) <= WaitTime + BeatPeriod + 2 * MaxDelay
    BY <2>3, Numbers DEF Due, Phase
  <2>5. Due(m) < FirstCheck
    BY <2>4, Numbers, PatienceAssumption
  <2> QED
    BY <2>1, <2>2, <2>5 DEF InTime
<1> QED
  BY <1>1, <1>2, <1>3, <1>4 DEF TimeInv, Watched

\* WaitForSessionId ends when it must, and then the next heartbeat has the id.
LEMMA ModuleKeepsTime ==
    ASSUME TypeInv, GoodInv, TimeInv, NEW m \in Mains, initialize(m)
    PROVE  TimeInv'
<1>1. /\ UNCHANGED <<pc, PID, game, rest, sent, age, timer, disturbed>>
      /\ failed \subseteq failed'
      /\ \A n \in Mains \ {m} : init'[n] = init[n] /\ waited'[n] = waited[n]
  BY DEF initialize, WaitForSessionId, OpenFails, HooksFail, Unload, OpenForDll, ReadSession,
         Check, ReadFirst, ReadSecond, AssignBegins, AssignEnds, InstallHooks, Step, ReadFails,
         others, main_vars, clocks, TypeInv, TypeOK
<1>2. \A n \in Mains : Phase(n)'
  BY <1>1 DEF TimeInv, Phase
<1>3. ASSUME NEW n \in Mains \ {m}, n \notin failed' \union disturbed', Watched(n)'
      PROVE  InTime(n)'
  BY <1>1, <1>3, StillInTime
<1>4. /\ init'[m] \in Waiting => init[m] \in Waiting /\ waited'[m] = waited[m]
      /\ init'[m] \notin Waiting => init[m] \in Waiting \/ Due(m)' = Due(m)
  <2>1. CASE ReadFails(m) /\ init[m] \in Waiting
    <3>1. CASE waited[m] < WaitTime
      BY <2>1, <3>1 DEF ReadFails, TypeInv, TypeOK
    <3>2. CASE ~(waited[m] < WaitTime)
      <4>1. init'[m] = "ended"
        BY <2>1, <3>2 DEF ReadFails, TypeInv, TypeOK
      <4> QED
        BY <2>1, <4>1 DEF Waiting, Reading
    <3> QED
      BY <3>1, <3>2
  <2>2. CASE init[m] \in Waiting /\ (init'[m] \in Waiting => waited'[m] = waited[m])
    BY <2>2
  <2>3. CASE InstallHooks(m) \/ HooksFail(m) \/ Unload(m)
    <3>1. init[m] \in {"hook", "hooked"} /\ init'[m] \in {"hooked", "ended"}
      BY <2>3 DEF InstallHooks, HooksFail, Unload, Step, TypeInv, TypeOK
    <3> QED
      BY <1>1, <3>1 DEF Due, Waiting, Reading
  <2>4. CASE OpenForDll(m) \/ OpenFails(m)
    BY <2>1, <2>2, <2>4 DEF OpenForDll, OpenFails, Waiting
  <2>5. CASE ReadSession(m)
    BY <2>1, <2>2, <2>5 DEF ReadSession, Check, ReadFirst, ReadSecond, Step, Waiting, Reading
  <2>6. CASE AssignBegins(m) \/ AssignEnds(m)
    <3>1. /\ init[m] \in {"assign", "assigned"} /\ init'[m] \in {"assigned", "hook"}
          /\ init'[m] = "assigned" => waited'[m] = waited[m]
      BY <2>6 DEF AssignBegins, AssignEnds, Step, TypeInv, TypeOK
    <3> QED
      BY <2>2, <3>1 DEF Waiting, Reading
  <2> QED
    BY <2>3, <2>4, <2>5, <2>6 DEF initialize, WaitForSessionId
<1>5. Due(m)' \in Nat /\ Due(m)' <= Due(m)
  <2>1. CASE init'[m] \in Waiting
    <3>1. Due(m)' = Due(m)
      BY <1>1, <1>4, <2>1 DEF Due
    <3> QED
      BY <3>1, Numbers
  <2>2. CASE init'[m] \notin Waiting /\ init[m] \in Waiting
    <3>1. Due(m) >= BeatPeriod + 2 * MaxDelay
      BY <2>2, Numbers DEF Due
    <3>2. Phase(m) /\ rest'[m] = rest[m] /\ sent'[m] = sent[m]
      BY <1>1 DEF TimeInv
    <3>3. Due(m)' \in Nat /\ Due(m)' <= BeatPeriod + 2 * MaxDelay
      BY <2>2, <3>2, Numbers DEF Due, Phase
    <3> QED
      BY <3>1, <3>3, Numbers
  <2>3. CASE Due(m)' = Due(m)
    BY <2>3, Numbers
  <2> QED
    BY <1>4, <2>1, <2>2, <2>3
<1>6. ASSUME m \notin failed' \union disturbed', Watched(m)' PROVE InTime(m)'
  <2>1. InTime(m)
    BY <1>1, <1>6 DEF TimeInv, Watched
  <2> QED
    BY <1>1, <1>5, <2>1, Numbers DEF InTime
<1> QED
  BY <1>2, <1>3, <1>6 DEF TimeInv

\* A heartbeat that begins carries the id, if there is one; one that arrives
\* makes the stamp new.
LEMMA BeatKeepsTime ==
    ASSUME TypeInv, GoodInv, TimeInv, NEW m \in Mains, HeartbeatThread(m) \/ HeartbeatLost(m)
    PROVE  TimeInv'
<1>1. /\ UNCHANGED <<pc, PID, game, block, image, init, waited, beat, g_sessionId, timer,
                     disturbed>>
      /\ failed \subseteq failed'
      /\ \A n \in Mains \ {m} : /\ rest'[n] = rest[n] /\ sent'[n] = sent[n]
                               /\ age'[n] \in {0, age[n]}
  BY DEF HeartbeatThread, BeatBegins, Stamp, HeartbeatLost, BeatEnds, Rest, main_vars, clocks,
         TypeInv, TypeOK
<1>2. ASSUME NEW n \in Mains \ {m} PROVE Phase(n)'
  BY <1>1 DEF TimeInv, Phase
<1>3. ASSUME NEW n \in Mains \ {m}, n \notin failed' \union disturbed', Watched(n)'
      PROVE  InTime(n)'
  <2>1. InTime(n)
    BY <1>1, <1>3 DEF TimeInv, Watched
  <2>2. Due(n)' = Due(n)
    BY <1>1 DEF Due
  <2>3. age'[n] \in Nat /\ age'[n] <= age[n]
    BY <1>1, Numbers
  <2> QED
    BY <1>1, <2>1, <2>2, <2>3, Numbers DEF InTime
<1>4. Phase(m)'
  <2>1. CASE BeatBegins(m) /\ g_sessionId[m] # NoId
    BY <2>1, Numbers DEF BeatBegins, Rest, Phase, TypeInv, TypeOK
  <2>2. CASE BeatBegins(m) /\ g_sessionId[m] = NoId
    BY <2>2, Numbers DEF BeatBegins, Rest, Phase, TypeInv, TypeOK
  <2>3. CASE BeatEnds(m)
    BY <2>3, Numbers DEF BeatEnds, Rest, Phase, TypeInv, TypeOK
  <2> QED
    BY <2>1, <2>2, <2>3 DEF HeartbeatThread, Stamp, HeartbeatLost
<1>5. ASSUME m \notin failed' \union disturbed', Watched(m)' PROVE InTime(m)'
  <2>1. InTime(m) /\ Good(m) /\ Watched(m)
    BY <1>1, <1>5 DEF TimeInv, GoodInv, Watched
  <2>2. init[m] \in Waiting \/ g_sessionId[m] = Id(m)
    BY <2>1 DEF Good, Watched, Waiting
  <2>3. CASE init[m] \in Waiting
    <3>1. Due(m)' = Due(m)
      BY <1>1, <2>3 DEF Due
    <3>2. age'[m] \in Nat /\ age'[m] <= age[m]
      BY <1>5, Numbers DEF HeartbeatThread, BeatBegins, Stamp, HeartbeatLost, TypeInv, TypeOK, clocks
    <3> QED
      BY <1>1, <2>1, <3>1, <3>2, Numbers DEF InTime
  <2>4. CASE init[m] \notin Waiting /\ BeatBegins(m)
    <3>1. /\ rest[m] = 0 /\ sent[m] = NoId /\ sent'[m] = Id(m) /\ rest'[m] = MaxDelay
          /\ age'[m] = age[m]
      BY <2>2, <2>4, Numbers DEF BeatBegins, Beats, Rest, TypeInv, TypeOK, clocks
    <3>2. Due(m)' = MaxDelay /\ Due(m) = MaxDelay
      BY <1>1, <2>4, <3>1, Numbers DEF Due
    <3> QED
      BY <1>1, <2>1, <3>1, <3>2 DEF InTime
  <2>5. CASE init[m] \notin Waiting /\ Stamp(m)
    <3>1. /\ sent[m] # NoId /\ sent'[m] = NoId /\ rest'[m] = BeatPeriod
          /\ age'[m] = IF sent[m] = Id(m) THEN 0 ELSE age[m]
      BY <2>5 DEF Stamp, BeatEnds, Rest, TypeInv, TypeOK
    <3>2. Due(m)' = BeatPeriod + MaxDelay
      BY <1>1, <2>5, <3>1 DEF Due
    <3>3. CASE sent[m] = Id(m)
      BY <3>1, <3>2, <3>3, Numbers, PatienceAssumption DEF InTime
    <3>4. CASE sent[m] # Id(m)
      <4>1. Due(m) >= BeatPeriod + MaxDelay
        BY <2>5, <3>1, <3>4, Numbers DEF Due
      <4> QED
        BY <1>1, <2>1, <3>1, <3>2, <3>4, <4>1, Numbers DEF InTime
    <3> QED
      BY <3>3, <3>4
  <2>6. CASE HeartbeatLost(m)
    BY <1>5, <2>6 DEF HeartbeatLost
  <2> QED
    BY <2>3, <2>4, <2>5, <2>6 DEF HeartbeatThread
<1> QED
  BY <1>1, <1>2, <1>3, <1>4, <1>5 DEF TimeInv

\* A tick brings the heartbeat as much nearer as the check and the stamp's end:
\* a thread that is due acts first.
LEMMA TickKeepsTime ==
    ASSUME TypeInv, GoodInv, TimeInv, Tick
    PROVE  TimeInv'
<1>1. UNCHANGED <<pc, PID, failed, game, init, sent, disturbed>>
  BY DEF Tick, main_vars
<1>2. ASSUME NEW n \in Mains
      PROVE  /\ waited'[n] = IF init[n] \in Waiting THEN waited[n] + 1 ELSE waited[n]
             /\ rest'[n] = IF rest[n] = 0 THEN 0 ELSE rest[n] - 1
             /\ timer'[n] = IF timer[n] = 0 THEN 0 ELSE timer[n] - 1
             /\ age'[n] = IF age[n] <= MaxAge THEN age[n] + 1 ELSE age[n]
  BY DEF Tick, Less
<1>3. ASSUME NEW n \in Mains PROVE Phase(n)'
  <2>1. Phase(n)
    BY DEF TimeInv
  <2> QED
    BY <1>1, <1>2, <2>1, Numbers DEF Phase
<1>4. ASSUME NEW n \in Mains, n \notin failed' \union disturbed', Watched(n)'
      PROVE  InTime(n)'
  <2>1. InTime(n) /\ Good(n) /\ Watched(n)
    BY <1>1, <1>4 DEF TimeInv, GoodInv, Watched
  <2>2. InGame(n) /\ n \in beat
    BY <2>1 DEF Good, Watched, InGame
  <2>3. rest[n] # 0 /\ (init[n] \in Waiting => waited[n] # WaitTime)
    BY <2>2 DEF Tick, Overdue, Beats
  <2>4. Due(n)' = Due(n) - 1 /\ Due(n) > 0
    <3>1. CASE init[n] \in Waiting
      BY <1>1, <1>2, <2>3, <3>1, Numbers DEF Due
    <3>2. CASE init[n] \notin Waiting
      BY <1>1, <1>2, <2>3, <3>2, Numbers DEF Due
    <3> QED
      BY <3>1, <3>2
  <2>5. CASE age[n] + Due(n) <= MaxAge
    <3>1. age'[n] + Due(n)' <= MaxAge
      BY <1>2, <2>4, <2>5, Numbers
    <3> QED
      BY <3>1 DEF InTime
  <2>6. CASE Due(n) < timer[n]
    <3>1. Due(n)' < timer'[n]
      BY <1>2, <2>4, <2>6, Numbers
    <3> QED
      BY <3>1 DEF InTime
  <2> QED
    BY <2>1, <2>5, <2>6 DEF InTime
<1> QED
  BY <1>3, <1>4 DEF TimeInv

LEMMA NextTimeInv == TypeInv /\ GoodInv /\ TimeInv /\ [Next]_vars => TimeInv'
<1> SUFFICES ASSUME TypeInv, GoodInv, TimeInv, [Next]_vars PROVE TimeInv'
  OBVIOUS
<1>1. ASSUME NEW g \in Games, Ends(g), UNCHANGED <<pc, clocks, disturbed>>,
             failed \subseteq failed', \A n \in Mains : PID'[n] \in {PID[n], None}
      PROVE  TimeInv'
  <2>1. /\ game'[g] = "ended" /\ \A h \in Games \ {g} : game'[h] = game[h]
        /\ \A n \in Mains : image[n] # g => /\ init'[n] = init[n] /\ waited'[n] = waited[n]
                                            /\ rest'[n] = rest[n] /\ sent'[n] = sent[n]
        /\ \A n \in Mains : image[n] = g => rest'[n] = 0 /\ sent'[n] = NoId
    BY <1>1 DEF Ends, TypeInv, TypeOK
  <2>2. ASSUME NEW n \in Mains PROVE Phase(n)'
    BY <2>1, Numbers DEF TimeInv, Phase
  <2>3. ASSUME NEW n \in Mains, n \notin failed' \union disturbed', Watched(n)'
        PROVE  InTime(n)'
    <3>1. PID'[n] = PID[n] /\ PID[n] \in Games \ {g} /\ Watched(n)
      BY <1>1, <2>1, <2>3 DEF Watched, TypeInv, TypeOK
    <3>2. image[n] = PID[n] /\ InTime(n)
      BY <1>1, <2>3, <3>1 DEF GoodInv, Good, TimeInv, Watched
    <3>3. Due(n)' = Due(n)
      BY <2>1, <3>1, <3>2 DEF Due
    <3> QED
      BY <1>1, <3>2, <3>3 DEF InTime, clocks
  <2> QED
    BY <2>2, <2>3 DEF TimeInv
<1>2. ASSUME UNCHANGED <<pc, game, init, waited, rest, sent, clocks, disturbed>>,
             failed \subseteq failed', \A n \in Mains : PID'[n] \in {PID[n], None}
      PROVE  TimeInv'
  <2>1. \A n \in Mains : Phase(n)'
    BY <1>2 DEF TimeInv, Phase
  <2>2. ASSUME NEW n \in Mains, n \notin failed' \union disturbed', Watched(n)'
        PROVE  InTime(n)'
    BY <1>2, <2>2, StillInTime DEF Watched, clocks
  <2> QED
    BY <2>1, <2>2 DEF TimeInv
<1>3. ASSUME NEW g \in Games, StartGame(g) PROVE TimeInv'
  <2>1. /\ game[g] = "none" /\ \A h \in Games \ {g} : game'[h] = game[h]
        /\ UNCHANGED <<pc, PID, failed, init, waited, rest, sent, age, timer, disturbed>>
    BY <1>3 DEF StartGame, main_vars, module_vars, clocks, TypeInv, TypeOK
  <2>2. \A n \in Mains : Phase(n)'
    BY <2>1 DEF TimeInv, Phase
  <2>3. ASSUME NEW n \in Mains, n \notin failed' \union disturbed', Watched(n)'
        PROVE  InTime(n)'
    <3>1. PID[n] \in Games \ {g}
      BY <2>1, <2>3 DEF Watched, GoodInv, TypeInv, TypeOK
    <3> QED
      BY <2>1, <2>3, <3>1, StillInTime
  <2> QED
    BY <2>2, <2>3 DEF TimeInv
<1>4. ASSUME NEW g \in Games, EndGame(g) PROVE TimeInv'
  BY <1>1, <1>4 DEF EndGame, main_vars
<1>5. ASSUME NEW m \in Mains, ModuleDead(m) \/ CheckFails(m) PROVE TimeInv'
  <2>1. /\ PID[m] \in Games /\ CloseGame(m) /\ failed \subseteq failed'
        /\ UNCHANGED <<pc, clocks, disturbed>> /\ \A n \in Mains : PID'[n] \in {PID[n], None}
    BY <1>5, Closes DEF CloseGame, TypeInv, TypeOK
  <2> QED
    BY <1>1, <1>2, <2>1 DEF CloseGame, module_vars
<1>6. ASSUME NEW m \in Mains, ModuleAlive(m) PROVE TimeInv'
  <2>1. /\ UNCHANGED <<pc, PID, failed, game, init, waited, rest, sent, age, disturbed>>
        /\ timer[m] = 0 /\ \A n \in Mains \ {m} : timer'[n] = timer[n]
    BY <1>6 DEF ModuleAlive, Asks, main_vars, module_vars, TypeInv, TypeOK
  <2>2. \A n \in Mains : Phase(n)'
    BY <2>1 DEF TimeInv, Phase
  <2>3. ASSUME NEW n \in Mains \ {m}, n \notin failed' \union disturbed', Watched(n)'
        PROVE  InTime(n)'
    BY <2>1, <2>3, StillInTime
  <2>4. ASSUME m \notin failed' \union disturbed', Watched(m)' PROVE InTime(m)'
    <3>1. InTime(m) /\ Due(m)' = Due(m)
      BY <2>1, <2>4 DEF TimeInv, Watched, Due
    <3>2. age[m] + Due(m) <= MaxAge
      BY <2>1, <3>1, Numbers DEF InTime
    <3> QED
      BY <2>1, <3>1, <3>2 DEF InTime
  <2> QED
    BY <2>2, <2>3, <2>4 DEF TimeInv
<1>7. CASE UNCHANGED vars
  BY <1>2, <1>7 DEF vars, main_vars, module_vars
<1> QED
  BY <1>3, <1>4, <1>5, <1>6, <1>7, MainKeepsTime, ModuleKeepsTime, BeatKeepsTime, TickKeepsTime
  DEF Next, MainStep, CheckModule

\* Only its own handler takes a main's game from it while it goes on.
LEMMA OnlyCheckLoses ==
    ASSUME TypeInv, Next, NEW n \in Mains, pc[n] \in {"run", "unmapped"},
           PID[n] # None, PID'[n] = None, pc'[n] # "gone"
    PROVE  ModuleDead(n) \/ CheckFails(n)
<1> USE DEF TypeInv, TypeOK
<1>1. ASSUME NEW m \in Mains,
             MapBlock(m) \/ WriteSession(m) \/ Inject(m) \/ Join(m) \/ FindGame(m) \/ EndMain(m)
             \/ MapFails(m) \/ FileMissing(m) \/ NotInjected(m) \/ initialize(m)
      PROVE  FALSE
  <2>1. CASE initialize(m)
    BY <2>1 DEF initialize, WaitForSessionId, OpenFails, HooksFail, Unload, OpenForDll,
         ReadSession, Check, ReadFirst, ReadSecond, AssignBegins, AssignEnds, InstallHooks,
         others, main_vars
  <2>2. CASE FindGame(m) \/ EndMain(m)
    BY <2>2 DEF FindGame, EndMain, Go
  <2> QED
    BY <1>1, <2>1, <2>2 DEF MapBlock, WriteSession, Write, Inject, Join, MapFails, FileMissing,
         NotInjected
<1>2. ASSUME NEW m \in Mains, ModuleDead(m) \/ CheckFails(m)
      PROVE  ModuleDead(n) \/ CheckFails(n)
  <2>1. m = n
    BY <1>2, Closes DEF CloseGame
  <2> QED
    BY <1>2, <2>1
<1>3. ASSUME NEW g \in Games, StartGame(g) \/ EndGame(g) PROVE FALSE
  BY <1>3 DEF StartGame, EndGame, main_vars
<1>4. ~Calm
  BY DEF Calm
<1> QED
  BY <1>1, <1>2, <1>3, <1>4, CalmSteps DEF Next, MainStep, CheckModule

\* The handler closes a game for want of heartbeats only if a call or a request
\* of it or of its module failed, or another main took the block before the
\* module had read it (Handler.cpp:275-300, DllMain.cpp:133-146), for any number
\* of either and any times that leave a heartbeat its time.
THEOREM SpecClosedForAReason == Spec => ClosedForAReason
<1> DEFINE Reason(m) ==
               Supervises(m) /\ pc'[m] # "gone" /\ PID'[m] = None /\ game[PID[m]] = "up"
               => m \in failed' \union disturbed
           Reasons == \A m \in Mains : Reason(m)
<1>1. ASSUME TypeInv, GoodInv, TimeInv, Next, NEW m \in Mains PROVE Reason(m)
  <2> SUFFICES ASSUME Supervises(m), pc'[m] # "gone", PID'[m] = None, game[PID[m]] = "up",
                      m \notin failed' \union disturbed
               PROVE  FALSE
    OBVIOUS
  <2>1. ModuleDead(m) /\ m \notin failed
    BY <1>1, OnlyCheckLoses, Closes DEF Supervises, CheckFails
  <2>2. Watched(m)
    BY <1>1, <2>1 DEF GoodInv, Good, Supervises, Watched
  <2>3. InTime(m)
    BY <1>1, <2>1, <2>2 DEF TimeInv
  <2>4. age[m] > MaxAge /\ timer[m] = 0
    BY <2>1 DEF ModuleDead, Asks
  <2> QED
    BY <1>1, <2>3, <2>4, Numbers DEF InTime
<1>2. TypeInv /\ GoodInv /\ TimeInv /\ [Next]_vars => [Reasons]_vars
  BY <1>1
<1> QED
  BY <1>2, InitTypeInv, NextTypeInv, InitOwnInv, NextOwnInv, InitGoodInv, NextGoodInv,
     InitTimeInv, NextTimeInv, PTL
  DEF Spec, ClosedForAReason
=============================================================================
