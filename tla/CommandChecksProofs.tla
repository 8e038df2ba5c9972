------------------------- MODULE CommandChecksProofs -------------------------
(***************************************************************************)
(* Proofs about CommandChecks, for a ring of any size and any commands.    *)
(***************************************************************************)
EXTENDS CommandChecks, TLAPS

\* The slots and the counters, as far as the proofs need them.
Typed ==
    /\ sequence \in Indices
    /\ prev_cmd \in Indices \union {NoSlot}
    /\ age \in 0..Slots
    /\ pVerifiedCommands \in [Indices -> Made]

\* The remembered tick is that of the command evaluated last.
TickOfBefore == cmd_tickcount \in {0, before.tick}

\* The slot prev_cmd points at lies age + 1 behind the current one, round the
\* ring, and still holds the command evaluated last.
Placed ==
    prev_cmd # NoSlot /\ age < Slots - 1 =>
        /\ pVerifiedCommands[prev_cmd] = before
        /\ sequence - prev_cmd - 1 - age \in {0, -Slots}

IInv == Typed /\ TickOfBefore /\ Placed

-----------------------------------------------------------------------------

LEMMA Wrap ==
    ASSUME NEW i \in Indices
    PROVE  /\ (i + 1) % Slots \in Indices
           /\ (i + 1) % Slots = IF i + 1 = Slots THEN 0 ELSE i + 1
  BY SlotsAssumption DEF Indices

\* A call that evaluates nothing leaves what the checks remember.
LEMMA NotInWorldInv ==
    ASSUME IInv, NEW cmd \in Commands, MakeCommand(cmd), NotInWorld
    PROVE  IInv'
<1> USE SlotsAssumption
<1>1. sequence' \in Indices /\ sequence' = IF sequence + 1 = Slots THEN 0 ELSE sequence + 1
  BY Wrap DEF IInv, Typed, MakeCommand
<1>2. Typed'
  BY <1>1 DEF IInv, Typed, MakeCommand, NotInWorld, Made
<1>3. TickOfBefore'
  BY DEF IInv, TickOfBefore, NotInWorld
<1>4. ASSUME prev_cmd # NoSlot, age' < Slots - 1
      PROVE  /\ pVerifiedCommands'[prev_cmd] = before
             /\ sequence' - prev_cmd - 1 - age' \in {0, -Slots}
  <2>1. age < Slots - 2 /\ age' = age + 1 /\ age \in Nat
    BY <1>4 DEF NotInWorld, IInv, Typed
  <2>2. prev_cmd \in 0..Slots - 1 /\ sequence \in 0..Slots - 1
    BY <1>4 DEF IInv, Typed, Indices
  <2>3. pVerifiedCommands[prev_cmd] = before /\ sequence - prev_cmd - 1 - age \in {0, -Slots}
    BY <1>4, <2>1 DEF IInv, Placed
  <2>4. sequence' - prev_cmd - 1 - age' \in {0, -Slots}
    BY <1>1, <2>1, <2>2, <2>3
  <2>5. sequence' # prev_cmd
    BY <2>1, <2>2, <2>4
  <2>6. pVerifiedCommands'[prev_cmd] = pVerifiedCommands[prev_cmd]
    BY <2>2, <2>5 DEF MakeCommand, IInv, Typed, Indices
  <2> QED
    BY <2>3, <2>4, <2>6
<1>5. Placed'
  BY <1>4 DEF Placed, NotInWorld
<1> QED
  BY <1>2, <1>3, <1>5 DEF IInv

\* A call that evaluates a command remembers that command.
LEMMA EvaluateInv ==
    ASSUME IInv, NEW cmd \in Commands, MakeCommand(cmd), Evaluate(checked)
    PROVE  IInv'
<1> USE SlotsAssumption
<1>1. sequence' \in Indices /\ sequence' = IF sequence + 1 = Slots THEN 0 ELSE sequence + 1
  BY Wrap DEF IInv, Typed, MakeCommand
<1>2. prev_cmd' = sequence /\ age' = 0 /\ before' = checked
  BY DEF Evaluate
<1>3. Typed'
  BY <1>1, <1>2 DEF IInv, Typed, MakeCommand, Made
<1>4. TickOfBefore'
  BY <1>2 DEF Evaluate, TickOfBefore, TickCount
<1>5. Placed'
  BY <1>1, <1>2 DEF Placed, IInv, Typed, Indices, checked
<1> QED
  BY <1>3, <1>4, <1>5 DEF IInv

LEMMA IInvInitially == Init => IInv
  BY SlotsAssumption DEF Init, IInv, Typed, TickOfBefore, Placed, Indices, Made, Blank

LEMMA IInvPreserved == IInv /\ [Next]_vars => IInv'
<1> SUFFICES ASSUME IInv, [Next]_vars PROVE IInv'
  OBVIOUS
<1>1. CASE UNCHANGED vars
  BY <1>1 DEF IInv, Typed, TickOfBefore, Placed, vars, info
<1>2. ASSUME NEW cmd \in Commands, CreateMoveUnusable(cmd)
      PROVE  IInv'
  BY <1>2, NotInWorldInv DEF CreateMoveUnusable
<1>3. ASSUME NEW cmd \in Commands, NEW in_world \in BOOLEAN, CreateMove(cmd, in_world)
      PROVE  IInv'
  BY <1>3, NotInWorldInv, EvaluateInv DEF CreateMove
<1> QED
  BY <1>1, <1>2, <1>3 DEF Next

LEMMA SpecIInv == Spec => []IInv
  BY IInvInitially, IInvPreserved, PTL DEF Spec

-----------------------------------------------------------------------------

\* The tick possible_backtrack compares with and the command prev_cmd points at
\* are those of one command while the ring keeps it, for rings of any size.
THEOREM SpecPreviousAgree == Spec => []PreviousAgree
<1>1. IInv => PreviousAgree
  BY DEF IInv, TickOfBefore, Placed, PreviousAgree
<1> QED
  BY <1>1, SpecIInv, PTL

\* AC_BACKTRACK is only reported for a shot 4 to 32 ticks behind the command
\* evaluated before it, for all sequences of commands.
THEOREM SpecBacktrackIsAStepBack == Spec => BacktrackIsAStepBack
<1> DEFINE Real == Evaluated /\ "AC_BACKTRACK" \in flags' =>
                       before'.attack /\ before.tick - before'.tick \in 4..32
<1>1. ASSUME IInv, NEW cmd, Evaluate(cmd)
      PROVE  Real
  <2>1. before' = cmd /\ ("AC_BACKTRACK" \in flags' => Backtracks(cmd))
    BY <1>1 DEF Evaluate
  <2>2. CASE "AC_BACKTRACK" \in flags'
    <3>1. cmd_tickcount # 0 /\ cmd_tickcount - cmd.tick \in 4..32 /\ cmd.attack
      BY <2>1, <2>2 DEF Backtracks
    <3>2. cmd_tickcount = before.tick
      BY <1>1, <3>1 DEF IInv, TickOfBefore
    <3> QED
      BY <2>1, <3>1, <3>2
  <2> QED
    BY <2>2
<1>2. ASSUME NotInWorld
      PROVE  Real
  BY <1>2 DEF NotInWorld
<1>3. IInv /\ [Next]_vars => [Real]_vars
  BY <1>1, <1>2 DEF Next, CreateMove, CreateMoveUnusable
<1> QED
  BY <1>3, SpecIInv, PTL DEF Spec, BacktrackIsAStepBack
-----------------------------------------------------------------------------
(* What AC_RAGE_AIM is compared with *)

\* The rest of the types, what was evaluated is usable, and a saved angle is the
\* camera of the newest command of the ring.
AimInv ==
    /\ TypeOK
    /\ prev_cmd # NoSlot => Usable(before)
    /\ saved => last_engine_angle = pVerifiedCommands[sequence].camera

LEMMA BlankFacts == Blank.tick = 0 /\ ~Blank.made /\ Blank \in Made
BY DEF Blank, Made

LEMMA InitAimInv == Init => AimInv
<1> SUFFICES ASSUME Init PROVE AimInv
  OBVIOUS
<1>1. before \in Made /\ cmd_tickcount \in {c.tick : c \in Made}
  BY BlankFacts DEF Init
<1>2. pVerifiedCommands \in [Indices -> Made]
  BY BlankFacts DEF Init
<1>3. saved \in BOOLEAN /\ ~saved
  BY Zenon DEF Init
<1>4. /\ sequence \in Indices /\ age \in 0..Slots /\ flags = {}
      /\ prev_cmd = NoSlot /\ last_engine_angle = NoAngle
  BY SlotsAssumption DEF Init, Indices
<1> QED
  BY <1>1, <1>2, <1>3, <1>4 DEF AimInv, TypeOK

\* The new command gets a slot of its own, and not the one prev_cmd points at
\* while that is kept.
LEMMA MakeCommandFacts ==
    ASSUME IInv, NEW cmd \in Commands, MakeCommand(cmd)
    PROVE  /\ sequence' \in Indices /\ sequence' # sequence
           /\ pVerifiedCommands' \in [Indices -> Made]
           /\ pVerifiedCommands'[sequence'] = cmd
           /\ checked = pVerifiedCommands[sequence] /\ checked \in Made
           /\ Pointed => pVerifiedCommands'[prev_cmd] = before
<1> USE SlotsAssumption
<1>1. sequence' \in Indices /\ sequence' = IF sequence + 1 = Slots THEN 0 ELSE sequence + 1
  BY Wrap DEF IInv, Typed, MakeCommand
<1>2. sequence' # sequence
  BY <1>1 DEF IInv, Typed, Indices
<1>3. /\ pVerifiedCommands' \in [Indices -> Made]
      /\ pVerifiedCommands'[sequence'] = cmd
      /\ \A i \in Indices \ {sequence'} : pVerifiedCommands'[i] = pVerifiedCommands[i]
  BY <1>1 DEF IInv, Typed, MakeCommand, Made
<1>4. checked = pVerifiedCommands[sequence] /\ checked \in Made
  BY <1>2, <1>3 DEF checked, IInv, Typed
<1>5. ASSUME Pointed PROVE pVerifiedCommands'[prev_cmd] = before
  <2>1. /\ prev_cmd \in 0..Slots - 1 /\ sequence \in 0..Slots - 1
        /\ age \in Nat /\ age < Slots - 2
    BY <1>5 DEF IInv, Typed, Indices, Pointed
  <2>2. pVerifiedCommands[prev_cmd] = before /\ sequence - prev_cmd - 1 - age \in {0, -Slots}
    BY <1>5, <2>1 DEF IInv, Placed, Pointed
  <2>3. sequence' # prev_cmd
    BY <1>1, <2>1, <2>2
  <2> QED
    BY <1>3, <2>1, <2>2, <2>3 DEF Indices
<1> QED
  BY <1>1, <1>2, <1>3, <1>4, <1>5

LEMMA CallKeepsAim ==
    ASSUME IInv, AimInv, NEW cmd \in Commands, NEW in_world \in BOOLEAN,
           CreateMoveUnusable(cmd) \/ CreateMove(cmd, in_world)
    PROVE  AimInv'
<1>1. MakeCommand(cmd)
  BY DEF CreateMoveUnusable, CreateMove
<1>2. /\ sequence' \in Indices /\ pVerifiedCommands' \in [Indices -> Made]
      /\ pVerifiedCommands'[sequence'] = cmd /\ checked \in Made
  BY <1>1, MakeCommandFacts
<1>3. (Evaluate(checked) /\ Usable(checked)) \/ NotInWorld
  BY DEF CreateMoveUnusable, CreateMove
<1>4. /\ prev_cmd' \in Indices \union {NoSlot} /\ before' \in Made
      /\ prev_cmd' # NoSlot => Usable(before')
      /\ flags' \subseteq {"AC_BACKTRACK", "AC_RAGE_AIM"}
      /\ age' \in 0..Slots
  BY <1>2, <1>3, SlotsAssumption DEF Evaluate, NotInWorld, AimInv, TypeOK
<1>5. cmd_tickcount' \in {c.tick : c \in Made}
  <2>1. CASE NotInWorld
    BY <2>1 DEF NotInWorld, AimInv, TypeOK
  <2>2. CASE Evaluate(checked)
    <3>1. cmd_tickcount' \in {0, checked.tick}
      BY <2>2 DEF Evaluate, TickCount
    <3> QED
      BY <1>2, <3>1, BlankFacts
  <2> QED
    BY <1>3, <2>1, <2>2
<1>6. /\ last_engine_angle' \in Angles \union {NoAngle}
      /\ saved' => last_engine_angle' = cmd.camera
  BY DEF CreateMoveUnusable, CreateMove, SaveAngle, AimInv, TypeOK, Angles
<1>7. saved' \in BOOLEAN
  BY Zenon DEF CreateMoveUnusable, CreateMove
<1> QED
  BY <1>2, <1>4, <1>5, <1>6, <1>7 DEF AimInv, TypeOK

LEMMA NextAimInv == IInv /\ AimInv /\ [Next]_vars => AimInv'
<1> SUFFICES ASSUME IInv, AimInv, [Next]_vars PROVE AimInv'
  OBVIOUS
<1>1. CASE UNCHANGED vars
  BY <1>1 DEF vars, info, AimInv, TypeOK, Usable
<1>2. CASE Next
  <2>1. PICK cmd \in Commands, in_world \in BOOLEAN :
            CreateMoveUnusable(cmd) \/ CreateMove(cmd, in_world)
    BY <1>2 DEF Next
  <2> QED
    BY <2>1, CallKeepsAim
<1> QED
  BY <1>1, <1>2

LEMMA SpecAimInv == Spec => [](IInv /\ AimInv)
BY SpecIInv, InitAimInv, NextAimInv, PTL DEF Spec

\* The types, for rings of any size and any commands.
THEOREM SpecTypeOK == Spec => []TypeOK
<1>1. AimInv => TypeOK
  BY DEF AimInv
<1> QED
  BY <1>1, SpecAimInv, PTL

\* A call that evaluates a command compares it with the one evaluated before.
LEMMA EvaluatedCall ==
    ASSUME IInv, AimInv, Next, Evaluated, Pointed
    PROVE  /\ Usable(checked) /\ Evaluate(checked) /\ before' = checked
           /\ checked \in Made /\ before \in Made /\ before.made
           /\ "AC_RAGE_AIM" \in flags' <=> cmd_tickcount' # 0 /\ RageAim(checked, before)
           /\ saved => last_engine_angle = checked.camera
<1>1. PICK cmd \in Commands, in_world \in BOOLEAN :
          CreateMoveUnusable(cmd) \/ CreateMove(cmd, in_world)
  BY DEF Next
<1>2. MakeCommand(cmd)
  BY <1>1 DEF CreateMoveUnusable, CreateMove
<1>3. /\ checked = pVerifiedCommands[sequence] /\ checked \in Made
      /\ pVerifiedCommands'[prev_cmd] = before
  BY <1>2, MakeCommandFacts
<1>4. ~NotInWorld
  <2> SUFFICES ASSUME NotInWorld PROVE FALSE
    OBVIOUS
  <2>1. age \in 0..Slots /\ age' = IF age < Slots THEN age + 1 ELSE age
    BY DEF NotInWorld, IInv, Typed
  <2> QED
    BY <2>1, SlotsAssumption DEF Evaluated
<1>5. Usable(checked) /\ Evaluate(checked)
  BY <1>1, <1>4 DEF CreateMoveUnusable, CreateMove
<1>6. before' = checked /\ prev_cmd # NoSlot
  BY <1>5 DEF Evaluate, Pointed
<1>7. "AC_RAGE_AIM" \in flags' <=> cmd_tickcount' # 0 /\ RageAim(checked, before)
  BY <1>3, <1>5, <1>6 DEF Evaluate
<1>8. saved => last_engine_angle = checked.camera
  BY <1>3 DEF AimInv
<1> QED
  BY <1>3, <1>5, <1>6, <1>7, <1>8 DEF AimInv, TypeOK, Usable

LEMMA MadeFacts ==
    ASSUME NEW c \in Made
    PROVE  /\ c.tick \in Nat
           /\ c.view.pitch \in Int /\ c.view.yaw \in Int
           /\ c.camera.pitch \in Int /\ c.camera.yaw \in Int
BY CommandsAssumption DEF Made, Blank, Angle0

\* A jump of the pitch between two evaluated commands is reported unless the
\* tick went back without a backtrack, for rings of any size and any commands.
THEOREM SpecFlicksAreReported == Spec => FlicksAreReported
<1> DEFINE Reported ==
        /\ Evaluated /\ Pointed
        /\ Flick(before', before)
        /\ before'.tick >= before.tick \/ "AC_BACKTRACK" \in flags'
        => "AC_RAGE_AIM" \in flags'
<1>1. ASSUME IInv, AimInv, Next PROVE Reported
  <2> SUFFICES ASSUME Evaluated, Pointed, Flick(before', before),
                      before'.tick >= before.tick \/ "AC_BACKTRACK" \in flags'
               PROVE  "AC_RAGE_AIM" \in flags'
    OBVIOUS
  <2>1. /\ Usable(checked) /\ Evaluate(checked) /\ before' = checked
        /\ checked \in Made /\ before \in Made /\ before.made
        /\ "AC_RAGE_AIM" \in flags' <=> cmd_tickcount' # 0 /\ RageAim(checked, before)
    BY <1>1, EvaluatedCall
  <2>2. RageAim(checked, before)
    BY <2>1 DEF RageAim
  <2>3. cmd_tickcount' = TickCount(checked) /\ cmd_tickcount \in {0, before.tick}
    BY <1>1, <2>1 DEF Evaluate, IInv, TickOfBefore
  <2>4. checked.tick \in Nat /\ checked.tick # 0 /\ before.tick \in Nat
    BY <2>1, MadeFacts DEF Usable
  <2>5. CASE checked.tick >= before.tick
    BY <2>1, <2>2, <2>3, <2>4, <2>5 DEF TickCount
  <2>6. CASE "AC_BACKTRACK" \in flags'
    <3>1. Backtracks(checked)
      BY <2>1, <2>6 DEF Evaluate
    <3> QED
      BY <2>1, <2>2, <2>3, <2>4, <3>1 DEF TickCount
  <2> QED
    BY <2>1, <2>5, <2>6
<1>2. IInv /\ AimInv /\ [Next]_vars => [Reported]_vars
  BY <1>1
<1> QED
  BY <1>2, SpecAimInv, PTL DEF Spec, FlicksAreReported

\* AC_RAGE_AIM has a cause in the player's commands unless the call before left
\* an older angle, for rings of any size and any commands.
THEOREM SpecRageAimHasCause == Spec => RageAimHasCause
<1> DEFINE Caused ==
        /\ Evaluated /\ Pointed /\ saved
        /\ "AC_RAGE_AIM" \in flags'
        => \/ Flick(before', before)
           \/ Distance(before'.view.pitch, before'.camera.pitch) > 5
           \/ Distance(before'.view.yaw, before'.camera.yaw) > 5
<1>1. ASSUME IInv, AimInv, Next PROVE Caused
  <2> SUFFICES ASSUME Evaluated, Pointed, saved, "AC_RAGE_AIM" \in flags',
                      ~Flick(before', before)
               PROVE  \/ Distance(before'.view.pitch, before'.camera.pitch) > 5
                      \/ Distance(before'.view.yaw, before'.camera.yaw) > 5
    OBVIOUS
  <2>1. /\ before' = checked /\ checked \in Made
        /\ RageAim(checked, before) /\ last_engine_angle = checked.camera
    BY <1>1, EvaluatedCall
  <2>2. OffCamera(checked)
    BY <2>1 DEF RageAim
  <2>3. /\ checked.view.pitch \in Int /\ checked.view.yaw \in Int
        /\ checked.camera.pitch \in Int /\ checked.camera.yaw \in Int
    BY <2>1, MadeFacts
  <2> QED
    BY <2>1, <2>2, <2>3 DEF OffCamera, Distance
<1>2. IInv /\ AimInv /\ [Next]_vars => [Caused]_vars
  BY <1>1
<1> QED
  BY <1>2, SpecAimInv, PTL DEF Spec, RageAimHasCause
=============================================================================
