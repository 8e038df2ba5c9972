---------------------------- MODULE CommandChecks ----------------------------
(***************************************************************************)
(* The CreateMove hook (Hooks.cpp) and the checks of                       *)
(* determine_ban_createmove that compare a command with an earlier one     *)
(* (ACFunctions.cpp): possible_backtrack and possible_rage_aim.  The hook  *)
(* checks the command before the one just made, in a ring of verified      *)
(* commands the game overwrites; prev_cmd is a pointer into that ring, and *)
(* the camera angle to compare with is saved at the end of every call that *)
(* was not left early.                                                     *)
(***************************************************************************)
EXTENDS Integers

CONSTANTS
    Slots,      \* of the ring: 150 in the code
    Commands    \* records: tick, attack, view (what is sent), camera (where the
                \* player looks); an angle is a record of pitch and yaw, in degrees

ASSUME SlotsAssumption == Slots \in Nat \ {0, 1}
ASSUME CommandsAssumption ==
    \A c \in Commands : /\ c.tick \in Nat /\ c.attack \in BOOLEAN /\ c.made = TRUE
                        /\ c.view.pitch \in Int /\ c.view.yaw \in Int
                        /\ c.camera.pitch \in Int /\ c.camera.yaw \in Int

\* An empty slot of the ring (command_number 0), no pointer, no angle yet.
Angle0  == [pitch |-> 0, yaw |-> 0]
Blank   == [tick |-> 0, attack |-> FALSE, view |-> Angle0, camera |-> Angle0, made |-> FALSE]
NoSlot  == -1
NoAngle == [none |-> TRUE]

VARIABLES
    sequence,            \* nSequenceNumber % Slots of the last call
    pVerifiedCommands,   \* the ring
    prev_cmd,            \* slot of the last evaluated command
    cmd_tickcount,
    last_engine_angle,   \* NoAngle while last_cmd_number_for_engine_angle is 0
    flags,               \* what the last call reported, of these two checks
    before,   \* history: the last evaluated command, as it was then
    age,      \* history: calls since prev_cmd was set, up to Slots
    saved     \* history: the last call saved the camera angle

info == <<prev_cmd, cmd_tickcount, last_engine_angle>>
vars == <<sequence, pVerifiedCommands, info, flags, before, age, saved>>

Indices == 0..Slots - 1
Made    == Commands \union {Blank}
Angles  == {c.camera : c \in Commands}

TypeOK ==
    /\ sequence \in Indices
    /\ pVerifiedCommands \in [Indices -> Made]
    /\ prev_cmd \in Indices \union {NoSlot}
    /\ cmd_tickcount \in {c.tick : c \in Made}
    /\ last_engine_angle \in Angles \union {NoAngle}
    /\ flags \subseteq {"AC_BACKTRACK", "AC_RAGE_AIM"}
    /\ before \in Made /\ age \in 0..Slots /\ saved \in BOOLEAN

Init ==
    /\ sequence = 0 /\ pVerifiedCommands = [i \in Indices |-> Blank]
    /\ prev_cmd = NoSlot /\ cmd_tickcount = 0 /\ last_engine_angle = NoAngle
    /\ flags = {} /\ before = Blank /\ age = Slots /\ saved = FALSE

-----------------------------------------------------------------------------
(* The checks *)

Distance(a, b) == IF a > b THEN a - b ELSE b - a

\* Mutant of Backtracks: the shot is not asked for.
BacktracksUnarmed(cmd) == cmd_tickcount # 0 /\ cmd_tickcount - cmd.tick \in 4..32

\* possible_backtrack: a shot whose tick lies 4 to 32 behind the last one.
Backtracks(cmd) ==
    cmd_tickcount # 0 /\ cmd_tickcount - cmd.tick \in 4..32 /\ cmd.attack

\* Mutant of TickCount: going back always forgets the tick.
TickCountForgets(cmd) ==
    IF cmd_tickcount # 0 /\ cmd.tick < cmd_tickcount THEN 0 ELSE cmd.tick

\* Any other step back makes the check start anew.
TickCount(cmd) ==
    IF cmd_tickcount # 0 /\ cmd.tick < cmd_tickcount /\ ~Backtracks(cmd) THEN 0 ELSE cmd.tick

Flick(cmd, prev) == Distance(cmd.view.pitch, prev.view.pitch) >= 60

OffCamera(cmd) ==
    /\ last_engine_angle # NoAngle
    /\ \/ Distance(last_engine_angle.pitch, cmd.view.pitch) > 5
       \/ Distance(last_engine_angle.yaw, cmd.view.yaw) > 5

\* possible_rage_aim, consulted once there is a tick and a previous command.
RageAim(cmd, prev) == prev.made /\ (Flick(cmd, prev) \/ OffCamera(cmd))

-----------------------------------------------------------------------------
(* One call of the hook *)

\* The game makes the command of this call; its slot is the oldest.
MakeCommand(cmd) ==
    /\ sequence' = (sequence + 1) % Slots
    /\ pVerifiedCommands' = [pVerifiedCommands EXCEPT ![sequence'] = cmd]

\* Mutant of checked: the command that has just been made.
checked_new == pVerifiedCommands'[sequence']

\* GetVerifiedCmd(nSequenceNumber - 1), read after MakeCommand.
checked == pVerifiedCommands'[sequence]

Usable(cmd) == cmd.made /\ cmd.tick # 0

Evaluate(cmd) ==
    /\ cmd_tickcount' = TickCount(cmd)
    /\ flags' =
         {f \in {"AC_BACKTRACK"} : Backtracks(cmd)} \union
         {f \in {"AC_RAGE_AIM"} : /\ cmd_tickcount' # 0 /\ prev_cmd # NoSlot
                                  /\ RageAim(cmd, pVerifiedCommands'[prev_cmd])}
    /\ prev_cmd' = sequence
    /\ before' = cmd /\ age' = 0

\* Without a player in the world the checks are not run.
NotInWorld ==
    /\ flags' = {}
    /\ age' = IF age < Slots THEN age + 1 ELSE age
    /\ UNCHANGED <<prev_cmd, cmd_tickcount, before>>

\* The hook returns early: nothing is checked and no angle is saved.
CreateMoveUnusable(cmd) ==
    /\ MakeCommand(cmd)
    /\ ~Usable(checked)
    /\ NotInWorld
    /\ saved' = FALSE
    /\ UNCHANGED last_engine_angle

\* Mutant of SaveAngle: not saved again once it was.
SaveAngleOnce(angle) ==
    last_engine_angle' = IF last_engine_angle = NoAngle THEN angle ELSE last_engine_angle

SaveAngle(angle) == last_engine_angle' = angle

CreateMove(cmd, in_world) ==
    /\ MakeCommand(cmd)
    /\ Usable(checked)
    /\ IF in_world THEN Evaluate(checked) ELSE NotInWorld
    /\ SaveAngle(cmd.camera)
    /\ saved' = TRUE

Next == \E cmd \in Commands :
            CreateMoveUnusable(cmd) \/ \E in_world \in BOOLEAN : CreateMove(cmd, in_world)

Spec == Init /\ [][Next]_vars

-----------------------------------------------------------------------------
(* Properties *)

\* INVARIANT.  The tick possible_backtrack remembers and the command prev_cmd
\* points at stay those of one command, for as long as the ring keeps it: the
\* tick may be forgotten, never that of another (ACFunctions.cpp:175-193, 392).
PreviousAgree ==
    prev_cmd # NoSlot /\ age < Slots - 1 =>
        /\ pVerifiedCommands[prev_cmd] = before
        /\ cmd_tickcount \in {0, pVerifiedCommands[prev_cmd].tick}

Evaluated == age' = 0
Pointed   == prev_cmd # NoSlot /\ age + 1 < Slots - 1

\* ACTION PROPERTY.  AC_BACKTRACK reports a shot whose tick lies 4 to 32 behind
\* the command evaluated before it, whatever was skipped or reset in between.
BacktrackIsAStepBack ==
    [][Evaluated /\ "AC_BACKTRACK" \in flags' =>
           before'.attack /\ before.tick - before'.tick \in 4..32]_vars

\* ACTION PROPERTY.  A jump of the pitch by 60 or more between two evaluated
\* commands is reported, unless the tick went back without a backtrack: that
\* resets the tick possible_rage_aim is guarded with (ACFunctions.cpp:189, 378).
\* The limit is that of the test at ACFunctions.cpp:202; the comment on its line
\* says "more than 50 degrees".
FlicksAreReported ==
    [][/\ Evaluated /\ Pointed
       /\ Flick(before', before)
       /\ before'.tick >= before.tick \/ "AC_BACKTRACK" \in flags'
       => "AC_RAGE_AIM" \in flags']_vars

\* ACTION PROPERTY.  AC_RAGE_AIM has a cause in the player's commands (a jump of
\* the pitch, or a command that is not where the camera was when it was made),
\* unless the call before returned early and left an older angle (Hooks.cpp:74-83).
RageAimHasCause ==
    [][/\ Evaluated /\ Pointed /\ saved
       /\ "AC_RAGE_AIM" \in flags'
       => \/ Flick(before', before)
          \/ Distance(before'.view.pitch, before'.camera.pitch) > 5
          \/ Distance(before'.view.yaw, before'.camera.yaw) > 5]_vars
=============================================================================
