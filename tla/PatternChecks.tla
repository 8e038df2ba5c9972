---------------------------- MODULE PatternChecks ----------------------------
(***************************************************************************)
(* The checks of determine_ban_createmove (ACFunctions.cpp) that look for  *)
(* a pattern over many commands, as one call makes them:                   *)
(*   possible_desync     the yaw of the last choked and of the last sent   *)
(*                       command lie 50 degrees apart;                     *)
(*   using_micromovement a standing player who flips the sidemove between  *)
(*                       two tiny values, command after command;           *)
(*   possible_aimbot_zero_mouse  in windows of 64 commands, those that     *)
(*                       turn the view while firing without the mouse.     *)
(***************************************************************************)
EXTENDS Integers

CONSTANTS
    Window, Rounds,   \* 64, and a cooldown of 2 windows, in the code
    MaxTreshold,      \* 16 commands in the code
    MaxTicks,         \* bound: ticks_sidemoving, and then the flips stop
    Yaws,             \* view angles, in degrees
    Moves             \* records: side (sidemove in hundredths), duck, and still
                      \* (neither jumping nor moving forward)

ASSUME WindowAssumption == Window \in Nat \ {0} /\ Rounds \in Nat \ {0}
ASSUME ThresholdAssumption == MaxTreshold \in Nat \ {0} /\ MaxTicks \in Nat
ASSUME YawsAssumption == Yaws \subseteq -180..180
ASSUME MovesAssumption ==
    \A m \in Moves : m.side \in Int /\ m.duck \in BOOLEAN /\ m.still \in BOOLEAN

CoolDown == Rounds * Window
NoCmd    == [made |-> FALSE, side |-> 0]
Cmd(side) == [made |-> TRUE, side |-> side]

VARIABLES
    prev_cmd,    \* what is used of the command it points at, or NoCmd
    sent_angle, choked_angle, ticks_sidemoving,   \* of info
    windowTicks, hits, coolDown,                  \* g_zm
    flags,       \* what the last evaluated call reported, of these checks
    gap,         \* history: calls since the last AC_ZERO_MOUSE, up to CoolDown
    missed,      \* history: windows in a row with more than one hit, not flagged
    last,        \* history: where the last evaluated command stepped: -1, 0 or 1
    steps,       \* history: how many commands in a row stood and stepped to the
                 \* other side than the one before, up to MaxTreshold
    lapped       \* history: the ring was overwritten while they were counted

g_zm == <<windowTicks, hits, coolDown>>
vars == <<prev_cmd, sent_angle, choked_angle, ticks_sidemoving, g_zm, flags, gap,
          missed, last, steps, lapped>>

Sides == {m.side : m \in Moves}
Flags == {"AC_DESYNC_POSSIBLE", "AC_MICROMOVE_PATTERN", "AC_ZERO_MOUSE"}

TypeOK ==
    /\ prev_cmd \in {Cmd(s) : s \in Sides} \union {NoCmd}
    /\ sent_angle \in Yaws \union {0} /\ choked_angle \in Yaws \union {0}
    /\ ticks_sidemoving \in 0..MaxTicks
    /\ windowTicks \in 0..Window - 1 /\ hits \in 0..Window - 1
    /\ coolDown \in 0..CoolDown
    /\ flags \subseteq Flags
    /\ gap \in 0..CoolDown /\ missed \in 0..Rounds
    /\ last \in -1..1 /\ steps \in 0..MaxTreshold /\ lapped \in BOOLEAN

Init ==
    /\ prev_cmd = NoCmd
    /\ sent_angle = 0 /\ choked_angle = 0 /\ ticks_sidemoving = 0
    /\ windowTicks = 0 /\ hits = 0 /\ coolDown = 0
    /\ flags = {} /\ gap = CoolDown /\ missed = 0
    /\ last = 0 /\ steps = 0 /\ lapped = FALSE

Abs(n) == IF n < 0 THEN -n ELSE n

-----------------------------------------------------------------------------
(* possible_desync *)

\* Mutant of Desync: the signs count.
DesyncSigned(sent, choked) == Abs(sent - choked) >= 50 /\ choked # 0 /\ sent # 0

\* An angle of 0 stands for one that was never set.
Desync(sent, choked) == Abs(Abs(sent) - Abs(choked)) >= 50 /\ choked # 0 /\ sent # 0

\* The hook passes iChokedCommands > 0 as send_packet.
possible_desync(send_packet, yaw) ==
    /\ sent_angle' = IF send_packet THEN yaw ELSE sent_angle
    /\ choked_angle' = IF send_packet THEN choked_angle ELSE yaw

-----------------------------------------------------------------------------
(* using_micromovement *)

Target(move) == IF move.duck THEN 340 ELSE 110

\* Mutant of Flips: the two sidemoves may be the same.
FlipsOrNot(move, prev) ==
    /\ Abs(Abs(move.side) - Target(move)) < 20
    /\ Abs(Abs(prev) - Target(move)) < 20

\* mag_ok and flips_clean.
Flips(move, prev) ==
    /\ Abs(Abs(move.side) - Target(move)) < 20
    /\ Abs(Abs(prev) - Target(move)) < 20
    /\ Abs(move.side + prev) < 15

Sign(n) == IF n > 0 THEN 1 ELSE IF n < 0 THEN -1 ELSE 0

StepsOver(move) == move.still /\ last # 0 /\ Sign(move.side) = -last

\* The first command has nothing to be compared with: the count stays.
using_micromovement(move) ==
    /\ IF prev_cmd.made /\ move.still /\ Flips(move, prev_cmd.side)
       THEN /\ ticks_sidemoving < MaxTicks
            /\ ticks_sidemoving' = ticks_sidemoving + 1
            /\ UNCHANGED lapped
       ELSE /\ ticks_sidemoving' = IF prev_cmd.made THEN 0 ELSE ticks_sidemoving
            /\ lapped' = FALSE
    /\ last' = Sign(move.side)
    /\ steps' = IF ~StepsOver(move) THEN 0
                ELSE IF steps < MaxTreshold THEN steps + 1 ELSE steps

MicroFlag == prev_cmd.made /\ ticks_sidemoving' >= MaxTreshold

-----------------------------------------------------------------------------
(* possible_aimbot_zero_mouse *)

\* Mutant of Cooled: the cooldown never runs down.
CooledNever == coolDown

Cooled == IF coolDown > 0 THEN coolDown - 1 ELSE 0

\* A window is judged when it is full.
WindowEnds == windowTicks + 1 >= Window

\* Mutant of ZeroMouseFlag: the cooldown is not consulted.
ZeroMouseFlagAlways(hit) == prev_cmd.made /\ WindowEnds /\ hits + hit > 1

ZeroMouseFlag(hit) == prev_cmd.made /\ WindowEnds /\ hits + hit > 1 /\ Cooled = 0

Since == IF "AC_ZERO_MOUSE" \in flags THEN 0 ELSE gap

\* hit is 1 for a command that fires and turns without the mouse, else 0.
possible_aimbot_zero_mouse(hit) ==
    IF ~prev_cmd.made
    THEN UNCHANGED <<g_zm, gap, missed>>
    ELSE /\ windowTicks' = IF WindowEnds THEN 0 ELSE windowTicks + 1
         /\ hits' = IF WindowEnds THEN 0 ELSE hits + hit
         /\ coolDown' = IF ZeroMouseFlag(hit) THEN CoolDown ELSE Cooled
         /\ gap' = IF Since < CoolDown THEN Since + 1 ELSE Since
         /\ missed' = IF ~WindowEnds THEN missed
                      ELSE IF hits + hit > 1 /\ ~ZeroMouseFlag(hit) THEN missed + 1 ELSE 0

-----------------------------------------------------------------------------

\* One call: the checks, then prev_cmd.
determine_ban_createmove(send_packet, yaw, move, hit) ==
    /\ possible_desync(send_packet, yaw)
    /\ using_micromovement(move)
    /\ possible_aimbot_zero_mouse(hit)
    /\ flags' = {f \in {"AC_DESYNC_POSSIBLE"} : Desync(sent_angle', choked_angle')}
                \union {f \in {"AC_MICROMOVE_PATTERN"} : MicroFlag}
                \union {f \in {"AC_ZERO_MOUSE"} : ZeroMouseFlag(hit)}
    /\ prev_cmd' = Cmd(move.side)

\* So many calls without a player in the world that the game has overwritten
\* the command prev_cmd points at.  A shorter pause changes nothing here.
Pause(side) ==
    /\ prev_cmd.made
    /\ prev_cmd' = Cmd(side)
    /\ lapped' = TRUE
    /\ UNCHANGED <<sent_angle, choked_angle, ticks_sidemoving, g_zm, flags, gap,
                   missed, last, steps>>

Next ==
    \/ \E send_packet \in BOOLEAN, yaw \in Yaws, move \in Moves, hit \in {0, 1} :
           determine_ban_createmove(send_packet, yaw, move, hit)
    \/ \E side \in Sides : Pause(side)

Spec == Init /\ [][Next]_vars

-----------------------------------------------------------------------------
(* Properties *)

\* The smaller of the two arcs between two directions.
Arc(a, b) == IF Abs(a - b) > 180 THEN 360 - Abs(a - b) ELSE Abs(a - b)

\* INVARIANT.  AC_DESYNC_POSSIBLE means that the player has really looked, once
\* choked and once sent, in directions 50 degrees apart: the step from 180 to
\* -180 is none, and an angle never set counts for nothing, however old the
\* other is (ACFunctions.cpp:164-173).
DesyncIsAngular ==
    "AC_DESYNC_POSSIBLE" \in flags =>
        /\ {sent_angle, choked_angle} \subseteq Yaws \ {0}
        /\ Arc(sent_angle, choked_angle) >= 50

\* INVARIANT.  AC_MICROMOVE_PATTERN means that the last MaxTreshold commands all
\* stood and stepped to the other side than the one before: no jump, walk or
\* change between standing and ducking is counted in, unless the game overwrote
\* the command prev_cmd points at meanwhile (ACFunctions.cpp:70-111, 392).
MicroAlternates ==
    "AC_MICROMOVE_PATTERN" \in flags /\ ~lapped => steps = MaxTreshold

\* INVARIANT.  Two flags are at least CoolDown commands apart: a batch of 512
\* packets carries at most four of them (ACFunctions.cpp:133-156).
FlagsAreSpaced == "AC_ZERO_MOUSE" \in flags => gap >= CoolDown

\* INVARIANT.  The cooldown costs at most Rounds - 1 suspicious windows in a
\* row: it ends with a window, not in the middle of the one after.
CooldownHidesFew == missed < Rounds
=============================================================================
