------------------------- MODULE PatternChecksProofs -------------------------
(***************************************************************************)
(* Proofs about PatternChecks, for any window, cooldown, threshold and     *)
(* commands.  The three checks share no state but prev_cmd and flags, so   *)
(* the inductive invariant is a conjunction of one part per check.         *)
(***************************************************************************)
EXTENDS PatternChecks, TLAPS

Pair == [made : BOOLEAN, side : Int]

\* possible_desync: an angle is one of the player's, or 0 for none.
DesyncInv ==
    /\ sent_angle \in Yaws \union {0} /\ choked_angle \in Yaws \union {0}
    /\ "AC_DESYNC_POSSIBLE" \in flags => Desync(sent_angle, choked_angle)

\* using_micromovement: the count is never ahead of the steps the player made,
\* as long as prev_cmd still shows the command evaluated last.
MicroInv ==
    /\ prev_cmd \in Pair
    /\ ticks_sidemoving \in Nat /\ steps \in 0..MaxTreshold /\ last \in -1..1
    /\ lapped \in BOOLEAN
    /\ ~prev_cmd.made => ticks_sidemoving = 0
    /\ ~lapped => /\ prev_cmd.made => last = Sign(prev_cmd.side)
                  /\ steps = MaxTreshold \/ steps >= ticks_sidemoving
    /\ "AC_MICROMOVE_PATTERN" \in flags => ticks_sidemoving >= MaxTreshold

\* possible_aimbot_zero_mouse: what is left of the cooldown is what is missing
\* to CoolDown calls.
ZeroMouseInv ==
    /\ windowTicks \in 0..Window - 1 /\ hits \in 0..windowTicks
    /\ gap \in 0..CoolDown
    /\ coolDown = CoolDown - Since
    /\ FlagsAreSpaced

\* The first command has nothing to be compared with.
MadeWhenFlagged == "AC_ZERO_MOUSE" \in flags => prev_cmd.made

IInv == flags \subseteq Flags /\ MadeWhenFlagged /\ DesyncInv /\ MicroInv /\ ZeroMouseInv

LEMMA CoolDownNat == CoolDown \in Nat \ {0}
BY WindowAssumption DEF CoolDown

\* Flips asks for opposite sides.
LEMMA FlipsAreOpposite ==
    ASSUME NEW move \in Moves, NEW prev \in Int, Flips(move, prev)
    PROVE  /\ Sign(move.side) = -Sign(prev)
           /\ Sign(prev) # 0
BY MovesAssumption DEF Flips, Target, Abs, Sign

\* The angles the code compares without their signs are never further apart
\* than the directions are.
LEMMA FoldedAnglesAreCloser ==
    ASSUME NEW a \in -180..180, NEW b \in -180..180
    PROVE  Arc(a, b) >= Abs(Abs(a) - Abs(b))
BY DEF Arc, Abs

LEMMA InitIInv == Init => IInv
<1> SUFFICES ASSUME Init PROVE IInv
  OBVIOUS
<1>1. DesyncInv
  BY DEF Init, DesyncInv
<1>2. MicroInv
  <2>1. prev_cmd \in Pair /\ ~prev_cmd.made /\ prev_cmd.side = 0
    BY DEF Init, NoCmd, Pair
  <2>2. lapped \in BOOLEAN
    BY Zenon DEF Init
  <2> QED
    BY <2>1, <2>2, ThresholdAssumption DEF Init, MicroInv
<1>3. ZeroMouseInv
  BY CoolDownNat, WindowAssumption DEF Init, ZeroMouseInv, Since, FlagsAreSpaced
<1> QED
  BY <1>1, <1>2, <1>3 DEF Init, IInv, Flags, MadeWhenFlagged

LEMMA CallKeepsDesync ==
    ASSUME IInv, NEW send_packet \in BOOLEAN, NEW yaw \in Yaws, NEW move \in Moves,
           NEW hit \in {0, 1}, determine_ban_createmove(send_packet, yaw, move, hit)
    PROVE  DesyncInv'
<1>1. sent_angle' \in Yaws \union {0} /\ choked_angle' \in Yaws \union {0}
  BY DEF IInv, DesyncInv, determine_ban_createmove, possible_desync
<1>2. "AC_DESYNC_POSSIBLE" \in flags' => Desync(sent_angle', choked_angle')
  BY DEF determine_ban_createmove
<1> QED
  BY <1>1, <1>2 DEF DesyncInv, Desync

LEMMA CallKeepsMicro ==
    ASSUME IInv, NEW send_packet \in BOOLEAN, NEW yaw \in Yaws, NEW move \in Moves,
           NEW hit \in {0, 1}, determine_ban_createmove(send_packet, yaw, move, hit)
    PROVE  MicroInv'
<1> USE ThresholdAssumption
<1>1. /\ using_micromovement(move)
      /\ prev_cmd' = [made |-> TRUE, side |-> move.side]
      /\ "AC_MICROMOVE_PATTERN" \in flags' => ticks_sidemoving' >= MaxTreshold
  BY DEF determine_ban_createmove, MicroFlag, Cmd
<1>2. /\ prev_cmd' \in Pair /\ prev_cmd'.side = move.side
      /\ last' = Sign(move.side) /\ last' \in -1..1
  BY <1>1, MovesAssumption DEF Pair, using_micromovement, Sign
<1>3. steps' \in 0..MaxTreshold
  BY <1>1 DEF using_micromovement, IInv, MicroInv
<1>4. CASE prev_cmd.made /\ move.still /\ Flips(move, prev_cmd.side)
  <2>1. /\ ticks_sidemoving' = ticks_sidemoving + 1
        /\ lapped' = lapped
    BY <1>1, <1>4 DEF using_micromovement
  <2>2. prev_cmd.side \in Int
    BY DEF IInv, MicroInv, Pair
  <2>3. ASSUME ~lapped PROVE StepsOver(move)
    BY <1>4, <2>2, <2>3, FlipsAreOpposite DEF StepsOver, IInv, MicroInv, Sign
  <2>4. ASSUME ~lapped PROVE steps' = MaxTreshold \/ steps' >= ticks_sidemoving'
    BY <1>1, <2>1, <2>3, <2>4 DEF using_micromovement, IInv, MicroInv
  <2> QED
    BY <1>1, <1>2, <1>3, <2>1, <2>4 DEF IInv, MicroInv
<1>5. CASE ~(prev_cmd.made /\ move.still /\ Flips(move, prev_cmd.side))
  <2>1. /\ ticks_sidemoving' \in {0, ticks_sidemoving}
        /\ prev_cmd.made => ticks_sidemoving' = 0
        /\ ~lapped'
    BY <1>1, <1>5 DEF using_micromovement
  <2>2. lapped' \in BOOLEAN
    BY <1>1, <1>5, Zenon DEF using_micromovement
  <2>3. ticks_sidemoving' = 0
    BY <2>1 DEF IInv, MicroInv
  <2> QED
    BY <1>1, <1>2, <1>3, <2>1, <2>2, <2>3 DEF IInv, MicroInv
<1> QED
  BY <1>4, <1>5

LEMMA CallKeepsZeroMouse ==
    ASSUME IInv, NEW send_packet \in BOOLEAN, NEW yaw \in Yaws, NEW move \in Moves,
           NEW hit \in {0, 1}, determine_ban_createmove(send_packet, yaw, move, hit)
    PROVE  ZeroMouseInv'
<1> USE CoolDownNat, WindowAssumption
<1>1. /\ possible_aimbot_zero_mouse(hit)
      /\ "AC_ZERO_MOUSE" \in flags' <=> ZeroMouseFlag(hit)
  BY DEF determine_ban_createmove
<1>2. ZeroMouseInv
  BY DEF IInv
<1>3. CASE ~prev_cmd.made
  <2>1. UNCHANGED <<windowTicks, hits, coolDown, gap>> /\ "AC_ZERO_MOUSE" \notin flags'
    BY <1>1, <1>3 DEF possible_aimbot_zero_mouse, g_zm, ZeroMouseFlag
  <2>2. "AC_ZERO_MOUSE" \notin flags
    BY <1>3 DEF IInv, MadeWhenFlagged
  <2> QED
    BY <1>2, <2>1, <2>2 DEF ZeroMouseInv, Since, FlagsAreSpaced
<1>4. CASE prev_cmd.made
  <2>1. /\ gap' = IF Since < CoolDown THEN Since + 1 ELSE Since
        /\ gap' \in 0..CoolDown
        /\ Cooled = CoolDown - gap'
    BY <1>1, <1>2, <1>4 DEF possible_aimbot_zero_mouse, ZeroMouseInv, Since, Cooled,
                            FlagsAreSpaced
  <2>2. windowTicks' \in 0..Window - 1 /\ hits' \in 0..windowTicks'
    BY <1>1, <1>2, <1>4 DEF possible_aimbot_zero_mouse, ZeroMouseInv, WindowEnds
  <2>3. coolDown' = IF ZeroMouseFlag(hit) THEN CoolDown ELSE Cooled
    BY <1>1, <1>4 DEF possible_aimbot_zero_mouse
  <2>4. ZeroMouseFlag(hit) => gap' = CoolDown
    BY <2>1 DEF ZeroMouseFlag
  <2> QED
    BY <1>1, <2>1, <2>2, <2>3, <2>4 DEF ZeroMouseInv, Since, FlagsAreSpaced
<1> QED
  BY <1>3, <1>4

LEMMA PauseKeepsIInv ==
    ASSUME IInv, NEW side \in Sides, Pause(side)
    PROVE  IInv'
<1>1. /\ prev_cmd' \in Pair /\ prev_cmd'.made
      /\ lapped' /\ lapped' \in BOOLEAN
  <2>1. side \in Int
    BY MovesAssumption DEF Sides
  <2>2. lapped' = TRUE /\ prev_cmd' = [made |-> TRUE, side |-> side]
    BY DEF Pause, Cmd
  <2> QED
    BY <2>1, <2>2, Zenon DEF Pair
<1>2. UNCHANGED <<sent_angle, choked_angle, ticks_sidemoving, windowTicks, hits,
                  coolDown, flags, gap, last, steps>>
  BY DEF Pause, g_zm
<1>3. DesyncInv'
  BY <1>2 DEF IInv, DesyncInv, Desync
<1>4. MicroInv'
  BY <1>1, <1>2 DEF IInv, MicroInv
<1>5. ZeroMouseInv'
  BY <1>2 DEF IInv, ZeroMouseInv, Since, FlagsAreSpaced
<1> QED
  BY <1>1, <1>2, <1>3, <1>4, <1>5 DEF IInv, MadeWhenFlagged

LEMMA NextIInv == IInv /\ [Next]_vars => IInv'
<1> SUFFICES ASSUME IInv, [Next]_vars PROVE IInv'
  OBVIOUS
<1>1. ASSUME NEW send_packet \in BOOLEAN, NEW yaw \in Yaws, NEW move \in Moves,
             NEW hit \in {0, 1}, determine_ban_createmove(send_packet, yaw, move, hit)
      PROVE  IInv'
  <2>1. flags' \subseteq Flags /\ MadeWhenFlagged'
    BY <1>1 DEF determine_ban_createmove, Flags, MadeWhenFlagged, Cmd
  <2> QED
    BY <1>1, <2>1, CallKeepsDesync, CallKeepsMicro, CallKeepsZeroMouse DEF IInv
<1>2. ASSUME NEW side \in Sides, Pause(side) PROVE IInv'
  BY <1>2, PauseKeepsIInv
<1>3. CASE UNCHANGED vars
  BY <1>3 DEF vars, g_zm, IInv, MadeWhenFlagged, DesyncInv, Desync, MicroInv,
              ZeroMouseInv, Since, FlagsAreSpaced
<1> QED
  BY <1>1, <1>2, <1>3 DEF Next

LEMMA InvariantHolds == Spec => []IInv
BY InitIInv, NextIInv, PTL DEF Spec

\* AC_DESYNC_POSSIBLE is about two directions of the player that really lie 50
\* degrees apart (ACFunctions.cpp:164-173), whatever the player does.
THEOREM SpecDesyncIsAngular == Spec => []DesyncIsAngular
<1>1. IInv => DesyncIsAngular
  <2> SUFFICES ASSUME IInv, "AC_DESYNC_POSSIBLE" \in flags
               PROVE  /\ {sent_angle, choked_angle} \subseteq Yaws \ {0}
                      /\ Arc(sent_angle, choked_angle) >= 50
    BY DEF DesyncIsAngular
  <2>1. /\ sent_angle \in Yaws \ {0} /\ choked_angle \in Yaws \ {0}
        /\ Abs(Abs(sent_angle) - Abs(choked_angle)) >= 50
    BY DEF IInv, DesyncInv, Desync
  <2>2. sent_angle \in -180..180 /\ choked_angle \in -180..180
    BY <2>1, YawsAssumption
  <2>3. /\ Arc(sent_angle, choked_angle) \in Int
        /\ Abs(Abs(sent_angle) - Abs(choked_angle)) \in Int
    BY <2>2 DEF Arc, Abs
  <2>4. Arc(sent_angle, choked_angle) >= Abs(Abs(sent_angle) - Abs(choked_angle))
    BY <2>2, FoldedAnglesAreCloser
  <2> QED
    BY <2>1, <2>3, <2>4
<1> QED
  BY <1>1, InvariantHolds, PTL

\* AC_MICROMOVE_PATTERN is MaxTreshold commands that step to and fro
\* (ACFunctions.cpp:70-111), for any threshold.
THEOREM SpecMicroAlternates == Spec => []MicroAlternates
<1>1. IInv => MicroAlternates
  BY ThresholdAssumption DEF IInv, MicroInv, MicroAlternates
<1> QED
  BY <1>1, InvariantHolds, PTL

\* Two AC_ZERO_MOUSE flags are at least a cooldown apart (ACFunctions.cpp:
\* 133-156), whatever the commands and the lengths of window and cooldown.
THEOREM SpecFlagsAreSpaced == Spec => []FlagsAreSpaced
<1>1. IInv => FlagsAreSpaced
  BY DEF IInv, ZeroMouseInv
<1> QED
  BY <1>1, InvariantHolds, PTL

\* While the cooldown runs, the windows it cost fit into what of it is over.
MissedInv ==
    /\ missed \in Nat /\ missed < Rounds
    /\ coolDown > 0 => missed * Window + windowTicks <= CoolDown - coolDown

LEMMA FewerWindowsFit ==
    ASSUME NEW k \in Nat, k * Window < CoolDown
    PROVE  k < Rounds
<1> SUFFICES ASSUME k >= Rounds PROVE FALSE
  BY WindowAssumption
<1>1. PICK d \in Nat : k = Rounds + d
  <2>1. k - Rounds \in Nat /\ k = Rounds + (k - Rounds)
    BY WindowAssumption
  <2> QED
    BY <2>1
<1>2. d * Window \in Nat /\ Rounds * Window \in Nat
  BY WindowAssumption
<1>3. k * Window = Rounds * Window + d * Window
  BY <1>1, WindowAssumption
<1> QED
  BY <1>2, <1>3 DEF CoolDown

LEMMA NextMissedInv == IInv /\ MissedInv /\ [Next]_vars => MissedInv'
<1> SUFFICES ASSUME IInv, MissedInv, [Next]_vars PROVE MissedInv'
  OBVIOUS
<1>1. ASSUME NEW send_packet \in BOOLEAN, NEW yaw \in Yaws, NEW move \in Moves,
             NEW hit \in {0, 1}, determine_ban_createmove(send_packet, yaw, move, hit)
      PROVE  MissedInv'
  <2>1. possible_aimbot_zero_mouse(hit)
    BY <1>1 DEF determine_ban_createmove
  <2>2. CASE ~prev_cmd.made
    BY <2>1, <2>2 DEF possible_aimbot_zero_mouse, g_zm, MissedInv
  <2>3. ASSUME prev_cmd.made, ~WindowEnds PROVE MissedInv'
    <3>1. /\ windowTicks' = windowTicks + 1 /\ missed' = missed
          /\ coolDown' = Cooled
      BY <2>1, <2>3 DEF possible_aimbot_zero_mouse, ZeroMouseFlag
    <3>2. windowTicks \in Nat /\ coolDown \in Nat /\ missed * Window \in Nat /\ CoolDown \in Nat
      BY CoolDownNat, WindowAssumption
         DEF IInv, ZeroMouseInv, MissedInv, Since
    <3> QED
      BY <3>1, <3>2 DEF MissedInv, Cooled
  <2>4. ASSUME prev_cmd.made, WindowEnds PROVE MissedInv'
    <3>1. /\ windowTicks' = 0
          /\ coolDown' = IF ZeroMouseFlag(hit) THEN CoolDown ELSE Cooled
          /\ missed' = IF hits + hit > 1 /\ ~ZeroMouseFlag(hit) THEN missed + 1 ELSE 0
      BY <2>1, <2>4 DEF possible_aimbot_zero_mouse
    <3>2. windowTicks = Window - 1 /\ coolDown \in Nat /\ CoolDown \in Nat
      BY <2>4, CoolDownNat, WindowAssumption
         DEF IInv, ZeroMouseInv, WindowEnds, Since
    <3>3. CASE hits + hit > 1 /\ ~ZeroMouseFlag(hit)
      <4>1. coolDown > 1 /\ coolDown' = coolDown - 1 /\ missed' = missed + 1
        BY <2>4, <3>1, <3>2, <3>3 DEF ZeroMouseFlag, Cooled
      <4>2. (missed + 1) * Window = missed * Window + Window
        BY WindowAssumption DEF MissedInv
      <4>3. missed * Window \in Nat /\ (missed + 1) * Window <= CoolDown - coolDown'
        BY <3>2, <4>1, <4>2, WindowAssumption DEF MissedInv
      <4>4. missed + 1 \in Nat /\ missed + 1 < Rounds
        <5>1. (missed + 1) * Window < CoolDown
          BY <3>2, <4>1, <4>2, <4>3, WindowAssumption
        <5> QED
          BY <5>1, FewerWindowsFit DEF MissedInv
      <4> QED
        BY <3>1, <4>1, <4>3, <4>4, WindowAssumption DEF MissedInv
    <3>4. CASE ~(hits + hit > 1 /\ ~ZeroMouseFlag(hit))
      <4>1. missed' = 0 /\ missed' * Window = 0
        BY <3>1, <3>4, WindowAssumption
      <4>2. CoolDown - coolDown' >= 0
        BY <3>1, <3>2 DEF IInv, ZeroMouseInv, Since, Cooled
      <4> QED
        BY <3>1, <4>1, <4>2, WindowAssumption DEF MissedInv
    <3> QED
      BY <3>3, <3>4
  <2> QED
    BY <2>2, <2>3, <2>4
<1>2. ASSUME NEW side \in Sides, Pause(side) PROVE MissedInv'
  BY <1>2 DEF Pause, g_zm, MissedInv
<1>3. CASE UNCHANGED vars
  BY <1>3 DEF vars, g_zm, MissedInv
<1> QED
  BY <1>1, <1>2, <1>3 DEF Next

\* The cooldown after an AC_ZERO_MOUSE costs fewer than Rounds suspicious
\* windows in a row (ACFunctions.cpp:140-156), for any window and cooldown.
THEOREM SpecCooldownHidesFew == Spec => []CooldownHidesFew
<1>1. Init => MissedInv
  BY WindowAssumption DEF Init, MissedInv
<1>2. MissedInv => CooldownHidesFew
  BY DEF MissedInv, CooldownHidesFew
<1> QED
  BY <1>1, <1>2, NextMissedInv, InvariantHolds, PTL DEF Spec

\* What the other parts leave out of the types.
Bounded ==
    /\ prev_cmd \in {Cmd(s) : s \in Sides} \union {NoCmd}
    /\ ticks_sidemoving <= MaxTicks

LEMMA NextBounded == IInv /\ Bounded /\ [Next]_vars => Bounded'
<1> SUFFICES ASSUME IInv, Bounded, [Next]_vars PROVE Bounded'
  OBVIOUS
<1>1. ASSUME NEW send_packet \in BOOLEAN, NEW yaw \in Yaws, NEW move \in Moves,
             NEW hit \in {0, 1}, determine_ban_createmove(send_packet, yaw, move, hit)
      PROVE  Bounded'
  <2>1. prev_cmd' = Cmd(move.side) /\ using_micromovement(move)
    BY <1>1 DEF determine_ban_createmove
  <2>2. ticks_sidemoving' <= MaxTicks
    BY <2>1, ThresholdAssumption DEF using_micromovement, IInv, MicroInv, Bounded
  <2> QED
    BY <2>1, <2>2 DEF Bounded, Sides
<1>2. ASSUME NEW side \in Sides, Pause(side) PROVE Bounded'
  BY <1>2 DEF Pause, Bounded
<1>3. CASE UNCHANGED vars
  BY <1>3 DEF vars, Bounded
<1> QED
  BY <1>1, <1>2, <1>3 DEF Next

\* The types, for any window, cooldown, threshold and commands.
THEOREM SpecTypeOK == Spec => []TypeOK
<1>1. Init => MissedInv /\ Bounded
  BY WindowAssumption, ThresholdAssumption DEF Init, MissedInv, Bounded
<1>2. IInv /\ MissedInv /\ Bounded => TypeOK
  <2> SUFFICES ASSUME IInv, MissedInv, Bounded PROVE TypeOK
    OBVIOUS
  <2>1. coolDown \in 0..CoolDown /\ CoolDown \in Nat
    BY CoolDownNat DEF IInv, ZeroMouseInv, Since
  <2>2. /\ ticks_sidemoving \in 0..MaxTicks /\ missed \in 0..Rounds
        /\ windowTicks \in 0..Window - 1 /\ hits \in 0..Window - 1 /\ gap \in 0..CoolDown
    BY ThresholdAssumption, WindowAssumption
       DEF IInv, MicroInv, ZeroMouseInv, MissedInv, Bounded
  <2>3. lapped \in BOOLEAN /\ flags \subseteq Flags
    BY DEF IInv, MicroInv
  <2> QED
    BY <2>1, <2>2, <2>3 DEF IInv, MicroInv, DesyncInv, Bounded, TypeOK
<1> QED
  BY <1>1, <1>2, NextBounded, NextMissedInv, InvariantHolds, PTL DEF Spec
=============================================================================
