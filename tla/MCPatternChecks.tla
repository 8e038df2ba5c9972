--------------------------- MODULE MCPatternChecks ---------------------------
(***************************************************************************)
(* Directions on both sides of the step from 180 to -180, 49 and 50        *)
(* degrees apart; tiny steps that stand, that duck, that differ a little   *)
(* too much, and a command that jumps.                                     *)
(***************************************************************************)
EXTENDS PatternChecks

SomeYaws == {-175, 170, 1, 51}

Step(side, duck) == [side |-> side, duck |-> duck, still |-> TRUE]
SomeMoves ==
    {Step(110, FALSE), Step(-110, FALSE), Step(-128, FALSE), Step(340, TRUE),
     Step(-340, TRUE), [side |-> 110, duck |-> FALSE, still |-> FALSE]}
=============================================================================
