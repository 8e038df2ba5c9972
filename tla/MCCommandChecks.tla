--------------------------- MODULE MCCommandChecks ---------------------------
(***************************************************************************)
(* Commands at the limits: ticks 4, 32 and more apart, with and without a  *)
(* shot, a pitch 60 apart, a camera 5 and 6 degrees off.                   *)
(***************************************************************************)
EXTENDS CommandChecks

A(p, y) == [pitch |-> p, yaw |-> y]
Command(tick, attack, view, camera) ==
    [tick |-> tick, attack |-> attack, view |-> view, camera |-> camera, made |-> TRUE]
Honest(tick, attack, view) == Command(tick, attack, view, view)

SomeCommands ==
    {Honest(t, FALSE, a) : t \in {0, 46}, a \in {A(0, 0), A(60, 0)}} \union
    {Honest(10, TRUE, A(0, 0)), Honest(10, TRUE, A(60, 0)), Honest(14, TRUE, A(0, 0)),
     Honest(18, FALSE, A(0, 0)), Command(14, TRUE, A(0, 0), A(5, 6))}

=============================================================================
