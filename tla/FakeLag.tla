------------------------------- MODULE FakeLag -------------------------------
(***************************************************************************)
(* using_fakelag (ACFunctions.cpp): once per CreateMove it looks at the    *)
(* number of choked commands, remembers the peak of the current choke      *)
(* cycle, scores a finished cycle by its peak and lets the score decay.    *)
(***************************************************************************)
EXTENDS Integers

CONSTANTS MaxChoke,   \* choked commands range over 0..MaxChoke
          MaxScore    \* bound: above this score nothing is choked

ASSUME BoundsAssumption == MaxChoke \in Nat /\ MaxScore \in Nat

VARIABLES
    last_choke_cycle, current_choke_peak, last_choke_peak,
    fakelag_score, fakelag_cooldown,
    flagged,   \* what the last call returned
    cycles,    \* history: suspicious cycles so far, counted up to MaxCycles
    highest    \* history: the largest choke since the last unchoked tick

info == <<last_choke_cycle, current_choke_peak, last_choke_peak, fakelag_score,
          fakelag_cooldown>>
vars == <<info, flagged, cycles, highest>>

SuspiciousPeak == 4
FlagScore      == 4
DecayTicks     == 16
MaxCycles      == 3

TypeOK ==
    /\ last_choke_cycle \in 0..MaxChoke
    /\ current_choke_peak \in 0..MaxChoke
    /\ last_choke_peak \in 0..MaxChoke
    /\ fakelag_score \in 0..MaxScore + 2
    /\ fakelag_cooldown \in 0..DecayTicks - 1
    /\ flagged \in BOOLEAN
    /\ cycles \in 0..MaxCycles
    /\ highest \in 0..MaxChoke

Init ==
    /\ last_choke_cycle = 0 /\ current_choke_peak = 0 /\ last_choke_peak = 0
    /\ fakelag_score = 0 /\ fakelag_cooldown = 0
    /\ flagged = FALSE /\ cycles = 0 /\ highest = 0

Larger(a, b) == IF a > b THEN a ELSE b
Close(a, b) == a - b \in -2..2

\* Mutant of Completed: any drop of the choke ends the cycle.
CompletedEarly(choke) == last_choke_cycle > 0 /\ choke < last_choke_cycle

\* The last tick ended a choke cycle.
Completed(choke) == last_choke_cycle > 0 /\ choke = 0

\* Mutant of Peak: the last choke instead of the largest.
PeakLast(choke) == choke

Peak(choke) == Larger(choke, current_choke_peak)

Suspicious(choke) == Completed(choke) /\ Peak(choke) >= SuspiciousPeak

\* Mutant of Weight: the first cycle counts twice too.
WeightTwo(peak) == 2

\* A peak like the one before counts twice.
Weight(peak) ==
    IF last_choke_peak > 0 /\ Close(peak, last_choke_peak) THEN 2 ELSE 1

ScoreCycle(choke) ==
    /\ fakelag_score' = fakelag_score + Weight(Peak(choke))
    /\ last_choke_peak' = Peak(choke)
    /\ fakelag_cooldown' = 0
    /\ cycles' = IF cycles < MaxCycles THEN cycles + 1 ELSE cycles

\* Mutants of Decay: a tick too late; without effect.
DecayLate ==
    /\ IF fakelag_cooldown >= DecayTicks
       THEN fakelag_score' = Larger(fakelag_score - 1, 0) /\ fakelag_cooldown' = 0
       ELSE fakelag_cooldown' = fakelag_cooldown + 1 /\ UNCHANGED fakelag_score
    /\ UNCHANGED <<last_choke_peak, cycles>>

DecayNever ==
    /\ fakelag_cooldown' = (fakelag_cooldown + 1) % DecayTicks
    /\ UNCHANGED <<fakelag_score, last_choke_peak, cycles>>

Decay ==
    /\ IF fakelag_cooldown + 1 >= DecayTicks
       THEN /\ fakelag_score' = IF fakelag_score > 0 THEN fakelag_score - 1 ELSE 0
            /\ fakelag_cooldown' = 0
       ELSE /\ fakelag_cooldown' = fakelag_cooldown + 1
            /\ UNCHANGED fakelag_score
    /\ UNCHANGED <<last_choke_peak, cycles>>

using_fakelag(choke) ==
    /\ current_choke_peak' = IF Completed(choke) THEN 0 ELSE Peak(choke)
    /\ IF Suspicious(choke) THEN ScoreCycle(choke) ELSE Decay
    /\ last_choke_cycle' = choke
    /\ flagged' = (fakelag_score' >= FlagScore)
    /\ highest' = IF choke = 0 THEN 0 ELSE Larger(choke, highest)

Next ==
    \E choke \in 0..MaxChoke :
        /\ choke > 0 => fakelag_score <= MaxScore
        /\ using_fakelag(choke)

Spec == Init /\ [][Next]_vars

\* The game goes on without choking: ticks are taken, in the end unchoked.
QuietSpec == Spec /\ WF_vars(using_fakelag(0)) /\ <>[][using_fakelag(0)]_vars

-----------------------------------------------------------------------------
(* Properties *)

\* INVARIANT.  The remembered peak is that of the current choke cycle: none
\* leaks into the next cycle (ACFunctions.cpp:21-45).
PeakIsOfThisCycle == current_choke_peak = highest

\* INVARIANT.  AC_FAKELAG_PATTERN takes at least three suspicious cycles: the
\* first cannot count twice, and decay never adds (ACFunctions.cpp:31-59).
FlagTakesThreeCycles == flagged => cycles >= 3

\* ACTION PROPERTY.  A flag is first raised on the tick that ends a choke
\* cycle with a peak of 4 or more, never while choking or idling.
RaisedAtCycleEnd ==
    [][~flagged /\ flagged' => highest >= SuspiciousPeak /\ last_choke_cycle' = 0]_vars

\* The unchoked ticks until a flag ends.
TicksLeft == (fakelag_score - FlagScore + 1) * DecayTicks - fakelag_cooldown

\* ACTION PROPERTY.  While nothing is choked each tick brings the end of a flag
\* one tick nearer, so a flag with score s lasts at most 16 * (s - 3) unchoked
\* ticks; no way through score and cooldown holds it longer or ends it earlier
\* (ACFunctions.cpp:47-67).
FlagRunsOut ==
    [][flagged /\ last_choke_cycle = 0 /\ last_choke_cycle' = 0
         => /\ TicksLeft' = TicksLeft - 1
            /\ flagged' <=> TicksLeft' > 0]_vars

\* LIVENESS.  A player who stops choking is unflagged in the end.
FlagDecays == <>[]~flagged
=============================================================================
