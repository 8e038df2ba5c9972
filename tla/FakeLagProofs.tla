---------------------------- MODULE FakeLagProofs ----------------------------
(***************************************************************************)
(* Proofs about FakeLag for any range of choked commands.                  *)
(***************************************************************************)
EXTENDS FakeLag, TLAPS

USE DEF SuspiciousPeak, FlagScore, DecayTicks, MaxCycles

\* The score that a number of suspicious cycles can have brought: nothing
\* before the first, which counts once; later ones count twice at most.
Scored ==
    /\ cycles = 0 => fakelag_score = 0
    /\ cycles \in 1..2 => fakelag_score <= 2 * cycles - 1
    /\ last_choke_peak > 0 => cycles > 0
    /\ flagged <=> fakelag_score >= FlagScore
    /\ last_choke_cycle > 0 => fakelag_score <= MaxScore

PeakInv == PeakIsOfThisCycle /\ (last_choke_cycle = 0 => highest = 0)

IInv == TypeOK /\ Scored /\ PeakInv

LEMMA InitIInv == Init => IInv
<1> SUFFICES ASSUME Init PROVE IInv
  OBVIOUS
<1>1. flagged \in BOOLEAN /\ ~flagged
  BY Zenon DEF Init
<1> QED
  BY <1>1, BoundsAssumption
  DEF Init, IInv, TypeOK, Scored, PeakInv, PeakIsOfThisCycle

\* One call keeps the invariant; a flag is raised only by a scored cycle.
LEMMA CallFacts ==
    ASSUME IInv, NEW choke \in 0..MaxChoke, using_fakelag(choke),
           choke > 0 => fakelag_score <= MaxScore
    PROVE  /\ IInv'
           /\ ~flagged /\ flagged' => Suspicious(choke)
<1> USE BoundsAssumption DEF IInv
<1>1. /\ Peak(choke) \in 0..MaxChoke /\ Peak(choke) >= choke
      /\ Peak(choke) >= current_choke_peak
      /\ Larger(choke, highest) \in 0..MaxChoke
  BY DEF TypeOK, Peak, Larger
<1>2. PeakInv'
  BY <1>1 DEF using_fakelag, TypeOK, PeakInv, PeakIsOfThisCycle, Completed, Peak, Larger
<1>3. /\ current_choke_peak' \in 0..MaxChoke /\ last_choke_cycle' \in 0..MaxChoke
      /\ highest' \in 0..MaxChoke
  BY <1>1 DEF using_fakelag
<1>4. flagged' \in BOOLEAN /\ (flagged' <=> fakelag_score' >= 4)
      /\ last_choke_cycle' = choke
  <2>1. fakelag_score' \in Int
    BY DEF using_fakelag, ScoreCycle, Decay, Weight, TypeOK
  <2>2. flagged' = (fakelag_score' >= FlagScore)
    BY Zenon DEF using_fakelag
  <2>3. flagged' \in BOOLEAN
    <3>1. (fakelag_score' >= FlagScore) \in BOOLEAN
      BY <2>1
    <3> QED
      BY <2>2, <3>1, Zenon
  <2>4. flagged' <=> fakelag_score' >= 4
    BY <2>1, <2>2
  <2> QED
    BY <2>3, <2>4 DEF using_fakelag
<1>5. CASE Suspicious(choke)
  <2>1. /\ fakelag_score' = fakelag_score + Weight(Peak(choke))
        /\ last_choke_peak' = Peak(choke) /\ fakelag_cooldown' = 0
        /\ cycles' = IF cycles < 3 THEN cycles + 1 ELSE cycles
    BY <1>5 DEF using_fakelag, ScoreCycle
  <2>2. Weight(Peak(choke)) \in {1, 2} /\ (cycles = 0 => Weight(Peak(choke)) = 1)
    BY DEF Weight, Scored, TypeOK
  <2>3. choke = 0 /\ last_choke_cycle > 0
    BY <1>5 DEF Suspicious, Completed
  <2>4. TypeOK'
    BY <1>1, <1>3, <1>4, <2>1, <2>2, <2>3 DEF TypeOK, Scored
  <2>5. Scored'
    BY <1>1, <1>4, <2>1, <2>2, <2>3 DEF TypeOK, Scored
  <2> QED
    BY <1>2, <1>5, <2>4, <2>5
<1>6. CASE ~Suspicious(choke)
  <2>1. /\ fakelag_score' \in 0..fakelag_score /\ fakelag_cooldown' \in 0..15
        /\ UNCHANGED <<last_choke_peak, cycles>>
    BY <1>6 DEF using_fakelag, Decay, TypeOK
  <2>2. TypeOK'
    BY <1>3, <1>4, <2>1 DEF TypeOK
  <2>3. Scored'
    BY <1>4, <2>1 DEF TypeOK, Scored
  <2>4. flagged' => flagged
    BY <1>4, <2>1 DEF TypeOK, Scored
  <2> QED
    BY <1>2, <2>2, <2>3, <2>4
<1> QED
  BY <1>5, <1>6

LEMMA NextIInv == IInv /\ [Next]_vars => IInv'
<1> SUFFICES ASSUME IInv, [Next]_vars PROVE IInv'
  OBVIOUS
<1>1. CASE Next
  BY <1>1, CallFacts DEF Next
<1>2. CASE UNCHANGED vars
  BY <1>2 DEF vars, info, IInv, TypeOK, Scored, PeakInv, PeakIsOfThisCycle
<1> QED
  BY <1>1, <1>2

LEMMA SpecIInv == Spec => []IInv
BY InitIInv, NextIInv, PTL DEF Spec

\* Every variable keeps its type.
THEOREM SpecTypeOK == Spec => []TypeOK
<1>1. IInv => TypeOK
  BY DEF IInv
<1> QED
  BY <1>1, SpecIInv, PTL

\* No peak leaks from one choke cycle into the next.
THEOREM SpecPeakIsOfThisCycle == Spec => []PeakIsOfThisCycle
<1>1. IInv => PeakIsOfThisCycle
  BY DEF IInv, PeakInv
<1> QED
  BY <1>1, SpecIInv, PTL

\* AC_FAKELAG_PATTERN takes three suspicious choke cycles at least.
THEOREM SpecFlagTakesThreeCycles == Spec => []FlagTakesThreeCycles
<1>1. IInv => FlagTakesThreeCycles
  BY DEF IInv, Scored, TypeOK, FlagTakesThreeCycles
<1> QED
  BY <1>1, SpecIInv, PTL

\* The flag rises only when a choke cycle with a peak of 4 or more ends.
THEOREM SpecRaisedAtCycleEnd == Spec => RaisedAtCycleEnd
<1> DEFINE Raise ==
      ~flagged /\ flagged' => highest >= SuspiciousPeak /\ last_choke_cycle' = 0
<1>1. IInv /\ [Next]_vars => [Raise]_vars
  <2> SUFFICES ASSUME IInv, Next PROVE Raise
    OBVIOUS
  <2>1. PICK choke \in 0..MaxChoke :
           using_fakelag(choke) /\ (choke > 0 => fakelag_score <= MaxScore)
    BY DEF Next
  <2>2. ~flagged /\ flagged' => Suspicious(choke)
    BY <2>1, CallFacts
  <2>3. Suspicious(choke) => highest >= 4 /\ choke = 0
    BY DEF Suspicious, Completed, Peak, Larger, IInv, TypeOK, PeakInv, PeakIsOfThisCycle
  <2> QED
    BY <2>1, <2>2, <2>3 DEF using_fakelag
<1> QED
  BY <1>1, SpecIInv, PTL DEF Spec, RaisedAtCycleEnd

LEMMA TicksAreLeft ==
    ASSUME NEW score \in Nat, NEW cooldown \in 0..DecayTicks - 1
    PROVE  (score - FlagScore + 1) * DecayTicks - cooldown > 0 <=> score >= FlagScore
OBVIOUS

\* A flag ends after the unchoked ticks that score and cooldown stand for, not
\* earlier and not later (ACFunctions.cpp:47-67).
THEOREM SpecFlagRunsOut == Spec => FlagRunsOut
<1> DEFINE Unchoked == flagged /\ last_choke_cycle = 0 /\ last_choke_cycle' = 0
           Nearer   == TicksLeft' = TicksLeft - 1 /\ (flagged' <=> TicksLeft' > 0)
<1>1. IInv /\ [Next]_vars => [Unchoked => Nearer]_vars
  <2> SUFFICES ASSUME IInv, Next, Unchoked PROVE Nearer
    OBVIOUS
  <2>1. PICK choke \in 0..MaxChoke :
           using_fakelag(choke) /\ (choke > 0 => fakelag_score <= MaxScore)
    BY DEF Next
  <2>2. IInv'
    BY <2>1, CallFacts
  <2>3. fakelag_score \in Nat /\ fakelag_score >= 4 /\ fakelag_cooldown \in 0..15
    BY BoundsAssumption DEF IInv, TypeOK, Scored
  <2>4. Decay
    BY <2>1 DEF using_fakelag, Suspicious, Completed
  <2>5. \/ fakelag_cooldown' = fakelag_cooldown + 1 /\ fakelag_score' = fakelag_score
        \/ /\ fakelag_cooldown = 15 /\ fakelag_cooldown' = 0
           /\ fakelag_score' = fakelag_score - 1
    BY <2>3, <2>4 DEF Decay
  <2>6. TicksLeft' = TicksLeft - 1
    BY <2>3, <2>5 DEF TicksLeft
  <2>7. fakelag_cooldown' \in 0..15 /\ fakelag_score' \in Nat
    BY <2>2, BoundsAssumption DEF IInv, TypeOK
  <2>8. flagged' <=> fakelag_score' >= 4
    BY <2>2 DEF IInv, Scored
  <2>9. TicksLeft' > 0 <=> fakelag_score' >= 4
    <3> DEFINE score == fakelag_score'
               cooldown == fakelag_cooldown'
    <3>1. TicksLeft' = (score - FlagScore + 1) * DecayTicks - cooldown
      BY <2>7 DEF TicksLeft
    <3>2. score \in Nat /\ cooldown \in 0..DecayTicks - 1
      BY <2>7
    <3> HIDE DEF score, cooldown
    <3>3. (score - FlagScore + 1) * DecayTicks - cooldown > 0 <=> score >= FlagScore
      BY <3>2, TicksAreLeft
    <3>4. TicksLeft' > 0 <=> score >= FlagScore
      BY <3>1, <3>3
    <3> QED
      BY <3>4 DEF score
  <2> QED
    BY <2>6, <2>8, <2>9, Zenon
<1> QED
  BY <1>1, SpecIInv, PTL DEF Spec, FlagRunsOut
=============================================================================
