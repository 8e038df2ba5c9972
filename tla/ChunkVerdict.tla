---------------------------- MODULE ChunkVerdict ----------------------------
(***************************************************************************)
(* What process_session.php decides about one chunk of telemetry, and how  *)
(* that decision is folded into the persistent state of the session.       *)
(*                                                                         *)
(* The telemetry log is a sequence of RUNS.  A run stands for consecutive  *)
(* packets of one upload: how many there are and, per flag, how many carry *)
(* it.  A run of one packet is one JSON line; longer runs let a model have *)
(* realistic ratios with few log entries.  Ratios are compared exactly, by *)
(* cross multiplication.                                                   *)
(***************************************************************************)
EXTENDS Naturals, Sequences

\* The nine detections of the game module.
Flags == {"AC_FAKELAG_PATTERN", "AC_DESYNC_POSSIBLE", "AC_ROLL_ANGLE",
          "AC_BACKTRACK", "AC_TICKBASE_SHIFT", "AC_FAKEDUCK", "AC_RAGE_AIM",
          "AC_MICROMOVE_PATTERN", "AC_ZERO_MOUSE"}

Run == [packets : Nat \ {0}, hits : [Flags -> Nat]]

\* f[1] + ... + f[n].
SumTo(f, n) ==
    LET sum[i \in 0..n] == IF i = 0 THEN 0 ELSE sum[i - 1] + f[i] IN sum[n]

PacketCount(chunk) == SumTo([i \in DOMAIN chunk |-> chunk[i].packets], Len(chunk))

HitCount(chunk, f) == SumTo([i \in DOMAIN chunk |-> chunk[i].hits[f]], Len(chunk))

\* ratio(f) > num / den.  A chunk without packets has ratio 0.
RatioAbove(chunk, f, num, den) ==
    HitCount(chunk, f) * den > num * PacketCount(chunk)

-----------------------------------------------------------------------------
\* Hard rules: one of these ratios alone bans.
HardLimit == [AC_FAKEDUCK        |-> <<2, 100>>,
              AC_BACKTRACK       |-> <<5, 1000>>,
              AC_TICKBASE_SHIFT  |-> <<5, 100>>,
              AC_DESYNC_POSSIBLE |-> <<5, 100>>,
              AC_FAKELAG_PATTERN |-> <<2, 100>>,
              AC_ROLL_ANGLE      |-> <<2, 100>>,
              AC_RAGE_AIM        |-> <<20, 100>>,
              AC_ZERO_MOUSE      |-> <<3, 1000>>]

\* Mutant of HardReasons: a chunk is not judged before it is as long as a batch.
HardReasonsOfBatch(chunk) ==
    {f \in DOMAIN HardLimit :
        /\ PacketCount(chunk) >= 512
        /\ RatioAbove(chunk, f, HardLimit[f][1], HardLimit[f][2])}

HardReasons(chunk) ==
    {f \in DOMAIN HardLimit :
        RatioAbove(chunk, f, HardLimit[f][1], HardLimit[f][2])}

\* Support rules, applied only when no hard rule fired.
Points(condition, n) == IF condition THEN n ELSE 0

SupportScore(chunk) ==
    LET zero  == RatioAbove(chunk, "AC_ZERO_MOUSE", 0, 1)
        micro == RatioAbove(chunk, "AC_MICROMOVE_PATTERN", 1, 100)
        rage  == RatioAbove(chunk, "AC_RAGE_AIM", 1, 100)
    IN  Points(zero, 1) + Points(micro, 1) + Points(rage /\ zero, 2)
          + Points(rage /\ micro, 1)

\* Mutant of SuspiciousFrom.
SuspiciousFromOne == 1

SuspiciousFrom == 3

\* The verdict on a chunk, with its score.
Judge(chunk) ==
    LET hard  == HardReasons(chunk)
        score == IF hard = {} THEN SupportScore(chunk) ELSE 0
    IN  [score   |-> score,
         reasons |-> hard,
         verdict |-> IF hard # {} THEN "ban"
                     ELSE IF score >= SuspiciousFrom THEN "suspicious"
                     ELSE "clean"]

-----------------------------------------------------------------------------
\* The persistent state of a session (session_state/<session>.json).
EscalationReasons == {"cumulative_score", "suspicious_chunks"}

SessionState ==
    [score : Nat, suspicious : Nat, chunks : Nat, banned : BOOLEAN,
     recorded : BOOLEAN, reasons : SUBSET (Flags \cup EscalationReasons)]

\* What load_state returns when there is no usable file.
FreshState ==
    [score |-> 0, suspicious |-> 0, chunks |-> 0, banned |-> FALSE,
     recorded |-> FALSE, reasons |-> {}]

\* Mutants of Accumulate: the verdict is taken for the reason; a clean chunk is
\* not counted.
AccumulateVerdict(s, j) ==
    [s EXCEPT !.chunks = @ + 1, !.reasons = @ \cup {j.verdict}]

AccumulateUnlessClean(s, j) ==
    IF j.verdict = "clean" THEN s
    ELSE [s EXCEPT !.chunks = @ + 1, !.score = @ + j.score,
                   !.banned = @ \/ j.verdict = "ban", !.reasons = @ \cup j.reasons]

\* The chunk's verdict added to the state.
Accumulate(s, j) ==
    [s EXCEPT !.chunks     = @ + 1,
              !.score      = @ + j.score,
              !.suspicious = @ + Points(j.verdict = "suspicious", 1),
              !.banned     = @ \/ j.verdict = "ban",
              !.reasons    = @ \cup j.reasons]

ScoreLimit == 6
\* Mutant of SuspiciousLimit.
SuspiciousLimitOne == 1

SuspiciousLimit == 5

Escalated(s) ==
    {r \in EscalationReasons :
        \/ r = "cumulative_score"  /\ s.score >= ScoreLimit
        \/ r = "suspicious_chunks" /\ s.suspicious >= SuspiciousLimit}

\* Session-level escalation, skipped for a session that is already banned.
Escalate(s) ==
    IF s.banned THEN s
    ELSE [s EXCEPT !.banned  = Escalated(s) # {},
                   !.reasons = @ \cup Escalated(s)]

Updated(s, j) == Escalate(Accumulate(s, j))

\* The session verdict written to the analysis log.
SessionVerdict(s) ==
    IF s.banned THEN "ban"
    ELSE IF s.score > 0 \/ s.suspicious > 0 THEN "suspicious" ELSE "clean"
=============================================================================
