------------------------- MODULE SessionServerProofs -------------------------
(***************************************************************************)
(* Proofs about SessionServer that hold for every set of workers, uploads, *)
(* upload contents and faults.                                             *)
(***************************************************************************)
EXTENDS SessionServer, WellFoundedInduction, TLAPS

USE DEF failing

-----------------------------------------------------------------------------
(* Sums *)

\* Induction over the naturals, for sets: a set of naturals that has 0 and, with
\* each number, the next one has them all; else it lacked a smallest number.
LEMMA SetInduction ==
    ASSUME NEW G \in SUBSET Nat, 0 \in G, \A n \in G : n + 1 \in G
    PROVE  G = Nat
<1> DEFINE R == {ss \in Nat \X Nat : ss[1] < ss[2]}
           T == Nat \ G
<1>1. IsWellFoundedOn(R, Nat)
  BY NatLessThanWellFounded DEF OpToRel
<1>2. \A m, n \in Nat : <<m, n>> \in R <=> m < n
  OBVIOUS
<1> HIDE DEF R
<1>3. SUFFICES ASSUME T # {} PROVE FALSE
  OBVIOUS
<1>4. PICK x \in T : \A y \in T : <<y, x>> \notin R
  BY <1>1, <1>3, WFMin
<1>5. x \in Nat \ {0}
  OBVIOUS
<1>6. x - 1 \in Nat /\ <<x - 1, x>> \in R
  BY <1>2, <1>5
<1>7. x - 1 \in G
  BY <1>4, <1>6
<1> QED
  BY <1>5, <1>7

\* s[i] is the sum of the first i values of f, for i up to n.
RunsUp(s, f, n) ==
    s = [i \in 0..n |-> IF i = 0 THEN 0 ELSE s[i - 1] + f[i]]

\* f and g have the same first n values.
Agree(f, g, n) == \A i \in 1..n : f[i] = g[i]

\* The recursive function that SumTo chooses exists.
LEMMA SumExists ==
    ASSUME NEW f, NEW m \in Nat, \A i \in 1..m : f[i] \in Nat
    PROVE  \E s \in [0..m -> Nat] : RunsUp(s, f, m)
<1> DEFINE G == {n \in Nat : n <= m => \E s \in [0..n -> Nat] : RunsUp(s, f, n)}
<1>1. 0 \in G
  <2> DEFINE s == [i \in 0..0 |-> 0]
  <2>1. s \in [0..0 -> Nat] /\ RunsUp(s, f, 0)
    BY DEF RunsUp
  <2> QED
    BY <2>1
<1>2. ASSUME NEW n \in G PROVE n + 1 \in G
  <2>1. SUFFICES ASSUME n + 1 <= m PROVE \E s \in [0..n + 1 -> Nat] : RunsUp(s, f, n + 1)
    OBVIOUS
  <2>2. PICK r \in [0..n -> Nat] : RunsUp(r, f, n)
    BY <2>1
  <2> DEFINE s == [i \in 0..n + 1 |-> IF i = n + 1 THEN r[n] + f[n + 1] ELSE r[i]]
  <2>3. r[0] = 0 /\ \A i \in 1..n : r[i] = r[i - 1] + f[i]
    BY <2>2 DEF RunsUp
  <2>4. r[n] + f[n + 1] \in Nat
    BY <2>1
  <2>5. s \in [0..n + 1 -> Nat]
    BY <2>4
  <2>6. ASSUME NEW i \in 0..n + 1 PROVE s[i] = IF i = 0 THEN 0 ELSE s[i - 1] + f[i]
    <3>1. CASE i = n + 1
      BY <3>1
    <3>2. CASE i \in 1..n
      <4>1. i - 1 \in 0..n + 1 /\ i - 1 # n + 1 /\ i # n + 1 /\ i # 0
        BY <3>2
      <4> QED
        BY <2>3, <3>2, <4>1
    <3>3. CASE i = 0
      BY <2>3, <3>3
    <3> QED
      BY <3>1, <3>2, <3>3
  <2>7. RunsUp(s, f, n + 1)
    BY <2>6 DEF RunsUp
  <2> QED
    BY <2>5, <2>7
<1>3. m \in G
  <2> HIDE DEF G
  <2>1. G \subseteq Nat
    BY DEF G
  <2> QED
    BY <1>1, <1>2, <2>1, SetInduction
<1> QED
  BY <1>3

\* It is the only one, and looks at no more values than it is asked to add.
LEMMA SumUnique ==
    ASSUME NEW f, NEW m \in Nat, NEW g, NEW n \in Nat,
           NEW s, RunsUp(s, f, m), NEW t, RunsUp(t, g, n),
           m <= n, Agree(f, g, m)
    PROVE  s[m] = t[m]
<1> DEFINE G == {i \in Nat : i <= m => s[i] = t[i]}
<1>1. 0 \in G
  BY DEF RunsUp
<1>2. ASSUME NEW i \in G PROVE i + 1 \in G
  BY DEF RunsUp, Agree
<1>3. m \in G
  <2> HIDE DEF G
  <2>1. G \subseteq Nat
    BY DEF G
  <2> QED
    BY <1>1, <1>2, <2>1, SetInduction
<1> QED
  BY <1>3

\* SumTo is its last value.
LEMMA SumIs ==
    ASSUME NEW f, NEW m \in Nat, \A i \in 1..m : f[i] \in Nat
    PROVE  \E s \in [0..m -> Nat] : RunsUp(s, f, m) /\ SumTo(f, m) = s[m]
<1> DEFINE c == CHOOSE s : s = [i \in 0..m |-> IF i = 0 THEN 0 ELSE s[i - 1] + f[i]]
<1>1. SumTo(f, m) = c[m]
  BY DEF SumTo
<1>2. PICK s \in [0..m -> Nat] : RunsUp(s, f, m)
  BY SumExists
<1>3. RunsUp(c, f, m)
  BY <1>2, Zenon DEF RunsUp
<1> HIDE DEF c
<1>4. Agree(f, f, m)
  BY DEF Agree
<1>5. c[m] = s[m]
  BY <1>2, <1>3, <1>4, SumUnique
<1> QED
  BY <1>1, <1>2, <1>5

\* An empty sum is 0, and one more value adds itself.
LEMMA SumFacts ==
    ASSUME NEW f, NEW m \in Nat, \A i \in 1..m : f[i] \in Nat
    PROVE  /\ SumTo(f, m) \in Nat
           /\ m = 0 => SumTo(f, m) = 0
           /\ m > 0 => SumTo(f, m) = SumTo(f, m - 1) + f[m]
<1>1. PICK s \in [0..m -> Nat] : RunsUp(s, f, m) /\ SumTo(f, m) = s[m]
  BY SumIs
<1>2. m = 0 => s[m] = 0
  BY <1>1 DEF RunsUp
<1>3. ASSUME m > 0 PROVE SumTo(f, m) = SumTo(f, m - 1) + f[m]
  <2>0. m - 1 \in Nat /\ \A i \in 1..m - 1 : f[i] \in Nat
    BY <1>3
  <2>1. PICK t \in [0..m - 1 -> Nat] : RunsUp(t, f, m - 1) /\ SumTo(f, m - 1) = t[m - 1]
    BY <2>0, SumIs
  <2>2. t[m - 1] = s[m - 1]
    <3>1. m - 1 \in Nat /\ m - 1 <= m /\ Agree(f, f, m - 1)
      BY <1>3 DEF Agree
    <3> QED
      BY <1>1, <2>1, <3>1, SumUnique
  <2>3. s[m] = s[m - 1] + f[m]
    BY <1>1, <1>3 DEF RunsUp
  <2> QED
    BY <1>1, <2>1, <2>2, <2>3
<1> QED
  BY <1>1, <1>2, <1>3

\* A sum depends on the values that are added only.
LEMMA SumSame ==
    ASSUME NEW f, NEW g, NEW m \in Nat, \A i \in 1..m : f[i] \in Nat /\ f[i] = g[i]
    PROVE  SumTo(f, m) = SumTo(g, m)
<1>1. PICK s \in [0..m -> Nat] : RunsUp(s, f, m) /\ SumTo(f, m) = s[m]
  BY SumIs
<1>2. PICK t \in [0..m -> Nat] : RunsUp(t, g, m) /\ SumTo(g, m) = t[m]
  <2>1. \A i \in 1..m : g[i] \in Nat
    OBVIOUS
  <2> QED
    BY <2>1, SumIs
<1>3. m <= m /\ Agree(f, g, m)
  BY DEF Agree
<1>4. s[m] = t[m]
  BY <1>1, <1>2, <1>3, SumUnique
<1> QED
  BY <1>1, <1>2, <1>4

\* h has m natural numbers of f and then n of g.
Joins(h, f, m, g, n) ==
    /\ \A i \in 1..m : f[i] \in Nat /\ h[i] = f[i]
    /\ \A i \in 1..n : g[i] \in Nat /\ h[m + i] = g[i]

\* The sum of two sequences, one after the other.
LEMMA SumConcat ==
    ASSUME NEW f, NEW m \in Nat, NEW g, NEW n \in Nat, NEW h, Joins(h, f, m, g, n)
    PROVE  SumTo(h, m + n) = SumTo(f, m) + SumTo(g, n)
<1> USE DEF Joins
<1> DEFINE G == {k \in Nat : k <= n => SumTo(h, m + k) = SumTo(f, m) + SumTo(g, k)}
<1>1. \A i \in 1..m + n : h[i] \in Nat
  <2> SUFFICES ASSUME NEW i \in 1..m + n PROVE h[i] \in Nat
    OBVIOUS
  <2>1. CASE i <= m
    BY <2>1
  <2>2. CASE i > m
    <3>1. i - m \in 1..n /\ i = m + (i - m)
      BY <2>2
    <3> QED
      BY <3>1
  <2> QED
    BY <2>1, <2>2
<1>2. 0 \in G
  <2>1. SumTo(g, 0) = 0
    BY SumFacts
  <2>2. SumTo(h, m) = SumTo(f, m) /\ SumTo(f, m) \in Nat
    BY SumSame, SumFacts
  <2> QED
    BY <2>1, <2>2
<1>3. ASSUME NEW k \in G PROVE k + 1 \in G
  <2> SUFFICES ASSUME k + 1 <= n
               PROVE  SumTo(h, m + (k + 1)) = SumTo(f, m) + SumTo(g, k + 1)
    OBVIOUS
  <2>1. SumTo(g, k + 1) = SumTo(g, k) + g[k + 1] /\ SumTo(g, k) \in Nat /\ g[k + 1] \in Nat
    <3>1. k + 1 \in Nat /\ k \in Nat /\ (k + 1) - 1 = k /\ k + 1 > 0 /\ k + 1 \in 1..n
      OBVIOUS
    <3>2. (\A i \in 1..k + 1 : g[i] \in Nat) /\ (\A i \in 1..k : g[i] \in Nat)
      BY <3>1
    <3> QED
      BY <3>1, <3>2, SumFacts
  <2>2. SumTo(h, m + (k + 1)) = SumTo(h, m + k) + h[m + (k + 1)]
    <3>1. m + (k + 1) \in Nat /\ m + (k + 1) > 0 /\ (m + (k + 1)) - 1 = m + k
      OBVIOUS
    <3>2. \A i \in 1..m + (k + 1) : h[i] \in Nat
      BY <1>1
    <3> QED
      BY <3>1, <3>2, SumFacts
  <2>3. h[m + (k + 1)] = g[k + 1]
    OBVIOUS
  <2>4. SumTo(h, m + k) = SumTo(f, m) + SumTo(g, k) /\ SumTo(f, m) \in Nat
    BY SumFacts
  <2> QED
    BY <2>1, <2>2, <2>3, <2>4
<1>4. n \in G
  <2> HIDE DEF G
  <2>1. G \subseteq Nat
    BY DEF G
  <2> QED
    BY <1>2, <1>3, <2>1, SetInduction
<1> QED
  BY <1>4

\* A bound on the ratio of every two values bounds the ratio of the sums.
LEMMA SumRatio ==
    ASSUME NEW f, NEW g, NEW m \in Nat, NEW a \in Nat, NEW b \in Nat,
           \A i \in 1..m : f[i] \in Nat /\ g[i] \in Nat /\ f[i] * a <= b * g[i]
    PROVE  SumTo(f, m) * a <= b * SumTo(g, m)
<1> DEFINE G == {k \in Nat : k <= m => SumTo(f, k) * a <= b * SumTo(g, k)}
<1>1. 0 \in G
  BY SumFacts
<1>2. ASSUME NEW k \in G PROVE k + 1 \in G
  <2> SUFFICES ASSUME k + 1 <= m
               PROVE  SumTo(f, k + 1) * a <= b * SumTo(g, k + 1)
    OBVIOUS
  <2>1. k \in Nat /\ k + 1 \in Nat /\ (k + 1) - 1 = k /\ k + 1 > 0 /\ k + 1 \in 1..m
    OBVIOUS
  <2>2. /\ SumTo(f, k + 1) = SumTo(f, k) + f[k + 1] /\ SumTo(f, k) \in Nat
        /\ SumTo(g, k + 1) = SumTo(g, k) + g[k + 1] /\ SumTo(g, k) \in Nat
    <3>1. /\ \A i \in 1..k + 1 : f[i] \in Nat /\ g[i] \in Nat
          /\ \A i \in 1..k : f[i] \in Nat /\ g[i] \in Nat
      BY <2>1
    <3> QED
      BY <2>1, <3>1, SumFacts
  <2>3. SumTo(f, k) * a <= b * SumTo(g, k) /\ f[k + 1] * a <= b * g[k + 1]
    BY <2>1
  <2>4. f[k + 1] \in Nat /\ g[k + 1] \in Nat
    BY <2>1
  <2>5. \A p, q, x, y \in Nat :
          p * a <= b * q /\ x * a <= b * y => (p + x) * a <= b * (q + y)
    OBVIOUS
  <2> QED
    BY <2>2, <2>3, <2>4, <2>5
<1>3. m \in G
  <2> HIDE DEF G
  <2>1. G \subseteq Nat
    BY DEF G
  <2> QED
    BY <1>1, <1>2, <2>1, SetInduction
<1> QED
  BY <1>3

-----------------------------------------------------------------------------
(* The verdict operators *)

\* What a chunk counts are naturals.
LEMMA CountFacts ==
    ASSUME NEW chunk \in Seq(Run)
    PROVE  /\ PacketCount(chunk) \in Nat
           /\ \A f \in Flags : HitCount(chunk, f) \in Nat
<1>1. Len(chunk) \in Nat /\ DOMAIN chunk = 1..Len(chunk)
  OBVIOUS
<1>2. \A i \in 1..Len(chunk) : chunk[i].packets \in Nat /\ chunk[i].hits \in [Flags -> Nat]
  <2>1. \A i \in 1..Len(chunk) : chunk[i] \in Run
    OBVIOUS
  <2> QED
    BY <2>1 DEF Run
<1>3. PacketCount(chunk) \in Nat
  <2> DEFINE p == [i \in DOMAIN chunk |-> chunk[i].packets]
  <2>1. \A i \in 1..Len(chunk) : p[i] \in Nat
    BY <1>1, <1>2
  <2> HIDE DEF p
  <2>2. SumTo(p, Len(chunk)) \in Nat
    BY <1>1, <2>1, SumFacts
  <2> QED
    BY <2>2 DEF PacketCount, p
<1>4. ASSUME NEW f \in Flags PROVE HitCount(chunk, f) \in Nat
  <2> DEFINE h == [i \in DOMAIN chunk |-> chunk[i].hits[f]]
  <2>1. \A i \in 1..Len(chunk) : h[i] \in Nat
    BY <1>1, <1>2
  <2> HIDE DEF h
  <2>2. SumTo(h, Len(chunk)) \in Nat
    BY <1>1, <2>1, SumFacts
  <2> QED
    BY <2>2 DEF HitCount, h
<1> QED
  BY <1>3, <1>4

\* The packets and hits of two chunks add up to those of the two in one.
LEMMA CountsAdd ==
    ASSUME NEW a \in Seq(Run), NEW b \in Seq(Run)
    PROVE  /\ PacketCount(a \o b) = PacketCount(a) + PacketCount(b)
           /\ \A f \in Flags : HitCount(a \o b, f) = HitCount(a, f) + HitCount(b, f)
<1> DEFINE c == a \o b
<1>1. /\ Len(a) \in Nat /\ DOMAIN a = 1..Len(a)
      /\ Len(b) \in Nat /\ DOMAIN b = 1..Len(b)
      /\ Len(c) = Len(a) + Len(b) /\ DOMAIN c = 1..Len(a) + Len(b)
  OBVIOUS
<1>2. /\ \A i \in 1..Len(a) : c[i] = a[i] /\ i \in DOMAIN c
      /\ \A i \in 1..Len(b) : c[Len(a) + i] = b[i] /\ Len(a) + i \in DOMAIN c
  OBVIOUS
<1>3. /\ \A i \in 1..Len(a) : a[i].packets \in Nat /\ a[i].hits \in [Flags -> Nat]
      /\ \A i \in 1..Len(b) : b[i].packets \in Nat /\ b[i].hits \in [Flags -> Nat]
  <2>1. (\A i \in 1..Len(a) : a[i] \in Run) /\ \A i \in 1..Len(b) : b[i] \in Run
    OBVIOUS
  <2> QED
    BY <2>1 DEF Run
<1> HIDE DEF c
<1>4. PacketCount(c) = PacketCount(a) + PacketCount(b)
  <2> DEFINE p(s) == [i \in DOMAIN s |-> s[i].packets]
  <2>1. /\ \A i \in 1..Len(a) : p(a)[i] \in Nat /\ p(c)[i] = p(a)[i]
        /\ \A i \in 1..Len(b) : p(b)[i] \in Nat /\ p(c)[Len(a) + i] = p(b)[i]
    BY <1>1, <1>2, <1>3
  <2> DEFINE pa == p(a)
             pb == p(b)
             pab == p(c)
  <2>2. SumTo(pab, Len(a) + Len(b)) = SumTo(pa, Len(a)) + SumTo(pb, Len(b))
    <3> HIDE DEF pa, pb, pab
    <3>1. Joins(pab, pa, Len(a), pb, Len(b))
      BY <2>1 DEF Joins, pa, pb, pab
    <3> QED
      BY <1>1, <3>1, SumConcat
  <2> QED
    BY <1>1, <2>2 DEF PacketCount
<1>5. ASSUME NEW f \in Flags PROVE HitCount(c, f) = HitCount(a, f) + HitCount(b, f)
  <2> DEFINE h(s) == [i \in DOMAIN s |-> s[i].hits[f]]
  <2>1. /\ \A i \in 1..Len(a) : h(a)[i] \in Nat /\ h(c)[i] = h(a)[i]
        /\ \A i \in 1..Len(b) : h(b)[i] \in Nat /\ h(c)[Len(a) + i] = h(b)[i]
    BY <1>1, <1>2, <1>3
  <2> DEFINE ha == h(a)
             hb == h(b)
             hab == h(c)
  <2>2. SumTo(hab, Len(a) + Len(b)) = SumTo(ha, Len(a)) + SumTo(hb, Len(b))
    <3> HIDE DEF ha, hb, hab
    <3>1. Joins(hab, ha, Len(a), hb, Len(b))
      BY <2>1 DEF Joins, ha, hb, hab
    <3> QED
      BY <1>1, <3>1, SumConcat
  <2> QED
    BY <1>1, <2>2 DEF HitCount
<1> QED
  BY <1>4, <1>5 DEF c

\* The limits of the hard rules are ratios of naturals.
LEMMA HardLimitFacts ==
    /\ DOMAIN HardLimit \subseteq Flags
    /\ \A f \in DOMAIN HardLimit : HardLimit[f][1] \in Nat /\ HardLimit[f][2] \in Nat
BY DEF HardLimit, Flags

\* Two chunks that break no hard rule break none together, whatever their
\* sizes: a request that reads more of the log than one upload never bans for
\* what no part of it shows (process_session.php:164-209).
THEOREM HardReasonsOfPieces ==
    ASSUME NEW a \in Seq(Run), NEW b \in Seq(Run)
    PROVE  HardReasons(a \o b) \subseteq HardReasons(a) \cup HardReasons(b)
<1> SUFFICES ASSUME NEW f \in DOMAIN HardLimit,
                    f \notin HardReasons(a), f \notin HardReasons(b)
             PROVE  f \notin HardReasons(a \o b)
  BY DEF HardReasons
<1> DEFINE num == HardLimit[f][1]
           den == HardLimit[f][2]
<1>1. f \in Flags /\ num \in Nat /\ den \in Nat
  BY HardLimitFacts
<1> HIDE DEF num, den
<1>2. /\ HitCount(a, f) \in Nat /\ PacketCount(a) \in Nat
      /\ HitCount(b, f) \in Nat /\ PacketCount(b) \in Nat
  BY <1>1, CountFacts
<1>3. /\ HitCount(a, f) * den <= num * PacketCount(a)
      /\ HitCount(b, f) * den <= num * PacketCount(b)
  BY <1>1, <1>2 DEF HardReasons, RatioAbove, num, den
<1>4. (HitCount(a, f) + HitCount(b, f)) * den <= num * (PacketCount(a) + PacketCount(b))
  <2>1. \A p, q, x, y \in Nat :
          p * den <= num * q /\ x * den <= num * y => (p + x) * den <= num * (q + y)
    BY <1>1
  <2> QED
    BY <1>2, <1>3, <2>1
<1>5. /\ PacketCount(a \o b) = PacketCount(a) + PacketCount(b)
      /\ HitCount(a \o b, f) = HitCount(a, f) + HitCount(b, f)
  BY <1>1, CountsAdd
<1>6. ~RatioAbove(a \o b, f, num, den)
  BY <1>1, <1>2, <1>4, <1>5 DEF RatioAbove
<1> QED
  BY <1>6 DEF HardReasons, num, den

\* What Judge returns: a natural score, at least 3 for a suspicious chunk,
\* and hard reasons exactly for a ban (process_session.php:164-244).
LEMMA JudgeFacts ==
    ASSUME NEW chunk
    PROVE  LET j == Judge(chunk)
           IN  /\ j.score \in Nat
               /\ j.reasons \subseteq Flags
               /\ j.verdict = "suspicious" => j.score >= 3
               /\ j.verdict = "ban" <=> j.reasons # {}
<1>1. SupportScore(chunk) \in Nat
  BY DEF SupportScore, Points
<1>2. HardReasons(chunk) \subseteq Flags
  BY DEF HardReasons, HardLimit, Flags
<1> QED
  BY <1>1, <1>2 DEF Judge, SuspiciousFrom

\* One chunk folded into a well formed state gives a well formed state of the
\* right type, in which the rule on suspicious chunks did not fire
\* (process_session.php:249-279).
LEMMA UpdatedFacts ==
    ASSUME NEW s \in SessionState, NEW chunk,
           WellFormed(s), "suspicious_chunks" \notin s.reasons
    PROVE  /\ Updated(s, Judge(chunk)) \in SessionState
           /\ WellFormed(Updated(s, Judge(chunk)))
           /\ "suspicious_chunks" \notin Updated(s, Judge(chunk)).reasons
           /\ Updated(s, Judge(chunk)).recorded = s.recorded
<1> DEFINE j == Judge(chunk)
           a == Accumulate(s, j)
           e == Escalated(a)
<1>1. /\ j.score \in Nat
      /\ j.reasons \subseteq Flags
      /\ j.verdict = "suspicious" => j.score >= 3
      /\ j.verdict = "ban" <=> j.reasons # {}
  BY JudgeFacts
<1> HIDE DEF j
<1>2. /\ a.score = s.score + j.score
      /\ a.suspicious = s.suspicious + Points(j.verdict = "suspicious", 1)
      /\ a.chunks = s.chunks + 1
      /\ a.banned <=> s.banned \/ j.verdict = "ban"
      /\ a.recorded = s.recorded
      /\ a.reasons = s.reasons \cup j.reasons
  BY DEF Accumulate, SessionState
<1>3. /\ s.score \in Nat /\ s.suspicious \in Nat /\ s.chunks \in Nat
      /\ s.banned \in BOOLEAN /\ s.recorded \in BOOLEAN
      /\ s.reasons \subseteq Flags \cup EscalationReasons
  BY DEF SessionState
<1>4. Points(j.verdict = "suspicious", 1) \in {0, 1}
      /\ (Points(j.verdict = "suspicious", 1) = 1 => j.score >= 3)
  BY <1>1 DEF Points
<1>5. a \in SessionState
  <2>1. /\ s.score + j.score \in Nat /\ s.chunks + 1 \in Nat
        /\ s.suspicious + Points(j.verdict = "suspicious", 1) \in Nat
    BY <1>1, <1>3, <1>4
  <2>2. (s.banned \/ j.verdict = "ban") \in BOOLEAN
    OBVIOUS
  <2>3. s.reasons \cup j.reasons \in SUBSET (Flags \cup EscalationReasons)
    BY <1>1, <1>3
  <2> QED
    BY <2>1, <2>2, <2>3, Zenon DEF Accumulate, SessionState
<1>6. a.score >= 3 * a.suspicious
  BY <1>1, <1>2, <1>3, <1>4 DEF WellFormed
<1>7. a.recorded => a.banned
  BY <1>2, <1>3 DEF WellFormed
<1>8. a.banned <=> a.reasons # {}
  BY <1>1, <1>2, <1>3 DEF WellFormed
<1>9. "suspicious_chunks" \notin a.reasons
  BY <1>1, <1>2 DEF Flags
<1>10. ~a.banned => a.suspicious <= 2
  <2>1. ~a.banned => s.score < 6
    BY <1>2, <1>3 DEF WellFormed, ScoreLimit
  <2> QED
    BY <2>1, <1>2, <1>3, <1>4 DEF WellFormed
<1>11. CASE a.banned
  BY <1>11, <1>2, <1>5, <1>6, <1>7, <1>8, <1>9 DEF Updated, Escalate, j, WellFormed
<1>12. CASE ~a.banned
  <2>1. e \subseteq EscalationReasons /\ "suspicious_chunks" \notin e
        /\ (e = {} <=> a.score < ScoreLimit)
    BY <1>12, <1>10, <1>5 DEF Escalated, EscalationReasons, SuspiciousLimit,
                              ScoreLimit, SessionState
  <2> DEFINE u == [score |-> a.score, suspicious |-> a.suspicious,
                   chunks |-> a.chunks, banned |-> e # {},
                   recorded |-> a.recorded, reasons |-> a.reasons \cup e]
  <2>2. Updated(s, j) = u
    BY <1>12, <1>5 DEF Updated, Escalate, SessionState
  <2>3. u \in SessionState
    BY <2>1, <1>5 DEF SessionState
  <2>4. a.reasons = {} /\ ~a.recorded
    BY <1>12, <1>7, <1>8
  <2>5. WellFormed(u)
    BY <2>1, <2>4, <1>6 DEF WellFormed
  <2>6. u.recorded = s.recorded /\ "suspicious_chunks" \notin u.reasons
    BY <2>1, <1>9, <1>2
  <2> QED
    BY <2>2, <2>3, <2>5, <2>6 DEF j
<1> QED
  BY <1>11, <1>12

\* The state of a session without a file is well formed.
LEMMA FreshFacts ==
    /\ FreshState \in SessionState
    /\ WellFormed(FreshState)
    /\ "suspicious_chunks" \notin FreshState.reasons
    /\ ~FreshState.recorded /\ ~FreshState.banned
BY DEF FreshState, SessionState, WellFormed, ScoreLimit

-----------------------------------------------------------------------------
(* Types and well formed states *)

Sound(s) == WellFormed(s) /\ "suspicious_chunks" \notin s.reasons

\* TypeOK is not inductive by itself: that the updated state is well typed is
\* shown together with what the counters and flags say of each other.
IInv ==
    /\ TypeOK
    /\ Sound(disk.data)
    /\ \A w \in Workers : Sound(state[w])
    /\ \A i \in DOMAIN banlist : Sound(banlist[i])

\* Only a banned session is about to be recorded.
Recording == \A w \in Workers : pc[w] = "banlist" => state[w].banned

LEMMA InitIInv == Init => IInv
<1> SUFFICES ASSUME Init PROVE IInv
  OBVIOUS
<1> USE FreshFacts
<1>1. disk.data = FreshState /\ banlist = <<>> /\ \A w \in Workers : state[w] = FreshState
  BY DEF Init
<1>2. upload \in [Uploads -> Seq(Run)]
  BY ShapesAssumption DEF Init
<1>3. disk \in [form : {"absent", "torn", "whole"}, data : SessionState]
  BY DEF Init
<1>4. /\ pc \in [Workers -> Steps] /\ rows \in [Workers -> Seq(Entry)]
      /\ state \in [Workers -> SessionState]
  BY DEF Init, Steps
<1>5. /\ client \in {"sleep", "wait", "check"} /\ waiting \in SUBSET Workers
      /\ faults \in 0..MaxFaults /\ failed \subseteq FaultKinds /\ appended \in Nat
  BY FaultsAssumption DEF Init
<1>8. told \in BOOLEAN
  BY Zenon DEF Init
<1>6. /\ log \in Seq(Entry) /\ banlist \in Seq(SessionState)
      /\ analysis \in Seq(Analysis)
  BY DEF Init
<1>7. TypeOK
  BY <1>2, <1>3, <1>4, <1>5, <1>6, <1>8 DEF TypeOK
<1> QED
  BY <1>1, <1>7 DEF IInv, Sound

\* The state a request reads is sound, file or no file.
LEMMA StoredStateFacts ==
    ASSUME IInv
    PROVE  StoredState \in SessionState /\ Sound(StoredState)
BY FreshFacts DEF StoredState, IInv, Sound, TypeOK

Failing == faults \in 0..MaxFaults /\ failed \subseteq FaultKinds

\* A fault keeps the fault counter within its bound and is remembered.
LEMMA FaultFacts ==
    ASSUME TypeOK, NEW kind, Fault(kind)
    PROVE  /\ Failing'
           /\ failed' = failed \cup {kind}
BY FaultsAssumption DEF Fault, TypeOK, Failing

\* One more step of a worker is one of its steps.
LEMMA GotoFacts ==
    ASSUME TypeOK, NEW w \in Workers, NEW step \in Steps, Goto(w, step)
    PROVE  pc' \in [Workers -> Steps]
BY DEF Goto, TypeOK

\* The end of a request leaves a fresh in-memory state behind.
LEMMA FinishIInv ==
    ASSUME IInv, NEW w \in Workers, Finish(w), Failing'
    PROVE  IInv'
<1> USE FreshFacts
<1>1. pc' \in [Workers -> Steps]
  BY GotoFacts DEF Finish, IInv, Steps
<1>2. /\ rows' \in [Workers -> Seq(Entry)] /\ state' \in [Workers -> SessionState]
      /\ client' \in {"sleep", "wait", "check"} /\ waiting' \in SUBSET Workers
  BY DEF Finish, IInv, TypeOK
<1>4. TypeOK'
  BY <1>1, <1>2 DEF Finish, IInv, TypeOK, Failing, files, uploading
<1>3. \A v \in Workers : Sound(state'[v])
  BY DEF Finish, IInv, TypeOK, Sound
<1> QED
  BY <1>3, <1>4 DEF Finish, IInv, files

LEMMA NextRecording == TypeOK /\ Recording /\ [Next]_vars => Recording'
<1> SUFFICES ASSUME TypeOK, Recording, [Next]_vars PROVE Recording'
  OBVIOUS
<1> USE DEF Recording, Goto
<1>1. ASSUME NEW w \in Workers, Work(w) PROVE Recording'
  <2>1. CASE AppendAnalysis(w)
    BY <2>1 DEF AppendAnalysis, TypeOK
  <2>2. CASE Load(w)
    BY <2>2 DEF Load, TypeOK, handler
  <2>3. CASE ReadState(w)
    BY <2>3 DEF ReadState, TypeOK
  <2>4. CASE AppendBan(w)
    BY <2>4 DEF AppendBan, TypeOK
  <2>5. CASE Truncate(w) \/ Save(w) \/ Unlink(w)
    BY <2>5 DEF Truncate, Save, Unlink, TypeOK
  <2>6. CASE Reply(w)
    BY <2>6 DEF Reply, Finish, TypeOK
  <2> QED
    BY <1>1, <2>1, <2>2, <2>3, <2>4, <2>5, <2>6 DEF Work
<1>2. ASSUME NEW w \in Workers, Request(w) \/ Crash(w) PROVE Recording'
  BY <1>2 DEF Request, Crash, Finish, TypeOK
<1>3. CASE (\E u \in Uploads : AppendRows(u)) \/ Timeout \/ CheckBan \/ UNCHANGED vars
  BY <1>3 DEF AppendRows, Timeout, CheckBan, vars
<1> QED
  BY <1>1, <1>2, <1>3 DEF Next

\* What a request has loaded is a sequence of runs.
LEMMA RunsTyped ==
    ASSUME TypeOK, NEW w \in Workers
    PROVE  Runs(rows[w]) \in Seq(Run)
<1>1. rows[w] \in Seq(Entry)
  BY DEF TypeOK
<1> DEFINE r == rows[w]
<1> HIDE DEF r
<1>2. r \in Seq(Entry)
  BY <1>1 DEF r
<1>3. Len(r) \in Nat /\ DOMAIN r = 1..Len(r) /\ \A i \in 1..Len(r) : r[i].run \in Run
  <2>1. Len(r) \in Nat /\ DOMAIN r = 1..Len(r) /\ \A i \in 1..Len(r) : r[i] \in Entry
    BY <1>2
  <2> QED
    BY <2>1 DEF Entry
<1>4. [i \in 1..Len(r) |-> r[i].run] \in Seq(Run)
  BY <1>3
<1> QED
  BY <1>3, <1>4 DEF Runs, r

\* The entry of the analysis log has its type.
LEMMA AnalysisTyped ==
    ASSUME TypeOK, NEW w \in Workers
    PROVE  AnalysisOf(w) \in Analysis
<1>1. Judge(Runs(rows[w])).score \in Nat
  BY JudgeFacts
<1>2. {rows[w][i].id : i \in DOMAIN rows[w]} \subseteq Nat
  <2>1. rows[w] \in Seq(Entry)
    BY DEF TypeOK
  <2>2. \A i \in DOMAIN rows[w] : rows[w][i] \in Entry
    BY <2>1
  <2> QED
    BY <2>2 DEF Entry
<1>3. SessionVerdict(state[w]) \in {"ban", "suspicious", "clean"}
  BY Zenon DEF SessionVerdict
<1>4. /\ PacketCount(Runs(rows[w])) \in Nat
      /\ [f \in Flags |-> HitCount(Runs(rows[w]), f)] \in [Flags -> Nat]
  BY RunsTyped, CountFacts
<1> QED
  BY <1>1, <1>2, <1>3, <1>4 DEF AnalysisOf, Analysis

LEMMA NextIInv == IInv /\ Recording /\ [Next]_vars => IInv'
<1> SUFFICES ASSUME IInv, Recording, [Next]_vars PROVE IInv'
  OBVIOUS
<1> USE DEF IInv, Failing
<1>1. ASSUME NEW u \in Uploads, AppendRows(u) PROVE IInv'
  <2>1. Head(upload[u]) \in Run /\ Tail(upload[u]) \in Seq(Run)
    BY <1>1 DEF AppendRows, TypeOK
  <2>2. upload' \in [Uploads -> Seq(Run)]
    BY <1>1, <2>1 DEF AppendRows, TypeOK
  <2>3. appended' \in Nat /\ log' \in Seq(Entry)
    <3>1. [id |-> appended + 1, run |-> Head(upload[u])] \in Entry
      BY <2>1 DEF Entry, TypeOK
    <3>2. CASE UNCHANGED <<log, appended>>
      BY <3>2 DEF TypeOK
    <3>3. CASE /\ appended' = appended + 1
               /\ log' = Append(log, [id |-> appended + 1, run |-> Head(upload[u])])
      BY <3>1, <3>3 DEF TypeOK
    <3> QED
      BY <1>1, <3>2, <3>3 DEF AppendRows
  <2>4. Failing'
    BY <1>1, FaultFacts DEF AppendRows, TypeOK
  <2> QED
    BY <1>1, <2>2, <2>3, <2>4 DEF AppendRows, TypeOK, handler
<1>2. ASSUME NEW w \in Workers, Request(w) PROVE IInv'
  <2>1. pc' \in [Workers -> Steps]
    BY <1>2, GotoFacts DEF Request, Steps
  <2> QED
    BY <1>2, <2>1 DEF Request, TypeOK, files, uploading
<1>3. ASSUME NEW w \in Workers, Load(w) PROVE IInv'
  <2>1. pc' \in [Workers -> Steps]
    BY <1>3, GotoFacts DEF Load, Steps
  <2>2. rows' \in [Workers -> Seq(Entry)]
    <3>1. CASE rows' = [rows EXCEPT ![w] = log]
      BY <3>1 DEF TypeOK
    <3>2. CASE rows' = [rows EXCEPT ![w] = <<>>]
      BY <3>2 DEF TypeOK
    <3> QED
      BY <1>3, <3>1, <3>2 DEF Load
  <2>3. Failing'
    BY <1>3, FaultFacts DEF Load, TypeOK
  <2> QED
    BY <1>3, <2>1, <2>2, <2>3 DEF Load, TypeOK, files, uploading, handler
<1>4. ASSUME NEW w \in Workers, ReadState(w) PROVE IInv'
  <2>1. pc' \in [Workers -> Steps]
    BY <1>4, GotoFacts DEF ReadState, Steps
  <2> DEFINE new == Updated(StoredState, Judge(Runs(rows[w])))
  <2>2. new \in SessionState /\ Sound(new)
    BY StoredStateFacts, UpdatedFacts DEF Sound
  <2> HIDE DEF new
  <2>3. state' = [state EXCEPT ![w] = new]
    BY <1>4 DEF ReadState, new
  <2>4. state' \in [Workers -> SessionState] /\ \A v \in Workers : Sound(state'[v])
    BY <2>2, <2>3 DEF TypeOK
  <2> QED
    BY <1>4, <2>1, <2>4 DEF ReadState, TypeOK, files, uploading, handler
<1>5. ASSUME NEW w \in Workers, AppendAnalysis(w) PROVE IInv'
  <2>1. pc' \in [Workers -> Steps]
    BY <1>5, GotoFacts DEF AppendAnalysis, Steps
  <2>2. AnalysisOf(w) \in Analysis
    BY AnalysisTyped
  <2>3. analysis' \in Seq(Analysis)
    <3>1. CASE analysis' = Append(analysis, AnalysisOf(w))
      BY <2>2, <3>1 DEF TypeOK
    <3>2. CASE UNCHANGED analysis
      BY <3>2 DEF TypeOK
    <3> QED
      BY <1>5, <3>1, <3>2 DEF AppendAnalysis
  <2>4. Failing'
    BY <1>5, FaultFacts DEF AppendAnalysis, TypeOK
  <2> QED
    BY <1>5, <2>1, <2>3, <2>4 DEF AppendAnalysis, TypeOK, uploading, handler
<1>6. ASSUME NEW w \in Workers, AppendBan(w) PROVE IInv'
  <2>1. pc' \in [Workers -> Steps]
    BY <1>6, GotoFacts DEF AppendBan, Steps
  <2> DEFINE new == [state[w] EXCEPT !.recorded = TRUE]
  <2>2. CASE UNCHANGED <<banlist, state>>
    BY <1>6, <2>1, <2>2, FaultFacts DEF AppendBan, TypeOK, uploading, handler
  <2>3. CASE /\ banlist' = Append(banlist, state[w])
             /\ state' = [state EXCEPT ![w] = new]
             /\ UNCHANGED failing
    <3>1. new \in SessionState /\ Sound(new)
      <4>1. state[w] \in SessionState /\ state[w].banned /\ Sound(state[w])
        BY <1>6 DEF AppendBan, TypeOK, Recording
      <4> QED
        BY <4>1 DEF SessionState, Sound, WellFormed
    <3>2. state' \in [Workers -> SessionState] /\ \A v \in Workers : Sound(state'[v])
      BY <2>3, <3>1 DEF TypeOK
    <3>3. banlist' \in Seq(SessionState) /\ \A i \in DOMAIN banlist' : Sound(banlist'[i])
      BY <2>3 DEF TypeOK
    <3> QED
      BY <1>6, <2>1, <2>3, <3>2, <3>3 DEF AppendBan, TypeOK, uploading, handler
  <2> QED
    BY <1>6, <2>2, <2>3 DEF AppendBan
<1>7. ASSUME NEW w \in Workers, Truncate(w) PROVE IInv'
  <2>1. pc' \in [Workers -> Steps]
    BY <1>7, GotoFacts DEF Truncate, Steps
  <2> QED
    BY <1>7, <2>1, FaultFacts, FreshFacts
    DEF Truncate, TypeOK, Sound, uploading, handler
<1>8. ASSUME NEW w \in Workers, Save(w) PROVE IInv'
  <2>1. pc' \in [Workers -> Steps]
    BY <1>8, GotoFacts DEF Save, Steps
  <2>2. disk' \in [form : {"absent", "torn", "whole"}, data : SessionState]
        /\ Sound(disk'.data)
    BY <1>8 DEF Save, TypeOK
  <2>3. Failing'
    BY <1>8, FaultFacts DEF Save, TypeOK
  <2> QED
    BY <1>8, <2>1, <2>2, <2>3 DEF Save, TypeOK, uploading, handler
<1>9. ASSUME NEW w \in Workers, Unlink(w) PROVE IInv'
  <2>1. pc' \in [Workers -> Steps]
    BY <1>9, GotoFacts DEF Unlink, Steps
  <2>2. log' \in Seq(Entry)
    <3>1. CASE log' = <<>>
      BY <3>1
    <3>2. CASE UNCHANGED log
      BY <3>2 DEF TypeOK
    <3> QED
      BY <1>9, <3>1, <3>2 DEF Unlink
  <2>3. Failing'
    BY <1>9, FaultFacts DEF Unlink, TypeOK
  <2> QED
    BY <1>9, <2>1, <2>2, <2>3 DEF Unlink, TypeOK, uploading, handler
<1>10. ASSUME NEW w \in Workers, Reply(w) PROVE IInv'
  BY <1>10, FinishIInv DEF Reply, TypeOK
<1>11. ASSUME NEW w \in Workers, Crash(w) PROVE IInv'
  BY <1>11, FinishIInv, FaultFacts DEF Crash
<1>12. CASE Timeout
  BY <1>12, FaultFacts DEF Timeout, TypeOK, files, uploading
<1>13. CASE CheckBan
  <2>1. StoredState.banned \in BOOLEAN
    BY StoredStateFacts DEF SessionState
  <2>2. told' \in BOOLEAN
    BY <1>13, <2>1, Zenon DEF CheckBan
  <2>3. Failing'
    BY <1>13, FaultFacts DEF CheckBan, TypeOK
  <2> QED
    BY <1>13, <2>2, <2>3 DEF CheckBan, TypeOK, files, uploading
<1>14. CASE UNCHANGED vars
  BY <1>14 DEF vars, TypeOK
<1> QED
  BY <1>1, <1>2, <1>3, <1>4, <1>5, <1>6, <1>7, <1>8, <1>9, <1>10, <1>11,
     <1>12, <1>13, <1>14 DEF Next, Work

LEMMA SpecIInv == Spec => []IInv
<1>1. Init => Recording
  BY DEF Init, Recording
<1>2. IInv => TypeOK
  BY DEF IInv
<1> QED
  BY <1>1, <1>2, InitIInv, NextIInv, NextRecording, PTL DEF Spec

\* Every variable keeps its type, whatever requests overlap, fail or die.
THEOREM SpecTypeOK == Spec => []TypeOK
<1>1. IInv => TypeOK
  BY DEF IInv
<1> QED
  BY <1>1, SpecIInv, PTL

\* The counters, flags and reasons of every session state fit together
\* (process_session.php:251-279), for any telemetry and any faults.
THEOREM SpecStatesWellFormed == Spec => []StatesWellFormed
<1>1. IInv => StatesWellFormed
  BY DEF IInv, Sound, StatesWellFormed, States
<1> QED
  BY <1>1, SpecIInv, PTL

\* The rule at process_session.php:273 never decides a ban.
THEOREM SpecSuspiciousRuleIsDead == Spec => []SuspiciousRuleIsDead
<1>1. IInv => SuspiciousRuleIsDead
  BY DEF IInv, Sound, SuspiciousRuleIsDead, States
<1> QED
  BY <1>1, SpecIInv, PTL
-----------------------------------------------------------------------------
(* Enforced bans are recorded *)

RecordedIsListed(s) == s.recorded => banlist # <<>>

RecordFailed == "record" \in failed

\* Past the step that writes the ban record, a banned state says that it was
\* written, unless that failed; a record that is claimed exists.
RecordInv ==
    /\ \A w \in Workers : RecordedIsListed(state[w])
    /\ \A w \in Workers : pc[w] \in {"truncate", "save"} /\ state[w].banned
                            => state[w].recorded \/ RecordFailed
    /\ RecordedIsListed(disk.data)
    /\ disk.data.banned => disk.data.recorded \/ RecordFailed
    /\ told => banlist # <<>> \/ RecordFailed

LEMMA InitRecordInv == Init => RecordInv
BY FreshFacts DEF Init, RecordInv, RecordedIsListed, RecordFailed

\* A failure is not forgotten.
LEMMA FailedGrows == [Next]_vars => failed \subseteq failed'
BY DEF Next, vars, Work, Fault, AppendRows, Request, Load, ReadState,
       AppendAnalysis, AppendBan, Truncate, Save, Unlink, Reply, Crash, Timeout,
       CheckBan

LEMMA NextRecordInv ==
    ASSUME IInv, RecordInv, [Next]_vars
    PROVE  RecordInv'
<1> USE DEF RecordInv, RecordedIsListed, Goto
<1>0. TypeOK /\ (RecordFailed => RecordFailed')
  BY FailedGrows DEF IInv, RecordFailed
<1>1. ASSUME NEW w \in Workers, Load(w) PROVE RecordInv'
  BY <1>0, <1>1 DEF Load, TypeOK, files, uploading, handler
<1>2. ASSUME NEW w \in Workers, ReadState(w) PROVE RecordInv'
  <2> DEFINE new == Updated(StoredState, Judge(Runs(rows[w])))
  <2>1. new.recorded => banlist # <<>>
    <3>1. new.recorded = StoredState.recorded
      BY StoredStateFacts, UpdatedFacts DEF Sound
    <3>2. StoredState.recorded => banlist # <<>>
      BY FreshFacts DEF StoredState
    <3> QED
      BY <3>1, <3>2
  <2> HIDE DEF new
  <2>2. state' = [state EXCEPT ![w] = new]
    BY <1>2 DEF ReadState, new
  <2> QED
    BY <1>0, <1>2, <2>1, <2>2 DEF ReadState, TypeOK, files, uploading, handler
<1>3. ASSUME NEW w \in Workers, AppendAnalysis(w) PROVE RecordInv'
  <2>1. pc'[w] = "truncate" /\ state[w].banned => state[w].recorded
    BY <1>0, <1>3 DEF AppendAnalysis, TypeOK
  <2> QED
    BY <1>0, <1>3, <2>1 DEF AppendAnalysis, TypeOK, uploading, handler
<1>4. ASSUME NEW w \in Workers, AppendBan(w) PROVE RecordInv'
  <2>1. UNCHANGED <<disk, told>> /\ \A v \in Workers : v # w => pc'[v] = pc[v]
    BY <1>0, <1>4 DEF AppendBan, TypeOK, handler
  <2>2. CASE /\ banlist' = Append(banlist, state[w])
             /\ state' = [state EXCEPT ![w].recorded = TRUE]
    <3>1. banlist' # <<>>
      <4>1. banlist \in Seq(SessionState) /\ state[w] \in SessionState
        BY <1>0 DEF TypeOK
      <4>2. banlist' = Append(banlist, state[w])
        BY <2>2
      <4> QED
        BY <4>1, <4>2
    <3>2. state'[w].recorded /\ \A v \in Workers : v # w => state'[v] = state[v]
      BY <1>0, <2>2 DEF TypeOK, SessionState
    <3> QED
      BY <1>0, <2>1, <3>1, <3>2
  <2>3. CASE Fault("record") /\ UNCHANGED <<banlist, state>>
    <3>1. RecordFailed'
      BY <1>0, <2>3, FaultFacts DEF RecordFailed
    <3>2. UNCHANGED <<banlist, state, disk, told>>
      BY <2>1, <2>3
    <3>3. /\ \A v \in Workers : RecordedIsListed(state[v])'
          /\ RecordedIsListed(disk.data)'
      BY <3>2
    <3> QED
      BY <3>1, <3>3
  <2> QED
    BY <1>4, <2>2, <2>3 DEF AppendBan
<1>5. ASSUME NEW w \in Workers, Truncate(w) PROVE RecordInv'
  BY <1>0, <1>5, FreshFacts DEF Truncate, TypeOK, uploading, handler
<1>6. ASSUME NEW w \in Workers, Save(w) PROVE RecordInv'
  BY <1>0, <1>6 DEF Save, TypeOK, uploading, handler
<1>7. ASSUME NEW w \in Workers, Unlink(w) PROVE RecordInv'
  BY <1>0, <1>7 DEF Unlink, TypeOK, uploading, handler
<1>8. ASSUME NEW w \in Workers, Reply(w) \/ Crash(w) PROVE RecordInv'
  <2>1. Finish(w)
    BY <1>8 DEF Reply, Crash
  <2>2. /\ state'[w] = FreshState /\ pc'[w] = "idle"
        /\ \A v \in Workers : v # w => state'[v] = state[v] /\ pc'[v] = pc[v]
    BY <1>0, <2>1 DEF Finish, TypeOK
  <2>3. UNCHANGED <<disk, banlist, told>>
    BY <2>1 DEF Finish, files
  <2> QED
    BY <1>0, <2>2, <2>3, FreshFacts
<1>9. ASSUME NEW w \in Workers, Request(w) PROVE RecordInv'
  BY <1>0, <1>9 DEF Request, TypeOK, files, uploading
<1>10. CASE \E u \in Uploads : AppendRows(u)
  BY <1>0, <1>10 DEF AppendRows, handler
<1>12. CASE Timeout
  BY <1>0, <1>12 DEF Timeout, files, uploading
<1>13. CASE UNCHANGED vars
  BY <1>13 DEF vars, RecordFailed
<1>11. CASE CheckBan
  <2>1. StoredState.banned => banlist # <<>> \/ RecordFailed
    BY FreshFacts DEF StoredState
  <2>2. told' => banlist # <<>> \/ RecordFailed
    BY <1>11, <2>1, Zenon DEF CheckBan
  <2>3. UNCHANGED <<disk, banlist, pc, state>>
    BY <1>11 DEF CheckBan, files
  <2>4. \A v \in Workers : RecordedIsListed(state[v])'
    BY <2>3
  <2> QED
    BY <1>0, <2>2, <2>3, <2>4
<1> QED
  BY <1>1, <1>2, <1>3, <1>4, <1>5, <1>6, <1>7, <1>8, <1>9, <1>10, <1>11,
     <1>12, <1>13
  DEF Next, Work

\* Unless writing the record fails, a ban that is stored or was reported to the
\* handler has a record in banlist.jsonl (process_session.php:312-330), even
\* if requests overlap, time out, die or cannot save, read or delete files.
THEOREM SpecEnforcedBanIsRecorded == Spec => []EnforcedBanIsRecorded
<1>1. IInv /\ RecordInv /\ [Next]_vars => RecordInv'
  BY NextRecordInv
<1>2. RecordInv => EnforcedBanIsRecorded
  BY FreshFacts DEF RecordInv, RecordedIsListed, EnforcedBanIsRecorded, StoredState,
                    RecordFailed
<1> QED
  BY <1>1, <1>2, InitRecordInv, SpecIInv, PTL DEF Spec
-----------------------------------------------------------------------------
(* The analysis log *)

LEMMA UpdatedKeepsBan ==
    ASSUME NEW s \in SessionState, NEW chunk, s.banned
    PROVE  Updated(s, Judge(chunk)).banned
<1> DEFINE j == Judge(chunk)
<1>1. Accumulate(s, j).banned
  BY DEF Accumulate, SessionState
<1> QED
  BY <1>1 DEF Updated, Escalate

\* A chunk that breaks a hard rule bans.
LEMMA UpdatedBansHard ==
    ASSUME NEW s \in SessionState, NEW chunk, HardReasons(chunk) # {}
    PROVE  Updated(s, Judge(chunk)).banned
<1> DEFINE j == Judge(chunk)
<1>1. j.verdict = "ban"
  BY DEF Judge
<1> HIDE DEF j
<1>2. Accumulate(s, j).banned
  BY <1>1 DEF Accumulate, SessionState
<1> QED
  BY <1>2 DEF Updated, Escalate, j

\* A chunk counts once and with its score.
LEMMA UpdatedCounts ==
    ASSUME NEW s \in SessionState, NEW chunk
    PROVE  /\ Updated(s, Judge(chunk)).chunks = s.chunks + 1
           /\ Updated(s, Judge(chunk)).score = s.score + Judge(chunk).score
<1> DEFINE j == Judge(chunk)
           a == Accumulate(s, j)
<1>1. a.chunks = s.chunks + 1 /\ a.score = s.score + j.score
  BY DEF Accumulate, SessionState
<1>2. DOMAIN a = {"score", "suspicious", "chunks", "banned", "recorded", "reasons"}
  BY DEF Accumulate, SessionState
<1> HIDE DEF a
<1>3. Escalate(a).chunks = a.chunks /\ Escalate(a).score = a.score
  <2> DEFINE e == Escalated(a)
  <2> HIDE DEF e
  <2>1. CASE a.banned
    BY <2>1 DEF Escalate
  <2>2. CASE ~a.banned
    <3>1. Escalate(a) = [a EXCEPT !.banned = e # {}, !.reasons = @ \cup e]
      BY <2>2 DEF Escalate, e
    <3> QED
      BY <1>2, <3>1
  <2> QED
    BY <2>1, <2>2
<1> QED
  BY <1>1, <1>3 DEF Updated, a

\* A chunk is judged "ban" in the analysis log just when the state is banned.
LEMMA VerdictIsBan == ASSUME NEW s PROVE SessionVerdict(s) = "ban" <=> s.banned
BY DEF SessionVerdict

\* One more entry adds its score to the total.
LEMMA ScoreOfAppend ==
    ASSUME NEW s \in Seq(Analysis), NEW a \in Analysis
    PROVE  SumTo([i \in DOMAIN Append(s, a) |-> Append(s, a)[i].score], Len(Append(s, a)))
             = SumTo([i \in DOMAIN s |-> s[i].score], Len(s)) + a.score
<1> DEFINE t == Append(s, a)
           n == Len(s)
           f == [i \in DOMAIN s |-> s[i].score]
           g == [i \in DOMAIN t |-> t[i].score]
<1>1. /\ n \in Nat /\ DOMAIN s = 1..n /\ Len(t) = n + 1 /\ DOMAIN t = 1..n + 1
      /\ \A i \in 1..n : t[i] = s[i] /\ s[i] \in Analysis
      /\ t[n + 1] = a
  OBVIOUS
<1>2. \A x \in Analysis : x.score \in Nat
  BY DEF Analysis
<1> HIDE DEF t, n
<1>3. /\ \A i \in 1..n : f[i] \in Nat /\ f[i] = g[i]
      /\ \A i \in 1..n + 1 : g[i] \in Nat
      /\ g[n + 1] = a.score
  <2>1. \A i \in 1..n + 1 : t[i] \in Analysis
    <3>1. \A i \in 1..n + 1 : i \in 1..n \/ i = n + 1
      BY <1>1
    <3> QED
      BY <1>1, <3>1
  <2>2. n + 1 \in 1..n + 1 /\ \A i \in 1..n : i \in 1..n + 1
    BY <1>1
  <2> QED
    BY <1>1, <1>2, <2>1, <2>2
<1> HIDE DEF f, g
<1>4. SumTo(f, n) = SumTo(g, n)
  BY <1>1, <1>3, SumSame
<1>5. SumTo(g, n + 1) = SumTo(g, n) + g[n + 1]
  <2>1. n + 1 \in Nat /\ n + 1 > 0 /\ (n + 1) - 1 = n
    BY <1>1
  <2> QED
    BY <1>3, <2>1, SumFacts
<1>6. SumTo(g, Len(t)) = SumTo(f, n) + a.score
  BY <1>1, <1>3, <1>4, <1>5
<1> QED
  BY <1>6 DEF f, g, t, n

\* What the step that appends an analysis adds to the log.
LEMMA AnalysisGrows ==
    ASSUME TypeOK, NEW w \in Workers, analysis' = Append(analysis, AnalysisOf(w))
    PROVE  /\ Len(analysis') = Len(analysis) + 1
           /\ TotalScore' = TotalScore + Judge(Runs(rows[w])).score
           /\ Banning' <=> Banning \/ state[w].banned
<1> DEFINE a == AnalysisOf(w)
<1>1. analysis \in Seq(Analysis) /\ a \in Analysis
  BY AnalysisTyped DEF TypeOK
<1>2. (a.session = "ban" <=> state[w].banned) /\ a.score = Judge(Runs(rows[w])).score
  BY VerdictIsBan DEF AnalysisOf
<1>3. analysis' = Append(analysis, a)
  OBVIOUS
<1> HIDE DEF a
<1>4. Len(analysis') = Len(analysis) + 1
  BY <1>1, <1>3
<1>5. TotalScore' = TotalScore + a.score
  BY <1>1, <1>3, ScoreOfAppend DEF TotalScore
<1>6. Banning' <=> Banning \/ a.session = "ban"
  BY <1>1, <1>3 DEF Banning
<1> QED
  BY <1>2, <1>4, <1>5, <1>6

-----------------------------------------------------------------------------
(* Cutting the telemetry into chunks hides nothing *)

BreaksRule(a) ==
    \E f \in DOMAIN HardLimit : a.hits[f] * HardLimit[f][2] > HardLimit[f][1] * a.packets

\* A chunk that breaks a hard rule has a ban in its analysis, and before that
\* in the state in memory.
PieceInv ==
    /\ \A i \in DOMAIN analysis : BreaksRule(analysis[i]) => analysis[i].session = "ban"
    /\ \A w \in Workers :
          pc[w] = "analysis" /\ HardReasons(Runs(rows[w])) # {} => state[w].banned

LEMMA NextPieceInv ==
    ASSUME IInv, PieceInv, [Next]_vars
    PROVE  PieceInv'
<1> USE DEF PieceInv
<1>0. TypeOK
  BY DEF IInv
<1>1. ASSUME NEW w \in Workers, ReadState(w) PROVE PieceInv'
  <2> DEFINE new == Updated(StoredState, Judge(Runs(rows[w])))
  <2>1. HardReasons(Runs(rows[w])) # {} => new.banned
    BY StoredStateFacts, UpdatedBansHard
  <2> HIDE DEF new
  <2>2. /\ state' = [state EXCEPT ![w] = new] /\ Goto(w, "analysis")
        /\ UNCHANGED <<analysis, rows>>
    BY <1>1 DEF ReadState, new, files
  <2>3. /\ state'[w] = new
        /\ \A v \in Workers : v # w => state'[v] = state[v] /\ pc'[v] = pc[v]
    BY <1>0, <2>2 DEF TypeOK, Goto
  <2>4. \A v \in Workers : Runs(rows'[v]) = Runs(rows[v])
    BY <2>2
  <2>5. HardReasons(Runs(rows[w])) # {} => state'[w].banned
    BY <2>1, <2>3
  <2>6. \A v \in Workers : pc'[v] = "analysis" /\ HardReasons(Runs(rows'[v])) # {}
                             => state'[v].banned
    BY <2>3, <2>4, <2>5
  <2> QED
    BY <2>2, <2>6
<1>2. ASSUME NEW w \in Workers, AppendAnalysis(w) PROVE PieceInv'
  <2>1. /\ pc[w] = "analysis" /\ UNCHANGED <<rows, state>>
        /\ pc'[w] \in {"banlist", "truncate"}
        /\ \A v \in Workers : v # w => pc'[v] = pc[v]
    BY <1>0, <1>2 DEF AppendAnalysis, Goto, TypeOK
  <2>2. \A v \in Workers :
          pc'[v] = "analysis" /\ HardReasons(Runs(rows'[v])) # {} => state'[v].banned
    BY <2>1
  <2>3. CASE UNCHANGED analysis
    BY <2>2, <2>3
  <2>4. CASE analysis' = Append(analysis, AnalysisOf(w))
    <3> DEFINE a == AnalysisOf(w)
    <3>1. analysis \in Seq(Analysis) /\ a \in Analysis
      BY <1>0, AnalysisTyped DEF TypeOK
    <3>2. BreaksRule(a) => a.session = "ban"
      <4>1. BreaksRule(a) => HardReasons(Runs(rows[w])) # {}
        BY HardLimitFacts DEF BreaksRule, AnalysisOf, HardReasons, RatioAbove
      <4>2. a.session = "ban" <=> state[w].banned
        BY VerdictIsBan DEF AnalysisOf
      <4> QED
        BY <2>1, <4>1, <4>2
    <3> HIDE DEF a
    <3>3. \A i \in DOMAIN analysis' :
            analysis'[i] = a \/ (i \in DOMAIN analysis /\ analysis'[i] = analysis[i])
      BY <2>4, <3>1 DEF a
    <3>4. \A i \in DOMAIN analysis' :
            BreaksRule(analysis'[i]) => analysis'[i].session = "ban"
      BY <3>2, <3>3
    <3> QED
      BY <2>2, <3>4
  <2> QED
    BY <1>2, <2>3, <2>4 DEF AppendAnalysis
\* The other steps leave the log alone and end where no state is awaited.
<1>3. ASSUME NEW w \in Workers,
             \/ Request(w) \/ Load(w) \/ AppendBan(w) \/ Truncate(w) \/ Save(w)
             \/ Unlink(w) \/ Reply(w) \/ Crash(w)
      PROVE  PieceInv'
  <2>1. /\ UNCHANGED analysis /\ pc'[w] # "analysis"
        /\ \A v \in Workers : v # w => pc'[v] = pc[v] /\ rows'[v] = rows[v] /\ state'[v] = state[v]
    <3>1. CASE Request(w) \/ Load(w)
      BY <1>0, <3>1 DEF Request, Load, Goto, TypeOK, files
    <3>2. CASE AppendBan(w) \/ Truncate(w) \/ Save(w) \/ Unlink(w)
      BY <1>0, <3>2 DEF AppendBan, Truncate, Save, Unlink, Goto, TypeOK
    <3>3. CASE Reply(w) \/ Crash(w)
      BY <1>0, <3>3 DEF Reply, Crash, Finish, Goto, TypeOK, files
    <3> QED
      BY <1>3, <3>1, <3>2, <3>3
  <2>2. \A v \in Workers :
          pc'[v] = "analysis" /\ HardReasons(Runs(rows'[v])) # {} => state'[v].banned
    BY <2>1
  <2> QED
    BY <2>1, <2>2
<1>4. CASE (\E u \in Uploads : AppendRows(u)) \/ Timeout \/ CheckBan \/ UNCHANGED vars
  <2>1. UNCHANGED <<analysis, pc, rows, state>>
    BY <1>4 DEF AppendRows, Timeout, CheckBan, vars, files
  <2> QED
    BY <2>1
<1> QED
  BY <1>1, <1>2, <1>3, <1>4 DEF Next, Work

\* If no entry of the log has a ban, none breaks a rule, and so neither do
\* their sums.
LEMMA PiecesAddUp == ASSUME TypeOK, PieceInv PROVE PiecesHideNothing
<1> SUFFICES ASSUME NEW f \in DOMAIN HardLimit, ~Banning
             PROVE  ~(TotalHits(f) * HardLimit[f][2] > HardLimit[f][1] * TotalPackets)
  BY DEF PiecesHideNothing
<1> DEFINE num == HardLimit[f][1]
           den == HardLimit[f][2]
           n   == Len(analysis)
           h   == [i \in DOMAIN analysis |-> analysis[i].hits[f]]
           p   == [i \in DOMAIN analysis |-> analysis[i].packets]
<1>1. f \in Flags /\ num \in Nat /\ den \in Nat
  BY HardLimitFacts
<1>2. n \in Nat /\ DOMAIN analysis = 1..n /\ \A i \in 1..n : analysis[i] \in Analysis
  BY DEF TypeOK
<1>3. \A i \in 1..n : ~BreaksRule(analysis[i])
  BY <1>2 DEF PieceInv, Banning
<1>4. \A i \in 1..n : h[i] \in Nat /\ p[i] \in Nat
  BY <1>1, <1>2 DEF Analysis
<1>5. \A i \in 1..n : ~(analysis[i].hits[f] * den > num * analysis[i].packets)
  BY <1>3 DEF BreaksRule
<1>6. \A i \in 1..n : ~(h[i] * den > num * p[i])
  BY <1>2, <1>5
<1> HIDE DEF num, den, n, h, p
<1>7. \A i \in 1..n : h[i] * den <= num * p[i]
  BY <1>1, <1>4, <1>6
<1>8. SumTo(h, n) * den <= num * SumTo(p, n)
  BY <1>1, <1>2, <1>4, <1>7, SumRatio
<1>9. SumTo(h, n) \in Nat /\ SumTo(p, n) \in Nat
  BY <1>2, <1>4, SumFacts
<1>10. ~(SumTo(h, n) * den > num * SumTo(p, n))
  BY <1>1, <1>8, <1>9
<1> QED
  BY <1>10 DEF TotalHits, TotalPackets, num, den, n, h, p

\* However the telemetry of a session is cut into chunks, and whatever is
\* lost, judged twice or fails: if all that was judged breaks a hard rule, the
\* analysis log has a ban (process_session.php:164-209).
THEOREM SpecPiecesHideNothing == Spec => []PiecesHideNothing
<1>1. Init => PieceInv
  BY DEF Init, PieceInv
<1>2. IInv => TypeOK
  BY DEF IInv
<1> QED
  BY <1>1, <1>2, NextPieceInv, PiecesAddUp, SpecIInv, PTL DEF Spec
-----------------------------------------------------------------------------
(* One request at a time *)

Disturbed == failed \cap {"timeout", "crash"} # {}

\* As long as no request was given up or died, the handler waits for the one
\* that runs, so there is only one.
Lone ==
    ~Disturbed => \A w \in Workers : pc[w] # "idle" => client = "wait" /\ waiting = {w}

\* A fault that happens is remembered.
LEMMA FaultIsRemembered == ASSUME NEW kind, Fault(kind) PROVE kind \in failed'
BY DEF Fault

\* The other requests of a lone one are idle, before and after its step.
LEMMA OthersIdle ==
    ASSUME TypeOK, Lone, ~Disturbed, NEW w \in Workers, pc[w] # "idle",
           NEW step, Goto(w, step)
    PROVE  /\ client = "wait" /\ waiting = {w}
           /\ pc'[w] = step
           /\ \A v \in Workers : v # w => pc[v] = "idle" /\ pc'[v] = "idle"
<1>1. client = "wait" /\ waiting = {w}
  BY DEF Lone
<1>2. \A v \in Workers : v # w => pc[v] = "idle"
  BY <1>1 DEF Lone
<1>3. pc'[w] = step /\ \A v \in Workers : v # w => pc'[v] = pc[v]
  BY DEF TypeOK, Goto
<1> QED
  BY <1>1, <1>2, <1>3

\* A request arrives when the handler has been sleeping and nothing runs.
LEMMA RequestAlone ==
    ASSUME TypeOK, Lone, ~Disturbed, NEW w \in Workers, Request(w)
    PROVE  /\ client' = "wait" /\ waiting' = {w} /\ pc'[w] \in {"load", "reply"}
           /\ \A v \in Workers : pc[v] = "idle" /\ (v # w => pc'[v] = "idle")
<1>1. \A v \in Workers : pc[v] = "idle"
  BY DEF Request, Lone
<1>2. pc'[w] \in {"load", "reply"} /\ \A v \in Workers : v # w => pc'[v] = pc[v]
  BY DEF TypeOK, Request, Goto
<1> QED
  BY <1>1, <1>2 DEF Request

LEMMA NextLone == TypeOK /\ Lone /\ [Next]_vars => Lone'
<1> SUFFICES ASSUME TypeOK, Lone, [Next]_vars, ~Disturbed' PROVE Lone'
  BY DEF Lone
<1>0. ~Disturbed
  BY FailedGrows DEF Disturbed
<1>1. ASSUME NEW w \in Workers, Request(w) PROVE Lone'
  BY <1>0, <1>1, RequestAlone DEF Lone
<1>2. ASSUME NEW w \in Workers,
             \/ Load(w) \/ ReadState(w) \/ AppendAnalysis(w) \/ AppendBan(w)
             \/ Truncate(w) \/ Save(w) \/ Unlink(w)
      PROVE  Lone'
  <2>1. PICK step : Goto(w, step)
    BY <1>2 DEF Load, ReadState, AppendAnalysis, AppendBan, Truncate, Save, Unlink
  <2>2. pc[w] # "idle" /\ UNCHANGED <<client, waiting>>
    BY <1>2 DEF Load, ReadState, AppendAnalysis, AppendBan, Truncate, Save, Unlink, handler
  <2> QED
    BY <1>0, <2>1, <2>2, OthersIdle DEF Lone
<1>3. ASSUME NEW w \in Workers, Reply(w) PROVE Lone'
  <2>1. Goto(w, "idle") /\ pc[w] # "idle"
    BY <1>3 DEF Reply, Finish
  <2> QED
    BY <1>0, <2>1, OthersIdle DEF Lone
<1>4. CASE (\E w \in Workers : Crash(w)) \/ Timeout
  BY <1>4, FaultIsRemembered DEF Crash, Timeout, Disturbed
<1>5. CASE CheckBan
  <2>1. UNCHANGED pc /\ client = "check"
    BY <1>5 DEF CheckBan
  <2> QED
    BY <1>0, <2>1 DEF Lone
<1>6. CASE (\E u \in Uploads : AppendRows(u)) \/ UNCHANGED vars
  <2>1. UNCHANGED <<pc, client, waiting>>
    BY <1>6 DEF AppendRows, handler, vars
  <2> QED
    BY <1>0, <2>1 DEF Lone
<1> QED
  BY <1>1, <1>2, <1>3, <1>4, <1>5, <1>6 DEF Next, Work

LEMMA SpecLone == Spec => []Lone
<1>1. Init => Lone
  BY DEF Init, Lone
<1>2. IInv => TypeOK
  BY DEF IInv
<1> QED
  BY <1>1, <1>2, NextLone, SpecIInv, PTL DEF Spec

\* From the analysis to the stored state: what is stored is out of date.
Judging == {"banlist", "truncate", "save"}

\* The steps of a request that touch neither the analysis log, the ban list nor
\* the stored state, and lead from and to where the stored state is up to date.
Aside(w) == Load(w) \/ Unlink(w) \/ Reply(w)

LEMMA AsideFacts ==
    ASSUME TypeOK, Lone, ~Disturbed, NEW w \in Workers, Request(w) \/ Aside(w)
    PROVE  /\ UNCHANGED <<analysis, banlist, disk, told>>
           /\ \A v \in Workers : /\ pc[v] \notin Judging
                                 /\ pc'[v] \notin Judging \cup {"analysis"}
<1>1. UNCHANGED <<analysis, banlist, disk, told>>
  BY DEF Request, Aside, Load, Unlink, Reply, Finish, files, handler
<1>2. CASE Request(w)
  BY <1>1, <1>2, RequestAlone DEF Judging
<1>3. CASE Aside(w)
  <2>1. /\ pc[w] \in {"load", "unlink", "reply"}
        /\ \E step \in {"idle", "state", "reply"} : Goto(w, step)
    BY <1>3 DEF Aside, Load, Unlink, Reply, Finish
  <2> QED
    BY <1>1, <2>1, OthersIdle DEF Judging
<1> QED
  BY <1>2, <1>3

-----------------------------------------------------------------------------
(* The stored state agrees with the analysis log *)

Fine == failed \subseteq {"unlink", "record"}

Audited(s) ==
    /\ s.chunks = Len(analysis)
    /\ s.score = TotalScore
    /\ s.banned <=> Banning

\* In between, the state in memory is a chunk ahead of the log, and then the
\* log ahead of the stored state.
AuditInv == Fine =>
    /\ (\A w \in Workers : pc[w] \notin Judging) => Audited(StoredState)
    /\ \A w \in Workers :
          /\ pc[w] = "analysis" =>
                /\ state[w].chunks = Len(analysis) + 1
                /\ state[w].score = TotalScore + Judge(Runs(rows[w])).score
                /\ Banning => state[w].banned
          /\ pc[w] \in Judging => Audited(state[w])

LEMMA InitAuditInv == Init => AuditInv
<1> SUFFICES ASSUME Init PROVE AuditInv
  OBVIOUS
<1>1. Len(analysis) = 0 /\ ~Banning /\ TotalScore = 0
  <2>1. analysis = <<>>
    BY DEF Init
  <2> DEFINE f == [i \in DOMAIN analysis |-> analysis[i].score]
  <2>2. SumTo(f, 0) = 0
    <3> HIDE DEF f
    <3>1. \A i \in 1..0 : f[i] \in Nat
      OBVIOUS
    <3> QED
      BY <3>1, SumFacts
  <2>3. Len(analysis) = 0
    BY <2>1
  <2> QED
    BY <2>1, <2>2, <2>3 DEF Banning, TotalScore
<1>2. StoredState = FreshState /\ \A w \in Workers : pc[w] = "idle"
  BY DEF Init, StoredState
<1> QED
  BY <1>1, <1>2 DEF AuditInv, Audited, FreshState, Judging

LEMMA NextAuditInv ==
    ASSUME IInv, Lone, AuditInv, [Next]_vars
    PROVE  AuditInv'
<1> SUFFICES ASSUME Fine' PROVE AuditInv'
  BY DEF AuditInv
<1>0. /\ TypeOK /\ Fine /\ ~Disturbed
      /\ ~Fault("io") /\ ~Fault("timeout") /\ ~Fault("crash")
  <2>1. TypeOK /\ failed \subseteq failed'
    BY FailedGrows DEF IInv
  <2>2. ~Fault("io") /\ ~Fault("timeout") /\ ~Fault("crash")
    BY DEF Fault, Fine
  <2> QED
    BY <2>1, <2>2 DEF Fine, Disturbed
<1> USE DEF AuditInv, Judging
\* Steps that leave both sides alone.
<1>1. ASSUME UNCHANGED analysis PROVE \A s : Audited(s)' <=> Audited(s)
  BY <1>1 DEF Audited, TotalScore, Banning
<1>2. ASSUME UNCHANGED disk PROVE StoredState' = StoredState
  BY <1>2 DEF StoredState
<1>3. ASSUME NEW w \in Workers, Request(w) \/ Aside(w) PROVE AuditInv'
  <2>1. /\ UNCHANGED <<analysis, disk>>
        /\ \A v \in Workers : pc[v] \notin Judging /\ pc'[v] \notin Judging \cup {"analysis"}
    BY <1>0, <1>3, AsideFacts
  <2>2. Audited(StoredState)'
    BY <1>0, <1>1, <1>2, <2>1
  <2> QED
    BY <2>1, <2>2
<1>4. ASSUME NEW w \in Workers, ReadState(w) PROVE AuditInv'
  <2> DEFINE new == Updated(StoredState, Judge(Runs(rows[w])))
  <2>1. /\ pc[w] = "state" /\ Goto(w, "analysis") /\ state' = [state EXCEPT ![w] = new]
        /\ UNCHANGED <<analysis, disk, rows>>
    BY <1>4 DEF ReadState, files
  <2>2. Audited(StoredState) /\ StoredState \in SessionState
    BY <1>0, <2>1, OthersIdle, StoredStateFacts
  <2>3. /\ new.chunks = Len(analysis) + 1
        /\ new.score = TotalScore + Judge(Runs(rows[w])).score
        /\ Banning => new.banned
    BY <2>2, UpdatedCounts, UpdatedKeepsBan DEF Audited
  <2> HIDE DEF new
  <2>4. state'[w] = new /\ pc'[w] = "analysis" /\ \A v \in Workers : v # w => pc'[v] = "idle"
    BY <1>0, <2>1, OthersIdle DEF TypeOK
  <2>5. TotalScore' = TotalScore /\ (Banning' <=> Banning) /\ Runs(rows[w])' = Runs(rows[w])
    BY <2>1 DEF TotalScore, Banning
  <2>6. /\ state'[w].chunks = Len(analysis') + 1
        /\ state'[w].score = TotalScore' + Judge(Runs(rows'[w])).score
        /\ Banning' => state'[w].banned
    BY <2>1, <2>3, <2>4, <2>5
  <2>7. Audited(StoredState)'
    BY <1>1, <1>2, <2>1, <2>2
  <2> QED
    BY <2>4, <2>6, <2>7
<1>5. ASSUME NEW w \in Workers, AppendAnalysis(w) PROVE AuditInv'
  <2>1. PICK step \in {"banlist", "truncate"} : Goto(w, step)
    BY <1>5 DEF AppendAnalysis
  <2>2. /\ pc[w] = "analysis" /\ analysis' = Append(analysis, AnalysisOf(w))
        /\ UNCHANGED <<disk, state>>
    BY <1>0, <1>5 DEF AppendAnalysis
  <2>3. pc'[w] \in {"banlist", "truncate"} /\ \A v \in Workers : v # w => pc'[v] = "idle"
    BY <1>0, <2>1, <2>2, OthersIdle
  <2>4. Audited(state[w])'
    BY <1>0, <2>2, AnalysisGrows DEF Audited
  <2> QED
    BY <2>3, <2>4
<1>6. ASSUME NEW w \in Workers, AppendBan(w) PROVE AuditInv'
  <2>1. /\ pc[w] = "banlist" /\ Goto(w, "truncate") /\ UNCHANGED <<analysis, disk>>
        /\ state' = [state EXCEPT ![w].recorded = TRUE] \/ UNCHANGED state
    BY <1>6 DEF AppendBan
  <2>2. pc'[w] = "truncate" /\ \A v \in Workers : v # w => pc'[v] = "idle"
    BY <1>0, <2>1, OthersIdle
  <2>3. /\ state'[w].chunks = state[w].chunks /\ state'[w].score = state[w].score
        /\ state'[w].banned = state[w].banned
    <3>1. state[w] \in SessionState /\ (state'[w] = state[w] \/ state'[w] = [state[w] EXCEPT !.recorded = TRUE])
      BY <1>0, <2>1 DEF TypeOK
    <3> QED
      BY <3>1 DEF SessionState
  <2>4. Audited(state[w])
    BY <1>0, <2>1
  <2>5. Audited(state[w])'
    BY <2>1, <2>3, <2>4 DEF Audited, TotalScore, Banning
  <2> QED
    BY <2>2, <2>5
<1>7. ASSUME NEW w \in Workers, Truncate(w) PROVE AuditInv'
  <2>1. /\ pc[w] = "truncate" /\ Goto(w, "save") /\ UNCHANGED <<analysis, state>>
    BY <1>0, <1>7 DEF Truncate
  <2>2. pc'[w] = "save" /\ \A v \in Workers : v # w => pc'[v] = "idle"
    BY <1>0, <2>1, OthersIdle
  <2>3. Audited(state[w])'
    BY <1>0, <1>1, <2>1
  <2> QED
    BY <2>2, <2>3
<1>8. ASSUME NEW w \in Workers, Save(w) PROVE AuditInv'
  <2>1. /\ pc[w] = "save" /\ Goto(w, "unlink") /\ UNCHANGED <<analysis, state>>
        /\ StoredState' = state[w]
    BY <1>0, <1>8 DEF Save, StoredState
  <2>2. pc'[w] = "unlink" /\ \A v \in Workers : v # w => pc'[v] = "idle"
    BY <1>0, <2>1, OthersIdle
  <2>3. Audited(StoredState)'
    BY <1>0, <1>1, <2>1
  <2> QED
    BY <2>2, <2>3
<1>9. CASE (\E u \in Uploads : AppendRows(u)) \/ CheckBan \/ UNCHANGED vars
  <2>1. UNCHANGED <<analysis, disk, pc, rows, state>>
    BY <1>9 DEF AppendRows, CheckBan, vars, files
  <2>2. TotalScore' = TotalScore /\ (Banning' <=> Banning) /\ Len(analysis') = Len(analysis)
        /\ \A w \in Workers : Runs(rows'[w]) = Runs(rows[w])
    BY <2>1 DEF TotalScore, Banning
  <2> QED
    BY <1>0, <1>1, <1>2, <2>1, <2>2
<1>10. CASE (\E w \in Workers : Crash(w)) \/ Timeout
  BY <1>0, <1>10 DEF Crash, Timeout
<1> QED
  BY <1>3, <1>4, <1>5, <1>6, <1>7, <1>8, <1>9, <1>10 DEF Next, Work, Aside

\* Between requests the stored state is what the analysis log adds up to, for
\* any telemetry, as long as nothing but the deletion of the log and the ban
\* record has failed (process_session.php:249-330).
THEOREM SpecAuditAgrees == Spec => []AuditAgrees
<1>1. Lone /\ AuditInv => AuditAgrees
  <2> SUFFICES ASSUME Lone, AuditInv, client # "wait", Fine
               PROVE  Audited(StoredState)
    BY DEF AuditAgrees, Fine, Audited
  <2>1. \A w \in Workers : pc[w] = "idle"
    BY DEF Lone, Disturbed, Fine
  <2> QED
    BY <2>1 DEF AuditInv, Judging
<1> QED
  BY <1>1, InitAuditInv, NextAuditInv, SpecLone, SpecIInv, PTL DEF Spec
-----------------------------------------------------------------------------
(* The ban of a session is a latch *)

\* Nothing fails but the deletion of the log.
Quiet == FaultKinds \subseteq {"unlink"}

\* A state that is to be stored, or is, knows of the ban and of its record.
Knows(s) ==
    /\ s.banned <=> Banning
    /\ s.recorded <=> Len(banlist) = 1
    /\ s.banned => s.recorded

\* In the middle of a request the stored state is out of date, the one in
\* memory is not, and nobody asks.
LatchInv ==
    /\ Len(banlist) \in {0, 1} /\ (Len(banlist) = 1 => Banning)
    /\ (\A w \in Workers : pc[w] \notin Judging) => Knows(StoredState)
    /\ \A w \in Workers :
          /\ pc[w] = "analysis" => /\ state[w].recorded <=> Len(banlist) = 1
                                   /\ Banning => state[w].banned
          /\ pc[w] = "banlist" => Banning /\ state[w].banned /\ Len(banlist) = 0
          /\ pc[w] \in {"truncate", "save"} => Knows(state[w])

LEMMA InitLatchInv == Init => LatchInv
<1> SUFFICES ASSUME Init PROVE LatchInv
  OBVIOUS
<1>1. ~Banning /\ Len(banlist) = 0 /\ StoredState = FreshState
  BY DEF Init, Banning, StoredState
<1>2. \A w \in Workers : pc[w] = "idle"
  BY DEF Init
<1> QED
  BY <1>1, <1>2, FreshFacts DEF LatchInv, Knows

\* The faults that do not happen.
LEMMA QuietFacts ==
    ASSUME Quiet, IInv
    PROVE  /\ TypeOK /\ ~Disturbed
           /\ ~Fault("io") /\ ~Fault("record") /\ ~Fault("timeout") /\ ~Fault("crash")
BY DEF Quiet, IInv, TypeOK, Disturbed, Fault

LEMMA NextLatchInv ==
    ASSUME Quiet, IInv, Lone, LatchInv, [Next]_vars
    PROVE  LatchInv'
<1>0. /\ TypeOK /\ ~Disturbed
      /\ ~Fault("io") /\ ~Fault("record") /\ ~Fault("timeout") /\ ~Fault("crash")
  BY QuietFacts
<1> USE DEF LatchInv, Judging
\* Steps that leave the ban alone.
<1>1. ASSUME UNCHANGED <<analysis, banlist>>
      PROVE  (Banning' <=> Banning) /\ \A s : Knows(s)' <=> Knows(s)
  BY <1>1 DEF Banning, Knows
<1>2. ASSUME UNCHANGED disk PROVE StoredState' = StoredState
  BY <1>2 DEF StoredState
<1>3. ASSUME NEW w \in Workers, Request(w) \/ Aside(w) PROVE LatchInv'
  <2>1. /\ UNCHANGED <<analysis, banlist, disk>>
        /\ \A v \in Workers : pc[v] \notin Judging /\ pc'[v] \notin Judging \cup {"analysis"}
    BY <1>0, <1>3, AsideFacts
  <2>2. Knows(StoredState)'
    BY <1>1, <1>2, <2>1
  <2> QED
    BY <1>1, <2>1, <2>2
<1>4. ASSUME NEW w \in Workers, ReadState(w) PROVE LatchInv'
  <2> DEFINE new == Updated(StoredState, Judge(Runs(rows[w])))
  <2>1. /\ pc[w] = "state" /\ Goto(w, "analysis") /\ state' = [state EXCEPT ![w] = new]
        /\ UNCHANGED <<analysis, banlist, disk>>
    BY <1>4 DEF ReadState, files
  <2>2. Knows(StoredState)
    BY <1>0, <2>1, OthersIdle
  <2>3. /\ new.recorded <=> Len(banlist) = 1
        /\ Banning => new.banned
    <3>1. new.recorded = StoredState.recorded /\ (StoredState.banned => new.banned)
      BY StoredStateFacts, UpdatedFacts, UpdatedKeepsBan DEF Sound
    <3> QED
      BY <2>2, <3>1 DEF Knows
  <2> HIDE DEF new
  <2>4. state'[w] = new /\ pc'[w] = "analysis" /\ \A v \in Workers : v # w => pc'[v] = "idle"
    BY <1>0, <2>1, OthersIdle DEF TypeOK
  <2> QED
    BY <1>1, <1>2, <2>1, <2>2, <2>3, <2>4
<1>5. ASSUME NEW w \in Workers, AppendAnalysis(w) PROVE LatchInv'
  <2>1. /\ pc[w] = "analysis" /\ analysis' = Append(analysis, AnalysisOf(w))
        /\ UNCHANGED <<banlist, disk, state>>
        /\ Goto(w, IF state[w].banned /\ ~state[w].recorded THEN "banlist" ELSE "truncate")
    BY <1>0, <1>5 DEF AppendAnalysis
  <2>2. /\ pc'[w] = IF state[w].banned /\ ~state[w].recorded THEN "banlist" ELSE "truncate"
        /\ \A v \in Workers : v # w => pc'[v] = "idle"
    BY <1>0, <2>1, OthersIdle
  <2>3. Banning' <=> state[w].banned
    BY <1>0, <2>1, AnalysisGrows
  <2>4. state[w].recorded <=> Len(banlist) = 1
    BY <2>1
  <2> QED
    BY <2>1, <2>2, <2>3, <2>4 DEF Knows
<1>6. ASSUME NEW w \in Workers, AppendBan(w) PROVE LatchInv'
  <2>1. /\ pc[w] = "banlist" /\ Goto(w, "truncate") /\ UNCHANGED <<analysis, disk>>
        /\ banlist' = Append(banlist, state[w])
        /\ state' = [state EXCEPT ![w].recorded = TRUE]
    BY <1>0, <1>6 DEF AppendBan
  <2>2. pc'[w] = "truncate" /\ \A v \in Workers : v # w => pc'[v] = "idle"
    BY <1>0, <2>1, OthersIdle
  <2>3. Len(banlist') = 1 /\ state'[w].recorded /\ (state'[w].banned <=> state[w].banned)
    BY <1>0, <2>1 DEF TypeOK, SessionState
  <2>4. Banning' /\ state[w].banned
    BY <2>1 DEF Banning
  <2> QED
    BY <2>1, <2>2, <2>3, <2>4 DEF Knows
<1>7. ASSUME NEW w \in Workers, Truncate(w) PROVE LatchInv'
  <2>1. /\ pc[w] = "truncate" /\ Goto(w, "save") /\ UNCHANGED <<analysis, banlist, state>>
    BY <1>0, <1>7 DEF Truncate
  <2>2. pc'[w] = "save" /\ \A v \in Workers : v # w => pc'[v] = "idle"
    BY <1>0, <2>1, OthersIdle
  <2> QED
    BY <1>1, <2>1, <2>2
<1>8. ASSUME NEW w \in Workers, Save(w) PROVE LatchInv'
  <2>1. /\ pc[w] = "save" /\ Goto(w, "unlink") /\ UNCHANGED <<analysis, banlist, state>>
        /\ StoredState' = state[w]
    BY <1>0, <1>8 DEF Save, StoredState
  <2>2. pc'[w] = "unlink" /\ \A v \in Workers : v # w => pc'[v] = "idle"
    BY <1>0, <2>1, OthersIdle
  <2> QED
    BY <1>1, <2>1, <2>2
<1>9. CASE (\E u \in Uploads : AppendRows(u)) \/ CheckBan \/ UNCHANGED vars
  <2>1. UNCHANGED <<analysis, banlist, disk, pc, state>>
    BY <1>9 DEF AppendRows, CheckBan, vars, files
  <2> QED
    BY <1>1, <1>2, <2>1
<1>10. CASE (\E w \in Workers : Crash(w)) \/ Timeout
  BY <1>0, <1>10 DEF Crash, Timeout
<1> QED
  BY <1>3, <1>4, <1>5, <1>6, <1>7, <1>8, <1>9, <1>10 DEF Next, Work, Aside

LEMMA StepIsLatchStep ==
    ASSUME Quiet, IInv, Lone, LatchInv, [Next]_vars
    PROVE  [Latch!LatchNext]_(Latch!latch_vars)
<1>0. /\ TypeOK /\ ~Disturbed
      /\ ~Fault("io") /\ ~Fault("record") /\ ~Fault("timeout") /\ ~Fault("crash")
  BY QuietFacts
<1> SUFFICES Latch!LatchNext \/ ((Banning' <=> Banning) /\ UNCHANGED <<Len(banlist), told>>)
  <2>1. Banning \in BOOLEAN /\ Banning' \in BOOLEAN
    BY DEF Banning
  <2> QED
    BY <2>1 DEF Latch!latch_vars
<1>1. ASSUME UNCHANGED <<analysis, banlist, told>>
      PROVE  (Banning' <=> Banning) /\ UNCHANGED <<Len(banlist), told>>
  BY <1>1 DEF Banning
<1>2. ASSUME NEW u \in Uploads, AppendRows(u) PROVE UNCHANGED <<analysis, banlist, told>>
  BY <1>2 DEF AppendRows, handler
<1>3. ASSUME NEW w \in Workers,
             Request(w) \/ Aside(w) \/ ReadState(w) \/ Truncate(w) \/ Save(w)
      PROVE  UNCHANGED <<analysis, banlist, told>>
  BY <1>0, <1>3, AsideFacts DEF ReadState, Truncate, Save, files, handler
<1>4. ASSUME NEW w \in Workers, AppendAnalysis(w)
      PROVE  (Banning => Banning') /\ UNCHANGED <<banlist, told>>
  <2>1. analysis' = Append(analysis, AnalysisOf(w)) /\ UNCHANGED <<banlist, told>>
    BY <1>0, <1>4 DEF AppendAnalysis, handler
  <2> QED
    BY <1>0, <2>1, AnalysisGrows
<1>5. ASSUME NEW w \in Workers, AppendBan(w)
      PROVE  /\ Banning /\ (Banning' <=> Banning) /\ UNCHANGED told
             /\ Len(banlist) = 0 /\ Len(banlist') = 1
  <2>1. /\ UNCHANGED <<analysis, told>> /\ pc[w] = "banlist"
        /\ banlist' = Append(banlist, state[w])
    BY <1>0, <1>5 DEF AppendBan, handler
  <2>2. Banning /\ Len(banlist) = 0
    BY <2>1 DEF LatchInv
  <2>3. Len(banlist') = 1
    BY <1>0, <2>1, <2>2 DEF TypeOK
  <2> QED
    BY <2>1, <2>2, <2>3 DEF Banning
<1>6. CASE CheckBan
  <2>1. /\ UNCHANGED <<analysis, banlist>> /\ told' = StoredState.banned
        /\ \A w \in Workers : pc[w] = "idle"
    BY <1>0, <1>6 DEF CheckBan, files, Lone
  <2>2. Knows(StoredState)
    BY <2>1 DEF LatchInv, Judging
  <2>3. StoredState.banned \in BOOLEAN
    BY <1>0, StoredStateFacts DEF SessionState, IInv
  <2>4. told' \in BOOLEAN /\ (told' <=> Banning)
    <3>1. told' \in BOOLEAN
      BY <2>1, <2>3, Zenon
    <3>2. StoredState.banned <=> Banning
      BY <2>2, Zenon DEF Knows
    <3> QED
      BY <2>1, <3>1, <3>2, Zenon
  <2>5. (Banning => Len(banlist) = 1) /\ (Banning' <=> Banning) /\ UNCHANGED Len(banlist)
    <3>1. Banning => Len(banlist) = 1
      BY <2>2 DEF Knows
    <3> QED
      BY <2>1, <3>1 DEF Banning
  <2> QED
    BY <2>4, <2>5 DEF Latch!LatchNext, Latch!Answer
<1>7. CASE UNCHANGED vars
  BY <1>1, <1>7 DEF vars
<1>8. ASSUME NEW w \in Workers, AppendAnalysis(w)
      PROVE  Latch!LatchNext \/ ((Banning' <=> Banning) /\ UNCHANGED <<Len(banlist), told>>)
  BY <1>4, <1>8 DEF Latch!LatchNext, Latch!Ban
<1>9. ASSUME NEW w \in Workers, AppendBan(w) PROVE Latch!LatchNext
  BY <1>5, <1>9 DEF Latch!LatchNext, Latch!Record
<1> QED
  BY <1>0, <1>1, <1>2, <1>3, <1>6, <1>7, <1>8, <1>9
  DEF Next, Work, Crash, Timeout, Aside

\* As long as nothing fails but the deletion of the log, the backend and the
\* handler implement the ban latch, for any number of requests: an analysis
\* that ended in a ban is never taken back, one record is written, and
\* check_ban.php tells the handler the truth (process_session.php:262-330,
\* check_ban.php).
THEOREM SpecIsBanLatch == Quiet => (Spec => IsBanLatch)
<1> SUFFICES ASSUME Quiet PROVE Spec => IsBanLatch
  OBVIOUS
<1>1. Init => Latch!LatchInit
  BY DEF Init, Banning, Latch!LatchInit
<1>2. Init => LatchInv
  BY InitLatchInv
<1>3. IInv /\ Lone /\ LatchInv /\ [Next]_vars => LatchInv'
  BY NextLatchInv
<1>4. IInv /\ Lone /\ LatchInv /\ [Next]_vars => [Latch!LatchNext]_(Latch!latch_vars)
  BY StepIsLatchStep
<1> QED
  BY <1>1, <1>2, <1>3, <1>4, SpecIInv, SpecLone, PTL DEF Spec, IsBanLatch, Latch!LatchSpec
-----------------------------------------------------------------------------
(* No packet is judged twice *)

\* Ids are given out in order.
Numbered ==
    /\ \A i \in DOMAIN log : log[i].id <= appended
    /\ \A w \in Workers : \A i \in DOMAIN rows[w] : rows[w][i].id <= appended
    /\ \A j \in DOMAIN analysis : \A x \in analysis[j].ids : x <= appended

Unjudged(entries) ==
    \A i \in DOMAIN entries, j \in DOMAIN analysis : entries[i].id \notin analysis[j].ids

Deleting == failed \subseteq {"io", "record"}

\* What is in the log has not been judged, except between the step that writes
\* the analysis and the one that deletes the log; what has been loaded has not
\* been judged before it is.
CountInv == Deleting =>
    /\ (\A w \in Workers : pc[w] \notin Judging \cup {"unlink"}) => Unjudged(log)
    /\ \A w \in Workers : pc[w] \in {"state", "analysis"} => Unjudged(rows[w])

\* All ids that are used are naturals.
LEMMA IdsAreNumbers ==
    ASSUME TypeOK
    PROVE  /\ appended \in Nat
           /\ \A i \in DOMAIN log : log[i].id \in Nat
           /\ \A w \in Workers : \A i \in DOMAIN rows[w] : rows[w][i].id \in Nat
           /\ \A j \in DOMAIN analysis : \A x \in analysis[j].ids : x \in Nat
<1>1. /\ log \in Seq(Entry) /\ analysis \in Seq(Analysis) /\ appended \in Nat
      /\ \A w \in Workers : rows[w] \in Seq(Entry)
  BY DEF TypeOK
<1>2. /\ \A i \in DOMAIN log : log[i] \in Entry
      /\ \A w \in Workers : \A i \in DOMAIN rows[w] : rows[w][i] \in Entry
      /\ \A j \in DOMAIN analysis : analysis[j] \in Analysis
  BY <1>1
<1> QED
  BY <1>1, <1>2 DEF Entry, Analysis

\* A run that is appended gets a new id, at the end of the log.
LEMMA AppendFacts ==
    ASSUME TypeOK, NEW u \in Uploads, AppendRows(u)
    PROVE  /\ UNCHANGED <<analysis, pc, rows>>
           /\ \/ UNCHANGED <<log, appended>>
              \/ /\ appended' = appended + 1
                 /\ \A i \in DOMAIN log' :
                       \/ i \in DOMAIN log /\ log'[i] = log[i]
                       \/ log'[i].id = appended + 1
<1> DEFINE e == [id |-> appended + 1, run |-> Head(upload[u])]
<1>1. /\ UNCHANGED <<analysis, pc, rows>>
      /\ \/ UNCHANGED <<log, appended>>
         \/ appended' = appended + 1 /\ log' = Append(log, e)
  BY DEF AppendRows
<1>2. e \in Entry /\ e.id = appended + 1 /\ log \in Seq(Entry)
  BY DEF AppendRows, TypeOK, Entry
<1> HIDE DEF e
<1>3. log' = Append(log, e) =>
        \A i \in DOMAIN log' : (i \in DOMAIN log /\ log'[i] = log[i]) \/ log'[i] = e
  BY <1>2
<1> QED
  BY <1>1, <1>2, <1>3

\* What the step that appends an analysis does to the ids judged so far.
LEMMA AnalysisIds ==
    ASSUME TypeOK, NEW w \in Workers, analysis' = Append(analysis, AnalysisOf(w))
    PROVE  /\ DOMAIN analysis' = DOMAIN analysis \cup {Len(analysis) + 1}
           /\ \A j \in DOMAIN analysis : analysis'[j] = analysis[j]
           /\ analysis'[Len(analysis) + 1].ids = {rows[w][i].id : i \in DOMAIN rows[w]}
<1> DEFINE a == AnalysisOf(w)
<1>1. analysis \in Seq(Analysis) /\ a \in Analysis
  BY AnalysisTyped DEF TypeOK
<1>2. a.ids = {rows[w][i].id : i \in DOMAIN rows[w]}
  BY DEF AnalysisOf
<1>3. analysis' = Append(analysis, a)
  OBVIOUS
<1> HIDE DEF a
<1> QED
  BY <1>1, <1>2, <1>3

LEMMA NextNumbered == TypeOK /\ Numbered /\ [Next]_vars => Numbered'
<1> SUFFICES ASSUME TypeOK, Numbered, [Next]_vars PROVE Numbered'
  OBVIOUS
<1> USE DEF Numbered
<1>1. ASSUME NEW u \in Uploads, AppendRows(u) PROVE Numbered'
  BY <1>1, AppendFacts, IdsAreNumbers
<1>2. ASSUME NEW w \in Workers, Load(w) PROVE Numbered'
  <2>1. UNCHANGED <<log, appended, analysis>>
    BY <1>2 DEF Load, files, uploading
  <2>2. \A v \in Workers : rows'[v] \in {log, <<>>, rows[v]}
    BY <1>2 DEF Load, TypeOK
  <2>3. \A v \in Workers : \A i \in DOMAIN rows'[v] : rows'[v][i].id <= appended
    <3> SUFFICES ASSUME NEW v \in Workers, NEW i \in DOMAIN rows'[v]
                 PROVE  rows'[v][i].id <= appended
      OBVIOUS
    <3> QED
      BY <2>2
  <2> QED
    BY <2>1, <2>3
<1>3. ASSUME NEW w \in Workers, AppendAnalysis(w) PROVE Numbered'
  <2>1. UNCHANGED <<log, appended, rows>>
    BY <1>3 DEF AppendAnalysis, uploading
  <2>2. CASE UNCHANGED analysis
    BY <2>1, <2>2
  <2>3. CASE analysis' = Append(analysis, AnalysisOf(w))
    BY <2>1, <2>3, AnalysisIds
  <2> QED
    BY <1>3, <2>2, <2>3 DEF AppendAnalysis
<1>4. ASSUME NEW w \in Workers, Unlink(w) PROVE Numbered'
  <2>1. (log' = <<>> \/ UNCHANGED log) /\ UNCHANGED <<appended, analysis, rows>>
    BY <1>4 DEF Unlink, uploading
  <2> QED
    BY <2>1
<1>5. ASSUME NEW w \in Workers, Reply(w) \/ Crash(w) PROVE Numbered'
  <2>1. UNCHANGED <<log, appended, analysis>>
    BY <1>5 DEF Reply, Crash, Finish, files, uploading
  <2>2. rows'[w] = <<>> /\ \A v \in Workers : v # w => rows'[v] = rows[v]
    BY <1>5 DEF Reply, Crash, Finish, TypeOK
  <2> QED
    BY <2>1, <2>2
<1>6. CASE \/ \E w \in Workers : \/ Request(w) \/ ReadState(w) \/ AppendBan(w)
                                 \/ Truncate(w) \/ Save(w)
           \/ Timeout \/ CheckBan \/ UNCHANGED vars
  <2>1. UNCHANGED <<log, appended, analysis, rows>>
    BY <1>6 DEF Request, ReadState, AppendBan, Truncate, Save, Timeout, CheckBan,
                vars, files, uploading
  <2> QED
    BY <2>1
<1> QED
  BY <1>1, <1>2, <1>3, <1>4, <1>5, <1>6 DEF Next, Work

LEMMA NextCountInv ==
    ASSUME IInv, Lone, Numbered, CountInv, NoDoubleCount, [Next]_vars
    PROVE  CountInv' /\ NoDoubleCount'
<1> SUFFICES ASSUME Deleting' PROVE CountInv' /\ NoDoubleCount'
  BY DEF CountInv, NoDoubleCount, Deleting
<1>0. /\ TypeOK /\ Deleting /\ ~Disturbed
      /\ ~Fault("unlink") /\ ~Fault("timeout") /\ ~Fault("crash")
  <2>1. TypeOK /\ failed \subseteq failed'
    BY FailedGrows DEF IInv
  <2>2. ~Fault("unlink") /\ ~Fault("timeout") /\ ~Fault("crash")
    BY DEF Fault, Deleting
  <2> QED
    BY <2>1, <2>2 DEF Deleting, Disturbed
<1> USE DEF CountInv, Unjudged, Judging
\* While the analysis log stands still, so do the ids judged.
<1>1. ASSUME UNCHANGED analysis PROVE NoDoubleCount'
  BY <1>0, <1>1 DEF NoDoubleCount, Deleting
<1>2. ASSUME NEW u \in Uploads, AppendRows(u) PROVE CountInv'
  <2>1. UNCHANGED <<analysis, pc, rows>>
    BY <1>0, <1>2, AppendFacts
  <2>2. \A j \in DOMAIN analysis : appended + 1 \notin analysis[j].ids
    BY <1>0, IdsAreNumbers DEF Numbered
  <2>3. Unjudged(log) => Unjudged(log)'
    BY <1>0, <1>2, <2>1, <2>2, AppendFacts
  <2> QED
    BY <1>0, <2>1, <2>3
<1>3. ASSUME NEW w \in Workers, Load(w) PROVE CountInv'
  <2>1. pc[w] = "load" /\ UNCHANGED <<log, analysis>>
        /\ \E step \in {"reply", "state"} : Goto(w, step)
    BY <1>3 DEF Load, files
  <2>2. /\ \A v \in Workers : pc[v] \notin Judging \cup {"unlink"}
        /\ \A v \in Workers : v # w => pc'[v] = "idle"
    BY <1>0, <2>1, OthersIdle
  <2>3. rows'[w] \in {log, <<>>}
    BY <1>0, <1>3 DEF Load, TypeOK
  <2>4. Unjudged(log)' /\ Unjudged(rows[w])'
    BY <1>0, <2>1, <2>2, <2>3
  <2> QED
    BY <2>2, <2>4
<1>4. ASSUME NEW w \in Workers, AppendAnalysis(w) PROVE CountInv' /\ NoDoubleCount'
  <2>1. pc[w] = "analysis" /\ UNCHANGED <<log, rows>>
        /\ \E step \in {"banlist", "truncate"} : Goto(w, step)
    BY <1>4 DEF AppendAnalysis
  <2>2. pc'[w] \in {"banlist", "truncate"} /\ \A v \in Workers : v # w => pc'[v] = "idle"
    BY <1>0, <2>1, OthersIdle
  <2>3. CountInv'
    BY <2>2
  <2>4. ASSUME analysis' = Append(analysis, AnalysisOf(w)) PROVE NoDoubleCount'
    <3>1. /\ DOMAIN analysis' = DOMAIN analysis \cup {Len(analysis) + 1}
          /\ \A j \in DOMAIN analysis : analysis'[j] = analysis[j]
          /\ analysis'[Len(analysis) + 1].ids = {rows[w][i].id : i \in DOMAIN rows[w]}
      BY <1>0, <2>4, AnalysisIds
    <3>2. \A j \in DOMAIN analysis :
            analysis'[Len(analysis) + 1].ids \cap analysis[j].ids = {}
      BY <1>0, <2>1, <3>1
    <3> QED
      BY <1>0, <3>1, <3>2 DEF NoDoubleCount, Deleting
  <2> QED
    BY <1>1, <1>4, <2>3, <2>4 DEF AppendAnalysis
<1>5. ASSUME NEW w \in Workers, Unlink(w) PROVE CountInv'
  <2>1. log' = <<>> /\ pc[w] = "unlink" /\ Goto(w, "reply")
    BY <1>0, <1>5 DEF Unlink
  <2>2. pc'[w] = "reply" /\ \A v \in Workers : v # w => pc'[v] = "idle"
    BY <1>0, <2>1, OthersIdle
  <2> QED
    BY <2>1, <2>2
<1>6. ASSUME NEW w \in Workers, Request(w) \/ Reply(w) PROVE CountInv'
  <2>1. /\ UNCHANGED <<analysis, log>>
        /\ \A v \in Workers : pc'[v] \notin {"state", "analysis"}
        /\ \A v \in Workers : pc[v] \notin Judging \cup {"unlink"}
    <3>1. CASE Request(w)
      BY <1>0, <3>1, RequestAlone DEF Request, files
    <3>2. CASE Reply(w)
      <4>1. pc[w] = "reply" /\ Goto(w, "idle") /\ UNCHANGED <<analysis, log>>
        BY <3>2 DEF Reply, Finish, files
      <4> QED
        BY <1>0, <4>1, OthersIdle
    <3> QED
      BY <1>6, <3>1, <3>2
  <2> QED
    BY <1>0, <2>1
<1>7. ASSUME NEW w \in Workers, ReadState(w) PROVE CountInv'
  <2>1. pc[w] = "state" /\ Goto(w, "analysis") /\ UNCHANGED <<analysis, log, rows>>
    BY <1>7 DEF ReadState, files
  <2>2. \A v \in Workers : v # w => pc[v] = "idle" /\ pc'[v] = "idle"
    BY <1>0, <2>1, OthersIdle
  <2> QED
    BY <1>0, <2>1, <2>2
<1>8. ASSUME NEW w \in Workers, AppendBan(w) \/ Truncate(w) \/ Save(w) PROVE CountInv'
  <2>1. /\ pc[w] # "idle"
        /\ \E step \in {"truncate", "save", "unlink"} : Goto(w, step)
    BY <1>8 DEF AppendBan, Truncate, Save
  <2>2. /\ pc'[w] \in {"truncate", "save", "unlink"}
        /\ \A v \in Workers : v # w => pc'[v] = "idle"
    BY <1>0, <2>1, OthersIdle
  <2> QED
    BY <2>2
<1>9. ASSUME CheckBan \/ UNCHANGED vars PROVE CountInv'
  <2>1. UNCHANGED <<log, analysis, rows, pc>>
    BY <1>9 DEF CheckBan, vars, files
  <2> QED
    BY <1>0, <2>1
\* Every other step but the one that appends an analysis leaves that log alone.
<1>10. CASE \/ \E u \in Uploads : AppendRows(u)
            \/ \E w \in Workers : \/ Request(w) \/ Load(w) \/ ReadState(w) \/ AppendBan(w)
                                  \/ Truncate(w) \/ Save(w) \/ Unlink(w) \/ Reply(w)
            \/ CheckBan \/ UNCHANGED vars
  <2>1. UNCHANGED analysis
    BY <1>10 DEF AppendRows, Request, Load, ReadState, AppendBan, Truncate, Save,
                 Unlink, Reply, Finish, CheckBan, vars, files
  <2> QED
    BY <1>1, <1>2, <1>3, <1>5, <1>6, <1>7, <1>8, <1>9, <1>10, <2>1
<1>11. CASE (\E w \in Workers : Crash(w)) \/ Timeout
  BY <1>0, <1>11 DEF Crash, Timeout
<1> QED
  BY <1>4, <1>10, <1>11 DEF Next, Work

\* No packet is judged in two chunks, though the log is read in one step,
\* deleted in another and appended to in between, for any uploads and any
\* number of requests, until a deletion fails or a request is given up or dies
\* (process_session.php:134-331).
THEOREM SpecNoDoubleCount == Spec => []NoDoubleCount
<1>1. Init => Numbered /\ CountInv /\ NoDoubleCount
  BY DEF Init, CountInv, Numbered, Unjudged, NoDoubleCount
<1>2. IInv => TypeOK
  BY DEF IInv
<1> QED
  BY <1>1, <1>2, NextNumbered, NextCountInv, SpecLone, SpecIInv, PTL DEF Spec
-----------------------------------------------------------------------------
(* What is deleted has been judged *)

\* A request that has read a row of the log has read every older one that is
\* still there.
NothingSkipped ==
    \A w \in Workers : \A r \in Ids(log), q \in Ids(rows[w]) : r <= q => r \in Ids(rows[w])

\* Past the step that writes the analysis, what was read is in one.
ReadIsJudged ==
    "io" \notin failed => \A w \in Workers :
        pc[w] \in Judging \cup {"unlink"} => Ids(rows[w]) \subseteq Judged

LossInv == NothingSkipped /\ ReadIsJudged

\* The ids of a log that grows, and those of the log and of what was read.
LEMMA IdsFacts ==
    ASSUME TypeOK, Numbered
    PROVE  /\ appended \in Nat /\ \A r \in Ids(log) : r \in Nat /\ r <= appended
           /\ \A w \in Workers : \A q \in Ids(rows[w]) : q \in Nat /\ q <= appended
BY IdsAreNumbers DEF Numbered, Ids

\* An appended row is the newest; no other is touched.
LEMMA AppendIds ==
    ASSUME TypeOK, NEW u \in Uploads, AppendRows(u)
    PROVE  /\ UNCHANGED <<analysis, pc, rows>>
           /\ Ids(log) \subseteq Ids(log')
           /\ \A r \in Ids(log') : r \in Ids(log) \/ r = appended + 1
<1> DEFINE e == [id |-> appended + 1, run |-> Head(upload[u])]
<1>1. e \in Entry /\ e.id = appended + 1 /\ log \in Seq(Entry)
  BY DEF AppendRows, TypeOK, Entry
<1>2. UNCHANGED <<analysis, pc, rows>> /\ (UNCHANGED log \/ log' = Append(log, e))
  BY DEF AppendRows
<1> HIDE DEF e
<1>3. ASSUME log' = Append(log, e)
      PROVE  /\ \A i \in DOMAIN log : i \in DOMAIN log' /\ log'[i] = log[i]
             /\ \A i \in DOMAIN log' : (i \in DOMAIN log /\ log'[i] = log[i]) \/ log'[i] = e
  BY <1>1, <1>3
<1> QED
  BY <1>1, <1>2, <1>3 DEF Ids

\* The analyses only grow, by the ids of the chunk that is judged.
LEMMA JudgedGrows ==
    ASSUME TypeOK, NEW w \in Workers, analysis' = Append(analysis, AnalysisOf(w))
    PROVE  Judged \cup Ids(rows[w]) \subseteq Judged'
<1>1. /\ DOMAIN analysis' = DOMAIN analysis \cup {Len(analysis) + 1}
      /\ \A j \in DOMAIN analysis : analysis'[j] = analysis[j]
      /\ analysis'[Len(analysis) + 1].ids = Ids(rows[w])
  BY AnalysisIds DEF Ids
<1> QED
  BY <1>1 DEF Judged

LEMMA NextLossInv ==
    ASSUME TypeOK, Numbered, LossInv, [Next]_vars
    PROVE  LossInv'
<1>0. failed \subseteq failed'
  BY FailedGrows
<1> USE DEF LossInv, NothingSkipped, ReadIsJudged, Judging
<1>1. ASSUME NEW u \in Uploads, AppendRows(u) PROVE LossInv'
  <2>1. /\ UNCHANGED <<analysis, pc, rows>>
        /\ \A r \in Ids(log') : r \in Ids(log) \/ r = appended + 1
    BY <1>1, AppendIds
  <2>2. NothingSkipped'
    BY <2>1, IdsFacts
  <2>3. ReadIsJudged'
    BY <1>0, <2>1 DEF Judged
  <2> QED
    BY <2>2, <2>3
<1>2. ASSUME NEW w \in Workers, Load(w) PROVE LossInv'
  <2>1. UNCHANGED <<log, analysis>>
    BY <1>2 DEF Load, files
  <2>2. /\ rows'[w] \in {log, <<>>} /\ pc'[w] \in {"reply", "state"}
        /\ \A v \in Workers : v # w => rows'[v] = rows[v] /\ pc'[v] = pc[v]
    BY <1>2 DEF Load, Goto, TypeOK
  <2>3. NothingSkipped'
    BY <2>1, <2>2 DEF Ids
  <2>4. ReadIsJudged'
    BY <1>0, <2>1, <2>2 DEF Judged
  <2> QED
    BY <2>3, <2>4
<1>3. ASSUME NEW w \in Workers, AppendAnalysis(w) PROVE LossInv'
  <2>1. /\ UNCHANGED <<log, rows>>
        /\ \A v \in Workers : v # w => pc'[v] = pc[v]
    BY <1>3 DEF AppendAnalysis, Goto, TypeOK
  <2>2. analysis' = Append(analysis, AnalysisOf(w)) \/ "io" \in failed'
    BY <1>3, FaultIsRemembered DEF AppendAnalysis
  <2>3. ASSUME analysis' = Append(analysis, AnalysisOf(w)) PROVE ReadIsJudged'
    BY <1>0, <2>1, <2>3, JudgedGrows
  <2>4. NothingSkipped'
    BY <2>1
  <2> QED
    BY <2>2, <2>3, <2>4
<1>4. ASSUME NEW w \in Workers, Unlink(w) PROVE LossInv'
  <2>1. /\ UNCHANGED <<analysis, rows>> /\ (log' = <<>> \/ UNCHANGED log)
        /\ pc'[w] = "reply" /\ \A v \in Workers : v # w => pc'[v] = pc[v]
    BY <1>4 DEF Unlink, Goto, TypeOK
  <2>2. NothingSkipped'
    BY <2>1 DEF Ids
  <2>3. ReadIsJudged'
    BY <1>0, <2>1 DEF Judged
  <2> QED
    BY <2>2, <2>3
<1>5. ASSUME NEW w \in Workers, Reply(w) \/ Crash(w) PROVE LossInv'
  <2>1. /\ UNCHANGED <<log, analysis>>
        /\ rows'[w] = <<>> /\ pc'[w] = "idle"
        /\ \A v \in Workers : v # w => rows'[v] = rows[v] /\ pc'[v] = pc[v]
    BY <1>5 DEF Reply, Crash, Finish, Goto, files, TypeOK
  <2>2. NothingSkipped'
    BY <2>1 DEF Ids
  <2>3. ReadIsJudged'
    BY <1>0, <2>1 DEF Judged
  <2> QED
    BY <2>2, <2>3
<1>6. ASSUME NEW w \in Workers,
             Request(w) \/ ReadState(w) \/ AppendBan(w) \/ Truncate(w) \/ Save(w)
      PROVE  LossInv'
  <2>1. /\ UNCHANGED <<log, analysis, rows>>
        /\ \A v \in Workers : v # w => pc'[v] = pc[v]
    BY <1>6 DEF Request, ReadState, AppendBan, Truncate, Save, Goto, files, TypeOK
  <2>2. \/ pc[w] \in Judging
        \/ pc'[w] \in {"load", "reply", "analysis"}
    BY <1>6 DEF Request, ReadState, AppendBan, Truncate, Save, Goto, TypeOK
  <2>3. ReadIsJudged'
    BY <1>0, <2>1, <2>2 DEF Judged
  <2> QED
    BY <2>1, <2>3
<1>7. CASE Timeout \/ CheckBan \/ UNCHANGED vars
  <2>1. UNCHANGED <<log, analysis, rows, pc>>
    BY <1>7 DEF Timeout, CheckBan, vars, files
  <2> QED
    BY <1>0, <2>1 DEF Judged
<1> QED
  BY <1>1, <1>2, <1>3, <1>4, <1>5, <1>6, <1>7 DEF Next, Work

\* The log only shrinks when it is deleted, by a request that has judged what it
\* has read.
LEMMA StepDeletesJudged ==
    ASSUME TypeOK, Numbered, LossInv, [Next]_vars,
           NEW r \in Ids(log) \ Ids(log'), r \notin Judged, "io" \notin failed
    PROVE  \E w \in Workers : Holding(w) /\ \A q \in Ids(rows[w]) : q < r
<1>1. ASSUME NEW u \in Uploads, AppendRows(u) PROVE FALSE
  BY <1>1, AppendIds
<1>2. CASE \/ \E w \in Workers : \/ Request(w) \/ Load(w) \/ ReadState(w)
                                 \/ AppendAnalysis(w) \/ AppendBan(w) \/ Truncate(w)
                                 \/ Save(w) \/ Reply(w) \/ Crash(w)
           \/ Timeout \/ CheckBan \/ UNCHANGED vars
  <2>1. UNCHANGED log
    BY <1>2 DEF Request, Load, ReadState, AppendAnalysis, AppendBan, Truncate, Save,
                Reply, Crash, Finish, Timeout, CheckBan, vars, files
  <2> QED
    BY <2>1
<1>3. ASSUME NEW w \in Workers, Unlink(w)
      PROVE  Holding(w) /\ \A q \in Ids(rows[w]) : q < r
  <2>1. pc[w] = "unlink" /\ Ids(rows[w]) \subseteq Judged
    BY <1>3 DEF Unlink, LossInv, ReadIsJudged
  <2>2. \A q \in Ids(rows[w]) : ~(r <= q)
    BY <2>1 DEF LossInv, NothingSkipped
  <2>3. \A q \in Ids(rows[w]) : q < r
    BY <2>2, IdsFacts
  <2> QED
    BY <2>1, <2>3 DEF Holding
<1> QED
  BY <1>1, <1>2, <1>3 DEF Next, Work

\* A row is not deleted without having been judged, whatever times out, dies or
\* overlaps, unless it came after a running request had read the log, or a file
\* operation failed (process_session.php:134-331).
THEOREM SpecDeletedIsJudged == Spec => DeletedIsJudged
<1>1. Init => Numbered /\ LossInv
  BY DEF Init, Numbered, LossInv, NothingSkipped, ReadIsJudged, Ids, Judging
<1>2. IInv => TypeOK
  BY DEF IInv
<1>3. TypeOK /\ Numbered /\ LossInv /\ [Next]_vars =>
          [\A r \in Ids(log) \ Ids(log') :
               \/ r \in Judged \/ "io" \in failed
               \/ \E w \in Workers : Holding(w) /\ \A q \in Ids(rows[w]) : q < r]_vars
  BY StepDeletesJudged
<1> QED
  BY <1>1, <1>2, <1>3, NextNumbered, NextLossInv, SpecIInv, PTL DEF Spec, DeletedIsJudged
=============================================================================
