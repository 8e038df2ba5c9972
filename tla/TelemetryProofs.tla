---------------------------- MODULE TelemetryProofs ----------------------------
(***************************************************************************)
(* The telemetry path implements the lossy channel and keeps every packet  *)
(* in one place, for every batch size, number of packets and set of        *)
(* failures.                                                               *)
(*                                                                         *)
(* The order of the rows and the absence of duplicates hang on one fact:   *)
(* whatever is under way is the rest of a batch, each batch is under way   *)
(* in one place only, and its rest is just what is neither logged nor      *)
(* lost.                                                                   *)
(***************************************************************************)
EXTENDS Telemetry, SequenceTheorems, FiniteSetTheorems, TLAPS

\* Batches begin at the multiples of the size.
Start(k)    == k * BatchSize
Batch(k)    == Start(k) + 1 .. Start(k) + BatchSize
Complete(k) == Start(k) + BatchSize <= produced
Got(p)      == \E i \in DOMAIN log : log[i] = p
Open(p)     == p \in 1..produced /\ ~Got(p) /\ p \notin lost

\* Batch k without its first j packets.
Offsets     == 0..BatchSize - 1
Slice(k, j) == [i \in 1..BatchSize - j |-> Start(k) + j + i]

PacketInv ==
    /\ produced \in Nat /\ produced <= MaxPackets
    /\ running \in BOOLEAN
    /\ log \in Seq(Nat) /\ \A i \in DOMAIN log : log[i] <= produced
    /\ lost \subseteq 1..produced

\* The buffer holds what the last batch has so far.
BufferInv ==
    /\ g_packetBuffer \in Seq(Nat) /\ Len(g_packetBuffer) < BatchSize
    /\ running => \E k \in Nat :
          /\ produced = Start(k) + Len(g_packetBuffer)
          /\ \A i \in 1..Len(g_packetBuffer) : g_packetBuffer[i] = Start(k) + i
    /\ ~running => g_packetBuffer = <<>>
    /\ \A i \in 1..Len(g_packetBuffer) : Open(g_packetBuffer[i])

\* What is left of batch k begins after its first j packets.
IsRest(k, j) ==
    /\ Complete(k)
    /\ \A q \in Batch(k) : Open(q) <=> q > Start(k) + j

CarrierInv ==
    /\ \A t \in threads : \E k \in Nat : t = Slice(k, 0)
    /\ \A r \in requests : \E k \in Nat, j \in Offsets : r = Slice(k, j)
    /\ \A k \in Nat, j \in Offsets : Slice(k, j) \in threads \cup requests => IsRest(k, j)
    /\ threads \cap requests = {}

ChannelInv == PacketInv /\ BufferInv /\ CarrierInv

-----------------------------------------------------------------------------
(* Batches and what is left of them *)

LEMMA StartIsNat ==
    ASSUME NEW k \in Nat
    PROVE  Start(k) \in Nat /\ k <= Start(k) /\ Start(k + 1) = Start(k) + BatchSize
BY SizeAssumption DEF Start

\* Batches follow each other.
LEMMA BatchesApart ==
    ASSUME NEW j \in Nat, NEW k \in Nat, j < k
    PROVE  Start(j) + BatchSize <= Start(k)
<1>1. PICK d \in Nat : k = j + 1 + d
  OBVIOUS
<1>2. k * BatchSize = j * BatchSize + BatchSize + d * BatchSize
  BY <1>1, SizeAssumption
<1>3. d * BatchSize >= 0
  BY <1>1, SizeAssumption
<1> QED
  BY <1>2, <1>3, SizeAssumption DEF Start

LEMMA SliceIsSeq ==
    ASSUME NEW k \in Nat, NEW j \in Offsets
    PROVE  /\ Slice(k, j) \in Seq(Nat) /\ Len(Slice(k, j)) = BatchSize - j
           /\ DOMAIN Slice(k, j) = 1..BatchSize - j
           /\ ToSet(Slice(k, j)) = {q \in Batch(k) : q > Start(k) + j}
           /\ Head(Slice(k, j)) = Start(k) + j + 1
<1>1. BatchSize - j \in Nat /\ Start(k) \in Nat /\ BatchSize - j >= 1
  BY SizeAssumption, StartIsNat DEF Offsets
<1>2. Slice(k, j) \in [1..BatchSize - j -> Nat]
  BY <1>1, SizeAssumption DEF Slice, Offsets
<1>3. Slice(k, j) \in Seq(Nat) /\ Len(Slice(k, j)) = BatchSize - j
  BY <1>1, <1>2
<1>4. ToSet(Slice(k, j)) = {q \in Batch(k) : q > Start(k) + j}
  <2>1. ASSUME NEW q \in Batch(k), q > Start(k) + j PROVE q \in ToSet(Slice(k, j))
    <3>1. /\ q - (Start(k) + j) \in 1..BatchSize - j
          /\ Slice(k, j)[q - (Start(k) + j)] = q
      BY <1>1, <2>1, SizeAssumption DEF Batch, Slice, Offsets
    <3> QED
      BY <1>2, <3>1 DEF ToSet
  <2>2. ASSUME NEW i \in 1..BatchSize - j
        PROVE  Slice(k, j)[i] \in Batch(k) /\ Slice(k, j)[i] > Start(k) + j
    BY <1>1, <2>2, SizeAssumption DEF Batch, Slice, Offsets
  <2> QED
    BY <1>2, <2>1, <2>2 DEF ToSet
<1>5. Head(Slice(k, j)) = Start(k) + j + 1
  BY <1>1, <1>3 DEF Slice
<1> QED
  BY <1>2, <1>3, <1>4, <1>5

\* A slice is the rest of one batch only.
LEMMA SliceIsOne ==
    ASSUME NEW k \in Nat, NEW j \in Offsets, NEW l \in Nat, NEW i \in Offsets,
           Slice(k, j) = Slice(l, i)
    PROVE  k = l /\ j = i
<1>1. /\ Len(Slice(k, j)) = BatchSize - j /\ Len(Slice(l, i)) = BatchSize - i
      /\ Head(Slice(k, j)) = Start(k) + j + 1 /\ Head(Slice(l, i)) = Start(l) + i + 1
  BY SliceIsSeq
<1>2. /\ Start(k) \in Nat /\ Start(l) \in Nat
      /\ BatchSize \in Nat /\ j \in Nat /\ i \in Nat
  BY StartIsNat, SizeAssumption DEF Offsets
<1>3. BatchSize - j = BatchSize - i /\ Start(k) + j + 1 = Start(l) + i + 1
  BY <1>1
<1>4. j = i /\ Start(k) = Start(l)
  BY <1>2, <1>3
<1>5. k < l => Start(k) + BatchSize <= Start(l)
  BY BatchesApart
<1>6. l < k => Start(l) + BatchSize <= Start(k)
  BY BatchesApart
<1> QED
  BY <1>2, <1>4, <1>5, <1>6, SizeAssumption

LEMMA SliceTail ==
    ASSUME NEW k \in Nat, NEW j \in Offsets, j + 1 \in Offsets
    PROVE  Tail(Slice(k, j)) = Slice(k, j + 1)
<1>1. Start(k) \in Nat /\ BatchSize \in Nat /\ j \in Nat
  BY StartIsNat, SizeAssumption DEF Offsets
<1>2. /\ Slice(k, j) \in Seq(Nat) /\ Len(Slice(k, j)) = BatchSize - j
  BY SliceIsSeq
<1>3. /\ Tail(Slice(k, j)) \in Seq(Nat) /\ Len(Tail(Slice(k, j))) = BatchSize - (j + 1)
      /\ \A i \in 1..BatchSize - (j + 1) : Tail(Slice(k, j))[i] = Slice(k, j)[i + 1]
  <2>1. BatchSize - j \in Nat \ {0} /\ BatchSize - (j + 1) = BatchSize - j - 1
    BY <1>1 DEF Offsets
  <2>2. Slice(k, j) # <<>>
    BY <1>2, <2>1
  <2> QED
    BY <1>2, <2>1, <2>2, HeadTailProperties
<1>4. /\ Slice(k, j + 1) \in Seq(Nat) /\ Len(Slice(k, j + 1)) = BatchSize - (j + 1)
  BY SliceIsSeq
<1>5. ASSUME NEW i \in 1..BatchSize - (j + 1)
      PROVE  Slice(k, j)[i + 1] = Start(k) + (j + 1) + i
  <2>1. i + 1 \in 1..BatchSize - j
    BY <1>1
  <2> QED
    BY <1>1, <2>1 DEF Slice
<1>6. \A i \in 1..BatchSize - (j + 1) : Slice(k, j + 1)[i] = Start(k) + (j + 1) + i
  BY DEF Slice
<1> QED
  BY <1>3, <1>4, <1>5, <1>6, SeqEqual

\* What is left of a batch begins in one place.
LEMMA RestIsOne ==
    ASSUME NEW k \in Nat, NEW j \in Offsets, NEW i \in Offsets, IsRest(k, j), IsRest(k, i)
    PROVE  j = i
<1>1. Start(k) \in Nat /\ BatchSize \in Nat /\ j \in 0..BatchSize - 1 /\ i \in 0..BatchSize - 1
  BY StartIsNat, SizeAssumption DEF Offsets
<1>2. Start(k) + j + 1 \in Batch(k) /\ Start(k) + i + 1 \in Batch(k)
  BY <1>1 DEF Batch
<1>3. ~(j < i)
  BY <1>1, <1>2 DEF IsRest
<1>4. ~(i < j)
  BY <1>1, <1>2 DEF IsRest
<1> QED
  BY <1>1, <1>3, <1>4

\* Packets of two batches are different.
LEMMA BatchIsOne ==
    ASSUME NEW k \in Nat, NEW l \in Nat, NEW q \in Batch(k), q \in Batch(l)
    PROVE  k = l
<1>1. /\ Start(k) \in Nat /\ Start(l) \in Nat /\ BatchSize \in Nat
  BY StartIsNat, SizeAssumption
<1>2. k < l => Start(k) + BatchSize <= Start(l)
  BY BatchesApart
<1>3. l < k => Start(l) + BatchSize <= Start(k)
  BY BatchesApart
<1> QED
  BY <1>1, <1>2, <1>3 DEF Batch

\* A carrier is the rest of a batch, and holds all its open packets.
LEMMA CarrierIsRest ==
    ASSUME ChannelInv, NEW c \in threads \cup requests
    PROVE  \E k \in Nat, j \in Offsets :
              /\ c = Slice(k, j) /\ IsRest(k, j) /\ (c \in threads => j = 0)
              /\ ToSet(c) = {q \in Batch(k) : Open(q)}
<1>1. PICK k \in Nat, j \in Offsets : c = Slice(k, j) /\ (c \in threads => j = 0)
  <2>1. 0 \in Offsets
    BY SizeAssumption DEF Offsets
  <2>2. CASE c \in threads
    BY <2>1, <2>2 DEF ChannelInv, CarrierInv
  <2>3. CASE c \notin threads
    BY <2>3 DEF ChannelInv, CarrierInv
  <2> QED
    BY <2>2, <2>3
<1>2. IsRest(k, j)
  BY <1>1 DEF ChannelInv, CarrierInv
<1>3. ToSet(c) = {q \in Batch(k) : Open(q)}
  BY <1>1, <1>2, SliceIsSeq DEF IsRest
<1> QED
  BY <1>1, <1>2, <1>3

\* No packet has two carriers.
LEMMA CarriersAreDisjoint ==
    ASSUME ChannelInv, NEW c \in threads \cup requests, NEW d \in threads \cup requests,
           NEW q, q \in ToSet(c), q \in ToSet(d)
    PROVE  c = d
<1>1. PICK k \in Nat, j \in Offsets :
          c = Slice(k, j) /\ IsRest(k, j) /\ ToSet(c) = {p \in Batch(k) : Open(p)}
  BY CarrierIsRest
<1>2. PICK l \in Nat, i \in Offsets :
          d = Slice(l, i) /\ IsRest(l, i) /\ ToSet(d) = {p \in Batch(l) : Open(p)}
  BY CarrierIsRest
<1>3. k = l
  BY <1>1, <1>2, BatchIsOne
<1>4. j = i
  BY <1>1, <1>2, <1>3, RestIsOne
<1> QED
  BY <1>1, <1>2, <1>3, <1>4

\* The buffer holds packets after every complete batch.
LEMMA BufferIsLast ==
    ASSUME ChannelInv, NEW k \in Nat, Complete(k), NEW q \in Batch(k)
    PROVE  q \notin ToSet(g_packetBuffer) /\ q \in 1..produced
<1>1. /\ Start(k) \in Nat /\ BatchSize \in Nat /\ produced \in Nat
      /\ g_packetBuffer \in Seq(Nat) /\ Len(g_packetBuffer) < BatchSize
  BY StartIsNat, SizeAssumption DEF ChannelInv, PacketInv, BufferInv
<1>2. CASE g_packetBuffer = <<>>
  BY <1>1, <1>2 DEF ToSet, Complete, Batch
<1>3. CASE g_packetBuffer # <<>>
  <2>1. PICK l \in Nat :
            /\ produced = Start(l) + Len(g_packetBuffer)
            /\ \A i \in 1..Len(g_packetBuffer) : g_packetBuffer[i] = Start(l) + i
    BY <1>3 DEF ChannelInv, BufferInv, PacketInv
  <2>2. /\ Start(l) \in Nat /\ (l = k => Start(l) = Start(k))
        /\ (l < k => Start(l) + BatchSize <= Start(k))
    BY StartIsNat, BatchesApart
  <2>3. l > k
    <3>1. /\ Start(k) + BatchSize <= Start(l) + Len(g_packetBuffer)
          /\ Len(g_packetBuffer) \in Nat
      BY <1>1, <2>1 DEF Complete
    <3>2. Start(k) < Start(l)
      BY <1>1, <2>2, <3>1
    <3> QED
      BY <1>1, <2>2, <3>2
  <2>4. Start(k) + BatchSize <= Start(l)
    BY <2>3, BatchesApart
  <2> QED
    <3>1. q <= Start(k) + BatchSize /\ q \in Nat /\ q >= 1
      BY <1>1 DEF Batch
    <3>2. q \in 1..produced
      BY <1>1, <3>1 DEF Complete
    <3>3. \A i \in 1..Len(g_packetBuffer) : g_packetBuffer[i] > q
      BY <1>1, <2>1, <2>2, <2>4, <3>1
    <3> QED
      BY <1>1, <3>2, <3>3 DEF ToSet
<1> QED
  BY <1>2, <1>3

-----------------------------------------------------------------------------
(* Every step keeps the carriers apart *)

LEMMA InitChannelInv == Init => ChannelInv
<1> SUFFICES ASSUME Init PROVE ChannelInv
  OBVIOUS
<1>1. PacketInv /\ CarrierInv
  BY SizeAssumption DEF Init, PacketInv, CarrierInv
<1>2. Start(0) = 0
  BY SizeAssumption DEF Start
<1>3. BufferInv
  BY <1>2, SizeAssumption DEF Init, BufferInv
<1> QED
  BY <1>1, <1>3 DEF ChannelInv

\* What happens to packets of one carrier does not touch the others.
LEMMA OthersStay ==
    ASSUME ChannelInv, NEW c \in threads \cup requests, NEW S, S \subseteq ToSet(c),
           produced' = produced, \A q : Open(q)' <=> Open(q) /\ q \notin S
    PROVE  /\ \A l \in Nat, i \in Offsets :
                  Slice(l, i) \in (threads \cup requests) \ {c} => IsRest(l, i)'
           /\ \A q \in ToSet(g_packetBuffer) : Open(q)'
<1>1. ASSUME NEW l \in Nat, NEW i \in Offsets,
             Slice(l, i) \in (threads \cup requests) \ {c}
      PROVE  IsRest(l, i)'
  <2>1. IsRest(l, i)
    BY <1>1 DEF ChannelInv, CarrierInv
  <2>2. ToSet(Slice(l, i)) = {q \in Batch(l) : q > Start(l) + i}
    BY SliceIsSeq
  <2>3. \A q \in S : q \notin ToSet(Slice(l, i))
    BY <1>1, CarriersAreDisjoint
  <2>4. \A q \in Batch(l) : Open(q)' <=> Open(q)
    BY <2>1, <2>2, <2>3 DEF IsRest
  <2> QED
    BY <2>1, <2>4 DEF IsRest, Complete, Batch
<1>2. ASSUME NEW q \in ToSet(g_packetBuffer) PROVE Open(q)'
  <2>1. PICK k \in Nat, j \in Offsets : IsRest(k, j) /\ ToSet(c) = {p \in Batch(k) : Open(p)}
    BY CarrierIsRest
  <2>2. q \notin S
    BY <1>2, <2>1, BufferIsLast DEF IsRest
  <2>3. Open(q)
    BY <1>2 DEF ChannelInv, BufferInv, ToSet
  <2> QED
    BY <2>2, <2>3
<1> QED
  BY <1>1, <1>2

LEMMA SendKeepsInv ==
    ASSUME ChannelInv, NEW payload \in threads, send_ac_batch(payload)
    PROVE  ChannelInv'
<1>1. /\ threads' = threads \ {payload}
      /\ UNCHANGED <<produced, g_packetBuffer, log, running>>
  BY DEF send_ac_batch
<1>2. PICK k \in Nat : payload = Slice(k, 0) /\ ToSet(payload) = {q \in Batch(k) : Open(q)}
  BY CarrierIsRest
<1>3. 0 \in Offsets
  BY SizeAssumption DEF Offsets
<1>4. CASE requests' = requests \cup {payload} /\ UNCHANGED lost
  <2>1. \A q : Open(q)' <=> Open(q)
    BY <1>1, <1>4 DEF Open, Got
  <2>2. PacketInv' /\ BufferInv'
    BY <1>1, <1>4, <2>1 DEF ChannelInv, PacketInv, BufferInv
  <2>3. \A l \in Nat, i \in Offsets : IsRest(l, i) => IsRest(l, i)'
    BY <1>1, <2>1 DEF IsRest, Complete, Batch
  <2>4. CarrierInv'
    BY <1>1, <1>2, <1>3, <1>4, <2>3 DEF ChannelInv, CarrierInv, Slice
  <2> QED
    BY <2>2, <2>4 DEF ChannelInv
<1>5. CASE Loses("lost", ToSet(payload)) /\ UNCHANGED requests
  <2>1. \A q : Open(q)' <=> Open(q) /\ q \notin ToSet(payload)
    BY <1>1, <1>5 DEF Open, Got, Loses
  <2>2. PacketInv'
    BY <1>1, <1>2, <1>5 DEF ChannelInv, PacketInv, Loses, Open
  <2>3. \A q \in ToSet(g_packetBuffer) : Open(q)'
    BY <1>1, <2>1, OthersStay
  <2>4. BufferInv'
    BY <1>1, <2>3 DEF ChannelInv, BufferInv, ToSet
  <2>5. threads' \cup requests' = (threads \cup requests) \ {payload}
    BY <1>1, <1>5 DEF ChannelInv, CarrierInv
  <2>6. \A l \in Nat, i \in Offsets : Slice(l, i) \in threads' \cup requests' => IsRest(l, i)'
    BY <1>1, <2>1, <2>5, OthersStay
  <2>7. CarrierInv'
    BY <1>1, <1>5, <2>6 DEF ChannelInv, CarrierInv, Slice
  <2> QED
    BY <2>2, <2>4, <2>7 DEF ChannelInv
<1> QED
  BY <1>4, <1>5 DEF send_ac_batch

\* The packets of a request that are not appended any more are lost.
LEMMA AbortKeepsInv ==
    ASSUME ChannelInv, NEW request \in requests, Abort(request)
    PROVE  ChannelInv'
<1>1. /\ requests' = requests \ {request} /\ lost' = lost \cup ToSet(request)
      /\ UNCHANGED <<produced, g_packetBuffer, threads, log, running>>
  BY DEF Abort, Loses
<1>2. ToSet(request) \subseteq 1..produced
  BY CarrierIsRest DEF Open
<1>3. \A q : Open(q)' <=> Open(q) /\ q \notin ToSet(request)
  BY <1>1 DEF Open, Got
<1>4. PacketInv'
  BY <1>1, <1>2 DEF ChannelInv, PacketInv
<1>5. \A q \in ToSet(g_packetBuffer) : Open(q)'
  BY <1>1, <1>3, OthersStay
<1>6. BufferInv'
  BY <1>1, <1>5 DEF ChannelInv, BufferInv, ToSet
<1>7. threads' \cup requests' = (threads \cup requests) \ {request}
  BY <1>1 DEF ChannelInv, CarrierInv
<1>8. \A l \in Nat, i \in Offsets : Slice(l, i) \in threads' \cup requests' => IsRest(l, i)'
  BY <1>1, <1>3, <1>7, OthersStay
<1>9. CarrierInv'
  BY <1>1, <1>8 DEF ChannelInv, CarrierInv, Slice
<1> QED
  BY <1>4, <1>6, <1>9 DEF ChannelInv

LEMMA AppendKeepsInv ==
    ASSUME ChannelInv, NEW request \in requests, AppendRow(request)
    PROVE  ChannelInv'
<1> DEFINE h == Head(request)
<1>1. PICK k \in Nat, j \in Offsets :
          /\ request = Slice(k, j) /\ IsRest(k, j)
          /\ ToSet(request) = {q \in Batch(k) : Open(q)}
  BY CarrierIsRest
<1>2. /\ Slice(k, j) \in Seq(Nat) /\ Len(Slice(k, j)) = BatchSize - j
      /\ h = Start(k) + j + 1
  BY <1>1, SliceIsSeq
<1>3. /\ Start(k) \in Nat /\ BatchSize \in Nat \ {0} /\ j \in Nat /\ j < BatchSize
  BY StartIsNat, SizeAssumption DEF Offsets
<1>4. h \in Batch(k) /\ Open(h) /\ h \in Nat /\ h <= produced
  BY <1>1, <1>2, <1>3 DEF IsRest, Batch, Open
<1>5. UNCHANGED <<produced, g_packetBuffer, threads, running>>
  BY DEF AppendRow
<1>6. /\ \A q : Open(q)' <=> Open(q) /\ q \notin {h}
      /\ PacketInv'
  <2>1. CASE log' = Append(log, h) /\ UNCHANGED lost
    <3>1. log \in Seq(Nat) /\ log' \in Seq(Nat) /\ Len(log') = Len(log) + 1
      BY <1>4, <2>1 DEF ChannelInv, PacketInv
    <3>2. \A i \in DOMAIN log' : log'[i] = IF i <= Len(log) THEN log[i] ELSE h
      BY <1>4, <2>1, <3>1
    <3>3. \A q : Got(q)' <=> Got(q) \/ q = h
      <4>1. ASSUME NEW q, Got(q) PROVE Got(q)'
        BY <3>1, <3>2, <4>1 DEF Got
      <4>2. Got(h)'
        BY <3>1, <3>2 DEF Got
      <4>3. ASSUME NEW q, Got(q)', q # h PROVE Got(q)
        BY <3>1, <3>2, <4>3 DEF Got
      <4> QED
        BY <4>1, <4>2, <4>3
    <3>4. PacketInv'
      BY <1>4, <1>5, <2>1, <3>1, <3>2 DEF ChannelInv, PacketInv
    <3> QED
      BY <1>5, <2>1, <3>3, <3>4 DEF Open
  <2>2. CASE lost' = lost \cup {h} /\ UNCHANGED log
    BY <1>4, <1>5, <2>2 DEF Open, Got, ChannelInv, PacketInv
  <2> QED
    BY <2>1, <2>2 DEF AppendRow, Loses
<1>7. {h} \subseteq ToSet(request)
  BY <1>1, <1>4
<1>8. \A q \in ToSet(g_packetBuffer) : Open(q)'
  BY <1>5, <1>6, <1>7, OthersStay
<1>9. BufferInv'
  BY <1>5, <1>8 DEF ChannelInv, BufferInv, ToSet
<1>10. \A l \in Nat, i \in Offsets :
          Slice(l, i) \in (threads \cup requests) \ {request} => IsRest(l, i)'
  BY <1>5, <1>6, <1>7, OthersStay
<1>11. CASE j + 1 = BatchSize
  <2>1. requests' = requests \ {request}
    BY <1>1, <1>2, <1>3, <1>11 DEF AppendRow, Rest
  <2> QED
    BY <1>5, <1>6, <1>9, <1>10, <2>1 DEF ChannelInv, CarrierInv, Slice
<1>12. CASE j + 1 < BatchSize
  <2>1. j + 1 \in Offsets /\ Tail(request) = Slice(k, j + 1)
    BY <1>1, <1>3, <1>12, SliceTail DEF Offsets
  <2>2. requests' = (requests \ {request}) \cup {Slice(k, j + 1)}
    <3>1. Len(request) > 1
      BY <1>1, <1>2, <1>3, <1>12
    <3> QED
      BY <2>1, <3>1 DEF AppendRow, Rest
  <2>3. IsRest(k, j + 1)'
    BY <1>1, <1>2, <1>3, <1>5, <1>6 DEF IsRest, Complete, Batch
  <2>4. Slice(k, j + 1) \notin threads
    BY <1>1, <1>3, <2>1, RestIsOne DEF ChannelInv, CarrierInv
  <2>5. \A l \in Nat, i \in Offsets : Slice(l, i) \in threads' \cup requests' => IsRest(l, i)'
    BY <1>5, <1>10, <2>1, <2>2, <2>3, SliceIsOne DEF ChannelInv, CarrierInv
  <2>6. CarrierInv'
    BY <1>5, <2>1, <2>2, <2>4, <2>5 DEF ChannelInv, CarrierInv, Slice
  <2> QED
    BY <1>6, <1>9, <2>6 DEF ChannelInv
<1> QED
  BY <1>3, <1>11, <1>12

LEMMA ExitKeepsInv == ChannelInv /\ Exit => ChannelInv'
<1> SUFFICES ASSUME ChannelInv, Exit PROVE ChannelInv'
  OBVIOUS
<1> DEFINE S == ToSet(g_packetBuffer) \cup UNION {ToSet(t) : t \in threads}
<1>1. /\ running' = FALSE /\ g_packetBuffer' = <<>> /\ threads' = {}
      /\ lost' = lost \cup S /\ UNCHANGED <<produced, requests, log>>
  BY DEF Exit, Loses
<1>2. \A q : Open(q)' <=> Open(q) /\ q \notin S
  BY <1>1 DEF Open, Got
<1>3. PacketInv'
  <2>1. ToSet(g_packetBuffer) \subseteq 1..produced
    BY DEF ChannelInv, BufferInv, ToSet, Open
  <2>2. \A t \in threads : ToSet(t) \subseteq 1..produced
    BY CarrierIsRest DEF Open
  <2> QED
    BY <1>1, <2>1, <2>2 DEF ChannelInv, PacketInv
<1>4. BufferInv'
  BY <1>1, SizeAssumption DEF BufferInv
<1>5. ASSUME NEW l \in Nat, NEW i \in Offsets, Slice(l, i) \in requests
      PROVE  IsRest(l, i)'
  <2>1. IsRest(l, i)
    BY <1>5 DEF ChannelInv, CarrierInv
  <2>2. ToSet(Slice(l, i)) = {q \in Batch(l) : q > Start(l) + i}
    BY SliceIsSeq
  <2>3. ASSUME NEW q \in Batch(l), Open(q) PROVE Open(q)'
    <3>1. q \in ToSet(Slice(l, i))
      BY <2>1, <2>2, <2>3 DEF IsRest
    <3>2. q \notin ToSet(g_packetBuffer)
      BY <2>1, BufferIsLast DEF IsRest
    <3>3. \A t \in threads : q \notin ToSet(t)
      BY <1>5, <3>1, CarriersAreDisjoint DEF ChannelInv, CarrierInv
    <3> QED
      BY <1>2, <2>3, <3>2, <3>3
  <2> QED
    BY <1>1, <1>2, <2>1, <2>3 DEF IsRest, Complete, Batch
<1>6. CarrierInv'
  BY <1>1, <1>5 DEF ChannelInv, CarrierInv, Slice
<1> QED
  BY <1>3, <1>4, <1>6 DEF ChannelInv

\* A new packet: where the buffer begins, and what the other packets do.
LEMMA PacketIsLast ==
    ASSUME ChannelInv, determine_ban_createmove,
           NEW buffer, buffer = Append(g_packetBuffer, produced + 1)
    PROVE  \E k \in Nat :
              /\ Start(k) \in Nat /\ k <= produced /\ ~Complete(k)
              /\ produced = Start(k) + Len(g_packetBuffer)
              /\ buffer \in Seq(Nat) /\ Len(buffer) = Len(g_packetBuffer) + 1
              /\ \A i \in 1..Len(buffer) : buffer[i] = Start(k) + i
              /\ \A i \in 1..Len(g_packetBuffer) : Open(buffer[i])
<1>1. /\ running /\ produced \in Nat /\ BatchSize \in Nat
      /\ g_packetBuffer \in Seq(Nat) /\ Len(g_packetBuffer) < BatchSize
  BY SizeAssumption DEF determine_ban_createmove, ChannelInv, PacketInv, BufferInv
<1>2. PICK k \in Nat :
          /\ produced = Start(k) + Len(g_packetBuffer)
          /\ \A i \in 1..Len(g_packetBuffer) : g_packetBuffer[i] = Start(k) + i
  BY <1>1 DEF ChannelInv, BufferInv
<1>3. Start(k) \in Nat /\ k <= Start(k) /\ Len(g_packetBuffer) \in Nat
  <2>1. Len(g_packetBuffer) \in Nat
    BY <1>1
  <2> QED
    BY <2>1, StartIsNat
<1>4. k <= produced /\ ~Complete(k)
  BY <1>1, <1>2, <1>3 DEF Complete
<1>5. /\ buffer \in Seq(Nat) /\ Len(buffer) = Len(g_packetBuffer) + 1
      /\ \A i \in 1..Len(g_packetBuffer) : buffer[i] = g_packetBuffer[i]
      /\ buffer[Len(g_packetBuffer) + 1] = produced + 1
  BY <1>1
<1>6. ASSUME NEW i \in 1..Len(buffer) PROVE buffer[i] = Start(k) + i
  <2>1. CASE i \in 1..Len(g_packetBuffer)
    BY <1>2, <1>5, <2>1
  <2>2. CASE i = Len(g_packetBuffer) + 1
    BY <1>2, <1>3, <1>5, <2>2
  <2> QED
    BY <1>3, <1>5, <2>1, <2>2
<1>7. \A i \in 1..Len(g_packetBuffer) : Open(buffer[i])
  BY <1>5 DEF ChannelInv, BufferInv
<1> QED
  BY <1>2, <1>3, <1>4, <1>5, <1>6, <1>7

LEMMA PacketKeepsInv == ChannelInv /\ determine_ban_createmove => ChannelInv'
<1> SUFFICES ASSUME ChannelInv, determine_ban_createmove PROVE ChannelInv'
  OBVIOUS
<1> PICK buffer : buffer = Append(g_packetBuffer, produced + 1)
  OBVIOUS
<1>1. PICK k \in Nat :
          /\ Start(k) \in Nat /\ k <= produced /\ ~Complete(k)
          /\ produced = Start(k) + Len(g_packetBuffer)
          /\ buffer \in Seq(Nat) /\ Len(buffer) = Len(g_packetBuffer) + 1
          /\ \A i \in 1..Len(buffer) : buffer[i] = Start(k) + i
          /\ \A i \in 1..Len(g_packetBuffer) : Open(buffer[i])
  BY PacketIsLast
<1>2. /\ running = TRUE /\ running' = TRUE /\ produced < MaxPackets
      /\ produced \in Nat /\ produced' = produced + 1
      /\ UNCHANGED <<requests, log>>
      /\ IF Len(buffer) >= BatchSize
         THEN ac_async(buffer)
         ELSE g_packetBuffer' = buffer /\ UNCHANGED <<threads, lost>>
  BY DEF determine_ban_createmove, ChannelInv, PacketInv
<1>3. BatchSize \in Nat \ {0} /\ Len(g_packetBuffer) \in Nat /\ Len(g_packetBuffer) < BatchSize
  BY SizeAssumption DEF ChannelInv, BufferInv
<1>4. \A q : Got(q)' <=> Got(q)
  BY <1>2 DEF Got
<1>5. produced' \notin lost /\ ~Got(produced')
  BY <1>2 DEF ChannelInv, PacketInv, Got
\* The other carriers do not see the packet.
<1>6. ASSUME lost \subseteq lost', lost' \subseteq lost \cup Batch(k),
             NEW l \in Nat, NEW i \in Offsets, IsRest(l, i)
      PROVE  IsRest(l, i)'
  <2>1. l # k
    BY <1>1, <1>6 DEF IsRest
  <2>2. \A q \in Batch(l) : q \notin Batch(k) /\ q \in 1..produced
    BY <1>6, <2>1, BatchIsOne, BufferIsLast DEF IsRest
  <2>3. \A q \in Batch(l) : Open(q)' <=> Open(q)
    BY <1>2, <1>4, <1>6, <2>2 DEF Open
  <2>4. Complete(l)'
    <3>1. Start(l) \in Nat /\ Start(l) + BatchSize <= produced
      BY <1>6, StartIsNat DEF IsRest, Complete
    <3> QED
      BY <1>2, <1>3, <3>1 DEF Complete, Start
  <2> QED
    BY <1>6, <2>3, <2>4 DEF IsRest, Batch
<1>7. CASE Len(buffer) < BatchSize
  <2>1. g_packetBuffer' = buffer /\ UNCHANGED <<threads, lost>>
    BY <1>1, <1>2, <1>3, <1>7
  <2>2. PacketInv'
    BY <1>2, <2>1, SizeAssumption DEF ChannelInv, PacketInv
  <2>3. ASSUME NEW i \in 1..Len(buffer) PROVE Open(buffer[i])'
    <3>1. CASE i <= Len(g_packetBuffer)
      BY <1>1, <1>2, <1>4, <2>1, <3>1 DEF Open
    <3>2. CASE i = Len(g_packetBuffer) + 1
      <4>1. buffer[i] = produced'
        BY <1>1, <1>2, <3>2
      <4> QED
        BY <1>2, <1>4, <2>1, <4>1 DEF Open, Got, ChannelInv, PacketInv
    <3> QED
      BY <1>1, <1>3, <3>1, <3>2
  <2>4. BufferInv'
    BY <1>1, <1>2, <1>7, <2>1, <2>3 DEF BufferInv
  <2>5. \A l \in Nat, i \in Offsets : IsRest(l, i) => IsRest(l, i)'
    BY <1>6, <2>1
  <2>6. CarrierInv'
    BY <1>2, <2>1, <2>5 DEF ChannelInv, CarrierInv, Slice
  <2> QED
    BY <2>2, <2>4, <2>6 DEF ChannelInv
<1>8. CASE Len(buffer) >= BatchSize
  <2>1. Len(buffer) = BatchSize /\ produced' = Start(k) + BatchSize
    BY <1>1, <1>2, <1>3, <1>8
  <2>2. 0 \in Offsets
    BY <1>3 DEF Offsets
  <2>3. buffer = Slice(k, 0)
    <3>1. /\ Slice(k, 0) \in Seq(Nat) /\ Len(Slice(k, 0)) = BatchSize
      BY <1>3, <2>2, SliceIsSeq
    <3>2. \A i \in 1..BatchSize : Slice(k, 0)[i] = Start(k) + i
      BY <1>1, <1>3 DEF Slice
    <3>3. Len(buffer) = Len(Slice(k, 0)) /\ \A i \in 1..Len(buffer) : buffer[i] = Slice(k, 0)[i]
      BY <1>1, <2>1, <3>1, <3>2
    <3> QED
      BY <1>1, <3>1, <3>3, SeqEqual
  <2>4. ToSet(buffer) = Batch(k)
    <3>1. ToSet(Slice(k, 0)) = {q \in Batch(k) : q > Start(k) + 0}
      BY <2>2, SliceIsSeq
    <3>2. \A q \in Batch(k) : q > Start(k) + 0
      BY <1>1, <1>3 DEF Batch
    <3> QED
      BY <2>3, <3>1, <3>2
  <2>5. Batch(k) \subseteq 1..produced'
    BY <1>1, <1>3, <2>1 DEF Batch
  <2>6. g_packetBuffer' = <<>>
    BY <1>2, <1>8 DEF ac_async
  <2>7. BufferInv'
    <3>1. Start(k + 1) = Start(k) + BatchSize /\ k + 1 \in Nat
      BY StartIsNat
    <3> QED
      BY <1>2, <1>3, <2>1, <2>6, <3>1 DEF BufferInv
  <2>8. PacketInv'
    <3>1. lost' \subseteq lost \cup Batch(k)
      BY <1>2, <1>8, <2>4 DEF ac_async, Loses
    <3>2. produced' \in Nat /\ produced' <= MaxPackets
      BY <1>2, SizeAssumption
    <3>3. lost' \subseteq 1..produced'
      BY <1>2, <2>5, <3>1 DEF ChannelInv, PacketInv
    <3> QED
      BY <1>2, <3>2, <3>3 DEF ChannelInv, PacketInv
  <2>9. CASE threads' = threads \cup {buffer} /\ UNCHANGED lost
    <3>1. \A l \in Nat, i \in Offsets : IsRest(l, i) => IsRest(l, i)'
      BY <1>6, <2>9
    <3>2. ASSUME NEW q \in Batch(k) PROVE Open(q)'
      <4>1. PICK i \in 1..BatchSize : q = buffer[i]
        <5>1. DOMAIN buffer = 1..BatchSize
          BY <1>1, <2>1
        <5> QED
          BY <2>4, <5>1 DEF ToSet
      <4>2. CASE i <= Len(g_packetBuffer)
        BY <1>1, <1>2, <1>4, <2>9, <4>1, <4>2 DEF Open
      <4>3. CASE i = Len(g_packetBuffer) + 1
        <5>1. q = produced'
          BY <1>1, <1>2, <4>1, <4>3
        <5> QED
          BY <1>2, <1>4, <2>9, <5>1 DEF Open, Got, ChannelInv, PacketInv
      <4> QED
        BY <1>1, <1>3, <2>1, <4>2, <4>3
    <3>3. IsRest(k, 0)'
      BY <1>1, <1>3, <2>1, <3>2 DEF IsRest, Complete, Batch
    <3>4. Slice(k, 0) \notin requests
      BY <1>1, <2>2 DEF ChannelInv, CarrierInv, IsRest
    <3>5. \A l \in Nat, i \in Offsets : Slice(l, i) \in threads' \cup requests' => IsRest(l, i)'
      BY <1>2, <2>2, <2>3, <2>9, <3>1, <3>3, SliceIsOne DEF ChannelInv, CarrierInv
    <3>6. \A t \in threads' : \E l \in Nat : t = Slice(l, 0)
      BY <2>3, <2>9 DEF ChannelInv, CarrierInv
    <3>7. threads' \cap requests' = {}
      BY <1>2, <2>3, <2>9, <3>4 DEF ChannelInv, CarrierInv
    <3>8. \A t \in requests' : \E l \in Nat, i \in Offsets : t = Slice(l, i)
      BY <1>2 DEF ChannelInv, CarrierInv
    <3>9. CarrierInv'
      BY <3>5, <3>6, <3>7, <3>8 DEF CarrierInv, Slice, Start, Offsets
    <3> QED
      BY <2>7, <2>8, <3>9 DEF ChannelInv
  <2>10. CASE Loses("thread", ToSet(buffer)) /\ UNCHANGED threads
    <3>1. \A l \in Nat, i \in Offsets : IsRest(l, i) => IsRest(l, i)'
      BY <1>6, <2>4, <2>10 DEF Loses
    <3>2. CarrierInv'
      BY <1>2, <2>10, <3>1 DEF ChannelInv, CarrierInv, Slice
    <3> QED
      BY <2>7, <2>8, <3>2 DEF ChannelInv
  <2> QED
    BY <1>2, <1>8, <2>9, <2>10 DEF ac_async
<1> QED
  BY <1>1, <1>3, <1>7, <1>8

LEMMA NextChannelInv == ChannelInv /\ [Next]_vars => ChannelInv'
<1> SUFFICES ASSUME ChannelInv, [Next]_vars PROVE ChannelInv'
  OBVIOUS
<1>1. CASE UNCHANGED vars
  BY <1>1 DEF vars, ChannelInv, PacketInv, BufferInv, CarrierInv, IsRest, Open, Got, Complete,
              Batch, Slice, Offsets
<1> QED
  BY <1>1, PacketKeepsInv, SendKeepsInv, AppendKeepsInv, AbortKeepsInv, ExitKeepsInv DEF Next

\* What threads and requests carry is always the rest of a batch, of different
\* batches, and just what has neither arrived nor been lost
\* (ACFunctions.cpp:297-323, ac_batch.php:58-100).
THEOREM SpecChannelInv == Spec => []ChannelInv
BY InitChannelInv, NextChannelInv, PTL DEF Spec

-----------------------------------------------------------------------------
(* Every step is one of the channel, or none *)

LEMMA SameBatches ==
    /\ \A k : Channel!Batch(k) = Batch(k) /\ (Channel!Complete(k) <=> Complete(k))
    /\ \A p : Channel!Open(p) <=> Open(p)
BY DEF Channel!Batch, Batch, Channel!Complete, Complete, Start, Channel!Open, Open,
       Channel!Got, Got

\* Open packets are given up.
LEMMA GivingUpDrops ==
    ASSUME NEW S, \A p \in S : Open(p), lost' = lost \cup S, UNCHANGED <<produced, log>>
    PROVE  Channel!Drop
BY SameBatches DEF Channel!Drop

LEMMA PacketIsSent == ChannelInv /\ determine_ban_createmove => Channel!Send
<1> SUFFICES ASSUME ChannelInv, determine_ban_createmove PROVE Channel!Send
  OBVIOUS
<1> PICK buffer : buffer = Append(g_packetBuffer, produced + 1)
  OBVIOUS
<1>1. PICK k \in Nat :
          /\ Start(k) \in Nat /\ k <= produced
          /\ produced = Start(k) + Len(g_packetBuffer)
          /\ buffer \in Seq(Nat) /\ Len(buffer) = Len(g_packetBuffer) + 1
          /\ \A i \in 1..Len(buffer) : buffer[i] = Start(k) + i
  BY PacketIsLast
<1>2. /\ produced < MaxPackets /\ produced' = produced + 1 /\ produced \in Nat
      /\ UNCHANGED log
      /\ IF Len(buffer) >= BatchSize
         THEN ac_async(buffer)
         ELSE g_packetBuffer' = buffer /\ UNCHANGED <<threads, lost>>
  BY DEF determine_ban_createmove, ChannelInv, PacketInv
<1>3. CASE UNCHANGED lost
  BY <1>2, <1>3 DEF Channel!Send
<1>4. CASE Len(buffer) >= BatchSize /\ lost' = lost \cup ToSet(buffer)
  <2>1. BatchSize \in Nat /\ Len(buffer) = BatchSize /\ produced' = Start(k) + BatchSize
    BY <1>1, <1>2, <1>4, SizeAssumption DEF ChannelInv, BufferInv
  <2>2. ToSet(buffer) = Batch(k)
    <3>1. DOMAIN buffer = 1..BatchSize
      BY <1>1, <2>1
    <3>2. ASSUME NEW q \in Batch(k) PROVE q \in ToSet(buffer)
      <4>1. q - Start(k) \in 1..BatchSize /\ Start(k) + (q - Start(k)) = q
        BY <1>1, <2>1 DEF Batch
      <4> QED
        BY <1>1, <2>1, <3>1, <4>1 DEF ToSet
    <3>3. ASSUME NEW i \in 1..BatchSize PROVE buffer[i] \in Batch(k)
      <4>1. buffer[i] = Start(k) + i
        BY <1>1, <2>1
      <4> QED
        BY <1>1, <2>1, <4>1 DEF Batch
    <3> QED
      BY <3>1, <3>2, <3>3 DEF ToSet
  <2> QED
    <3>1. k \in 0..produced /\ produced' = k * BatchSize + BatchSize
      BY <1>1, <1>2, <2>1 DEF Start
    <3>2. lost' = lost \cup Channel!Batch(k)
      BY <1>4, <2>2, SameBatches
    <3> QED
      BY <1>2, <3>1, <3>2 DEF Channel!Send
<1> QED
  BY <1>2, <1>3, <1>4 DEF ac_async, Loses

LEMMA RowArrives ==
    ASSUME ChannelInv, NEW request \in requests, AppendRow(request)
    PROVE  Channel!ChannelNext
<1>1. PICK k \in Nat, j \in Offsets :
          /\ request = Slice(k, j) /\ IsRest(k, j)
          /\ ToSet(request) = {q \in Batch(k) : Open(q)}
  BY CarrierIsRest
<1>2. Head(request) = Start(k) + j + 1
  BY <1>1, SliceIsSeq
<1>3. /\ Start(k) \in Nat /\ k <= Start(k) /\ BatchSize \in Nat \ {0}
      /\ j \in Nat /\ j < BatchSize /\ produced \in Nat
  <2>1. BatchSize \in Nat \ {0} /\ produced \in Nat
    BY SizeAssumption DEF ChannelInv, PacketInv
  <2>2. j \in Nat /\ j < BatchSize
    BY <2>1 DEF Offsets
  <2> QED
    BY <2>1, <2>2, StartIsNat
<1>4. /\ Head(request) \in Batch(k) /\ Open(Head(request))
      /\ \A q \in Batch(k) : q < Head(request) => ~Open(q)
      /\ Complete(k) /\ k \in 0..produced
  BY <1>1, <1>2, <1>3 DEF IsRest, Batch, Complete
<1>5. UNCHANGED produced
  BY DEF AppendRow
<1>6. CASE log' = Append(log, Head(request)) /\ UNCHANGED lost
  BY <1>4, <1>5, <1>6, SameBatches DEF Channel!ChannelNext, Channel!Deliver
<1>7. CASE Loses("append", {Head(request)}) /\ UNCHANGED log
  <2> PICK S : S = {Head(request)}
    OBVIOUS
  <2>1. \A q \in S : Open(q)
    BY <1>4
  <2>2. lost' = lost \cup S /\ UNCHANGED <<produced, log>>
    BY <1>5, <1>7 DEF Loses
  <2> QED
    BY <2>1, <2>2, GivingUpDrops DEF Channel!ChannelNext
<1> QED
  BY <1>6, <1>7 DEF AppendRow

LEMMA StepIsChannelStep ==
    ChannelInv /\ [Next]_vars => [Channel!ChannelNext]_Channel!channel_vars
<1> SUFFICES ASSUME ChannelInv, [Next]_vars
             PROVE  Channel!ChannelNext \/ UNCHANGED <<produced, log, lost>>
  BY DEF Channel!channel_vars
<1>1. ASSUME NEW payload \in threads, send_ac_batch(payload)
      PROVE  Channel!ChannelNext \/ UNCHANGED <<produced, log, lost>>
  <2>1. \A q \in ToSet(payload) : Open(q)
    BY CarrierIsRest
  <2> QED
    BY <1>1, <2>1, GivingUpDrops DEF send_ac_batch, Loses, Channel!ChannelNext
<1>2. ASSUME NEW request \in requests, Abort(request) PROVE Channel!ChannelNext
  <2>1. \A q \in ToSet(request) : Open(q)
    BY CarrierIsRest
  <2> QED
    BY <1>2, <2>1, GivingUpDrops DEF Abort, Loses, Channel!ChannelNext
<1>3. CASE Exit
  <2>1. \A q \in ToSet(g_packetBuffer) : Open(q)
    BY DEF ChannelInv, BufferInv, ToSet
  <2>2. \A t \in threads : \A q \in ToSet(t) : Open(q)
    BY CarrierIsRest
  <2>3. \A q \in ToSet(g_packetBuffer) \cup UNION {ToSet(t) : t \in threads} : Open(q)
    BY <2>1, <2>2
  <2> QED
    BY <1>3, <2>3, GivingUpDrops DEF Exit, Loses, Channel!ChannelNext
<1>4. CASE UNCHANGED vars
  BY <1>4 DEF vars
<1> QED
  BY <1>1, <1>2, <1>3, <1>4, PacketIsSent, RowArrives DEF Next, Channel!ChannelNext

\* The telemetry path implements the lossy channel: only full batches arrive,
\* in order, once, whatever overlaps or fails.
THEOREM SpecIsLossyChannel == Spec => IsLossyChannel
<1>1. Init => Channel!ChannelInit
  BY DEF Init, Channel!ChannelInit
<1> QED
  BY <1>1, InitChannelInv, NextChannelInv, StepIsChannelStep, PTL
     DEF Spec, IsLossyChannel, Channel!ChannelSpec
-----------------------------------------------------------------------------
(* A lossy channel keeps the order within a batch *)

\* Nothing in front of a packet that has arrived, in its batch, is still open.
ArrivedInv ==
    /\ produced \in Nat /\ log \in Seq(Nat)
    /\ \A i \in DOMAIN log : \A k \in Nat : log[i] \in Batch(k) =>
          \A q \in Batch(k) : q <= log[i] => q \in 1..produced /\ ~Open(q)

RowsFollow ==
    \A i, j \in DOMAIN log : \A k \in Nat :
        i < j /\ log[i] \in Batch(k) /\ log[j] \in Batch(k) => log[i] < log[j]

\* A packet that has been offered and is not open stays so.
LEMMA ClosedStays ==
    ASSUME produced' \in Nat, produced \in Nat, produced <= produced',
           lost \subseteq lost', \A p : Got(p) => Got(p)',
           NEW q \in 1..produced, ~Open(q)
    PROVE  q \in 1..produced' /\ ~Open(q)'
BY DEF Open

\* The next packet of a batch is behind all that have arrived.
LEMMA ArrivalKeepsOrder ==
    ASSUME ArrivedInv, RowsFollow, NEW k \in Nat, NEW p \in Batch(k), Complete(k),
           Open(p), \A q \in Batch(k) : q < p => ~Open(q),
           log' = Append(log, p), UNCHANGED <<produced, lost>>
    PROVE  ArrivedInv' /\ RowsFollow'
<1>1. Start(k) \in Nat /\ BatchSize \in Nat /\ p \in Nat /\ produced \in Nat
  <2>1. Start(k) \in Nat /\ BatchSize \in Nat
    BY StartIsNat, SizeAssumption
  <2> QED
    BY <2>1 DEF Batch, ArrivedInv
<1>2. /\ log' \in Seq(Nat) /\ DOMAIN log' = DOMAIN log \cup {Len(log) + 1}
      /\ Len(log) \in Nat /\ DOMAIN log = 1..Len(log)
      /\ \A i \in DOMAIN log : log'[i] = log[i] /\ log[i] \in Nat
      /\ log'[Len(log) + 1] = p
  BY <1>1 DEF ArrivedInv
<1>3. \A q : (Got(q)' <=> Got(q) \/ q = p) /\ (Open(q)' <=> Open(q) /\ q # p)
  BY <1>2 DEF Got, Open
<1>4. ASSUME NEW l \in Nat, p \in Batch(l) PROVE l = k
  BY <1>4, BatchIsOne
<1>5. ASSUME NEW i \in DOMAIN log', NEW l \in Nat, log'[i] \in Batch(l),
             NEW q \in Batch(l), q <= log'[i]
      PROVE  q \in 1..produced' /\ ~Open(q)'
  <2>1. CASE i \in DOMAIN log
    BY <1>2, <1>3, <1>5, <2>1 DEF ArrivedInv
  <2>2. CASE i = Len(log) + 1
    <3>1. q \in Batch(k) /\ q <= p /\ q \in Nat
      BY <1>1, <1>2, <1>4, <1>5, <2>2 DEF Batch
    <3>2. q \in 1..produced'
      BY <1>1, <3>1 DEF Batch, Complete
    <3>3. q = p \/ ~Open(q)
      BY <1>1, <3>1
    <3> QED
      BY <1>3, <3>2, <3>3
  <2> QED
    BY <1>2, <2>1, <2>2
<1>6. ASSUME NEW i \in DOMAIN log', NEW j \in DOMAIN log', NEW l \in Nat,
             i < j, log'[i] \in Batch(l), log'[j] \in Batch(l)
      PROVE  log'[i] < log'[j]
  <2>1. i \in DOMAIN log
    BY <1>2, <1>6
  <2>2. CASE j \in DOMAIN log
    BY <1>2, <1>6, <2>1, <2>2 DEF RowsFollow
  <2>3. CASE j = Len(log) + 1
    <3>1. l = k /\ log[i] \in Batch(k) /\ log[i] \in Nat
      BY <1>2, <1>4, <1>6, <2>1, <2>3
    <3>2. ~(p <= log[i])
      BY <2>1, <3>1 DEF ArrivedInv
    <3> QED
      BY <1>1, <1>2, <2>1, <2>3, <3>1, <3>2
  <2> QED
    BY <1>2, <2>2, <2>3
<1> QED
  BY <1>1, <1>2, <1>5, <1>6 DEF ArrivedInv, RowsFollow

LEMMA ChannelKeepsOrder ==
    ArrivedInv /\ RowsFollow /\ [Channel!ChannelNext]_Channel!channel_vars
      => ArrivedInv' /\ RowsFollow'
<1> SUFFICES ASSUME ArrivedInv, RowsFollow, [Channel!ChannelNext]_Channel!channel_vars
             PROVE  ArrivedInv' /\ RowsFollow'
  OBVIOUS
<1>1. ASSUME NEW k \in 0..produced, NEW p \in Channel!Batch(k), Channel!Deliver(k, p)
      PROVE  ArrivedInv' /\ RowsFollow'
  <2>1. /\ k \in Nat /\ p \in Batch(k) /\ Complete(k) /\ Open(p)
        /\ \A q \in Batch(k) : q < p => ~Open(q)
        /\ log' = Append(log, p) /\ UNCHANGED <<produced, lost>>
    BY <1>1, SameBatches DEF Channel!Deliver, ArrivedInv
  <2> QED
    BY <2>1, ArrivalKeepsOrder
<1>2. ASSUME UNCHANGED log, produced' \in Nat, produced <= produced', lost \subseteq lost'
      PROVE  ArrivedInv' /\ RowsFollow'
  <2>1. \A p : Got(p) => Got(p)'
    BY <1>2 DEF Got
  <2>2. \A q \in 1..produced : ~Open(q) => q \in 1..produced' /\ ~Open(q)'
    BY <1>2, <2>1, ClosedStays DEF ArrivedInv
  <2>3. \A k : Batch(k)' = Batch(k)
    BY DEF Batch, Start
  <2> QED
    BY <1>2, <2>2, <2>3 DEF ArrivedInv, RowsFollow
<1>3. produced \in Nat
  BY DEF ArrivedInv
<1>4. CASE Channel!Send
  BY <1>2, <1>3, <1>4 DEF Channel!Send
<1>5. CASE Channel!Drop
  BY <1>2, <1>3, <1>5 DEF Channel!Drop
<1>6. CASE UNCHANGED Channel!channel_vars
  BY <1>2, <1>3, <1>6 DEF Channel!channel_vars
<1> QED
  BY <1>1, <1>4, <1>5, <1>6 DEF Channel!ChannelNext

\* Every lossy channel delivers the packets of a batch in their order.
THEOREM ChannelIsInOrder == Channel!ChannelSpec => []Channel!InOrder
<1>1. Channel!ChannelInit => ArrivedInv /\ RowsFollow
  BY DEF Channel!ChannelInit, ArrivedInv, RowsFollow
<1>2. ArrivedInv /\ RowsFollow => Channel!InOrder
  <2> SUFFICES ASSUME ArrivedInv, RowsFollow,
                      NEW k \in 0..produced, NEW i \in DOMAIN log, NEW j \in DOMAIN log,
                      i < j, {log[i], log[j]} \subseteq Channel!Batch(k)
               PROVE  log[i] < log[j]
    BY DEF Channel!InOrder
  <2>1. k \in Nat /\ log[i] \in Batch(k) /\ log[j] \in Batch(k)
    BY SameBatches DEF ArrivedInv
  <2> QED
    BY <2>1 DEF RowsFollow
<1> QED
  BY <1>1, <1>2, ChannelKeepsOrder, PTL DEF Channel!ChannelSpec

\* The rows of an upload are in the log in the order of the ticks, whatever
\* overlaps or fails (ac_batch.php:58-100): the telemetry path is a lossy
\* channel, and those keep the order.
THEOREM SpecRowsInOrder == Spec => []RowsInOrder
<1>1. Channel!InOrder => RowsInOrder
  BY DEF RowsInOrder
<1> QED
  BY <1>1, SpecIsLossyChannel, ChannelIsInOrder, PTL DEF IsLossyChannel
-----------------------------------------------------------------------------
(* The types follow from what the carriers hold *)

LEMMA RestIsPackets ==
    ASSUME ChannelInv, NEW t \in threads \cup requests
    PROVE  t \in Seq(Packets)
<1>1. PICK k \in Nat, j \in Offsets :
          /\ t = Slice(k, j) /\ IsRest(k, j)
          /\ ToSet(t) = {q \in Batch(k) : Open(q)}
  BY CarrierIsRest
<1>2. t \in Seq(Nat) /\ ToSet(t) \subseteq 1..produced
  BY <1>1, SliceIsSeq DEF Open
<1>3. \A i \in 1..Len(t) : t[i] \in Packets
  BY <1>2, SizeAssumption DEF ToSet, Packets, ChannelInv, PacketInv
<1> QED
  BY <1>2, <1>3

LEMMA LogIsPackets ==
    ASSUME ChannelInv, log \in Seq(Packets), [Next]_vars
    PROVE  log' \in Seq(Packets)
<1>1. ASSUME NEW request \in requests, AppendRow(request) PROVE log' \in Seq(Packets)
  <2>1. request \in Seq(Packets) /\ request # <<>>
    <3>1. PICK k \in Nat, j \in Offsets : request = Slice(k, j)
      BY CarrierIsRest
    <3>2. Len(Slice(k, j)) = BatchSize - j
      BY SliceIsSeq
    <3>3. BatchSize - j # 0
      BY SizeAssumption DEF Offsets
    <3>4. request # <<>>
      BY <3>1, <3>2, <3>3
    <3> QED
      BY <3>4, RestIsPackets
  <2>2. Head(request) \in Packets
    BY <2>1
  <2> QED
    BY <1>1, <2>2 DEF AppendRow
<1> QED
  BY <1>1 DEF Next, vars, determine_ban_createmove, send_ac_batch, Abort, Exit

\* The types, for batches of any size and every failure.
THEOREM SpecTypeOK == Spec => []TypeOK
<1>1. Init => log \in Seq(Packets)
  BY DEF Init
<1>2. ChannelInv /\ log \in Seq(Packets) => TypeOK
  <2> SUFFICES ASSUME ChannelInv, log \in Seq(Packets) PROVE TypeOK
    OBVIOUS
  <2>1. \A i \in 1..Len(g_packetBuffer) : g_packetBuffer[i] \in Packets
    BY SizeAssumption DEF ChannelInv, BufferInv, PacketInv, Open, Packets
  <2>2. g_packetBuffer \in Seq(Packets) /\ Len(g_packetBuffer) < BatchSize
    BY <2>1 DEF ChannelInv, BufferInv
  <2>3. threads \subseteq Seq(Packets) /\ requests \subseteq Seq(Packets)
    BY RestIsPackets
  <2>4. lost \subseteq Packets /\ produced \in 0..MaxPackets /\ running \in BOOLEAN
    BY SizeAssumption DEF ChannelInv, PacketInv, Packets
  <2> QED
    BY <2>2, <2>3, <2>4 DEF TypeOK
<1>3. ChannelInv /\ log \in Seq(Packets) /\ [Next]_vars => (log \in Seq(Packets))'
  BY LogIsPackets
<1> QED
  BY <1>1, <1>2, <1>3, SpecChannelInv, PTL DEF Spec
-----------------------------------------------------------------------------
(* Every packet is in one place *)

Held(p) ==
    p \in ToSet(g_packetBuffer) \/ \E c \in threads \cup requests : p \in ToSet(c)

\* What has arrived has arrived once and is not lost; what is neither is held.
PlaceInv ==
    /\ \A i, j \in DOMAIN log : log[i] = log[j] => i = j
    /\ \A p \in lost : ~Got(p)
    /\ \A p : Open(p) => Held(p)

LEMMA AppendedElements ==
    ASSUME NEW S, NEW s \in Seq(S), NEW e
    PROVE  ToSet(Append(s, e)) = ToSet(s) \cup {e}
<1>1. /\ DOMAIN Append(s, e) = DOMAIN s \cup {Len(s) + 1}
      /\ \A i \in DOMAIN s : Append(s, e)[i] = s[i]
      /\ Append(s, e)[Len(s) + 1] = e
  OBVIOUS
<1> QED
  BY <1>1 DEF ToSet

LEMMA HeadAndTail ==
    ASSUME NEW S, NEW s \in Seq(S), s # <<>>
    PROVE  /\ Head(s) \in ToSet(s)
           /\ \A p \in ToSet(s) : p = Head(s) \/ (Len(s) > 1 /\ p \in ToSet(Tail(s)))
<1>1. /\ Len(s) \in Nat \ {0} /\ DOMAIN s = 1..Len(s) /\ Head(s) = s[1]
      /\ Len(Tail(s)) = Len(s) - 1 /\ DOMAIN Tail(s) = 1..Len(s) - 1
      /\ \A i \in 1..Len(s) - 1 : Tail(s)[i] = s[i + 1]
  OBVIOUS
<1>2. ASSUME NEW i \in 1..Len(s), i # 1 PROVE Len(s) > 1 /\ s[i] \in ToSet(Tail(s))
  <2>1. Len(s) > 1 /\ i - 1 \in 1..Len(s) - 1
    BY <1>1, <1>2
  <2>2. Tail(s)[i - 1] = s[(i - 1) + 1] /\ (i - 1) + 1 = i
    BY <1>1, <2>1
  <2>3. i - 1 \in DOMAIN Tail(s) /\ Tail(s)[i - 1] = s[i]
    BY <1>1, <2>1, <2>2
  <2> QED
    BY <2>1, <2>3 DEF ToSet
<1> QED
  BY <1>1, <1>2 DEF ToSet

LEMMA InitPlaceInv == Init => PlaceInv
BY DEF Init, PlaceInv, Got, Open

\* A packet is given up only while it is open.
LEMMA GivingUpKeepsPlaces ==
    ASSUME PlaceInv, UNCHANGED <<produced, log>>,
           NEW S, \A p \in S : Open(p), lost' = lost \cup S,
           \A p : Held(p) /\ p \notin S => Held(p)'
    PROVE  PlaceInv'
<1>1. \A p : (Got(p)' <=> Got(p)) /\ (Open(p)' <=> Open(p) /\ p \notin S)
  BY DEF Got, Open
<1> QED
  BY <1>1 DEF PlaceInv, Open

LEMMA PacketKeepsPlaces ==
    ASSUME ChannelInv, PlaceInv, determine_ban_createmove
    PROVE  PlaceInv'
<1> DEFINE buffer == Append(g_packetBuffer, produced')
<1>1. /\ produced' = produced + 1 /\ produced \in Nat /\ UNCHANGED <<log, requests>>
      /\ \/ g_packetBuffer' = buffer /\ UNCHANGED <<threads, lost>>
         \/ g_packetBuffer' = <<>> /\ threads' = threads \cup {buffer} /\ UNCHANGED lost
         \/ g_packetBuffer' = <<>> /\ lost' = lost \cup ToSet(buffer) /\ UNCHANGED threads
  BY DEF determine_ban_createmove, ac_async, Loses, ChannelInv, PacketInv
<1>2. ToSet(buffer) = ToSet(g_packetBuffer) \cup {produced'}
  BY AppendedElements DEF ChannelInv, BufferInv
<1>3. \A p : Got(p)' <=> Got(p)
  BY <1>1 DEF Got
<1>4. \A p \in ToSet(buffer) : ~Got(p)
  <2>1. ~Got(produced')
    BY <1>1 DEF Got, ChannelInv, PacketInv
  <2>2. \A p \in ToSet(g_packetBuffer) : ~Got(p)
    BY DEF ChannelInv, BufferInv, ToSet, Open
  <2> QED
    BY <1>2, <2>1, <2>2
<1> HIDE DEF buffer
<1>5. ASSUME NEW p, Open(p)', p # produced' PROVE Held(p)
  <2>1. Open(p)
    BY <1>1, <1>3, <1>5 DEF Open
  <2> QED
    BY <2>1 DEF PlaceInv
<1>6. ASSUME NEW p, Open(p)' PROVE Held(p)'
  BY <1>1, <1>2, <1>5, <1>6 DEF Held, Open
<1>7. \A p \in lost' : ~Got(p)'
  BY <1>1, <1>3, <1>4 DEF PlaceInv
<1> QED
  BY <1>1, <1>6, <1>7 DEF PlaceInv

LEMMA RowKeepsPlaces ==
    ASSUME ChannelInv, PlaceInv, NEW request \in requests, AppendRow(request)
    PROVE  PlaceInv'
<1> DEFINE row == Head(request)
<1>1. /\ request \in Seq(Packets) /\ request # <<>> /\ \A q \in ToSet(request) : Open(q)
  <2>1. PICK k \in Nat, j \in Offsets :
            request = Slice(k, j) /\ ToSet(request) = {q \in Batch(k) : Open(q)}
    BY CarrierIsRest
  <2>2. Len(Slice(k, j)) = BatchSize - j
    BY SliceIsSeq
  <2>3. BatchSize - j # 0
    BY SizeAssumption DEF Offsets
  <2> QED
    BY <2>1, <2>2, <2>3, RestIsPackets
<1>2. /\ Open(row)
      /\ \A p \in ToSet(request) : p = row \/ (Len(request) > 1 /\ p \in ToSet(Tail(request)))
  BY <1>1, HeadAndTail
<1> HIDE DEF row
<1>3. UNCHANGED <<produced, g_packetBuffer, threads>>
      /\ requests' = (requests \ {request}) \cup Rest(request)
  BY DEF AppendRow
<1>4. ASSUME NEW p, Held(p), p # row PROVE Held(p)'
  <2>1. CASE p \in ToSet(request)
    BY <1>2, <1>3, <1>4, <2>1 DEF Rest, Held
  <2>2. CASE p \notin ToSet(request)
    BY <1>3, <1>4, <2>2 DEF Held
  <2> QED
    BY <2>1, <2>2
<1>5. CASE log' = Append(log, row) /\ UNCHANGED lost
  <2>1. log \in Seq(Nat)
    BY DEF ChannelInv, PacketInv
  <2>2. /\ DOMAIN log' = DOMAIN log \cup {Len(log) + 1}
        /\ \A i \in DOMAIN log : log'[i] = log[i]
        /\ log'[Len(log) + 1] = row
    BY <1>5, <2>1
  <2>3. \A p : Got(p)' <=> Got(p) \/ p = row
    BY <2>2 DEF Got
  <2>4. \A i \in DOMAIN log : log[i] # row
    BY <1>2 DEF Open, Got
  <2>5. \A i, j \in DOMAIN log' : log'[i] = log'[j] => i = j
    BY <2>2, <2>4 DEF PlaceInv
  <2>6. \A p : Open(p)' <=> Open(p) /\ p # row
    BY <1>3, <1>5, <2>3 DEF Open
  <2>7. \A p \in lost' : ~Got(p)'
    BY <1>2, <1>5, <2>3 DEF PlaceInv, Open
  <2>8. ASSUME NEW p, Open(p)' PROVE Held(p)'
    BY <1>4, <2>6, <2>8 DEF PlaceInv
  <2> QED
    BY <2>5, <2>7, <2>8 DEF PlaceInv
<1>6. CASE lost' = lost \cup {row} /\ UNCHANGED log
  <2> DEFINE S == {row}
  <2>1. (\A p \in S : Open(p)) /\ lost' = lost \cup S
    BY <1>2, <1>6
  <2>2. \A p : Held(p) /\ p \notin S => Held(p)'
    BY <1>4
  <2> HIDE DEF S
  <2> QED
    BY <1>3, <1>6, <2>1, <2>2, GivingUpKeepsPlaces
<1> QED
  BY <1>5, <1>6 DEF AppendRow, Loses, row

LEMMA NextPlaceInv == ChannelInv /\ PlaceInv /\ [Next]_vars => PlaceInv'
<1> SUFFICES ASSUME ChannelInv, PlaceInv, [Next]_vars PROVE PlaceInv'
  OBVIOUS
<1>1. \A c \in threads \cup requests : \A q \in ToSet(c) : Open(q)
  BY CarrierIsRest
<1>2. ASSUME UNCHANGED <<produced, log, lost>>, \A p : Held(p) => Held(p)' PROVE PlaceInv'
  BY <1>2 DEF PlaceInv, Open, Got
<1>3. ASSUME NEW payload \in threads, send_ac_batch(payload) PROVE PlaceInv'
  <2>1. threads' = threads \ {payload} /\ UNCHANGED <<produced, g_packetBuffer, log>>
    BY <1>3 DEF send_ac_batch
  <2>2. CASE requests' = requests \cup {payload} /\ UNCHANGED lost
    BY <1>2, <2>1, <2>2 DEF Held
  <2>3. CASE lost' = lost \cup ToSet(payload) /\ UNCHANGED requests
    <3>1. \A p : Held(p) /\ p \notin ToSet(payload) => Held(p)'
      BY <2>1, <2>3 DEF Held
    <3> QED
      BY <1>1, <2>1, <2>3, <3>1, GivingUpKeepsPlaces
  <2> QED
    BY <1>3, <2>2, <2>3 DEF send_ac_batch, Loses
<1>4. ASSUME NEW request \in requests, Abort(request) PROVE PlaceInv'
  <2>1. \A p : Held(p) /\ p \notin ToSet(request) => Held(p)'
    BY <1>4 DEF Abort, Held
  <2> QED
    BY <1>1, <1>4, <2>1, GivingUpKeepsPlaces DEF Abort, Loses
<1>5. CASE Exit
  <2> DEFINE S == ToSet(g_packetBuffer) \cup UNION {ToSet(t) : t \in threads}
  <2>1. \A p \in S : Open(p)
    BY <1>1 DEF ChannelInv, BufferInv, ToSet
  <2>2. \A p : Held(p) /\ p \notin S => Held(p)'
    BY <1>5 DEF Exit, Held
  <2>3. lost' = lost \cup S /\ UNCHANGED <<produced, log>>
    BY <1>5 DEF Exit, Loses
  <2> HIDE DEF S
  <2> QED
    BY <2>1, <2>2, <2>3, GivingUpKeepsPlaces
<1>6. CASE UNCHANGED vars
  BY <1>2, <1>6 DEF vars, Held
<1> QED
  BY <1>3, <1>4, <1>5, <1>6, PacketKeepsPlaces, RowKeepsPlaces DEF Next

\* No packet is twice in the buffer.
LEMMA BufferOnce ==
    ASSUME ChannelInv, NEW i \in DOMAIN g_packetBuffer, NEW j \in DOMAIN g_packetBuffer,
           g_packetBuffer[i] = g_packetBuffer[j]
    PROVE  i = j
<1>1. g_packetBuffer \in Seq(Nat) /\ running
  BY DEF ChannelInv, BufferInv, PacketInv
<1>2. PICK k \in Nat : \A n \in 1..Len(g_packetBuffer) : g_packetBuffer[n] = Start(k) + n
  BY <1>1 DEF ChannelInv, BufferInv
<1>3. i \in 1..Len(g_packetBuffer) /\ j \in 1..Len(g_packetBuffer)
  BY <1>1
<1>4. Start(k) + i = Start(k) + j
  BY <1>2, <1>3
<1>5. Len(g_packetBuffer) \in Nat
  BY <1>1
<1>6. i \in Nat /\ j \in Nat
  BY <1>3, <1>5
<1>7. Start(k) \in Nat
  BY StartIsNat
<1> QED
  BY <1>4, <1>6, <1>7

LEMMA OccursOnce ==
    ASSUME NEW s, NEW p, p \in ToSet(s), \A i, j \in DOMAIN s : s[i] = s[j] => i = j
    PROVE  Occurrences(p, s) = 1
<1>1. PICK i \in DOMAIN s : s[i] = p
  BY DEF ToSet
<1>2. {j \in DOMAIN s : s[j] = p} = {i}
  BY <1>1
<1> QED
  BY <1>2, FS_Singleton DEF Occurrences

LEMMA OccursNever ==
    ASSUME NEW s, NEW p, p \notin ToSet(s)
    PROVE  Occurrences(p, s) = 0
<1>1. {j \in DOMAIN s : s[j] = p} = {}
  BY DEF ToSet
<1> QED
  BY <1>1, FS_EmptySet DEF Occurrences

LEMMA OnePlace ==
    ASSUME ChannelInv, PlaceInv, NEW p \in 1..produced
    PROVE  Places(p) = 1
<1> DEFINE Carriers == {t \in threads \cup requests : Contains(t, p)}
<1>1. /\ Got(p) <=> p \in ToSet(log)
      /\ p \in ToSet(g_packetBuffer) => Open(p)
      /\ \A t \in threads \cup requests : (Contains(t, p) <=> p \in ToSet(t))
                                          /\ (p \in ToSet(t) => Open(p))
  <2>1. \A t \in threads \cup requests : t \in Seq(Packets)
    BY RestIsPackets
  <2>2. \A t \in threads \cup requests : Contains(t, p) <=> p \in ToSet(t)
    BY <2>1 DEF Contains, ToSet
  <2>3. \A t \in threads \cup requests : p \in ToSet(t) => Open(p)
    BY CarrierIsRest
  <2> QED
    BY <2>2, <2>3 DEF Got, ToSet, ChannelInv, BufferInv
<1>2. /\ p \notin lost => Cardinality(lost \cap {p}) = 0
      /\ p \in lost => Cardinality(lost \cap {p}) = 1
  <2>1. p \notin lost => lost \cap {p} = {}
    OBVIOUS
  <2>2. p \in lost => lost \cap {p} = {p}
    OBVIOUS
  <2> QED
    BY <2>1, <2>2, FS_EmptySet, FS_Singleton
<1>3. /\ Carriers = {} => Cardinality(Carriers) = 0
      /\ \A c : Carriers = {c} => Cardinality(Carriers) = 1
  BY FS_EmptySet, FS_Singleton
<1>4. Places(p) = Occurrences(p, g_packetBuffer) + Occurrences(p, log)
                    + Cardinality(Carriers) + Cardinality(lost \cap {p})
  BY DEF Places
<1>5. CASE Got(p)
  <2>1. Carriers = {} /\ p \notin lost /\ p \notin ToSet(g_packetBuffer)
    BY <1>1, <1>5 DEF Open, PlaceInv
  <2>2. Occurrences(p, log) = 1
    BY <1>1, <1>5, OccursOnce DEF PlaceInv
  <2> QED
    BY <1>2, <1>3, <1>4, <2>1, <2>2, OccursNever
<1>6. CASE p \in lost
  <2>1. Carriers = {} /\ p \notin ToSet(log) /\ p \notin ToSet(g_packetBuffer)
    BY <1>1, <1>6 DEF Open, PlaceInv
  <2> QED
    BY <1>2, <1>3, <1>4, <1>6, <2>1, OccursNever
<1>7. CASE p \in ToSet(g_packetBuffer)
  <2>1. ~Got(p) /\ p \notin lost
    BY <1>1, <1>7 DEF Open
  <2>2. ASSUME NEW t \in threads \cup requests PROVE p \notin ToSet(t)
    BY <1>7, <2>2, CarrierIsRest, BufferIsLast DEF IsRest
  <2>3. Carriers = {}
    BY <1>1, <2>2
  <2>4. Occurrences(p, g_packetBuffer) = 1
    BY <1>7, BufferOnce, OccursOnce
  <2>5. Occurrences(p, log) = 0
    BY <1>1, <2>1, OccursNever
  <2> QED
    BY <1>2, <1>3, <1>4, <2>1, <2>3, <2>4, <2>5
<1>8. ASSUME NEW c \in threads \cup requests, p \in ToSet(c) PROVE Places(p) = 1
  <2>1. ~Got(p) /\ p \notin lost
    BY <1>1, <1>8 DEF Open
  <2>2. Carriers = {c}
    BY <1>1, <1>8, CarriersAreDisjoint
  <2>3. p \notin ToSet(g_packetBuffer)
    BY <1>8, CarrierIsRest, BufferIsLast DEF IsRest
  <2>4. Occurrences(p, log) = 0
    BY <1>1, <2>1, OccursNever
  <2>5. Occurrences(p, g_packetBuffer) = 0
    BY <2>3, OccursNever
  <2> QED
    BY <1>2, <1>3, <1>4, <2>1, <2>2, <2>4, <2>5
<1> QED
  BY <1>5, <1>6, <1>7, <1>8 DEF PlaceInv, Open, Held

\* Every packet is in exactly one place, or lost to a failure: nothing is
\* appended twice and nothing vanishes (ACFunctions.cpp:297-323, 389-391), for
\* batches of any size, any number of uploads at once and every failure.
THEOREM SpecExactlyOnce == Spec => []ExactlyOnce
<1>1. ChannelInv /\ PlaceInv => ExactlyOnce
  BY OnePlace DEF ExactlyOnce
<1> QED
  BY <1>1, InitPlaceInv, NextPlaceInv, SpecChannelInv, PTL DEF Spec
=============================================================================
