----------------------------- MODULE LossyChannel -----------------------------
(***************************************************************************)
(* What the telemetry path promises.  Packets are offered one at a time.   *)
(* Once a batch of them is complete, its packets may arrive, each at most  *)
(* once and in their order, while those of other batches arrive in         *)
(* between.  Any packet may be dropped; then it does not arrive.           *)
(***************************************************************************)
EXTENDS Naturals, Sequences

CONSTANTS
    BatchSize,   \* packets of a batch
    MaxPackets   \* bound on the number of packets

VARIABLES
    sent,      \* the number of packets offered; a packet is named by its number
    got,       \* the packets that have arrived, in their order
    dropped    \* the packets that will not arrive

channel_vars == <<sent, got, dropped>>

\* The packets of batch k, and whether all of them have been offered.
Batch(k)    == k * BatchSize + 1 .. k * BatchSize + BatchSize
Complete(k) == k * BatchSize + BatchSize <= sent

Got(p)  == \E i \in DOMAIN got : got[i] = p
Open(p) == p \in 1..sent /\ ~Got(p) /\ p \notin dropped

ChannelInit == sent = 0 /\ got = <<>> /\ dropped = {}

\* A packet is offered; the batch that it completes may be dropped at once.
Send ==
    /\ sent < MaxPackets /\ sent' = sent + 1
    /\ \/ UNCHANGED dropped
       \/ \E k \in 0..sent : /\ sent' = k * BatchSize + BatchSize
                             /\ dropped' = dropped \cup Batch(k)
    /\ UNCHANGED got

\* A packet of a complete batch arrives, after those before it.
Deliver(k, p) ==
    /\ p \in Batch(k) /\ Complete(k)
    /\ Open(p) /\ \A q \in Batch(k) : q < p => ~Open(q)
    /\ got' = Append(got, p)
    /\ UNCHANGED <<sent, dropped>>

\* Packets that have not arrived are dropped.
Drop ==
    /\ dropped \subseteq dropped'
    /\ \A p \in dropped' \ dropped : Open(p)
    /\ UNCHANGED <<sent, got>>

ChannelNext == Send \/ (\E k \in 0..sent : \E p \in Batch(k) : Deliver(k, p)) \/ Drop

ChannelSpec == ChannelInit /\ [][ChannelNext]_channel_vars

\* INVARIANT.  Of one batch a later packet never arrives before an earlier
\* one, whatever arrives in between or is dropped.
InOrder ==
    \A k \in 0..sent : \A i, j \in DOMAIN got :
        i < j /\ {got[i], got[j]} \subseteq Batch(k) => got[i] < got[j]
=============================================================================
