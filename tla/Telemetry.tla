------------------------------ MODULE Telemetry ------------------------------
(***************************************************************************)
(* The way of the telemetry from CreateMove to the session log:            *)
(* determine_ban_createmove fills g_packetBuffer, ac_async hands a full    *)
(* buffer to a new thread, the thread posts it once, and ac_batch.php      *)
(* appends it packet by packet.  Uploads overlap; nothing is retried, and  *)
(* a thread that gives up does not stop the request at the server.         *)
(***************************************************************************)
EXTENDS Naturals, FiniteSets, SequencesExt

CONSTANTS
    BatchSize,   \* 512 in the code
    MaxPackets,  \* bound on the number of packets
    Failures     \* the failures that may happen, a subset of AllFailures

\* thread: CreateThread fails; lost: the request does not reach the server or
\* the server dies in it; append: one row cannot be written; exit: the game
\* ends, and with it the buffer and the threads that have not sent.
AllFailures == {"thread", "lost", "append", "exit"}

ASSUME SizeAssumption == BatchSize \in Nat \ {0} /\ MaxPackets \in Nat
ASSUME FailureAssumption == Failures \subseteq AllFailures

VARIABLES
    produced,        \* number of packets made; a packet is named by its number
    g_packetBuffer,  \* the packets not yet handed over
    threads,         \* payloads of threads that have not sent them
    requests,        \* what ac_batch.php requests have still to append
    log,             \* the packets in the session log, in its order
    running,         \* is the game running?
    lost             \* history: packets lost to a failure

vars == <<produced, g_packetBuffer, threads, requests, log, running, lost>>

Packets == 1..MaxPackets

\* A batch in flight and a request are sequences of packets; no two are equal
\* because no packet is in two of them.
TypeOK ==
    /\ produced \in 0..MaxPackets
    /\ g_packetBuffer \in Seq(Packets) /\ Len(g_packetBuffer) < BatchSize
    /\ threads \subseteq Seq(Packets)
    /\ requests \subseteq Seq(Packets)
    /\ log \in Seq(Packets)
    /\ running \in BOOLEAN
    /\ lost \subseteq Packets

Init ==
    /\ produced = 0 /\ g_packetBuffer = <<>>
    /\ threads = {} /\ requests = {} /\ log = <<>>
    /\ running = TRUE /\ lost = {}

\* A failure that loses these packets.
Loses(failure, packets) == failure \in Failures /\ lost' = lost \cup packets

\* A full buffer is swapped out, lost if no thread can be made for it.
ac_async(buffer) ==
    /\ g_packetBuffer' = <<>>
    /\ \/ threads' = threads \cup {buffer} /\ UNCHANGED lost
       \/ Loses("thread", ToSet(buffer)) /\ UNCHANGED threads

\* A tick of CreateMove: the packet is buffered.
determine_ban_createmove ==
    /\ running /\ produced < MaxPackets
    /\ produced' = produced + 1
    /\ LET buffer == Append(g_packetBuffer, produced')
       IN  IF Len(buffer) >= BatchSize
           THEN ac_async(buffer)
           ELSE g_packetBuffer' = buffer /\ UNCHANGED <<threads, lost>>
    /\ UNCHANGED <<requests, log, running>>

\* Mutant of send_ac_batch: a payload is posted until the server is seen to
\* have it.
send_again(payload) ==
    /\ threads' = threads \ (requests \cap {payload})
    /\ requests' = requests \cup {payload}
    /\ UNCHANGED <<produced, g_packetBuffer, log, running, lost>>

\* The thread posts its payload, once, and is done whatever the answer.
send_ac_batch(payload) ==
    /\ threads' = threads \ {payload}
    /\ \/ requests' = requests \cup {payload} /\ UNCHANGED lost
       \/ Loses("lost", ToSet(payload)) /\ UNCHANGED requests
    /\ UNCHANGED <<produced, g_packetBuffer, log, running>>

\* Mutant of Rest: only one row of a request is appended.
RestNone(request) == {}

\* ac_batch.php appends the next packet of a request.
Rest(request) == IF Len(request) > 1 THEN {Tail(request)} ELSE {}

\* Mutant of AppendRow: the rows are taken from the end.
AppendLastRow(request) ==
    /\ requests' = (requests \ {request}) \cup
                     (IF Len(request) > 1 THEN {Front(request)} ELSE {})
    /\ log' = Append(log, Last(request))
    /\ UNCHANGED <<produced, g_packetBuffer, threads, running, lost>>

AppendRow(request) ==
    /\ requests' = (requests \ {request}) \cup Rest(request)
    /\ \/ log' = Append(log, Head(request)) /\ UNCHANGED lost
       \/ Loses("append", {Head(request)}) /\ UNCHANGED log
    /\ UNCHANGED <<produced, g_packetBuffer, threads, running>>

\* The server stops in the middle of a request.
Abort(request) ==
    /\ Loses("lost", ToSet(request))
    /\ requests' = requests \ {request}
    /\ UNCHANGED <<produced, g_packetBuffer, threads, log, running>>

\* The game process ends, and its threads with it: a buffer that is not full is
\* never sent.  Nothing in the module runs to the end of it.
Exit ==
    /\ running
    /\ Loses("exit", ToSet(g_packetBuffer) \cup UNION {ToSet(t) : t \in threads})
    /\ running' = FALSE /\ g_packetBuffer' = <<>> /\ threads' = {}
    /\ UNCHANGED <<produced, requests, log>>

Next ==
    \/ determine_ban_createmove
    \/ \E payload \in threads : send_ac_batch(payload)
    \/ \E request \in requests : AppendRow(request) \/ Abort(request)
    \/ Exit

Spec == Init /\ [][Next]_vars

\* Threads and requests that exist are run.
Fairness ==
    /\ \A p \in {[i \in 1..BatchSize |-> k * BatchSize + i] : k \in 0..MaxPackets} :
          WF_vars(p \in threads /\ send_ac_batch(p))
    /\ WF_vars(\E request \in requests : AppendRow(request))

FairSpec == Spec /\ Fairness

-----------------------------------------------------------------------------
(* Properties *)

Channel == INSTANCE LossyChannel WITH sent <- produced, got <- log, dropped <- lost

Occurrences(p, sequence) == Cardinality({i \in DOMAIN sequence : sequence[i] = p})

Places(p) ==
    Occurrences(p, g_packetBuffer) + Occurrences(p, log)
      + Cardinality({t \in threads \cup requests : Contains(t, p)})
      + Cardinality(lost \cap {p})

\* INVARIANT.  Every packet is in exactly one place, or lost to a failure:
\* nothing is sent or appended twice, and nothing vanishes in the hand-over
\* from the buffer to the thread (ACFunctions.cpp:297-323, 389-391).
ExactlyOnce == \A p \in 1..produced : Places(p) = 1

\* REFINEMENT.  The path of the packets is a lossy channel: only full batches
\* arrive, the rows of overlapping uploads mix but those of one batch keep the
\* order of the ticks, and a packet that was given up never arrives
\* (ACFunctions.cpp:297-323, 389-391, ac_batch.php:58-100).
IsLossyChannel == Channel!ChannelSpec

\* INVARIANT.  The rows of one upload are in the log in the order of the ticks,
\* however uploads overlap and rows fail: what is judged is never a batch out
\* of order (ac_batch.php:58-100).
RowsInOrder == Channel!InOrder

\* LIVENESS.  Each packet of a full batch gets into the log or is lost to a
\* failure; it is not stuck behind other uploads.
FullBatchArrives ==
    \A k \in 0..(MaxPackets \div BatchSize) - 1 : \A p \in Channel!Batch(k) :
        Channel!Complete(k) ~> Channel!Got(p) \/ p \in lost
=============================================================================
