---------------------------- MODULE SessionServer ----------------------------
(***************************************************************************)
(* The PHP backend of one session: ac_batch.php appends telemetry to the   *)
(* session log while process_session.php requests read it, judge it,       *)
(* update the session state and the ban list, and delete the log; the      *)
(* handler of the main application drives them and asks check_ban.php.     *)
(*                                                                         *)
(* A process_session request is a WORKER.  The handler has one request     *)
(* outstanding, but a request that it gave up on keeps running, so two     *)
(* workers can overlap after a timeout.  Every file access is an action of *)
(* its own.  file_put_contents with LOCK_EX opens, locks, truncates and    *)
(* writes: readers take no lock and can see the truncated file.            *)
(***************************************************************************)
EXTENDS ChunkVerdict, FiniteSets

CONSTANTS
    Workers,    \* ids of process_session.php requests that may run at once
    Uploads,    \* ids of ac_batch.php requests
    Shapes,     \* the run sequences an upload can carry
    FaultKinds, \* the faults that may happen, a subset of Faults
    MaxFaults   \* bound on the number of faults in a behaviour

\* timeout: the handler stops waiting; crash: PHP dies between two steps;
\* unlink, record: deleting the session log or appending the ban record fails;
\* io: any other file operation fails.
Faults == {"timeout", "crash", "unlink", "record", "io"}

ASSUME ShapesAssumption == Shapes \subseteq Seq(Run)
ASSUME FaultsAssumption == FaultKinds \subseteq Faults /\ MaxFaults \in Nat

VARIABLES
    upload,   \* upload[u]: runs the request u has still to append
    log,      \* <session>.jsonl; <<>> when there is no file
    appended, \* number of runs ever appended: the id of the newest one
    disk,     \* session_state/<session>.json
    analysis, \* analysis_log.jsonl
    banlist,  \* banlist.jsonl
    pc,       \* pc[w]: the next step of worker w
    rows,     \* rows[w]: the chunk w has loaded
    state,    \* state[w]: $state of w
    client,   \* what the handler is doing
    waiting,  \* the worker the handler waits for: {} or {w}
    told,     \* the answer of the last check_ban.php request
    faults,   \* number of faults so far
    failed    \* history: the kinds of them

vars == <<upload, log, appended, disk, analysis, banlist, pc, rows, state,
          client, waiting, told, faults, failed>>
files == <<log, disk, analysis, banlist>>
handler == <<client, waiting, told>>
uploading == <<upload, appended>>
failing == <<faults, failed>>

Entry == [id : Nat, run : Run]
Analysis == [ids : SUBSET Nat, packets : Nat, hits : [Flags -> Nat], score : Nat,
             session : {"ban", "suspicious", "clean"}]
Steps == {"idle", "load", "state", "analysis", "banlist", "truncate", "save",
          "unlink", "reply"}

TypeOK ==
    /\ upload \in [Uploads -> Seq(Run)]
    /\ log \in Seq(Entry)
    /\ appended \in Nat
    /\ disk \in [form : {"absent", "torn", "whole"}, data : SessionState]
    /\ analysis \in Seq(Analysis)
    /\ banlist \in Seq(SessionState)
    /\ pc \in [Workers -> Steps]
    /\ rows \in [Workers -> Seq(Entry)]
    /\ state \in [Workers -> SessionState]
    /\ client \in {"sleep", "wait", "check"}
    /\ waiting \in SUBSET Workers
    /\ told \in BOOLEAN
    /\ faults \in 0..MaxFaults /\ failed \subseteq FaultKinds

Init ==
    /\ upload \in [Uploads -> Shapes]
    /\ log = <<>> /\ appended = 0
    /\ disk = [form |-> "absent", data |-> FreshState]
    /\ analysis = <<>> /\ banlist = <<>>
    /\ pc = [w \in Workers |-> "idle"]
    /\ rows = [w \in Workers |-> <<>>]
    /\ state = [w \in Workers |-> FreshState]
    /\ client = "sleep" /\ waiting = {} /\ told = FALSE
    /\ faults = 0 /\ failed = {}

Fault(kind) ==
    /\ kind \in FaultKinds
    /\ faults < MaxFaults
    /\ faults' = faults + 1 /\ failed' = failed \cup {kind}

Goto(w, step) == pc' = [pc EXCEPT ![w] = step]

-----------------------------------------------------------------------------
(* ac_batch.php *)

\* One run is appended; a failed append goes unnoticed and the run is lost.
AppendRows(u) ==
    /\ upload[u] # <<>>
    /\ upload' = [upload EXCEPT ![u] = Tail(@)]
    /\ \/ /\ appended' = appended + 1
          /\ log' = Append(log, [id |-> appended + 1, run |-> Head(upload[u])])
          /\ UNCHANGED failing
       \/ Fault("io") /\ UNCHANGED <<log, appended>>
    /\ UNCHANGED <<disk, analysis, banlist, pc, rows, state, handler>>

-----------------------------------------------------------------------------
(* process_session.php *)

\* The request arrives: without a session log it answers 404 at once.
Request(w) ==
    /\ client = "sleep" /\ pc[w] = "idle"
    /\ client' = "wait" /\ waiting' = {w}
    /\ Goto(w, IF log = <<>> THEN "reply" ELSE "load")
    /\ UNCHANGED <<files, uploading, rows, state, told, failing>>

\* Mutant of Load: the log is taken away as it is read.
LoadAndDelete(w) ==
    /\ pc[w] = "load"
    /\ rows' = [rows EXCEPT ![w] = log] /\ log' = <<>>
    /\ Goto(w, IF rows'[w] = <<>> THEN "reply" ELSE "state")
    /\ UNCHANGED <<disk, analysis, banlist, uploading, state, handler, failing>>

\* load_jsonl_rows: a log that is gone or unreadable gives no rows and a 400.
Load(w) ==
    /\ pc[w] = "load"
    /\ \/ rows' = [rows EXCEPT ![w] = log] /\ UNCHANGED failing
       \/ rows' = [rows EXCEPT ![w] = <<>>] /\ Fault("io")
    /\ Goto(w, IF rows'[w] = <<>> THEN "reply" ELSE "state")
    /\ UNCHANGED <<files, uploading, state, handler>>

Runs(entries) == [i \in DOMAIN entries |-> entries[i].run]

\* Mutant of StoredState: the stored state is never used.
StoredStateIgnored == FreshState

\* load_state: anything but a whole file starts the session afresh.
StoredState == IF disk.form = "whole" THEN disk.data ELSE FreshState

\* The chunk is judged and the state, as stored now, is updated in memory.
ReadState(w) ==
    /\ pc[w] = "state"
    /\ state' = [state EXCEPT ![w] = Updated(StoredState, Judge(Runs(rows[w])))]
    /\ Goto(w, "analysis")
    /\ UNCHANGED <<files, uploading, rows, handler, failing>>

AnalysisOf(w) ==
    [ids     |-> {rows[w][i].id : i \in DOMAIN rows[w]},
     packets |-> PacketCount(Runs(rows[w])),
     hits    |-> [f \in Flags |-> HitCount(Runs(rows[w]), f)],
     score   |-> Judge(Runs(rows[w])).score,
     session |-> SessionVerdict(state[w])]

\* Mutant of AppendAnalysis: the step that records a ban is left out.
AppendAnalysisOnly(w) ==
    /\ pc[w] = "analysis" /\ Goto(w, "truncate")
    /\ analysis' = Append(analysis, AnalysisOf(w))
    /\ UNCHANGED <<log, disk, banlist, uploading, rows, state, handler, failing>>

AppendAnalysis(w) ==
    /\ pc[w] = "analysis"
    /\ \/ analysis' = Append(analysis, AnalysisOf(w)) /\ UNCHANGED failing
       \/ Fault("io") /\ UNCHANGED analysis
    /\ Goto(w, IF state[w].banned /\ ~state[w].recorded THEN "banlist"
               ELSE "truncate")
    /\ UNCHANGED <<log, disk, banlist, uploading, rows, state, handler>>

\* Mutant of AppendBan: ban_record_written is not set.
AppendBanUnmarked(w) ==
    /\ pc[w] = "banlist" /\ Goto(w, "truncate")
    /\ banlist' = Append(banlist, state[w])
    /\ UNCHANGED <<log, disk, analysis, uploading, rows, state, handler, failing>>

\* The ban record; only a successful append sets ban_record_written.
AppendBan(w) ==
    /\ pc[w] = "banlist"
    /\ \/ /\ banlist' = Append(banlist, state[w])
          /\ state' = [state EXCEPT ![w].recorded = TRUE]
          /\ UNCHANGED failing
       \/ Fault("record") /\ UNCHANGED <<banlist, state>>
    /\ Goto(w, "truncate")
    /\ UNCHANGED <<log, disk, analysis, uploading, rows, handler>>

\* save_state, first half: open, lock out other writers, truncate.
Truncate(w) ==
    /\ pc[w] = "truncate"
    /\ \/ /\ \A v \in Workers : pc[v] # "save"
          /\ disk' = [form |-> "torn", data |-> FreshState]
          /\ Goto(w, "save")
          /\ UNCHANGED failing
       \/ Fault("io") /\ Goto(w, "unlink") /\ UNCHANGED disk
    /\ UNCHANGED <<log, analysis, banlist, uploading, rows, state, handler>>

\* save_state, second half; its result is only reported.
Save(w) ==
    /\ pc[w] = "save"
    /\ \/ disk' = [form |-> "whole", data |-> state[w]] /\ UNCHANGED failing
       \/ Fault("io") /\ UNCHANGED disk
    /\ Goto(w, "unlink")
    /\ UNCHANGED <<log, analysis, banlist, uploading, rows, state, handler>>

\* Mutant of Unlink: the log stays.
UnlinkNothing(w) ==
    /\ pc[w] = "unlink" /\ Goto(w, "reply")
    /\ UNCHANGED <<files, uploading, rows, state, handler, failing>>

\* The log is deleted, with whatever was appended since it was read.
Unlink(w) ==
    /\ pc[w] = "unlink"
    /\ \/ log' = <<>> /\ UNCHANGED failing
       \/ Fault("unlink") /\ UNCHANGED log
    /\ Goto(w, "reply")
    /\ UNCHANGED <<disk, analysis, banlist, uploading, rows, state, handler>>

\* Mutant of Finish: the handler does not learn that a request died.
FinishSilently(w) ==
    /\ Goto(w, "idle")
    /\ rows' = [rows EXCEPT ![w] = <<>>]
    /\ state' = [state EXCEPT ![w] = FreshState]
    /\ client' = IF w \in waiting /\ pc[w] = "reply" THEN "check" ELSE client
    /\ waiting' = waiting \ {w}
    /\ UNCHANGED <<files, uploading, told>>

\* The end of worker w: a handler still waiting for it goes on.
Finish(w) ==
    /\ Goto(w, "idle")
    /\ rows' = [rows EXCEPT ![w] = <<>>]
    /\ state' = [state EXCEPT ![w] = FreshState]
    /\ client' = IF w \in waiting THEN "check" ELSE client
    /\ waiting' = waiting \ {w}
    /\ UNCHANGED <<files, uploading, told>>

Reply(w) == pc[w] = "reply" /\ Finish(w) /\ UNCHANGED failing

Crash(w) == pc[w] # "idle" /\ Fault("crash") /\ Finish(w)

-----------------------------------------------------------------------------
(* The handler: process_session.php, then check_ban.php, then sleep. *)

\* WinHTTP gives up; the worker does not notice.
Timeout ==
    /\ client = "wait" /\ Fault("timeout")
    /\ client' = "check" /\ waiting' = {}
    /\ UNCHANGED <<files, uploading, pc, rows, state, told>>

\* check_ban.php: no state, or no readable state, is "not banned"; so is an
\* answer that never comes.
CheckBan ==
    /\ client = "check" /\ client' = "sleep"
    /\ \/ told' = StoredState.banned /\ UNCHANGED failing
       \/ Fault("timeout") /\ told' = FALSE
    /\ UNCHANGED <<files, uploading, pc, rows, state, waiting>>

-----------------------------------------------------------------------------
Work(w) ==
    \/ Load(w) \/ ReadState(w) \/ AppendAnalysis(w) \/ AppendBan(w)
    \/ Truncate(w) \/ Save(w) \/ Unlink(w) \/ Reply(w)

Next ==
    \/ \E u \in Uploads : AppendRows(u)
    \/ \E w \in Workers : Request(w) \/ Work(w) \/ Crash(w)
    \/ Timeout
    \/ CheckBan

Spec == Init /\ [][Next]_vars

\* Requests run to completion and the handler's loop goes on.
Fairness ==
    /\ WF_vars(\E w \in Workers : Request(w))
    /\ WF_vars(CheckBan)
    /\ \A w \in Workers : WF_vars(Work(w))

FairSpec == Spec /\ Fairness
-----------------------------------------------------------------------------
(* Properties *)

\* Every session state: the stored one, those in memory and on the ban list.
States ==
    {disk.data} \cup {state[w] : w \in Workers}
      \cup {banlist[i] : i \in DOMAIN banlist}

\* A suspicious chunk brings at least SuspiciousFrom points, an unbanned
\* session stays below the limit, only a ban is recorded, and a session is
\* banned exactly when it has a reason.
WellFormed(s) ==
    /\ s.score >= 3 * s.suspicious
    /\ s.banned \/ s.score < ScoreLimit
    /\ s.recorded => s.banned
    /\ s.banned <=> s.reasons # {}

\* INVARIANT.  Whatever fails, overlaps or is reset, the counters, the flag
\* and the reasons of every session state fit together
\* (process_session.php:251-279 never updates one without the other).
StatesWellFormed == \A s \in States : WellFormed(s)

\* INVARIANT.  The rule "suspicious_chunks >= 5" (process_session.php:273)
\* never decides: the score limit bans first, so it is dead code.
SuspiciousRuleIsDead == \A s \in States : "suspicious_chunks" \notin s.reasons

\* INVARIANT.  A stored ban and a ban the handler was told of have a record in
\* banlist.jsonl, whatever overlaps, dies or fails, unless writing the record
\* itself failed: it is written first (process_session.php:312-330).
EnforcedBanIsRecorded ==
    told \/ StoredState.banned => banlist # <<>> \/ "record" \in failed

Banning == \E i \in DOMAIN analysis : analysis[i].session = "ban"

TotalScore   == SumTo([i \in DOMAIN analysis |-> analysis[i].score], Len(analysis))
TotalPackets == SumTo([i \in DOMAIN analysis |-> analysis[i].packets], Len(analysis))
TotalHits(f) == SumTo([i \in DOMAIN analysis |-> analysis[i].hits[f]], Len(analysis))

\* INVARIANT.  Cutting the telemetry into chunks hides nothing: if the packets
\* of all chunks judged so far, taken together, break a hard rule, one of the
\* chunks has banned the session, wherever the cuts fell, whatever failed and
\* whatever was lost or judged twice (process_session.php:164-209).
PiecesHideNothing ==
    \A f \in DOMAIN HardLimit :
        TotalHits(f) * HardLimit[f][2] > HardLimit[f][1] * TotalPackets => Banning

\* INVARIANT.  Between requests the stored state agrees with the analysis log:
\* every chunk was counted once and with its score, and the session is banned
\* just when an analysis says so.  A log that could not be deleted is judged
\* again, in both places, and a missing ban record changes neither; any other
\* failure may part them (process_session.php:249-330).
AuditAgrees ==
    client # "wait" /\ failed \subseteq {"unlink", "record"} =>
        /\ StoredState.chunks = Len(analysis)
        /\ StoredState.score = TotalScore
        /\ StoredState.banned <=> Banning

\* INVARIANT.  No packet is judged in two chunks, though the log is read in one
\* step, deleted in another and appended to in between, and whatever other file
\* operation fails: only a log that was not deleted, or a second request after
\* a timeout or a crash, judges a packet again (process_session.php:134-331).
NoDoubleCount ==
    failed \subseteq {"io", "record"} =>
        \A i, j \in DOMAIN analysis :
            i # j => analysis[i].ids \cap analysis[j].ids = {}

Latch == INSTANCE BanLatch WITH banned <- Banning, records <- Len(banlist)

\* REFINEMENT, if nothing but the deletion of the log fails.  The ban of a
\* session is a latch: an analysis that ended in a ban is never taken back, the
\* session gets one record in banlist.jsonl, and check_ban.php tells the handler
\* "banned" exactly when some analysis said so and the record is there, never
\* from a state that is half written or out of date
\* (process_session.php:262-330, check_ban.php).
IsBanLatch == Latch!LatchSpec

\* LIVENESS.  A ban verdict reaches the handler, also if the deletion of the log
\* fails (process_session.php:330-331, check_ban.php:43-60).
BanReachesHandler == Banning ~> told

Ids(entries) == {entries[i].id : i \in DOMAIN entries}
Judged       == UNION {analysis[i].ids : i \in DOMAIN analysis}

\* A request holds rows it has read and not deleted yet.
Holding(w) == pc[w] \notin {"idle", "load", "reply"}

\* ACTION PROPERTY.  A row that is deleted has been judged, whatever times out,
\* dies or overlaps, unless a file operation failed or the row was appended after
\* a request that has not finished had read the log.  Such a row is lost: the
\* unlink does not know of it (process_session.php:134-331).
DeletedIsJudged ==
    [][\A r \in Ids(log) \ Ids(log') :
           \/ r \in Judged \/ "io" \in failed
           \/ \E w \in Workers : Holding(w) /\ \A q \in Ids(rows[w]) : q < r]_vars

\* The ids the uploads can give out.
RowIds ==
    1..Cardinality(Uploads) * (CHOOSE n \in {Len(shape) : shape \in Shapes} :
                                   \A shape \in Shapes : Len(shape) <= n)

\* LIVENESS.  A row that is in the log while no request is between its reading
\* and its deletion is judged in the end, whatever times out, dies or overlaps,
\* and also if records or deletions fail; it is not just deleted
\* (Handler.cpp:279-294, process_session.php:134-331).
StoredIsJudged ==
    \A r \in RowIds :
        r \in Ids(log) /\ (\A w \in Workers : ~Holding(w))
        ~> r \in Judged \/ "io" \in failed
=============================================================================
