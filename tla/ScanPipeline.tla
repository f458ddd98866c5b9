---------------------------- MODULE ScanPipeline ----------------------------
(***************************************************************************)
(* The life of an upload in Celery mode: celery_app.analyze_pcap on the    *)
(* fast queue, database.save_scan, celery_app.enrich_scan on the slow      *)
(* queue with enrichment.run_enrichment, and the scan view that splices    *)
(* the triage state of the alerts table into the results blob by position  *)
(* (routes.common.merge_alert_triage_state).                               *)
(*                                                                         *)
(* Data is abstracted to what the merge can tell apart.  An alert is the   *)
(* id of its row in the alerts table; a scan's results_json is the         *)
(* sequence of the ids of the alerts it carries, in blob order.            *)
(***************************************************************************)
EXTENDS Integers, Sequences, FiniteSets

CONSTANTS
    Capture,      \* uploads accepted by POST /api/upload, one Celery task each
    FastWorker,   \* prefork children of the pcap.fast worker
    SlowWorker,   \* prefork children of the pcap.slow worker
    MaxScans,     \* bound: rows ever inserted in scans
    MaxAlerts,    \* bound: ids ever drawn from the alerts sequence
    MaxFound,     \* bound: alerts of one save_scan
    MaxFaults     \* bound: failures of the environment

ASSUME BoundsAssumption ==
    /\ MaxScans \in Nat
    /\ MaxAlerts \in Nat
    /\ MaxFound \in Nat
    /\ MaxFaults \in Nat

ASSUME CaptureAssumption == Capture # {}

ScanId == 1..MaxScans
AlertId == 1..MaxAlerts
NoScan == 0
NoAlerts == <<>>

VARIABLES
    fastQ,      \* deliverable analyze_pcap messages per capture
    slowQ,      \* deliverable enrich_scan messages per scan
    fast,       \* what each fast worker is executing
    slow,       \* what each slow worker is executing
    result,     \* Celery result backend: state and scan id per task
    live,       \* ids present in the scans table
    origin,     \* scans.filename: the capture a scan was saved for
    blob,       \* scans.results_json['alerts']
    rows,       \* ids in the alerts table, per scan
    nextScan,   \* scans_id_seq
    nextAlert,  \* alerts_id_seq
    view,       \* one GET /api/results request
    faults,     \* environment failures so far
    outcome     \* history: how the enrichment of a scan has gone so far

vars == <<fastQ, slowQ, fast, slow, result, live, origin, blob, rows,
          nextScan, nextAlert, view, faults, outcome>>
brokers == <<fastQ, slowQ>>
tables == <<live, origin, blob, rows, nextScan, nextAlert>>

FastPc == {"idle", "parsing", "saved", "dispatched"}
SlowPc == {"idle", "hash", "yara", "persist", "done"}
FastRun == [pc : FastPc, cap : Capture, scan : ScanId \cup {NoScan},
            again : BOOLEAN]
SlowRun == [pc : SlowPc, scan : ScanId \cup {NoScan}, mem : Seq(AlertId),
            pend : Seq(AlertId), again : BOOLEAN]
Result == [state : {"NONE", "PENDING", "PROGRESS", "SUCCESS", "FAILURE"},
           scan : ScanId \cup {NoScan}]
Outcome == {"none", "enriched", "disturbed"}
View == [pc : {"idle", "loaded"}, scan : ScanId \cup {NoScan},
         alerts : Seq(AlertId)]

FastIdle == [pc |-> "idle", cap |-> CHOOSE c \in Capture : TRUE,
             scan |-> NoScan, again |-> FALSE]
SlowIdle == [pc |-> "idle", scan |-> NoScan, mem |-> NoAlerts, pend |-> NoAlerts,
             again |-> FALSE]
NoView == [pc |-> "idle", scan |-> NoScan, alerts |-> NoAlerts]

Init ==
    /\ fastQ = [c \in Capture |-> 0]
    /\ slowQ = [s \in ScanId |-> 0]
    /\ fast = [w \in FastWorker |-> FastIdle]
    /\ slow = [w \in SlowWorker |-> SlowIdle]
    /\ result = [c \in Capture |-> [state |-> "NONE", scan |-> NoScan]]
    /\ live = {}
    /\ origin = [s \in ScanId |-> CHOOSE c \in Capture : TRUE]
    /\ blob = [s \in ScanId |-> NoAlerts]
    /\ rows = [s \in ScanId |-> {}]
    /\ nextScan = 1
    /\ nextAlert = 1
    /\ view = NoView
    /\ faults = 0
    /\ outcome = [s \in ScanId |-> "none"]

\* mutant: a late write replaces a stored success.
StoreAnyway(c, st, s) == result' = [result EXCEPT ![c] = [state |-> st, scan |-> s]]

(***************************************************************************)
(* The result backend.  Celery ignores every write that would replace a    *)
(* stored SUCCESS.                                                         *)
(***************************************************************************)
Store(c, st, s) ==
    result' = IF result[c].state = "SUCCESS"
              THEN result
              ELSE [result EXCEPT ![c] = [state |-> st, scan |-> s]]

-----------------------------------------------------------------------------
(***************************************************************************)
(* POST /api/upload enqueues the analysis.                                 *)
(***************************************************************************)
Upload(c) ==
    /\ result[c].state = "NONE"
    /\ fastQ' = [fastQ EXCEPT ![c] = @ + 1]
    /\ result' = [result EXCEPT ![c].state = "PENDING"]
    /\ UNCHANGED <<slowQ, fast, slow, tables, view, faults, outcome>>

\* mutant: the message is left where another worker finds it as well.
StartAnalyzeShared(w, c) ==
    /\ fast[w].pc = "idle" /\ fastQ[c] > 0
    /\ fast' = [fast EXCEPT ![w] = [pc |-> "parsing", cap |-> c,
                                    scan |-> NoScan, again |-> FALSE]]
    /\ Store(c, "PROGRESS", NoScan)
    /\ UNCHANGED <<brokers, slow, tables, view, faults, outcome>>

(***************************************************************************)
(* analyze_pcap_task.  With acks_late the message stays with the broker    *)
(* until the run ends, whatever its outcome.                               *)
(***************************************************************************)
StartAnalyze(w, c) ==
    /\ fast[w].pc = "idle"
    /\ fastQ[c] > 0
    /\ fastQ' = [fastQ EXCEPT ![c] = @ - 1]
    /\ fast' = [fast EXCEPT ![w] = [pc |-> "parsing", cap |-> c,
                                    scan |-> NoScan, again |-> FALSE]]
    /\ Store(c, "PROGRESS", NoScan)
    /\ UNCHANGED <<slowQ, slow, tables, view, faults, outcome>>

\* mutant: the first id is skipped.
DrawnFromNext(n) == [i \in 1..n |-> nextAlert + i]
\* The ids a single INSERT ... RETURNING draws from the sequence.
Drawn(n) == [i \in 1..n |-> nextAlert + i - 1]

\* database.save_scan: the scan row, its blob and its alert rows, in one
\* transaction.  The blob lists the alerts in the order they are inserted.
SaveScan(w, n) ==
    /\ fast[w].pc = "parsing"
    /\ nextScan \in ScanId
    /\ nextAlert + n <= MaxAlerts + 1
    /\ live' = live \cup {nextScan}
    /\ origin' = [origin EXCEPT ![nextScan] = fast[w].cap]
    /\ blob' = [blob EXCEPT ![nextScan] = Drawn(n)]
    /\ rows' = [rows EXCEPT ![nextScan] = nextAlert..(nextAlert + n - 1)]
    /\ nextScan' = nextScan + 1
    /\ nextAlert' = nextAlert + n
    /\ fast' = [fast EXCEPT ![w] = [@ EXCEPT !.pc = "saved", !.scan = nextScan]]
    /\ UNCHANGED <<brokers, slow, result, view, faults, outcome>>

\* mutant: the enrichment is not sent to the slow queue.
DispatchNothing(w) ==
    /\ fast[w].pc = "saved"
    /\ fast' = [fast EXCEPT ![w].pc = "dispatched"]
    /\ Store(fast[w].cap, "PROGRESS", NoScan)
    /\ UNCHANGED <<brokers, slow, tables, view, faults, outcome>>

DispatchEnrich(w) ==
    /\ fast[w].pc = "saved"
    /\ slowQ' = [slowQ EXCEPT ![fast[w].scan] = @ + 1]
    /\ fast' = [fast EXCEPT ![w].pc = "dispatched"]
    /\ Store(fast[w].cap, "PROGRESS", NoScan)
    /\ UNCHANGED <<fastQ, slow, tables, view, faults, outcome>>

\* mutant: the end of the run is not stored.
FinishUnstored(w) ==
    /\ fast[w].pc = "dispatched"
    /\ fast' = [fast EXCEPT ![w] = FastIdle]
    /\ UNCHANGED <<brokers, slow, result, tables, view, faults, outcome>>

FinishAnalyze(w) ==
    /\ fast[w].pc = "dispatched"
    /\ Store(fast[w].cap, "SUCCESS", fast[w].scan)
    /\ fast' = [fast EXCEPT ![w] = FastIdle]
    /\ UNCHANGED <<brokers, slow, tables, view, faults, outcome>>

-----------------------------------------------------------------------------
(***************************************************************************)
(* enrich_scan_task: reload the blob, let run_enrichment append alerts     *)
(* twice (carved-file hashes, then YARA), write the blob back.             *)
(***************************************************************************)
StartEnrich(w, s) ==
    /\ slow[w].pc = "idle"
    /\ slowQ[s] > 0
    /\ slowQ' = [slowQ EXCEPT ![s] = @ - 1]
    /\ slow' = IF s \in live
               THEN [slow EXCEPT ![w] = [pc |-> "hash", scan |-> s,
                                         mem |-> blob[s], pend |-> NoAlerts,
                                         again |-> FALSE]]
               ELSE slow   \* scan gone: nothing to enrich, message acked
    /\ UNCHANGED <<fastQ, fast, result, tables, view, faults, outcome>>

Appending(w) == slow[w].pc \in {"hash", "yara"}
\* mutant: nothing is written back after the YARA step.
AfterAppendEnds(pc) == IF pc = "hash" THEN "yara" ELSE "done"
AfterAppend(pc) == IF pc = "hash" THEN "yara" ELSE "persist"

\* append_alerts_to_scan, one INSERT of its loop.  The scan's existence was
\* checked in this transaction and the foreign key holds it from here on.
InsertAlert(w) ==
    /\ Appending(w)
    /\ slow[w].scan \in live
    /\ nextAlert \in AlertId
    /\ slow' = [slow EXCEPT ![w].pend = Append(@, nextAlert)]
    /\ nextAlert' = nextAlert + 1
    /\ UNCHANGED <<brokers, fast, result, live, origin, blob, rows, nextScan,
                   view, faults, outcome>>

\* mutant: the alerts are mirrored in front of the ones the blob has.
MirroredInFront(run) == run.pend \o run.mem
\* What a run appended follows what its copy of the blob has.
Mirrored(run) == run.mem \o run.pend

\* The commit of append_alerts_to_scan, then the mirror into the run's blob.
CommitAlerts(w) ==
    LET run == slow[w] IN
    /\ Appending(w)
    /\ Len(run.pend) > 0
    /\ rows' = [rows EXCEPT ![run.scan] =
                    @ \cup {run.pend[i] : i \in 1..Len(run.pend)}]
    /\ slow' = [slow EXCEPT ![w] = [run EXCEPT !.mem = Mirrored(run),
                                               !.pend = NoAlerts,
                                               !.pc = AfterAppend(run.pc)]]
    /\ UNCHANGED <<brokers, fast, result, live, origin, blob, nextScan,
                   nextAlert, view, faults, outcome>>

\* No hit to report, or the scan is gone (append_alerts_to_scan returns 0 and
\* what the run mirrors is never read again).
NothingAppended(w) ==
    /\ Appending(w)
    /\ Len(slow[w].pend) = 0
    /\ slow' = [slow EXCEPT ![w].pc = AfterAppend(@)]
    /\ UNCHANGED <<brokers, fast, result, tables, view, faults, outcome>>

\* update_scan_results: overwrites the whole blob, 0 rows if the scan is gone.
Persist(w) ==
    LET s == slow[w].scan IN
    /\ slow[w].pc = "persist"
    /\ blob' = IF s \in live THEN [blob EXCEPT ![s] = slow[w].mem] ELSE blob
    /\ slow' = [slow EXCEPT ![w].pc = "done"]
    /\ UNCHANGED <<brokers, fast, result, live, origin, rows, nextScan,
                   nextAlert, view, faults, outcome>>

FinishEnrich(w) ==
    /\ slow[w].pc = "done"
    /\ slow' = [slow EXCEPT ![w] = SlowIdle]
    /\ outcome' = [outcome EXCEPT ![slow[w].scan] =
                       IF @ = "disturbed" THEN @ ELSE "enriched"]
    /\ UNCHANGED <<brokers, fast, result, tables, view, faults>>

-----------------------------------------------------------------------------
(***************************************************************************)
(* The web process: DELETE /api/scans/<id> (and the retention purge), and  *)
(* the two reads of GET /api/results, which are separate transactions.     *)
(***************************************************************************)
DeleteScan(s) ==
    /\ s \in live
    /\ \A w \in SlowWorker : slow[w].scan = s => Len(slow[w].pend) = 0  \* FK lock
    /\ live' = live \ {s}
    /\ blob' = [blob EXCEPT ![s] = NoAlerts]
    /\ rows' = [rows EXCEPT ![s] = {}]
    /\ UNCHANGED <<brokers, fast, slow, result, origin, nextScan, nextAlert,
                   view, faults, outcome>>

ReadBlob(s) ==
    /\ view.pc = "idle"
    /\ s \in live
    /\ view' = [pc |-> "loaded", scan |-> s, alerts |-> blob[s]]
    /\ UNCHANGED <<brokers, fast, slow, result, tables, faults, outcome>>

\* merge_alert_triage_state reads the rows of the current instant; MergeAligned
\* below says what it makes of them whenever it runs.
MergeTriage ==
    /\ view.pc = "loaded"
    /\ view' = NoView
    /\ UNCHANGED <<brokers, fast, slow, result, tables, faults, outcome>>

-----------------------------------------------------------------------------
(***************************************************************************)
(* Failures.  `again` is set once the broker has handed a run's message to *)
(* someone else: the run's own acknowledgement no longer removes it.       *)
(***************************************************************************)
Fault == faults < MaxFaults /\ faults' = faults + 1

\* Any exception in analyze_pcap_task: FAILURE is stored and the message is
\* acked, also after save_scan committed or the enrichment was dispatched.
AnalyzeRaises(w) ==
    /\ Fault
    /\ fast[w].pc # "idle"
    /\ Store(fast[w].cap, "FAILURE", NoScan)
    /\ fast' = [fast EXCEPT ![w] = FastIdle]
    /\ UNCHANGED <<brokers, slow, tables, view, outcome>>

\* An exception inside append_alerts_to_scan rolls its transaction back; the
\* step swallows it and mirrors nothing.
AppendRaises(w) ==
    /\ Fault
    /\ Appending(w)
    /\ Len(slow[w].pend) > 0
    /\ slow' = [slow EXCEPT ![w] = [@ EXCEPT !.pend = NoAlerts,
                                             !.pc = AfterAppend(slow[w].pc)]]
    /\ UNCHANGED <<brokers, fast, result, tables, view, outcome>>

\* update_scan_results raises; run_enrichment swallows it.
PersistRaises(w) ==
    /\ Fault
    /\ slow[w].pc = "persist"
    /\ slow' = [slow EXCEPT ![w].pc = "done"]
    /\ outcome' = [outcome EXCEPT ![slow[w].scan] = "disturbed"]
    /\ UNCHANGED <<brokers, fast, result, tables, view>>

\* The Redis visibility timeout passes while the run is still going.
RedeliverAnalyze(w) ==
    /\ Fault
    /\ fast[w].pc # "idle"
    /\ ~fast[w].again
    /\ fast' = [fast EXCEPT ![w].again = TRUE]
    /\ fastQ' = [fastQ EXCEPT ![fast[w].cap] = @ + 1]
    /\ UNCHANGED <<slowQ, slow, result, tables, view, outcome>>

RedeliverEnrich(w) ==
    /\ Fault
    /\ slow[w].pc # "idle"
    /\ ~slow[w].again
    /\ slow' = [slow EXCEPT ![w].again = TRUE]
    /\ slowQ' = [slowQ EXCEPT ![slow[w].scan] = @ + 1]
    /\ outcome' = [outcome EXCEPT ![slow[w].scan] = "disturbed"]
    /\ UNCHANGED <<fastQ, fast, result, tables, view>>

\* The worker container dies: nothing is acked, the broker delivers again.
FastWorkerDies(w) ==
    /\ Fault
    /\ fast[w].pc # "idle"
    /\ fastQ' = IF fast[w].again THEN fastQ
                ELSE [fastQ EXCEPT ![fast[w].cap] = @ + 1]
    /\ fast' = [fast EXCEPT ![w] = FastIdle]
    /\ UNCHANGED <<slowQ, slow, result, tables, view, outcome>>

SlowWorkerDies(w) ==
    /\ Fault
    /\ slow[w].pc # "idle"
    /\ slowQ' = IF slow[w].again THEN slowQ
                ELSE [slowQ EXCEPT ![slow[w].scan] = @ + 1]
    /\ slow' = [slow EXCEPT ![w] = SlowIdle]
    /\ outcome' = [outcome EXCEPT ![slow[w].scan] = "disturbed"]
    /\ UNCHANGED <<fastQ, fast, result, tables, view>>

\* Only the prefork child is killed (OOM): the parent stores FAILURE and acks
\* (task_reject_on_worker_lost is off).  For a fast child that is
\* AnalyzeRaises.
SlowChildKilled(w) ==
    /\ Fault
    /\ slow[w].pc # "idle"
    /\ slow' = [slow EXCEPT ![w] = SlowIdle]
    /\ outcome' = [outcome EXCEPT ![slow[w].scan] = "disturbed"]
    /\ UNCHANGED <<brokers, fast, result, tables, view>>

-----------------------------------------------------------------------------
FastStep(w) ==
    \/ \E n \in 0..MaxFound : SaveScan(w, n)
    \/ DispatchEnrich(w)
    \/ FinishAnalyze(w)

SlowStep(w) ==
    \/ InsertAlert(w)
    \/ CommitAlerts(w)
    \/ NothingAppended(w)
    \/ Persist(w)
    \/ FinishEnrich(w)

Failure ==
    \/ \E w \in FastWorker :
          AnalyzeRaises(w) \/ RedeliverAnalyze(w) \/ FastWorkerDies(w)
    \/ \E w \in SlowWorker :
          \/ AppendRaises(w) \/ PersistRaises(w) \/ RedeliverEnrich(w)
          \/ SlowWorkerDies(w) \/ SlowChildKilled(w)

Next ==
    \/ \E c \in Capture : Upload(c) \/ \E w \in FastWorker : StartAnalyze(w, c)
    \/ \E w \in FastWorker : FastStep(w)
    \/ \E s \in ScanId : \/ DeleteScan(s)
                         \/ ReadBlob(s)
                         \/ \E w \in SlowWorker : StartEnrich(w, s)
    \/ \E w \in SlowWorker : SlowStep(w)
    \/ MergeTriage
    \/ Failure

Spec == Init /\ [][Next]_vars

\* A worker that has started keeps running its Python code; the Redis lists
\* behind the queues are FIFO, so a message that keeps becoming deliverable is
\* not overtaken for ever.  Uploads, deletions, views and failures are not fair.
Fairness ==
    /\ \A w \in FastWorker : WF_vars(FastStep(w))
    /\ \A w \in SlowWorker : WF_vars(SlowStep(w))
    /\ \A c \in Capture : SF_vars(\E w \in FastWorker : StartAnalyze(w, c))
    /\ \A s \in ScanId : SF_vars(\E w \in SlowWorker : StartEnrich(w, s))

FairSpec == Spec /\ Fairness

-----------------------------------------------------------------------------
(***************************************************************************)
(* Properties.                                                             *)
(***************************************************************************)

\* Every variable keeps its type: queue counters never go negative, a busy
\* worker names a real scan, and no id outruns its sequence.
TypeOK ==
    /\ fastQ \in [Capture -> Nat]
    /\ slowQ \in [ScanId -> Nat]
    /\ fast \in [FastWorker -> FastRun]
    /\ slow \in [SlowWorker -> SlowRun]
    /\ result \in [Capture -> Result]
    /\ live \in SUBSET ScanId
    /\ origin \in [ScanId -> Capture]
    /\ blob \in [ScanId -> Seq(AlertId)]
    /\ rows \in [ScanId -> SUBSET AlertId]
    /\ nextScan \in 1..(MaxScans + 1)
    /\ nextAlert \in 1..(MaxAlerts + 1)
    /\ view \in View
    /\ faults \in 0..MaxFaults
    /\ outcome \in [ScanId -> Outcome]

Listed(alerts) == {alerts[i] : i \in 1..Len(alerts)}
InIdOrder(alerts) ==
    \A i, j \in 1..Len(alerts) : i < j => alerts[i] < alerts[j]

\* The alerts table ORDER BY id ASC lists exactly these alerts, in this order.
IsTable(alerts, ids) == Listed(alerts) = ids /\ InIdOrder(alerts)

\* Whatever was appended, persisted, redelivered or deleted between the two
\* reads of GET /api/results: when merge_alert_triage_state finds as many rows
\* as blob alerts, the i-th blob alert is the i-th row, so no alert is shown
\* with the id and the triage decision of another.
MergeAligned ==
    (view.pc = "loaded" /\ Len(view.alerts) = Cardinality(rows[view.scan]))
        => IsTable(view.alerts, rows[view.scan])

\* No message and no run is left that would still write to scan s.
Settled(s) ==
    /\ s \in live
    /\ slowQ[s] = 0
    /\ \A w \in FastWorker : fast[w].scan # s
    /\ \A w \in SlowWorker : slow[w].scan # s

\* enrichment.py promises that the blob and the alerts table keep the same
\* count once a scan's enrichment is over.
CountsAgree == \A s \in ScanId :
    Settled(s) => Len(blob[s]) = Cardinality(rows[s])

\* The promise holds, row for row, unless the enrichment itself was run again,
\* was cut short or could not write the blob back; an append that rolled back
\* does not disturb it.
BlobMirrorsTable == \A s \in ScanId :
    (Settled(s) /\ outcome[s] # "disturbed") => IsTable(blob[s], rows[s])

\* A capture is analysed into a second scan only if a failure made the broker
\* deliver its message again.
OneScanPerDelivery == \A c \in Capture :
    Cardinality({s \in 1..(nextScan - 1) : origin[s] = c}) <= 1 + faults

(***************************************************************************)
(* The inductive invariant behind MergeAligned.  Every copy of a scan's    *)
(* alerts (the stored blob, the one a run enriches, the one a view has     *)
(* read) lists, in id order, rows that are in the table: rows are added    *)
(* before they are mirrored and only vanish with their scan.  Equal counts *)
(* then leave no room for a different list.                                *)
(***************************************************************************)
Carried(alerts, s) == InIdOrder(alerts) /\ Listed(alerts) \subseteq rows[s]

Saved == 1..(nextScan - 1)
Drawable == {a \in AlertId : a < nextAlert}

ScansWereSaved ==
    /\ live \subseteq Saved
    /\ \A s \in ScanId : slowQ[s] > 0 => s \in Saved
    /\ \A w \in FastWorker : fast[w].scan # NoScan => fast[w].scan \in Saved
    /\ \A w \in FastWorker : fast[w].pc = "saved" => fast[w].scan \in Saved
    /\ view.pc = "loaded" => view.scan \in Saved

TableShape ==
    /\ \A s \in ScanId : rows[s] \subseteq Drawable
    /\ \A s \in ScanId : s \notin live => rows[s] = {}

BlobsCarried == \A s \in live : Carried(blob[s], s)

RunsCarried == \A w \in SlowWorker : slow[w].pc # "idle" =>
    /\ slow[w].scan \in Saved
    /\ slow[w].scan \in live => Carried(slow[w].mem, slow[w].scan)

PendingInOrder == \A w \in SlowWorker :
    /\ InIdOrder(slow[w].pend)
    /\ \A j \in 1..Len(slow[w].pend) :
          /\ slow[w].pend[j] \in Drawable
          /\ \A i \in 1..Len(slow[w].mem) : slow[w].mem[i] < slow[w].pend[j]
    /\ Len(slow[w].pend) > 0 => slow[w].scan \in live /\ Appending(w)

ViewCarried == (view.pc = "loaded" /\ view.scan \in live)
    => Carried(view.alerts, view.scan)

MergeInv ==
    /\ TypeOK
    /\ ScansWereSaved
    /\ TableShape
    /\ BlobsCarried
    /\ RunsCarried
    /\ PendingInOrder
    /\ ViewCarried

(***************************************************************************)
(* The inductive invariant behind BlobMirrorsTable.  As long as nothing    *)
(* disturbs the enrichment of a scan, its token (the message, then the run *)
(* that took it) is unique, so the run's copy is the only one that moves   *)
(* and it moves together with the table.                                   *)
(***************************************************************************)
Enriching(w, s) == slow[w].pc # "idle" /\ slow[w].scan = s
Writing(w, s) == Enriching(w, s) /\ slow[w].pc # "done"

SoleWriter(s) ==
    /\ slowQ[s] \in {0, 1}
    /\ \A v, w \in SlowWorker : Enriching(v, s) /\ Enriching(w, s) => v = w
    /\ \A w \in SlowWorker : Enriching(w, s) => slowQ[s] = 0
    /\ \A f \in FastWorker : (fast[f].pc = "saved" /\ fast[f].scan = s) =>
          slowQ[s] = 0 /\ \A w \in SlowWorker : ~Enriching(w, s)

MirrorKept(s) ==
    /\ \A w \in SlowWorker : Writing(w, s) => IsTable(slow[w].mem, rows[s])
    /\ (\A w \in SlowWorker : ~Writing(w, s)) => IsTable(blob[s], rows[s])

FastScansDistinct == \A v, w \in FastWorker :
    (fast[v].scan = fast[w].scan /\ fast[v].scan # NoScan) => v = w

MirrorInv ==
    /\ MergeInv
    /\ FastScansDistinct
    /\ \A s \in live : outcome[s] # "disturbed" => SoleWriter(s) /\ MirrorKept(s)

(***************************************************************************)
(* The inductive invariant behind OneScanPerDelivery.  Every scan of a     *)
(* capture, every run on its way to one and every message still to be      *)
(* delivered go back to the upload or to a failure of their own.           *)
(***************************************************************************)
ScansOf(c) == {s \in Saved : origin[s] = c}
Parsing(c) == {w \in FastWorker : fast[w].pc = "parsing" /\ fast[w].cap = c}
Uploaded(c) == IF result[c].state = "NONE" THEN 0 ELSE 1

Balanced(c) ==
    /\ IsFiniteSet(Parsing(c))
    /\ Cardinality(ScansOf(c)) + Cardinality(Parsing(c)) + fastQ[c]
           <= Uploaded(c) + faults

DeliveriesCounted == \A c \in Capture : Balanced(c)

(***************************************************************************)
(* The inductive invariant behind LifecycleImplemented: only accepted      *)
(* uploads have messages and runs, a run that saved a scan saved it for    *)
(* its own capture, and only a success names a scan.                       *)
(***************************************************************************)
RunsAccepted ==
    /\ \A c \in Capture : fastQ[c] > 0 => result[c].state # "NONE"
    /\ \A w \in FastWorker :
          fast[w].pc # "idle" => result[fast[w].cap].state # "NONE"

HasSaved(run) == run.pc \in {"saved", "dispatched"}

RunsOwnScans == \A w \in FastWorker : HasSaved(fast[w]) =>
    fast[w].scan \in Saved /\ origin[fast[w].scan] = fast[w].cap

SuccessNamesScan == \A c \in Capture :
    result[c].state # "SUCCESS" => result[c].scan = NoScan

LifeInv == TypeOK /\ RunsAccepted /\ RunsOwnScans /\ SuccessNamesScan

\* Every accepted upload ends as completed or failed, and stays so, in spite of
\* redeliveries that put the task back to PROGRESS.
UploadAnswered == \A c \in Capture :
    result[c].state = "PENDING" ~>
        [](result[c].state \in {"SUCCESS", "FAILURE"})

\* A task is reported as completed only once its enrichment is on its way: the
\* scan gets enriched (or a failure disturbs that), unless it is deleted.
CompletedIsEnriched == \A c \in Capture : \A s \in ScanId :
    result[c] = [state |-> "SUCCESS", scan |-> s]
        ~> (outcome[s] # "none" \/ s \notin live)

(***************************************************************************)
(* The abstract lifecycle of an upload and how the pipeline implements it. *)
(***************************************************************************)
Reported == [NONE |-> "none", PENDING |-> "accepted", PROGRESS |-> "accepted",
             FAILURE |-> "failed", SUCCESS |-> "completed"]

Uploads == INSTANCE UploadLifecycle WITH
    state   <- [c \in Capture |-> Reported[result[c].state]],
    scan    <- [c \in Capture |-> result[c].scan],
    owner   <- [s \in 1..(nextScan - 1) |-> origin[s]],
    present <- live

\* Whatever is redelivered, raised, killed or deleted, the task states and
\* the scans table move as the lifecycle allows: a completed upload is never
\* un-completed by a late run, the scan it is reported with was saved for it,
\* and scans are saved for accepted uploads only.
LifecycleImplemented == Uploads!Spec
=============================================================================
