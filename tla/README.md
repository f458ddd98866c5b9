# PCAPNG Network Analyzer: a TLA+ model

This directory holds TLA+ specifications of the analyzer, TLC configurations
that check them on small instances, and TLAPS proofs of the properties that
matter most. It covers the capture engine with its detectors and aggregators,
the Celery pipeline, the PostgreSQL tables it writes, what is remembered from
one analysis to the next, the upload folder and its retention, the job registry
browsers poll, the audit log and the triage of alerts. Everything is translated from the Python
code; PROJECT.json gives, for each definition, the lines it models.

    tlc -workers 2 -config MCScanPipeline.cfg MCScanPipeline.tla
    tlapm ScanPipelineProofs.tla

## 1. The system

A browser uploads a capture. The web process (Flask under gunicorn, threads)
stores it, and either queues `analyze_pcap` for a Celery worker or, when Redis
is not there at start-up, runs it in a background thread. The worker parses the
capture, runs the detectors, saves the scan (one row in `scans` with the whole
result as JSON, and one row per alert in the partitioned `alerts` table) and
queues `enrich_scan` on a second queue. That task looks up the hashes of carved
files, runs YARA, queries reputation services, appends the alerts it finds and
writes the JSON back. Meanwhile analysts read and triage, admins change rules,
users and webhooks, and a daily task purges old data.

| Component | State | Operations | Talks to | What is hard | What makes it correct |
|---|---|---|---|---|---|
| Analysis pipeline (`celery_app.py`, `enrichment.py`, `database.save_scan`) | two Redis queues, the result backend, `scans`, `alerts` | analyze, save, dispatch, enrich, append, write back, delete, read | everything | acks-late redelivery, worker and child deaths, swallowed errors, two copies of the alerts | an alert is never shown with another's triage state; an upload ends; a completed upload is enriched |
| Audit log (`database.py`) | `audit_log`, an advisory lock | append, verify | hook on every mutating request | concurrent appends, roll-backs, id gaps | the chain never forks; edits and deletions are reported |
| Upload store and retention (`upload_utils.py`, purge) | upload folder, partitions | claim, store, delete, purge | pipeline, packet viewer | names claimed while a sweep walks the folder, dates against timestamps, a clock read twice | scans keep their source, and their alert rows until their retention is over |
| Job registry and status feed (`routes/common.py`, `routes/scans.py`) | `analysis_jobs`, `analysis_status`, two locks | register, update, refresh, mirror, clear | backend, browsers | bounded registry, check and act under different locks, restarts, redelivered runs | a browser learns how its own analysis ended |
| Triage, suppression, signatures (`database.py`, `routes/alerts.py`, `routes/rules.py`) | `suppression_rules`, `fp_signatures`, `alerts.status`, counters | create, toggle and delete rules, file, bump, announce, triage, learn, forget | pipeline, webhooks | stale rules, counters updated in other transactions | no hit is lost, no severe alert is hidden in silence unless the worker dies between the commit and the announcement |
| Accounts and login (`auth.py`, `totp.py`, `routes/auth.py`, `routes/users.py`) | `users`, sessions, login attempts | login, enrol, change role, disable, delete | all routes | the role is checked at the start of a request | somebody can still administer the system |
| Notifications (`notifications.py`) | `webhooks`, dispatch threads | dispatch, mark | pipeline | an error inside the error handler | one dead webhook does not silence the others |
| First-seen artifacts, correlation (`correlation.py`) | `artifact_seen` | detect, upsert, correlate | pipeline | two analyses at once, recorded in another order than they ran, each recording may fail | what is on record is not announced again; sightings are counted exactly |
| Carved files and reputation (`file_carving.py`, `hash_lookup.py`, `yara_scan.py`, `threat_intel.py`) | `carved_files`, caches, rate limits | carve, look up, scan, mark | enrichment | two writers of one verdict column | a malicious verdict survives |
| Capture engine (`_core.py`, `aggregators/`) | one table per aggregator and per detector, flow tracking | one call per frame, then finalize, post detectors and the alert schema | pipeline | lost and reordered frames, budgets shared by many flows, a detector that raises | budgets hold, the report loses no evidence |
| Detectors (`detectors/__init__.py`, `detectors/post.py`) | windows, counters, sets per address or pair | update, finalize | engine, each other | window edges, thresholds that divide work between detectors, evidence that arrives in any order | windows count exactly, probes are not conversations, alerts stand, an upload is told once |
| Host identity (`hosts.py`, `routes/hosts.py`, `host_roles.py`, `database.record_hosts`) | bindings seen, `hosts`, `host_ips`, `ip_names` | observe, resolve, bind, unbind, exclude, rename, delete | engine, pipeline, users | relayed and claimed addresses; users decide while analyses run on what was decided before | an address goes to the machine that stated it; no analysis undoes a decision |
| Alert schema, rules (`alert_schema.py`, `soc.py`, `user_rules.py`, `suricata_import.py`) | none | enrich, suppress by role, badge, merge; match, group, count | engine | merging alerts of different severity | the merged alert is as severe as its worst part |
| Settings, connection pool, exports, browser UI, schema | a JSON file, the pool | load, save, lend, render | all | the pool's limit | section 6 |

The `hazards` list of PROJECT.json names, with its line, each place where the
code is hard to test and the properties aimed at it.

## 2. The modules

**ScanPipeline** (checked through **MCScanPipeline**, which only adds symmetry).
The queues count deliverable messages: `StartAnalyze` and `StartEnrich` take
one, and because the tasks acknowledge late, `FastWorkerDies` and
`SlowWorkerDies` put it back and `RedeliverAnalyze`/`RedeliverEnrich` model the
visibility timeout passing while the run goes on. Each worker has a program
counter with one value per commit: parsing, saved, dispatched for the fast
queue; hash, yara, persist, done for the slow one. An alert is the id of its
row and a blob is a sequence of ids, which is all the positional merge of
`merge_alert_triage_state` can tell apart. `InsertAlert` draws ids one
by one and `CommitAlerts` makes the rows visible and mirrors them into the
in-memory blob, so that two enrichments interleave their ids. `Persist`
overwrites the whole blob. `ReadBlob` and `MergeTriage` are the two
transactions of `GET /api/results`. `AnalyzeRaises`, `AppendRaises`,
`PersistRaises` and `SlowChildKilled` are the `except` branches and a child
killed by the kernel. `Store` keeps a stored SUCCESS, as Celery does.

**UploadLifecycle** is what the pipeline promises, without queues, workers or
messages: an accepted upload may fail and be tried again; once completed it
stays so, with a scan saved for this very upload; a scan belongs to one upload
for good and does not come back once removed. ScanPipeline implements it
(`Uploads == INSTANCE UploadLifecycle WITH ...`): an upload is completed when
the result backend holds SUCCESS, failed when a failure is the last answer, and
its scans are the rows of `scans`.

**The engine family.** `Engine` is `PCAPAnalyzer`: `Receive` feeds one frame to
every aggregator and every detector but those whose `update` raises on it
(`Heard`), `Finish` is `_run_detections` and what
follows, with a set of detectors that raise. Its parts are operators, as in the
code: for a detector D, `DInit` is `__init__`, `DUpdate(s, f)` its `update` on a
frame and `DAlerts(s)` its `finalize`.

| Module | Source | Contents |
|---|---|---|
| Traffic | `detectors/__init__.py` (helpers) | frames, the local network, the severity ladder, sanctioned services, sliding windows |
| TcpFlows | `TcpFlowTracker` | flows, handshakes, ICMP evidence, `status_for` |
| ScanDetectors, SpoofDetectors, DnsDetectors, AccessDetectors, ExfilDetectors, ExposureDetectors | `STREAMING_DETECTORS` | every streaming detector |
| PostDetectors | `detectors/post.py`, `flow_anomaly.py` | those that run once over what the aggregators collected |
| Aggregators | `aggregators/__init__.py`, `user_rules.py` | every aggregator, user rules included |
| Hosts | `pcap_analyzer/hosts.py` | observed bindings, routers, the owner of an address, bindings made by hand |
| AlertPipeline | `alert_schema.py`, `host_roles.py`, `host_risk.py`, `soc.py`, `_core.py` | KEV, machines, roles, badge, merge, the severity part of the risk score |

A frame is a record of what decoding yields: protocol, endpoints, time stamp,
size and the few facts a detector asks of a payload. A text is a record of what
is derived from it (a domain name: its registrable zone, its score, whether it
looks encoded); entropy, autocorrelation and the isolation forest are constants
(`Entropy`, `Autocorrelation`, ...). Time stamps are whole seconds and
percentages whole numbers. Titles, descriptions and samples are left out; an
alert is its rule, severity, endpoints and subject. Lists of frames are sets,
since two frames of a capture differ in their number.

**MCEngine** supplies 28 small captures ("themes": scans, probes, logins, DNS,
uploads, TLS, HTTP, ...) and thresholds small enough for them. The capture of a
run is any part of a theme's frames in any order: the sniffer loses frames,
interfaces are merged, `max_packets` cuts. A frame whose view cannot be extracted
is passed over like a lost one, except that it takes a place under `max_packets`.

**Inventory** (with **MCInventory**). What outlives an analysis. An analysis is
`ReadBindings` (the users' decisions, read once at its start), `Analyze`
(`build_hosts` on what was read), `CountHistory`, `RaiseFirstSeen` or
`CorrelationFails`, `SaveScan`, `RecordArtifacts`, `ReadLabels`, `RecordHosts`;
each write may fail and be swallowed, as in `save_scan`. A worker that dies just
stops. Users bind and unbind in two statements of one transaction
(`BeginBind`/`CommitBind`, `BeginUnbind`/`CommitUnbind`) under READ COMMITTED:
rows another transaction has deleted are locked (`Doomed`) but still visible, and
an unbind acts on the row as it selected it. Which of several MACs owns an
address is left open, since Hosts models it; the times of rows are left out.
The names of machines are where they come from (the network, a label, the
user).

**AuditChain**. `write_audit` is `Request`, `Acquire` (the advisory lock),
`ReadTail`, `Insert` (draws the id) and `Commit`, or `Fail` at any point, which
rolls back and leaves a gap. `EditRow` and `DeleteRow` are the tampering that
the chain is there to show. `Broken` is one iteration of
`verify_audit_chain`. sha256 is taken as injective: a digest is the
sequence of contents it commits to. Rows older than the chain (`row_hash` NULL)
are filtered by both queries and left out. Rows removed from the end of the log
leave no trace, since nothing links to them; `DeleteShows` says so.

**AuditLog** is what the chain promises, without connections, locks, ids or
hashes: a list to which `Write` appends one entry, until somebody reaches behind
it (`Touch`), after which it promises nothing. AuditChain implements it
(`Log == INSTANCE AuditLog WITH ...`): what is written is what the digest of the
last row commits to, which under an injective sha256 is the list of all contents.

**UploadStore**. The candidates of one sanitized name are 1, 2, ..., and the
content of a file is the upload that wrote it. `ClaimName` is one
`open(O_CREAT | O_EXCL)` with its retry, `StoreUpload` the write, `StoreFails` a client that
goes away, `StartReading`, `SaveScan` and `AnalysisFails` the analysis. A purge
is `PurgeScans`, `DropPartitions`, `ReadReferenced`, `ListFolder`, then for each
entry `CheckEntry` and, later, `RemoveEntry`. A clock of ticks, days and months
drives cutoffs and ages. `PurgeScans` and `DropPartitions` each compute a cutoff
of their own, as `purge_old_scans` and `drop_old_partitions` do, and time passes
between them and between all other steps but one (see Assumptions).

**JobStatus**. What the code does under one lock is one action. `update_job`
and `set_job` have three critical sections each: the entry (`UpdateJob`,
`StoreEntry`), the comparison with the latest job (`CompareUpdate`,
`CompareRead`), and `_mirror_latest` (`MirrorUpdate`, `MirrorRead`). `celery` is
chosen at the start: without it a background thread updates the entry; with it
`WorkerStarts`, `WorkerReports` and `WorkerEnds` write the result backend, which
keeps a stored SUCCESS (`Store`). The tasks acknowledge late: `WorkerDies` puts
the message back and `Redeliver` delivers it again while its run goes on, so a
later run may overwrite a stored FAILURE. A task's record counts its messages
and runs and remembers whether it was redelivered and whether it ever stored a
failure. `ReadStatus` is `_refresh_status_snapshot`
up to its write-back, `Deliver` a data frame of `/api/status/stream`. `Restart`
loses the registry and the threads and cuts the streams (reader `cut`), which
may then be opened again. The one-hour cap of a stream only makes the browser
connect again and is left out, as are progress numbers and messages.

**AlertTriage** (with **MCAlertTriage**, which defines the hosts, alerts and
rules). A save is `ReadRules`, `ReadSignatures` (two statements under READ
COMMITTED), `Commit`, `BumpHits` or `BumpFails`, `Announce`; `Crash` cuts it
anywhere. Triage is `TriageAlerts` (the UPDATE), then one `Learn` or `LearnFails`
for each false positive. `AppendAlert` is what an enrichment adds. Rules match
on the kind of an alert instead of on category strings and title patterns, and
the choice of the first matching rule is free, since the SELECT has no
ORDER BY.

Each module also holds, right before the definition they distort and marked
`mutant`, variants with a plausible bug; TLC finds the matching property
violated when one replaces the original. They are not used by the
specifications.

## 3. What the runs show

| Run | Question | Result |
|---|---|---|
| scan_safety | `MergeAligned`: when blob and table have equally many alerts, the i-th is the i-th. `BlobMirrorsTable`: once nothing more will write, they are row for row the same unless the enrichment was repeated, cut short or could not write back. `OneScanPerDelivery`: a capture becomes a second scan only after a redelivery | holds |
| scan_live | `UploadAnswered`: every upload ends and its answer is then final. `CompletedIsEnriched`: a completed scan is enriched. `LifecycleImplemented`: every step of the pipeline is one of UploadLifecycle or none | holds, the first two under fairness |
| scan_counts | `CountsAgree`, the promise of `enrichment.py:17-21` | violated: one failed write-back, or one repeated enrichment, leaves the counts different for good |
| engine | every detector and aggregator on every part of the captures in every order. `WindowedCountsExact`: the two-pointer sweeps count what looking at every window would. `AlertsStand`: reading on never withdraws or softens an alert of the rules in `Lasting`. `ConversationBeforeAlarm`: an unanswered probe is not reported as a service in use. `ExfilSpokenOnce`: no upload is told twice by the three detectors. `CarvingBounded`: the budgets hold and the books agree. `HostIdentitySound`: a stated address goes to a machine that stated it. `ReportKeepsEvidence`: whichever detectors fail, the others' alerts are in the report at their severity. Two detectors may each miss any frame, one may raise at the end | holds |
| user_rules | `RuleFires`, what `user_rules.py` says of `window_seconds` | violated: the window is compared with the span of the whole group, so an earlier matching frame silences a burst |
| inventory | `FirstSeenOnce`: nothing that was on record when the analysis began is announced as first seen. `SeenBooksExact`: counts and last sightings are those of the recorded scans in whatever order. `DecisionsStand`: no analysis undoes a binding, an exclusion or a name. `GoneStaysGone`: deleted machines do not return | holds, for addresses whose edits did not overlap |
| audit_chain | `UntouchedVerifies`, `EditShows`, `DeleteShows`; `LogImplemented`: every step is an append to one list, a tampering, or none | holds |
| upload_store | `SourceKept`, `InFlightKept`, `YoungFilesLeftAlone`, one purge at a time. `AlertsKept`: a scan loses its alert rows only with itself, or to a purge between whose two readings of the clock its cutoff passes the first of a month | holds |
| upload_sweeps | `YoungFilesLeftAlone` with the daily purge and an admin's at once | violated: a freed name is claimed between the age check and `os.remove` |
| job_status | `ToldTheTruth`: a browser told `completed` or `error` was told it of its own analysis; a completion is final, an error is a failure some run of it stored, and final unless the message was delivered again. `RegistryBounded`, `LatestSettles`, and under fairness `EndIsTold`: an analysis whose end nothing can change any more is told; both modes | holds |
| alert_triage | `SuppressionIsScoped`, `HitsAccounted`, `HidingIsAnnounced`, `FalsePositivesTrain` | holds |
| classifier | `OnlyVettedIsFiled`, the promise of `database.py:2632` | violated: first-seen alerts have a constant title and no address, so one verdict covers every later artifact of the type |

The four violations are listed as findings in PROJECT.json with the lines they
contradict.

### What `AlertsStand` leaves out

Not every rule is monotone, by design: averages and ratios (beaconing,
brute-force rates, drips, volume against what came back), rules that stand back
for another detector, rules that a later frame explains (a learned router, an
answered probe, a Kerberos client that pre-authenticates after all), and ladders
on the share of something. `Lasting` in Engine names those for which more
traffic is only more evidence.

### Other places where text and code differ

Met while modelling; the model follows the code.

* `bind_host_ip` says an address belongs to one machine by user decision
  (`database.py:1331-1332`). Two overlapping requests each delete what they see
  and insert their own row, and both stay (variable `raced` of Inventory).
* `detect_new_artifacts` calls itself idempotent (`correlation.py:155-157`); a
  second call on the same results sees the same table and adds every alert again.
  The pipeline calls it once.
* The carving docstring (`aggregators/__init__.py:581-582`) describes the budgets
  one after the other; the code takes the smaller remainder (`:636`).
* `post.py` wants the KEV enricher last, but flow anomalies and user rules are
  appended after it, so their CVEs are not marked.
* The comment of `host_roles.py:103-105` and the severity the rule yields differ;
  rules for first-seen alerts never apply, since those are added later.
* In `hosts.py` the IPv6 router heuristic cannot fire: Ethernet sources are
  noted for IPv4 frames only.
* A merged alert inherits `suppressed_reason` from any of its parts.
* `first_seen_at` of an artifact is the stamp of the analysis that recorded it
  first, which need not be the earliest (hence "one of" in `SeenBooksExact`).
* `database.py:779-781` (and `:203`) says that `scans.alert_count` tracks only
  alerts that still need attention. It is written when alerts arrive (`:783`,
  `:3349`) and by no triage (`:2789-2893`), so after the first verdict it is
  wrong. No property states the comment, which a step as short as one triage
  refutes; the theorem `BadgeIgnoresTriage` says by how much it is off.
* `drop_old_partitions` drops "partitions whose entire date range is beyond
  retention_days" after `purge_old_scans` has deleted the scans beyond it, so as
  to leave no scan without its alerts. Each reads the clock for itself
  (`database.py:3480` and `:3622`), with a cascading DELETE and its commit in
  between: when the cutoff passes midnight onto the first of a month there, the
  partition of scans that the DELETE spared is dropped, and they are shown
  without alerts until the next purge deletes them.
* A browser told `error` is not told again, yet with `task_acks_late`
  (`celery_app.py:46`) a redelivered run of the same analysis may complete
  (`:95`, `:165-176`), save its scan and turn the stored FAILURE into SUCCESS.
* `set_job` and `update_job` compare under the lock and mirror after it
  (`routes/common.py:131-134`, `:145-148`): a write for the older of two jobs may
  overwrite the snapshot of the newer, which then is not "latest" to anyone who
  asks without an id, and its own later writes are not mirrored. `LatestSettles`
  speaks of the job that is latest, whichever that is, and does not exclude it.


### Bounds

* ScanPipeline: one capture, two failures, two slow workers, two scans, four
  alert ids. Two failures are what a second run of the same enrichment needs to
  overlap with the first and then to lose its write-back; two scans are what a
  redelivered analysis makes. The workers of one queue are symmetric. The
  liveness run has two fast workers (a run that outlives its visibility timeout
  beside its repetition), one failure and no symmetry. `MaxFaults` is the only
  bound the properties depend on: it bounds `OneScanPerDelivery` from above.
* Engine: at most `MaxPackets` = 6 frames, taken from themes of 4 to 9, with
  thresholds of 2 or 3 where the code has 10 to 100; a threshold is only ever
  compared, so a small one shows both of its sides. Each theme holds frames for
  several detectors on the same hosts, so that their cross-references happen.
  `MaxPairs`, `MaxBindings`, `MaxFlows` and the like (tables of thousands in the
  code) are not reached, except the carving budgets, which are. `Deaf`, the
  detectors that may miss any frame, are one with flow tracking (`insecure`) and
  the carver; `Faulty` is `port_scan`, whose alerts others consult. An `update`
  that raises is taken to have changed nothing; one that raises half-way through
  is not modelled. `WindowedCountsExact` is about the three detectors with the
  two-pointer sweep; the windows of SNMP walks, brute force and spraying are
  modelled as their code counts them, without a property of their own.
* Inventory: two analyses, two users with three edits between them, two MACs and a
  machine made by hand around one address; two artifacts of which one may be
  raised. Three edits are a bind, an unbind and a bind again, or two overlapping
  ones and the one that settles them.
* AuditChain: three writers, four ids and two tampered rows, enough for an edit
  and a deletion with a gap and a write between them. The theorems remove the
  bounds.
* UploadStore: two uploads of one name, two suffixes, two scans; the clock
  covers two months of two days of two ticks, so every position of a cutoff in
  a day and in a month occurs, and files of every age meet the sweep.
* JobStatus: two uploads and a registry of one entry, so the second evicts the
  first; the first has a browser that streams it, the second is the one that
  comes in between, and a third reader asks for the latest. One fault: a restart,
  or a worker that dies, or a redelivery, which is what a second run after a
  stored failure takes.
* AlertTriage: one rule, two alert rows, two scans and two savers: two saves
  that hit the same rule, with the rule toggled or deleted in between.

`MaxScans`, `MaxAlerts`, `MaxRows`, `MaxClock`, `MaxName`, `MaxRules` stop a run
at its edge, where the models may have no step left; hence
`CHECK_DEADLOCK FALSE`. Where a liveness property would be at the mercy of such
an edge (a save that cannot draw its ids), the bound exceeds what the failures
of that run can consume: one failure allows two scans with one alert each.

### Fairness and why the code justifies it

* A worker that has a message goes on (`WF` of `FastStep` and `SlowStep`): a
  prefork child runs straight-line Python; its death is a separate failure and
  failures are bounded and never required.
* A queued message is eventually taken (`SF` of `StartAnalyze` and
  `StartEnrich`): the broker's lists are FIFO, so a message that keeps becoming
  deliverable is not overtaken for ever. Weak fairness would not do: with one
  worker the action is disabled whenever the worker is busy.
* A web thread and a streaming reader go on (`WF` of `UploadStep` and
  `ReadStep`): the stream's generator polls in a loop every half second. Uploads,
  new streams, clears and restarts are never forced; nor does a Celery
  analysis have to end, so `EndIsTold` starts at its end.

### Assumptions

* UploadStore: an upload becomes a scan or fails before its file is `Deadline`
  old, with `Deadline <= MinAge` (the grace period exists for that; an analysis
  queued longer would lose its file), and no tick falls between the sweep's
  reading of the names in use and of the clock, two consecutive statements. The
  comment of `cleanup_orphaned_pcaps` states the first. An admin may pass `min_age_hours` and `retention_days` of
  their own; those requests are outside these bounds, as is `dry_run`.
* Inventory: the keys of machines made by hand differ from those of discovered
  ones and are never used twice (`create_manual_host` draws them at random
  behind a prefix of their own), and `artifacts` are numbered in their sorted order.
* Redis and PostgreSQL keep what they acknowledged. Two transactions on the same
  rows see each other as READ COMMITTED does. The foreign key from `alerts`
  keeps a scan alive while an open transaction has inserted alerts for it.

## 4. What is proved

The theorems hold for every value of the constants that satisfies the named
assumptions (bounds are naturals, sentinels are not among the values).

**ScanPipelineProofs.** `TypeCorrect` (Spec => []TypeOK), `MergeInvariant` and
`MergeIsAligned` (Spec => []MergeAligned). `MergeAligned` is not inductive: it
speaks of a view, which copied a blob, which a run wrote from memory.
`MergeInv` follows the alert ids along that path: every copy of a live scan's
alerts (the stored blob `BlobsCarried`, the list a run enriches `RunsCarried`, the
one a request has read `ViewCarried`) is in id order and lists only rows of the
table; ids a run has drawn but not committed are above those it carries and
below the sequence (`PendingInOrder`); rows belong to scans that exist and were
saved (`TableShape`, `ScansWereSaved`). A strictly increasing list inside a
finite set of the same size lists exactly that set, which is the last step,
from a lemma on the cardinality of images.

The refinement: `LifeInvariant` and `PipelineImplementsLifecycle` (Spec => the specification of UploadLifecycle under the mapping). The mapping
alone is not enough: that a stored SUCCESS names a scan of the same capture
follows from what a worker carries. `LifeInv` says that every run works for an
accepted upload (`RunsAccepted`), that a run past its save has a scan of its own
capture that was saved (`RunsOwnScans`), and that a stored SUCCESS names such a
scan (`SuccessNamesScan`). Then each action of the pipeline is matched with an
abstract step: the commit of a save, an answer stored, a scan deleted, or none.

Two more invariants of ScanPipeline carry its other two properties.
`MirrorInvariant` and `BlobIsTheTable` (Spec => []BlobMirrorsTable): unless
something disturbed a scan (a second run of its enrichment, a child killed, a
write-back lost), the message or the run that holds it is the only writer
(`SoleWriter`); while a run still has to write, its list is the table, and
otherwise the blob is (`MirrorKept`). `DeliveriesInvariant` and
`ScansPerDelivery` (Spec => []OneScanPerDelivery): a capture's scans, its runs on
the way to one and its undelivered messages together never exceed one plus the
failures (`DeliveriesCounted`); redeliveries make messages, and only out of
failures.

**AuditChainProofs.** `TypeCorrect`, `ChainInvariant`, `ChainVerifies`
(Spec => []UntouchedVerifies), `EditIsReported` (Spec => []EditShows) and
`DeletionIsReported` (Spec => []DeleteShows). The
invariant `ChainInv` says that whoever is past the lock holds it (`LockHeld`),
that ids only grow and the holder's is the largest (`IdsDrawn`), that the tail
the holder read is still the tail (`TailRead`), and that links and hashes, those
of removed rows included, are those of the commit (`HashesKept`). The advisory
lock is thereby shown to be what keeps the chain from forking. That edited
contents are reported uses `HashesKept` and the injectivity of the digest.
`ChainImplementsLog` (Spec => the specification of AuditLog under the mapping)
says it in terms of the whole log: since the tail the holder read is still the
tail and its id is the largest, a commit makes its row the last one
(`CommitAppends`) and the list grows by its contents; no other step moves the
tail while nobody tampers. Two appends never share a predecessor, and none is
lost. Without the lock it is false: two writers then
read the same tail, and the second commit replaces what the first had added.

**UploadStoreProofs.** `TypeCorrect` and `AlertsOutlivePurges`
(Spec => AlertsKept, and []StrippedAreOld) hold for any number of purges at once,
however long each takes. A purge remembers the cutoff of its DELETE; what it
spared is younger than that (`OldScansGone`), and the cutoff of the partitions is
no earlier. So a partition that is dropped holds rows of a scan only when the two
cutoffs have the first of a month between them (`PassedBetween`, the exception
`AlertsKept` names), and then the retention of that scan is over
(`StrippedAreOld`): the next purge deletes it. The other
three, `ScansKeepTheirSource` (`SourceKept`), `UploadsKeepTheirFile`
(`InFlightKept`) and `SweepsSpareYoungFiles` (`YoungFilesLeftAlone`), are stated
under `SweepsApart`: one purge at a time, and an analysis that ends before its
file is old enough to be swept. The first cannot be dropped: run `upload_sweeps`
is what happens without it. `StoreInv`: an upload in flight owns its name and a
file too young to sweep (`NamesHeld`, `FilesAged`), the files of scans are there
(`ScansSourced`), a scan the sweep did not find in the table has a file too new
for it, and what it is about to remove is old and was not in the table
(`SweepSound`).

**JobStatusProofs.** All four safety properties: `TypeCorrect`, `NobodyIsMisled`
(Spec => []ToldTheTruth), `RegistryStaysBounded` (Spec => []RegistryBounded) and
`LatestCatchesUp` (Spec => []LatestSettles). An entry, a snapshot copied out of a
lock and what a reader is about to store are each something the job came to
(`CopiesTrue`): a success, which the backend keeps, or a failure that one of its
runs stored. Such a failure need not last, because the message may be delivered
again; what makes it last otherwise is that a message delivered once is in one
place, the queue or a run, until that run has ended (`RunsCounted`). Threads only
move forward (`JobsMoveForward`). A reader asks for one job, a browser for its
own (`ReadersAsk`); one whose entry was evicted meanwhile finds no key to update,
so the registry does not grow behind `register_job`'s back.

**AlertTriageProofs.** All five properties of the run, from `TriageInv`: rules
alerts are filed under have their scope and are never changed, only switched off
or deleted (`RulesStand`), no two saves answer for the same hidden alert
(`HidersApart`), every row belongs to a saved scan (`RowsSaved`), and
`alert_count` is the number of alerts that arrived unhidden
(`BadgeCountsArrivals`). The counters are compared with the cardinalities of the
sets they count; each step adds or removes one element or none.
`BadgeIgnoresTriage` follows: what the badge shows exceeds what still awaits
attention by the alerts triaged away, and falls short of it by those filed on
arrival and reopened.

**InventoryProofs.** All five properties of the `inventory` run: `TypeCorrect`,
`SeenIsAnnouncedOnce` (Spec => []FirstSeenOnce), `BooksAreExact`
(Spec => []SeenBooksExact), `DecisionsHold` (Spec => []DecisionsStand) and
`DeletedStayGone` (Spec => []GoneStaysGone). The foreign key of `TypeOK` needs to
know that a bind which is about to insert finds its machine, and that rows a bind
deleted are still its own: `TypeInv` adds the locks (`DoomedLocked`), what an
unbind had selected (`SelectedThere`) and the shape of rows (`RowShape`).
`FirstInv` ties the history of recorded analyses to the rows: all they met has a
positive count (`OnRecord`), and what an analysis saw recorded when it started
still is (`BeforeRecorded`). `BooksInv` counts the recorded analyses that met an
artifact; an upsert adds one analysis that was not among them (`RecordedRan`) and
takes the larger stamp. `WishesInv` is the argument for the users: an edit that is
alone shares its address with no other (`AloneApart`), so a bind deletes every
other manual row (`AloneSeesAll`), and an unbind acts on the row as it is
(`AloneActsOnRow`); rows users removed are automatic and marked
(`RemovedMarked`), and `record_hosts` creates rows only where there is none, for
discovered machines, and keeps names that were edited (`NamesKept`,
`BindingsKept`). `raced` addresses are excluded by the property itself, because
there the code does leave two manual owners.

**EngineProofs.** For every capture, every order of its frames and every part of
it that is read. What a theorem asks of captures and thresholds is a hypothesis
of its own, named in the module; the instance of the `engine` run meets them all.
Each theorem holds whichever detectors raise on whichever frames, but for the two
that compare detectors with what was read: the division of uploads asks
that `volume`, `sustained` and `host_exfil` miss no frame, and host identity that
the `hosts` aggregator misses none (`Attentive`). With one of them deaf to a frame
the claim is false of the code too: a pair is then told twice, or an address goes
to whoever relayed it.

* `ReadInvariant`, `TypeCorrect`: what is read is a finite part of the capture,
  no frame counted twice. `CutAssumption`: `max_packets` is a number.
* Sums. The detectors add bytes with a fold over a set. The library's induction
  principles cannot be used (they take an operator as a parameter), so the
  recursion equations of the fold, and from them additivity, are derived from a
  least counterexample: were some subset of a finite set without its sum, a
  smallest one would be (`WFMin`).
* `CarverStaysInBudget` (Spec => []CarvingBounded), by `CarvingInv`: the total is
  the sum over the streams at every frame, whatever is dropped. Lengths and
  budgets are naturals (`LengthsAssumption`, `CapsAssumption`).
* `UploadsInvariant`, `UploadsAreSpokenOnce` (Spec => []ExfilSpokenOnce): the
  three exfiltration detectors hold the same frames (`UploadsInv`), so what one
  sums is at least what another does, and the thresholds divide the pairs.
  `RoomForPairs`: the host aggregate's table has room for the capture's pairs;
  beyond it the detector of whole machines forgets, and nothing is claimed.
  `SizesAssumption`: sizes are integers.
* `TalkInvariant`, `ProbesStayLow` (Spec => []ConversationBeforeAlarm): each mark a
  flow record bears goes back to a frame that was read, and status ranks as
  answered only flows with such a mark (`TalkInv`). A frame earlier in the capture
  may be read later or never: only what was read counts. `SegmentsSpeak`: a frame
  with a database greeting has a payload.
* `SweepIsExact`, `WindowsCountExactly` (Spec => []WindowedCountsExact): the sweep
  of two pointers has a loop invariant (`SweepInv`) over the frames in order of
  time: the right pointer is at the last frame that the window of the left one
  reaches, the counts are those of what lies between them, and the peak is the
  largest so far. Then the peak is that of looking at every window. `FramesAssumption`: stamps and numbers
  of frames are integers, and no two frames share a number; `WindowsAssumption`:
  widths are naturals (with a negative one the pointers would cross).
* `HostsInvariant`, `OwnersAreRight` (Spec => []HostIdentitySound): the table of
  bindings is what the frames read have told, each pair once with every way it was
  told (`Tracks`), so the trusted binding that `build_hosts` picks was stated by
  its machine whenever some machine stated the address. `RoomForBindings`:
  `MAX_BINDINGS` is not reached, since the code then stops learning.
  `HandsAssumption`: a user binds an address to one machine (the DELETE of
  `bind_host_ip`), and a binding's MAC is that of the machine it names.
* `StandInvariant`, `EvidenceStands` (Spec => AlertsStand): one argument for each of
  the twelve detectors in `Lasting`, in two halves. A frame only adds to what the
  detector holds (`Accumulates`): queries, messages and marks of flows are never
  taken back, and a tunnel keeps what was first judged of it. And with more of it
  the alert stands (`Stands`): counts do not fall, so no rung of a ladder is left;
  the status of a flow only moves towards established, and so does the best
  status over the flows of a service (`StatusGrows`, `BestGrows`). The invariant
  adds that these sets are finite, since cardinalities are compared.
  `ScoresAssumption`: the DGA score of a name is a number.

**ReportProofs.** `ReportInvariant` and `ReportIsComplete`
(Spec => []ReportKeepsEvidence): for every capture, every threshold and
whichever detectors raise. It goes through the whole report, in three parts.

* The pipeline (`alert_schema.py`, `_core.py`) works on a set of alerts: the
  catalog's are added, some are lowered by the role of their address, and what
  has the same key is merged into the most severe. Each alert that goes in has an
  entry with its key, as severe as itself or lowered and marked. The counts need
  more: two alerts could become one before they are counted, if they differed
  in nothing but a severity that a role then lowers to the same. So of the alerts
  of the five rules a role may lower, no two differ in their severity alone
  (`Distinct`), and all alerts together are finitely many, with severities on the
  ladder (`Sound`).
* What each detector raises is shown to be so, one lemma for each of its sets of
  alerts: most raise no rule that a role lowers, which leaves finiteness and the
  ladder; the others raise one alert per subject.
* For that the detectors' states must be finite and well formed: `Held`, one
  conjunct for each detector and aggregator (sets, tables of records, tables of
  sets, lists), kept by every `DUpdate`. `ReportInv` is `Held`, and that a report
  is the pipeline's work on what is held with some detectors missing.

Detectors that fail only take alerts away, so the alerts of those that did not
are among those of the report, and these among those of all. The hypotheses:
`RulesAssumption` (finitely many user rules, with the severities the schema
documents, and none titled like one of the five rules; `load_rules` validates
neither, and a rule that broke them could lose a count),
`PatternsAssumption`, `CatalogAssumption` and `ListedAssumption` (the lists of
patterns, known exploited vulnerabilities, ports and interfaces are finite or
carry severities of the ladder), `OutliersAssumption` (the isolation forest gives
a flow a severity or none), `BindingsAssumption` (the bindings made by hand are a
list). The instance of the `engine` run meets them.

Only model-checked:

* `UploadAnswered`, `CompletedIsEnriched`, `EndIsTold`: liveness, which together
  with ENABLED is out of the prover's reach.
* `CountsAgree`, `RuleFires`, `OnlyVettedIsFiled` and `YoungFilesLeftAlone` without
  `SweepsApart` are false of the code; their runs show how.

## 5. What is not modelled

* Accounts, login and the second factor; notifications; settings; the connection
  pool: concurrent state of their own, which no module touches (section 6).
* Behavioral baselines (`behavioral.py`) and `correlate_intra_scan`: functions
  of the stored history and of one report (section 6).
* Packet decoding (`pkt_view.py`, `tls.py`, `ssh.py`), file extraction, the
  Suricata importer, the validation of rules: parsing of texts and bytes, whose
  results enter as fields of frames and rules.
* Measures on texts and samples: entropy, DGA score, autocorrelation, the
  isolation forest. They are constants; which samples they are given is modelled.
* The network side of reputation services and webhooks.
* Reports, exports, packet index, host views, MITRE mapping, the asset table
  (`record_assets`, a plain upsert): formatting and read-only views.
* Time-stamp hygiene of records (`_epoch_to_dt`, time zones).
* Database schema creation and deployment files. Worker counts and queue names
  enter as constants; note that `ensure_month_partition` has no route and no
  worker of docker-compose.yml consumes the default queue, so only the
  partition created on demand by `save_scan` is modelled.
* Carved-artifact directories in the purge (keyed by the stem of the capture's
  name), next to the files that are modelled.

## 6. What is done and what is open

Modelled: the pipeline and the life of an upload it implements, the audit chain
and the log it implements, the upload store, the job registry, triage, the engine
with its detectors, aggregators and report, and what outlives an analysis.
Proved, in eight modules: for each of them the type invariant and every safety
and action property of its passing runs, and both refinements.

Open, in the order in which it would be worth doing:

1. **Accounts**: users, sessions and roles read at the start of a request, the
   last admin, TOTP enrolment with two open enrolments, and the login lock whose
   check and count are separate steps.
2. **Reputation**: the verdict columns of `carved_files` with two writers
   (`update_carved_file_reputation` overwrites what a YARA match has set,
   `database.py:3452`), caches and rate limits.
3. **Notifications** with their threads and the failure inside the failure
   handler (`notifications.py:108`), **Settings** (load, merge, save) and
   **ConnPool** (the limit, dead connections, a fork).
4. **Correlation rules** (`correlate_intra_scan`) and behavioral baselines as
   operators on a report.
