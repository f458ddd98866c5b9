----------------------------- MODULE JobStatus ------------------------------
(***************************************************************************)
(* How a browser follows its analysis: the in-memory registry of           *)
(* routes.common (analysis_jobs and the "latest" snapshot analysis_status, *)
(* each under its own lock), the uploads and background threads that write *)
(* it, the /api/status readers that refresh it from Celery's result        *)
(* backend and write it back, the workers behind that backend, POST        *)
(* /api/clear, and a restart of the web process.  A snapshot is the job it *)
(* names and its status.                                                   *)
(***************************************************************************)
EXTENDS Integers, Sequences, SequencesExt

CONSTANTS
    Job,          \* uploads
    Browser,      \* uploads whose browser streams its job (the others left)
    NoJob,
    Anyone,       \* a reader that asks for the latest job, without an id
    MaxTracked,   \* MAX_TRACKED_JOBS
    MaxFaults     \* bound: restarts of the web process, worker deaths and
                  \* redeliveries of a running analysis

ASSUME BoundsAssumption == MaxTracked \in Nat \ {0} /\ MaxFaults \in Nat
ASSUME NamesAssumption ==
    Browser \subseteq Job /\ NoJob \notin Job /\ Anyone \notin Job

Reader == Browser \cup {Anyone}
Status == {"idle", "analyzing", "completed", "error"}
Terminal == {"completed", "error"}
Snapshot == [job : Job \cup {NoJob}, status : Status]

VARIABLES
    celery,    \* CELERY_AVAILABLE, fixed when the process starts
    state,     \* the analysis itself; in Celery mode, its result backend
    task,      \* in Celery mode, the deliveries and runs of the analysis
    tracked,   \* keys of analysis_jobs, oldest first
    entry,     \* analysis_jobs[job]["status"], "idle" without an entry
    latest,    \* analysis_status
    upload,    \* the upload request, then (no Celery) the background thread
    reader,    \* each reader in _refresh_status_snapshot
    told,      \* the terminal status each browser was sent, "idle" before
    faults

vars == <<celery, state, task, tracked, entry, latest, upload, reader, told, faults>>
registry == <<tracked, entry>>

State == {"NONE", "PENDING", "STARTED", "PROGRESS", "SUCCESS", "FAILURE"}
StatusOf == [NONE |-> "idle", PENDING |-> "analyzing", STARTED |-> "analyzing",
             PROGRESS |-> "analyzing", SUCCESS |-> "completed", FAILURE |-> "error"]
Ended(j) == state[j] \in {"SUCCESS", "FAILURE"}

\* Copies of the message a worker may still take, runs under way; `repeated`: the
\* message was delivered again during a run; `failed`: a FAILURE was stored.
Task == [queue : Nat, runs : Nat, repeated : BOOLEAN, failed : BOOLEAN]
NoTask == [queue |-> 0, runs |-> 0, repeated |-> FALSE, failed |-> FALSE]
Copies(j) == task[j].queue + task[j].runs

UploadPc == {"idle", "announce", "running", "compare", "mirror", "over"}
ReaderPc == {"closed", "cut", "open", "store", "compare", "mirror", "deliver"}

NoReader == [pc |-> "closed", job |-> NoJob, status |-> "idle"]
Latest(j, s) == [job |-> j, status |-> s]
Nothing == Latest(NoJob, "idle")

Init ==
    /\ celery \in BOOLEAN
    /\ state = [j \in Job |-> "NONE"]
    /\ task = [j \in Job |-> NoTask]
    /\ tracked = <<>>
    /\ entry = [j \in Job |-> "idle"]
    /\ latest = Nothing
    /\ upload = [j \in Job |-> [pc |-> "idle", status |-> "analyzing"]]
    /\ reader = [r \in Reader |-> NoReader]
    /\ told = [j \in Browser |-> "idle"]
    /\ faults = 0

Fault == faults < MaxFaults /\ faults' = faults + 1

\* mutant: no entry is ever found.
Untracked(j) == FALSE
Tracked(j) == Contains(tracked, j)

-----------------------------------------------------------------------------
(***************************************************************************)
(* POST /api/upload.                                                       *)
(***************************************************************************)
\* The task is queued (nobody knows its id yet), then register_job adds the entry
\* under analysis_jobs_lock: the oldest ones make room.
RegisterJob(j) ==
    LET all == Append(tracked, j)
        excess == Len(all) - MaxTracked
    IN  /\ upload[j].pc = "idle"
        /\ state' = IF celery THEN [state EXCEPT ![j] = "PENDING"] ELSE state
        /\ task' = IF celery THEN [task EXCEPT ![j].queue = 1] ELSE task
        /\ tracked' = IF excess > 0 THEN SubSeq(all, excess + 1, Len(all)) ELSE all
        /\ entry' = [k \in Job |-> IF k = j THEN "analyzing"
                                   ELSE IF Contains(tracked', k) THEN entry[k]
                                   ELSE "idle"]
        /\ upload' = [upload EXCEPT ![j].pc = "announce"]
        /\ UNCHANGED <<celery, latest, reader, told, faults>>

\* _mirror_latest, then the thread is started and the response sent.
Announce(j) ==
    /\ upload[j].pc = "announce"
    /\ latest' = Latest(j, "analyzing")
    /\ upload' = [upload EXCEPT ![j].pc = IF celery THEN "over" ELSE "running"]
    /\ state' = IF celery THEN state ELSE [state EXCEPT ![j] = "PROGRESS"]
    /\ UNCHANGED <<celery, task, registry, reader, told, faults>>

(***************************************************************************)
(* analyze_pcap_background: update_job patches the entry (an evicted one   *)
(* is created again, at the end), then compares the job with the latest    *)
(* one, then mirrors what it wrote: three critical sections.               *)
(***************************************************************************)
AfterUpdate(status) == IF status \in Terminal THEN "over" ELSE "running"

UpdateJob(j, st) ==
    /\ upload[j].pc = "running"
    /\ st \in {"PROGRESS", "SUCCESS", "FAILURE"}
    /\ state' = [state EXCEPT ![j] = st]
    /\ task' = [task EXCEPT ![j].failed = (st = "FAILURE")]
    /\ tracked' = IF Tracked(j) THEN tracked ELSE Append(tracked, j)
    /\ entry' = [entry EXCEPT ![j] = StatusOf[st]]
    /\ upload' = [upload EXCEPT ![j] = [pc |-> "compare", status |-> StatusOf[st]]]
    /\ UNCHANGED <<celery, latest, reader, told, faults>>

\* The thread goes on, or has returned.
UpdateDone(j) == [pc |-> AfterUpdate(upload[j].status), status |-> "analyzing"]

CompareUpdate(j) ==
    /\ upload[j].pc = "compare"
    /\ upload' = [upload EXCEPT ![j] = IF latest.job = j
                                       THEN [@ EXCEPT !.pc = "mirror"]
                                       ELSE UpdateDone(j)]
    /\ UNCHANGED <<celery, state, task, registry, latest, reader, told, faults>>

\* mutant: what the update replaced is mirrored.
MirrorStale(j) ==
    /\ upload[j].pc = "mirror"
    /\ latest' = Latest(j, "analyzing")
    /\ upload' = [upload EXCEPT ![j] = UpdateDone(j)]
    /\ UNCHANGED <<celery, state, task, registry, reader, told, faults>>

MirrorUpdate(j) ==
    /\ upload[j].pc = "mirror"
    /\ latest' = Latest(j, upload[j].status)
    /\ upload' = [upload EXCEPT ![j] = UpdateDone(j)]
    /\ UNCHANGED <<celery, state, task, registry, reader, told, faults>>

(***************************************************************************)
(* analyze_pcap_task on the Celery workers, seen through the result        *)
(* backend, which ignores every write over a stored SUCCESS.  With         *)
(* acks_late the message stays with the broker until its run has ended, so *)
(* a run may be repeated, and a repeated run overwrites a stored FAILURE.  *)
(***************************************************************************)
Store(j, st) ==
    state' = IF state[j] = "SUCCESS" THEN state ELSE [state EXCEPT ![j] = st]

\* task_track_started.
WorkerStarts(j) ==
    /\ task[j].queue > 0
    /\ task' = [task EXCEPT ![j] = [@ EXCEPT !.queue = task[j].queue - 1,
                                            !.runs = task[j].runs + 1]]
    /\ Store(j, "STARTED")
    /\ UNCHANGED <<celery, registry, latest, upload, reader, told, faults>>

WorkerReports(j) ==
    /\ task[j].runs > 0
    /\ Store(j, "PROGRESS")
    /\ UNCHANGED <<celery, task, registry, latest, upload, reader, told, faults>>

WorkerEnds(j) ==
    /\ task[j].runs > 0
    /\ \E st \in {"SUCCESS", "FAILURE"} :
          /\ Store(j, st)
          /\ task' = [task EXCEPT ![j] =
                          [@ EXCEPT !.runs = task[j].runs - 1,
                                    !.failed = task[j].failed \/ state'[j] = "FAILURE"]]
    /\ UNCHANGED <<celery, registry, latest, upload, reader, told, faults>>

\* The visibility timeout passes while the run is still going.
Redeliver(j) ==
    /\ Fault
    /\ task[j].runs > 0
    /\ task' = [task EXCEPT ![j] = [@ EXCEPT !.queue = task[j].queue + 1,
                                            !.repeated = TRUE]]
    /\ UNCHANGED <<celery, state, registry, latest, upload, reader, told>>

\* The broker delivers the message again, unless it already did.
WorkerDies(j) ==
    /\ Fault
    /\ task[j].runs > 0
    /\ \/ task' = [task EXCEPT ![j] = [@ EXCEPT !.queue = task[j].queue + 1,
                                               !.runs = task[j].runs - 1]]
       \/ Copies(j) > 1 /\ task' = [task EXCEPT ![j].runs = @ - 1]
    /\ UNCHANGED <<celery, state, registry, latest, upload, reader, told>>

-----------------------------------------------------------------------------
(***************************************************************************)
(* GET /api/status/stream?task_id= by the browser that uploaded, until it  *)
(* was sent a terminal status; GET /api/status without an id by anyone.    *)
(***************************************************************************)
OpenStream(j) ==
    /\ upload[j].pc \notin {"idle", "announce"}   \* has the id
    /\ reader[j].pc \in {"closed", "cut"}
    /\ told[j] \notin Terminal
    /\ reader' = [reader EXCEPT ![j] = [NoReader EXCEPT !.pc = "open", !.job = j]]
    /\ UNCHANGED <<celery, state, task, registry, latest, upload, told, faults>>

AskLatest ==
    /\ reader[Anyone].pc = "closed"
    /\ latest.job # NoJob
    /\ reader' = [reader EXCEPT ![Anyone] =
                      [NoReader EXCEPT !.pc = "open", !.job = latest.job]]
    /\ UNCHANGED <<celery, state, task, registry, latest, upload, told, faults>>

\* mutant: the latest snapshot is the answer, whosever it is.
AnswerLatest(j) == latest.status
\* Without Celery get_job is the whole answer.  With it the backend decides, and
\* only for a task that has not reported anything does the registry matter.
Answer(j) ==
    IF celery /\ state[j] \in {"PROGRESS", "SUCCESS", "FAILURE"} THEN StatusOf[state[j]]
    ELSE IF Tracked(j) THEN entry[j] ELSE "idle"

ReadStatus(r) ==
    /\ reader[r].pc = "open"
    /\ reader' = [reader EXCEPT ![r] =
                      [@ EXCEPT !.pc = IF celery THEN "store" ELSE "deliver",
                                !.status = Answer(reader[r].job)]]
    /\ UNCHANGED <<celery, state, task, registry, latest, upload, told, faults>>

\* mutant: an evicted entry is created again.
StoreEntryAgain(r) ==
    LET j == reader[r].job IN
    /\ reader[r].pc = "store"
    /\ tracked' = IF Tracked(j) THEN tracked ELSE Append(tracked, j)
    /\ entry' = [entry EXCEPT ![j] = reader[r].status]
    /\ reader' = [reader EXCEPT ![r].pc = "compare"]
    /\ UNCHANGED <<celery, state, task, latest, upload, told, faults>>

\* set_job: the answer is written over an entry that is still there; then the
\* job is compared with the latest one; then it is mirrored.
StoreEntry(r) ==
    LET j == reader[r].job IN
    /\ reader[r].pc = "store"
    /\ entry' = IF Tracked(j) THEN [entry EXCEPT ![j] = reader[r].status] ELSE entry
    /\ reader' = [reader EXCEPT ![r].pc = "compare"]
    /\ UNCHANGED <<celery, state, task, tracked, latest, upload, told, faults>>

CompareRead(r) ==
    /\ reader[r].pc = "compare"
    /\ reader' = [reader EXCEPT ![r].pc = IF latest.job = reader[r].job THEN "mirror"
                                          ELSE "deliver"]
    /\ UNCHANGED <<celery, state, task, registry, latest, upload, told, faults>>

MirrorRead(r) ==
    /\ reader[r].pc = "mirror"
    /\ latest' = Latest(reader[r].job, reader[r].status)
    /\ reader' = [reader EXCEPT ![r].pc = "deliver"]
    /\ UNCHANGED <<celery, state, task, registry, upload, told, faults>>

\* mutant: the stream ends with its first frame.
DeliverOnce(r) ==
    /\ reader[r].pc = "deliver"
    /\ told' = IF r \in Browser /\ reader[r].status \in Terminal
               THEN [told EXCEPT ![r] = reader[r].status] ELSE told
    /\ reader' = [reader EXCEPT ![r] = NoReader]
    /\ UNCHANGED <<celery, state, task, registry, latest, upload, faults>>

\* A data frame; the browser closes its stream on a terminal one.
Deliver(r) ==
    /\ reader[r].pc = "deliver"
    /\ told' = IF r \in Browser /\ reader[r].status \in Terminal
               THEN [told EXCEPT ![r] = reader[r].status] ELSE told
    /\ reader' = [reader EXCEPT ![r] = IF r = Anyone \/ reader[r].status \in Terminal
                                       THEN NoReader
                                       ELSE [@ EXCEPT !.pc = "open",
                                                      !.status = "idle"]]
    /\ UNCHANGED <<celery, state, task, registry, latest, upload, faults>>

\* POST /api/clear refuses while the latest job is analyzing.
Clear ==
    /\ latest.status # "analyzing"
    /\ latest' = Nothing
    /\ UNCHANGED <<celery, state, task, registry, upload, reader, told, faults>>

\* The registry, the requests and the background threads are gone; a browser sees
\* its stream cut.
Restart ==
    /\ Fault
    /\ tracked' = <<>>
    /\ entry' = [j \in Job |-> "idle"]
    /\ latest' = Nothing
    /\ upload' = [j \in Job |-> IF upload[j].pc = "idle" THEN upload[j]
                                ELSE [pc |-> "over", status |-> "analyzing"]]
    /\ reader' = [r \in Reader |-> IF r = Anyone \/ reader[r].pc = "closed" THEN NoReader
                                   ELSE [NoReader EXCEPT !.pc = "cut"]]
    /\ UNCHANGED <<celery, state, task, told>>

-----------------------------------------------------------------------------
UploadStep(j) ==
    \/ Announce(j) \/ CompareUpdate(j) \/ MirrorUpdate(j)
    \/ \E st \in State : UpdateJob(j, st)

ReadStep(r) ==
    \/ ReadStatus(r) \/ StoreEntry(r) \/ CompareRead(r) \/ MirrorRead(r) \/ Deliver(r)

WorkerStep(j) ==
    \/ WorkerStarts(j) \/ WorkerReports(j) \/ WorkerEnds(j)
    \/ Redeliver(j) \/ WorkerDies(j)

Next ==
    \/ \E j \in Job : RegisterJob(j) \/ UploadStep(j) \/ WorkerStep(j)
    \/ \E j \in Browser : OpenStream(j)
    \/ \E r \in Reader : ReadStep(r)
    \/ AskLatest
    \/ Clear
    \/ Restart

Spec == Init /\ [][Next]_vars

\* Threads of the web process run on, and the stream's generator loops.
Fairness == /\ \A j \in Job : WF_vars(UploadStep(j))
            /\ \A r \in Reader : WF_vars(ReadStep(r))

FairSpec == Spec /\ Fairness

-----------------------------------------------------------------------------
\* Every variable keeps its type; no job is tracked twice.
TypeOK ==
    /\ celery \in BOOLEAN
    /\ state \in [Job -> State]
    /\ task \in [Job -> Task]
    /\ tracked \in Seq(Job) /\ IsInjective(tracked)
    /\ entry \in [Job -> Status]
    /\ latest \in Snapshot
    /\ upload \in [Job -> [pc : UploadPc, status : Status]]
    /\ reader \in [Reader -> [pc : ReaderPc, job : Job \cup {NoJob}, status : Status]]
    /\ told \in [Browser -> Status]
    /\ faults \in 0..MaxFaults

\* A status as good as the analysis itself: a completed one is the job's own and
\* final; an error is one that the job's own run has stored, and the last word
\* unless the run was delivered again.
TrueOf(j, status) ==
    /\ status = "completed" => state[j] = "SUCCESS"
    /\ status = "error" => /\ task[j].failed
                           /\ ~task[j].repeated => state[j] = "FAILURE"

\* Whoever wrote the registry in between, a browser is told that its analysis
\* completed or failed only when that very analysis did.  (A failure may still be
\* followed by the completion of a repeated run.)
ToldTheTruth == \A j \in Browser : TrueOf(j, told[j])

\* With Celery the registry never outgrows MAX_TRACKED_JOBS: no reader brings
\* back an entry that was evicted while it asked the backend.  (A background
\* thread does, on purpose.)
RegistryBounded == celery => Len(tracked) <= MaxTracked

\* Without Celery the latest snapshot says "analyzing" of a job that has ended
\* only while its thread is still on its way to mirror the end: uploads and clears
\* that come in between never make it lose its last update and stay latest.
LatestSettles == \A j \in Job :
    (~celery /\ Ended(j) /\ latest = Latest(j, "analyzing"))
        => upload[j].pc \in {"compare", "mirror"}

\* The analysis has ended and no run can change that: none is under way or to
\* come, or the result is a success.
Settled(j) == Ended(j) /\ (state[j] = "FAILURE" => Copies(j) = 0)

\* A browser that streams an analysis is told how it ended, in spite of other
\* uploads and readers, unless a restart cuts the stream or, without Celery, the
\* entry is evicted first.
EndIsTold == \A j \in Browser :
    (Settled(j) /\ reader[j].pc \notin {"closed", "cut"})
        ~> \/ told[j] \in Terminal
           \/ reader[j].pc = "cut"
           \/ ~celery /\ ~Tracked(j)

-----------------------------------------------------------------------------
(***************************************************************************)
(* Why they hold: an invariant that a step preserves on its own.           *)
(***************************************************************************)
\* A job enters the registry and starts with its upload; from then on its
\* thread (no Celery) or its workers (Celery) alone move it, a thread only forward.
JobsMoveForward == \A j \in Job :
    /\ upload[j].pc = "idle" => state[j] = "NONE" /\ ~Tracked(j)
    /\ celery => upload[j].pc \notin {"running", "compare", "mirror"}
    /\ ~celery /\ upload[j].pc = "announce" => state[j] = "NONE"
    /\ upload[j].pc = "running" => state[j] = "PROGRESS"
    /\ upload[j].pc \in {"compare", "mirror"} =>
           /\ state[j] \in {"PROGRESS", "SUCCESS", "FAILURE"}
           /\ upload[j].status = StatusOf[state[j]]

\* A message that was delivered once is in one place, the queue or a run, until
\* the run ends; without Celery there is none.
RunsCounted == \A j \in Job :
    /\ ~celery \/ state[j] = "NONE" => Copies(j) = 0 /\ ~task[j].repeated
    /\ state[j] = "NONE" => ~task[j].failed
    /\ state[j] = "FAILURE" => task[j].failed
    /\ ~task[j].repeated => /\ Copies(j) <= 1
                            /\ Ended(j) => Copies(j) = 0
                            /\ task[j].failed => state[j] = "FAILURE"

\* A reader asks for one job, a browser for its own; without Celery it writes
\* nothing back.
ReadersAsk == \A r \in Reader :
    /\ reader[r].pc \notin {"closed", "cut"} =>
           reader[r].job \in Job /\ (r \in Browser => reader[r].job = r)
    /\ ~celery => reader[r].pc \notin {"store", "compare", "mirror"}

\* A reader that holds an answer.
Answered == {"store", "compare", "mirror", "deliver"}

\* Every copy of a terminal status is true of its job.
CopiesTrue ==
    /\ \A j \in Job : TrueOf(j, entry[j])
    /\ \A j \in Browser : TrueOf(j, told[j])
    /\ \A r \in Reader : reader[r].pc \in Answered =>
           TrueOf(reader[r].job, reader[r].status)

StatusInv ==
    /\ TypeOK
    /\ JobsMoveForward
    /\ RunsCounted
    /\ ReadersAsk
    /\ CopiesTrue
    /\ RegistryBounded
    /\ LatestSettles
=============================================================================
