---------------------------- MODULE UploadStore -----------------------------
(***************************************************************************)
(* The server-side copies of uploaded captures: how an upload claims its   *)
(* file (upload_utils.claim_unique_upload_path, POST /api/upload), how a   *)
(* scan refers to it by name for the packet viewer, replay and diff, and   *)
(* how the retention purge (celery_app.retention_purge, POST               *)
(* /api/admin/purge) deletes scans, alert partitions and orphaned files.   *)
(*                                                                         *)
(* The candidates capture.pcap, capture-2.pcap, ... of one sanitized name  *)
(* are the numbers 1, 2, ...; the bytes of a file are the upload that      *)
(* wrote them.  Time is a count of ticks.                                  *)
(***************************************************************************)
EXTENDS Integers, FiniteSets

CONSTANTS
    Upload,        \* requests to POST /api/upload with the same name
    Sweeper,       \* concurrent retention purges (Celery beat, an admin)
    MaxName,       \* bound: suffixes tried
    MaxScans,      \* bound: scans saved
    MaxClock,      \* bound: ticks
    MinAge,        \* cleanup_orphaned_pcaps.min_age_seconds, in ticks
    Deadline,      \* assumed: longest time from upload to scan, in ticks
    TicksPerDay,
    DaysPerMonth,
    RetentionDays

ASSUME BoundsAssumption ==
    /\ {MaxScans, MaxClock, MinAge, Deadline, RetentionDays} \subseteq Nat
    /\ {MaxName, TicksPerDay, DaysPerMonth} \subseteq Nat \ {0}

Name == 1..MaxName
ScanId == 1..MaxScans
Time == 0..MaxClock

NoFile == "no file"
Empty == "claimed, nothing written"
ASSUME ContentAssumption == {NoFile, Empty} \cap Upload = {}
Content == Upload \cup {Empty}

VARIABLES
    file,     \* UPLOAD_FOLDER: what is stored under each name, since when
    upload,   \* each upload request and the analysis it starts
    scan,     \* the scans table; `rows`: its alert rows are still there
    nextScan,
    purge,    \* each retention purge
    clock

vars == <<file, upload, scan, nextScan, purge, clock>>

File == [content : Content \cup {NoFile}, mtime : Time]
UploadPc == {"idle", "claiming", "claimed", "stored", "reading", "done"}
Request == [pc : UploadPc, name : Name, read : Content]
Scan == [live : BOOLEAN, rows : BOOLEAN, name : Name, content : Content, at : Time]
PurgePc == {"idle", "scans", "partitions", "list", "sweep", "remove"}
\* `cutoff`: of the DELETE, from it until the partitions are dropped.
Purge == [pc : PurgePc, cutoff : Int, referenced : SUBSET Name, now : Time,
          todo : SUBSET Name, name : Name]

NotThere == [content |-> NoFile, mtime |-> 0]
Waiting == [pc |-> "idle", name |-> 1, read |-> Empty]
NeverSaved == [live |-> FALSE, rows |-> FALSE, name |-> 1, content |-> Empty, at |-> 0]
NotPurging == [pc |-> "idle", cutoff |-> 0, referenced |-> {}, now |-> 0,
               todo |-> {}, name |-> 1]

Init ==
    /\ file = [n \in Name |-> NotThere]
    /\ upload = [u \in Upload |-> Waiting]
    /\ scan = [s \in ScanId |-> NeverSaved]
    /\ nextScan = 1
    /\ purge = [p \in Sweeper |-> NotPurging]
    /\ clock = 0

Exists(n) == file[n].content # NoFile
\* mutant: no scan's file counts.
ReferencedByNone == {}
Referenced == {scan[s].name : s \in {t \in ScanId : scan[t].live}}

-----------------------------------------------------------------------------
(***************************************************************************)
(* POST /api/upload and the analysis.                                      *)
(***************************************************************************)
StartUpload(u) ==
    /\ upload[u].pc = "idle"
    /\ upload' = [upload EXCEPT ![u] = [Waiting EXCEPT !.pc = "claiming"]]
    /\ UNCHANGED <<file, scan, nextScan, purge, clock>>

\* mutant: an existing file is opened as well.
ClaimExisting(u) ==
    LET n == upload[u].name IN
    /\ upload[u].pc = "claiming"
    /\ file' = [file EXCEPT ![n] = [content |-> Empty, mtime |-> clock]]
    /\ upload' = [upload EXCEPT ![u].pc = "claimed"]
    /\ UNCHANGED <<scan, nextScan, purge, clock>>

\* mutant: the suffixes never end.
ClaimBeyond(u) ==
    /\ upload[u].pc = "claiming"
    /\ upload' = [upload EXCEPT ![u].name = @ + 1]
    /\ UNCHANGED <<file, scan, nextScan, purge, clock>>

\* open(O_CREAT | O_EXCL): the name is taken, or already in use and the next
\* suffix is tried.
ClaimName(u) ==
    LET n == upload[u].name IN
    /\ upload[u].pc = "claiming"
    /\ IF Exists(n)
       THEN /\ n + 1 \in Name
            /\ upload' = [upload EXCEPT ![u].name = n + 1]
            /\ UNCHANGED file
       ELSE /\ file' = [file EXCEPT ![n] = [content |-> Empty, mtime |-> clock]]
            /\ upload' = [upload EXCEPT ![u].pc = "claimed"]
    /\ UNCHANGED <<scan, nextScan, purge, clock>>

\* file.save(filepath) opens with 'wb', then the analysis is queued.
StoreUpload(u) ==
    /\ upload[u].pc = "claimed"
    /\ file' = [file EXCEPT ![upload[u].name] = [content |-> u, mtime |-> clock]]
    /\ upload' = [upload EXCEPT ![u].pc = "stored"]
    /\ UNCHANGED <<scan, nextScan, purge, clock>>

\* The client disconnects while the body is streamed: an orphan stays.
StoreFails(u) ==
    /\ upload[u].pc = "claimed"
    /\ upload' = [upload EXCEPT ![u].pc = "done"]
    /\ UNCHANGED <<file, scan, nextScan, purge, clock>>

\* The worker opens the file; without it the analysis fails.
StartReading(u) ==
    /\ upload[u].pc = "stored"
    /\ upload' = [upload EXCEPT ![u] =
                      IF Exists(upload[u].name)
                      THEN [@ EXCEPT !.pc = "reading",
                                     !.read = file[upload[u].name].content]
                      ELSE [@ EXCEPT !.pc = "done"]]
    /\ UNCHANGED <<file, scan, nextScan, purge, clock>>

\* save_scan; _ensure_month_partition makes sure the alert rows have a place.
SaveScan(u) ==
    /\ upload[u].pc = "reading"
    /\ nextScan \in ScanId
    /\ scan' = [scan EXCEPT ![nextScan] =
                    [live |-> TRUE, rows |-> TRUE, name |-> upload[u].name,
                     content |-> upload[u].read, at |-> clock]]
    /\ nextScan' = nextScan + 1
    /\ upload' = [upload EXCEPT ![u].pc = "done"]
    /\ UNCHANGED <<file, purge, clock>>

AnalysisFails(u) ==
    /\ upload[u].pc \in {"stored", "reading"}
    /\ upload' = [upload EXCEPT ![u].pc = "done"]
    /\ UNCHANGED <<file, scan, nextScan, purge, clock>>

\* DELETE /api/scans/<id>: "the source PCAP file is kept on disk".
DeleteScan(s) ==
    /\ scan[s].live
    /\ scan' = [scan EXCEPT ![s] = [@ EXCEPT !.live = FALSE, !.rows = FALSE]]
    /\ UNCHANGED <<file, upload, nextScan, purge, clock>>

-----------------------------------------------------------------------------
(***************************************************************************)
(* The retention purge.                                                    *)
(***************************************************************************)
Day(t) == t \div TicksPerDay
Month(d) == d \div DaysPerMonth
\* mutant: the month's first day.
PartitionStart(d) == Month(d) * DaysPerMonth
\* The first day after the month of day d: the end of its alert partition.
PartitionEnd(d) == (Month(d) + 1) * DaysPerMonth
\* Each of the two statements computes it with a datetime.now() of its own.
Cutoff == clock - RetentionDays * TicksPerDay

\* purge_old_scans: DELETE ... WHERE analyzed_at < cutoff.
PurgeScans(p) ==
    /\ purge[p].pc = "idle"
    /\ scan' = [s \in ScanId |->
                    IF scan[s].live /\ scan[s].at < Cutoff
                    THEN [scan[s] EXCEPT !.live = FALSE, !.rows = FALSE]
                    ELSE scan[s]]
    /\ purge' = [purge EXCEPT ![p] = [@ EXCEPT !.pc = "scans", !.cutoff = Cutoff]]
    /\ UNCHANGED <<file, upload, nextScan, clock>>

\* drop_old_partitions: DROP TABLE every month that ended by the cutoff day, a
\* cutoff that may be later than the DELETE's.
DropPartitions(p) ==
    /\ purge[p].pc = "scans"
    /\ scan' = [s \in ScanId |->
                    IF PartitionEnd(Day(scan[s].at)) <= Day(Cutoff)
                    THEN [scan[s] EXCEPT !.rows = FALSE]
                    ELSE scan[s]]
    /\ purge' = [purge EXCEPT ![p] = [@ EXCEPT !.pc = "partitions", !.cutoff = 0]]
    /\ UNCHANGED <<file, upload, nextScan, clock>>

\* cleanup_orphaned_pcaps reads the names in use first ...
ReadReferenced(p) ==
    /\ purge[p].pc = "partitions"
    /\ purge' = [purge EXCEPT ![p] = [@ EXCEPT !.pc = "list",
                                               !.referenced = Referenced]]
    /\ UNCHANGED <<file, upload, scan, nextScan, clock>>

\* ... then the time and the directory.
ListFolder(p) ==
    /\ purge[p].pc = "list"
    /\ purge' = [purge EXCEPT ![p] = [@ EXCEPT !.pc = "sweep", !.now = clock,
                                               !.todo = {n \in Name : Exists(n)}]]
    /\ UNCHANGED <<file, upload, scan, nextScan, clock>>

\* mutant: no file is too new.
NeverTooNew(p, n) == purge[p].now - file[n].mtime < 0
TooNew(p, n) == purge[p].now - file[n].mtime < MinAge

\* isfile, referenced and age are checked here, os.remove comes later.
CheckEntry(p, n) ==
    /\ purge[p].pc = "sweep"
    /\ n \in purge[p].todo
    /\ purge' = [purge EXCEPT ![p] =
                     [@ EXCEPT !.todo = purge[p].todo \ {n},
                               !.pc = IF \/ ~Exists(n)
                                         \/ n \in purge[p].referenced
                                         \/ TooNew(p, n)
                                      THEN "sweep" ELSE "remove",
                               !.name = n]]
    /\ UNCHANGED <<file, upload, scan, nextScan, clock>>

RemoveEntry(p) ==
    /\ purge[p].pc = "remove"
    /\ file' = [file EXCEPT ![purge[p].name] = NotThere]
    /\ purge' = [purge EXCEPT ![p].pc = "sweep"]
    /\ UNCHANGED <<upload, scan, nextScan, clock>>

FinishSweep(p) ==
    /\ purge[p].pc = "sweep"
    /\ purge[p].todo = {}
    /\ purge' = [purge EXCEPT ![p] = NotPurging]
    /\ UNCHANGED <<file, upload, scan, nextScan, clock>>

\* Time passes, except where the code counts on it not to: a stored upload
\* becomes a scan or fails before it is Deadline old, and no tick falls between
\* the sweep's read of the names in use and of the clock.
InFlight(u) == upload[u].pc \in {"claimed", "stored", "reading"}
Age(u) == clock - file[upload[u].name].mtime

Tick ==
    /\ clock < MaxClock
    /\ \A u \in Upload : InFlight(u) => Age(u) + 1 < Deadline
    /\ \A p \in Sweeper : purge[p].pc # "list"
    /\ clock' = clock + 1
    /\ UNCHANGED <<file, upload, scan, nextScan, purge>>

UploadStep(u) ==
    \/ StartUpload(u) \/ ClaimName(u) \/ StoreUpload(u) \/ StoreFails(u)
    \/ StartReading(u) \/ SaveScan(u) \/ AnalysisFails(u)

PurgeStep(p) ==
    \/ PurgeScans(p) \/ DropPartitions(p) \/ ReadReferenced(p)
    \/ ListFolder(p) \/ RemoveEntry(p) \/ FinishSweep(p)
    \/ \E n \in Name : CheckEntry(p, n)

Next ==
    \/ \E u \in Upload : UploadStep(u)
    \/ \E s \in ScanId : DeleteScan(s)
    \/ \E p \in Sweeper : PurgeStep(p)
    \/ Tick

Spec == Init /\ [][Next]_vars

-----------------------------------------------------------------------------
\* Every record keeps its shape; a request never leaves the candidate names.
TypeOK ==
    /\ file \in [Name -> File]
    /\ upload \in [Upload -> Request]
    /\ scan \in [ScanId -> Scan]
    /\ nextScan \in 1..(MaxScans + 1)
    /\ purge \in [Sweeper -> Purge]
    /\ clock \in Time

\* The name a scan is stored under leads to the very bytes it was made from:
\* no sweep takes the file of a scan and no upload rebinds the name.
SourceKept == \A s \in ScanId :
    scan[s].live => file[scan[s].name].content = scan[s].content

\* What an upload wrote stays under its name until its analysis has ended, and
\* nobody else holds the name.
InFlightKept == \A u \in Upload :
    upload[u].pc \in {"stored", "reading"} => file[upload[u].name].content = u

\* The DELETE of purge p spared the scan and the partitions go by a cutoff that
\* has passed it since, across the first of a month.
PassedBetween(p, s) ==
    /\ purge[p].pc = "scans"
    /\ purge[p].cutoff <= scan[s].at
    /\ scan[s].at < Cutoff
    /\ Month(Day(purge[p].cutoff)) < Month(Day(Cutoff))

Stripped(s) == scan[s].live /\ ~scan[s].rows

\* A scan that outlives a purge outlives it with its alert rows: partitions go
\* by whole months, scans by the exact age.  The one exception is a purge whose
\* two readings of the clock have the first of a month between their cutoffs.
AlertsKept == [][\A s \in ScanId :
    Stripped(s)' => Stripped(s) \/ \E p \in Sweeper : PassedBetween(p, s)]_vars

\* "Files modified within this window are left alone."
YoungFilesLeftAlone == [][\A n \in Name :
    (Exists(n) /\ ~Exists(n)') => clock - file[n].mtime >= MinAge]_vars

-----------------------------------------------------------------------------
(***************************************************************************)
(* Why they hold: invariants that a step preserves on its own.             *)
(***************************************************************************)
\* Scans older than the DELETE's cutoff are gone before the alerts of old months
\* are dropped, and the cutoff only moves forward.
OldScansGone == \A p \in Sweeper : purge[p].pc = "scans" =>
    /\ purge[p].cutoff <= Cutoff
    /\ \A s \in ScanId : scan[s].live => scan[s].at >= purge[p].cutoff

\* What a scan without its alert rows has in common with a deleted one: the
\* retention is over for it, the next purge deletes it.
StrippedAreOld == \A s \in ScanId : Stripped(s) => scan[s].at < Cutoff

\* A request between its claim and the end of its analysis is the only one
\* that works under its name; the name holds what the request put there.
NamesHeld ==
    /\ \A u, v \in Upload :
           InFlight(u) /\ InFlight(v) /\ upload[u].name = upload[v].name => u = v
    /\ \A u \in Upload : upload[u].pc = "claimed" =>
           file[upload[u].name].content = Empty
    /\ InFlightKept
    /\ \A u \in Upload : upload[u].pc = "reading" => upload[u].read = u

\* No file is from the future, and one in use by a request is young.
FilesAged ==
    /\ \A n \in Name : file[n].mtime <= clock
    /\ \A u \in Upload : InFlight(u) => Age(u) = 0 \/ Age(u) < Deadline

\* Scans come from stored files and their files stay.
ScansSourced ==
    /\ \A s \in ScanId : scan[s].live => scan[s].content \in Upload
    /\ SourceKept

\* The file of a scan that a sweep has not seen in the table is too new for
\* it; the file a sweep is about to remove is old and was not in the table.
SweepSound == \A p \in Sweeper :
    /\ purge[p].pc = "list" =>
           \A s \in ScanId : scan[s].live =>
               \/ scan[s].name \in purge[p].referenced
               \/ clock - file[scan[s].name].mtime < MinAge
    /\ purge[p].pc \in {"sweep", "remove"} =>
           /\ purge[p].now <= clock
           /\ \A s \in ScanId : scan[s].live =>
                  \/ scan[s].name \in purge[p].referenced
                  \/ TooNew(p, scan[s].name)
    /\ purge[p].pc = "remove" =>
           /\ Exists(purge[p].name)
           /\ purge[p].name \notin purge[p].referenced
           /\ ~TooNew(p, purge[p].name)

StoreInv == NamesHeld /\ FilesAged /\ ScansSourced /\ SweepSound

\* What the code relies on for it: one purge at a time, and an analysis that
\* ends before its file is old enough for a sweep.
SweepsApart ==
    /\ \A p, q \in Sweeper : p = q
    /\ 0 < MinAge
    /\ Deadline <= MinAge
=============================================================================
