------------------------- MODULE UploadStoreProofs --------------------------
(***************************************************************************)
(* For every number of uploads, names, scans and purges, every retention   *)
(* period and every length of a day and a month: the store is well typed   *)
(* and a scan within the retention keeps its alert rows.  With one purge   *)
(* at a time, and analyses that end within the age a sweep spares, a scan  *)
(* keeps the file it was made from, an upload the file it wrote, and no    *)
(* young file is removed.                                                  *)
(***************************************************************************)
EXTENDS UploadStore, TLAPS

(***************************************************************************)
(* Days and months.                                                        *)
(***************************************************************************)

\* Integer division: a number lies between its quotient's multiple and the next.
LEMMA Quotient ==
  ASSUME NEW t \in Int, NEW k \in Nat \ {0}
  PROVE  /\ t \div k \in Int
         /\ (t \div k) * k <= t
         /\ t < (t \div k + 1) * k
  OBVIOUS

\* Multiplication by a positive number keeps the order.
LEMMA TimesOrder ==
  ASSUME NEW a \in Int, NEW b \in Int, NEW k \in Nat \ {0}, a <= b
  PROVE  a * k <= b * k
  OBVIOUS

\* Later instants fall on no earlier day.
LEMMA DayOrder ==
  ASSUME NEW t \in Int, NEW u \in Int, t <= u
  PROVE  Day(t) \in Int /\ Day(u) \in Int /\ Day(t) <= Day(u)
  <1> DEFINE k == TicksPerDay
  <1>0. k \in Nat \ {0}
    BY BoundsAssumption
  <1> HIDE DEF k
  <1>1. PICK q \in Int : q = t \div k
    BY <1>0, Quotient
  <1>2. PICK r \in Int : r = u \div k
    BY <1>0, Quotient
  <1>3. q * k <= t /\ u < (r + 1) * k
    BY <1>0, <1>1, <1>2, Quotient
  <1>4. q <= r
    <2> SUFFICES ASSUME r + 1 <= q PROVE FALSE
      OBVIOUS
    <2>1. (r + 1) * k <= q * k
      BY <1>0, TimesOrder
    <2>2. (r + 1) * k \in Int /\ q * k \in Int
      BY <1>0
    <2> QED
      BY <1>3, <2>1, <2>2
  <1> QED
    BY <1>1, <1>2, <1>4 DEF Day, k

\* A month's partition ends after each of its days.
LEMMA MonthEnds ==
  ASSUME NEW d \in Int
  PROVE  PartitionEnd(d) \in Int /\ d < PartitionEnd(d)
  <1>1. DaysPerMonth \in Nat \ {0}
    BY BoundsAssumption
  <1>2. PICK q \in Int : q = d \div DaysPerMonth
    BY <1>1, Quotient
  <1>3. d < (q + 1) * DaysPerMonth
    BY <1>1, <1>2, Quotient
  <1>4. (q + 1) * DaysPerMonth \in Int
    BY <1>1
  <1> QED
    BY <1>2, <1>3, <1>4 DEF PartitionEnd, Month

\* Naturals are closed under multiplication.
LEMMA TimesNat == ASSUME NEW a \in Nat, NEW b \in Nat PROVE a * b \in Nat
  OBVIOUS

\* The cutoff is an instant, not after now.
LEMMA CutoffType ==
  ASSUME clock \in Time
  PROVE  Cutoff \in Int /\ Cutoff <= clock
  <1>1. RetentionDays * TicksPerDay \in Nat
    <2>1. RetentionDays \in Nat /\ TicksPerDay \in Nat
      BY BoundsAssumption
    <2> QED
      BY <2>1, TimesNat
  <1>2. clock \in Int
    BY BoundsAssumption DEF Time
  <1> QED
    BY <1>1, <1>2 DEF Cutoff

(***************************************************************************)
(* Type correctness.                                                       *)
(***************************************************************************)

\* The initial state is well typed.
LEMMA InitType == Init => TypeOK
  <1> SUFFICES ASSUME Init PROVE TypeOK
    OBVIOUS
  <1>0. 1 \in Name /\ 0 \in Time /\ 1 \in 1..(MaxScans + 1)
    BY BoundsAssumption DEF Name, Time
  <1>1. NotThere \in File
    BY <1>0 DEF NotThere, File
  <1>2. Waiting \in Request
    BY <1>0 DEF Waiting, Request, UploadPc, Content
  <1>3. NeverSaved \in Scan
    BY <1>0 DEF NeverSaved, Scan, Content
  <1>4. NotPurging \in Purge
    BY <1>0 DEF NotPurging, Purge, PurgePc
  <1> QED
    BY <1>0, <1>1, <1>2, <1>3, <1>4 DEF Init, TypeOK

\* Every step of an upload keeps the types.
LEMMA UploadType ==
  ASSUME TypeOK, NEW u \in Upload, UploadStep(u)
  PROVE  TypeOK'
  <1>0. upload[u] \in Request /\ upload[u].name \in Name /\ clock \in Time
    BY DEF TypeOK, Request
  <1>1. CASE StartUpload(u)
    <2>1. [Waiting EXCEPT !.pc = "claiming"] \in Request
      BY BoundsAssumption DEF Waiting, Request, UploadPc, Content, Name
    <2> QED
      BY <1>1, <2>1 DEF StartUpload, TypeOK
  <1>2. CASE ClaimName(u)
    <2>1. [content |-> Empty, mtime |-> clock] \in File
      BY <1>0 DEF File, Content
    <2>2. [upload[u] EXCEPT !.pc = "claimed"] \in Request
      BY <1>0 DEF Request, UploadPc
    <2>3. ASSUME upload[u].name + 1 \in Name
          PROVE  [upload[u] EXCEPT !.name = upload[u].name + 1] \in Request
      BY <1>0, <2>3 DEF Request
    <2>4. CASE Exists(upload[u].name)
      BY <1>2, <2>3, <2>4 DEF ClaimName, TypeOK
    <2>5. CASE ~Exists(upload[u].name)
      BY <1>2, <2>1, <2>2, <2>5 DEF ClaimName, TypeOK
    <2> QED
      BY <2>4, <2>5
  <1>3. CASE StoreUpload(u)
    <2>1. [content |-> u, mtime |-> clock] \in File
      BY <1>0 DEF File, Content
    <2>2. [upload[u] EXCEPT !.pc = "stored"] \in Request
      BY <1>0 DEF Request, UploadPc
    <2> QED
      BY <1>3, <2>1, <2>2 DEF StoreUpload, TypeOK
  <1>4. CASE StoreFails(u) \/ AnalysisFails(u)
    <2>1. [upload[u] EXCEPT !.pc = "done"] \in Request
      BY <1>0 DEF Request, UploadPc
    <2> QED
      BY <1>4, <2>1 DEF StoreFails, AnalysisFails, TypeOK
  <1>5. CASE StartReading(u)
    <2>1. [upload[u] EXCEPT !.pc = "done"] \in Request
      BY <1>0 DEF Request, UploadPc
    <2>2. ASSUME Exists(upload[u].name)
          PROVE  [upload[u] EXCEPT !.pc = "reading",
                                   !.read = file[upload[u].name].content] \in Request
      <3>1. file[upload[u].name] \in File
        BY <1>0 DEF TypeOK
      <3>2. file[upload[u].name].content \in Content
        BY <2>2, <3>1 DEF File, Exists
      <3> QED
        BY <1>0, <3>2 DEF Request, UploadPc
    <2> QED
      BY <1>5, <2>1, <2>2 DEF StartReading, TypeOK
  <1>6. CASE SaveScan(u)
    <2>1. [live |-> TRUE, rows |-> TRUE, name |-> upload[u].name,
           content |-> upload[u].read, at |-> clock] \in Scan
      BY <1>0 DEF Scan, Request
    <2>2. [upload[u] EXCEPT !.pc = "done"] \in Request
      BY <1>0 DEF Request, UploadPc
    <2>3. nextScan + 1 \in 1..(MaxScans + 1)
      BY <1>6, BoundsAssumption DEF SaveScan, ScanId
    <2> QED
      BY <1>6, <2>1, <2>2, <2>3 DEF SaveScan, TypeOK
  <1> QED
    BY <1>1, <1>2, <1>3, <1>4, <1>5, <1>6 DEF UploadStep

\* Every step of a purge keeps the types.
LEMMA PurgeType ==
  ASSUME TypeOK, NEW p \in Sweeper, PurgeStep(p)
  PROVE  TypeOK'
  <1>0. purge[p] \in Purge /\ clock \in Time
    BY DEF TypeOK
  <1>1. ASSUME NEW s \in ScanId
        PROVE  /\ scan[s] \in Scan
               /\ [scan[s] EXCEPT !.live = FALSE, !.rows = FALSE] \in Scan
               /\ [scan[s] EXCEPT !.rows = FALSE] \in Scan
    BY DEF TypeOK, Scan
  <1>2. ASSUME NEW c \in PurgePc PROVE [purge[p] EXCEPT !.pc = c] \in Purge
    BY <1>0 DEF Purge
  <1>2a. ASSUME NEW c \in PurgePc, NEW k \in Int
         PROVE  [purge[p] EXCEPT !.pc = c, !.cutoff = k] \in Purge
    BY <1>0 DEF Purge
  <1>3. CASE PurgeScans(p)
    BY <1>0, <1>1, <1>2a, <1>3, CutoffType DEF PurgeScans, TypeOK, PurgePc
  <1>4. CASE DropPartitions(p)
    <2>1. PICK c \in PurgePc : c = "partitions"
      BY DEF PurgePc
    <2>2. PICK k \in Int : k = 0
      OBVIOUS
    <2>3. [purge[p] EXCEPT !.pc = c, !.cutoff = k] \in Purge
      BY <1>2a
    <2> QED
      BY <1>1, <1>4, <2>1, <2>2, <2>3 DEF DropPartitions, TypeOK
  <1>5. CASE ReadReferenced(p)
    <2>1. Referenced \subseteq Name
      BY <1>1 DEF Referenced, Scan
    <2>2. [purge[p] EXCEPT !.pc = "list", !.referenced = Referenced] \in Purge
      BY <1>0, <2>1 DEF Purge, PurgePc
    <2> QED
      BY <1>5, <2>2 DEF ReadReferenced, TypeOK
  <1>6. CASE ListFolder(p)
    <2>1. [purge[p] EXCEPT !.pc = "sweep", !.now = clock,
                           !.todo = {n \in Name : Exists(n)}] \in Purge
      BY <1>0 DEF Purge, PurgePc
    <2> QED
      BY <1>6, <2>1 DEF ListFolder, TypeOK
  <1>7. CASE RemoveEntry(p)
    <2>1. NotThere \in File
      BY BoundsAssumption DEF NotThere, File, Time
    <2> QED
      BY <1>2, <1>7, <2>1 DEF RemoveEntry, TypeOK, PurgePc
  <1>8. CASE FinishSweep(p)
    <2>1. NotPurging \in Purge
      BY BoundsAssumption DEF NotPurging, Purge, PurgePc, Name, Time
    <2> QED
      BY <1>8, <2>1 DEF FinishSweep, TypeOK
  <1>9. ASSUME NEW n \in Name, CheckEntry(p, n) PROVE TypeOK'
    <2>1. ASSUME NEW c \in {"sweep", "remove"}
          PROVE  [purge[p] EXCEPT !.todo = purge[p].todo \ {n},
                                  !.pc = c, !.name = n] \in Purge
      BY <1>0 DEF Purge, PurgePc
    <2>2. \E c \in {"sweep", "remove"} :
              purge' = [purge EXCEPT ![p] = [@ EXCEPT !.todo = purge[p].todo \ {n},
                                                      !.pc = c, !.name = n]]
      BY <1>9 DEF CheckEntry
    <2> QED
      BY <1>9, <2>1, <2>2 DEF CheckEntry, TypeOK
  <1> QED
    BY <1>3, <1>4, <1>5, <1>6, <1>7, <1>8, <1>9 DEF PurgeStep

\* Every step of the store keeps the types.
LEMMA NextType == TypeOK /\ [Next]_vars => TypeOK'
  <1> SUFFICES ASSUME TypeOK, [Next]_vars PROVE TypeOK'
    OBVIOUS
  <1>1. ASSUME NEW s \in ScanId, DeleteScan(s) PROVE TypeOK'
    <2>1. [scan[s] EXCEPT !.live = FALSE, !.rows = FALSE] \in Scan
      BY DEF TypeOK, Scan
    <2> QED
      BY <1>1, <2>1 DEF DeleteScan, TypeOK
  <1>2. CASE Tick
    BY <1>2, BoundsAssumption DEF Tick, TypeOK, Time
  <1>3. CASE UNCHANGED vars
    BY <1>3 DEF vars, TypeOK
  <1> QED
    BY <1>1, <1>2, <1>3, UploadType, PurgeType DEF Next

\* Type correctness of the upload store.
THEOREM TypeCorrect == Spec => []TypeOK
  BY InitType, NextType, PTL DEF Spec

(***************************************************************************)
(* Scans and alert rows go together.                                       *)
(***************************************************************************)

\* A month that ended by the cutoff's day holds only instants before the cutoff.
LEMMA MonthsAreOld ==
  ASSUME NEW t \in Int, clock \in Time, PartitionEnd(Day(t)) <= Day(Cutoff)
  PROVE  t < Cutoff
  <1>1. PICK c \in Int : c = Cutoff
    BY CutoffType
  <1> SUFFICES ASSUME c <= t PROVE FALSE
    BY <1>1
  <1>2. Day(c) \in Int /\ Day(t) \in Int /\ Day(c) <= Day(t)
    BY DayOrder
  <1>3. PartitionEnd(Day(t)) \in Int /\ Day(t) < PartitionEnd(Day(t))
    BY <1>2, MonthEnds
  <1>4. PartitionEnd(Day(t)) <= Day(c)
    BY <1>1
  <1> QED
    BY <1>2, <1>3, <1>4

\* A month that had not ended by an earlier day and has by a later one lies
\* before the later day's month.
LEMMA MonthsApart ==
  ASSUME NEW d \in Int, NEW e \in Int, NEW f \in Int,
         d <= e, PartitionEnd(e) <= f
  PROVE  Month(d) < Month(f)
  <1> DEFINE k == DaysPerMonth
  <1>0. k \in Nat \ {0}
    BY BoundsAssumption
  <1> HIDE DEF k
  <1>1. PICK q \in Int : q = d \div k
    BY <1>0, Quotient
  <1>2. PICK r \in Int : r = e \div k
    BY <1>0, Quotient
  <1>3. PICK w \in Int : w = f \div k
    BY <1>0, Quotient
  <1>4. q * k <= d /\ e < (r + 1) * k /\ f < (w + 1) * k
    BY <1>0, <1>1, <1>2, <1>3, Quotient
  <1>5. (r + 1) * k <= f
    BY <1>2 DEF PartitionEnd, Month, k
  <1>6. /\ q * k \in Int /\ (r + 1) * k \in Int /\ (w + 1) * k \in Int
        /\ (q + 1) * k \in Int
    BY <1>0
  <1>7. q <= r
    <2> SUFFICES ASSUME r + 1 <= q PROVE FALSE
      OBVIOUS
    <2>1. (r + 1) * k <= q * k
      BY <1>0, TimesOrder
    <2> QED
      BY <1>4, <1>6, <2>1
  <1>8. r < w
    <2> SUFFICES ASSUME w + 1 <= r + 1 PROVE FALSE
      OBVIOUS
    <2>1. (w + 1) * k <= (r + 1) * k
      BY <1>0, TimesOrder
    <2> QED
      BY <1>4, <1>5, <1>6, <2>1
  <1> QED
    BY <1>1, <1>3, <1>7, <1>8 DEF Month, k

\* Time moves the cutoff forward only.
LEMMA CutoffMoves ==
  ASSUME TypeOK, [Next]_vars
  PROVE  /\ Cutoff \in Int /\ Cutoff' \in Int
         /\ Cutoff <= Cutoff' /\ Cutoff <= clock
  <1>1. clock \in Time /\ clock' \in Time
    BY NextType DEF TypeOK
  <1>2. clock' = clock \/ clock' = clock + 1
    <2>1. CASE \E u \in Upload : UploadStep(u)
      BY <2>1 DEF UploadStep, StartUpload, ClaimName, StoreUpload, StoreFails,
                  StartReading, SaveScan, AnalysisFails
    <2>2. CASE \E p \in Sweeper : PurgeStep(p)
      BY <2>2 DEF PurgeStep, PurgeScans, DropPartitions, ReadReferenced,
                  ListFolder, CheckEntry, RemoveEntry, FinishSweep
    <2>3. CASE (\E s \in ScanId : DeleteScan(s)) \/ Tick \/ UNCHANGED vars
      BY <2>3 DEF DeleteScan, Tick, vars
    <2> QED
      BY <2>1, <2>2, <2>3 DEF Next
  <1>3. PICK r \in Nat : r = RetentionDays * TicksPerDay
    BY BoundsAssumption, TimesNat
  <1> QED
    BY <1>1, <1>2, <1>3, BoundsAssumption DEF Cutoff, Time

\* What a step does to the rows of the scans table: a row is as it was, or is
\* not live, or is a new scan, or has lost its alerts to a dropped partition.
LEMMA ScanSteps ==
  ASSUME TypeOK, [Next]_vars, NEW s \in ScanId
  PROVE  \/ scan'[s] = scan[s]
         \/ ~scan'[s].live
         \/ scan'[s].live /\ scan'[s].rows /\ scan'[s].at = clock
         \/ /\ scan[s].live /\ scan'[s].at = scan[s].at
            /\ \E p \in Sweeper : DropPartitions(p)
            /\ PartitionEnd(Day(scan[s].at)) <= Day(Cutoff)
  <1>0. scan \in [ScanId -> Scan] /\ scan[s] \in Scan
    BY DEF TypeOK
  <1>1. CASE \E u \in Upload : UploadStep(u)
    BY <1>0, <1>1 DEF UploadStep, StartUpload, ClaimName, StoreUpload, StoreFails,
                      StartReading, SaveScan, AnalysisFails
  <1>2. CASE \E d \in ScanId : DeleteScan(d)
    BY <1>0, <1>2 DEF DeleteScan, Scan
  <1>3. ASSUME NEW p \in Sweeper, PurgeScans(p)
        PROVE  scan'[s] = scan[s] \/ ~scan'[s].live
    BY <1>0, <1>3 DEF PurgeScans, Scan
  <1>4. ASSUME NEW p \in Sweeper, DropPartitions(p)
        PROVE  \/ scan'[s] = scan[s]
               \/ ~scan'[s].live
               \/ /\ scan[s].live /\ scan'[s].at = scan[s].at
                  /\ PartitionEnd(Day(scan[s].at)) <= Day(Cutoff)
    BY <1>0, <1>4 DEF DropPartitions, Scan
  <1>5. ASSUME NEW p \in Sweeper,
               ReadReferenced(p) \/ ListFolder(p) \/ RemoveEntry(p) \/ FinishSweep(p)
               \/ \E n \in Name : CheckEntry(p, n)
        PROVE  scan'[s] = scan[s]
    BY <1>5 DEF ReadReferenced, ListFolder, CheckEntry, RemoveEntry, FinishSweep
  <1>6. CASE Tick \/ UNCHANGED vars
    BY <1>6 DEF Tick, vars
  <1> QED
    BY <1>1, <1>2, <1>3, <1>4, <1>5, <1>6 DEF Next, PurgeStep

\* Between its two statements a purge meets only scans its DELETE has spared.
LEMMA OldScansStep ==
  ASSUME TypeOK, OldScansGone, [Next]_vars
  PROVE  OldScansGone'
  <1>0. /\ scan \in [ScanId -> Scan] /\ purge \in [Sweeper -> Purge]
        /\ \A q \in Sweeper : purge[q].cutoff \in Int
        /\ \A s \in ScanId : scan[s].at \in Int
    BY BoundsAssumption DEF TypeOK, Scan, Purge, Time
  <1>1. /\ Cutoff \in Int /\ Cutoff' \in Int
        /\ Cutoff <= Cutoff' /\ Cutoff <= clock
    BY CutoffMoves
  <1>2. clock \in Int
    BY BoundsAssumption DEF TypeOK, Time
  <1>3. ASSUME NEW p \in Sweeper, PurgeScans(p) PROVE OldScansGone'
    <2>1. Cutoff' = Cutoff
      BY <1>3 DEF PurgeScans, Cutoff
    <2>2. ASSUME NEW s \in ScanId, scan'[s].live
          PROVE  scan[s].live /\ scan'[s].at = scan[s].at /\ scan[s].at >= Cutoff
      <3>1. ~(scan[s].live /\ scan[s].at < Cutoff)
        BY <1>0, <1>3, <2>2 DEF PurgeScans, Scan
      <3>2. scan'[s] = scan[s]
        BY <1>3, <3>1 DEF PurgeScans
      <3> QED
        BY <1>0, <1>1, <2>2, <3>1, <3>2
    <2>3. ASSUME NEW q \in Sweeper, purge'[q].pc = "scans"
          PROVE  purge'[q].cutoff = Cutoff \/ purge'[q] = purge[q]
      BY <1>0, <1>3 DEF PurgeScans, Purge
    <2> QED
      BY <1>0, <1>1, <2>1, <2>2, <2>3 DEF OldScansGone
  <1>4. ASSUME \A p \in Sweeper : ~PurgeScans(p) PROVE OldScansGone'
    <2>1. ASSUME NEW q \in Sweeper, purge'[q].pc = "scans"
          PROVE  purge'[q] = purge[q]
      <3>1. CASE \E u \in Upload : UploadStep(u)
        BY <3>1 DEF UploadStep, StartUpload, ClaimName, StoreUpload, StoreFails,
                    StartReading, SaveScan, AnalysisFails
      <3>2. CASE (\E d \in ScanId : DeleteScan(d)) \/ Tick \/ UNCHANGED vars
        BY <3>2 DEF DeleteScan, Tick, vars
      <3>3. ASSUME NEW p \in Sweeper, PurgeStep(p)
            PROVE  purge'[q] = purge[q]
        <4>1. CASE DropPartitions(p) \/ ReadReferenced(p) \/ ListFolder(p)
          BY <1>0, <2>1, <4>1 DEF DropPartitions, ReadReferenced, ListFolder, Purge
        <4>2. CASE RemoveEntry(p) \/ FinishSweep(p)
          BY <1>0, <2>1, <4>2 DEF RemoveEntry, FinishSweep, NotPurging, Purge
        <4>3. CASE \E n \in Name : CheckEntry(p, n)
          BY <1>0, <2>1, <4>3 DEF CheckEntry
        <4> QED
          BY <1>4, <3>3, <4>1, <4>2, <4>3 DEF PurgeStep
      <3> QED
        BY <3>1, <3>2, <3>3 DEF Next
    <2>2. ASSUME NEW q \in Sweeper, purge'[q].pc = "scans",
                 NEW s \in ScanId, scan'[s].live
          PROVE  scan'[s].at >= purge'[q].cutoff
      <3>1. purge[q].pc = "scans" /\ purge'[q].cutoff = purge[q].cutoff
        BY <2>1, <2>2
      <3>2. /\ purge[q].cutoff <= Cutoff
            /\ scan[s].live => scan[s].at >= purge[q].cutoff
        BY <3>1 DEF OldScansGone
      <3>3. scan'[s].live => (scan[s].live /\ scan'[s].at = scan[s].at)
                             \/ scan'[s].at = clock
        BY ScanSteps
      <3> QED
        BY <1>0, <1>1, <1>2, <2>2, <3>1, <3>2, <3>3
    <2> QED
      BY <1>0, <1>1, <2>1, <2>2 DEF OldScansGone
  <1> QED
    BY <1>3, <1>4

\* A live scan loses its alert rows to a partition that its own purge would not
\* have dropped by the cutoff of its DELETE.
LEMMA StrippedStep ==
  ASSUME TypeOK, OldScansGone, [Next]_vars, NEW s \in ScanId, Stripped(s)'
  PROVE  /\ Stripped(s) \/ \E p \in Sweeper : PassedBetween(p, s)
         /\ scan'[s].at = scan[s].at
  <1>0. /\ purge \in [Sweeper -> Purge] /\ scan[s].at \in Int
        /\ \A q \in Sweeper : purge[q].cutoff \in Int
        /\ clock \in Time
    BY BoundsAssumption DEF TypeOK, Scan, Purge, Time
  <1>1. CASE scan'[s] = scan[s]
    BY <1>1 DEF Stripped
  <1>2. CASE scan'[s] # scan[s]
    <2>1. /\ scan[s].live /\ scan'[s].at = scan[s].at
          /\ \E p \in Sweeper : DropPartitions(p)
          /\ PartitionEnd(Day(scan[s].at)) <= Day(Cutoff)
      BY <1>2, ScanSteps DEF Stripped
    <2>2. PICK p \in Sweeper : DropPartitions(p)
      BY <2>1
    <2>3. /\ purge[p].pc = "scans" /\ purge[p].cutoff <= scan[s].at
      BY <1>0, <2>1, <2>2 DEF DropPartitions, OldScansGone
    <2>4. PICK t \in Int : t = scan[s].at
      BY <1>0
    <2>5. PICK c \in Int : c = Cutoff
      BY <1>0, CutoffType
    <2>6. PICK a \in Int : a = purge[p].cutoff
      BY <1>0
    <2>7. PartitionEnd(Day(t)) <= Day(c)
      BY <2>1, <2>4, <2>5
    <2>8. t < Cutoff
      BY <1>0, <2>1, <2>4, MonthsAreOld
    <2>9. Day(a) \in Int /\ Day(t) \in Int /\ Day(a) <= Day(t)
      BY <2>3, <2>4, <2>6, DayOrder
    <2>10. Day(c) \in Int
      BY DayOrder
    <2>11. Month(Day(a)) < Month(Day(c))
      BY <2>7, <2>9, <2>10, MonthsApart
    <2> QED
      BY <2>1, <2>3, <2>4, <2>5, <2>6, <2>8, <2>11 DEF PassedBetween
  <1> QED
    BY <1>1, <1>2

\* A scan that outlives a purge outlives it with its alert rows, unless the first
\* of a month passed between the cutoffs of the purge's two statements; and a
\* scan without its rows is past the retention, so that the next purge deletes
\* it.
THEOREM AlertsOutlivePurges == Spec => AlertsKept /\ []StrippedAreOld
  <1>1. Init => OldScansGone /\ StrippedAreOld
    BY DEF Init, OldScansGone, StrippedAreOld, Stripped, NeverSaved, NotPurging
  <1>2. TypeOK /\ OldScansGone /\ [Next]_vars => OldScansGone'
    BY OldScansStep
  <1>3. TypeOK /\ OldScansGone /\ [Next]_vars
        => [\A s \in ScanId : Stripped(s)' =>
                Stripped(s) \/ \E p \in Sweeper : PassedBetween(p, s)]_vars
    BY StrippedStep
  <1>4. TypeOK /\ OldScansGone /\ StrippedAreOld /\ [Next]_vars => StrippedAreOld'
    <2> SUFFICES ASSUME TypeOK, OldScansGone, StrippedAreOld, [Next]_vars,
                        NEW s \in ScanId, Stripped(s)'
                 PROVE  scan'[s].at < Cutoff'
      BY DEF StrippedAreOld
    <2>1. Cutoff \in Int /\ Cutoff' \in Int /\ Cutoff <= Cutoff'
      BY CutoffMoves
    <2>2. scan[s].at \in Int /\ scan'[s].at = scan[s].at
      BY StrippedStep, BoundsAssumption DEF TypeOK, Scan, Time
    <2>3. scan[s].at < Cutoff
      BY StrippedStep DEF StrippedAreOld, PassedBetween
    <2> QED
      BY <2>1, <2>2, <2>3
  <1> QED
    BY <1>1, <1>2, <1>3, <1>4, TypeCorrect, PTL DEF Spec, AlertsKept

(***************************************************************************)
(* Files, requests and sweeps.                                             *)
(***************************************************************************)

\* The fields of a well typed state.
LEMMA Fields ==
  ASSUME TypeOK
  PROVE  /\ clock \in Nat /\ MinAge \in Nat /\ Deadline \in Nat
         /\ \A n \in Name : file[n].mtime \in Nat
         /\ \A u \in Upload : upload[u].name \in Name
         /\ \A s \in ScanId : scan[s].name \in Name
         /\ \A p \in Sweeper : purge[p].name \in Name /\ purge[p].now \in Nat
  BY BoundsAssumption DEF TypeOK, File, Request, Scan, Purge, Time

\* A request in flight has its own name and a file there that is too young
\* for a sweep.
LEMMA InFlightYoung ==
  ASSUME TypeOK, NamesHeld, FilesAged, SweepsApart, NEW u \in Upload, InFlight(u)
  PROVE  /\ Exists(upload[u].name)
         /\ clock - file[upload[u].name].mtime < MinAge
  <1>1. Exists(upload[u].name)
    BY ContentAssumption DEF NamesHeld, InFlightKept, InFlight, Exists, NoFile, Empty
  <1>2. Age(u) = 0 \/ Age(u) < Deadline
    BY DEF FilesAged
  <1> QED
    BY <1>1, <1>2, Fields DEF Age, SweepsApart

\* Requests that stop, or go on as before, leave names and ages as they are.
LEMMA Released ==
  ASSUME NamesHeld, FilesAged, UNCHANGED <<file, clock>>,
         \A v \in Upload : upload'[v] = upload[v]
                           \/ upload'[v].pc \notin {"claimed", "stored", "reading"}
  PROVE  NamesHeld' /\ FilesAged'
  <1>1. ASSUME NEW v \in Upload, InFlight(v)'
        PROVE  upload'[v] = upload[v] /\ InFlight(v)
    BY <1>1 DEF InFlight
  <1>2. (\A u, v \in Upload :
           InFlight(u) /\ InFlight(v) /\ upload[u].name = upload[v].name => u = v)'
    BY <1>1 DEF NamesHeld
  <1>3. (\A u \in Upload : upload[u].pc = "claimed" =>
           file[upload[u].name].content = Empty)'
    BY <1>1 DEF NamesHeld, InFlight
  <1>4. InFlightKept'
    BY <1>1 DEF NamesHeld, InFlightKept, InFlight
  <1>5. (\A u \in Upload : upload[u].pc = "reading" => upload[u].read = u)'
    BY <1>1 DEF NamesHeld, InFlight
  <1>6. FilesAged'
    BY <1>1 DEF FilesAged, Age
  <1> QED
    BY <1>2, <1>3, <1>4, <1>5, <1>6 DEF NamesHeld

\* Fewer scans need fewer files.
LEMMA FewerScans ==
  ASSUME ScansSourced, UNCHANGED file,
         \A s \in ScanId : scan'[s].live =>
             scan[s].live /\ scan'[s].name = scan[s].name
                          /\ scan'[s].content = scan[s].content
  PROVE  /\ ScansSourced'
         /\ SweepSound /\ UNCHANGED <<purge, clock>> => SweepSound'
  <1>1. ScansSourced'
    BY DEF ScansSourced, SourceKept
  <1>2. ASSUME SweepSound, UNCHANGED <<purge, clock>> PROVE SweepSound'
    BY <1>2 DEF SweepSound, Exists, TooNew
  <1> QED
    BY <1>1, <1>2

\* A file that is replaced has no scan, is nobody else's, and is not the one a
\* sweep is about to remove.
LEMMA FileReplaced ==
  ASSUME TypeOK, ScansSourced, SweepSound, NEW n \in Name, NEW f,
         file' = [file EXCEPT ![n] = f], UNCHANGED <<scan, purge, clock>>,
         \A s \in ScanId : scan[s].live => scan[s].name # n,
         \A p \in Sweeper : purge[p].pc = "remove" => purge[p].name # n
  PROVE  ScansSourced' /\ SweepSound'
  <1>1. ASSUME NEW m \in Name, m # n PROVE file'[m] = file[m]
    BY <1>1 DEF TypeOK
  <1>2. ScansSourced'
    BY <1>1, Fields DEF ScansSourced, SourceKept
  <1>3. ASSUME NEW p \in Sweeper
        PROVE  /\ (purge[p].pc = "list" =>
                     \A s \in ScanId : scan[s].live =>
                         \/ scan[s].name \in purge[p].referenced
                         \/ clock - file[scan[s].name].mtime < MinAge)'
               /\ (purge[p].pc \in {"sweep", "remove"} =>
                     /\ purge[p].now <= clock
                     /\ \A s \in ScanId : scan[s].live =>
                            \/ scan[s].name \in purge[p].referenced
                            \/ TooNew(p, scan[s].name))'
    BY <1>1, Fields DEF SweepSound, TooNew
  <1>4. ASSUME NEW p \in Sweeper, purge[p].pc = "remove"
        PROVE  (/\ Exists(purge[p].name)
                /\ purge[p].name \notin purge[p].referenced
                /\ ~TooNew(p, purge[p].name))'
    BY <1>1, <1>4, Fields DEF SweepSound, TooNew, Exists
  <1>5. SweepSound'
    BY <1>3, <1>4 DEF SweepSound
  <1> QED
    BY <1>2, <1>5

\* Every step of an upload keeps the invariant.
LEMMA UploadKeeps ==
  ASSUME TypeOK, StoreInv, SweepsApart, NEW u \in Upload, UploadStep(u)
  PROVE  StoreInv'
  <1> DEFINE n == upload[u].name
  <1>0. /\ NamesHeld /\ FilesAged /\ ScansSourced /\ SweepSound
        /\ n \in Name /\ upload[u] \in Request
        /\ file[n] \in File /\ clock \in Nat
    BY Fields DEF StoreInv, TypeOK
  <1>1. CASE StartUpload(u) \/ StoreFails(u) \/ AnalysisFails(u)
    <2>1. UNCHANGED <<file, scan, purge, clock>>
      BY <1>1 DEF StartUpload, StoreFails, AnalysisFails
    <2>2. \A v \in Upload : upload'[v] = upload[v]
                            \/ upload'[v].pc \notin {"claimed", "stored", "reading"}
      BY <1>0, <1>1 DEF StartUpload, StoreFails, AnalysisFails, Waiting, TypeOK, Request
    <2>3. NamesHeld' /\ FilesAged'
      BY <1>0, <2>1, <2>2, Released
    <2>4. ScansSourced' /\ SweepSound'
      BY <1>0, <2>1, FewerScans
    <2> QED
      BY <2>3, <2>4 DEF StoreInv
  <1>2. CASE ClaimName(u) /\ Exists(n)
    <2>1. UNCHANGED <<file, scan, purge, clock>>
      BY <1>2 DEF ClaimName
    <2>2. \A v \in Upload : upload'[v] = upload[v]
                            \/ upload'[v].pc \notin {"claimed", "stored", "reading"}
      BY <1>0, <1>2 DEF ClaimName, TypeOK, Request
    <2>3. NamesHeld' /\ FilesAged'
      BY <1>0, <2>1, <2>2, Released
    <2>4. ScansSourced' /\ SweepSound'
      BY <1>0, <2>1, FewerScans
    <2> QED
      BY <2>3, <2>4 DEF StoreInv
  <1>3. CASE ClaimName(u) /\ ~Exists(n)
    <2>1. /\ UNCHANGED <<scan, purge, clock>>
          /\ file' = [file EXCEPT ![n] = [content |-> Empty, mtime |-> clock]]
          /\ upload' = [upload EXCEPT ![u].pc = "claimed"]
          /\ upload[u].pc = "claiming"
      BY <1>3 DEF ClaimName
    <2>2. file' [n] = [content |-> Empty, mtime |-> clock]
      BY <1>0, <2>1 DEF TypeOK
    <2>3. /\ upload'[u].pc = "claimed" /\ upload'[u].name = n
          /\ \A v \in Upload : v # u => upload'[v] = upload[v]
      BY <1>0, <2>1 DEF TypeOK, Request
    <2>4. ASSUME NEW v \in Upload, InFlight(v) PROVE upload[v].name # n
      BY <1>0, <1>3, <2>4, InFlightYoung
    <2>5. ASSUME NEW s \in ScanId, scan[s].live PROVE scan[s].name # n
      BY <1>0, <1>3, <2>5, ContentAssumption DEF ScansSourced, SourceKept, Exists
    <2>6. ASSUME NEW p \in Sweeper, purge[p].pc = "remove" PROVE purge[p].name # n
      BY <1>0, <1>3, <2>6 DEF SweepSound
    <2>7. ScansSourced' /\ SweepSound'
      BY <1>0, <2>1, <2>5, <2>6, FileReplaced
    <2>8. ASSUME NEW v \in Upload, v # u, InFlight(v)'
          PROVE  /\ InFlight(v) /\ upload'[v] = upload[v]
                 /\ file'[upload[v].name] = file[upload[v].name]
                 /\ upload[v].name # n
      <3>1. InFlight(v) /\ upload'[v] = upload[v]
        BY <2>3, <2>8 DEF InFlight
      <3> QED
        BY <2>1, <2>4, <3>1, Fields DEF TypeOK
    <2>9. NamesHeld'
      <3>1. (\A v, w \in Upload :
               InFlight(v) /\ InFlight(w) /\ upload[v].name = upload[w].name => v = w)'
        BY <1>0, <2>3, <2>8 DEF NamesHeld
      <3>2. ASSUME NEW v \in Upload, v # u, InFlight(v)'
            PROVE  /\ upload'[v].pc = "claimed" => file'[upload'[v].name].content = Empty
                   /\ upload'[v].pc \in {"stored", "reading"} => file'[upload'[v].name].content = v
                   /\ upload'[v].pc = "reading" => upload'[v].read = v
        BY <1>0, <2>8, <3>2 DEF NamesHeld, InFlightKept
      <3>3. (\A v \in Upload : upload[v].pc = "claimed" =>
               file[upload[v].name].content = Empty)'
        BY <2>2, <2>3, <3>2 DEF InFlight
      <3>4. InFlightKept' /\ (\A v \in Upload : upload[v].pc = "reading" => upload[v].read = v)'
        BY <2>3, <3>2 DEF InFlight, InFlightKept
      <3> QED
        BY <3>1, <3>3, <3>4 DEF NamesHeld
    <2>10. FilesAged'
      <3>1. (\A m \in Name : file[m].mtime <= clock)'
        BY <1>0, <2>1, Fields DEF FilesAged, TypeOK
      <3>2. ASSUME NEW v \in Upload, InFlight(v)' PROVE (Age(v) = 0 \/ Age(v) < Deadline)'
        <4>1. CASE v = u
          BY <1>0, <2>1, <2>2, <2>3, <4>1 DEF Age
        <4>2. CASE v # u
          BY <1>0, <2>1, <2>8, <3>2, <4>2 DEF Age, FilesAged
        <4> QED
          BY <4>1, <4>2
      <3> QED
        BY <3>1, <3>2 DEF FilesAged
    <2> QED
      BY <2>7, <2>9, <2>10 DEF StoreInv
  <1>4. CASE StoreUpload(u)
    <2>1. /\ UNCHANGED <<scan, purge, clock>>
          /\ file' = [file EXCEPT ![n] = [content |-> u, mtime |-> clock]]
          /\ upload' = [upload EXCEPT ![u].pc = "stored"]
          /\ upload[u].pc = "claimed"
      BY <1>4 DEF StoreUpload
    <2>2. file' [n] = [content |-> u, mtime |-> clock]
      BY <1>0, <2>1 DEF TypeOK
    <2>3. /\ upload'[u].pc = "stored" /\ upload'[u].name = n
          /\ \A v \in Upload : v # u => upload'[v] = upload[v]
      BY <1>0, <2>1 DEF TypeOK, Request
    <2>4. InFlight(u) /\ file[n].content = Empty
      BY <1>0, <2>1 DEF InFlight, NamesHeld
    <2>5. ASSUME NEW s \in ScanId, scan[s].live PROVE scan[s].name # n
      BY <1>0, <2>4, <2>5, ContentAssumption DEF ScansSourced, SourceKept
    <2>6. ASSUME NEW p \in Sweeper, purge[p].pc = "remove" PROVE purge[p].name # n
      BY <1>0, <2>4, <2>6, InFlightYoung, Fields DEF SweepSound, TooNew
    <2>7. ScansSourced' /\ SweepSound'
      BY <1>0, <2>1, <2>5, <2>6, FileReplaced
    <2>8. ASSUME NEW v \in Upload, v # u, InFlight(v)'
          PROVE  /\ InFlight(v) /\ upload'[v] = upload[v]
                 /\ file'[upload[v].name] = file[upload[v].name]
                 /\ upload[v].name # n
      <3>1. InFlight(v) /\ upload'[v] = upload[v]
        BY <2>3, <2>8 DEF InFlight
      <3>2. upload[v].name # n
        BY <1>0, <2>4, <2>8, <3>1 DEF NamesHeld
      <3> QED
        BY <2>1, <3>1, <3>2, Fields DEF TypeOK
    <2>9. NamesHeld'
      <3>1. (\A v, w \in Upload :
               InFlight(v) /\ InFlight(w) /\ upload[v].name = upload[w].name => v = w)'
        BY <1>0, <2>3, <2>8 DEF NamesHeld
      <3>2. ASSUME NEW v \in Upload, v # u, InFlight(v)'
            PROVE  /\ upload'[v].pc = "claimed" => file'[upload'[v].name].content = Empty
                   /\ upload'[v].pc \in {"stored", "reading"} => file'[upload'[v].name].content = v
                   /\ upload'[v].pc = "reading" => upload'[v].read = v
        BY <1>0, <2>8, <3>2 DEF NamesHeld, InFlightKept
      <3>3. (\A v \in Upload : upload[v].pc = "claimed" =>
               file[upload[v].name].content = Empty)'
        BY <2>3, <3>2 DEF InFlight
      <3>4. InFlightKept'
        BY <2>2, <2>3, <3>2 DEF InFlight, InFlightKept
      <3>5. (\A v \in Upload : upload[v].pc = "reading" => upload[v].read = v)'
        BY <2>3, <3>2 DEF InFlight
      <3> QED
        BY <3>1, <3>3, <3>4, <3>5 DEF NamesHeld
    <2>10. FilesAged'
      <3>1. (\A m \in Name : file[m].mtime <= clock)'
        BY <1>0, <2>1, Fields DEF FilesAged, TypeOK
      <3>2. ASSUME NEW v \in Upload, InFlight(v)' PROVE (Age(v) = 0 \/ Age(v) < Deadline)'
        <4>1. CASE v = u
          BY <1>0, <2>1, <2>2, <2>3, <4>1 DEF Age
        <4>2. CASE v # u
          BY <1>0, <2>1, <2>8, <3>2, <4>2 DEF Age, FilesAged
        <4> QED
          BY <4>1, <4>2
      <3> QED
        BY <3>1, <3>2 DEF FilesAged
    <2> QED
      BY <2>7, <2>9, <2>10 DEF StoreInv
  <1>5. CASE StartReading(u)
    <2>0. file[n].content = u /\ InFlight(u) /\ Exists(n) /\ upload[u].pc = "stored"
      BY <1>0, <1>5, InFlightYoung DEF StartReading, NamesHeld, InFlightKept, InFlight
    <2>1. /\ UNCHANGED <<file, scan, purge, clock>>
          /\ upload' = [upload EXCEPT ![u] = [@ EXCEPT !.pc = "reading", !.read = u]]
      BY <1>5, <2>0 DEF StartReading
    <2>2. /\ upload'[u].pc = "reading" /\ upload'[u].name = n /\ upload'[u].read = u
          /\ \A v \in Upload : v # u => upload'[v] = upload[v]
      BY <1>0, <2>1 DEF TypeOK, Request
    <2>3. ASSUME NEW v \in Upload PROVE InFlight(v)' => InFlight(v) /\ upload'[v].name = upload[v].name
      BY <2>0, <2>2 DEF InFlight
    <2>4. NamesHeld'
      <3>1. (\A v, w \in Upload :
               InFlight(v) /\ InFlight(w) /\ upload[v].name = upload[w].name => v = w)'
        BY <1>0, <2>3 DEF NamesHeld
      <3>2. (\A v \in Upload : upload[v].pc = "claimed" =>
               file[upload[v].name].content = Empty)'
        BY <1>0, <2>1, <2>2 DEF NamesHeld
      <3>3. InFlightKept'
        BY <1>0, <2>0, <2>1, <2>2 DEF NamesHeld, InFlightKept
      <3>4. (\A v \in Upload : upload[v].pc = "reading" => upload[v].read = v)'
        BY <1>0, <2>2 DEF NamesHeld
      <3> QED
        BY <3>1, <3>2, <3>3, <3>4 DEF NamesHeld
    <2>5. FilesAged'
      BY <1>0, <2>1, <2>3 DEF FilesAged, Age
    <2>6. ScansSourced' /\ SweepSound'
      BY <1>0, <2>1, FewerScans
    <2> QED
      BY <2>4, <2>5, <2>6 DEF StoreInv
  <1>6. CASE SaveScan(u)
    <2>1. /\ UNCHANGED <<file, purge, clock>>
          /\ upload[u].pc = "reading" /\ nextScan \in ScanId
          /\ scan' = [scan EXCEPT ![nextScan] =
                          [live |-> TRUE, rows |-> TRUE, name |-> n,
                           content |-> upload[u].read, at |-> clock]]
          /\ upload' = [upload EXCEPT ![u].pc = "done"]
      BY <1>6 DEF SaveScan
    <2>2. NamesHeld' /\ FilesAged'
      <3>1. \A v \in Upload : upload'[v] = upload[v]
                              \/ upload'[v].pc \notin {"claimed", "stored", "reading"}
        BY <1>0, <2>1 DEF TypeOK, Request
      <3> QED
        BY <1>0, <2>1, <3>1, Released
    <2>3. /\ upload[u].read = u /\ file[n].content = u
          /\ clock - file[n].mtime < MinAge
      <3>1. InFlight(u)
        BY <2>1 DEF InFlight
      <3> QED
        BY <1>0, <2>1, <3>1, InFlightYoung DEF NamesHeld, InFlightKept
    <2>4. ASSUME NEW s \in ScanId
          PROVE  scan'[s] = scan[s] \/ (scan'[s].name = n /\ scan'[s].content = u)
      BY <2>1, <2>3 DEF TypeOK
    <2>5. ScansSourced'
      BY <1>0, <2>1, <2>3, <2>4 DEF ScansSourced, SourceKept
    <2>6. SweepSound'
      <3>1. ASSUME NEW p \in Sweeper, purge[p].now <= clock PROVE TooNew(p, n)
        BY <1>0, <2>3, <3>1, Fields DEF TooNew
      <3>2. \A p \in Sweeper, m \in Name : TooNew(p, m)' = TooNew(p, m) /\ Exists(m)' = Exists(m)
        BY <2>1 DEF TooNew, Exists
      <3>3. ASSUME NEW p \in Sweeper
            PROVE  (purge[p].pc = "list" =>
                       \A s \in ScanId : scan[s].live =>
                           \/ scan[s].name \in purge[p].referenced
                           \/ clock - file[scan[s].name].mtime < MinAge)'
        BY <1>0, <2>1, <2>3, <2>4 DEF SweepSound
      <3>4. ASSUME NEW p \in Sweeper
            PROVE  (purge[p].pc \in {"sweep", "remove"} =>
                     /\ purge[p].now <= clock
                     /\ \A s \in ScanId : scan[s].live =>
                            \/ scan[s].name \in purge[p].referenced
                            \/ TooNew(p, scan[s].name))'
        BY <1>0, <2>1, <2>4, <3>1 DEF SweepSound, TooNew
      <3>5. ASSUME NEW p \in Sweeper
            PROVE  (purge[p].pc = "remove" =>
                      /\ Exists(purge[p].name)
                      /\ purge[p].name \notin purge[p].referenced
                      /\ ~TooNew(p, purge[p].name))'
        BY <1>0, <2>1 DEF SweepSound, Exists, TooNew
      <3> QED
        BY <3>3, <3>4, <3>5 DEF SweepSound
    <2> QED
      BY <2>2, <2>5, <2>6 DEF StoreInv
  <1> QED
    BY <1>1, <1>2, <1>3, <1>4, <1>5, <1>6 DEF UploadStep

\* Every step of a purge keeps the invariant.
LEMMA PurgeKeeps ==
  ASSUME TypeOK, StoreInv, SweepsApart, NEW p \in Sweeper, PurgeStep(p)
  PROVE  StoreInv'
  <1>0. /\ NamesHeld /\ FilesAged /\ ScansSourced /\ SweepSound
        /\ purge[p] \in Purge /\ clock \in Nat
        /\ \A q \in Sweeper : q = p
    BY Fields DEF StoreInv, TypeOK, SweepsApart
  <1>1. UNCHANGED <<upload, clock>>
    BY DEF PurgeStep, PurgeScans, DropPartitions, ReadReferenced, ListFolder,
           CheckEntry, RemoveEntry, FinishSweep
  <1>2. CASE UNCHANGED file
    <2>1. NamesHeld' /\ FilesAged'
      BY <1>0, <1>1, <1>2, Released
    <2>2. CASE PurgeScans(p)
      <3>1. /\ purge'[p].pc = "scans"
            /\ scan' = [s \in ScanId |->
                           IF scan[s].live /\ scan[s].at < Cutoff
                           THEN [scan[s] EXCEPT !.live = FALSE, !.rows = FALSE]
                           ELSE scan[s]]
        BY <1>0, <2>2 DEF PurgeScans, TypeOK, Purge
      <3>2. ASSUME NEW s \in ScanId
            PROVE  scan'[s].live =>
                     scan[s].live /\ scan'[s].name = scan[s].name
                                  /\ scan'[s].content = scan[s].content
        <4>1. scan[s] \in Scan
          BY DEF TypeOK
        <4> QED
          BY <3>1, <4>1 DEF Scan
      <3>3. ScansSourced'
        BY <1>0, <1>2, <3>2, FewerScans
      <3>4. SweepSound'
        BY <1>0, <3>1 DEF SweepSound
      <3> QED
        BY <2>1, <3>3, <3>4 DEF StoreInv
    <2>3. CASE DropPartitions(p)
      <3>1. /\ purge'[p].pc = "partitions"
            /\ scan' = [s \in ScanId |->
                           IF PartitionEnd(Day(scan[s].at)) <= Day(Cutoff)
                           THEN [scan[s] EXCEPT !.rows = FALSE]
                           ELSE scan[s]]
        BY <1>0, <2>3 DEF DropPartitions, TypeOK, Purge
      <3>2. ASSUME NEW s \in ScanId
            PROVE  scan'[s].live =>
                     scan[s].live /\ scan'[s].name = scan[s].name
                                  /\ scan'[s].content = scan[s].content
        <4>1. scan[s] \in Scan
          BY DEF TypeOK
        <4> QED
          BY <3>1, <4>1 DEF Scan
      <3>3. ScansSourced'
        BY <1>0, <1>2, <3>2, FewerScans
      <3>4. SweepSound'
        BY <1>0, <3>1 DEF SweepSound
      <3> QED
        BY <2>1, <3>3, <3>4 DEF StoreInv
    <2>4. CASE ReadReferenced(p)
      <3>1. /\ UNCHANGED scan
            /\ purge'[p].pc = "list" /\ purge'[p].referenced = Referenced
        BY <1>0, <2>4 DEF ReadReferenced, TypeOK, Purge
      <3>2. \A s \in ScanId : scan[s].live => scan[s].name \in Referenced
        BY DEF Referenced
      <3>3. ScansSourced'
        BY <1>0, <1>2, <3>1, FewerScans
      <3>4. SweepSound'
        BY <1>0, <3>1, <3>2 DEF SweepSound
      <3> QED
        BY <2>1, <3>3, <3>4 DEF StoreInv
    <2>5. CASE ListFolder(p)
      <3>1. /\ UNCHANGED scan
            /\ purge[p].pc = "list"
            /\ purge'[p].pc = "sweep" /\ purge'[p].now = clock
            /\ purge'[p].referenced = purge[p].referenced
        BY <1>0, <2>5 DEF ListFolder, TypeOK, Purge
      <3>2. \A s \in ScanId : scan[s].live =>
                \/ scan[s].name \in purge[p].referenced
                \/ clock - file[scan[s].name].mtime < MinAge
        BY <1>0, <3>1 DEF SweepSound
      <3>3. ScansSourced'
        BY <1>0, <1>2, <3>1, FewerScans
      <3>4. SweepSound'
        BY <1>0, <1>1, <1>2, <3>1, <3>2 DEF SweepSound, TooNew
      <3> QED
        BY <2>1, <3>3, <3>4 DEF StoreInv
    <2>6. ASSUME NEW n \in Name, CheckEntry(p, n) PROVE StoreInv'
      <3>1. /\ UNCHANGED scan
            /\ purge[p].pc = "sweep"
            /\ purge'[p].pc \in {"sweep", "remove"}
            /\ purge'[p].pc = "remove" =>
                   Exists(n) /\ n \notin purge[p].referenced /\ ~TooNew(p, n)
            /\ purge'[p].name = n /\ purge'[p].now = purge[p].now
            /\ purge'[p].referenced = purge[p].referenced
        BY <1>0, <2>6 DEF CheckEntry, TypeOK, Purge
      <3>2. \A m \in Name : TooNew(p, m)' = TooNew(p, m) /\ Exists(m)' = Exists(m)
        BY <1>2, <3>1 DEF TooNew, Exists
      <3>3. ScansSourced'
        BY <1>0, <1>2, <3>1, FewerScans
      <3>4. SweepSound'
        <4>1. \A s \in ScanId : scan[s].live =>
                  \/ scan[s].name \in purge[p].referenced
                  \/ TooNew(p, scan[s].name)
          BY <1>0, <3>1 DEF SweepSound
        <4>2. purge[p].now <= clock
          BY <1>0, <3>1 DEF SweepSound
        <4> QED
          BY <1>0, <1>1, <3>1, <3>2, <4>1, <4>2, Fields DEF SweepSound
      <3> QED
        BY <2>1, <3>3, <3>4 DEF StoreInv
    <2>7. CASE FinishSweep(p)
      <3>1. UNCHANGED scan /\ purge'[p].pc = "idle"
        BY <2>7 DEF FinishSweep, TypeOK, NotPurging
      <3>2. ScansSourced'
        BY <1>0, <1>2, <3>1, FewerScans
      <3>3. SweepSound'
        BY <1>0, <3>1 DEF SweepSound
      <3> QED
        BY <2>1, <3>2, <3>3 DEF StoreInv
    <2>8. CASE RemoveEntry(p)
      <3>1. /\ UNCHANGED scan /\ purge'[p].pc = "sweep"
            /\ purge[p].pc = "remove"
            /\ purge'[p].now = purge[p].now
            /\ purge'[p].referenced = purge[p].referenced
        BY <1>0, <2>8 DEF RemoveEntry, TypeOK, Purge
      <3>2. ScansSourced'
        BY <1>0, <1>2, <3>1, FewerScans
      <3>3. SweepSound'
        BY <1>0, <1>1, <1>2, <3>1 DEF SweepSound, TooNew
      <3> QED
        BY <2>1, <3>2, <3>3 DEF StoreInv
    <2> QED
      BY <2>2, <2>3, <2>4, <2>5, <2>6, <2>7, <2>8 DEF PurgeStep
  <1>3. CASE RemoveEntry(p)
    <2> DEFINE n == purge[p].name
    <2>1. /\ purge[p].pc = "remove" /\ UNCHANGED scan
          /\ file' = [file EXCEPT ![n] = NotThere]
          /\ n \in Name /\ Exists(n) /\ n \notin purge[p].referenced /\ ~TooNew(p, n)
          /\ purge[p].now <= clock
          /\ purge'[p].pc = "sweep" /\ purge'[p].now = purge[p].now
          /\ purge'[p].referenced = purge[p].referenced
      BY <1>0, <1>3, Fields DEF RemoveEntry, SweepSound, TypeOK, Purge
    <2>2. ASSUME NEW s \in ScanId, scan[s].live
          PROVE  /\ scan[s].name \in Name /\ scan[s].name # n
                 /\ scan[s].name \in purge[p].referenced \/ TooNew(p, scan[s].name)
      BY <1>0, <2>1, <2>2, Fields DEF SweepSound
    <2>3. ASSUME NEW u \in Upload, InFlight(u) PROVE upload[u].name \in Name /\ upload[u].name # n
      BY <1>0, <2>1, <2>3, InFlightYoung, Fields DEF TooNew
    <2>4. ASSUME NEW m \in Name
          PROVE  /\ m # n => file'[m] = file[m]
                 /\ m # n => TooNew(p, m)' = TooNew(p, m)
                 /\ m = n => file'[m].mtime = 0
      BY <2>1 DEF TypeOK, TooNew, NotThere
    <2>5. NamesHeld'
      <3>1. \A u \in Upload : InFlight(u)' = InFlight(u)
        BY <1>1 DEF InFlight
      <3>2. (\A u, v \in Upload :
               InFlight(u) /\ InFlight(v) /\ upload[u].name = upload[v].name => u = v)'
        BY <1>0, <1>1, <3>1 DEF NamesHeld
      <3>3. (\A u \in Upload : upload[u].pc = "claimed" =>
               file[upload[u].name].content = Empty)'
        BY <1>0, <1>1, <2>3, <2>4 DEF NamesHeld, InFlight
      <3>4. InFlightKept'
        BY <1>0, <1>1, <2>3, <2>4 DEF NamesHeld, InFlightKept, InFlight
      <3>5. (\A u \in Upload : upload[u].pc = "reading" => upload[u].read = u)'
        BY <1>0, <1>1 DEF NamesHeld
      <3> QED
        BY <3>2, <3>3, <3>4, <3>5 DEF NamesHeld
    <2>6. FilesAged'
      <3>1. (\A m \in Name : file[m].mtime <= clock)'
        BY <1>0, <1>1, <2>4 DEF FilesAged
      <3>2. (\A u \in Upload : InFlight(u) => Age(u) = 0 \/ Age(u) < Deadline)'
        BY <1>0, <1>1, <2>3, <2>4 DEF FilesAged, Age, InFlight
      <3> QED
        BY <3>1, <3>2 DEF FilesAged
    <2>7. ScansSourced'
      BY <1>0, <2>1, <2>2, <2>4 DEF ScansSourced, SourceKept
    <2>8. SweepSound'
      BY <1>0, <1>1, <2>1, <2>2, <2>4 DEF SweepSound
    <2> QED
      BY <2>5, <2>6, <2>7, <2>8 DEF StoreInv
  <1>4. UNCHANGED file \/ RemoveEntry(p)
    BY DEF PurgeStep, PurgeScans, DropPartitions, ReadReferenced, ListFolder,
           CheckEntry, FinishSweep
  <1> QED
    BY <1>2, <1>3, <1>4

\* Every step of the store keeps the invariant.
LEMMA StoreStep ==
  ASSUME TypeOK, StoreInv, SweepsApart, [Next]_vars
  PROVE  StoreInv'
  <1>0. NamesHeld /\ FilesAged /\ ScansSourced /\ SweepSound
    BY DEF StoreInv
  <1>1. ASSUME NEW d \in ScanId, DeleteScan(d) PROVE StoreInv'
    <2>1. /\ UNCHANGED <<file, upload, purge, clock>>
          /\ scan' = [scan EXCEPT ![d] = [scan[d] EXCEPT !.live = FALSE, !.rows = FALSE]]
      BY <1>1 DEF DeleteScan
    <2>2. ASSUME NEW s \in ScanId
          PROVE  scan'[s].live =>
                   scan[s].live /\ scan'[s].name = scan[s].name
                                /\ scan'[s].content = scan[s].content
      <3>1. scan[s] \in Scan
        BY DEF TypeOK
      <3> QED
        BY <2>1, <3>1 DEF TypeOK, Scan
    <2> QED
      BY <1>0, <2>1, <2>2, FewerScans, Released DEF StoreInv
  <1>2. CASE Tick
    <2>1. /\ UNCHANGED <<file, upload, scan, nextScan, purge>>
          /\ clock' = clock + 1
          /\ \A u \in Upload : InFlight(u) => Age(u) + 1 < Deadline
          /\ \A p \in Sweeper : purge[p].pc # "list"
      BY <1>2 DEF Tick
    <2>2. NamesHeld'
      BY <1>0, <2>1 DEF NamesHeld, InFlightKept, InFlight
    <2>3. FilesAged'
      <3>1. (\A m \in Name : file[m].mtime <= clock)'
        BY <1>0, <2>1, Fields DEF FilesAged
      <3>2. ASSUME NEW u \in Upload, InFlight(u)' PROVE (Age(u) < Deadline)'
        <4>1. InFlight(u) /\ Age(u) + 1 < Deadline
          BY <2>1, <3>2 DEF InFlight
        <4> QED
          BY <2>1, <4>1, Fields DEF Age
      <3> QED
        BY <3>1, <3>2 DEF FilesAged
    <2>4. ScansSourced'
      BY <1>0, <2>1 DEF ScansSourced, SourceKept
    <2>5. SweepSound'
      BY <1>0, <2>1, Fields DEF SweepSound, TooNew, Exists
    <2> QED
      BY <2>2, <2>3, <2>4, <2>5 DEF StoreInv
  <1>3. CASE UNCHANGED vars
    <2>1. UNCHANGED <<file, upload, scan, purge, clock>>
      BY <1>3 DEF vars
    <2> QED
      BY <1>0, <2>1, FewerScans, Released DEF StoreInv
  <1> QED
    BY <1>1, <1>2, <1>3, UploadKeeps, PurgeKeeps DEF Next

\* Whose files they are and how old: with one purge at a time, and analyses
\* that end before their file is old enough for a sweep.
THEOREM StoreInvariant == ASSUME SweepsApart PROVE Spec => []StoreInv
  <1>1. Init => StoreInv
    BY BoundsAssumption
    DEF Init, StoreInv, NamesHeld, FilesAged, ScansSourced, SweepSound, InFlight,
        InFlightKept, SourceKept, Waiting, NeverSaved, NotPurging, NotThere, Time
  <1>2. TypeOK /\ StoreInv /\ [Next]_vars => StoreInv'
    BY StoreStep
  <1> QED
    BY <1>1, <1>2, TypeCorrect, PTL DEF Spec

\* The name of a scan leads to the bytes it was made from.
THEOREM ScansKeepTheirSource == ASSUME SweepsApart PROVE Spec => []SourceKept
  <1>1. StoreInv => SourceKept
    BY DEF StoreInv, ScansSourced
  <1> QED
    BY <1>1, StoreInvariant, PTL

\* What an upload wrote stays under its name until its analysis has ended.
THEOREM UploadsKeepTheirFile == ASSUME SweepsApart PROVE Spec => []InFlightKept
  <1>1. StoreInv => InFlightKept
    BY DEF StoreInv, NamesHeld
  <1> QED
    BY <1>1, StoreInvariant, PTL

\* Files modified within the window are left alone.
THEOREM SweepsSpareYoungFiles == ASSUME SweepsApart PROVE Spec => YoungFilesLeftAlone
  <1> DEFINE Spared == \A n \in Name :
                 (Exists(n) /\ ~Exists(n)') => clock - file[n].mtime >= MinAge
  <1>1. ASSUME TypeOK, StoreInv, [Next]_vars, NEW n \in Name, Exists(n), ~Exists(n)'
        PROVE  clock - file[n].mtime >= MinAge
    <2>1. PICK p \in Sweeper : RemoveEntry(p)
      <3>1. ASSUME NEW u \in Upload, UploadStep(u) PROVE FALSE
        <4>1. \/ UNCHANGED file
              \/ \E m \in Name, c \in Content :
                     file' = [file EXCEPT ![m] = [content |-> c, mtime |-> clock]]
          BY <1>1, <3>1, Fields
          DEF UploadStep, StartUpload, ClaimName, StoreUpload, StoreFails,
              StartReading, SaveScan, AnalysisFails, Content
        <4>2. NoFile \notin Content
          BY ContentAssumption DEF Content, NoFile, Empty
        <4> QED
          BY <1>1, <4>1, <4>2 DEF Exists, TypeOK
      <3>2. ASSUME NEW s \in ScanId, DeleteScan(s) PROVE FALSE
        BY <1>1, <3>2 DEF DeleteScan, Exists
      <3>3. ASSUME NEW p \in Sweeper, PurgeStep(p) PROVE RemoveEntry(p)
        BY <1>1, <3>3 DEF PurgeStep, PurgeScans, DropPartitions, ReadReferenced,
                          ListFolder, CheckEntry, FinishSweep, Exists
      <3>4. ~Tick /\ ~UNCHANGED vars
        BY <1>1 DEF Tick, vars, Exists
      <3> QED
        BY <1>1, <3>1, <3>2, <3>3, <3>4 DEF Next
    <2>2. purge[p].name = n
      BY <1>1, <2>1 DEF RemoveEntry, Exists, TypeOK
    <2>3. purge[p].now <= clock /\ ~TooNew(p, n)
      BY <1>1, <2>1, <2>2 DEF RemoveEntry, StoreInv, SweepSound
    <2> QED
      BY <1>1, <2>3, Fields DEF TooNew
  <1>2. TypeOK /\ StoreInv /\ [Next]_vars => [Spared]_vars
    BY <1>1
  <1>3. Spec => [][Spared]_vars
    BY <1>2, TypeCorrect, StoreInvariant, PTL DEF Spec
  <1> QED
    BY <1>3 DEF YoungFilesLeftAlone
=============================================================================
