------------------------- MODULE ScanPipelineProofs -------------------------
(***************************************************************************)
(* For every number of captures, workers, scans, alerts and failures: the  *)
(* pipeline is well typed; MergeInv is inductive, and so the merge of the  *)
(* triage state by position is right (MergeAligned); MirrorInv is          *)
(* inductive, and so the blob of an undisturbed scan is its alert table    *)
(* (BlobMirrorsTable); a second scan of a capture needs a failure          *)
(* (OneScanPerDelivery); and every step is one of UploadLifecycle or none  *)
(* (LifecycleImplemented).                                                 *)
(*                                                                         *)
(* Updates of a worker's record are taken pointwise (the record of the     *)
(* worker that moved, then those of the others), in steps that precede the *)
(* conjuncts that need them.                                               *)
(***************************************************************************)
EXTENDS ScanPipeline, FiniteSetTheorems, TLAPS

(***************************************************************************)
(* Type correctness.                                                       *)
(***************************************************************************)

\* The empty list.  Only this lemma opens its definition.
LEMMA NoAlertsType == NoAlerts \in Seq(AlertId) /\ Len(NoAlerts) = 0
  BY DEF NoAlerts

\* It is in order and lists nothing.
LEMMA NoAlertsListed == InIdOrder(NoAlerts) /\ Listed(NoAlerts) = {}
  BY NoAlertsType DEF InIdOrder, Listed

\* The initial state is well typed.
LEMMA InitType == Init => TypeOK
  <1> SUFFICES ASSUME Init PROVE TypeOK
    OBVIOUS
  <1> (CHOOSE c \in Capture : TRUE) \in Capture
    BY CaptureAssumption
  <1> FastIdle \in FastRun
    BY DEF FastIdle, FastRun, FastPc
  <1> SlowIdle \in SlowRun
    BY NoAlertsType DEF SlowIdle, SlowRun, SlowPc
  <1> NoView \in View
    BY NoAlertsType DEF NoView, View
  <1> QED
    BY BoundsAssumption, NoAlertsType DEF Init, TypeOK, Result, Outcome

\* Storing a task state keeps the result backend well typed.
LEMMA StoreType ==
  ASSUME TypeOK, NEW c \in Capture, NEW s \in ScanId \cup {NoScan},
         NEW st \in {"PROGRESS", "SUCCESS", "FAILURE"}, Store(c, st, s)
  PROVE  result' \in [Capture -> Result]
  BY DEF TypeOK, Store, Result

\* A failure uses up one unit of the bound.
LEMMA FaultType == ASSUME TypeOK, Fault PROVE faults' \in 0..MaxFaults
  BY BoundsAssumption DEF TypeOK, Fault

\* Marking a scan's enrichment as disturbed keeps the history well typed.
LEMMA DisturbType ==
  ASSUME TypeOK, NEW w \in SlowWorker,
         outcome' = [outcome EXCEPT ![slow[w].scan] = "disturbed"]
  PROVE  outcome' \in [ScanId -> Outcome]
  BY DEF TypeOK, Outcome

\* One more message in a queue, or one message less, is a number of messages.
LEMMA QueueType ==
  ASSUME NEW S, NEW q \in [S -> Nat], NEW x
  PROVE  /\ [q EXCEPT ![x] = @ + 1] \in [S -> Nat]
         /\ q[x] > 0 /\ x \in S => [q EXCEPT ![x] = @ - 1] \in [S -> Nat]
  <1>1. ASSUME NEW y \in S PROVE [q EXCEPT ![x] = @ + 1][y] \in Nat
    <2>1. q[y] \in Nat
      OBVIOUS
    <2> QED
      BY <2>1
  <1>2. ASSUME NEW y \in S, q[x] > 0 /\ x \in S
        PROVE  [q EXCEPT ![x] = @ - 1][y] \in Nat
    <2>1. q[y] \in Nat /\ q[x] \in Nat
      BY <1>2
    <2> QED
      BY <1>2, <2>1
  <1> QED
    BY <1>1, <1>2

\* Every step of the pipeline keeps the types.
LEMMA NextType == TypeOK /\ [Next]_vars => TypeOK'
  <1> SUFFICES ASSUME TypeOK, [Next]_vars PROVE TypeOK'
    OBVIOUS
  <1> USE BoundsAssumption, NoAlertsType
  <1>a. FastIdle \in FastRun /\ SlowIdle \in SlowRun /\ NoView \in View
    BY CaptureAssumption
       DEF FastIdle, FastRun, FastPc, SlowIdle, SlowRun, SlowPc, NoView, View
  <1>1. ASSUME NEW c \in Capture, Upload(c) PROVE TypeOK'
    <2>1. fastQ' \in [Capture -> Nat]
      BY <1>1 DEF TypeOK, Upload
    <2>2. result' \in [Capture -> Result]
      BY <1>1 DEF TypeOK, Upload, Result
    <2> QED
      BY <1>1, <2>1, <2>2 DEF TypeOK, Upload, tables
  <1>2. ASSUME NEW c \in Capture, NEW w \in FastWorker, StartAnalyze(w, c)
        PROVE  TypeOK'
    <2>1. result' \in [Capture -> Result]
      BY <1>2, StoreType DEF StartAnalyze
    <2>2. fast' \in [FastWorker -> FastRun]
      BY <1>2 DEF StartAnalyze, TypeOK, FastRun, FastPc
    <2>3. fastQ' \in [Capture -> Nat]
      BY <1>2, QueueType DEF StartAnalyze, TypeOK
    <2> QED
      BY <1>2, <2>1, <2>2, <2>3 DEF StartAnalyze, TypeOK, tables
  <1>3. ASSUME NEW w \in FastWorker, NEW n \in 0..MaxFound, SaveScan(w, n)
        PROVE  TypeOK'
    <2>2. nextScan \in ScanId /\ fast[w].cap \in Capture
      BY <1>3 DEF SaveScan, TypeOK, FastRun
    <2>1. fast' \in [FastWorker -> FastRun]
      <3>1. fast[w] \in FastRun
        BY DEF TypeOK
      <3>2. [fast[w] EXCEPT !.pc = "saved", !.scan = nextScan] \in FastRun
        BY <2>2, <3>1 DEF FastRun, FastPc
      <3>3. fast' = [fast EXCEPT ![w] =
                       [fast[w] EXCEPT !.pc = "saved", !.scan = nextScan]]
        BY <1>3 DEF SaveScan, TypeOK
      <3> QED
        BY <3>2, <3>3 DEF TypeOK
    <2>3. Drawn(n) \in Seq(AlertId)
      <3>1. \A i \in 1..n : nextAlert + i - 1 \in AlertId
        BY <1>3 DEF SaveScan, TypeOK, AlertId
      <3> QED
        BY <3>1 DEF Drawn
    <2>4. rows' \in [ScanId -> SUBSET AlertId]
      <3>1. nextAlert..(nextAlert + n - 1) \in SUBSET AlertId
        BY <1>3 DEF SaveScan, TypeOK, AlertId
      <3>2. rows' = [rows EXCEPT ![nextScan] = nextAlert..(nextAlert + n - 1)]
        BY <1>3 DEF SaveScan
      <3> QED
        BY <3>1, <3>2 DEF TypeOK
    <2>5. nextAlert' \in 1..(MaxAlerts + 1) /\ nextScan' \in 1..(MaxScans + 1)
      BY <1>3 DEF SaveScan, TypeOK, ScanId
    <2>6. blob' \in [ScanId -> Seq(AlertId)]
      BY <1>3, <2>3 DEF SaveScan, TypeOK
    <2> QED
      BY <1>3, <2>1, <2>2, <2>4, <2>5, <2>6 DEF SaveScan, TypeOK, brokers
  <1>4. ASSUME NEW w \in FastWorker, DispatchEnrich(w) PROVE TypeOK'
    <2>1. fast[w].cap \in Capture /\ fast' \in [FastWorker -> FastRun]
      BY <1>4 DEF DispatchEnrich, TypeOK, FastRun, FastPc
    <2>2. result' \in [Capture -> Result]
      BY <1>4, <2>1, StoreType DEF DispatchEnrich
    <2>3. slowQ' \in [ScanId -> Nat]
      BY <1>4, QueueType DEF DispatchEnrich, TypeOK
    <2> QED
      BY <1>4, <2>1, <2>2, <2>3 DEF DispatchEnrich, TypeOK, tables
  <1>5. ASSUME NEW w \in FastWorker, FinishAnalyze(w) PROVE TypeOK'
    <2>1. fast[w].cap \in Capture /\ fast[w].scan \in ScanId \cup {NoScan}
      BY DEF TypeOK, FastRun
    <2>2. result' \in [Capture -> Result]
      BY <1>5, <2>1, StoreType DEF FinishAnalyze
    <2> QED
      BY <1>5, <1>a, <2>2 DEF FinishAnalyze, TypeOK, brokers, tables
  <1>6. ASSUME NEW w \in SlowWorker, NEW s \in ScanId, StartEnrich(w, s)
        PROVE  TypeOK'
    <2>1. slow' \in [SlowWorker -> SlowRun]
      BY <1>6 DEF StartEnrich, TypeOK, SlowRun, SlowPc
    <2> QED
      BY <1>6, <2>1 DEF StartEnrich, TypeOK, tables
  <1>7. ASSUME NEW w \in SlowWorker, InsertAlert(w) PROVE TypeOK'
    <2>1. slow' \in [SlowWorker -> SlowRun]
      <3>1. slow[w] \in SlowRun /\ nextAlert \in AlertId
        BY <1>7 DEF InsertAlert, TypeOK
      <3>2. [slow[w] EXCEPT !.pend = Append(@, nextAlert)] \in SlowRun
        <4>1. slow[w].pend \in Seq(AlertId)
          BY <3>1 DEF SlowRun
        <4>2. Append(slow[w].pend, nextAlert) \in Seq(AlertId)
          BY <3>1, <4>1
        <4> QED
          BY <3>1, <4>2 DEF SlowRun
      <3> QED
        BY <1>7, <3>2 DEF InsertAlert, TypeOK
    <2> QED
      BY <1>7, <2>1 DEF InsertAlert, TypeOK, AlertId, brokers
  <1>8. ASSUME NEW w \in SlowWorker, CommitAlerts(w) PROVE TypeOK'
    <2>1. /\ slow[w].pend \in Seq(AlertId)
          /\ slow[w].mem \in Seq(AlertId)
          /\ slow[w].scan \in ScanId \cup {NoScan}
          /\ slow[w].pc \in {"hash", "yara"}
      BY <1>8 DEF CommitAlerts, Mirrored, Appending, TypeOK, SlowRun
    <2>2. slow' \in [SlowWorker -> SlowRun]
      <3> DEFINE r == [slow[w] EXCEPT !.mem = slow[w].mem \o slow[w].pend,
                                      !.pend = NoAlerts,
                                      !.pc = AfterAppend(slow[w].pc)]
      <3>1. slow[w].mem \o slow[w].pend \in Seq(AlertId)
        BY <2>1
      <3>2. slow[w] \in SlowRun /\ AfterAppend(slow[w].pc) \in SlowPc
        BY <2>1 DEF TypeOK, AfterAppend, SlowPc
      <3>3. r \in SlowRun
        BY <3>1, <3>2 DEF SlowRun
      <3>4. slow' = [slow EXCEPT ![w] = r]
        BY <1>8 DEF CommitAlerts, Mirrored
      <3> QED
        BY <3>3, <3>4 DEF TypeOK
    <2>3. rows' \in [ScanId -> SUBSET AlertId]
      <3>1. {slow[w].pend[i] : i \in 1..Len(slow[w].pend)} \in SUBSET AlertId
        BY <2>1
      <3> QED
        BY <1>8, <3>1 DEF CommitAlerts, Mirrored, TypeOK
    <2> QED
      BY <1>8, <2>2, <2>3 DEF CommitAlerts, Mirrored, TypeOK, brokers
  <1>9. ASSUME NEW w \in SlowWorker, NothingAppended(w) PROVE TypeOK'
    <2>1. slow' \in [SlowWorker -> SlowRun]
      <3>1. slow[w] \in SlowRun
        BY DEF TypeOK
      <3>2. [slow[w] EXCEPT !.pc = AfterAppend(@)] \in SlowRun
        BY <3>1 DEF SlowRun, SlowPc, AfterAppend
      <3> QED
        BY <1>9, <3>2 DEF NothingAppended, TypeOK
    <2> QED
      BY <1>9, <2>1 DEF NothingAppended, TypeOK, brokers, tables
  <1>10. ASSUME NEW w \in SlowWorker, Persist(w) PROVE TypeOK'
    <2>1. slow' \in [SlowWorker -> SlowRun]
      BY <1>10 DEF Persist, TypeOK, SlowRun, SlowPc
    <2>2. slow[w].mem \in Seq(AlertId)
      BY DEF TypeOK, SlowRun
    <2> QED
      BY <1>10, <2>1, <2>2 DEF Persist, TypeOK, brokers
  <1>11. ASSUME NEW w \in SlowWorker, FinishEnrich(w) PROVE TypeOK'
    BY <1>11, <1>a DEF FinishEnrich, TypeOK, Outcome, brokers, tables
  <1>12. ASSUME NEW s \in ScanId, DeleteScan(s) PROVE TypeOK'
    BY <1>12 DEF DeleteScan, TypeOK, brokers
  <1>13. ASSUME NEW s \in ScanId, ReadBlob(s) PROVE TypeOK'
    BY <1>13 DEF ReadBlob, TypeOK, View, brokers, tables
  <1>14. CASE MergeTriage
    BY <1>14, <1>a DEF MergeTriage, TypeOK, brokers, tables
  <1>15. ASSUME NEW w \in FastWorker, AnalyzeRaises(w) PROVE TypeOK'
    <2>1. fast[w].cap \in Capture
      BY DEF TypeOK, FastRun
    <2>2. result' \in [Capture -> Result]
      BY <1>15, <2>1, StoreType DEF AnalyzeRaises
    <2> QED
      BY <1>15, <1>a, <2>2, FaultType
         DEF AnalyzeRaises, TypeOK, brokers, tables
  <1>16. ASSUME NEW w \in FastWorker, RedeliverAnalyze(w) PROVE TypeOK'
    <2>1. fast[w].cap \in Capture /\ fast' \in [FastWorker -> FastRun]
      BY <1>16 DEF RedeliverAnalyze, TypeOK, FastRun
    <2> QED
      BY <1>16, <2>1, FaultType, QueueType
         DEF RedeliverAnalyze, TypeOK, tables
  <1>17. ASSUME NEW w \in FastWorker, FastWorkerDies(w) PROVE TypeOK'
    <2>1. fast[w].cap \in Capture
      BY DEF TypeOK, FastRun
    <2> QED
      BY <1>17, <1>a, <2>1, FaultType, QueueType
         DEF FastWorkerDies, TypeOK, tables
  <1>18. ASSUME NEW w \in SlowWorker, AppendRaises(w) PROVE TypeOK'
    <2>1. slow' \in [SlowWorker -> SlowRun]
      <3> DEFINE r == [slow[w] EXCEPT !.pend = NoAlerts,
                                      !.pc = AfterAppend(slow[w].pc)]
      <3>1. slow[w] \in SlowRun /\ AfterAppend(slow[w].pc) \in SlowPc
        BY DEF TypeOK, AfterAppend, SlowPc
      <3>2. r \in SlowRun
        BY <3>1 DEF SlowRun
      <3>3. slow' = [slow EXCEPT ![w] = r]
        BY <1>18 DEF AppendRaises
      <3> QED
        BY <3>2, <3>3 DEF TypeOK
    <2> QED
      BY <1>18, <2>1, FaultType
         DEF AppendRaises, TypeOK, brokers, tables
  <1>19. ASSUME NEW w \in SlowWorker, PersistRaises(w) PROVE TypeOK'
    <2>1. slow' \in [SlowWorker -> SlowRun]
      BY <1>19 DEF PersistRaises, TypeOK, SlowRun, SlowPc
    <2> QED
      BY <1>19, <2>1, FaultType, DisturbType
         DEF PersistRaises, TypeOK, brokers, tables
  <1>20. ASSUME NEW w \in SlowWorker, RedeliverEnrich(w) PROVE TypeOK'
    <2>1. slow' \in [SlowWorker -> SlowRun]
      BY <1>20 DEF RedeliverEnrich, TypeOK, SlowRun
    <2> QED
      BY <1>20, <2>1, FaultType, DisturbType, QueueType
         DEF RedeliverEnrich, TypeOK, tables
  <1>21. ASSUME NEW w \in SlowWorker, SlowWorkerDies(w) PROVE TypeOK'
    BY <1>21, <1>a, FaultType, DisturbType, QueueType
         DEF SlowWorkerDies, TypeOK, tables
  <1>22. ASSUME NEW w \in SlowWorker, SlowChildKilled(w) PROVE TypeOK'
    BY <1>22, <1>a, FaultType, DisturbType
         DEF SlowChildKilled, TypeOK, brokers, tables
  <1>23. CASE UNCHANGED vars
    BY <1>23 DEF TypeOK, vars
  <1> QED
    BY <1>1, <1>2, <1>3, <1>4, <1>5, <1>6, <1>7, <1>8, <1>9, <1>10, <1>11,
       <1>12, <1>13, <1>14, <1>15, <1>16, <1>17, <1>18, <1>19, <1>20, <1>21,
       <1>22, <1>23
       DEF Next, FastStep, SlowStep, Failure

\* The pipeline is type correct for any number of captures, workers, scans,
\* alerts and failures.
THEOREM TypeCorrect == Spec => []TypeOK
  BY InitType, NextType, PTL DEF Spec

-----------------------------------------------------------------------------
(***************************************************************************)
(* Lists of alerts in id order.                                            *)
(***************************************************************************)

\* A list in id order has as many members as positions.
LEMMA InIdOrderCounts ==
  ASSUME NEW x \in Seq(AlertId), InIdOrder(x)
  PROVE  IsFiniteSet(Listed(x)) /\ Cardinality(Listed(x)) = Len(x)
  <1>1. \A i, j \in 1..Len(x) : x[i] = x[j] => i = j
    <2>1. \A i \in 1..Len(x) : x[i] \in Nat
      <3>1. \A i \in 1..Len(x) : x[i] \in AlertId
        OBVIOUS
      <3> QED
        BY <3>1, BoundsAssumption DEF AlertId
    <2> QED
      BY <2>1 DEF InIdOrder
  <1>2. x \in [1..Len(x) -> Listed(x)]
    BY DEF Listed
  <1>3. \A a \in Listed(x) : \E i \in 1..Len(x) : x[i] = a
    BY DEF Listed
  <1>4. x \in Bijection(1..Len(x), Listed(x))
    <2>1. IsInjective(x)
      BY <1>1, <1>2 DEF IsInjective
    <2> QED
      BY <1>2, <1>3, <2>1, Zenon DEF Bijection, Injection, Surjection
  <1>5. IsFiniteSet(1..Len(x)) /\ Cardinality(1..Len(x)) = Len(x)
    <2>1. Len(x) \in Nat
      OBVIOUS
    <2>2. 1 \in Int /\ Len(x) \in Int
      BY <2>1
    <2>3. /\ IsFiniteSet(1..Len(x))
          /\ Cardinality(1..Len(x)) = IF 1 > Len(x) THEN 0 ELSE Len(x) - 1 + 1
      BY <2>2, FS_Interval, Zenon
    <2> QED
      BY <2>1, <2>3
  <1> QED
    BY <1>4, <1>5, FS_Bijection, Zenon DEF ExistsBijection

\* The counting argument of the merge: a list in id order of rows of a table,
\* as long as the table, is the table.
LEMMA EqualCountsEqualLists ==
  ASSUME NEW x \in Seq(AlertId), NEW ids \in SUBSET AlertId,
         InIdOrder(x), Listed(x) \subseteq ids, Len(x) = Cardinality(ids)
  PROVE  IsTable(x, ids)
  <1>1. IsFiniteSet(AlertId)
    BY BoundsAssumption, FS_Interval DEF AlertId
  <1>2. IsFiniteSet(ids)
    BY <1>1, FS_Subset
  <1>3. Listed(x) = ids
    BY <1>2, FS_Subset, InIdOrderCounts
  <1> QED
    BY <1>3 DEF IsTable

\* Two lists in id order, the second above the first, make one in id order.
LEMMA ConcatInIdOrder ==
  ASSUME NEW x \in Seq(AlertId), NEW y \in Seq(AlertId),
         InIdOrder(x), InIdOrder(y),
         \A i \in 1..Len(x), j \in 1..Len(y) : x[i] < y[j]
  PROVE  InIdOrder(x \o y) /\ Listed(x \o y) = Listed(x) \cup Listed(y)
  <1>1. /\ Len(x \o y) = Len(x) + Len(y)
        /\ \A i \in 1..Len(x) : (x \o y)[i] = x[i]
        /\ \A j \in 1..Len(y) : (x \o y)[Len(x) + j] = y[j]
    OBVIOUS
  <1>2. ASSUME NEW i \in 1..(Len(x) + Len(y)), i \notin 1..Len(x)
        PROVE  \E j \in 1..Len(y) : i = Len(x) + j
    <2>1. i - Len(x) \in 1..Len(y) /\ i = Len(x) + (i - Len(x))
      BY <1>2
    <2> QED
      BY <2>1
  <1>3. InIdOrder(x \o y)
    <2> SUFFICES ASSUME NEW i \in 1..Len(x \o y), NEW j \in 1..Len(x \o y), i < j
                 PROVE  (x \o y)[i] < (x \o y)[j]
      BY DEF InIdOrder
    <2>1. CASE j \in 1..Len(x)
      <3>1. i \in 1..Len(x)
        BY <2>1
      <3> QED
        BY <2>1, <3>1, <1>1 DEF InIdOrder
    <2>2. CASE i \in 1..Len(x) /\ j \notin 1..Len(x)
      BY <2>2, <1>1, <1>2
    <2>3. CASE i \notin 1..Len(x) /\ j \notin 1..Len(x)
      <3>1. PICK p \in 1..Len(y) : i = Len(x) + p
        BY <2>3, <1>1, <1>2
      <3>2. PICK q \in 1..Len(y) : j = Len(x) + q
        BY <2>3, <1>1, <1>2
      <3>3. p < q
        BY <3>1, <3>2
      <3> QED
        BY <3>1, <3>2, <3>3, <1>1 DEF InIdOrder
    <2> QED
      BY <2>1, <2>2, <2>3
  <1>4. Listed(x \o y) = Listed(x) \cup Listed(y)
    <2>1. Listed(x \o y) \subseteq Listed(x) \cup Listed(y)
      BY <1>1, <1>2 DEF Listed
    <2>2. Listed(x) \subseteq Listed(x \o y)
      BY <1>1 DEF Listed
    <2>3. Listed(y) \subseteq Listed(x \o y)
      <3> SUFFICES ASSUME NEW j \in 1..Len(y) PROVE y[j] \in Listed(x \o y)
        BY DEF Listed
      <3>1. Len(x) + j \in 1..Len(x \o y)
        BY <1>1
      <3> QED
        BY <1>1, <3>1 DEF Listed
    <2> QED
      BY <2>1, <2>2, <2>3
  <1> QED
    BY <1>3, <1>4

-----------------------------------------------------------------------------
(***************************************************************************)
(* The merge invariant.                                                    *)
(***************************************************************************)

\* A run that appends nothing and keeps the scan and the blob it works on
\* keeps its part of the invariant; so does every other run.
LEMMA QuietRun ==
  ASSUME MergeInv, NEW w \in SlowWorker, NEW r \in SlowRun,
         slow' = [slow EXCEPT ![w] = r],
         rows' = rows, live' = live, nextAlert' = nextAlert, nextScan' = nextScan,
         r.pc # "idle" => /\ slow[w].pc # "idle"
                          /\ r.scan = slow[w].scan
                          /\ r.mem = slow[w].mem,
         \/ r.pend = NoAlerts
         \/ Len(slow[w].pend) = 0 /\ r.pend = slow[w].pend
         \/ /\ r.pend = slow[w].pend
            /\ r.pc = slow[w].pc
            /\ r.scan = slow[w].scan
            /\ r.mem = slow[w].mem
  PROVE  RunsCarried' /\ PendingInOrder'
  <1>1. slow'[w] = r /\ \A v \in SlowWorker : v # w => slow'[v] = slow[v]
    BY DEF MergeInv, TypeOK
  <1>2. Saved' = Saved /\ Drawable' = Drawable
    BY DEF Saved, Drawable
  <1>3. RunsCarried'
    <2> SUFFICES ASSUME NEW v \in SlowWorker, slow'[v].pc # "idle"
                 PROVE  /\ slow'[v].scan \in Saved'
                        /\ slow'[v].scan \in live' =>
                             /\ InIdOrder(slow'[v].mem)
                             /\ Listed(slow'[v].mem) \subseteq rows'[slow'[v].scan]
      BY DEF RunsCarried, Carried
    <2>1. /\ slow[v].pc # "idle"
          /\ slow'[v].scan = slow[v].scan
          /\ slow'[v].mem = slow[v].mem
      BY <1>1
    <2> QED
      BY <2>1, <1>2 DEF MergeInv, RunsCarried, Carried
  <1>4. PendingInOrder'
    <2> SUFFICES ASSUME NEW v \in SlowWorker
        PROVE  /\ InIdOrder(slow'[v].pend)
               /\ \A j \in 1..Len(slow'[v].pend) :
                     /\ slow'[v].pend[j] \in Drawable'
                     /\ \A i \in 1..Len(slow'[v].mem) :
                            slow'[v].mem[i] < slow'[v].pend[j]
               /\ Len(slow'[v].pend) > 0
                     => slow'[v].scan \in live' /\ Appending(v)'
      BY DEF PendingInOrder
    <2>1. CASE v = w /\ r.pend = NoAlerts
      BY <2>1, <1>1, NoAlertsType, NoAlertsListed
    <2>2. CASE v = w /\ Len(slow[w].pend) = 0 /\ r.pend = slow[w].pend
      <3>1. slow'[v].pend = slow[v].pend /\ Len(slow'[v].pend) = 0
        BY <2>2, <1>1
      <3>2. InIdOrder(slow[v].pend)
        BY DEF MergeInv, PendingInOrder
      <3>3. 1..Len(slow'[v].pend) = {}
        BY <3>1
      <3> QED
        BY <3>1, <3>2, <3>3
    <2>3. CASE /\ slow'[v].pend = slow[v].pend
               /\ slow'[v].pc = slow[v].pc
               /\ slow'[v].scan = slow[v].scan
               /\ slow'[v].mem = slow[v].mem
      BY <2>3, <1>2 DEF MergeInv, PendingInOrder, Appending
    <2> QED
      BY <2>1, <2>2, <2>3, <1>1
  <1> QED
    BY <1>3, <1>4

\* As long as the tables stand still, so does what is said of them ...
LEMMA SameTables ==
  ASSUME MergeInv, live' = live, blob' = blob, rows' = rows,
         nextScan' = nextScan, nextAlert' = nextAlert
  PROVE  /\ TableShape' /\ BlobsCarried'
         /\ slow' = slow => RunsCarried' /\ PendingInOrder'
         /\ view' = view => ViewCarried'
  <1>1. TableShape' /\ BlobsCarried'
    BY DEF MergeInv, TableShape, Drawable, BlobsCarried, Carried
  <1>2. slow' = slow => RunsCarried' /\ PendingInOrder'
    BY DEF MergeInv, RunsCarried, PendingInOrder, Carried, Saved, Drawable, Appending
  <1>3. view' = view => ViewCarried'
    BY DEF MergeInv, ViewCarried, Carried
  <1> QED
    BY <1>1, <1>2, <1>3

\* ... and so does the list of the scans that were saved, unless a worker, the
\* slow queue or the view turns to another one.
LEMMA SameScans ==
  ASSUME MergeInv, live' = live, nextScan' = nextScan,
         \A s \in ScanId : slowQ'[s] > 0 => s \in Saved,
         \A w \in FastWorker :
            \/ fast'[w].scan = NoScan /\ fast'[w].pc # "saved"
            \/ fast'[w].scan \in Saved,
         view'.pc = "loaded" => view'.scan \in Saved
  PROVE  ScansWereSaved'
  BY DEF MergeInv, ScansWereSaved, Saved

\* Wherever a scan is named (a message, a run, the view), it was saved before.
LEMMA KnownScans ==
  ASSUME MergeInv
  PROVE  /\ \A s \in ScanId : slowQ[s] > 0 => s \in Saved
         /\ \A w \in FastWorker :
              \/ fast[w].scan = NoScan /\ fast[w].pc # "saved"
              \/ fast[w].scan \in Saved
         /\ \A w \in SlowWorker : slow[w].pc # "idle" => slow[w].scan \in Saved
         /\ view.pc = "loaded" => view.scan \in Saved
         /\ live \subseteq Saved
         /\ FastIdle.scan = NoScan /\ FastIdle.pc = "idle"
  BY DEF MergeInv, ScansWereSaved, RunsCarried, FastIdle

\* The invariant holds of the empty tables and idle workers.
LEMMA InitMergeInv == Init => MergeInv
  <1> SUFFICES ASSUME Init PROVE MergeInv
    OBVIOUS
  <1>1. TypeOK
    BY InitType
  <1>2. ScansWereSaved
    BY DEF Init, ScansWereSaved, FastIdle, NoView
  <1>3. TableShape /\ BlobsCarried
    BY DEF Init, TableShape, BlobsCarried
  <1>4. RunsCarried
    BY DEF Init, RunsCarried, SlowIdle
  <1>5. PendingInOrder
    <2>1. \A w \in SlowWorker : slow[w].pend = NoAlerts
      BY DEF Init, SlowIdle
    <2>2. 1..Len(NoAlerts) = {} /\ ~(Len(NoAlerts) > 0)
      BY NoAlertsType
    <2> QED
      BY <2>1, <2>2, NoAlertsListed DEF PendingInOrder
  <1>6. ViewCarried
    BY DEF Init, ViewCarried, NoView
  <1> QED
    BY <1>1, <1>2, <1>3, <1>4, <1>5, <1>6 DEF MergeInv

\* Every step of the pipeline keeps the merge invariant.
LEMMA NextMergeInv == MergeInv /\ [Next]_vars => MergeInv'
  <1> SUFFICES ASSUME MergeInv, [Next]_vars PROVE MergeInv'
    OBVIOUS
  <1> USE BoundsAssumption, NoAlertsType
  <1>t. TypeOK /\ TypeOK'
    BY NextType DEF MergeInv
  <1>1. ASSUME NEW c \in Capture, Upload(c) PROVE MergeInv'
    <2>1. ScansWereSaved'
      BY <1>t, <1>1, KnownScans, SameScans
         DEF Upload, tables, TypeOK
    <2>2. TableShape' /\ BlobsCarried' /\ RunsCarried' /\ PendingInOrder' /\ ViewCarried'
      BY <1>1, SameTables DEF Upload, tables
    <2> QED
      BY <1>t, <2>1, <2>2 DEF MergeInv
  <1>2. ASSUME NEW c \in Capture, NEW w \in FastWorker, StartAnalyze(w, c) PROVE MergeInv'
    <2>1. ScansWereSaved'
      BY <1>t, <1>2, KnownScans, SameScans
         DEF StartAnalyze, tables, TypeOK
    <2>2. TableShape' /\ BlobsCarried' /\ RunsCarried' /\ PendingInOrder' /\ ViewCarried'
      BY <1>2, SameTables DEF StartAnalyze, tables
    <2> QED
      BY <1>t, <2>1, <2>2 DEF MergeInv
  <1>3. ASSUME NEW w \in FastWorker, NEW n \in 0..MaxFound, SaveScan(w, n)
        PROVE  MergeInv'
    <2>1. /\ nextScan \in ScanId /\ nextScan' = nextScan + 1
          /\ nextAlert \in Nat /\ n \in Nat /\ nextAlert' = nextAlert + n
          /\ nextAlert + n <= MaxAlerts + 1
          /\ nextAlert \in 1..(MaxAlerts + 1)
      BY <1>t, <1>3 DEF SaveScan, TypeOK
    <2>2. /\ Saved' = Saved \cup {nextScan} /\ nextScan \notin Saved
          /\ Drawable \subseteq Drawable'
      BY <2>1 DEF Saved, Drawable, ScanId, AlertId
    <2>3. /\ live' = live \cup {nextScan} /\ nextScan \notin live
          /\ slow' = slow /\ view' = view /\ slowQ' = slowQ
          /\ blob'[nextScan] = Drawn(n)
          /\ rows'[nextScan] = nextAlert..(nextAlert + n - 1)
          /\ \A s \in ScanId : s # nextScan => blob'[s] = blob[s] /\ rows'[s] = rows[s]
      BY <1>t, <1>3, <2>2 DEF SaveScan, TypeOK, brokers, MergeInv, ScansWereSaved
    <2>4. /\ InIdOrder(Drawn(n)) /\ Listed(Drawn(n)) \subseteq rows'[nextScan]
          /\ rows'[nextScan] \subseteq Drawable'
      <3>1. Len(Drawn(n)) = n /\ \A i \in 1..n : Drawn(n)[i] = nextAlert + i - 1
        BY <2>1 DEF Drawn
      <3>2. InIdOrder(Drawn(n))
        BY <2>1, <3>1 DEF InIdOrder
      <3>3. Listed(Drawn(n)) \subseteq rows'[nextScan]
        BY <2>1, <2>3, <3>1 DEF Listed
      <3>4. rows'[nextScan] \subseteq Drawable'
        BY <2>1, <2>3 DEF Drawable, AlertId
      <3> QED
        BY <3>2, <3>3, <3>4
    <2>5. ScansWereSaved'
      <3>1. \A v \in FastWorker : v # w => fast'[v] = fast[v]
        BY <1>t, <1>3 DEF SaveScan, TypeOK
      <3>2. fast'[w].scan = nextScan
        <4>1. fast' = [fast EXCEPT ![w] = [fast[w] EXCEPT !.pc = "saved", !.scan = nextScan]]
          BY <1>3 DEF SaveScan
        <4>2. fast'[w] = [fast[w] EXCEPT !.pc = "saved", !.scan = nextScan]
          BY <4>1, <1>t DEF TypeOK
        <4> QED
          BY <4>2, <1>t DEF TypeOK, FastRun
      <3>3. \A v \in FastWorker : \/ fast'[v].scan = NoScan /\ fast'[v].pc # "saved"
                                 \/ fast'[v].scan \in Saved'
        BY <2>2, <3>1, <3>2, KnownScans
      <3> QED
        BY <2>2, <2>3, <3>3, KnownScans DEF ScansWereSaved
    <2>6. TableShape'
      BY <2>2, <2>3, <2>4 DEF TableShape, MergeInv
    <2>7. BlobsCarried'
      <3> SUFFICES ASSUME NEW s \in live'
                   PROVE  InIdOrder(blob'[s]) /\ Listed(blob'[s]) \subseteq rows'[s]
        BY DEF BlobsCarried, Carried
      <3>1. CASE s = nextScan
        BY <3>1, <2>3, <2>4
      <3>2. CASE s # nextScan
        BY <3>2, <2>3, <1>t DEF MergeInv, BlobsCarried, Carried, TypeOK
      <3> QED
        BY <3>1, <3>2
    <2>8. RunsCarried'
      <3> SUFFICES ASSUME NEW v \in SlowWorker, slow[v].pc # "idle"
                   PROVE  /\ slow[v].scan \in Saved'
                          /\ slow[v].scan \in live' =>
                               /\ InIdOrder(slow[v].mem)
                               /\ Listed(slow[v].mem) \subseteq rows'[slow[v].scan]
        BY <2>3 DEF RunsCarried, Carried
      <3>1. slow[v].scan \in Saved /\ slow[v].scan # nextScan /\ slow[v].scan \in ScanId
        BY <2>1, <2>2, KnownScans DEF Saved, ScanId
      <3> QED
        BY <2>2, <2>3, <3>1 DEF MergeInv, RunsCarried, Carried
    <2>9. PendingInOrder'
      BY <2>2, <2>3 DEF PendingInOrder, MergeInv, Appending
    <2>10. ViewCarried'
      <3> SUFFICES ASSUME view.pc = "loaded", view.scan \in live'
                   PROVE  /\ InIdOrder(view.alerts)
                          /\ Listed(view.alerts) \subseteq rows'[view.scan]
        BY <2>3 DEF ViewCarried, Carried
      <3>1. view.scan \in Saved /\ view.scan # nextScan /\ view.scan \in ScanId
        BY <2>1, <2>2, KnownScans DEF Saved, ScanId
      <3> QED
        BY <2>3, <3>1 DEF MergeInv, ViewCarried, Carried
    <2> QED
      BY <1>t, <2>5, <2>6, <2>7, <2>8, <2>9, <2>10 DEF MergeInv
  <1>4. ASSUME NEW w \in FastWorker, DispatchEnrich(w) PROVE MergeInv'
    <2>1. fast[w].scan \in Saved
      BY <1>4, KnownScans DEF DispatchEnrich
    <2>2. \A s \in ScanId : slowQ'[s] > 0 => s \in Saved
      BY <1>4, <1>t, <2>1, KnownScans DEF DispatchEnrich, TypeOK
    <2>3. \A v \in FastWorker : fast'[v].scan = fast[v].scan /\ (fast'[v].pc = "saved" => fast[v].pc = "saved")
      BY <1>4, <1>t DEF DispatchEnrich, TypeOK, FastRun
    <2>4. ScansWereSaved'
      BY <1>4, <2>2, <2>3, KnownScans, SameScans DEF DispatchEnrich, tables
    <2>5. TableShape' /\ BlobsCarried' /\ RunsCarried' /\ PendingInOrder' /\ ViewCarried'
      BY <1>4, SameTables DEF DispatchEnrich, tables
    <2> QED
      BY <1>t, <2>4, <2>5 DEF MergeInv
  <1>5. ASSUME NEW w \in FastWorker, FinishAnalyze(w) PROVE MergeInv'
    <2>1. ScansWereSaved'
      BY <1>t, <1>5, KnownScans, SameScans
         DEF FinishAnalyze, brokers, tables, TypeOK
    <2>2. TableShape' /\ BlobsCarried' /\ RunsCarried' /\ PendingInOrder' /\ ViewCarried'
      BY <1>5, SameTables DEF FinishAnalyze, brokers, tables
    <2> QED
      BY <1>t, <2>1, <2>2 DEF MergeInv
  <1>6. ASSUME NEW w \in SlowWorker, NEW s \in ScanId, StartEnrich(w, s)
        PROVE  MergeInv'
    <2>1. ScansWereSaved'
      BY <1>6, <1>t, KnownScans, SameScans DEF StartEnrich, tables, TypeOK
    <2>2. TableShape' /\ BlobsCarried' /\ ViewCarried'
      BY <1>6, SameTables DEF StartEnrich, tables
    <2>3. CASE s \notin live
      BY <1>6, <1>t, <2>1, <2>2, <2>3, SameTables DEF StartEnrich, tables, MergeInv
    <2>4. CASE s \in live
      <3> DEFINE r == [pc |-> "hash", scan |-> s, mem |-> blob[s],
                       pend |-> NoAlerts, again |-> FALSE]
      <3>1. slow'[w] = r /\ \A v \in SlowWorker : v # w => slow'[v] = slow[v]
        BY <1>6, <1>t, <2>4 DEF StartEnrich, TypeOK
      <3>2. live' = live /\ rows' = rows /\ Saved' = Saved /\ Drawable' = Drawable
        BY <1>6 DEF StartEnrich, tables, Saved, Drawable
      <3>3. /\ s \in Saved /\ InIdOrder(blob[s]) /\ Listed(blob[s]) \subseteq rows[s]
        BY <2>4, KnownScans DEF MergeInv, BlobsCarried, Carried
      <3>4. RunsCarried'
        <4> SUFFICES ASSUME NEW v \in SlowWorker, slow'[v].pc # "idle"
                     PROVE  /\ slow'[v].scan \in Saved
                            /\ slow'[v].scan \in live =>
                                 /\ InIdOrder(slow'[v].mem)
                                 /\ Listed(slow'[v].mem) \subseteq rows[slow'[v].scan]
          BY <3>2 DEF RunsCarried, Carried
        <4>1. CASE v = w
          BY <4>1, <3>1, <3>3
        <4>2. CASE v # w
          BY <4>2, <3>1 DEF MergeInv, RunsCarried, Carried
        <4> QED
          BY <4>1, <4>2
      <3>5. PendingInOrder'
        <4> SUFFICES ASSUME NEW v \in SlowWorker
            PROVE  /\ InIdOrder(slow'[v].pend)
                   /\ \A j \in 1..Len(slow'[v].pend) :
                         /\ slow'[v].pend[j] \in Drawable
                         /\ \A i \in 1..Len(slow'[v].mem) :
                                slow'[v].mem[i] < slow'[v].pend[j]
                   /\ Len(slow'[v].pend) > 0
                         => slow'[v].scan \in live /\ slow'[v].pc \in {"hash", "yara"}
          BY <3>2 DEF PendingInOrder, Appending
        <4>1. CASE v = w
          <5>1. slow'[v].pend = NoAlerts /\ 1..Len(NoAlerts) = {} /\ ~(Len(NoAlerts) > 0)
            BY <4>1, <3>1
          <5> QED
            BY <5>1, NoAlertsListed
        <4>2. CASE v # w
          BY <4>2, <3>1 DEF MergeInv, PendingInOrder, Appending
        <4> QED
          BY <4>1, <4>2
      <3> QED
        BY <1>t, <2>1, <2>2, <3>4, <3>5 DEF MergeInv
    <2> QED
      BY <2>3, <2>4
  <1>7. ASSUME NEW w \in SlowWorker, InsertAlert(w) PROVE MergeInv'
    <2> DEFINE run == slow[w]
               pend == Append(run.pend, nextAlert)
    <2>1. /\ run.pend \in Seq(AlertId) /\ run.mem \in Seq(AlertId)
          /\ run.scan \in live /\ Appending(w)
          /\ nextAlert \in AlertId /\ nextAlert \in Nat /\ nextAlert' = nextAlert + 1
          /\ live' = live /\ rows' = rows /\ blob' = blob /\ nextScan' = nextScan
          /\ view' = view /\ slowQ' = slowQ /\ fast' = fast
      <3>1. /\ run.pend \in Seq(AlertId) /\ run.mem \in Seq(AlertId)
            /\ Appending(w) /\ run.scan \in live
        BY <1>7, <1>t DEF InsertAlert, TypeOK, SlowRun
      <3>2. nextAlert \in AlertId /\ nextAlert \in Nat /\ nextAlert' = nextAlert + 1
        BY <1>7, <1>t DEF InsertAlert, TypeOK, AlertId
      <3> QED
        BY <1>7, <3>1, <3>2 DEF InsertAlert, brokers
    <2>2. /\ slow'[w].pend = pend /\ slow'[w].mem = run.mem /\ slow'[w].pc = run.pc
          /\ slow'[w].scan = run.scan
          /\ \A v \in SlowWorker : v # w => slow'[v] = slow[v]
      BY <1>7, <1>t DEF InsertAlert, TypeOK, SlowRun
    <2>3. /\ Saved' = Saved /\ Drawable \subseteq Drawable'
          /\ nextAlert \in Drawable' /\ \A a \in Drawable : a < nextAlert
      BY <2>1 DEF Saved, Drawable, AlertId
    <2>4. ScansWereSaved' /\ BlobsCarried' /\ ViewCarried' /\ RunsCarried'
      BY <2>1, <2>2, <2>3
         DEF MergeInv, ScansWereSaved, BlobsCarried, ViewCarried, RunsCarried, Carried
    <2>5. TableShape'
      BY <2>1, <2>3 DEF MergeInv, TableShape
    <2>6. /\ Len(pend) = Len(run.pend) + 1 /\ pend[Len(run.pend) + 1] = nextAlert
          /\ \A j \in 1..Len(run.pend) : pend[j] = run.pend[j]
          /\ Len(run.pend) \in Nat
      BY <2>1
    <2>7. \A j \in 1..Len(run.pend) : run.pend[j] \in Drawable /\ run.pend[j] < nextAlert
      BY <2>3 DEF MergeInv, PendingInOrder
    <2>8. \A i \in 1..Len(run.mem) : run.mem[i] < nextAlert
      <3>1. Listed(run.mem) \subseteq rows[run.scan] /\ run.scan \in ScanId
        BY <2>1, <1>t DEF MergeInv, RunsCarried, Carried, Appending, TypeOK
      <3>2. rows[run.scan] \subseteq Drawable
        BY <3>1 DEF MergeInv, TableShape
      <3> QED
        BY <2>3, <3>1, <3>2 DEF Listed
    <2>9. InIdOrder(pend)
      <3>1. InIdOrder(run.pend)
        BY DEF MergeInv, PendingInOrder
      <3> QED
        BY <2>6, <2>7, <3>1 DEF InIdOrder
    <2>10. \A j \in 1..Len(pend) : /\ pend[j] \in Drawable'
                                   /\ \A i \in 1..Len(run.mem) : run.mem[i] < pend[j]
      <3> SUFFICES ASSUME NEW j \in 1..Len(pend)
                   PROVE  /\ pend[j] \in Drawable'
                          /\ \A i \in 1..Len(run.mem) : run.mem[i] < pend[j]
        OBVIOUS
      <3>1. CASE j = Len(run.pend) + 1
        BY <3>1, <2>3, <2>6, <2>8
      <3>2. CASE j \in 1..Len(run.pend)
        BY <3>2, <2>3, <2>6, <2>7 DEF MergeInv, PendingInOrder
      <3> QED
        BY <3>1, <3>2, <2>6
    <2>11. PendingInOrder'
      <3> SUFFICES ASSUME NEW v \in SlowWorker
          PROVE  /\ InIdOrder(slow'[v].pend)
                 /\ \A j \in 1..Len(slow'[v].pend) :
                       /\ slow'[v].pend[j] \in Drawable'
                       /\ \A i \in 1..Len(slow'[v].mem) :
                              slow'[v].mem[i] < slow'[v].pend[j]
                 /\ Len(slow'[v].pend) > 0
                       => slow'[v].scan \in live /\ slow'[v].pc \in {"hash", "yara"}
        BY <2>1 DEF PendingInOrder, Appending
      <3>1. CASE v = w
        BY <3>1, <2>1, <2>2, <2>9, <2>10 DEF Appending
      <3>2. CASE v # w
        BY <3>2, <2>2, <2>3 DEF MergeInv, PendingInOrder, Appending
      <3> QED
        BY <3>1, <3>2
    <2> QED
      BY <1>t, <2>4, <2>5, <2>11 DEF MergeInv
  <1>8. ASSUME NEW w \in SlowWorker, CommitAlerts(w) PROVE MergeInv'
    <2> DEFINE run == slow[w]
               r == [run EXCEPT !.mem = run.mem \o run.pend, !.pend = NoAlerts,
                                !.pc = AfterAppend(run.pc)]
    <2>1. /\ run \in SlowRun /\ run.pend \in Seq(AlertId) /\ run.mem \in Seq(AlertId)
          /\ Appending(w) /\ Len(run.pend) > 0
          /\ live' = live /\ blob' = blob /\ nextScan' = nextScan
          /\ nextAlert' = nextAlert /\ view' = view /\ slowQ' = slowQ /\ fast' = fast
      BY <1>8, <1>t DEF CommitAlerts, Mirrored, TypeOK, SlowRun, brokers
    <2>2. run.scan \in live /\ run.scan \in ScanId /\ run.pc # "idle"
      BY <2>1, <1>t DEF MergeInv, PendingInOrder, TypeOK, Appending
    <2>3. /\ slow'[w].mem = run.mem \o run.pend /\ slow'[w].pend = NoAlerts
          /\ slow'[w].scan = run.scan
          /\ \A v \in SlowWorker : v # w => slow'[v] = slow[v]
      <3>1. slow' = [slow EXCEPT ![w] = r]
        BY <1>8 DEF CommitAlerts, Mirrored
      <3>2. slow'[w] = r /\ \A v \in SlowWorker : v # w => slow'[v] = slow[v]
        BY <3>1, <1>t DEF TypeOK
      <3> QED
        BY <3>2, <2>1 DEF SlowRun
    <2>4. /\ rows'[run.scan] = rows[run.scan] \cup Listed(run.pend)
          /\ \A s \in ScanId : s # run.scan => rows'[s] = rows[s]
          /\ \A s \in ScanId : rows[s] \subseteq rows'[s]
      BY <1>8, <1>t, <2>2 DEF CommitAlerts, Mirrored, TypeOK, Listed
    <2>5. Listed(run.pend) \subseteq Drawable /\ Drawable' = Drawable /\ Saved' = Saved
      BY <2>1 DEF MergeInv, PendingInOrder, Listed, Drawable, Saved
    <2>6. ScansWereSaved'
      BY <2>1, KnownScans, SameScans
    <2>7. TableShape'
      BY <2>1, <2>2, <2>4, <2>5 DEF MergeInv, TableShape
    <2>8. BlobsCarried' /\ ViewCarried'
      <3>1. \A s \in live : Listed(blob[s]) \subseteq rows'[s]
        BY <2>4, <1>t DEF MergeInv, BlobsCarried, Carried, TypeOK
      <3>2. view.scan \in live /\ view.pc = "loaded" => Listed(view.alerts) \subseteq rows'[view.scan]
        BY <2>4, <1>t DEF MergeInv, ViewCarried, Carried, TypeOK
      <3> QED
        BY <2>1, <3>1, <3>2 DEF MergeInv, BlobsCarried, ViewCarried, Carried
    <2>9. /\ InIdOrder(run.mem \o run.pend)
          /\ Listed(run.mem \o run.pend) = Listed(run.mem) \cup Listed(run.pend)
      <3>1. InIdOrder(run.mem) /\ InIdOrder(run.pend)
        BY <2>2 DEF MergeInv, RunsCarried, Carried, PendingInOrder
      <3>2. \A i \in 1..Len(run.mem), j \in 1..Len(run.pend) : run.mem[i] < run.pend[j]
        BY DEF MergeInv, PendingInOrder
      <3> QED
        BY <2>1, <3>1, <3>2, ConcatInIdOrder
    <2>10. RunsCarried'
      <3> SUFFICES ASSUME NEW v \in SlowWorker, slow'[v].pc # "idle"
                   PROVE  /\ slow'[v].scan \in Saved
                          /\ slow'[v].scan \in live =>
                               /\ InIdOrder(slow'[v].mem)
                               /\ Listed(slow'[v].mem) \subseteq rows'[slow'[v].scan]
        BY <2>1, <2>5 DEF RunsCarried, Carried
      <3>1. CASE v = w
        <4>1. Listed(run.mem) \subseteq rows[run.scan]
          BY <2>2 DEF MergeInv, RunsCarried, Carried
        <4> QED
          BY <3>1, <4>1, <2>2, <2>3, <2>4, <2>9, KnownScans
      <3>2. CASE v # w
        <4>1. slow[v].scan \in live => rows[slow[v].scan] \subseteq rows'[slow[v].scan]
          BY <2>4, <1>t DEF TypeOK
        <4> QED
          BY <3>2, <4>1, <2>3 DEF MergeInv, RunsCarried, Carried
      <3> QED
        BY <3>1, <3>2
    <2>11. PendingInOrder'
      <3> SUFFICES ASSUME NEW v \in SlowWorker
          PROVE  /\ InIdOrder(slow'[v].pend)
                 /\ \A j \in 1..Len(slow'[v].pend) :
                       /\ slow'[v].pend[j] \in Drawable
                       /\ \A i \in 1..Len(slow'[v].mem) :
                              slow'[v].mem[i] < slow'[v].pend[j]
                 /\ Len(slow'[v].pend) > 0
                       => slow'[v].scan \in live /\ slow'[v].pc \in {"hash", "yara"}
        BY <2>1, <2>5 DEF PendingInOrder, Appending
      <3>1. CASE v = w
        <4>1. slow'[v].pend = NoAlerts /\ 1..Len(NoAlerts) = {} /\ ~(Len(NoAlerts) > 0)
          BY <3>1, <2>3
        <4> QED
          BY <4>1, NoAlertsListed
      <3>2. CASE v # w
        BY <3>2, <2>3 DEF MergeInv, PendingInOrder, Appending
      <3> QED
        BY <3>1, <3>2
    <2> QED
      BY <1>t, <2>6, <2>7, <2>8, <2>10, <2>11 DEF MergeInv
  <1>9. ASSUME NEW w \in SlowWorker, NothingAppended(w) PROVE MergeInv'
    <2> DEFINE r == [slow[w] EXCEPT !.pc = AfterAppend(slow[w].pc)]
    <2>1. slow' = [slow EXCEPT ![w] = r] /\ r \in SlowRun
      <3>1. slow' = [slow EXCEPT ![w] = r]
        BY <1>9, <1>t DEF NothingAppended, TypeOK, SlowRun
      <3>2. slow'[w] = r
        BY <3>1, <1>t DEF TypeOK
      <3> QED
        BY <3>1, <3>2, <1>t DEF TypeOK
    <2>2. RunsCarried' /\ PendingInOrder'
      <3>1. /\ rows' = rows /\ live' = live /\ nextAlert' = nextAlert /\ nextScan' = nextScan
        BY <1>9 DEF NothingAppended, tables
      <3>2. /\ r.pc # "idle" => /\ slow[w].pc # "idle"
                               /\ r.scan = slow[w].scan
                               /\ r.mem = slow[w].mem
            /\ \/ r.pend = NoAlerts
               \/ Len(slow[w].pend) = 0 /\ r.pend = slow[w].pend
               \/ /\ r.pend = slow[w].pend
                  /\ r.pc = slow[w].pc
                  /\ r.scan = slow[w].scan
                  /\ r.mem = slow[w].mem
        BY <1>9, <1>t DEF NothingAppended, Appending, TypeOK, SlowRun, SlowIdle, MergeInv, PendingInOrder
      <3> QED
        BY <2>1, <3>1, <3>2, QuietRun
    <2>3. TableShape' /\ BlobsCarried' /\ ViewCarried'
      BY <1>9, SameTables DEF NothingAppended, tables
    <2>4. ScansWereSaved'
      BY <1>9, <1>t, KnownScans, SameScans DEF NothingAppended, tables, brokers, TypeOK
    <2> QED
      BY <1>t, <2>2, <2>3, <2>4 DEF MergeInv
  <1>10. ASSUME NEW w \in SlowWorker, Persist(w) PROVE MergeInv'
    <2> DEFINE r == [slow[w] EXCEPT !.pc = "done"]
    <2>1. slow' = [slow EXCEPT ![w] = r] /\ r \in SlowRun
      <3>1. slow' = [slow EXCEPT ![w] = r]
        BY <1>10, <1>t DEF Persist, TypeOK, SlowRun
      <3>2. slow'[w] = r
        BY <3>1, <1>t DEF TypeOK
      <3> QED
        BY <3>1, <3>2, <1>t DEF TypeOK
    <2>2. RunsCarried' /\ PendingInOrder'
      <3>1. /\ rows' = rows /\ live' = live /\ nextAlert' = nextAlert /\ nextScan' = nextScan
        BY <1>10 DEF Persist, tables
      <3>2. /\ r.pc # "idle" => /\ slow[w].pc # "idle"
                               /\ r.scan = slow[w].scan
                               /\ r.mem = slow[w].mem
            /\ \/ r.pend = NoAlerts
               \/ Len(slow[w].pend) = 0 /\ r.pend = slow[w].pend
               \/ /\ r.pend = slow[w].pend
                  /\ r.pc = slow[w].pc
                  /\ r.scan = slow[w].scan
                  /\ r.mem = slow[w].mem
        <4>1. slow[w] \in SlowRun /\ slow[w].pc = "persist"
          BY <1>10, <1>t DEF Persist, TypeOK
        <4>2. Len(slow[w].pend) \in Nat /\ ~(Len(slow[w].pend) > 0)
          BY <4>1 DEF SlowRun, MergeInv, PendingInOrder, Appending
        <4> QED
          BY <4>1, <4>2 DEF SlowRun
      <3> QED
        BY <2>1, <3>1, <3>2, QuietRun
    <2>3. TableShape' /\ BlobsCarried' /\ ViewCarried'
      <3>1. /\ live' = live /\ rows' = rows /\ nextAlert' = nextAlert /\ view' = view
            /\ \A s \in live : blob'[s] = blob[s] \/ (s = slow[w].scan /\ blob'[s] = slow[w].mem)
        BY <1>10, <1>t DEF Persist, TypeOK
      <3>2. \A s \in live : s = slow[w].scan => Carried(slow[w].mem, s)
        BY <1>10 DEF Persist, MergeInv, RunsCarried
      <3>3. BlobsCarried'
        <4> SUFFICES ASSUME NEW s \in live
                     PROVE  InIdOrder(blob'[s]) /\ Listed(blob'[s]) \subseteq rows[s]
          BY <3>1 DEF BlobsCarried, Carried
        <4> QED
          BY <3>1, <3>2 DEF MergeInv, BlobsCarried, Carried
      <3> QED
        BY <3>1, <3>3 DEF MergeInv, TableShape, Drawable, ViewCarried, Carried
    <2>4. ScansWereSaved'
      BY <1>10, <1>t, KnownScans, SameScans DEF Persist, tables, brokers, TypeOK
    <2> QED
      BY <1>t, <2>2, <2>3, <2>4 DEF MergeInv
  <1>11. ASSUME NEW w \in SlowWorker, FinishEnrich(w) PROVE MergeInv'
    <2> DEFINE r == SlowIdle
    <2>1. slow' = [slow EXCEPT ![w] = r] /\ r \in SlowRun
      <3>1. slow' = [slow EXCEPT ![w] = r]
        BY <1>11, <1>t DEF FinishEnrich, TypeOK, SlowRun
      <3>2. slow'[w] = r
        BY <3>1, <1>t DEF TypeOK
      <3> QED
        BY <3>1, <3>2, <1>t DEF TypeOK
    <2>2. RunsCarried' /\ PendingInOrder'
      <3>1. /\ rows' = rows /\ live' = live /\ nextAlert' = nextAlert /\ nextScan' = nextScan
        BY <1>11 DEF FinishEnrich, tables
      <3>2. /\ r.pc # "idle" => /\ slow[w].pc # "idle"
                               /\ r.scan = slow[w].scan
                               /\ r.mem = slow[w].mem
            /\ \/ r.pend = NoAlerts
               \/ Len(slow[w].pend) = 0 /\ r.pend = slow[w].pend
               \/ /\ r.pend = slow[w].pend
                  /\ r.pc = slow[w].pc
                  /\ r.scan = slow[w].scan
                  /\ r.mem = slow[w].mem
        BY <1>11, <1>t DEF FinishEnrich, Appending, TypeOK, SlowRun, SlowIdle, MergeInv, PendingInOrder
      <3> QED
        BY <2>1, <3>1, <3>2, QuietRun
    <2>3. TableShape' /\ BlobsCarried' /\ ViewCarried'
      BY <1>11, SameTables DEF FinishEnrich, tables
    <2>4. ScansWereSaved'
      BY <1>11, <1>t, KnownScans, SameScans DEF FinishEnrich, tables, brokers, TypeOK
    <2> QED
      BY <1>t, <2>2, <2>3, <2>4 DEF MergeInv
  <1>12. ASSUME NEW s \in ScanId, DeleteScan(s) PROVE MergeInv'
    <2>1. /\ live' = live \ {s} /\ slow' = slow /\ fast' = fast /\ slowQ' = slowQ /\ view' = view
          /\ nextScan' = nextScan /\ nextAlert' = nextAlert
          /\ \A z \in ScanId : z # s => rows'[z] = rows[z] /\ blob'[z] = blob[z]
          /\ rows'[s] = {}
          /\ \A w \in SlowWorker : slow[w].scan = s => Len(slow[w].pend) = 0
      BY <1>12, <1>t DEF DeleteScan, TypeOK, brokers
    <2>2. live \subseteq ScanId /\ Saved' = Saved /\ Drawable' = Drawable
      BY <1>t, <2>1 DEF TypeOK, Saved, Drawable
    <2>3. ScansWereSaved'
      BY <2>1, <2>2 DEF MergeInv, ScansWereSaved
    <2>4. TableShape'
      BY <2>1, <2>2 DEF MergeInv, TableShape
    <2>5. BlobsCarried' /\ ViewCarried' /\ RunsCarried'
      BY <2>1, <2>2 DEF MergeInv, BlobsCarried, ViewCarried, RunsCarried, Carried
    <2>6. PendingInOrder'
      BY <2>1, <2>2 DEF MergeInv, PendingInOrder, Appending
    <2> QED
      BY <1>t, <2>3, <2>4, <2>5, <2>6 DEF MergeInv
  <1>13. ASSUME NEW s \in ScanId, ReadBlob(s) PROVE MergeInv'
    <2>1. /\ view'.scan = s /\ view'.alerts = blob[s] /\ s \in live /\ rows' = rows
          /\ live' = live
      BY <1>13 DEF ReadBlob, tables
    <2>2. ViewCarried'
      BY <2>1 DEF MergeInv, BlobsCarried, ViewCarried, Carried
    <2>3. TableShape' /\ BlobsCarried' /\ RunsCarried' /\ PendingInOrder'
      BY <1>13, SameTables DEF ReadBlob, tables
    <2>4. ScansWereSaved'
      BY <1>13, <2>1, KnownScans, SameScans DEF ReadBlob, tables, brokers
    <2> QED
      BY <1>t, <2>2, <2>3, <2>4 DEF MergeInv
  <1>14. CASE MergeTriage
    <2>1. ScansWereSaved'
      BY <1>14, KnownScans, SameScans DEF MergeTriage, NoView, tables, brokers
    <2>2. TableShape' /\ BlobsCarried' /\ RunsCarried' /\ PendingInOrder'
      BY <1>14, SameTables DEF MergeTriage, tables
    <2>3. ViewCarried'
      BY <1>14 DEF MergeTriage, NoView, ViewCarried
    <2> QED
      BY <1>t, <2>1, <2>2, <2>3 DEF MergeInv
  <1>15. ASSUME NEW w \in FastWorker, AnalyzeRaises(w) PROVE MergeInv'
    <2>1. ScansWereSaved'
      BY <1>t, <1>15, KnownScans, SameScans
         DEF AnalyzeRaises, brokers, tables, TypeOK
    <2>2. TableShape' /\ BlobsCarried' /\ RunsCarried' /\ PendingInOrder' /\ ViewCarried'
      BY <1>15, SameTables DEF AnalyzeRaises, brokers, tables
    <2> QED
      BY <1>t, <2>1, <2>2 DEF MergeInv
  <1>16. ASSUME NEW w \in FastWorker, RedeliverAnalyze(w) PROVE MergeInv'
    <2>1. ScansWereSaved'
      BY <1>t, <1>16, KnownScans, SameScans
         DEF RedeliverAnalyze, tables, FastRun, TypeOK
    <2>2. TableShape' /\ BlobsCarried' /\ RunsCarried' /\ PendingInOrder' /\ ViewCarried'
      BY <1>16, SameTables DEF RedeliverAnalyze, tables, FastRun
    <2> QED
      BY <1>t, <2>1, <2>2 DEF MergeInv
  <1>17. ASSUME NEW w \in FastWorker, FastWorkerDies(w) PROVE MergeInv'
    <2>1. ScansWereSaved'
      BY <1>t, <1>17, KnownScans, SameScans
         DEF FastWorkerDies, tables, TypeOK
    <2>2. TableShape' /\ BlobsCarried' /\ RunsCarried' /\ PendingInOrder' /\ ViewCarried'
      BY <1>17, SameTables DEF FastWorkerDies, tables
    <2> QED
      BY <1>t, <2>1, <2>2 DEF MergeInv
  <1>18. ASSUME NEW w \in SlowWorker, AppendRaises(w) PROVE MergeInv'
    <2> DEFINE r == [slow[w] EXCEPT !.pend = NoAlerts, !.pc = AfterAppend(slow[w].pc)]
    <2>1. slow' = [slow EXCEPT ![w] = r] /\ r \in SlowRun
      <3>1. slow' = [slow EXCEPT ![w] = r]
        BY <1>18, <1>t DEF AppendRaises, TypeOK, SlowRun
      <3>2. slow'[w] = r
        BY <3>1, <1>t DEF TypeOK
      <3> QED
        BY <3>1, <3>2, <1>t DEF TypeOK
    <2>2. RunsCarried' /\ PendingInOrder'
      <3>1. /\ rows' = rows /\ live' = live /\ nextAlert' = nextAlert /\ nextScan' = nextScan
        BY <1>18 DEF AppendRaises, tables
      <3>2. /\ r.pc # "idle" => /\ slow[w].pc # "idle"
                               /\ r.scan = slow[w].scan
                               /\ r.mem = slow[w].mem
            /\ \/ r.pend = NoAlerts
               \/ Len(slow[w].pend) = 0 /\ r.pend = slow[w].pend
               \/ /\ r.pend = slow[w].pend
                  /\ r.pc = slow[w].pc
                  /\ r.scan = slow[w].scan
                  /\ r.mem = slow[w].mem
        BY <1>18, <1>t DEF AppendRaises, Appending, TypeOK, SlowRun, SlowIdle, MergeInv, PendingInOrder
      <3> QED
        BY <2>1, <3>1, <3>2, QuietRun
    <2>3. TableShape' /\ BlobsCarried' /\ ViewCarried'
      BY <1>18, SameTables DEF AppendRaises, tables
    <2>4. ScansWereSaved'
      BY <1>18, <1>t, KnownScans, SameScans DEF AppendRaises, tables, brokers, TypeOK
    <2> QED
      BY <1>t, <2>2, <2>3, <2>4 DEF MergeInv
  <1>19. ASSUME NEW w \in SlowWorker, PersistRaises(w) PROVE MergeInv'
    <2> DEFINE r == [slow[w] EXCEPT !.pc = "done"]
    <2>1. slow' = [slow EXCEPT ![w] = r] /\ r \in SlowRun
      <3>1. slow' = [slow EXCEPT ![w] = r]
        BY <1>19, <1>t DEF PersistRaises, TypeOK, SlowRun
      <3>2. slow'[w] = r
        BY <3>1, <1>t DEF TypeOK
      <3> QED
        BY <3>1, <3>2, <1>t DEF TypeOK
    <2>2. RunsCarried' /\ PendingInOrder'
      <3>1. /\ rows' = rows /\ live' = live /\ nextAlert' = nextAlert /\ nextScan' = nextScan
        BY <1>19 DEF PersistRaises, tables
      <3>2. /\ r.pc # "idle" => /\ slow[w].pc # "idle"
                               /\ r.scan = slow[w].scan
                               /\ r.mem = slow[w].mem
            /\ \/ r.pend = NoAlerts
               \/ Len(slow[w].pend) = 0 /\ r.pend = slow[w].pend
               \/ /\ r.pend = slow[w].pend
                  /\ r.pc = slow[w].pc
                  /\ r.scan = slow[w].scan
                  /\ r.mem = slow[w].mem
        <4>1. slow[w] \in SlowRun /\ slow[w].pc = "persist"
          BY <1>19, <1>t DEF PersistRaises, TypeOK
        <4>2. Len(slow[w].pend) \in Nat /\ ~(Len(slow[w].pend) > 0)
          BY <4>1 DEF SlowRun, MergeInv, PendingInOrder, Appending
        <4> QED
          BY <4>1, <4>2 DEF SlowRun
      <3> QED
        BY <2>1, <3>1, <3>2, QuietRun
    <2>3. TableShape' /\ BlobsCarried' /\ ViewCarried'
      BY <1>19, SameTables DEF PersistRaises, tables
    <2>4. ScansWereSaved'
      BY <1>19, <1>t, KnownScans, SameScans DEF PersistRaises, tables, brokers, TypeOK
    <2> QED
      BY <1>t, <2>2, <2>3, <2>4 DEF MergeInv
  <1>20. ASSUME NEW w \in SlowWorker, RedeliverEnrich(w) PROVE MergeInv'
    <2> DEFINE r == [slow[w] EXCEPT !.again = TRUE]
    <2>1. slow' = [slow EXCEPT ![w] = r] /\ r \in SlowRun
      <3>1. slow' = [slow EXCEPT ![w] = r]
        BY <1>20, <1>t DEF RedeliverEnrich, TypeOK, SlowRun
      <3>2. slow'[w] = r
        BY <3>1, <1>t DEF TypeOK
      <3> QED
        BY <3>1, <3>2, <1>t DEF TypeOK
    <2>2. RunsCarried' /\ PendingInOrder'
      <3>1. /\ rows' = rows /\ live' = live /\ nextAlert' = nextAlert /\ nextScan' = nextScan
        BY <1>20 DEF RedeliverEnrich, tables
      <3>2. /\ r.pc # "idle" => /\ slow[w].pc # "idle"
                               /\ r.scan = slow[w].scan
                               /\ r.mem = slow[w].mem
            /\ \/ r.pend = NoAlerts
               \/ Len(slow[w].pend) = 0 /\ r.pend = slow[w].pend
               \/ /\ r.pend = slow[w].pend
                  /\ r.pc = slow[w].pc
                  /\ r.scan = slow[w].scan
                  /\ r.mem = slow[w].mem
        BY <1>20, <1>t DEF RedeliverEnrich, Appending, TypeOK, SlowRun, SlowIdle, MergeInv, PendingInOrder
      <3> QED
        BY <2>1, <3>1, <3>2, QuietRun
    <2>3. TableShape' /\ BlobsCarried' /\ ViewCarried'
      BY <1>20, SameTables DEF RedeliverEnrich, tables
    <2>4. ScansWereSaved'
      <3>1. \A s \in ScanId : slowQ'[s] > 0 => s \in Saved
        BY <1>20, <1>t, KnownScans DEF RedeliverEnrich, TypeOK
      <3> QED
        BY <1>20, <3>1, KnownScans, SameScans DEF RedeliverEnrich, tables
    <2> QED
      BY <1>t, <2>2, <2>3, <2>4 DEF MergeInv
  <1>21. ASSUME NEW w \in SlowWorker, SlowWorkerDies(w) PROVE MergeInv'
    <2> DEFINE r == SlowIdle
    <2>1. slow' = [slow EXCEPT ![w] = r] /\ r \in SlowRun
      <3>1. slow' = [slow EXCEPT ![w] = r]
        BY <1>21, <1>t DEF SlowWorkerDies, TypeOK, SlowRun
      <3>2. slow'[w] = r
        BY <3>1, <1>t DEF TypeOK
      <3> QED
        BY <3>1, <3>2, <1>t DEF TypeOK
    <2>2. RunsCarried' /\ PendingInOrder'
      <3>1. /\ rows' = rows /\ live' = live /\ nextAlert' = nextAlert /\ nextScan' = nextScan
        BY <1>21 DEF SlowWorkerDies, tables
      <3>2. /\ r.pc # "idle" => /\ slow[w].pc # "idle"
                               /\ r.scan = slow[w].scan
                               /\ r.mem = slow[w].mem
            /\ \/ r.pend = NoAlerts
               \/ Len(slow[w].pend) = 0 /\ r.pend = slow[w].pend
               \/ /\ r.pend = slow[w].pend
                  /\ r.pc = slow[w].pc
                  /\ r.scan = slow[w].scan
                  /\ r.mem = slow[w].mem
        BY <1>21, <1>t DEF SlowWorkerDies, Appending, TypeOK, SlowRun, SlowIdle, MergeInv, PendingInOrder
      <3> QED
        BY <2>1, <3>1, <3>2, QuietRun
    <2>3. TableShape' /\ BlobsCarried' /\ ViewCarried'
      BY <1>21, SameTables DEF SlowWorkerDies, tables
    <2>4. ScansWereSaved'
      <3>1. \A s \in ScanId : slowQ'[s] > 0 => s \in Saved
        BY <1>21, <1>t, KnownScans DEF SlowWorkerDies, TypeOK
      <3> QED
        BY <1>21, <3>1, KnownScans, SameScans DEF SlowWorkerDies, tables
    <2> QED
      BY <1>t, <2>2, <2>3, <2>4 DEF MergeInv
  <1>22. ASSUME NEW w \in SlowWorker, SlowChildKilled(w) PROVE MergeInv'
    <2> DEFINE r == SlowIdle
    <2>1. slow' = [slow EXCEPT ![w] = r] /\ r \in SlowRun
      <3>1. slow' = [slow EXCEPT ![w] = r]
        BY <1>22, <1>t DEF SlowChildKilled, TypeOK, SlowRun
      <3>2. slow'[w] = r
        BY <3>1, <1>t DEF TypeOK
      <3> QED
        BY <3>1, <3>2, <1>t DEF TypeOK
    <2>2. RunsCarried' /\ PendingInOrder'
      <3>1. /\ rows' = rows /\ live' = live /\ nextAlert' = nextAlert /\ nextScan' = nextScan
        BY <1>22 DEF SlowChildKilled, tables
      <3>2. /\ r.pc # "idle" => /\ slow[w].pc # "idle"
                               /\ r.scan = slow[w].scan
                               /\ r.mem = slow[w].mem
            /\ \/ r.pend = NoAlerts
               \/ Len(slow[w].pend) = 0 /\ r.pend = slow[w].pend
               \/ /\ r.pend = slow[w].pend
                  /\ r.pc = slow[w].pc
                  /\ r.scan = slow[w].scan
                  /\ r.mem = slow[w].mem
        BY <1>22, <1>t DEF SlowChildKilled, Appending, TypeOK, SlowRun, SlowIdle, MergeInv, PendingInOrder
      <3> QED
        BY <2>1, <3>1, <3>2, QuietRun
    <2>3. TableShape' /\ BlobsCarried' /\ ViewCarried'
      BY <1>22, SameTables DEF SlowChildKilled, tables
    <2>4. ScansWereSaved'
      BY <1>22, <1>t, KnownScans, SameScans DEF SlowChildKilled, tables, brokers, TypeOK
    <2> QED
      BY <1>t, <2>2, <2>3, <2>4 DEF MergeInv
  <1>23. CASE UNCHANGED vars
    <2>1. ScansWereSaved'
      BY <1>23, KnownScans, SameScans DEF vars
    <2>2. TableShape' /\ BlobsCarried' /\ RunsCarried' /\ PendingInOrder' /\ ViewCarried'
      BY <1>23, SameTables DEF vars
    <2> QED
      BY <1>t, <2>1, <2>2 DEF MergeInv
  <1> QED
    BY <1>1, <1>2, <1>3, <1>4, <1>5, <1>6, <1>7, <1>8, <1>9, <1>10, <1>11,
       <1>12, <1>13, <1>14, <1>15, <1>16, <1>17, <1>18, <1>19, <1>20, <1>21,
       <1>22, <1>23
       DEF Next, FastStep, SlowStep, Failure

\* The merge invariant holds in every state.
THEOREM MergeInvariant == Spec => []MergeInv
  BY InitMergeInv, NextMergeInv, PTL DEF Spec

\* Splicing triage state by position never shows an alert with the decision of
\* another one, whatever enrichments, redeliveries and deletions interleave.
THEOREM MergeIsAligned == Spec => []MergeAligned
  <1>1. MergeInv => MergeAligned
    <2> SUFFICES ASSUME MergeInv, view.pc = "loaded",
                        Len(view.alerts) = Cardinality(rows[view.scan])
                 PROVE  IsTable(view.alerts, rows[view.scan])
      BY DEF MergeAligned
    <2>1. view.scan \in ScanId /\ view.alerts \in Seq(AlertId)
      BY KnownScans, BoundsAssumption DEF MergeInv, TypeOK, View, Saved, ScanId
    <2>2. rows[view.scan] \in SUBSET AlertId
      BY <2>1 DEF MergeInv, TypeOK
    <2>3. CASE view.scan \in live
      <3>1. InIdOrder(view.alerts) /\ Listed(view.alerts) \subseteq rows[view.scan]
        BY <2>3 DEF MergeInv, ViewCarried, Carried
      <3> QED
        BY <2>1, <2>2, <3>1, EqualCountsEqualLists
    <2>4. CASE view.scan \notin live
      <3>1. rows[view.scan] = {}
        BY <2>1, <2>4 DEF MergeInv, TableShape
      <3>2. Len(view.alerts) = 0
        BY <3>1, FS_EmptySet
      <3>3. 1..Len(view.alerts) = {}
        BY <3>2
      <3> QED
        BY <3>1, <3>3 DEF IsTable, Listed, InIdOrder
    <2> QED
      BY <2>3, <2>4
  <1> QED
    BY <1>1, MergeInvariant, PTL

-----------------------------------------------------------------------------
(***************************************************************************)
(* The blob and the table of a scan whose enrichment is not disturbed.     *)
(***************************************************************************)

\* A scan that no message, no run and no table entry of its own has moved for.
LEMMA ScanAtRest ==
  ASSUME NEW s \in ScanId, SoleWriter(s), MirrorKept(s),
         slowQ'[s] = slowQ[s], blob'[s] = blob[s], rows'[s] = rows[s],
         \A w \in SlowWorker :
            /\ (Enriching(w, s)' <=> Enriching(w, s))
            /\ (Writing(w, s)' <=> Writing(w, s))
            /\ Writing(w, s) => slow'[w].mem = slow[w].mem,
         \A f \in FastWorker :
            fast'[f].pc = "saved" /\ fast'[f].scan = s
                => fast[f].pc = "saved" /\ fast[f].scan = s
  PROVE  SoleWriter(s)' /\ MirrorKept(s)'
  <1>1. SoleWriter(s)'
    BY DEF SoleWriter
  <1>2. MirrorKept(s)'
    BY DEF MirrorKept, IsTable
  <1> QED
    BY <1>1, <1>2

\* A slow worker that keeps its scan and stays on the same side of the start,
\* the write and the end of its run is the same writer, or none, to a scan.
LEMMA SameWriter ==
  ASSUME NEW s \in ScanId, NEW w \in SlowWorker,
         slow'[w].scan = slow[w].scan,
         slow[w].pc = "idle" <=> slow'[w].pc = "idle",
         slow[w].pc = "done" <=> slow'[w].pc = "done"
  PROVE  /\ (Enriching(w, s)' <=> Enriching(w, s))
         /\ (Writing(w, s)' <=> Writing(w, s))
  BY DEF Enriching, Writing

\* A step of a slow worker leaves the scans of others at rest.
LEMMA OthersAtRest ==
  ASSUME TypeOK, NEW s \in ScanId, NEW w \in SlowWorker, NEW r,
         SoleWriter(s), MirrorKept(s),
         slow' = [slow EXCEPT ![w] = r],
         r.pc # "idle" => r.scan # s,
         slow[w].pc # "idle" => slow[w].scan # s,
         slowQ'[s] = slowQ[s], blob'[s] = blob[s], rows'[s] = rows[s], UNCHANGED fast
  PROVE  SoleWriter(s)' /\ MirrorKept(s)'
  <1>1. slow'[w] = r /\ \A v \in SlowWorker : v # w => slow'[v] = slow[v]
    BY DEF TypeOK
  <1>2. ~Enriching(w, s) /\ ~Enriching(w, s)' /\ ~Writing(w, s) /\ ~Writing(w, s)'
    BY <1>1 DEF Enriching, Writing
  <1>3. ASSUME NEW v \in SlowWorker
        PROVE  /\ (Enriching(v, s)' <=> Enriching(v, s))
               /\ (Writing(v, s)' <=> Writing(v, s))
               /\ Writing(v, s) => slow'[v].mem = slow[v].mem
    <2>1. CASE v = w
      BY <1>2, <2>1
    <2>2. CASE v # w
      BY <1>1, <2>2 DEF Enriching, Writing
    <2> QED
      BY <2>1, <2>2
  <1> QED
    BY <1>3, ScanAtRest

\* A run that keeps its scan and its copy of the blob, and neither starts nor
\* ends, leaves every scan at rest.
LEMMA RunAtRest ==
  ASSUME TypeOK, NEW s \in ScanId, NEW w \in SlowWorker, NEW r,
         SoleWriter(s), MirrorKept(s),
         slow' = [slow EXCEPT ![w] = r],
         r.scan = slow[w].scan, r.mem = slow[w].mem,
         slow[w].pc = "idle" <=> r.pc = "idle",
         slow[w].pc = "done" <=> r.pc = "done",
         UNCHANGED <<slowQ, blob, rows, fast>>
  PROVE  SoleWriter(s)' /\ MirrorKept(s)'
  <1>1. slow'[w] = r /\ \A v \in SlowWorker : v # w => slow'[v] = slow[v]
    BY DEF TypeOK
  <1>2. ASSUME NEW v \in SlowWorker
        PROVE  /\ (Enriching(v, s)' <=> Enriching(v, s))
               /\ (Writing(v, s)' <=> Writing(v, s))
               /\ Writing(v, s) => slow'[v].mem = slow[v].mem
    <2>1. CASE v = w
      BY <1>1, <2>1, SameWriter
    <2>2. CASE v # w
      BY <1>1, <2>2 DEF Enriching, Writing
    <2> QED
      BY <2>1, <2>2
  <1> QED
    BY <1>2, ScanAtRest

\* No two runs of the fast queue ever name the same scan.
LEMMA DistinctScans == MirrorInv /\ [Next]_vars => FastScansDistinct'
  <1> SUFFICES ASSUME MirrorInv, [Next]_vars PROVE FastScansDistinct'
    OBVIOUS
  <1>0. TypeOK /\ FastScansDistinct /\ MergeInv
    BY DEF MirrorInv, MergeInv
  <1>1. ASSUME \A w \in FastWorker : fast'[w].scan \in {fast[w].scan, NoScan}
        PROVE  FastScansDistinct'
    BY <1>0, <1>1 DEF FastScansDistinct
  <1>2. ASSUME NEW w \in FastWorker, NEW n \in 0..MaxFound, SaveScan(w, n)
        PROVE  FastScansDistinct'
    <2>1. /\ fast'[w].scan = nextScan
          /\ \A v \in FastWorker : v # w => fast'[v] = fast[v]
      BY <1>0, <1>2 DEF SaveScan, TypeOK, FastRun
    <2>2. \A v \in FastWorker : fast[v].scan # nextScan \/ fast[v].scan = NoScan
      <3>1. nextScan \notin Saved
        BY <1>0 DEF TypeOK, Saved
      <3> QED
        BY <1>0, <3>1, KnownScans
    <2>3. nextScan # NoScan
      BY <1>0 DEF TypeOK, NoScan
    <2> QED
      BY <1>0, <2>1, <2>2, <2>3 DEF FastScansDistinct
  <1>3. ASSUME NEW w \in FastWorker, NEW r,
               fast' = [fast EXCEPT ![w] = r], r.scan \in {fast[w].scan, NoScan}
        PROVE  FastScansDistinct'
    BY <1>0, <1>1, <1>3 DEF TypeOK
  <1>4. ASSUME NEW c \in Capture, NEW w \in FastWorker, StartAnalyze(w, c)
        PROVE  FastScansDistinct'
    BY <1>3, <1>4 DEF StartAnalyze
  <1>5. ASSUME NEW w \in FastWorker,
               \/ DispatchEnrich(w) \/ FinishAnalyze(w) \/ AnalyzeRaises(w)
               \/ RedeliverAnalyze(w) \/ FastWorkerDies(w)
        PROVE  FastScansDistinct'
    <2>0. fast[w] \in FastRun
      BY <1>0 DEF TypeOK
    <2>1. /\ [fast[w] EXCEPT !.pc = "dispatched"].scan = fast[w].scan
          /\ [fast[w] EXCEPT !.again = TRUE].scan = fast[w].scan
          /\ FastIdle.scan = NoScan
      BY <2>0 DEF FastRun, FastIdle
    <2>2. CASE DispatchEnrich(w)
      BY <1>3, <2>1, <2>2 DEF DispatchEnrich
    <2>3. CASE RedeliverAnalyze(w)
      BY <1>3, <2>1, <2>3 DEF RedeliverAnalyze
    <2>4. CASE FinishAnalyze(w) \/ AnalyzeRaises(w) \/ FastWorkerDies(w)
      BY <1>3, <2>1, <2>4 DEF FinishAnalyze, AnalyzeRaises, FastWorkerDies
    <2> QED
      BY <1>5, <2>2, <2>3, <2>4
  <1>6. CASE UNCHANGED fast
    BY <1>1, <1>6
  <1>7. ASSUME NEW c \in Capture, Upload(c) PROVE UNCHANGED fast
    BY <1>7 DEF Upload
  <1>8. ASSUME NEW s \in ScanId,
               DeleteScan(s) \/ ReadBlob(s) \/ \E w \in SlowWorker : StartEnrich(w, s)
        PROVE  UNCHANGED fast
    BY <1>8 DEF DeleteScan, ReadBlob, StartEnrich
  <1>9. ASSUME NEW w \in SlowWorker, SlowStep(w) PROVE UNCHANGED fast
    BY <1>9 DEF SlowStep, InsertAlert, CommitAlerts, NothingAppended, Persist,
                FinishEnrich
  <1>10. ASSUME NEW w \in SlowWorker,
                \/ AppendRaises(w) \/ PersistRaises(w) \/ RedeliverEnrich(w)
                \/ SlowWorkerDies(w) \/ SlowChildKilled(w)
         PROVE  UNCHANGED fast
    BY <1>10 DEF AppendRaises, PersistRaises, RedeliverEnrich, SlowWorkerDies,
                 SlowChildKilled
  <1>11. MergeTriage \/ UNCHANGED vars => UNCHANGED fast
    BY DEF MergeTriage, vars
  <1> QED
    BY <1>2, <1>4, <1>5, <1>6, <1>7, <1>8, <1>9, <1>10, <1>11
    DEF Next, FastStep, Failure

\* Uploads, analyses, deletions and views keep blob and table together.
LEMMA FrontMirrors ==
  ASSUME MirrorInv, NEW s \in live, outcome[s] # "disturbed", UNCHANGED slow,
         \/ \E c \in Capture : Upload(c)
         \/ \E f \in FastWorker :
              \/ FinishAnalyze(f) \/ AnalyzeRaises(f) \/ RedeliverAnalyze(f)
              \/ FastWorkerDies(f) \/ DispatchEnrich(f)
              \/ \E c \in Capture : StartAnalyze(f, c)
              \/ \E n \in 0..MaxFound : SaveScan(f, n)
         \/ \E d \in ScanId : ReadBlob(d) \/ (d # s /\ DeleteScan(d))
         \/ MergeTriage
         \/ UNCHANGED vars
  PROVE  SoleWriter(s)' /\ MirrorKept(s)'
  <1>0. /\ TypeOK /\ MergeInv /\ SoleWriter(s) /\ MirrorKept(s) /\ FastScansDistinct
        /\ s \in ScanId /\ s \in Saved
    BY KnownScans DEF MirrorInv, MergeInv, TypeOK
  <1>1. ASSUME slowQ'[s] = slowQ[s], blob'[s] = blob[s], rows'[s] = rows[s],
               \A f \in FastWorker :
                  fast'[f].pc = "saved" /\ fast'[f].scan = s
                      => fast[f].pc = "saved" /\ fast[f].scan = s
        PROVE  SoleWriter(s)' /\ MirrorKept(s)'
    <2>1. \A w \in SlowWorker :
            /\ (Enriching(w, s)' <=> Enriching(w, s))
            /\ (Writing(w, s)' <=> Writing(w, s))
            /\ (Writing(w, s) => slow'[w].mem = slow[w].mem)
      BY DEF Enriching, Writing
    <2> QED
      BY <1>0, <1>1, <2>1, ScanAtRest
  <1>2. ASSUME UNCHANGED <<slowQ, blob, rows, fast>>
        PROVE  SoleWriter(s)' /\ MirrorKept(s)'
    BY <1>1, <1>2
  <1>3. ASSUME NEW f \in FastWorker, NEW r,
               fast' = [fast EXCEPT ![f] = r], r.pc # "saved",
               UNCHANGED <<slowQ, blob, rows>>
        PROVE  SoleWriter(s)' /\ MirrorKept(s)'
    <2>1. \A g \in FastWorker :
            fast'[g].pc = "saved" /\ fast'[g].scan = s
                => fast[g].pc = "saved" /\ fast[g].scan = s
      BY <1>0, <1>3 DEF TypeOK
    <2> QED
      BY <1>1, <1>3, <2>1
  <1>4. ASSUME NEW f \in FastWorker, NEW c \in Capture, StartAnalyze(f, c)
        PROVE  SoleWriter(s)' /\ MirrorKept(s)'
    <2> DEFINE r == [pc |-> "parsing", cap |-> c, scan |-> NoScan, again |-> FALSE]
    <2>1. /\ UNCHANGED <<slowQ, blob, rows>>
          /\ fast' = [fast EXCEPT ![f] = r]
          /\ r.pc # "saved"
      BY <1>4 DEF StartAnalyze, tables
    <2> HIDE DEF r
    <2> QED
      BY <1>3, <2>1
  <1>5. ASSUME NEW f \in FastWorker,
               FinishAnalyze(f) \/ AnalyzeRaises(f) \/ FastWorkerDies(f)
        PROVE  SoleWriter(s)' /\ MirrorKept(s)'
    <2>1. FastIdle.pc # "saved"
      BY DEF FastIdle
    <2> QED
      BY <1>3, <1>5, <2>1
      DEF FinishAnalyze, AnalyzeRaises, FastWorkerDies, tables, brokers
  <1>6. ASSUME NEW f \in FastWorker, RedeliverAnalyze(f)
        PROVE  SoleWriter(s)' /\ MirrorKept(s)'
    <2>1. /\ UNCHANGED <<slowQ, blob, rows>>
          /\ fast' = [fast EXCEPT ![f].again = TRUE]
      BY <1>6 DEF RedeliverAnalyze, tables
    <2>2. \A g \in FastWorker :
            fast'[g].pc = fast[g].pc /\ fast'[g].scan = fast[g].scan
      BY <1>0, <2>1 DEF TypeOK, FastRun
    <2> QED
      BY <1>1, <2>1, <2>2
  <1>7. ASSUME NEW f \in FastWorker, NEW n \in 0..MaxFound, SaveScan(f, n)
        PROVE  SoleWriter(s)' /\ MirrorKept(s)'
    <2>1. nextScan # s
      BY <1>0 DEF Saved, TypeOK, ScanId
    <2>2. slowQ' = slowQ /\ blob'[s] = blob[s] /\ rows'[s] = rows[s]
      BY <1>0, <1>7, <2>1 DEF SaveScan, TypeOK, brokers
    <2>3. \A g \in FastWorker : fast'[g] = fast[g] \/ fast'[g].scan = nextScan
      BY <1>0, <1>7 DEF SaveScan, TypeOK, FastRun
    <2> QED
      BY <1>1, <2>1, <2>2, <2>3
  <1>8. ASSUME NEW f \in FastWorker, DispatchEnrich(f)
        PROVE  SoleWriter(s)' /\ MirrorKept(s)'
    <2>1. /\ fast[f].pc = "saved"
          /\ slowQ' = [slowQ EXCEPT ![fast[f].scan] = @ + 1]
          /\ UNCHANGED <<blob, rows>>
      BY <1>8 DEF DispatchEnrich, tables
    <2>2. /\ fast'[f].pc = "dispatched"
          /\ \A g \in FastWorker : g # f => fast'[g] = fast[g]
      BY <1>0, <1>8 DEF DispatchEnrich, TypeOK, FastRun
    <2>3. CASE fast[f].scan # s
      <3>1. slowQ'[s] = slowQ[s]
        BY <1>0, <2>1, <2>3 DEF TypeOK
      <3> QED
        BY <1>1, <2>1, <2>2, <3>1
    <2>4. CASE fast[f].scan = s
      <3>1. slowQ[s] = 0 /\ \A w \in SlowWorker : ~Enriching(w, s)
        BY <1>0, <2>1, <2>4 DEF SoleWriter
      <3>2. slowQ'[s] = 1
        BY <1>0, <2>1, <2>4, <3>1 DEF TypeOK
      <3>3. \A w \in SlowWorker : ~Enriching(w, s)'
        BY <3>1 DEF Enriching
      <3>4. ASSUME NEW g \in FastWorker, fast'[g].pc = "saved", fast'[g].scan = s
            PROVE  FALSE
        <4>1. g # f /\ fast[g].scan = s
          BY <2>2, <3>4
        <4>2. s # NoScan
          BY <1>0 DEF ScanId, NoScan
        <4> QED
          BY <1>0, <2>4, <4>1, <4>2 DEF FastScansDistinct
      <3>5. SoleWriter(s)'
        BY <3>2, <3>3, <3>4 DEF SoleWriter
      <3>6. MirrorKept(s)'
        BY <1>0, <2>1 DEF MirrorKept, Writing, Enriching, IsTable
      <3> QED
        BY <3>5, <3>6
    <2> QED
      BY <2>3, <2>4
  <1>9. ASSUME NEW d \in ScanId, d # s, DeleteScan(d)
        PROVE  SoleWriter(s)' /\ MirrorKept(s)'
    <2>1. blob'[s] = blob[s] /\ rows'[s] = rows[s] /\ UNCHANGED <<slowQ, fast>>
      BY <1>0, <1>9 DEF DeleteScan, TypeOK, brokers
    <2> QED
      BY <1>1, <2>1
  <1>10. ASSUME NEW c \in Capture, Upload(c) PROVE SoleWriter(s)' /\ MirrorKept(s)'
    BY <1>2, <1>10 DEF Upload, tables
  <1>11. ASSUME NEW d \in ScanId, ReadBlob(d) PROVE SoleWriter(s)' /\ MirrorKept(s)'
    BY <1>2, <1>11 DEF ReadBlob, tables, brokers
  <1>12. MergeTriage \/ UNCHANGED vars => SoleWriter(s)' /\ MirrorKept(s)'
    BY <1>2 DEF MergeTriage, vars, tables, brokers
  <1> QED
    BY <1>4, <1>5, <1>6, <1>7, <1>8, <1>9, <1>10, <1>11, <1>12

\* The enrichment keeps blob and table together.
LEMMA EnrichmentMirrors ==
  ASSUME MirrorInv, MergeInv', NEW s \in live, outcome[s] # "disturbed",
         UNCHANGED live, NEW w \in SlowWorker,
         SlowStep(w) \/ \E d \in ScanId : StartEnrich(w, d)
  PROVE  SoleWriter(s)' /\ MirrorKept(s)'
  <1> DEFINE run == slow[w]
  <1>0. /\ TypeOK /\ MergeInv /\ SoleWriter(s) /\ MirrorKept(s)
        /\ s \in ScanId /\ run \in SlowRun
    BY DEF MirrorInv, MergeInv, TypeOK
  <1>1. ASSUME NEW d \in ScanId, StartEnrich(w, d)
        PROVE  SoleWriter(s)' /\ MirrorKept(s)'
    <2>1. /\ run.pc = "idle" /\ slowQ[d] > 0
          /\ slowQ' = [slowQ EXCEPT ![d] = @ - 1]
          /\ slow' = IF d \in live
                     THEN [slow EXCEPT ![w] = [pc |-> "hash", scan |-> d,
                                               mem |-> blob[d], pend |-> NoAlerts,
                                               again |-> FALSE]]
                     ELSE slow
          /\ UNCHANGED <<fast, blob, rows>>
      BY <1>1 DEF StartEnrich, tables
    <2>2. CASE d # s /\ d \in live
      <3>1. slowQ'[s] = slowQ[s]
        BY <1>0, <2>1, <2>2 DEF TypeOK
      <3> QED
        BY <1>0, <2>1, <2>2, <3>1, OthersAtRest
    <2>3. CASE d \notin live
      <3>1. slowQ'[s] = slowQ[s] /\ UNCHANGED slow
        BY <1>0, <2>1, <2>3 DEF TypeOK
      <3>2. \A v \in SlowWorker :
              /\ (Enriching(v, s)' <=> Enriching(v, s))
              /\ (Writing(v, s)' <=> Writing(v, s))
              /\ (Writing(v, s) => slow'[v].mem = slow[v].mem)
        BY <3>1 DEF Enriching, Writing
      <3> QED
        BY <1>0, <2>1, <3>1, <3>2, ScanAtRest
    <2>4. CASE d = s
      <3>1. slowQ[s] = 1 /\ \A v \in SlowWorker : ~Enriching(v, s)
        BY <1>0, <2>1, <2>4 DEF SoleWriter
      <3>2. /\ slow'[w].pc = "hash" /\ slow'[w].mem = blob[s]
            /\ \A v \in SlowWorker : v # w => slow'[v] = slow[v]
        BY <1>0, <2>1, <2>4 DEF TypeOK
      <3>3. slowQ'[s] = 0
        BY <1>0, <2>1, <2>4, <3>1 DEF TypeOK
      <3>4. \A v \in SlowWorker : v # w => ~Enriching(v, s)'
        BY <3>1, <3>2 DEF Enriching
      <3>5. ASSUME NEW f \in FastWorker, fast[f].pc = "saved", fast[f].scan = s
            PROVE  FALSE
        BY <1>0, <3>1, <3>5 DEF SoleWriter
      <3>6. SoleWriter(s)'
        BY <2>1, <3>3, <3>4, <3>5 DEF SoleWriter
      <3>7. IsTable(blob[s], rows[s])
        BY <1>0, <3>1 DEF MirrorKept, Writing
      <3>8. Writing(w, s)'
        BY <1>0, <2>1, <2>4, <3>2 DEF Writing, Enriching, TypeOK
      <3>9. IsTable(slow'[w].mem, rows'[s])
        BY <2>1, <3>2, <3>7
      <3>10. MirrorKept(s)'
        BY <3>4, <3>8, <3>9 DEF MirrorKept, Writing
      <3> QED
        BY <3>6, <3>10
    <2> QED
      BY <2>2, <2>3, <2>4
  <1>2. CASE InsertAlert(w)
    <2>1. /\ UNCHANGED <<slowQ, blob, rows, fast>>
          /\ slow' = [slow EXCEPT ![w] = [run EXCEPT !.pend = Append(@, nextAlert)]]
      BY <1>2 DEF InsertAlert, brokers
    <2>2. /\ [run EXCEPT !.pend = Append(@, nextAlert)].scan = run.scan
          /\ [run EXCEPT !.pend = Append(@, nextAlert)].mem = run.mem
          /\ [run EXCEPT !.pend = Append(@, nextAlert)].pc = run.pc
      BY <1>0 DEF SlowRun
    <2> QED
      BY <1>0, <2>1, <2>2, RunAtRest
  <1>3. CASE NothingAppended(w)
    <2>1. /\ UNCHANGED <<slowQ, blob, rows, fast>>
          /\ slow' = [slow EXCEPT ![w] = [run EXCEPT !.pc = AfterAppend(@)]]
          /\ Appending(w)
      BY <1>3 DEF NothingAppended, brokers, tables
    <2>2. /\ [run EXCEPT !.pc = AfterAppend(@)].scan = run.scan
          /\ [run EXCEPT !.pc = AfterAppend(@)].mem = run.mem
          /\ [run EXCEPT !.pc = AfterAppend(@)].pc \notin {"idle", "done"}
          /\ run.pc \notin {"idle", "done"}
      BY <1>0, <2>1 DEF SlowRun, AfterAppend, Appending
    <2> QED
      BY <1>0, <2>1, <2>2, RunAtRest
  <1>4. CASE CommitAlerts(w)
    <2> DEFINE r == [run EXCEPT !.mem = Mirrored(run), !.pend = NoAlerts,
                                !.pc = AfterAppend(run.pc)]
    <2>1. /\ UNCHANGED <<slowQ, blob, fast>>
          /\ slow' = [slow EXCEPT ![w] = r]
          /\ rows' = [rows EXCEPT ![run.scan] =
                        @ \cup {run.pend[i] : i \in 1..Len(run.pend)}]
          /\ Appending(w)
      BY <1>4 DEF CommitAlerts, brokers
    <2>2. /\ r.scan = run.scan /\ r.mem = run.mem \o run.pend
          /\ r.pc \notin {"idle", "done"} /\ run.pc \notin {"idle", "done"}
      BY <1>0, <2>1 DEF SlowRun, AfterAppend, Appending, Mirrored
    <2>3. /\ slow'[w] = r
          /\ \A v \in SlowWorker : v # w => slow'[v] = slow[v]
      BY <1>0, <2>1 DEF TypeOK
    <2> HIDE DEF r
    <2>4. CASE run.scan # s
      <3>1. rows'[s] = rows[s]
        BY <1>0, <2>1, <2>4 DEF TypeOK
      <3> QED
        BY <1>0, <2>1, <2>2, <2>4, <3>1, OthersAtRest
    <2>5. CASE run.scan = s
      <3>1. Writing(w, s) /\ Enriching(w, s) /\ Writing(w, s)' /\ Enriching(w, s)'
        BY <2>2, <2>3, <2>5 DEF Writing, Enriching
      <3>2. \A v \in SlowWorker : v # w => ~Enriching(v, s)
        BY <1>0, <3>1 DEF SoleWriter
      <3>3. \A v \in SlowWorker : v # w => ~Enriching(v, s)'
        BY <2>3, <3>2 DEF Enriching
      <3>4. SoleWriter(s)'
        BY <1>0, <2>1, <3>1, <3>3 DEF SoleWriter
      <3>5. IsTable(run.mem, rows[s])
        BY <1>0, <3>1 DEF MirrorKept
      <3>6. rows'[s] = rows[s] \cup Listed(run.pend)
        BY <1>0, <2>1, <2>5 DEF TypeOK, Listed
      <3>7. InIdOrder(r.mem) /\ Listed(r.mem) = Listed(run.mem) \cup Listed(run.pend)
        <4>1. run.mem \in Seq(AlertId) /\ run.pend \in Seq(AlertId)
          BY <1>0 DEF SlowRun
        <4>2. InIdOrder(run.pend) /\ InIdOrder(run.mem)
          BY <1>0, <3>5 DEF MergeInv, PendingInOrder, IsTable
        <4>3. \A i \in 1..Len(run.mem), j \in 1..Len(run.pend) : run.mem[i] < run.pend[j]
          BY <1>0 DEF MergeInv, PendingInOrder
        <4> QED
          BY <2>2, <4>1, <4>2, <4>3, ConcatInIdOrder
      <3>8. IsTable(slow'[w].mem, rows'[s])
        BY <2>3, <3>5, <3>6, <3>7 DEF IsTable
      <3>9. MirrorKept(s)'
        BY <3>1, <3>3, <3>8 DEF MirrorKept, Writing
      <3> QED
        BY <3>4, <3>9
    <2> QED
      BY <2>4, <2>5
  <1>5. CASE Persist(w)
    <2> DEFINE r == [run EXCEPT !.pc = "done"]
    <2>1. /\ UNCHANGED <<slowQ, rows, fast>>
          /\ slow' = [slow EXCEPT ![w] = r]
          /\ blob' = IF run.scan \in live THEN [blob EXCEPT ![run.scan] = run.mem] ELSE blob
          /\ run.pc = "persist"
      BY <1>5 DEF Persist, brokers
    <2>2. r.scan = run.scan /\ r.pc = "done"
      BY <1>0 DEF SlowRun
    <2>3. /\ slow'[w] = r
          /\ \A v \in SlowWorker : v # w => slow'[v] = slow[v]
      BY <1>0, <2>1 DEF TypeOK
    <2> HIDE DEF r
    <2>4. CASE run.scan # s
      <3>1. blob'[s] = blob[s]
        BY <1>0, <2>1, <2>4 DEF TypeOK
      <3> QED
        BY <1>0, <2>1, <2>2, <2>4, <3>1, OthersAtRest
    <2>5. CASE run.scan = s
      <3>1. Writing(w, s) /\ Enriching(w, s) /\ ~Writing(w, s)' /\ Enriching(w, s)'
        BY <2>1, <2>2, <2>3, <2>5 DEF Writing, Enriching
      <3>2. \A v \in SlowWorker : v # w => ~Enriching(v, s)
        BY <1>0, <3>1 DEF SoleWriter
      <3>3. \A v \in SlowWorker : v # w => ~Enriching(v, s)'
        BY <2>3, <3>2 DEF Enriching
      <3>4. SoleWriter(s)'
        BY <1>0, <2>1, <3>1, <3>3 DEF SoleWriter
      <3>5. IsTable(run.mem, rows[s])
        BY <1>0, <3>1 DEF MirrorKept
      <3>6. blob'[s] = run.mem
        BY <1>0, <2>1, <2>5 DEF TypeOK
      <3>7. IsTable(blob'[s], rows'[s])
        BY <2>1, <3>5, <3>6
      <3>8. MirrorKept(s)'
        BY <3>1, <3>3, <3>7 DEF MirrorKept, Writing
      <3> QED
        BY <3>4, <3>8
    <2> QED
      BY <2>4, <2>5
  <1>6. CASE FinishEnrich(w)
    <2>1. /\ UNCHANGED <<slowQ, blob, rows, fast>>
          /\ slow' = [slow EXCEPT ![w] = SlowIdle]
          /\ run.pc = "done" /\ SlowIdle.pc = "idle"
      BY <1>6 DEF FinishEnrich, brokers, tables, SlowIdle
    <2>2. /\ slow'[w].pc = "idle"
          /\ \A v \in SlowWorker : v # w => slow'[v] = slow[v]
      BY <1>0, <2>1 DEF TypeOK
    <2>3. CASE run.scan # s
      BY <1>0, <2>1, <2>3, OthersAtRest
    <2>4. CASE run.scan = s
      <3>1. ~Writing(w, s) /\ Enriching(w, s) /\ ~Writing(w, s)' /\ ~Enriching(w, s)'
        BY <2>1, <2>2, <2>4 DEF Writing, Enriching
      <3>2. \A v \in SlowWorker : v # w => ~Enriching(v, s)
        BY <1>0, <3>1 DEF SoleWriter
      <3>3. \A v \in SlowWorker : ~Enriching(v, s)'
        BY <2>2, <3>1, <3>2 DEF Enriching
      <3>4. SoleWriter(s)'
        BY <1>0, <2>1, <3>1, <3>3 DEF SoleWriter
      <3>5. \A v \in SlowWorker : ~Writing(v, s)
        BY <3>1, <3>2 DEF Writing
      <3>6. IsTable(blob'[s], rows'[s])
        BY <1>0, <2>1, <3>5 DEF MirrorKept
      <3>7. MirrorKept(s)'
        BY <3>3, <3>6 DEF MirrorKept, Writing
      <3> QED
        BY <3>4, <3>7
    <2> QED
      BY <2>3, <2>4
  <1> QED
    BY <1>1, <1>2, <1>3, <1>4, <1>5, <1>6 DEF SlowStep

\* Failures either keep blob and table together or disturb the scan.
LEMMA FailuresMirror ==
  ASSUME MirrorInv, NEW s \in live, outcome'[s] # "disturbed",
         UNCHANGED live, NEW w \in SlowWorker,
         \/ AppendRaises(w) \/ PersistRaises(w) \/ RedeliverEnrich(w)
         \/ SlowWorkerDies(w) \/ SlowChildKilled(w)
  PROVE  outcome[s] # "disturbed" => SoleWriter(s)' /\ MirrorKept(s)'
  <1> SUFFICES ASSUME outcome[s] # "disturbed"
               PROVE  SoleWriter(s)' /\ MirrorKept(s)'
    OBVIOUS
  <1> DEFINE run == slow[w]
  <1>0. /\ TypeOK /\ MergeInv /\ SoleWriter(s) /\ MirrorKept(s)
        /\ s \in ScanId /\ run \in SlowRun
    BY DEF MirrorInv, MergeInv, TypeOK
  <1>1. CASE AppendRaises(w)
    <2> DEFINE r == [run EXCEPT !.pend = NoAlerts, !.pc = AfterAppend(run.pc)]
    <2>1. /\ UNCHANGED <<slowQ, blob, rows, fast>>
          /\ slow' = [slow EXCEPT ![w] = r]
          /\ Appending(w)
      BY <1>1 DEF AppendRaises, brokers, tables
    <2>2. /\ r.scan = run.scan /\ r.mem = run.mem
          /\ r.pc \notin {"idle", "done"} /\ run.pc \notin {"idle", "done"}
      BY <1>0, <2>1 DEF SlowRun, AfterAppend, Appending
    <2> HIDE DEF r
    <2> QED
      BY <1>0, <2>1, <2>2, RunAtRest
  <1>2. ASSUME outcome' = [outcome EXCEPT ![run.scan] = "disturbed"]
        PROVE  run.scan # s
    BY <1>0, <1>2 DEF TypeOK
  <1>3. CASE PersistRaises(w)
    <2> DEFINE r == [run EXCEPT !.pc = "done"]
    <2>1. /\ UNCHANGED <<slowQ, blob, rows, fast>>
          /\ slow' = [slow EXCEPT ![w] = r]
          /\ run.scan # s
      BY <1>2, <1>3 DEF PersistRaises, brokers, tables
    <2>2. r.scan = run.scan
      BY <1>0 DEF SlowRun
    <2> HIDE DEF r
    <2> QED
      BY <1>0, <2>1, <2>2, OthersAtRest
  <1>4. CASE RedeliverEnrich(w)
    <2> DEFINE r == [run EXCEPT !.again = TRUE]
    <2>1. /\ UNCHANGED <<blob, rows, fast>>
          /\ slow' = [slow EXCEPT ![w] = r]
          /\ slowQ' = [slowQ EXCEPT ![run.scan] = @ + 1]
          /\ run.scan # s
      BY <1>2, <1>4 DEF RedeliverEnrich, tables
    <2>2. r.scan = run.scan /\ slowQ'[s] = slowQ[s]
      BY <1>0, <2>1 DEF SlowRun, TypeOK
    <2> HIDE DEF r
    <2> QED
      BY <1>0, <2>1, <2>2, OthersAtRest
  <1>5. CASE SlowWorkerDies(w) \/ SlowChildKilled(w)
    <2>1. /\ UNCHANGED <<blob, rows, fast>>
          /\ slow' = [slow EXCEPT ![w] = SlowIdle]
          /\ run.scan # s
          /\ slowQ' = slowQ \/ slowQ' = [slowQ EXCEPT ![run.scan] = @ + 1]
      BY <1>2, <1>5 DEF SlowWorkerDies, SlowChildKilled, brokers, tables
    <2>2. SlowIdle.pc = "idle" /\ slowQ'[s] = slowQ[s]
      BY <1>0, <2>1 DEF SlowIdle, TypeOK
    <2> QED
      BY <1>0, <2>1, <2>2, OthersAtRest
  <1> QED
    BY <1>1, <1>3, <1>4, <1>5

\* A scan enters the table with its blob, unknown to queues and workers.
LEMMA NewScanMirrors ==
  ASSUME MirrorInv, NEW f \in FastWorker, NEW n \in 0..MaxFound,
         SaveScan(f, n), NEW s \in ScanId, s = nextScan
  PROVE  SoleWriter(s)' /\ MirrorKept(s)'
  <1>0. /\ TypeOK /\ MergeInv /\ s \notin Saved
        /\ n \in Nat /\ nextAlert \in Nat
    <2>1. TypeOK /\ MergeInv
      BY DEF MirrorInv, MergeInv
    <2>2. nextAlert \in Nat /\ nextScan \in Nat /\ n \in Nat
      BY <2>1, BoundsAssumption DEF TypeOK
    <2>3. s \notin Saved
      BY <2>2 DEF Saved
    <2> QED
      BY <2>1, <2>2, <2>3
  <1>1. slowQ[s] = 0 /\ \A w \in SlowWorker : ~Enriching(w, s)
    <2>1. ~(slowQ[s] > 0) /\ slowQ[s] \in Nat
      BY <1>0, KnownScans DEF TypeOK
    <2> QED
      BY <1>0, <2>1, KnownScans DEF Enriching
  <1>2. UNCHANGED <<slowQ, slow>>
    BY DEF SaveScan, brokers
  <1>3. \A w \in SlowWorker : ~Enriching(w, s)'
    BY <1>1, <1>2 DEF Enriching
  <1>4. SoleWriter(s)'
    BY <1>1, <1>2, <1>3 DEF SoleWriter
  <1>5. blob'[s] = Drawn(n) /\ rows'[s] = nextAlert..(nextAlert + n - 1)
    BY <1>0 DEF SaveScan, TypeOK
  <1>6. Len(Drawn(n)) = n /\ \A i \in 1..n : Drawn(n)[i] = nextAlert + i - 1
    BY <1>0 DEF Drawn
  <1>7. InIdOrder(Drawn(n))
    BY <1>0, <1>6 DEF InIdOrder
  <1>8. Listed(Drawn(n)) = nextAlert..(nextAlert + n - 1)
    <2>1. Listed(Drawn(n)) = {nextAlert + i - 1 : i \in 1..n}
      BY <1>6 DEF Listed
    <2>2. ASSUME NEW a \in nextAlert..(nextAlert + n - 1)
          PROVE  a \in {nextAlert + i - 1 : i \in 1..n}
      <3>1. a - nextAlert + 1 \in 1..n /\ a = nextAlert + (a - nextAlert + 1) - 1
        BY <1>0
      <3> QED
        BY <3>1
    <2>3. {nextAlert + i - 1 : i \in 1..n} \subseteq nextAlert..(nextAlert + n - 1)
      BY <1>0
    <2> QED
      BY <2>1, <2>2, <2>3
  <1>9. MirrorKept(s)'
    BY <1>3, <1>5, <1>7, <1>8 DEF MirrorKept, Writing, IsTable
  <1> QED
    BY <1>4, <1>9

\* Every step keeps blob and table of undisturbed scans together.
LEMMA NextMirrorInv == MirrorInv /\ [Next]_vars => MirrorInv'
  <1> SUFFICES ASSUME MirrorInv, [Next]_vars PROVE MirrorInv'
    OBVIOUS
  <1>0. MergeInv /\ TypeOK
    BY DEF MirrorInv, MergeInv
  <1>1. MergeInv'
    BY NextMergeInv DEF MirrorInv
  <1>2. FastScansDistinct'
    BY DistinctScans
  <1>3. ASSUME NEW s \in live', outcome'[s] # "disturbed"
        PROVE  SoleWriter(s)' /\ MirrorKept(s)'
    <2>0. s \in ScanId
      BY <1>1 DEF MergeInv, TypeOK
    <2>1. ASSUME NEW f \in FastWorker, NEW n \in 0..MaxFound, SaveScan(f, n)
          PROVE  SoleWriter(s)' /\ MirrorKept(s)'
      <3>1. CASE s = nextScan
        BY <2>0, <2>1, <3>1, NewScanMirrors
      <3>2. CASE s # nextScan
        <4>1. s \in live /\ outcome[s] # "disturbed" /\ UNCHANGED slow
          BY <1>3, <2>1, <3>2 DEF SaveScan
        <4> QED
          BY <2>1, <4>1, FrontMirrors
      <3> QED
        BY <3>1, <3>2
    <2>2. ASSUME NEW f \in FastWorker,
                 \/ FinishAnalyze(f) \/ AnalyzeRaises(f) \/ RedeliverAnalyze(f)
                 \/ FastWorkerDies(f) \/ DispatchEnrich(f)
                 \/ (\E c \in Capture : StartAnalyze(f, c))
          PROVE  SoleWriter(s)' /\ MirrorKept(s)'
      <3>1. UNCHANGED <<slow, live, outcome>>
        BY <2>2 DEF FinishAnalyze, AnalyzeRaises, RedeliverAnalyze, FastWorkerDies,
                    DispatchEnrich, StartAnalyze, tables
      <3>2. s \in live /\ outcome[s] # "disturbed"
        BY <1>3, <3>1
      <3> QED
        BY <2>2, <3>1, <3>2, FrontMirrors
    <2>3. ASSUME NEW d \in ScanId, DeleteScan(d)
          PROVE  SoleWriter(s)' /\ MirrorKept(s)'
      <3>1. s \in live /\ d # s /\ outcome[s] # "disturbed" /\ UNCHANGED slow
        BY <1>3, <2>3 DEF DeleteScan
      <3> QED
        BY <2>3, <3>1, FrontMirrors
    <2>4. ASSUME \/ (\E c \in Capture : Upload(c)) \/ MergeTriage \/ UNCHANGED vars
                 \/ (\E d \in ScanId : ReadBlob(d))
          PROVE  SoleWriter(s)' /\ MirrorKept(s)'
      <3>1. UNCHANGED <<slow, live, outcome>>
        BY <2>4 DEF Upload, MergeTriage, ReadBlob, vars, tables
      <3>2. s \in live /\ outcome[s] # "disturbed"
        BY <1>3, <3>1
      <3> QED
        BY <2>4, <3>1, <3>2, FrontMirrors
    <2>5. ASSUME NEW w \in SlowWorker,
                 SlowStep(w) \/ (\E d \in ScanId : StartEnrich(w, d))
          PROVE  SoleWriter(s)' /\ MirrorKept(s)'
      <3>1. UNCHANGED live
        BY <2>5 DEF SlowStep, InsertAlert, CommitAlerts, NothingAppended, Persist,
                    FinishEnrich, StartEnrich, tables
      <3>2. outcome[s] # "disturbed"
        <4>1. outcome' = outcome
              \/ outcome' = [outcome EXCEPT ![slow[w].scan] =
                                IF @ = "disturbed" THEN @ ELSE "enriched"]
          BY <2>5 DEF SlowStep, InsertAlert, CommitAlerts, NothingAppended, Persist,
                      FinishEnrich, StartEnrich
        <4> QED
          BY <1>0, <1>3, <2>0, <4>1 DEF TypeOK
      <3>3. s \in live
        BY <3>1
      <3> QED
        BY <1>1, <2>5, <3>1, <3>2, <3>3, EnrichmentMirrors
    <2>6. ASSUME NEW w \in SlowWorker,
                 \/ AppendRaises(w) \/ PersistRaises(w) \/ RedeliverEnrich(w)
                 \/ SlowWorkerDies(w) \/ SlowChildKilled(w)
          PROVE  SoleWriter(s)' /\ MirrorKept(s)'
      <3>1. UNCHANGED live
        BY <2>6 DEF AppendRaises, PersistRaises, RedeliverEnrich, SlowWorkerDies,
                    SlowChildKilled, tables
      <3>2. outcome[s] # "disturbed"
        <4>1. outcome' = outcome
              \/ outcome' = [outcome EXCEPT ![slow[w].scan] = "disturbed"]
          BY <2>6 DEF AppendRaises, PersistRaises, RedeliverEnrich, SlowWorkerDies,
                      SlowChildKilled
        <4> QED
          BY <1>0, <1>3, <2>0, <4>1 DEF TypeOK
      <3>3. s \in live
        BY <3>1
      <3> QED
        BY <1>3, <2>6, <3>1, <3>2, <3>3, FailuresMirror
    <2> QED
      BY <2>1, <2>2, <2>3, <2>4, <2>5, <2>6 DEF Next, FastStep, Failure
  <1> QED
    BY <1>1, <1>2, <1>3 DEF MirrorInv

\* The mirror invariant of the pipeline.
THEOREM MirrorInvariant == Spec => []MirrorInv
  <1>1. Init => MirrorInv
    BY InitMergeInv DEF Init, MirrorInv, FastScansDistinct, FastIdle
  <1> QED
    BY <1>1, NextMirrorInv, PTL DEF Spec

\* Once nothing is left that would write to a scan, its blob lists its alert
\* rows one for one, unless its enrichment was disturbed.
THEOREM BlobIsTheTable == Spec => []BlobMirrorsTable
  <1>1. MirrorInv => BlobMirrorsTable
    BY DEF MirrorInv, BlobMirrorsTable, Settled, MirrorKept, Writing, Enriching
  <1> QED
    BY <1>1, MirrorInvariant, PTL

-----------------------------------------------------------------------------
(***************************************************************************)
(* Scans, runs and messages go back to uploads and failures.               *)
(***************************************************************************)

\* The terms of the balance are natural numbers.
LEMMA BalanceTerms ==
  ASSUME TypeOK, NEW c \in Capture
  PROVE  /\ IsFiniteSet(ScansOf(c)) /\ Cardinality(ScansOf(c)) \in Nat
         /\ fastQ[c] \in Nat /\ faults \in Nat /\ Uploaded(c) \in {0, 1}
  <1>1. IsFiniteSet(Saved)
    BY FS_Interval DEF TypeOK, Saved
  <1>2. IsFiniteSet(ScansOf(c))
    BY <1>1, FS_Subset DEF ScansOf
  <1>3. fastQ[c] \in Nat /\ faults \in Nat
    BY BoundsAssumption DEF TypeOK
  <1> QED
    BY <1>2, <1>3, FS_CardinalityType DEF Uploaded

\* No new scan and no new run: messages are paid for by an upload or a failure.
LEMMA MessagesPaid ==
  ASSUME TypeOK, TypeOK', NEW c \in Capture, Balanced(c),
         Parsing(c)' \subseteq Parsing(c), ScansOf(c)' = ScansOf(c),
         fastQ'[c] + Uploaded(c) + faults <= fastQ[c] + Uploaded(c)' + faults'
  PROVE  Balanced(c)'
  <1>1. /\ IsFiniteSet(Parsing(c)')
        /\ Cardinality(Parsing(c)') <= Cardinality(Parsing(c))
        /\ Cardinality(Parsing(c)') \in Nat /\ Cardinality(Parsing(c)) \in Nat
    BY FS_Subset, FS_CardinalityType DEF Balanced
  <1>2. /\ Cardinality(ScansOf(c)) \in Nat
        /\ fastQ[c] \in Nat /\ faults \in Nat /\ Uploaded(c) \in Nat
    BY BalanceTerms
  <1>3. fastQ'[c] \in Nat /\ faults' \in Nat /\ Uploaded(c)' \in Nat
    BY BoundsAssumption DEF TypeOK, Uploaded
  <1>4. Cardinality(ScansOf(c)') = Cardinality(ScansOf(c))
    OBVIOUS
  <1>5. Cardinality(ScansOf(c)') + Cardinality(Parsing(c)') + fastQ'[c]
            <= Uploaded(c)' + faults'
    BY <1>1, <1>2, <1>3, <1>4 DEF Balanced
  <1> QED
    BY <1>1, <1>5 DEF Balanced

\* An accepted upload stays one.
LEMMA StaysUploaded ==
  ASSUME TypeOK, NEW c \in Capture, NEW d \in Capture, NEW st, NEW s,
         Store(d, st, s), st # "NONE"
  PROVE  Uploaded(c) <= Uploaded(c)'
  BY DEF Store, Uploaded, TypeOK

\* A worker that turns to something else than parsing, or parses for another
\* capture, only shrinks the set of runs.
LEMMA RunsShrink ==
  ASSUME TypeOK, NEW c \in Capture, NEW w \in FastWorker, NEW r,
         fast' = [fast EXCEPT ![w] = r],
         r.pc = "parsing" /\ r.cap = c => fast[w].pc = "parsing" /\ fast[w].cap = c
  PROVE  Parsing(c)' \subseteq Parsing(c)
  BY DEF TypeOK, Parsing

\* Every step keeps the balance.
LEMMA BalanceStep ==
  ASSUME TypeOK, TypeOK', NEW c \in Capture, Balanced(c), [Next]_vars
  PROVE  Balanced(c)'
  <1>0. /\ IsFiniteSet(ScansOf(c)) /\ Cardinality(ScansOf(c)) \in Nat
        /\ fastQ[c] \in Nat /\ faults \in Nat /\ Uploaded(c) \in {0, 1}
        /\ Uploaded(c)' \in {0, 1}
        /\ IsFiniteSet(Parsing(c)) /\ Cardinality(Parsing(c)) \in Nat
    BY BalanceTerms, FS_CardinalityType DEF Balanced, Uploaded
  <1>1. ASSUME NEW d \in Capture, Upload(d) PROVE Balanced(c)'
    <2>1. ScansOf(c)' = ScansOf(c) /\ Parsing(c)' = Parsing(c) /\ faults' = faults
      BY <1>1 DEF Upload, tables, ScansOf, Saved, Parsing
    <2>2. fastQ'[c] + Uploaded(c) <= fastQ[c] + Uploaded(c)'
      <3>1. CASE c = d
        BY <1>0, <1>1, <3>1 DEF Upload, Uploaded, TypeOK, Result
      <3>2. CASE c # d
        BY <1>0, <1>1, <3>2 DEF Upload, Uploaded, TypeOK, Result
      <3> QED
        BY <3>1, <3>2
    <2>3. fastQ'[c] \in Nat
      BY DEF TypeOK
    <2> QED
      BY <1>0, <2>1, <2>2, <2>3, MessagesPaid
  <1>2. ASSUME NEW w \in FastWorker, NEW d \in Capture, StartAnalyze(w, d)
        PROVE  Balanced(c)'
    <2>1. /\ ScansOf(c)' = ScansOf(c) /\ faults' = faults
          /\ fast[w].pc = "idle" /\ fastQ[d] > 0
          /\ fastQ' = [fastQ EXCEPT ![d] = @ - 1]
          /\ fast' = [fast EXCEPT ![w] = [pc |-> "parsing", cap |-> d,
                                          scan |-> NoScan, again |-> FALSE]]
      BY <1>2 DEF StartAnalyze, tables, ScansOf, Saved
    <2>2. Uploaded(c) <= Uploaded(c)'
      BY <1>2, StaysUploaded DEF StartAnalyze
    <2>3. CASE c # d
      <3>1. Parsing(c)' = Parsing(c)
        BY <2>1, <2>3 DEF Parsing, TypeOK
      <3>2. fastQ'[c] = fastQ[c]
        BY <2>1, <2>3 DEF TypeOK
      <3> QED
        BY <1>0, <2>1, <2>2, <3>1, <3>2, MessagesPaid
    <2>4. CASE c = d
      <3>1. Parsing(c)' = Parsing(c) \cup {w} /\ w \notin Parsing(c)
        BY <2>1, <2>4 DEF Parsing, TypeOK
      <3>2. fastQ'[c] = fastQ[c] - 1
        BY <2>1, <2>4 DEF TypeOK
      <3>3. /\ IsFiniteSet(Parsing(c)')
            /\ Cardinality(Parsing(c)') = Cardinality(Parsing(c)) + 1
        BY <1>0, <3>1, FS_AddElement
      <3>4. Cardinality(ScansOf(c)') = Cardinality(ScansOf(c))
        BY <2>1
      <3>5. Cardinality(ScansOf(c)') + Cardinality(Parsing(c)') + fastQ'[c]
                <= Uploaded(c)' + faults'
        BY <1>0, <2>1, <2>2, <3>2, <3>3, <3>4 DEF Balanced
      <3> QED
        BY <3>3, <3>5 DEF Balanced
    <2> QED
      BY <2>3, <2>4
  <1>3. ASSUME NEW w \in FastWorker, NEW n \in 0..MaxFound, SaveScan(w, n)
        PROVE  Balanced(c)'
    <2>1. /\ fast[w].pc = "parsing" /\ nextScan \in ScanId
          /\ nextScan' = nextScan + 1 /\ nextScan \in Nat \ {0}
          /\ origin' = [origin EXCEPT ![nextScan] = fast[w].cap]
          /\ UNCHANGED <<fastQ, result, faults>>
          /\ fast' = [fast EXCEPT ![w] = [@ EXCEPT !.pc = "saved", !.scan = nextScan]]
      BY <1>3 DEF SaveScan, brokers, TypeOK
    <2>2. Uploaded(c)' = Uploaded(c) /\ fastQ'[c] = fastQ[c] /\ faults' = faults
      BY <2>1 DEF Uploaded
    <2>3. /\ fast'[w].pc = "saved"
          /\ \A v \in FastWorker : v # w => fast'[v] = fast[v]
      BY <2>1 DEF TypeOK, FastRun
    <2>4. Saved' = Saved \cup {nextScan} /\ nextScan \notin Saved
      BY <2>1 DEF Saved
    <2>5. /\ origin'[nextScan] = fast[w].cap
          /\ \A s \in Saved : origin'[s] = origin[s]
      BY <2>1, <2>4 DEF TypeOK, Saved, ScanId
    <2>6. CASE fast[w].cap # c
      <3>1. Parsing(c)' = Parsing(c)
        BY <2>3, <2>6 DEF Parsing
      <3>2. ScansOf(c)' = ScansOf(c)
        BY <2>4, <2>5, <2>6 DEF ScansOf
      <3> QED
        BY <1>0, <2>2, <3>1, <3>2, MessagesPaid
    <2>7. CASE fast[w].cap = c
      <3>1. Parsing(c)' = Parsing(c) \ {w} /\ w \in Parsing(c)
        BY <2>1, <2>3, <2>7 DEF Parsing
      <3>2. ScansOf(c)' = ScansOf(c) \cup {nextScan} /\ nextScan \notin ScansOf(c)
        BY <2>4, <2>5, <2>7 DEF ScansOf
      <3>3. /\ IsFiniteSet(Parsing(c)')
            /\ Cardinality(Parsing(c)') = Cardinality(Parsing(c)) - 1
        BY <1>0, <3>1, FS_RemoveElement
      <3>4. Cardinality(ScansOf(c)') = Cardinality(ScansOf(c)) + 1
        BY <1>0, <3>2, FS_AddElement
      <3>5. Cardinality(ScansOf(c)') + Cardinality(Parsing(c)') + fastQ'[c]
                <= Uploaded(c)' + faults'
        BY <1>0, <2>2, <3>3, <3>4 DEF Balanced
      <3> QED
        BY <3>3, <3>5 DEF Balanced
    <2> QED
      BY <2>6, <2>7
  <1>4. ASSUME NEW w \in FastWorker, DispatchEnrich(w) \/ FinishAnalyze(w)
        PROVE  Balanced(c)'
    <2>1. UNCHANGED <<fastQ, faults>> /\ ScansOf(c)' = ScansOf(c)
      BY <1>4 DEF DispatchEnrich, FinishAnalyze, brokers, tables, ScansOf, Saved
    <2>2. fast[w] \in FastRun /\ fast[w].cap \in Capture
      BY DEF TypeOK, FastRun
    <2>3. Uploaded(c) <= Uploaded(c)'
      BY <1>4, <2>2, StaysUploaded DEF DispatchEnrich, FinishAnalyze
    <2>4. Parsing(c)' \subseteq Parsing(c)
      <3>1. CASE DispatchEnrich(w)
        <4>1. [fast[w] EXCEPT !.pc = "dispatched"].pc = "dispatched"
          BY <2>2 DEF FastRun
        <4> QED
          BY <3>1, <4>1, RunsShrink DEF DispatchEnrich
      <3>2. CASE FinishAnalyze(w)
        <4>1. FastIdle.pc = "idle"
          BY DEF FastIdle
        <4> QED
          BY <3>2, <4>1, RunsShrink DEF FinishAnalyze
      <3> QED
        BY <1>4, <3>1, <3>2
    <2> QED
      BY <1>0, <2>1, <2>3, <2>4, MessagesPaid
  <1>5. ASSUME NEW w \in FastWorker,
               AnalyzeRaises(w) \/ RedeliverAnalyze(w) \/ FastWorkerDies(w)
        PROVE  Balanced(c)'
    <2>1. faults' = faults + 1 /\ ScansOf(c)' = ScansOf(c)
      BY <1>5 DEF AnalyzeRaises, RedeliverAnalyze, FastWorkerDies, Fault, tables,
                  ScansOf, Saved
    <2>2. fast[w] \in FastRun /\ fast[w].cap \in Capture
      BY DEF TypeOK, FastRun
    <2>3. Uploaded(c) <= Uploaded(c)'
      <3>1. CASE AnalyzeRaises(w)
        BY <2>2, <3>1, StaysUploaded DEF AnalyzeRaises
      <3>2. CASE RedeliverAnalyze(w) \/ FastWorkerDies(w)
        BY <1>0, <3>2 DEF RedeliverAnalyze, FastWorkerDies, Uploaded
      <3> QED
        BY <1>5, <3>1, <3>2
    <2>4. fastQ'[c] <= fastQ[c] + 1
      <3>1. \/ fastQ' = fastQ
            \/ fastQ' = [fastQ EXCEPT ![fast[w].cap] = @ + 1]
        BY <1>5 DEF AnalyzeRaises, RedeliverAnalyze, FastWorkerDies, brokers
      <3>2. fastQ \in [Capture -> Nat]
        BY DEF TypeOK
      <3>3. fastQ'[c] = fastQ[c] \/ fastQ'[c] = fastQ[c] + 1
        BY <3>1, <3>2
      <3> QED
        BY <1>0, <3>3
    <2>5. Parsing(c)' \subseteq Parsing(c)
      <3>1. CASE AnalyzeRaises(w) \/ FastWorkerDies(w)
        <4>1. FastIdle.pc = "idle"
          BY DEF FastIdle
        <4> QED
          BY <3>1, <4>1, RunsShrink DEF AnalyzeRaises, FastWorkerDies
      <3>2. CASE RedeliverAnalyze(w)
        <4>1. /\ [fast[w] EXCEPT !.again = TRUE].pc = fast[w].pc
              /\ [fast[w] EXCEPT !.again = TRUE].cap = fast[w].cap
          BY <2>2 DEF FastRun
        <4> QED
          BY <3>2, <4>1, RunsShrink DEF RedeliverAnalyze
      <3> QED
        BY <1>5, <3>1, <3>2
    <2>6. fastQ'[c] \in Nat
      BY DEF TypeOK
    <2> QED
      BY <1>0, <2>1, <2>3, <2>4, <2>5, <2>6, MessagesPaid
  <1>6. ASSUME UNCHANGED <<fastQ, fast, result, origin, nextScan>>,
               faults' = faults \/ faults' = faults + 1
        PROVE  Balanced(c)'
    <2>1. /\ ScansOf(c)' = ScansOf(c) /\ Parsing(c)' = Parsing(c)
          /\ Uploaded(c)' = Uploaded(c)
      BY <1>6 DEF ScansOf, Saved, Parsing, Uploaded
    <2> QED
      BY <1>0, <1>6, <2>1, MessagesPaid
  <1>7. ASSUME NEW s \in ScanId,
               DeleteScan(s) \/ ReadBlob(s) \/ \E w \in SlowWorker : StartEnrich(w, s)
        PROVE  Balanced(c)'
    BY <1>6, <1>7 DEF DeleteScan, ReadBlob, StartEnrich, brokers, tables
  <1>8. ASSUME NEW w \in SlowWorker, SlowStep(w) PROVE Balanced(c)'
    BY <1>6, <1>8 DEF SlowStep, InsertAlert, CommitAlerts, NothingAppended, Persist,
                      FinishEnrich, brokers, tables
  <1>9. ASSUME NEW w \in SlowWorker,
               \/ AppendRaises(w) \/ PersistRaises(w) \/ RedeliverEnrich(w)
               \/ SlowWorkerDies(w) \/ SlowChildKilled(w)
        PROVE  Balanced(c)'
    BY <1>6, <1>9 DEF AppendRaises, PersistRaises, RedeliverEnrich, SlowWorkerDies,
                      SlowChildKilled, Fault, brokers, tables
  <1>10. MergeTriage \/ UNCHANGED vars => Balanced(c)'
    BY <1>6 DEF MergeTriage, vars, brokers, tables
  <1> QED
    BY <1>1, <1>2, <1>3, <1>4, <1>5, <1>7, <1>8, <1>9, <1>10
    DEF Next, FastStep, Failure

\* Scans, runs and messages of a capture are at most one more than failures.
THEOREM DeliveriesInvariant == Spec => []DeliveriesCounted
  <1>1. Init => DeliveriesCounted
    <2> SUFFICES ASSUME Init, NEW c \in Capture PROVE Balanced(c)
      BY DEF DeliveriesCounted
    <2>1. ScansOf(c) = {} /\ Parsing(c) = {} /\ fastQ[c] = 0 /\ faults = 0
      BY DEF Init, ScansOf, Saved, Parsing, FastIdle
    <2>2. Uploaded(c) = 0
      BY DEF Init, Uploaded
    <2> QED
      BY <2>1, <2>2, FS_EmptySet DEF Balanced
  <1>2. TypeOK /\ DeliveriesCounted /\ [Next]_vars => DeliveriesCounted'
    <2> SUFFICES ASSUME TypeOK, DeliveriesCounted, [Next]_vars, NEW c \in Capture
                 PROVE  Balanced(c)'
      BY DEF DeliveriesCounted
    <2>1. TypeOK'
      BY NextType
    <2>2. Balanced(c)
      BY DEF DeliveriesCounted
    <2> QED
      BY <2>1, <2>2, BalanceStep
  <1> QED
    BY <1>1, <1>2, TypeCorrect, PTL DEF Spec

\* A second scan of a capture needs a failure.
THEOREM ScansPerDelivery == Spec => []OneScanPerDelivery
  <1>1. TypeOK /\ DeliveriesCounted => OneScanPerDelivery
    <2> SUFFICES ASSUME TypeOK, DeliveriesCounted, NEW c \in Capture
                 PROVE  Cardinality({s \in 1..(nextScan - 1) : origin[s] = c}) <= 1 + faults
      BY DEF OneScanPerDelivery
    <2>1. /\ Cardinality(ScansOf(c)) \in Nat /\ fastQ[c] \in Nat /\ faults \in Nat
          /\ Uploaded(c) \in {0, 1}
      BY BalanceTerms
    <2>2. Cardinality(Parsing(c)) \in Nat
      BY FS_CardinalityType DEF DeliveriesCounted, Balanced
    <2>3. Cardinality(ScansOf(c)) <= 1 + faults
      BY <2>1, <2>2 DEF DeliveriesCounted, Balanced
    <2> QED
      BY <2>3 DEF ScansOf, Saved
  <1> QED
    BY <1>1, TypeCorrect, DeliveriesInvariant, PTL

-----------------------------------------------------------------------------
(***************************************************************************)
(* The pipeline implements the lifecycle of an upload (UploadLifecycle),   *)
(* for every number of captures, workers, scans, alerts and failures.      *)
(***************************************************************************)

(***************************************************************************)
(* LifeInv is inductive.                                                   *)
(***************************************************************************)

\* At the start nothing is queued, nobody runs, nothing is reported.
LEMMA InitLife == Init => LifeInv
  BY InitType DEF Init, LifeInv, RunsAccepted, RunsOwnScans, SuccessNamesScan,
                  HasSaved, FastIdle

\* Storing a task state: an accepted task stays accepted, and only a success
\* names a scan.
LEMMA StoreKeeps ==
  ASSUME LifeInv, NEW c \in Capture, NEW s \in ScanId \cup {NoScan},
         NEW st \in {"PROGRESS", "SUCCESS", "FAILURE"}, Store(c, st, s),
         st # "SUCCESS" => s = NoScan
  PROVE  /\ \A d \in Capture : result[d].state # "NONE" => result'[d].state # "NONE"
         /\ result'[c].state # "NONE"
         /\ SuccessNamesScan'
  BY DEF LifeInv, TypeOK, Store, Result, SuccessNamesScan

\* A step that saves nothing and starts no run: what it leaves of the runs was
\* there before, and a new message is for an accepted task.
LEMMA QuietStep ==
  ASSUME LifeInv, TypeOK', SuccessNamesScan',
         origin' = origin, nextScan' = nextScan,
         \A c \in Capture : result[c].state # "NONE" => result'[c].state # "NONE",
         \A c \in Capture : fastQ'[c] > 0 => fastQ[c] > 0 \/ result'[c].state # "NONE",
         \A w \in FastWorker :
            \/ fast'[w].pc = "idle"
            \/ /\ fast[w].pc # "idle"
               /\ fast'[w].cap = fast[w].cap
               /\ fast'[w].scan = fast[w].scan
               /\ HasSaved(fast'[w]) => HasSaved(fast[w])
  PROVE  LifeInv'
  <1>1. RunsAccepted'
    BY DEF LifeInv, RunsAccepted, TypeOK, FastRun
  <1>2. RunsOwnScans'
    BY DEF LifeInv, RunsOwnScans, HasSaved, Saved
  <1> QED
    BY <1>1, <1>2 DEF LifeInv

\* The steps of the slow queue and of the web process that leave the analysis
\* alone.
LEMMA SameAnalyses ==
  ASSUME LifeInv, TypeOK', origin' = origin, nextScan' = nextScan,
         result' = result, fast' = fast, fastQ' = fastQ
  PROVE  LifeInv'
  <1>1. SuccessNamesScan'
    BY DEF LifeInv, SuccessNamesScan
  <1> QED
    BY <1>1, QuietStep

\* Every step keeps the invariant.
LEMMA NextLife == LifeInv /\ [Next]_vars => LifeInv'
  <1> SUFFICES ASSUME LifeInv, [Next]_vars PROVE LifeInv'
    OBVIOUS
  <1>t. TypeOK /\ TypeOK'
    BY NextType DEF LifeInv
  <1>1. ASSUME NEW c \in Capture, Upload(c) PROVE LifeInv'
    <2>1. /\ \A d \in Capture : result[d].state # "NONE" => result'[d].state # "NONE"
          /\ result'[c].state # "NONE"
          /\ SuccessNamesScan'
      BY <1>t, <1>1 DEF Upload, TypeOK, Result, LifeInv, SuccessNamesScan
    <2>2. \A d \in Capture : fastQ'[d] > 0 => fastQ[d] > 0 \/ result'[d].state # "NONE"
      BY <2>1, <1>t, <1>1 DEF Upload, TypeOK
    <2> QED
      BY <2>1, <2>2, <1>t, <1>1, QuietStep DEF Upload, tables
  <1>2. ASSUME NEW c \in Capture, NEW w \in FastWorker, StartAnalyze(w, c)
        PROVE  LifeInv'
    <2>1. /\ \A d \in Capture : result[d].state # "NONE" => result'[d].state # "NONE"
          /\ result'[c].state # "NONE"
          /\ SuccessNamesScan'
      BY <1>2, StoreKeeps DEF StartAnalyze
    <2>2. \A d \in Capture : fastQ'[d] > 0 => fastQ[d] > 0
      BY <1>t, <1>2 DEF StartAnalyze, TypeOK
    <2>3. /\ fast'[w].pc = "parsing" /\ fast'[w].cap = c
          /\ \A v \in FastWorker : v # w => fast'[v] = fast[v]
      BY <1>t, <1>2 DEF StartAnalyze, TypeOK
    <2>4. RunsAccepted'
      BY <2>1, <2>2, <2>3, <1>t DEF LifeInv, RunsAccepted, TypeOK, FastRun
    <2>5. RunsOwnScans'
      BY <2>3, <1>2 DEF StartAnalyze, tables, LifeInv, RunsOwnScans, HasSaved, Saved
    <2> QED
      BY <2>1, <2>4, <2>5, <1>t DEF LifeInv
  <1>3. ASSUME NEW w \in FastWorker, NEW n \in 0..MaxFound, SaveScan(w, n)
        PROVE  LifeInv'
    <2>1. /\ fast'[w].pc = "saved" /\ fast'[w].cap = fast[w].cap
          /\ fast'[w].scan = nextScan
          /\ \A v \in FastWorker : v # w => fast'[v] = fast[v]
      BY <1>t, <1>3 DEF SaveScan, TypeOK, FastRun
    <2>2. /\ nextScan \in ScanId /\ nextScan' = nextScan + 1
          /\ origin'[nextScan] = fast[w].cap
          /\ \A s \in Saved : origin'[s] = origin[s]
      BY <1>t, <1>3 DEF SaveScan, TypeOK, Saved, ScanId
    <2>3. RunsAccepted' /\ SuccessNamesScan'
      BY <2>1, <1>3 DEF SaveScan, brokers, LifeInv, RunsAccepted, SuccessNamesScan
    <2>4. RunsOwnScans'
      <3>1. \A s \in Saved : s \in Saved'
        BY <2>2, <1>t, BoundsAssumption DEF Saved, TypeOK, ScanId
      <3>2. nextScan \in Saved'
        BY <2>2, BoundsAssumption DEF Saved, ScanId
      <3> QED
        BY <3>1, <3>2, <2>1, <2>2 DEF LifeInv, RunsOwnScans, HasSaved
    <2> QED
      BY <2>3, <2>4, <1>t DEF LifeInv
  <1>4. ASSUME NEW w \in FastWorker, DispatchEnrich(w) PROVE LifeInv'
    <2>1. fast[w].cap \in Capture
      BY <1>t DEF TypeOK, FastRun
    <2>2. /\ \A d \in Capture : result[d].state # "NONE" => result'[d].state # "NONE"
          /\ SuccessNamesScan'
      BY <1>4, <2>1, StoreKeeps DEF DispatchEnrich
    <2>3. /\ fast'[w].pc = "dispatched" /\ fast'[w].cap = fast[w].cap
          /\ fast'[w].scan = fast[w].scan
          /\ \A v \in FastWorker : v # w => fast'[v] = fast[v]
      BY <1>t, <1>4 DEF DispatchEnrich, TypeOK, FastRun
    <2> QED
      BY <2>2, <2>3, <1>t, <1>4, QuietStep DEF DispatchEnrich, tables, HasSaved
  <1>5. ASSUME NEW w \in FastWorker, FinishAnalyze(w) \/ AnalyzeRaises(w)
        PROVE  LifeInv'
    <2>1. fast[w].cap \in Capture /\ fast[w].scan \in ScanId \cup {NoScan}
      BY <1>t DEF TypeOK, FastRun
    <2>2. /\ \A d \in Capture : result[d].state # "NONE" => result'[d].state # "NONE"
          /\ SuccessNamesScan'
      BY <1>5, <2>1, StoreKeeps DEF FinishAnalyze, AnalyzeRaises
    <2>3. /\ fast'[w].pc = "idle"
          /\ \A v \in FastWorker : v # w => fast'[v] = fast[v]
      BY <1>t, <1>5 DEF FinishAnalyze, AnalyzeRaises, TypeOK, FastIdle
    <2>4. origin' = origin /\ nextScan' = nextScan /\ fastQ' = fastQ
      BY <1>5 DEF FinishAnalyze, AnalyzeRaises, tables, brokers
    <2> QED
      BY <2>2, <2>3, <2>4, <1>t, QuietStep
  <1>6. ASSUME NEW w \in FastWorker, RedeliverAnalyze(w) \/ FastWorkerDies(w)
        PROVE  LifeInv'
    <2>1. fast[w].cap \in Capture /\ fast[w].pc # "idle"
      BY <1>t, <1>6 DEF TypeOK, FastRun, RedeliverAnalyze, FastWorkerDies
    <2>2. \A c \in Capture : fastQ'[c] > 0 => fastQ[c] > 0 \/ result[c].state # "NONE"
      <3>1. \A c \in Capture : c = fast[w].cap \/ fastQ'[c] = fastQ[c]
        BY <1>t, <1>6 DEF TypeOK, RedeliverAnalyze, FastWorkerDies
      <3>2. result[fast[w].cap].state # "NONE"
        BY <2>1 DEF LifeInv, RunsAccepted
      <3> QED
        BY <3>1, <3>2
    <2>3. /\ \/ fast'[w].pc = "idle"
             \/ /\ fast'[w].pc = fast[w].pc
                /\ fast'[w].cap = fast[w].cap
                /\ fast'[w].scan = fast[w].scan
          /\ \A v \in FastWorker : v # w => fast'[v] = fast[v]
      BY <1>t, <1>6 DEF RedeliverAnalyze, FastWorkerDies, TypeOK, FastRun, FastIdle
    <2>4. result' = result /\ origin' = origin /\ nextScan' = nextScan
      BY <1>6 DEF RedeliverAnalyze, FastWorkerDies, tables
    <2>5. SuccessNamesScan'
      BY <2>4 DEF LifeInv, SuccessNamesScan
    <2> QED
      BY <2>1, <2>2, <2>3, <2>4, <2>5, <1>t, QuietStep DEF HasSaved
  <1>7. ASSUME NEW s \in ScanId, NEW w \in SlowWorker, StartEnrich(w, s)
        PROVE  LifeInv'
    BY <1>7, <1>t, SameAnalyses DEF StartEnrich, brokers, tables
  <1>7a. ASSUME NEW s \in ScanId, DeleteScan(s) \/ ReadBlob(s) PROVE LifeInv'
    BY <1>7a, <1>t, SameAnalyses DEF DeleteScan, ReadBlob, brokers, tables
  <1>7b. ASSUME MergeTriage PROVE LifeInv'
    BY <1>7b, <1>t, SameAnalyses DEF MergeTriage, brokers, tables
  <1>8. ASSUME NEW w \in SlowWorker, SlowStep(w) PROVE LifeInv'
    BY <1>8, <1>t, SameAnalyses
       DEF SlowStep, InsertAlert, CommitAlerts, NothingAppended, Persist, FinishEnrich,
           brokers, tables
  <1>9. ASSUME NEW w \in SlowWorker,
               \/ AppendRaises(w) \/ PersistRaises(w) \/ RedeliverEnrich(w)
               \/ SlowWorkerDies(w) \/ SlowChildKilled(w)
        PROVE  LifeInv'
    BY <1>9, <1>t, SameAnalyses
       DEF AppendRaises, PersistRaises, RedeliverEnrich, SlowWorkerDies,
           SlowChildKilled, brokers, tables
  <1>10. ASSUME UNCHANGED vars PROVE LifeInv'
    BY <1>10, <1>t, SameAnalyses DEF vars
  <1> QED
    BY <1>1, <1>2, <1>3, <1>4, <1>5, <1>6, <1>7, <1>7a, <1>7b, <1>8, <1>9, <1>10
       DEF Next, FastStep, Failure

\* Only accepted uploads are worked on, and runs report their own scans.
THEOREM LifeInvariant == Spec => []LifeInv
  BY InitLife, NextLife, PTL DEF Spec

-----------------------------------------------------------------------------
(***************************************************************************)
(* Every step of the pipeline is a step of the lifecycle, or none.         *)
(***************************************************************************)

\* The values of the task states.
LEMMA ReportedValues ==
  /\ Reported["NONE"] = "none"
  /\ Reported["PENDING"] = "accepted" /\ Reported["PROGRESS"] = "accepted"
  /\ Reported["FAILURE"] = "failed" /\ Reported["SUCCESS"] = "completed"
  BY DEF Reported

\* The start of the pipeline is the start of the lifecycle.
LEMMA InitImplements == Init => Uploads!Init
  <1> SUFFICES ASSUME Init PROVE Uploads!Init
    OBVIOUS
  <1>1. 1..(nextScan - 1) = {}
    BY DEF Init
  <1>2. \A c \in Capture : Reported[result[c].state] = "none" /\ result[c].scan = NoScan
    BY ReportedValues DEF Init
  <1>3. [s \in 1..(nextScan - 1) |-> origin[s]] = [s \in {} |-> NoScan]
    BY <1>1
  <1> QED
    BY <1>2, <1>3 DEF Uploads!Init, Init

\* When neither results nor scans move, nothing moves in the lifecycle.
LEMMA Stutter ==
  ASSUME result' = result, origin' = origin, nextScan' = nextScan, live' = live
  PROVE  UNCHANGED Uploads!vars
  BY DEF Uploads!vars

\* Saving a scan and completing with it are steps of the lifecycle.
LEMMA ScanActions ==
  ASSUME NEW c \in Capture, NEW s \in ScanId,
         Uploads!Save(c, s) \/ Uploads!Complete(c, s)
  PROVE  [Uploads!Next]_Uploads!vars
  BY DEF Uploads!Next

\* A task state that moves with no scan named fails or retries the upload.
LEMMA StoreImplements ==
  ASSUME LifeInv, NEW c \in Capture, NEW st \in {"PROGRESS", "FAILURE"},
         Store(c, st, NoScan), result[c].state # "NONE",
         origin' = origin, nextScan' = nextScan, live' = live
  PROVE  [Uploads!Next]_Uploads!vars
  <1>t. result \in [Capture -> Result]
    BY DEF LifeInv, TypeOK
  <1>1. CASE result[c].state = "SUCCESS"
    BY <1>1, Stutter DEF Store
  <1>2. CASE result[c].state # "SUCCESS"
    <2>1. /\ result' = [result EXCEPT ![c] = [state |-> st, scan |-> NoScan]]
          /\ result[c].scan = NoScan
          /\ result[c].state \in {"PENDING", "PROGRESS", "FAILURE"}
      BY <1>2, <1>t DEF Store, LifeInv, SuccessNamesScan, Result
    <2>2. /\ result'[c] = [state |-> st, scan |-> NoScan]
          /\ \A d \in Capture : d # c => result'[d] = result[d]
      BY <2>1, <1>t
    <2>3. \A d \in Capture : result'[d].scan = result[d].scan
      BY <2>1, <2>2
    <2>4. [d \in Capture |-> result'[d].scan] = [d \in Capture |-> result[d].scan]
      BY <2>3
    <2>5. CASE Reported[result[c].state] = Reported[st]
      <3>1. \A d \in Capture : Reported[result'[d].state] = Reported[result[d].state]
        BY <2>2, <2>5
      <3> QED
        BY <3>1, <2>4 DEF Uploads!vars
    <2>6. CASE Reported[result[c].state] # Reported[st]
      <3>1. [d \in Capture |-> Reported[result'[d].state]]
              = [[d \in Capture |-> Reported[result[d].state]] EXCEPT ![c] = Reported[st]]
        <4>1. result'[c].state = st
          BY <2>2
        <4>2. \A d \in Capture : Reported[result'[d].state]
                = IF d = c THEN Reported[st] ELSE Reported[result[d].state]
          BY <4>1, <2>2
        <4> QED
          BY <4>2
      <3>2. CASE st = "FAILURE"
        <4>1. Reported[result[c].state] = "accepted" /\ Reported[st] = "failed"
          BY <2>1, <2>6, <3>2, ReportedValues
        <4>2. Uploads!Fail(c)
          BY <4>1, <3>1, <2>4 DEF Uploads!Fail
        <4> QED
          BY <4>2 DEF Uploads!Next
      <3>3. CASE st = "PROGRESS"
        <4>1. Reported[result[c].state] = "failed" /\ Reported[st] = "accepted"
          BY <2>1, <2>6, <3>3, ReportedValues
        <4>2. Uploads!Retry(c)
          BY <4>1, <3>1, <2>4 DEF Uploads!Retry
        <4> QED
          BY <4>2 DEF Uploads!Next
      <3> QED
        BY <3>2, <3>3
    <2> QED
      BY <2>5, <2>6
  <1> QED
    BY <1>1, <1>2

\* Every step of the pipeline maps to a step of the lifecycle or to a stutter.
LEMMA NextImplements == LifeInv /\ [Next]_vars => [Uploads!Next]_Uploads!vars
  <1> SUFFICES ASSUME LifeInv, [Next]_vars PROVE [Uploads!Next]_Uploads!vars
    OBVIOUS
  <1>t. TypeOK
    BY DEF LifeInv
  <1>1. ASSUME NEW c \in Capture, Upload(c) PROVE [Uploads!Next]_Uploads!vars
    <2>1. /\ result[c].state = "NONE" /\ result'[c].state = "PENDING"
          /\ \A d \in Capture : d # c => result'[d] = result[d]
          /\ \A d \in Capture : result'[d].scan = result[d].scan
      BY <1>1, <1>t DEF Upload, TypeOK, Result
    <2>2. [d \in Capture |-> Reported[result'[d].state]]
            = [[d \in Capture |-> Reported[result[d].state]] EXCEPT ![c] = "accepted"]
      BY <2>1, ReportedValues
    <2>3. [d \in Capture |-> result'[d].scan] = [d \in Capture |-> result[d].scan]
      BY <2>1
    <2>4. Uploads!Accept(c)
      BY <2>1, <2>2, <2>3, <1>1, ReportedValues DEF Uploads!Accept, Upload, tables
    <2> QED
      BY <2>4 DEF Uploads!Next
  <1>2. ASSUME NEW c \in Capture, NEW w \in FastWorker, StartAnalyze(w, c)
        PROVE  [Uploads!Next]_Uploads!vars
    <2>1. result[c].state # "NONE"
      BY <1>2 DEF StartAnalyze, LifeInv, RunsAccepted
    <2> QED
      BY <2>1, <1>2, StoreImplements DEF StartAnalyze, tables
  <1>3. ASSUME NEW w \in FastWorker, NEW n \in 0..MaxFound, SaveScan(w, n)
        PROVE  [Uploads!Next]_Uploads!vars
    <2>1. /\ fast[w].cap \in Capture /\ nextScan \in ScanId /\ nextScan \in Nat
          /\ nextScan' = nextScan + 1
          /\ origin' = [origin EXCEPT ![nextScan] = fast[w].cap]
          /\ live' = live \cup {nextScan} /\ result' = result
      BY <1>t, <1>3, BoundsAssumption DEF SaveScan, TypeOK, FastRun, ScanId
    <2>2. Reported[result[fast[w].cap].state] # "none"
      <3>1. /\ result[fast[w].cap].state # "NONE"
            /\ result[fast[w].cap] \in Result
        BY <1>3, <1>t, <2>1 DEF SaveScan, LifeInv, RunsAccepted, TypeOK
      <3> QED
        BY <3>1, ReportedValues DEF Result
    <2>3. 1..(nextScan' - 1) = (1..(nextScan - 1)) \cup {nextScan}
          /\ nextScan \notin 1..(nextScan - 1)
      BY <2>1 DEF ScanId
    <2>4. \A s \in 1..(nextScan' - 1) :
            origin'[s] = IF s = nextScan THEN fast[w].cap ELSE origin[s]
      BY <2>1, <2>3, <1>t DEF TypeOK, ScanId
    <2>5. [s \in 1..(nextScan' - 1) |-> origin'[s]]
            = [s \in (1..(nextScan - 1)) \cup {nextScan} |->
                 IF s = nextScan THEN fast[w].cap
                 ELSE [t \in 1..(nextScan - 1) |-> origin[t]][s]]
      BY <2>3, <2>4
    <2>6. PICK c \in Capture, s \in ScanId : c = fast[w].cap /\ s = nextScan
      BY <2>1
    <2>7. Uploads!Save(c, s)
      BY <2>1, <2>2, <2>3, <2>5, <2>6 DEF Uploads!Save
    <2> QED
      BY <2>6, <2>7, ScanActions
  <1>4. ASSUME NEW w \in FastWorker, DispatchEnrich(w) \/ AnalyzeRaises(w)
        PROVE  [Uploads!Next]_Uploads!vars
    <2>1. fast[w].cap \in Capture /\ fast[w].pc # "idle"
      BY <1>t, <1>4 DEF TypeOK, FastRun, DispatchEnrich, AnalyzeRaises
    <2>2. result[fast[w].cap].state # "NONE"
      BY <2>1 DEF LifeInv, RunsAccepted
    <2> QED
      BY <2>1, <2>2, <1>4, StoreImplements DEF DispatchEnrich, AnalyzeRaises, tables
  <1>5. ASSUME NEW w \in FastWorker, FinishAnalyze(w) PROVE [Uploads!Next]_Uploads!vars
    <2>0. /\ fast[w].cap \in Capture /\ fast[w].scan \in Saved
          /\ origin[fast[w].scan] = fast[w].cap
          /\ result[fast[w].cap].state # "NONE"
      BY <1>5, <1>t DEF TypeOK, FastRun, FinishAnalyze, LifeInv, RunsAccepted,
                        RunsOwnScans, HasSaved
    <2>p. PICK c \in Capture, s \in Saved : c = fast[w].cap /\ s = fast[w].scan
      BY <2>0
    <2>1. origin[s] = c /\ result[c].state # "NONE" /\ result \in [Capture -> Result]
      BY <2>0, <2>p, <1>t DEF TypeOK
    <2>2. origin' = origin /\ nextScan' = nextScan /\ live' = live
      BY <1>5 DEF FinishAnalyze, tables
    <2>3. CASE result[c].state = "SUCCESS"
      BY <2>2, <2>3, <2>p, <1>5, Stutter DEF FinishAnalyze, Store
    <2>4. CASE result[c].state # "SUCCESS"
      <3>1. result' = [result EXCEPT ![c] = [state |-> "SUCCESS", scan |-> s]]
        BY <2>4, <2>p, <1>5 DEF FinishAnalyze, Store
      <3>2. Reported[result[c].state] \in {"accepted", "failed"}
        BY <2>1, <2>4, ReportedValues DEF Result
      <3>3. [d \in Capture |-> Reported[result'[d].state]]
              = [[d \in Capture |-> Reported[result[d].state]] EXCEPT ![c] = "completed"]
        BY <2>1, <3>1, ReportedValues
      <3>4. [d \in Capture |-> result'[d].scan]
              = [[d \in Capture |-> result[d].scan] EXCEPT ![c] = s]
        BY <2>1, <3>1
      <3>5. s \in 1..(nextScan - 1) /\ s \in ScanId
        BY <2>p, <1>t, BoundsAssumption DEF Saved, TypeOK, ScanId
      <3>6. Uploads!Complete(c, s)
        BY <2>1, <2>2, <3>2, <3>3, <3>4, <3>5 DEF Uploads!Complete
      <3> QED
        BY <3>5, <3>6, ScanActions
    <2> QED
      BY <2>3, <2>4
  <1>6. ASSUME NEW s \in ScanId, DeleteScan(s) PROVE [Uploads!Next]_Uploads!vars
    <2>1. Uploads!Remove(s)
      BY <1>6 DEF DeleteScan, Uploads!Remove
    <2> QED
      BY <2>1 DEF Uploads!Next
  <1>7. ASSUME NEW s \in ScanId, ReadBlob(s) PROVE [Uploads!Next]_Uploads!vars
    BY <1>7, Stutter DEF ReadBlob, tables
  <1>8. ASSUME NEW s \in ScanId, NEW w \in SlowWorker, StartEnrich(w, s)
        PROVE  [Uploads!Next]_Uploads!vars
    BY <1>8, Stutter DEF StartEnrich, tables
  <1>9. ASSUME MergeTriage PROVE [Uploads!Next]_Uploads!vars
    BY <1>9, Stutter DEF MergeTriage, tables
  <1>10. ASSUME NEW w \in SlowWorker, SlowStep(w) PROVE [Uploads!Next]_Uploads!vars
    BY <1>10, Stutter
       DEF SlowStep, InsertAlert, CommitAlerts, NothingAppended, Persist, FinishEnrich,
           tables
  <1>11. ASSUME NEW w \in FastWorker, RedeliverAnalyze(w) \/ FastWorkerDies(w)
         PROVE  [Uploads!Next]_Uploads!vars
    BY <1>11, Stutter DEF RedeliverAnalyze, FastWorkerDies, tables
  <1>12. ASSUME NEW w \in SlowWorker,
                \/ AppendRaises(w) \/ PersistRaises(w) \/ RedeliverEnrich(w)
                \/ SlowWorkerDies(w) \/ SlowChildKilled(w)
         PROVE  [Uploads!Next]_Uploads!vars
    BY <1>12, Stutter
       DEF AppendRaises, PersistRaises, RedeliverEnrich, SlowWorkerDies,
           SlowChildKilled, tables
  <1>13. ASSUME UNCHANGED vars PROVE [Uploads!Next]_Uploads!vars
    BY <1>13, Stutter DEF vars, tables
  <1> QED
    BY <1>1, <1>2, <1>3, <1>4, <1>5, <1>6, <1>7, <1>8, <1>9, <1>10, <1>11, <1>12, <1>13
       DEF Next, FastStep, Failure

\* The pipeline implements the lifecycle: however messages are redelivered,
\* workers die and scans are deleted, a completed upload stays completed with a
\* scan that was saved for it.
THEOREM PipelineImplementsLifecycle == Spec => LifecycleImplemented
  <1>1. Spec => Uploads!Spec
    BY InitImplements, NextImplements, LifeInvariant, PTL DEF Spec, Uploads!Spec
  <1> QED
    BY <1>1 DEF LifecycleImplemented
=============================================================================
