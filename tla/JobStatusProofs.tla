-------------------------- MODULE JobStatusProofs ---------------------------
(***************************************************************************)
(* For every number of uploads, readers and faults and every bound of    *)
(* the registry: StatusInv is inductive.  It holds the type invariant and  *)
(* the three safety properties of the status feed (ToldTheTruth,           *)
(* RegistryBounded, LatestSettles).                                        *)
(***************************************************************************)
EXTENDS JobStatus, SequenceTheorems, TLAPS

(***************************************************************************)
(* The registry as a sequence.                                             *)
(***************************************************************************)

\* A new key at the end of a registry without duplicates.
LEMMA AppendNew ==
  ASSUME NEW S, NEW q \in Seq(S), IsInjective(q), NEW x \in S, ~Contains(q, x)
  PROVE  /\ Append(q, x) \in Seq(S) /\ IsInjective(Append(q, x))
         /\ Len(Append(q, x)) = Len(q) + 1
         /\ \A y \in S : Contains(Append(q, x), y) <=> Contains(q, y) \/ y = x
  <1> DEFINE a == Append(q, x)
  <1>1. /\ a \in Seq(S) /\ Len(a) = Len(q) + 1 /\ Len(q) \in Nat
        /\ \A i \in 1..Len(q) : a[i] = q[i]
        /\ a[Len(q) + 1] = x
    BY AppendProperties
  <1>2. DOMAIN a = 1..(Len(q) + 1) /\ DOMAIN q = 1..Len(q)
    BY <1>1
  <1>3. \A i \in 1..Len(q) : q[i] # x
    BY DEF Contains
  <1> HIDE DEF a
  <1>4. IsInjective(a)
    <2> SUFFICES ASSUME NEW i \in 1..(Len(q) + 1), NEW j \in 1..(Len(q) + 1),
                        a[i] = a[j]
                 PROVE  i = j
      BY <1>2 DEF IsInjective
    <2>1. CASE i \in 1..Len(q) /\ j \in 1..Len(q)
      BY <1>1, <1>2, <2>1 DEF IsInjective
    <2>2. CASE i = Len(q) + 1 /\ j \in 1..Len(q)
      BY <1>1, <1>3, <2>2
    <2>3. CASE i \in 1..Len(q) /\ j = Len(q) + 1
      BY <1>1, <1>3, <2>3
    <2>4. CASE i = Len(q) + 1 /\ j = Len(q) + 1
      BY <2>4
    <2> QED
      BY <1>1, <2>1, <2>2, <2>3, <2>4
  <1>5. ASSUME NEW y \in S PROVE Contains(a, y) <=> Contains(q, y) \/ y = x
    <2>1. Contains(a, y) <=> \E i \in 1..(Len(q) + 1) : a[i] = y
      BY <1>1 DEF Contains
    <2>2. ASSUME NEW i \in 1..(Len(q) + 1) PROVE i \in 1..Len(q) \/ i = Len(q) + 1
      BY <1>1
    <2>3. 1..Len(q) \subseteq 1..(Len(q) + 1) /\ Len(q) + 1 \in 1..(Len(q) + 1)
      BY <1>1
    <2> QED
      BY <1>1, <2>1, <2>2, <2>3 DEF Contains
  <1> QED
    BY <1>1, <1>4, <1>5 DEF a

\* The newest keys of a registry without duplicates.
LEMMA KeepNewest ==
  ASSUME NEW S, NEW q \in Seq(S), IsInjective(q), NEW m \in 1..Len(q)
  PROVE  /\ SubSeq(q, m, Len(q)) \in Seq(S) /\ IsInjective(SubSeq(q, m, Len(q)))
         /\ Len(SubSeq(q, m, Len(q))) = Len(q) - m + 1
         /\ \A y \in S : Contains(SubSeq(q, m, Len(q)), y) => Contains(q, y)
  <1> DEFINE n == SubSeq(q, m, Len(q))
  <1>0. Len(q) \in Nat /\ m \in Nat /\ DOMAIN q = 1..Len(q)
    OBVIOUS
  <1>1. /\ n \in Seq(S) /\ Len(n) = Len(q) - m + 1
        /\ \A i \in 1..(Len(q) - m + 1) : n[i] = q[m + i - 1]
    BY <1>0, SubSeqProperties
  <1> HIDE DEF n
  <1>2. DOMAIN n = 1..(Len(q) - m + 1)
    BY <1>1
  <1>3. IsInjective(n)
    <2> SUFFICES ASSUME NEW i \in 1..(Len(q) - m + 1), NEW j \in 1..(Len(q) - m + 1),
                        n[i] = n[j]
                 PROVE  i = j
      BY <1>2 DEF IsInjective
    <2>1. m + i - 1 \in 1..Len(q) /\ m + j - 1 \in 1..Len(q)
      BY <1>0
    <2>2. m + i - 1 = m + j - 1
      BY <1>0, <1>1, <2>1 DEF IsInjective
    <2> QED
      BY <1>0, <2>2
  <1>4. ASSUME NEW y \in S, Contains(n, y) PROVE Contains(q, y)
    <2>1. PICK i \in 1..(Len(q) - m + 1) : n[i] = y
      BY <1>1, <1>4 DEF Contains
    <2>2. m + i - 1 \in 1..Len(q)
      BY <1>0
    <2> QED
      BY <1>1, <2>1, <2>2 DEF Contains
  <1> QED
    BY <1>1, <1>3, <1>4 DEF n

(***************************************************************************)
(* What a step may disturb.                                                *)
(***************************************************************************)

\* The fields of a well typed state.
LEMMA Fields ==
  ASSUME TypeOK
  PROVE  /\ \A j \in Job : /\ upload[j] \in [pc : UploadPc, status : Status]
                           /\ upload[j].status \in Status
                           /\ upload[j].pc \in UploadPc
                           /\ state[j] \in State /\ StatusOf[state[j]] \in Status
                           /\ entry[j] \in Status
                           /\ task[j] \in Task
         /\ \A j \in Browser : told[j] \in Status
         /\ \A r \in Reader :
              /\ reader[r] \in [pc : ReaderPc, job : Job \cup {NoJob}, status : Status]
              /\ reader[r].pc \in ReaderPc /\ reader[r].status \in Status
  BY DEF TypeOK, State, StatusOf, Status

\* A status that is true of a job once the step is done.
TrueNext(j, status) ==
    /\ status = "completed" => state'[j] = "SUCCESS"
    /\ status = "error" => /\ task'[j].failed
                           /\ ~task'[j].repeated => state'[j] = "FAILURE"

\* What is true of a job stays so: a success is final, a failure is remembered,
\* and final as long as the job is not repeated.
Lasting(j) ==
    /\ state[j] = "SUCCESS" => state'[j] = "SUCCESS"
    /\ task[j].failed => task'[j].failed
    /\ task[j].repeated => task'[j].repeated
    /\ state[j] = "FAILURE" /\ ~task'[j].repeated => state'[j] = "FAILURE"

\* It does when the step leaves the analyses alone.
LEMMA NothingChanges ==
  ASSUME UNCHANGED <<state, task>>
  PROVE  \A j \in Job : Lasting(j)
  BY DEF Lasting

\* The states and the statuses of an analysis end together.
LEMMA EndsTogether ==
  ASSUME NEW j \in Job, TypeOK
  PROVE  StatusOf[state[j]] \in Terminal <=> Ended(j)
  BY Fields DEF StatusOf, Terminal, Ended, State

\* A step that keeps the copies, or overwrites one with a true status.
LEMMA CopiesStay ==
  ASSUME CopiesTrue,
         \A j \in Job : Lasting(j),
         \A j \in Job : entry'[j] = entry[j] \/ TrueNext(j, entry'[j]),
         \A j \in Browser : told'[j] = told[j] \/ TrueNext(j, told'[j]),
         \A r \in Reader : reader'[r].pc \in Answered =>
            \/ /\ reader'[r].job \in Job
               /\ reader[r].pc \in Answered
               /\ reader'[r].job = reader[r].job
               /\ reader'[r].status = reader[r].status
            \/ TrueNext(reader'[r].job, reader'[r].status)
  PROVE  CopiesTrue'
  <1>0. ASSUME NEW j \in Job, NEW st, TrueOf(j, st) PROVE TrueNext(j, st)
    BY <1>0 DEF TrueOf, TrueNext, Lasting
  <1>1. ASSUME NEW j \in Job PROVE TrueNext(j, entry'[j])
    <2>1. TrueNext(j, entry[j])
      BY <1>0 DEF CopiesTrue
    <2> QED
      BY <2>1
  <1>2. ASSUME NEW j \in Browser PROVE TrueNext(j, told'[j])
    <2>1. TrueNext(j, told[j])
      BY <1>0, NamesAssumption DEF CopiesTrue
    <2> QED
      BY <2>1
  <1>3. ASSUME NEW r \in Reader, reader'[r].pc \in Answered
        PROVE  TrueNext(reader'[r].job, reader'[r].status)
    <2>1. CASE TrueNext(reader'[r].job, reader'[r].status)
      BY <2>1
    <2>2. CASE /\ reader'[r].job \in Job
               /\ reader[r].pc \in Answered
               /\ reader'[r].job = reader[r].job
               /\ reader'[r].status = reader[r].status
      <3>1. TrueNext(reader[r].job, reader[r].status)
        BY <1>0, <2>2 DEF CopiesTrue
      <3> QED
        BY <2>2, <3>1
    <2> QED
      BY <1>3, <2>1, <2>2
  <1> QED
    BY <1>1, <1>2, <1>3 DEF CopiesTrue, TrueOf, TrueNext, Answered

\* POST /api/upload enters the job and makes room for it.
LEMMA RegisterKeeps ==
  ASSUME StatusInv, NEW j \in Job, RegisterJob(j)
  PROVE  StatusInv'
  <1>0. /\ TypeOK /\ JobsMoveForward /\ RunsCounted /\ ReadersAsk /\ CopiesTrue
        /\ RegistryBounded /\ LatestSettles
    BY DEF StatusInv
  <1> DEFINE all == Append(tracked, j)
             excess == Len(all) - MaxTracked
  <1>1. /\ upload[j].pc = "idle"
        /\ state' = IF celery THEN [state EXCEPT ![j] = "PENDING"] ELSE state
        /\ task' = IF celery THEN [task EXCEPT ![j].queue = 1] ELSE task
        /\ tracked' = IF excess > 0 THEN SubSeq(all, excess + 1, Len(all)) ELSE all
        /\ entry' = [k \in Job |-> IF k = j THEN "analyzing"
                                   ELSE IF Contains(tracked', k) THEN entry[k]
                                   ELSE "idle"]
        /\ upload' = [upload EXCEPT ![j].pc = "announce"]
        /\ UNCHANGED <<celery, latest, reader, told, faults>>
    BY DEF RegisterJob
  <1>2. state[j] = "NONE" /\ ~Contains(tracked, j)
    BY <1>0, <1>1 DEF JobsMoveForward, Tracked
  <1>3. /\ all \in Seq(Job) /\ IsInjective(all)
        /\ \A k \in Job : Contains(all, k) <=> Contains(tracked, k) \/ k = j
    BY <1>0, <1>2, AppendNew DEF TypeOK
  <1> HIDE DEF all
  <1>4. /\ tracked' \in Seq(Job) /\ IsInjective(tracked')
        /\ Len(tracked') <= MaxTracked
        /\ \A k \in Job : Contains(tracked', k) => Contains(all, k)
    <2>0. MaxTracked \in Nat \ {0} /\ Len(all) \in Nat
      BY <1>3, BoundsAssumption
    <2>1. CASE excess > 0
      <3>1. excess + 1 \in 1..Len(all)
        BY <2>0, <2>1
      <3>2. PICK m \in 1..Len(all) : m = excess + 1
        BY <3>1
      <3>3. /\ SubSeq(all, m, Len(all)) \in Seq(Job)
            /\ IsInjective(SubSeq(all, m, Len(all)))
            /\ Len(SubSeq(all, m, Len(all))) = Len(all) - m + 1
            /\ \A k \in Job : Contains(SubSeq(all, m, Len(all)), k) => Contains(all, k)
        BY <1>3, KeepNewest
      <3>4. tracked' = SubSeq(all, m, Len(all))
        BY <1>1, <2>1, <3>2
      <3>5. Len(all) - m + 1 = MaxTracked
        BY <2>0, <3>2
      <3> QED
        BY <2>0, <3>3, <3>4, <3>5
    <2>2. CASE ~(excess > 0)
      BY <1>1, <1>3, <2>0, <2>2
    <2> QED
      BY <2>1, <2>2
  <1>5. /\ upload'[j].pc = "announce" /\ upload'[j].status \in Status
        /\ upload'[j] \in [pc : UploadPc, status : Status]
        /\ \A k \in Job : k # j => upload'[k] = upload[k]
    BY <1>0, <1>1, Fields DEF TypeOK, UploadPc
  <1>6. /\ state'[j] \in {"NONE", "PENDING"}
        /\ ~celery => state'[j] = "NONE"
        /\ \A k \in Job : k # j => state'[k] = state[k]
    BY <1>0, <1>1, <1>2 DEF TypeOK
  <1>13. /\ \A k \in Job : k # j => task'[k] = task[k]
         /\ task'[j].repeated = task[j].repeated
         /\ task'[j].failed = task[j].failed
         /\ task'[j].runs = task[j].runs
         /\ task'[j].queue = IF celery THEN 1 ELSE task[j].queue
         /\ task' \in [Job -> Task]
    BY <1>0, <1>1 DEF TypeOK, Task
  <1>14. /\ ~task[j].repeated /\ ~task[j].failed
         /\ task[j].queue = 0 /\ task[j].runs = 0
    BY <1>0, <1>2 DEF RunsCounted, Copies, TypeOK, Task
  <1>15. RunsCounted'
    <2>1. ASSUME NEW k \in Job, k # j
          PROVE  Copies(k)' = Copies(k) /\ task'[k] = task[k] /\ (Ended(k)' <=> Ended(k))
                 /\ state'[k] = state[k]
      BY <1>6, <1>13, <2>1 DEF Copies, Ended
    <2>2. Copies(j)' = IF celery THEN 1 ELSE 0
      BY <1>13, <1>14 DEF Copies
    <2>3. ~celery \/ state'[j] = "NONE" => ~celery
      BY <1>0, <1>1 DEF TypeOK
    <2>4. ASSUME NEW k \in Job
          PROVE  (/\ ~celery \/ state[k] = "NONE" => Copies(k) = 0 /\ ~task[k].repeated
                  /\ state[k] = "NONE" => ~task[k].failed
                  /\ state[k] = "FAILURE" => task[k].failed
                  /\ ~task[k].repeated => /\ Copies(k) <= 1
                                          /\ Ended(k) => Copies(k) = 0
                                          /\ task[k].failed => state[k] = "FAILURE")'
      <3>1. CASE k = j
        BY <1>1, <1>6, <1>13, <1>14, <2>2, <2>3, <3>1 DEF Ended
      <3>2. CASE k # j
        BY <1>0, <1>1, <2>1, <3>2 DEF RunsCounted
      <3> QED
        BY <3>1, <3>2
    <2> QED
      BY <2>4 DEF RunsCounted
  <1>7. TypeOK'
    <2>1. state' \in [Job -> State] /\ entry' \in [Job -> Status]
      BY <1>0, <1>1 DEF TypeOK, State, Status
    <2>2. upload' \in [Job -> [pc : UploadPc, status : Status]]
      BY <1>0, <1>1, <1>5 DEF TypeOK
    <2> QED
      BY <1>0, <1>1, <1>4, <1>13, <2>1, <2>2 DEF TypeOK
  <1>8. JobsMoveForward'
    <2>1. \A k \in Job : k # j /\ ~Contains(tracked, k) => ~Contains(tracked', k)
      BY <1>3, <1>4
    <2> QED
      BY <1>0, <1>1, <1>5, <1>6, <2>1 DEF JobsMoveForward, Tracked
  <1>9. ReadersAsk'
    BY <1>0, <1>1 DEF ReadersAsk
  <1>10. CopiesTrue'
    <2>1. \A k \in Job : Lasting(k)
      BY <1>2, <1>6, <1>13, <1>14 DEF Lasting
    <2>2. \A k \in Job : entry'[k] = entry[k] \/ TrueNext(k, entry'[k])
      BY <1>1 DEF TrueNext
    <2>3. \A r \in Reader : reader'[r].pc \in Answered =>
              reader[r].job \in Job
      BY <1>0, <1>1 DEF ReadersAsk, Answered
    <2> QED
      BY <1>0, <1>1, <2>1, <2>2, <2>3, CopiesStay
  <1>11. RegistryBounded'
    BY <1>4 DEF RegistryBounded
  <1>12. LatestSettles'
    BY <1>0, <1>1, <1>5, <1>6 DEF LatestSettles, Ended, Latest
  <1> QED
    BY <1>7, <1>8, <1>9, <1>10, <1>11, <1>12, <1>15 DEF StatusInv

\* The upload mirrors the new job and its thread starts.
LEMMA AnnounceKeeps ==
  ASSUME StatusInv, NEW j \in Job, Announce(j)
  PROVE  StatusInv'
  <1>0. /\ TypeOK /\ JobsMoveForward /\ RunsCounted /\ ReadersAsk /\ CopiesTrue
        /\ RegistryBounded /\ LatestSettles
    BY DEF StatusInv
  <1>1. /\ upload[j].pc = "announce"
        /\ latest' = Latest(j, "analyzing")
        /\ upload' = [upload EXCEPT ![j].pc = IF celery THEN "over" ELSE "running"]
        /\ state' = IF celery THEN state ELSE [state EXCEPT ![j] = "PROGRESS"]
        /\ UNCHANGED <<celery, task, tracked, entry, reader, told, faults>>
    BY DEF Announce, registry
  <1>2. ~celery => state[j] = "NONE"
    BY <1>0, <1>1 DEF JobsMoveForward
  <1>3. /\ upload'[j].pc = IF celery THEN "over" ELSE "running"
        /\ upload'[j] \in [pc : UploadPc, status : Status]
        /\ \A k \in Job : k # j => upload'[k] = upload[k]
    BY <1>0, <1>1, Fields DEF TypeOK, UploadPc
  <1>4. /\ ~celery => state'[j] = "PROGRESS"
        /\ celery => state' = state
        /\ \A k \in Job : k # j => state'[k] = state[k]
    BY <1>0, <1>1 DEF TypeOK
  <1>5. TypeOK'
    <2>1. state' \in [Job -> State]
      BY <1>0, <1>1 DEF TypeOK, State
    <2>2. upload' \in [Job -> [pc : UploadPc, status : Status]]
      BY <1>0, <1>1, <1>3 DEF TypeOK
    <2>3. latest' \in Snapshot
      BY <1>1 DEF Snapshot, Latest, Status
    <2> QED
      BY <1>0, <1>1, <2>1, <2>2, <2>3 DEF TypeOK
  <1>6. JobsMoveForward'
    BY <1>0, <1>1, <1>3, <1>4 DEF JobsMoveForward, Tracked
  <1>7. ReadersAsk' /\ RegistryBounded'
    BY <1>0, <1>1 DEF ReadersAsk, RegistryBounded
  <1>8. CopiesTrue'
    <2>1. \A k \in Job : Lasting(k)
      BY <1>1, <1>2, <1>4 DEF Lasting
    <2>2. \A r \in Reader : reader'[r].pc \in Answered =>
              reader[r].job \in Job
      BY <1>0, <1>1 DEF ReadersAsk, Answered
    <2> QED
      BY <1>0, <1>1, <2>1, <2>2, CopiesStay
  <1>10. RunsCounted'
    BY <1>0, <1>1, <1>2, <1>4 DEF RunsCounted, Copies, Ended
  <1>9. LatestSettles'
    BY <1>0, <1>1, <1>3, <1>4 DEF LatestSettles, Ended, Latest
  <1> QED
    BY <1>5, <1>6, <1>7, <1>8, <1>9, <1>10 DEF StatusInv

\* A patch of the job's entry by its background thread.
LEMMA UpdateKeeps ==
  ASSUME StatusInv, NEW j \in Job, NEW st \in State, UpdateJob(j, st)
  PROVE  StatusInv'
  <1>0. /\ TypeOK /\ JobsMoveForward /\ RunsCounted /\ ReadersAsk /\ CopiesTrue
        /\ RegistryBounded /\ LatestSettles
    BY DEF StatusInv
  <1>1. /\ upload[j].pc = "running"
        /\ st \in {"PROGRESS", "SUCCESS", "FAILURE"}
        /\ state' = [state EXCEPT ![j] = st]
        /\ task' = [task EXCEPT ![j].failed = (st = "FAILURE")]
        /\ tracked' = IF Tracked(j) THEN tracked ELSE Append(tracked, j)
        /\ entry' = [entry EXCEPT ![j] = StatusOf[st]]
        /\ upload' = [upload EXCEPT ![j] = [pc |-> "compare", status |-> StatusOf[st]]]
        /\ UNCHANGED <<celery, latest, reader, told, faults>>
    BY DEF UpdateJob
  <1>2. state[j] = "PROGRESS" /\ ~celery
    BY <1>0, <1>1 DEF JobsMoveForward
  <1>3. StatusOf[st] \in Status
    BY <1>1 DEF StatusOf, Status
  <1>4. /\ upload'[j] = [pc |-> "compare", status |-> StatusOf[st]]
        /\ \A k \in Job : k # j => upload'[k] = upload[k]
    BY <1>0, <1>1 DEF TypeOK
  <1>5. state'[j] = st /\ \A k \in Job : k # j => state'[k] = state[k]
    BY <1>0, <1>1 DEF TypeOK
  <1>6. entry'[j] = StatusOf[st] /\ \A k \in Job : k # j => entry'[k] = entry[k]
    BY <1>0, <1>1 DEF TypeOK
  <1>7. /\ tracked' \in Seq(Job) /\ IsInjective(tracked')
        /\ \A k \in Job : k # j => (Contains(tracked', k) <=> Contains(tracked, k))
    <2>1. CASE Tracked(j)
      BY <1>0, <1>1, <2>1 DEF TypeOK
    <2>2. CASE ~Tracked(j)
      BY <1>0, <1>1, <2>2, AppendNew DEF TypeOK, Tracked
    <2> QED
      BY <2>1, <2>2
  <1>8. /\ \A k \in Job : k # j => task'[k] = task[k]
        /\ task'[j].repeated = task[j].repeated
        /\ task'[j].failed <=> st = "FAILURE"
        /\ task'[j].runs = task[j].runs
        /\ task'[j].queue = task[j].queue
        /\ task' \in [Job -> Task]
    BY <1>0, <1>1 DEF TypeOK, Task
  <1>9. ~task[j].repeated /\ ~task[j].failed /\ Copies(j) = 0
    BY <1>0, <1>2 DEF RunsCounted
  <1>10. TypeOK'
    <2>1. state' \in [Job -> State] /\ entry' \in [Job -> Status]
      BY <1>0, <1>1, <1>3 DEF TypeOK
    <2>2. [pc |-> "compare", status |-> StatusOf[st]] \in [pc : UploadPc, status : Status]
      BY <1>3 DEF UploadPc
    <2>3. upload' \in [Job -> [pc : UploadPc, status : Status]]
      BY <1>0, <1>1, <2>2 DEF TypeOK
    <2> QED
      BY <1>0, <1>1, <1>7, <1>8, <2>1, <2>3 DEF TypeOK
  <1>11. JobsMoveForward'
    <2>1. ASSUME NEW k \in Job, k # j
          PROVE  upload'[k] = upload[k] /\ state'[k] = state[k]
                 /\ (Tracked(k)' <=> Tracked(k))
      BY <1>4, <1>5, <1>7, <2>1 DEF Tracked
    <2> QED
      BY <1>0, <1>1, <1>2, <1>4, <1>5, <2>1 DEF JobsMoveForward
  <1>12. RunsCounted'
    <2>1. ASSUME NEW k \in Job, k # j
          PROVE  Copies(k)' = Copies(k) /\ task'[k] = task[k] /\ (Ended(k)' <=> Ended(k))
                 /\ state'[k] = state[k]
      BY <1>5, <1>8, <2>1 DEF Copies, Ended
    <2>2. Copies(j)' = 0
      BY <1>8, <1>9 DEF Copies
    <2>3. ASSUME NEW k \in Job
          PROVE  (/\ ~celery \/ state[k] = "NONE" => Copies(k) = 0 /\ ~task[k].repeated
                  /\ state[k] = "NONE" => ~task[k].failed
                  /\ state[k] = "FAILURE" => task[k].failed
                  /\ ~task[k].repeated => /\ Copies(k) <= 1
                                          /\ Ended(k) => Copies(k) = 0
                                          /\ task[k].failed => state[k] = "FAILURE")'
      <3>1. CASE k = j
        BY <1>1, <1>2, <1>5, <1>8, <1>9, <2>2, <3>1
      <3>2. CASE k # j
        BY <1>0, <1>1, <2>1, <3>2 DEF RunsCounted
      <3> QED
        BY <3>1, <3>2
    <2> QED
      BY <2>3 DEF RunsCounted
  <1>13. ReadersAsk' /\ RegistryBounded'
    BY <1>0, <1>1, <1>2 DEF ReadersAsk, RegistryBounded
  <1>14. CopiesTrue'
    <2>1. \A k \in Job : Lasting(k)
      BY <1>2, <1>5, <1>8, <1>9 DEF Lasting
    <2>2. TrueNext(j, entry'[j])
      BY <1>1, <1>5, <1>6, <1>8 DEF TrueNext, StatusOf
    <2>3. \A r \in Reader : reader'[r].pc \in Answered => reader[r].job \in Job
      BY <1>0, <1>1 DEF ReadersAsk, Answered
    <2>4. \A k \in Job : entry'[k] = entry[k] \/ TrueNext(k, entry'[k])
      BY <1>6, <2>2
    <2> QED
      BY <1>0, <1>1, <2>1, <2>3, <2>4, CopiesStay
  <1>15. LatestSettles'
    <2>1. \A k \in Job : k # j => (Ended(k)' <=> Ended(k))
      BY <1>5 DEF Ended
    <2> QED
      BY <1>0, <1>1, <1>4, <2>1 DEF LatestSettles
  <1> QED
    BY <1>10, <1>11, <1>12, <1>13, <1>14, <1>15 DEF StatusInv

\* The thread finds its job to be the latest one, or goes on.
LEMMA CompareUpdateKeeps ==
  ASSUME StatusInv, NEW j \in Job, CompareUpdate(j)
  PROVE  StatusInv'
  <1>0. /\ TypeOK /\ JobsMoveForward /\ RunsCounted /\ ReadersAsk /\ CopiesTrue
        /\ RegistryBounded /\ LatestSettles
    BY DEF StatusInv
  <1>1. /\ upload[j].pc = "compare"
        /\ upload' = [upload EXCEPT ![j] = IF latest.job = j
                                           THEN [@ EXCEPT !.pc = "mirror"]
                                           ELSE UpdateDone(j)]
        /\ UNCHANGED <<celery, state, task, tracked, entry, latest, reader, told, faults>>
    BY DEF CompareUpdate, registry
  <1>2. /\ state[j] \in {"PROGRESS", "SUCCESS", "FAILURE"}
        /\ upload[j].status = StatusOf[state[j]]
        /\ upload[j].status \in Status
        /\ ~celery
    BY <1>0, <1>1, Fields DEF JobsMoveForward
  <1>3. /\ latest.job = j => /\ upload'[j].pc = "mirror"
                             /\ upload'[j].status = upload[j].status
        /\ latest.job # j => upload'[j] = UpdateDone(j)
        /\ upload'[j] \in [pc : UploadPc, status : Status]
        /\ \A k \in Job : k # j => upload'[k] = upload[k]
    <2>1. upload[j] \in [pc : UploadPc, status : Status]
      BY <1>0 DEF TypeOK
    <2>2. UpdateDone(j) \in [pc : UploadPc, status : Status]
      BY DEF UpdateDone, AfterUpdate, UploadPc, Status
    <2>3. upload'[j] = IF latest.job = j THEN [upload[j] EXCEPT !.pc = "mirror"]
                       ELSE UpdateDone(j)
      BY <1>0, <1>1 DEF TypeOK
    <2>4. [upload[j] EXCEPT !.pc = "mirror"] \in [pc : UploadPc, status : Status]
      BY <2>1 DEF UploadPc
    <2>5. \A k \in Job : k # j => upload'[k] = upload[k]
      BY <1>0, <1>1 DEF TypeOK
    <2> QED
      BY <2>1, <2>2, <2>3, <2>4, <2>5
  <1>4. upload[j].status \in Terminal <=> Ended(j)
    BY <1>0, <1>2, EndsTogether
  <1>5. TypeOK'
    <2>1. upload' \in [Job -> [pc : UploadPc, status : Status]]
      BY <1>0, <1>1, <1>3 DEF TypeOK
    <2> QED
      BY <1>0, <1>1, <2>1 DEF TypeOK
  <1>6. JobsMoveForward'
    <2>1. upload'[j].pc = "running" => state[j] = "PROGRESS"
      BY <1>2, <1>3, <1>4 DEF UpdateDone, AfterUpdate, Ended
    <2>2. upload'[j].pc \in {"running", "mirror", "over"}
      BY <1>3 DEF UpdateDone, AfterUpdate
    <2>3. upload'[j].pc = "mirror" => upload'[j].status = StatusOf[state[j]]
      BY <1>2, <1>3 DEF UpdateDone, AfterUpdate
    <2> QED
      BY <1>0, <1>1, <1>2, <1>3, <2>1, <2>2, <2>3 DEF JobsMoveForward, Tracked
  <1>7. ReadersAsk' /\ RegistryBounded' /\ RunsCounted'
    BY <1>0, <1>1 DEF ReadersAsk, RegistryBounded, RunsCounted, Copies, Ended
  <1>8. CopiesTrue'
    BY <1>0, <1>1 DEF CopiesTrue, TrueOf
  <1>9. LatestSettles'
    <2>1. latest = Latest(j, "analyzing") => upload'[j].pc = "mirror"
      BY <1>3 DEF Latest
    <2> QED
      BY <1>0, <1>1, <1>3, <2>1 DEF LatestSettles, Ended
  <1> QED
    BY <1>5, <1>6, <1>7, <1>8, <1>9 DEF StatusInv

\* What the thread wrote becomes the latest snapshot, whoever is latest by now.
LEMMA MirrorUpdateKeeps ==
  ASSUME StatusInv, NEW j \in Job, MirrorUpdate(j)
  PROVE  StatusInv'
  <1>0. /\ TypeOK /\ JobsMoveForward /\ RunsCounted /\ ReadersAsk /\ CopiesTrue
        /\ RegistryBounded /\ LatestSettles
    BY DEF StatusInv
  <1>1. /\ upload[j].pc = "mirror"
        /\ latest' = Latest(j, upload[j].status)
        /\ upload' = [upload EXCEPT ![j] = [pc |-> AfterUpdate(upload[j].status),
                                            status |-> "analyzing"]]
        /\ UNCHANGED <<celery, state, task, tracked, entry, reader, told, faults>>
    BY DEF MirrorUpdate, UpdateDone, registry
  <1>2. /\ state[j] \in {"PROGRESS", "SUCCESS", "FAILURE"}
        /\ upload[j].status = StatusOf[state[j]]
        /\ upload[j].status \in Status
        /\ ~celery
    BY <1>0, <1>1, Fields DEF JobsMoveForward
  <1>3. /\ upload'[j] = [pc |-> AfterUpdate(upload[j].status), status |-> "analyzing"]
        /\ \A k \in Job : k # j => upload'[k] = upload[k]
    BY <1>0, <1>1 DEF TypeOK
  <1>4. upload[j].status \in Terminal <=> Ended(j)
    BY <1>0, <1>2, EndsTogether
  <1>5. TypeOK'
    <2>1. [pc |-> AfterUpdate(upload[j].status), status |-> "analyzing"]
               \in [pc : UploadPc, status : Status]
      BY DEF AfterUpdate, UploadPc, Status
    <2>2. upload' \in [Job -> [pc : UploadPc, status : Status]]
      BY <1>0, <1>1, <2>1 DEF TypeOK
    <2>3. latest' \in Snapshot
      BY <1>1, <1>2 DEF Snapshot, Latest
    <2> QED
      BY <1>0, <1>1, <2>2, <2>3 DEF TypeOK
  <1>6. JobsMoveForward'
    <2>1. upload'[j].pc = "running" => state[j] = "PROGRESS"
      BY <1>2, <1>3, <1>4 DEF AfterUpdate, Ended
    <2>2. upload'[j].pc \in {"running", "over"}
      BY <1>3 DEF AfterUpdate
    <2> QED
      BY <1>0, <1>1, <1>2, <1>3, <2>1, <2>2 DEF JobsMoveForward, Tracked
  <1>7. ReadersAsk' /\ RegistryBounded' /\ RunsCounted'
    BY <1>0, <1>1 DEF ReadersAsk, RegistryBounded, RunsCounted, Copies, Ended
  <1>8. CopiesTrue'
    BY <1>0, <1>1 DEF CopiesTrue, TrueOf
  <1>9. LatestSettles'
    <2>1. Ended(j) => latest'.status # "analyzing"
      BY <1>1, <1>4 DEF Latest, Terminal
    <2>2. latest'.job = j
      BY <1>1 DEF Latest
    <2> QED
      BY <1>1, <2>1, <2>2 DEF LatestSettles, Latest, Ended
  <1> QED
    BY <1>5, <1>6, <1>7, <1>8, <1>9 DEF StatusInv

\* A new record for one job's task.
LEMMA OneTask ==
  ASSUME TypeOK, NEW j \in Job, NEW t \in Task, task' = [task EXCEPT ![j] = t]
  PROVE  /\ task' \in [Job -> Task] /\ task'[j] = t
         /\ \A k \in Job : k # j => task'[k] = task[k]
  BY DEF TypeOK

\* A step of the workers or the broker on one job moves neither its upload nor the
\* registry, counts the runs, and replaces no success.
LEMMA WorkerMoves ==
  ASSUME TypeOK, RunsCounted, NEW j \in Job, WorkerStep(j)
  PROVE  /\ celery /\ UNCHANGED <<celery, tracked, entry, latest, upload, reader, told>>
         /\ state' \in [Job -> State] /\ task' \in [Job -> Task]
         /\ faults' \in 0..MaxFaults
         /\ \A k \in Job : k # j => state'[k] = state[k] /\ task'[k] = task[k]
         /\ state[j] # "NONE" /\ state'[j] # "NONE"
         /\ state[j] = "SUCCESS" => state'[j] = "SUCCESS"
         /\ task[j].failed => task'[j].failed
         /\ task[j].repeated => task'[j].repeated
         /\ state'[j] = "FAILURE" => task'[j].failed
         /\ ~task'[j].repeated =>
                /\ Copies(j)' <= 1
                /\ (Ended(j) => Copies(j) = 0)'
                /\ task'[j].failed => state'[j] = "FAILURE"
                /\ state[j] = "FAILURE" => state'[j] = "FAILURE"
  <1>0. /\ state \in [Job -> State] /\ state[j] \in State
        /\ task \in [Job -> Task] /\ task[j] \in Task /\ faults \in 0..MaxFaults
        /\ task[j].queue \in Nat /\ task[j].runs \in Nat
        /\ task[j].failed \in BOOLEAN /\ task[j].repeated \in BOOLEAN
        /\ MaxFaults \in Nat
    BY BoundsAssumption DEF TypeOK, Task
  <1>1. UNCHANGED <<celery, tracked, entry, latest, upload, reader, told>>
    BY DEF WorkerStep, WorkerStarts, WorkerReports, WorkerEnds, Redeliver, WorkerDies,
           registry
  <1>2. task[j].queue + task[j].runs > 0
    BY <1>0 DEF WorkerStep, WorkerStarts, WorkerReports, WorkerEnds, Redeliver, WorkerDies
  <1>3. /\ celery /\ state[j] # "NONE"
        /\ state[j] = "FAILURE" => task[j].failed
        /\ ~task[j].repeated =>
              /\ task[j].queue + task[j].runs <= 1
              /\ state[j] \notin {"SUCCESS", "FAILURE"}
              /\ ~task[j].failed
    BY <1>0, <1>2 DEF RunsCounted, Copies, Ended
  <1>4. ASSUME NEW st \in State \ {"NONE"}, Store(j, st)
        PROVE  /\ state' \in [Job -> State]
               /\ \A k \in Job : k # j => state'[k] = state[k]
               /\ state'[j] = IF state[j] = "SUCCESS" THEN "SUCCESS" ELSE st
    BY <1>0, <1>4 DEF Store
  <1>5. CASE WorkerStarts(j)
    <2>1. Store(j, "STARTED") /\ task[j].queue > 0 /\ faults' = faults
      BY <1>5 DEF WorkerStarts
    <2>2. /\ task' \in [Job -> Task]
          /\ \A k \in Job : k # j => task'[k] = task[k]
          /\ task'[j].queue = task[j].queue - 1 /\ task'[j].runs = task[j].runs + 1
          /\ task'[j].repeated = task[j].repeated /\ task'[j].failed = task[j].failed
      <3>1. PICK t : t = [task[j] EXCEPT !.queue = task[j].queue - 1,
                                         !.runs = task[j].runs + 1]
        OBVIOUS
      <3>2. /\ t \in Task /\ t.queue = task[j].queue - 1 /\ t.runs = task[j].runs + 1
            /\ t.repeated = task[j].repeated /\ t.failed = task[j].failed
        <4>1. PICK q \in Nat : q = task[j].queue - 1
          BY <1>0, <2>1
        <4>2. PICK n \in Nat : n = task[j].runs + 1
          BY <1>0
        <4>3. PICK r \in Task : r = task[j]
          BY <1>0
        <4>4. t = [r EXCEPT !.queue = q, !.runs = n]
          BY <3>1, <4>1, <4>2, <4>3
        <4>5. /\ t \in Task /\ t.queue = q /\ t.runs = n
              /\ t.repeated = r.repeated /\ t.failed = r.failed
          BY <4>4 DEF Task
        <4> QED
          BY <4>1, <4>2, <4>3, <4>5
      <3>3. task' = [task EXCEPT ![j] = t]
        BY <1>5, <3>1 DEF WorkerStarts
      <3> QED
        BY <3>2, <3>3, OneTask
    <2>3. /\ state' \in [Job -> State]
          /\ \A k \in Job : k # j => state'[k] = state[k]
          /\ state'[j] = IF state[j] = "SUCCESS" THEN "SUCCESS" ELSE "STARTED"
      BY <1>4, <2>1 DEF State
    <2> QED
      BY <1>0, <1>1, <1>3, <2>1, <2>2, <2>3 DEF Copies, Ended
  <1>6. CASE WorkerReports(j)
    <2>1. Store(j, "PROGRESS") /\ task' = task /\ faults' = faults
      BY <1>6 DEF WorkerReports
    <2>2. /\ state' \in [Job -> State]
          /\ \A k \in Job : k # j => state'[k] = state[k]
          /\ state'[j] = IF state[j] = "SUCCESS" THEN "SUCCESS" ELSE "PROGRESS"
      BY <1>4, <2>1 DEF State
    <2> QED
      BY <1>0, <1>1, <1>3, <2>1, <2>2 DEF Copies, Ended
  <1>7. CASE WorkerEnds(j)
    <2>1. PICK st \in {"SUCCESS", "FAILURE"} :
              /\ Store(j, st)
              /\ task' = [task EXCEPT ![j] =
                              [@ EXCEPT !.runs = task[j].runs - 1,
                                        !.failed = task[j].failed \/ state'[j] = "FAILURE"]]
      BY <1>7 DEF WorkerEnds
    <2>2. task[j].runs > 0 /\ faults' = faults
      BY <1>7 DEF WorkerEnds
    <2>3. /\ task' \in [Job -> Task]
          /\ \A k \in Job : k # j => task'[k] = task[k]
          /\ task'[j].queue = task[j].queue /\ task'[j].runs = task[j].runs - 1
          /\ task'[j].repeated = task[j].repeated
          /\ task'[j].failed <=> task[j].failed \/ state'[j] = "FAILURE"
      <3>1. PICK t : t = [task[j] EXCEPT !.runs = task[j].runs - 1,
                                         !.failed = task[j].failed \/ state'[j] = "FAILURE"]
        OBVIOUS
      <3>2. PICK b \in BOOLEAN : b <=> task[j].failed \/ state'[j] = "FAILURE"
        OBVIOUS
      <3>3. (task[j].failed \/ state'[j] = "FAILURE") = b
        BY <3>2
      <3>4. t = [task[j] EXCEPT !.runs = task[j].runs - 1, !.failed = b]
        BY <3>1, <3>3
      <3>5. /\ t \in Task /\ t.queue = task[j].queue /\ t.runs = task[j].runs - 1
            /\ t.repeated = task[j].repeated /\ t.failed = b
        <4>1. PICK n \in Nat : n = task[j].runs - 1
          BY <1>0, <2>2
        <4>2. PICK r \in Task : r = task[j]
          BY <1>0
        <4>3. t = [r EXCEPT !.runs = n, !.failed = b]
          BY <3>4, <4>1, <4>2
        <4>4. /\ t \in Task /\ t.queue = r.queue /\ t.runs = n
              /\ t.repeated = r.repeated /\ t.failed = b
          BY <4>3 DEF Task
        <4> QED
          BY <4>1, <4>2, <4>4
      <3>6. task' = [task EXCEPT ![j] = t]
        BY <2>1, <3>1
      <3> QED
        BY <3>2, <3>5, <3>6, OneTask
    <2>4. /\ state' \in [Job -> State]
          /\ \A k \in Job : k # j => state'[k] = state[k]
          /\ state'[j] = IF state[j] = "SUCCESS" THEN "SUCCESS" ELSE st
      BY <1>4, <2>1 DEF State
    <2> QED
      BY <1>0, <1>1, <1>3, <2>2, <2>3, <2>4 DEF Copies, Ended
  <1>8. CASE Redeliver(j)
    <2>1. state' = state /\ faults' \in 0..MaxFaults
      BY <1>0, <1>8 DEF Redeliver, Fault
    <2>2. /\ task' \in [Job -> Task]
          /\ \A k \in Job : k # j => task'[k] = task[k]
          /\ task'[j].repeated
          /\ task'[j].failed = task[j].failed
      <3>1. PICK t : t = [task[j] EXCEPT !.queue = task[j].queue + 1, !.repeated = TRUE]
        OBVIOUS
      <3>2. t \in Task /\ t.repeated /\ t.failed = task[j].failed
        <4>1. PICK q \in Nat : q = task[j].queue + 1
          BY <1>0
        <4>2. PICK r \in Task : r = task[j]
          BY <1>0
        <4>3. t = [r EXCEPT !.queue = q, !.repeated = TRUE]
          BY <3>1, <4>1, <4>2
        <4> QED
          BY <4>2, <4>3 DEF Task
      <3>3. task' = [task EXCEPT ![j] = t]
        BY <1>8, <3>1 DEF Redeliver
      <3> QED
        BY <3>2, <3>3, OneTask
    <2> QED
      BY <1>0, <1>1, <1>3, <2>1, <2>2
  <1>9. CASE WorkerDies(j)
    <2>1. state' = state /\ faults' \in 0..MaxFaults /\ task[j].runs > 0
      BY <1>0, <1>9 DEF WorkerDies, Fault
    <2>2. /\ task' \in [Job -> Task]
          /\ \A k \in Job : k # j => task'[k] = task[k]
          /\ \/ task'[j].queue = task[j].queue + 1
             \/ task'[j].queue = task[j].queue /\ Copies(j) > 1
          /\ task'[j].runs = task[j].runs - 1
          /\ task'[j].repeated = task[j].repeated /\ task'[j].failed = task[j].failed
      <3>1. CASE task' = [task EXCEPT ![j] = [@ EXCEPT !.queue = task[j].queue + 1,
                                                       !.runs = task[j].runs - 1]]
        <4>1. PICK t : t = [task[j] EXCEPT !.queue = task[j].queue + 1,
                                           !.runs = task[j].runs - 1]
          OBVIOUS
        <4>2. /\ t \in Task /\ t.queue = task[j].queue + 1 /\ t.runs = task[j].runs - 1
              /\ t.repeated = task[j].repeated /\ t.failed = task[j].failed
          <5>1. PICK q \in Nat : q = task[j].queue + 1
            BY <1>0
          <5>2. PICK n \in Nat : n = task[j].runs - 1
            BY <1>0, <2>1
          <5>3. PICK r \in Task : r = task[j]
            BY <1>0
          <5>4. t = [r EXCEPT !.queue = q, !.runs = n]
            BY <4>1, <5>1, <5>2, <5>3
          <5>5. /\ t \in Task /\ t.queue = q /\ t.runs = n
                /\ t.repeated = r.repeated /\ t.failed = r.failed
            BY <5>4 DEF Task
          <5> QED
            BY <5>1, <5>2, <5>3, <5>5
        <4>3. task' = [task EXCEPT ![j] = t]
          BY <3>1, <4>1
        <4> QED
          BY <4>2, <4>3, OneTask
      <3>2. CASE Copies(j) > 1 /\ task' = [task EXCEPT ![j].runs = @ - 1]
        BY <1>0, <2>1, <3>2 DEF Task
      <3> QED
        BY <1>9, <3>1, <3>2 DEF WorkerDies
    <2> QED
      BY <1>0, <1>1, <1>3, <2>1, <2>2 DEF Copies, Ended
  <1> QED
    BY <1>5, <1>6, <1>7, <1>8, <1>9 DEF WorkerStep

\* The workers and the broker: repeated runs included.
LEMMA WorkerKeeps ==
  ASSUME StatusInv, NEW j \in Job, WorkerStep(j)
  PROVE  StatusInv'
  <1>0. /\ TypeOK /\ JobsMoveForward /\ RunsCounted /\ ReadersAsk /\ CopiesTrue
        /\ RegistryBounded /\ LatestSettles
    BY DEF StatusInv
  <1>1. /\ celery /\ UNCHANGED <<celery, tracked, entry, latest, upload, reader, told>>
        /\ state' \in [Job -> State] /\ task' \in [Job -> Task]
        /\ faults' \in 0..MaxFaults
        /\ \A k \in Job : k # j => state'[k] = state[k] /\ task'[k] = task[k]
        /\ state[j] # "NONE" /\ state'[j] # "NONE"
        /\ state[j] = "SUCCESS" => state'[j] = "SUCCESS"
        /\ task[j].failed => task'[j].failed
        /\ task[j].repeated => task'[j].repeated
        /\ state'[j] = "FAILURE" => task'[j].failed
        /\ ~task'[j].repeated =>
               /\ Copies(j)' <= 1
               /\ (Ended(j) => Copies(j) = 0)'
               /\ task'[j].failed => state'[j] = "FAILURE"
               /\ state[j] = "FAILURE" => state'[j] = "FAILURE"
    BY <1>0, WorkerMoves
  <1>2. TypeOK'
    BY <1>0, <1>1 DEF TypeOK
  <1>3. JobsMoveForward'
    BY <1>0, <1>1 DEF JobsMoveForward, Tracked
  <1>4. RunsCounted'
    <2>1. ASSUME NEW k \in Job, k # j
          PROVE  Copies(k)' = Copies(k) /\ (Ended(k)' <=> Ended(k))
      BY <1>1, <2>1 DEF Copies, Ended
    <2> QED
      BY <1>0, <1>1, <2>1 DEF RunsCounted
  <1>5. ReadersAsk' /\ RegistryBounded' /\ LatestSettles'
    BY <1>0, <1>1 DEF ReadersAsk, RegistryBounded, LatestSettles
  <1>6. CopiesTrue'
    <2>1. \A k \in Job : Lasting(k)
      BY <1>1 DEF Lasting
    <2>2. \A r \in Reader : reader'[r].pc \in Answered => reader[r].job \in Job
      BY <1>0, <1>1 DEF ReadersAsk, Answered
    <2> QED
      BY <1>0, <1>1, <2>1, <2>2, CopiesStay
  <1> QED
    BY <1>2, <1>3, <1>4, <1>5, <1>6 DEF StatusInv

\* What Reader gives: every browser and the one that asks for the latest.
LEMMA Readers ==
  /\ Anyone \in Reader /\ Browser \subseteq Reader /\ Anyone \notin Browser
  /\ Browser \subseteq Job
  BY NamesAssumption DEF Reader

\* A browser opens its stream, or someone asks for the latest job.
LEMMA AskKeeps ==
  ASSUME StatusInv, AskLatest \/ \E j \in Browser : OpenStream(j)
  PROVE  StatusInv'
  <1>0. /\ TypeOK /\ JobsMoveForward /\ RunsCounted /\ ReadersAsk /\ CopiesTrue
        /\ RegistryBounded /\ LatestSettles
    BY DEF StatusInv
  <1>1. UNCHANGED <<celery, state, task, tracked, entry, latest, upload, told, faults>>
    BY DEF AskLatest, OpenStream, registry
  <1>2. PICK r \in Reader, j \in Job :
            /\ reader' = [reader EXCEPT ![r] = [NoReader EXCEPT !.pc = "open", !.job = j]]
            /\ r \in Browser => r = j
    <2>1. CASE AskLatest
      BY <1>0, <2>1, Readers DEF AskLatest, TypeOK, Snapshot
    <2>2. CASE \E j \in Browser : OpenStream(j)
      BY <2>2, Readers DEF OpenStream
    <2> QED
      BY <2>1, <2>2
  <1>3. /\ reader'[r] = [pc |-> "open", job |-> j, status |-> "idle"]
        /\ \A k \in Reader : k # r => reader'[k] = reader[k]
    BY <1>0, <1>2 DEF TypeOK, NoReader
  <1>4. TypeOK'
    <2>1. [NoReader EXCEPT !.pc = "open", !.job = j]
             \in [pc : ReaderPc, job : Job \cup {NoJob}, status : Status]
      BY DEF NoReader, ReaderPc, Status
    <2>2. reader' \in [Reader -> [pc : ReaderPc, job : Job \cup {NoJob}, status : Status]]
      BY <1>0, <1>2, <2>1 DEF TypeOK
    <2> QED
      BY <1>0, <1>1, <2>2 DEF TypeOK
  <1>5. JobsMoveForward' /\ RunsCounted' /\ RegistryBounded' /\ LatestSettles'
    BY <1>0, <1>1
    DEF JobsMoveForward, Tracked, RunsCounted, Copies, RegistryBounded, LatestSettles, Ended
  <1>6. ReadersAsk'
    BY <1>0, <1>1, <1>2, <1>3 DEF ReadersAsk
  <1>7. CopiesTrue'
    BY <1>0, <1>1, <1>3 DEF CopiesTrue, TrueOf, Answered
  <1> QED
    BY <1>4, <1>5, <1>6, <1>7 DEF StatusInv

\* The answer is true of the job the reader asked for.
LEMMA ReadStatusKeeps ==
  ASSUME StatusInv, NEW r \in Reader, ReadStatus(r)
  PROVE  StatusInv'
  <1>0. /\ TypeOK /\ JobsMoveForward /\ RunsCounted /\ ReadersAsk /\ CopiesTrue
        /\ RegistryBounded /\ LatestSettles
    BY DEF StatusInv
  <1> DEFINE j == reader[r].job
  <1>1. /\ reader[r].pc = "open"
        /\ reader' = [reader EXCEPT ![r] =
                         [@ EXCEPT !.pc = IF celery THEN "store" ELSE "deliver",
                                   !.status = Answer(j)]]
        /\ UNCHANGED <<celery, state, task, tracked, entry, latest, upload, told, faults>>
    BY DEF ReadStatus, registry
  <1>2. j \in Job /\ (r \in Browser => j = r)
    BY <1>0, <1>1 DEF ReadersAsk
  <1>3. Answer(j) \in Status /\ TrueOf(j, Answer(j))
    <2> DEFINE reported == celery /\ state[j] \in {"PROGRESS", "SUCCESS", "FAILURE"}
    <2>1. CASE reported
      <3>1. Answer(j) = StatusOf[state[j]]
        BY <2>1 DEF Answer
      <3>2. TrueOf(j, StatusOf[state[j]])
        BY <1>0, <1>2, <2>1 DEF TrueOf, StatusOf, RunsCounted
      <3> QED
        BY <1>0, <1>2, <3>1, <3>2, Fields
    <2>2. CASE ~reported /\ Tracked(j)
      <3>1. Answer(j) = entry[j]
        BY <2>2 DEF Answer
      <3> QED
        BY <1>0, <1>2, <3>1, Fields DEF CopiesTrue
    <2>3. CASE ~reported /\ ~Tracked(j)
      <3>1. Answer(j) = "idle"
        BY <2>3 DEF Answer
      <3> QED
        BY <3>1 DEF TrueOf, Status
    <2> QED
      BY <2>1, <2>2, <2>3
  <1>4. /\ reader'[r].pc = IF celery THEN "store" ELSE "deliver"
        /\ reader'[r].job = j
        /\ reader'[r].status = Answer(j)
        /\ reader'[r] \in [pc : ReaderPc, job : Job \cup {NoJob}, status : Status]
        /\ \A k \in Reader : k # r => reader'[k] = reader[k]
    <2>1. reader[r] \in [pc : ReaderPc, job : Job \cup {NoJob}, status : Status]
      BY <1>0 DEF TypeOK
    <2>2. reader'[r] = [reader[r] EXCEPT !.pc = IF celery THEN "store" ELSE "deliver",
                                         !.status = Answer(j)]
      BY <1>0, <1>1 DEF TypeOK
    <2>3. \A k \in Reader : k # r => reader'[k] = reader[k]
      BY <1>0, <1>1 DEF TypeOK
    <2> HIDE DEF j
    <2>4. PICK c : c = Answer(j)
      OBVIOUS
    <2> QED
      BY <1>2, <1>3, <2>1, <2>2, <2>3, <2>4 DEF ReaderPc, j
  <1> HIDE DEF j
  <1>5. TypeOK'
    <2>1. reader' \in [Reader -> [pc : ReaderPc, job : Job \cup {NoJob}, status : Status]]
      BY <1>0, <1>1, <1>4 DEF TypeOK
    <2> QED
      BY <1>0, <1>1, <2>1 DEF TypeOK
  <1>6. JobsMoveForward' /\ RunsCounted' /\ RegistryBounded' /\ LatestSettles'
    BY <1>0, <1>1
    DEF JobsMoveForward, Tracked, RunsCounted, Copies, RegistryBounded, LatestSettles, Ended
  <1>7. ReadersAsk'
    BY <1>0, <1>1, <1>2, <1>4 DEF ReadersAsk
  <1>8. CopiesTrue'
    <2>1. TrueNext(j, Answer(j))
      BY <1>1, <1>3 DEF TrueOf, TrueNext
    <2>2. TrueNext(reader'[r].job, reader'[r].status)
      BY <1>4, <2>1
    <2>3. \A k \in Reader : k # r /\ reader'[k].pc \in Answered =>
              reader[k].job \in Job
      BY <1>0, <1>4 DEF ReadersAsk, Answered
    <2> QED
      BY <1>0, <1>1, <1>4, <2>2, <2>3, NothingChanges, CopiesStay DEF Answered
  <1> QED
    BY <1>5, <1>6, <1>7, <1>8 DEF StatusInv

\* The answer is written back over an entry that is still there.
LEMMA StoreEntryKeeps ==
  ASSUME StatusInv, NEW r \in Reader, StoreEntry(r)
  PROVE  StatusInv'
  <1>0. /\ TypeOK /\ JobsMoveForward /\ RunsCounted /\ ReadersAsk /\ CopiesTrue
        /\ RegistryBounded /\ LatestSettles
    BY DEF StatusInv
  <1> DEFINE j == reader[r].job
  <1>1. /\ reader[r].pc = "store"
        /\ entry' = IF Tracked(j) THEN [entry EXCEPT ![j] = reader[r].status] ELSE entry
        /\ reader' = [reader EXCEPT ![r].pc = "compare"]
        /\ UNCHANGED <<celery, state, task, tracked, latest, upload, told, faults>>
    BY DEF StoreEntry
  <1>2. /\ j \in Job /\ (r \in Browser => j = r) /\ celery
        /\ reader[r].status \in Status /\ TrueOf(j, reader[r].status)
    BY <1>0, <1>1, Fields DEF ReadersAsk, CopiesTrue, Answered
  <1>3. /\ reader'[r].pc = "compare"
        /\ reader'[r].job = j
        /\ reader'[r].status = reader[r].status
        /\ reader'[r] \in [pc : ReaderPc, job : Job \cup {NoJob}, status : Status]
        /\ \A k \in Reader : k # r => reader'[k] = reader[k]
    BY <1>0, <1>1 DEF TypeOK, ReaderPc
  <1> HIDE DEF j
  <1>4. TypeOK'
    <2>1. reader' \in [Reader -> [pc : ReaderPc, job : Job \cup {NoJob}, status : Status]]
      BY <1>0, <1>1, <1>3 DEF TypeOK
    <2>2. entry' \in [Job -> Status]
      BY <1>0, <1>1, <1>2 DEF TypeOK
    <2> QED
      BY <1>0, <1>1, <2>1, <2>2 DEF TypeOK
  <1>5. JobsMoveForward' /\ RunsCounted' /\ RegistryBounded' /\ LatestSettles'
    BY <1>0, <1>1
    DEF JobsMoveForward, Tracked, RunsCounted, Copies, RegistryBounded, LatestSettles, Ended
  <1>6. ReadersAsk'
    BY <1>0, <1>1, <1>2, <1>3 DEF ReadersAsk
  <1>7. CopiesTrue'
    <2>1. TrueNext(j, reader[r].status)
      BY <1>1, <1>2 DEF TrueOf, TrueNext
    <2>2. \A k \in Job : entry'[k] = entry[k] \/ TrueNext(k, entry'[k])
      BY <1>0, <1>1, <2>1 DEF TypeOK
    <2>3. \A k \in Reader : k # r /\ reader'[k].pc \in Answered =>
              reader[k].job \in Job
      BY <1>0, <1>3 DEF ReadersAsk, Answered
    <2>4. TrueNext(reader'[r].job, reader'[r].status)
      BY <1>3, <2>1
    <2> QED
      BY <1>0, <1>1, <1>3, <2>2, <2>3, <2>4, NothingChanges, CopiesStay DEF Answered
  <1> QED
    BY <1>4, <1>5, <1>6, <1>7 DEF StatusInv

\* The reader finds its job to be the latest one, or not.
LEMMA CompareReadKeeps ==
  ASSUME StatusInv, NEW r \in Reader, CompareRead(r)
  PROVE  StatusInv'
  <1>0. /\ TypeOK /\ JobsMoveForward /\ RunsCounted /\ ReadersAsk /\ CopiesTrue
        /\ RegistryBounded /\ LatestSettles
    BY DEF StatusInv
  <1>1. /\ reader[r].pc = "compare"
        /\ reader' = [reader EXCEPT ![r].pc = IF latest.job = reader[r].job THEN "mirror"
                                              ELSE "deliver"]
        /\ UNCHANGED <<celery, state, task, tracked, entry, latest, upload, told, faults>>
    BY DEF CompareRead, registry
  <1>2. reader[r].job \in Job /\ celery
    BY <1>0, <1>1 DEF ReadersAsk
  <1>3. /\ reader'[r].pc \in {"mirror", "deliver"}
        /\ reader'[r].job = reader[r].job
        /\ reader'[r].status = reader[r].status
        /\ reader'[r] \in [pc : ReaderPc, job : Job \cup {NoJob}, status : Status]
        /\ \A k \in Reader : k # r => reader'[k] = reader[k]
    BY <1>0, <1>1 DEF TypeOK, ReaderPc
  <1>4. TypeOK'
    <2>1. reader' \in [Reader -> [pc : ReaderPc, job : Job \cup {NoJob}, status : Status]]
      BY <1>0, <1>1, <1>3 DEF TypeOK
    <2> QED
      BY <1>0, <1>1, <2>1 DEF TypeOK
  <1>5. JobsMoveForward' /\ RunsCounted' /\ RegistryBounded' /\ LatestSettles'
    BY <1>0, <1>1
    DEF JobsMoveForward, Tracked, RunsCounted, Copies, RegistryBounded, LatestSettles, Ended
  <1>6. ReadersAsk'
    BY <1>0, <1>1, <1>2, <1>3 DEF ReadersAsk
  <1>7. CopiesTrue'
    BY <1>0, <1>1, <1>3 DEF CopiesTrue, TrueOf, Answered
  <1> QED
    BY <1>4, <1>5, <1>6, <1>7 DEF StatusInv

\* The answer becomes the latest snapshot: only with Celery.
LEMMA MirrorReadKeeps ==
  ASSUME StatusInv, NEW r \in Reader, MirrorRead(r)
  PROVE  StatusInv'
  <1>0. /\ TypeOK /\ JobsMoveForward /\ RunsCounted /\ ReadersAsk /\ CopiesTrue
        /\ RegistryBounded /\ LatestSettles
    BY DEF StatusInv
  <1>1. /\ reader[r].pc = "mirror"
        /\ latest' = Latest(reader[r].job, reader[r].status)
        /\ reader' = [reader EXCEPT ![r].pc = "deliver"]
        /\ UNCHANGED <<celery, state, task, tracked, entry, upload, told, faults>>
    BY DEF MirrorRead, registry
  <1>2. /\ reader[r].job \in Job /\ celery /\ reader[r].status \in Status
    BY <1>0, <1>1, Fields DEF ReadersAsk
  <1>3. /\ reader'[r].pc = "deliver"
        /\ reader'[r].job = reader[r].job
        /\ reader'[r].status = reader[r].status
        /\ reader'[r] \in [pc : ReaderPc, job : Job \cup {NoJob}, status : Status]
        /\ \A k \in Reader : k # r => reader'[k] = reader[k]
    BY <1>0, <1>1 DEF TypeOK, ReaderPc
  <1>4. TypeOK'
    <2>1. reader' \in [Reader -> [pc : ReaderPc, job : Job \cup {NoJob}, status : Status]]
      BY <1>0, <1>1, <1>3 DEF TypeOK
    <2>2. latest' \in Snapshot
      BY <1>1, <1>2 DEF Snapshot, Latest
    <2> QED
      BY <1>0, <1>1, <2>1, <2>2 DEF TypeOK
  <1>5. JobsMoveForward' /\ RunsCounted' /\ RegistryBounded' /\ LatestSettles'
    BY <1>0, <1>1, <1>2
    DEF JobsMoveForward, Tracked, RunsCounted, Copies, RegistryBounded, LatestSettles, Ended
  <1>6. ReadersAsk'
    BY <1>0, <1>1, <1>2, <1>3 DEF ReadersAsk
  <1>7. CopiesTrue'
    BY <1>0, <1>1, <1>3 DEF CopiesTrue, TrueOf, Answered
  <1> QED
    BY <1>4, <1>5, <1>6, <1>7 DEF StatusInv

\* A frame is sent: what the browser is told is what its reader held.
LEMMA DeliverKeeps ==
  ASSUME StatusInv, NEW r \in Reader, Deliver(r)
  PROVE  StatusInv'
  <1>0. /\ TypeOK /\ JobsMoveForward /\ RunsCounted /\ ReadersAsk /\ CopiesTrue
        /\ RegistryBounded /\ LatestSettles
    BY DEF StatusInv
  <1>1. /\ reader[r].pc = "deliver"
        /\ told' = IF r \in Browser /\ reader[r].status \in Terminal
                   THEN [told EXCEPT ![r] = reader[r].status] ELSE told
        /\ reader' = [reader EXCEPT ![r] =
                         IF r = Anyone \/ reader[r].status \in Terminal THEN NoReader
                         ELSE [@ EXCEPT !.pc = "open", !.status = "idle"]]
        /\ UNCHANGED <<celery, state, task, tracked, entry, latest, upload, faults>>
    BY DEF Deliver, registry
  <1>2. /\ reader[r].job \in Job /\ (r \in Browser => reader[r].job = r)
        /\ reader[r].status \in Status /\ TrueOf(reader[r].job, reader[r].status)
    BY <1>0, <1>1, Fields DEF ReadersAsk, CopiesTrue, Answered
  <1>3. /\ reader'[r].pc \in {"closed", "open"}
        /\ reader'[r].pc = "open" => reader'[r].job = reader[r].job
        /\ reader'[r] \in [pc : ReaderPc, job : Job \cup {NoJob}, status : Status]
        /\ \A k \in Reader : k # r => reader'[k] = reader[k]
    <2>1. \A k \in Reader : k # r => reader'[k] = reader[k]
      BY <1>0, <1>1 DEF TypeOK
    <2>2. CASE r = Anyone \/ reader[r].status \in Terminal
      <3>1. reader'[r] = NoReader
        BY <1>0, <1>1, <2>2 DEF TypeOK
      <3> QED
        BY <2>1, <3>1 DEF NoReader, ReaderPc, Status
    <2>3. CASE ~(r = Anyone \/ reader[r].status \in Terminal)
      <3>1. reader'[r] = [reader[r] EXCEPT !.pc = "open", !.status = "idle"]
        BY <1>0, <1>1, <2>3 DEF TypeOK
      <3>2. reader[r] \in [pc : ReaderPc, job : Job \cup {NoJob}, status : Status]
        BY <1>0 DEF TypeOK
      <3> QED
        BY <2>1, <3>1, <3>2 DEF ReaderPc, Status
    <2> QED
      BY <2>2, <2>3
  <1>4. TypeOK'
    <2>1. reader' \in [Reader -> [pc : ReaderPc, job : Job \cup {NoJob}, status : Status]]
      BY <1>0, <1>1, <1>3 DEF TypeOK
    <2>2. told' \in [Browser -> Status]
      BY <1>0, <1>1, <1>2 DEF TypeOK
    <2> QED
      BY <1>0, <1>1, <2>1, <2>2 DEF TypeOK
  <1>5. JobsMoveForward' /\ RunsCounted' /\ RegistryBounded' /\ LatestSettles'
    BY <1>0, <1>1
    DEF JobsMoveForward, Tracked, RunsCounted, Copies, RegistryBounded, LatestSettles, Ended
  <1>6. ReadersAsk'
    BY <1>0, <1>1, <1>2, <1>3 DEF ReadersAsk
  <1>7. CopiesTrue'
    <2>1. TrueNext(reader[r].job, reader[r].status)
      BY <1>1, <1>2 DEF TrueOf, TrueNext
    <2>2. \A k \in Browser : told'[k] = told[k] \/ TrueNext(k, told'[k])
      BY <1>0, <1>1, <1>2, <2>1 DEF TypeOK
    <2>3. \A k \in Reader : k # r /\ reader'[k].pc \in Answered =>
              reader[k].job \in Job
      BY <1>0, <1>3 DEF ReadersAsk, Answered
    <2> QED
      BY <1>0, <1>1, <1>3, <2>2, <2>3, NothingChanges, CopiesStay DEF Answered
  <1> QED
    BY <1>4, <1>5, <1>6, <1>7 DEF StatusInv

\* POST /api/clear.
LEMMA ClearKeeps ==
  ASSUME StatusInv, Clear
  PROVE  StatusInv'
  <1>0. /\ TypeOK /\ JobsMoveForward /\ RunsCounted /\ ReadersAsk /\ CopiesTrue
        /\ RegistryBounded /\ LatestSettles
    BY DEF StatusInv
  <1>1. /\ latest' = [job |-> NoJob, status |-> "idle"]
        /\ UNCHANGED <<celery, state, task, tracked, entry, upload, reader, told, faults>>
    BY DEF Clear, registry, Nothing, Latest
  <1>2. TypeOK'
    BY <1>0, <1>1 DEF TypeOK, Snapshot, Status
  <1>3. JobsMoveForward' /\ RunsCounted' /\ RegistryBounded' /\ ReadersAsk' /\ CopiesTrue'
    BY <1>0, <1>1
    DEF JobsMoveForward, Tracked, RunsCounted, Copies, Ended, RegistryBounded,
        ReadersAsk, CopiesTrue, TrueOf
  <1>4. LatestSettles'
    BY <1>1 DEF LatestSettles, Latest
  <1> QED
    BY <1>2, <1>3, <1>4 DEF StatusInv

\* An empty registry tracks nothing and has no duplicates.
LEMMA EmptyRegistry ==
  /\ <<>> \in Seq(Job) /\ IsInjective(<<>>) /\ Len(<<>>) = 0
  /\ \A j \in Job : ~Contains(<<>>, j)
  BY DEF IsInjective, Contains

\* A restart of the web process: the analyses and what was told stay.
LEMMA RestartKeeps ==
  ASSUME StatusInv, Restart
  PROVE  StatusInv'
  <1>0. /\ TypeOK /\ JobsMoveForward /\ RunsCounted /\ ReadersAsk /\ CopiesTrue
        /\ RegistryBounded /\ LatestSettles
    BY DEF StatusInv
  <1>1. /\ faults < MaxFaults
        /\ faults' = faults + 1
        /\ tracked' = <<>>
        /\ entry' = [j \in Job |-> "idle"]
        /\ latest' = [job |-> NoJob, status |-> "idle"]
        /\ upload' = [j \in Job |-> IF upload[j].pc = "idle" THEN upload[j]
                                    ELSE [pc |-> "over", status |-> "analyzing"]]
        /\ reader' = [r \in Reader |-> IF r = Anyone \/ reader[r].pc = "closed"
                                       THEN NoReader
                                       ELSE [NoReader EXCEPT !.pc = "cut"]]
        /\ UNCHANGED <<celery, state, task, told>>
    BY DEF Restart, Fault, Nothing, Latest
  <1>2. \A r \in Reader :
            /\ reader'[r].pc \in {"closed", "cut"}
            /\ reader'[r] \in [pc : ReaderPc, job : Job \cup {NoJob}, status : Status]
    BY <1>1 DEF NoReader, ReaderPc, Status
  <1>3. \A j \in Job :
            /\ upload'[j].pc \in {"idle", "over"}
            /\ upload'[j].pc = "idle" => upload[j].pc = "idle"
            /\ upload'[j] \in [pc : UploadPc, status : Status]
    BY <1>0, <1>1, Fields DEF UploadPc, Status
  <1>4. TypeOK'
    <2>1. reader' \in [Reader -> [pc : ReaderPc, job : Job \cup {NoJob}, status : Status]]
      BY <1>1, <1>2
    <2>2. upload' \in [Job -> [pc : UploadPc, status : Status]]
      BY <1>1, <1>3
    <2>3. entry' \in [Job -> Status] /\ latest' \in Snapshot
      BY <1>1 DEF Snapshot, Status
    <2>4. faults' \in 0..MaxFaults
      BY <1>0, <1>1, BoundsAssumption DEF TypeOK
    <2>5. tracked' \in Seq(Job) /\ IsInjective(tracked')
      BY <1>1, EmptyRegistry
    <2> QED
      BY <1>0, <1>1, <2>1, <2>2, <2>3, <2>4, <2>5 DEF TypeOK
  <1>5. JobsMoveForward'
    <2>1. \A j \in Job : ~Tracked(j)'
      BY <1>1, EmptyRegistry DEF Tracked
    <2> QED
      BY <1>0, <1>1, <1>3, <2>1 DEF JobsMoveForward
  <1>6. ReadersAsk'
    BY <1>2 DEF ReadersAsk
  <1>7. RegistryBounded'
    BY <1>1, EmptyRegistry, BoundsAssumption DEF RegistryBounded
  <1>8. CopiesTrue'
    BY <1>0, <1>1, <1>2 DEF CopiesTrue, TrueOf, Answered
  <1>9. LatestSettles'
    BY <1>1 DEF LatestSettles, Latest
  <1>10. RunsCounted'
    BY <1>0, <1>1 DEF RunsCounted, Copies, Ended
  <1> QED
    BY <1>4, <1>5, <1>6, <1>7, <1>8, <1>9, <1>10 DEF StatusInv

\* The invariant holds at the start.
LEMMA InitStatusInv == Init => StatusInv
  <1> SUFFICES ASSUME Init PROVE StatusInv
    OBVIOUS
  <1>1. TypeOK
    BY EmptyRegistry, BoundsAssumption
    DEF Init, TypeOK, Nothing, Latest, NoReader, NoTask, Task, Snapshot, State, Status,
        UploadPc, ReaderPc
  <1>2. JobsMoveForward
    BY EmptyRegistry DEF Init, JobsMoveForward, Tracked
  <1>3. ReadersAsk
    BY DEF Init, ReadersAsk, NoReader
  <1>4. CopiesTrue
    BY DEF Init, CopiesTrue, TrueOf, Answered, NoReader
  <1>5. RegistryBounded
    BY EmptyRegistry, BoundsAssumption DEF Init, RegistryBounded
  <1>6. LatestSettles
    BY DEF Init, LatestSettles, Nothing, Latest
  <1>7. RunsCounted
    BY DEF Init, RunsCounted, Copies, NoTask
  <1> QED
    BY <1>1, <1>2, <1>3, <1>4, <1>5, <1>6, <1>7 DEF StatusInv

\* Every step keeps the invariant.
LEMMA NextStatusInv == StatusInv /\ [Next]_vars => StatusInv'
  <1> SUFFICES ASSUME StatusInv, [Next]_vars PROVE StatusInv'
    OBVIOUS
  <1>1. CASE \E j \in Job : RegisterJob(j)
    BY <1>1, RegisterKeeps
  <1>2. CASE \E j \in Job : UploadStep(j)
    <2>1. PICK j \in Job :
              Announce(j) \/ CompareUpdate(j) \/ MirrorUpdate(j)
              \/ \E st \in State : UpdateJob(j, st)
      BY <1>2 DEF UploadStep
    <2> QED
      BY <2>1, AnnounceKeeps, CompareUpdateKeeps, MirrorUpdateKeeps, UpdateKeeps
  <1>3. CASE AskLatest \/ \E j \in Browser : OpenStream(j)
    BY <1>3, AskKeeps
  <1>4. CASE \E j \in Job : WorkerStep(j)
    BY <1>4, WorkerKeeps
  <1>5. CASE \E r \in Reader : ReadStep(r)
    BY <1>5, ReadStatusKeeps, StoreEntryKeeps, CompareReadKeeps, MirrorReadKeeps,
       DeliverKeeps
    DEF ReadStep
  <1>6. CASE Clear
    BY <1>6, ClearKeeps
  <1>7. CASE Restart
    BY <1>7, RestartKeeps
  <1>8. CASE UNCHANGED vars
    <2>1. UNCHANGED <<celery, state, task, tracked, entry, latest, upload, reader, told,
                      faults>>
      BY <1>8 DEF vars
    <2>2. TypeOK /\ JobsMoveForward /\ RunsCounted /\ ReadersAsk /\ CopiesTrue
          /\ RegistryBounded /\ LatestSettles
      BY DEF StatusInv
    <2>3. TypeOK'
      BY <2>1, <2>2 DEF TypeOK
    <2>4. JobsMoveForward' /\ RunsCounted' /\ RegistryBounded' /\ LatestSettles'
      BY <2>1, <2>2 DEF JobsMoveForward, Tracked, RunsCounted, Copies, RegistryBounded,
                        LatestSettles, Ended
    <2>5. ReadersAsk' /\ CopiesTrue'
      BY <2>1, <2>2 DEF ReadersAsk, CopiesTrue, TrueOf
    <2> QED
      BY <2>3, <2>4, <2>5 DEF StatusInv
  <1> QED
    BY <1>1, <1>2, <1>3, <1>4, <1>5, <1>6, <1>7, <1>8 DEF Next

(***************************************************************************)
(* The theorems.                                                           *)
(***************************************************************************)

\* Whatever uploads, readers, workers, clears and faults do to the registry of
\* routes.common, the invariant holds.
THEOREM StatusInvariant == Spec => []StatusInv
  <1>1. StatusInv /\ [Next]_vars => StatusInv'
    BY NextStatusInv
  <1> QED
    BY <1>1, InitStatusInv, PTL DEF Spec

\* The registry, the snapshots and the requests keep their types, and no job is
\* tracked twice.
THEOREM TypeCorrect == Spec => []TypeOK
  <1>1. StatusInv => TypeOK
    BY DEF StatusInv
  <1> QED
    BY <1>1, StatusInvariant, PTL

\* A browser is told "completed" only of its own completed analysis, and "error"
\* only when a run of that analysis stored a failure, the last word unless the
\* message was delivered again (acks late): the last write of a reader, of another
\* upload or of the latest snapshot never passes for it.
THEOREM NobodyIsMisled == Spec => []ToldTheTruth
  <1>1. StatusInv => ToldTheTruth
    BY DEF StatusInv, CopiesTrue, ToldTheTruth
  <1> QED
    BY <1>1, StatusInvariant, PTL

\* With Celery no interleaving of uploads and readers makes the registry outgrow
\* MAX_TRACKED_JOBS.
THEOREM RegistryStaysBounded == Spec => []RegistryBounded
  <1>1. StatusInv => RegistryBounded
    BY DEF StatusInv
  <1> QED
    BY <1>1, StatusInvariant, PTL

\* Without Celery the latest snapshot never keeps saying "analyzing" of a job whose
\* thread has mirrored its end.
THEOREM LatestCatchesUp == Spec => []LatestSettles
  <1>1. StatusInv => LatestSettles
    BY DEF StatusInv
  <1> QED
    BY <1>1, StatusInvariant, PTL
=============================================================================
