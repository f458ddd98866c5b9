-------------------------- MODULE AuditChainProofs --------------------------
(***************************************************************************)
(* For every number of threads, rows and contents: the audit log's chain   *)
(* verifies as long as nobody touches a committed row, and an edited or a  *)
(* removed row is reported.  The argument is ChainInv: the advisory lock   *)
(* is held from the read of the tail to the commit, so no other row is     *)
(* committed in between, and hashes are never rewritten.                   *)
(***************************************************************************)
EXTENDS AuditChain, FiniteSetTheorems, WellFoundedInduction, TLAPS

(***************************************************************************)
(* Digests.  Only these lemmas open Digest, Genesis and RowHash.           *)
(***************************************************************************)
LEMMA DigestType ==
  /\ Genesis \in Digest
  /\ \A d \in Digest, b \in Body : RowHash(d, b) \in Digest
  BY DEF Genesis, Digest, RowHash

\* Rows with other contents have other hashes.
LEMMA RowHashInjective ==
  ASSUME NEW d \in Digest, NEW b \in Body, NEW c \in Body,
         RowHash(d, b) = RowHash(d, c)
  PROVE  b = c
  <1>1. Append(d, b)[Len(d) + 1] = b /\ Append(d, c)[Len(d) + 1] = c
    BY DEF Digest
  <1> QED
    BY <1>1 DEF RowHash

\* A row commits to something, the genesis to nothing.
LEMMA RowHashLinked ==
  ASSUME NEW d \in Digest, NEW b \in Body
  PROVE  RowHash(d, b) # Genesis
  <1>1. Len(Append(d, b)) = Len(d) + 1 /\ Len(d) \in Nat
    BY DEF Digest
  <1> QED
    BY <1>1 DEF RowHash, Genesis

\* Rows that are there have a last one: of the sets of the rows above one of
\* them, a minimal one is empty.
LEMMA TailExists ==
  ASSUME TypeOK, DOMAIN log # {}
  PROVE  \E i \in DOMAIN log : IsTail(i)
  <1> DEFINE Above(i) == {j \in DOMAIN log : j > i}
             Sets == {Above(i) : i \in DOMAIN log}
  <1>1. DOMAIN log \subseteq RowId /\ RowId \subseteq Nat
    BY BoundsAssumption DEF TypeOK, RowId
  <1>2. IsFiniteSet(RowId)
    BY FS_Interval, BoundsAssumption DEF RowId
  <1>3. Sets \subseteq FiniteSubsetsOf(RowId) /\ Sets # {}
    <2>1. \A i \in DOMAIN log : Above(i) \in SUBSET RowId
      BY <1>1
    <2>2. FiniteSubsetsOf(RowId) = SUBSET RowId
      BY <1>2, FS_FiniteSubsetsOfFinite
    <2> HIDE DEF Above
    <2> QED
      BY <2>1, <2>2
  <1>4. IsWellFoundedOn(StrictSubsetOrdering(RowId), FiniteSubsetsOf(RowId))
    BY FS_StrictSubsetOrderingWellFounded
  <1>5. PICK x \in Sets : \A y \in Sets : ~(<<y, x>> \in StrictSubsetOrdering(RowId))
    <2> HIDE DEF Sets
    <2> QED
      BY <1>3, <1>4, WFMin
  <1>6. PICK i \in DOMAIN log : x = Above(i)
    BY <1>5
  <1>7. ASSUME NEW j \in DOMAIN log, ~(j <= i) PROVE FALSE
    <2>1. Above(j) \in Sets
      OBVIOUS
    <2>5. i \in Nat /\ j \in Nat
      BY <1>1
    <2>2. j > i
      BY <2>5, <1>7
    <2>6. \A k \in DOMAIN log : k > j => k > i
      <3>1. TAKE k \in DOMAIN log
      <3>2. k \in Nat
        BY <1>1
      <3> QED
        BY <3>2, <2>5, <2>2
    <2>3. Above(j) \subseteq Above(i) /\ j \in Above(i) /\ j \notin Above(j)
      BY <2>5, <2>6, <2>2
    <2>4. <<Above(j), Above(i)>> \in StrictSubsetOrdering(RowId)
      BY <2>3, <1>1 DEF StrictSubsetOrdering
    <2> QED
      BY <2>1, <2>4, <1>5, <1>6
  <1> QED
    BY <1>7 DEF IsTail

(***************************************************************************)
(* Type correctness.                                                       *)
(***************************************************************************)
LEMMA IdleType == Idle \in Run /\ Idle.pc = "idle"
  <1>1. (CHOOSE b \in Body : TRUE) \in Body
    BY BodyAssumption
  <1> QED
    BY <1>1, DigestType DEF Idle, Run, Pc

\* The hash of the last row, or the one that commits to nothing.
LEMMA TailHashType ==
  ASSUME TypeOK
  PROVE  /\ TailHash \in Digest
         /\ DOMAIN log = {} => TailHash = Genesis
         /\ DOMAIN log # {} => \E i \in DOMAIN log : IsTail(i) /\ TailHash = log[i].hash
  <1>1. CASE DOMAIN log = {}
    BY <1>1, DigestType DEF TailHash
  <1>2. CASE DOMAIN log # {}
    <2> DEFINE t == CHOOSE i \in DOMAIN log : IsTail(i)
    <2>1. t \in DOMAIN log /\ IsTail(t)
      BY <1>2, TailExists
    <2>2. TailHash = log[t].hash
      BY <1>2 DEF TailHash
    <2>3. log[t] \in Row
      BY <2>1 DEF TypeOK
    <2> HIDE DEF t
    <2> QED
      BY <1>2, <2>1, <2>2, <2>3 DEF Row
  <1> QED
    BY <1>1, <1>2

LEMMA NewRowType ==
  ASSUME TypeOK, NEW w \in Writer
  PROVE  NewRow(w) \in Row
  <1>1. writer[w] \in Run
    BY DEF TypeOK
  <1>2. writer[w].tail \in Digest /\ writer[w].body \in Body
    BY <1>1 DEF Run
  <1> QED
    BY <1>2, DigestType DEF NewRow, Row

LEMMA InitType == Init => TypeOK
  BY IdleType, BoundsAssumption DEF Init, TypeOK

LEMMA NextType == TypeOK /\ [Next]_vars => TypeOK'
  <1> SUFFICES ASSUME TypeOK, [Next]_vars PROVE TypeOK'
    OBVIOUS
  <1> USE BoundsAssumption
  <1>1. ASSUME NEW w \in Writer, NEW b \in Body, Request(w, b) PROVE TypeOK'
    <2>1. [Idle EXCEPT !.pc = "waiting", !.body = b] \in Run
      BY DigestType DEF Idle, Run, Pc
    <2> QED
      BY <1>1, <2>1 DEF Request, TypeOK
  <1>2. ASSUME NEW w \in Writer, Acquire(w) PROVE TypeOK'
    <2>1. [writer[w] EXCEPT !.pc = "locked"] \in Run
      BY DEF TypeOK, Run, Pc
    <2> QED
      BY <1>2, <2>1 DEF Acquire, TypeOK
  <1>3. ASSUME NEW w \in Writer, ReadTail(w) PROVE TypeOK'
    <2>1. [writer[w] EXCEPT !.pc = "linked", !.tail = TailHash] \in Run
      BY TailHashType DEF TypeOK, Run, Pc
    <2> QED
      BY <1>3, <2>1 DEF ReadTail, TypeOK
  <1>4. ASSUME NEW w \in Writer, Insert(w) PROVE TypeOK'
    <2>1. [writer[w] EXCEPT !.pc = "inserted", !.id = nextId] \in Run
      BY <1>4 DEF TypeOK, Run, Pc, Insert
    <2>2. nextId + 1 \in 1..(MaxRows + 1)
      BY <1>4 DEF Insert, RowId
    <2> QED
      BY <1>4, <2>1, <2>2 DEF Insert, TypeOK
  <1>5. ASSUME NEW w \in Writer, Commit(w) PROVE TypeOK'
    <2>1. NewRow(w) \in Row /\ writer[w].id \in RowId
      BY <1>5, NewRowType DEF Commit, TypeOK
    <2>2. /\ DOMAIN log' \in SUBSET RowId
          /\ log' \in [DOMAIN log' -> Row]
      BY <1>5, <2>1 DEF Commit, With, TypeOK
    <2>3. /\ DOMAIN history' \in SUBSET RowId
          /\ history' \in [DOMAIN history' -> Row]
      BY <1>5, <2>1 DEF Commit, With, TypeOK
    <2> QED
      BY <1>5, <2>2, <2>3, IdleType DEF Commit, Release, TypeOK
  <1>6. ASSUME NEW w \in Writer, Fail(w) PROVE TypeOK'
    BY <1>6, IdleType DEF Fail, Release, TypeOK
  <1>7. ASSUME NEW i \in RowId, NEW b \in Body, EditRow(i, b) PROVE TypeOK'
    <2>1. [log[i] EXCEPT !.body = b] \in Row
      BY <1>7 DEF EditRow, TypeOK, Row
    <2> QED
      BY <1>7, <2>1 DEF EditRow, TypeOK
  <1>8. ASSUME NEW i \in RowId, DeleteRow(i) PROVE TypeOK'
    BY <1>8 DEF DeleteRow, Without, TypeOK
  <1>9. CASE UNCHANGED vars
    BY <1>9 DEF vars, TypeOK
  <1> QED
    BY <1>1, <1>2, <1>3, <1>4, <1>5, <1>6, <1>7, <1>8, <1>9 DEF Next, WriteStep

\* TypeOK is an invariant of the audit log, whatever its readers and writers do.
THEOREM TypeCorrect == Spec => []TypeOK
  BY InitType, NextType, PTL DEF Spec

(***************************************************************************)
(* The inductive invariant, one lemma per conjunct.                        *)
(***************************************************************************)
LEMMA InitChainInv == Init => ChainInv
  <1> SUFFICES ASSUME Init PROVE ChainInv
    OBVIOUS
  <1>1. TypeOK
    BY InitType
  <1>2. DOMAIN log = {} /\ DOMAIN history = {}
    BY DEF Init
  <1>3. \A w \in Writer : writer[w].pc = "idle" /\ lock # w
    BY IdleType, WriterAssumption DEF Init
  <1> QED
    BY <1>1, <1>2, <1>3
    DEF ChainInv, LockHeld, Holding, IdsDrawn, TailRead, HashesKept,
        UntouchedVerifies, ChainOk

\* At most one thread is between Acquire and the end of its transaction.
LEMMA LockHeldNext ==
  ASSUME TypeOK, LockHeld, [Next]_vars
  PROVE  LockHeld'
  <1> USE DEF LockHeld, Holding, TypeOK
  <1>1. ASSUME NEW w \in Writer, NEW b \in Body, Request(w, b) PROVE LockHeld'
    <2>1. writer'[w].pc = "waiting"
      BY <1>1 DEF Request, Idle
    <2> QED
      BY <1>1, <2>1 DEF Request
  <1>2. ASSUME NEW w \in Writer, Acquire(w) PROVE LockHeld'
    <2>1. writer'[w].pc = "locked"
      BY <1>2 DEF Acquire, Run
    <2> QED
      BY <1>2, <2>1, WriterAssumption DEF Acquire
  <1>3. ASSUME NEW w \in Writer, ReadTail(w) PROVE LockHeld'
    <2>1. writer'[w].pc = "linked"
      BY <1>3 DEF ReadTail, Run
    <2> QED
      BY <1>3, <2>1 DEF ReadTail
  <1>4. ASSUME NEW w \in Writer, Insert(w) PROVE LockHeld'
    <2>1. writer'[w].pc = "inserted"
      BY <1>4 DEF Insert, Run
    <2> QED
      BY <1>4, <2>1 DEF Insert
  <1>5. ASSUME NEW w \in Writer, Commit(w) \/ Fail(w) PROVE LockHeld'
    <2>1. writer'[w].pc = "idle" /\ \A v \in Writer : v # w => writer'[v] = writer[v]
      BY <1>5, IdleType DEF Commit, Fail
    <2>2. lock' = IF lock = w THEN NoWriter ELSE lock
      BY <1>5 DEF Commit, Fail, Release
    <2> QED
      BY <2>1, <2>2, WriterAssumption
  <1>6. ASSUME NEW i \in RowId, DeleteRow(i) \/ \E b \in Body : EditRow(i, b)
        PROVE  LockHeld'
    BY <1>6 DEF DeleteRow, EditRow
  <1>7. CASE UNCHANGED vars
    BY <1>7 DEF vars
  <1> QED
    BY <1>1, <1>2, <1>3, <1>4, <1>5, <1>6, <1>7 DEF Next, WriteStep

\* The id of a row about to be committed is larger than every committed one.
LEMMA IdsDrawnNext ==
  ASSUME TypeOK, LockHeld, IdsDrawn, [Next]_vars
  PROVE  IdsDrawn'
  <1> USE BoundsAssumption DEF IdsDrawn, TypeOK
  <1> DOMAIN history \subseteq Nat /\ nextId \in Nat
    BY DEF RowId
  <1>1. ASSUME NEW w \in Writer, NEW b \in Body, Request(w, b) PROVE IdsDrawn'
    <2>1. writer'[w].pc = "waiting"
      BY <1>1 DEF Request, Idle
    <2> QED
      BY <1>1, <2>1 DEF Request
  <1>2. ASSUME NEW w \in Writer, Acquire(w) PROVE IdsDrawn'
    <2>1. writer'[w].pc = "locked"
      BY <1>2 DEF Acquire, Run
    <2> QED
      BY <1>2, <2>1 DEF Acquire
  <1>3. ASSUME NEW w \in Writer, ReadTail(w) PROVE IdsDrawn'
    <2>1. writer'[w].pc = "linked"
      BY <1>3 DEF ReadTail, Run
    <2> QED
      BY <1>3, <2>1 DEF ReadTail
  <1>4. ASSUME NEW w \in Writer, Insert(w) PROVE IdsDrawn'
    <2>1. writer'[w].id = nextId /\ nextId' = nextId + 1
      BY <1>4 DEF Insert, Run
    <2>2. ASSUME NEW v \in Writer, v # w PROVE writer'[v] = writer[v]
      BY <1>4, <2>2 DEF Insert
    <2>3. writer[w].pc # "inserted"
      BY <1>4 DEF Insert
    <2>4. \A i \in DOMAIN history : i < nextId'
      BY <2>1
    <2>5. UNCHANGED <<log, history>>
      BY <1>4 DEF Insert
    <2>6. ASSUME NEW v \in Writer, writer'[v].pc = "inserted"
          PROVE  writer'[v].id < nextId' /\ \A i \in DOMAIN history : i < writer'[v].id
      <3>1. CASE v = w
        BY <3>1, <2>1
      <3>2. CASE v # w
        <4>1. writer[v].id \in Nat /\ writer[v].id < nextId
          BY <3>2, <2>2, <2>6 DEF RowId
        <4> QED
          BY <3>2, <2>1, <2>2, <2>6, <4>1
      <3> QED
        BY <3>1, <3>2
    <2> QED
      BY <2>4, <2>5, <2>6
  <1>5. ASSUME NEW w \in Writer, Commit(w) PROVE IdsDrawn'
    <2>1. /\ DOMAIN log' = DOMAIN log \cup {writer[w].id}
          /\ DOMAIN history' = DOMAIN history \cup {writer[w].id}
          /\ nextId' = nextId
          /\ writer[w].id < nextId
      BY <1>5 DEF Commit, With
    <2>2. \A v \in Writer : writer'[v].pc # "inserted"
      BY <1>5, IdleType DEF Commit, LockHeld, Holding
    <2> QED
      BY <2>1, <2>2
  <1>6. ASSUME NEW w \in Writer, Fail(w) PROVE IdsDrawn'
    <2>1. writer'[w].pc = "idle"
      BY <1>6, IdleType DEF Fail
    <2> QED
      BY <1>6, <2>1 DEF Fail
  <1>7. ASSUME NEW i \in RowId, NEW b \in Body, EditRow(i, b) PROVE IdsDrawn'
    BY <1>7 DEF EditRow
  <1>8. ASSUME NEW i \in RowId, DeleteRow(i) PROVE IdsDrawn'
    BY <1>8 DEF DeleteRow, Without
  <1>9. CASE UNCHANGED vars
    BY <1>9 DEF vars
  <1> QED
    BY <1>1, <1>2, <1>3, <1>4, <1>5, <1>6, <1>7, <1>8, <1>9 DEF Next, WriteStep

\* Only an edit or a deletion counts as one, and it is never uncounted.
LEMMA TouchedNext ==
  ASSUME TypeOK, [Next]_vars, touched' = 0
  PROVE  /\ touched = 0
         /\ \A i \in RowId : ~DeleteRow(i) /\ \A b \in Body : ~EditRow(i, b)
  <1>1. touched \in Nat /\ touched + 1 # 0
    BY BoundsAssumption DEF TypeOK
  <1>2. ASSUME NEW i \in RowId
        PROVE  ~DeleteRow(i) /\ \A b \in Body : ~EditRow(i, b)
    BY <1>1 DEF DeleteRow, EditRow
  <1>3. CASE \E w \in Writer : WriteStep(w) \/ Fail(w) \/ \E b \in Body : Request(w, b)
    <2>1. UNCHANGED touched
      BY <1>3 DEF WriteStep, Request, Acquire, ReadTail, Insert, Commit, Fail
    <2>2. touched = 0
      BY <2>1
    <2> QED
      BY <1>2, <2>2
  <1>4. CASE UNCHANGED vars
    <2>1. touched = 0
      BY <1>4 DEF vars
    <2> QED
      BY <1>2, <2>1
  <1>5. ~\E i \in RowId : DeleteRow(i) \/ \E b \in Body : EditRow(i, b)
    BY <1>2
  <1>6. (\E w \in Writer : WriteStep(w) \/ Fail(w) \/ \E b \in Body : Request(w, b))
        \/ UNCHANGED vars
    BY <1>5 DEF Next
  <1> QED
    BY <1>3, <1>4, <1>6

\* The tail a thread has read stays the tail until it commits.
LEMMA TailReadNext ==
  ASSUME TypeOK, LockHeld, TailRead, [Next]_vars
  PROVE  TailRead'
  <1> SUFFICES ASSUME touched' = 0, NEW v \in Writer,
                      writer'[v].pc \in {"linked", "inserted"}
               PROVE  \/ writer'[v].tail = Genesis /\ DOMAIN log' = {}
                      \/ \E i \in DOMAIN log' : /\ IsTail(i)'
                                              /\ writer'[v].tail = log'[i].hash
    BY DEF TailRead
  <1> USE DEF TypeOK
  <1>0. touched = 0 /\ \A i \in RowId : ~DeleteRow(i) /\ \A b \in Body : ~EditRow(i, b)
    BY TouchedNext
  \* A step that leaves the log, and what v has read, alone.
  <1>1. ASSUME UNCHANGED log, writer[v].pc \in {"linked", "inserted"},
               writer'[v].tail = writer[v].tail
        PROVE  \/ writer'[v].tail = Genesis /\ DOMAIN log' = {}
               \/ \E i \in DOMAIN log' : IsTail(i)' /\ writer'[v].tail = log'[i].hash
    BY <1>0, <1>1 DEF TailRead, IsTail
  <1>2. ASSUME NEW w \in Writer, NEW b \in Body, Request(w, b)
        PROVE  UNCHANGED log /\ writer'[v] = writer[v]
    <2>1. writer'[w].pc = "waiting"
      BY <1>2 DEF Request, Idle
    <2> QED
      BY <1>2, <2>1 DEF Request
  <1>3. ASSUME NEW w \in Writer, Acquire(w)
        PROVE  UNCHANGED log /\ writer'[v] = writer[v]
    <2>1. writer'[w].pc = "locked"
      BY <1>3 DEF Acquire, Run
    <2> QED
      BY <1>3, <2>1 DEF Acquire
  <1>4. ASSUME NEW w \in Writer, ReadTail(w)
        PROVE  \/ UNCHANGED log /\ writer'[v] = writer[v]
               \/ UNCHANGED log /\ v = w /\ writer'[v].tail = TailHash
    <2>1. writer'[w].tail = TailHash
      BY <1>4 DEF ReadTail, Run
    <2> QED
      BY <1>4, <2>1 DEF ReadTail
  <1>5. ASSUME NEW w \in Writer, Insert(w)
        PROVE  /\ UNCHANGED log
               /\ writer[v].pc \in {"linked", "inserted"}
               /\ writer'[v].tail = writer[v].tail
    <2>1. writer'[w].tail = writer[w].tail /\ writer[w].pc = "linked"
      BY <1>5 DEF Insert, Run
    <2> QED
      BY <1>5, <2>1 DEF Insert
  <1>6. ASSUME NEW w \in Writer, Commit(w) PROVE FALSE
    <2>1. writer'[w].pc = "idle"
      BY <1>6, IdleType DEF Commit
    <2>2. v # w /\ writer'[v] = writer[v]
      BY <1>6, <2>1 DEF Commit
    <2>3. lock = v /\ lock = w
      BY <1>6, <2>2 DEF LockHeld, Holding, Commit
    <2> QED
      BY <2>2, <2>3
  <1>7. ASSUME NEW w \in Writer, Fail(w)
        PROVE  UNCHANGED log /\ writer'[v] = writer[v]
    <2>1. writer'[w].pc = "idle"
      BY <1>7, IdleType DEF Fail
    <2> QED
      BY <1>7, <2>1 DEF Fail
  <1>8. CASE UNCHANGED vars
    BY <1>1, <1>8 DEF vars
  <1>9. CASE \E w \in Writer : ReadTail(w)
    <2> PICK w \in Writer : ReadTail(w)
      BY <1>9
    <2>1. CASE UNCHANGED log /\ writer'[v] = writer[v]
      BY <1>1, <2>1
    <2>2. CASE UNCHANGED log /\ v = w /\ writer'[v].tail = TailHash
      BY <2>2, TailHashType DEF IsTail
    <2> QED
      BY <1>4, <2>1, <2>2
  <1>10. CASE \E w \in Writer : \/ Acquire(w) \/ Insert(w) \/ Fail(w)
                                \/ \E b \in Body : Request(w, b)
    BY <1>1, <1>2, <1>3, <1>5, <1>7, <1>10
  <1> QED
    BY <1>0, <1>6, <1>8, <1>9, <1>10 DEF Next, WriteStep

\* Hashes stay what the commits wrote, edits or not.
LEMMA HashesKeptNext ==
  ASSUME TypeOK, IdsDrawn, HashesKept, [Next]_vars
  PROVE  HashesKept'
  <1> USE DEF HashesKept, TypeOK, IdsDrawn
  <1>1. CASE UNCHANGED <<log, history>>
    BY <1>1
  <1>2. ASSUME NEW w \in Writer, Commit(w) PROVE HashesKept'
    <2> DEFINE id == writer[w].id
    <2>1. /\ log' = With(log, id, NewRow(w))
          /\ history' = With(history, id, NewRow(w))
          /\ writer[w].pc = "inserted"
      BY <1>2 DEF Commit
    <2>2. id \notin DOMAIN history /\ DOMAIN log \subseteq DOMAIN history
      <3>1. id \in Nat /\ \A i \in DOMAIN history : i < id
        BY <2>1, BoundsAssumption DEF RowId
      <3> QED
        BY <3>1
    <2>3. ASSUME NEW i \in DOMAIN log'
          PROVE  /\ log'[i].prev = history'[i].prev
                 /\ log'[i].hash = history'[i].hash
      <3>1. CASE i = id
        <4>1. log'[i] = NewRow(w) /\ history'[i] = NewRow(w)
          BY <2>1, <3>1 DEF With
        <4> QED
          BY <4>1 DEF NewRow
      <3>2. CASE i # id
        <4>1. i \in DOMAIN log /\ log'[i] = log[i] /\ history'[i] = history[i]
          BY <2>1, <2>2, <2>3, <3>2 DEF With
        <4> QED
          BY <4>1
      <3> QED
        BY <3>1, <3>2
    <2>4. ASSUME NEW i \in DOMAIN history'
          PROVE  history'[i].hash = RowHash(history'[i].prev, history'[i].body)
      <3>1. CASE i = id
        BY <2>1, <3>1 DEF With, NewRow
      <3>2. CASE i # id
        BY <2>1, <2>4, <3>2 DEF With
      <3> QED
        BY <3>1, <3>2
    <2> QED
      BY <2>3, <2>4
  <1>3. ASSUME NEW i \in RowId, NEW b \in Body, EditRow(i, b) PROVE HashesKept'
    <2>1. [log[i] EXCEPT !.body = b].prev = log[i].prev
          /\ [log[i] EXCEPT !.body = b].hash = log[i].hash
      BY <1>3 DEF EditRow, Row
    <2>2. /\ DOMAIN log' = DOMAIN log
          /\ log'[i].prev = log[i].prev /\ log'[i].hash = log[i].hash
          /\ \A j \in DOMAIN log : j # i => log'[j] = log[j]
          /\ UNCHANGED history
      BY <1>3, <2>1 DEF EditRow
    <2> QED
      BY <2>2
  <1>4. ASSUME NEW i \in RowId, DeleteRow(i) PROVE HashesKept'
    BY <1>4 DEF DeleteRow, Without
  <1>5. CASE \E w \in Writer : \/ Acquire(w) \/ ReadTail(w) \/ Insert(w) \/ Fail(w)
                               \/ \E b \in Body : Request(w, b)
    BY <1>1, <1>5 DEF Acquire, ReadTail, Insert, Fail, Request
  <1> QED
    BY <1>1, <1>2, <1>3, <1>4, <1>5 DEF Next, WriteStep, vars

\* A commit links its row to the tail, and every older link stays as it was.
LEMMA CommitExtends ==
  ASSUME TypeOK, IdsDrawn, TailRead, UntouchedVerifies, touched = 0,
         NEW w \in Writer, Commit(w)
  PROVE  ChainOk'
  <1>0. PICK id \in RowId : id = writer[w].id
    BY DEF Commit, TypeOK
  <1>1. /\ log' = With(log, id, NewRow(w))
        /\ writer[w].pc = "inserted"
    BY <1>0 DEF Commit
  <1>2. DOMAIN log \subseteq Nat /\ id \in Nat /\ \A i \in DOMAIN log : i < id
    BY <1>0, <1>1, BoundsAssumption DEF TypeOK, IdsDrawn, RowId
  <1>3. /\ DOMAIN log' = DOMAIN log \cup {id}
        /\ \A i \in DOMAIN log : i # id /\ log'[i] = log[i]
        /\ log'[id] = NewRow(w)
    BY <1>1, <1>2 DEF With
  <1>4. ASSUME NEW i \in DOMAIN log PROVE ~Broken(i)'
    <2>1. ~Broken(i)
      BY <1>4 DEF UntouchedVerifies, ChainOk
    <2>2. ExpectedPrev(i, log[i].prev) /\ log[i].hash = RowHash(log[i].prev, log[i].body)
      BY <2>1 DEF Broken
    <2>3. CASE log[i].prev = Genesis /\ \A j \in DOMAIN log : j >= i
      <3>1. \A j \in DOMAIN log' : j >= i
        BY <2>3, <1>2, <1>3
      <3> QED
        BY <2>2, <2>3, <3>1, <1>3 DEF Broken, ExpectedPrev
    <2>4. ASSUME NEW j \in DOMAIN log, IsPredecessor(j, i), log[i].prev = log[j].hash
          PROVE  ~Broken(i)'
      <3>1. ~(id < i)
        BY <1>2
      <3>2. IsPredecessor(j, i)'
        BY <2>4, <3>1, <1>3 DEF IsPredecessor
      <3>3. log'[i].prev = log'[j].hash /\ j \in DOMAIN log'
        BY <2>4, <1>3
      <3>4. ExpectedPrev(i, log[i].prev)'
        BY <3>2, <3>3 DEF ExpectedPrev
      <3> QED
        BY <2>2, <3>4, <1>3 DEF Broken
    <2> QED
      BY <2>2, <2>3, <2>4 DEF ExpectedPrev
  <1>5. ~Broken(id)'
    <2>1. /\ log'[id].prev = writer[w].tail
          /\ log'[id].hash = RowHash(log'[id].prev, log'[id].body)
      BY <1>3 DEF NewRow
    <2>2. CASE writer[w].tail = Genesis /\ DOMAIN log = {}
      <3>1. \A j \in DOMAIN log' : j >= id
        BY <2>2, <1>2, <1>3
      <3>2. ExpectedPrev(id, log[id].prev)'
        BY <2>1, <2>2, <3>1 DEF ExpectedPrev
      <3> QED
        BY <2>1, <3>2 DEF Broken
    <2>3. ASSUME NEW i \in DOMAIN log, IsTail(i), writer[w].tail = log[i].hash
          PROVE  ~Broken(id)'
      <3>1. i \in DOMAIN log' /\ log'[i] = log[i]
        BY <1>3
      <3>2. \A k \in DOMAIN log' : k < id => k <= i
        <4>1. ~(id < id)
          BY <1>2
        <4> QED
          BY <2>3, <1>3, <4>1 DEF IsTail
      <3>3. IsPredecessor(i, id)'
        BY <3>1, <3>2, <1>2 DEF IsPredecessor
      <3>4. ExpectedPrev(id, log[id].prev)'
        BY <2>1, <2>3, <3>1, <3>3 DEF ExpectedPrev
      <3> QED
        BY <2>1, <3>4 DEF Broken
    <2> QED
      BY <1>1, <2>2, <2>3 DEF TailRead
  <1> QED
    BY <1>3, <1>4, <1>5 DEF ChainOk

\* The chain verifies after every step that is neither an edit nor a deletion.
LEMMA VerifiesNext ==
  ASSUME TypeOK, IdsDrawn, TailRead, UntouchedVerifies, [Next]_vars
  PROVE  UntouchedVerifies'
  <1> SUFFICES ASSUME touched' = 0 PROVE ChainOk'
    BY DEF UntouchedVerifies
  <1>1. touched = 0 /\ \A i \in RowId : ~DeleteRow(i) /\ \A b \in Body : ~EditRow(i, b)
    BY TouchedNext
  <1>2. CASE UNCHANGED log
    BY <1>1, <1>2 DEF UntouchedVerifies, ChainOk, Broken, ExpectedPrev, IsPredecessor
  <1>3. CASE \E w \in Writer : Commit(w)
    BY <1>1, <1>3, CommitExtends
  <1>4. CASE \E w \in Writer : \/ Acquire(w) \/ ReadTail(w) \/ Insert(w) \/ Fail(w)
                               \/ \E b \in Body : Request(w, b)
    BY <1>2, <1>4 DEF Acquire, ReadTail, Insert, Fail, Request
  <1> QED
    BY <1>1, <1>2, <1>3, <1>4 DEF Next, WriteStep, vars

(***************************************************************************)
(* The theorems.                                                           *)
(***************************************************************************)
\* ChainInv is inductive: the lock, the ids, the tail each thread has read, the
\* hashes and the chain itself stay in step whatever the threads do.
THEOREM ChainInvariant == Spec => []ChainInv
  <1>1. ChainInv /\ [Next]_vars => ChainInv'
    BY NextType, LockHeldNext, IdsDrawnNext, TailReadNext, HashesKeptNext, VerifiesNext
    DEF ChainInv
  <1> QED
    BY InitChainInv, <1>1, PTL DEF Spec

\* As long as no committed row is edited or deleted, verify_audit_chain finds the
\* log intact, however write_audit's transactions interleave, fail or roll back.
THEOREM ChainVerifies == Spec => []UntouchedVerifies
  <1>1. ChainInv => UntouchedVerifies
    BY DEF ChainInv
  <1> QED
    BY ChainInvariant, <1>1, PTL

\* A row whose contents were edited after its commit makes verify_audit_chain
\* stop at it or before it, however many edits and deletions there were.
THEOREM EditIsReported == Spec => []EditShows
  <1>1. ChainInv => EditShows
    <2> SUFFICES ASSUME ChainInv, NEW i \in DOMAIN log, log[i].body # history[i].body
                 PROVE  ReportedBy(i)
      BY DEF EditShows
    <2>1. log[i] \in Row /\ history[i] \in Row
      BY DEF ChainInv, TypeOK, IdsDrawn
    <2>2. /\ log[i].prev \in Digest /\ log[i].body \in Body /\ history[i].body \in Body
          /\ log[i].prev = history[i].prev
          /\ log[i].hash = RowHash(log[i].prev, history[i].body)
      BY <2>1 DEF ChainInv, IdsDrawn, HashesKept, Row
    <2>3. log[i].hash # RowHash(log[i].prev, log[i].body)
      BY <2>2, RowHashInjective
    <2>4. i <= i
      BY BoundsAssumption DEF ChainInv, TypeOK, RowId
    <2> QED
      BY <2>3, <2>4 DEF ReportedBy, Broken
  <1> QED
    BY ChainInvariant, <1>1, PTL

\* A row removed after its commit is reported at the row that was linked to it, or
\* before, unless its very contents were committed again after the same predecessor:
\* a digest that was ever committed is never that of the empty log.
THEOREM DeletionIsReported == Spec => []DeleteShows
  <1>1. ChainInv => DeleteShows
    <2> SUFFICES ASSUME ChainInv, NEW i \in DOMAIN log, NEW j \in DOMAIN history,
                        history[i].prev = history[j].hash, ~ReportedBy(i)
                 PROVE  \E k \in DOMAIN log : k < i /\ log[k].hash = history[j].hash
      BY DEF DeleteShows
    <2>1. i <= i
      BY BoundsAssumption DEF ChainInv, TypeOK, RowId
    <2>2. ExpectedPrev(i, log[i].prev)
      BY <2>1 DEF ReportedBy, Broken
    <2>3. log[i].prev = history[j].hash
      BY DEF ChainInv, HashesKept
    <2>4. history[j].hash # Genesis
      <3>1. history[j] \in Row
        BY DEF ChainInv, TypeOK
      <3>2. /\ history[j].prev \in Digest /\ history[j].body \in Body
            /\ history[j].hash = RowHash(history[j].prev, history[j].body)
        BY <3>1 DEF ChainInv, HashesKept, Row
      <3> QED
        BY <3>2, RowHashLinked
    <2> QED
      BY <2>2, <2>3, <2>4 DEF ExpectedPrev, IsPredecessor
  <1> QED
    BY ChainInvariant, <1>1, PTL

(***************************************************************************)
(* The abstract log.                                                       *)
(***************************************************************************)

\* There is one last row.
LEMMA TailIs ==
  TypeOK => \A i \in DOMAIN log : IsTail(i) => TailHash = log[i].hash
  <1> SUFFICES ASSUME TypeOK, NEW i \in DOMAIN log, IsTail(i)
               PROVE  TailHash = log[i].hash
    OBVIOUS
  <1>1. DOMAIN log \subseteq Nat
    BY BoundsAssumption DEF TypeOK, RowId
  <1> DEFINE t == CHOOSE j \in DOMAIN log : IsTail(j)
  <1>2. t \in DOMAIN log /\ IsTail(t)
    OBVIOUS
  <1> HIDE DEF t
  <1>3. t = i
    BY <1>1, <1>2 DEF IsTail
  <1> QED
    BY <1>3 DEF TailHash, t

\* The row a thread commits becomes the last, linked to the one that was.
LEMMA CommitAppends ==
  ASSUME ChainInv, touched = 0, NEW w \in Writer, Commit(w)
  PROVE  TailHash' = Append(TailHash, writer[w].body)
  <1>t. TypeOK /\ writer[w] \in Run
    BY DEF ChainInv, TypeOK
  <1>0. PICK id \in RowId : id = writer[w].id
    BY <1>t DEF Commit, TypeOK
  <1>1. writer[w].tail = TailHash
    <2>1. CASE writer[w].tail = Genesis /\ DOMAIN log = {}
      BY <2>1 DEF TailHash
    <2>2. CASE \E i \in DOMAIN log : IsTail(i) /\ writer[w].tail = log[i].hash
      BY <2>2, <1>t, TailIs
    <2> QED
      BY <2>1, <2>2 DEF Commit, ChainInv, TailRead
  <1>2. /\ log' = With(log, id, NewRow(w))
        /\ DOMAIN log' = DOMAIN log \cup {id}
        /\ log'[id] = NewRow(w)
    BY <1>0 DEF Commit, With
  <1>3. DOMAIN log \subseteq Nat /\ id \in Nat
    BY <1>t, BoundsAssumption DEF TypeOK, RowId
  <1>4. \A i \in DOMAIN log : i < id
    BY <1>0 DEF Commit, ChainInv, IdsDrawn
  <1>5. \A i \in DOMAIN log' : i <= id /\ (IsTail(i)' => i = id)
    BY <1>2, <1>3, <1>4 DEF IsTail
  <1>6. id \in DOMAIN log' /\ IsTail(id)'
    BY <1>2, <1>5 DEF IsTail
  <1>7. (TypeOK => \A i \in DOMAIN log : IsTail(i) => TailHash = log[i].hash)'
    BY TailIs, PTL
  <1>8. TypeOK'
    BY <1>t, NextType DEF Next, WriteStep
  <1>9. TailHash' = log'[id].hash
    BY <1>6, <1>7, <1>8
  <1> QED
    BY <1>1, <1>2, <1>9 DEF NewRow, RowHash

\* Each step appends the contents of one row, touches the log, or is not seen.
LEMMA StepImplements ==
  ASSUME ChainInv, [Next]_vars
  PROVE  [Log!Next]_Log!vars
  <1>t. TypeOK /\ touched \in Nat
    BY BoundsAssumption DEF ChainInv, TypeOK
  <1>1. ASSUME NEW w \in Writer, Commit(w) PROVE [Log!Next]_Log!vars
    <2>1. touched' = touched /\ writer[w].body \in Body
      BY <1>t, <1>1 DEF Commit, TypeOK, Run
    <2>2. CASE touched = 0
      <3>1. Written' = Append(Written, writer[w].body)
        BY <1>1, <2>1, <2>2, CommitAppends DEF Written
      <3>2. Log!Write(writer[w].body)
        BY <2>1, <2>2, <3>1 DEF Log!Write
      <3> QED
        BY <2>1, <3>2 DEF Log!Next
    <2>3. CASE touched # 0
      BY <2>1, <2>3 DEF Written, Log!vars
    <2> QED
      BY <2>2, <2>3
  <1>2. ASSUME UNCHANGED <<log, touched>> PROVE [Log!Next]_Log!vars
    <2>1. TailHash' = TailHash
      BY <1>2 DEF TailHash, IsTail
    <2>2. Written' = Written
      BY <1>2, <2>1 DEF Written
    <2> QED
      BY <1>2, <2>2 DEF Log!vars
  <1>3. ASSUME touched' = touched + 1 PROVE [Log!Next]_Log!vars
    <2>1. touched' # 0 /\ Written' = <<>>
      BY <1>t, <1>3 DEF Written, Genesis
    <2>2. CASE touched = 0
      <3>1. Log!Touch
        BY <2>1, <2>2 DEF Log!Touch
      <3> QED
        BY <3>1 DEF Log!Next
    <2>3. CASE touched # 0
      BY <2>1, <2>3 DEF Written, Genesis, Log!vars
    <2> QED
      BY <2>2, <2>3
  <1>4. ASSUME NEW w \in Writer, NEW b \in Body,
               Request(w, b) \/ Acquire(w) \/ ReadTail(w) \/ Insert(w) \/ Fail(w)
        PROVE  UNCHANGED <<log, touched>>
    BY <1>4 DEF Request, Acquire, ReadTail, Insert, Fail
  <1>5. ASSUME NEW i \in RowId, NEW b \in Body, DeleteRow(i) \/ EditRow(i, b)
        PROVE  touched' = touched + 1
    BY <1>5 DEF DeleteRow, EditRow
  <1>6. CASE UNCHANGED vars
    BY <1>2, <1>6 DEF vars
  <1>7. \E b : b \in Body
    BY BodyAssumption
  <1> QED
    BY <1>1, <1>2, <1>3, <1>4, <1>5, <1>6, <1>7 DEF Next, WriteStep

\* The threads, their lock and the ids implement one append-only list: every
\* commit of write_audit appends its contents, and nothing else changes what
\* was written, unless a committed row is touched.
THEOREM ChainImplementsLog == Spec => LogImplemented
  <1>1. Init => Log!Init
    BY DEF Init, Log!Init, Written, TailHash, Genesis
  <1>2. ChainInv /\ [Next]_vars => [Log!Next]_Log!vars
    BY StepImplements
  <1>3. Spec => Log!Spec
    BY <1>1, <1>2, ChainInvariant, PTL DEF Spec, Log!Spec
  <1> QED
    BY <1>3 DEF LogImplemented
=============================================================================
