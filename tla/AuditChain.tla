----------------------------- MODULE AuditChain -----------------------------
(***************************************************************************)
(* The audit log: database.write_audit, called by the after_request hook   *)
(* of every mutating request and by every web thread on its own pooled     *)
(* connection, and database.verify_audit_chain, which recomputes the hash  *)
(* chain over the committed rows.                                          *)
(*                                                                         *)
(* sha256 is taken as injective.  The digest of a row is the sequence of   *)
(* contents it commits to, its own last; 'GENESIS' commits to nothing.     *)
(* Legacy rows (row_hash NULL) are left out: both queries filter them.     *)
(***************************************************************************)
EXTENDS Integers, Sequences, FiniteSets

CONSTANTS
    Writer,     \* web threads (one connection each)
    Body,       \* contents of a row: every hashed column
    MaxRows,    \* bound: ids drawn from audit_log_id_seq
    MaxTouched  \* bound: rows edited or deleted after the fact

ASSUME BoundsAssumption == MaxRows \in Nat /\ MaxTouched \in Nat
ASSUME BodyAssumption == Body # {}

RowId == 1..MaxRows
NoWriter == "none"
ASSUME WriterAssumption == NoWriter \notin Writer

Digest == Seq(Body)
Genesis == <<>>
\* mutant: the contents are left out of the hash.
RowHashOfLink(prev, body) == Append(prev, CHOOSE b \in Body : TRUE)
RowHash(prev, body) == Append(prev, body)
Row == [prev : Digest, body : Body, hash : Digest]

VARIABLES
    log,      \* committed rows by id
    lock,     \* holder of pg_advisory_xact_lock(_AUDIT_LOCK_KEY)
    writer,   \* progress of each thread through write_audit
    nextId,   \* audit_log_id_seq; a rolled back insert leaves a gap
    history,  \* history: each row as its commit wrote it, never touched
    touched   \* history: rows edited or deleted after the fact

vars == <<log, lock, writer, nextId, history, touched>>

Pc == {"idle", "waiting", "locked", "linked", "inserted"}
Run == [pc : Pc, body : Body, tail : Digest, id : RowId \cup {0}]
Idle == [pc |-> "idle", body |-> CHOOSE b \in Body : TRUE, tail |-> Genesis, id |-> 0]

With(f, i, v) == [j \in DOMAIN f \cup {i} |-> IF j = i THEN v ELSE f[j]]
Without(f, i) == [j \in DOMAIN f \ {i} |-> f[j]]

Init ==
    /\ log = [i \in {} |-> Genesis]
    /\ lock = NoWriter
    /\ writer = [w \in Writer |-> Idle]
    /\ nextId = 1
    /\ history = [i \in {} |-> Genesis]
    /\ touched = 0

-----------------------------------------------------------------------------
\* ORDER BY id DESC LIMIT 1, or 'GENESIS' when there is no row.
IsTail(i) == i \in DOMAIN log /\ \A j \in DOMAIN log : j <= i
TailHash == IF DOMAIN log = {} THEN Genesis
            ELSE log[CHOOSE i \in DOMAIN log : IsTail(i)].hash

\* The hook runs once the response is ready and takes a connection.
Request(w, b) ==
    /\ writer[w].pc = "idle"
    /\ writer' = [writer EXCEPT ![w] = [Idle EXCEPT !.pc = "waiting", !.body = b]]
    /\ UNCHANGED <<log, lock, nextId, history, touched>>

\* mutant: nobody waits for the lock.
AcquireAnyway(w) ==
    /\ writer[w].pc = "waiting"
    /\ lock' = w
    /\ writer' = [writer EXCEPT ![w] = [@ EXCEPT !.pc = "locked"]]
    /\ UNCHANGED <<log, nextId, history, touched>>

\* SELECT pg_advisory_xact_lock blocks until the lock is free.
Acquire(w) ==
    /\ writer[w].pc = "waiting"
    /\ lock = NoWriter
    /\ lock' = w
    /\ writer' = [writer EXCEPT ![w] = [@ EXCEPT !.pc = "locked"]]
    /\ UNCHANGED <<log, nextId, history, touched>>

\* READ COMMITTED: the SELECT sees every row committed before it starts.
ReadTail(w) ==
    /\ writer[w].pc = "locked"
    /\ writer' = [writer EXCEPT ![w] = [@ EXCEPT !.pc = "linked", !.tail = TailHash]]
    /\ UNCHANGED <<log, lock, nextId, history, touched>>

\* mutant: the row gets the id after the one drawn.
InsertPast(w) ==
    /\ writer[w].pc = "linked"
    /\ nextId \in RowId
    /\ nextId' = nextId + 1
    /\ writer' = [writer EXCEPT ![w] = [@ EXCEPT !.pc = "inserted", !.id = nextId + 1]]
    /\ UNCHANGED <<log, lock, history, touched>>

Insert(w) ==
    /\ writer[w].pc = "linked"
    /\ nextId \in RowId
    /\ nextId' = nextId + 1
    /\ writer' = [writer EXCEPT ![w] = [@ EXCEPT !.pc = "inserted", !.id = nextId]]
    /\ UNCHANGED <<log, lock, history, touched>>

NewRow(w) == [prev |-> writer[w].tail, body |-> writer[w].body,
              hash |-> RowHash(writer[w].tail, writer[w].body)]

Release(w) == lock' = IF lock = w THEN NoWriter ELSE lock

Commit(w) ==
    /\ writer[w].pc = "inserted"
    /\ log' = With(log, writer[w].id, NewRow(w))
    /\ history' = With(history, writer[w].id, NewRow(w))
    /\ Release(w)
    /\ writer' = [writer EXCEPT ![w] = Idle]
    /\ UNCHANGED <<nextId, touched>>

\* No connection, a failed statement or a dead thread: the transaction rolls
\* back, which frees the lock, and write_audit swallows the exception.
Fail(w) ==
    /\ writer[w].pc # "idle"
    /\ Release(w)
    /\ writer' = [writer EXCEPT ![w] = Idle]
    /\ UNCHANGED <<log, nextId, history, touched>>

\* What the chain is there to show: a row changed or removed after the fact.
EditRow(i, b) ==
    /\ touched < MaxTouched
    /\ i \in DOMAIN log
    /\ log' = [log EXCEPT ![i] = [@ EXCEPT !.body = b]]
    /\ touched' = touched + 1
    /\ UNCHANGED <<lock, writer, nextId, history>>

DeleteRow(i) ==
    /\ touched < MaxTouched
    /\ i \in DOMAIN log
    /\ log' = Without(log, i)
    /\ touched' = touched + 1
    /\ UNCHANGED <<lock, writer, nextId, history>>

WriteStep(w) == Acquire(w) \/ ReadTail(w) \/ Insert(w) \/ Commit(w)

Next ==
    \/ \E w \in Writer : \/ \E b \in Body : Request(w, b)
                         \/ WriteStep(w)
                         \/ Fail(w)
    \/ \E i \in RowId : DeleteRow(i) \/ \E b \in Body : EditRow(i, b)

Spec == Init /\ [][Next]_vars

-----------------------------------------------------------------------------
(***************************************************************************)
(* verify_audit_chain: walk the rows in id order, stop at the first whose  *)
(* prev_hash is not the row_hash before it or whose own hash differs.      *)
(***************************************************************************)
IsPredecessor(j, i) == j \in DOMAIN log /\ j < i
                       /\ \A k \in DOMAIN log : k < i => k <= j
\* mutant: the links are not looked at.
AnyPrev(i, d) == TRUE
ExpectedPrev(i, d) ==
    \/ d = Genesis /\ \A j \in DOMAIN log : j >= i
    \/ \E j \in DOMAIN log : IsPredecessor(j, i) /\ d = log[j].hash

Broken(i) == \/ ~ExpectedPrev(i, log[i].prev)
             \/ log[i].hash # RowHash(log[i].prev, log[i].body)
ChainOk == \A i \in DOMAIN log : ~Broken(i)
\* first_broken_id is i or an earlier row.
ReportedBy(i) == \E j \in DOMAIN log : j <= i /\ Broken(j)

-----------------------------------------------------------------------------
\* Ids stay in range and digests are digests.
TypeOK ==
    /\ DOMAIN log \in SUBSET RowId
    /\ log \in [DOMAIN log -> Row]
    /\ lock \in Writer \cup {NoWriter}
    /\ writer \in [Writer -> Run]
    /\ \A w \in Writer : writer[w].pc = "inserted" => writer[w].id \in RowId
    /\ nextId \in 1..(MaxRows + 1)
    /\ DOMAIN history \in SUBSET RowId
    /\ history \in [DOMAIN history -> Row]
    /\ touched \in 0..MaxTouched

\* However the writers interleave, fail or roll back, the chain verifies as
\* long as nobody touches a committed row: no two rows link the same tail.
UntouchedVerifies == touched = 0 => ChainOk

\* A row whose contents are not the ones it was written with is reported, for
\* as long as it is there, unless an earlier row already is.
EditShows == \A i \in DOMAIN log :
    log[i].body # history[i].body => ReportedBy(i)

\* A removed row is reported at the row that was linked to it, for as long as
\* that one is there; unless the very same contents were written again after the
\* very same predecessor, which leaves the chain as it would have been.  (Rows
\* removed from the end have no row linked to them and leave no trace.)
DeleteShows == \A i \in DOMAIN log : \A j \in DOMAIN history :
    (history[i].prev = history[j].hash /\ j < i /\ j \notin DOMAIN log)
        => \/ ReportedBy(i)
           \/ \E k \in DOMAIN log : k < i /\ log[k].hash = history[j].hash

(***************************************************************************)
(* The inductive invariant: who is past Acquire holds the lock, so the     *)
(* tail it read is still the tail of every row committed when it links its *)
(* own, and its id is the largest.                                         *)
(***************************************************************************)
Holding(w) == writer[w].pc \in {"locked", "linked", "inserted"}

LockHeld == \A w \in Writer : Holding(w) <=> lock = w

IdsDrawn ==
    /\ DOMAIN log \subseteq DOMAIN history
    /\ \A i \in DOMAIN history : i < nextId
    /\ \A w \in Writer : writer[w].pc = "inserted" =>
          /\ writer[w].id < nextId
          /\ \A i \in DOMAIN history : i < writer[w].id

TailRead == touched = 0 => \A w \in Writer :
    writer[w].pc \in {"linked", "inserted"} =>
        \/ writer[w].tail = Genesis /\ DOMAIN log = {}
        \/ \E i \in DOMAIN log : IsTail(i) /\ writer[w].tail = log[i].hash

HashesKept ==
    /\ \A i \in DOMAIN log :
          log[i].prev = history[i].prev /\ log[i].hash = history[i].hash
    /\ \A i \in DOMAIN history :
          history[i].hash = RowHash(history[i].prev, history[i].body)

ChainInv ==
    /\ TypeOK
    /\ LockHeld
    /\ IdsDrawn
    /\ TailRead
    /\ HashesKept
    /\ UntouchedVerifies

(***************************************************************************)
(* The abstract log, and how the chain implements it: the digest of the    *)
(* last row is the list of everything written.                             *)
(***************************************************************************)
Written == IF touched = 0 THEN TailHash ELSE Genesis

Log == INSTANCE AuditLog WITH entries <- Written, intact <- touched = 0

\* Whatever the interleaving, the failures and the gaps in the ids, every
\* commit appends its contents to what was written before and nothing else
\* does: no two rows share a predecessor, and none is written over.
LogImplemented == Log!Spec
=============================================================================
