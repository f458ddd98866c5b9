----------------------------- MODULE Inventory -----------------------------
(***************************************************************************)
(* What the application remembers from one analysis to the next, and what  *)
(* the users decide about it while analyses run: the artifacts seen so far *)
(* (correlation.py, artifact_seen), the machines and their addresses       *)
(* (hosts, host_ips) and the labels of addresses (ip_names).               *)
(*                                                                         *)
(* An analysis reads the users' decisions when it starts and writes what   *)
(* it found at its end, in transactions of its own, each of which may      *)
(* fail and be swallowed.  A user's edit is a transaction of two           *)
(* statements (SELECT or DELETE, then the write) with READ COMMITTED: what *)
(* it wrote first is locked but not yet visible to the others.             *)
(*                                                                         *)
(* record_hosts locks each machine while it writes it and commits once.    *)
(* As every property below speaks of one machine or of rows this           *)
(* transaction does not create or remove, it is one step here.             *)
(***************************************************************************)
EXTENDS Integers, FiniteSetsExt

CONSTANTS
  Analysis,     \* fast tasks
  Artifact,     \* the values of one artifact type, in their sorted order
  MaxAlerts,    \* DEFAULT_CAPS of that type
  MinHistory,   \* MIN_HISTORY_SCANS
  Mac,          \* keys of discovered machines
  ManualHost,   \* keys of machines created by hand
  Ip, NoHost,
  Capture,      \* what captures hold: [artifacts, claims, names]
  User,         \* web threads serving analysts
  MaxEdits      \* bound: edits the users begin

ASSUME ArtifactAssumption == Artifact \subseteq Nat
ASSUME BoundsAssumption == {MaxAlerts, MinHistory, MaxEdits} \subseteq Nat
ASSUME HostAssumption ==
  NoHost \notin Mac \union ManualHost /\ Mac \intersect ManualHost = {}
ASSUME CaptureAssumption ==
  Capture \subseteq [artifacts : SUBSET Artifact, claims : [Ip -> SUBSET Mac],
                     names : SUBSET Mac]

Host == Mac \union ManualHost
Pair == Host \X Ip

VARIABLES
  artifactSeen, \* artifact_seen: value -> count, first and last stamp
  scans,        \* how many rows scans has
  hosts,        \* hosts: key -> [known, name, edited, discovered]
  hostIps,      \* host_ips: pair -> [source, excluded]
  ipNames,      \* addresses with a label
  analysis,     \* the analyses, each with what it read and found
  edit,         \* each user's open transaction
  edits,        \* edits begun
  clock,        \* analyzed_at of the latest analysis
  recorded,     \* history: analyses whose artifacts were recorded
  before,       \* history: those recorded when an analysis started
  chosen,       \* history: the machine users last gave an address to
  removed,      \* history: pairs users removed
  named,        \* history: machines users named
  deleted,      \* history: machines users deleted
  raced         \* history: addresses whose edits overlapped

books == <<artifactSeen, scans, clock, recorded, before>>
machines == <<hosts, hostIps>>
wishes == <<chosen, removed, named, deleted, raced>>
vars == <<books, machines, ipNames, analysis, edit, edits, wishes>>

NoRow == [source |-> "none", excluded |-> FALSE]
Unknown == [known |-> FALSE, name |-> "none", edited |-> FALSE,
            discovered |-> FALSE]
Unseen == [count |-> 0, first |-> 0, last |-> 0]
Idle == [op |-> "idle", pair |-> CHOOSE p \in Pair : TRUE, source |-> "none",
         doomed |-> {}, alone |-> FALSE]

NewAnalysis == [pc |-> "start", manual |-> {}, excluded |-> {}, capture |->
                CHOOSE c \in Capture : TRUE, stamp |-> 0, raised |-> {},
                found |-> {}, labels |-> {}]

Init ==
  /\ artifactSeen = [v \in Artifact |-> Unseen]
  /\ scans \in 0..MinHistory
  /\ hosts = [h \in Host |-> Unknown]
  /\ hostIps = [p \in Pair |-> NoRow]
  /\ ipNames = {}
  /\ analysis = [a \in Analysis |-> NewAnalysis]
  /\ edit = [u \in User |-> Idle]
  /\ edits = 0
  /\ clock = 0
  /\ recorded = {}
  /\ before = [a \in Analysis |-> {}]
  /\ chosen = [i \in Ip |-> NoHost]
  /\ removed = {} /\ named = {} /\ deleted = {} /\ raced = {}

-----------------------------------------------------------------------------
\* An analysis.

At(a, pc) == analysis[a].pc = pc
Go(a, pc) == analysis' = [analysis EXCEPT ![a].pc = pc]

\* The decisions in force; a failing query leaves the analysis without any.
ReadBindings(a) ==
  /\ At(a, "start")
  /\ \E read \in BOOLEAN :
       analysis' = [analysis EXCEPT ![a] = [@ EXCEPT
         !.pc = "analyze",
         !.manual = {p \in Pair : /\ read
                                  /\ hostIps[p].source = "manual"
                                  /\ ~hostIps[p].excluded},
         !.excluded = {p \in Pair : read /\ hostIps[p].excluded}]]
  /\ before' = [before EXCEPT ![a] = recorded]
  /\ UNCHANGED <<artifactSeen, scans, clock, recorded, machines, ipNames, edit,
                 edits, wishes>>

\* Who owns an address by the capture: a claimant the user did not remove.
Owners(a, c, ip) ==
  LET left == {m \in c.claims[ip] : <<m, ip>> \notin analysis[a].excluded}
  IN IF left = {} THEN {NoHost} ELSE left

\* The user's binding of `ip` holds unless another machine was seen with it.
Accepted(a, ip, owner) ==
  {h \in Host : /\ <<h, ip>> \in analysis[a].manual
                /\ h \in ManualHost \/ owner \in {h, NoHost}}

\* Where the address ends: bindings are applied one after the other.
Placed(a, ip, owner) ==
  IF Accepted(a, ip, owner) # {}
  THEN {[host |-> h, ip |-> ip, by |-> "manual"] : h \in Accepted(a, ip, owner)}
  ELSE IF owner # NoHost THEN {[host |-> owner, ip |-> ip, by |-> "auto"]}
  ELSE {}

Analyze(a) ==
  /\ At(a, "analyze")
  /\ \E c \in Capture, owner \in [Ip -> Mac \union {NoHost}] :
       /\ \A i \in Ip : owner[i] \in Owners(a, c, i)
       /\ analysis' = [analysis EXCEPT ![a] = [@ EXCEPT
            !.pc = IF c.artifacts = {} THEN "save" ELSE "history",
            !.manual = {}, !.excluded = {},
            !.capture = c,
            !.stamp = clock + 1,
            !.found = UNION {Placed(a, i, owner[i]) : i \in Ip}]]
  /\ clock' = clock + 1
  /\ UNCHANGED <<artifactSeen, scans, recorded, before, machines, ipNames, edit,
                 edits, wishes>>

\* Too little history, or a failure of the correlation: nothing is raised.
CountHistory(a) ==
  /\ At(a, "history")
  /\ Go(a, IF scans < MinHistory THEN "save" ELSE "known")
  /\ UNCHANGED <<books, machines, ipNames, edit, edits, wishes>>

CorrelationFails(a) ==
  /\ analysis[a].pc \in {"history", "known"}
  /\ Go(a, "save")
  /\ UNCHANGED <<books, machines, ipNames, edit, edits, wishes>>

\* The values not on record, the first of them raised as first seen.
Fresh(a) == {v \in analysis[a].capture.artifacts : artifactSeen[v].count = 0}
FirstOf(S) == {v \in S : Cardinality({w \in S : w < v}) < MaxAlerts}

RaiseFirstSeen(a) ==
  /\ At(a, "known")
  /\ analysis' = [analysis EXCEPT ![a] = [@ EXCEPT
       !.pc = "save", !.raised = FirstOf(Fresh(a))]]
  /\ UNCHANGED <<books, machines, ipNames, edit, edits, wishes>>

\* What is left to write: artifacts if any were observed, then machines.
Then(a) == IF analysis[a].found = {} THEN "done" ELSE "labels"

SaveScan(a) ==
  /\ At(a, "save")
  /\ \/ /\ Go(a, IF analysis[a].capture.artifacts = {} THEN Then(a)
                ELSE "artifacts")
        /\ scans' = scans + 1
     \/ Go(a, "done") /\ UNCHANGED scans
  /\ UNCHANGED <<artifactSeen, clock, recorded, before, machines, ipNames, edit,
                 edits, wishes>>

\* mutant: only what was raised is remembered
ToRecordRaised(a) == analysis[a].raised

\* Everything observed goes on record, what was not raised too.
ToRecord(a) == analysis[a].capture.artifacts

\* mutant: the latest writer wins
UpsertedLast(row, stamp) ==
  IF row.count = 0 THEN [count |-> 1, first |-> stamp, last |-> stamp]
  ELSE [row EXCEPT !.count = @ + 1, !.last = stamp]

\* The row an observation with this stamp leaves.
Upserted(row, stamp) ==
  IF row.count = 0 THEN [count |-> 1, first |-> stamp, last |-> stamp]
  ELSE [row EXCEPT !.count = @ + 1, !.last = IF stamp > @ THEN stamp ELSE @]

RecordArtifacts(a) ==
  /\ At(a, "artifacts")
  /\ Go(a, Then(a))
  /\ \/ /\ artifactSeen' = [v \in Artifact |->
             IF v \in ToRecord(a) THEN Upserted(artifactSeen[v], analysis[a].stamp)
             ELSE artifactSeen[v]]
        /\ recorded' = recorded \union {a}
     \/ UNCHANGED <<artifactSeen, recorded>>
  /\ UNCHANGED <<scans, clock, before, machines, ipNames, edit, edits, wishes>>

\* The labels are read in a transaction of their own.
ReadLabels(a) ==
  /\ At(a, "labels")
  /\ analysis' = [analysis EXCEPT ![a] = [@ EXCEPT
       !.pc = "hosts", !.labels = ipNames]]
  /\ UNCHANGED <<books, machines, ipNames, edit, edits, wishes>>

Doomed == UNION {edit[u].doomed : u \in User}
FoundOn(a, h) == {e \in analysis[a].found : e.host = h}
Labelled(a, h) == \E e \in FoundOn(a, h) : e.ip \in analysis[a].labels
Named(a, h) == h \in analysis[a].capture.names

\* The row of a machine the analysis met.
NewMachine(a, h) ==
  [known |-> TRUE,
   name |-> IF Labelled(a, h) THEN "label"
            ELSE IF Named(a, h) THEN "discovered" ELSE "none",
   edited |-> Labelled(a, h),
   discovered |-> Named(a, h)]

OldMachine(a, h) ==
  LET row == hosts[h] IN
  [row EXCEPT
     !.discovered = @ \/ Named(a, h),
     !.edited = @ \/ Labelled(a, h),
     !.name = IF ~row.edited /\ Labelled(a, h) THEN "label"
              ELSE IF @ = "none" /\ Named(a, h) THEN "discovered" ELSE @]

\* mutant: what the capture was told about is written back
RecordedAll(a) == {h \in Host : FoundOn(a, h) # {}}

\* A machine made by hand that is gone stays gone.
Recorded(a) ==
  {h \in Host : FoundOn(a, h) # {} /\ (h \in ManualHost => hosts[h].known)}

\* mutant: an observed binding counts again
BoundRowAgain(row, by) ==
  IF by = "manual" THEN row ELSE [source |-> "auto", excluded |-> FALSE]

\* An automatic binding keeps the source and the exclusion of its row; of a
\* manual one only the times are refreshed.
BoundRow(row, by) ==
  IF by = "manual" \/ row # NoRow THEN row
  ELSE [source |-> "auto", excluded |-> FALSE]

RecordHosts(a) ==
  /\ At(a, "hosts")
  /\ {<<e.host, e.ip>> : e \in analysis[a].found} \intersect Doomed = {}
  /\ analysis' = [analysis EXCEPT ![a] = [@ EXCEPT
       !.pc = "done", !.found = {}, !.labels = {}]]
  /\ \/ /\ hosts' = [h \in Host |->
             IF h \notin Recorded(a) THEN hosts[h]
             ELSE IF hosts[h].known THEN OldMachine(a, h) ELSE NewMachine(a, h)]
        /\ hostIps' = [p \in Pair |->
             IF \E e \in analysis[a].found : /\ <<e.host, e.ip>> = p
                                             /\ e.host \in Recorded(a)
             THEN LET e == CHOOSE f \in analysis[a].found : <<f.host, f.ip>> = p
                  IN BoundRow(hostIps[p], e.by)
             ELSE hostIps[p]]
     \/ UNCHANGED machines
  /\ UNCHANGED <<books, ipNames, edit, edits, wishes>>

\* A purge or a user deletes a scan; what was seen in it stays on record.
DeleteScan ==
  /\ scans > 0
  /\ scans' = scans - 1
  /\ UNCHANGED <<artifactSeen, clock, recorded, before, machines, ipNames,
                 analysis, edit, edits, wishes>>

-----------------------------------------------------------------------------
\* The users.

May(u) == edit[u].op = "idle" /\ edits < MaxEdits
Busy(u, ip) == edit[u].op # "idle" /\ edit[u].pair[2] = ip

\* An edit of an address begins; edits already open on it are not alone either.
Open(u, op, p, source, doomed) ==
  /\ edit' = [w \in User |->
       IF w = u THEN [op |-> op, pair |-> p, source |-> source,
                      doomed |-> doomed, alone |-> \A x \in User : ~Busy(x, p[2])]
       ELSE IF Busy(w, p[2]) THEN [edit[w] EXCEPT !.alone = FALSE]
       ELSE edit[w]]
  /\ edits' = edits + 1

\* An edit ends; rows deleted with it are lost to those who had selected them.
Close(u, gone) ==
  edit' = [w \in User |->
    IF w = u THEN Idle
    ELSE IF edit[w].op = "unbind" /\ edit[w].pair \in gone
    THEN [edit[w] EXCEPT !.source = "gone"] ELSE edit[w]]

Race(u) == IF edit[u].alone THEN raced ELSE raced \union {edit[u].pair[2]}

Others(h, ip) ==
  {p \in Pair : p[2] = ip /\ p[1] # h /\ hostIps[p].source = "manual"}

\* The binding of other machines is deleted first, then the new one inserted.
BeginBind(u, h, ip) ==
  /\ May(u)
  /\ hosts[h].known
  /\ Others(h, ip) \intersect Doomed = {}
  /\ Open(u, "bind", <<h, ip>>, "none", Others(h, ip))
  /\ UNCHANGED <<books, machines, ipNames, analysis, wishes>>

CommitBind(u) ==
  LET p == edit[u].pair
      h == p[1]
      ip == p[2]
  IN /\ edit[u].op = "bind"
     /\ hosts[h].known
     /\ \A w \in User \ {u} : p \notin edit[w].doomed
     /\ hostIps' = [q \in Pair |->
          IF q = p THEN [source |-> "manual", excluded |-> FALSE]
          ELSE IF q \in edit[u].doomed THEN NoRow ELSE hostIps[q]]
     /\ Close(u, edit[u].doomed)
     /\ chosen' = [chosen EXCEPT ![ip] = h]
     /\ removed' = removed \ {p}
     /\ raced' = IF edit[u].alone THEN raced \ {ip} ELSE Race(u)
     /\ UNCHANGED <<books, hosts, ipNames, analysis, edits, named, deleted>>

\* The machine is gone, or the connection: nothing of the edit stays.
BindFails(u) ==
  /\ edit[u].op = "bind"
  /\ Close(u, {})
  /\ raced' = Race(u)
  /\ UNCHANGED <<books, machines, ipNames, analysis, edits, chosen, removed,
                 named, deleted>>

BeginUnbind(u, p) ==
  /\ May(u)
  /\ hostIps[p] # NoRow
  /\ Open(u, "unbind", p, hostIps[p].source, {})
  /\ UNCHANGED <<books, machines, ipNames, analysis, wishes>>

\* A manual binding is deleted, an automatic one marked as removed, as the row
\* was when it was selected; a row that is gone by then is left alone.
Unbound(row, source) ==
  CASE source = "manual" -> NoRow
    [] source = "auto" -> [row EXCEPT !.excluded = TRUE]
    [] OTHER -> row

CommitUnbind(u) ==
  LET p == edit[u].pair
      source == edit[u].source
  IN /\ edit[u].op = "unbind"
     /\ p \notin Doomed
     /\ hostIps' = [hostIps EXCEPT ![p] = Unbound(@, source)]
     /\ Close(u, IF source = "manual" THEN {p} ELSE {})
     /\ chosen' = IF chosen[p[2]] = p[1]
                  THEN [chosen EXCEPT ![p[2]] = NoHost] ELSE chosen
     /\ removed' = IF source = "auto" /\ edit[u].alone
                   THEN removed \union {p} ELSE removed
     /\ raced' = Race(u)
     /\ UNCHANGED <<books, hosts, ipNames, analysis, edits, named, deleted>>

\* A machine without a MAC, under a key that was never used.
CreateManualHost(h) ==
  /\ edits < MaxEdits
  /\ ~hosts[h].known /\ h \notin deleted
  /\ hosts' = [hosts EXCEPT ![h] = [known |-> TRUE, name |-> "user",
                                    edited |-> TRUE, discovered |-> FALSE]]
  /\ edits' = edits + 1
  /\ named' = named \union {h}
  /\ UNCHANGED <<books, hostIps, ipNames, analysis, edit, chosen, removed,
                 deleted, raced>>

\* mutant: no ON DELETE CASCADE
RowsOfNone(h) == {}

\* The bindings of a machine go with it.
RowsOf(h) == {p \in Pair : p[1] = h /\ hostIps[p] # NoRow}

DeleteHost(h) ==
  /\ edits < MaxEdits
  /\ h \in ManualHost /\ hosts[h].known
  /\ RowsOf(h) \intersect Doomed = {}
  /\ hosts' = [hosts EXCEPT ![h] = Unknown]
  /\ hostIps' = [p \in Pair |-> IF p \in RowsOf(h) THEN NoRow ELSE hostIps[p]]
  /\ edit' = [u \in User |->
       IF edit[u].op = "unbind" /\ edit[u].pair \in RowsOf(h)
       THEN [edit[u] EXCEPT !.source = "gone"] ELSE edit[u]]
  /\ edits' = edits + 1
  /\ chosen' = [i \in Ip |-> IF chosen[i] = h THEN NoHost ELSE chosen[i]]
  /\ named' = named \ {h}
  /\ deleted' = deleted \union {h}
  /\ UNCHANGED <<books, ipNames, analysis, removed, raced>>

\* A name the user gives stays; an empty one hands the machine back to the
\* network and to the labels.
RenameHost(h) ==
  /\ edits < MaxEdits
  /\ hosts[h].known
  /\ \/ /\ hosts' = [hosts EXCEPT ![h] = [@ EXCEPT !.name = "user",
                                                   !.edited = TRUE]]
        /\ named' = named \union {h}
     \/ /\ hosts' = [hosts EXCEPT ![h] = [@ EXCEPT
             !.name = IF hosts[h].discovered THEN "discovered" ELSE "none",
             !.edited = FALSE]]
        /\ named' = named \ {h}
  /\ edits' = edits + 1
  /\ UNCHANGED <<books, hostIps, ipNames, analysis, edit, chosen, removed,
                 deleted, raced>>

LabelIp(ip) ==
  /\ edits < MaxEdits
  /\ ipNames' = IF ip \in ipNames THEN ipNames \ {ip} ELSE ipNames \union {ip}
  /\ edits' = edits + 1
  /\ UNCHANGED <<books, machines, analysis, edit, wishes>>

-----------------------------------------------------------------------------
Step(a) == \/ ReadBindings(a) \/ Analyze(a) \/ CountHistory(a)
           \/ CorrelationFails(a) \/ RaiseFirstSeen(a) \/ SaveScan(a)
           \/ RecordArtifacts(a) \/ ReadLabels(a) \/ RecordHosts(a)

Serve(u) == \/ \E h \in Host, ip \in Ip : BeginBind(u, h, ip)
            \/ CommitBind(u) \/ BindFails(u)
            \/ \E p \in Pair : BeginUnbind(u, p)
            \/ CommitUnbind(u)

Next == \/ \E a \in Analysis : Step(a)
        \/ \E u \in User : Serve(u)
        \/ \E h \in ManualHost : CreateManualHost(h) \/ DeleteHost(h)
        \/ \E h \in Host : RenameHost(h)
        \/ \E ip \in Ip : LabelIp(ip)
        \/ DeleteScan

Spec == Init /\ [][Next]_vars

-----------------------------------------------------------------------------
\* The types of the tables, and their foreign key: no binding without its
\* machine.
TypeOK ==
  /\ artifactSeen \in [Artifact -> [count : Nat, first : Nat, last : Nat]]
  /\ hosts \in [Host -> [known : BOOLEAN, edited : BOOLEAN, discovered : BOOLEAN,
                         name : {"none", "discovered", "label", "user"}]]
  /\ hostIps \in [Pair -> [source : {"none", "auto", "manual"},
                           excluded : BOOLEAN]]
  /\ \A p \in Pair : hostIps[p] # NoRow => hosts[p[1]].known
  /\ ipNames \subseteq Ip
  /\ chosen \in [Ip -> Host \union {NoHost}]

\* An artifact announced as never seen was in no capture whose artifacts were
\* on record when the analysis started, whatever was raised, capped or deleted
\* since (correlation.py:171-184, database.py:3013).  Two analyses that overlap
\* may both announce it.
FirstSeenOnce ==
  \A a \in Analysis : \A b \in before[a] :
    analysis[a].raised \intersect analysis[b].capture.artifacts = {}

\* The row of an artifact counts every recorded scan that had it, and its last
\* sighting is the latest of them although scans are recorded out of order
\* (database.py:3041).
SeenBooksExact ==
  \A v \in Artifact :
    LET by == {a \in recorded : v \in analysis[a].capture.artifacts}
        stamps == {analysis[a].stamp : a \in by}
    IN /\ artifactSeen[v].count = Cardinality(by)
       /\ by # {} => /\ artifactSeen[v].last = Max(stamps)
                     /\ artifactSeen[v].first \in stamps

\* No analysis, also none that started before the decision, undoes what users
\* decided: an address stays with the machine it was given to and with no other
\* by hand, a removed binding stays removed, a given name stays (the contract
\* of record_hosts, database.py:1126).  Addresses whose edits overlapped are
\* left out: there bind_host_ip itself may leave two.
DecisionsStand ==
  /\ \A i \in Ip \ raced :
       /\ {p \in Pair : p[2] = i /\ hostIps[p].source = "manual"}
            = (IF chosen[i] = NoHost THEN {} ELSE {<<chosen[i], i>>})
       /\ \A p \in removed : p[2] = i => hostIps[p].excluded
       /\ chosen[i] # NoHost => ~hostIps[<<chosen[i], i>>].excluded
  /\ \A h \in named : hosts[h].name = "user"

\* A machine made by hand and deleted is not brought back by an analysis that
\* still knew it (database.py:1169).
GoneStaysGone ==
  \A h \in deleted : ~hosts[h].known /\ \A i \in Ip : hostIps[<<h, i>>] = NoRow

-----------------------------------------------------------------------------
(* Inductive invariants, proved in InventoryProofs. *)

Pc == {"start", "analyze", "history", "known", "save", "artifacts", "labels",
       "hosts", "done"}
Entry == [host : Host, ip : Ip, by : {"auto", "manual"}]

RunsTyped ==
  /\ analysis \in [Analysis ->
       [pc : Pc, manual : SUBSET Pair, excluded : SUBSET Pair,
        capture : Capture \union {NewAnalysis.capture}, stamp : Nat,
        raised : SUBSET Artifact, found : SUBSET Entry, labels : SUBSET Ip]]
  /\ \A a \in Analysis :
       /\ analysis[a].pc \notin {"start", "analyze"} => analysis[a].capture \in Capture
       /\ \A e \in analysis[a].found : e.by = "auto" => e.host \in Mac
  /\ clock \in Nat

EditsTyped ==
  /\ edit \in [User -> [op : {"idle", "bind", "unbind"},
                        pair : Pair \union {Idle.pair},
                        source : {"none", "auto", "manual", "gone"},
                        doomed : SUBSET Pair, alone : BOOLEAN]]
  /\ \A u \in User : edit[u].op # "idle" => edit[u].pair \in Pair

HistoryTyped ==
  /\ recorded \subseteq Analysis
  /\ before \in [Analysis -> SUBSET Analysis]
  /\ removed \subseteq Pair /\ named \subseteq Host
  /\ deleted \subseteq ManualHost /\ raced \subseteq Ip

\* A row that an unbind selected and that nobody deleted since is there, and
\* is manual if it was.
SelectedThere ==
  \A u \in User : edit[u].op = "unbind" =>
    /\ edit[u].source # "none"
    /\ edit[u].source = "auto" => hostIps[edit[u].pair] # NoRow
    /\ edit[u].source = "manual" => hostIps[edit[u].pair].source = "manual"

\* Rows that a bind has deleted are locked: manual still, on its address, and
\* nobody else's.
DoomedLocked ==
  \A u \in User :
    /\ edit[u].op # "bind" => edit[u].doomed = {}
    /\ \A p \in edit[u].doomed : /\ hostIps[p].source = "manual"
                                 /\ p[2] = edit[u].pair[2]
                                 /\ p # edit[u].pair
    /\ \A w \in User \ {u} : edit[u].doomed \intersect edit[w].doomed = {}

RowShape == \A p \in Pair :
  /\ hostIps[p].source = "none" => hostIps[p] = NoRow
  /\ hostIps[p].source = "auto" => p[1] \in Mac

TypeInv == /\ TypeOK /\ RunsTyped /\ EditsTyped /\ HistoryTyped
           /\ SelectedThere /\ DoomedLocked /\ RowShape

\* What was recorded has run, and its artifacts have rows.
RecordedRan ==
  \A b \in recorded : analysis[b].pc \in {"labels", "hosts", "done"}
OnRecord ==
  \A b \in recorded : \A v \in analysis[b].capture.artifacts :
    artifactSeen[v].count # 0
BeforeRecorded == \A a \in Analysis : before[a] \subseteq recorded
RaisedLate ==
  \A a \in Analysis :
    analysis[a].pc \in {"start", "analyze", "history", "known"} =>
      analysis[a].raised = {}

FirstInv == RecordedRan /\ OnRecord /\ BeforeRecorded /\ RaisedLate /\ FirstSeenOnce

\* The recorded analyses that met an artifact.
Met(v) == {a \in recorded : v \in analysis[a].capture.artifacts}

CountsKept ==
  /\ IsFiniteSet(recorded)
  /\ \A v \in Artifact : artifactSeen[v].count = Cardinality(Met(v))
StampsKept ==
  \A v \in Artifact : Met(v) # {} =>
    /\ \E a \in Met(v) : artifactSeen[v].first = analysis[a].stamp
    /\ \E a \in Met(v) : artifactSeen[v].last = analysis[a].stamp
    /\ \A a \in Met(v) : analysis[a].stamp <= artifactSeen[v].last

BooksInv == RecordedRan /\ CountsKept /\ StampsKept

\* Nobody else edits the address of an edit that is alone.
AloneApart ==
  \A u, w \in User :
    /\ u # w /\ edit[u].alone
    /\ edit[u].op # "idle" /\ edit[w].op # "idle"
    => edit[u].pair[2] # edit[w].pair[2]

\* A bind that is alone deletes every other manual row of its address.
AloneSeesAll ==
  \A u \in User : edit[u].op = "bind" /\ edit[u].alone =>
    Others(edit[u].pair[1], edit[u].pair[2]) \subseteq edit[u].doomed

\* An unbind that is alone acts on the row as it is.
AloneActsOnRow ==
  \A u \in User : edit[u].op = "unbind" /\ edit[u].alone =>
    \/ edit[u].source = "gone" /\ edit[u].pair[1] \in deleted
    \/ edit[u].source = hostIps[edit[u].pair].source

RemovedMarked ==
  \A p \in removed : hostIps[p] = [source |-> "auto", excluded |-> TRUE]
NamesKept ==
  \A h \in named : hosts[h].known /\ hosts[h].edited /\ hosts[h].name = "user"
BindingsKept ==
  \A i \in Ip \ raced :
    /\ chosen[i] = NoHost => \A p \in Pair : p[2] = i => hostIps[p].source # "manual"
    /\ chosen[i] # NoHost =>
         /\ hostIps[<<chosen[i], i>>] = [source |-> "manual", excluded |-> FALSE]
         /\ \A p \in Pair : p[2] = i /\ hostIps[p].source = "manual" => p[1] = chosen[i]

WishesInv == /\ GoneStaysGone /\ AloneApart /\ AloneSeesAll /\ AloneActsOnRow
             /\ RemovedMarked /\ NamesKept /\ BindingsKept
=============================================================================
