-------------------------- MODULE InventoryProofs --------------------------
(***************************************************************************)
(* Proofs about Inventory, for any analyses, captures, machines, addresses *)
(* and users.                                                              *)
(***************************************************************************)
EXTENDS Inventory, FiniteSetTheorems, TLAPS

(***************************************************************************)
(* Types, and the locks that tie an open edit to the rows.                 *)
(***************************************************************************)

Run == [pc : Pc, manual : SUBSET Pair, excluded : SUBSET Pair,
        capture : Capture \union {NewAnalysis.capture}, stamp : Nat,
        raised : SUBSET Artifact, found : SUBSET Entry, labels : SUBSET Ip]

MachineRow == [known : BOOLEAN, edited : BOOLEAN, discovered : BOOLEAN,
               name : {"none", "discovered", "label", "user"}]

\* Everything is empty at the start.
LEMMA InitType == Init => TypeInv
  <1> SUFFICES ASSUME Init PROVE TypeInv
    OBVIOUS
  <1>1. TypeOK
    BY DEF Init, TypeOK, Unseen, Unknown, NoRow, Pair, Host
  <1>2. RunsTyped
    BY DEF Init, RunsTyped, NewAnalysis, Pc, Entry
  <1>3. EditsTyped /\ SelectedThere /\ DoomedLocked
    BY DEF Init, EditsTyped, SelectedThere, DoomedLocked, Idle
  <1>4. HistoryTyped /\ RowShape
    BY DEF Init, HistoryTyped, RowShape, NoRow
  <1> QED
    BY <1>1, <1>2, <1>3, <1>4 DEF TypeInv

\* A step of one analysis: its new record is typed.
LEMMA RunsKept ==
  ASSUME TypeInv, NEW a \in Analysis, NEW r \in Run, analysis' = [analysis EXCEPT ![a] = r],
         r.pc \notin {"start", "analyze"} => r.capture \in Capture,
         \A e \in r.found : e.by = "auto" => e.host \in Mac, clock' \in Nat
  PROVE  RunsTyped'
  <1>1. analysis \in [Analysis -> Run]
    BY DEF TypeInv, RunsTyped, Run
  <1>2. analysis' \in [Analysis -> Run]
    BY <1>1
  <1>3. \A b \in Analysis : analysis'[b] = IF b = a THEN r ELSE analysis[b]
    BY <1>1
  <1> QED
    BY <1>2, <1>3 DEF TypeInv, RunsTyped, Run

\* A step that leaves tables, edits and users' history alone keeps all but the
\* types of the runs.
LEMMA TablesAlone ==
  ASSUME TypeInv, RunsTyped', hosts' = hosts, hostIps' = hostIps, edit' = edit,
         ipNames' = ipNames, UNCHANGED wishes,
         artifactSeen' \in [Artifact -> [count : Nat, first : Nat, last : Nat]],
         recorded' \subseteq Analysis, before' \in [Analysis -> SUBSET Analysis]
  PROVE  TypeInv'
  <1>1. TypeOK'
    BY DEF TypeInv, TypeOK, wishes
  <1>2. EditsTyped' /\ SelectedThere' /\ DoomedLocked'
    BY DEF TypeInv, EditsTyped, SelectedThere, DoomedLocked
  <1>3. HistoryTyped' /\ RowShape'
    BY DEF TypeInv, HistoryTyped, RowShape, wishes
  <1> QED
    BY <1>1, <1>2, <1>3 DEF TypeInv

\* Where an address ends is an entry of the machines table.
LEMMA PlacedTyped ==
  ASSUME TypeInv, NEW a \in Analysis, NEW ip \in Ip, NEW o \in Mac \union {NoHost}
  PROVE  /\ Placed(a, ip, o) \subseteq Entry
         /\ \A e \in Placed(a, ip, o) : e.by = "auto" => e.host \in Mac
  <1>1. \A h \in Host, by \in {"auto", "manual"} :
          /\ [host |-> h, ip |-> ip, by |-> by] \in Entry
          /\ [host |-> h, ip |-> ip, by |-> by].by = by
          /\ [host |-> h, ip |-> ip, by |-> by].host = h
    BY DEF Entry
  <1>2. Accepted(a, ip, o) \subseteq Host
    BY DEF Accepted
  <1>3. o # NoHost => o \in Mac /\ o \in Host
    BY DEF Host
  <1>4. CASE Accepted(a, ip, o) # {}
    <2>1. Placed(a, ip, o)
            = {[host |-> h, ip |-> ip, by |-> "manual"] : h \in Accepted(a, ip, o)}
      BY <1>4 DEF Placed
    <2>2. ASSUME NEW e \in Placed(a, ip, o) PROVE e \in Entry /\ e.by = "manual"
      <3>1. PICK h \in Accepted(a, ip, o) : e = [host |-> h, ip |-> ip, by |-> "manual"]
        BY <2>1
      <3> QED
        BY <3>1, <1>1, <1>2
    <2> QED
      BY <2>2
  <1>5. CASE Accepted(a, ip, o) = {}
    <2>1. Placed(a, ip, o) = IF o # NoHost THEN {[host |-> o, ip |-> ip, by |-> "auto"]}
                             ELSE {}
      BY <1>5 DEF Placed
    <2>2. ASSUME NEW e \in Placed(a, ip, o) PROVE e \in Entry /\ e.host \in Mac
      <3>1. o # NoHost /\ e = [host |-> o, ip |-> ip, by |-> "auto"]
        BY <2>1
      <3> QED
        BY <3>1, <1>1, <1>3
    <2> QED
      BY <2>2
  <1> QED
    BY <1>4, <1>5

\* The row of an artifact stays one.
LEMMA UpsertedTyped ==
  ASSUME NEW row \in [count : Nat, first : Nat, last : Nat], NEW stamp \in Nat
  PROVE  Upserted(row, stamp) \in [count : Nat, first : Nat, last : Nat]
  <1> DEFINE n == row.count + 1
             l == IF stamp > row.last THEN stamp ELSE row.last
  <1>1. n \in Nat /\ l \in Nat
    OBVIOUS
  <1>2. Upserted(row, stamp) = IF row.count = 0
                               THEN [count |-> 1, first |-> stamp, last |-> stamp]
                               ELSE [row EXCEPT !.count = n, !.last = l]
    BY DEF Upserted
  <1> HIDE DEF n, l
  <1>3. [row EXCEPT !.count = n, !.last = l] \in [count : Nat, first : Nat, last : Nat]
    BY <1>1
  <1>4. [count |-> 1, first |-> stamp, last |-> stamp]
          \in [count : Nat, first : Nat, last : Nat]
    OBVIOUS
  <1> QED
    BY <1>2, <1>3, <1>4

\* What an analysis writes to the machines table, if it does: names users gave
\* stay, and rows that exist are left alone.
LEMMA MachinesWritten ==
  ASSUME TypeInv, NEW a \in Analysis, RecordHosts(a), ~UNCHANGED machines
  PROVE  /\ hosts' = [h \in Host |-> hosts'[h]] /\ hostIps' = [p \in Pair |-> hostIps'[p]]
         /\ \A h \in Host :
              /\ hosts'[h] \in MachineRow
              /\ hosts[h].known => hosts'[h].known
              /\ h \in Recorded(a) => hosts'[h].known
              /\ h \notin Recorded(a) => hosts'[h] = hosts[h]
              /\ hosts[h].known /\ hosts[h].edited /\ hosts[h].name = "user" =>
                   hosts'[h].edited /\ hosts'[h].name = "user"
         /\ \A p \in Pair :
              \/ hostIps'[p] = hostIps[p]
              \/ /\ hostIps[p] = NoRow
                 /\ hostIps'[p] = [source |-> "auto", excluded |-> FALSE]
                 /\ p[1] \in Mac /\ p[1] \in Recorded(a)
  <1>r. analysis \in [Analysis -> Run]
    BY DEF TypeInv, RunsTyped, Run
  <1>1. /\ hosts' = [h \in Host |->
             IF h \notin Recorded(a) THEN hosts[h]
             ELSE IF hosts[h].known THEN OldMachine(a, h) ELSE NewMachine(a, h)]
        /\ hostIps' = [p \in Pair |->
             IF \E e \in analysis[a].found : /\ <<e.host, e.ip>> = p
                                             /\ e.host \in Recorded(a)
             THEN LET e == CHOOSE f \in analysis[a].found : <<f.host, f.ip>> = p
                  IN BoundRow(hostIps[p], e.by)
             ELSE hostIps[p]]
    BY DEF RecordHosts
  <1>2. ASSUME NEW h \in Host
        PROVE  /\ hosts'[h] \in MachineRow
               /\ hosts[h].known => hosts'[h].known
               /\ h \in Recorded(a) => hosts'[h].known
               /\ h \notin Recorded(a) => hosts'[h] = hosts[h]
               /\ hosts[h].known /\ hosts[h].edited /\ hosts[h].name = "user" =>
                    hosts'[h].edited /\ hosts'[h].name = "user"
    <2>1. Labelled(a, h) \in BOOLEAN /\ Named(a, h) \in BOOLEAN
      BY DEF Labelled, Named
    <2>2. hosts[h] \in MachineRow
      BY DEF TypeInv, TypeOK, MachineRow
    <2>3. NewMachine(a, h) \in MachineRow /\ NewMachine(a, h).known
      BY <2>1 DEF NewMachine, MachineRow
    <2>4. OldMachine(a, h) \in MachineRow /\ OldMachine(a, h).known = hosts[h].known
      BY <2>1, <2>2 DEF OldMachine, MachineRow
    <2>5. hosts[h].edited /\ hosts[h].name = "user" =>
            OldMachine(a, h).edited /\ OldMachine(a, h).name = "user"
      BY <2>1, <2>2 DEF OldMachine, MachineRow
    <2> QED
      BY <1>1, <2>2, <2>3, <2>4, <2>5
  <1>3. \A p \in Pair :
          \/ hostIps'[p] = hostIps[p]
          \/ /\ hostIps[p] = NoRow
             /\ hostIps'[p] = [source |-> "auto", excluded |-> FALSE]
             /\ p[1] \in Mac /\ p[1] \in Recorded(a)
    <2> SUFFICES ASSUME NEW p \in Pair, hostIps'[p] # hostIps[p]
                 PROVE  /\ hostIps[p] = NoRow
                        /\ hostIps'[p] = [source |-> "auto", excluded |-> FALSE]
                        /\ p[1] \in Mac /\ p[1] \in Recorded(a)
      OBVIOUS
    <2>1. \E e \in analysis[a].found : <<e.host, e.ip>> = p /\ e.host \in Recorded(a)
      BY <1>1
    <2> DEFINE e == CHOOSE f \in analysis[a].found : <<f.host, f.ip>> = p
    <2>2. e \in analysis[a].found /\ <<e.host, e.ip>> = p
      BY <2>1
    <2>3. p[1] = e.host /\ p[1] \in Recorded(a)
      BY <2>1, <2>2
    <2>4. hostIps'[p] = BoundRow(hostIps[p], e.by)
      BY <1>1, <2>1
    <2>5. e.by # "manual" /\ hostIps[p] = NoRow
          /\ hostIps'[p] = [source |-> "auto", excluded |-> FALSE]
      BY <2>4 DEF BoundRow
    <2>6. e.by \in {"auto", "manual"}
      BY <2>2, <1>r DEF Run, Entry
    <2>7. p[1] \in Mac
      BY <2>2, <2>3, <2>5, <2>6 DEF TypeInv, RunsTyped
    <2> QED
      BY <2>3, <2>5, <2>7
  <1> QED
    BY <1>1, <1>2, <1>3

\* An analysis keeps the types of the runs and what else it does not touch.
LEMMA StepType ==
  ASSUME TypeInv, NEW a \in Analysis, Step(a)
  PROVE  TypeInv'
  <1>r. analysis \in [Analysis -> Run]
    BY DEF TypeInv, RunsTyped, Run
  <1>1. CASE ReadBindings(a)
    <2>1. PICK read \in BOOLEAN :
            analysis' = [analysis EXCEPT ![a] = [@ EXCEPT
              !.pc = "analyze",
              !.manual = {p \in Pair : /\ read /\ hostIps[p].source = "manual"
                                       /\ ~hostIps[p].excluded},
              !.excluded = {p \in Pair : read /\ hostIps[p].excluded}]]
      BY <1>1 DEF ReadBindings
    <2> DEFINE r == [analysis[a] EXCEPT
              !.pc = "analyze",
              !.manual = {p \in Pair : /\ read /\ hostIps[p].source = "manual"
                                       /\ ~hostIps[p].excluded},
              !.excluded = {p \in Pair : read /\ hostIps[p].excluded}]
    <2>2. r \in Run /\ r.pc = "analyze" /\ r.found = analysis[a].found
      BY <1>r DEF Run, Pc
    <2>3. analysis' = [analysis EXCEPT ![a] = r]
      BY <2>1
    <2>4. \A e \in analysis[a].found : e.by = "auto" => e.host \in Mac
      BY DEF TypeInv, RunsTyped
    <2>5. clock' \in Nat
      BY <1>1 DEF ReadBindings, TypeInv, RunsTyped
    <2> HIDE DEF r
    <2>6. RunsTyped'
      BY <2>2, <2>3, <2>4, <2>5, RunsKept
    <2> QED
      BY <1>1, <2>6, TablesAlone DEF ReadBindings, TypeInv, TypeOK, HistoryTyped, machines
  <1>2. CASE Analyze(a)
    <2>1. PICK c \in Capture, owner \in [Ip -> Mac \union {NoHost}] :
            analysis' = [analysis EXCEPT ![a] = [@ EXCEPT
              !.pc = IF c.artifacts = {} THEN "save" ELSE "history",
              !.manual = {}, !.excluded = {}, !.capture = c, !.stamp = clock + 1,
              !.found = UNION {Placed(a, i, owner[i]) : i \in Ip}]]
      BY <1>2 DEF Analyze
    <2> DEFINE F == UNION {Placed(a, i, owner[i]) : i \in Ip}
               r == [analysis[a] EXCEPT
                      !.pc = IF c.artifacts = {} THEN "save" ELSE "history",
                      !.manual = {}, !.excluded = {}, !.capture = c,
                      !.stamp = clock + 1, !.found = F]
    <2>2. F \subseteq Entry /\ \A e \in F : e.by = "auto" => e.host \in Mac
      BY PlacedTyped
    <2>3. clock \in Nat /\ clock' = clock + 1
      BY <1>2 DEF Analyze, TypeInv, RunsTyped
    <2>4. analysis' = [analysis EXCEPT ![a] = r]
      BY <2>1
    <2> HIDE DEF F
    <2>5. r \in Run /\ r.capture = c /\ r.found = F
      <3>1. clock + 1 \in Nat /\ F \in SUBSET Entry /\ c \in Capture
        BY <2>2, <2>3
      <3> QED
        BY <3>1, <1>r DEF Run, Pc
    <2> HIDE DEF r
    <2>6. clock' \in Nat
      BY <2>3
    <2>7. RunsTyped'
      BY <2>2, <2>4, <2>5, <2>6, RunsKept
    <2> QED
      BY <1>2, <2>7, TablesAlone DEF Analyze, TypeInv, TypeOK, HistoryTyped, machines
  <1>3. CASE CountHistory(a) \/ CorrelationFails(a) \/ SaveScan(a)
    <2>1. RunsTyped'
      BY <1>3, <1>r DEF CountHistory, CorrelationFails, SaveScan, Then, TypeInv,
                        RunsTyped, Run, At, Go, Pc, books
    <2> QED
      BY <1>3, <2>1, TablesAlone DEF CountHistory, CorrelationFails, SaveScan, TypeInv,
                                     TypeOK, HistoryTyped, machines, books
  <1>4. CASE RaiseFirstSeen(a)
    <2>1. analysis[a].capture \in Capture
      BY <1>4 DEF RaiseFirstSeen, At, TypeInv, RunsTyped
    <2>2. FirstOf(Fresh(a)) \subseteq Artifact
      BY <2>1, CaptureAssumption DEF FirstOf, Fresh
    <2>3. RunsTyped'
      BY <1>4, <2>1, <2>2, <1>r DEF RaiseFirstSeen, TypeInv, RunsTyped, Run, Pc, books
    <2> QED
      BY <1>4, <2>3, TablesAlone DEF RaiseFirstSeen, TypeInv, TypeOK, HistoryTyped,
                                     machines, books
  <1>5. CASE RecordArtifacts(a)
    <2> DEFINE r == [analysis[a] EXCEPT !.pc = Then(a)]
    <2>r. /\ analysis' = [analysis EXCEPT ![a] = r]
          /\ clock' = clock /\ analysis[a].pc = "artifacts"
      BY <1>5 DEF RecordArtifacts, Go, At
    <2>c. /\ analysis[a].capture \in Capture /\ clock \in Nat
          /\ \A e \in analysis[a].found : e.by = "auto" => e.host \in Mac
      BY <2>r DEF TypeInv, RunsTyped
    <2>d. r \in Run /\ r.capture = analysis[a].capture /\ r.found = analysis[a].found
      BY <1>r DEF Run, Pc, Then
    <2> HIDE DEF r
    <2>1. RunsTyped'
      BY <2>r, <2>c, <2>d, RunsKept
    <2>2. \A v \in Artifact : Upserted(artifactSeen[v], analysis[a].stamp)
                                \in [count : Nat, first : Nat, last : Nat]
      <3> SUFFICES ASSUME NEW v \in Artifact
                   PROVE  Upserted(artifactSeen[v], analysis[a].stamp)
                            \in [count : Nat, first : Nat, last : Nat]
        OBVIOUS
      <3>1. /\ artifactSeen[v] \in [count : Nat, first : Nat, last : Nat]
            /\ analysis[a].stamp \in Nat
        BY <1>r DEF TypeInv, TypeOK, Run
      <3> QED
        BY <3>1, UpsertedTyped
    <2>3. /\ artifactSeen' \in [Artifact -> [count : Nat, first : Nat, last : Nat]]
          /\ recorded' \subseteq Analysis
      BY <1>5, <2>2 DEF RecordArtifacts, TypeInv, TypeOK, HistoryTyped
    <2> QED
      BY <1>5, <2>1, <2>3, TablesAlone DEF RecordArtifacts, TypeInv, TypeOK,
                                           HistoryTyped, machines
  <1>6. CASE ReadLabels(a)
    <2> DEFINE r == [analysis[a] EXCEPT !.pc = "hosts", !.labels = ipNames]
    <2>r. /\ analysis' = [analysis EXCEPT ![a] = r]
          /\ clock' = clock /\ analysis[a].pc = "labels"
      BY <1>6 DEF ReadLabels, At, books
    <2>c. /\ analysis[a].capture \in Capture /\ clock \in Nat
          /\ \A e \in analysis[a].found : e.by = "auto" => e.host \in Mac
      BY <2>r DEF TypeInv, RunsTyped
    <2>d. r \in Run /\ r.capture = analysis[a].capture /\ r.found = analysis[a].found
      <3>1. ipNames \in SUBSET Ip
        BY DEF TypeInv, TypeOK
      <3> QED
        BY <3>1, <1>r DEF Run, Pc
    <2> HIDE DEF r
    <2>1. RunsTyped'
      BY <2>r, <2>c, <2>d, RunsKept
    <2> QED
      BY <1>6, <2>1, TablesAlone DEF ReadLabels, TypeInv, TypeOK, HistoryTyped,
                                     machines, books
  <1>7. CASE RecordHosts(a)
    <2>1. RunsTyped'
      BY <1>7, <1>r DEF RecordHosts, TypeInv, RunsTyped, Run, At, Pc, books
    <2>e. EditsTyped' /\ HistoryTyped'
      BY <1>7 DEF RecordHosts, TypeInv, EditsTyped, HistoryTyped, wishes, books
    <2>2. CASE UNCHANGED machines
      BY <1>7, <2>1, <2>2, TablesAlone DEF RecordHosts, TypeInv, TypeOK, HistoryTyped,
                                           machines, books
    <2>3. CASE ~UNCHANGED machines
      <3>1. /\ hosts' = [h \in Host |-> hosts'[h]] /\ hostIps' = [p \in Pair |-> hostIps'[p]]
            /\ \A h \in Host : /\ hosts'[h] \in MachineRow
                               /\ hosts[h].known => hosts'[h].known
                               /\ h \in Recorded(a) => hosts'[h].known
        BY <1>7, <2>3, MachinesWritten
      <3>2. \A h \in Host : /\ hosts'[h] \in [known : BOOLEAN, edited : BOOLEAN,
                                 discovered : BOOLEAN,
                                 name : {"none", "discovered", "label", "user"}]
                            /\ hosts[h].known => hosts'[h].known
                            /\ h \in Recorded(a) => hosts'[h].known
        BY <3>1 DEF MachineRow
      <3>3. \A p \in Pair :
              \/ hostIps'[p] = hostIps[p]
              \/ /\ hostIps[p] = NoRow
                 /\ hostIps'[p] = [source |-> "auto", excluded |-> FALSE]
                 /\ p[1] \in Mac /\ p[1] \in Recorded(a)
        BY <1>7, <2>3, MachinesWritten
      <3>4. TypeOK'
        <4>1. hostIps' \in [Pair -> [source : {"none", "auto", "manual"},
                                     excluded : BOOLEAN]]
          <5>1. hostIps' = [p \in Pair |-> hostIps'[p]]
            BY <3>1
          <5>2. \A p \in Pair : hostIps'[p] \in [source : {"none", "auto", "manual"},
                                                excluded : BOOLEAN]
            <6>1. \A p \in Pair : hostIps[p] \in [source : {"none", "auto", "manual"},
                                                  excluded : BOOLEAN]
              BY DEF TypeInv, TypeOK
            <6>2. [source |-> "auto", excluded |-> FALSE]
                    \in [source : {"none", "auto", "manual"}, excluded : BOOLEAN]
              OBVIOUS
            <6> QED
              BY <3>3, <6>1, <6>2
          <5> QED
            BY <5>1, <5>2
        <4>2. \A p \in Pair : hostIps'[p] # NoRow => hosts'[p[1]].known
          BY <3>2, <3>3 DEF TypeInv, TypeOK, Pair
        <4> QED
          BY <1>7, <4>1, <4>2, <3>1, <3>2 DEF RecordHosts, TypeInv, TypeOK, wishes, books
      <3>5. RowShape'
        BY <3>3 DEF TypeInv, RowShape
      <3>6. SelectedThere' /\ DoomedLocked'
        <4>1. edit' = edit
          BY <1>7 DEF RecordHosts
        <4>2. \A p \in Pair : /\ hostIps[p] # NoRow => hostIps'[p] = hostIps[p]
                              /\ hostIps[p].source = "manual" => hostIps'[p] = hostIps[p]
          BY <3>3 DEF NoRow
        <4>3. \A u \in User : edit[u].doomed \subseteq Pair
          BY DEF TypeInv, EditsTyped
        <4>4. \A u \in User : edit[u].op = "unbind" => edit[u].pair \in Pair
          BY DEF TypeInv, EditsTyped
        <4>5. SelectedThere'
          BY <4>1, <4>2, <4>4 DEF TypeInv, SelectedThere
        <4>6. DoomedLocked'
          BY <4>1, <4>2, <4>3 DEF TypeInv, DoomedLocked
        <4> QED
          BY <4>5, <4>6
      <3> QED
        BY <2>1, <2>e, <3>4, <3>5, <3>6 DEF TypeInv
    <2> QED
      BY <2>2, <2>3
  <1> QED
    BY <1>1, <1>2, <1>3, <1>4, <1>5, <1>6, <1>7 DEF Step

OpenEdit == [op : {"idle", "bind", "unbind"}, pair : Pair \union {Idle.pair},
             source : {"none", "auto", "manual", "gone"},
             doomed : SUBSET Pair, alone : BOOLEAN]
Binding == [source : {"none", "auto", "manual"}, excluded : BOOLEAN]

\* Opening an edit changes no other, but for being alone.
LEMMA OpenKeeps ==
  ASSUME TypeInv, NEW u \in User, NEW op \in {"bind", "unbind"}, NEW p \in Pair,
         NEW source \in {"none", "auto", "manual"}, NEW doomed \in SUBSET Pair,
         Open(u, op, p, source, doomed)
  PROVE  /\ EditsTyped'
         /\ edit'[u].op = op /\ edit'[u].pair = p
         /\ edit'[u].source = source /\ edit'[u].doomed = doomed
         /\ edit'[u].alone => \A x \in User : ~Busy(x, p[2])
         /\ \A w \in User \ {u} :
              /\ edit'[w].op = edit[w].op /\ edit'[w].pair = edit[w].pair
              /\ edit'[w].source = edit[w].source /\ edit'[w].doomed = edit[w].doomed
              /\ edit'[w].alone => edit[w].alone /\ ~Busy(w, p[2])
  <1> DEFINE new == [op |-> op, pair |-> p, source |-> source, doomed |-> doomed,
                     alone |-> \A x \in User : ~Busy(x, p[2])]
  <1>1. edit \in [User -> OpenEdit]
    BY DEF TypeInv, EditsTyped, OpenEdit
  <1>2. edit' = [w \in User |-> IF w = u THEN new
                               ELSE IF Busy(w, p[2]) THEN [edit[w] EXCEPT !.alone = FALSE]
                               ELSE edit[w]]
    BY DEF Open
  <1>3. new \in OpenEdit
    <2>1. (\A x \in User : ~Busy(x, p[2])) \in BOOLEAN
      OBVIOUS
    <2> QED
      BY <2>1 DEF OpenEdit
  <1>4. edit'[u] = new
    BY <1>2
  <1>5. ASSUME NEW w \in User \ {u}
        PROVE  /\ edit'[w] \in OpenEdit
               /\ edit'[w].op = edit[w].op /\ edit'[w].pair = edit[w].pair
               /\ edit'[w].source = edit[w].source /\ edit'[w].doomed = edit[w].doomed
               /\ edit'[w].alone => edit[w].alone /\ ~Busy(w, p[2])
    BY <1>1, <1>2 DEF OpenEdit
  <1>6. edit' \in [User -> OpenEdit]
    <2> HIDE DEF new
    <2>1. edit' = [w \in User |-> edit'[w]]
      BY <1>2
    <2> QED
      BY <2>1, <1>3, <1>4, <1>5
  <1>7. EditsTyped'
    BY <1>4, <1>5, <1>6 DEF TypeInv, EditsTyped, OpenEdit
  <1>8. /\ new.op = op /\ new.pair = p /\ new.source = source /\ new.doomed = doomed
        /\ new.alone => \A x \in User : ~Busy(x, p[2])
    OBVIOUS
  <1> HIDE DEF new
  <1> QED
    BY <1>4, <1>5, <1>7, <1>8

\* Closing an edit changes no other, but for rows that are gone.
LEMMA CloseKeeps ==
  ASSUME TypeInv, NEW u \in User, NEW gone, Close(u, gone)
  PROVE  /\ EditsTyped' /\ edit'[u] = Idle
         /\ \A w \in User \ {u} :
              /\ edit'[w].op = edit[w].op /\ edit'[w].pair = edit[w].pair
              /\ edit'[w].alone = edit[w].alone /\ edit'[w].doomed = edit[w].doomed
              /\ edit'[w].source = IF edit[w].op = "unbind" /\ edit[w].pair \in gone
                                   THEN "gone" ELSE edit[w].source
  <1>1. edit \in [User -> OpenEdit]
    BY DEF TypeInv, EditsTyped, OpenEdit
  <1>2. edit' = [w \in User |->
                   IF w = u THEN Idle
                   ELSE IF edit[w].op = "unbind" /\ edit[w].pair \in gone
                   THEN [edit[w] EXCEPT !.source = "gone"] ELSE edit[w]]
    BY DEF Close
  <1>3. Idle \in OpenEdit /\ Idle.op = "idle"
    BY DEF OpenEdit, Idle
  <1>4. edit'[u] = Idle
    BY <1>2
  <1>5. ASSUME NEW w \in User \ {u}
        PROVE  /\ edit'[w] \in OpenEdit
               /\ edit'[w].op = edit[w].op /\ edit'[w].pair = edit[w].pair
               /\ edit'[w].alone = edit[w].alone /\ edit'[w].doomed = edit[w].doomed
               /\ edit'[w].source = IF edit[w].op = "unbind" /\ edit[w].pair \in gone
                                    THEN "gone" ELSE edit[w].source
    BY <1>1, <1>2 DEF OpenEdit
  <1>6. edit' \in [User -> OpenEdit]
    <2>1. edit' = [w \in User |-> edit'[w]]
      BY <1>2
    <2> QED
      BY <2>1, <1>3, <1>4, <1>5
  <1>7. EditsTyped'
    BY <1>3, <1>4, <1>5, <1>6 DEF TypeInv, EditsTyped, OpenEdit
  <1> QED
    BY <1>4, <1>5, <1>7

\* Opening a bind or an unbind.
LEMMA BeginType ==
  ASSUME TypeInv, NEW u \in User, NEW h \in Host, NEW ip \in Ip, NEW p \in Pair,
         BeginBind(u, h, ip) \/ BeginUnbind(u, p)
  PROVE  TypeInv'
  <1>1. TypeOK' /\ RunsTyped' /\ HistoryTyped' /\ RowShape'
    BY DEF BeginBind, BeginUnbind, TypeInv, TypeOK, RunsTyped, HistoryTyped, RowShape,
           machines, books, wishes
  <1>2. hostIps' = hostIps
    BY DEF BeginBind, BeginUnbind, machines
  <1>3. CASE BeginBind(u, h, ip)
    <2>1. /\ Open(u, "bind", <<h, ip>>, "none", Others(h, ip))
          /\ <<h, ip>> \in Pair /\ Others(h, ip) \in SUBSET Pair
          /\ Others(h, ip) \intersect Doomed = {}
      BY <1>3 DEF BeginBind, Others, Pair
    <2>2. /\ EditsTyped'
          /\ edit'[u].op = "bind" /\ edit'[u].pair = <<h, ip>>
          /\ edit'[u].doomed = Others(h, ip)
          /\ \A w \in User \ {u} :
               /\ edit'[w].op = edit[w].op /\ edit'[w].pair = edit[w].pair
               /\ edit'[w].source = edit[w].source /\ edit'[w].doomed = edit[w].doomed
      <3>1. PICK d \in SUBSET Pair : d = Others(h, ip)
        BY <2>1
      <3>2. Open(u, "bind", <<h, ip>>, "none", d)
        BY <2>1, <3>1 DEF Open
      <3> QED
        BY <2>1, <3>1, <3>2, OpenKeeps
    <2>3. SelectedThere'
      BY <2>2, <1>2 DEF TypeInv, SelectedThere
    <2>4. DoomedLocked'
      <3>1. \A q \in Others(h, ip) : /\ hostIps[q].source = "manual" /\ q[2] = ip
                                     /\ q # <<h, ip>>
        BY DEF Others
      <3>2. \A w \in User \ {u} : Others(h, ip) \intersect edit[w].doomed = {}
        BY <2>1 DEF Doomed
      <3> QED
        <4>1. ASSUME NEW w \in User
              PROVE  /\ edit'[w].op # "bind" => edit'[w].doomed = {}
                     /\ \A q \in edit'[w].doomed : /\ hostIps'[q].source = "manual"
                                                   /\ q[2] = edit'[w].pair[2]
                                                   /\ q # edit'[w].pair
          <5>1. CASE w = u
            BY <5>1, <3>1, <2>2, <1>2
          <5>2. CASE w # u
            BY <5>2, <2>2, <1>2 DEF TypeInv, DoomedLocked
          <5> QED
            BY <5>1, <5>2
        <4>2. ASSUME NEW w \in User, NEW x \in User \ {w}
              PROVE  edit'[w].doomed \intersect edit'[x].doomed = {}
          <5>1. CASE w = u
            BY <5>1, <3>2, <2>2
          <5>2. CASE x = u
            BY <5>2, <3>2, <2>2
          <5>3. CASE w # u /\ x # u
            BY <5>3, <2>2 DEF TypeInv, DoomedLocked
          <5> QED
            BY <5>1, <5>2, <5>3
        <4> QED
          BY <4>1, <4>2 DEF DoomedLocked
    <2> QED
      BY <1>1, <2>2, <2>3, <2>4 DEF TypeInv
  <1>4. CASE BeginUnbind(u, p)
    <2>1. /\ Open(u, "unbind", p, hostIps[p].source, {})
          /\ hostIps[p].source \in {"auto", "manual"} /\ hostIps[p] # NoRow
      BY <1>4 DEF BeginUnbind, TypeInv, TypeOK, RowShape
    <2>2. /\ EditsTyped'
          /\ edit'[u].op = "unbind" /\ edit'[u].pair = p
          /\ edit'[u].source = hostIps[p].source /\ edit'[u].doomed = {}
          /\ \A w \in User \ {u} :
               /\ edit'[w].op = edit[w].op /\ edit'[w].pair = edit[w].pair
               /\ edit'[w].source = edit[w].source /\ edit'[w].doomed = edit[w].doomed
      <3>1. PICK source \in {"auto", "manual"} : source = hostIps[p].source
        BY <2>1
      <3>2. Open(u, "unbind", p, source, {})
        BY <2>1, <3>1 DEF Open
      <3> QED
        BY <3>1, <3>2, OpenKeeps
    <2>3. SelectedThere'
      BY <2>1, <2>2, <1>2 DEF TypeInv, SelectedThere
    <2>4. DoomedLocked'
      BY <2>2, <1>2 DEF TypeInv, DoomedLocked
    <2> QED
      BY <1>1, <2>2, <2>3, <2>4 DEF TypeInv
  <1> QED
    BY <1>3, <1>4

\* What a bind leaves of the rows.
LEMMA BoundRows ==
  ASSUME TypeInv, NEW u \in User, CommitBind(u)
  PROVE  /\ edit[u].op = "bind" /\ edit[u].pair \in Pair
         /\ hosts[edit[u].pair[1]].known
         /\ hostIps' \in [Pair -> Binding]
         /\ hostIps'[edit[u].pair] = [source |-> "manual", excluded |-> FALSE]
         /\ \A q \in Pair :
              q # edit[u].pair /\ q \in edit[u].doomed => hostIps'[q] = NoRow
         /\ \A q \in Pair :
              q # edit[u].pair /\ q \notin edit[u].doomed => hostIps'[q] = hostIps[q]
         /\ \A w \in User \ {u} : edit[u].pair \notin edit[w].doomed
         /\ Close(u, edit[u].doomed)
  <1>1. edit[u].op = "bind" /\ edit[u].pair \in Pair
    BY DEF CommitBind, TypeInv, EditsTyped
  <1>2. hostIps' = [q \in Pair |->
          IF q = edit[u].pair THEN [source |-> "manual", excluded |-> FALSE]
          ELSE IF q \in edit[u].doomed THEN NoRow ELSE hostIps[q]]
    BY DEF CommitBind
  <1>3. hostIps' \in [Pair -> Binding]
    BY <1>2 DEF Binding, NoRow, TypeInv, TypeOK
  <1> QED
    BY <1>1, <1>2, <1>3 DEF CommitBind

\* A bind keeps the types: the rows it deletes are its own to delete.
LEMMA CommitBindType ==
  ASSUME TypeInv, NEW u \in User, CommitBind(u)
  PROVE  TypeInv'
  <1> DEFINE p == edit[u].pair
  <1>b. /\ edit[u].op = "bind" /\ p \in Pair
        /\ hosts[p[1]].known
        /\ hostIps' \in [Pair -> Binding]
        /\ hostIps'[p] = [source |-> "manual", excluded |-> FALSE]
        /\ \A q \in Pair : q # p /\ q \in edit[u].doomed => hostIps'[q] = NoRow
        /\ \A q \in Pair : q # p /\ q \notin edit[u].doomed => hostIps'[q] = hostIps[q]
        /\ \A w \in User \ {u} : p \notin edit[w].doomed
        /\ Close(u, edit[u].doomed)
    BY BoundRows
  <1>c. /\ EditsTyped' /\ edit'[u] = Idle
        /\ \A w \in User \ {u} :
             /\ edit'[w].op = edit[w].op /\ edit'[w].pair = edit[w].pair
             /\ edit'[w].doomed = edit[w].doomed
             /\ edit'[w].source = IF edit[w].op = "unbind" /\ edit[w].pair \in edit[u].doomed
                                  THEN "gone" ELSE edit[w].source
    <2>1. PICK gone : gone = edit[u].doomed
      OBVIOUS
    <2>2. Close(u, gone)
      BY <1>b, <2>1 DEF Close
    <2> QED
      BY <2>1, <2>2, CloseKeeps
  <1>q. \A q \in Pair : \/ q = p
                       \/ hostIps'[q] = NoRow
                       \/ hostIps'[q] = hostIps[q]
    BY <1>b
  <1>k. hosts[p[1]].known
    BY <1>b
  <1>m. hostIps'[p] = [source |-> "manual", excluded |-> FALSE]
    BY <1>b
  <1> HIDE DEF p
  <1>1. TypeOK'
    <2>1. chosen' \in [Ip -> Host \union {NoHost}]
      BY <1>b DEF CommitBind, TypeInv, TypeOK, Pair, p
    <2>2. /\ hosts' = hosts /\ artifactSeen' = artifactSeen /\ ipNames' = ipNames
      BY DEF CommitBind, books
    <2>3. \A q \in Pair : hostIps'[q] # NoRow => hosts[q[1]].known
      <3>1. \A q \in Pair : hostIps[q] # NoRow => hosts[q[1]].known
        BY DEF TypeInv, TypeOK
      <3> QED
        BY <3>1, <1>q, <1>k
    <2> QED
      BY <1>b, <2>1, <2>2, <2>3 DEF Binding, TypeInv, TypeOK
  <1>2. RunsTyped'
    BY DEF CommitBind, books, TypeInv, RunsTyped
  <1>3. HistoryTyped'
    <2>1. p[2] \in Ip
      BY <1>b DEF Pair
    <2>2. raced' \subseteq raced \union {p[2]} /\ removed' \subseteq removed
      BY DEF CommitBind, Race, p
    <2>3. UNCHANGED <<recorded, before, named, deleted>>
      BY DEF CommitBind, books
    <2> QED
      BY <2>1, <2>2, <2>3 DEF TypeInv, HistoryTyped
  <1>4. RowShape'
    BY <1>q, <1>m DEF TypeInv, RowShape, NoRow
  <1>5. SelectedThere'
    <2> SUFFICES ASSUME NEW w \in User \ {u}, edit[w].op = "unbind"
                 PROVE  /\ edit'[w].source # "none"
                        /\ edit'[w].source = "auto" => hostIps'[edit[w].pair] # NoRow
                        /\ edit'[w].source = "manual"
                             => hostIps'[edit[w].pair].source = "manual"
      BY <1>c DEF SelectedThere, Idle
    <2>1. edit[w].pair \in Pair
      BY DEF TypeInv, EditsTyped
    <2> QED
      BY <2>1, <1>b, <1>c DEF TypeInv, SelectedThere, NoRow
  <1>6. DoomedLocked'
    <2>1. Idle.doomed = {} /\ Idle.op = "idle"
      BY DEF Idle
    <2>2. ASSUME NEW w \in User \ {u}
          PROVE  /\ edit'[w].op # "bind" => edit'[w].doomed = {}
                 /\ \A q \in edit'[w].doomed : /\ hostIps'[q].source = "manual"
                                               /\ q[2] = edit'[w].pair[2]
                                               /\ q # edit'[w].pair
      <3>1. edit[w].doomed \subseteq Pair /\ edit[w].doomed \intersect edit[u].doomed = {}
        BY DEF TypeInv, EditsTyped, DoomedLocked
      <3> QED
        BY <3>1, <1>b, <1>c DEF TypeInv, DoomedLocked
    <2>3. ASSUME NEW w \in User, NEW x \in User \ {w}
          PROVE  edit'[w].doomed \intersect edit'[x].doomed = {}
      <3>1. CASE w = u \/ x = u
        BY <3>1, <2>1, <1>c
      <3>2. CASE w # u /\ x # u
        BY <3>2, <1>c DEF TypeInv, DoomedLocked
      <3> QED
        BY <3>1, <3>2
    <2> QED
      BY <2>1, <2>2, <2>3, <1>c DEF DoomedLocked
  <1> QED
    BY <1>1, <1>2, <1>3, <1>4, <1>5, <1>6, <1>c DEF TypeInv

\* A step of the users that leaves rows and machines alone.
LEMMA BindFailsType ==
  ASSUME TypeInv, NEW u \in User, BindFails(u)
  PROVE  TypeInv'
  <1>c. /\ EditsTyped' /\ edit'[u] = Idle
        /\ \A w \in User \ {u} :
             /\ edit'[w].op = edit[w].op /\ edit'[w].pair = edit[w].pair
             /\ edit'[w].doomed = edit[w].doomed /\ edit'[w].source = edit[w].source
    BY CloseKeeps DEF BindFails
  <1>i. Idle.op = "idle" /\ Idle.doomed = {}
    BY DEF Idle
  <1>h. hostIps' = hostIps /\ hosts' = hosts
    BY DEF BindFails, machines
  <1>1. TypeOK' /\ RunsTyped' /\ RowShape'
    BY <1>h DEF BindFails, books, TypeInv, TypeOK, RunsTyped, RowShape
  <1>2. HistoryTyped'
    <2>1. edit[u].pair[2] \in Ip
      BY DEF BindFails, TypeInv, EditsTyped, Pair
    <2> QED
      BY <2>1 DEF BindFails, Race, books, TypeInv, HistoryTyped
  <1>3. SelectedThere'
    BY <1>c, <1>i, <1>h DEF TypeInv, SelectedThere
  <1>4. DoomedLocked'
    <2>1. ASSUME NEW w \in User
          PROVE  /\ edit'[w].op # "bind" => edit'[w].doomed = {}
                 /\ \A q \in edit'[w].doomed : /\ hostIps'[q].source = "manual"
                                               /\ q[2] = edit'[w].pair[2]
                                               /\ q # edit'[w].pair
      <3>1. CASE w = u
        BY <3>1, <1>c, <1>i
      <3>2. CASE w # u
        BY <3>2, <1>c, <1>h DEF TypeInv, DoomedLocked
      <3> QED
        BY <3>1, <3>2
    <2>2. ASSUME NEW w \in User, NEW x \in User \ {w}
          PROVE  edit'[w].doomed \intersect edit'[x].doomed = {}
      <3>1. CASE w = u \/ x = u
        BY <3>1, <1>i, <1>c
      <3>2. CASE w # u /\ x # u
        BY <3>2, <1>c DEF TypeInv, DoomedLocked
      <3> QED
        BY <3>1, <3>2
    <2> QED
      BY <2>1, <2>2 DEF DoomedLocked
  <1> QED
    BY <1>1, <1>2, <1>3, <1>4, <1>c DEF TypeInv

\* What an unbind leaves of its row.
LEMMA UnboundRow ==
  ASSUME TypeInv, NEW u \in User, CommitUnbind(u)
  PROVE  /\ edit[u].op = "unbind" /\ edit[u].pair \in Pair
         /\ \A w \in User : edit[u].pair \notin edit[w].doomed
         /\ hostIps' \in [Pair -> Binding]
         /\ \A q \in Pair : q # edit[u].pair => hostIps'[q] = hostIps[q]
         /\ edit[u].source = "manual" => /\ hostIps[edit[u].pair].source = "manual"
                                         /\ hostIps'[edit[u].pair] = NoRow
         /\ edit[u].source = "auto" =>
              /\ hostIps[edit[u].pair] # NoRow
              /\ hostIps'[edit[u].pair].source = hostIps[edit[u].pair].source
              /\ hostIps'[edit[u].pair].excluded
         /\ edit[u].source \notin {"auto", "manual"} =>
              hostIps'[edit[u].pair] = hostIps[edit[u].pair]
  <1> DEFINE p == edit[u].pair
  <1>1. /\ edit[u].op = "unbind" /\ p \in Pair
        /\ \A w \in User : p \notin edit[w].doomed
        /\ hostIps' = [hostIps EXCEPT ![p] = Unbound(hostIps[p], edit[u].source)]
    BY DEF CommitUnbind, TypeInv, EditsTyped, Doomed
  <1>2. /\ edit[u].source = "manual" => hostIps[p].source = "manual"
        /\ edit[u].source = "auto" => hostIps[p] # NoRow
        /\ hostIps \in [Pair -> Binding]
    BY <1>1 DEF TypeInv, TypeOK, SelectedThere, Binding
  <1>3. /\ edit[u].source = "manual" => Unbound(hostIps[p], edit[u].source) = NoRow
        /\ edit[u].source = "auto" =>
             Unbound(hostIps[p], edit[u].source) = [hostIps[p] EXCEPT !.excluded = TRUE]
        /\ edit[u].source \notin {"auto", "manual"} =>
             Unbound(hostIps[p], edit[u].source) = hostIps[p]
    BY DEF Unbound
  <1>4. Unbound(hostIps[p], edit[u].source) \in Binding
    <2>1. hostIps[p] \in Binding /\ NoRow \in Binding
      BY <1>1, <1>2 DEF Binding, NoRow
    <2>2. [hostIps[p] EXCEPT !.excluded = TRUE] \in Binding
      BY <2>1 DEF Binding
    <2> QED
      BY <2>1, <2>2, <1>3
  <1>5. /\ hostIps'[p] = Unbound(hostIps[p], edit[u].source)
        /\ hostIps' \in [Pair -> Binding]
        /\ \A q \in Pair : q # p => hostIps'[q] = hostIps[q]
    BY <1>1, <1>2, <1>4
  <1>6. [hostIps[p] EXCEPT !.excluded = TRUE].excluded
        /\ [hostIps[p] EXCEPT !.excluded = TRUE].source = hostIps[p].source
    BY <1>1, <1>2 DEF Binding
  <1> QED
    BY <1>1, <1>2, <1>3, <1>5, <1>6

\* What closing an unbind does to the other edits.
LEMMA UnbindCloses ==
  ASSUME TypeInv, NEW u \in User, CommitUnbind(u)
  PROVE  /\ EditsTyped' /\ edit'[u] = Idle
         /\ \A w \in User \ {u} :
              /\ edit'[w].op = edit[w].op /\ edit'[w].pair = edit[w].pair
              /\ edit'[w].alone = edit[w].alone /\ edit'[w].doomed = edit[w].doomed
              /\ \/ edit'[w].source = edit[w].source
                 \/ /\ edit'[w].source = "gone" /\ edit[w].op = "unbind"
                    /\ edit[w].pair = edit[u].pair
              /\ edit[w].op = "unbind" /\ edit[w].pair = edit[u].pair
                 /\ edit[u].source = "manual" => edit'[w].source = "gone"
  <1>1. PICK gone : gone = IF edit[u].source = "manual" THEN {edit[u].pair} ELSE {}
    OBVIOUS
  <1>2. Close(u, gone)
    BY <1>1 DEF CommitUnbind, Close
  <1> QED
    BY <1>1, <1>2, CloseKeeps

\* An unbind keeps the types: what others had selected is there or known to be gone.
LEMMA CommitUnbindType ==
  ASSUME TypeInv, NEW u \in User, CommitUnbind(u)
  PROVE  TypeInv'
  <1> DEFINE p == edit[u].pair
  <1>b. /\ edit[u].op = "unbind" /\ p \in Pair
        /\ \A w \in User : p \notin edit[w].doomed
        /\ hostIps' \in [Pair -> Binding]
        /\ \A q \in Pair : q # p => hostIps'[q] = hostIps[q]
        /\ edit[u].source = "manual" => hostIps'[p] = NoRow
        /\ edit[u].source = "auto" => /\ hostIps[p] # NoRow /\ hostIps'[p].excluded
                                      /\ hostIps'[p].source = hostIps[p].source
        /\ edit[u].source \notin {"auto", "manual"} => hostIps'[p] = hostIps[p]
    BY UnboundRow
  <1>c. /\ EditsTyped' /\ edit'[u] = Idle
        /\ \A w \in User \ {u} :
             /\ edit'[w].op = edit[w].op /\ edit'[w].pair = edit[w].pair
             /\ edit'[w].doomed = edit[w].doomed
             /\ edit'[w].source = edit[w].source \/ edit'[w].source = "gone"
             /\ edit[w].op = "unbind" /\ edit[w].pair = p
                /\ edit[u].source = "manual" => edit'[w].source = "gone"
    BY UnbindCloses
  <1>i. Idle.op = "idle" /\ Idle.doomed = {}
    BY DEF Idle
  <1>h. hosts' = hosts
    BY DEF CommitUnbind
  <1>s. RowShape /\ \A q \in Pair : hostIps[q] # NoRow => hosts[q[1]].known
    BY DEF TypeInv, TypeOK
  <1> HIDE DEF p
  <1>1. TypeOK'
    <2>1. chosen' \in [Ip -> Host \union {NoHost}]
      BY DEF CommitUnbind, TypeInv, TypeOK
    <2>2. artifactSeen' = artifactSeen /\ ipNames' = ipNames
      BY DEF CommitUnbind, books
    <2>3. \A q \in Pair : hostIps'[q] # NoRow => hosts[q[1]].known
      BY <1>b, <1>s
    <2> QED
      BY <1>b, <1>h, <2>1, <2>2, <2>3 DEF Binding, TypeInv, TypeOK
  <1>2. RunsTyped'
    BY DEF CommitUnbind, books, TypeInv, RunsTyped
  <1>3. HistoryTyped'
    <2>1. p[2] \in Ip
      BY <1>b DEF Pair
    <2>2. raced' \subseteq raced \union {p[2]} /\ removed' \subseteq removed \union {p}
      BY DEF CommitUnbind, Race, p
    <2>3. UNCHANGED <<recorded, before, named, deleted>>
      BY DEF CommitUnbind, books
    <2> QED
      BY <2>1, <2>2, <2>3, <1>b DEF TypeInv, HistoryTyped
  <1>4. RowShape'
    <2>1. /\ hostIps'[p].source = "none" => hostIps'[p] = NoRow
          /\ hostIps'[p].source = "auto" => p[1] \in Mac
      BY <1>b, <1>s DEF RowShape, NoRow
    <2> QED
      BY <2>1, <1>b, <1>s DEF RowShape
  <1>5. SelectedThere'
    <2> SUFFICES ASSUME NEW w \in User \ {u}, edit[w].op = "unbind"
                 PROVE  /\ edit'[w].source # "none"
                        /\ edit'[w].source = "auto" => hostIps'[edit[w].pair] # NoRow
                        /\ edit'[w].source = "manual"
                             => hostIps'[edit[w].pair].source = "manual"
      BY <1>c, <1>i DEF SelectedThere
    <2>1. edit[w].pair \in Pair
      BY DEF TypeInv, EditsTyped
    <2>2. CASE edit[w].pair # p
      BY <2>1, <2>2, <1>b, <1>c DEF TypeInv, SelectedThere
    <2>3. CASE edit[w].pair = p
      <3>1. /\ edit[w].source # "none"
            /\ edit[w].source = "auto" => hostIps[p] # NoRow
            /\ edit[w].source = "manual" => hostIps[p].source = "manual"
        BY <2>3 DEF TypeInv, SelectedThere
      <3>2. CASE edit[u].source = "manual"
        BY <3>2, <2>3, <1>c
      <3>3. CASE edit[u].source = "auto"
        <4>1. hostIps'[p] # NoRow
          BY <3>3, <1>b DEF NoRow
        <4> QED
          BY <4>1, <3>1, <3>3, <2>3, <1>b, <1>c
      <3>4. CASE edit[u].source \notin {"auto", "manual"}
        BY <3>1, <3>4, <2>3, <1>b, <1>c
      <3> QED
        BY <3>2, <3>3, <3>4
    <2> QED
      BY <2>2, <2>3
  <1>6. DoomedLocked'
    <2>1. ASSUME NEW w \in User \ {u}
          PROVE  /\ edit'[w].op # "bind" => edit'[w].doomed = {}
                 /\ \A q \in edit'[w].doomed : /\ hostIps'[q].source = "manual"
                                               /\ q[2] = edit'[w].pair[2]
                                               /\ q # edit'[w].pair
      <3>1. edit[w].doomed \subseteq Pair
        BY DEF TypeInv, EditsTyped
      <3> QED
        BY <3>1, <1>b, <1>c DEF TypeInv, DoomedLocked
    <2>2. ASSUME NEW w \in User, NEW x \in User \ {w}
          PROVE  edit'[w].doomed \intersect edit'[x].doomed = {}
      <3>1. CASE w = u \/ x = u
        BY <3>1, <1>i, <1>c
      <3>2. CASE w # u /\ x # u
        BY <3>2, <1>c DEF TypeInv, DoomedLocked
      <3> QED
        BY <3>1, <3>2
    <2> QED
      BY <2>1, <2>2, <1>i, <1>c DEF DoomedLocked
  <1> QED
    BY <1>1, <1>2, <1>3, <1>4, <1>5, <1>6, <1>c DEF TypeInv

\* Machines created, renamed or deleted, labels, and scans deleted.
LEMMA DeleteHostType ==
  ASSUME TypeInv, NEW h \in ManualHost, DeleteHost(h)
  PROVE  TypeInv'
  <1>b. /\ RowsOf(h) \intersect Doomed = {}
        /\ hosts' = [hosts EXCEPT ![h] = Unknown]
        /\ hostIps' = [p \in Pair |-> IF p \in RowsOf(h) THEN NoRow ELSE hostIps[p]]
        /\ edit' = [u \in User |->
             IF edit[u].op = "unbind" /\ edit[u].pair \in RowsOf(h)
             THEN [edit[u] EXCEPT !.source = "gone"] ELSE edit[u]]
    BY DEF DeleteHost
  <1>r. /\ \A p \in RowsOf(h) : hostIps'[p] = NoRow
        /\ \A p \in Pair : p \notin RowsOf(h) => hostIps'[p] = hostIps[p]
        /\ \A p \in Pair : p[1] = h => hostIps'[p] = NoRow
    BY <1>b DEF RowsOf
  <1>d. \A u \in User : \A p \in edit[u].doomed : p \in Pair /\ p \notin RowsOf(h)
    BY <1>b DEF Doomed, TypeInv, EditsTyped
  <1>e. \A u \in User :
          /\ edit'[u] \in OpenEdit
          /\ edit'[u].op = edit[u].op /\ edit'[u].pair = edit[u].pair
          /\ edit'[u].doomed = edit[u].doomed
          /\ edit'[u].source = IF edit[u].op = "unbind" /\ edit[u].pair \in RowsOf(h)
                               THEN "gone" ELSE edit[u].source
    <2>1. edit \in [User -> OpenEdit]
      BY DEF TypeInv, EditsTyped, OpenEdit
    <2> QED
      BY <2>1, <1>b DEF OpenEdit
  <1>1. TypeOK'
    <2>1. hosts' \in [Host -> MachineRow]
      BY <1>b DEF TypeInv, TypeOK, MachineRow, Unknown
    <2>2. \A p \in Pair : hostIps'[p] # NoRow => hosts'[p[1]].known
      <3> SUFFICES ASSUME NEW p \in Pair, hostIps'[p] # NoRow PROVE hosts'[p[1]].known
        OBVIOUS
      <3>1. p[1] # h /\ hostIps[p] # NoRow /\ p[1] \in Host
        BY <1>r DEF Pair
      <3>2. hosts'[p[1]] = hosts[p[1]]
        BY <3>1, <1>b DEF TypeInv, TypeOK
      <3> QED
        BY <3>1, <3>2 DEF TypeInv, TypeOK
    <2>3. hostIps' \in [Pair -> Binding]
      BY <1>b DEF TypeInv, TypeOK, Binding, NoRow
    <2>4. /\ chosen' \in [Ip -> Host \union {NoHost}]
          /\ artifactSeen' = artifactSeen /\ ipNames' = ipNames
      BY DEF DeleteHost, books, TypeInv, TypeOK
    <2> QED
      BY <2>1, <2>2, <2>3, <2>4 DEF TypeInv, TypeOK, MachineRow, Binding
  <1>2. RunsTyped' /\ HistoryTyped'
    BY DEF DeleteHost, books, TypeInv, RunsTyped, HistoryTyped
  <1>3. EditsTyped'
    <2>1. edit' = [u \in User |-> edit'[u]]
      BY <1>b
    <2>2. edit' \in [User -> OpenEdit]
      BY <2>1, <1>e
    <2> QED
      BY <2>2, <1>e DEF TypeInv, EditsTyped, OpenEdit
  <1>4. RowShape'
    <2>1. \A p \in Pair : hostIps'[p] = NoRow \/ hostIps'[p] = hostIps[p]
      BY <1>r
    <2> QED
      BY <2>1 DEF TypeInv, RowShape, NoRow
  <1>5. SelectedThere'
    <2> SUFFICES ASSUME NEW w \in User, edit[w].op = "unbind"
                 PROVE  /\ edit'[w].source # "none"
                        /\ edit'[w].source = "auto" => hostIps'[edit[w].pair] # NoRow
                        /\ edit'[w].source = "manual"
                             => hostIps'[edit[w].pair].source = "manual"
      BY <1>e DEF SelectedThere
    <2>1. edit[w].pair \in Pair
      BY DEF TypeInv, EditsTyped
    <2> QED
      BY <2>1, <1>r, <1>e DEF TypeInv, SelectedThere
  <1>6. DoomedLocked'
    <2>1. ASSUME NEW w \in User
          PROVE  /\ edit'[w].op # "bind" => edit'[w].doomed = {}
                 /\ \A q \in edit'[w].doomed : /\ hostIps'[q].source = "manual"
                                               /\ q[2] = edit'[w].pair[2]
                                               /\ q # edit'[w].pair
      BY <1>d, <1>e, <1>r DEF TypeInv, DoomedLocked
    <2>2. ASSUME NEW w \in User, NEW x \in User \ {w}
          PROVE  edit'[w].doomed \intersect edit'[x].doomed = {}
      BY <1>e DEF TypeInv, DoomedLocked
    <2> QED
      BY <2>1, <2>2 DEF DoomedLocked
  <1> QED
    BY <1>1, <1>2, <1>3, <1>4, <1>5, <1>6 DEF TypeInv

\* The remaining steps touch neither bindings nor open edits.
LEMMA OtherType ==
  ASSUME TypeInv,
         \/ \E m \in ManualHost : CreateManualHost(m)
         \/ \E h \in Host : RenameHost(h)
         \/ \E ip \in Ip : LabelIp(ip)
         \/ DeleteScan
  PROVE  TypeInv'
  <1>e. hostIps' = hostIps /\ edit' = edit
    BY DEF CreateManualHost, RenameHost, LabelIp, DeleteScan, machines
  <1>1. EditsTyped' /\ SelectedThere' /\ DoomedLocked' /\ RowShape'
    BY <1>e DEF TypeInv, EditsTyped, SelectedThere, DoomedLocked, RowShape
  <1>2. RunsTyped'
    BY DEF CreateManualHost, RenameHost, LabelIp, DeleteScan, books, TypeInv, RunsTyped
  <1>3. HistoryTyped'
    BY DEF CreateManualHost, RenameHost, LabelIp, DeleteScan, books, wishes, TypeInv,
           HistoryTyped, Host
  <1>4. hosts' \in [Host -> MachineRow] /\ \A k \in Host : hosts[k].known => hosts'[k].known
    <2>1. ASSUME NEW m \in ManualHost, CreateManualHost(m)
          PROVE  hosts' \in [Host -> MachineRow] /\ \A k \in Host : hosts[k].known => hosts'[k].known
      BY <2>1 DEF CreateManualHost, TypeInv, TypeOK, MachineRow, Host
    <2>2. ASSUME NEW h \in Host, RenameHost(h)
          PROVE  hosts' \in [Host -> MachineRow] /\ \A k \in Host : hosts[k].known => hosts'[k].known
      <3>1. hosts \in [Host -> MachineRow] /\ hosts[h] \in MachineRow
        BY DEF TypeInv, TypeOK, MachineRow
      <3> DEFINE given == [hosts[h] EXCEPT !.name = "user", !.edited = TRUE]
                 freed == [hosts[h] EXCEPT
                            !.name = IF hosts[h].discovered THEN "discovered" ELSE "none",
                            !.edited = FALSE]
      <3>2. /\ given \in MachineRow /\ given.known = hosts[h].known
            /\ freed \in MachineRow /\ freed.known = hosts[h].known
        BY <3>1 DEF MachineRow
      <3>3. hosts' = [hosts EXCEPT ![h] = given] \/ hosts' = [hosts EXCEPT ![h] = freed]
        BY <2>2 DEF RenameHost
      <3> HIDE DEF given, freed
      <3> QED
        BY <3>1, <3>2, <3>3
    <2>3. CASE (\E ip \in Ip : LabelIp(ip)) \/ DeleteScan
      BY <2>3 DEF LabelIp, DeleteScan, machines, TypeInv, TypeOK, MachineRow
    <2> QED
      BY <2>1, <2>2, <2>3
  <1>5. /\ ipNames' \subseteq Ip
        /\ chosen' \in [Ip -> Host \union {NoHost}]
        /\ artifactSeen' = artifactSeen
    BY DEF CreateManualHost, RenameHost, LabelIp, DeleteScan, books, wishes, TypeInv, TypeOK
  <1>6. TypeOK'
    <2>1. \A p \in Pair : hostIps'[p] # NoRow => hosts'[p[1]].known
      BY <1>4, <1>e DEF TypeInv, TypeOK, Pair
    <2> QED
      BY <2>1, <1>4, <1>5, <1>e DEF TypeInv, TypeOK, MachineRow
  <1> QED
    BY <1>1, <1>2, <1>3, <1>6 DEF TypeInv

\* Every step keeps the types and the locks.
LEMMA NextType == TypeInv /\ [Next]_vars => TypeInv'
  <1> SUFFICES ASSUME TypeInv, [Next]_vars PROVE TypeInv'
    OBVIOUS
  <1>1. CASE \E a \in Analysis : Step(a)
    BY <1>1, StepType
  <1>2. CASE \E u \in User : Serve(u)
    <2>1. PICK u \in User : Serve(u)
      BY <1>2
    <2>2. ASSUME NEW h \in Host, NEW ip \in Ip, BeginBind(u, h, ip) PROVE TypeInv'
      <3>1. <<h, ip>> \in Pair
        BY DEF Pair
      <3> QED
        BY <2>2, <3>1, BeginType
    <2>3. ASSUME NEW p \in Pair, BeginUnbind(u, p) PROVE TypeInv'
      <3>1. PICK h \in Host, ip \in Ip : p = <<h, ip>>
        BY DEF Pair
      <3> QED
        BY <2>3, <3>1, BeginType
    <2> QED
      BY <2>1, <2>2, <2>3, CommitBindType, BindFailsType, CommitUnbindType DEF Serve
  <1>3. CASE \E h \in ManualHost : CreateManualHost(h) \/ DeleteHost(h)
    <2>1. PICK h \in ManualHost : CreateManualHost(h) \/ DeleteHost(h)
      BY <1>3
    <2>2. CASE CreateManualHost(h)
      BY <2>2, OtherType
    <2> QED
      BY <2>1, <2>2, DeleteHostType
  <1>4. CASE (\E h \in Host : RenameHost(h)) \/ (\E ip \in Ip : LabelIp(ip)) \/ DeleteScan
    BY <1>4, OtherType
  <1>5. CASE UNCHANGED vars
    BY <1>5 DEF vars, books, machines, wishes, TypeInv, TypeOK, RunsTyped, EditsTyped,
                HistoryTyped, SelectedThere, DoomedLocked, RowShape
  <1> QED
    BY <1>1, <1>2, <1>3, <1>4, <1>5 DEF Next

\* The types of the tables and their foreign key hold whatever analyses and
\* users do at once.
THEOREM TypeCorrect == Spec => []TypeOK
  <1>1. TypeInv => TypeOK
    BY DEF TypeInv
  <1> QED
    BY InitType, NextType, <1>1, PTL DEF Spec

(***************************************************************************)
(* First seen.  An analysis raises what has no row; what was on record     *)
(* when it started has one, and rows are never deleted.                    *)
(***************************************************************************)

\* Nothing is on record at the start.
LEMMA InitFirst == Init => FirstInv
  BY DEF Init, FirstInv, RecordedRan, OnRecord, BeforeRecorded, RaisedLate, FirstSeenOnce,
         NewAnalysis

\* Recording an artifact leaves it with a positive count.
LEMMA CountGrows ==
  ASSUME NEW row \in [count : Nat, first : Nat, last : Nat], NEW stamp
  PROVE  Upserted(row, stamp).count = row.count + 1
  BY DEF Upserted

\* A recorded analysis keeps its captures, and rows keep counting.
LEMMA StepFirst ==
  ASSUME TypeInv, FirstInv, NEW a \in Analysis, Step(a)
  PROVE  FirstInv'
  <1>r. analysis \in [Analysis -> Run]
    BY DEF TypeInv, RunsTyped, Run
  <1>1. CASE ReadBindings(a)
    <2>1. /\ a \notin recorded /\ analysis[a].raised = {}
          /\ analysis'[a].pc = "analyze" /\ analysis'[a].raised = {}
          /\ analysis'[a].capture = analysis[a].capture
          /\ \A b \in Analysis \ {a} : analysis'[b] = analysis[b]
          /\ before' = [before EXCEPT ![a] = recorded]
          /\ recorded' = recorded /\ artifactSeen' = artifactSeen
      BY <1>1, <1>r DEF ReadBindings, At, FirstInv, RecordedRan, RaisedLate, Run
    <2> QED
      BY <2>1 DEF FirstInv, RecordedRan, OnRecord, BeforeRecorded, RaisedLate, FirstSeenOnce,
                  TypeInv, HistoryTyped
  <1>2. CASE Analyze(a)
    <2>1. PICK c \in Capture, owner \in [Ip -> Mac \union {NoHost}] :
            analysis' = [analysis EXCEPT ![a] = [@ EXCEPT
              !.pc = IF c.artifacts = {} THEN "save" ELSE "history",
              !.manual = {}, !.excluded = {}, !.capture = c, !.stamp = clock + 1,
              !.found = UNION {Placed(a, i, owner[i]) : i \in Ip}]]
      BY <1>2 DEF Analyze
    <2>2. /\ a \notin recorded /\ analysis[a].raised = {}
          /\ analysis'[a].raised = {}
          /\ \A b \in Analysis \ {a} : analysis'[b] = analysis[b]
          /\ UNCHANGED <<before, recorded, artifactSeen>>
      BY <1>2, <2>1, <1>r DEF Analyze, At, FirstInv, RecordedRan, RaisedLate, Run
    <2> QED
      BY <2>2 DEF FirstInv, RecordedRan, OnRecord, BeforeRecorded, RaisedLate, FirstSeenOnce,
                  TypeInv, HistoryTyped
  <1>3. CASE CountHistory(a) \/ CorrelationFails(a) \/ SaveScan(a) \/ ReadLabels(a)
             \/ RecordHosts(a)
    <2>1. /\ analysis'[a].pc \in {"known", "save", "artifacts", "labels", "hosts", "done"}
          /\ analysis'[a].pc = "known" => analysis[a].pc = "history"
          /\ analysis[a].pc \in {"labels", "hosts"} => analysis'[a].pc \in {"hosts", "done"}
          /\ analysis[a].pc # "done"
          /\ analysis'[a].raised = analysis[a].raised
          /\ analysis'[a].capture = analysis[a].capture
          /\ \A b \in Analysis \ {a} : analysis'[b] = analysis[b]
          /\ UNCHANGED <<before, recorded, artifactSeen>>
      <3>1. CASE CountHistory(a)
        BY <3>1, <1>r DEF CountHistory, At, Go, Run, books
      <3>2. CASE CorrelationFails(a)
        BY <3>2, <1>r DEF CorrelationFails, Go, Run, books
      <3>3. CASE SaveScan(a)
        <4>1. PICK pc \in {"artifacts", "labels", "done"} : Go(a, pc)
          BY <3>3 DEF SaveScan, Then
        <4> QED
          BY <3>3, <4>1, <1>r DEF SaveScan, At, Go, Run
      <3>4. CASE ReadLabels(a)
        BY <3>4, <1>r DEF ReadLabels, At, Run, books
      <3>5. CASE RecordHosts(a)
        <4>1. /\ analysis[a].pc = "hosts"
              /\ analysis' = [analysis EXCEPT ![a] = [@ EXCEPT
                   !.pc = "done", !.found = {}, !.labels = {}]]
              /\ UNCHANGED books
          BY <3>5 DEF RecordHosts, At
        <4> QED
          BY <4>1, <1>r DEF Run, books
      <3> QED
        BY <1>3, <3>1, <3>2, <3>3, <3>4, <3>5
    <2> QED
      BY <2>1 DEF FirstInv, RecordedRan, OnRecord, BeforeRecorded, RaisedLate, FirstSeenOnce,
                  TypeInv, HistoryTyped
  <1>4. CASE RaiseFirstSeen(a)
    <2>1. /\ a \notin recorded
          /\ analysis'[a].pc = "save" /\ analysis'[a].raised = FirstOf(Fresh(a))
          /\ analysis'[a].capture = analysis[a].capture
          /\ \A b \in Analysis \ {a} : analysis'[b] = analysis[b]
          /\ UNCHANGED <<before, recorded, artifactSeen>>
      BY <1>4, <1>r DEF RaiseFirstSeen, At, FirstInv, RecordedRan, Run, books
    <2>2. \A v \in FirstOf(Fresh(a)) : artifactSeen[v].count = 0
      BY DEF FirstOf, Fresh
    <2>3. \A b \in before[a] : FirstOf(Fresh(a)) \intersect analysis[b].capture.artifacts = {}
      BY <2>2 DEF FirstInv, OnRecord, BeforeRecorded
    <2>4. FirstSeenOnce'
      BY <2>1, <2>3 DEF FirstInv, FirstSeenOnce, BeforeRecorded, TypeInv, HistoryTyped
    <2> QED
      BY <2>1, <2>4 DEF FirstInv, RecordedRan, OnRecord, BeforeRecorded, RaisedLate,
                        TypeInv, HistoryTyped
  <1>5. CASE RecordArtifacts(a)
    <2>1. /\ a \notin recorded
          /\ analysis[a].pc = "artifacts" /\ analysis'[a].pc \in {"done", "labels"}
          /\ analysis'[a].raised = analysis[a].raised
          /\ analysis'[a].capture = analysis[a].capture
          /\ \A b \in Analysis \ {a} : analysis'[b] = analysis[b]
          /\ before' = before /\ recorded \subseteq recorded'
          /\ recorded' \subseteq recorded \union {a}
      BY <1>5, <1>r DEF RecordArtifacts, Then, At, Go, FirstInv, RecordedRan, Run
    <2>2. \A v \in Artifact : artifactSeen[v].count # 0 => artifactSeen'[v].count # 0
      <3>1. \A v \in Artifact : artifactSeen[v].count \in Nat
        BY DEF TypeInv, TypeOK
      <3> QED
        BY <1>5, <3>1, CountGrows DEF RecordArtifacts, TypeInv, TypeOK
    <2>3. a \in recorded' => \A v \in analysis[a].capture.artifacts : artifactSeen'[v].count # 0
      <3>1. /\ analysis[a].capture.artifacts \subseteq Artifact
            /\ \A v \in Artifact : artifactSeen[v] \in [count : Nat, first : Nat, last : Nat]
        BY <2>1, CaptureAssumption DEF TypeInv, TypeOK, RunsTyped
      <3>2. CASE UNCHANGED recorded
        BY <2>1, <3>2
      <3>3. CASE artifactSeen' = [v \in Artifact |->
                   IF v \in ToRecord(a) THEN Upserted(artifactSeen[v], analysis[a].stamp)
                   ELSE artifactSeen[v]]
        <4>1. \A v \in analysis[a].capture.artifacts :
                artifactSeen'[v] = Upserted(artifactSeen[v], analysis[a].stamp)
          BY <3>1, <3>3 DEF ToRecord
        <4>2. \A v \in analysis[a].capture.artifacts :
                artifactSeen'[v].count = artifactSeen[v].count + 1
          BY <3>1, <4>1, CountGrows
        <4> QED
          BY <3>1, <4>2
      <3> QED
        BY <1>5, <3>2, <3>3 DEF RecordArtifacts
    <2>4. \A b \in recorded : analysis[b].capture.artifacts \subseteq Artifact
      BY CaptureAssumption DEF FirstInv, RecordedRan, TypeInv, RunsTyped, HistoryTyped
    <2>5. OnRecord'
      BY <2>1, <2>2, <2>3, <2>4 DEF FirstInv, OnRecord, TypeInv, HistoryTyped
    <2> QED
      BY <2>1, <2>5 DEF FirstInv, RecordedRan, BeforeRecorded, RaisedLate, FirstSeenOnce,
                        TypeInv, HistoryTyped
  <1> QED
    BY <1>1, <1>2, <1>3, <1>4, <1>5 DEF Step

\* Only analyses touch what has been seen; everybody else leaves it alone.
LEMMA NextFirst == TypeInv /\ FirstInv /\ [Next]_vars => FirstInv'
  <1> SUFFICES ASSUME TypeInv, FirstInv, [Next]_vars PROVE FirstInv'
    OBVIOUS
  <1>1. CASE \E a \in Analysis : Step(a)
    BY <1>1, StepFirst
  <1>2. CASE UNCHANGED <<artifactSeen, recorded, before, analysis>>
    BY <1>2 DEF FirstInv, RecordedRan, OnRecord, BeforeRecorded, RaisedLate, FirstSeenOnce
  <1>3. [Next]_vars => UNCHANGED <<artifactSeen, recorded, before, analysis>>
                       \/ \E a \in Analysis : Step(a)
    BY DEF Next, vars, books, Serve, BeginBind, CommitBind, BindFails, BeginUnbind,
           CommitUnbind, CreateManualHost, DeleteHost, RenameHost, LabelIp, DeleteScan
  <1> QED
    BY <1>1, <1>2, <1>3

\* Nothing is announced as first seen that was on record when the analysis
\* started, however analyses overlap, fail and are deleted.
THEOREM SeenIsAnnouncedOnce == Spec => []FirstSeenOnce
  <1>1. FirstInv => FirstSeenOnce
    BY DEF FirstInv
  <1> QED
    BY InitType, NextType, InitFirst, NextFirst, <1>1, PTL DEF Spec

(***************************************************************************)
(* The books on artifacts.  Only RecordArtifacts writes them, once per     *)
(* analysis, and what it read of the analysis does not change afterwards.  *)
(***************************************************************************)

\* Empty books are exact.
LEMMA InitBooks == Init => BooksInv
  <1> SUFFICES ASSUME Init PROVE BooksInv
    OBVIOUS
  <1>1. \A v \in Artifact : Met(v) = {}
    BY DEF Init, Met
  <1>2. IsFiniteSet(recorded) /\ \A v \in Artifact : artifactSeen[v].count = 0
    BY FS_EmptySet DEF Init, Unseen
  <1> QED
    BY <1>1, <1>2, FS_EmptySet DEF BooksInv, CountsKept, StampsKept, RecordedRan, Init

\* A step of an analysis leaves those on record as they were.
LEMMA RecordedStay ==
  ASSUME TypeInv, RecordedRan, NEW a \in Analysis, Step(a)
  PROVE  /\ RecordArtifacts(a) \/ UNCHANGED <<artifactSeen, recorded>>
         /\ \A b \in recorded : /\ analysis'[b].capture = analysis[b].capture
                                /\ analysis'[b].stamp = analysis[b].stamp
  <1>r. analysis \in [Analysis -> Run] /\ recorded \subseteq Analysis
    BY DEF TypeInv, RunsTyped, HistoryTyped, Run
  <1>1. CASE ReadBindings(a)
    <2>1. a \notin recorded /\ \A b \in Analysis \ {a} : analysis'[b] = analysis[b]
      BY <1>1, <1>r DEF ReadBindings, At, RecordedRan
    <2> QED
      BY <1>1, <1>r, <2>1 DEF ReadBindings
  <1>2. CASE Analyze(a)
    <2>1. a \notin recorded /\ \A b \in Analysis \ {a} : analysis'[b] = analysis[b]
      BY <1>2, <1>r DEF Analyze, At, RecordedRan
    <2> QED
      BY <1>2, <1>r, <2>1 DEF Analyze
  <1>3. CASE CountHistory(a)
    BY <1>3, <1>r DEF CountHistory, Go, Run, books
  <1>4. CASE CorrelationFails(a)
    BY <1>4, <1>r DEF CorrelationFails, Go, Run, books
  <1>5. CASE RaiseFirstSeen(a)
    BY <1>5, <1>r DEF RaiseFirstSeen, Run, books
  <1>6. CASE SaveScan(a)
    <2>1. PICK pc : Go(a, pc)
      BY <1>6 DEF SaveScan
    <2> QED
      BY <1>6, <1>r, <2>1 DEF SaveScan, Go, Run
  <1>7. CASE RecordArtifacts(a)
    BY <1>7, <1>r DEF RecordArtifacts, Go, Run
  <1>8. CASE ReadLabels(a)
    BY <1>8, <1>r DEF ReadLabels, Run, books
  <1>9. CASE RecordHosts(a)
    <2>1. /\ analysis' = [analysis EXCEPT ![a] = [@ EXCEPT
               !.pc = "done", !.found = {}, !.labels = {}]]
          /\ UNCHANGED books
      BY <1>9 DEF RecordHosts
    <2> QED
      BY <2>1, <1>r DEF Run, books
  <1> QED
    BY <1>1, <1>2, <1>3, <1>4, <1>5, <1>6, <1>7, <1>8, <1>9 DEF Step

\* Books that nobody writes stay exact.
LEMMA BooksSame ==
  ASSUME TypeInv, BooksInv, UNCHANGED <<artifactSeen, recorded>>,
         \A b \in recorded : /\ analysis'[b].capture = analysis[b].capture
                             /\ analysis'[b].stamp = analysis[b].stamp
  PROVE  CountsKept' /\ StampsKept'
  <1>1. \A v \in Artifact : Met(v)' = Met(v) /\ Met(v) \subseteq recorded
    BY DEF Met
  <1> QED
    BY <1>1 DEF BooksInv, CountsKept, StampsKept

\* Artifacts that go on record are counted once more and stamped.
LEMMA RecordBooks ==
  ASSUME TypeInv, BooksInv, NEW a \in Analysis, RecordArtifacts(a)
  PROVE  CountsKept' /\ StampsKept'
  <1>t. /\ analysis \in [Analysis -> Run] /\ recorded \subseteq Analysis
        /\ artifactSeen \in [Artifact -> [count : Nat, first : Nat, last : Nat]]
    BY DEF TypeInv, TypeOK, RunsTyped, HistoryTyped, Run
  <1>k. \A b \in Analysis : /\ analysis'[b].capture = analysis[b].capture
                            /\ analysis'[b].stamp = analysis[b].stamp
                            /\ analysis[b].stamp \in Nat
    BY <1>t DEF RecordArtifacts, Go, Run
  <1>1. CASE UNCHANGED <<artifactSeen, recorded>>
    BY <1>1, <1>k, <1>t, BooksSame
  <1>2. CASE /\ recorded' = recorded \union {a}
             /\ artifactSeen' = [v \in Artifact |->
                  IF v \in ToRecord(a) THEN Upserted(artifactSeen[v], analysis[a].stamp)
                  ELSE artifactSeen[v]]
    <2>f. a \notin recorded /\ IsFiniteSet(recorded)
      BY DEF RecordArtifacts, At, BooksInv, RecordedRan, CountsKept
    <2>1. IsFiniteSet(recorded')
      BY <1>2, <2>f, FS_AddElement
    <2>2. ASSUME NEW v \in Artifact, v \notin analysis[a].capture.artifacts
          PROVE  Met(v)' = Met(v) /\ artifactSeen'[v] = artifactSeen[v]
      BY <1>2, <1>t, <1>k, <2>2 DEF Met, ToRecord
    <2>3. ASSUME NEW v \in Artifact, v \in analysis[a].capture.artifacts
          PROVE  /\ Met(v)' = Met(v) \union {a} /\ a \notin Met(v)
                 /\ IsFiniteSet(Met(v)) /\ Met(v) \subseteq recorded
                 /\ artifactSeen'[v] = Upserted(artifactSeen[v], analysis[a].stamp)
      <3>1. Met(v)' = Met(v) \union {a} /\ a \notin Met(v) /\ Met(v) \subseteq recorded
        BY <1>2, <1>t, <1>k, <2>3, <2>f DEF Met
      <3>2. IsFiniteSet(Met(v))
        BY <3>1, <2>f, FS_Subset
      <3> QED
        BY <1>2, <2>3, <3>1, <3>2 DEF ToRecord
    <2>4. CountsKept'
      <3>1. ASSUME NEW v \in Artifact, v \in analysis[a].capture.artifacts
            PROVE  artifactSeen'[v].count = Cardinality(Met(v)')
        <4>1. Cardinality(Met(v) \union {a}) = Cardinality(Met(v)) + 1
          BY <2>3, <3>1, FS_AddElement
        <4>2. artifactSeen[v].count = Cardinality(Met(v))
          BY DEF BooksInv, CountsKept
        <4>3. artifactSeen'[v].count = artifactSeen[v].count + 1
          BY <1>t, <2>3, <3>1, CountGrows
        <4> QED
          BY <2>3, <3>1, <4>1, <4>2, <4>3
      <3>2. ASSUME NEW v \in Artifact, v \notin analysis[a].capture.artifacts
            PROVE  artifactSeen'[v].count = Cardinality(Met(v)')
        BY <2>2, <3>2 DEF BooksInv, CountsKept
      <3> QED
        BY <2>1, <3>1, <3>2 DEF CountsKept
    <2>5. StampsKept'
      <3> DEFINE Stamped(row, S) == /\ \E b \in S : row.first = analysis[b].stamp
                                    /\ \E b \in S : row.last = analysis[b].stamp
                                    /\ \A b \in S : analysis[b].stamp <= row.last
      <3>1. ASSUME NEW v \in Artifact, v \in analysis[a].capture.artifacts
            PROVE  Stamped(artifactSeen'[v], Met(v)')
        <4>1. CASE Met(v) = {}
          <5>1. artifactSeen[v].count = 0
            BY <4>1, FS_EmptySet DEF BooksInv, CountsKept
          <5>2. artifactSeen'[v] = [count |-> 1, first |-> analysis[a].stamp,
                                    last |-> analysis[a].stamp]
            BY <2>3, <3>1, <5>1 DEF Upserted
          <5> QED
            BY <2>3, <3>1, <4>1, <5>2, <1>k
        <4>2. CASE Met(v) # {}
          <5>1. artifactSeen[v].count # 0
            BY <2>3, <3>1, <4>2, FS_EmptySet DEF BooksInv, CountsKept
          <5>2. Stamped(artifactSeen[v], Met(v))
            BY <4>2 DEF BooksInv, StampsKept
          <5> DEFINE l == IF analysis[a].stamp > artifactSeen[v].last
                          THEN analysis[a].stamp ELSE artifactSeen[v].last
          <5>3. /\ artifactSeen'[v].first = artifactSeen[v].first
                /\ artifactSeen'[v].last = l
            <6>1. artifactSeen'[v]
                    = [artifactSeen[v] EXCEPT !.count = @ + 1, !.last = l]
              BY <2>3, <3>1, <5>1 DEF Upserted
            <6> HIDE DEF l
            <6> QED
              BY <6>1, <1>t
          <5>4. /\ artifactSeen[v].last \in Nat /\ analysis[a].stamp \in Nat
                /\ \A b \in Met(v) : analysis[b].stamp \in Nat
            BY <1>t, <1>k, <2>3, <3>1
          <5>5. /\ analysis[a].stamp <= l /\ artifactSeen[v].last <= l /\ l \in Nat
                /\ l \in {analysis[a].stamp, artifactSeen[v].last}
            BY <5>4
          <5> HIDE DEF l
          <5>6. \A b \in Met(v) : analysis[b].stamp <= l
            BY <5>2, <5>4, <5>5
          <5> QED
            BY <2>3, <3>1, <5>2, <5>3, <5>5, <5>6
        <4> QED
          BY <4>1, <4>2
      <3>2. ASSUME NEW v \in Artifact, v \notin analysis[a].capture.artifacts, Met(v) # {}
            PROVE  Stamped(artifactSeen'[v], Met(v)')
        BY <2>2, <3>2 DEF BooksInv, StampsKept
      <3>3. \A v \in Artifact : Met(v)' \subseteq Analysis
        BY <1>t, <1>2 DEF Met
      <3>4. ASSUME NEW v \in Artifact, Met(v)' # {}
            PROVE  Stamped(artifactSeen'[v], Met(v)')
        BY <2>2, <3>1, <3>2, <3>4
      <3> QED
        BY <1>k, <3>3, <3>4 DEF StampsKept
    <2> QED
      BY <2>4, <2>5
  <1> QED
    BY <1>1, <1>2 DEF RecordArtifacts

\* Every step keeps the books.
LEMMA NextBooks == TypeInv /\ FirstInv' /\ BooksInv /\ [Next]_vars => BooksInv'
  <1> SUFFICES ASSUME TypeInv, FirstInv', BooksInv, [Next]_vars PROVE BooksInv'
    OBVIOUS
  <1>1. RecordedRan'
    BY DEF FirstInv
  <1>2. ASSUME NEW a \in Analysis, Step(a) PROVE CountsKept' /\ StampsKept'
    BY <1>2, RecordedStay, RecordBooks, BooksSame DEF BooksInv
  <1>3. CASE UNCHANGED <<artifactSeen, recorded, analysis>>
    BY <1>1, <1>3, BooksSame DEF BooksInv
  <1>4. UNCHANGED <<artifactSeen, recorded, analysis>> \/ \E a \in Analysis : Step(a)
    BY DEF Next, vars, books, Serve, BeginBind, CommitBind, BindFails, BeginUnbind,
           CommitUnbind, CreateManualHost, DeleteHost, RenameHost, LabelIp, DeleteScan
  <1> QED
    BY <1>1, <1>2, <1>3, <1>4 DEF BooksInv

\* The row of an artifact counts every recorded scan that had it once, and its
\* last sighting is the latest of them, in whatever order scans are recorded.
THEOREM BooksAreExact == Spec => []SeenBooksExact
  <1>1. TypeInv /\ BooksInv => SeenBooksExact
    <2> SUFFICES ASSUME TypeInv, BooksInv PROVE SeenBooksExact
      OBVIOUS
    <2> SUFFICES ASSUME NEW v \in Artifact
                 PROVE  LET stamps == {analysis[a].stamp : a \in Met(v)}
                        IN /\ artifactSeen[v].count = Cardinality(Met(v))
                           /\ Met(v) # {} => /\ artifactSeen[v].last = Max(stamps)
                                             /\ artifactSeen[v].first \in stamps
      BY DEF SeenBooksExact, Met
    <2>c. artifactSeen[v].count = Cardinality(Met(v))
      BY DEF BooksInv, CountsKept
    <2> SUFFICES ASSUME Met(v) # {}
                 PROVE  LET stamps == {analysis[a].stamp : a \in Met(v)}
                        IN /\ artifactSeen[v].last = Max(stamps)
                           /\ artifactSeen[v].first \in stamps
      BY <2>c
    <2> DEFINE stamps == {analysis[a].stamp : a \in Met(v)}
               last == artifactSeen[v].last
    <2>1. stamps \subseteq Nat
      BY DEF TypeInv, RunsTyped, HistoryTyped, Met
    <2>2. artifactSeen[v].first \in stamps /\ last \in stamps /\ \A s \in stamps : s <= last
      BY DEF BooksInv, StampsKept
    <2> HIDE DEF stamps, last
    <2>3. \A s \in stamps : last >= s
      BY <2>1, <2>2
    <2>4. \A m \in stamps : (\A s \in stamps : m >= s) => m = last
      BY <2>1, <2>2
    <2>5. Max(stamps) \in stamps /\ \A s \in stamps : Max(stamps) >= s
      BY <2>2, <2>3 DEF Max
    <2> QED
      BY <2>2, <2>4, <2>5 DEF stamps, last
  <1> QED
    BY InitType, NextType, InitFirst, NextFirst, InitBooks, NextBooks, <1>1, PTL DEF Spec

(***************************************************************************)
(* What users decided.  An edit that is alone on its address sees every    *)
(* row it has to change; an analysis creates automatic rows only, and only *)
(* where there is none.                                                    *)
(***************************************************************************)

\* Nobody has decided anything at the start.
LEMMA InitWishes == Init => WishesInv
  <1> SUFFICES ASSUME Init PROVE WishesInv
    OBVIOUS
  <1>1. \A u \in User : edit[u].op = "idle"
    BY DEF Init, Idle
  <1>2. AloneApart /\ AloneSeesAll /\ AloneActsOnRow
    BY <1>1 DEF AloneApart, AloneSeesAll, AloneActsOnRow
  <1>3. BindingsKept
    BY DEF Init, BindingsKept, NoRow
  <1>4. GoneStaysGone /\ RemovedMarked /\ NamesKept
    BY DEF Init, GoneStaysGone, RemovedMarked, NamesKept
  <1> QED
    BY <1>2, <1>3, <1>4 DEF WishesInv

\* Whatever touches neither the machines nor the edits keeps the wishes.
LEMMA WishesSame ==
  ASSUME WishesInv, UNCHANGED <<machines, edit, wishes>>
  PROVE  WishesInv'
  BY DEF WishesInv, GoneStaysGone, AloneApart, AloneSeesAll, AloneActsOnRow, RemovedMarked,
         NamesKept, BindingsKept, Others, machines, wishes

\* An analysis undoes no decision: rows that exist stay as they are, and new
\* ones are automatic and belong to discovered machines.
LEMMA RecordHostsWishes ==
  ASSUME TypeInv, WishesInv, NEW a \in Analysis, RecordHosts(a)
  PROVE  WishesInv'
  <1>1. CASE UNCHANGED machines
    BY <1>1, WishesSame DEF RecordHosts
  <1>2. CASE ~UNCHANGED machines
    <2>e. UNCHANGED <<edit, wishes>>
      BY DEF RecordHosts
    <2>h. \A h \in Host :
            /\ h \notin Recorded(a) => hosts'[h] = hosts[h]
            /\ hosts[h].known => hosts'[h].known
            /\ hosts[h].known /\ hosts[h].edited /\ hosts[h].name = "user" =>
                 hosts'[h].edited /\ hosts'[h].name = "user"
      BY <1>2, MachinesWritten
    <2>r. \A p \in Pair :
            \/ hostIps'[p] = hostIps[p]
            \/ /\ hostIps[p] = NoRow
               /\ hostIps'[p] = [source |-> "auto", excluded |-> FALSE]
               /\ p[1] \in Mac
      BY <1>2, MachinesWritten
    <2>s. \A p \in Pair : /\ hostIps[p].source # "none" => hostIps'[p] = hostIps[p]
                          /\ hostIps'[p].source = "manual" => hostIps[p].source = "manual"
      BY <2>r DEF NoRow
    <2>t. /\ deleted \subseteq ManualHost /\ removed \subseteq Pair /\ named \subseteq Host
          /\ \A u \in User : /\ edit[u].op = "unbind" => edit[u].pair \in Pair
                             /\ edit[u].source \in {"none", "auto", "manual", "gone"}
      BY DEF TypeInv, HistoryTyped, EditsTyped
    <2>1. GoneStaysGone'
      <3>1. \A h \in deleted : h \in Host /\ h \notin Mac /\ h \notin Recorded(a)
        BY <2>t, HostAssumption DEF WishesInv, GoneStaysGone, Recorded, Host
      <3>2. \A h \in deleted, i \in Ip : <<h, i>> \in Pair /\ <<h, i>>[1] = h
        BY <3>1 DEF Pair
      <3>3. \A h \in deleted : ~hosts'[h].known
        BY <3>1, <2>h DEF WishesInv, GoneStaysGone
      <3>4. ASSUME NEW h \in deleted, NEW i \in Ip PROVE hostIps'[<<h, i>>] = NoRow
        <4>1. hostIps[<<h, i>>] = NoRow
          BY DEF WishesInv, GoneStaysGone
        <4>2. PICK p \in Pair : p = <<h, i>> /\ p[1] \notin Mac
          BY <3>1, <3>2
        <4>3. hostIps'[p] = hostIps[p]
          BY <2>r, <4>2
        <4> QED
          BY <4>1, <4>2, <4>3
      <3> QED
        BY <2>e, <3>3, <3>4 DEF GoneStaysGone, wishes
    <2>2. AloneApart'
      BY <2>e DEF WishesInv, AloneApart
    <2>3. AloneSeesAll'
      <3>1. \A h, i : Others(h, i)' \subseteq Others(h, i)
        BY <2>s DEF Others
      <3> QED
        BY <2>e, <3>1 DEF WishesInv, AloneSeesAll
    <2>4. AloneActsOnRow'
      <3> SUFFICES ASSUME NEW u \in User, edit[u].op = "unbind", edit[u].alone
                   PROVE  \/ edit[u].source = "gone" /\ edit[u].pair[1] \in deleted
                          \/ edit[u].source = hostIps'[edit[u].pair].source
        BY <2>e DEF AloneActsOnRow, wishes
      <3>1. edit[u].source # "none"
        BY DEF TypeInv, SelectedThere
      <3> QED
        <4>1. \/ edit[u].source = "gone" /\ edit[u].pair[1] \in deleted
              \/ edit[u].source = hostIps[edit[u].pair].source
          BY DEF WishesInv, AloneActsOnRow
        <4>2. edit[u].pair \in Pair
          BY <2>t
        <4> QED
          BY <2>s, <3>1, <4>1, <4>2
    <2>5. RemovedMarked'
      BY <2>e, <2>s, <2>t DEF WishesInv, RemovedMarked, wishes
    <2>6. NamesKept'
      BY <2>e, <2>h, <2>t DEF WishesInv, NamesKept, wishes
    <2>7. BindingsKept'
      <3>1. chosen \in [Ip -> Host \union {NoHost}] /\ chosen' = chosen /\ raced' = raced
        BY <2>e DEF TypeInv, TypeOK, wishes
      <3>2. \A i \in Ip : chosen[i] # NoHost => <<chosen[i], i>> \in Pair
        BY <3>1 DEF Pair
      <3>3. ASSUME NEW i \in Ip \ raced
            PROVE  chosen[i] # NoHost =>
                     hostIps'[<<chosen[i], i>>] = [source |-> "manual", excluded |-> FALSE]
        BY <2>s, <3>2 DEF WishesInv, BindingsKept
      <3> QED
        BY <2>s, <3>1, <3>3 DEF WishesInv, BindingsKept
    <2> QED
      BY <2>1, <2>2, <2>3, <2>4, <2>5, <2>6, <2>7 DEF WishesInv
  <1> QED
    BY <1>1, <1>2

\* An edit that begins alone sees the rows as they are, and ends the being
\* alone of those open on its address.
LEMMA BeginWishes ==
  ASSUME TypeInv, WishesInv, NEW u \in User, NEW op \in {"bind", "unbind"}, NEW p \in Pair,
         NEW source \in {"none", "auto", "manual"}, NEW doomed \in SUBSET Pair,
         Open(u, op, p, source, doomed), UNCHANGED <<machines, wishes>>,
         op = "bind" => doomed = Others(p[1], p[2]),
         op = "unbind" => source = hostIps[p].source
  PROVE  WishesInv'
  <1>m. UNCHANGED <<hosts, hostIps, chosen, removed, named, deleted, raced>>
    BY DEF machines, wishes
  <1>u. /\ edit'[u].op = op /\ edit'[u].pair = p
        /\ edit'[u].source = source /\ edit'[u].doomed = doomed
        /\ edit'[u].alone => \A x \in User : ~Busy(x, p[2])
    BY OpenKeeps
  <1>w. \A w \in User \ {u} :
          /\ edit'[w].op = edit[w].op /\ edit'[w].pair = edit[w].pair
          /\ edit'[w].source = edit[w].source /\ edit'[w].doomed = edit[w].doomed
          /\ edit'[w].alone => edit[w].alone /\ ~Busy(w, p[2])
    BY OpenKeeps
  <1>1. GoneStaysGone' /\ RemovedMarked' /\ NamesKept'
    BY <1>m DEF WishesInv, GoneStaysGone, RemovedMarked, NamesKept
  <1>2. BindingsKept'
    BY <1>m DEF WishesInv, BindingsKept
  <1>3. AloneApart'
    <2> SUFFICES ASSUME NEW x \in User, NEW y \in User, x # y, edit'[x].alone,
                        edit'[x].op # "idle", edit'[y].op # "idle"
                 PROVE  edit'[x].pair[2] # edit'[y].pair[2]
      BY DEF AloneApart
    <2>1. CASE x = u
      BY <2>1, <1>u, <1>w DEF Busy
    <2>2. CASE y = u
      BY <2>2, <1>u, <1>w DEF Busy
    <2>3. CASE x # u /\ y # u
      BY <2>3, <1>w DEF WishesInv, AloneApart
    <2> QED
      BY <2>1, <2>2, <2>3
  <1>4. AloneSeesAll'
    <2>1. \A h, i : Others(h, i)' = Others(h, i)
      BY <1>m DEF Others
    <2> QED
      BY <2>1, <1>u, <1>w DEF WishesInv, AloneSeesAll
  <1>5. AloneActsOnRow'
    BY <1>m, <1>u, <1>w DEF WishesInv, AloneActsOnRow
  <1> QED
    BY <1>1, <1>2, <1>3, <1>4, <1>5 DEF WishesInv

\* Both kinds of edit begin as BeginWishes requires.
LEMMA BeginsWish ==
  ASSUME TypeInv, WishesInv, NEW u \in User,
         \/ \E h \in Host, ip \in Ip : BeginBind(u, h, ip)
         \/ \E p \in Pair : BeginUnbind(u, p)
  PROVE  WishesInv'
  <1>1. ASSUME NEW h \in Host, NEW ip \in Ip, BeginBind(u, h, ip) PROVE WishesInv'
    <2>p. <<h, ip>> \in Pair /\ <<h, ip>>[1] = h /\ <<h, ip>>[2] = ip
      BY DEF Pair
    <2>1. PICK p \in Pair : p = <<h, ip>> /\ p[1] = h /\ p[2] = ip
      BY <2>p, Zenon
    <2>2. Others(h, ip) \in SUBSET Pair
      BY DEF Others
    <2>3. Open(u, "bind", p, "none", Others(h, ip)) /\ UNCHANGED <<machines, wishes>>
      BY <1>1, <2>1 DEF BeginBind
    <2> QED
      BY <2>1, <2>2, <2>3, BeginWishes
  <1>2. ASSUME NEW p \in Pair, BeginUnbind(u, p) PROVE WishesInv'
    <2>1. hostIps[p].source \in {"none", "auto", "manual"}
      BY DEF TypeInv, TypeOK
    <2>2. Open(u, "unbind", p, hostIps[p].source, {}) /\ UNCHANGED <<machines, wishes>>
      BY <1>2 DEF BeginUnbind
    <2> QED
      BY <2>1, <2>2, BeginWishes
  <1> QED
    BY <1>1, <1>2

\* Nothing of a bind that fails stays.
LEMMA BindFailsWishes ==
  ASSUME TypeInv, WishesInv, NEW u \in User, BindFails(u)
  PROVE  WishesInv'
  <1>m. /\ UNCHANGED <<hosts, hostIps, chosen, removed, named, deleted>>
        /\ raced \subseteq raced'
    BY DEF BindFails, machines, Race
  <1>w. /\ edit'[u] = Idle
        /\ \A w \in User \ {u} :
             /\ edit'[w].op = edit[w].op /\ edit'[w].pair = edit[w].pair
             /\ edit'[w].alone = edit[w].alone /\ edit'[w].doomed = edit[w].doomed
             /\ edit'[w].source = edit[w].source
    BY CloseKeeps DEF BindFails
  <1>i. Idle.op = "idle"
    BY DEF Idle
  <1>1. GoneStaysGone' /\ RemovedMarked' /\ NamesKept'
    BY <1>m DEF WishesInv, GoneStaysGone, RemovedMarked, NamesKept
  <1>2. BindingsKept'
    BY <1>m DEF WishesInv, BindingsKept
  <1>3. AloneApart'
    BY <1>w, <1>i DEF WishesInv, AloneApart
  <1>4. AloneSeesAll'
    <2>1. \A h, i : Others(h, i)' = Others(h, i)
      BY <1>m DEF Others
    <2> QED
      BY <2>1, <1>w, <1>i DEF WishesInv, AloneSeesAll
  <1>5. AloneActsOnRow'
    BY <1>m, <1>w, <1>i DEF WishesInv, AloneActsOnRow
  <1> QED
    BY <1>1, <1>2, <1>3, <1>4, <1>5 DEF WishesInv

\* A bind gives its address to its machine and, if it was alone, to no other;
\* other addresses are untouched.
LEMMA CommitBindWishes ==
  ASSUME TypeInv, WishesInv, NEW u \in User, CommitBind(u)
  PROVE  WishesInv'
  <1> DEFINE p == edit[u].pair
  <1>b. /\ edit[u].op = "bind" /\ p \in Pair
        /\ hosts[p[1]].known
        /\ hostIps'[p] = [source |-> "manual", excluded |-> FALSE]
        /\ \A q \in Pair : q # p /\ q \in edit[u].doomed => hostIps'[q] = NoRow
        /\ \A q \in Pair : q # p /\ q \notin edit[u].doomed => hostIps'[q] = hostIps[q]
        /\ Close(u, edit[u].doomed)
    BY BoundRows
  <1>w. /\ edit'[u].op = "idle"
        /\ \A w \in User \ {u} :
             /\ edit'[w].op = edit[w].op /\ edit'[w].pair = edit[w].pair
             /\ edit'[w].alone = edit[w].alone /\ edit'[w].doomed = edit[w].doomed
             /\ edit'[w].source = IF edit[w].op = "unbind" /\ edit[w].pair \in edit[u].doomed
                                  THEN "gone" ELSE edit[w].source
    <2>1. PICK gone : gone = edit[u].doomed
      OBVIOUS
    <2>2. Close(u, gone)
      BY <1>b, <2>1 DEF Close
    <2>3. /\ edit'[u] = Idle
          /\ \A w \in User \ {u} :
               /\ edit'[w].op = edit[w].op /\ edit'[w].pair = edit[w].pair
               /\ edit'[w].alone = edit[w].alone /\ edit'[w].doomed = edit[w].doomed
               /\ edit'[w].source = IF edit[w].op = "unbind" /\ edit[w].pair \in gone
                                    THEN "gone" ELSE edit[w].source
      BY <2>2, CloseKeeps
    <2>4. Idle.op = "idle"
      BY DEF Idle
    <2> QED
      BY <2>1, <2>3, <2>4
  <1>d. \A q \in edit[u].doomed : q \in Pair /\ hostIps[q].source = "manual" /\ q[2] = p[2]
    BY DEF TypeInv, DoomedLocked, EditsTyped
  <1>h. /\ chosen' = [chosen EXCEPT ![p[2]] = p[1]]
        /\ removed' = removed \ {p}
        /\ raced' = IF edit[u].alone THEN raced \ {p[2]} ELSE raced \union {p[2]}
        /\ UNCHANGED <<hosts, named, deleted>>
    BY DEF CommitBind, Race
  <1>t. /\ chosen \in [Ip -> Host \union {NoHost}] /\ raced \subseteq Ip
        /\ deleted \subseteq ManualHost /\ removed \subseteq Pair
        /\ \A w \in User : edit[w].op # "idle" => edit[w].pair \in Pair
    BY DEF TypeInv, TypeOK, HistoryTyped, EditsTyped
  <1>p. /\ p[1] \in Host /\ p[2] \in Ip /\ p = <<p[1], p[2]>> /\ p[1] # NoHost
    BY <1>b, HostAssumption DEF Pair, Host
  <1> HIDE DEF p
  <1>o. \A q \in Pair : q[2] # p[2] => q # p /\ q \notin edit[u].doomed
                                       /\ hostIps'[q] = hostIps[q]
    BY <1>b, <1>d
  <1>1. GoneStaysGone'
    <2>1. ASSUME NEW h \in deleted, NEW i \in Ip PROVE hostIps'[<<h, i>>] = NoRow
      <3>1. hostIps[<<h, i>>] = NoRow /\ ~hosts[h].known
        BY DEF WishesInv, GoneStaysGone
      <3>2. PICK q \in Pair : q = <<h, i>> /\ q[1] = h
        <4>1. <<h, i>> \in Pair /\ <<h, i>>[1] = h
          BY <1>t DEF Pair, Host
        <4> QED
          BY <4>1, Zenon
      <3>3. q # p
        BY <1>b, <3>1, <3>2
      <3> QED
        BY <1>b, <3>1, <3>2, <3>3
    <2> QED
      BY <1>h, <2>1 DEF WishesInv, GoneStaysGone
  <1>2. AloneApart'
    BY <1>w DEF WishesInv, AloneApart
  <1>a. ASSUME NEW w \in User \ {u}, edit[w].op # "idle", edit[w].alone
        PROVE  edit[w].pair \in Pair /\ edit[w].pair[2] # p[2]
    BY <1>a, <1>b, <1>t DEF WishesInv, AloneApart, p
  <1>3. AloneSeesAll'
    <2>1. ASSUME NEW w \in User \ {u}, edit[w].op = "bind", edit[w].alone
          PROVE  Others(edit[w].pair[1], edit[w].pair[2])' \subseteq edit[w].doomed
      <3>1. \A q \in Pair : q[2] = edit[w].pair[2] => hostIps'[q] = hostIps[q]
        BY <1>a, <1>o, <2>1
      <3>2. edit'[w].pair = edit[w].pair
        BY <1>w
      <3>3. \A h, i : i = edit[w].pair[2] => Others(h, i)' = Others(h, i)
        BY <3>1 DEF Others
      <3> QED
        BY <2>1, <3>2, <3>3 DEF WishesInv, AloneSeesAll
    <2> QED
      BY <1>w, <2>1 DEF AloneSeesAll
  <1>4. AloneActsOnRow'
    <2>1. ASSUME NEW w \in User \ {u}, edit[w].op = "unbind", edit[w].alone
          PROVE  /\ edit'[w].source = edit[w].source
                 /\ hostIps'[edit[w].pair] = hostIps[edit[w].pair]
      BY <1>a, <1>o, <1>w, <2>1
    <2> QED
      BY <1>h, <1>w, <2>1 DEF WishesInv, AloneActsOnRow
  <1>5. RemovedMarked'
    <2> SUFFICES ASSUME NEW q \in removed, q # p
                 PROVE  hostIps'[q] = [source |-> "auto", excluded |-> TRUE]
      BY <1>h DEF RemovedMarked
    <2>1. q \in Pair /\ hostIps[q] = [source |-> "auto", excluded |-> TRUE]
      BY <1>t DEF WishesInv, RemovedMarked
    <2>2. q \notin edit[u].doomed
      BY <1>d, <2>1
    <2> QED
      BY <1>b, <2>1, <2>2
  <1>6. NamesKept'
    BY <1>h DEF WishesInv, NamesKept
  <1>7. BindingsKept'
    <2>1. ASSUME NEW i \in Ip, i \notin raced', i = p[2]
          PROVE  /\ chosen'[i] = p[1]
                 /\ \A q \in Pair : q[2] = i /\ hostIps'[q].source = "manual" => q[1] = p[1]
      <3>1. chosen'[i] = p[1] /\ edit[u].alone
        BY <1>h, <1>t, <2>1
      <3>2. Others(p[1], p[2]) \subseteq edit[u].doomed
        BY <1>b, <3>1 DEF WishesInv, AloneSeesAll, p
      <3>3. ASSUME NEW q \in Pair, q[2] = i, q[1] # p[1] PROVE hostIps'[q].source # "manual"
        <4>1. CASE hostIps[q].source = "manual"
          <5>1. q \in edit[u].doomed /\ q # p
            BY <2>1, <3>2, <3>3, <4>1 DEF Others
          <5> QED
            BY <1>b, <5>1 DEF NoRow
        <4>2. CASE hostIps[q].source # "manual"
          <5>1. q # p /\ q \notin edit[u].doomed
            BY <1>d, <3>3, <4>2
          <5> QED
            BY <1>b, <4>2, <5>1
        <4> QED
          BY <4>1, <4>2
      <3> QED
        BY <3>1, <3>3
    <2>2. ASSUME NEW i \in Ip, i \notin raced', i # p[2]
          PROVE  /\ i \notin raced /\ chosen'[i] = chosen[i]
                 /\ \A q \in Pair : q[2] = i => hostIps'[q] = hostIps[q]
                 /\ chosen[i] # NoHost => hostIps'[<<chosen[i], i>>] = hostIps[<<chosen[i], i>>]
      <3>1. i \notin raced /\ chosen'[i] = chosen[i]
        BY <1>h, <1>t, <2>2
      <3>2. \A q \in Pair : q[2] = i => hostIps'[q] = hostIps[q]
        BY <1>o, <2>2
      <3>3. chosen[i] # NoHost => <<chosen[i], i>> \in Pair /\ <<chosen[i], i>>[2] = i
        BY <1>t DEF Pair
      <3> QED
        BY <3>1, <3>2, <3>3
    <2>3. ASSUME NEW i \in Ip, i \notin raced', i = p[2]
          PROVE  hostIps'[<<chosen'[i], i>>] = [source |-> "manual", excluded |-> FALSE]
      BY <1>b, <1>p, <2>1, <2>3
    <2> SUFFICES ASSUME NEW i \in Ip \ raced'
                 PROVE  /\ chosen'[i] = NoHost =>
                             \A q \in Pair : q[2] = i => hostIps'[q].source # "manual"
                        /\ chosen'[i] # NoHost =>
                             /\ hostIps'[<<chosen'[i], i>>]
                                  = [source |-> "manual", excluded |-> FALSE]
                             /\ \A q \in Pair : q[2] = i /\ hostIps'[q].source = "manual"
                                                => q[1] = chosen'[i]
      BY DEF BindingsKept
    <2>4. CASE i = p[2]
      BY <1>p, <2>1, <2>3, <2>4
    <2>5. CASE i # p[2]
      BY <2>2, <2>5 DEF WishesInv, BindingsKept
    <2> QED
      BY <2>4, <2>5
  <1> QED
    BY <1>1, <1>2, <1>3, <1>4, <1>5, <1>6, <1>7 DEF WishesInv

\* An unbind that is alone removes the binding that is in force: it marks an
\* automatic row and deletes a manual one.
LEMMA CommitUnbindWishes ==
  ASSUME TypeInv, WishesInv, NEW u \in User, CommitUnbind(u)
  PROVE  WishesInv'
  <1> DEFINE p == edit[u].pair
  <1>b. /\ edit[u].op = "unbind" /\ p \in Pair
        /\ hostIps' \in [Pair -> Binding]
        /\ \A q \in Pair : q # p => hostIps'[q] = hostIps[q]
        /\ edit[u].source = "manual" => hostIps[p].source = "manual" /\ hostIps'[p] = NoRow
        /\ edit[u].source = "auto" => /\ hostIps[p] # NoRow /\ hostIps'[p].excluded
                                      /\ hostIps'[p].source = hostIps[p].source
        /\ edit[u].source \notin {"auto", "manual"} => hostIps'[p] = hostIps[p]
    BY UnboundRow
  <1>w. /\ edit'[u].op = "idle"
        /\ \A w \in User \ {u} :
             /\ edit'[w].op = edit[w].op /\ edit'[w].pair = edit[w].pair
             /\ edit'[w].alone = edit[w].alone /\ edit'[w].doomed = edit[w].doomed
             /\ \/ edit'[w].source = edit[w].source
                \/ edit[w].op = "unbind" /\ edit[w].pair = p
    <2>1. Idle.op = "idle"
      BY DEF Idle
    <2> QED
      BY <2>1, UnbindCloses
  <1>h. /\ chosen' = IF chosen[p[2]] = p[1] THEN [chosen EXCEPT ![p[2]] = NoHost]
                     ELSE chosen
        /\ removed' = IF edit[u].source = "auto" /\ edit[u].alone
                      THEN removed \union {p} ELSE removed
        /\ raced' = IF edit[u].alone THEN raced ELSE raced \union {p[2]}
        /\ UNCHANGED <<hosts, named, deleted>>
    BY DEF CommitUnbind, Race
  <1>t. /\ chosen \in [Ip -> Host \union {NoHost}] /\ raced \subseteq Ip
        /\ deleted \subseteq ManualHost /\ removed \subseteq Pair
        /\ hostIps \in [Pair -> Binding]
        /\ \A w \in User : edit[w].op # "idle" => edit[w].pair \in Pair
    BY DEF TypeInv, TypeOK, HistoryTyped, EditsTyped, Binding
  <1>a. edit[u].alone => \/ edit[u].source = "gone" /\ p[1] \in deleted
                         \/ edit[u].source = hostIps[p].source
    BY <1>b DEF WishesInv, AloneActsOnRow
  <1>p. /\ p[1] \in Host /\ p[2] \in Ip /\ p = <<p[1], p[2]>> /\ p[1] # NoHost
    BY <1>b, HostAssumption DEF Pair, Host
  <1>x. ASSUME NEW w \in User \ {u}, edit[w].op # "idle", edit[w].alone
        PROVE  edit[w].pair \in Pair /\ edit[w].pair # p
    BY <1>x, <1>b, <1>t DEF WishesInv, AloneApart
  <1>k. edit[u].source # "none"
    BY <1>b DEF TypeInv, SelectedThere
  <1> HIDE DEF p
  <1>1. GoneStaysGone'
    <2>1. ASSUME NEW h \in deleted, NEW i \in Ip PROVE hostIps'[<<h, i>>] = NoRow
      <3>1. hostIps[<<h, i>>] = NoRow /\ NoRow.source = "none"
        BY DEF WishesInv, GoneStaysGone, NoRow
      <3>2. PICK q \in Pair : q = <<h, i>>
        BY <1>t DEF Pair, Host
      <3>3. CASE q # p
        BY <1>b, <3>1, <3>2, <3>3
      <3>4. CASE q = p
        BY <1>b, <3>1, <3>2, <3>4
      <3> QED
        BY <3>3, <3>4
    <2> QED
      BY <1>h, <2>1 DEF WishesInv, GoneStaysGone
  <1>2. AloneApart'
    BY <1>w DEF WishesInv, AloneApart
  <1>m. \A q \in Pair : hostIps'[q].source = "manual" => hostIps[q].source = "manual"
    <2>1. NoRow.source # "manual"
      BY DEF NoRow
    <2> QED
      BY <1>b, <2>1
  <1>3. AloneSeesAll'
    <2>1. \A h, i : Others(h, i)' \subseteq Others(h, i)
      BY <1>m DEF Others
    <2> QED
      BY <1>w, <2>1 DEF WishesInv, AloneSeesAll
  <1>4. AloneActsOnRow'
    <2>1. ASSUME NEW w \in User \ {u}, edit[w].op = "unbind", edit[w].alone
          PROVE  /\ edit'[w].source = edit[w].source
                 /\ hostIps'[edit[w].pair] = hostIps[edit[w].pair]
      BY <1>b, <1>w, <1>x, <2>1
    <2> QED
      BY <1>h, <1>w, <2>1 DEF WishesInv, AloneActsOnRow
  <1>5. RemovedMarked'
    <2>1. ASSUME NEW q \in removed
          PROVE  hostIps'[q] = [source |-> "auto", excluded |-> TRUE]
      <3>1. q \in Pair /\ hostIps[q] = [source |-> "auto", excluded |-> TRUE]
        BY <1>t DEF WishesInv, RemovedMarked
      <3>2. CASE q # p
        BY <1>b, <3>1, <3>2
      <3>3. CASE q = p /\ edit[u].source = "auto"
        <4>1. hostIps'[p] \in Binding /\ hostIps'[p].source = "auto" /\ hostIps'[p].excluded
          BY <1>b, <3>1, <3>3
        <4> QED
          BY <3>3, <4>1 DEF Binding
      <3>4. CASE q = p /\ edit[u].source # "auto"
        BY <1>b, <3>1, <3>4
      <3> QED
        BY <3>2, <3>3, <3>4
    <2>2. ASSUME edit[u].source = "auto", edit[u].alone
          PROVE  hostIps'[p] = [source |-> "auto", excluded |-> TRUE]
      <3>1. hostIps'[p] \in Binding /\ hostIps'[p].source = "auto" /\ hostIps'[p].excluded
        BY <1>a, <1>b, <2>2
      <3> QED
        BY <3>1 DEF Binding
    <2> QED
      BY <1>h, <2>1, <2>2 DEF RemovedMarked
  <1>6. NamesKept'
    BY <1>h DEF WishesInv, NamesKept
  <1>7. BindingsKept'
    <2> SUFFICES ASSUME NEW i \in Ip, i \notin raced'
                 PROVE  /\ chosen'[i] = NoHost =>
                             \A q \in Pair : q[2] = i => hostIps'[q].source # "manual"
                        /\ chosen'[i] # NoHost =>
                             /\ hostIps'[<<chosen'[i], i>>]
                                  = [source |-> "manual", excluded |-> FALSE]
                             /\ \A q \in Pair : q[2] = i /\ hostIps'[q].source = "manual"
                                                => q[1] = chosen'[i]
      BY DEF BindingsKept
    <2>1. /\ i \notin raced
          /\ chosen[i] = NoHost => \A q \in Pair : q[2] = i => hostIps[q].source # "manual"
          /\ chosen[i] # NoHost =>
               /\ <<chosen[i], i>> \in Pair /\ <<chosen[i], i>>[2] = i
               /\ hostIps[<<chosen[i], i>>] = [source |-> "manual", excluded |-> FALSE]
               /\ \A q \in Pair : q[2] = i /\ hostIps[q].source = "manual"
                                  => q[1] = chosen[i]
      <3>1. i \notin raced
        BY <1>h
      <3>2. chosen[i] # NoHost => <<chosen[i], i>> \in Pair /\ <<chosen[i], i>>[2] = i
        BY <1>t DEF Pair
      <3> QED
        BY <3>1, <3>2 DEF WishesInv, BindingsKept
    <2>2. CASE i # p[2]
      <3>1. chosen'[i] = chosen[i]
        BY <1>h, <1>t, <2>2
      <3>2. \A q \in Pair : q[2] = i => hostIps'[q] = hostIps[q]
        BY <1>b, <2>2
      <3> QED
        BY <2>1, <3>1, <3>2
    <2>3. CASE i = p[2] /\ chosen[i] = p[1]
      <3>1. hostIps[p].source = "manual" /\ p \in Pair /\ edit[u].alone
        BY <1>b, <1>h, <1>p, <2>1, <2>3
      <3>2. p[1] \notin deleted
        <4>1. p[1] \in deleted => hostIps[<<p[1], p[2]>>] = NoRow
          BY <1>p DEF WishesInv, GoneStaysGone
        <4> QED
          BY <1>p, <3>1, <4>1 DEF NoRow
      <3>3. hostIps'[p] = NoRow
        BY <1>a, <1>b, <3>1, <3>2
      <3>4. chosen'[i] = NoHost
        BY <1>h, <1>t, <2>3
      <3>5. ASSUME NEW q \in Pair, q[2] = i PROVE hostIps'[q].source # "manual"
        <4>1. CASE q = p
          BY <3>3, <4>1 DEF NoRow
        <4>2. CASE q # p
          <5>1. q = <<q[1], q[2]>>
            BY DEF Pair
          <5>2. q[1] # p[1]
            BY <1>p, <2>3, <3>5, <4>2, <5>1
          <5> QED
            BY <1>b, <1>p, <2>1, <2>3, <3>5, <4>2, <5>2
        <4> QED
          BY <4>1, <4>2
      <3> QED
        BY <3>4, <3>5
    <2>4. CASE i = p[2] /\ chosen[i] # p[1]
      <3>1. chosen'[i] = chosen[i] /\ edit[u].alone
        BY <1>h, <2>4
      <3>2. p \in Pair /\ hostIps[p].source # "manual"
        BY <1>b, <1>p, <2>1, <2>4
      <3>3. chosen[i] # NoHost => <<chosen[i], i>> # p
        BY <1>p, <2>4
      <3> QED
        BY <1>b, <1>m, <2>1, <3>1, <3>2, <3>3
    <2> QED
      BY <2>2, <2>3, <2>4
  <1> QED
    BY <1>1, <1>2, <1>3, <1>4, <1>5, <1>6, <1>7 DEF WishesInv

\* A deleted machine takes its bindings and its name along; removed bindings
\* are automatic, so they are not among them.
LEMMA DeleteHostWishes ==
  ASSUME TypeInv, WishesInv, NEW h \in ManualHost, DeleteHost(h)
  PROVE  WishesInv'
  <1>e. edit \in [User -> OpenEdit]
    BY DEF TypeInv, EditsTyped, OpenEdit
  <1>h. /\ hosts' = [hosts EXCEPT ![h] = Unknown]
        /\ hostIps' = [p \in Pair |-> IF p \in RowsOf(h) THEN NoRow ELSE hostIps[p]]
        /\ named' = named \ {h} /\ deleted' = deleted \union {h}
        /\ chosen' = [i \in Ip |-> IF chosen[i] = h THEN NoHost ELSE chosen[i]]
        /\ removed' = removed /\ raced' = raced
    BY DEF DeleteHost
  <1>w. \A w \in User :
          /\ edit'[w].op = edit[w].op /\ edit'[w].pair = edit[w].pair
          /\ edit'[w].alone = edit[w].alone /\ edit'[w].doomed = edit[w].doomed
          /\ edit[w].op = "unbind" /\ edit[w].pair \in RowsOf(h) => edit'[w].source = "gone"
          /\ ~(edit[w].op = "unbind" /\ edit[w].pair \in RowsOf(h)) =>
               edit'[w].source = edit[w].source
    BY <1>e DEF DeleteHost, OpenEdit
  <1>t. /\ h \in Host /\ h \notin Mac /\ h # NoHost
        /\ deleted \subseteq ManualHost /\ removed \subseteq Pair /\ named \subseteq Host
        /\ hosts \in [Host -> MachineRow]
        /\ chosen \in [Ip -> Host \union {NoHost}]
        /\ \A w \in User : edit[w].op # "idle" => edit[w].pair \in Pair
    BY HostAssumption DEF TypeInv, TypeOK, HistoryTyped, EditsTyped, Host, MachineRow
  <1>r. /\ \A p \in Pair : p[1] = h => hostIps'[p] = NoRow
        /\ \A p \in Pair : p[1] # h => p \notin RowsOf(h) /\ hostIps'[p] = hostIps[p]
        /\ \A p \in Pair : hostIps'[p] = hostIps[p] \/ hostIps'[p] = NoRow
    BY <1>h DEF RowsOf
  <1>n. NoRow.source = "none"
    BY DEF NoRow
  <1>1. GoneStaysGone'
    <2>1. ASSUME NEW g \in deleted \union {h}, NEW i \in Ip
          PROVE  ~hosts'[g].known /\ hostIps'[<<g, i>>] = NoRow
      <3>1. g \in Host /\ <<g, i>> \in Pair /\ <<g, i>>[1] = g
        BY <1>t DEF Host, Pair
      <3>2. CASE g = h
        BY <1>h, <1>r, <1>t, <3>1, <3>2 DEF Unknown
      <3>3. CASE g # h
        BY <1>h, <1>r, <1>t, <3>1, <3>3 DEF WishesInv, GoneStaysGone
      <3> QED
        BY <3>2, <3>3
    <2>2. ASSUME NEW g \in deleted PROVE ~hosts'[g].known
      BY <1>h, <1>t DEF WishesInv, GoneStaysGone, Unknown, Host
    <2>3. ~hosts'[h].known
      BY <1>h, <1>t DEF Unknown
    <2> QED
      BY <1>h, <2>1, <2>2, <2>3 DEF GoneStaysGone
  <1>2. AloneApart'
    BY <1>w DEF WishesInv, AloneApart
  <1>3. AloneSeesAll'
    <2>1. \A g, i : Others(g, i)' \subseteq Others(g, i)
      BY <1>r, <1>n DEF Others
    <2> QED
      BY <1>w, <2>1 DEF WishesInv, AloneSeesAll
  <1>4. AloneActsOnRow'
    <2>1. ASSUME NEW w \in User, edit[w].op = "unbind", edit[w].alone
          PROVE  \/ edit'[w].source = "gone" /\ edit[w].pair[1] \in deleted'
                 \/ edit'[w].source = hostIps'[edit[w].pair].source
      <3>1. \/ edit[w].source = "gone" /\ edit[w].pair[1] \in deleted
            \/ edit[w].source = hostIps[edit[w].pair].source
        BY <2>1 DEF WishesInv, AloneActsOnRow
      <3>2. edit[w].pair \in Pair
        BY <1>t, <2>1
      <3>3. CASE edit[w].pair \in RowsOf(h)
        BY <1>h, <1>w, <2>1, <3>3 DEF RowsOf
      <3>4. CASE edit[w].pair \notin RowsOf(h)
        <4>1. hostIps'[edit[w].pair] = hostIps[edit[w].pair]
          BY <1>h, <3>2, <3>4
        <4> QED
          BY <1>h, <1>w, <3>1, <3>4, <4>1
      <3> QED
        BY <3>3, <3>4
    <2> QED
      BY <1>w, <2>1 DEF AloneActsOnRow
  <1>5. RemovedMarked'
    <2>1. ASSUME NEW p \in removed PROVE hostIps'[p] = hostIps[p]
      <3>1. hostIps[p].source = "auto" /\ p \in Pair
        BY <1>t DEF WishesInv, RemovedMarked
      <3>2. p[1] \in Mac
        BY <3>1 DEF TypeInv, RowShape
      <3> QED
        BY <1>r, <1>t, <3>1, <3>2
    <2> QED
      BY <1>h, <2>1 DEF WishesInv, RemovedMarked
  <1>6. NamesKept'
    BY <1>h, <1>t DEF WishesInv, NamesKept
  <1>7. BindingsKept'
    <2> SUFFICES ASSUME NEW i \in Ip, i \notin raced
                 PROVE  /\ chosen'[i] = NoHost =>
                             \A q \in Pair : q[2] = i => hostIps'[q].source # "manual"
                        /\ chosen'[i] # NoHost =>
                             /\ hostIps'[<<chosen'[i], i>>]
                                  = [source |-> "manual", excluded |-> FALSE]
                             /\ \A q \in Pair : q[2] = i /\ hostIps'[q].source = "manual"
                                                => q[1] = chosen'[i]
      BY <1>h DEF BindingsKept
    <2>1. /\ chosen[i] = NoHost => \A q \in Pair : q[2] = i => hostIps[q].source # "manual"
          /\ chosen[i] # NoHost =>
               /\ <<chosen[i], i>> \in Pair /\ <<chosen[i], i>>[1] = chosen[i]
               /\ hostIps[<<chosen[i], i>>] = [source |-> "manual", excluded |-> FALSE]
               /\ \A q \in Pair : q[2] = i /\ hostIps[q].source = "manual"
                                  => q[1] = chosen[i]
      <3>1. chosen[i] # NoHost =>
              <<chosen[i], i>> \in Pair /\ <<chosen[i], i>>[1] = chosen[i]
        BY <1>t DEF Pair
      <3> QED
        BY <3>1 DEF WishesInv, BindingsKept
    <2>2. \A q \in Pair : hostIps'[q].source = "manual" =>
            hostIps[q].source = "manual" /\ q[1] # h
      BY <1>r, <1>n
    <2>3. CASE chosen[i] = h
      BY <1>h, <1>t, <2>1, <2>2, <2>3
    <2>4. CASE chosen[i] # h
      <3>1. chosen'[i] = chosen[i]
        BY <1>h, <2>4
      <3>2. chosen[i] # NoHost => hostIps'[<<chosen[i], i>>] = hostIps[<<chosen[i], i>>]
        BY <1>r, <2>1, <2>4
      <3> QED
        BY <2>1, <2>2, <3>1, <3>2
    <2> QED
      BY <2>3, <2>4
  <1> QED
    BY <1>1, <1>2, <1>3, <1>4, <1>5, <1>6, <1>7 DEF WishesInv

\* A new machine has a key that was never deleted, and bears the name given; a
\* name handed back is nobody's any more.
LEMMA NamesWishes ==
  ASSUME TypeInv, WishesInv,
         \/ \E h \in ManualHost : CreateManualHost(h)
         \/ \E h \in Host : RenameHost(h)
  PROVE  WishesInv'
  <1>1. /\ UNCHANGED <<hostIps, edit, chosen, removed, deleted, raced>>
        /\ \E h \in Host \ deleted :
             /\ \A g \in Host \ {h} : hosts'[g] = hosts[g]
             /\ \/ named' = named \ {h}
                \/ /\ named' = named \union {h}
                   /\ hosts'[h].known /\ hosts'[h].edited /\ hosts'[h].name = "user"
    <2>t. hosts \in [Host -> MachineRow]
      BY DEF TypeInv, TypeOK, MachineRow
    <2>1. ASSUME NEW h \in ManualHost, CreateManualHost(h)
          PROVE  /\ h \in Host \ deleted
                 /\ \A g \in Host \ {h} : hosts'[g] = hosts[g]
                 /\ named' = named \union {h}
                 /\ hosts'[h].known /\ hosts'[h].edited /\ hosts'[h].name = "user"
      BY <2>1, <2>t DEF CreateManualHost, Host
    <2>2. ASSUME NEW h \in Host, RenameHost(h)
          PROVE  /\ h \in Host \ deleted
                 /\ \A g \in Host \ {h} : hosts'[g] = hosts[g]
                 /\ \/ named' = named \ {h}
                    \/ /\ named' = named \union {h}
                       /\ hosts'[h].known /\ hosts'[h].edited /\ hosts'[h].name = "user"
      <3>1. h \notin deleted /\ hosts[h].known
        BY <2>2 DEF RenameHost, WishesInv, GoneStaysGone
      <3>2. CASE /\ hosts' = [hosts EXCEPT ![h] = [@ EXCEPT !.name = "user",
                                                           !.edited = TRUE]]
                 /\ named' = named \union {h}
        BY <2>t, <3>1, <3>2 DEF MachineRow
      <3>3. CASE /\ hosts' = [hosts EXCEPT ![h] = [@ EXCEPT
                      !.name = IF hosts[h].discovered THEN "discovered" ELSE "none",
                      !.edited = FALSE]]
                 /\ named' = named \ {h}
        BY <2>t, <3>1, <3>3
      <3> QED
        BY <2>2, <3>2, <3>3 DEF RenameHost
    <2>3. UNCHANGED <<hostIps, edit, chosen, removed, deleted, raced>>
      BY DEF CreateManualHost, RenameHost
    <2> QED
      BY <2>1, <2>2, <2>3
  <1>2. GoneStaysGone'
    BY <1>1 DEF WishesInv, GoneStaysGone, TypeInv, HistoryTyped, Host
  <1>3. AloneApart' /\ AloneActsOnRow' /\ RemovedMarked' /\ BindingsKept'
    BY <1>1 DEF WishesInv, AloneApart, AloneActsOnRow, RemovedMarked, BindingsKept
  <1>4. AloneSeesAll'
    <2>1. \A g, i : Others(g, i)' = Others(g, i)
      BY <1>1 DEF Others
    <2> QED
      BY <1>1, <2>1 DEF WishesInv, AloneSeesAll
  <1>5. NamesKept'
    BY <1>1 DEF WishesInv, NamesKept, TypeInv, HistoryTyped
  <1> QED
    BY <1>2, <1>3, <1>4, <1>5 DEF WishesInv

\* Every step keeps what users decided.
LEMMA NextWishes == TypeInv /\ WishesInv /\ [Next]_vars => WishesInv'
  <1> SUFFICES ASSUME TypeInv, WishesInv, [Next]_vars PROVE WishesInv'
    OBVIOUS
  <1>1. CASE \E a \in Analysis : Step(a)
    <2> PICK a \in Analysis : Step(a)
      BY <1>1
    <2>1. CASE RecordHosts(a)
      BY <2>1, RecordHostsWishes
    <2>2. CASE UNCHANGED <<machines, edit, wishes>>
      BY <2>2, WishesSame
    <2> QED
      BY <2>1, <2>2 DEF Step, ReadBindings, Analyze, CountHistory, CorrelationFails,
                        RaiseFirstSeen, SaveScan, RecordArtifacts, ReadLabels
  <1>2. CASE \E u \in User : Serve(u)
    BY <1>2, BeginsWish, CommitBindWishes, BindFailsWishes, CommitUnbindWishes DEF Serve
  <1>3. CASE \E h \in ManualHost : DeleteHost(h)
    BY <1>3, DeleteHostWishes
  <1>4. CASE \/ \E h \in ManualHost : CreateManualHost(h)
             \/ \E h \in Host : RenameHost(h)
    BY <1>4, NamesWishes
  <1>5. CASE UNCHANGED <<machines, edit, wishes>>
    BY <1>5, WishesSame
  <1>6. (\E ip \in Ip : LabelIp(ip)) \/ DeleteScan \/ UNCHANGED vars
          => UNCHANGED <<machines, edit, wishes>>
    BY DEF LabelIp, DeleteScan, vars
  <1> QED
    BY <1>1, <1>2, <1>3, <1>4, <1>5, <1>6 DEF Next

\* No analysis, also none that started before the decision, undoes what users
\* decided about addresses and names, wherever their edits did not overlap.
THEOREM DecisionsHold == Spec => []DecisionsStand
  <1>1. TypeInv /\ WishesInv => DecisionsStand
    <2> SUFFICES ASSUME TypeInv, WishesInv PROVE DecisionsStand
      OBVIOUS
    <2>1. ASSUME NEW i \in Ip \ raced
          PROVE  /\ {p \in Pair : p[2] = i /\ hostIps[p].source = "manual"}
                      = (IF chosen[i] = NoHost THEN {} ELSE {<<chosen[i], i>>})
                 /\ \A p \in removed : p[2] = i => hostIps[p].excluded
                 /\ chosen[i] # NoHost => ~hostIps[<<chosen[i], i>>].excluded
      <3>1. chosen[i] # NoHost => <<chosen[i], i>> \in Pair /\ <<chosen[i], i>>[2] = i
        BY DEF TypeInv, TypeOK, Pair
      <3>2. \A p \in Pair : p = <<p[1], p[2]>>
        BY DEF Pair
      <3>3. \A p \in Pair : p[2] = i /\ hostIps[p].source = "manual"
                            <=> chosen[i] # NoHost /\ p = <<chosen[i], i>>
        BY <3>1, <3>2 DEF WishesInv, BindingsKept
      <3>4. {p \in Pair : p[2] = i /\ hostIps[p].source = "manual"}
              = (IF chosen[i] = NoHost THEN {} ELSE {<<chosen[i], i>>})
        BY <3>1, <3>3
      <3>5. \A p \in removed : hostIps[p].excluded
        BY DEF WishesInv, RemovedMarked
      <3>6. chosen[i] # NoHost => ~hostIps[<<chosen[i], i>>].excluded
        BY DEF WishesInv, BindingsKept
      <3> QED
        BY <3>4, <3>5, <3>6
    <2> QED
      BY <2>1 DEF DecisionsStand, WishesInv, NamesKept
  <1> QED
    BY InitType, NextType, InitWishes, NextWishes, <1>1, PTL DEF Spec

\* A machine made by hand and deleted stays gone, though an analysis still
\* knows it.
THEOREM DeletedStayGone == Spec => []GoneStaysGone
  <1>1. WishesInv => GoneStaysGone
    BY DEF WishesInv
  <1> QED
    BY InitType, NextType, InitWishes, NextWishes, <1>1, PTL DEF Spec
=============================================================================
