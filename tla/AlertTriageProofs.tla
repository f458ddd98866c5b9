------------------------- MODULE AlertTriageProofs --------------------------
(***************************************************************************)
(* For every set of alerts and rules, every number of fast workers and of  *)
(* analysts and every bound: TriageInv is inductive.  It holds the type    *)
(* invariant and the safety properties of triage and suppression           *)
(* (SuppressionIsScoped follows from what a rule keeps and hides,          *)
(* RulesStand), and how far the alert count is from the alerts that await  *)
(* an analyst.                                                             *)
(***************************************************************************)
EXTENDS AlertTriage, FiniteSetTheorems, TLAPS

(***************************************************************************)
(* What the counters count.                                                *)
(***************************************************************************)

\* Sets of alert rows are finite.
LEMMA RowsFinite ==
  ASSUME NEW S \in SUBSET AlertId
  PROVE  IsFiniteSet(S) /\ Cardinality(S) \in Nat
  <1>1. IsFiniteSet(AlertId)
    BY BoundsAssumption, FS_Interval DEF AlertId
  <1> QED
    BY <1>1, FS_Subset, FS_CardinalityType

\* Two sets of rows with nothing in common count as many as both.
LEMMA CountApart ==
  ASSUME NEW S \in SUBSET AlertId, NEW T \in SUBSET AlertId, S \cap T = {}
  PROVE  Cardinality(S \cup T) = Cardinality(S) + Cardinality(T)
  <1>1. IsFiniteSet(S) /\ IsFiniteSet(T)
    BY RowsFinite
  <1>2. Cardinality(S) \in Nat /\ Cardinality(T) \in Nat
    BY RowsFinite
  <1>3. Cardinality(S \cup T) = Cardinality(S) + Cardinality(T) - Cardinality(S \cap T)
    BY <1>1, FS_Union
  <1> QED
    BY <1>2, <1>3, FS_EmptySet

\* The alerts filed under a rule whose hits no save_scan has still to count.
CountedUnder(r) == {id \in Drawn : row[id].rule = r /\ ~Uncounted(id)}
\* The alerts of a scan that came in for attention.
Arrived(s) == {id \in Drawn : row[id].scan = s /\ row[id].arrived = "analisar"}
\* The alerts a save_scan hid under a rule.
HidUnder(w, r) == {id \in saver[w].hid : row[id].rule = r}

\* HitsOf counts them.
LEMMA HitsAre == \A w, r : HitsOf(w, r) = Cardinality(HidUnder(w, r))
  BY DEF HitsOf, Quantify, HidUnder

\* The badge counts the alerts that came in for attention.
LEMMA BadgeIs ==
  BadgeCountsArrivals <=>
      \A s \in ScanId : scan[s].saved => scan[s].count = Cardinality(Arrived(s))
  BY DEF BadgeCountsArrivals, Quantify, Arrived

\* The same after a step.
LEMMA BadgeIsNext ==
  BadgeCountsArrivals' <=>
      \A s \in ScanId : scan'[s].saved => scan'[s].count = Cardinality(Arrived(s)')
  BY DEF BadgeCountsArrivals, Quantify, Arrived

(***************************************************************************)
(* What a step may disturb.                                                *)
(***************************************************************************)

\* The fields of a well typed state.
LEMMA Fields ==
  ASSUME TypeOK
  PROVE  /\ \A r \in RuleId : /\ rule[r] \in Rule
                              /\ rule[r].state \in {"new", "on", "off", "deleted"}
                              /\ rule[r].spec \in RuleSpec /\ rule[r].hits \in Nat
                              /\ lostHits[r] \in Nat
         /\ \A id \in AlertId : /\ row[id] \in Row
                                /\ row[id].alert \in Alert
                                /\ row[id].status \in Triage
                                /\ row[id].arrived \in Triage
                                /\ row[id].rule \in RuleId \cup {NoRule}
         /\ \A w \in Saver : /\ saver[w] \in [pc : SaverPc, rules : SUBSET RuleId,
                                              keys : SUBSET Keys, hid : SUBSET AlertId]
                             /\ saver[w].pc \in SaverPc
                             /\ saver[w].rules \subseteq RuleId
                             /\ saver[w].keys \subseteq Keys
                             /\ saver[w].hid \subseteq AlertId
         /\ NoRule \notin RuleId
         /\ MaxRules \in Nat /\ MaxAlerts \in Nat /\ MaxScans \in Nat /\ MaxFound \in Nat
         /\ nextAlert \in Nat \ {0}
  <1>1. MaxRules \in Nat /\ MaxAlerts \in Nat /\ MaxScans \in Nat /\ MaxFound \in Nat
    BY BoundsAssumption
  <1>2. NoRule \notin RuleId
    BY <1>1 DEF NoRule, RuleId
  <1>3. nextAlert \in Nat \ {0}
    BY <1>1 DEF TypeOK
  <1>4. \A r \in RuleId : /\ rule[r] \in Rule
                          /\ rule[r].state \in {"new", "on", "off", "deleted"}
                          /\ rule[r].spec \in RuleSpec /\ rule[r].hits \in Nat
                          /\ lostHits[r] \in Nat
    BY DEF TypeOK, Rule
  <1>5. \A id \in AlertId : /\ row[id] \in Row
                            /\ row[id].alert \in Alert
                            /\ row[id].status \in Triage
                            /\ row[id].arrived \in Triage
                            /\ row[id].rule \in RuleId \cup {NoRule}
    BY DEF TypeOK, Row
  <1>6. \A w \in Saver : /\ saver[w] \in [pc : SaverPc, rules : SUBSET RuleId,
                                          keys : SUBSET Keys, hid : SUBSET AlertId]
                         /\ saver[w].pc \in SaverPc
                         /\ saver[w].rules \subseteq RuleId
                         /\ saver[w].keys \subseteq Keys
                         /\ saver[w].hid \subseteq AlertId
    BY DEF TypeOK
  <1> QED
    BY <1>1, <1>2, <1>3, <1>4, <1>5, <1>6

\* A step that neither hides nor counts nor gives up a hit.
LEMMA HitsStay ==
  ASSUME HitsAccounted, nextAlert' = nextAlert,
         \A id \in Drawn : row'[id].rule = row[id].rule,
         \A id \in Drawn : (Uncounted(id)' <=> Uncounted(id)),
         \A r \in RuleId : rule'[r].state \in {"on", "off"} =>
            /\ rule[r].state \in {"on", "off"}
            /\ rule'[r].hits = rule[r].hits /\ lostHits'[r] = lostHits[r]
  PROVE  HitsAccounted'
  <1>1. Drawn' = Drawn
    BY DEF Drawn
  <1> SUFFICES ASSUME NEW r \in RuleId, rule'[r].state \in {"on", "off"}
               PROVE  rule'[r].hits + lostHits'[r]
                        = Cardinality({id \in Drawn' : row'[id].rule = r
                                                       /\ ~Uncounted(id)'})
    BY DEF HitsAccounted
  <1>2. {id \in Drawn' : row'[id].rule = r /\ ~Uncounted(id)'}
          = {id \in Drawn : row[id].rule = r /\ ~Uncounted(id)}
    BY <1>1
  <1> QED
    BY <1>2 DEF HitsAccounted

\* A step that keeps the scans and what came in.
LEMMA BadgeStays ==
  ASSUME BadgeCountsArrivals, scan' = scan, nextAlert' = nextAlert,
         \A id \in Drawn : row'[id].scan = row[id].scan /\ row'[id].arrived = row[id].arrived
  PROVE  BadgeCountsArrivals'
  <1>1. Drawn' = Drawn
    BY DEF Drawn
  <1>2. ASSUME NEW s \in ScanId PROVE Arrived(s)' = Arrived(s)
    BY <1>1 DEF Arrived
  <1> QED
    BY <1>2, BadgeIs, BadgeIsNext

\* The parts of the invariant.
LEMMA Parts ==
  TriageInv <=> /\ TypeOK /\ RulesStand /\ HidersApart /\ RowsSaved /\ HitsAccounted
                /\ HidingIsAnnounced /\ FalsePositivesTrain /\ BadgeCountsArrivals
  BY DEF TriageInv

(***************************************************************************)
(* Rules and learned signatures.                                           *)
(***************************************************************************)

\* An admin creates a rule or switches one: what the alerts were filed under stays.
LEMMA RuleKeeps ==
  ASSUME TriageInv, NEW r \in RuleId,
         \/ \E spec \in RuleSpec : CreateRule(r, spec)
         \/ \E st \in {"on", "off", "deleted"} : SetRule(r, st)
  PROVE  TriageInv'
  <1>0. /\ TypeOK /\ RulesStand /\ HidersApart /\ RowsSaved /\ HitsAccounted
        /\ HidingIsAnnounced /\ FalsePositivesTrain /\ BadgeCountsArrivals
    BY DEF TriageInv
  <1>1. UNCHANGED <<signature, row, nextAlert, scan, saver, analyst, lostHits,
                    untrained, announced, crashed, vetted>>
    BY DEF CreateRule, SetRule
  <1>2. /\ rule' \in [RuleId -> Rule]
        /\ \A q \in RuleId : q # r => rule'[q] = rule[q]
        /\ rule'[r].state \in {"on", "off", "deleted"}
        /\ Creatable(rule'[r].spec)
        /\ rule[r].state # "new" => rule'[r].spec = rule[r].spec
        /\ rule'[r].state \in {"on", "off"} =>
              \/ rule[r].state = "new" /\ rule'[r].hits = 0
              \/ rule[r].state \in {"on", "off"} /\ rule'[r].hits = rule[r].hits
    <2>1. CASE \E spec \in RuleSpec : CreateRule(r, spec)
      <3>1. PICK spec \in RuleSpec, st \in {"on", "off"} :
                /\ rule[r].state = "new" /\ Creatable(spec)
                /\ rule' = [rule EXCEPT ![r] = [state |-> st, spec |-> spec, hits |-> 0]]
        BY <2>1 DEF CreateRule
      <3>2. [state |-> st, spec |-> spec, hits |-> 0] \in Rule
        BY DEF Rule
      <3>3. rule'[r] = [state |-> st, spec |-> spec, hits |-> 0]
        BY <1>0, <3>1 DEF TypeOK
      <3> QED
        BY <1>0, <3>1, <3>2, <3>3 DEF TypeOK
    <2>2. CASE \E st \in {"on", "off", "deleted"} : SetRule(r, st)
      <3>1. PICK st \in {"on", "off", "deleted"} :
                /\ rule[r].state \in {"on", "off"}
                /\ rule' = [rule EXCEPT ![r].state = st]
        BY <2>2 DEF SetRule
      <3>2. rule'[r] = [rule[r] EXCEPT !.state = st]
        BY <1>0, <3>1 DEF TypeOK
      <3>3. /\ rule[r] \in Rule /\ rule'[r] \in Rule /\ rule'[r].state = st
            /\ rule'[r].spec = rule[r].spec /\ rule'[r].hits = rule[r].hits
        BY <1>0, <3>2 DEF TypeOK, Rule
      <3>4. Creatable(rule[r].spec)
        BY <1>0, <3>1 DEF RulesStand
      <3> QED
        BY <1>0, <3>1, <3>3, <3>4 DEF TypeOK
    <2> QED
      BY <2>1, <2>2
  <1>3. TypeOK'
    BY <1>0, <1>1, <1>2 DEF TypeOK
  <1>4. Drawn' = Drawn /\ Drawn \subseteq AlertId
    BY <1>1 DEF Drawn
  <1>5. RulesStand'
    <2>1. \A q \in RuleId : /\ rule'[q].state = "new" => lostHits'[q] = 0
                            /\ rule'[q].state # "new" => Creatable(rule'[q].spec)
      BY <1>0, <1>1, <1>2 DEF RulesStand
    <2>2. \A q \in RuleId : rule[q].state # "new" =>
              rule'[q].state # "new" /\ rule'[q].spec = rule[q].spec
      BY <1>2
    <2>3. \A w \in Saver : \A q \in saver'[w].rules : rule'[q].state # "new"
      BY <1>0, <1>1, <2>2, Fields DEF RulesStand
    <2>4. ASSUME NEW id \in Drawn, row[id].rule # NoRule
          PROVE  /\ rule'[row[id].rule].state # "new"
                 /\ Matches(row[id].alert, rule'[row[id].rule].spec)
      BY <1>0, <1>4, <2>2, <2>4, Fields DEF RulesStand
    <2> QED
      BY <1>1, <1>4, <2>1, <2>3, <2>4 DEF RulesStand
  <1>6. HidersApart' /\ RowsSaved'
    BY <1>0, <1>1, <1>4 DEF HidersApart, RowsSaved
  <1>7. HitsAccounted'
    <2>1. \A id \in Drawn : Uncounted(id)' <=> Uncounted(id)
      BY <1>1 DEF Uncounted
    <2>2. CASE rule[r].state # "new"
      BY <1>0, <1>1, <1>2, <2>1, <2>2, HitsStay
    <2>3. CASE rule[r].state = "new"
      <3> SUFFICES ASSUME NEW q \in RuleId, rule'[q].state \in {"on", "off"}
                   PROVE  rule'[q].hits + lostHits'[q]
                            = Cardinality({id \in Drawn' : row'[id].rule = q
                                                           /\ ~Uncounted(id)'})
        BY DEF HitsAccounted
      <3>1. {id \in Drawn' : row'[id].rule = q /\ ~Uncounted(id)'}
              = {id \in Drawn : row[id].rule = q /\ ~Uncounted(id)}
        BY <1>1, <1>4, <2>1
      <3>2. CASE q # r
        BY <1>0, <1>1, <1>2, <3>1, <3>2 DEF HitsAccounted
      <3>3. CASE q = r
        <4>1. {id \in Drawn : row[id].rule = q /\ ~Uncounted(id)} = {}
          BY <1>0, <2>3, <3>3, Fields DEF RulesStand
        <4>2. rule'[q].hits = 0 /\ lostHits'[q] = 0
          BY <1>0, <1>1, <1>2, <2>3, <3>3 DEF RulesStand
        <4>3. PICK none : none = {id \in Drawn' : row'[id].rule = q /\ ~Uncounted(id)'}
          OBVIOUS
        <4>4. Cardinality(none) = 0
          BY <3>1, <4>1, <4>3, FS_EmptySet
        <4>5. rule'[q].hits + lostHits'[q] = Cardinality(none)
          BY <4>2, <4>4
        <4> QED
          BY <4>3, <4>5
      <3> QED
        BY <3>2, <3>3
    <2> QED
      BY <2>2, <2>3
  <1>8. HidingIsAnnounced' /\ FalsePositivesTrain'
    BY <1>0, <1>1, <1>4 DEF HidingIsAnnounced, FalsePositivesTrain
  <1>9. BadgeCountsArrivals'
    BY <1>0, <1>1, BadgeStays
  <1> QED
    BY <1>3, <1>5, <1>6, <1>7, <1>8, <1>9 DEF TriageInv

\* A signature is learned, or its learning fails, or it is forgotten.
LEMMA SignatureKeeps ==
  ASSUME TriageInv,
         \/ \E k \in Keys : Forget(k)
         \/ \E t \in Analyst, k \in Keys : Learn(t, k) \/ LearnFails(t, k)
  PROVE  TriageInv'
  <1>0. /\ TypeOK /\ RulesStand /\ HidersApart /\ RowsSaved /\ HitsAccounted
        /\ HidingIsAnnounced /\ FalsePositivesTrain /\ BadgeCountsArrivals
    BY DEF TriageInv
  <1>1. UNCHANGED <<rule, row, nextAlert, scan, saver, lostHits, announced, crashed,
                    vetted>>
    BY DEF Forget, Learn, LearnFails
  <1>2. /\ signature' \subseteq Keys /\ untrained' \subseteq Keys
        /\ analyst' \in [Analyst -> SUBSET Keys]
        /\ signature \cup untrained \cup UNION Range(analyst)
             \subseteq signature' \cup untrained' \cup UNION Range(analyst')
    <2>1. CASE \E k \in Keys : Forget(k)
      BY <1>0, <2>1 DEF Forget, TypeOK
    <2>2. CASE \E t \in Analyst, k \in Keys : Learn(t, k) \/ LearnFails(t, k)
      <3>1. PICK t \in Analyst, k \in Keys :
                /\ analyst' = [analyst EXCEPT ![t] = @ \ {k}]
                /\ \/ signature' = signature \cup {k} /\ untrained' = untrained
                   \/ signature' = signature /\ untrained' = untrained \cup {k}
        BY <2>2 DEF Learn, LearnFails
      <3>2. /\ analyst' \in [Analyst -> SUBSET Keys]
            /\ analyst'[t] = analyst[t] \ {k}
            /\ \A u \in Analyst : u # t => analyst'[u] = analyst[u]
            /\ DOMAIN analyst = Analyst /\ DOMAIN analyst' = Analyst
        BY <1>0, <3>1 DEF TypeOK
      <3>3. UNION Range(analyst) \subseteq {k} \cup UNION Range(analyst')
        <4> SUFFICES ASSUME NEW u \in Analyst, NEW x \in analyst[u]
                     PROVE  x = k \/ \E v \in Analyst : x \in analyst'[v]
          BY <3>2 DEF Range
        <4> QED
          BY <3>2
      <3> QED
        BY <1>0, <3>1, <3>2, <3>3 DEF TypeOK
    <2> QED
      BY <2>1, <2>2
  <1>3. TypeOK'
    BY <1>0, <1>1, <1>2 DEF TypeOK
  <1>4. Drawn' = Drawn
    BY <1>1 DEF Drawn
  <1>5. RulesStand' /\ HidersApart' /\ RowsSaved' /\ HidingIsAnnounced'
    BY <1>0, <1>1, <1>4 DEF RulesStand, HidersApart, RowsSaved, HidingIsAnnounced
  <1>6. HitsAccounted'
    <2>1. \A id \in Drawn : Uncounted(id)' <=> Uncounted(id)
      BY <1>1 DEF Uncounted
    <2> QED
      BY <1>0, <1>1, <2>1, HitsStay
  <1>7. FalsePositivesTrain'
    BY <1>0, <1>1, <1>2, <1>4 DEF FalsePositivesTrain
  <1>8. BadgeCountsArrivals'
    BY <1>0, <1>1, BadgeStays
  <1> QED
    BY <1>3, <1>5, <1>6, <1>7, <1>8 DEF TriageInv

(***************************************************************************)
(* save_scan.                                                              *)
(***************************************************************************)

\* A save_scan that takes the signatures in.
LEMMA SignaturesRead ==
  ASSUME NEW s \in [pc : SaverPc, rules : SUBSET RuleId, keys : SUBSET Keys,
                    hid : SUBSET AlertId],
         NEW k \in SUBSET Keys
  PROVE  /\ [s EXCEPT !.pc = "signatures", !.keys = k]
               \in [pc : SaverPc, rules : SUBSET RuleId, keys : SUBSET Keys,
                    hid : SUBSET AlertId]
         /\ [s EXCEPT !.pc = "signatures", !.keys = k].pc = "signatures"
         /\ [s EXCEPT !.pc = "signatures", !.keys = k].hid = s.hid
         /\ [s EXCEPT !.pc = "signatures", !.keys = k].rules = s.rules
  BY DEF SaverPc

\* The rules that are on are read, and then the signatures.
LEMMA ReadKeeps ==
  ASSUME TriageInv, NEW w \in Saver, ReadRules(w) \/ ReadSignatures(w)
  PROVE  TriageInv'
  <1>0. /\ TypeOK /\ RulesStand /\ HidersApart /\ RowsSaved /\ HitsAccounted
        /\ HidingIsAnnounced /\ FalsePositivesTrain /\ BadgeCountsArrivals
    BY DEF TriageInv
  <1>1. UNCHANGED <<rule, signature, row, nextAlert, scan, analyst, lostHits,
                    untrained, announced, crashed, vetted>>
    BY DEF ReadRules, ReadSignatures
  <1>2. /\ saver[w].pc \in {"idle", "rules"} /\ saver[w].hid = {}
        /\ saver' \in [Saver -> [pc : SaverPc, rules : SUBSET RuleId,
                                 keys : SUBSET Keys, hid : SUBSET AlertId]]
        /\ \A v \in Saver : v # w => saver'[v] = saver[v]
        /\ saver'[w].pc \in {"rules", "signatures"} /\ saver'[w].hid = {}
        /\ \A r \in saver'[w].rules : rule[r].state # "new"
    <2>1. CASE ReadRules(w)
      <3>1. /\ saver[w].pc = "idle"
            /\ saver' = [saver EXCEPT ![w] = [NotSaving EXCEPT !.pc = "rules",
                                                               !.rules = RulesOn]]
        BY <2>1 DEF ReadRules
      <3>2. saver[w].hid = {}
        BY <1>0, <3>1 DEF HidersApart
      <3>3. RulesOn \subseteq RuleId /\ \A r \in RulesOn : rule[r].state # "new"
        BY DEF RulesOn
      <3>4. PICK s : s = [NotSaving EXCEPT !.pc = "rules", !.rules = RulesOn]
        OBVIOUS
      <3>5. /\ s \in [pc : SaverPc, rules : SUBSET RuleId, keys : SUBSET Keys,
                      hid : SUBSET AlertId]
            /\ s.pc = "rules" /\ s.hid = {} /\ s.rules = RulesOn
        BY <3>3, <3>4 DEF SaverPc, NotSaving
      <3>6. saver' = [saver EXCEPT ![w] = s]
        BY <3>1, <3>4
      <3> QED
        BY <1>0, <3>1, <3>2, <3>3, <3>5, <3>6 DEF TypeOK
    <2>2. CASE ReadSignatures(w)
      <3>1. /\ saver[w].pc = "rules"
            /\ saver' = [saver EXCEPT ![w] = [@ EXCEPT !.pc = "signatures",
                                                       !.keys = signature]]
        BY <2>2 DEF ReadSignatures
      <3>2. saver[w].hid = {} /\ \A r \in saver[w].rules : rule[r].state # "new"
        BY <1>0, <3>1 DEF HidersApart, RulesStand
      <3>3. saver'[w] = [saver[w] EXCEPT !.pc = "signatures", !.keys = signature]
        BY <1>0, <3>1 DEF TypeOK
      <3>4. /\ saver'[w] \in [pc : SaverPc, rules : SUBSET RuleId,
                              keys : SUBSET Keys, hid : SUBSET AlertId]
            /\ saver'[w].pc = "signatures" /\ saver'[w].hid = saver[w].hid
            /\ saver'[w].rules = saver[w].rules
        <4>1. saver[w] \in [pc : SaverPc, rules : SUBSET RuleId, keys : SUBSET Keys,
                            hid : SUBSET AlertId]
              /\ signature \in SUBSET Keys
          BY <1>0 DEF TypeOK
        <4> QED
          BY <3>3, <4>1, SignaturesRead, Zenon
      <3> QED
        BY <1>0, <3>1, <3>2, <3>4 DEF TypeOK
    <2> QED
      BY <2>1, <2>2
  <1>3. TypeOK'
    BY <1>0, <1>1, <1>2 DEF TypeOK
  <1>4. Drawn' = Drawn
    BY <1>1 DEF Drawn
  <1>5. RulesStand'
    BY <1>0, <1>1, <1>2, <1>4 DEF RulesStand
  <1>6. \A v \in Saver : saver'[v].hid = saver[v].hid
                         /\ (saver'[v].pc = "bump" <=> saver[v].pc = "bump")
    BY <1>2
  <1>7. HidersApart' /\ RowsSaved' /\ HidingIsAnnounced' /\ FalsePositivesTrain'
    <2>1. HidersApart'
      BY <1>0, <1>2, <1>4, <1>6 DEF HidersApart
    <2>2. RowsSaved' /\ HidingIsAnnounced' /\ FalsePositivesTrain'
      BY <1>0, <1>1, <1>4, <1>6 DEF RowsSaved, HidingIsAnnounced, FalsePositivesTrain
    <2> QED
      BY <2>1, <2>2
  <1>8. HitsAccounted'
    <2>1. \A id \in Drawn : Uncounted(id)' <=> Uncounted(id)
      BY <1>6 DEF Uncounted
    <2> QED
      BY <1>0, <1>1, <2>1, HitsStay
  <1>9. BadgeCountsArrivals'
    BY <1>0, <1>1, BadgeStays
  <1> QED
    BY <1>3, <1>5, <1>7, <1>8, <1>9 DEF TriageInv

\* A step that counts the hits of one save_scan, or gives them up.
LEMMA HitsCounted ==
  ASSUME TypeOK, HidersApart, HitsAccounted, NEW w \in Saver, saver[w].pc = "bump",
         saver'[w].pc # "bump", \A v \in Saver : v # w => saver'[v] = saver[v],
         nextAlert' = nextAlert, row' = row,
         \A r \in RuleId : rule'[r].state \in {"on", "off"} =>
            /\ rule[r].state \in {"on", "off"}
            /\ rule'[r].hits + lostHits'[r]
                 = rule[r].hits + lostHits[r] + HitsOf(w, r)
  PROVE  HitsAccounted'
  <1> SUFFICES ASSUME NEW r \in RuleId, rule'[r].state \in {"on", "off"}
               PROVE  rule'[r].hits + lostHits'[r]
                        = Cardinality({id \in Drawn' : row'[id].rule = r
                                                       /\ ~Uncounted(id)'})
    BY DEF HitsAccounted
  <1> DEFINE S == {id \in Drawn : row[id].rule = r /\ ~Uncounted(id)}
             N == {id \in Drawn' : row'[id].rule = r /\ ~Uncounted(id)'}
             T == HidUnder(w, r)
  <1>1. Drawn' = Drawn /\ Drawn \subseteq AlertId
    BY DEF Drawn
  <1>2. S \in SUBSET AlertId /\ T \in SUBSET AlertId
    BY <1>1, Fields DEF HidUnder
  <1>3. S \cap T = {}
    BY DEF HidUnder, Uncounted
  <1>4. \A id \in Drawn :
            Uncounted(id)' <=> \E v \in Saver : v # w /\ saver[v].pc = "bump"
                                                /\ id \in saver[v].hid
    BY DEF Uncounted
  <1>5. \A id \in saver[w].hid : id \in Drawn /\ ~Uncounted(id)'
    BY <1>4 DEF HidersApart
  <1>6. \A id \in Drawn : id \notin saver[w].hid => (Uncounted(id)' <=> Uncounted(id))
    BY <1>4 DEF Uncounted
  <1>7. N = S \cup T
    <2>1. ASSUME NEW id \in N PROVE id \in S \cup T
      BY <1>1, <1>6, <2>1 DEF HidUnder
    <2>2. ASSUME NEW id \in S PROVE id \in N
      <3>1. id \notin saver[w].hid
        BY DEF Uncounted
      <3> QED
        BY <1>1, <1>6, <3>1
    <2>3. ASSUME NEW id \in T PROVE id \in N
      BY <1>1, <1>5 DEF HidUnder
    <2> QED
      BY <2>1, <2>2, <2>3
  <1>8. rule[r].hits + lostHits[r] = Cardinality(S)
    BY DEF HitsAccounted
  <1>9. HitsOf(w, r) = Cardinality(T)
    BY HitsAre
  <1> HIDE DEF S, T, N
  <1>10. Cardinality(N) = Cardinality(S) + Cardinality(T)
    BY <1>2, <1>3, <1>7, CountApart
  <1>11. rule'[r].hits + lostHits'[r] = Cardinality(N)
    BY <1>8, <1>9, <1>10
  <1> QED
    BY <1>11 DEF N

\* The hits of a save_scan are numbers.
LEMMA HitsTyped ==
  ASSUME TypeOK, NEW w \in Saver
  PROVE  \A r \in RuleId : HitsOf(w, r) \in Nat
  <1>1. \A r \in RuleId : HidUnder(w, r) \in SUBSET AlertId
    BY Fields DEF HidUnder
  <1> QED
    BY <1>1, HitsAre, RowsFinite

\* The hits are counted in the rules, or their update fails.
LEMMA BumpKeeps ==
  ASSUME TriageInv, NEW w \in Saver, BumpHits(w) \/ BumpFails(w)
  PROVE  TriageInv'
  <1>0. /\ TypeOK /\ RulesStand /\ HidersApart /\ RowsSaved /\ HitsAccounted
        /\ HidingIsAnnounced /\ FalsePositivesTrain /\ BadgeCountsArrivals
    BY DEF TriageInv
  <1>1. /\ saver[w].pc = "bump"
        /\ saver' = [saver EXCEPT ![w].pc = "announce"]
        /\ UNCHANGED <<signature, row, nextAlert, scan, analyst, untrained, announced,
                       crashed, vetted>>
    BY DEF BumpHits, BumpFails
  <1>2. /\ \A v \in Saver : v # w => saver'[v] = saver[v]
        /\ saver'[w] \in [pc : SaverPc, rules : SUBSET RuleId,
                          keys : SUBSET Keys, hid : SUBSET AlertId]
        /\ saver'[w].pc = "announce" /\ saver'[w].hid = saver[w].hid
        /\ saver'[w].rules = saver[w].rules
    BY <1>0, <1>1 DEF TypeOK, SaverPc
  <1>3. /\ rule' \in [RuleId -> Rule] /\ lostHits' \in [RuleId -> Nat]
        /\ \A r \in RuleId :
              /\ rule'[r].state = rule[r].state /\ rule'[r].spec = rule[r].spec
              /\ rule[r].state \in {"on", "off"} =>
                   rule'[r].hits + lostHits'[r]
                     = rule[r].hits + lostHits[r] + HitsOf(w, r)
              /\ rule[r].state = "new" => lostHits'[r] = 0
    <2>0. \A r \in RuleId : /\ HitsOf(w, r) \in Nat /\ rule[r] \in Rule
                            /\ lostHits[r] \in Nat /\ rule[r].hits \in Nat
      BY <1>0, HitsTyped, Fields
    <2>1. CASE BumpHits(w)
      <3>1. /\ rule' = [r \in RuleId |-> IF rule[r].state \in {"on", "off"}
                                         THEN [rule[r] EXCEPT !.hits = @ + HitsOf(w, r)]
                                         ELSE rule[r]]
            /\ lostHits' = lostHits
        BY <2>1 DEF BumpHits
      <3>2. ASSUME NEW r \in RuleId
            PROVE  /\ rule'[r] \in Rule
                   /\ rule'[r].state = rule[r].state /\ rule'[r].spec = rule[r].spec
                   /\ rule[r].state \in {"on", "off"} =>
                        rule'[r].hits = rule[r].hits + HitsOf(w, r)
        <4>1. CASE rule[r].state \in {"on", "off"}
          <5>1. PICK n \in Nat : n = HitsOf(w, r)
            BY <2>0
          <5>2. rule'[r] = [rule[r] EXCEPT !.hits = rule[r].hits + n]
            BY <3>1, <4>1, <5>1
          <5> QED
            BY <2>0, <5>1, <5>2 DEF Rule
        <4>2. CASE rule[r].state \notin {"on", "off"}
          BY <2>0, <3>1, <4>2
        <4> QED
          BY <4>1, <4>2
      <3>3. \A r \in RuleId : rule[r].state = "new" => lostHits'[r] = 0
        BY <1>0, <3>1 DEF RulesStand
      <3>4. rule' \in [RuleId -> Rule]
        BY <3>1, <3>2
      <3>5. ASSUME NEW r \in RuleId, rule[r].state \in {"on", "off"}
            PROVE  rule'[r].hits + lostHits'[r]
                     = rule[r].hits + lostHits[r] + HitsOf(w, r)
        BY <2>0, <3>1, <3>2, <3>5
      <3> QED
        BY <1>0, <3>1, <3>2, <3>3, <3>4, <3>5 DEF TypeOK
    <2>2. CASE BumpFails(w)
      <3>1. /\ rule' = rule
            /\ lostHits' = [r \in RuleId |-> lostHits[r] + HitsOf(w, r)]
        BY <2>2 DEF BumpFails
      <3>2. ASSUME NEW r \in RuleId, rule[r].state = "new" PROVE HitsOf(w, r) = 0
        <4>1. HidUnder(w, r) = {}
          <5> SUFFICES ASSUME NEW id \in saver[w].hid PROVE row[id].rule # r
            BY DEF HidUnder
          <5>1. id \in Drawn
            BY <1>0 DEF HidersApart
          <5> QED
            BY <1>0, <3>2, <5>1, Fields DEF RulesStand
        <4> QED
          BY <4>1, HitsAre, FS_EmptySet
      <3>3. ASSUME NEW r \in RuleId
            PROVE  /\ lostHits'[r] \in Nat
                   /\ rule'[r].hits + lostHits'[r]
                        = rule[r].hits + lostHits[r] + HitsOf(w, r)
        BY <2>0, <3>1
      <3>4. ASSUME NEW r \in RuleId, rule[r].state = "new" PROVE lostHits'[r] = 0
        BY <1>0, <3>1, <3>2, <3>4 DEF RulesStand
      <3> QED
        BY <1>0, <3>1, <3>3, <3>4 DEF TypeOK
    <2> QED
      BY <2>1, <2>2
  <1>4. TypeOK'
    BY <1>0, <1>1, <1>2, <1>3 DEF TypeOK
  <1>5. Drawn' = Drawn /\ Drawn \subseteq AlertId
    BY <1>1 DEF Drawn
  <1>6. RulesStand'
    <2>1. \A id \in Drawn : row[id].rule # NoRule => row[id].rule \in RuleId
      BY <1>0, <1>5, Fields
    <2>2. \A v \in Saver : saver'[v].rules = saver[v].rules /\ saver[v].rules \subseteq RuleId
      BY <1>0, <1>2, Fields
    <2> QED
      BY <1>0, <1>1, <1>3, <1>5, <2>1, <2>2 DEF RulesStand
  <1>7. \A v \in Saver : saver'[v].hid = saver[v].hid
    BY <1>2
  <1>8. HidersApart' /\ RowsSaved' /\ HidingIsAnnounced' /\ FalsePositivesTrain'
    <2>1. HidersApart'
      BY <1>0, <1>2, <1>5, <1>7 DEF HidersApart
    <2>2. RowsSaved' /\ HidingIsAnnounced' /\ FalsePositivesTrain'
      BY <1>0, <1>1, <1>5, <1>7 DEF RowsSaved, HidingIsAnnounced, FalsePositivesTrain
    <2> QED
      BY <2>1, <2>2
  <1>9. HitsAccounted'
    BY <1>0, <1>1, <1>2, <1>3, HitsCounted
  <1>10. BadgeCountsArrivals'
    BY <1>0, <1>1, BadgeStays
  <1> QED
    BY <1>4, <1>6, <1>8, <1>9, <1>10 DEF TriageInv

\* The severe ones are announced, or the worker dies.
LEMMA EndKeeps ==
  ASSUME TriageInv, NEW w \in Saver, Announce(w) \/ Crash(w)
  PROVE  TriageInv'
  <1>0. /\ TypeOK /\ RulesStand /\ HidersApart /\ RowsSaved /\ HitsAccounted
        /\ HidingIsAnnounced /\ FalsePositivesTrain /\ BadgeCountsArrivals
    BY DEF TriageInv
  <1>1. /\ saver' = [saver EXCEPT ![w] =
                        [pc |-> "idle", rules |-> {}, keys |-> {}, hid |-> {}]]
        /\ UNCHANGED <<rule, signature, row, nextAlert, scan, analyst, untrained, vetted>>
    BY DEF Announce, Crash, NotSaving
  <1>2. /\ \A v \in Saver : v # w => saver'[v] = saver[v]
        /\ saver'[w] = [pc |-> "idle", rules |-> {}, keys |-> {}, hid |-> {}]
    BY <1>0, <1>1 DEF TypeOK
  <1>3. saver' \in [Saver -> [pc : SaverPc, rules : SUBSET RuleId,
                              keys : SUBSET Keys, hid : SUBSET AlertId]]
    BY <1>0, <1>1 DEF TypeOK, SaverPc
  <1>4. Drawn' = Drawn /\ Drawn \subseteq AlertId
    BY <1>1 DEF Drawn
  <1>5. /\ announced \subseteq announced' /\ crashed \subseteq crashed'
        /\ announced' \cup crashed' \subseteq AlertId
        /\ \A id \in saver[w].hid :
              row[id].alert.severe => id \in announced' \cup crashed'
    BY <1>0, Fields DEF Announce, Crash, TypeOK
  <1>6. lostHits' \in [RuleId -> Nat] /\ HitsAccounted'
        /\ \A r \in RuleId : rule[r].state = "new" => lostHits'[r] = 0
    <2>0. \A r \in RuleId : HitsOf(w, r) \in Nat /\ lostHits[r] \in Nat
                            /\ rule[r].hits \in Nat
      BY <1>0, HitsTyped, Fields
    <2>1. CASE Crash(w) /\ saver[w].pc = "bump"
      <3>1. lostHits' = [r \in RuleId |-> lostHits[r] + HitsOf(w, r)]
        BY <2>1 DEF Crash
      <3>2. ASSUME NEW r \in RuleId
            PROVE  /\ lostHits'[r] \in Nat
                   /\ rule'[r].hits + lostHits'[r]
                        = rule[r].hits + lostHits[r] + HitsOf(w, r)
        BY <1>1, <2>0, <3>1
      <3>3. ASSUME NEW r \in RuleId, rule[r].state = "new" PROVE lostHits'[r] = 0
        <4>1. HidUnder(w, r) = {}
          <5> SUFFICES ASSUME NEW id \in saver[w].hid PROVE row[id].rule # r
            BY DEF HidUnder
          <5>1. id \in Drawn
            BY <1>0 DEF HidersApart
          <5> QED
            BY <1>0, <3>3, <5>1, Fields DEF RulesStand
        <4>2. HitsOf(w, r) = 0
          BY <4>1, HitsAre, FS_EmptySet
        <4> QED
          BY <1>0, <3>1, <3>3, <4>2 DEF RulesStand
      <3>4. saver'[w].pc # "bump"
        BY <1>2
      <3>5. HitsAccounted'
        BY <1>0, <1>1, <1>2, <2>1, <3>2, <3>4, HitsCounted
      <3> QED
        BY <3>1, <3>2, <3>3, <3>5
    <2>2. CASE ~(Crash(w) /\ saver[w].pc = "bump")
      <3>1. lostHits' = lostHits
        <4>1. CASE Announce(w)
          BY <4>1 DEF Announce
        <4>2. CASE Crash(w)
          BY <1>0, <2>2, <4>2 DEF Crash, TypeOK
        <4> QED
          BY <4>1, <4>2
      <3>2. saver[w].pc # "bump"
        BY <2>2 DEF Announce
      <3>3. \A id \in Drawn : Uncounted(id)' <=> Uncounted(id)
        BY <1>2, <3>2 DEF Uncounted
      <3>4. HitsAccounted'
        BY <1>0, <1>1, <3>1, <3>3, HitsStay
      <3> QED
        BY <1>0, <3>1, <3>4 DEF TypeOK, RulesStand
    <2> QED
      BY <2>1, <2>2
  <1>7. TypeOK'
    BY <1>0, <1>1, <1>3, <1>5, <1>6 DEF TypeOK
  <1>8. RulesStand'
    BY <1>0, <1>1, <1>2, <1>4, <1>6 DEF RulesStand
  <1>9. HidersApart'
    BY <1>0, <1>2, <1>4 DEF HidersApart
  <1>10. HidingIsAnnounced'
    <2> SUFFICES ASSUME NEW id \in Drawn, row[id].rule # NoRule, row[id].alert.severe
                 PROVE  id \in announced' \cup crashed' \/ \E v \in Saver : id \in saver'[v].hid
      BY <1>1, <1>4 DEF HidingIsAnnounced
    <2>1. id \in announced \cup crashed \/ \E v \in Saver : id \in saver[v].hid
      BY <1>0 DEF HidingIsAnnounced
    <2> QED
      BY <1>2, <1>5, <2>1
  <1>11. RowsSaved' /\ FalsePositivesTrain'
    BY <1>0, <1>1, <1>4 DEF RowsSaved, FalsePositivesTrain
  <1>12. BadgeCountsArrivals'
    BY <1>0, <1>1, BadgeStays
  <1> QED
    BY <1>6, <1>7, <1>8, <1>9, <1>10, <1>11, <1>12 DEF TriageInv

\* How a save_scan files an alert: under a rule it read that matches, or under none.
LEMMA FiledFacts ==
  ASSUME TypeOK, NEW w \in Saver, NEW s \in ScanId, NEW a \in Alert,
         NEW f \in Filed(w, s, a)
  PROVE  /\ f \in Row /\ f.scan = s /\ f.arrived = f.status
         /\ f.status \in {"sem_risco", "analisar"}
         /\ f.rule # NoRule => f.rule \in saver[w].rules
                               /\ Matches(f.alert, rule[f.rule].spec)
  <1>1. ASSUME NEW r \in RuleId \cup {NoRule}, NEW st \in {"sem_risco", "analisar"},
               f = FiledAs(s, a, st, r)
        PROVE  /\ f \in Row /\ f.scan = s /\ f.arrived = f.status /\ f.alert = a
               /\ f.status \in {"sem_risco", "analisar"} /\ f.rule = r
    BY <1>1 DEF FiledAs, Row, Triage
  <1>2. CASE Hiding(w, a) # {}
    <2>1. PICK r \in Hiding(w, a) : f = FiledAs(s, a, "sem_risco", r)
      BY <1>2 DEF Filed
    <2>2. r \in saver[w].rules /\ Matches(a, rule[r].spec) /\ r \in RuleId
      BY Fields DEF Hiding
    <2> QED
      BY <1>1, <2>1, <2>2
  <1>3. CASE Hiding(w, a) = {}
    <2>1. PICK st \in {"sem_risco", "analisar"} : f = FiledAs(s, a, st, NoRule)
      BY <1>3 DEF Filed
    <2> QED
      BY <1>1, <2>1
  <1> QED
    BY <1>2, <1>3

\* The rows, the badge and what was hid are committed together.
LEMMA CommitKeeps ==
  ASSUME TriageInv, NEW w \in Saver, NEW s \in ScanId,
         NEW found \in SeqOf(Alert, MaxFound), Commit(w, s, found)
  PROVE  TriageInv'
  <1>0. /\ TypeOK /\ RulesStand /\ HidersApart /\ RowsSaved /\ HitsAccounted
        /\ HidingIsAnnounced /\ FalsePositivesTrain /\ BadgeCountsArrivals
    BY DEF TriageInv
  <1> DEFINE n == Len(found)
             ids == nextAlert..(nextAlert + n - 1)
  <1>1. /\ saver[w].pc = "signatures"
        /\ ~scan[s].saved
        /\ ids \subseteq AlertId
        /\ nextAlert' = nextAlert + n
        /\ UNCHANGED <<rule, signature, analyst, lostHits, untrained, announced,
                       crashed, vetted>>
    BY DEF Commit
  <1>2. PICK filed \in [ids -> UNION {Filed(w, s, found[id - nextAlert + 1]) : id \in ids}] :
            /\ \A id \in ids : filed[id] \in Filed(w, s, found[id - nextAlert + 1])
            /\ row' = [id \in AlertId |-> IF id \in ids THEN filed[id] ELSE row[id]]
            /\ saver' = [saver EXCEPT ![w] =
                   [NotSaving EXCEPT !.pc = "bump", !.hid =
                        {id \in ids : filed[id].rule # NoRule}]]
            /\ scan' = [scan EXCEPT ![s] =
                   [saved |-> TRUE,
                    count |-> Cardinality({id \in ids : filed[id].status = "analisar"})]]
    BY Zenon DEF Commit, Quantify
  <1>3. /\ n \in Nat /\ \A i \in 1..n : found[i] \in Alert
    <2>1. PICK m \in 0..MaxFound : found \in [1..m -> Alert]
      BY DEF SeqOf
    <2>2. m \in Nat
      BY BoundsAssumption
    <2>3. found \in Seq(Alert) /\ Len(found) = m
      BY <2>1, <2>2
    <2> QED
      BY <2>1, <2>2, <2>3
  <1> HIDE DEF n
  <1>4. nextAlert \in Nat \ {0}
    BY <1>0, Fields
  <1>5. \A id \in ids : /\ filed[id] \in Row /\ filed[id].scan = s
                        /\ filed[id].arrived = filed[id].status
                        /\ filed[id].status \in {"sem_risco", "analisar"}
                        /\ filed[id].rule # NoRule =>
                              /\ filed[id].rule \in saver[w].rules
                              /\ Matches(filed[id].alert, rule[filed[id].rule].spec)
    <2>1. \A id \in ids : id - nextAlert + 1 \in 1..n
      BY <1>3, <1>4
    <2>2. \A id \in ids : found[id - nextAlert + 1] \in Alert
      BY <1>3, <2>1
    <2> QED
      BY <1>0, <1>2, <2>2, FiledFacts
  <1>6. /\ Drawn' = Drawn \cup ids /\ Drawn \cap ids = {} /\ Drawn \subseteq AlertId
        /\ nextAlert' \in 1..(MaxAlerts + 1)
    <2>1. ids \cap Drawn = {} /\ Drawn \subseteq AlertId
      BY <1>3, <1>4 DEF Drawn
    <2>2. \A id \in AlertId : id < nextAlert' <=> id < nextAlert \/ id \in ids
      BY <1>1, <1>3, <1>4, BoundsAssumption DEF AlertId
    <2>3. Drawn' = Drawn \cup ids
      BY <1>1, <2>2 DEF Drawn
    <2>4. nextAlert' \in 1..(MaxAlerts + 1)
      <3>1. CASE n = 0
        BY <1>0, <1>1, <1>4, <3>1 DEF TypeOK
      <3>2. CASE n # 0
        <4>1. nextAlert + n - 1 \in ids
          BY <1>3, <1>4, <3>2
        <4>2. nextAlert + n - 1 \in 1..MaxAlerts
          BY <1>1, <4>1 DEF AlertId
        <4> QED
          BY <1>1, <1>3, <1>4, <4>2, BoundsAssumption
      <3> QED
        BY <3>1, <3>2
    <2> QED
      BY <2>1, <2>3, <2>4
  <1> HIDE DEF ids
  <1> DEFINE hid == {id \in ids : filed[id].rule # NoRule}
             seen == {id \in ids : filed[id].status = "analisar"}
  <1>7. /\ \A id \in ids : row'[id] = filed[id]
        /\ \A id \in Drawn : row'[id] = row[id]
        /\ row' \in [AlertId -> Row]
    BY <1>0, <1>1, <1>2, <1>5, <1>6 DEF TypeOK
  <1>8. /\ \A v \in Saver : v # w => saver'[v] = saver[v]
        /\ saver'[w].pc = "bump" /\ saver'[w].hid = hid /\ saver'[w].rules = {}
        /\ saver' \in [Saver -> [pc : SaverPc, rules : SUBSET RuleId,
                                 keys : SUBSET Keys, hid : SUBSET AlertId]]
        /\ saver[w].hid = {}
    <2>1. saver' = [saver EXCEPT ![w] = [NotSaving EXCEPT !.pc = "bump", !.hid = hid]]
      BY <1>2
    <2>2. hid \subseteq AlertId
      BY <1>1
    <2> HIDE DEF hid
    <2>3. PICK sv : sv = [NotSaving EXCEPT !.pc = "bump", !.hid = hid]
      OBVIOUS
    <2>4. /\ sv \in [pc : SaverPc, rules : SUBSET RuleId, keys : SUBSET Keys,
                     hid : SUBSET AlertId]
          /\ sv.pc = "bump" /\ sv.hid = hid /\ sv.rules = {}
      BY <2>2, <2>3 DEF SaverPc, NotSaving
    <2>5. saver' = [saver EXCEPT ![w] = sv]
      BY <2>1, <2>3
    <2>6. saver[w].hid = {}
      BY <1>0, <1>1 DEF HidersApart
    <2> QED
      BY <1>0, <2>4, <2>5, <2>6 DEF TypeOK
  <1>9. /\ scan' \in [ScanId -> [saved : BOOLEAN, count : Nat]]
        /\ scan'[s].saved /\ scan'[s].count = Cardinality(seen)
        /\ \A t \in ScanId : t # s => scan'[t] = scan[t]
    <2>1. scan' = [scan EXCEPT ![s] = [saved |-> TRUE, count |-> Cardinality(seen)]]
      BY <1>2
    <2>2. Cardinality(seen) \in Nat
      BY <1>1, RowsFinite
    <2> HIDE DEF seen
    <2> QED
      BY <1>0, <2>1, <2>2 DEF TypeOK
  <1>10. TypeOK'
    BY <1>0, <1>1, <1>6, <1>7, <1>8, <1>9 DEF TypeOK
  <1>11. RulesStand'
    <2>1. ASSUME NEW id \in ids, filed[id].rule # NoRule
          PROVE  rule[filed[id].rule].state # "new"
      BY <1>0, <1>5, <2>1 DEF RulesStand
    <2>2. \A id \in Drawn' : row'[id].rule # NoRule =>
              /\ rule[row'[id].rule].state # "new"
              /\ Matches(row'[id].alert, rule[row'[id].rule].spec)
      BY <1>0, <1>5, <1>6, <1>7, <2>1 DEF RulesStand
    <2>3. \A v \in Saver : \A r \in saver'[v].rules : rule[r].state # "new"
      BY <1>0, <1>8 DEF RulesStand
    <2> QED
      BY <1>0, <1>1, <2>2, <2>3 DEF RulesStand
  <1>12. HidersApart'
    <2>1. hid \subseteq ids
      OBVIOUS
    <2> HIDE DEF hid
    <2>2. \A v \in Saver : v # w => saver'[v].hid \subseteq Drawn
      BY <1>0, <1>8 DEF HidersApart
    <2>3. \A u, v \in Saver : u # v => saver'[u].hid \cap saver'[v].hid = {}
      <3> SUFFICES ASSUME NEW u \in Saver, NEW v \in Saver, u # v
                   PROVE  saver'[u].hid \cap saver'[v].hid = {}
        OBVIOUS
      <3>1. CASE u = w
        BY <1>6, <1>8, <2>1, <2>2, <3>1
      <3>2. CASE v = w
        BY <1>6, <1>8, <2>1, <2>2, <3>2
      <3>3. CASE u # w /\ v # w
        BY <1>0, <1>8, <3>3 DEF HidersApart
      <3> QED
        BY <3>1, <3>2, <3>3
    <2>4. \A v \in Saver : saver'[v].hid \subseteq Drawn'
      BY <1>6, <1>8, <2>1, <2>2
    <2>5. \A v \in Saver : saver'[v].pc \in {"idle", "rules", "signatures"}
              => saver'[v].hid = {}
      BY <1>0, <1>8 DEF HidersApart
    <2> QED
      BY <2>3, <2>4, <2>5 DEF HidersApart
  <1>13. RowsSaved'
    BY <1>0, <1>5, <1>6, <1>7, <1>9 DEF RowsSaved
  <1>14. HitsAccounted'
    <2> SUFFICES ASSUME NEW r \in RuleId, rule'[r].state \in {"on", "off"}
                 PROVE  rule'[r].hits + lostHits'[r]
                          = Cardinality({id \in Drawn' : row'[id].rule = r
                                                         /\ ~Uncounted(id)'})
      BY DEF HitsAccounted
    <2>1. r # NoRule
      BY <1>0, Fields
    <2>2. \A id \in ids : row'[id].rule = r => Uncounted(id)'
      BY <1>7, <1>8, <2>1 DEF Uncounted
    <2>3. \A id \in Drawn : Uncounted(id)' <=> Uncounted(id)
      BY <1>1, <1>6, <1>8 DEF Uncounted
    <2>4. {id \in Drawn' : row'[id].rule = r /\ ~Uncounted(id)'}
            = {id \in Drawn : row[id].rule = r /\ ~Uncounted(id)}
      BY <1>6, <1>7, <2>2, <2>3
    <2> QED
      BY <1>0, <1>1, <2>4 DEF HitsAccounted
  <1>15. HidingIsAnnounced'
    <2> SUFFICES ASSUME NEW id \in Drawn', row'[id].rule # NoRule, row'[id].alert.severe
                 PROVE  id \in announced' \cup crashed'
                        \/ \E v \in Saver : id \in saver'[v].hid
      BY DEF HidingIsAnnounced
    <2>1. CASE id \in ids
      BY <1>7, <1>8, <2>1
    <2>2. CASE id \in Drawn
      <3>1. id \in announced \cup crashed \/ \E v \in Saver : id \in saver[v].hid
        BY <1>0, <1>7, <2>2 DEF HidingIsAnnounced
      <3> QED
        BY <1>1, <1>8, <3>1
    <2> QED
      BY <1>6, <2>1, <2>2
  <1>16. FalsePositivesTrain'
    BY <1>0, <1>1, <1>5, <1>6, <1>7 DEF FalsePositivesTrain
  <1>17. BadgeCountsArrivals'
    <2> SUFFICES ASSUME NEW t \in ScanId, scan'[t].saved
                 PROVE  scan'[t].count = Cardinality(Arrived(t)')
      BY BadgeIsNext
    <2>1. CASE t = s
      <3>1. \A id \in Drawn : row[id].scan # s
        BY <1>0, <1>1 DEF RowsSaved
      <3>2. Arrived(t)' = seen
        BY <1>5, <1>6, <1>7, <2>1, <3>1 DEF Arrived
      <3> QED
        BY <1>9, <2>1, <3>2
    <2>2. CASE t # s
      <3>1. Arrived(t)' = Arrived(t)
        BY <1>5, <1>6, <1>7, <2>2 DEF Arrived
      <3> QED
        BY <1>0, <1>9, <2>2, <3>1, BadgeIs
    <2> QED
      BY <2>1, <2>2
  <1> QED
    BY <1>10, <1>11, <1>12, <1>13, <1>14, <1>15, <1>16, <1>17 DEF TriageInv

\* An enrichment appends an alert to a saved scan and bumps its badge.
LEMMA AppendKeeps ==
  ASSUME TriageInv, NEW s \in ScanId, NEW a \in Alert, AppendAlert(s, a)
  PROVE  TriageInv'
  <1>0. /\ TypeOK /\ RulesStand /\ HidersApart /\ RowsSaved /\ HitsAccounted
        /\ HidingIsAnnounced /\ FalsePositivesTrain /\ BadgeCountsArrivals
    BY DEF TriageInv
  <1> DEFINE new == FiledAs(s, a, "analisar", NoRule)
  <1>1. /\ scan[s].saved
        /\ nextAlert \in AlertId
        /\ row' = [row EXCEPT ![nextAlert] = new]
        /\ scan' = [scan EXCEPT ![s].count = @ + 1]
        /\ nextAlert' = nextAlert + 1
        /\ UNCHANGED <<rule, signature, saver, analyst, lostHits, untrained, announced,
                       crashed, vetted>>
    BY DEF AppendAlert
  <1>2. /\ new \in Row /\ new.scan = s /\ new.rule = NoRule /\ new.status = "analisar"
        /\ new.arrived = "analisar"
    BY DEF FiledAs, Row, Triage
  <1> HIDE DEF new
  <1>3. /\ Drawn' = Drawn \cup {nextAlert} /\ nextAlert \notin Drawn /\ Drawn \subseteq AlertId
        /\ nextAlert' \in 1..(MaxAlerts + 1)
    BY <1>1, BoundsAssumption DEF Drawn, AlertId
  <1>4. /\ row'[nextAlert] = new /\ \A id \in Drawn : row'[id] = row[id]
        /\ row' \in [AlertId -> Row]
    BY <1>0, <1>1, <1>2, <1>3 DEF TypeOK
  <1>5. /\ scan' \in [ScanId -> [saved : BOOLEAN, count : Nat]]
        /\ scan'[s].count = scan[s].count + 1
        /\ \A t \in ScanId : scan'[t].saved = scan[t].saved
        /\ \A t \in ScanId : t # s => scan'[t] = scan[t]
    BY <1>0, <1>1 DEF TypeOK
  <1>6. TypeOK'
    BY <1>0, <1>1, <1>3, <1>4, <1>5 DEF TypeOK
  <1>7. RulesStand'
    BY <1>0, <1>1, <1>2, <1>3, <1>4 DEF RulesStand
  <1>8. HidersApart' /\ RowsSaved'
    <2>1. HidersApart'
      BY <1>0, <1>1, <1>3 DEF HidersApart
    <2>2. RowsSaved'
      BY <1>0, <1>1, <1>2, <1>3, <1>4, <1>5 DEF RowsSaved
    <2> QED
      BY <2>1, <2>2
  <1>9. HitsAccounted'
    <2> SUFFICES ASSUME NEW r \in RuleId, rule'[r].state \in {"on", "off"}
                 PROVE  rule'[r].hits + lostHits'[r]
                          = Cardinality({id \in Drawn' : row'[id].rule = r
                                                         /\ ~Uncounted(id)'})
      BY DEF HitsAccounted
    <2>1. r # NoRule
      BY <1>0, Fields
    <2>2. \A id \in Drawn : Uncounted(id)' <=> Uncounted(id)
      BY <1>1 DEF Uncounted
    <2>3. {id \in Drawn' : row'[id].rule = r /\ ~Uncounted(id)'}
            = {id \in Drawn : row[id].rule = r /\ ~Uncounted(id)}
      BY <1>2, <1>3, <1>4, <2>1, <2>2
    <2> QED
      BY <1>0, <1>1, <2>3 DEF HitsAccounted
  <1>10. HidingIsAnnounced' /\ FalsePositivesTrain'
    BY <1>0, <1>1, <1>2, <1>3, <1>4 DEF HidingIsAnnounced, FalsePositivesTrain
  <1>11. BadgeCountsArrivals'
    <2> SUFFICES ASSUME NEW t \in ScanId, scan'[t].saved
                 PROVE  scan'[t].count = Cardinality(Arrived(t)')
      BY BadgeIsNext
    <2>0. scan[t].saved /\ scan[t].count = Cardinality(Arrived(t))
      BY <1>0, <1>5, BadgeIs
    <2>1. CASE t = s
      <3>1. Arrived(t)' = Arrived(t) \cup {nextAlert} /\ nextAlert \notin Arrived(t)
        BY <1>2, <1>3, <1>4, <2>1 DEF Arrived
      <3>2. Arrived(t) \in SUBSET AlertId
        BY <1>3 DEF Arrived
      <3>3. IsFiniteSet(Arrived(t))
        BY <3>2, RowsFinite
      <3>4. Cardinality(Arrived(t)') = Cardinality(Arrived(t)) + 1
        BY <3>1, <3>3, FS_AddElement
      <3> QED
        BY <1>5, <2>0, <2>1, <3>4
    <2>2. CASE t # s
      <3>1. Arrived(t)' = Arrived(t)
        BY <1>2, <1>3, <1>4, <2>2 DEF Arrived
      <3> QED
        BY <1>5, <2>0, <2>2, <3>1
    <2> QED
      BY <2>1, <2>2
  <1> QED
    BY <1>6, <1>7, <1>8, <1>9, <1>10, <1>11 DEF TriageInv

(***************************************************************************)
(* Triage.                                                                 *)
(***************************************************************************)

\* An analyst triages any number of alerts: only their status changes, and a
\* false positive is queued for learning.
LEMMA TriageKeeps ==
  ASSUME TriageInv, NEW t \in Analyst, NEW ids \in SUBSET AlertId, NEW st \in Verdict,
         TriageAlerts(t, ids, st)
  PROVE  TriageInv'
  <1>0. /\ TypeOK /\ RulesStand /\ HidersApart /\ RowsSaved /\ HitsAccounted
        /\ HidingIsAnnounced /\ FalsePositivesTrain /\ BadgeCountsArrivals
    BY DEF TriageInv
  <1>1. /\ analyst[t] = {}
        /\ \A id \in ids : id < nextAlert
        /\ row' = [id \in AlertId |-> IF id \in ids THEN [row[id] EXCEPT !.status = st]
                                      ELSE row[id]]
        /\ vetted' = IF st = "falso_positivo"
                     THEN vetted \cup {Subject(row[id].alert) : id \in ids}
                     ELSE vetted
        /\ UNCHANGED <<rule, signature, nextAlert, scan, saver, lostHits, untrained,
                       announced, crashed>>
    BY DEF TriageAlerts, NotTriaging
  <1> DEFINE keys == {Key(row[id].alert) : id \in ids}
             learn == IF st = "falso_positivo" THEN keys ELSE {}
  <1>2. analyst' = [analyst EXCEPT ![t] = learn]
    BY DEF TriageAlerts
  <1>3. keys \subseteq Keys
    BY <1>0, Fields DEF Keys
  <1>4. /\ \A id \in ids : Key(row[id].alert) \in keys
        /\ st = "falso_positivo" => learn = keys
        /\ learn \subseteq Keys
    BY <1>3
  <1> HIDE DEF keys, learn
  <1>5. st \in Triage
    BY VerdictAssumption DEF Triage
  <1>6. ASSUME NEW id \in AlertId
        PROVE  /\ row'[id] \in Row
               /\ row'[id].scan = row[id].scan /\ row'[id].alert = row[id].alert
               /\ row'[id].arrived = row[id].arrived /\ row'[id].rule = row[id].rule
               /\ id \in ids => row'[id].status = st
               /\ id \notin ids => row'[id].status = row[id].status
    <2>1. row[id] \in Row
      BY <1>0, Fields
    <2> QED
      BY <1>1, <1>5, <2>1 DEF Row
  <1>7. /\ analyst' \in [Analyst -> SUBSET Keys]
        /\ analyst'[t] = learn
        /\ DOMAIN analyst = Analyst /\ DOMAIN analyst' = Analyst
        /\ \A u \in Analyst : analyst[u] \subseteq analyst'[u]
    BY <1>0, <1>1, <1>2, <1>4 DEF TypeOK
  <1>8. vetted' \subseteq {Subject(a) : a \in Alert}
    BY <1>0, <1>1, Fields DEF TypeOK
  <1>9. TypeOK'
    <2>1. row' \in [AlertId -> Row]
      BY <1>1, <1>6
    <2> QED
      BY <1>0, <1>1, <1>7, <1>8, <2>1 DEF TypeOK
  <1>10. Drawn' = Drawn /\ Drawn \subseteq AlertId
    BY <1>1 DEF Drawn
  <1>11. RulesStand'
    BY <1>0, <1>1, <1>6, <1>10 DEF RulesStand
  <1>12. HidersApart' /\ RowsSaved' /\ HidingIsAnnounced'
    <2>1. HidersApart'
      BY <1>0, <1>1, <1>10 DEF HidersApart
    <2>2. RowsSaved' /\ HidingIsAnnounced'
      BY <1>0, <1>1, <1>6, <1>10 DEF RowsSaved, HidingIsAnnounced
    <2> QED
      BY <2>1, <2>2
  <1>13. HitsAccounted'
    <2>1. \A id \in Drawn : Uncounted(id)' <=> Uncounted(id)
      BY <1>1 DEF Uncounted
    <2> QED
      BY <1>0, <1>1, <1>6, <1>10, <2>1, HitsStay
  <1>14. FalsePositivesTrain'
    <2>0. UNION Range(analyst) \subseteq UNION Range(analyst')
          /\ learn \subseteq UNION Range(analyst')
      BY <1>7 DEF Range
    <2> SUFFICES ASSUME NEW id \in Drawn', row'[id].status = "falso_positivo"
                 PROVE  Key(row'[id].alert) \in
                            signature' \cup untrained' \cup UNION Range(analyst')
      BY DEF FalsePositivesTrain
    <2>1. CASE id \in ids
      <3>1. Key(row'[id].alert) = Key(row[id].alert) /\ st = "falso_positivo"
        BY <1>6, <2>1
      <3> QED
        BY <1>4, <2>0, <2>1, <3>1
    <2>2. CASE id \notin ids
      <3>1. Key(row'[id].alert) = Key(row[id].alert) /\ row[id].status = "falso_positivo"
        BY <1>6, <1>10, <2>2
      <3>2. Key(row[id].alert) \in signature \cup untrained \cup UNION Range(analyst)
        BY <1>0, <1>10, <3>1 DEF FalsePositivesTrain
      <3> QED
        BY <1>1, <2>0, <3>1, <3>2
    <2> QED
      BY <2>1, <2>2
  <1>15. BadgeCountsArrivals'
    BY <1>0, <1>1, <1>6, <1>10, BadgeStays
  <1> QED
    BY <1>9, <1>11, <1>12, <1>13, <1>14, <1>15 DEF TriageInv

(***************************************************************************)
(* The invariant.                                                          *)
(***************************************************************************)

\* It holds at the start.
LEMMA InitTriageInv == Init => TriageInv
  <1> SUFFICES ASSUME Init PROVE TriageInv
    OBVIOUS
  <1>0. MaxRules \in Nat /\ MaxAlerts \in Nat /\ MaxScans \in Nat
    BY BoundsAssumption
  <1>1. Drawn = {}
    BY <1>0 DEF Init, Drawn, AlertId
  <1>2. TypeOK
    <2>1. (CHOOSE a \in Alert : TRUE) \in Alert /\ (CHOOSE q \in RuleSpec : TRUE) \in RuleSpec
      BY SomeAssumption
    <2>2. NoRow \in Row
      BY <2>1 DEF NoRow, Row, Triage
    <2>3. [state |-> "new", hits |-> 0, spec |-> CHOOSE q \in RuleSpec : TRUE] \in Rule
      BY <2>1 DEF Rule
    <2>4. rule \in [RuleId -> Rule] /\ row \in [AlertId -> Row]
      BY <2>2, <2>3 DEF Init
    <2>5. saver \in [Saver -> [pc : SaverPc, rules : SUBSET RuleId,
                              keys : SUBSET Keys, hid : SUBSET AlertId]]
      BY DEF Init, NotSaving, SaverPc
    <2>6. analyst \in [Analyst -> SUBSET Keys] /\ lostHits \in [RuleId -> Nat]
          /\ scan \in [ScanId -> [saved : BOOLEAN, count : Nat]]
      BY DEF Init, NotTriaging
    <2>7. nextAlert \in 1..(MaxAlerts + 1)
      BY <1>0 DEF Init
    <2>8. signature = {} /\ untrained = {} /\ announced = {} /\ crashed = {} /\ vetted = {}
      BY DEF Init
    <2> QED
      BY <2>4, <2>5, <2>6, <2>7, <2>8 DEF TypeOK
  <1>3. /\ \A w \in Saver : saver[w].hid = {} /\ saver[w].rules = {}
        /\ \A r \in RuleId : rule[r].state = "new" /\ lostHits[r] = 0
        /\ \A s \in ScanId : ~scan[s].saved
    BY DEF Init, NotSaving
  <1>4. RulesStand /\ HidersApart /\ RowsSaved /\ HitsAccounted
    BY <1>1, <1>3 DEF RulesStand, HidersApart, RowsSaved, HitsAccounted
  <1>5. HidingIsAnnounced /\ FalsePositivesTrain /\ BadgeCountsArrivals
    BY <1>1, <1>3 DEF HidingIsAnnounced, FalsePositivesTrain, BadgeCountsArrivals
  <1> QED
    BY <1>2, <1>4, <1>5 DEF TriageInv

\* Every step keeps it.
LEMMA NextTriageInv == TriageInv /\ [Next]_vars => TriageInv'
  <1> SUFFICES ASSUME TriageInv, [Next]_vars PROVE TriageInv'
    OBVIOUS
  <1>1. CASE \E r \in RuleId : \/ \E spec \in RuleSpec : CreateRule(r, spec)
                               \/ \E st \in {"on", "off", "deleted"} : SetRule(r, st)
    BY <1>1, RuleKeeps
  <1>2. CASE \E w \in Saver : Save(w)
    <2>1. PICK w \in Saver : Save(w)
      BY <1>2
    <2>2. CASE \E s \in ScanId, found \in SeqOf(Alert, MaxFound) : Commit(w, s, found)
      BY <2>2, CommitKeeps
    <2>3. CASE ReadRules(w) \/ ReadSignatures(w)
      BY <2>3, ReadKeeps
    <2>4. CASE BumpHits(w) \/ BumpFails(w)
      BY <2>4, BumpKeeps
    <2>5. CASE Announce(w) \/ Crash(w)
      BY <2>5, EndKeeps
    <2> QED
      BY <2>1, <2>2, <2>3, <2>4, <2>5 DEF Save
  <1>3. CASE \E s \in ScanId, a \in Alert : AppendAlert(s, a)
    BY <1>3, AppendKeeps
  <1>4. CASE \E t \in Analyst, ids \in SUBSET AlertId, st \in Verdict :
                TriageAlerts(t, ids, st)
    BY <1>4, TriageKeeps
  <1>5. CASE \/ \E k \in Keys : Forget(k)
             \/ \E t \in Analyst, k \in Keys : Learn(t, k) \/ LearnFails(t, k)
    BY <1>5, SignatureKeeps
  <1>6. CASE UNCHANGED vars
    <2>1. UNCHANGED <<rule, signature, row, nextAlert, scan, saver, analyst, lostHits,
                      untrained, announced, crashed, vetted>>
      BY <1>6 DEF vars
    <2>2. /\ TypeOK /\ RulesStand /\ HidersApart /\ RowsSaved /\ HitsAccounted
          /\ HidingIsAnnounced /\ FalsePositivesTrain /\ BadgeCountsArrivals
      BY DEF TriageInv
    <2>3. Drawn' = Drawn /\ \A id \in Drawn : Uncounted(id)' <=> Uncounted(id)
      BY <2>1 DEF Drawn, Uncounted
    <2>4. TypeOK'
      BY <2>1, <2>2 DEF TypeOK
    <2>5. RulesStand' /\ HidersApart' /\ RowsSaved'
      BY <2>1, <2>2, <2>3 DEF RulesStand, HidersApart, RowsSaved
    <2>6. HidingIsAnnounced' /\ FalsePositivesTrain'
      BY <2>1, <2>2, <2>3 DEF HidingIsAnnounced, FalsePositivesTrain
    <2>7. HitsAccounted' /\ BadgeCountsArrivals'
      BY <2>1, <2>2, <2>3, HitsStay, BadgeStays
    <2> QED
      BY <2>4, <2>5, <2>6, <2>7 DEF TriageInv
  <1> QED
    BY <1>1, <1>2, <1>3, <1>4, <1>5, <1>6 DEF Next

(***************************************************************************)
(* The theorems.                                                           *)
(***************************************************************************)

\* However save_scan, the enrichments, the admins and the analysts interleave, fail
\* or die, the invariant holds.
THEOREM TriageInvariant == Spec => []TriageInv
  <1>1. TriageInv /\ [Next]_vars => TriageInv'
    BY NextTriageInv
  <1> QED
    BY <1>1, InitTriageInv, PTL DEF Spec

\* The tables, the counters and the requests keep their types.
THEOREM TypeCorrect == Spec => []TypeOK
  <1>1. TriageInv => TypeOK
    BY DEF TriageInv
  <1> QED
    BY <1>1, TriageInvariant, PTL

\* No alert is hidden by a rule that has nothing to do with its endpoints: what
\* create_suppression_rule requires and what _alert_matches_rule compares suffice,
\* whatever becomes of the rule between its being read and its being used.
THEOREM RulesHideTheirOwn == Spec => []SuppressionIsScoped
  <1>1. TriageInv => SuppressionIsScoped
    <2> SUFFICES ASSUME TriageInv, NEW id \in Drawn, row[id].rule # NoRule
                 PROVE  LET spec == rule[row[id].rule].spec
                            a == row[id].alert
                        IN  \/ spec.src \in a.src \/ a.src \cap spec.srcNet # {}
                            \/ spec.dst \in a.dst \/ a.dst \cap spec.dstNet # {}
      BY DEF SuppressionIsScoped
    <2>1. row[id].rule \in RuleId
      <3>1. id \in AlertId
        BY DEF Drawn
      <3> QED
        BY <3>1, Fields DEF TriageInv
    <2>2. PICK spec, a : spec = rule[row[id].rule].spec /\ a = row[id].alert
      OBVIOUS
    <2>3. Creatable(spec) /\ Matches(a, spec)
      BY <2>1, <2>2 DEF TriageInv, RulesStand
    <2>4. \/ spec.src \in a.src \/ a.src \cap spec.srcNet # {}
          \/ spec.dst \in a.dst \/ a.dst \cap spec.dstNet # {}
      BY <2>3 DEF Creatable, Matches, IpMatches
    <2> QED
      BY <2>2, <2>4
  <1> QED
    BY <1>1, TriageInvariant, PTL

\* hit_count is the number of alerts filed under the rule, those aside that a
\* save_scan has still to count or gave up on: concurrent saves and toggles cost
\* no hit and count none twice.
THEOREM NoHitIsLost == Spec => []HitsAccounted
  <1>1. TriageInv => HitsAccounted
    BY DEF TriageInv
  <1> QED
    BY <1>1, TriageInvariant, PTL

\* A severe alert that a rule hid is announced, or about to be, unless the worker
\* died in between.
THEOREM HiddenIsLoud == Spec => []HidingIsAnnounced
  <1>1. TriageInv => HidingIsAnnounced
    BY DEF TriageInv
  <1> QED
    BY <1>1, TriageInvariant, PTL

\* A false positive has trained the classifier, or its learning is under way, failed
\* or was undone: a batch with one failing INSERT trains on the rest.
THEOREM VerdictsTrain == Spec => []FalsePositivesTrain
  <1>1. TriageInv => FalsePositivesTrain
    BY DEF TriageInv
  <1> QED
    BY <1>1, TriageInvariant, PTL

\* scans.alert_count, said to track only alerts that still need attention, is off by
\* exactly what analysts closed and reopened since: no triage changes it.  Saves and
\* concurrent enrichments add no error of their own.
THEOREM BadgeIgnoresTriage == Spec => []BadgeOffByTriage
  <1>1. TriageInv => BadgeOffByTriage
    <2> SUFFICES ASSUME TriageInv, NEW s \in ScanId, scan[s].saved
                 PROVE  scan[s].count + Cardinality(Reopened(s))
                          = Cardinality(Awaiting(s)) + Cardinality(Closed(s))
      BY DEF BadgeOffByTriage
    <2> DEFINE Kept == Awaiting(s) \ Reopened(s)
    <2>1. scan[s].count = Cardinality(Arrived(s))
      BY BadgeIs DEF TriageInv
    <2>2. /\ Kept \in SUBSET AlertId /\ Closed(s) \in SUBSET AlertId
          /\ Reopened(s) \in SUBSET AlertId
      BY DEF Awaiting, Closed, Reopened, Drawn
    <2>3. Arrived(s) = Kept \cup Closed(s) /\ Kept \cap Closed(s) = {}
      BY DEF Arrived, Awaiting, Closed, Reopened
    <2>4. Awaiting(s) = Kept \cup Reopened(s) /\ Kept \cap Reopened(s) = {}
      BY DEF Reopened
    <2> HIDE DEF Kept
    <2>5. Cardinality(Arrived(s)) = Cardinality(Kept) + Cardinality(Closed(s))
      BY <2>2, <2>3, CountApart
    <2>6. Cardinality(Awaiting(s)) = Cardinality(Kept) + Cardinality(Reopened(s))
      BY <2>2, <2>4, CountApart
    <2>7. /\ Cardinality(Kept) \in Nat /\ Cardinality(Closed(s)) \in Nat
          /\ Cardinality(Reopened(s)) \in Nat
      BY <2>2, RowsFinite
    <2> QED
      BY <2>1, <2>5, <2>6, <2>7
  <1> QED
    BY <1>1, TriageInvariant, PTL
=============================================================================
