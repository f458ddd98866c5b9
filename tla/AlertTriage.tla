---------------------------- MODULE AlertTriage -----------------------------
(***************************************************************************)
(* What decides whether an alert still needs an analyst: the suppression   *)
(* rules and the learned false-positive signatures that save_scan applies, *)
(* the triage of single alerts and of batches, the alerts an enrichment    *)
(* appends later, and the counters kept beside them (scans.alert_count,    *)
(* suppression_rules.hit_count).                                           *)
(*                                                                         *)
(* An alert is [kind, src, dst, ip, about, severe]: `kind` its category    *)
(* and title, src and dst the endpoints of alert_schema, `ip` the address  *)
(* its row carries, `about` the host or artifact it reports.  A rule pins  *)
(* fields of it; NoIp and AnyNet are a NULL address and a NULL network.    *)
(***************************************************************************)
EXTENDS Integers, Sequences, FiniteSets, SequencesExt, FiniteSetsExt

CONSTANTS
    Ip, NoIp,
    Network,      \* the networks a rule may name, as sets of addresses
    BroadNetwork, \* those above the prefix floor
    Alert,        \* alerts the detectors emit
    RuleSpec,     \* suppression rules an admin submits
    MaxRules,     \* bound: suppression rules created
    MaxAlerts,    \* bound: alert rows inserted
    MaxScans,     \* bound: scans saved
    MaxFound,     \* bound: alerts of one save_scan
    Verdict,      \* what analysts triage an alert as
    Saver,        \* fast workers
    Analyst       \* web threads serving triage requests

ASSUME BoundsAssumption == {MaxRules, MaxAlerts, MaxScans, MaxFound} \subseteq Nat
ASSUME VerdictAssumption ==
    Verdict \subseteq {"analisar", "falso_positivo", "resolvido", "sem_risco"}
ASSUME IpAssumption == /\ NoIp \notin Ip
                       /\ Network \subseteq SUBSET Ip
                       /\ BroadNetwork \subseteq Network
ASSUME SomeAssumption == Alert # {} /\ RuleSpec # {}

RuleId == 1..MaxRules
AlertId == 1..MaxAlerts
ScanId == 1..MaxScans
AnyNet == {}
NoRule == 0
NoScan == 0

VARIABLES
    rule,      \* suppression_rules
    signature, \* fp_signatures: keys learned
    row,       \* the alerts table
    nextAlert, \* alerts_id_seq
    scan,      \* the scans table: saved?, alert_count
    saver,     \* each save_scan in progress
    analyst,   \* each triage request in progress
    lostHits,  \* history: hit counts given up, per rule
    untrained, \* history: keys whose learning failed or that were forgotten
    announced, \* history: alerts whose suppression was announced
    crashed,   \* history: alerts hidden by a save_scan that never finished
    vetted     \* history: what analysts ruled out, as kind and subject

vars == <<rule, signature, row, nextAlert, scan, saver, analyst, lostHits,
          untrained, announced, crashed, vetted>>

Triage == {"analisar", "falso_positivo", "resolvido", "sem_risco"}
Rule == [state : {"new", "on", "off", "deleted"}, spec : RuleSpec, hits : Nat]
Row == [scan : ScanId \cup {NoScan}, alert : Alert, status : Triage,
        arrived : Triage, rule : RuleId \cup {NoRule}]
NoRow == [scan |-> NoScan, alert |-> CHOOSE a \in Alert : TRUE,
          status |-> "analisar", arrived |-> "analisar", rule |-> NoRule]
SaverPc == {"idle", "rules", "signatures", "bump", "announce"}
Key(a) == <<a.kind, a.ip>>
Keys == {Key(a) : a \in Alert}
Subject(a) == <<a.kind, a.about>>

NotSaving == [pc |-> "idle", rules |-> {}, keys |-> {}, hid |-> {}]
NotTriaging == {}

Init ==
    /\ rule = [r \in RuleId |-> [state |-> "new", hits |-> 0,
                                 spec |-> CHOOSE s \in RuleSpec : TRUE]]
    /\ signature = {}
    /\ row = [a \in AlertId |-> NoRow]
    /\ nextAlert = 1
    /\ scan = [s \in ScanId |-> [saved |-> FALSE, count |-> 0]]
    /\ saver = [w \in Saver |-> NotSaving]
    /\ analyst = [t \in Analyst |-> NotTriaging]
    /\ lostHits = [r \in RuleId |-> 0]
    /\ untrained = {}
    /\ announced = {}
    /\ crashed = {}
    /\ vetted = {}

-----------------------------------------------------------------------------
(***************************************************************************)
(* _alert_matches_rule.  The fields a rule leaves NULL are wildcards.  A   *)
(* field it pins is never matched by an alert that lacks the endpoint.     *)
(***************************************************************************)
\* mutant: an alert without the endpoint is let through.
IpMatchesAbsent(ips, exact, net) ==
    /\ exact # NoIp /\ ips # {} => exact \in ips
    /\ net # AnyNet /\ ips # {} => ips \cap net # {}

IpMatches(ips, exact, net) ==
    /\ exact # NoIp => exact \in ips
    /\ net # AnyNet => ips \cap net # {}

Matches(a, spec) ==
    /\ spec.kinds # {} => a.kind \in spec.kinds
    /\ IpMatches(a.src, spec.src, spec.srcNet)
    /\ IpMatches(a.dst, spec.dst, spec.dstNet)

\* create_suppression_rule: at least one endpoint, no network above the floor.
Creatable(spec) ==
    /\ \/ spec.src # NoIp \/ spec.srcNet # AnyNet
       \/ spec.dst # NoIp \/ spec.dstNet # AnyNet
    /\ {spec.srcNet, spec.dstNet} \cap BroadNetwork = {}

CreateRule(r, spec) ==
    /\ rule[r].state = "new"
    /\ Creatable(spec)
    /\ \E st \in {"on", "off"} :
          rule' = [rule EXCEPT ![r] = [state |-> st, spec |-> spec, hits |-> 0]]
    /\ UNCHANGED <<signature, row, nextAlert, scan, saver, analyst, lostHits,
                   untrained, announced, crashed, vetted>>

SetRule(r, st) ==
    /\ rule[r].state \in {"on", "off"}
    /\ rule' = [rule EXCEPT ![r].state = st]
    /\ UNCHANGED <<signature, row, nextAlert, scan, saver, analyst, lostHits,
                   untrained, announced, crashed, vetted>>

-----------------------------------------------------------------------------
(***************************************************************************)
(* save_scan.  Rules and signatures are read by two statements of one      *)
(* transaction, each seeing what is committed when it starts.              *)
(***************************************************************************)
RulesOn == {r \in RuleId : rule[r].state = "on"}

ReadRules(w) ==
    /\ saver[w].pc = "idle"
    /\ saver' = [saver EXCEPT ![w] = [NotSaving EXCEPT !.pc = "rules",
                                                       !.rules = RulesOn]]
    /\ UNCHANGED <<rule, signature, row, nextAlert, scan, analyst, lostHits,
                   untrained, announced, crashed, vetted>>

ReadSignatures(w) ==
    /\ saver[w].pc = "rules"
    /\ saver' = [saver EXCEPT ![w] = [@ EXCEPT !.pc = "signatures",
                                               !.keys = signature]]
    /\ UNCHANGED <<rule, signature, row, nextAlert, scan, analyst, lostHits,
                   untrained, announced, crashed, vetted>>

\* The rules that could be the first match: the SELECT has no ORDER BY.
Hiding(w, a) == {r \in saver[w].rules : Matches(a, rule[r].spec)}

\* mutant: a suppressed alert gets a status of its own.
FiledApart(s, a, st, r) ==
    [scan |-> s, alert |-> a, arrived |-> st, rule |-> r,
     status |-> IF r # NoRule THEN "suprimido" ELSE st]
FiledAs(s, a, st, r) == [scan |-> s, alert |-> a, status |-> st, arrived |-> st,
                         rule |-> r]

\* How an alert is filed: by a rule, else by a signature, else for attention.
Filed(w, s, a) ==
    IF Hiding(w, a) # {}
    THEN {FiledAs(s, a, "sem_risco", r) : r \in Hiding(w, a)}
    ELSE {FiledAs(s, a, IF Key(a) \in saver[w].keys THEN "sem_risco" ELSE "analisar",
                  NoRule)}

\* The alerts found are in memory since before the first step.
Commit(w, s, found) ==
    LET n == Len(found)
        ids == nextAlert..(nextAlert + n - 1)
        Nth(id) == found[id - nextAlert + 1]
    IN  /\ saver[w].pc = "signatures"
        /\ ~scan[s].saved /\ \A t \in 1..(s - 1) : scan[t].saved
        /\ ids \subseteq AlertId
        /\ \E filed \in [ids -> UNION {Filed(w, s, Nth(id)) : id \in ids}] :
              /\ \A id \in ids : filed[id] \in Filed(w, s, Nth(id))
              /\ row' = [id \in AlertId |-> IF id \in ids THEN filed[id] ELSE row[id]]
              /\ saver' = [saver EXCEPT ![w] =
                     [NotSaving EXCEPT !.pc = "bump", !.hid =
                          {id \in ids : filed[id].rule # NoRule}]]
              /\ scan' = [scan EXCEPT ![s] =
                     [saved |-> TRUE,
                      count |-> Quantify(ids, LAMBDA id : filed[id].status = "analisar")]]
        /\ nextAlert' = nextAlert + n
        /\ UNCHANGED <<rule, signature, analyst, lostHits, untrained, announced,
                   crashed, vetted>>

HitsOf(w, r) == Quantify(saver[w].hid, LAMBDA id : row[id].rule = r)
HitRules(w) == {r \in RuleId : HitsOf(w, r) > 0}

\* mutant: the count is replaced, not added to.
BumpToHits(w) ==
    /\ saver[w].pc = "bump"
    /\ rule' = [r \in RuleId |-> IF rule[r].state \in {"on", "off"} /\ HitsOf(w, r) > 0
                                 THEN [rule[r] EXCEPT !.hits = HitsOf(w, r)]
                                 ELSE rule[r]]
    /\ saver' = [saver EXCEPT ![w].pc = "announce"]
    /\ UNCHANGED <<signature, row, nextAlert, scan, analyst, lostHits,
                   untrained, announced, crashed, vetted>>

\* increment_suppression_hits: one transaction; a deleted rule has no row.
BumpHits(w) ==
    /\ saver[w].pc = "bump"
    /\ rule' = [r \in RuleId |-> IF rule[r].state \in {"on", "off"}
                                 THEN [rule[r] EXCEPT !.hits = @ + HitsOf(w, r)]
                                 ELSE rule[r]]
    /\ saver' = [saver EXCEPT ![w].pc = "announce"]
    /\ UNCHANGED <<signature, row, nextAlert, scan, analyst, lostHits,
                   untrained, announced, crashed, vetted>>

\* mutant: save_scan ends here.
BumpRaises(w) ==
    /\ saver[w].pc = "bump"
    /\ HitRules(w) # {}
    /\ lostHits' = [r \in RuleId |-> lostHits[r] + HitsOf(w, r)]
    /\ saver' = [saver EXCEPT ![w] = NotSaving]
    /\ UNCHANGED <<rule, signature, row, nextAlert, scan, analyst, untrained,
                   announced, crashed, vetted>>

\* It raises and save_scan goes on: two batches that update the same rules in
\* opposite orders deadlock and one is the victim, or there is no connection.
BumpFails(w) ==
    /\ saver[w].pc = "bump"
    /\ HitRules(w) # {}
    /\ lostHits' = [r \in RuleId |-> lostHits[r] + HitsOf(w, r)]
    /\ saver' = [saver EXCEPT ![w].pc = "announce"]
    /\ UNCHANGED <<rule, signature, row, nextAlert, scan, analyst, untrained,
                   announced, crashed, vetted>>

\* dispatch_suppression_events, for the high and critical ones.
Announce(w) ==
    /\ saver[w].pc = "announce"
    /\ announced' = announced \cup {id \in saver[w].hid : row[id].alert.severe}
    /\ saver' = [saver EXCEPT ![w] = NotSaving]
    /\ UNCHANGED <<rule, signature, row, nextAlert, scan, analyst, lostHits,
                   untrained, crashed, vetted>>

\* append_alerts_to_scan: neither rules nor signatures are consulted.
AppendAlert(s, a) ==
    /\ scan[s].saved
    /\ nextAlert \in AlertId
    /\ row' = [row EXCEPT ![nextAlert] = FiledAs(s, a, "analisar", NoRule)]
    /\ scan' = [scan EXCEPT ![s].count = @ + 1]
    /\ nextAlert' = nextAlert + 1
    /\ UNCHANGED <<rule, signature, saver, analyst, lostHits, untrained,
                   announced, crashed, vetted>>

-----------------------------------------------------------------------------
(***************************************************************************)
(* Triage.  The UPDATE commits, then each false positive is learned in a   *)
(* transaction of its own.                                                 *)
(***************************************************************************)
TriageAlerts(t, ids, st) ==
    /\ analyst[t] = NotTriaging
    /\ ids # {} /\ \A id \in ids : id < nextAlert
    /\ row' = [id \in AlertId |-> IF id \in ids THEN [row[id] EXCEPT !.status = st]
                                  ELSE row[id]]
    /\ analyst' = [analyst EXCEPT ![t] =
                       IF st = "falso_positivo" THEN {Key(row[id].alert) : id \in ids}
                       ELSE {}]
    /\ vetted' = IF st = "falso_positivo"
                 THEN vetted \cup {Subject(row[id].alert) : id \in ids}
                 ELSE vetted
    /\ UNCHANGED <<rule, signature, nextAlert, scan, saver, lostHits,
                   untrained, announced, crashed>>

\* learn_fp_signature: INSERT ... ON CONFLICT.
Learn(t, k) ==
    /\ k \in analyst[t]
    /\ signature' = signature \cup {k}
    /\ analyst' = [analyst EXCEPT ![t] = @ \ {k}]
    /\ UNCHANGED <<rule, row, nextAlert, scan, saver, lostHits, untrained,
                   announced, crashed, vetted>>

\* mutant: one failure ends the batch.
LearnFailsAll(t, k) ==
    /\ k \in analyst[t]
    /\ untrained' = untrained \cup {k}
    /\ analyst' = [analyst EXCEPT ![t] = {}]
    /\ UNCHANGED <<rule, signature, row, nextAlert, scan, saver, lostHits,
                   announced, crashed, vetted>>

\* It raises, which neither undoes the triage nor stops the rest of the batch.
LearnFails(t, k) ==
    /\ k \in analyst[t]
    /\ untrained' = untrained \cup {k}
    /\ analyst' = [analyst EXCEPT ![t] = @ \ {k}]
    /\ UNCHANGED <<rule, signature, row, nextAlert, scan, saver, lostHits,
                   announced, crashed, vetted>>

Forget(k) ==
    /\ k \in signature
    /\ signature' = signature \ {k}
    /\ untrained' = untrained \cup {k}
    /\ UNCHANGED <<rule, row, nextAlert, scan, saver, analyst, lostHits,
                   announced, crashed, vetted>>

\* The worker dies: what the commit left to do is not done by a redelivery.
Crash(w) ==
    /\ saver[w].pc # "idle"
    /\ lostHits' = [r \in RuleId |-> IF saver[w].pc = "bump"
                                     THEN lostHits[r] + HitsOf(w, r)
                                     ELSE lostHits[r]]
    /\ crashed' = crashed \cup saver[w].hid
    /\ saver' = [saver EXCEPT ![w] = NotSaving]
    /\ UNCHANGED <<rule, signature, row, nextAlert, scan, analyst, untrained,
                   announced, vetted>>

-----------------------------------------------------------------------------
Save(w) ==
    \/ ReadRules(w)
    \/ ReadSignatures(w)
    \/ \E s \in ScanId, found \in SeqOf(Alert, MaxFound) : Commit(w, s, found)
    \/ BumpHits(w)
    \/ BumpFails(w)
    \/ Announce(w)
    \/ Crash(w)

Next ==
    \/ \E r \in RuleId : \/ \E spec \in RuleSpec : CreateRule(r, spec)
                         \/ \E st \in {"on", "off", "deleted"} : SetRule(r, st)
    \/ \E w \in Saver : Save(w)
    \/ \E s \in ScanId, a \in Alert : AppendAlert(s, a)
    \/ \E t \in Analyst : \/ \E ids \in SUBSET AlertId, st \in Verdict :
                                TriageAlerts(t, ids, st)
                          \/ \E k \in Keys : Learn(t, k) \/ LearnFails(t, k)
    \/ \E k \in Keys : Forget(k)

Spec == Init /\ [][Next]_vars

-----------------------------------------------------------------------------
\* Every table keeps its shape.
TypeOK ==
    /\ rule \in [RuleId -> Rule]
    /\ signature \subseteq Keys
    /\ row \in [AlertId -> Row]
    /\ nextAlert \in 1..(MaxAlerts + 1)
    /\ scan \in [ScanId -> [saved : BOOLEAN, count : Nat]]
    /\ saver \in [Saver -> [pc : SaverPc, rules : SUBSET RuleId,
                            keys : SUBSET Keys, hid : SUBSET AlertId]]
    /\ analyst \in [Analyst -> SUBSET Keys]
    /\ lostHits \in [RuleId -> Nat]
    /\ untrained \subseteq Keys
    /\ announced \cup crashed \subseteq AlertId
    /\ vetted \subseteq {Subject(a) : a \in Alert}

Drawn == {id \in AlertId : id < nextAlert}

\* No alert is ever hidden by a rule that has nothing to do with its endpoints:
\* what create_suppression_rule refuses and what the matching requires leave no
\* rule that silences a kind of alert wherever it occurs.
SuppressionIsScoped == \A id \in Drawn : row[id].rule # NoRule =>
    LET spec == rule[row[id].rule].spec
        a == row[id].alert
    IN  \/ spec.src \in a.src \/ a.src \cap spec.srcNet # {}
        \/ spec.dst \in a.dst \/ a.dst \cap spec.dstNet # {}

\* Hidden by a save_scan that has not counted its hits yet.
Uncounted(id) == \E w \in Saver : saver[w].pc = "bump" /\ id \in saver[w].hid

\* hit_count of a rule is the number of alerts filed under it, those that a
\* save_scan still has to count or gave up on aside: concurrent saves, toggles
\* and analysts cost no hit.
HitsAccounted == \A r \in RuleId : rule[r].state \in {"on", "off"} =>
    rule[r].hits + lostHits[r]
        = Cardinality({id \in Drawn : row[id].rule = r /\ ~Uncounted(id)})

\* A severe alert that a rule hid has been announced or is about to be, unless
\* its worker died in between: no failure of the steps of save_scan before the
\* announcement prevents it.
HidingIsAnnounced == \A id \in Drawn :
    (row[id].rule # NoRule /\ row[id].alert.severe)
        => id \in announced \cup crashed \/ \E w \in Saver : id \in saver[w].hid

\* A triaged false positive has trained the classifier, in spite of deletions
\* and other analysts in between, unless its learning failed or was undone.
FalsePositivesTrain == \A id \in Drawn :
    row[id].status = "falso_positivo" =>
        Key(row[id].alert) \in signature \cup untrained \cup UNION Range(analyst)

\* "the same alert type from the same host the analyst already vetted": what
\* the classifier files away, an analyst has ruled out for that host before.
OnlyVettedIsFiled == \A id \in Drawn :
    (row[id].arrived = "sem_risco" /\ row[id].rule = NoRule)
        => Subject(row[id].alert) \in vetted

-----------------------------------------------------------------------------
(***************************************************************************)
(* Why they hold: an invariant that a step preserves on its own.           *)
(***************************************************************************)
\* A rule keeps what it was created with, and hides only what it matches.
RulesStand ==
    /\ \A r \in RuleId :
          /\ rule[r].state = "new" => lostHits[r] = 0
          /\ rule[r].state # "new" => Creatable(rule[r].spec)
    /\ \A w \in Saver : \A r \in saver[w].rules : rule[r].state # "new"
    /\ \A id \in Drawn : row[id].rule # NoRule =>
          /\ rule[row[id].rule].state # "new"
          /\ Matches(row[id].alert, rule[row[id].rule].spec)

\* What a save_scan hid is its own, and nothing before its commit.
HidersApart ==
    /\ \A w \in Saver : /\ saver[w].hid \subseteq Drawn
                        /\ saver[w].pc \in {"idle", "rules", "signatures"}
                              => saver[w].hid = {}
    /\ \A v, w \in Saver : v # w => saver[v].hid \cap saver[w].hid = {}

\* Every alert belongs to a saved scan.
RowsSaved == \A id \in Drawn : row[id].scan \in ScanId /\ scan[row[id].scan].saved

\* alert_count is the number of alerts that came in for attention, by save_scan or
\* by any number of concurrent enrichments.
BadgeCountsArrivals == \A s \in ScanId : scan[s].saved =>
    scan[s].count = Quantify(Drawn, LAMBDA id : /\ row[id].scan = s
                                               /\ row[id].arrived = "analisar")

TriageInv ==
    /\ TypeOK
    /\ RulesStand
    /\ HidersApart
    /\ RowsSaved
    /\ HitsAccounted
    /\ HidingIsAnnounced
    /\ FalsePositivesTrain
    /\ BadgeCountsArrivals

(***************************************************************************)
(* How far alert_count is from what it is said to track, "only alerts that *)
(* still need attention": no triage, single or in a batch, changes it.     *)
(***************************************************************************)
Awaiting(s) == {id \in Drawn : row[id].scan = s /\ row[id].status = "analisar"}
Closed(s) == {id \in Drawn : /\ row[id].scan = s /\ row[id].status # "analisar"
                             /\ row[id].arrived = "analisar"}
Reopened(s) == {id \in Awaiting(s) : row[id].arrived # "analisar"}

\* The count exceeds the alerts that await attention by those closed since they
\* came in, and falls short of them by those that came in filed and were reopened:
\* it is right of a scan whose alerts nobody triaged, and may be wrong of any other.
BadgeOffByTriage == \A s \in ScanId : scan[s].saved =>
    scan[s].count + Cardinality(Reopened(s))
        = Cardinality(Awaiting(s)) + Cardinality(Closed(s))
=============================================================================
