---------------------------- MODULE ReportProofs ----------------------------
(***************************************************************************)
(* The report loses no evidence (ReportKeepsEvidence), for every capture,  *)
(* every set of thresholds, rules and patterns, and whichever detectors    *)
(* raise.                                                                  *)
(*                                                                         *)
(* The pipeline works on sets of alerts: it adds the catalog's, lowers     *)
(* what the role of an address explains, and merges the rest by key.  An   *)
(* alert could vanish in it only if two of them became one before they are *)
(* counted, that is, if two alerts of a rule a role may lower differed in  *)
(* nothing but their severity.  So the proof shows of every detector that  *)
(* what it raises is finite, well formed and, for those rules, raised once *)
(* per subject; and of every update that what the detector holds stays     *)
(* such that this is so.                                                   *)
(***************************************************************************)
EXTENDS EngineProofs

\* The severities of an alert (_SEVERITY_RANK).
Severities == {"info", "low", "medium", "high", "critical"}

\* The rules whose alerts the role of an address can lower.
SoftRules == {"nxdomain_spike", "suspicious_tld", "dga", "fast_flux", "llmnr_answers"}

\* What Alert makes.
IsAlert(a) ==
  /\ a = [rule |-> a.rule, sev |-> a.sev, src |-> a.src, dst |-> a.dst, about |-> a.about,
          n |-> a.n]
  /\ a.sev \in Severities

\* Finitely many alerts.
Sound(A) == IsFiniteSet(A) /\ \A a \in A : IsAlert(a)

\* No two alerts of these rules differ in nothing but how severe they are.
SameButSeverity(a, b) ==
  a.rule = b.rule /\ a.src = b.src /\ a.dst = b.dst /\ a.about = b.about /\ a.n = b.n
Distinct(A) == \A a, b \in A : a.rule \in SoftRules /\ SameButSeverity(a, b) => a = b

-----------------------------------------------------------------------------
(* The ladder *)

\* Each severity has its rank (_SEVERITY_RANK).
LEMMA SeverityRanks ==
  ASSUME NEW sev \in Severities
  PROVE  Rank(sev) \in 1..5 /\ Ladder[Rank(sev)] = sev
<1>1. /\ Ladder[1] = "info" /\ Ladder[2] = "low" /\ Ladder[3] = "medium"
      /\ Ladder[4] = "high" /\ Ladder[5] = "critical"
  BY DEF Ladder
<1> QED BY <1>1, Ranks DEF Severities

\* The ladder lists the severities by rank.
LEMMA LadderRanks ==
  ASSUME NEW i \in 1..5
  PROVE  Ladder[i] \in Severities /\ Rank(Ladder[i]) = i
<1>1. /\ Ladder[1] = "info" /\ Ladder[2] = "low" /\ Ladder[3] = "medium"
      /\ Ladder[4] = "high" /\ Ladder[5] = "critical"
  BY DEF Ladder
<1> QED BY <1>1, Ranks DEF Severities

\* A role lowers a severity by so many steps, not below the ladder ...
LEMMA DownIs ==
  ASSUME NEW sev \in Severities, NEW steps \in 0..2
  PROVE  LET low == DownBy(sev, steps)
         IN low \in Severities /\ Rank(low) >= Rank(sev) - 2 /\ (steps = 0 => low = sev)
<1> DEFINE r == Rank(sev)
           m == Max({1, r - steps})
<1>1. r \in 1..5 /\ Ladder[r] = sev
  BY SeverityRanks
<1>2. m \in {1, r - steps} /\ m >= 1 /\ m >= r - steps
  <2>1. 1 \in Int /\ r - steps \in Int
    BY <1>1
  <2> DEFINE s == r - steps
  <2>3. s \in Int /\ m = Max({1, s})
    BY <2>1
  <2> HIDE DEF s, m
  <2>2. m \in {1, s} /\ m >= 1 /\ m >= s
    BY <2>3, MoreOf
  <2> QED BY <2>2 DEF s
<1>3. m \in 1..5 /\ m >= r - 2 /\ (steps = 0 => m = r)
  <2> HIDE DEF r, m
  <2> QED BY <1>1, <1>2
<1>4. DownBy(sev, steps) = Ladder[m]
  BY DEF DownBy
<1> HIDE DEF m
<1> QED BY <1>1, <1>3, <1>4, LadderRanks

\* One and two rungs down.
LEMMA StepsAre ==
  ASSUME NEW a, NEW roles
  PROVE  StepsDown(a, roles) \in 0..2 /\ (a.rule \notin SoftRules => StepsDown(a, roles) = 0)
<1>1. StepsDown(a, roles) \in 0..2
  BY DEF StepsDown
<1>2. a.rule \notin SoftRules => StepsDown(a, roles) = 0
  BY DEF StepsDown, SoftRules
<1> QED BY <1>1, <1>2

\* ... and says so.
LEMMA SuppressIs ==
  ASSUME NEW a, IsAlert(a), NEW roles
  PROVE  LET e == Suppress(a, roles)
         IN /\ IsAlert(e.alert)
            /\ SameButSeverity(a, e.alert)
            /\ Rank(e.alert.sev) >= Rank(a.sev) - 2
            /\ ~e.suppressed => e.alert.sev = a.sev
            /\ e.suppressed \in BOOLEAN
            /\ a.rule \notin SoftRules => e.alert = a
<1> DEFINE low == DownBy(a.sev, StepsDown(a, roles))
           e == Suppress(a, roles)
<1>1. low \in Severities /\ Rank(low) >= Rank(a.sev) - 2 /\ (a.rule \notin SoftRules => low = a.sev)
  BY StepsAre, DownIs DEF IsAlert
<1>2. e = [alert |-> [a EXCEPT !.sev = low], suppressed |-> low # a.sev]
  BY DEF Suppress
<1> HIDE DEF low, e
<1>3. e.alert = [a EXCEPT !.sev = low] /\ e.suppressed = (low # a.sev)
  BY <1>2
<1>4. a = [rule |-> a.rule, sev |-> a.sev, src |-> a.src, dst |-> a.dst, about |-> a.about,
           n |-> a.n]
  BY DEF IsAlert
<1>5. e.alert = [rule |-> a.rule, sev |-> low, src |-> a.src, dst |-> a.dst, about |-> a.about,
                 n |-> a.n]
  BY <1>3, <1>4
<1>6. IsAlert(e.alert) /\ SameButSeverity(a, e.alert) /\ e.alert.sev = low
  BY <1>1, <1>5 DEF IsAlert, SameButSeverity
<1>7. low = a.sev => e.alert = a
  BY <1>4, <1>5
<1> QED BY <1>1, <1>3, <1>6, <1>7 DEF e

-----------------------------------------------------------------------------
(* The merge *)

\* The most severe part of a merged alert speaks for it.
LEMMA WorstIs ==
  ASSUME NEW S, S \subseteq Severities, NEW sev \in S
  PROVE  Rank(Worst(S)) >= Rank(sev)
<1> DEFINE T == {Rank(s) : s \in S}
           m == Max(T)
<1>1. T \subseteq 1..5 /\ Rank(sev) \in T
  BY SeverityRanks
<1>2. IsFiniteSet(T) /\ T \in SUBSET Int
  <2>1. IsFiniteSet(1..5)
    <3>1. 1 \in Int /\ 5 \in Int
      OBVIOUS
    <3> QED BY <3>1, FS_Interval, Zenon
  <2> HIDE DEF T
  <2>2. IsFiniteSet(T)
    BY <1>1, <2>1, FS_Subset
  <2> QED BY <1>1, <2>2
<1>3. m \in T /\ \A n \in T : n <= m
  <2> HIDE DEF T
  <2> QED BY <1>1, <1>2, GreatestOf
<1>4. Worst(S) = Ladder[m]
  BY DEF Worst
<1> HIDE DEF T, m
<1> QED BY <1>1, <1>3, <1>4, LadderRanks

\* Every entry is merged under its key, and counted once.
LEMMA DedupeIs ==
  ASSUME NEW E, IsFiniteSet(E), NEW hosts
  PROVE  LET rows == Dedupe(E, hosts)
         IN /\ \A e \in E : \E r \in rows :
                 /\ r.key = Key(e.alert)
                 /\ r.sev = Worst({d.alert.sev : d \in {c \in E : Key(c.alert) = Key(e.alert)}})
                 /\ e.suppressed = TRUE => r.suppressed
            /\ Sum(rows, [r \in rows |-> r.count]) = Cardinality(E)
<1> DEFINE rows == Dedupe(E, hosts)
           K == {Key(e.alert) : e \in E}
           Of(k) == {e \in E : Key(e.alert) = k}
           Row(k) == [key        |-> k,
                      sev        |-> Worst({e.alert.sev : e \in Of(k)}),
                      count      |-> Cardinality(Of(k)),
                      suppressed |-> \E e \in Of(k) : e.suppressed,
                      soc        |-> {SocMatch(e.alert) : e \in Of(k)} \ {"none"},
                      host       |-> HostOfAlert(hosts, [src |-> k[2], dst |-> k[3]])]
           row == [k \in K |-> Row(k)]
           key == [e \in E |-> Key(e.alert)]
           count == [r \in rows |-> r.count]
<1>1. rows = {row[k] : k \in K}
  BY DEF Dedupe
<1>2. \A k \in K : /\ row[k].key = k
                   /\ row[k].sev = Worst({e.alert.sev : e \in Of(k)})
                   /\ row[k].count = Cardinality(Of(k))
                   /\ row[k].suppressed = (\E e \in Of(k) : e.suppressed)
  OBVIOUS
<1>3. K = {key[e] : e \in E} /\ \A e \in E : key[e] = Key(e.alert)
  OBVIOUS
<1>4. \A k \in K : Of(k) = {e \in E : key[e] = k}
  BY <1>3
<1>5. IsFiniteSet(K)
  <2> HIDE DEF K, key
  <2> QED BY <1>3, ImageFinite
<1>6. \A e \in E : \E r \in rows :
        /\ r.key = Key(e.alert)
        /\ r.sev = Worst({d.alert.sev : d \in {c \in E : Key(c.alert) = Key(e.alert)}})
        /\ e.suppressed = TRUE => r.suppressed
  <2> TAKE e \in E
  <2>1. Key(e.alert) \in K /\ e \in Of(Key(e.alert))
    OBVIOUS
  <2> DEFINE r == row[Key(e.alert)]
  <2>2. /\ r.key = Key(e.alert)
        /\ r.sev = Worst({d.alert.sev : d \in {c \in E : Key(c.alert) = Key(e.alert)}})
        /\ e.suppressed = TRUE => r.suppressed
    BY <2>1
  <2>3. r \in rows
    <3> HIDE DEF rows, row, K
    <3> QED BY <1>1, <2>1
  <2> HIDE DEF r, rows
  <2> QED BY <2>2, <2>3
<1>7. \A k \in K : count[row[k]] = Cardinality({e \in E : key[e] = k})
  <2>1. \A k \in K : row[k] \in rows
    BY <1>1
  <2> HIDE DEF row, K, rows
  <2> QED BY <1>2, <1>4, <2>1
<1>8. \A j, k \in K : row[j] = row[k] => j = k
  <2> HIDE DEF row, K
  <2> QED BY <1>2
<1>9. Sum(rows, count) = Cardinality(E)
  <2> HIDE DEF row, K, rows, count, key, Of
  <2> DEFINE Img(J) == {row[k] : k \in J}
             Pre(J) == {e \in E : key[e] \in J}
             Bad == {J \in SUBSET K : Sum(Img(J), count) # Cardinality(Pre(J))}
  <2>1. Bad = {}
    <3> SUFFICES ASSUME Bad # {} PROVE FALSE
      OBVIOUS
    <3>1. PICK J \in Bad : IsFiniteSet(J) /\ \A k \in J : J \ {k} \notin Bad
      BY <1>5, SmallestOf
    <3>2. CASE J = {}
      <4>1. Img(J) = {} /\ Pre(J) = {}
        BY <3>2
      <4>2. Sum(Img(J), count) = 0 /\ Cardinality(Pre(J)) = 0
        BY <4>1, SumOfNone, FS_EmptySet
      <4> QED BY <3>1, <4>2
    <3>3. CASE J # {}
      <4>1. PICK k \in J : TRUE
        BY <3>3
      <4> DEFINE H == J \ {k}
                 Mine == {e \in E : key[e] = k}
      <4>2. J \in SUBSET K /\ H \in SUBSET K /\ k \in K
        BY <3>1, <4>1
      <4>3. Sum(Img(H), count) = Cardinality(Pre(H))
        BY <3>1, <4>2
      <4>4. IsFiniteSet(Img(J))
        BY <3>1, ImageFinite
      <4>5. \A x \in Img(J) : count[x] \in Int
        <5> TAKE x \in Img(J)
        <5>1. PICK i \in J : x = row[i]
          OBVIOUS
        <5>2. IsFiniteSet({e \in E : key[e] = i})
          BY FS_Subset
        <5>3. Cardinality({e \in E : key[e] = i}) \in Int
          BY <5>2, FS_CardinalityType
        <5>4. i \in K
          BY <4>2
        <5> QED BY <1>7, <5>1, <5>3, <5>4
      <4>6. Img(J) \ {row[k]} = Img(H) /\ row[k] \in Img(J)
        BY <1>8, <4>1, <4>2
      <4>7. Sum(Img(J), count) = Cardinality(Mine) + Cardinality(Pre(H))
        <5> HIDE DEF Img, Pre, Bad
        <5>1. Sum(Img(J), count) = count[row[k]] + Sum(Img(J) \ {row[k]}, count)
          BY <4>4, <4>5, <4>6, SumRemove
        <5> QED BY <1>7, <4>2, <4>3, <4>6, <5>1
      <4>8. Cardinality(Pre(J)) = Cardinality(Mine) + Cardinality(Pre(H))
        <5>1. Pre(J) = Mine \union Pre(H) /\ Mine \intersect Pre(H) = {}
          BY <4>1
        <5>2. IsFiniteSet(Mine) /\ IsFiniteSet(Pre(H))
          BY FS_Subset
        <5>3. Cardinality(Mine \intersect Pre(H)) = 0
          BY <5>1, FS_EmptySet
        <5>4. Cardinality(Mine) \in Nat /\ Cardinality(Pre(H)) \in Nat
          BY <5>2, FS_CardinalityType
        <5>5. Cardinality(Mine \union Pre(H)) = Cardinality(Mine) + Cardinality(Pre(H))
                                                - Cardinality(Mine \intersect Pre(H))
          BY <5>2, FS_Union
        <5> HIDE DEF Mine, Pre, H
        <5> QED BY <5>1, <5>3, <5>4, <5>5
      <4> QED BY <3>1, <4>7, <4>8
    <3> QED BY <3>2, <3>3
  <2>2. Pre(K) = E /\ Img(K) = rows
    BY <1>1, <1>3
  <2>3. K \in SUBSET K
    OBVIOUS
  <2> HIDE DEF Pre, Img
  <2> QED BY <2>1, <2>2, <2>3
<1> QED BY <1>6, <1>9

-----------------------------------------------------------------------------
(* The report *)

\* No two alerts become one entry by being lowered.
LEMMA EntriesApart ==
  ASSUME NEW C, Sound(C), Distinct(C), NEW role,
         NEW e, e = [a \in C |-> Suppress(a, role[a])]
  PROVE  \A a, b \in C : e[a] = e[b] => a = b
<1> SUFFICES ASSUME NEW a \in C, NEW b \in C, e[a] = e[b] PROVE a = b
  OBVIOUS
<1>1. IsAlert(a) /\ IsAlert(b)
  BY DEF Sound
<1>2. /\ SameButSeverity(a, e[a].alert) /\ SameButSeverity(b, e[a].alert)
      /\ a.rule \notin SoftRules => e[a].alert = a
      /\ b.rule \notin SoftRules => e[a].alert = b
  <2>1. e[a] = Suppress(a, role[a]) /\ e[b] = Suppress(b, role[b])
    OBVIOUS
  <2> QED BY <1>1, <2>1, SuppressIs
<1>3. SameButSeverity(a, b)
  BY <1>2 DEF SameButSeverity
<1>4. CASE a.rule \in SoftRules
  BY <1>3, <1>4 DEF Distinct
<1>5. CASE a.rule \notin SoftRules
  <2>1. b.rule \notin SoftRules
    BY <1>3, <1>5 DEF SameButSeverity
  <2> QED BY <1>2, <1>5, <2>1
<1> QED BY <1>4, <1>5

\* The pipeline from the collected alerts to the report keeps every one of
\* them under its key, as severe unless a role lowered it, and counts each
\* once (_run_detections, apply_host_role_suppression, _dedupe_alerts).
LEMMA PipelineKeeps ==
  ASSUME NEW C, Sound(C), Distinct(C), NEW names, NEW assets, NEW hosts,
         NEW R, R = Report(C, names, assets, hosts)
  PROVE  /\ \A a \in C : \E r \in R :
              /\ r.key = Key(a)
              /\ \/ Rank(r.sev) >= Rank(a.sev)
                 \/ r.suppressed /\ Rank(r.sev) >= Rank(a.sev) - 2
         /\ Sum(R, [r \in R |-> r.count]) = Cardinality(C)
<1> DEFINE role == [a \in C |-> Roles(names, assets, IpOf(a))]
           e == [a \in C |-> Suppress(a, role[a])]
           E == {e[a] : a \in C}
<1>1. IsFiniteSet(C) /\ \A a \in C : IsAlert(a)
  BY DEF Sound
<1>2. R = Dedupe(E, hosts)
  <2>1. {Suppress(a, Roles(names, assets, IpOf(a))) : a \in C} = E
    OBVIOUS
  <2> HIDE DEF E
  <2> QED BY <2>1 DEF Report
<1>3. \A a \in C : e[a] = Suppress(a, role[a])
  OBVIOUS
<1>4. \A a, b \in C : e[a] = e[b] => a = b
  <2>1. e = [a \in C |-> Suppress(a, role[a])]
    OBVIOUS
  <2> HIDE DEF e, role
  <2> QED BY <2>1, EntriesApart
<1>5. IsFiniteSet(E) /\ Cardinality(E) = Cardinality(C)
  <2>1. e \in [C -> E] /\ \A x \in E : \E a \in C : e[a] = x
    OBVIOUS
  <2> HIDE DEF e, role, E
  <2>2. e \in Bijection(C, E)
    BY <1>4, <2>1 DEF Bijection, Injection, Surjection, IsInjective
  <2> QED BY <1>1, <2>2, FS_Bijection, Zenon DEF ExistsBijection
<1>6. /\ \A x \in E : \E r \in R :
           /\ r.key = Key(x.alert)
           /\ r.sev = Worst({d.alert.sev : d \in {c \in E : Key(c.alert) = Key(x.alert)}})
           /\ x.suppressed = TRUE => r.suppressed
      /\ Sum(R, [r \in R |-> r.count]) = Cardinality(E)
  <2> HIDE DEF E
  <2> QED BY <1>2, <1>5, DedupeIs
<1>7. \A a \in C : /\ IsAlert(e[a].alert) /\ SameButSeverity(a, e[a].alert)
                   /\ Rank(e[a].alert.sev) >= Rank(a.sev) - 2
                   /\ ~e[a].suppressed => e[a].alert.sev = a.sev
                   /\ e[a].suppressed \in BOOLEAN
  <2> HIDE DEF e
  <2> QED BY <1>1, <1>3, SuppressIs
<1>8. ASSUME NEW a \in C
      PROVE  \E r \in R : /\ r.key = Key(a)
                          /\ \/ Rank(r.sev) >= Rank(a.sev)
                             \/ r.suppressed /\ Rank(r.sev) >= Rank(a.sev) - 2
  <2> DEFINE x == e[a]
             Like == {c \in E : Key(c.alert) = Key(x.alert)}
             S == {d.alert.sev : d \in Like}
  <2>1. x \in E
    OBVIOUS
  <2>2. PICK r \in R : /\ r.key = Key(x.alert) /\ r.sev = Worst(S)
                       /\ x.suppressed = TRUE => r.suppressed
    <3> HIDE DEF E, x
    <3> QED BY <1>6, <2>1
  <2>3. Key(x.alert) = Key(a)
    <3> HIDE DEF e
    <3> QED BY <1>7 DEF Key, SameButSeverity
  <2>4. S \subseteq Severities /\ x.alert.sev \in S
    <3>1. \A d \in E : d.alert.sev \in Severities
      <4> HIDE DEF e
      <4> QED BY <1>7 DEF IsAlert
    <3> HIDE DEF E, x
    <3> QED BY <2>1, <3>1
  <2>5. Rank(Worst(S)) >= Rank(x.alert.sev)
    <3> HIDE DEF S, x
    <3> QED BY <2>4, WorstIs
  <2>6. /\ Rank(x.alert.sev) >= Rank(a.sev) - 2 /\ x.suppressed \in BOOLEAN
        /\ ~x.suppressed => x.alert.sev = a.sev
    <3> HIDE DEF e
    <3> QED BY <1>7
  <2>7. Rank(Worst(S)) \in Int /\ Rank(x.alert.sev) \in Int /\ Rank(a.sev) \in Int
    <3>1. Worst(S) \in Severities
      <4>1. \E s \in Severities : s = Worst(S)
        <5> DEFINE T == {Rank(s) : s \in S}
        <5>1. T \in SUBSET Int /\ T # {} /\ T \subseteq 1..5
          BY <2>4, SeverityRanks
        <5>2. IsFiniteSet(T)
          <6>1. 1 \in Int /\ 5 \in Int
            OBVIOUS
          <6>2. IsFiniteSet(1..5)
            BY <6>1, FS_Interval, Zenon
          <6> HIDE DEF T
          <6> QED BY <5>1, <6>2, FS_Subset
        <5>3. Worst(S) = Ladder[Max(T)]
          BY DEF Worst
        <5> HIDE DEF T
        <5>4. Max(T) \in T
          BY <5>1, <5>2, GreatestOf
        <5> QED BY <5>1, <5>3, <5>4, LadderRanks
      <4> QED BY <4>1
    <3>2. x.alert.sev \in Severities /\ a.sev \in Severities
      BY <1>1, <2>4 DEF IsAlert
    <3> HIDE DEF S, x
    <3>3. \A s \in Severities : Rank(s) \in Int
      BY SeverityRanks
    <3> QED BY <3>1, <3>2, <3>3
  <2> HIDE DEF x, S, E, e, role
  <2>8. r.key = Key(a)
    BY <2>2, <2>3
  <2>9. \/ Rank(r.sev) >= Rank(a.sev)
        \/ r.suppressed /\ Rank(r.sev) >= Rank(a.sev) - 2
    <3>1. Rank(r.sev) >= Rank(x.alert.sev) /\ Rank(r.sev) \in Int
      BY <2>2, <2>5, <2>7
    <3>2. CASE x.suppressed
      BY <2>2, <2>6, <2>7, <3>1, <3>2
    <3>3. CASE ~x.suppressed
      BY <2>6, <3>1, <3>3
    <3> QED BY <3>2, <3>3
  <2> QED BY <2>8, <2>9
<1>9. Sum(R, [r \in R |-> r.count]) = Cardinality(C)
  BY <1>5, <1>6
<1> HIDE DEF e, E, role
<1> QED BY <1>8, <1>9

-----------------------------------------------------------------------------
(* What a detector raises: each alert stands for one of finitely many things *)
(* (an address, a pair, a name), whose rule, addresses, matter and count g  *)
(* gives; how severe it is does not matter here.                            *)

\* Every alert of A is made from some member of T.
Raise(A, T, g) ==
  \A a \in A : \E t \in T, sev \in Severities :
    /\ g[t][1] \notin SoftRules
    /\ a = Alert(g[t][1], sev, g[t][2], g[t][3], g[t][4], g[t][5])

\* Such alerts, of rules that no role lowers.
Hard(A) == Sound(A) /\ \A a \in A : a.rule \notin SoftRules

\* There are five severities.
LEMMA SeveritiesFinite == IsFiniteSet(Severities)
<1>1. Severities = {Ladder[i] : i \in 1..5}
  BY LadderRanks, SeverityRanks
<1>2. IsFiniteSet(1..5)
  <2>1. 1 \in Int /\ 5 \in Int
    OBVIOUS
  <2> QED BY <2>1, FS_Interval, Zenon
<1> QED BY <1>1, <1>2, ImageFinite

\* What Alert makes, field by field.
LEMMA AlertIs ==
  ASSUME NEW rule, NEW sev \in Severities, NEW src, NEW dst, NEW about, NEW n,
         NEW a, a = Alert(rule, sev, src, dst, about, n)
  PROVE  /\ IsAlert(a) /\ a.rule = rule /\ a.sev = sev /\ a.src = src /\ a.dst = dst
         /\ a.about = <<rule, about>> /\ a.n = n
  BY DEF Alert, IsAlert

\* Alerts made from the members of a finite set, of rules no role lowers, are hard.
LEMMA Raises ==
  ASSUME NEW A, NEW T, IsFiniteSet(T), NEW g, Raise(A, T, g)
  PROVE  Hard(A)
<1> DEFINE P == T \X Severities
           h == [p \in P |-> Alert(g[p[1]][1], p[2], g[p[1]][2], g[p[1]][3], g[p[1]][4],
                                   g[p[1]][5])]
<1>1. IsFiniteSet(P)
  BY SeveritiesFinite, FS_Product
<1>2. ASSUME NEW a \in A
      PROVE  IsAlert(a) /\ a.rule \notin SoftRules /\ \E p \in P : a = h[p]
  <2>1. PICK t \in T, sev \in Severities :
           /\ g[t][1] \notin SoftRules
           /\ a = Alert(g[t][1], sev, g[t][2], g[t][3], g[t][4], g[t][5])
    BY DEF Raise
  <2>2. <<t, sev>> \in P /\ h[<<t, sev>>] = a
    BY <2>1
  <2>3. IsAlert(a) /\ a.rule = g[t][1]
    BY <2>1, AlertIs
  <2> QED BY <2>1, <2>2, <2>3
<1> HIDE DEF h, P
<1>3. IsFiniteSet({h[p] : p \in P})
  BY <1>1, ImageFinite
<1>4. A \subseteq {h[p] : p \in P}
  BY <1>2
<1>5. IsFiniteSet(A)
  BY <1>3, <1>4, FS_Subset
<1> QED BY <1>2, <1>5 DEF Hard, Sound

\* Hard alerts stay hard when they are put together.
LEMMA Joins ==
  ASSUME NEW A, NEW B, Hard(A), Hard(B)
  PROVE  Hard(A \union B)
<1>1. IsFiniteSet(A \union B)
  BY FS_Union DEF Hard, Sound
<1> QED BY <1>1 DEF Hard, Sound

\* A detector that raises nothing raises hard alerts.
LEMMA NothingRaised == Hard({})
  BY FS_EmptySet DEF Hard, Sound

\* What frames name is finite.
LEMMA NamedFinite ==
  ASSUME NEW F, IsFiniteSet(F)
  PROVE  /\ IsFiniteSet({f.src : f \in F}) /\ IsFiniteSet({f.dst : f \in F})
         /\ IsFiniteSet({<<f.src, f.dst>> : f \in F})
         /\ IsFiniteSet({<<f.dst, f.src>> : f \in F})
         /\ IsFiniteSet({<<f.src, f.dport>> : f \in F})
<1>1. IsFiniteSet({f.src : f \in F})
  <2> DEFINE fn == [f \in F |-> f.src]
  <2>1. {f.src : f \in F} = {fn[f] : f \in F}
    OBVIOUS
  <2> HIDE DEF fn
  <2> QED BY <2>1, ImageFinite
<1>2. IsFiniteSet({f.dst : f \in F})
  <2> DEFINE fn == [f \in F |-> f.dst]
  <2>1. {f.dst : f \in F} = {fn[f] : f \in F}
    OBVIOUS
  <2> HIDE DEF fn
  <2> QED BY <2>1, ImageFinite
<1>3. IsFiniteSet({<<f.src, f.dst>> : f \in F})
  <2> DEFINE fn == [f \in F |-> <<f.src, f.dst>>]
  <2>1. {<<f.src, f.dst>> : f \in F} = {fn[f] : f \in F}
    OBVIOUS
  <2> HIDE DEF fn
  <2> QED BY <2>1, ImageFinite
<1>4. IsFiniteSet({<<f.dst, f.src>> : f \in F})
  <2> DEFINE fn == [f \in F |-> <<f.dst, f.src>>]
  <2>1. {<<f.dst, f.src>> : f \in F} = {fn[f] : f \in F}
    OBVIOUS
  <2> HIDE DEF fn
  <2> QED BY <2>1, ImageFinite
<1>5. IsFiniteSet({<<f.src, f.dport>> : f \in F})
  <2> DEFINE fn == [f \in F |-> <<f.src, f.dport>>]
  <2>1. {<<f.src, f.dport>> : f \in F} = {fn[f] : f \in F}
    OBVIOUS
  <2> HIDE DEF fn
  <2> QED BY <2>1, ImageFinite
<1> QED BY <1>1, <1>2, <1>3, <1>4, <1>5

\* What the members of a finite set name in one place is finite.
LEMMA PartsFinite ==
  ASSUME NEW F, IsFiniteSet(F)
  PROVE  /\ IsFiniteSet({t[1] : t \in F})
         /\ IsFiniteSet({t[2] : t \in F})
         /\ IsFiniteSet({<<t[1], t[2]>> : t \in F})
         /\ IsFiniteSet({<<t[1], t[2], t[3]>> : t \in F})
<1>1. IsFiniteSet({t[1] : t \in F})
  <2> DEFINE fn == [t \in F |-> t[1]]
  <2>1. {t[1] : t \in F} = {fn[t] : t \in F}
    OBVIOUS
  <2> HIDE DEF fn
  <2> QED BY <2>1, ImageFinite
<1>2. IsFiniteSet({t[2] : t \in F})
  <2> DEFINE fn == [t \in F |-> t[2]]
  <2>1. {t[2] : t \in F} = {fn[t] : t \in F}
    OBVIOUS
  <2> HIDE DEF fn
  <2> QED BY <2>1, ImageFinite
<1>3. IsFiniteSet({<<t[1], t[2]>> : t \in F})
  <2> DEFINE fn == [t \in F |-> <<t[1], t[2]>>]
  <2>1. {<<t[1], t[2]>> : t \in F} = {fn[t] : t \in F}
    OBVIOUS
  <2> HIDE DEF fn
  <2> QED BY <2>1, ImageFinite
<1>4. IsFiniteSet({<<t[1], t[2], t[3]>> : t \in F})
  <2> DEFINE fn == [t \in F |-> <<t[1], t[2], t[3]>>]
  <2>1. {<<t[1], t[2], t[3]>> : t \in F} = {fn[t] : t \in F}
    OBVIOUS
  <2> HIDE DEF fn
  <2> QED BY <2>1, ImageFinite
<1> QED BY <1>1, <1>2, <1>3, <1>4

\* Alerts of a rule that a role may lower: one for each of these things, which
\* their addresses and their matter tell apart.
Soft(A, rule) == Sound(A) /\ Distinct(A) /\ \A a \in A : a.rule = rule

\* Every alert of A is made from a member of T, which also gives its severity.
RaiseOnce(A, rule, T, sev, g) ==
  \A a \in A : \E t \in T : a = Alert(rule, sev[t], g[t][1], g[t][2], g[t][3], g[t][4])

\* A detector that raises one alert per address and subject raises soft alerts.
LEMMA RaisesOnce ==
  ASSUME NEW A, NEW rule, NEW T, IsFiniteSet(T), NEW sev, NEW g,
         RaiseOnce(A, rule, T, sev, g),
         \A t \in T : sev[t] \in Severities,
         \A t, u \in T : g[t][1] = g[u][1] /\ g[t][3] = g[u][3] => t = u
  PROVE  Soft(A, rule)
<1> DEFINE row == [t \in T |-> Alert(rule, sev[t], g[t][1], g[t][2], g[t][3], g[t][4])]
<1>1. \A t \in T : /\ IsAlert(row[t]) /\ row[t].rule = rule
                   /\ row[t].src = g[t][1] /\ row[t].about = <<rule, g[t][3]>>
  <2> TAKE t \in T
  <2>1. row[t] = Alert(rule, sev[t], g[t][1], g[t][2], g[t][3], g[t][4])
    OBVIOUS
  <2> HIDE DEF row
  <2> QED BY <2>1, AlertIs
<1>2. \A a \in A : \E t \in T : a = row[t]
  BY DEF RaiseOnce
<1> HIDE DEF row
<1>3. IsFiniteSet({row[t] : t \in T}) /\ A \subseteq {row[t] : t \in T}
  BY <1>2, ImageFinite
<1>4. IsFiniteSet(A)
  BY <1>3, FS_Subset
<1>5. Distinct(A)
  <2> SUFFICES ASSUME NEW a \in A, NEW b \in A, SameButSeverity(a, b) PROVE a = b
    BY DEF Distinct
  <2>1. PICK t \in T, u \in T : a = row[t] /\ b = row[u]
    BY <1>2
  <2>2. g[t][1] = g[u][1] /\ <<rule, g[t][3]>> = <<rule, g[u][3]>>
    BY <1>1, <2>1 DEF SameButSeverity
  <2> QED BY <2>1, <2>2
<1> QED BY <1>1, <1>2, <1>4, <1>5 DEF Soft, Sound

\* The severities that detectors work out from others are on the ladder.
LEMMA LadderMoves ==
  ASSUME NEW sev \in Severities, NEW other \in Severities
  PROVE  Lowered(sev, other) \in Severities /\ Capped(sev, other) \in Severities
<1>1. PICK r \in 1..5, q \in 1..5 : r = Rank(sev) /\ q = Rank(other)
  BY SeverityRanks
<1>2. Lowered(sev, other) \in Severities
  <2> DEFINE s == r - 1
             m == Max({q, s})
  <2>1. q \in Int /\ s \in Int
    OBVIOUS
  <2>2. Lowered(sev, other) = Ladder[m]
    BY <1>1 DEF Lowered
  <2>3. s <= 5
    OBVIOUS
  <2> HIDE DEF s
  <2>4. m \in {q, s} /\ m >= q
    <3> HIDE DEF m
    <3> QED BY <2>1, MoreOf DEF m
  <2> HIDE DEF m
  <2>5. m \in 1..5
    BY <2>1, <2>3, <2>4
  <2> QED BY <2>2, <2>5, LadderRanks
<1>3. Capped(sev, other) \in Severities
  <2> DEFINE m == Min({r, q})
  <2>1. r \in Int /\ q \in Int
    OBVIOUS
  <2>2. Capped(sev, other) = Ladder[m]
    BY <1>1 DEF Capped
  <2>3. m \in {r, q}
    <3> HIDE DEF m
    <3> QED BY <2>1, LessOf DEF m
  <2> HIDE DEF m
  <2>4. m \in 1..5
    BY <2>3
  <2> QED BY <2>2, <2>4, LadderRanks
<1> QED BY <1>2, <1>3

\* A severity lowered by some rungs is a severity.
LEMMA Downgrades ==
  ASSUME NEW sev \in Severities, NEW dst
  PROVE  /\ SanctionedDowngrade(dst, sev) \in Severities
         /\ KnownServiceDowngrade(dst, sev) \in Severities
<1>1. "info" \in Severities /\ "low" \in Severities
  BY DEF Severities
<1> QED BY <1>1, LadderMoves DEF SanctionedDowngrade, KnownServiceDowngrade

\* The severity of a scan by one of the monitored hosts is a severity.
LEMMA FromOursIs ==
  ASSUME NEW sev \in Severities, NEW outbound
  PROVE  FromOurs(sev, outbound) \in Severities
<1>1. "low" \in Severities
  BY DEF Severities
<1> QED BY <1>1, LadderMoves DEF FromOurs

\* So is one calibrated by how the connection ended.
LEMMA CalibrateIs ==
  ASSUME NEW sev \in Severities, NEW n, NEW strong
  PROVE  Calibrate(sev, n, strong) \in Severities
<1>1. "medium" \in Severities /\ "high" \in Severities
  BY DEF Severities
<1> QED BY <1>1, LadderMoves DEF Calibrate

\* So is that of a beacon.
LEMMA BeaconRankIs ==
  ASSUME NEW stamps, NEW strong
  PROVE  BeaconRank(stamps, strong) \in 1..5
<1>1. /\ JitterSeverity(stamps, strong) \in Severities
      /\ PeriodicSeverity(stamps, strong) \in Severities
  BY DEF JitterSeverity, PeriodicSeverity, Severities
<1>2. PICK r \in 1..5, q \in 1..5 : /\ r = Rank(JitterSeverity(stamps, strong))
                                    /\ q = Rank(PeriodicSeverity(stamps, strong))
  BY <1>1, SeverityRanks
<1>3. r \in Int /\ q \in Int
  OBVIOUS
<1> DEFINE m == Max({r, q})
<1>4. BeaconRank(stamps, strong) = m
  BY <1>2 DEF BeaconRank
<1>5. m \in {r, q}
  <2> HIDE DEF m
  <2> QED BY <1>3, MoreOf DEF m
<1> HIDE DEF m
<1> QED BY <1>4, <1>5

\* Some of them are of the same kind.
LEMMA Fewer ==
  ASSUME NEW A, NEW B, Hard(B), A \subseteq B
  PROVE  Hard(A)
<1>1. IsFiniteSet(A)
  BY FS_Subset DEF Hard, Sound
<1> QED BY <1>1 DEF Hard, Sound

-----------------------------------------------------------------------------
(* The detectors of reconnaissance *)

\* PortScanDetector raises hard alerts.
LEMMA PortScanRaises ==
  ASSUME NEW s, IsFiniteSet(s.syns)
  PROVE  Hard(PortScanAlerts(s))
<1> DEFINE T == {f.src : f \in s.syns}
           V(src) == Verdicts({f \in s.syns : f.src = src})
           Dst(src) == CHOOSE d \in ScannedTargets(V(src)) :
                         \A e \in ScannedTargets(V(src)) : ~Stronger(V(src)[e], V(src)[d])
           g == [src \in T |-> <<"port_scan", src, Dst(src), V(src)[Dst(src)].kind,
                                 V(src)[Dst(src)].n>>]
<1>1. \A src, dst, nmap : ScanSeverity(src, dst, nmap) \in Severities
  <2>1. \A sev \in Severities : Raised(sev) \in Severities
    <3> TAKE sev \in Severities
    <3> DEFINE m == Min({Len(Ladder), Rank(sev) + 1})
    <3>1. Rank(sev) \in 1..5 /\ Len(Ladder) = 5
      BY SeverityRanks DEF Ladder
    <3>2. PICK r \in 1..5 : r = Rank(sev)
      BY <3>1
    <3>3. 5 \in Int /\ r + 1 \in Int /\ m = Min({5, r + 1})
      BY <3>1, <3>2
    <3>4. m \in {5, r + 1} /\ m <= 5
      <4> HIDE DEF m
      <4>1. PICK q : q = r + 1
        OBVIOUS
      <4> QED BY <3>3, <4>1, LessOf
    <3>5. m \in 1..5
      <4> HIDE DEF m
      <4> QED BY <3>4
    <3> HIDE DEF m
    <3> QED BY <3>5, LadderRanks DEF Raised, m
  <2> QED BY <2>1 DEF ScanSeverity, Severities
<1>2. Raise(PortScanAlerts(s), T, g)
  <2>1. ASSUME NEW a \in PortScanAlerts(s)
        PROVE  \E src \in T : \E nmap : a = ScanAlert(src, V(src), nmap)
    BY DEF PortScanAlerts
  <2>2. ASSUME NEW src \in T, NEW nmap
        PROVE  /\ ScanAlert(src, V(src), nmap)
                    = Alert("port_scan", ScanSeverity(src, Dst(src), nmap), src, Dst(src),
                            V(src)[Dst(src)].kind, V(src)[Dst(src)].n)
               /\ g[src] = <<"port_scan", src, Dst(src), V(src)[Dst(src)].kind,
                             V(src)[Dst(src)].n>>
    BY DEF ScanAlert
  <2> HIDE DEF T, V, Dst, g
  <2>3. "port_scan" \notin SoftRules
    BY DEF SoftRules
  <2> QED BY <1>1, <2>1, <2>2, <2>3 DEF Raise
<1>3. IsFiniteSet(T)
  BY NamedFinite
<1> HIDE DEF g, T
<1> QED BY <1>2, <1>3, Raises

\* The severity a port is listed with.
LEMMA SuspiciousPortsRaise ==
  ASSUME NEW s, IsFiniteSet(DOMAIN s.flows),
         \A k \in DOMAIN s.flows : SuspiciousPorts[k[3]] \in Severities
  PROVE  Hard(SuspiciousPortAlerts(s))
<1> DEFINE T == {key \in DOMAIN s.flows : IsService(s, key)}
           Of(port, server) == {key \in T : key[1] = server /\ key[3] = port}
           Status(key) == BestStatus({FlowStatus(s.flows, k) : k \in Of(key[3], key[1])})
           g == [key \in T |-> <<"suspicious_port", NoHost, key[1], <<key[3], Status(key)>>,
                                 Cardinality(Of(key[3], key[1]))>>]
<1>1. Raise(SuspiciousPortAlerts(s), T, g)
  BY DEF SuspiciousPortAlerts, Raise, SoftRules, Severities
<1>2. IsFiniteSet(T)
  BY FS_Subset
<1> HIDE DEF g, T
<1> QED BY <1>1, <1>2, Raises

\* ArpHostDiscovery raises hard alerts.
LEMMA ArpDiscoveryRaises ==
  ASSUME NEW F, IsFiniteSet(F)
  PROVE  Hard(ArpDiscoveryAlerts(F))
<1> DEFINE T == {f.src : f \in F}
           By(src) == {f \in F : f.src = src}
           g == [src \in T |-> <<"arp_discovery", src, NoHost, "arp",
                                 Cardinality({f.dst : f \in By(src)})>>]
<1>1. Raise(ArpDiscoveryAlerts(F), T, g)
  BY DEF ArpDiscoveryAlerts, Raise, SoftRules, Severities
<1>2. IsFiniteSet(T)
  BY NamedFinite
<1> HIDE DEF g, T
<1> QED BY <1>1, <1>2, Raises

\* PingSweep raises hard alerts.
LEMMA PingSweepRaises ==
  ASSUME NEW s, IsFiniteSet(s.targets)
  PROVE  Hard(PingSweepAlerts(s))
<1> DEFINE T == {t[1] : t \in s.targets}
           g == [src \in T |-> <<"ping_sweep", src, NoHost, "icmp",
                                 Cardinality({t \in s.targets : t[1] = src})>>]
<1>1. Raise(PingSweepAlerts(s), T, g)
  BY DEF PingSweepAlerts, Raise, SoftRules, Severities
<1>2. IsFiniteSet(T)
  BY PartsFinite
<1> HIDE DEF g, T
<1> QED BY <1>1, <1>2, Raises

\* The horizontal scan raises hard alerts.
LEMMA HorizontalScanRaises ==
  ASSUME NEW F, IsFiniteSet(F)
  PROVE  Hard(HorizontalScanAlerts(F))
<1> DEFINE probes == {f \in F : ~Ack(f)}
           T == {<<f.src, f.dport>> : f \in probes}
           Probes(src, port) == {f \in probes : f.src = src /\ f.dport = port}
           Hosts(src, port) ==
             {h \in {f.dst : f \in Probes(src, port)} : port \in WebPorts => IsLocal(h)}
           g == [k \in T |-> <<"host_sweep", k[1], NoHost, k[2],
                               Cardinality(Hosts(k[1], k[2]))>>]
<1>1. Raise(HorizontalScanAlerts(F), T, g)
  BY DEF HorizontalScanAlerts, SweepSeverity, Raise, SoftRules, Severities
<1>2. IsFiniteSet(T)
  <2>1. IsFiniteSet(probes)
    BY FS_Subset
  <2> HIDE DEF probes
  <2> QED BY <2>1, NamedFinite
<1> HIDE DEF g, T
<1> QED BY <1>1, <1>2, Raises

\* The SNMP walk raises hard alerts.
LEMMA SnmpWalkRaises ==
  ASSUME NEW F, IsFiniteSet(F)
  PROVE  Hard(SnmpWalkAlerts(F))
<1> DEFINE T == {<<f.src, f.dst>> : f \in F}
           Pair2(src, dst) == {f \in F : f.src = src /\ f.dst = dst}
           g == [k \in T |-> <<"snmp_walk", k[1], k[2], 161, Cardinality(Pair2(k[1], k[2]))>>]
<1>1. Raise(SnmpWalkAlerts(F), T, g)
  BY DEF SnmpWalkAlerts, Raise, SoftRules, Severities
<1>2. IsFiniteSet(T)
  BY NamedFinite
<1> HIDE DEF g, T
<1> QED BY <1>1, <1>2, Raises

\* LLMNR answers are raised once per responder.
LEMMA LlmnrRaises ==
  ASSUME NEW s, IsFiniteSet(s.answers)
  PROVE  Soft(LlmnrAlerts(s), "llmnr_answers")
<1> DEFINE T == {f.src : f \in s.answers}
           Count2(src) == Cardinality({f \in s.answers : f.src = src})
           Names(src) == Cardinality({m \in s.names : m[1] = src})
           Severity(src) ==
             IF Names(src) \in 1..2 THEN "low"
             ELSE IF \/ Count2(src) >= Threshold.llmnr_response_threshold * 3
                     \/ Names(src) >= 5
             THEN "critical" ELSE "high"
           sev == [src \in T |-> Severity(src)]
           g == [src \in T |-> <<src, NoHost, "names", Count2(src)>>]
<1>1. RaiseOnce(LlmnrAlerts(s), "llmnr_answers", T, sev, g)
  BY DEF LlmnrAlerts, RaiseOnce
<1>2. \A t \in T : sev[t] \in Severities /\ g[t][1] = t
  BY DEF Severities
<1>3. IsFiniteSet(T)
  BY NamedFinite
<1> HIDE DEF sev, g, T
<1> QED BY <1>1, <1>2, <1>3, RaisesOnce

-----------------------------------------------------------------------------
(* The detectors of DNS *)

\* The DNS tunnel raises hard alerts.
LEMMA DnsTunnelRaises ==
  ASSUME NEW s, IsFiniteSet(s.zones)
  PROVE  Hard(DnsTunnelAlerts(s))
<1> DEFINE T == s.zones
           g == [key \in T |-> <<"dns_tunneling", key[1], NoHost, key[2],
                                 Cardinality(NamesUnder(s.names, key))>>]
<1>1. Raise(DnsTunnelAlerts(s), T, g)
  BY DEF DnsTunnelAlerts, Raise, SoftRules, Severities
<1> HIDE DEF g
<1> QED BY <1>1, Raises

\* Cumulative DNS exfiltration raises hard alerts.
LEMMA DnsExfilRaises ==
  ASSUME NEW s, IsFiniteSet(s.sent)
  PROVE  Hard(DnsExfilAlerts(s))
<1> DEFINE T == {ZoneKey(f) : f \in s.sent}
           g == [key \in T |-> <<"dns_cumulative_exfil", key[1], NoHost, key[2],
                                 Cardinality(NamesUnder(s.names, key))>>]
<1>1. Raise(DnsExfilAlerts(s), T, g)
  BY DEF DnsExfilAlerts, Raise, SoftRules, Severities
<1>2. IsFiniteSet(T)
  <2> DEFINE fn == [f \in s.sent |-> ZoneKey(f)]
  <2>1. T = {fn[f] : f \in s.sent}
    OBVIOUS
  <2> HIDE DEF fn
  <2> QED BY <2>1, ImageFinite
<1> HIDE DEF g, T
<1> QED BY <1>1, <1>2, Raises

\* Generated names are raised once per client.
LEMMA DgaRaises ==
  ASSUME NEW s, IsFiniteSet(s)
  PROVE  Soft(DgaAlerts(s), "dga")
<1> DEFINE T == {k[1] : k \in s}
           Of(src) == {m[2] : m \in {k \in s : k[1] = src}}
           Best(src) == Max({m.score : m \in Of(src)})
           N(src) == Cardinality(Of(src))
           Severity(src) ==
             IF N(src) >= 5 \/ (N(src) >= 3 /\ Best(src) >= 85) THEN "critical"
             ELSE IF N(src) >= 2 \/ Best(src) >= 90 THEN "high" ELSE "medium"
           sev == [src \in T |-> Severity(src)]
           g == [src \in T |-> <<src, NoHost, "names", N(src)>>]
<1>1. RaiseOnce(DgaAlerts(s), "dga", T, sev, g)
  BY DEF DgaAlerts, RaiseOnce
<1>2. \A t \in T : sev[t] \in Severities /\ g[t][1] = t
  BY DEF Severities
<1>3. IsFiniteSet(T)
  BY PartsFinite
<1> HIDE DEF sev, g, T
<1> QED BY <1>1, <1>2, <1>3, RaisesOnce

\* A fast-flux name is raised once.
LEMMA FastFluxRaises ==
  ASSUME NEW s, IsFiniteSet(DOMAIN s.client)
  PROVE  Soft(FastFluxAlerts(s), "fast_flux")
<1> DEFINE T == DOMAIN s.client
           Of(q) == {a \in s.answers : a[1] = q}
           Addresses(q) == Cardinality({a[2] : a \in Of(q)})
           Nets(q) == Cardinality({a[3] : a \in Of(q)})
           Timed(q) == {a \in Of(q) : a[4] > 0}
           Lives(q) == Sum(Timed(q), [a \in Timed(q) |-> a[4]])
           ShortLived(q, ttl) == Lives(q) <= ttl * Cardinality(Timed(q))
           Severity(q) ==
             IF Nets(q) < 3 THEN "low"
             ELSE IF 2 * Nets(q) < Addresses(q) THEN "medium"
             ELSE IF Addresses(q) >= Threshold.fastflux_min_ips * 2 /\ ShortLived(q, 60)
             THEN "critical" ELSE "high"
           sev == [q \in T |-> Severity(q)]
           g == [q \in T |-> <<s.client[q], NoHost, q, Addresses(q)>>]
<1>1. RaiseOnce(FastFluxAlerts(s), "fast_flux", T, sev, g)
  BY DEF FastFluxAlerts, RaiseOnce
<1>2. \A t \in T : sev[t] \in Severities /\ g[t][3] = t
  BY DEF Severities
<1> HIDE DEF sev, g
<1> QED BY <1>1, <1>2, RaisesOnce

\* A spike of failed names is raised once per client.
LEMMA NxdomainRaises ==
  ASSUME NEW F, IsFiniteSet(F)
  PROVE  Soft(NxdomainAlerts(F), "nxdomain_spike")
<1> DEFINE T == {f.dst : f \in F}
           To(client) == {f \in F : f.dst = client}
           Peak(client) == SlidingPeak(To(client), FailedName(To(client)),
                                       Threshold.nxdomain_window)
           Names(client) == NamesAtPeak(To(client), Threshold.nxdomain_window)
           Scored(client) == Cardinality({m \in Names(client) : m.len >= 6})
           Random(client) ==
             Cardinality({m \in Names(client) :
                            m.len >= 6 /\ m.score >= Threshold.dga_score_threshold})
           Severity(client) ==
             IF /\ Peak(client) >= Threshold.nxdomain_threshold * 2
                /\ Scored(client) > 0
                /\ 10 * Random(client) >= 3 * Scored(client)
             THEN "critical"
             ELSE IF Scored(client) > 0 /\ 10 * Random(client) < Scored(client)
             THEN "medium" ELSE "high"
           sev == [c \in T |-> Severity(c)]
           g == [c \in T |-> <<c, NoHost, "names", Peak(c)>>]
<1>1. RaiseOnce(NxdomainAlerts(F), "nxdomain_spike", T, sev, g)
  BY DEF NxdomainAlerts, RaiseOnce
<1>2. \A t \in T : sev[t] \in Severities /\ g[t][1] = t
  BY DEF Severities
<1>3. IsFiniteSet(T)
  BY NamedFinite
<1> HIDE DEF sev, g, T
<1> QED BY <1>1, <1>2, <1>3, RaisesOnce

\* A suspicious TLD is raised once per client and TLD.
LEMMA SuspiciousTldRaises ==
  ASSUME NEW s, IsFiniteSet(s)
  PROVE  Soft(SuspiciousTldAlerts(s), "suspicious_tld")
<1> DEFINE T == {<<m[1], m[2]>> : m \in s}
           N(key) == Cardinality(NamesUnder(s, key))
           Severity(key) == IF N(key) >= 5 THEN "high"
                            ELSE IF N(key) >= 3 THEN "medium" ELSE "low"
           sev == [key \in T |-> Severity(key)]
           g == [key \in T |-> <<key[1], NoHost, key[2], N(key)>>]
<1>1. RaiseOnce(SuspiciousTldAlerts(s), "suspicious_tld", T, sev, g)
  BY DEF SuspiciousTldAlerts, RaiseOnce
<1>2. \A t \in T : sev[t] \in Severities
  BY DEF Severities
<1>3. \A t, u \in T : g[t][1] = g[u][1] /\ g[t][3] = g[u][3] => t = u
  OBVIOUS
<1>4. IsFiniteSet(T)
  BY PartsFinite
<1> HIDE DEF sev, g, T
<1> QED BY <1>1, <1>2, <1>3, <1>4, RaisesOnce

\* DNS over TLS raises hard alerts.
LEMMA DotRaises ==
  ASSUME NEW s, IsFiniteSet(s)
  PROVE  Hard(DotAlerts(s))
<1> DEFINE g == [k \in s |-> <<"dns_over_tls", k[1], k[2], 853, 1>>]
<1>1. Raise(DotAlerts(s), s, g)
  BY DEF DotAlerts, Raise, SoftRules, Severities
<1> HIDE DEF g
<1> QED BY <1>1, Raises

\* The DNS beacon raises hard alerts.
LEMMA DnsBeaconRaises ==
  ASSUME NEW F, IsFiniteSet(F)
  PROVE  Hard(DnsBeaconAlerts(F))
<1> DEFINE T == {ZoneKey(f) : f \in F}
           g == [key \in T |-> <<"cs_dns_beacon", key[1], NoHost, key[2],
                                 Cardinality({f \in F : ZoneKey(f) = key})>>]
<1>1. Raise(DnsBeaconAlerts(F), T, g)
  BY DEF DnsBeaconAlerts, BeaconSeverity, Raise, SoftRules, Severities
<1>2. IsFiniteSet(T)
  <2> DEFINE fn == [f \in F |-> ZoneKey(f)]
  <2>1. T = {fn[f] : f \in F}
    OBVIOUS
  <2> HIDE DEF fn
  <2> QED BY <2>1, ImageFinite
<1> HIDE DEF g, T
<1> QED BY <1>1, <1>2, Raises

-----------------------------------------------------------------------------
(* The detectors of spoofing *)

\* ARP spoofing raises hard alerts: those of the stream and those of the changes.
LEMMA ArpSpoofRaises ==
  ASSUME NEW s, Hard(s.alerts), IsFiniteSet(DOMAIN s.changes)
  PROVE  Hard(ArpSpoofAlerts(s))
<1> DEFINE A == {IF Poisoned(s, ip)
                 THEN Alert("arp_spoofing", "critical", ip, NoHost, "arp", Len(s.changes[ip]))
                 ELSE Alert("arp_mac_change", IF ip \in Gateways THEN "high" ELSE "medium",
                            ip, NoHost, "arp", Len(s.changes[ip]))
                   : ip \in DOMAIN s.changes}
           T == DOMAIN s.changes
           g == [ip \in T |-> <<IF Poisoned(s, ip) THEN "arp_spoofing" ELSE "arp_mac_change",
                                ip, NoHost, "arp", Len(s.changes[ip])>>]
<1>1. ArpSpoofAlerts(s) = s.alerts \union A
  BY DEF ArpSpoofAlerts
<1>2. Raise(A, T, g)
  BY DEF Raise, SoftRules, Severities
<1> HIDE DEF A, g
<1> QED BY <1>1, <1>2, Raises, Joins

-----------------------------------------------------------------------------
(* The detectors of access *)

\* Cleartext protocols raise hard alerts.
LEMMA InsecureRaises ==
  ASSUME NEW flows, IsFiniteSet(DOMAIN flows)
  PROVE  Hard(InsecureAlerts(flows))
<1> DEFINE T == DOMAIN flows
           Of(server, port) == {k \in DOMAIN flows : k[1] = server /\ k[3] = port}
           g == [k \in T |-> <<"insecure_protocol", NoHost, k[1], k[3],
                               Cardinality(Of(k[1], k[3]))>>]
<1>1. \A port, status : InsecureSeverity(port, status) \in Severities
  BY DEF InsecureSeverity, Severities
<1>2. Raise(InsecureAlerts(flows), T, g)
  BY <1>1 DEF InsecureAlerts, Raise, SoftRules
<1> HIDE DEF g
<1> QED BY <1>2, Raises

\* Cleartext credentials raise hard alerts.
LEMMA CredentialsRaise ==
  ASSUME NEW s, IsFiniteSet(s.seen)
  PROVE  Hard(CredentialsAlerts(s))
<1> DEFINE T == {m.conv : m \in s.seen}
           g == [c \in T |-> <<"cleartext_credentials", c[1], c[2], c[3],
                               Cardinality({m \in s.seen : m.conv = c})>>]
<1>1. Raise(CredentialsAlerts(s), T, g)
  BY DEF CredentialsAlerts, Raise, SoftRules, Severities
<1>2. IsFiniteSet(T)
  <2> DEFINE fn == [m \in s.seen |-> m.conv]
  <2>1. T = {fn[m] : m \in s.seen}
    OBVIOUS
  <2> HIDE DEF fn
  <2> QED BY <2>1, ImageFinite
<1> HIDE DEF g, T
<1> QED BY <1>1, <1>2, Raises

\* SMB across the border raises hard alerts.
LEMMA SmbRaises ==
  ASSUME NEW s, IsFiniteSet(s.crossings)
  PROVE  Hard(SmbAlerts(s))
<1> DEFINE T == s.crossings
           g == [c \in T |-> <<IF IsLocal(c[2]) THEN "smb_inbound" ELSE "smb_outbound",
                               c[1], c[2], 445, 1>>]
           Severity(c) ==
             SmbSeverity(IsLocal(c[2]),
                         BestStatus({FlowStatus(s.flows, k) :
                           k \in {j \in DOMAIN s.flows : j[1] = c[2] /\ j[2] = c[1]}}))
<1>1. SmbAlerts(s) = {Alert(IF IsLocal(c[2]) THEN "smb_inbound" ELSE "smb_outbound",
                            Severity(c), c[1], c[2], 445, 1) : c \in T}
  BY DEF SmbAlerts
<1>2. \A c : Severity(c) \in Severities
  BY DEF SmbSeverity, Severities
<1> HIDE DEF Severity
<1>3. Raise(SmbAlerts(s), T, g)
  BY <1>1, <1>2 DEF Raise, SoftRules
<1> HIDE DEF g
<1> QED BY <1>3, Raises

\* The three Kerberos rules raise hard alerts.
LEMMA KerberosRaises ==
  ASSUME NEW F, IsFiniteSet(F)
  PROVE  Hard(KerberosAlerts(F))
<1> DEFINE Sent(pair, msg) == {f \in F : KdcPair(f) = pair /\ f.msg = msg}
           Rc4(pair, msg) == Cardinality({f \in Sent(pair, msg) : f.rc4})
           T == {KdcPair(f) : f \in F}
           g == [p \in T |-> <<"kerberoasting", p[1], p[2], 88, Rc4(p, "tgs_req")>>]
           h == [p \in T |-> <<"as_rep_roasting", p[1], p[2], 88,
                               Cardinality(Sent(p, "as_rep"))>>]
           d == [p \in T |-> <<"rc4_downgrade", p[1], p[2], 88, Rc4(p, "as_req")>>]
           A == {Alert("kerberoasting", IF Rc4(p, "tgs_req") >= 3 THEN "critical" ELSE "high",
                       p[1], p[2], 88, Rc4(p, "tgs_req")) : p \in T}
           B == {Alert("as_rep_roasting", "high", p[1], p[2], 88,
                       Cardinality(Sent(p, "as_rep"))) : p \in T}
           D == {Alert("rc4_downgrade", "high", p[1], p[2], 88, Rc4(p, "as_req")) : p \in T}
<1>1. KerberosAlerts(F) \subseteq (A \union B) \union D
  BY DEF KerberosAlerts
<1>2. Raise(A, T, g) /\ Raise(B, T, h) /\ Raise(D, T, d)
  BY DEF Raise, SoftRules, Severities
<1>3. IsFiniteSet(T)
  <2> DEFINE fn == [f \in F |-> KdcPair(f)]
  <2>1. T = {fn[f] : f \in F}
    OBVIOUS
  <2> HIDE DEF fn
  <2> QED BY <2>1, ImageFinite
<1> HIDE DEF g, h, d, T, A, B, D
<1>4. Hard((A \union B) \union D)
  BY <1>2, <1>3, Raises, Joins
<1> QED BY <1>1, <1>4, Fewer

\* Brute force raises hard alerts.
LEMMA BruteForceRaises ==
  ASSUME NEW s, IsFiniteSet(DOMAIN s.last)
  PROVE  Hard(BruteForceAlerts(s))
<1> DEFINE T == DOMAIN s.last
           Tries(key) == {f \in s.tries : Conversation(f) = key}
           Window(key) == DensestWindow(Tries(key), [f \in Tries(key) |-> f.id],
                                        Threshold.brute_force_time_window)
           g == [key \in T |-> <<"brute_force", key[1], key[2], key[3],
                                 Cardinality(Window(key))>>]
<1>1. \A key, window : BruteForceVerdict(s, key, window) \in Severities
  BY DEF BruteForceVerdict, Severities
<1>2. Raise(BruteForceAlerts(s), T, g)
  BY <1>1 DEF BruteForceAlerts, Raise, SoftRules
<1> HIDE DEF g
<1> QED BY <1>2, Raises

\* Password spraying raises hard alerts.
LEMMA SprayRaises ==
  ASSUME NEW s, IsFiniteSet(s.tries)
  PROVE  Hard(SprayAlerts(s))
<1> DEFINE T == {<<f.src, f.dport>> : f \in s.tries}
           Of(src, port) == {f \in s.tries : f.src = src /\ f.dport = port}
           Peak(src, port) == PeakOf(FirstTries(Of(src, port)),
                                     [f \in FirstTries(Of(src, port)) |-> f.dst],
                                     Threshold.spray_time_window)
           g == [k \in T |-> <<"password_spraying", k[1], NoHost, k[2], Peak(k[1], k[2])>>]
<1>1. \A src, port, targets : SpraySeverity(s, src, port, targets) \in Severities
  BY DEF SpraySeverity, Severities
<1>2. Raise(SprayAlerts(s), T, g)
  BY <1>1 DEF SprayAlerts, Raise, SoftRules
<1>3. IsFiniteSet(T)
  BY NamedFinite
<1> HIDE DEF g, T
<1> QED BY <1>2, <1>3, Raises

-----------------------------------------------------------------------------
(* The detectors of what leaves *)

\* The ICMP tunnel raises hard alerts.
LEMMA IcmpTunnelRaises ==
  ASSUME NEW F, IsFiniteSet(F)
  PROVE  Hard(IcmpTunnelAlerts(F))
<1> DEFINE T == {<<f.src, f.dst>> : f \in F}
           g == [p \in T |-> <<"icmp_tunneling", p[1], p[2], "icmp",
                               Cardinality({f \in F : <<f.src, f.dst>> = p})>>]
<1>1. Raise(IcmpTunnelAlerts(F), T, g)
  BY DEF IcmpTunnelAlerts, Raise, SoftRules, Severities
<1>2. IsFiniteSet(T)
  BY NamedFinite
<1> HIDE DEF g, T
<1> QED BY <1>1, <1>2, Raises

\* Both detectors of pairs.
LEMMA UploadsRaise ==
  ASSUME NEW F, IsFiniteSet(F)
  PROVE  Hard(VolumeAlerts(F)) /\ Hard(SustainedAlerts(F))
<1> DEFINE T == {Pair(f) : f \in F}
           g == [p \in T |-> <<"volume_exfil", p[1], p[2], "upload", Out(F, p)>>]
           h == [p \in T |-> <<"sustained_exfil", p[1], p[2], "drip", Out(F, p)>>]
<1>1. \A out : VolumeSeverity(out) \in Severities
  BY DEF VolumeSeverity, Severities
<1>2. Raise(VolumeAlerts(F), T, g)
  BY <1>1, Downgrades DEF VolumeAlerts, Raise, SoftRules
<1>3. "high" \in Severities /\ "medium" \in Severities
  BY DEF Severities
<1>4. Raise(SustainedAlerts(F), T, h)
  BY <1>3, Downgrades DEF SustainedAlerts, Raise, SoftRules
<1>5. IsFiniteSet(T)
  <2> DEFINE fn == [f \in F |-> Pair(f)]
  <2>1. T = {fn[f] : f \in F}
    OBVIOUS
  <2> HIDE DEF fn
  <2> QED BY <2>1, ImageFinite
<1> HIDE DEF g, h, T
<1> QED BY <1>2, <1>4, <1>5, Raises

\* The upload of a machine raises hard alerts.
LEMMA HostExfilRaises ==
  ASSUME NEW s, IsFiniteSet(s.out), IsFiniteSet(s.in), NEW HostOf
  PROVE  Hard(HostExfilAlerts(s, HostOf))
<1> DEFINE OutOf(p) == BytesOf({f \in s.out : <<f.src, f.dst>> = p})
           Ours == {p \in Booked(s) : p[1] \in DOMAIN HostOf /\ p[2] \notin DOMAIN HostOf}
           Group(p) == <<HostOf[p[1]], DestinationOf(p[2])>>
           Of(g) == {p \in Ours : Group(p) = g}
           SentOver(P) == Sum(P, [p \in P |-> OutOf(p)])
           Peers(g) == {p[2] : p \in Of(g)}
           TopPeer(g) == Most(Peers(g), [peer \in Peers(g) |->
                                           SentOver({p \in Of(g) : p[2] = peer})])
           Senders(g) == {p[1] : p \in {q \in Of(g) : OutOf(q) > 0}}
           TopIp(g) == Most(Senders(g), [ip \in Senders(g) |-> OutOf(<<ip, TopPeer(g)>>)])
           T == {Group(p) : p \in Ours}
           h == [g \in T |-> <<"host_exfil", TopIp(g), TopPeer(g), g, SentOver(Of(g))>>]
<1>1. \A out : VolumeSeverity(out) \in Severities
  BY DEF VolumeSeverity, Severities
<1>2. Raise(HostExfilAlerts(s, HostOf), T, h)
  BY <1>1, Downgrades DEF HostExfilAlerts, Raise, SoftRules
<1>3. IsFiniteSet(T)
  <2>1. IsFiniteSet(Booked(s))
    BY NamedFinite, FS_Union DEF Booked
  <2>2. IsFiniteSet(Ours)
    BY <2>1, FS_Subset
  <2> DEFINE fn == [p \in Ours |-> Group(p)]
  <2>3. T = {fn[p] : p \in Ours}
    OBVIOUS
  <2> HIDE DEF fn, Ours
  <2> QED BY <2>2, <2>3, ImageFinite
<1> HIDE DEF h, T
<1> QED BY <1>2, <1>3, Raises

\* Payload entropy raises hard alerts.
LEMMA EntropyRaises ==
  ASSUME NEW s, IsFiniteSet(s.sampled)
  PROVE  Hard(EntropyAlerts(s))
<1> DEFINE T == {EntropyFlow(f) : f \in s.sampled}
           Of(k) == {f \in s.sampled : EntropyFlow(f) = k}
           g == [k \in T |-> <<"payload_entropy", k[1], k[2], k[3], Payload(Of(k))>>]
<1>1. Raise(EntropyAlerts(s), T, g)
  BY DEF EntropyAlerts, Raise, SoftRules, Severities
<1>2. IsFiniteSet(T)
  <2> DEFINE fn == [f \in s.sampled |-> EntropyFlow(f)]
  <2>1. T = {fn[f] : f \in s.sampled}
    OBVIOUS
  <2> HIDE DEF fn
  <2> QED BY <2>1, ImageFinite
<1> HIDE DEF g, T
<1> QED BY <1>1, <1>2, Raises

\* Lateral movement raises hard alerts.
LEMMA LateralRaises ==
  ASSUME NEW s, IsFiniteSet(s)
  PROVE  Hard(LateralAlerts(s))
<1> DEFINE T == {<<m[1], m[2]>> : m \in s}
           Targets(src, port) == {m[3] : m \in {k \in s : k[1] = src /\ k[2] = port}}
           Clients(dst, port) == {m[1] : m \in {k \in s : k[2] = port /\ k[3] = dst}}
           Shared(src, port) ==
             {d \in Targets(src, port) : Cardinality(Clients(d, port) \ {src})
                                           >= Threshold.lateral_shared_server_min_clients}
           Peers(src, port) == Cardinality(Targets(src, port) \ Shared(src, port))
           g == [k \in T |-> <<"lateral", k[1], NoHost, k[2], Peers(k[1], k[2])>>]
<1>1. Raise(LateralAlerts(s), T, g)
  BY DEF LateralAlerts, Raise, SoftRules, Severities
<1>2. IsFiniteSet(T)
  BY PartsFinite
<1> HIDE DEF g, T
<1> QED BY <1>1, <1>2, Raises

\* Beaconing by SYNs raises hard alerts.
LEMMA BeaconingRaises ==
  ASSUME NEW s, IsFiniteSet(s.syns)
  PROVE  Hard(BeaconingAlerts(s))
<1> DEFINE T == {BeaconKey(f) : f \in s.syns}
           Times(key) == StampsOf({f \in s.syns : BeaconKey(f) = key})
           Strong(key) == PhaseLocked(Times(key)) /\ Uniform(SizesTo(s, key))
           g == [k \in T |-> <<"beaconing", k[1], k[2], k[3], Len(Times(k))>>]
<1>1. \A a \in BeaconingAlerts(s) : \E k \in T : a = BeaconAlert(k, Times(k), Strong(k))
  BY DEF BeaconingAlerts
<1>2. \A k \in T : g[k] = <<"beaconing", k[1], k[2], k[3], Len(Times(k))>>
  OBVIOUS
<1>3. IsFiniteSet(T)
  <2> DEFINE fn == [f \in s.syns |-> BeaconKey(f)]
  <2>1. T = {fn[f] : f \in s.syns}
    OBVIOUS
  <2> HIDE DEF fn
  <2> QED BY <2>1, ImageFinite
<1> HIDE DEF g, T, Times, Strong
<1>4. \A k, stamps, strong : \E sev \in Severities :
        BeaconAlert(k, stamps, strong) = Alert("beaconing", sev, k[1], k[2], k[3], Len(stamps))
  <2> TAKE k, stamps, strong
  <2> DEFINE base == Ladder[BeaconRank(stamps, strong)]
             sev == KnownServiceDowngrade(k[2], Calibrate(base, Len(stamps), strong))
  <2>1. base \in Severities
    BY BeaconRankIs, LadderRanks
  <2>2. BeaconAlert(k, stamps, strong)
          = Alert("beaconing", sev, k[1], k[2], k[3], Len(stamps))
    BY DEF BeaconAlert
  <2> HIDE DEF base
  <2>3. sev \in Severities
    BY <2>1, CalibrateIs, Downgrades
  <2> QED BY <2>2, <2>3
<1>5. Raise(BeaconingAlerts(s), T, g)
  BY <1>1, <1>2, <1>4 DEF Raise, SoftRules
<1> QED BY <1>3, <1>5, Raises

\* Beaconing inside a connection raises hard alerts.
LEMMA ConnBeaconRaises ==
  ASSUME NEW s, IsFiniteSet(DOMAIN s)
  PROVE  Hard(ConnBeaconAlerts(s))
<1> DEFINE T == DOMAIN s
           g == [k \in T |-> <<"conn_beaconing", k[1], k[3], <<k[2], k[4]>>,
                               Len(s[k].stamps)>>]
<1>1. \A stamps, strong, peak : BurstSeverity(stamps, strong, peak) \in Severities
  BY DEF BurstSeverity, Severities
<1>2. Raise(ConnBeaconAlerts(s), T, g)
  BY <1>1, Downgrades DEF ConnBeaconAlerts, Raise, SoftRules
<1> HIDE DEF g
<1> QED BY <1>2, Raises

-----------------------------------------------------------------------------
(* The detectors of exposure *)

\* The four kinds of tunnel raise hard alerts.
LEMMA TunnelRaises ==
  ASSUME NEW s, IsFiniteSet(DOMAIN s.doq), IsFiniteSet(DOMAIN s.wireguard),
         IsFiniteSet(DOMAIN s.openvpn), IsFiniteSet(DOMAIN s.encapsulated)
  PROVE  Hard(TunnelAlerts(s))
<1> DEFINE A == {Alert("doq", "high", k[1], k[2], k[3], s.doq[k]) : k \in DOMAIN s.doq}
           B == {Alert("wireguard", IF s.disguised[k] THEN "high" ELSE "low", k[1], k[2], k[3],
                       s.wireguard[k]) : k \in DOMAIN s.wireguard}
           C == {Alert("openvpn", "high", k[1], k[2], k[3], s.openvpn[k]) :
                   k \in DOMAIN s.openvpn}
           D == {Alert("encapsulation", "medium", k[1], k[2], k[3], s.encapsulated[k]) :
                   k \in DOMAIN s.encapsulated}
           g == [k \in DOMAIN s.doq |-> <<"doq", k[1], k[2], k[3], s.doq[k]>>]
           h == [k \in DOMAIN s.wireguard |->
                   <<"wireguard", k[1], k[2], k[3], s.wireguard[k]>>]
           i == [k \in DOMAIN s.openvpn |-> <<"openvpn", k[1], k[2], k[3], s.openvpn[k]>>]
           j == [k \in DOMAIN s.encapsulated |->
                   <<"encapsulation", k[1], k[2], k[3], s.encapsulated[k]>>]
<1>1. TunnelAlerts(s) = ((A \union B) \union C) \union D
  BY DEF TunnelAlerts
<1>2. Raise(A, DOMAIN s.doq, g) /\ Raise(B, DOMAIN s.wireguard, h)
  BY DEF Raise, SoftRules, Severities
<1>3. Raise(C, DOMAIN s.openvpn, i) /\ Raise(D, DOMAIN s.encapsulated, j)
  BY DEF Raise, SoftRules, Severities
<1> HIDE DEF A, B, C, D, g, h, i, j
<1>4. Hard(A) /\ Hard(B) /\ Hard(C) /\ Hard(D)
  BY <1>2, <1>3, Raises
<1> QED BY <1>1, <1>4, Joins

\* Industrial protocols, present or written to, raise hard alerts.
LEMMA IcsRaises ==
  ASSUME NEW s, IsFiniteSet(s.presence), IsFiniteSet(s.writes)
  PROVE  Hard(IcsAlerts(s))
<1> DEFINE Frames(protocol) == {m \in s.presence : IcsPorts[m[3]] = protocol}
           StatusOfSample(m) ==
             IF <<m[2], m[1], m[3]>> \in DOMAIN s.flows
             THEN FlowStatus(s.flows, <<m[2], m[1], m[3]>>)
             ELSE FlowStatus(s.flows, <<m[1], m[2], m[3]>>)
           About(p) == <<p, BestStatus({StatusOfSample(m) : m \in Frames(p)})>>
           N(p) == Cardinality(Frames(p))
           W(k) == Cardinality({f \in s.writes : f.src = k[1] /\ f.dst = k[2]})
           T == {IcsPorts[m[3]] : m \in s.presence}
           U == {<<f.src, f.dst>> : f \in s.writes}
           A == {Alert("ics_presence", "medium", NoHost, NoHost, About(p), N(p)) : p \in T}
           B == {Alert("modbus_write", "critical", k[1], k[2], 502, W(k)) : k \in U}
           g == [p \in T |-> <<"ics_presence", NoHost, NoHost, About(p), N(p)>>]
           h == [k \in U |-> <<"modbus_write", k[1], k[2], 502, W(k)>>]
<1>1. IcsAlerts(s) = A \union B
  BY DEF IcsAlerts
<1>2. IsFiniteSet(T)
  <2> DEFINE fn == [m \in s.presence |-> IcsPorts[m[3]]]
  <2>1. T = {fn[m] : m \in s.presence}
    OBVIOUS
  <2> HIDE DEF fn, T
  <2> QED BY <2>1, ImageFinite
<1>3. IsFiniteSet(U)
  BY NamedFinite
<1> HIDE DEF T, U, About, N, W
<1>4. "medium" \in Severities /\ "critical" \in Severities
  BY DEF Severities
<1>5. "ics_presence" \notin SoftRules /\ "modbus_write" \notin SoftRules
  BY DEF SoftRules
<1>6. Raise(A, T, g)
  BY <1>4, <1>5 DEF Raise
<1>7. Raise(B, U, h)
  BY <1>4, <1>5 DEF Raise
<1> HIDE DEF A, B, g, h
<1> QED BY <1>1, <1>2, <1>3, <1>6, <1>7, Raises, Joins

\* Exposed databases and pipes raise hard alerts.
LEMMA ExposureRaises ==
  ASSUME NEW s, IsFiniteSet(s.db), IsFiniteSet(s.pipes)
  PROVE  Hard(ExposureAlerts(s))
<1> DEFINE Packets(k) == Cardinality({m \in s.db : <<m[1], m[2], m[3]>> = k})
           Targets(src, tier) ==
             Cardinality({m[2] : m \in {q \in s.pipes : q[1] = src /\ Tier(q[3]) = tier}})
           Reqs(k) == Cardinality({m \in s.pipes : <<m[1], m[2], m[3]>> = k})
           T == {<<m[1], m[2], m[3]>> : m \in s.db}
           U == {<<m[1], m[2], m[3]>> : m \in s.pipes}
           A == {Alert("database_exposed",
                       ExposedSeverity(k \in s.greeted, FlowStatus(s.flows, k)),
                       k[2], k[1], k[3], Packets(k)) : k \in T}
           B == {Alert("lateral_pipe",
                       PipeSeverity(IsLocal(k[1]), Tier(k[3]), Targets(k[1], Tier(k[3]))),
                       k[1], k[2], k[3], Reqs(k)) : k \in U}
           g == [k \in T |-> <<"database_exposed", k[2], k[1], k[3], Packets(k)>>]
           h == [k \in U |-> <<"lateral_pipe", k[1], k[2], k[3], Reqs(k)>>]
<1>1. ExposureAlerts(s) = A \union B
  BY DEF ExposureAlerts
<1>2. /\ \A greeted, status : ExposedSeverity(greeted, status) \in Severities
      /\ \A local, tier, n : PipeSeverity(local, tier, n) \in Severities
  BY DEF ExposedSeverity, PipeSeverity, Severities
<1>3. IsFiniteSet(T) /\ IsFiniteSet(U)
  BY PartsFinite
<1>4. Raise(A, T, g) /\ Raise(B, U, h)
  <2> HIDE DEF Targets, Packets, Reqs
  <2> QED BY <1>2 DEF Raise, SoftRules
<1> HIDE DEF A, B, T, U, g, h
<1> QED BY <1>1, <1>3, <1>4, Raises, Joins

\* An interface is listed with a severity.
LEMMA BindRaises ==
  ASSUME NEW s, IsFiniteSet(s.binds), \A m \in s.binds : Interfaces[m[3]] \in Severities
  PROVE  Hard(BindAlerts(s))
<1> DEFINE T == {<<m[1], m[2], m[3]>> : m \in s.binds}
           g == [k \in T |-> <<"rpc_bind", k[1], k[2], k[3],
                               Cardinality({m \in s.binds : <<m[1], m[2], m[3]>> = k})>>]
<1>1. \A k \in T : BindSeverity(s, k) \in Severities
  <2>1. \A k \in T : Interfaces[k[3]] \in Severities
    OBVIOUS
  <2> HIDE DEF T
  <2> QED BY <2>1 DEF BindSeverity, Severities
<1>2. Raise(BindAlerts(s), T, g)
  BY <1>1 DEF BindAlerts, Raise, SoftRules
<1>3. IsFiniteSet(T)
  BY PartsFinite
<1> HIDE DEF g, T
<1> QED BY <1>2, <1>3, Raises

-----------------------------------------------------------------------------
(* The detectors of what the aggregators collected.  Lists are finite. *)

\* What the aggregators collect in the order of the capture.
List(s) == \E S : s \in Seq(S)

\* A list has finitely many positions and elements.
LEMMA ListFinite ==
  ASSUME NEW s, List(s)
  PROVE  IsFiniteSet(DOMAIN s) /\ IsFiniteSet(ToSet(s))
<1>1. PICK n \in Nat : DOMAIN s = 1..n
  <2>1. PICK S : s \in Seq(S)
    BY DEF List
  <2> QED BY <2>1
<1>2. IsFiniteSet(1..n)
  <2>1. 1 \in Int /\ n \in Int
    OBVIOUS
  <2> QED BY <2>1, FS_Interval, Zenon
<1>3. IsFiniteSet({s[i] : i \in DOMAIN s})
  BY <1>1, <1>2, ImageFinite
<1> QED BY <1>1, <1>2, <1>3 DEF ToSet

\* An address with several MACs raises hard alerts.
LEMMA IpMacRaises ==
  ASSUME NEW macs, IsFiniteSet(DOMAIN macs)
  PROVE  Hard(IpMacAlerts(macs))
<1> DEFINE T == DOMAIN macs
           g == [ip \in T |-> <<"ip_macs", ip, NoHost, IsLocal(ip), Cardinality(macs[ip])>>]
<1>1. Raise(IpMacAlerts(macs), T, g)
  BY DEF IpMacAlerts, Raise, SoftRules, Severities
<1> HIDE DEF g
<1> QED BY <1>1, Raises

\* Machines with several addresses, and conflicts, raise hard alerts.
LEMMA HostAddressRaises ==
  ASSUME NEW hosts, IsFiniteSet(hosts), NEW conflicts, IsFiniteSet(conflicts)
  PROVE  Hard(HostAddressAlerts(hosts, conflicts))
<1> DEFINE InScope(h, scopes) ==
             {a \in h.addresses : a.binding = "auto" /\ a.scope \in scopes}
           V4(h) == InScope(h, {"v4_private", "v4_public"})
           LinkLocal(h) == InScope(h, {"v6_link_local"})
           Together(A) == \E a, b \in A : a # b /\ Overlap(a, b)
           A4 == {Alert("host_addresses", IF Together(V4(h)) THEN "medium" ELSE "low",
                        h.key, NoHost, "v4", Cardinality(V4(h))) : h \in hosts}
           A6 == {Alert("host_addresses", "medium", h.key, NoHost, "v6",
                        Cardinality(LinkLocal(h))) : h \in hosts}
           B == {Alert("binding_conflict", "medium", c.ip, NoHost, c.mac, 1) : c \in conflicts}
           g == [h \in hosts |-> <<"host_addresses", h.key, NoHost, "v4", Cardinality(V4(h))>>]
           j == [h \in hosts |-> <<"host_addresses", h.key, NoHost, "v6",
                                   Cardinality(LinkLocal(h))>>]
           k == [c \in conflicts |-> <<"binding_conflict", c.ip, NoHost, c.mac, 1>>]
<1>1. HostAddressAlerts(hosts, conflicts) \subseteq (A4 \union A6) \union B
  BY DEF HostAddressAlerts
<1> HIDE DEF V4, LinkLocal, InScope, Together
<1>2. Raise(A4, hosts, g) /\ Raise(A6, hosts, j)
  BY DEF Raise, SoftRules, Severities
<1>3. Raise(B, conflicts, k)
  BY DEF Raise, SoftRules, Severities
<1> HIDE DEF A4, A6, B, g, j, k
<1>4. Hard((A4 \union A6) \union B)
  BY <1>2, <1>3, Raises, Joins
<1> QED BY <1>1, <1>4, Fewer

\* Old TLS, offered or chosen, raises hard alerts.
LEMMA OldTlsRaises ==
  ASSUME NEW C, NEW S, List(C), List(S)
  PROVE  Hard(OldTlsAlerts(C, S))
<1> DEFINE offered == {<<f.src, f.dst, f.ver>> : f \in {g \in ToSet(C) : g.ver \in OldVersions}}
           confirmed ==
             {<<f.dst, f.src, f.ver>> : f \in {g \in ToSet(S) : g.ver \in OldVersions}}
           T == offered \union confirmed
           g == [k \in T |-> <<"old_tls", k[1], k[2], k[3], 1>>]
<1>1. Raise(OldTlsAlerts(C, S), T, g)
  BY DEF OldTlsAlerts, Raise, SoftRules, Severities
<1>2. IsFiniteSet(offered)
  <2> DEFINE F == {f \in ToSet(C) : f.ver \in OldVersions}
             fn == [f \in F |-> <<f.src, f.dst, f.ver>>]
  <2>1. IsFiniteSet(F)
    BY ListFinite, FS_Subset
  <2>2. offered = {fn[f] : f \in F}
    OBVIOUS
  <2> HIDE DEF F, fn
  <2> QED BY <2>1, <2>2, ImageFinite
<1>3. IsFiniteSet(confirmed)
  <2> DEFINE F == {f \in ToSet(S) : f.ver \in OldVersions}
             fn == [f \in F |-> <<f.dst, f.src, f.ver>>]
  <2>1. IsFiniteSet(F)
    BY ListFinite, FS_Subset
  <2>2. confirmed = {fn[f] : f \in F}
    OBVIOUS
  <2> HIDE DEF F, fn
  <2> QED BY <2>1, <2>2, ImageFinite
<1>4. IsFiniteSet(T)
  <2> HIDE DEF offered, confirmed
  <2> QED BY <1>2, <1>3, FS_Union
<1> HIDE DEF g, T
<1> QED BY <1>1, <1>4, Raises

\* A suspicious SNI, or none, raises hard alerts.
LEMMA SniRaises ==
  ASSUME NEW C, List(C)
  PROVE  Hard(SniAlerts(C))
<1> DEFINE T == ToSet(C)
           A == {Alert("suspicious_sni", SniSeverity(SniReasons[f.sni]), f.src, f.dst, f.sni,
                       1) : f \in T}
           B == {Alert("no_sni", "low", f.src, f.dst, f.dport, 1) : f \in T}
           g == [f \in T |-> <<"suspicious_sni", f.src, f.dst, f.sni, 1>>]
           h == [f \in T |-> <<"no_sni", f.src, f.dst, f.dport, 1>>]
<1>1. SniAlerts(C) \subseteq A \union B
  BY DEF SniAlerts, Firsts, ToSet
<1>2. \A reasons : SniSeverity(reasons) \in Severities
  BY DEF SniSeverity, Severities
<1>3. "low" \in Severities
  BY DEF Severities
<1> HIDE DEF T
<1>4. Raise(A, T, g) /\ Raise(B, T, h)
  BY <1>2, <1>3 DEF Raise, SoftRules
<1>5. IsFiniteSet(T)
  BY ListFinite DEF T
<1> HIDE DEF A, B, g, h
<1>6. Hard(A \union B)
  BY <1>4, <1>5, Raises, Joins
<1> QED BY <1>1, <1>6, Fewer

\* Fingerprints of clients and servers raise hard alerts.
LEMMA FingerprintsRaise ==
  ASSUME NEW C, NEW S, List(C), List(S)
  PROVE  Hard(Ja3Alerts(C, S)) /\ Hard(Ja3sAlerts(S)) /\ Hard(Ja4Alerts(C, S))
<1> DEFINE T == ToSet(C)
           U == ToSet(S)
           g == [f \in T |-> <<"bad_ja3", f.src, f.dst, f.ja3, 1>>]
           h == [f \in U |-> <<"bad_ja3s", f.dst, f.src, f.ja3, 1>>]
           i == [f \in T |-> <<"bad_ja4", f.src, f.dst, f.ja4, 1>>]
           j == [f \in U |-> <<"bad_ja4s", f.dst, f.src, f.ja4, 1>>]
           A4 == {Alert("bad_ja4", "critical", f.src, f.dst, f.ja4, 1) : f \in T}
           B4 == {Alert("bad_ja4s", "high", f.dst, f.src, f.ja4, 1) : f \in U}
<1>1. IsFiniteSet(T) /\ IsFiniteSet(U)
  BY ListFinite
<1>2. \A a \in Ja3Alerts(C, S) : \E f \in T, sev \in Severities :
        a = Alert("bad_ja3", sev, f.src, f.dst, f.ja3, 1)
  BY DEF Ja3Alerts, Firsts, ToSet, Severities
<1>3. \A a \in Ja3sAlerts(S) : \E f \in U, sev \in Severities :
        a = Alert("bad_ja3s", sev, f.dst, f.src, f.ja3, 1)
  BY DEF Ja3sAlerts, Firsts, ToSet, Severities
<1>4. Ja4Alerts(C, S) \subseteq A4 \union B4
  BY DEF Ja4Alerts, Firsts, ToSet
<1> HIDE DEF T, U
<1>5. Raise(Ja3Alerts(C, S), T, g) /\ Raise(Ja3sAlerts(S), U, h)
  BY <1>2, <1>3 DEF Raise, SoftRules
<1>6. Raise(A4, T, i) /\ Raise(B4, U, j)
  BY DEF Raise, SoftRules, Severities
<1> HIDE DEF g, h, i, j, A4, B4
<1>7. Hard(A4 \union B4)
  BY <1>1, <1>6, Raises, Joins
<1> QED BY <1>1, <1>4, <1>5, <1>7, Raises, Fewer

\* ALPN and ECH raise hard alerts.
LEMMA HellosRaise ==
  ASSUME NEW C, NEW S, List(C)
  PROVE  Hard(AlpnAlerts(C, S)) /\ Hard(EchAlerts(C))
<1> DEFINE T == ToSet(C)
           Hits(f) == Advertised(S, f) \intersect HttpTokens
           g == [f \in T |-> <<"alpn_port", f.src, f.dst, <<f.dport, Hits(f)>>, 1>>]
           h == [f \in T |-> <<"tls_ech", f.src, f.dst, f.dport, 1>>]
<1>1. IsFiniteSet(T)
  BY ListFinite
<1>2. \A a \in AlpnAlerts(C, S) : \E f \in T :
        a = Alert("alpn_port", "high", f.src, f.dst, <<f.dport, Hits(f)>>, 1)
  BY DEF AlpnAlerts, Firsts, ToSet
<1>3. Raise(EchAlerts(C), T, h)
  BY DEF EchAlerts, Raise, SoftRules, Severities
<1> HIDE DEF T, Hits
<1>4. Raise(AlpnAlerts(C, S), T, g)
  BY <1>2 DEF Raise, SoftRules, Severities
<1> HIDE DEF g, h
<1> QED BY <1>1, <1>3, <1>4, Raises

\* Certificates raise hard alerts.
LEMMA CertRaises ==
  ASSUME NEW C, NEW certs, List(certs)
  PROVE  Hard(CertAlerts(C, certs))
<1> DEFINE T == ToSet(certs)
           A1 == {Alert("cert_self_signed", "medium", f.dst, f.src, f.cert.fp, 1) : f \in T}
           A2 == {Alert("cert_mismatch",
                        IF SameZone(f.cert, SniOf(C, f)) THEN "medium" ELSE "high",
                        f.dst, f.src, <<SniOf(C, f), f.cert.fp>>, 1) : f \in T}
           A3 == {Alert("cert_validity", "medium", f.dst, f.src, f.cert.fp, 1) : f \in T}
           A4 == {Alert("cert_ip_only", "high", f.dst, f.src, f.cert.fp, 1) : f \in T}
           A5 == {Alert("cert_dga", "high", f.dst, f.src, f.cert.fp, 1) : f \in T}
           g1 == [f \in T |-> <<"cert_self_signed", f.dst, f.src, f.cert.fp, 1>>]
           g2 == [f \in T |-> <<"cert_mismatch", f.dst, f.src, <<SniOf(C, f), f.cert.fp>>, 1>>]
           g3 == [f \in T |-> <<"cert_validity", f.dst, f.src, f.cert.fp, 1>>]
           g4 == [f \in T |-> <<"cert_ip_only", f.dst, f.src, f.cert.fp, 1>>]
           g5 == [f \in T |-> <<"cert_dga", f.dst, f.src, f.cert.fp, 1>>]
<1>1. \A a \in CertAlerts(C, certs) : a \in A1 \/ a \in A2 \/ a \in A3 \/ a \in A4 \/ a \in A5
  BY DEF CertAlerts, Firsts, ToSet
<1>2. IsFiniteSet(T)
  BY ListFinite
<1> HIDE DEF T
<1>3. Raise(A1, T, g1) /\ Raise(A2, T, g2)
  BY DEF Raise, SoftRules, Severities
<1>4. Raise(A3, T, g3) /\ Raise(A4, T, g4)
  BY DEF Raise, SoftRules, Severities
<1>5. Raise(A5, T, g5)
  BY DEF Raise, SoftRules, Severities
<1> HIDE DEF A1, A2, A3, A4, A5, g1, g2, g3, g4, g5
<1>6. Hard(A1) /\ Hard(A2) /\ Hard(A3) /\ Hard(A4) /\ Hard(A5)
  BY <1>2, <1>3, <1>4, <1>5, Raises
<1>7. Hard((((A1 \union A2) \union A3) \union A4) \union A5)
  BY <1>6, Joins
<1>8. CertAlerts(C, certs) \subseteq (((A1 \union A2) \union A3) \union A4) \union A5
  BY <1>1
<1> QED BY <1>7, <1>8, Fewer

\* HTTP requests.
LEMMA ScannerRaises ==
  ASSUME NEW R, List(R)
  PROVE  Hard(ScannerAlerts(R))
<1> DEFINE T == ToSet(R)
           Tiers(src) == {ScannerTier[f.ua] : f \in {g \in ToSet(R) :
                            g.src = src /\ g.ua \in DOMAIN ScannerTier}}
           Severity(src) ==
             IF Tiers(src) \intersect {"exploit", "vuln"} # {} THEN "high"
             ELSE IF "recon" \in Tiers(src) THEN (IF IsLocal(src) THEN "high" ELSE "medium")
             ELSE "low"
           mute == {f \in ToSet(R) : f.ua = "" /\ ~IsLocal(f.dst)}
           Muted(src) == {<<f.dst, f.host, f.head>> : f \in {g \in mute : g.src = src}}
           A == {Alert("scanner_ua", Severity(f.src), f.src, NoHost, "ua",
                       Cardinality(Tiers(f.src))) : f \in T}
           B == {Alert("no_user_agent", "medium", f.src, NoHost, "ua",
                       Cardinality(Muted(f.src))) : f \in T}
           g == [f \in T |-> <<"scanner_ua", f.src, NoHost, "ua", Cardinality(Tiers(f.src))>>]
           h == [f \in T |-> <<"no_user_agent", f.src, NoHost, "ua",
                               Cardinality(Muted(f.src))>>]
<1>1. ScannerAlerts(R) \subseteq A \union B
  BY DEF ScannerAlerts
<1>2. \A src : Severity(src) \in Severities
  BY DEF Severities
<1>3. "medium" \in Severities
  BY DEF Severities
<1>4. IsFiniteSet(T)
  BY ListFinite
<1> HIDE DEF T, Severity, Tiers, Muted, mute
<1>5. Raise(A, T, g)
  BY <1>2 DEF Raise, SoftRules
<1>6. Raise(B, T, h)
  BY <1>3 DEF Raise, SoftRules
<1> HIDE DEF A, B, g, h
<1>7. Hard(A \union B)
  BY <1>4, <1>5, <1>6, Raises, Joins
<1> QED BY <1>1, <1>7, Fewer

\* Paths of exploits raise hard alerts.
LEMMA ExploitPathRaises ==
  ASSUME NEW R, List(R)
  PROVE  Hard(ExploitPathAlerts(R))
<1> DEFINE T == ToSet(R)
           Class(f) == IF f.head \intersect HighPaths # {} THEN "high"
                       ELSE IF f.head \intersect MediumPaths = {} THEN "none"
                       ELSE IF Outbound(f) THEN "low" ELSE "medium"
           Hits(src, class) == {<<f.head, f.host, f.method>> : f \in {g \in ToSet(R) :
                                  g.src = src /\ Class(g) = class}}
           U == {f \in T : Class(f) # "none"}
           g == [f \in U |-> <<"exploit_path", f.src, NoHost, Class(f),
                               Cardinality(Hits(f.src, Class(f)))>>]
<1>1. ExploitPathAlerts(R) = {Alert("exploit_path", Class(f), f.src, NoHost, Class(f),
                                    Cardinality(Hits(f.src, Class(f)))) : f \in U}
  BY DEF ExploitPathAlerts
<1>2. \A f \in U : Class(f) \in Severities
  BY DEF Severities
<1>3. IsFiniteSet(U)
  BY ListFinite, FS_Subset
<1> HIDE DEF U, Class, Hits
<1>4. Raise(ExploitPathAlerts(R), U, g)
  BY <1>1, <1>2 DEF Raise, SoftRules
<1> HIDE DEF g
<1> QED BY <1>3, <1>4, Raises

\* Unusual HTTP methods raise hard alerts.
LEMMA MethodRaises ==
  ASSUME NEW R, List(R)
  PROVE  Hard(MethodAlerts(R))
<1> DEFINE T == ToSet(R)
           Paths(src, m) == {f.head : f \in {g \in ToSet(R) : g.src = src /\ g.method = m}}
           N(f) == Cardinality(Paths(f.src, f.method))
           U == {f \in T : f.method \in DOMAIN MethodSeverity}
           g == [f \in U |-> <<"http_method", f.src, NoHost, f.method, N(f)>>]
<1>1. MethodAlerts(R) = {Alert("http_method", MethodSeverity[f.method], f.src, NoHost, f.method,
                               N(f)) : f \in U}
  BY DEF MethodAlerts
<1>2. \A m \in DOMAIN MethodSeverity : MethodSeverity[m] \in Severities
  BY DEF MethodSeverity, Severities
<1>3. \A f \in U : MethodSeverity[f.method] \in Severities
  BY <1>2
<1>4. IsFiniteSet(U)
  BY ListFinite, FS_Subset
<1> HIDE DEF U, N
<1>5. Raise(MethodAlerts(R), U, g)
  BY <1>1, <1>3 DEF Raise, SoftRules
<1> HIDE DEF g
<1> QED BY <1>4, <1>5, Raises

\* A list of patterns is finite, and each is listed with a severity.
PatternsAssumption ==
  /\ IsFiniteSet(DOMAIN Injections)
  /\ \A m \in DOMAIN Injections : Injections[m].sev \in Severities
  /\ IsFiniteSet(DOMAIN Payloads)
  /\ \A m \in DOMAIN Payloads : Payloads[m] \in Severities

\* Injections raise hard alerts.
LEMMA InjectionRaises ==
  ASSUME PatternsAssumption, NEW R, List(R)
  PROVE  Hard(InjectionAlerts(R))
<1> DEFINE Hits == UNION {{<<f.src, i, Outbound(f), f.head \union f.body>> : i \in Injected(f)}
                            : f \in ToSet(R)}
           I == {Injections[m] : m \in DOMAIN Injections}
           P == ToSet(R) \X I
           of == [p \in P |-> <<p[1].src, p[2], Outbound(p[1]), p[1].head \union p[1].body>>]
           N(h) == Cardinality({k \in Hits : <<k[1], k[2], k[3]>> = <<h[1], h[2], h[3]>>})
           g == [h \in Hits |-> <<"http_injection", h[1], NoHost, <<h[2], h[3]>>, N(h)>>]
<1>1. \A f : Injected(f) \subseteq I
  BY DEF Injected
<1>2. \A i \in I : i.sev \in Severities
  BY DEF PatternsAssumption
<1>3. IsFiniteSet(I)
  BY ImageFinite DEF PatternsAssumption
<1>4. IsFiniteSet(P)
  <2> HIDE DEF I
  <2> QED BY <1>3, ListFinite, FS_Product
<1>5. \A h \in Hits : \E p \in P : h = of[p] /\ h[2] = p[2]
  <2> TAKE h \in Hits
  <2>1. PICK f \in ToSet(R) : \E i \in Injected(f) :
          h = <<f.src, i, Outbound(f), f.head \union f.body>>
    OBVIOUS
  <2>2. PICK i \in Injected(f) : h = <<f.src, i, Outbound(f), f.head \union f.body>>
    BY <2>1
  <2>3. <<f, i>> \in P
    BY <1>1, <2>2
  <2>4. of[<<f, i>>] = h
    BY <2>2, <2>3
  <2>5. h[2] = <<f, i>>[2]
    BY <2>2
  <2> HIDE DEF of, P
  <2> QED BY <2>3, <2>4, <2>5
<1>6. InjectionAlerts(R) = {Alert("http_injection", FromOurs(h[2].sev, h[3]), h[1], NoHost,
                                  <<h[2], h[3]>>, N(h)) : h \in Hits}
  BY DEF InjectionAlerts
<1>7. \A p \in P : p[2].sev \in Severities
  BY <1>2
<1> HIDE DEF Hits, I, P, of, N
<1>8. \A h \in Hits : FromOurs(h[2].sev, h[3]) \in Severities
  BY <1>5, <1>7, FromOursIs
<1>9. IsFiniteSet(Hits)
  <2>1. IsFiniteSet({of[p] : p \in P})
    BY <1>4, ImageFinite
  <2>2. Hits \subseteq {of[p] : p \in P}
    BY <1>5
  <2> QED BY <2>1, <2>2, FS_Subset
<1>10. Raise(InjectionAlerts(R), Hits, g)
  BY <1>6, <1>8 DEF Raise, SoftRules
<1> HIDE DEF g
<1> QED BY <1>9, <1>10, Raises

\* Payloads of exploits raise hard alerts.
LEMMA PayloadRaises ==
  ASSUME PatternsAssumption, NEW R, List(R)
  PROVE  Hard(PayloadAlerts(R))
<1> DEFINE Hits(src, m, out) == {i \in DOMAIN R : /\ R[i].src = src /\ m \in Exploits(R[i])
                                                  /\ Outbound(R[i]) = out}
           N(f, m) == Min({MaxSamples, Cardinality(Hits(f.src, m, Outbound(f)))})
           M == DOMAIN Payloads
           P == ToSet(R) \X M
           g == [p \in P |-> <<"exploit_payload", p[1].src, NoHost, <<p[2], Outbound(p[1])>>,
                               N(p[1], p[2])>>]
<1>1. PayloadAlerts(R) =
        UNION {{Alert("exploit_payload", FromOurs(Payloads[m], Outbound(f)), f.src, NoHost,
                      <<m, Outbound(f)>>, N(f, m)) : m \in Exploits(f)} : f \in ToSet(R)}
  BY DEF PayloadAlerts
<1>2. \A f : \A m \in Exploits(f) : m \in M
  BY DEF Exploits
<1>3. IsFiniteSet(P)
  BY ListFinite, FS_Product DEF PatternsAssumption
<1> HIDE DEF N
<1>4. ASSUME NEW a \in PayloadAlerts(R)
      PROVE  \E p \in P, sev \in Severities :
               /\ g[p][1] \notin SoftRules
               /\ a = Alert(g[p][1], sev, g[p][2], g[p][3], g[p][4], g[p][5])
  <2>1. PICK f \in ToSet(R) : \E m \in Exploits(f) :
          a = Alert("exploit_payload", FromOurs(Payloads[m], Outbound(f)), f.src, NoHost,
                    <<m, Outbound(f)>>, N(f, m))
    BY <1>1
  <2>2. PICK m \in Exploits(f) :
          a = Alert("exploit_payload", FromOurs(Payloads[m], Outbound(f)), f.src, NoHost,
                    <<m, Outbound(f)>>, N(f, m))
    BY <2>1
  <2>3. <<f, m>> \in P /\ Payloads[m] \in Severities
    BY <1>2, <2>2 DEF PatternsAssumption
  <2>4. FromOurs(Payloads[m], Outbound(f)) \in Severities
    BY <2>3, FromOursIs
  <2>5. g[<<f, m>>] = <<"exploit_payload", f.src, NoHost, <<m, Outbound(f)>>, N(f, m)>>
    BY <2>3
  <2>6. "exploit_payload" \notin SoftRules
    BY DEF SoftRules
  <2> HIDE DEF g, P
  <2> QED BY <2>2, <2>3, <2>4, <2>5, <2>6
<1> HIDE DEF g, P
<1>5. Raise(PayloadAlerts(R), P, g)
  BY <1>4 DEF Raise
<1> QED BY <1>3, <1>5, Raises

\* File-sharing hosts raise hard alerts.
LEMMA FileShareRaises ==
  ASSUME NEW C, NEW R, List(C), List(R)
  PROVE  Hard(FileShareAlerts(C, R))
<1> DEFINE Hits(src) == {<<f.host, "http", f.method>> : f \in {g \in ToSet(R) :
                           g.src = src /\ g.host \in ShareHosts}}
                        \union {<<f.sni, "tls", "">> : f \in {g \in ToSet(C) :
                           g.src = src /\ g.sni \in ShareHosts}}
           T == {f.src : f \in ToSet(C)} \union {f.src : f \in ToSet(R)}
           g == [src \in T |-> <<"file_share", src, NoHost, "share", Cardinality(Hits(src))>>]
<1>1. Raise(FileShareAlerts(C, R), T, g)
  BY DEF FileShareAlerts, Raise, SoftRules, Severities
<1>2. IsFiniteSet(T)
  BY ListFinite, NamedFinite, FS_Union
<1> HIDE DEF g, T
<1> QED BY <1>1, <1>2, Raises

\* QUIC volume raises hard alerts.
LEMMA QuicVolumeRaises ==
  ASSUME NEW flows, IsFiniteSet(DOMAIN flows), NEW known
  PROVE  Hard(QuicVolumeAlerts(flows, known))
<1> DEFINE T == {flows[i].dst : i \in DOMAIN flows}
           To(dst) == {i \in DOMAIN flows : flows[i].dst = dst /\ ~IsLocal(dst)}
           Bytes(dst) == Sum(To(dst), [i \in To(dst) |-> flows[i].bytes])
           g == [d \in T |-> <<"quic_volume", NoHost, d, "quic", Bytes(d)>>]
<1>1. "medium" \in Severities
  BY DEF Severities
<1>2. Raise(QuicVolumeAlerts(flows, known), T, g)
  BY <1>1, Downgrades DEF QuicVolumeAlerts, Raise, SoftRules
<1>3. IsFiniteSet(T)
  <2> DEFINE fn == [i \in DOMAIN flows |-> flows[i].dst]
  <2>1. T = {fn[i] : i \in DOMAIN flows}
    OBVIOUS
  <2> HIDE DEF fn, T
  <2> QED BY <2>1, ImageFinite
<1> HIDE DEF g, T
<1> QED BY <1>2, <1>3, Raises

\* DNS over HTTPS raises hard alerts.
LEMMA DohRaises ==
  ASSUME NEW C, NEW R, List(C), List(R)
  PROVE  Hard(DohAlerts(C, R))
<1> DEFINE T == ToSet(C)
           U == ToSet(R)
           A == {Alert("doh", DohSeverity(DohSignal(f)), f.src, f.dst, DohSignal(f), 1)
                   : f \in T}
           B == {Alert("doh", "high", f.src, f.dst, <<"http_path", f.host>>, 1) : f \in U}
           g == [f \in T |-> <<"doh", f.src, f.dst, DohSignal(f), 1>>]
           h == [f \in U |-> <<"doh", f.src, f.dst, <<"http_path", f.host>>, 1>>]
<1>1. DohAlerts(C, R) \subseteq A \union B
  BY DEF DohAlerts
<1>2. \A signal : DohSeverity(signal) \in Severities
  BY DEF DohSeverity, Severities
<1>3. "high" \in Severities
  BY DEF Severities
<1>4. IsFiniteSet(T) /\ IsFiniteSet(U)
  BY ListFinite
<1> HIDE DEF T, U
<1>5. Raise(A, T, g)
  BY <1>2 DEF Raise, SoftRules
<1>6. Raise(B, U, h)
  BY <1>3 DEF Raise, SoftRules
<1> HIDE DEF A, B, g, h
<1>7. Hard(A \union B)
  BY <1>4, <1>5, <1>6, Raises, Joins
<1> QED BY <1>1, <1>7, Fewer

\* Signals of Cobalt Strike raise hard alerts.
LEMMA CobaltRaises ==
  ASSUME NEW C, NEW R, List(R)
  PROVE  Hard(CobaltAlerts(C, R))
<1> DEFINE T == {<<f.src, f.dst>> : f \in ToSet(R)}
           Signals(src, dst) ==
             UNION {CobaltShows(f) : f \in {g \in ToSet(R) : g.src = src /\ g.dst = dst}}
             \union {m \in {"ja3"} : \E f \in ToSet(C) : f.src = src /\ f.ja3 \in CobaltJa3}
           g == [k \in T |-> <<"cobalt_strike", k[1], k[2], "c2",
                               Cardinality(Signals(k[1], k[2]))>>]
<1>1. Raise(CobaltAlerts(C, R), T, g)
  BY DEF CobaltAlerts, Raise, SoftRules, Severities
<1>2. IsFiniteSet(T)
  BY ListFinite, NamedFinite
<1> HIDE DEF g, T
<1> QED BY <1>1, <1>2, Raises

\* Known scanners raise hard alerts.
LEMMA GreyNoiseRaises ==
  ASSUME NEW scanners, IsFiniteSet(scanners), NEW ask
  PROVE  Hard(GreyNoiseAlerts(scanners, ask))
<1> DEFINE g == [src \in scanners |-> <<"benign_scanner", src, NoHost, "greynoise", 1>>]
<1>1. Raise(GreyNoiseAlerts(scanners, ask), scanners, g)
  BY DEF GreyNoiseAlerts, Raise, SoftRules, Severities
<1> HIDE DEF g
<1> QED BY <1>1, Raises

-----------------------------------------------------------------------------
(* Outliers, the user's rules, known exploited vulnerabilities *)

\* The forest says how severe an outlier is, or that a flow is none.
OutliersAssumption ==
  \A t \in Themes : \A F \in SUBSET Capture[t] : Outliers(F) \in Severities \union {"none"}

\* Outlying flows raise hard alerts.
LEMMA FlowAnomalyRaises ==
  ASSUME OutliersAssumption, NEW t \in Themes, NEW F, F \subseteq Capture[t], IsFiniteSet(F)
  PROVE  Hard(FlowAnomalyAlerts(F))
<1> DEFINE Of(k) == {f \in F : AnomalyKey(f) = k}
           T == {AnomalyKey(f) : f \in F}
           U == {k \in T : Outliers(Of(k)) # "none"}
           N(k) == Cardinality(Of(k))
           V(k) == Outliers(Of(k))
           A == {Alert("flow_anomaly", V(k), k[1], k[2], <<k[3], k[4]>>, N(k)) : k \in U}
           g == [k \in U |-> <<"flow_anomaly", k[1], k[2], <<k[3], k[4]>>, N(k)>>]
<1>1. FlowAnomalyAlerts(F) \subseteq A
  BY DEF FlowAnomalyAlerts
<1>2. \A k \in U : V(k) \in Severities
  BY DEF OutliersAssumption
<1>3. IsFiniteSet(T)
  <2> DEFINE fn == [f \in F |-> AnomalyKey(f)]
  <2>1. T = {fn[f] : f \in F}
    OBVIOUS
  <2> HIDE DEF fn, T
  <2> QED BY <2>1, ImageFinite
<1>4. IsFiniteSet(U)
  <2> HIDE DEF T
  <2> QED BY <1>3, FS_Subset
<1> HIDE DEF U, V, N
<1>5. Raise(A, U, g)
  BY <1>2 DEF Raise, SoftRules
<1> HIDE DEF A, g
<1>6. Hard(A)
  BY <1>4, <1>5, Raises
<1> QED BY <1>1, <1>6, Fewer

\* A user's rule has one of the severities of the documented schema, and a
\* title that no detector uses whose alerts a role may lower (load_rules reads
\* both as they stand in the file).
RulesAssumption ==
  /\ IsFiniteSet(Rules)
  /\ \A r \in Rules : r.severity \in Severities /\ r.id \notin SoftRules

\* User rules raise hard alerts.
LEMMA UserRulesRaise ==
  ASSUME RulesAssumption, NEW s, IsFiniteSet(DOMAIN s)
  PROVE  Hard(UserRuleAlerts(s))
<1> DEFINE D == DOMAIN s
           P == Rules \X D
           g == [p \in P |-> <<p[1].id, s[p[2]].src, s[p[2]].dst, p[2][2], s[p[2]].count>>]
<1>1. ASSUME NEW a \in UserRuleAlerts(s)
      PROVE  \E p \in P, sev \in Severities :
               /\ g[p][1] \notin SoftRules
               /\ a = Alert(g[p][1], sev, g[p][2], g[p][3], g[p][4], g[p][5])
  <2>1. PICK r \in Rules : \E k \in D :
          a = Alert(r.id, r.severity, s[k].src, s[k].dst, k[2], s[k].count)
    BY DEF UserRuleAlerts
  <2>2. PICK k \in D : a = Alert(r.id, r.severity, s[k].src, s[k].dst, k[2], s[k].count)
    BY <2>1
  <2>3. <<r, k>> \in P
    BY <2>2
  <2>4. g[<<r, k>>] = <<r.id, s[k].src, s[k].dst, k[2], s[k].count>>
    BY <2>3
  <2>5. r.severity \in Severities /\ r.id \notin SoftRules
    BY DEF RulesAssumption
  <2> HIDE DEF g, P
  <2> QED BY <2>2, <2>3, <2>4, <2>5
<1>2. IsFiniteSet(P)
  <2> HIDE DEF D
  <2>1. IsFiniteSet(D)
    BY DEF D
  <2> QED BY <2>1, FS_Product DEF RulesAssumption
<1> HIDE DEF g, P
<1>3. Raise(UserRuleAlerts(s), P, g)
  BY <1>1 DEF Raise
<1> QED BY <1>2, <1>3, Raises

\* The catalog is finite.
CatalogAssumption == IsFiniteSet(DOMAIN Kev)

\* The summaries of the catalog are hard alerts.
LEMMA KevRaises ==
  ASSUME CatalogAssumption, NEW pending, IsFiniteSet(pending)
  PROVE  Hard(KevSummaries(pending))
<1> DEFINE T == UNION {{<<IpOf(a), cve>> : cve \in KevHits(a)} : a \in pending}
           P == pending \X DOMAIN Kev
           of == [p \in P |-> <<IpOf(p[1]), p[2]>>]
           g == [h \in T |-> <<"kev_match", h[1], NoHost, h[2], 1>>]
<1>1. \A a : KevHits(a) \subseteq DOMAIN Kev
  BY DEF KevHits
<1>2. T \subseteq {of[p] : p \in P}
  <2> SUFFICES ASSUME NEW h \in T PROVE \E p \in P : h = of[p]
    OBVIOUS
  <2>1. PICK a \in pending : \E cve \in KevHits(a) : h = <<IpOf(a), cve>>
    OBVIOUS
  <2>2. PICK cve \in KevHits(a) : h = <<IpOf(a), cve>>
    BY <2>1
  <2>3. <<a, cve>> \in P
    BY <1>1, <2>2
  <2>4. of[<<a, cve>>] = <<IpOf(a), cve>>
    BY <2>3
  <2> HIDE DEF of, P
  <2> QED BY <2>2, <2>3, <2>4
<1>3. IsFiniteSet(P)
  BY FS_Product DEF CatalogAssumption
<1>4. Raise(KevSummaries(pending), T, g)
  BY DEF KevSummaries, Raise, SoftRules, Severities
<1> HIDE DEF T, P, of, g
<1>5. IsFiniteSet({of[p] : p \in P})
  BY <1>3, ImageFinite
<1>6. IsFiniteSet(T)
  BY <1>2, <1>5, FS_Subset
<1> QED BY <1>4, <1>6, Raises

-----------------------------------------------------------------------------
(* All of them together *)

\* The merge keeps the count of such alerts.
Mergeable(A) == Sound(A) /\ Distinct(A)

\* Hard alerts can be merged.
LEMMA HardIsMergeable == ASSUME NEW A, Hard(A) PROVE Mergeable(A)
  BY DEF Mergeable, Hard, Distinct

\* So can those of a mergeable set with hard ones added.
LEMMA JoinsMergeable ==
  ASSUME NEW A, NEW B, Mergeable(A), Hard(B)
  PROVE  Mergeable(A \union B)
<1>1. IsFiniteSet(A \union B)
  BY FS_Union DEF Mergeable, Hard, Sound
<1>2. Sound(A \union B)
  BY <1>1 DEF Mergeable, Hard, Sound
<1>3. Distinct(A \union B)
  BY DEF Mergeable, Hard, Distinct, SameButSeverity
<1> QED BY <1>2, <1>3 DEF Mergeable

\* So can any part of a mergeable set.
LEMMA FewerMergeable ==
  ASSUME NEW A, NEW B, Mergeable(B), A \subseteq B
  PROVE  Mergeable(A)
<1>1. IsFiniteSet(A)
  BY FS_Subset DEF Mergeable, Sound
<1> QED BY <1>1 DEF Mergeable, Sound, Distinct

\* A registry of detectors, in which a rule that a role may lower has a
\* detector of its own.
LEMMA RegistryMergeable ==
  ASSUME NEW found, IsFiniteSet(DOMAIN found), NEW owner,
         \A name \in DOMAIN found :
           \/ Hard(found[name])
           \/ \E rule \in SoftRules : name = owner[rule] /\ Soft(found[name], rule)
  PROVE  Mergeable(Gathered(found, {}))
<1> DEFINE D == DOMAIN found
           G == {found[name] : name \in D}
<1>1. Gathered(found, {}) = UNION G
  BY DEF Gathered
<1>2. \A name \in D : Sound(found[name]) /\ Distinct(found[name])
  BY HardIsMergeable DEF Soft, Hard, Mergeable
<1>3. IsFiniteSet(UNION G)
  <2>1. IsFiniteSet(G)
    <3> HIDE DEF D
    <3>1. IsFiniteSet(D)
      BY DEF D
    <3> QED BY <3>1, ImageFinite
  <2>2. \A A \in G : IsFiniteSet(A)
    BY <1>2 DEF Sound
  <2> HIDE DEF G
  <2> QED BY <2>1, <2>2, FS_UNION
<1>4. Sound(UNION G)
  <2>1. \A a \in UNION G : IsAlert(a)
    BY <1>2 DEF Sound
  <2> HIDE DEF G
  <2> QED BY <1>3, <2>1 DEF Sound
<1>5. Distinct(UNION G)
  <2> SUFFICES ASSUME NEW a \in UNION G, NEW b \in UNION G,
                      a.rule \in SoftRules, SameButSeverity(a, b)
               PROVE  a = b
    BY DEF Distinct
  <2>1. PICK n \in D, m \in D : a \in found[n] /\ b \in found[m]
    OBVIOUS
  <2>2. a.rule = b.rule
    BY DEF SameButSeverity
  <2>3. n = owner[a.rule] /\ m = owner[a.rule]
    BY <2>1, <2>2 DEF Hard, Soft
  <2>4. Distinct(found[n])
    BY <1>2
  <2> QED BY <2>1, <2>3, <2>4 DEF Distinct
<1> QED BY <1>1, <1>4, <1>5 DEF Mergeable

\* A registry of detectors that raise hard alerts raises hard alerts.
LEMMA RegistryHard ==
  ASSUME NEW found, IsFiniteSet(DOMAIN found), \A name \in DOMAIN found : Hard(found[name])
  PROVE  Hard(Gathered(found, {}))
<1>1. Mergeable(Gathered(found, {}))
  <2> DEFINE owner == << >>
  <2> HIDE DEF owner
  <2> QED BY RegistryMergeable
<1>2. \A a \in Gathered(found, {}) : a.rule \notin SoftRules
  BY DEF Gathered, Hard
<1> QED BY <1>1, <1>2 DEF Mergeable, Hard

\* The enricher makes alerts more severe, and nothing else of them.
LEMMA EnrichedMergeable ==
  ASSUME CatalogAssumption, NEW A, Mergeable(A)
  PROVE  Mergeable(KevEnriched(A))
<1> DEFINE P == {Promoted(a) : a \in A}
<1>1. ASSUME NEW a \in A
      PROVE  IsAlert(Promoted(a)) /\ SameButSeverity(a, Promoted(a))
  <2>1. IsAlert(a)
    BY DEF Mergeable, Sound
  <2>2. CASE ~Ransomware(a)
    BY <2>1, <2>2 DEF Promoted, SameButSeverity
  <2>3. CASE Ransomware(a)
    <3>1. Promoted(a) = [a EXCEPT !.sev = "critical"]
      BY <2>3 DEF Promoted
    <3>2. Promoted(a) = [rule |-> a.rule, sev |-> "critical", src |-> a.src, dst |-> a.dst,
                         about |-> a.about, n |-> a.n]
      BY <2>1, <3>1 DEF IsAlert
    <3> QED BY <3>2 DEF IsAlert, SameButSeverity, Severities
  <2> QED BY <2>2, <2>3
<1>2. IsFiniteSet(P)
  <2> DEFINE fn == [a \in A |-> Promoted(a)]
  <2>1. P = {fn[a] : a \in A}
    OBVIOUS
  <2> HIDE DEF fn, P
  <2> QED BY <2>1, ImageFinite DEF Mergeable, Sound
<1>3. Sound(P)
  BY <1>1, <1>2 DEF Sound
<1>4. Distinct(P)
  <2> SUFFICES ASSUME NEW a \in A, NEW b \in A, Promoted(a).rule \in SoftRules,
                      SameButSeverity(Promoted(a), Promoted(b))
               PROVE  Promoted(a) = Promoted(b)
    BY DEF Distinct
  <2>1. a.rule \in SoftRules /\ SameButSeverity(a, b)
    BY <1>1 DEF SameButSeverity
  <2> QED BY <2>1 DEF Mergeable, Distinct
<1>5. Hard(KevSummaries(A))
  BY KevRaises DEF Mergeable, Sound
<1>6. KevEnriched(A) = P \union KevSummaries(A)
  BY DEF KevEnriched
<1> HIDE DEF P
<1>7. Mergeable(P)
  BY <1>3, <1>4 DEF Mergeable
<1> QED BY <1>5, <1>6, <1>7, JoinsMergeable

-----------------------------------------------------------------------------
(* What the detectors and aggregators hold is finite *)

\* T has at most one element that S has not.
OneMore(S, T) == \E x : T \subseteq S \union {x}

\* One more element leaves a set finite.
LEMMA OneMoreFinite ==
  ASSUME NEW S, IsFiniteSet(S), NEW T, OneMore(S, T)
  PROVE  IsFiniteSet(T)
<1>1. PICK x : T \subseteq S \union {x}
  BY DEF OneMore
<1>2. IsFiniteSet(S \union {x})
  BY FS_AddElement
<1> QED BY <1>1, <1>2, FS_Subset

\* A frame is kept, or is not.
LEMMA KeepMore ==
  ASSUME NEW F, NEW f, NEW observed
  PROVE  OneMore(F, Keep(F, f, observed))
<1>1. Keep(F, f, observed) \subseteq F \union {f}
  BY DEF Keep
<1> QED BY <1>1 DEF OneMore

\* An entry is added, or changed.
LEMMA UpsertMore ==
  ASSUME NEW fn, NEW k, NEW v
  PROVE  OneMore(DOMAIN fn, DOMAIN Upsert(fn, k, v))
<1>1. DOMAIN Upsert(fn, k, v) \subseteq DOMAIN fn \union {k}
  BY DEF Upsert
<1> QED BY <1>1 DEF OneMore

\* What stays as it is has no more.
LEMMA SameMore == ASSUME NEW S PROVE OneMore(S, S)
  BY DEF OneMore

\* A frame adds one flow at most.
LEMMA TrackMore ==
  ASSUME NEW flows, NEW f, NEW ports
  PROVE  OneMore(DOMAIN flows, DOMAIN Track(flows, f, ports))
<1>1. \A key, side : OneMore(DOMAIN flows, DOMAIN ObserveTcp(flows, key, f, side))
  BY UpsertMore DEF ObserveTcp
<1>2. OneMore(DOMAIN flows, DOMAIN ObserveIcmpError(flows, f, ports, FALSE))
  BY UpsertMore, SameMore DEF ObserveIcmpError
<1> QED BY <1>1, <1>2, SameMore DEF Track

\* The sets of frames, of pairs, of names.
HeldSets(d) ==
  /\ IsFiniteSet(d.arp_discovery) /\ IsFiniteSet(d.host_sweep) /\ IsFiniteSet(d.snmp_walk)
  /\ IsFiniteSet(d.icmp_tunnel) /\ IsFiniteSet(d.volume) /\ IsFiniteSet(d.sustained)
  /\ IsFiniteSet(d.lateral) /\ IsFiniteSet(d.kerberos) /\ IsFiniteSet(d.dga)
  /\ IsFiniteSet(d.nxdomain) /\ IsFiniteSet(d.tld) /\ IsFiniteSet(d.dot)
  /\ IsFiniteSet(d.dns_beacon) /\ IsFiniteSet(d.mac_ip) /\ IsFiniteSet(d.anomaly)

\* A frame leaves the sets finite.
LEMMA SetsHold ==
  ASSUME NEW d, HeldSets(d), NEW f
  PROVE  HeldSets(Fed(d, f))
<1> DEFINE e == Fed(d, f)
<1>1. /\ e.arp_discovery = ArpDiscoveryUpdate(d.arp_discovery, f)
      /\ e.host_sweep = HorizontalScanUpdate(d.host_sweep, f)
      /\ e.snmp_walk = SnmpWalkUpdate(d.snmp_walk, f)
      /\ e.icmp_tunnel = IcmpTunnelUpdate(d.icmp_tunnel, f)
      /\ e.volume = VolumeUpdate(d.volume, f)
      /\ e.sustained = SustainedUpdate(d.sustained, f)
      /\ e.lateral = LateralUpdate(d.lateral, f)
      /\ e.kerberos = KerberosUpdate(d.kerberos, f)
      /\ e.dga = DgaUpdate(d.dga, f)
      /\ e.nxdomain = NxdomainUpdate(d.nxdomain, f)
      /\ e.tld = SuspiciousTldUpdate(d.tld, f)
      /\ e.dot = DotUpdate(d.dot, f)
      /\ e.dns_beacon = DnsBeaconUpdate(d.dns_beacon, f)
      /\ e.mac_ip = MacIpUpdate(d.mac_ip, f)
      /\ e.anomaly = FlowAnomalyUpdate(d.anomaly, f)
  BY DEF Fed
<1> HIDE DEF e
<1>2. /\ OneMore(d.arp_discovery, e.arp_discovery)
      /\ OneMore(d.host_sweep, e.host_sweep)
      /\ OneMore(d.snmp_walk, e.snmp_walk)
      /\ OneMore(d.icmp_tunnel, e.icmp_tunnel)
  <2>1. e.arp_discovery \subseteq d.arp_discovery \union {f}
    BY <1>1 DEF ArpDiscoveryUpdate, Keep
  <2>2. e.host_sweep \subseteq d.host_sweep \union {f}
    BY <1>1 DEF HorizontalScanUpdate, Keep
  <2>3. e.snmp_walk \subseteq d.snmp_walk \union {f}
    BY <1>1 DEF SnmpWalkUpdate, Keep
  <2>4. e.icmp_tunnel \subseteq d.icmp_tunnel \union {f}
    BY <1>1 DEF IcmpTunnelUpdate, Keep
  <2> QED BY <2>1, <2>2, <2>3, <2>4 DEF OneMore
<1>3. /\ OneMore(d.volume, e.volume)
      /\ OneMore(d.sustained, e.sustained)
      /\ OneMore(d.kerberos, e.kerberos)
      /\ OneMore(d.dns_beacon, e.dns_beacon)
      /\ OneMore(d.nxdomain, e.nxdomain)
      /\ OneMore(d.anomaly, e.anomaly)
  <2>1. e.volume \subseteq d.volume \union {f}
    BY <1>1 DEF VolumeUpdate, Keep
  <2>2. e.sustained \subseteq d.sustained \union {f}
    BY <1>1 DEF SustainedUpdate, Keep
  <2>3. e.kerberos \subseteq d.kerberos \union {f}
    BY <1>1 DEF KerberosUpdate, Keep
  <2>4. e.dns_beacon \subseteq d.dns_beacon \union {f}
    BY <1>1 DEF DnsBeaconUpdate, Keep
  <2>5. e.nxdomain \subseteq d.nxdomain \union {f}
    BY <1>1 DEF NxdomainUpdate, Keep
  <2>6. e.anomaly \subseteq d.anomaly \union {f}
    BY <1>1 DEF FlowAnomalyUpdate, Keep
  <2> QED BY <2>1, <2>2, <2>3, <2>4, <2>5, <2>6 DEF OneMore
<1>4. OneMore(d.lateral, e.lateral)
  <2>1. e.lateral \subseteq d.lateral \union {<<f.src, f.dport, f.dst>>}
    BY <1>1 DEF LateralUpdate
  <2> QED BY <2>1 DEF OneMore
<1>5. OneMore(d.dga, e.dga)
  <2>1. e.dga \subseteq d.dga \union {<<f.src, f.name>>}
    BY <1>1 DEF DgaUpdate
  <2> QED BY <2>1 DEF OneMore
<1>6. OneMore(d.tld, e.tld)
  <2>1. e.tld \subseteq d.tld \union {<<f.src, f.name.tld, f.name.q>>}
    BY <1>1 DEF SuspiciousTldUpdate
  <2> QED BY <2>1 DEF OneMore
<1>7. OneMore(d.dot, e.dot)
  <2>1. e.dot \subseteq d.dot \union
          {IF f.dport = 853 THEN <<f.src, f.dst>> ELSE <<f.dst, f.src>>}
    BY <1>1 DEF DotUpdate
  <2> QED BY <2>1 DEF OneMore
<1>8. IsFiniteSet(e.mac_ip)
  <2> DEFINE more == d.mac_ip \union {<<f.mac, f.src>>}
  <2>1. e.mac_ip \subseteq more \union {<<f.dmac, f.dst>>}
    BY <1>1 DEF MacIpUpdate
  <2>2. OneMore(d.mac_ip, more)
    BY DEF OneMore
  <2> HIDE DEF more
  <2>3. OneMore(more, e.mac_ip)
    BY <2>1 DEF OneMore
  <2> QED BY <2>2, <2>3, OneMoreFinite DEF HeldSets
<1>9. HeldSets(e)
  BY <1>2, <1>3, <1>4, <1>5, <1>6, <1>7, <1>8, OneMoreFinite DEF HeldSets
<1> QED BY <1>9 DEF e

\* The sets that stand in the records of a detector.
HeldRecords(d) ==
  /\ IsFiniteSet(d.port_scan.syns)
  /\ IsFiniteSet(d.dns_tunneling.zones)
  /\ IsFiniteSet(d.dns_exfil.sent)
  /\ IsFiniteSet(d.smb.crossings)
  /\ IsFiniteSet(d.ping_sweep.targets)
  /\ IsFiniteSet(d.llmnr.answers)
  /\ IsFiniteSet(d.spraying.tries)
  /\ IsFiniteSet(d.entropy.sampled)
  /\ IsFiniteSet(d.bind.binds)
  /\ \A m \in d.bind.binds : m[3] \in DOMAIN Interfaces

\* A frame leaves the sets in records finite.
LEMMA RecordsHold ==
  ASSUME NEW d, HeldRecords(d), NEW f
  PROVE  HeldRecords(Fed(d, f))
<1> DEFINE e == Fed(d, f)
<1>1. /\ e.port_scan = PortScanUpdate(d.port_scan, f)
      /\ e.dns_tunneling = DnsTunnelUpdate(d.dns_tunneling, f)
      /\ e.dns_exfil = DnsExfilUpdate(d.dns_exfil, f)
      /\ e.smb = SmbUpdate(d.smb, f)
      /\ e.ping_sweep = PingSweepUpdate(d.ping_sweep, f)
      /\ e.llmnr = LlmnrUpdate(d.llmnr, f)
      /\ e.spraying = SprayUpdate(d.spraying, f)
      /\ e.entropy = EntropyUpdate(d.entropy, f)
      /\ e.bind = BindUpdate(d.bind, f)
  BY DEF Fed
<1> HIDE DEF e
<1>2. OneMore(d.port_scan.syns, e.port_scan.syns)
  <2>1. e.port_scan.syns \subseteq d.port_scan.syns \union {f}
    BY <1>1 DEF PortScanUpdate
  <2> QED BY <2>1 DEF OneMore
<1>3. OneMore(d.dns_tunneling.zones, e.dns_tunneling.zones)
  <2>1. e.dns_tunneling.zones \subseteq d.dns_tunneling.zones \union {ZoneKey(f)}
    BY <1>1 DEF DnsTunnelUpdate
  <2> QED BY <2>1 DEF OneMore
<1>4. OneMore(d.dns_exfil.sent, e.dns_exfil.sent)
  <2>1. \/ e.dns_exfil = d.dns_exfil
        \/ \E names, encoded :
             e.dns_exfil = [sent |-> d.dns_exfil.sent \union {f}, names |-> names,
                            encoded |-> encoded]
    BY <1>1, Zenon DEF DnsExfilUpdate
  <2>2. e.dns_exfil.sent \subseteq d.dns_exfil.sent \union {f}
    <3>1. ASSUME NEW names, NEW encoded,
                 e.dns_exfil = [sent |-> d.dns_exfil.sent \union {f}, names |-> names,
                                encoded |-> encoded]
          PROVE  e.dns_exfil.sent \subseteq d.dns_exfil.sent \union {f}
      BY <3>1
    <3>2. CASE e.dns_exfil = d.dns_exfil
      BY <3>2
    <3> QED BY <2>1, <3>1, <3>2, Zenon
  <2> QED BY <2>2 DEF OneMore
<1>5. OneMore(d.smb.crossings, e.smb.crossings)
  <2>1. e.smb.crossings \subseteq d.smb.crossings \union {<<f.src, f.dst>>}
    BY <1>1 DEF SmbUpdate
  <2> QED BY <2>1 DEF OneMore
<1>6. OneMore(d.ping_sweep.targets, e.ping_sweep.targets)
  <2>1. e.ping_sweep.targets \subseteq d.ping_sweep.targets \union {<<f.src, f.dst>>}
    BY <1>1 DEF PingSweepUpdate
  <2> QED BY <2>1 DEF OneMore
<1>7. OneMore(d.llmnr.answers, e.llmnr.answers)
  <2>1. \/ e.llmnr = d.llmnr
        \/ \E names : e.llmnr = [answers |-> d.llmnr.answers \union {f}, names |-> names]
    BY <1>1, Zenon DEF LlmnrUpdate
  <2>2. e.llmnr.answers \subseteq d.llmnr.answers \union {f}
    <3>1. ASSUME NEW names,
                 e.llmnr = [answers |-> d.llmnr.answers \union {f}, names |-> names]
          PROVE  e.llmnr.answers \subseteq d.llmnr.answers \union {f}
      BY <3>1
    <3>2. CASE e.llmnr = d.llmnr
      BY <3>2
    <3> QED BY <2>1, <3>1, <3>2, Zenon
  <2> QED BY <2>2 DEF OneMore
<1>8. OneMore(d.spraying.tries, e.spraying.tries)
  BY <1>1, KeepMore DEF SprayUpdate
<1>9. OneMore(d.entropy.sampled, e.entropy.sampled)
  BY <1>1, KeepMore, SameMore DEF EntropyUpdate
<1>10. /\ OneMore(d.bind.binds, e.bind.binds)
       /\ \A m \in e.bind.binds : m[3] \in DOMAIN Interfaces
  <2>1. \/ e.bind.binds = d.bind.binds
        \/ /\ f.about \in DOMAIN Interfaces
           /\ e.bind.binds = d.bind.binds \union {<<f.src, f.dst, f.about, f.id>>}
    BY <1>1 DEF BindUpdate
  <2> QED BY <2>1 DEF OneMore, HeldRecords
<1>11. HeldRecords(e)
  BY <1>2, <1>3, <1>4, <1>5, <1>6, <1>7, <1>8, <1>9, <1>10, OneMoreFinite DEF HeldRecords
<1> QED BY <1>11 DEF e

\* The tables: flows, names, streams, groups.
HeldTables(d) ==
  /\ IsFiniteSet(DOMAIN d.insecure)
  /\ IsFiniteSet(DOMAIN d.fast_flux.client)
  /\ IsFiniteSet(DOMAIN d.conn_beacon)
  /\ IsFiniteSet(DOMAIN d.streams)
  /\ IsFiniteSet(DOMAIN d.user_rules)

\* A frame leaves the tables finite.
LEMMA TablesHold ==
  ASSUME RulesAssumption, NEW d, HeldTables(d), NEW f
  PROVE  HeldTables(Fed(d, f))
<1> DEFINE e == Fed(d, f)
<1>1. /\ e.insecure = InsecureUpdate(d.insecure, f)
      /\ e.fast_flux = FastFluxUpdate(d.fast_flux, f)
      /\ e.conn_beacon = ConnBeaconUpdate(d.conn_beacon, f)
      /\ e.streams = TcpFlowUpdate(d.streams, f)
      /\ e.user_rules = UserRulesUpdate(d.user_rules, f)
  BY DEF Fed
<1> HIDE DEF e
<1>2. OneMore(DOMAIN d.insecure, DOMAIN e.insecure)
  BY <1>1, TrackMore DEF InsecureUpdate
<1>3. OneMore(DOMAIN d.fast_flux.client, DOMAIN e.fast_flux.client)
  <2>1. DOMAIN e.fast_flux.client \subseteq DOMAIN d.fast_flux.client \union {f.name.q}
    BY <1>1 DEF FastFluxUpdate
  <2> QED BY <2>1 DEF OneMore
<1>4. OneMore(DOMAIN d.conn_beacon, DOMAIN e.conn_beacon)
  <2>1. PICK s, t : s = d.conn_beacon /\ t = e.conn_beacon
    OBVIOUS
  <2>2. t = ConnBeaconUpdate(s, f)
    BY <1>1, <2>1
  <2>3. \/ t = s \/ \E k, v : t = Upsert(s, k, v)
        \/ \E k, v : t = [s EXCEPT ![k] = v]
    BY <2>2 DEF ConnBeaconUpdate
  <2>4. OneMore(DOMAIN s, DOMAIN t)
    <3>1. ASSUME NEW k, NEW v, t = Upsert(s, k, v) PROVE OneMore(DOMAIN s, DOMAIN t)
      BY <3>1, UpsertMore
    <3>2. ASSUME NEW k, NEW v, t = [s EXCEPT ![k] = v] PROVE OneMore(DOMAIN s, DOMAIN t)
      BY <3>2, SameMore
    <3> QED BY <2>3, <3>1, <3>2, SameMore
  <2> QED BY <2>1, <2>4
<1>5. OneMore(DOMAIN d.streams, DOMAIN e.streams)
  <2>1. PICK s, t : s = d.streams /\ t = e.streams
    OBVIOUS
  <2>2. t = s \/ \E k, v : t = Upsert(s, k, v)
    BY <1>1, <2>1 DEF TcpFlowUpdate
  <2> QED BY <2>1, <2>2, UpsertMore, SameMore
<1>6. IsFiniteSet(DOMAIN e.user_rules)
  <2> DEFINE Q == {q \in Rules : PacketMatches(q, f)}
             fn == [r \in Q |-> <<r.id, GroupKey(r, f)>>]
             hit == {fn[r] : r \in Q}
  <2>1. IsFiniteSet(Q)
    BY FS_Subset DEF RulesAssumption
  <2>2. DOMAIN e.user_rules \subseteq DOMAIN d.user_rules \union hit
    BY <1>1 DEF UserRulesUpdate
  <2> HIDE DEF Q, fn
  <2>3. IsFiniteSet(hit)
    BY <2>1, ImageFinite
  <2> HIDE DEF hit
  <2>4. IsFiniteSet(DOMAIN d.user_rules \union hit)
    BY <2>3, FS_Union DEF HeldTables
  <2> QED BY <2>2, <2>4, FS_Subset
<1>7. HeldTables(e)
  BY <1>2, <1>3, <1>4, <1>5, <1>6, OneMoreFinite DEF HeldTables
<1> QED BY <1>7 DEF e

\* The records that a frame updates field by field.
ArpHeld(s) ==
  /\ DOMAIN s = {"owner", "changes", "history", "lastClaim", "claims", "garp", "flooded",
                 "alerts"}
  /\ Hard(s.alerts)
  /\ IsFiniteSet(DOMAIN s.changes)

\* One alert more, of a rule no role lowers, and they are still hard.
LEMMA SingleRaised ==
  ASSUME NEW rule, rule \notin SoftRules, NEW sev \in Severities,
         NEW src, NEW dst, NEW about, NEW n
  PROVE  Hard({Alert(rule, sev, src, dst, about, n)})
<1> DEFINE a == Alert(rule, sev, src, dst, about, n)
<1>1. IsAlert(a) /\ a.rule = rule
  BY AlertIs
<1> HIDE DEF a
<1>2. IsFiniteSet({a})
  BY FS_Singleton
<1>3. Hard({a})
  BY <1>1, <1>2 DEF Hard, Sound
<1> QED BY <1>3 DEF a

\* A claim of an address keeps what the ARP detector holds finite and hard.
LEMMA ClaimHolds ==
  ASSUME NEW s, ArpHeld(s), NEW f
  PROVE  ArpHeld(Claim(s, f))
<1> DEFINE old == Lookup(s.owner, f.src, f.mac)
           changes == Lookup(s.changes, f.src, << >>)
           history == Lookup(s.history, f.src, << >>)
           key == <<f.mac, f.src>>
           more == AppendCapped(changes, <<f.ts, old, f.mac>>, MaxTransitions)
           a == Upsert(s.owner, f.src, f.mac)
           b == IF old = f.mac THEN s.changes ELSE Upsert(s.changes, f.src, more)
           c == IF history # << >> /\ Last(history) = f.mac THEN s.history
                ELSE Upsert(s.history, f.src, AppendCapped(history, f.mac, MaxTransitions))
           d == Upsert(s.lastClaim, key, f.ts)
           e == Upsert(s.claims, key, AppendCapped(Lookup(s.claims, key, << >>), f.ts, MaxClaims))
           r == [s EXCEPT !.owner = a, !.changes = b, !.history = c, !.lastClaim = d,
                          !.claims = e]
<1>1. Claim(s, f) = r
  BY DEF Claim
<1>2. OneMore(DOMAIN s.changes, DOMAIN b)
  <2> HIDE DEF more, old
  <2> QED BY UpsertMore, SameMore
<1> HIDE DEF a, b, c, d, e
<1>3. DOMAIN r = DOMAIN s /\ r.alerts = s.alerts /\ r.changes = b
  BY DEF ArpHeld
<1> HIDE DEF r
<1> QED BY <1>1, <1>2, <1>3, OneMoreFinite DEF ArpHeld

\* So does the check for a flood of claims.
LEMMA FloodHolds ==
  ASSUME NEW s, ArpHeld(s), NEW f
  PROVE  ArpHeld(ClaimGratuitously(s, f))
<1> DEFINE recent == Expire(Append(Lookup(s.garp, f.mac, << >>), f.ts), f.ts)
           flood == Len(recent) >= Threshold.arp_gratuitous_max /\ f.mac \notin s.flooded
           new == {Alert("garp_flood", "high", f.src, NoHost, f.mac, Len(recent))}
           raised == {a \in new : flood}
           b == Upsert(s.garp, f.mac, recent)
           c == s.flooded \union {m \in {f.mac} : flood}
           d == s.alerts \union raised
           r == [s EXCEPT !.garp = b, !.flooded = c, !.alerts = d]
<1>1. ClaimGratuitously(s, f) = r
  BY DEF ClaimGratuitously
<1>2. Hard(new)
  <2> HIDE DEF recent
  <2> QED BY SingleRaised DEF SoftRules, Severities
<1> HIDE DEF new, recent, flood
<1>3. Hard(raised)
  BY <1>2, Fewer
<1> HIDE DEF raised
<1>4. Hard(d)
  BY <1>3, Joins DEF ArpHeld
<1> HIDE DEF b, c, d
<1>5. DOMAIN r = DOMAIN s /\ r.alerts = d /\ r.changes = s.changes
  BY DEF ArpHeld
<1> HIDE DEF r
<1> QED BY <1>1, <1>4, <1>5 DEF ArpHeld

\* So does any frame.
LEMMA ArpHolds ==
  ASSUME NEW s, ArpHeld(s), NEW f
  PROVE  ArpHeld(ArpSpoofUpdate(s, f))
<1>1. ArpHeld(Claim(s, f)) /\ ArpHeld(ClaimGratuitously(Claim(s, f), f))
  BY ClaimHolds, FloodHolds
<1> QED BY <1>1 DEF ArpSpoofUpdate

\* What the NDP detector has raised stays hard.
LEMMA NdpHolds ==
  ASSUME NEW s, Hard(s.alerts), NEW f
  PROVE  Hard(NdpSpoofUpdate(s, f).alerts)
<1> DEFINE conflict == Lookup(s.mac, f.target, f.mac) # f.mac
           count == Lookup(s.overrides, f.mac, 0) + 1
           flood == f.override /\ count = Threshold.ndp_override_max
           spoofed == {Alert("ndp_spoofing", "critical", f.target, NoHost, f.mac,
                             Cardinality(s.alerts) + 1)}
           flooded == {Alert("na_flood", "high", f.src, NoHost, f.mac, count)}
           raised == {a \in spoofed : conflict} \union {a \in flooded : flood}
           b == Upsert(s.mac, f.target, f.mac)
           c == IF f.override THEN Upsert(s.overrides, f.mac, count) ELSE s.overrides
           r == [mac |-> b, overrides |-> c, alerts |-> s.alerts \union raised]
<1>1. NdpSpoofUpdate(s, f) = IF f.proto = "na" THEN r ELSE s
  BY DEF NdpSpoofUpdate
<1>2. Hard(spoofed) /\ Hard(flooded)
  <2> HIDE DEF count
  <2>1. \A n : Hard({Alert("ndp_spoofing", "critical", f.target, NoHost, f.mac, n)})
    BY SingleRaised DEF SoftRules, Severities
  <2>2. \A n : Hard({Alert("na_flood", "high", f.src, NoHost, f.mac, n)})
    BY SingleRaised DEF SoftRules, Severities
  <2> QED BY <2>1, <2>2
<1> HIDE DEF spoofed, flooded, conflict, flood
<1>3. Hard({a \in spoofed : conflict}) /\ Hard({a \in flooded : flood})
  BY <1>2, Fewer
<1>4. Hard(raised)
  BY <1>3, Joins
<1> HIDE DEF raised
<1>5. Hard(s.alerts \union raised)
  BY <1>4, Joins
<1> HIDE DEF b, c
<1>6. r.alerts = s.alerts \union raised
  OBVIOUS
<1> HIDE DEF r
<1> QED BY <1>1, <1>5, <1>6

\* The credentials detector keeps its shape, and holds finitely many.
LEMMA CredentialsHold ==
  ASSUME NEW s, NEW f, DOMAIN s = {"seen", "upgraded", "flows"}
  PROVE  /\ OneMore(s.seen, CredentialsUpdate(s, f).seen)
         /\ DOMAIN CredentialsUpdate(s, f) = {"seen", "upgraded", "flows"}
<1>1. PICK tracked : tracked = [s EXCEPT !.flows = Track(@, f, CredentialPorts)]
  OBVIOUS
<1>2. DOMAIN tracked = DOMAIN s /\ tracked.seen = s.seen
  BY <1>1
<1>3. \/ CredentialsUpdate(s, f) = tracked
      \/ \E u : CredentialsUpdate(s, f) = [tracked EXCEPT !.upgraded = u]
      \/ \E m : CredentialsUpdate(s, f) = [tracked EXCEPT !.seen = tracked.seen \union {m}]
  BY <1>1 DEF CredentialsUpdate
<1>4. /\ DOMAIN CredentialsUpdate(s, f) = {"seen", "upgraded", "flows"}
      /\ \/ CredentialsUpdate(s, f).seen = s.seen
         \/ \E m : CredentialsUpdate(s, f).seen = s.seen \union {m}
  BY <1>2, <1>3
<1> QED BY <1>4 DEF OneMore

\* So does the booking of uploads by machine.
LEMMA BookingHolds ==
  ASSUME NEW s, NEW f, DOMAIN s = {"out", "in"}
  PROVE  /\ DOMAIN HostExfilUpdate(s, f) = {"out", "in"}
         /\ OneMore(s.out, HostExfilUpdate(s, f).out)
         /\ OneMore(s.in, HostExfilUpdate(s, f).in)
<1>1. PICK sent : sent = [s EXCEPT !.out = BookPair(s, @, f, <<f.src, f.dst>>, ~IsLocal(f.dst))]
  OBVIOUS
<1>2. PICK r : r = [sent EXCEPT !.in = BookPair(sent, @, f, <<f.dst, f.src>>, ~IsLocal(f.src))]
  OBVIOUS
<1>3. HostExfilUpdate(s, f) = s \/ HostExfilUpdate(s, f) = r
  BY <1>1, <1>2 DEF HostExfilUpdate
<1>4. \A t, F, pair, wanted : BookPair(t, F, f, pair, wanted) \subseteq F \union {f}
  BY DEF BookPair, Keep
<1>5. DOMAIN sent = {"out", "in"} /\ sent.in = s.in /\ sent.out \subseteq s.out \union {f}
  BY <1>1, <1>4
<1>6. DOMAIN r = {"out", "in"} /\ r.out = sent.out /\ r.in \subseteq s.in \union {f}
  BY <1>2, <1>4, <1>5
<1> QED BY <1>3, <1>5, <1>6 DEF OneMore

\* So does the detector of beacons.
LEMMA BeaconingHolds ==
  ASSUME NEW s, NEW f, DOMAIN s = {"syns", "sizes"}
  PROVE  /\ DOMAIN BeaconingUpdate(s, f) = {"syns", "sizes"}
         /\ OneMore(s.syns, BeaconingUpdate(s, f).syns)
<1>1. \/ BeaconingUpdate(s, f) = s
      \/ BeaconingUpdate(s, f) = [s EXCEPT !.syns = s.syns \union {f}]
      \/ \E z : BeaconingUpdate(s, f) = [s EXCEPT !.sizes = z]
  BY DEF BeaconingUpdate
<1>2. /\ DOMAIN BeaconingUpdate(s, f) = {"syns", "sizes"}
      /\ \/ BeaconingUpdate(s, f).syns = s.syns
         \/ BeaconingUpdate(s, f).syns = s.syns \union {f}
  BY <1>1
<1> QED BY <1>2 DEF OneMore

\* So does the detector of brute force.
LEMMA BruteForceHolds ==
  ASSUME NEW s, NEW f, DOMAIN s = {"tries", "last", "failed", "sizes", "flows"}
  PROVE  /\ DOMAIN BruteForceUpdate(s, f) = {"tries", "last", "failed", "sizes", "flows"}
         /\ OneMore(DOMAIN s.last, DOMAIN BruteForceUpdate(s, f).last)
<1> DEFINE attempt == f.dport \in TargetPorts /\ PureSyn(f)
           flows == Track(s.flows, f, TargetPorts)
           tracked == [s EXCEPT !.flows = flows]
           a == AddConnBytes(s.sizes, f)
           b == IF attempt THEN s.tries \union {f} ELSE s.tries
           c == IF attempt THEN Upsert(s.last, Conversation(f), f.id) ELSE s.last
           d == s.failed \union ResetOf(s, f)
           r == [tracked EXCEPT !.sizes = a, !.tries = b, !.last = c, !.failed = d]
<1> HIDE DEF flows
<1>1. /\ DOMAIN tracked = DOMAIN s /\ tracked.sizes = s.sizes /\ tracked.tries = s.tries
      /\ tracked.last = s.last /\ tracked.failed = s.failed
  OBVIOUS
<1>2. BruteForceUpdate(s, f) = IF Watched(f, TargetPorts) THEN r ELSE tracked
  <2> HIDE DEF tracked
  <2>1. tracked = [s EXCEPT !.flows = Track(@, f, TargetPorts)]
    BY DEF tracked, flows
  <2> QED BY <1>1, <2>1 DEF BruteForceUpdate
<1>3. OneMore(DOMAIN s.last, DOMAIN c)
  BY UpsertMore, SameMore
<1> HIDE DEF a, b, c, d, tracked
<1>4. DOMAIN r = DOMAIN s /\ r.last = c
  BY <1>1
<1> HIDE DEF r
<1> QED BY <1>1, <1>2, <1>3, <1>4, SameMore

\* The counts of the four kinds of tunnel.
TunnelHeld(s) ==
  /\ TunnelShape(s)
  /\ IsFiniteSet(DOMAIN s.encapsulated)
  /\ IsFiniteSet(DOMAIN s.doq)
  /\ IsFiniteSet(DOMAIN s.wireguard)
  /\ IsFiniteSet(DOMAIN s.openvpn)

\* A count adds one key at most.
LEMMA CountMore ==
  ASSUME NEW counts, NEW key, NEW guard
  PROVE  OneMore(DOMAIN counts, DOMAIN CountIf(counts, key, guard))
<1>1. \A v : OneMore(DOMAIN counts, DOMAIN Upsert(counts, key, v))
  BY UpsertMore
<1> QED BY <1>1, SameMore DEF CountIf, Count

\* So does the detector of tunnels.
LEMMA TunnelHolds ==
  ASSUME NEW s, NEW f, TunnelHeld(s)
  PROVE  TunnelHeld(TunnelUpdate(s, f))
<1>0. TunnelShape(s) /\ TunnelShape(TunnelUpdate(s, f))
  BY TunnelsKeep DEF TunnelHeld
<1>1. CASE f.proto = "ipip"
  <2>1. PICK n : n = CountIf(s.encapsulated, <<f.src, f.dst, f.kind>>,
                             IsLocal(f.src) # IsLocal(f.dst))
    OBVIOUS
  <2>2. PICK r : r = [s EXCEPT !.encapsulated = n]
    OBVIOUS
  <2>3. TunnelUpdate(s, f) = r
    BY <1>1, <2>1, <2>2 DEF TunnelUpdate
  <2>4. OneMore(DOMAIN s.encapsulated, DOMAIN n)
    BY <2>1, CountMore
  <2>5. /\ r.encapsulated = n /\ r.doq = s.doq /\ r.wireguard = s.wireguard
        /\ r.openvpn = s.openvpn
    BY <1>0, <2>2 DEF TunnelShape
  <2> QED BY <1>0, <2>3, <2>4, <2>5, OneMoreFinite DEF TunnelHeld
<1>2. CASE f.proto = "udp"
  <2> DEFINE doq == <<f.src, f.dst, 853>>
             shakes == f.carries = "wireguard_init"
             quic == /\ 853 \in Ports(f) /\ ~IsLocal(f.dst)
                     /\ doq \in DOMAIN s.doq \/ f.carries = "quic_long"
             reset == /\ f.carries = "openvpn_reset"
                      /\ Ports(f) \intersect (OpenvpnPorts \union {80, 443}) = {}
             a == CountIf(s.doq, doq, quic)
             b == CountIf(s.wireguard, UdpKey(f), shakes)
             c == IF shakes
                  THEN Upsert(s.disguised, UdpKey(f),
                              Lookup(s.disguised, UdpKey(f),
                                     Ports(f) \intersect WireguardPorts = {}))
                  ELSE s.disguised
             d == CountIf(s.openvpn, UdpKey(f), reset)
             r == [s EXCEPT !.doq = a, !.wireguard = b, !.disguised = c, !.openvpn = d]
  <2>1. TunnelUpdate(s, f) = r
    BY <1>2 DEF TunnelUpdate
  <2> HIDE DEF doq, quic, reset, shakes
  <2>2. OneMore(DOMAIN s.doq, DOMAIN a)
    BY CountMore
  <2>3. OneMore(DOMAIN s.wireguard, DOMAIN b)
    BY CountMore
  <2>4. OneMore(DOMAIN s.openvpn, DOMAIN d)
    BY CountMore
  <2> HIDE DEF a, b, c, d
  <2>5. /\ r.encapsulated = s.encapsulated /\ r.doq = a /\ r.wireguard = b /\ r.openvpn = d
    BY <1>0 DEF TunnelShape
  <2> HIDE DEF r
  <2> QED BY <1>0, <2>1, <2>2, <2>3, <2>4, <2>5, OneMoreFinite DEF TunnelHeld
<1>3. CASE f.proto # "ipip" /\ f.proto # "udp"
  BY <1>3 DEF TunnelUpdate
<1> QED BY <1>1, <1>2, <1>3

\* So does the detector of industrial protocols.
LEMMA IcsHolds ==
  ASSUME NEW s, NEW f, DOMAIN s = {"presence", "writes", "flows"}
  PROVE  /\ OneMore(s.presence, IcsUpdate(s, f).presence)
         /\ OneMore(s.writes, IcsUpdate(s, f).writes)
         /\ DOMAIN IcsUpdate(s, f) = {"presence", "writes", "flows"}
<1>1. CASE IcsSegment(f)
  <2>1. PICK r : r = IcsUpdate(s, f)
    OBVIOUS
  <2>2. /\ DOMAIN r = {"presence", "writes", "flows"}
        /\ \E port : r.presence = s.presence \union {<<f.src, f.dst, port, f.id>>}
        /\ \E guard : r.writes = Keep(s.writes, f, guard)
    BY <1>1, <2>1 DEF IcsUpdate
  <2>3. OneMore(s.presence, r.presence)
    BY <2>2 DEF OneMore
  <2>4. OneMore(s.writes, r.writes)
    BY <2>2, KeepMore
  <2> QED BY <2>1, <2>2, <2>3, <2>4
<1>2. CASE ~IcsSegment(f) /\ f.proto = "icmp"
  <2>1. PICK r : r = [s EXCEPT !.flows = ObserveIcmpError(@, f, DOMAIN IcsPorts, FALSE)]
    OBVIOUS
  <2>2. IcsUpdate(s, f) = r
    BY <1>2, <2>1 DEF IcsUpdate
  <2>3. DOMAIN r = DOMAIN s /\ r.writes = s.writes /\ r.presence = s.presence
    BY <2>1
  <2> QED BY <2>2, <2>3, SameMore
<1>3. CASE ~IcsSegment(f) /\ f.proto # "icmp"
  BY <1>3, SameMore DEF IcsUpdate
<1> QED BY <1>1, <1>2, <1>3

\* So does the detector of exposed services.
LEMMA ExposureHolds ==
  ASSUME NEW s, NEW f, DOMAIN s = {"db", "greeted", "pipes", "flows"}
  PROVE  /\ OneMore(s.db, ExposureUpdate(s, f).db)
         /\ OneMore(s.pipes, ExposureUpdate(s, f).pipes)
         /\ DOMAIN ExposureUpdate(s, f) = {"db", "greeted", "pipes", "flows"}
<1>1. CASE f.proto = "icmp"
  <2>1. PICK r : r = [s EXCEPT !.flows = ObserveIcmpError(@, f, ExposureTracked, FALSE)]
    OBVIOUS
  <2>2. ExposureUpdate(s, f) = r
    BY <1>1, <2>1 DEF ExposureUpdate
  <2>3. DOMAIN r = DOMAIN s /\ r.db = s.db /\ r.pipes = s.pipes
    BY <2>1
  <2> QED BY <2>2, <2>3, SameMore
<1>2. CASE f.proto = "tcp"
  <2> DEFINE keys == {<<AsDb(f, p).server, AsDb(f, p).client, p>> : p \in ExposedPort(f)}
  <2>1. PICK r : r = ExposureUpdate(s, f)
    OBVIOUS
  <2>2. /\ DOMAIN r = {"db", "greeted", "pipes", "flows"}
        /\ r.db = s.db \union {k \o <<f.id>> : k \in keys}
        /\ r.pipes = s.pipes \/ r.pipes = s.pipes \union {<<f.src, f.dst, f.about, f.id>>}
    BY <1>2, <2>1 DEF ExposureUpdate
  <2>3. \E p : ExposedPort(f) \subseteq {p}
    BY DEF ExposedPort
  <2>4. PICK k : keys \subseteq {k}
    BY <2>3
  <2> HIDE DEF keys
  <2>5. r.db \subseteq s.db \union {k \o <<f.id>>}
    BY <2>2, <2>4
  <2> QED BY <2>1, <2>2, <2>5 DEF OneMore
<1>3. CASE f.proto # "icmp" /\ f.proto # "tcp"
  BY <1>3, SameMore DEF ExposureUpdate
<1> QED BY <1>1, <1>2, <1>3

\* Every port of the list has a severity, every interface too.
ListedAssumption ==
  /\ \A port \in DOMAIN SuspiciousPorts : SuspiciousPorts[port] \in Severities
  /\ \A i \in DOMAIN Interfaces : Interfaces[i] \in Severities

\* The flows of the suspicious ports.
PortsHeld(s) ==
  /\ DOMAIN s = {"flows", "listening", "ephemeral", "servicePeer"}
  /\ IsFiniteSet(DOMAIN s.flows)
  /\ \A k \in DOMAIN s.flows : k[3] \in DOMAIN SuspiciousPorts

\* So does the detector of suspicious ports, whose flows are to listed ports.
LEMMA PortsHold ==
  ASSUME NEW s, PortsHeld(s), NEW f
  PROVE  PortsHeld(SuspiciousPortUpdate(s, f))
<1>1. CASE f.proto = "tcp" /\ TouchesSuspicious(f)
  <2>1. PICK r : r = SuspiciousPortUpdate(s, f)
    OBVIOUS
  <2>2. /\ DOMAIN r = {"flows", "listening", "ephemeral", "servicePeer"}
        /\ r.flows = ObserveTcp(s.flows, SuspiciousKey(f), f, ToSuspicious(f))
    BY <1>1, <2>1 DEF SuspiciousPortUpdate
  <2>3. PICK key : key = SuspiciousKey(f)
    OBVIOUS
  <2>4. key[3] \in DOMAIN SuspiciousPorts
    BY <1>1, <2>3 DEF SuspiciousKey, ToSuspicious, TouchesSuspicious
  <2>5. DOMAIN r.flows = DOMAIN s.flows \union {key}
    BY <2>2, <2>3 DEF ObserveTcp, Upsert
  <2>6. \A x : IsFiniteSet(DOMAIN s.flows \union {x})
    BY FS_AddElement DEF PortsHeld
  <2> QED BY <2>1, <2>2, <2>4, <2>5, <2>6 DEF PortsHeld
<1>2. CASE ~(f.proto = "tcp" /\ TouchesSuspicious(f)) /\ f.proto = "icmp"
  <2>1. PICK fl : fl = ObserveIcmpError(s.flows, f, DOMAIN SuspiciousPorts, FALSE)
    OBVIOUS
  <2>2. PICK r : r = [s EXCEPT !.flows = fl]
    OBVIOUS
  <2>3. SuspiciousPortUpdate(s, f) = r
    BY <1>2, <2>1, <2>2 DEF SuspiciousPortUpdate
  <2>4. DOMAIN r = DOMAIN s /\ r.flows = fl
    BY <2>2 DEF PortsHeld
  <2>5. DOMAIN fl = DOMAIN s.flows
    BY <2>1 DEF ObserveIcmpError, Upsert
  <2> QED BY <2>3, <2>4, <2>5 DEF PortsHeld
<1>3. CASE ~(f.proto = "tcp" /\ TouchesSuspicious(f)) /\ f.proto # "icmp"
  BY <1>3 DEF SuspiciousPortUpdate
<1> QED BY <1>1, <1>2, <1>3

\* What stands in such records.
HeldShaped(d) ==
  /\ ArpHeld(d.arp_spoofing)
  /\ Hard(d.ndp_spoofing.alerts)
  /\ DOMAIN d.credentials = {"seen", "upgraded", "flows"} /\ IsFiniteSet(d.credentials.seen)
  /\ DOMAIN d.host_exfil = {"out", "in"}
  /\ IsFiniteSet(d.host_exfil.out) /\ IsFiniteSet(d.host_exfil.in)
  /\ DOMAIN d.beaconing = {"syns", "sizes"} /\ IsFiniteSet(d.beaconing.syns)
  /\ DOMAIN d.brute_force = {"tries", "last", "failed", "sizes", "flows"}
  /\ IsFiniteSet(DOMAIN d.brute_force.last)
  /\ TunnelHeld(d.tunnel)
  /\ DOMAIN d.ics = {"presence", "writes", "flows"}
  /\ IsFiniteSet(d.ics.presence) /\ IsFiniteSet(d.ics.writes)
  /\ DOMAIN d.exposure = {"db", "greeted", "pipes", "flows"}
  /\ IsFiniteSet(d.exposure.db) /\ IsFiniteSet(d.exposure.pipes)
  /\ PortsHeld(d.suspicious_ports)

\* A frame keeps the shape of every such record.
LEMMA ShapesHold ==
  ASSUME NEW d, HeldShaped(d), NEW f
  PROVE  HeldShaped(Fed(d, f))
<1> DEFINE e == Fed(d, f)
<1>1. /\ e.arp_spoofing = ArpSpoofUpdate(d.arp_spoofing, f)
      /\ e.ndp_spoofing = NdpSpoofUpdate(d.ndp_spoofing, f)
      /\ e.credentials = CredentialsUpdate(d.credentials, f)
      /\ e.host_exfil = HostExfilUpdate(d.host_exfil, f)
      /\ e.beaconing = BeaconingUpdate(d.beaconing, f)
      /\ e.brute_force = BruteForceUpdate(d.brute_force, f)
      /\ e.tunnel = TunnelUpdate(d.tunnel, f)
      /\ e.ics = IcsUpdate(d.ics, f)
      /\ e.exposure = ExposureUpdate(d.exposure, f)
      /\ e.suspicious_ports = SuspiciousPortUpdate(d.suspicious_ports, f)
  BY DEF Fed
<1> HIDE DEF e
<1>2. ArpHeld(e.arp_spoofing) /\ Hard(e.ndp_spoofing.alerts)
  BY <1>1, ArpHolds, NdpHolds DEF HeldShaped
<1>3. /\ DOMAIN e.credentials = {"seen", "upgraded", "flows"}
      /\ IsFiniteSet(e.credentials.seen)
  BY <1>1, CredentialsHold, OneMoreFinite DEF HeldShaped
<1>4. /\ DOMAIN e.host_exfil = {"out", "in"}
      /\ IsFiniteSet(e.host_exfil.out) /\ IsFiniteSet(e.host_exfil.in)
  BY <1>1, BookingHolds, OneMoreFinite DEF HeldShaped
<1>5. DOMAIN e.beaconing = {"syns", "sizes"} /\ IsFiniteSet(e.beaconing.syns)
  BY <1>1, BeaconingHolds, OneMoreFinite DEF HeldShaped
<1>6. /\ DOMAIN e.brute_force = {"tries", "last", "failed", "sizes", "flows"}
      /\ IsFiniteSet(DOMAIN e.brute_force.last)
  BY <1>1, BruteForceHolds, OneMoreFinite DEF HeldShaped
<1>7. TunnelHeld(e.tunnel) /\ PortsHeld(e.suspicious_ports)
  BY <1>1, TunnelHolds, PortsHold DEF HeldShaped
<1>8. /\ DOMAIN e.ics = {"presence", "writes", "flows"}
      /\ IsFiniteSet(e.ics.presence) /\ IsFiniteSet(e.ics.writes)
  BY <1>1, IcsHolds, OneMoreFinite DEF HeldShaped
<1>9. /\ DOMAIN e.exposure = {"db", "greeted", "pipes", "flows"}
      /\ IsFiniteSet(e.exposure.db) /\ IsFiniteSet(e.exposure.pipes)
  BY <1>1, ExposureHolds, OneMoreFinite DEF HeldShaped
<1>10. HeldShaped(e)
  BY <1>2, <1>3, <1>4, <1>5, <1>6, <1>7, <1>8, <1>9 DEF HeldShaped
<1> QED BY <1>10 DEF e

-----------------------------------------------------------------------------
(* The lists that the post detectors read *)

\* No request is a list.
LEMMA EmptyList == List(<< >>)
<1>1. << >> \in Seq({})
  OBVIOUS
<1> QED BY <1>1 DEF List

\* A list with an entry appended is a list.
LEMMA AppendList ==
  ASSUME NEW s, List(s), NEW x
  PROVE  List(Append(s, x))
<1>1. PICK S : s \in Seq(S)
  BY DEF List
<1>2. s \in Seq(S \union {x})
  BY <1>1
<1>3. Append(s, x) \in Seq(S \union {x})
  BY <1>2
<1> QED BY <1>3 DEF List

\* A list with an entry replaced is a list.
LEMMA ExceptList ==
  ASSUME NEW s, List(s), NEW i, NEW v
  PROVE  List([s EXCEPT ![i] = v])
<1>1. PICK S : s \in Seq(S)
  BY DEF List
<1>2. s \in Seq(S \union {v})
  BY <1>1
<1>3. [s EXCEPT ![i] = v] \in Seq(S \union {v})
  <2>1. DOMAIN s = 1..Len(s)
    BY <1>2
  <2>2. CASE i \in 1..Len(s)
    BY <1>2, <2>1, <2>2
  <2>3. CASE i \notin 1..Len(s)
    <3>1. [s EXCEPT ![i] = v] = s
      BY <1>2, <2>1, <2>3
    <3> QED BY <1>2, <3>1
  <2> QED BY <2>2, <2>3
<1> QED BY <1>3 DEF List

\* Hellos of clients, answers of servers, certificates.
TlsHeld(s) ==
  /\ DOMAIN s = {"hellos", "answers", "certs"}
  /\ List(s.hellos) /\ List(s.answers) /\ List(s.certs)

\* The TLS aggregator keeps lists.
LEMMA TlsHolds ==
  ASSUME NEW s, TlsHeld(s), NEW f
  PROVE  TlsHeld(TlsUpdate(s, f))
<1> DEFINE a == Append(s.hellos, f)
           b == Append(s.answers, f)
           c == Append(s.certs, f)
<1>1. List(a) /\ List(b) /\ List(c)
  BY AppendList DEF TlsHeld
<1>2. \/ TlsUpdate(s, f) = s
      \/ TlsUpdate(s, f) = [s EXCEPT !.hellos = a]
      \/ TlsUpdate(s, f) = [s EXCEPT !.answers = b]
      \/ TlsUpdate(s, f) = [s EXCEPT !.certs = c]
  BY DEF TlsUpdate
<1> HIDE DEF a, b, c
<1>3. ASSUME NEW r, r = [s EXCEPT !.hellos = a] PROVE TlsHeld(r)
  <2>1. /\ DOMAIN r = DOMAIN s
        /\ r.hellos = a /\ r.answers = s.answers /\ r.certs = s.certs
    BY <1>3 DEF TlsHeld
  <2> QED BY <1>1, <2>1 DEF TlsHeld
<1>4. ASSUME NEW r, r = [s EXCEPT !.answers = b] PROVE TlsHeld(r)
  <2>1. /\ DOMAIN r = DOMAIN s
        /\ r.hellos = s.hellos /\ r.answers = b /\ r.certs = s.certs
    BY <1>4 DEF TlsHeld
  <2> QED BY <1>1, <2>1 DEF TlsHeld
<1>5. ASSUME NEW r, r = [s EXCEPT !.certs = c] PROVE TlsHeld(r)
  <2>1. /\ DOMAIN r = DOMAIN s
        /\ r.hellos = s.hellos /\ r.answers = s.answers /\ r.certs = c
    BY <1>5 DEF TlsHeld
  <2> QED BY <1>1, <2>1 DEF TlsHeld
<1> QED BY <1>2, <1>3, <1>4, <1>5

\* A request is appended to the list, once.
LEMMA RequestHolds ==
  ASSUME NEW s, List(s.requests), NEW f
  PROVE  List(AddRequest(s, f).requests)
<1> DEFINE a == Append(s.requests, f)
           b == s.seen \union {RequestKey(f)}
           r == [requests |-> a, seen |-> b]
<1>1. List(a)
  BY AppendList
<1>2. AddRequest(s, f) = s \/ AddRequest(s, f) = r
  BY DEF AddRequest
<1> HIDE DEF a, b
<1>3. r.requests = a
  OBVIOUS
<1> HIDE DEF r
<1> QED BY <1>1, <1>2, <1>3

\* The HTTP aggregator keeps a list.
LEMMA HttpHolds ==
  ASSUME NEW s, List(s.requests), NEW f
  PROVE  List(HttpUpdate(s, f).requests)
  BY RequestHolds DEF HttpUpdate

\* The QUIC flows, in the order they began.
QuicHeld(s) == DOMAIN s = {"flows", "h2c"} /\ List(s.flows)

\* The QUIC aggregator keeps a list.
LEMMA QuicHolds ==
  ASSUME NEW s, QuicHeld(s), NEW f
  PROVE  QuicHeld(QuicUpdate(s, f))
<1> DEFINE at == {i \in DOMAIN s.flows : <<s.flows[i].src, s.flows[i].dst>> = QuicKey(f)}
           m == Min(at)
           new == [src |-> QuicKey(f)[1], dst |-> QuicKey(f)[2], packets |-> 1,
                   bytes |-> f.size]
           a == Append(s.flows, new)
           c == s.h2c \union {Stream(f)}
<1>1. \/ QuicUpdate(s, f) = s
      \/ QuicUpdate(s, f) = [s EXCEPT !.flows = a]
      \/ QuicUpdate(s, f) = [s EXCEPT !.flows[m].packets = @ + 1,
                                      !.flows[m].bytes = @ + f.size]
      \/ QuicUpdate(s, f) = [s EXCEPT !.h2c = c]
  <2>1. CASE LongHeader(f) /\ at # {}
    <3>1. QuicUpdate(s, f) = [s EXCEPT !.flows[m].packets = @ + 1,
                                       !.flows[m].bytes = @ + f.size]
      <4> HIDE DEF new, a, c
      <4> QED BY <2>1, Zenon DEF QuicUpdate, m, at
    <3> HIDE DEF m
    <3> QED BY <3>1
  <2>2. CASE LongHeader(f) /\ at = {}
    BY <2>2 DEF QuicUpdate
  <2>3. CASE ~LongHeader(f)
    BY <2>3 DEF QuicUpdate
  <2> QED BY <2>1, <2>2, <2>3
<1>2. List(a)
  <2> HIDE DEF new
  <2> QED BY AppendList DEF QuicHeld
<1> HIDE DEF a, c, m
<1>3. ASSUME NEW r, r = [s EXCEPT !.flows = a] PROVE QuicHeld(r)
  <2>1. DOMAIN r = DOMAIN s /\ r.flows = a
    BY <1>3 DEF QuicHeld
  <2> QED BY <1>2, <2>1 DEF QuicHeld
<1>4. ASSUME NEW r, r = [s EXCEPT !.h2c = c] PROVE QuicHeld(r)
  <2>1. DOMAIN r = DOMAIN s /\ r.flows = s.flows
    BY <1>4 DEF QuicHeld
  <2> QED BY <2>1 DEF QuicHeld
<1>5. ASSUME NEW r, r = [s EXCEPT !.flows[m].packets = @ + 1, !.flows[m].bytes = @ + f.size]
      PROVE  QuicHeld(r)
  <2> DEFINE p == [s.flows EXCEPT ![m].packets = @ + 1]
             q == [p EXCEPT ![m].bytes = s.flows[m].bytes + f.size]
  <2>1. r = [[s EXCEPT !.flows = p] EXCEPT !.flows = q]
    BY <1>5 DEF QuicHeld
  <2>2. List(p)
    <3> DEFINE one == [s.flows[m] EXCEPT !.packets = @ + 1]
    <3>1. p = [s.flows EXCEPT ![m] = one]
      OBVIOUS
    <3> HIDE DEF p, one
    <3> QED BY <3>1, ExceptList DEF QuicHeld
  <2> HIDE DEF p
  <2>3. List(q)
    <3> DEFINE two == [p[m] EXCEPT !.bytes = s.flows[m].bytes + f.size]
    <3>1. q = [p EXCEPT ![m] = two]
      OBVIOUS
    <3> HIDE DEF q, two
    <3> QED BY <2>2, <3>1, ExceptList
  <2> HIDE DEF q
  <2>4. DOMAIN r = DOMAIN s /\ r.flows = q
    BY <2>1 DEF QuicHeld
  <2> QED BY <2>3, <2>4 DEF QuicHeld
<1> QED BY <1>1, <1>3, <1>4, <1>5

\* An observation of a binding keeps the list of bindings.
LEMMA ObserveLists ==
  ASSUME NEW s, List(s), NEW mac, NEW ip, NEW source, NEW ts
  PROVE  List(Observe(s, mac, ip, source, ts))
<1> DEFINE at == {i \in DOMAIN s : s[i].mac = mac /\ s[i].ip = ip}
           new == [mac |-> mac, ip |-> ip, first |-> ts, last |-> ts, sources |-> {source}]
           old(i) == [s[i] EXCEPT !.sources = @ \union {source}, !.first = Min({@, ts}),
                                  !.last = Max({@, ts})]
<1>1. \/ Observe(s, mac, ip, source, ts) = s
      \/ Observe(s, mac, ip, source, ts) = [s EXCEPT ![Min(at)] = old(Min(at))]
      \/ Observe(s, mac, ip, source, ts) = Append(s, new)
  BY Zenon DEF Observe
<1>2. List([s EXCEPT ![Min(at)] = old(Min(at))])
  <2>1. PICK v : v = old(Min(at))
    OBVIOUS
  <2> HIDE DEF old
  <2>2. List([s EXCEPT ![Min(at)] = v])
    BY ExceptList
  <2> QED BY <2>1, <2>2
<1>3. List(Append(s, new))
  <2> HIDE DEF new
  <2> QED BY AppendList
<1> HIDE DEF old, at, new
<1> QED BY <1>1, <1>2, <1>3

\* The observations of addresses stay a list.
LEMMA HostsHold ==
  ASSUME NEW s, List(s), NEW f
  PROVE  List(HostsUpdate(s, f))
<1>1. List(ObserveDhcp(s, f))
  BY ObserveLists DEF ObserveDhcp
<1> DEFINE stated == IF f.proto = "dhcp" THEN ObserveDhcp(s, f) ELSE s
<1>2. List(stated)
  BY <1>1
<1>3. \/ HostsUpdate(s, f) = Observe(s, f.mac, f.src, "arp", f.ts)
      \/ HostsUpdate(s, f) = Observe(s, f.mac, f.target, "ndp", f.ts)
      \/ HostsUpdate(s, f) = Observe(s, f.mac, f.src, "ndp", f.ts)
      \/ HostsUpdate(s, f) = Observe(stated, f.mac, f.src, "l2", f.ts)
      \/ HostsUpdate(s, f) = stated
  BY DEF HostsUpdate
<1> HIDE DEF stated
<1> QED BY <1>2, <1>3, ObserveLists

\* The lists.
HeldLists(d) ==
  /\ TlsHeld(d.tls)
  /\ List(d.http.requests)
  /\ QuicHeld(d.quic)
  /\ List(d.hosts)

\* A frame keeps the lists.
LEMMA ListsHold ==
  ASSUME NEW d, HeldLists(d), NEW f
  PROVE  HeldLists(Fed(d, f))
<1> DEFINE e == Fed(d, f)
<1>1. /\ e.tls = TlsUpdate(d.tls, f)
      /\ e.http = HttpUpdate(d.http, f)
      /\ e.quic = QuicUpdate(d.quic, f)
      /\ e.hosts = HostsUpdate(d.hosts, f)
  BY DEF Fed
<1> HIDE DEF e
<1>2. HeldLists(e)
  BY <1>1, TlsHolds, HttpHolds, QuicHolds, HostsHold DEF HeldLists
<1> QED BY <1>2 DEF e

-----------------------------------------------------------------------------
(* What the aggregators hand over *)

\* The second pass over the heads of the streams, as a function from sets of
\* their positions.
Reread(t, f) == AddRequest(t, [f EXCEPT !.ts = 0])

Rereads(g, s, q) ==
  g = [r \in SUBSET (DOMAIN q) |-> IF r = {} THEN s ELSE Reread(g[r \ {Max(r)}], q[Max(r)])]

Rereading(s, q) == CHOOSE g : Rereads(g, s, q)

Heads(flows) ==
  {flows[k].head : k \in {j \in DOMAIN flows : j[4] \in LikelyHttp \/ j[2] \in {80, 8080}}}

\* The requests are read again from the heads of the streams, one by one.
LEMMA RequestsUnfold ==
  ASSUME NEW s, NEW flows, NEW q, q = InTime(Heads(flows))
  PROVE  Requests(s, flows) = Rereading(s, q)[DOMAIN q].requests
  BY DEF Requests, FoldLeft, MapThenFoldSet, Rereading, Rereads, Reread, Heads

\* The rereading is a function of the number of heads read: there are finitely many.
LEMMA RereadingRereads ==
  ASSUME NEW s, NEW q, NEW N \in Nat, DOMAIN q = 1..N
  PROVE  Rereads(Rereading(s, q), s, q)
<1> DEFINE S == 1..N
           Step(g, r) == IF r = {} THEN s
                         ELSE Reread(g[r \ {Max(r)}], q[Max(r)])
           Small(n) == {r \in SUBSET S : Cardinality(r) <= n}
           Good(n, g) == \A r \in Small(n) : g[r] = Step(g, r)
           Bad == {n \in Nat : ~\E g : Good(n, g)}
<1>0. IsFiniteSet(S) /\ S \in SUBSET Int
  BY FS_Interval
<1>1. \A r \in SUBSET S : /\ IsFiniteSet(r)
                          /\ Cardinality(r) \in Nat
                          /\ Cardinality(r) <= Cardinality(S)
  BY <1>0, FS_Subset, FS_CardinalityType
<1>2. \A r \in SUBSET S : r # {} => /\ Max(r) \in r
                                    /\ r \ {Max(r)} \in SUBSET S
                                    /\ Cardinality(r \ {Max(r)}) = Cardinality(r) - 1
  <2> SUFFICES ASSUME NEW r \in SUBSET S, r # {}
               PROVE  /\ Max(r) \in r
                      /\ Cardinality(r \ {Max(r)}) = Cardinality(r) - 1
    OBVIOUS
  <2>1. r \in SUBSET Int /\ IsFiniteSet(r)
    BY <1>0, <1>1
  <2>2. Max(r) \in r
    BY <2>1, GreatestOf
  <2> QED BY <2>1, <2>2, FS_RemoveElement
<1>3. Bad = {}
  <2> SUFFICES ASSUME Bad # {} PROVE FALSE
    OBVIOUS
  <2>1. PICK n \in Bad : \A m \in Bad : n <= m
    BY LeastOf
  <2>2. CASE n = 0
    <3>1. \A r \in Small(0) : r = {}
      BY <1>1, FS_EmptySet
    <3>2. Good(0, [r \in SUBSET S |-> s])
      BY <3>1
    <3> QED BY <2>1, <2>2, <3>2
  <2>3. CASE n # 0
    <3>1. n \in Nat /\ n - 1 \in Nat
      BY <2>1, <2>3
    <3>2. n - 1 \notin Bad
      <4> HIDE DEF Bad
      <4> QED BY <2>1, <3>1
    <3>3. PICK g : Good(n - 1, g)
      BY <3>1, <3>2
    <3> DEFINE h == [r \in SUBSET S |-> Step(g, r)]
    <3>4. \A r \in Small(n - 1) : h[r] = g[r]
      BY <3>3
    <3>5. ASSUME NEW r \in Small(n), r # {} PROVE r \ {Max(r)} \in Small(n - 1)
      <4> HIDE DEF S
      <4>1. r \in SUBSET S /\ Cardinality(r) <= n
        OBVIOUS
      <4>2. /\ r \ {Max(r)} \in SUBSET S
            /\ Cardinality(r \ {Max(r)}) = Cardinality(r) - 1
        BY <1>2, <3>5, <4>1
      <4>3. Cardinality(r) \in Nat /\ n \in Nat
        BY <1>1, <2>1, <4>1
      <4>4. Cardinality(r \ {Max(r)}) <= n - 1
        BY <4>1, <4>2, <4>3
      <4> QED BY <4>2, <4>4
    <3>6. ASSUME NEW r \in Small(n) PROVE h[r] = Step(h, r)
      <4>1. h[r] = Step(g, r)
        OBVIOUS
      <4>2. CASE r = {}
        BY <4>1, <4>2
      <4>3. CASE r # {}
        BY <3>4, <3>5, <4>1, <4>3
      <4> QED BY <4>2, <4>3
    <3>7. Good(n, h)
      BY <3>6
    <3> QED BY <2>1, <3>7
  <2> QED BY <2>2, <2>3
<1>4. PICK g : Good(Cardinality(S), g)
  <2>1. Cardinality(S) \in Nat
    BY <1>1
  <2> QED BY <1>3, <2>1
<1>5. \A r \in SUBSET S : g[r] = Step(g, r)
  BY <1>1, <1>4
<1>6. Rereads([r \in SUBSET S |-> g[r]], s, q)
  <2> DEFINE f == [r \in SUBSET S |-> g[r]]
  <2>1. \A r \in SUBSET S : f[r] = Step(f, r)
    BY <1>2, <1>5
  <2>2. f = [r \in SUBSET S |->
               IF r = {} THEN s
               ELSE Reread(f[r \ {Max(r)}], q[Max(r)])]
    BY <2>1
  <2> HIDE DEF f
  <2> QED BY <2>2 DEF f, Rereads
<1> QED BY <1>6 DEF Rereading

\* Every step of the rereading leaves a list.
LEMMA RereadLists ==
  ASSUME NEW s, List(s.requests), NEW q, NEW N \in Nat, DOMAIN q = 1..N
  PROVE  List(Rereading(s, q)[DOMAIN q].requests)
<1> DEFINE g == Rereading(s, q)
           Bad == {r \in SUBSET (1..N) : ~List(g[r].requests)}
<1>1. Rereads(g, s, q)
  BY RereadingRereads
<1>2. IsFiniteSet(1..N) /\ 1..N \in SUBSET Int
  BY FS_Interval
<1> HIDE DEF g
<1>3. ASSUME Bad # {} PROVE FALSE
  <2>1. PICK r \in Bad : IsFiniteSet(r) /\ \A x \in r : r \ {x} \notin Bad
    <3>1. Bad \in SUBSET (SUBSET (1..N))
      OBVIOUS
    <3> HIDE DEF Bad
    <3> QED BY <1>2, <1>3, <3>1, SmallestOf
  <2>2. r \in SUBSET (1..N)
    OBVIOUS
  <2>3. g[r] = IF r = {} THEN s ELSE Reread(g[r \ {Max(r)}], q[Max(r)])
    BY <1>1, <2>2 DEF Rereads
  <2>4. CASE r = {}
    BY <2>1, <2>3, <2>4
  <2>5. CASE r # {}
    <3>1. PICK x : x = Max(r)
      OBVIOUS
    <3>2. x \in r
      <4>1. r \in SUBSET Int
        BY <1>2, <2>2
      <4> QED BY <2>1, <2>5, <3>1, <4>1, GreatestOf
    <3>3. PICK old, f : old = g[r \ {x}] /\ f = q[x]
      OBVIOUS
    <3>4. List(old.requests)
      BY <2>1, <2>2, <3>2, <3>3
    <3>5. g[r] = Reread(old, f)
      BY <2>3, <2>5, <3>1, <3>3
    <3>6. List(Reread(old, f).requests)
      BY <3>4, RequestHolds DEF Reread
    <3> QED BY <2>1, <3>5, <3>6
  <2> QED BY <2>4, <2>5
<1>4. List(g[1..N].requests)
  BY <1>3
<1> QED BY <1>4 DEF g

\* The requests that the post detectors read are a list.
LEMMA RequestsAreAList ==
  ASSUME NEW s, List(s.requests), NEW flows, IsFiniteSet(DOMAIN flows)
  PROVE  List(Requests(s, flows))
<1>1. PICK q : q = InTime(Heads(flows))
  OBVIOUS
<1>2. IsFiniteSet(Heads(flows))
  <2> DEFINE fn == [k \in DOMAIN flows |-> flows[k].head]
             all == {fn[k] : k \in DOMAIN flows}
  <2>1. Heads(flows) \subseteq all
    BY DEF Heads
  <2> HIDE DEF fn
  <2>2. IsFiniteSet(all)
    BY ImageFinite
  <2> QED BY <2>1, <2>2, FS_Subset
<1>3. PICK n \in Nat : n = Cardinality(Heads(flows))
  BY <1>2, FS_CardinalityType
<1>4. DOMAIN q = 1..n
  BY <1>1, <1>3 DEF InTime
<1> QED BY <1>1, <1>4, RequestsUnfold, RereadLists

\* The addresses that are placed on machines are finitely many.
LEMMA PlacedFinite ==
  ASSUME NEW owner, IsFiniteSet(DOMAIN owner), NEW N \in Nat, DOMAIN Bindings = 1..N
  PROVE  IsFiniteSet(DOMAIN PlacedHosts(owner))
<1> DEFINE g == Placing(owner)
           Bad == {r \in SUBSET (1..N) : ~IsFiniteSet(DOMAIN g[r])}
<1>1. Places(g, owner)
  BY PlacingPlaces
<1>2. IsFiniteSet(1..N) /\ 1..N \in SUBSET Int
  BY FS_Interval
<1> HIDE DEF g
<1>3. ASSUME Bad # {} PROVE FALSE
  <2>1. PICK r \in Bad : IsFiniteSet(r) /\ \A x \in r : r \ {x} \notin Bad
    <3>1. Bad \in SUBSET (SUBSET (1..N))
      OBVIOUS
    <3> HIDE DEF Bad
    <3> QED BY <1>2, <1>3, <3>1, SmallestOf
  <2>2. r \in SUBSET (1..N)
    OBVIOUS
  <2>3. g[r] = IF r = {} THEN AutoBound(owner)
               ELSE BindByHand(owner, g[r \ {Max(r)}], Bindings[Max(r)])
    BY <1>1, <2>2 DEF Places
  <2>4. CASE r = {}
    <3>1. DOMAIN AutoBound(owner) = DOMAIN owner
      BY DEF AutoBound
    <3> QED BY <2>1, <2>3, <2>4, <3>1
  <2>5. CASE r # {}
    <3>1. PICK x : x = Max(r)
      OBVIOUS
    <3>2. x \in r
      <4>1. r \in SUBSET Int
        BY <1>2, <2>2
      <4> QED BY <2>1, <2>5, <3>1, <4>1, GreatestOf
    <3>3. PICK old, m : old = g[r \ {x}] /\ m = Bindings[x]
      OBVIOUS
    <3>4. IsFiniteSet(DOMAIN old)
      BY <2>1, <2>2, <3>2, <3>3
    <3>5. g[r] = BindByHand(owner, old, m)
      BY <2>3, <2>5, <3>1, <3>3
    <3>6. OneMore(DOMAIN old, DOMAIN BindByHand(owner, old, m))
      BY UpsertMore, SameMore DEF BindByHand
    <3> QED BY <2>1, <3>4, <3>5, <3>6, OneMoreFinite
  <2> QED BY <2>4, <2>5
<1>4. IsFiniteSet(DOMAIN g[1..N])
  BY <1>3
<1>5. PlacedHosts(owner) = g[1..N]
  BY PlacedUnfolds DEF g
<1> QED BY <1>4, <1>5

\* The machines and the conflicts of build_hosts are finitely many.
LEMMA BuiltFinite ==
  ASSUME NEW s, List(s), NEW N \in Nat, DOMAIN Bindings = 1..N
  PROVE  IsFiniteSet(BuildHosts(s).hosts) /\ IsFiniteSet(BuildHosts(s).conflicts)
<1>1. PICK owner : owner = Owner(s)
  OBVIOUS
<1>2. PICK placed : placed = PlacedHosts(owner)
  OBVIOUS
<1>3. PICK routers : routers = RouterLike(s)
  OBVIOUS
<1>4. IsFiniteSet(DOMAIN owner)
  <2> DEFINE fn == [i \in DOMAIN s |-> s[i].ip]
             all == {fn[i] : i \in DOMAIN s}
  <2>1. DOMAIN owner \subseteq all
    BY <1>1 DEF Owner, Candidates
  <2>2. IsFiniteSet(DOMAIN s)
    BY ListFinite
  <2> HIDE DEF fn
  <2>3. IsFiniteSet(all)
    BY <2>2, ImageFinite
  <2> QED BY <2>1, <2>3, FS_Subset
<1>5. IsFiniteSet(DOMAIN placed)
  BY <1>2, <1>4, PlacedFinite
<1>6. BuildHosts(s) = HostTable(routers, owner, placed)
  BY <1>1, <1>2, <1>3 DEF BuildHosts, Resolved
<1>7. IsFiniteSet(HostTable(routers, owner, placed).hosts)
  <2> DEFINE keys == {placed[ip].key : ip \in DOMAIN placed}
             Machine(k) == [key |-> k, gateway_like |-> MacOf(k) \in routers,
                            addresses |-> {HostEntry(owner, placed, ip)
                                             : ip \in {j \in DOMAIN placed : placed[j].key = k}}]
             fn == [ip \in DOMAIN placed |-> placed[ip].key]
             fm == [k \in keys |-> Machine(k)]
  <2>1. HostTable(routers, owner, placed).hosts = {Machine(k) : k \in keys}
    BY DEF HostTable
  <2>2. keys = {fn[ip] : ip \in DOMAIN placed}
    OBVIOUS
  <2>3. {Machine(k) : k \in keys} = {fm[k] : k \in keys}
    <3> HIDE DEF Machine, keys
    <3> QED OBVIOUS
  <2> HIDE DEF fn, fm, Machine, keys
  <2>4. IsFiniteSet(keys)
    BY <1>5, <2>2, ImageFinite
  <2>5. IsFiniteSet({fm[k] : k \in keys})
    BY <2>4, ImageFinite
  <2> QED BY <2>1, <2>3, <2>5
<1>8. IsFiniteSet(HostTable(routers, owner, placed).conflicts)
  <2> DEFINE Conflict(i) == [ip |-> Bindings[i].ip, mac |-> owner[Bindings[i].ip].mac]
             fn == [i \in 1..N |-> Conflict(i)]
             all == {fn[i] : i \in 1..N}
  <2>1. HostTable(routers, owner, placed).conflicts \subseteq all
    <3>1. HostTable(routers, owner, placed).conflicts
            = {[ip |-> m.ip, mac |-> owner[m.ip].mac] :
                 m \in {n \in ToSet(Bindings) : Contradicts(owner, n)}}
      BY DEF HostTable
    <3> QED BY <3>1 DEF ToSet
  <2>2. IsFiniteSet(1..N)
    BY FS_Interval
  <2> HIDE DEF fn
  <2>3. IsFiniteSet(all)
    BY <2>2, ImageFinite
  <2> QED BY <2>1, <2>3, FS_Subset
<1> QED BY <1>6, <1>7, <1>8

\* The addresses with MACs are finitely many.
LEMMA MacsFinite ==
  ASSUME NEW s, IsFiniteSet(s)
  PROVE  IsFiniteSet(DOMAIN IpMacs(s))
<1>1. DOMAIN IpMacs(s) = {p[2] : p \in s}
  BY DEF IpMacs
<1> QED BY <1>1, PartsFinite

\* The QUIC flows are finitely many.
LEMMA QuicFinite ==
  ASSUME NEW s, QuicHeld(s)
  PROVE  IsFiniteSet(DOMAIN QuicFlows(s))
<1>1. DOMAIN QuicFlows(s) = DOMAIN s.flows
  BY DEF QuicFlows
<1> QED BY <1>1, ListFinite DEF QuicHeld

-----------------------------------------------------------------------------
(* What is collected can be merged *)

\* Five names are finitely many.
LEMMA HandfulFinite ==
  ASSUME NEW a, NEW b, NEW c, NEW d, NEW e
  PROVE  IsFiniteSet({a, b, c, d, e})
<1>1. {a, b, c, d, e} = ((({a} \union {b}) \union {c}) \union {d}) \union {e}
  OBVIOUS
<1>2. \A x, S : IsFiniteSet(S) => IsFiniteSet(S \union {x})
  BY FS_AddElement
<1>3. IsFiniteSet({a})
  BY FS_Singleton
<1> QED BY <1>1, <1>2, <1>3

\* The registry of the streaming detectors is finite.
LEMMA StreamedFinite ==
  ASSUME NEW d, NEW built
  PROVE  IsFiniteSet(DOMAIN Streamed(d, built))
<1> DEFINE A == {"port_scan", "suspicious_ports", "arp_spoofing", "arp_discovery",
                 "ndp_spoofing"}
           B == {"dns_tunneling", "dns_exfil", "insecure", "credentials", "smb"}
           C == {"ping_sweep", "host_sweep", "snmp_walk", "llmnr", "icmp_tunnel"}
           D == {"volume", "sustained", "host_exfil", "lateral", "beaconing"}
           E == {"conn_beacon", "kerberos", "brute_force", "spraying", "dga"}
           F == {"fast_flux", "nxdomain", "tld", "dot", "entropy"}
           G == {"dns_beacon", "tunnel", "ics", "exposure", "bind"}
           AB == A \union B
           CD == C \union D
           EF == E \union F
<1>1. DOMAIN Streamed(d, built) = (AB \union CD) \union (EF \union G)
  BY DEF Streamed
<1>2. /\ IsFiniteSet(A) /\ IsFiniteSet(B) /\ IsFiniteSet(C) /\ IsFiniteSet(D)
      /\ IsFiniteSet(E) /\ IsFiniteSet(F) /\ IsFiniteSet(G)
  BY HandfulFinite
<1> HIDE DEF A, B, C, D, E, F, G
<1>3. IsFiniteSet(AB) /\ IsFiniteSet(CD) /\ IsFiniteSet(EF)
  BY <1>2, FS_Union
<1> HIDE DEF AB, CD, EF
<1>4. IsFiniteSet(AB \union CD) /\ IsFiniteSet(EF \union G)
  BY <1>2, <1>3, FS_Union
<1> QED BY <1>1, <1>4, FS_Union

\* So is that of the post detectors.
LEMMA PostedFinite ==
  ASSUME NEW d, NEW built, NEW scanners
  PROVE  IsFiniteSet(DOMAIN Posted(d, built, scanners))
<1> DEFINE A == {"ip_macs", "host_addresses", "old_tls", "sni", "ja3"}
           B == {"ja3s", "ja4", "alpn", "ech", "cert"}
           C == {"scanner_ua", "exploit_path", "http_method", "injection", "payload"}
           D == {"file_share", "quic_volume", "doh", "cobalt_strike", "greynoise"}
           AB == A \union B
           CD == C \union D
<1>1. DOMAIN Posted(d, built, scanners) = AB \union CD
  BY DEF Posted
<1>2. IsFiniteSet(A) /\ IsFiniteSet(B) /\ IsFiniteSet(C) /\ IsFiniteSet(D)
  BY HandfulFinite
<1> HIDE DEF A, B, C, D
<1>3. IsFiniteSet(AB) /\ IsFiniteSet(CD)
  BY <1>2, FS_Union
<1> HIDE DEF AB, CD
<1> QED BY <1>1, <1>3, FS_Union

\* What the streaming detectors raise can be merged: each rule that a role may
\* lower has a detector of its own, and that detector raises it once per subject.
LEMMA StreamedMergeable ==
  ASSUME ListedAssumption, NEW d, HeldSets(d), HeldRecords(d), HeldTables(d), HeldShaped(d),
         NEW built
  PROVE  Mergeable(Gathered(Streamed(d, built), {}))
<1> DEFINE found == Streamed(d, built)
<1>1. /\ found.port_scan = PortScanAlerts(d.port_scan)
      /\ found.suspicious_ports = SuspiciousPortAlerts(d.suspicious_ports)
      /\ found.arp_spoofing = ArpSpoofAlerts(d.arp_spoofing)
      /\ found.arp_discovery = ArpDiscoveryAlerts(d.arp_discovery)
      /\ found.ndp_spoofing = NdpSpoofAlerts(d.ndp_spoofing)
      /\ found.dns_tunneling = DnsTunnelAlerts(d.dns_tunneling)
      /\ found.dns_exfil = DnsExfilAlerts(d.dns_exfil)
  BY DEF Streamed
<1>2. /\ found.insecure = InsecureAlerts(d.insecure)
      /\ found.credentials = CredentialsAlerts(d.credentials)
      /\ found.smb = SmbAlerts(d.smb)
      /\ found.ping_sweep = PingSweepAlerts(d.ping_sweep)
      /\ found.host_sweep = HorizontalScanAlerts(d.host_sweep)
      /\ found.snmp_walk = SnmpWalkAlerts(d.snmp_walk)
      /\ found.llmnr = LlmnrAlerts(d.llmnr)
  BY DEF Streamed
<1>3. /\ found.icmp_tunnel = IcmpTunnelAlerts(d.icmp_tunnel)
      /\ found.volume = VolumeAlerts(d.volume)
      /\ found.sustained = SustainedAlerts(d.sustained)
      /\ found.host_exfil = HostExfilAlerts(d.host_exfil, built.host)
      /\ found.lateral = LateralAlerts(d.lateral)
      /\ found.beaconing = BeaconingAlerts(d.beaconing)
      /\ found.conn_beacon = ConnBeaconAlerts(d.conn_beacon)
  BY DEF Streamed
<1>4. /\ found.kerberos = KerberosAlerts(d.kerberos)
      /\ found.brute_force = BruteForceAlerts(d.brute_force)
      /\ found.spraying = SprayAlerts(d.spraying)
      /\ found.dga = DgaAlerts(d.dga)
      /\ found.fast_flux = FastFluxAlerts(d.fast_flux)
      /\ found.nxdomain = NxdomainAlerts(d.nxdomain)
      /\ found.tld = SuspiciousTldAlerts(d.tld)
  BY DEF Streamed
<1>5. /\ found.dot = DotAlerts(d.dot)
      /\ found.entropy = EntropyAlerts(d.entropy)
      /\ found.dns_beacon = DnsBeaconAlerts(d.dns_beacon)
      /\ found.tunnel = TunnelAlerts(d.tunnel)
      /\ found.ics = IcsAlerts(d.ics)
      /\ found.exposure = ExposureAlerts(d.exposure)
      /\ found.bind = BindAlerts(d.bind)
  BY DEF Streamed
<1>6. IsFiniteSet(DOMAIN found)
  BY StreamedFinite
<1>7. DOMAIN found = {
        "port_scan", "suspicious_ports", "arp_spoofing", "arp_discovery", "ndp_spoofing",
        "dns_tunneling", "dns_exfil", "insecure", "credentials", "smb",
        "ping_sweep", "host_sweep", "snmp_walk", "llmnr", "icmp_tunnel",
        "volume", "sustained", "host_exfil", "lateral", "beaconing",
        "conn_beacon", "kerberos", "brute_force", "spraying", "dga",
        "fast_flux", "nxdomain", "tld", "dot", "entropy",
        "dns_beacon", "tunnel", "ics", "exposure", "bind"}
  BY DEF Streamed
<1> HIDE DEF found
<1>8. /\ Hard(found.arp_discovery)
      /\ Hard(found.host_sweep)
      /\ Hard(found.snmp_walk)
      /\ Hard(found.icmp_tunnel)
      /\ Hard(found.volume)
      /\ Hard(found.sustained)
      /\ Hard(found.lateral)
      /\ Hard(found.kerberos)
      /\ Hard(found.dot)
      /\ Hard(found.dns_beacon)
  <2>1. Hard(found.arp_discovery)
    BY <1>1, ArpDiscoveryRaises DEF HeldSets
  <2>2. Hard(found.host_sweep)
    BY <1>2, HorizontalScanRaises DEF HeldSets
  <2>3. Hard(found.snmp_walk)
    BY <1>2, SnmpWalkRaises DEF HeldSets
  <2>4. Hard(found.icmp_tunnel)
    BY <1>3, IcmpTunnelRaises DEF HeldSets
  <2>5. Hard(found.volume)
    BY <1>3, UploadsRaise DEF HeldSets
  <2>6. Hard(found.sustained)
    BY <1>3, UploadsRaise DEF HeldSets
  <2>7. Hard(found.lateral)
    BY <1>3, LateralRaises DEF HeldSets
  <2>8. Hard(found.kerberos)
    BY <1>4, KerberosRaises DEF HeldSets
  <2>9. Hard(found.dot)
    BY <1>5, DotRaises DEF HeldSets
  <2>10. Hard(found.dns_beacon)
    BY <1>5, DnsBeaconRaises DEF HeldSets
  <2> QED BY <2>1, <2>2, <2>3, <2>4, <2>5, <2>6, <2>7, <2>8, <2>9, <2>10
<1>9. /\ Hard(found.port_scan)
      /\ Hard(found.dns_tunneling)
      /\ Hard(found.dns_exfil)
      /\ Hard(found.smb)
      /\ Hard(found.ping_sweep)
      /\ Hard(found.spraying)
      /\ Hard(found.entropy)
      /\ Hard(found.bind)
  <2>1. Hard(found.port_scan)
    BY <1>1, PortScanRaises DEF HeldRecords
  <2>2. Hard(found.dns_tunneling)
    BY <1>1, DnsTunnelRaises DEF HeldRecords
  <2>3. Hard(found.dns_exfil)
    BY <1>1, DnsExfilRaises DEF HeldRecords
  <2>4. Hard(found.smb)
    BY <1>2, SmbRaises DEF HeldRecords
  <2>5. Hard(found.ping_sweep)
    BY <1>2, PingSweepRaises DEF HeldRecords
  <2>6. Hard(found.spraying)
    BY <1>4, SprayRaises DEF HeldRecords
  <2>7. Hard(found.entropy)
    BY <1>5, EntropyRaises DEF HeldRecords
  <2>8. Hard(found.bind)
    BY <1>5, BindRaises DEF HeldRecords, ListedAssumption
  <2> QED BY <2>1, <2>2, <2>3, <2>4, <2>5, <2>6, <2>7, <2>8
<1>10. /\ Hard(found.insecure)
       /\ Hard(found.conn_beacon)
  <2>1. Hard(found.insecure)
    BY <1>2, InsecureRaises DEF HeldTables
  <2>2. Hard(found.conn_beacon)
    BY <1>3, ConnBeaconRaises DEF HeldTables
  <2> QED BY <2>1, <2>2
<1>11. /\ Hard(found.suspicious_ports)
       /\ Hard(found.arp_spoofing)
       /\ Hard(found.ndp_spoofing)
       /\ Hard(found.credentials)
       /\ Hard(found.host_exfil)
       /\ Hard(found.beaconing)
       /\ Hard(found.brute_force)
       /\ Hard(found.tunnel)
       /\ Hard(found.ics)
       /\ Hard(found.exposure)
  <2>1. Hard(found.suspicious_ports)
    BY <1>1, SuspiciousPortsRaise DEF HeldShaped, PortsHeld, ListedAssumption
  <2>2. Hard(found.arp_spoofing)
    BY <1>1, ArpSpoofRaises DEF HeldShaped, ArpHeld
  <2>3. Hard(found.ndp_spoofing)
    BY <1>1 DEF HeldShaped, NdpSpoofAlerts
  <2>4. Hard(found.credentials)
    BY <1>2, CredentialsRaise DEF HeldShaped
  <2>5. Hard(found.host_exfil)
    BY <1>3, HostExfilRaises DEF HeldShaped
  <2>6. Hard(found.beaconing)
    BY <1>3, BeaconingRaises DEF HeldShaped
  <2>7. Hard(found.brute_force)
    BY <1>4, BruteForceRaises DEF HeldShaped
  <2>8. Hard(found.tunnel)
    BY <1>5, TunnelRaises DEF HeldShaped, TunnelHeld
  <2>9. Hard(found.ics)
    BY <1>5, IcsRaises DEF HeldShaped
  <2>10. Hard(found.exposure)
    BY <1>5, ExposureRaises DEF HeldShaped
  <2> QED BY <2>1, <2>2, <2>3, <2>4, <2>5, <2>6, <2>7, <2>8, <2>9, <2>10
<1>12. /\ Soft(found.nxdomain, "nxdomain_spike")
       /\ Soft(found.tld, "suspicious_tld")
       /\ Soft(found.dga, "dga")
       /\ Soft(found.fast_flux, "fast_flux")
       /\ Soft(found.llmnr, "llmnr_answers")
  <2>1. Soft(found.nxdomain, "nxdomain_spike")
    BY <1>4, NxdomainRaises DEF HeldSets
  <2>2. Soft(found.tld, "suspicious_tld")
    BY <1>4, SuspiciousTldRaises DEF HeldSets
  <2>3. Soft(found.dga, "dga")
    BY <1>4, DgaRaises DEF HeldSets
  <2>4. Soft(found.fast_flux, "fast_flux")
    BY <1>4, FastFluxRaises DEF HeldTables
  <2>5. Soft(found.llmnr, "llmnr_answers")
    BY <1>2, LlmnrRaises DEF HeldRecords
  <2> QED BY <2>1, <2>2, <2>3, <2>4, <2>5
<1> DEFINE owner == [rule \in SoftRules |-> CASE rule = "nxdomain_spike" -> "nxdomain"
                                             [] rule = "suspicious_tld" -> "tld"
                                             [] rule = "llmnr_answers" -> "llmnr"
                                             [] OTHER -> rule]
<1>13. \A name \in DOMAIN found :
        \/ Hard(found[name])
        \/ \E rule \in SoftRules : name = owner[rule] /\ Soft(found[name], rule)
  <2> SUFFICES ASSUME NEW name \in DOMAIN found,
                      name \notin {"nxdomain", "tld", "dga", "fast_flux", "llmnr"}
               PROVE  Hard(found[name])
    <3>1. /\ owner["nxdomain_spike"] = "nxdomain" /\ owner["suspicious_tld"] = "tld"
          /\ owner["dga"] = "dga" /\ owner["fast_flux"] = "fast_flux"
          /\ owner["llmnr_answers"] = "llmnr"
      BY DEF SoftRules
    <3> HIDE DEF owner
    <3> QED BY <1>12, <3>1 DEF SoftRules
  <2> QED BY <1>7, <1>8, <1>9, <1>10, <1>11
<1> HIDE DEF owner
<1>14. Mergeable(Gathered(found, {}))
  BY <1>6, <1>13, RegistryMergeable
<1> QED BY <1>14 DEF found

\* What the post detectors raise is hard.
LEMMA PostedHard ==
  ASSUME PatternsAssumption, NEW d, HeldSets(d), HeldTables(d), HeldLists(d), NEW built,
         IsFiniteSet(built.hosts), IsFiniteSet(built.conflicts),
         NEW scanners, IsFiniteSet(scanners)
  PROVE  Hard(Gathered(Posted(d, built, scanners), {}))
<1> DEFINE found == Posted(d, built, scanners)
           requests == Requests(d.http, d.streams)
           hellos == d.tls.hellos
           answers == d.tls.answers
           asked == IF GreyNoiseKey THEN scanners ELSE {}
<1>1. /\ found.ip_macs = IpMacAlerts(IpMacs(d.mac_ip))
      /\ found.host_addresses = HostAddressAlerts(built.hosts, built.conflicts)
      /\ found.old_tls = OldTlsAlerts(hellos, answers)
      /\ found.sni = SniAlerts(hellos)
      /\ found.ja3 = Ja3Alerts(hellos, answers)
      /\ found.ja3s = Ja3sAlerts(answers)
      /\ found.ja4 = Ja4Alerts(hellos, answers)
  BY DEF Posted
<1>2. /\ found.alpn = AlpnAlerts(hellos, answers)
      /\ found.ech = EchAlerts(hellos)
      /\ found.cert = CertAlerts(hellos, d.tls.certs)
      /\ found.scanner_ua = ScannerAlerts(requests)
      /\ found.exploit_path = ExploitPathAlerts(requests)
      /\ found.http_method = MethodAlerts(requests)
      /\ found.injection = InjectionAlerts(requests)
  BY DEF Posted
<1>3. /\ found.payload = PayloadAlerts(requests)
      /\ found.file_share = FileShareAlerts(hellos, requests)
      /\ found.quic_volume = QuicVolumeAlerts(QuicFlows(d.quic), KnownQuic)
      /\ found.doh = DohAlerts(hellos, requests)
      /\ found.cobalt_strike = CobaltAlerts(hellos, requests)
      /\ found.greynoise = GreyNoiseAlerts(scanners, asked)
  BY DEF Posted
<1>4. IsFiniteSet(DOMAIN found)
  BY PostedFinite
<1>5. DOMAIN found = {"ip_macs", "host_addresses", "old_tls", "sni", "ja3",
        "ja3s", "ja4", "alpn", "ech", "cert",
        "scanner_ua", "exploit_path", "http_method", "injection", "payload",
        "file_share", "quic_volume", "doh", "cobalt_strike", "greynoise"}
  BY DEF Posted
<1>6. List(requests)
  BY RequestsAreAList DEF HeldLists, HeldTables
<1>7. List(hellos) /\ List(answers) /\ List(d.tls.certs)
  BY DEF HeldLists, TlsHeld
<1> HIDE DEF found, requests, hellos, answers, asked
<1>8. /\ Hard(found.ip_macs) /\ Hard(found.host_addresses) /\ Hard(found.quic_volume)
      /\ Hard(found.greynoise)
  <2>1. Hard(found.ip_macs)
    BY <1>1, IpMacRaises, MacsFinite DEF HeldSets
  <2>2. Hard(found.host_addresses)
    BY <1>1, HostAddressRaises
  <2>3. Hard(found.quic_volume)
    BY <1>3, QuicVolumeRaises, QuicFinite DEF HeldLists
  <2>4. Hard(found.greynoise)
    BY <1>3, GreyNoiseRaises
  <2> QED BY <2>1, <2>2, <2>3, <2>4
<1>9. /\ Hard(found.old_tls) /\ Hard(found.sni) /\ Hard(found.ja3) /\ Hard(found.ja3s)
      /\ Hard(found.ja4) /\ Hard(found.alpn) /\ Hard(found.ech) /\ Hard(found.cert)
  <2>1. Hard(found.old_tls) /\ Hard(found.sni)
    BY <1>1, <1>7, OldTlsRaises, SniRaises
  <2>2. Hard(found.ja3) /\ Hard(found.ja3s) /\ Hard(found.ja4)
    BY <1>1, <1>7, FingerprintsRaise
  <2>3. Hard(found.alpn) /\ Hard(found.ech)
    BY <1>2, <1>7, HellosRaise
  <2>4. Hard(found.cert)
    BY <1>2, <1>7, CertRaises
  <2> QED BY <2>1, <2>2, <2>3, <2>4
<1>10. /\ Hard(found.scanner_ua) /\ Hard(found.exploit_path) /\ Hard(found.http_method)
       /\ Hard(found.injection) /\ Hard(found.payload) /\ Hard(found.file_share)
       /\ Hard(found.doh) /\ Hard(found.cobalt_strike)
  <2>1. Hard(found.scanner_ua) /\ Hard(found.exploit_path)
    BY <1>2, <1>6, ScannerRaises, ExploitPathRaises
  <2>2. Hard(found.http_method) /\ Hard(found.injection)
    BY <1>2, <1>6, MethodRaises, InjectionRaises
  <2>3. Hard(found.payload) /\ Hard(found.file_share)
    BY <1>3, <1>6, <1>7, PayloadRaises, FileShareRaises
  <2>4. Hard(found.doh) /\ Hard(found.cobalt_strike)
    BY <1>3, <1>6, <1>7, DohRaises, CobaltRaises
  <2> QED BY <2>1, <2>2, <2>3, <2>4
<1>11. \A name \in DOMAIN found : Hard(found[name])
  BY <1>5, <1>8, <1>9, <1>10
<1>12. Hard(Gathered(found, {}))
  BY <1>4, <1>11, RegistryHard
<1> QED BY <1>12 DEF found

\* Everything that is collected when no detector fails.
LEMMA AlertsMergeable ==
  ASSUME PatternsAssumption, OutliersAssumption, RulesAssumption, CatalogAssumption,
         ListedAssumption,
         NEW d, HeldSets(d), HeldRecords(d), HeldTables(d), HeldShaped(d), HeldLists(d),
         NEW t \in Themes, d.anomaly \subseteq Capture[t],
         NEW built, IsFiniteSet(built.hosts), IsFiniteSet(built.conflicts)
  PROVE  Mergeable(Alerts(d, built, {}))
<1> DEFINE streamed == Gathered(Streamed(d, built), {})
           scans == {b \in streamed : b.rule = "port_scan"}
           scanners == {a.src : a \in scans}
           posted == Gathered(Posted(d, built, scanners), {})
           outliers == FlowAnomalyAlerts(d.anomaly)
           ruled == UserRuleAlerts(d.user_rules)
           enriched == KevEnriched(streamed \union posted)
<1>1. Alerts(d, built, {}) = (enriched \union outliers) \union ruled
  BY DEF Alerts, Concluded, Collected
<1>2. Mergeable(streamed)
  BY StreamedMergeable
<1>3. IsFiniteSet(scanners)
  <2> HIDE DEF streamed
  <2>1. scans \subseteq streamed
    OBVIOUS
  <2>2. IsFiniteSet(scans)
    <3> HIDE DEF scans
    <3> QED BY <1>2, <2>1, FS_Subset DEF Mergeable, Sound
  <2> HIDE DEF scans
  <2> QED BY <2>2, NamedFinite
<1>4. Hard(posted)
  <2> HIDE DEF scanners
  <2> QED BY <1>3, PostedHard
<1>5. Hard(outliers)
  BY FlowAnomalyRaises DEF HeldSets
<1>6. Hard(ruled)
  BY UserRulesRaise DEF HeldTables
<1> HIDE DEF streamed, scanners, posted, outliers, ruled
<1>7. Mergeable(streamed \union posted)
  BY <1>2, <1>4, JoinsMergeable
<1>8. Mergeable(enriched)
  BY <1>7, EnrichedMergeable
<1> HIDE DEF enriched
<1>9. Mergeable(enriched \union outliers)
  BY <1>5, <1>8, JoinsMergeable
<1> QED BY <1>1, <1>6, <1>9, JoinsMergeable

\* A detector that raises takes its own alerts away, and those of nobody else
\* but of the look-up that starts from the scanners.
LEMMA FailuresOnlyTake ==
  ASSUME NEW d, NEW built, NEW f1, NEW f2, f1 \subseteq f2
  PROVE  Alerts(d, built, f2) \subseteq Alerts(d, built, f1)
<1> DEFINE S(F) == Gathered(Streamed(d, built), F)
           N(F) == {a.src : a \in {b \in S(F) : b.rule = "port_scan"}}
           P(F) == Gathered(Posted(d, built, N(F)), F)
<1>1. \A F : Alerts(d, built, F) = KevEnriched(S(F) \union P(F))
                 \union FlowAnomalyAlerts(d.anomaly) \union UserRuleAlerts(d.user_rules)
  BY DEF Alerts, Concluded, Collected
<1>2. S(f2) \subseteq S(f1)
  BY DEF Gathered
<1> DEFINE n1 == N(f1)
           n2 == N(f2)
<1>3. n2 \subseteq n1
  BY <1>2
<1> HIDE DEF n1, n2
<1>4. \A name \in DOMAIN Posted(d, built, n2) :
        /\ name \in DOMAIN Posted(d, built, n1)
        /\ Posted(d, built, n2)[name] \subseteq Posted(d, built, n1)[name]
  <2> DEFINE asked(n) == IF GreyNoiseKey THEN n ELSE {}
  <2>1. \A n : Posted(d, built, n) =
                 [Posted(d, built, {}) EXCEPT !.greynoise = GreyNoiseAlerts(n, asked(n))]
    BY DEF Posted
  <2>2. GreyNoiseAlerts(n2, asked(n2)) \subseteq GreyNoiseAlerts(n1, asked(n1))
    BY <1>3 DEF GreyNoiseAlerts
  <2> QED BY <2>1, <2>2
<1>5. P(f2) \subseteq P(f1)
  BY <1>4 DEF Gathered, n1, n2
<1> HIDE DEF S, P
<1>6. S(f2) \union P(f2) \subseteq S(f1) \union P(f1)
  BY <1>2, <1>5
<1>7. ASSUME NEW A, NEW B, A \subseteq B
      PROVE  KevEnriched(A) \subseteq KevEnriched(B)
  BY <1>7 DEF KevEnriched, KevSummaries
<1>8. KevEnriched(S(f2) \union P(f2)) \subseteq KevEnriched(S(f1) \union P(f1))
  BY <1>6, <1>7
<1> QED BY <1>1, <1>8

-----------------------------------------------------------------------------
(* The report *)

\* The bindings made by hand are a sequence (a list in scan_config).
BindingsAssumption == Len(Bindings) \in Nat /\ DOMAIN Bindings = 1..Len(Bindings)

\* What every detector and aggregator holds is finite.
Held(d) ==
  HeldSets(d) /\ HeldRecords(d) /\ HeldTables(d) /\ HeldShaped(d) /\ HeldLists(d)

\* A report is what the pipeline makes of the detectors' state, whichever of
\* them raised.
ReportInv ==
  /\ theme \in Themes
  /\ Held(det)
  /\ det.anomaly \subseteq Capture[theme]
  /\ report # NotYet =>
       \E failed \in SUBSET Faulty : report = Reported(det, BuildHosts(det.hosts), failed)

\* Before the first frame nothing is held.
LEMMA FreshHolds == Held(Fresh)
<1> DEFINE d == Fresh
<1>1. IsFiniteSet({}) /\ DOMAIN << >> = {}
  BY FS_EmptySet
<1>2. HeldSets(d)
  <2>1. /\ d.arp_discovery = {} /\ d.host_sweep = {} /\ d.snmp_walk = {}
        /\ d.icmp_tunnel = {} /\ d.volume = {} /\ d.sustained = {} /\ d.lateral = {}
    BY DEF Fresh, ArpDiscoveryInit, HorizontalScanInit, SnmpWalkInit, IcmpTunnelInit,
           VolumeInit, SustainedInit, LateralInit
  <2>2. /\ d.kerberos = {} /\ d.dga = {} /\ d.nxdomain = {} /\ d.tld = {} /\ d.dot = {}
        /\ d.dns_beacon = {} /\ d.mac_ip = {} /\ d.anomaly = {}
    BY DEF Fresh, KerberosInit, DgaInit, NxdomainInit, SuspiciousTldInit, DotInit,
           DnsBeaconInit, MacIpInit, FlowAnomalyInit
  <2> QED BY <1>1, <2>1, <2>2 DEF HeldSets
<1>3. HeldRecords(d)
  <2>1. /\ d.port_scan.syns = {} /\ d.dns_tunneling.zones = {} /\ d.dns_exfil.sent = {}
        /\ d.smb.crossings = {} /\ d.ping_sweep.targets = {}
    BY DEF Fresh, PortScanInit, DnsTunnelInit, DnsExfilInit, SmbInit, PingSweepInit
  <2>2. /\ d.llmnr.answers = {} /\ d.spraying.tries = {} /\ d.entropy.sampled = {}
        /\ d.bind.binds = {}
    BY DEF Fresh, LlmnrInit, SprayInit, EntropyInit, BindInit
  <2> QED BY <1>1, <2>1, <2>2 DEF HeldRecords
<1>4. HeldTables(d)
  <2>1. /\ d.insecure = << >> /\ d.fast_flux.client = << >> /\ d.conn_beacon = << >>
        /\ d.streams = << >> /\ d.user_rules = << >>
    BY DEF Fresh, InsecureInit, NoFlows, FastFluxInit, ConnBeaconInit, TcpFlowInit,
           UserRulesInit
  <2> QED BY <1>1, <2>1 DEF HeldTables
<1>5. HeldShaped(d)
  <2>1. /\ d.arp_spoofing = ArpSpoofInit /\ d.ndp_spoofing = NdpSpoofInit
        /\ d.credentials = CredentialsInit /\ d.host_exfil = HostExfilInit
        /\ d.beaconing = BeaconingInit /\ d.brute_force = BruteForceInit
        /\ d.tunnel = TunnelInit /\ d.ics = IcsInit /\ d.exposure = ExposureInit
        /\ d.suspicious_ports = SuspiciousPortInit
    BY DEF Fresh
  <2>2. ArpHeld(ArpSpoofInit)
    BY <1>1, NothingRaised DEF ArpHeld, ArpSpoofInit
  <2>3. Hard(NdpSpoofInit.alerts)
    BY NothingRaised DEF NdpSpoofInit
  <2>4. TunnelHeld(TunnelInit)
    BY <1>1 DEF TunnelHeld, TunnelShape, TunnelInit
  <2>5. PortsHeld(SuspiciousPortInit)
    BY <1>1 DEF PortsHeld, SuspiciousPortInit, NoFlows
  <2>6. /\ DOMAIN CredentialsInit = {"seen", "upgraded", "flows"}
        /\ CredentialsInit.seen = {}
        /\ DOMAIN HostExfilInit = {"out", "in"}
        /\ HostExfilInit.out = {} /\ HostExfilInit.in = {}
        /\ DOMAIN BeaconingInit = {"syns", "sizes"} /\ BeaconingInit.syns = {}
    BY DEF CredentialsInit, HostExfilInit, BeaconingInit
  <2>7. /\ DOMAIN BruteForceInit = {"tries", "last", "failed", "sizes", "flows"}
        /\ BruteForceInit.last = << >>
        /\ DOMAIN IcsInit = {"presence", "writes", "flows"}
        /\ IcsInit.presence = {} /\ IcsInit.writes = {}
        /\ DOMAIN ExposureInit = {"db", "greeted", "pipes", "flows"}
        /\ ExposureInit.db = {} /\ ExposureInit.pipes = {}
    BY DEF BruteForceInit, IcsInit, ExposureInit
  <2> HIDE DEF d
  <2> QED BY <1>1, <2>1, <2>2, <2>3, <2>4, <2>5, <2>6, <2>7 DEF HeldShaped
<1>6. HeldLists(d)
  <2>1. d.tls = TlsInit /\ d.http = HttpInit /\ d.quic = QuicInit /\ d.hosts = << >>
    BY DEF Fresh, HostsInit
  <2>2. TlsHeld(TlsInit)
    BY EmptyList DEF TlsHeld, TlsInit
  <2>3. HttpInit.requests = << >>
    BY DEF HttpInit
  <2>4. QuicHeld(QuicInit)
    BY EmptyList DEF QuicHeld, QuicInit
  <2> HIDE DEF d
  <2> QED BY <2>1, <2>2, <2>3, <2>4, EmptyList DEF HeldLists
<1> QED BY <1>2, <1>3, <1>4, <1>5, <1>6 DEF Held

\* A frame leaves all this as it should be, also when some miss it.
LEMMA MissingHolds ==
  ASSUME RulesAssumption, NEW d, Held(d), NEW f, NEW deaf
  PROVE  Held(Heard(d, f, deaf))
<1> DEFINE e == Fed(d, f)
           h == Heard(d, f, deaf)
<1>1. Held(e)
  BY SetsHold, RecordsHold, TablesHold, ShapesHold, ListsHold DEF Held
<1>2. \A name \in DOMAIN Fresh : h[name] \in {d[name], e[name]}
  BY HearsOrNot
<1> HIDE DEF e, h
<1>3. HeldSets(h)
  <2>1. /\ h.arp_discovery \in {d.arp_discovery, e.arp_discovery}
        /\ h.host_sweep \in {d.host_sweep, e.host_sweep}
        /\ h.snmp_walk \in {d.snmp_walk, e.snmp_walk}
        /\ h.icmp_tunnel \in {d.icmp_tunnel, e.icmp_tunnel}
        /\ h.volume \in {d.volume, e.volume}
        /\ h.sustained \in {d.sustained, e.sustained}
        /\ h.lateral \in {d.lateral, e.lateral}
        /\ h.kerberos \in {d.kerberos, e.kerberos} /\ h.dga \in {d.dga, e.dga}
        /\ h.nxdomain \in {d.nxdomain, e.nxdomain} /\ h.tld \in {d.tld, e.tld}
        /\ h.dot \in {d.dot, e.dot}
        /\ h.dns_beacon \in {d.dns_beacon, e.dns_beacon}
        /\ h.mac_ip \in {d.mac_ip, e.mac_ip}
        /\ h.anomaly \in {d.anomaly, e.anomaly}
    BY <1>2, Registered
  <2> QED BY <1>1, <2>1 DEF Held, HeldSets
<1>4. HeldRecords(h)
  <2>1. /\ h.port_scan \in {d.port_scan, e.port_scan}
        /\ h.dns_tunneling \in {d.dns_tunneling, e.dns_tunneling}
        /\ h.dns_exfil \in {d.dns_exfil, e.dns_exfil} /\ h.smb \in {d.smb, e.smb}
        /\ h.ping_sweep \in {d.ping_sweep, e.ping_sweep}
        /\ h.llmnr \in {d.llmnr, e.llmnr}
        /\ h.spraying \in {d.spraying, e.spraying}
        /\ h.entropy \in {d.entropy, e.entropy} /\ h.bind \in {d.bind, e.bind}
    BY <1>2, Registered
  <2> QED BY <1>1, <2>1 DEF Held, HeldRecords
<1>5. HeldTables(h)
  <2>1. /\ h.insecure \in {d.insecure, e.insecure}
        /\ h.fast_flux \in {d.fast_flux, e.fast_flux}
        /\ h.conn_beacon \in {d.conn_beacon, e.conn_beacon}
        /\ h.streams \in {d.streams, e.streams}
        /\ h.user_rules \in {d.user_rules, e.user_rules}
    BY <1>2, Registered
  <2> QED BY <1>1, <2>1 DEF Held, HeldTables
<1>6. HeldShaped(h)
  <2>1. /\ h.arp_spoofing \in {d.arp_spoofing, e.arp_spoofing}
        /\ h.ndp_spoofing \in {d.ndp_spoofing, e.ndp_spoofing}
        /\ h.credentials \in {d.credentials, e.credentials}
        /\ h.host_exfil \in {d.host_exfil, e.host_exfil}
        /\ h.beaconing \in {d.beaconing, e.beaconing}
        /\ h.brute_force \in {d.brute_force, e.brute_force}
        /\ h.tunnel \in {d.tunnel, e.tunnel} /\ h.ics \in {d.ics, e.ics}
        /\ h.exposure \in {d.exposure, e.exposure}
        /\ h.suspicious_ports \in {d.suspicious_ports, e.suspicious_ports}
    BY <1>2, Registered
  <2> QED BY <1>1, <2>1 DEF Held, HeldShaped
<1>7. HeldLists(h)
  <2>1. /\ h.tls \in {d.tls, e.tls} /\ h.http \in {d.http, e.http}
        /\ h.quic \in {d.quic, e.quic} /\ h.hosts \in {d.hosts, e.hosts}
    BY <1>2, Registered
  <2> QED BY <1>1, <2>1 DEF Held, HeldLists
<1> QED BY <1>3, <1>4, <1>5, <1>6, <1>7 DEF Held, h

\* Whatever the capture, what the detectors hold stays finite, and a report is
\* the pipeline's work on it (update() of every entry of the registries, and
\* the end of analyze in _core.py).
THEOREM ReportInvariant == ASSUME RulesAssumption PROVE Spec => []ReportInv
<1>1. ASSUME Init PROVE ReportInv
  <2>1. det.anomaly = {}
    BY <1>1 DEF Init, Fresh, FlowAnomalyInit
  <2> QED BY <1>1, <2>1, FreshHolds DEF Init, ReportInv
<1>2. ASSUME ReportInv, [Next]_vars PROVE ReportInv'
  <2>1. ASSUME NEW f \in Capture[theme], NEW deaf \in SUBSET Deaf, Receive(f, deaf)
        PROVE  ReportInv'
    <3>1. /\ det' = Heard(det, f, deaf) /\ theme' = theme /\ report' = report
          /\ report = NotYet
      BY <2>1 DEF Receive
    <3>2. Held(Heard(det, f, deaf))
      BY <1>2, MissingHolds DEF ReportInv
    <3>3. Heard(det, f, deaf).anomaly \subseteq det.anomaly \union {f}
      <4>1. Fed(det, f).anomaly = FlowAnomalyUpdate(det.anomaly, f)
        BY DEF Fed
      <4>2. FlowAnomalyUpdate(det.anomaly, f) \subseteq det.anomaly \union {f}
        BY DEF FlowAnomalyUpdate, Keep
      <4>3. Heard(det, f, deaf).anomaly \in {det.anomaly, Fed(det, f).anomaly}
        BY HearsOrNot, Registered
      <4> QED BY <4>1, <4>2, <4>3
    <3> QED BY <1>2, <2>1, <3>1, <3>2, <3>3 DEF ReportInv
  <2>2. ASSUME NEW failed \in SUBSET Faulty, Finish(failed) PROVE ReportInv'
    BY <1>2, <2>2 DEF Finish, ReportInv
  <2>3. CASE UNCHANGED vars
    BY <1>2, <2>3 DEF vars, ReportInv
  <2> QED BY <1>2, <2>1, <2>2, <2>3 DEF Next
<1> QED BY <1>1, <1>2, PTL DEF Spec

\* The report loses no evidence, for any capture, rules, patterns and catalog:
\* whichever detector fails, every alert of the others has an entry with its
\* key, as severe as the alert unless a role of the address lowered it, and
\* the counts of the merged entries add up to the alerts (_run_detections,
\* apply_host_role_suppression, _dedupe_alerts).
THEOREM ReportIsComplete ==
  ASSUME PatternsAssumption, OutliersAssumption, RulesAssumption, CatalogAssumption,
         ListedAssumption, BindingsAssumption
  PROVE  Spec => []ReportKeepsEvidence
<1>1. ASSUME ReportInv PROVE ReportKeepsEvidence
  <2> DEFINE built == BuildHosts(det.hosts)
  <2> SUFFICES ASSUME report # NotYet PROVE Evidence(built)
    BY DEF ReportKeepsEvidence
  <2>1. PICK failed \in SUBSET Faulty : report = Reported(det, built, failed)
    BY <1>1 DEF ReportInv
  <2>2. IsFiniteSet(built.hosts) /\ IsFiniteSet(built.conflicts)
    BY <1>1, BuiltFinite DEF ReportInv, Held, HeldLists, BindingsAssumption
  <2> HIDE DEF built
  <2> DEFINE most == Alerts(det, built, {})
             some == Alerts(det, built, failed)
             sure == Alerts(det, built, Faulty)
             counted == Sum(report, [r \in report |-> r.count])
  <2>3. Mergeable(most)
    BY <1>1, <2>2, AlertsMergeable DEF ReportInv, Held
  <2>4. sure \subseteq some /\ some \subseteq most
    BY FailuresOnlyTake
  <2>5. report = Report(some, det.names, det.assets, built)
    BY <2>1 DEF Reported
  <2> HIDE DEF most, some, sure
  <2>6. Mergeable(some)
    BY <2>3, <2>4, FewerMergeable
  <2>7. /\ \A a \in some : \E r \in report :
             /\ r.key = Key(a)
             /\ \/ Rank(r.sev) >= Rank(a.sev)
                \/ r.suppressed /\ Rank(r.sev) >= Rank(a.sev) - 2
        /\ counted = Cardinality(some)
    BY <2>5, <2>6, PipelineKeeps DEF Mergeable
  <2>8. Cardinality(sure) <= counted /\ counted <= Cardinality(most)
    <3> HIDE DEF counted
    <3> QED BY <2>3, <2>4, <2>6, <2>7, CountGrows DEF Mergeable, Sound
  <2>9. EvidenceKept(sure, most)
    BY <2>4, <2>7, <2>8 DEF EvidenceKept
  <2> QED BY <2>9 DEF Evidence, most, sure
<1> QED BY <1>1, ReportInvariant, PTL
=============================================================================
