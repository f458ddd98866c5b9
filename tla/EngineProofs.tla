----------------------------- MODULE EngineProofs -----------------------------
(***************************************************************************)
(* Proofs about Engine.                                                    *)
(*                                                                         *)
(* The detectors add up bytes with a fold over a finite set.  The first    *)
(* part derives, for any finite set and any integer values, what such a    *)
(* sum is worth: the induction it needs is over the size of the set, and   *)
(* is made with the least counterexample (WFMin).  The other parts are one *)
(* each for the carver, the detectors of uploads, those that ask whether a *)
(* service was really used, the two-pointer sweep over windows, the owners *)
(* of addresses, and the alerts that more traffic only confirms.  Each     *)
(* ends in theorems about every capture and every order of its frames;     *)
(* what they ask of captures and thresholds is named where it is used.     *)
(***************************************************************************)
EXTENDS Engine, FiniteSetTheorems, WellFoundedInduction, TLAPS

-----------------------------------------------------------------------------
(* Sums over finite sets *)

\* The element the fold takes next, and what it computes: a function from the
\* subsets of S.
Taken(s) == CHOOSE x \in s : TRUE

Folds(g, S, v) ==
  g = [s \in SUBSET S |-> IF s = {} THEN 0 ELSE v[Taken(s)] + g[s \ {Taken(s)}]]

Folded(S, v) == CHOOSE g : Folds(g, S, v)

\* Sum is that function, taken at S.
LEMMA SumUnfolds == ASSUME NEW S, NEW v PROVE Sum(S, v) = Folded(S, v)[S]
  BY DEF Sum, MapThenSumSet, MapThenFoldSet, Folded, Folds, Taken

\* A set of naturals that is not empty has a least element.
LEMMA LeastOf ==
  ASSUME NEW T \in SUBSET Nat, T # {}
  PROVE  \E n \in T : \A m \in T : n <= m
<1>1. IsWellFoundedOn({p \in Nat \X Nat : p[1] < p[2]}, Nat)
  BY NatLessThanWellFounded DEF OpToRel
<1>2. PICK n \in T : \A m \in T : ~(<<m, n>> \in {p \in Nat \X Nat : p[1] < p[2]})
  BY <1>1, WFMin
<1>3. \A m \in T : ~(m < n)
  BY <1>2
<1> QED BY <1>2, <1>3

\* Of some subsets of a finite set one is such that no element can be taken
\* from it without leaving them.
LEMMA SmallestOf ==
  ASSUME NEW S, IsFiniteSet(S), NEW B \in SUBSET (SUBSET S), B # {}
  PROVE  \E r \in B : IsFiniteSet(r) /\ \A x \in r : r \ {x} \notin B
<1> DEFINE Sizes == {Cardinality(r) : r \in B}
<1>1. \A r \in B : IsFiniteSet(r) /\ Cardinality(r) \in Nat
  <2> TAKE r \in B
  <2>1. r \in SUBSET S
    OBVIOUS
  <2>2. IsFiniteSet(r)
    BY <2>1, FS_Subset
  <2> QED BY <2>2, FS_CardinalityType
<1>2. PICK n \in Sizes : \A m \in Sizes : n <= m
  <2>1. Sizes \in SUBSET Nat /\ Sizes # {}
    BY <1>1
  <2> HIDE DEF Sizes
  <2> QED BY <2>1, LeastOf
<1>3. PICK r \in B : Cardinality(r) = n
  BY <1>2
<1>4. ASSUME NEW x \in r PROVE Cardinality(r \ {x}) = n - 1
  BY <1>1, <1>3, FS_RemoveElement
<1>5. ASSUME NEW x \in r, r \ {x} \in B PROVE FALSE
  <2>1. n - 1 \in Sizes
    BY <1>4, <1>5
  <2>2. n \in Nat
    BY <1>1, <1>3
  <2> HIDE DEF Sizes
  <2> QED BY <1>2, <2>1, <2>2
<1> QED BY <1>1, <1>5

\* The fold is a function: over a finite set its recursion ends.
LEMMA FoldedFolds ==
  ASSUME NEW S, NEW v, IsFiniteSet(S)
  PROVE  Folds(Folded(S, v), S, v)
<1> DEFINE Step(g, s) == IF s = {} THEN 0 ELSE v[Taken(s)] + g[s \ {Taken(s)}]
           Upto(n) == {s \in SUBSET S : Cardinality(s) <= n}
           Good(n, g) == \A s \in Upto(n) : g[s] = Step(g, s)
           Bad == {n \in Nat : ~\E g : Good(n, g)}
<1>1. \A s \in SUBSET S : /\ IsFiniteSet(s)
                          /\ Cardinality(s) \in Nat
                          /\ Cardinality(s) <= Cardinality(S)
  BY FS_Subset, FS_CardinalityType
<1>2. \A s \in SUBSET S : s # {} => /\ Taken(s) \in s
                                    /\ s \ {Taken(s)} \in SUBSET S
                                    /\ Cardinality(s \ {Taken(s)}) = Cardinality(s) - 1
  BY <1>1, FS_RemoveElement DEF Taken
<1>3. Bad = {}
  <2> SUFFICES ASSUME Bad # {} PROVE FALSE
    OBVIOUS
  <2>1. PICK n \in Bad : \A m \in Bad : n <= m
    BY LeastOf
  <2>2. CASE n = 0
    <3>1. \A s \in Upto(0) : s = {}
      BY <1>1, FS_EmptySet
    <3>2. Good(0, [s \in SUBSET S |-> 0])
      BY <3>1
    <3> QED BY <2>1, <2>2, <3>2
  <2>3. CASE n # 0
    <3>1. n \in Nat /\ n - 1 \in Nat
      BY <2>1, <2>3
    <3>2. n - 1 \notin Bad
      <4> HIDE DEF Bad
      <4> QED BY <2>1, <3>1
    <3>3. PICK g : Good(n - 1, g)
      BY <3>1, <3>2
    <3> DEFINE h == [s \in SUBSET S |-> Step(g, s)]
    <3>4. \A s \in Upto(n - 1) : h[s] = g[s]
      BY <3>3
    <3>5. ASSUME NEW s \in Upto(n), s # {} PROVE s \ {Taken(s)} \in Upto(n - 1)
      BY <3>5, <1>1, <1>2, <2>1
    <3>6. ASSUME NEW s \in Upto(n) PROVE h[s] = Step(h, s)
      <4>1. h[s] = Step(g, s)
        OBVIOUS
      <4>2. CASE s = {}
        BY <4>1, <4>2
      <4>3. CASE s # {}
        BY <3>4, <3>5, <4>1, <4>3
      <4> QED BY <4>2, <4>3
    <3>7. Good(n, h)
      BY <3>6
    <3> QED BY <2>1, <3>7
  <2> QED BY <2>2, <2>3
<1>4. PICK g : Good(Cardinality(S), g)
  BY <1>1, <1>3
<1>5. \A s \in SUBSET S : g[s] = Step(g, s)
  BY <1>1, <1>4
<1>6. Folds([s \in SUBSET S |-> g[s]], S, v)
  <2> DEFINE f == [s \in SUBSET S |-> g[s]]
  <2>1. \A s \in SUBSET S : f[s] = Step(f, s)
    BY <1>2, <1>5
  <2>2. f = [s \in SUBSET S |-> Step(f, s)]
    BY <2>1
  <2> QED BY <2>2 DEF Folds
<1> QED BY <1>6 DEF Folded

\* Its equation.
LEMMA FoldedStep ==
  ASSUME NEW S, NEW v, IsFiniteSet(S), NEW s \in SUBSET S
  PROVE  /\ s = {} => Folded(S, v)[s] = 0
         /\ s # {} => Folded(S, v)[s] = v[Taken(s)] + Folded(S, v)[s \ {Taken(s)}]
<1> DEFINE g == Folded(S, v)
<1> HIDE DEF g
<1>1. Folds(g, S, v)
  BY FoldedFolds DEF g
<1>2. g = [r \in SUBSET S |-> IF r = {} THEN 0 ELSE v[Taken(r)] + g[r \ {Taken(r)}]]
  BY <1>1 DEF Folds
<1>3. g[s] = IF s = {} THEN 0 ELSE v[Taken(s)] + g[s \ {Taken(s)}]
  BY <1>2
<1> QED BY <1>3 DEF g

LEMMA FoldedNone ==
  ASSUME NEW S, NEW v, IsFiniteSet(S) PROVE Folded(S, v)[{}] = 0
  BY FoldedStep

Unwound(S, v, s) == v[Taken(s)] + Folded(S, v)[s \ {Taken(s)}]

LEMMA FoldedNext ==
  ASSUME NEW S, NEW v, IsFiniteSet(S), NEW s \in SUBSET S, s # {}
  PROVE  Folded(S, v)[s] = Unwound(S, v, s)
  BY FoldedStep DEF Unwound

\* Two folds agree on the sets both are defined at, when the values do.
LEMMA FoldedSame ==
  ASSUME NEW S, NEW T, NEW v, NEW w, IsFiniteSet(S), IsFiniteSet(T),
         NEW s \in SUBSET S, s \subseteq T, \A x \in s : v[x] = w[x]
  PROVE  Folded(S, v)[s] = Folded(T, w)[s]
<1>1. ASSUME NEW r \in SUBSET s, r # {}
      PROVE  /\ Folded(S, v)[r] = v[Taken(r)] + Folded(S, v)[r \ {Taken(r)}]
             /\ Folded(T, w)[r] = w[Taken(r)] + Folded(T, w)[r \ {Taken(r)}]
             /\ Taken(r) \in r
  <2>1. r \in SUBSET S /\ r \in SUBSET T
    OBVIOUS
  <2>2. Folded(S, v)[r] = Unwound(S, v, r)
    BY <1>1, <2>1, FoldedNext, Zenon
  <2>3. Folded(T, w)[r] = Unwound(T, w, r)
    BY <1>1, <2>1, FoldedNext, Zenon
  <2>4. Taken(r) \in r
    BY <1>1 DEF Taken
  <2> QED BY <2>2, <2>3, <2>4 DEF Unwound
<1> DEFINE Differ == {r \in SUBSET s : Folded(S, v)[r] # Folded(T, w)[r]}
<1> SUFFICES ASSUME Differ # {} PROVE FALSE
  OBVIOUS
<1>2. PICK r \in Differ : \A x \in r : r \ {x} \notin Differ
  BY FS_Subset, SmallestOf
<1>3. CASE r = {}
  BY <1>2, <1>3, FoldedNone
<1>4. CASE r # {}
  BY <1>1, <1>2, <1>4
<1> QED BY <1>3, <1>4

\* What the sums are, one element at a time ...
LEMMA SumOfNone == ASSUME NEW v PROVE Sum({}, v) = 0
  BY SumUnfolds, FoldedNone, FS_EmptySet

LEMMA SumTaken ==
  ASSUME NEW S, NEW v, IsFiniteSet(S), S # {}
  PROVE  Sum(S, v) = v[Taken(S)] + Sum(S \ {Taken(S)}, v)
<1> DEFINE R == S \ {Taken(S)}
<1>1. IsFiniteSet(R)
  BY FS_Subset
<1>2. Folded(S, v)[S] = v[Taken(S)] + Folded(S, v)[R]
  <2>1. S \in SUBSET S
    OBVIOUS
  <2> QED BY <2>1, FoldedNext DEF Unwound
<1>3. Folded(S, v)[R] = Folded(R, v)[R]
  BY <1>1, FoldedSame
<1> QED BY <1>2, <1>3, SumUnfolds

\* ... a number, and a natural one when the values are ...
LEMMA SumType ==
  ASSUME NEW S, NEW v, IsFiniteSet(S), \A x \in S : v[x] \in Int
  PROVE  Sum(S, v) \in Int
<1> DEFINE Bad == {r \in SUBSET S : Sum(r, v) \notin Int}
<1> SUFFICES ASSUME Bad # {} PROVE FALSE
  OBVIOUS
<1>1. PICK r \in Bad : IsFiniteSet(r) /\ \A x \in r : r \ {x} \notin Bad
  BY SmallestOf
<1>2. r # {}
  BY <1>1, SumOfNone
<1>3. Taken(r) \in r
  BY <1>2 DEF Taken
<1>4. Sum(r \ {Taken(r)}, v) \in Int
  BY <1>1, <1>3
<1>5. Sum(r, v) = v[Taken(r)] + Sum(r \ {Taken(r)}, v)
  BY <1>1, <1>2, SumTaken
<1> QED BY <1>1, <1>3, <1>4, <1>5

\* ... the same for values that agree on the set ...
LEMMA SumSame ==
  ASSUME NEW S, NEW v, NEW w, IsFiniteSet(S), \A x \in S : v[x] = w[x]
  PROVE  Sum(S, v) = Sum(S, w)
  BY FoldedSame, SumUnfolds

\* ... and whichever element is taken out first.
LEMMA SumRemove ==
  ASSUME NEW S, NEW v, IsFiniteSet(S), \A x \in S : v[x] \in Int, NEW x \in S
  PROVE  Sum(S, v) = v[x] + Sum(S \ {x}, v)
<1> DEFINE Bad == {r \in SUBSET S : \E y \in r : Sum(r, v) # v[y] + Sum(r \ {y}, v)}
<1> SUFFICES ASSUME Bad # {} PROVE FALSE
  OBVIOUS
<1>1. PICK r \in Bad : IsFiniteSet(r) /\ \A y \in r : r \ {y} \notin Bad
  BY SmallestOf
<1>2. PICK y \in r : Sum(r, v) # v[y] + Sum(r \ {y}, v)
  BY <1>1
<1> DEFINE t == Taken(r)
<1>3. t \in r
  BY <1>2 DEF Taken
<1>4. Sum(r, v) = v[t] + Sum(r \ {t}, v)
  BY <1>1, <1>2, SumTaken
<1>5. t # y
  BY <1>2, <1>4
<1>6. Sum(r \ {t}, v) = v[y] + Sum((r \ {t}) \ {y}, v)
  BY <1>1, <1>2, <1>3, <1>5
<1>7. Sum(r \ {y}, v) = v[t] + Sum((r \ {y}) \ {t}, v)
  BY <1>1, <1>2, <1>3, <1>5
<1>8. (r \ {t}) \ {y} = (r \ {y}) \ {t}
  OBVIOUS
<1>9. v[t] \in Int /\ v[y] \in Int /\ Sum((r \ {t}) \ {y}, v) \in Int
  <2>1. IsFiniteSet((r \ {t}) \ {y})
    BY <1>1, FS_Subset
  <2> QED BY <1>1, <1>3, <2>1, SumType
<1>a. v[t] + (v[y] + Sum((r \ {t}) \ {y}, v)) = v[y] + (v[t] + Sum((r \ {t}) \ {y}, v))
  BY <1>9
<1> QED BY <1>2, <1>4, <1>6, <1>7, <1>8, <1>a

\* One value grows, or an element joins with a value of its own.
LEMMA SumGrows ==
  ASSUME NEW S, NEW v, NEW w, NEW k, NEW n \in Int, IsFiniteSet(S),
         \A x \in S : v[x] \in Int,
         \A x \in S \ {k} : w[x] = v[x],
         w[k] = (IF k \in S THEN v[k] ELSE 0) + n
  PROVE  Sum(S \union {k}, w) = Sum(S, v) + n
<1> DEFINE R == S \ {k}
<1>1. IsFiniteSet(S \union {k}) /\ IsFiniteSet(R)
  BY FS_AddElement, FS_RemoveElement
<1>2. \A x \in S \union {k} : w[x] \in Int
  OBVIOUS
<1>3. Sum(S \union {k}, w) = w[k] + Sum(R, v)
  <2>1. (S \union {k}) \ {k} = R
    OBVIOUS
  <2>2. Sum(S \union {k}, w) = w[k] + Sum((S \union {k}) \ {k}, w)
    BY <1>1, <1>2, SumRemove
  <2>3. Sum(R, w) = Sum(R, v)
    BY <1>1, SumSame
  <2> HIDE DEF R
  <2> QED BY <2>1, <2>2, <2>3
<1>4. PICK rest \in Int : rest = Sum(R, v)
  BY <1>1, SumType
<1>5. PICK had \in Int : had = IF k \in S THEN v[k] ELSE 0
  OBVIOUS
<1>6. Sum(S, v) = had + rest
  <2>1. CASE k \in S
    <3>1. had = v[k]
      BY <1>5, <2>1
    <3>2. Sum(S, v) = v[k] + Sum(R, v)
      BY <2>1, SumRemove
    <3> QED BY <1>4, <3>1, <3>2
  <2>2. CASE k \notin S
    <3>1. R = S /\ had = 0
      BY <1>5, <2>2
    <3> HIDE DEF R
    <3> QED BY <1>4, <3>1
  <2> QED BY <2>1, <2>2
<1>7. w[k] = had + n /\ Sum(S \union {k}, w) = w[k] + rest
  BY <1>3, <1>4, <1>5
<1> QED BY <1>6, <1>7

-----------------------------------------------------------------------------
(* The budget of the carver *)

LEMMA LessOf ==
  ASSUME NEW a \in Int, NEW b \in Int, NEW m, m = Min({a, b})
  PROVE  m \in Int /\ m \in {a, b} /\ m <= a /\ m <= b
  BY DEF Min

LEMMA MoreOf ==
  ASSUME NEW a \in Int, NEW b \in Int, NEW m, m = Max({a, b})
  PROVE  m \in Int /\ m \in {a, b} /\ m >= a /\ m >= b
  BY DEF Max

\* The caps are numbers.
CapsAssumption ==
  Threshold.carving_flow_max \in Nat /\ Threshold.carving_total_max \in Nat

\* So are the lengths of the segments that carry data.
LengthsAssumption ==
  \A t \in Themes : \A f \in Capture[t] : Loaded(f) => f.len \in Nat

\* What the carver keeps, with the shape that its updates rely on.
CarvingInv(c) ==
  /\ DOMAIN c = {"kept", "total", "dropped"}
  /\ IsFiniteSet(DOMAIN c.kept)
  /\ \A k \in DOMAIN c.kept : c.kept[k] \in 0..Threshold.carving_flow_max
  /\ c.total \in 0..Threshold.carving_total_max
  /\ c.total = Sum(DOMAIN c.kept, c.kept)

LEMMA CarvingStarts == ASSUME CapsAssumption PROVE CarvingInv(CarvingInit)
<1>1. DOMAIN CarvingInit.kept = {} /\ CarvingInit.total = 0
  BY DEF CarvingInit
<1>2. Sum({}, CarvingInit.kept) = 0
  BY SumOfNone
<1>3. DOMAIN CarvingInit = {"kept", "total", "dropped"}
  BY DEF CarvingInit
<1> QED BY <1>1, <1>2, <1>3, FS_EmptySet DEF CapsAssumption, CarvingInv

LEMMA CarvingContinues ==
  ASSUME CapsAssumption, NEW c, CarvingInv(c), NEW f, Loaded(f) => f.len \in Nat
  PROVE  CarvingInv(CarvingUpdate(c, f))
<1>1. CASE \/ ~Threshold.carving_enabled
           \/ ~Loaded(f)
           \/ {f.sport, f.dport} \intersect LikelyHttp = {}
  BY <1>1 DEF CarvingUpdate
<1>2. CASE /\ Threshold.carving_enabled
           /\ Loaded(f)
           /\ {f.sport, f.dport} \intersect LikelyHttp # {}
           /\ Stream(f) \notin DOMAIN c.kept /\ c.total >= Threshold.carving_total_max
  <2>1. CarvingUpdate(c, f) = [c EXCEPT !.dropped = @ + 1]
    BY <1>2 DEF CarvingUpdate
  <2> QED BY <2>1 DEF CarvingInv
<1>3. CASE /\ Threshold.carving_enabled
           /\ Loaded(f)
           /\ {f.sport, f.dport} \intersect LikelyHttp # {}
           /\ ~(Stream(f) \notin DOMAIN c.kept /\ c.total >= Threshold.carving_total_max)
  <2> DEFINE k == Stream(f)
             old == Lookup(c.kept, k, 0)
             room == Room(c, k)
             take == Max({0, Min({f.len, room})})
             kept == Upsert(c.kept, k, old + take)
  <2>1. PICK d : d = CarvingUpdate(c, f)
    OBVIOUS
  <2>2. d = [c EXCEPT !.kept = kept, !.total = @ + take]
    BY <1>3, <2>1 DEF CarvingUpdate
  <2>3. f.len \in Nat
    BY <1>3
  <2>4. old \in 0..Threshold.carving_flow_max
    BY DEF CarvingInv, Lookup, CapsAssumption
  <2>5. /\ room \in Int
        /\ room <= Threshold.carving_flow_max - old
        /\ room <= Threshold.carving_total_max - c.total
        /\ room >= 0
    <3> DEFINE a == Threshold.carving_flow_max - old
               b == Threshold.carving_total_max - c.total
    <3>1. a \in Nat /\ b \in Nat
      BY <2>4 DEF CarvingInv, CapsAssumption
    <3>2. room = Min({a, b})
      BY DEF Room
    <3> HIDE DEF a, b, room
    <3>3. room \in Nat /\ room <= a /\ room <= b
      BY <3>1, <3>2, LessOf
    <3> USE DEF a, b
    <3> QED BY <3>3
  <2>6. take \in Nat /\ take <= room
    <3> HIDE DEF room
    <3>0. PICK l \in Nat : l = f.len
      BY <2>3
    <3>1. PICK m : m = Min({l, room})
      OBVIOUS
    <3>2. take = Max({0, m})
      BY <3>0, <3>1
    <3> HIDE DEF take
    <3>3. m \in Int /\ m \in {l, room} /\ m <= room
      BY <2>5, <3>1, LessOf
    <3>4. take \in Int /\ take \in {0, m} /\ take >= 0
      BY <3>2, <3>3, MoreOf
    <3> QED BY <2>5, <3>3, <3>4
  <2> HIDE DEF take, room, kept
  <2>7. /\ DOMAIN d = {"kept", "total", "dropped"}
        /\ d.kept = kept
        /\ d.total = c.total + take
    BY <2>2 DEF CarvingInv
  <2>8. /\ DOMAIN kept = DOMAIN c.kept \union {k}
        /\ kept[k] = old + take
        /\ \A j \in DOMAIN c.kept \ {k} : kept[j] = c.kept[j]
    BY DEF kept, Upsert
  <2>9. IsFiniteSet(DOMAIN kept)
    BY <2>8, FS_AddElement DEF CarvingInv
  <2>10. \A j \in DOMAIN kept : kept[j] \in 0..Threshold.carving_flow_max
    <3>1. kept[k] \in 0..Threshold.carving_flow_max
      BY <2>4, <2>5, <2>6, <2>8 DEF CapsAssumption
    <3> QED BY <2>8, <3>1 DEF CarvingInv
  <2>11. d.total \in 0..Threshold.carving_total_max
    BY <2>5, <2>6, <2>7 DEF CarvingInv, CapsAssumption
  <2>12. Sum(DOMAIN kept, kept) = Sum(DOMAIN c.kept, c.kept) + take
    <3>1. \A j \in DOMAIN c.kept : c.kept[j] \in Int
      BY DEF CarvingInv, CapsAssumption
    <3>2. kept[k] = (IF k \in DOMAIN c.kept THEN c.kept[k] ELSE 0) + take
      BY <2>8 DEF Lookup
    <3> HIDE DEF k, old
    <3> QED BY <2>6, <2>8, <3>1, <3>2, SumGrows DEF CarvingInv
  <2> QED BY <2>1, <2>7, <2>9, <2>10, <2>11, <2>12 DEF CarvingInv
<1> QED BY <1>1, <1>2, <1>3

-----------------------------------------------------------------------------
(* The steps, as the parts of the state they touch *)

\* max_packets is a number.
CutAssumption == MaxPackets \in Nat

\* None of these raises on a frame.
Attentive(names) == Deaf \intersect names = {}

\* The registries, by name.
LEMMA Registered ==
  DOMAIN Fresh =
     {"port_scan", "suspicious_ports", "arp_spoofing", "arp_discovery",
      "ndp_spoofing", "dns_tunneling", "dns_exfil", "insecure",
      "credentials", "smb", "ping_sweep", "host_sweep", "snmp_walk", "llmnr",
      "icmp_tunnel", "volume", "sustained", "host_exfil", "lateral",
      "beaconing", "conn_beacon", "kerberos", "brute_force", "spraying",
      "dga", "fast_flux", "nxdomain", "tld", "dot", "entropy", "dns_beacon",
      "tunnel", "ics", "exposure", "bind", "summary", "mac_ip", "ip_stats",
      "names", "timeline", "streams", "carving", "tls", "ssh", "http",
      "quic", "assets", "anomaly", "user_rules", "dns_names", "hosts"}
  BY DEF Fresh

\* A detector or an aggregator is fed a frame, or misses it.
LEMMA HearsOrNot ==
  ASSUME NEW d, NEW f, NEW deaf, NEW name \in DOMAIN Fresh
  PROVE  Heard(d, f, deaf)[name] = IF name \in deaf THEN d[name] ELSE Fed(d, f)[name]
  BY DEF Heard

\* These detectors and the aggregator of the carver are fed a frame, or miss it.
LEMMA ReceiveFeeds ==
  ASSUME NEW f, NEW deaf, Receive(f, deaf)
  PROVE  /\ det'.summary \in {det.summary, SummaryUpdate(det.summary, f)}
         /\ det'.carving \in {det.carving, CarvingUpdate(det.carving, f)}
         /\ det'.insecure \in {det.insecure, InsecureUpdate(det.insecure, f)}
         /\ det'.suspicious_ports
              \in {det.suspicious_ports, SuspiciousPortUpdate(det.suspicious_ports, f)}
         /\ det'.exposure \in {det.exposure, ExposureUpdate(det.exposure, f)}
         /\ det'.smb \in {det.smb, SmbUpdate(det.smb, f)}
         /\ det'.port_scan \in {det.port_scan, PortScanUpdate(det.port_scan, f)}
         /\ det'.arp_discovery
              \in {det.arp_discovery, ArpDiscoveryUpdate(det.arp_discovery, f)}
         /\ det'.ping_sweep \in {det.ping_sweep, PingSweepUpdate(det.ping_sweep, f)}
<1>1. \A name \in DOMAIN Fresh : det'[name] \in {det[name], Fed(det, f)[name]}
  <2>1. det' = Heard(det, f, deaf)
    BY DEF Receive
  <2> QED BY <2>1, HearsOrNot
<1> QED BY <1>1, Registered DEF Fed

\* The detectors of uploads and the table of hosts are fed every frame when
\* they raise on none.
LEMMA AttentiveHear ==
  ASSUME NEW f, NEW deaf \in SUBSET Deaf, Receive(f, deaf)
  PROVE  /\ Attentive({"volume", "sustained", "host_exfil"}) =>
              /\ det'.volume = VolumeUpdate(det.volume, f)
              /\ det'.sustained = SustainedUpdate(det.sustained, f)
              /\ det'.host_exfil = HostExfilUpdate(det.host_exfil, f)
         /\ Attentive({"hosts"}) => det'.hosts = HostsUpdate(det.hosts, f)
<1>1. \A name \in DOMAIN Fresh : name \notin Deaf => det'[name] = Fed(det, f)[name]
  <2>1. det' = Heard(det, f, deaf)
    BY DEF Receive
  <2> QED BY <2>1, HearsOrNot
<1> QED BY <1>1, Registered DEF Fed, Attentive

\* What is read is part of the capture, and counted.
ReadInv ==
  /\ theme \in Themes
  /\ seen \subseteq Capture[theme]
  /\ IsFiniteSet(seen)
  /\ Cardinality(seen) <= MaxPackets
  /\ det.summary.count \in 0..Cardinality(seen)

\* What is read is a finite part of the capture within max_packets, no frame
\* counted twice (the loop over the aggregators in _core.py).
THEOREM ReadInvariant == ASSUME CutAssumption PROVE Spec => []ReadInv
<1>1. ASSUME Init PROVE ReadInv
  <2>1. det.summary.count = 0
    BY <1>1 DEF Init, Fresh, SummaryInit
  <2>2. Cardinality(seen) = 0 /\ IsFiniteSet(seen)
    BY <1>1, FS_EmptySet DEF Init
  <2> QED BY <1>1, <2>1, <2>2 DEF Init, ReadInv, CutAssumption
<1>2. ASSUME ReadInv, [Next]_vars PROVE ReadInv'
  <2>1. ASSUME NEW f \in Capture[theme], NEW deaf \in SUBSET Deaf, Receive(f, deaf)
        PROVE  ReadInv'
    <3>1. /\ theme' = theme /\ f \notin seen /\ seen' = seen \union {f}
          /\ Cardinality(seen) < MaxPackets
      BY <2>1 DEF Receive
    <3>2. det'.summary.count \in {det.summary.count, det.summary.count + 1}
      <4>1. det'.summary \in {det.summary, SummaryUpdate(det.summary, f)}
        BY <2>1, ReceiveFeeds
      <4>2. SummaryUpdate(det.summary, f).count = det.summary.count + 1
        BY DEF SummaryUpdate
      <4> QED BY <4>1, <4>2
    <3>3. IsFiniteSet(seen') /\ Cardinality(seen') = Cardinality(seen) + 1
      BY <1>2, <3>1, FS_AddElement DEF ReadInv
    <3>4. Cardinality(seen) \in Nat
      BY <1>2, FS_CardinalityType DEF ReadInv
    <3>5. seen' \subseteq Capture[theme']
      BY <1>2, <2>1, <3>1 DEF ReadInv
    <3> QED BY <1>2, <3>1, <3>2, <3>3, <3>4, <3>5 DEF ReadInv, CutAssumption
  <2>2. ASSUME NEW failed \in SUBSET Faulty, Finish(failed) PROVE ReadInv'
    BY <1>2, <2>2 DEF ReadInv, Finish
  <2>3. CASE UNCHANGED vars
    BY <1>2, <2>3 DEF ReadInv, vars
  <2> QED BY <1>2, <2>1, <2>2, <2>3 DEF Next
<1> QED BY <1>1, <1>2, PTL DEF Spec

\* The analysis reads frames of the capture, no more than max_packets of
\* them, and the summary counts none twice, whatever the capture.
THEOREM TypeCorrect == ASSUME CutAssumption PROVE Spec => []TypeOK
<1>1. ReadInv => TypeOK
  BY DEF ReadInv, TypeOK
<1> QED BY <1>1, ReadInvariant, PTL

CarvingHolds == CarvingInv(det.carving)

\* What the carver keeps stays in its budget and its books are straight, for
\* any capture and any caps.
THEOREM CarverStaysInBudget ==
  ASSUME CutAssumption, CapsAssumption, LengthsAssumption
  PROVE  Spec => []CarvingBounded
<1>1. ASSUME Init PROVE CarvingHolds
  <2>1. det.carving = CarvingInit
    BY <1>1 DEF Init, Fresh
  <2> QED BY <2>1, CarvingStarts DEF CarvingHolds
<1>2. ASSUME ReadInv, CarvingHolds, [Next]_vars PROVE CarvingHolds'
  <2>1. ASSUME NEW f \in Capture[theme], NEW deaf \in SUBSET Deaf, Receive(f, deaf)
        PROVE  CarvingHolds'
    <3>1. Loaded(f) => f.len \in Nat
      BY <1>2, <2>1 DEF LengthsAssumption, ReadInv
    <3>2. CarvingInv(CarvingUpdate(det.carving, f))
      BY <1>2, <3>1, CarvingContinues DEF CarvingHolds
    <3>3. det'.carving \in {det.carving, CarvingUpdate(det.carving, f)}
      BY <2>1, ReceiveFeeds
    <3> QED BY <1>2, <3>2, <3>3 DEF CarvingHolds
  <2>2. ASSUME NEW failed \in SUBSET Faulty, Finish(failed) PROVE CarvingHolds'
    BY <1>2, <2>2 DEF Finish, CarvingHolds
  <2>3. CASE UNCHANGED vars
    BY <1>2, <2>3 DEF vars, CarvingHolds
  <2> QED BY <1>2, <2>1, <2>2, <2>3 DEF Next
<1>3. CarvingHolds => CarvingBounded
  BY DEF CarvingHolds, CarvingInv, CarvingBounded, CapsAssumption
<1> QED BY <1>1, <1>2, <1>3, ReadInvariant, PTL DEF Spec

-----------------------------------------------------------------------------
(* The three detectors of uploads *)

\* Sizes of frames and the threshold of a bulk upload are numbers.
SizesAssumption ==
  /\ Threshold.exfil_min_bytes_out \in Int
  /\ \A t \in Themes : \A f \in Capture[t] : f.size \in Int

\* The pairs of addresses of a set of frames, from both viewpoints.
BothWays(F) == {<<f.src, f.dst>> : f \in F} \union {<<f.dst, f.src>> : f \in F}

\* The host aggregate has room for every pair of the capture.
RoomForPairs ==
  /\ MaxPairs \in Nat
  /\ \A t \in Themes : /\ IsFiniteSet(BothWays(Capture[t]))
                       /\ Cardinality(BothWays(Capture[t])) <= MaxPairs

\* Who holds which of the frames read so far.
UploadsInv ==
  /\ det.volume = {f \in seen : Crossing(f)}
  /\ det.sustained = {f \in seen : Crossing(f)}
  /\ DOMAIN det.host_exfil = {"out", "in"}
  /\ det.host_exfil.out = {f \in seen : IsIp(f) /\ ~IsLocal(f.dst)}
  /\ det.host_exfil.in = {f \in seen : IsIp(f) /\ ~IsLocal(f.src)}

\* A pair of the capture is booked, or there is room for it.
LEMMA PairFits ==
  ASSUME RoomForPairs, NEW t \in Themes, NEW s,
         s.out \subseteq Capture[t], s.in \subseteq Capture[t],
         NEW pair \in BothWays(Capture[t])
  PROVE  pair \in Booked(s) \/ Cardinality(Booked(s)) < MaxPairs
<1> DEFINE All == BothWays(Capture[t])
<1>1. Booked(s) \subseteq All
  BY DEF Booked, BothWays
<1>2. IsFiniteSet(All) /\ Cardinality(All) <= MaxPairs
  BY DEF RoomForPairs
<1> HIDE DEF All
<1>3. ASSUME pair \notin Booked(s) PROVE Cardinality(Booked(s)) < MaxPairs
  <2>1. pair \in All
    BY DEF All
  <2>2. Booked(s) \in SUBSET (All \ {pair})
    BY <1>1, <1>3
  <2>3. /\ IsFiniteSet(All \ {pair})
        /\ Cardinality(All \ {pair}) = Cardinality(All) - 1
    BY <1>2, <2>1, FS_RemoveElement
  <2>4. /\ Cardinality(Booked(s)) <= Cardinality(All \ {pair})
        /\ IsFiniteSet(Booked(s))
    BY <2>2, <2>3, FS_Subset
  <2>5. Cardinality(All) \in Nat /\ Cardinality(Booked(s)) \in Nat
    BY <1>2, <2>4, FS_CardinalityType
  <2> QED BY <1>2, <2>3, <2>4, <2>5 DEF RoomForPairs
<1> QED BY <1>3

LEMMA HostExfilBooks ==
  ASSUME RoomForPairs, NEW t \in Themes, NEW s, NEW f \in Capture[t],
         DOMAIN s = {"out", "in"}, s.out \subseteq Capture[t], s.in \subseteq Capture[t]
  PROVE  LET u == HostExfilUpdate(s, f)
         IN /\ DOMAIN u = {"out", "in"}
            /\ u.out = Keep(s.out, f, IsIp(f) /\ ~IsLocal(f.dst))
            /\ u.in = Keep(s.in, f, IsIp(f) /\ ~IsLocal(f.src))
<1>1. CASE ~IsIp(f)
  BY <1>1 DEF HostExfilUpdate, Keep
<1>2. CASE IsIp(f)
  <2> DEFINE there == <<f.src, f.dst>>
             back == <<f.dst, f.src>>
  <2>1. there \in BothWays(Capture[t]) /\ back \in BothWays(Capture[t])
    BY DEF BothWays
  <2>2. PICK sent : sent = [s EXCEPT !.out = BookPair(s, @, f, there, ~IsLocal(f.dst))]
    OBVIOUS
  <2>3. HostExfilUpdate(s, f) =
          [sent EXCEPT !.in = BookPair(sent, @, f, back, ~IsLocal(f.src))]
    BY <1>2, <2>2 DEF HostExfilUpdate
  <2>4. /\ DOMAIN sent = {"out", "in"}
        /\ sent.out = BookPair(s, s.out, f, there, ~IsLocal(f.dst))
        /\ sent.in = s.in
    BY <2>2
  <2>5. BookPair(s, s.out, f, there, ~IsLocal(f.dst)) = Keep(s.out, f, ~IsLocal(f.dst))
    <3>1. there \in Booked(s) \/ Cardinality(Booked(s)) < MaxPairs
      BY <2>1, PairFits
    <3>2. CASE IsLocal(f.dst)
      BY <3>2 DEF BookPair, Keep
    <3>3. CASE ~IsLocal(f.dst)
      <4> HIDE DEF there
      <4>1. (~IsLocal(f.dst) /\ (there \in Booked(s) \/ Cardinality(Booked(s)) < MaxPairs))
        BY <3>1, <3>3
      <4> QED BY <3>3, <4>1 DEF BookPair, Keep
    <3> QED BY <3>2, <3>3
  <2>6. sent.out \subseteq Capture[t] /\ sent.in \subseteq Capture[t]
    BY <2>4, <2>5 DEF Keep
  <2>7. BookPair(sent, sent.in, f, back, ~IsLocal(f.src)) = Keep(s.in, f, ~IsLocal(f.src))
    <3>1. back \in Booked(sent) \/ Cardinality(Booked(sent)) < MaxPairs
      BY <2>1, <2>6, PairFits
    <3>2. CASE IsLocal(f.src)
      BY <2>4, <3>2 DEF BookPair, Keep
    <3>3. CASE ~IsLocal(f.src)
      <4> HIDE DEF back
      <4>1. (~IsLocal(f.src) /\ (back \in Booked(sent) \/ Cardinality(Booked(sent)) < MaxPairs))
        BY <3>1, <3>3
      <4> QED BY <2>4, <3>3, <4>1 DEF BookPair, Keep
    <3> QED BY <3>2, <3>3
  <2>8. PICK u : u = HostExfilUpdate(s, f)
    OBVIOUS
  <2>9. /\ DOMAIN u = {"out", "in"}
        /\ u.out = Keep(s.out, f, ~IsLocal(f.dst))
        /\ u.in = Keep(s.in, f, ~IsLocal(f.src))
    BY <2>3, <2>4, <2>5, <2>7, <2>8
  <2> QED BY <1>2, <2>8, <2>9 DEF Keep
<1> QED BY <1>1, <1>2

\* The pairs and machines of the three detectors of uploads are booked as
\* UploadsInv says, along any capture, as long as their update() raises on no
\* frame.
THEOREM UploadsInvariant ==
  ASSUME CutAssumption, RoomForPairs, Attentive({"volume", "sustained", "host_exfil"})
  PROVE  Spec => []UploadsInv
<1>1. ASSUME Init PROVE UploadsInv
  <2>1. /\ seen = {} /\ det.volume = {} /\ det.sustained = {}
        /\ det.host_exfil = [out |-> {}, in |-> {}]
    BY <1>1 DEF Init, Fresh, VolumeInit, SustainedInit, HostExfilInit
  <2> QED BY <2>1 DEF UploadsInv
<1>2. ASSUME ReadInv, UploadsInv, [Next]_vars PROVE UploadsInv'
  <2>1. ASSUME NEW f \in Capture[theme], NEW deaf \in SUBSET Deaf, Receive(f, deaf)
        PROVE  UploadsInv'
    <3>1. /\ det'.volume = Keep(det.volume, f, Crossing(f))
          /\ det'.sustained = Keep(det.sustained, f, Crossing(f))
          /\ det'.host_exfil = HostExfilUpdate(det.host_exfil, f)
      BY <2>1, AttentiveHear DEF VolumeUpdate, SustainedUpdate
    <3>2. seen' = seen \union {f}
      BY <2>1 DEF Receive
    <3>3. /\ theme \in Themes
          /\ DOMAIN det.host_exfil = {"out", "in"}
          /\ det.host_exfil.out \subseteq Capture[theme]
          /\ det.host_exfil.in \subseteq Capture[theme]
      BY <1>2 DEF ReadInv, UploadsInv
    <3>4. PICK u : u = HostExfilUpdate(det.host_exfil, f)
      OBVIOUS
    <3>5. /\ DOMAIN u = {"out", "in"}
          /\ u.out = Keep(det.host_exfil.out, f, IsIp(f) /\ ~IsLocal(f.dst))
          /\ u.in = Keep(det.host_exfil.in, f, IsIp(f) /\ ~IsLocal(f.src))
      BY <3>3, <3>4, HostExfilBooks
    <3>6. det'.host_exfil = u
      BY <3>1, <3>4
    <3>7. Keep(det.volume, f, Crossing(f)) = {g \in seen \union {f} : Crossing(g)}
      BY <1>2 DEF UploadsInv, Keep
    <3>8. Keep(det.sustained, f, Crossing(f)) = {g \in seen \union {f} : Crossing(g)}
      BY <1>2 DEF UploadsInv, Keep
    <3>9. u.out = {g \in seen \union {f} : IsIp(g) /\ ~IsLocal(g.dst)}
      <4>1. CASE IsIp(f) /\ ~IsLocal(f.dst)
        BY <1>2, <3>5, <4>1 DEF UploadsInv, Keep
      <4>2. CASE ~(IsIp(f) /\ ~IsLocal(f.dst))
        BY <1>2, <3>5, <4>2 DEF UploadsInv, Keep
      <4> QED BY <4>1, <4>2
    <3>10. u.in = {g \in seen \union {f} : IsIp(g) /\ ~IsLocal(g.src)}
      <4>1. CASE IsIp(f) /\ ~IsLocal(f.src)
        BY <1>2, <3>5, <4>1 DEF UploadsInv, Keep
      <4>2. CASE ~(IsIp(f) /\ ~IsLocal(f.src))
        BY <1>2, <3>5, <4>2 DEF UploadsInv, Keep
      <4> QED BY <4>1, <4>2
    <3> QED BY <3>1, <3>2, <3>5, <3>6, <3>7, <3>8, <3>9, <3>10 DEF UploadsInv
  <2>2. ASSUME NEW failed \in SUBSET Faulty, Finish(failed) PROVE UploadsInv'
    BY <1>2, <2>2 DEF UploadsInv, Finish
  <2>3. CASE UNCHANGED vars
    BY <1>2, <2>3 DEF UploadsInv, vars
  <2> QED BY <1>2, <2>1, <2>2, <2>3 DEF Next
<1> QED BY <1>1, <1>2, ReadInvariant, PTL DEF Spec

\* A pair that is bulk is over the threshold; one that drips is under it.
LEMMA BulkOrDrips ==
  ASSUME SizesAssumption, NEW t \in Themes, NEW F, F \subseteq Capture[t], IsFiniteSet(F),
         NEW a \in VolumeAlerts(F), NEW b \in SustainedAlerts(F)
  PROVE  <<a.src, a.dst>> # <<b.src, b.dst>>
<1>1. PICK f \in F : /\ Bulk(F, Pair(f))
                     /\ a.src = Pair(f)[1] /\ a.dst = Pair(f)[2]
  BY DEF VolumeAlerts, Alert
<1>2. PICK g \in F : /\ Drips(F, Pair(g))
                     /\ b.src = Pair(g)[1] /\ b.dst = Pair(g)[2]
  <2>1. PICK p \in {q \in {Pair(g) : g \in F} : Drips(F, q)} :
           \E sev, n : b = Alert("sustained_exfil", sev, p[1], p[2], "drip", n)
    BY Zenon DEF SustainedAlerts
  <2> QED BY <2>1 DEF Alert
<1>3. SUFFICES ASSUME a.src = b.src, a.dst = b.dst PROVE FALSE
  OBVIOUS
<1>4. Pair(f) = Pair(g)
  BY <1>1, <1>2, <1>3 DEF Pair
<1>5. Out(F, Pair(f)) \in Int
  <2> DEFINE S == {h \in F : <<h.src, h.dst>> = Pair(f)}
  <2>1. IsFiniteSet(S)
    BY FS_Subset
  <2>2. \A h \in S : [k \in S |-> k.size][h] \in Int
    BY DEF SizesAssumption
  <2>3. Sum(S, [k \in S |-> k.size]) \in Int
    BY <2>1, <2>2, SumType
  <2> QED BY <2>3 DEF Out, BytesOf
<1> QED BY <1>1, <1>2, <1>4, <1>5 DEF Bulk, Drips, SizesAssumption

\* The upload of a machine is over the threshold on a pair of its own: then
\* it is left to the detector of pairs.
LEMMA MachineOrPair ==
  ASSUME UploadsInv, NEW hostOf, NEW a \in HostExfilAlerts(det.host_exfil, hostOf),
         NEW b \in VolumeAlerts(det.volume),
         b.src \in DOMAIN hostOf, b.dst \notin DOMAIN hostOf,
         a.about[2] = <<hostOf[b.src], DestinationOf(b.dst)>>
  PROVE  FALSE
<1> DEFINE s == det.host_exfil
           V == det.volume
           OutOf(p) == BytesOf({f \in s.out : <<f.src, f.dst>> = p})
           InOf(p) == BytesOf({f \in s.in : <<f.dst, f.src>> = p})
           Ours == {p \in Booked(s) : p[1] \in DOMAIN hostOf /\ p[2] \notin DOMAIN hostOf}
           Group(p) == <<hostOf[p[1]], DestinationOf(p[2])>>
<1>1. PICK f \in V : /\ Bulk(V, Pair(f))
                     /\ b.src = Pair(f)[1] /\ b.dst = Pair(f)[2]
  BY DEF VolumeAlerts, Alert
<1> DEFINE q == Pair(f)
<1>2. f \in seen /\ Crossing(f)
  BY DEF UploadsInv
<1>3. IsLocal(q[1]) /\ ~IsLocal(q[2])
  BY <1>2 DEF Crossing, Pair, IsLocal
<1>4. q \in Booked(s)
  <2>1. CASE IsLocal(f.src)
    BY <1>2, <2>1 DEF UploadsInv, Crossing, Pair, Booked
  <2>2. CASE ~IsLocal(f.src)
    BY <1>2, <2>2 DEF UploadsInv, Crossing, Pair, Booked
  <2> QED BY <2>1, <2>2
<1>5. q \in Ours
  BY <1>1, <1>4
<1>6. PICK p \in Ours :
        /\ a.about[2] = Group(p)
        /\ ~\E r \in {o \in Ours : Group(o) = Group(p)} :
              /\ IsLocal(r[1]) /\ ~IsLocal(r[2])
              /\ OutOf(r) >= Threshold.exfil_min_bytes_out
              /\ Inverted(OutOf(r), InOf(r), Threshold.exfil_min_ratio)
  <2> DEFINE Of(g) == {r \in Ours : Group(r) = g}
             Covered(g) == \E r \in Of(g) :
                             /\ IsLocal(r[1]) /\ ~IsLocal(r[2])
                             /\ OutOf(r) >= Threshold.exfil_min_bytes_out
                             /\ Inverted(OutOf(r), InOf(r), Threshold.exfil_min_ratio)
             SentOver(P) == Sum(P, [r \in P |-> OutOf(r)])
             Peers(g) == {r[2] : r \in Of(g)}
             TopPeer(g) == Most(Peers(g), [peer \in Peers(g) |->
                                             SentOver({r \in Of(g) : r[2] = peer})])
             Senders(g) == {r[1] : r \in {o \in Of(g) : OutOf(o) > 0}}
             TopIp(g) == Most(Senders(g), [ip \in Senders(g) |-> OutOf(<<ip, TopPeer(g)>>)])
             Sev(g) == SanctionedDowngrade(TopPeer(g), VolumeSeverity(SentOver(Of(g))))
  <2>1. PICK g \in {Group(p) : p \in Ours} :
          /\ ~Covered(g)
          /\ a = Alert("host_exfil", Sev(g), TopIp(g), TopPeer(g), g, SentOver(Of(g)))
    BY Zenon DEF HostExfilAlerts
  <2> HIDE DEF TopIp, TopPeer, Sev, SentOver, Senders, Peers
  <2>2. a.about[2] = g
    BY <2>1 DEF Alert
  <2> QED BY <2>1, <2>2
<1>7. Group(q) = Group(p)
  BY <1>1, <1>6
<1>8. OutOf(q) = Out(V, q)
  <2>1. {g \in s.out : <<g.src, g.dst>> = q} = {g \in V : <<g.src, g.dst>> = q}
    BY <1>3 DEF UploadsInv, Crossing
  <2> QED BY <2>1 DEF Out
<1>9. InOf(q) = In(V, q)
  <2>1. {g \in s.in : <<g.dst, g.src>> = q} = {g \in V : <<g.dst, g.src>> = q}
    BY <1>3 DEF UploadsInv, Crossing
  <2> QED BY <2>1 DEF In
<1>10. /\ OutOf(q) >= Threshold.exfil_min_bytes_out
       /\ Inverted(OutOf(q), InOf(q), Threshold.exfil_min_ratio)
  BY <1>1, <1>8, <1>9 DEF Bulk
<1> HIDE DEF q, OutOf, InOf, Ours, Group
<1> QED BY <1>3, <1>5, <1>6, <1>7, <1>10

\* The three detectors of uploads divide the work: no pair is both bulk and a
\* drip, no machine is reported for what one of its pairs is reported for,
\* as long as the host aggregate has room for the pairs of the capture and none
\* of the three misses a frame.
THEOREM UploadsAreSpokenOnce ==
  ASSUME CutAssumption, SizesAssumption, RoomForPairs,
         Attentive({"volume", "sustained", "host_exfil"})
  PROVE  Spec => []ExfilSpokenOnce
<1>1. ASSUME ReadInv, UploadsInv PROVE ExfilSpokenOnce
  <2> DEFINE hostOf == BuildHosts(det.hosts).host
  <2>1. ASSUME NEW a \in VolumeAlerts(det.volume), NEW b \in SustainedAlerts(det.sustained)
        PROVE  <<a.src, a.dst>> # <<b.src, b.dst>>
    <3>1. /\ theme \in Themes
          /\ det.volume \subseteq Capture[theme]
          /\ det.sustained = det.volume
      BY <1>1 DEF ReadInv, UploadsInv
    <3>2. IsFiniteSet(det.volume)
      BY <1>1, FS_Subset DEF ReadInv, UploadsInv
    <3> QED BY <2>1, <3>1, <3>2, BulkOrDrips
  <2>2. ASSUME NEW a \in HostExfilAlerts(det.host_exfil, hostOf),
               NEW b \in VolumeAlerts(det.volume),
               b.src \in DOMAIN hostOf, b.dst \notin DOMAIN hostOf,
               a.about[2] = <<hostOf[b.src], DestinationOf(b.dst)>>
        PROVE  FALSE
    <3> HIDE DEF hostOf
    <3> QED BY <1>1, <2>2, MachineOrPair
  <2> QED BY <2>1, <2>2 DEF ExfilSpokenOnce, UploadsSpokenOnce
<1> QED BY <1>1, ReadInvariant, UploadsInvariant, PTL

-----------------------------------------------------------------------------
(* Who has really talked *)

\* A frame that shows the server at this port, or its client, talking.
Talks(f, server, port) ==
  /\ f.proto = "tcp"
  /\ \/ f.src = server /\ f.sport = port /\ (SynAck(f) \/ f.len > 0)
     \/ f.dst = server /\ f.dport = port /\ f.len > 0

Talked(F, server, port) == \E f \in F : Talks(f, server, port)

Conversing == {"client_ack", "data", "syn_ack"}

\* Every mark of a conversation in a tracker goes back to such a frame.
Evidenced(flows, F) ==
  \A k \in DOMAIN flows :
    /\ "seen" \in DOMAIN flows[k]
    /\ flows[k].seen \intersect Conversing # {} => Talked(F, k[1], k[3])

\* A segment marks the record of its flow, a client's ACK only after the
\* server's SYN and ACK.
LEMMA SegmentEvidenced ==
  ASSUME NEW flows, NEW F, NEW f, NEW key, NEW fromClient \in BOOLEAN,
         Evidenced(flows, F), f.proto = "tcp",
         IF fromClient THEN key[1] = f.dst /\ key[3] = f.dport
                       ELSE key[1] = f.src /\ key[3] = f.sport
  PROVE  Evidenced(ObserveTcp(flows, key, f, fromClient), F \union {f})
<1> DEFINE rec == FlowAt(flows, key)
           next == [seen    |-> rec.seen \union Marks(rec, f, fromClient),
                    packets |-> rec.packets + 1,
                    up      |-> rec.up + (IF fromClient THEN f.len ELSE 0),
                    down    |-> rec.down + (IF fromClient THEN 0 ELSE f.len),
                    stamps  |-> Stretch(rec.stamps, f.ts)]
<1>1. /\ DOMAIN ObserveTcp(flows, key, f, fromClient) = DOMAIN flows \union {key}
      /\ ObserveTcp(flows, key, f, fromClient)[key] = next
      /\ \A k \in DOMAIN flows \ {key} :
            ObserveTcp(flows, key, f, fromClient)[k] = flows[k]
  BY DEF ObserveTcp, Upsert
<1>2. "seen" \in DOMAIN next /\ next.seen = rec.seen \union Marks(rec, f, fromClient)
  OBVIOUS
<1>3. ASSUME rec.seen \intersect Conversing # {} PROVE Talked(F, key[1], key[3])
  <2>1. key \in DOMAIN flows
    BY <1>3 DEF FlowAt, Lookup, NewFlow
  <2> QED BY <1>3, <2>1 DEF FlowAt, Lookup, Evidenced
<1>4. ASSUME Marks(rec, f, fromClient) \intersect Conversing # {}
      PROVE  Talked(F \union {f}, key[1], key[3])
  <2>1. CASE "data" \in Marks(rec, f, fromClient)
    <3>1. f.len > 0
      BY <2>1 DEF Marks
    <3> QED BY <3>1 DEF Talked, Talks
  <2>2. CASE "syn_ack" \in Marks(rec, f, fromClient)
    <3>1. ~fromClient /\ SynAck(f)
      BY <2>2 DEF Marks
    <3> QED BY <3>1 DEF Talked, Talks
  <2>3. CASE "client_ack" \in Marks(rec, f, fromClient)
    <3>1. "syn_ack" \in rec.seen
      BY <2>3 DEF Marks
    <3>2. Talked(F, key[1], key[3])
      BY <1>3, <3>1 DEF Conversing
    <3> QED BY <3>2 DEF Talked
  <2> QED BY <1>4, <2>1, <2>2, <2>3 DEF Conversing
<1> HIDE DEF rec, next
<1>5. ASSUME next.seen \intersect Conversing # {}
      PROVE  Talked(F \union {f}, key[1], key[3])
  BY <1>2, <1>3, <1>4, <1>5 DEF Talked
<1> QED BY <1>1, <1>2, <1>5 DEF Evidenced, Talked

\* More frames are no less evidence.
LEMMA EvidenceStays ==
  ASSUME NEW flows, NEW F, NEW G, F \subseteq G, Evidenced(flows, F)
  PROVE  Evidenced(flows, G)
  BY DEF Evidenced, Talked

\* An ICMP error marks nothing of the kind.
LEMMA ErrorEvidenced ==
  ASSUME NEW flows, NEW F, NEW f, NEW ports, NEW create, Evidenced(flows, F)
  PROVE  Evidenced(ObserveIcmpError(flows, f, ports, create), F)
<1>1. CASE ObserveIcmpError(flows, f, ports, create) = flows
  BY <1>1
<1>2. CASE ObserveIcmpError(flows, f, ports, create) # flows
  <2> DEFINE key == IcmpErrorKey(f, ports)
             rec == FlowAt(flows, key)
  <2>1. PICK next : next = [rec EXCEPT !.seen = @ \union {"icmp"},
                                       !.stamps = Stretch(@, f.ts)]
    OBVIOUS
  <2>2. ObserveIcmpError(flows, f, ports, create) = Upsert(flows, key, next)
    BY <1>2, <2>1 DEF ObserveIcmpError
  <2>3. "seen" \in DOMAIN rec
    BY DEF FlowAt, Lookup, Evidenced, NewFlow
  <2>4. "seen" \in DOMAIN next /\ next.seen = rec.seen \union {"icmp"}
    BY <2>1, <2>3
  <2>5. ASSUME rec.seen \intersect Conversing # {} PROVE Talked(F, key[1], key[3])
    <3>1. key \in DOMAIN flows
      BY <2>5 DEF FlowAt, Lookup, NewFlow
    <3> QED BY <2>5, <3>1 DEF FlowAt, Lookup, Evidenced
  <2>6. next.seen \intersect Conversing # {} => Talked(F, key[1], key[3])
    BY <2>4, <2>5 DEF Conversing
  <2> HIDE DEF key, rec
  <2>7. PICK all : all = Upsert(flows, key, next)
    OBVIOUS
  <2>8. /\ DOMAIN all = DOMAIN flows \union {key}
        /\ all[key] = next
        /\ \A k \in DOMAIN flows \ {key} : all[k] = flows[k]
    BY <2>7 DEF Upsert
  <2>9. Evidenced(all, F)
    BY <2>4, <2>6, <2>8 DEF Evidenced
  <2> QED BY <2>2, <2>7, <2>9
<1> QED BY <1>1, <1>2

LEMMA TrackEvidenced ==
  ASSUME NEW flows, NEW F, NEW f, NEW ports, Evidenced(flows, F)
  PROVE  Evidenced(Track(flows, f, ports), F \union {f})
<1>1. CASE Watched(f, ports)
  <2> DEFINE toServer == f.dport \in ports
  <2>1. f.proto = "tcp" /\ toServer \in BOOLEAN
    BY <1>1 DEF Watched
  <2>2. IF toServer
        THEN FlowKey(f, ports)[1] = f.dst /\ FlowKey(f, ports)[3] = f.dport
        ELSE FlowKey(f, ports)[1] = f.src /\ FlowKey(f, ports)[3] = f.sport
    BY DEF FlowKey
  <2>3. Track(flows, f, ports)
          = ObserveTcp(flows, FlowKey(f, ports), f, toServer)
    BY <1>1 DEF Track
  <2> HIDE DEF toServer
  <2> QED BY <2>1, <2>2, <2>3, SegmentEvidenced
<1>2. CASE ~Watched(f, ports) /\ f.proto = "icmp"
  <2>1. Track(flows, f, ports) = ObserveIcmpError(flows, f, ports, FALSE)
    BY <1>2 DEF Track
  <2>2. Evidenced(Track(flows, f, ports), F)
    BY <2>1, ErrorEvidenced
  <2> QED BY <2>2, EvidenceStays
<1>3. CASE ~Watched(f, ports) /\ f.proto # "icmp"
  <2>1. Track(flows, f, ports) = flows
    BY <1>3 DEF Track
  <2> QED BY <2>1, EvidenceStays
<1> QED BY <1>1, <1>2, <1>3

\* A tracker holds flows to the ports it watches.
LEMMA TrackWatches ==
  ASSUME NEW flows, NEW f, NEW ports, \A k \in DOMAIN flows : k[3] \in ports
  PROVE  \A k \in DOMAIN Track(flows, f, ports) : k[3] \in ports
<1>1. CASE Watched(f, ports)
  <2>1. DOMAIN Track(flows, f, ports) = DOMAIN flows \union {FlowKey(f, ports)}
    BY <1>1 DEF Track, ObserveTcp, Upsert
  <2>2. FlowKey(f, ports)[3] \in ports
    BY <1>1 DEF FlowKey, Watched
  <2> QED BY <2>1, <2>2
<1>2. CASE ~Watched(f, ports) /\ f.proto = "icmp"
  <2>1. Track(flows, f, ports) = ObserveIcmpError(flows, f, ports, FALSE)
    BY <1>2 DEF Track
  <2>2. DOMAIN ObserveIcmpError(flows, f, ports, FALSE) = DOMAIN flows
    <3> DEFINE key == IcmpErrorKey(f, ports)
               all(next) == Upsert(flows, key, next)
    <3>1. ASSUME NEW next, key \in DOMAIN flows
          PROVE  DOMAIN all(next) = DOMAIN flows
      BY <3>1 DEF Upsert
    <3>2. \/ ObserveIcmpError(flows, f, ports, FALSE) = flows
          \/ key \in DOMAIN flows
             /\ \E next : ObserveIcmpError(flows, f, ports, FALSE) = all(next)
      BY DEF ObserveIcmpError
    <3> QED BY <3>1, <3>2
  <2> QED BY <2>1, <2>2
<1>3. CASE ~Watched(f, ports) /\ f.proto # "icmp"
  BY <1>3 DEF Track
<1> QED BY <1>1, <1>2, <1>3

Answered == {"established", "open_no_ack"}

\* The status of a flow is answered on evidence only.
LEMMA AnsweredTalked ==
  ASSUME NEW flows, NEW F, NEW k, Evidenced(flows, F), FlowStatus(flows, k) \in Answered
  PROVE  Talked(F, k[1], k[3])
<1>1. k \in DOMAIN flows /\ StatusOf(flows[k]) \in Answered
  BY DEF FlowStatus, Answered
<1>2. flows[k].seen \intersect Conversing # {}
  BY <1>1 DEF StatusOf, Answered, Conversing
<1> QED BY <1>1, <1>2 DEF Evidenced

\* ... and so is the best of several.
LEMMA BestIsOneOfThem ==
  ASSUME NEW S, BestStatus(S) \in Answered \/ BestStatus(S) \notin Unanswered
  PROVE  BestStatus(S) \in Answered /\ BestStatus(S) \in S
<1> DEFINE I == {i \in DOMAIN StatusOrder : StatusOrder[i] \in S} \union {Len(StatusOrder)}
<1>1. DOMAIN StatusOrder = 1..5 /\ Len(StatusOrder) = 5
  BY DEF StatusOrder
<1>2. I \in SUBSET (1..5) /\ 5 \in I
  BY <1>1
<1>3. PICK m : m = Min(I)
  OBVIOUS
<1>4. BestStatus(S) = StatusOrder[m]
  BY <1>3 DEF BestStatus
<1>5. m \in I
  <2> HIDE DEF I
  <2>1. \E x \in I : \A y \in I : x <= y
    <3>1. CASE 1 \in I
      BY <1>2, <3>1
    <3>2. CASE 1 \notin I /\ 2 \in I
      BY <1>2, <3>2
    <3>3. CASE 1 \notin I /\ 2 \notin I /\ 3 \in I
      BY <1>2, <3>3
    <3>4. CASE 1 \notin I /\ 2 \notin I /\ 3 \notin I /\ 4 \in I
      BY <1>2, <3>4
    <3>5. CASE 1 \notin I /\ 2 \notin I /\ 3 \notin I /\ 4 \notin I
      BY <1>2, <3>5
    <3> QED BY <3>1, <3>2, <3>3, <3>4, <3>5
  <2> QED BY <1>3, <2>1 DEF Min
<1>6. m = 5 \/ StatusOrder[m] \in S
  BY <1>1, <1>5
<1>7. m \in 1..5
  BY <1>2, <1>5
<1>8. StatusOrder[m] \in Answered /\ m # 5
  BY <1>4, <1>7 DEF StatusOrder, Answered, Unanswered
<1> QED BY <1>4, <1>6, <1>8

\* A database greeting is a payload, so its segment has a length.
SegmentsSpeak ==
  \A t \in Themes : \A f \in Capture[t] :
    f.proto = "tcp" /\ f.says = "db_hello" => f.len > 0

\* The state of the four detectors: what they mark as a conversation was one.
TalkInv ==
  /\ Evidenced(det.insecure, seen)
  /\ Evidenced(det.suspicious_ports.flows, seen)
  /\ Evidenced(det.smb.flows, seen)
  /\ \A k \in DOMAIN det.smb.flows : k[3] \in SmbPorts
  /\ Evidenced(det.exposure.flows, seen)
  /\ \A k \in det.exposure.greeted : Talked(seen, k[1], k[3])

LEMMA SuspiciousEvidenced ==
  ASSUME NEW s, NEW F, NEW f, Evidenced(s.flows, F),
         DOMAIN s = {"flows", "listening", "ephemeral", "servicePeer"}
  PROVE  /\ Evidenced(SuspiciousPortUpdate(s, f).flows, F \union {f})
         /\ DOMAIN SuspiciousPortUpdate(s, f)
              = {"flows", "listening", "ephemeral", "servicePeer"}
<1>1. CASE f.proto = "tcp" /\ TouchesSuspicious(f)
  <2>1. SuspiciousPortUpdate(s, f).flows
          = ObserveTcp(s.flows, SuspiciousKey(f), f, ToSuspicious(f))
    BY <1>1 DEF SuspiciousPortUpdate
  <2>2. DOMAIN SuspiciousPortUpdate(s, f)
              = {"flows", "listening", "ephemeral", "servicePeer"}
    BY <1>1 DEF SuspiciousPortUpdate
  <2>3. IF ToSuspicious(f)
        THEN SuspiciousKey(f)[1] = f.dst /\ SuspiciousKey(f)[3] = f.dport
        ELSE SuspiciousKey(f)[1] = f.src /\ SuspiciousKey(f)[3] = f.sport
    BY DEF SuspiciousKey
  <2>4. ToSuspicious(f) \in BOOLEAN
    BY DEF ToSuspicious
  <2> QED BY <1>1, <2>1, <2>2, <2>3, <2>4, SegmentEvidenced
<1>2. CASE ~(f.proto = "tcp" /\ TouchesSuspicious(f)) /\ f.proto = "icmp"
  <2>1. PICK r : r = [s EXCEPT !.flows =
                        ObserveIcmpError(@, f, DOMAIN SuspiciousPorts, FALSE)]
    OBVIOUS
  <2>2. SuspiciousPortUpdate(s, f) = r
    BY <1>2, <2>1 DEF SuspiciousPortUpdate
  <2>3. DOMAIN r = DOMAIN s
        /\ r.flows = ObserveIcmpError(s.flows, f, DOMAIN SuspiciousPorts, FALSE)
    BY <2>1
  <2>4. Evidenced(r.flows, F)
    BY <2>3, ErrorEvidenced
  <2>5. Evidenced(r.flows, F \union {f})
    BY <2>4, EvidenceStays
  <2> QED BY <2>2, <2>3, <2>5
<1>3. CASE ~(f.proto = "tcp" /\ TouchesSuspicious(f)) /\ f.proto # "icmp"
  <2>1. SuspiciousPortUpdate(s, f) = s
    BY <1>3 DEF SuspiciousPortUpdate
  <2> QED BY <2>1, EvidenceStays
<1> QED BY <1>1, <1>2, <1>3

\* The flows of exposed databases, and who has greeted in their protocol.
LEMMA ExposureEvidenced ==
  ASSUME NEW s, NEW F, NEW f, Evidenced(s.flows, F),
         \A k \in s.greeted : Talked(F, k[1], k[3]),
         DOMAIN s = {"db", "greeted", "pipes", "flows"},
         f.proto = "tcp" /\ f.says = "db_hello" => f.len > 0
  PROVE  /\ Evidenced(ExposureUpdate(s, f).flows, F \union {f})
         /\ \A k \in ExposureUpdate(s, f).greeted : Talked(F \union {f}, k[1], k[3])
         /\ DOMAIN ExposureUpdate(s, f) = {"db", "greeted", "pipes", "flows"}
<1>0. \A k \in s.greeted : Talked(F \union {f}, k[1], k[3])
  BY DEF Talked
<1>1. CASE f.proto = "icmp"
  <2>1. PICK r : r = [s EXCEPT !.flows = ObserveIcmpError(@, f, ExposureTracked, FALSE)]
    OBVIOUS
  <2>2. ExposureUpdate(s, f) = r
    BY <1>1, <2>1 DEF ExposureUpdate
  <2>3. /\ DOMAIN r = DOMAIN s
        /\ r.flows = ObserveIcmpError(s.flows, f, ExposureTracked, FALSE)
        /\ r.greeted = s.greeted
    BY <2>1
  <2>4. Evidenced(r.flows, F)
    BY <2>3, ErrorEvidenced
  <2>5. Evidenced(r.flows, F \union {f})
    BY <2>4, EvidenceStays
  <2> QED BY <1>0, <2>2, <2>3, <2>5
<1>2. CASE f.proto = "tcp"
  <2> DEFINE keys == {<<AsDb(f, p).server, AsDb(f, p).client, p>> : p \in ExposedPort(f)}
             flow == IF f.dport \in ExposureTracked THEN <<f.dst, f.src, f.dport>>
                                                    ELSE <<f.src, f.dst, f.sport>>
  <2>1. PICK r : r = ExposureUpdate(s, f)
    OBVIOUS
  <2>2. /\ DOMAIN r = {"db", "greeted", "pipes", "flows"}
        /\ r.greeted = IF f.says = "db_hello" THEN s.greeted \union keys ELSE s.greeted
        /\ r.flows = IF Ports(f) \intersect ExposureTracked # {}
                     THEN ObserveTcp(s.flows, flow, f, f.dport \in ExposureTracked)
                     ELSE s.flows
    BY <1>2, <2>1 DEF ExposureUpdate
  <2>3. Evidenced(r.flows, F \union {f})
    <3>1. CASE Ports(f) \intersect ExposureTracked # {}
      <4> DEFINE toServer == f.dport \in ExposureTracked
      <4>1. toServer \in BOOLEAN
        OBVIOUS
      <4>2. IF toServer
            THEN flow[1] = f.dst /\ flow[3] = f.dport
            ELSE flow[1] = f.src /\ flow[3] = f.sport
        OBVIOUS
      <4>3. r.flows = ObserveTcp(s.flows, flow, f, toServer)
        BY <2>2, <3>1
      <4> HIDE DEF flow, keys, toServer
      <4> QED BY <1>2, <4>1, <4>2, <4>3, SegmentEvidenced
    <3>2. CASE Ports(f) \intersect ExposureTracked = {}
      BY <2>2, <3>2, EvidenceStays
    <3> QED BY <3>1, <3>2
  <2>4. ASSUME NEW k \in keys, f.says = "db_hello" PROVE Talked(F \union {f}, k[1], k[3])
    <3>1. f.len > 0
      BY <1>2, <2>4
    <3>2. PICK p \in ExposedPort(f) : k = <<AsDb(f, p).server, AsDb(f, p).client, p>>
      OBVIOUS
    <3>3. p \in {f.sport, f.dport}
      BY DEF ExposedPort
    <3>4. Talks(f, AsDb(f, p).server, p)
      BY <1>2, <3>1, <3>3 DEF Talks, AsDb
    <3> QED BY <3>2, <3>4 DEF Talked
  <2> HIDE DEF keys
  <2> QED BY <1>0, <2>1, <2>2, <2>3, <2>4
<1>3. CASE f.proto # "icmp" /\ f.proto # "tcp"
  <2>1. ExposureUpdate(s, f) = s
    BY <1>3 DEF ExposureUpdate
  <2> QED BY <1>0, <2>1, EvidenceStays
<1> QED BY <1>1, <1>2, <1>3

TalkShape ==
  /\ DOMAIN det.suspicious_ports = {"flows", "listening", "ephemeral", "servicePeer"}
  /\ DOMAIN det.exposure = {"db", "greeted", "pipes", "flows"}

\* The inductive invariant: the trackers of the four detectors mark no
\* conversation that no frame has shown, and only databases that sent or were
\* sent something have greeted.
THEOREM TalkInvariant ==
  ASSUME CutAssumption, SegmentsSpeak PROVE Spec => [](TalkInv /\ TalkShape)
<1>1. ASSUME Init PROVE TalkInv /\ TalkShape
  <2>1. /\ det.insecure = NoFlows
        /\ det.suspicious_ports = SuspiciousPortInit
        /\ det.smb = SmbInit
        /\ det.exposure = ExposureInit
    BY <1>1 DEF Init, Fresh, InsecureInit
  <2>2. Evidenced(NoFlows, seen)
    BY DEF NoFlows, Evidenced
  <2> QED BY <2>1, <2>2
          DEF TalkInv, TalkShape, SuspiciousPortInit, SmbInit, ExposureInit, NoFlows
<1>2. ASSUME SegmentsSpeak, ReadInv, TalkInv, TalkShape, [Next]_vars
      PROVE  TalkInv' /\ TalkShape'
  <2>1. ASSUME NEW f \in Capture[theme], NEW deaf \in SUBSET Deaf, Receive(f, deaf)
        PROVE  TalkInv' /\ TalkShape'
    <3>1. seen' = seen \union {f}
      BY <2>1 DEF Receive
    <3>2. f.proto = "tcp" /\ f.says = "db_hello" => f.len > 0
      BY <1>2 DEF SegmentsSpeak, ReadInv
    <3>3. Evidenced(InsecureUpdate(det.insecure, f), seen')
      BY <1>2, <3>1, TrackEvidenced DEF TalkInv, InsecureUpdate
    <3>4. /\ Evidenced(SmbUpdate(det.smb, f).flows, seen')
          /\ \A k \in DOMAIN SmbUpdate(det.smb, f).flows : k[3] \in SmbPorts
      <4>1. SmbUpdate(det.smb, f).flows = Track(det.smb.flows, f, SmbPorts)
        BY DEF SmbUpdate
      <4> QED BY <1>2, <3>1, <4>1, TrackEvidenced, TrackWatches DEF TalkInv
    <3>5. /\ Evidenced(SuspiciousPortUpdate(det.suspicious_ports, f).flows, seen')
          /\ DOMAIN SuspiciousPortUpdate(det.suspicious_ports, f)
               = {"flows", "listening", "ephemeral", "servicePeer"}
      BY <1>2, <3>1, SuspiciousEvidenced DEF TalkInv, TalkShape
    <3>6. /\ Evidenced(ExposureUpdate(det.exposure, f).flows, seen')
          /\ \A k \in ExposureUpdate(det.exposure, f).greeted : Talked(seen', k[1], k[3])
          /\ DOMAIN ExposureUpdate(det.exposure, f) = {"db", "greeted", "pipes", "flows"}
      BY <1>2, <3>1, <3>2, ExposureEvidenced DEF TalkInv, TalkShape
    <3>7. /\ det'.insecure \in {det.insecure, InsecureUpdate(det.insecure, f)}
          /\ det'.suspicious_ports
               \in {det.suspicious_ports, SuspiciousPortUpdate(det.suspicious_ports, f)}
          /\ det'.exposure \in {det.exposure, ExposureUpdate(det.exposure, f)}
          /\ det'.smb \in {det.smb, SmbUpdate(det.smb, f)}
      BY <2>1, ReceiveFeeds
    <3>8. /\ Evidenced(det.insecure, seen')
          /\ Evidenced(det.smb.flows, seen')
          /\ Evidenced(det.suspicious_ports.flows, seen')
          /\ Evidenced(det.exposure.flows, seen')
      BY <1>2, <3>1, EvidenceStays DEF TalkInv
    <3>9. \A k \in det.exposure.greeted : Talked(seen', k[1], k[3])
      BY <1>2, <3>1 DEF TalkInv, Talked
    <3>10. Evidenced(det'.insecure, seen')
      BY <3>3, <3>7, <3>8
    <3>11. Evidenced(det'.smb.flows, seen') /\ \A k \in DOMAIN det'.smb.flows : k[3] \in SmbPorts
      BY <1>2, <3>4, <3>7, <3>8 DEF TalkInv
    <3>12. /\ Evidenced(det'.suspicious_ports.flows, seen')
           /\ DOMAIN det'.suspicious_ports = {"flows", "listening", "ephemeral", "servicePeer"}
      BY <1>2, <3>5, <3>7, <3>8 DEF TalkShape
    <3>13. /\ Evidenced(det'.exposure.flows, seen')
           /\ \A k \in det'.exposure.greeted : Talked(seen', k[1], k[3])
           /\ DOMAIN det'.exposure = {"db", "greeted", "pipes", "flows"}
      BY <1>2, <3>6, <3>7, <3>8, <3>9 DEF TalkShape
    <3> QED BY <3>10, <3>11, <3>12, <3>13 DEF TalkInv, TalkShape
  <2>2. ASSUME NEW failed \in SUBSET Faulty, Finish(failed) PROVE TalkInv' /\ TalkShape'
    <3>1. UNCHANGED <<seen, det>>
      BY <2>2 DEF Finish
    <3> QED BY <1>2, <3>1 DEF TalkInv, TalkShape
  <2>3. ASSUME UNCHANGED vars PROVE TalkInv' /\ TalkShape'
    BY <1>2, <2>3 DEF vars, TalkInv, TalkShape
  <2> QED BY <1>2, <2>1, <2>2, <2>3 DEF Next
<1> QED BY <1>1, <1>2, ReadInvariant, PTL DEF Spec

LEMMA RankOfLow == Rank("low") = 2 /\ Rank("medium") = 3
<1>1. DOMAIN Ladder = 1..5
  BY DEF Ladder
<1>2. \A i \in 1..5 : (Ladder[i] = "low") <=> (i = 2)
  BY DEF Ladder
<1>3. \A i \in 1..5 : (Ladder[i] = "medium") <=> (i = 3)
  BY DEF Ladder
<1> QED BY <1>1, <1>2, <1>3 DEF Rank

\* A probe nobody answered is never reported as a service in use.
THEOREM ProbesStayLow ==
  ASSUME CutAssumption, SegmentsSpeak
  PROVE  Spec => []ConversationBeforeAlarm
<1>1. ASSUME TalkInv PROVE ConversationBeforeAlarm
  <2>0. \A server, port : Talked(seen, server, port) => Engaged(server, port)
    BY DEF Talked, Talks, Engaged
  <2>1. ASSUME NEW a \in InsecureAlerts(det.insecure), Rank(a.sev) > Rank("low")
        PROVE  Engaged(a.dst, a.about[2])
    <3> DEFINE flows == det.insecure
               Of(server, port) == {k \in DOMAIN flows : k[1] = server /\ k[3] = port}
               Status(server, port) ==
                 BestStatus({FlowStatus(flows, k) : k \in Of(server, port)})
    <3>1. PICK k \in DOMAIN flows :
            \E n : a = Alert("insecure_protocol",
                             InsecureSeverity(k[3], Status(k[1], k[3])),
                             NoHost, k[1], k[3], n)
      BY Zenon DEF InsecureAlerts
    <3>2. /\ a.dst = k[1] /\ a.about[2] = k[3]
          /\ a.sev = InsecureSeverity(k[3], Status(k[1], k[3]))
      BY <3>1 DEF Alert
    <3>3. a.sev # "low"
      BY <2>1, RankOfLow
    <3>4. Status(k[1], k[3]) \in Answered
      BY <3>2, <3>3 DEF InsecureSeverity, Answered
    <3>5. Status(k[1], k[3]) \in {FlowStatus(flows, j) : j \in Of(k[1], k[3])}
      BY <3>4, BestIsOneOfThem
    <3>6. PICK j \in Of(k[1], k[3]) : FlowStatus(flows, j) \in Answered
      BY <3>4, <3>5
    <3>7. Talked(seen, j[1], j[3])
      BY <1>1, <3>6, AnsweredTalked DEF TalkInv
    <3> QED BY <2>0, <3>2, <3>6, <3>7
  <2>2. ASSUME NEW a \in SuspiciousPortAlerts(det.suspicious_ports),
               Rank(a.sev) > Rank("low")
        PROVE  Engaged(a.dst, a.about[2][1])
    <3> DEFINE s == det.suspicious_ports
               kept == {key \in DOMAIN s.flows : IsService(s, key)}
               Of(port, server) == {key \in kept : key[1] = server /\ key[3] = port}
               Status(k) == BestStatus({FlowStatus(s.flows, j) : j \in Of(k[3], k[1])})
               Sev(k) == IF Status(k) \in Unanswered THEN "low" ELSE SuspiciousPorts[k[3]]
    <3>1. PICK k \in kept :
            \E n : a = Alert("suspicious_port", Sev(k), NoHost, k[1],
                             <<k[3], Status(k)>>, n)
      BY Zenon DEF SuspiciousPortAlerts
    <3>2. a.dst = k[1] /\ a.about[2][1] = k[3] /\ a.sev = Sev(k)
      BY <3>1 DEF Alert
    <3>3. a.sev # "low"
      BY <2>2, RankOfLow
    <3>4. Status(k) \notin Unanswered
      BY <3>2, <3>3
    <3>5. Status(k) \in Answered
          /\ Status(k) \in {FlowStatus(s.flows, j) : j \in Of(k[3], k[1])}
      BY <3>4, BestIsOneOfThem
    <3>6. PICK j \in Of(k[3], k[1]) : FlowStatus(s.flows, j) \in Answered
      BY <3>5
    <3>7. Talked(seen, j[1], j[3])
      BY <1>1, <3>6, AnsweredTalked DEF TalkInv
    <3> QED BY <2>0, <3>2, <3>6, <3>7
  <2>3. ASSUME NEW a \in ExposureAlerts(det.exposure), a.rule = "database_exposed",
               Rank(a.sev) > Rank("low")
        PROVE  Engaged(a.dst, a.about[2])
    <3> DEFINE s == det.exposure
    <3>1. PICK k : \E n : a = Alert("database_exposed",
                                    ExposedSeverity(k \in s.greeted, FlowStatus(s.flows, k)),
                                    k[2], k[1], k[3], n)
      <4>1. \/ \E k, n : a = Alert("database_exposed",
                                   ExposedSeverity(k \in s.greeted, FlowStatus(s.flows, k)),
                                   k[2], k[1], k[3], n)
            \/ \E sev, src, dst, about, n : a = Alert("lateral_pipe", sev, src, dst, about, n)
        BY Zenon DEF ExposureAlerts
      <4>2. ASSUME NEW sev, NEW src, NEW dst, NEW about, NEW n,
                   a = Alert("lateral_pipe", sev, src, dst, about, n)
            PROVE  FALSE
        BY <2>3, <4>2 DEF Alert
      <4> QED BY <4>1, <4>2
    <3>2. /\ a.dst = k[1] /\ a.about[2] = k[3]
          /\ a.sev = ExposedSeverity(k \in s.greeted, FlowStatus(s.flows, k))
      BY <3>1 DEF Alert
    <3>3. a.sev # "low"
      BY <2>3, RankOfLow
    <3>4. k \in s.greeted \/ FlowStatus(s.flows, k) \in Answered
      BY <3>2, <3>3 DEF ExposedSeverity, Answered
    <3>5. Talked(seen, k[1], k[3])
      BY <1>1, <3>4, AnsweredTalked DEF TalkInv
    <3> QED BY <2>0, <3>2, <3>5
  <2>4. ASSUME NEW a \in SmbAlerts(det.smb), Rank(a.sev) > Rank("medium")
        PROVE  \E port \in SmbPorts : Engaged(a.dst, port)
    <3> DEFINE s == det.smb
               keys(c) == {k \in DOMAIN s.flows : k[1] = c[2] /\ k[2] = c[1]}
               Status(c) == BestStatus({FlowStatus(s.flows, k) : k \in keys(c)})
    <3>1. PICK c \in s.crossings :
            \E rule, inbound, n :
              a = Alert(rule, SmbSeverity(inbound, Status(c)), c[1], c[2], 445, n)
      BY Zenon DEF SmbAlerts
    <3>2. a.dst = c[2] /\ \E inbound : a.sev = SmbSeverity(inbound, Status(c))
      BY <3>1 DEF Alert
    <3>3. a.sev # "medium"
      BY <2>4, RankOfLow
    <3>4. Status(c) \in Answered
      BY <3>2, <3>3 DEF SmbSeverity, Answered
    <3>5. Status(c) \in {FlowStatus(s.flows, k) : k \in keys(c)}
      BY <3>4, BestIsOneOfThem
    <3>6. PICK k \in keys(c) : FlowStatus(s.flows, k) \in Answered
      BY <3>4, <3>5
    <3>7. Talked(seen, k[1], k[3]) /\ k[3] \in SmbPorts
      BY <1>1, <3>6, AnsweredTalked DEF TalkInv
    <3> QED BY <2>0, <3>2, <3>6, <3>7
  <2> QED BY <2>1, <2>2, <2>3, <2>4 DEF ConversationBeforeAlarm
<1> QED BY <1>1, TalkInvariant, PTL

-----------------------------------------------------------------------------
(* The two-pointer sweep *)

\* A finite set of numbers that is not empty has a greatest element.
LEMMA GreatestOf ==
  ASSUME NEW T \in SUBSET Int, IsFiniteSet(T), T # {}, NEW m, m = Max(T)
  PROVE  m \in T /\ \A n \in T : n <= m
<1> DEFINE Bad == {r \in SUBSET T : r # {} /\ ~\E x \in r : \A y \in r : y <= x}
<1>1. Bad = {}
  <2> SUFFICES ASSUME Bad # {} PROVE FALSE
    OBVIOUS
  <2>1. PICK r \in Bad : IsFiniteSet(r) /\ \A x \in r : r \ {x} \notin Bad
    BY SmallestOf
  <2>2. PICK x \in r : TRUE
    BY <2>1
  <2>3. CASE r \ {x} = {}
    BY <2>1, <2>2, <2>3
  <2>4. CASE r \ {x} # {}
    <3>1. PICK y \in r \ {x} : \A z \in r \ {x} : z <= y
      BY <2>1, <2>2, <2>4
    <3>2. x \in Int /\ y \in Int /\ \A z \in r : z \in Int
      BY <2>1, <2>2, <3>1
    <3>3. CASE x <= y
      BY <2>1, <2>2, <3>1, <3>2, <3>3
    <3>4. CASE ~(x <= y)
      <4>1. \A z \in r : z <= x
        BY <3>1, <3>2, <3>4
      <4> QED BY <2>1, <2>2, <4>1
    <3> QED BY <3>3, <3>4
  <2> QED BY <2>3, <2>4
<1>2. \E x \in T : \A y \in T : x >= y
  <2>1. T \notin Bad
    BY <1>1
  <2>2. PICK x \in T : \A y \in T : y <= x
    BY <2>1
  <2> QED BY <2>2
<1>3. m \in T /\ \A n \in T : m >= n
  BY <1>2 DEF Max
<1> QED BY <1>3

\* ... and what is in the set and not below any of it, is it.
LEMMA MaxIs ==
  ASSUME NEW T \in SUBSET Int, NEW m \in T, \A n \in T : n <= m
  PROVE  Max(T) = m
<1>1. PICK c : c = Max(T)
  OBVIOUS
<1>2. c \in T /\ \A n \in T : c >= n
  <2>1. \A n \in T : m >= n
    OBVIOUS
  <2> QED BY <1>1, <2>1 DEF Max
<1>3. c <= m /\ m <= c
  BY <1>2
<1> QED BY <1>1, <1>2, <1>3

\* Frames that differ in their number, with numbers for stamps.
Stamped(F) ==
  /\ IsFiniteSet(F)
  /\ \A f \in F : f.ts \in Int /\ f.id \in Int
  /\ \A f, g \in F : f.id = g.id => f = g

\* How many come before a frame.
Earlier(F, f) == {g \in F : Before(g, f)}
Place(F, f) == Cardinality(Earlier(F, f))

LEMMA BeforeOrders ==
  ASSUME NEW F, Stamped(F), NEW f \in F, NEW g \in F
  PROVE  /\ ~Before(f, f)
         /\ f = g \/ Before(f, g) \/ Before(g, f)
         /\ \A h \in F : Before(h, f) /\ Before(f, g) => Before(h, g)
<1>1. f.ts \in Int /\ f.id \in Int /\ g.ts \in Int /\ g.id \in Int
  BY DEF Stamped
<1>2. ~Before(f, f)
  BY <1>1 DEF Before
<1>3. f = g \/ Before(f, g) \/ Before(g, f)
  BY <1>1 DEF Before, Stamped
<1>4. ASSUME NEW h \in F, Before(h, f), Before(f, g) PROVE Before(h, g)
  <2>1. h.ts \in Int /\ h.id \in Int
    BY DEF Stamped
  <2> QED BY <1>1, <1>4, <2>1 DEF Before
<1> QED BY <1>2, <1>3, <1>4

\* Places tell frames apart and follow their order.
LEMMA PlacesApart ==
  ASSUME NEW F, Stamped(F), NEW f \in F, NEW g \in F, Before(f, g)
  PROVE  Place(F, f) < Place(F, g)
<1>1. Earlier(F, f) \in SUBSET F /\ Earlier(F, g) \in SUBSET F
  BY DEF Earlier
<1>2. /\ IsFiniteSet(Earlier(F, f)) /\ IsFiniteSet(Earlier(F, g))
      /\ Place(F, f) \in Nat /\ Place(F, g) \in Nat
  BY <1>1, FS_Subset, FS_CardinalityType DEF Stamped, Place
<1>3. f \in Earlier(F, g) /\ Earlier(F, f) \in SUBSET (Earlier(F, g) \ {f})
  BY BeforeOrders DEF Earlier
<1>4. /\ IsFiniteSet(Earlier(F, g) \ {f})
      /\ Cardinality(Earlier(F, g) \ {f}) = Cardinality(Earlier(F, g)) - 1
  BY <1>2, <1>3, FS_RemoveElement
<1>5. Cardinality(Earlier(F, f)) <= Cardinality(Earlier(F, g) \ {f})
  BY <1>3, <1>4, FS_Subset
<1> QED BY <1>2, <1>4, <1>5 DEF Place

LEMMA PlaceBounded ==
  ASSUME NEW F, Stamped(F), NEW f \in F
  PROVE  Place(F, f) \in 0..(Cardinality(F) - 1)
<1>1. Earlier(F, f) \in SUBSET (F \ {f})
  BY BeforeOrders DEF Earlier
<1>2. /\ IsFiniteSet(F) /\ IsFiniteSet(F \ {f}) /\ Cardinality(F) \in Nat
      /\ Cardinality(F \ {f}) = Cardinality(F) - 1
  BY FS_RemoveElement, FS_CardinalityType DEF Stamped
<1>3. /\ Cardinality(Earlier(F, f)) \in Nat
      /\ Cardinality(Earlier(F, f)) <= Cardinality(F \ {f})
  BY <1>1, <1>2, FS_Subset, FS_CardinalityType
<1> QED BY <1>2, <1>3 DEF Place

\* Every place is taken.
LEMMA PlacesTaken ==
  ASSUME NEW F, Stamped(F), NEW i \in 1..Cardinality(F)
  PROVE  \E f \in F : Place(F, f) = i - 1
<1> DEFINE P == {Place(F, f) : f \in F}
           all == 0..(Cardinality(F) - 1)
           at == [f \in F |-> Place(F, f)]
<1>1. IsFiniteSet(F) /\ Cardinality(F) \in Nat
  BY FS_CardinalityType DEF Stamped
<1>2. at \in Bijection(F, P)
  <2>1. at \in [F -> P]
    OBVIOUS
  <2>2. ASSUME NEW f \in F, NEW g \in F, at[f] = at[g] PROVE f = g
    <3>1. Place(F, f) = Place(F, g)
      BY <2>2
    <3>2. Place(F, f) \in Int /\ Place(F, g) \in Int
      BY <1>1, PlaceBounded
    <3> QED BY <3>1, <3>2, BeforeOrders, PlacesApart
  <2>3. \A p \in P : \E f \in F : at[f] = p
    OBVIOUS
  <2> HIDE DEF at, P
  <2>4. at \in Injection(F, P)
    BY <2>1, <2>2, Zenon DEF Injection, IsInjective
  <2>5. at \in Surjection(F, P)
    BY <2>1, <2>3, Zenon DEF Surjection
  <2> QED BY <2>4, <2>5, Zenon DEF Bijection
<1>3. Cardinality(P) = Cardinality(F)
  <2> HIDE DEF at, P
  <2> QED BY <1>1, <1>2, FS_Bijection, Zenon DEF ExistsBijection
<1>4. P \in SUBSET all
  BY PlaceBounded
<1>5. IsFiniteSet(all) /\ Cardinality(all) = Cardinality(F)
  <2>1. 0 \in Int /\ Cardinality(F) - 1 \in Int
    BY <1>1
  <2>2. /\ IsFiniteSet(all)
        /\ Cardinality(all) = IF 0 > Cardinality(F) - 1 THEN 0
                              ELSE (Cardinality(F) - 1) - 0 + 1
    BY <2>1, FS_Interval, Zenon
  <2> QED BY <1>1, <2>2
<1>6. P = all
  <2> HIDE DEF P, all
  <2> QED BY <1>3, <1>4, <1>5, FS_Subset
<1>7. i - 1 \in all
  BY <1>1
<1>8. i - 1 \in P
  BY <1>6, <1>7
<1> QED BY <1>8

\* InTime lists the frames, each once, in their order.
LEMMA Sorted ==
  ASSUME NEW F, Stamped(F), NEW s, s = InTime(F), NEW N, N = Cardinality(F)
  PROVE  /\ N \in Nat
         /\ DOMAIN s = 1..N
         /\ \A i \in 1..N : s[i] \in F /\ s[i].ts \in Int
         /\ \A f \in F : \E i \in 1..N : s[i] = f
         /\ \A i, j \in 1..N : i <= j => s[i].ts <= s[j].ts
<1>1. N \in Nat
  BY FS_CardinalityType DEF Stamped
<1>2. DOMAIN s = 1..N
  BY DEF InTime
<1>3. ASSUME NEW i \in 1..N PROVE s[i] \in F /\ Place(F, s[i]) = i - 1
  <2>1. s[i] = CHOOSE f \in F : Place(F, f) = i - 1
    BY DEF InTime, Place, Earlier
  <2> QED BY <2>1, PlacesTaken
<1>4. ASSUME NEW f \in F PROVE \E i \in 1..N : s[i] = f
  <2>1. Place(F, f) \in 0..(N - 1)
    BY PlaceBounded
  <2>2. PICK i \in 1..N : i = Place(F, f) + 1
    BY <1>1, <2>1
  <2>3. s[i] \in F /\ Place(F, s[i]) = Place(F, f)
    BY <1>3, <2>1, <2>2
  <2>4. ~(Place(F, s[i]) < Place(F, f)) /\ ~(Place(F, f) < Place(F, s[i]))
    BY <2>1, <2>3
  <2> QED BY <2>3, <2>4, BeforeOrders, PlacesApart
<1>5. ASSUME NEW i \in 1..N, NEW j \in 1..N, i <= j PROVE s[i].ts <= s[j].ts
  <2>1. /\ s[i] \in F /\ s[j] \in F
        /\ Place(F, s[i]) = i - 1 /\ Place(F, s[j]) = j - 1
    BY <1>3
  <2>2. s[i].ts \in Int /\ s[j].ts \in Int
    BY <2>1 DEF Stamped
  <2>3. ~Before(s[j], s[i])
    BY <1>5, <2>1, PlacesApart
  <2>4. s[i] = s[j] \/ Before(s[i], s[j])
    BY <2>1, <2>3, BeforeOrders
  <2> QED BY <2>2, <2>4 DEF Before
<1>6. \A i \in 1..N : s[i].ts \in Int
  BY <1>3 DEF Stamped
<1> QED BY <1>1, <1>2, <1>3, <1>4, <1>5, <1>6

\* The sweep as a function from sets of positions; Advance takes the greatest
\* position last.
SweepStart(F, item) == [right |-> 0, counts |-> [x \in {item[f] : f \in F} |-> 0], peak |-> 0]

Sweeps(g, s, item, width, start) ==
  g = [r \in SUBSET (DOMAIN s) |->
         IF r = {} THEN start
         ELSE Advance(s, item, width, g[r \ {Max(r)}], [i \in DOMAIN s |-> i][Max(r)])]

Swept(s, item, width, start) == CHOOSE g : Sweeps(g, s, item, width, start)

LEMMA SweepUnfolds ==
  ASSUME NEW F, NEW item, NEW width, NEW s, s = InTime(F)
  PROVE  SlidingPeak(F, item, width)
           = Swept(s, item, width, SweepStart(F, item))[DOMAIN s].peak
  BY DEF SlidingPeak, FoldLeft, MapThenFoldSet, Swept, Sweeps, SweepStart

\* Positions 1 to n, swept.
Upto(s, item, width, start, n) == Swept(s, item, width, start)[1..n]

\* It is a function: over finitely many positions its recursion ends.
LEMMA SweptSweeps ==
  ASSUME NEW s, NEW item, NEW width, NEW start, NEW N \in Nat, DOMAIN s = 1..N
  PROVE  Sweeps(Swept(s, item, width, start), s, item, width, start)
<1> DEFINE S == 1..N
           Step(g, r) == IF r = {} THEN start
                         ELSE Advance(s, item, width, g[r \ {Max(r)}], Max(r))
           Small(n) == {r \in SUBSET S : Cardinality(r) <= n}
           Good(n, g) == \A r \in Small(n) : g[r] = Step(g, r)
           Bad == {n \in Nat : ~\E g : Good(n, g)}
<1>0. IsFiniteSet(S) /\ S \in SUBSET Int
  BY FS_Interval
<1>1. \A r \in SUBSET S : /\ IsFiniteSet(r)
                          /\ Cardinality(r) \in Nat
                          /\ Cardinality(r) <= Cardinality(S)
  BY <1>0, FS_Subset, FS_CardinalityType
<1>2. \A r \in SUBSET S : r # {} => /\ Max(r) \in r
                                    /\ r \ {Max(r)} \in SUBSET S
                                    /\ Cardinality(r \ {Max(r)}) = Cardinality(r) - 1
  <2> SUFFICES ASSUME NEW r \in SUBSET S, r # {}
               PROVE  /\ Max(r) \in r
                      /\ Cardinality(r \ {Max(r)}) = Cardinality(r) - 1
    OBVIOUS
  <2>1. r \in SUBSET Int /\ IsFiniteSet(r)
    BY <1>0, <1>1
  <2>2. Max(r) \in r
    BY <2>1, GreatestOf
  <2> QED BY <2>1, <2>2, FS_RemoveElement
<1>3. Bad = {}
  <2> SUFFICES ASSUME Bad # {} PROVE FALSE
    OBVIOUS
  <2>1. PICK n \in Bad : \A m \in Bad : n <= m
    BY LeastOf
  <2>2. CASE n = 0
    <3>1. \A r \in Small(0) : r = {}
      BY <1>1, FS_EmptySet
    <3>2. Good(0, [r \in SUBSET S |-> start])
      BY <3>1
    <3> QED BY <2>1, <2>2, <3>2
  <2>3. CASE n # 0
    <3>1. n \in Nat /\ n - 1 \in Nat
      BY <2>1, <2>3
    <3>2. n - 1 \notin Bad
      <4> HIDE DEF Bad
      <4> QED BY <2>1, <3>1
    <3>3. PICK g : Good(n - 1, g)
      BY <3>1, <3>2
    <3> DEFINE h == [r \in SUBSET S |-> Step(g, r)]
    <3>4. \A r \in Small(n - 1) : h[r] = g[r]
      BY <3>3
    <3>5. ASSUME NEW r \in Small(n), r # {} PROVE r \ {Max(r)} \in Small(n - 1)
      <4> HIDE DEF S
      <4>1. r \in SUBSET S /\ Cardinality(r) <= n
        OBVIOUS
      <4>2. /\ r \ {Max(r)} \in SUBSET S
            /\ Cardinality(r \ {Max(r)}) = Cardinality(r) - 1
        BY <1>2, <3>5, <4>1
      <4>3. Cardinality(r) \in Nat /\ n \in Nat
        BY <1>1, <2>1, <4>1
      <4>4. Cardinality(r \ {Max(r)}) <= n - 1
        BY <4>1, <4>2, <4>3
      <4> QED BY <4>2, <4>4
    <3>6. ASSUME NEW r \in Small(n) PROVE h[r] = Step(h, r)
      <4>1. h[r] = Step(g, r)
        OBVIOUS
      <4>2. CASE r = {}
        BY <4>1, <4>2
      <4>3. CASE r # {}
        BY <3>4, <3>5, <4>1, <4>3
      <4> QED BY <4>2, <4>3
    <3>7. Good(n, h)
      BY <3>6
    <3> QED BY <2>1, <3>7
  <2> QED BY <2>2, <2>3
<1>4. PICK g : Good(Cardinality(S), g)
  <2>1. Cardinality(S) \in Nat
    BY <1>1
  <2> QED BY <1>3, <2>1
<1>5. \A r \in SUBSET S : g[r] = Step(g, r)
  BY <1>1, <1>4
<1>6. Sweeps([r \in SUBSET S |-> g[r]], s, item, width, start)
  <2> DEFINE f == [r \in SUBSET S |-> g[r]]
  <2>1. \A r \in SUBSET S : f[r] = Step(f, r)
    BY <1>2, <1>5
  <2>2. \A r \in SUBSET S : r # {} => [i \in DOMAIN s |-> i][Max(r)] = Max(r)
    BY <1>2
  <2>3. f = [r \in SUBSET S |->
               IF r = {} THEN start
               ELSE Advance(s, item, width, f[r \ {Max(r)}], [i \in DOMAIN s |-> i][Max(r)])]
    BY <2>1, <2>2
  <2> HIDE DEF f
  <2> QED BY <2>3 DEF f, Sweeps
<1> QED BY <1>6 DEF Swept

\* Its equations, position by position.
LEMMA SweepAdvances ==
  ASSUME NEW s, NEW item, NEW width, NEW start, NEW N \in Nat, DOMAIN s = 1..N
  PROVE  /\ Upto(s, item, width, start, 0) = start
         /\ \A n \in 1..N :
              Upto(s, item, width, start, n)
                = Advance(s, item, width, Upto(s, item, width, start, n - 1), n)
<1> DEFINE g == Swept(s, item, width, start)
<1> HIDE DEF g
<1>0. Sweeps(g, s, item, width, start)
  BY SweptSweeps DEF g
<1>1. g = [r \in SUBSET (DOMAIN s) |->
             IF r = {} THEN start
             ELSE Advance(s, item, width, g[r \ {Max(r)}], [i \in DOMAIN s |-> i][Max(r)])]
  BY <1>0 DEF Sweeps
<1>2. g[1..0] = start
  <2>1. 1..0 = {}
    OBVIOUS
  <2>2. {} \in SUBSET (DOMAIN s)
    OBVIOUS
  <2> QED BY <1>1, <2>1, <2>2
<1>3. ASSUME NEW n \in 1..N
      PROVE  g[1..n] = Advance(s, item, width, g[1..(n - 1)], n)
  <2>0. n \in Nat /\ 1 <= n /\ n <= N
    OBVIOUS
  <2>1. 1..n \in SUBSET (DOMAIN s) /\ 1..n # {} /\ n \in 1..n
    BY <2>0
  <2>2. Max(1..n) = n
    <3>1. 1..n \in SUBSET Int /\ \A m \in 1..n : m <= n
      BY <2>0
    <3> QED BY <2>1, <3>1, MaxIs
  <2>3. (1..n) \ {n} = 1..(n - 1)
    OBVIOUS
  <2>4. g[1..n] = Advance(s, item, width, g[(1..n) \ {n}], [i \in DOMAIN s |-> i][n])
    BY <1>1, <2>1, <2>2
  <2>5. [i \in DOMAIN s |-> i][n] = n
    OBVIOUS
  <2> QED BY <2>3, <2>4, <2>5
<1> QED BY <1>2, <1>3 DEF Upto, g

\* What the sweep looks for from position i on, and what it still counts.
Reaches(s, width, i, k) == s[k].ts - s[i].ts <= width
View(s, item, width, i) ==
  {item[s[k]] : k \in {j \in DOMAIN s : i <= j /\ Reaches(s, width, i, j)}}
Waiting(s, item, lo, hi, x) == {k \in lo..hi : item[s[k]] = x}

\* After n positions: the right edge is the last one the n-th reaches, the
\* counts are those between the two, the peak is that of the windows left.
SweepInv(s, item, width, a, n) ==
  /\ a.right \in Nat /\ n <= a.right /\ a.right <= Cardinality(DOMAIN s)
  /\ n = 0 => a.right = 0
  /\ n > 0 => \A k \in DOMAIN s : k <= a.right <=> Reaches(s, width, n, k)
  /\ DOMAIN a.counts = {item[s[k]] : k \in DOMAIN s}
  /\ \A x \in DOMAIN a.counts :
        a.counts[x] = Cardinality(Waiting(s, item, n + 1, a.right, x))
  /\ a.peak \in Nat
  /\ \A i \in 1..n : Cardinality(View(s, item, width, i)) <= a.peak
  /\ a.peak = 0 \/ \E i \in 1..n : a.peak = Cardinality(View(s, item, width, i))

\* Images of a finite set are finite.
LEMMA ImageFinite ==
  ASSUME NEW S, IsFiniteSet(S), NEW fn
  PROVE  IsFiniteSet({fn[x] : x \in S}) /\ Cardinality({fn[x] : x \in S}) \in Nat
<1> DEFINE T == {fn[x] : x \in S}
           to == [x \in S |-> fn[x]]
<1>1. to \in [S -> T] /\ \A y \in T : \E x \in S : to[x] = y
  OBVIOUS
<1> HIDE DEF to, T
<1>2. to \in Surjection(S, T)
  BY <1>1, Zenon DEF Surjection
<1>3. IsFiniteSet(T)
  BY <1>2, FS_Surjection, Zenon
<1>4. Cardinality(T) \in Nat
  BY <1>3, FS_CardinalityType
<1> QED BY <1>3, <1>4 DEF T

\* Items between two positions: finite, and added up piece by piece.
LEMMA WaitingFinite ==
  ASSUME NEW s, NEW item, NEW x, NEW lo \in Nat, NEW hi \in Nat
  PROVE  /\ IsFiniteSet(Waiting(s, item, lo, hi, x))
         /\ Cardinality(Waiting(s, item, lo, hi, x)) \in Nat
<1>1. IsFiniteSet(lo..hi)
  BY FS_Interval
<1>2. Waiting(s, item, lo, hi, x) \in SUBSET (lo..hi)
  BY DEF Waiting
<1> QED BY <1>1, <1>2, FS_Subset, FS_CardinalityType

LEMMA WaitingCounted ==
  ASSUME NEW s, NEW item, NEW x, NEW lo \in Nat, NEW mid \in Nat, NEW hi \in Nat,
         lo <= mid + 1, mid <= hi
  PROVE  /\ IsFiniteSet(Waiting(s, item, lo, hi, x))
         /\ Cardinality(Waiting(s, item, lo, hi, x)) \in Nat
         /\ Cardinality(Waiting(s, item, lo, hi, x))
              = Cardinality(Waiting(s, item, lo, mid, x))
                + Cardinality(Waiting(s, item, mid + 1, hi, x))
<1> DEFINE W(i, j) == Waiting(s, item, i, j, x)
<1>1. ASSUME NEW i \in Nat, NEW j \in Nat
      PROVE  IsFiniteSet(W(i, j)) /\ Cardinality(W(i, j)) \in Nat
  BY WaitingFinite
<1>2. W(lo, hi) = W(lo, mid) \union W(mid + 1, hi)
  BY DEF Waiting
<1>3. W(lo, mid) \intersect W(mid + 1, hi) = {}
  BY DEF Waiting
<1>4. mid + 1 \in Nat
  OBVIOUS
<1> HIDE DEF W
<1>5. Cardinality(W(lo, mid) \union W(mid + 1, hi))
        = Cardinality(W(lo, mid)) + Cardinality(W(mid + 1, hi)) - Cardinality({})
  BY <1>1, <1>3, <1>4, FS_Union
<1>6. Cardinality({}) = 0
  BY FS_EmptySet
<1>7. Cardinality(W(lo, hi)) = Cardinality(W(lo, mid)) + Cardinality(W(mid + 1, hi))
  BY <1>1, <1>2, <1>4, <1>5, <1>6
<1>8. IsFiniteSet(W(lo, hi)) /\ Cardinality(W(lo, hi)) \in Nat
  BY <1>1
<1> QED BY <1>7, <1>8 DEF W

\* One more position.
LEMMA SweepStep ==
  ASSUME NEW s, NEW item, NEW width \in Nat, NEW N \in Nat, DOMAIN s = 1..N,
         \A i \in 1..N : s[i].ts \in Int,
         \A i, j \in 1..N : i <= j => s[i].ts <= s[j].ts,
         NEW n \in 1..N, NEW a, SweepInv(s, item, width, a, n - 1)
  PROVE  SweepInv(s, item, width, Advance(s, item, width, a, n), n)
<1> DEFINE Hit == {k \in DOMAIN s : s[k].ts - s[n].ts <= width}
           right == Max({a.right} \union Hit)
           Items == {item[s[k]] : k \in DOMAIN s}
           counts == [x \in DOMAIN a.counts |->
                        a.counts[x]
                        + Cardinality({k \in (a.right + 1)..right : item[s[k]] = x})]
           distinct == Cardinality({x \in DOMAIN counts : counts[x] > 0})
           W(i, j, x) == Waiting(s, item, i, j, x)
<1>0. Cardinality(DOMAIN s) = N
  BY FS_Interval
<1>1. /\ a.right \in Nat /\ n - 1 <= a.right /\ a.right <= N
      /\ n - 1 = 0 => a.right = 0
      /\ n - 1 > 0 => \A k \in 1..N : k <= a.right <=> Reaches(s, width, n - 1, k)
      /\ DOMAIN a.counts = Items
      /\ \A x \in Items : a.counts[x] = Cardinality(W(n, a.right, x))
      /\ a.peak \in Nat
      /\ \A i \in 1..(n - 1) : Cardinality(View(s, item, width, i)) <= a.peak
      /\ \/ a.peak = 0
         \/ \E i \in 1..(n - 1) : a.peak = Cardinality(View(s, item, width, i))
  <2>1. (n - 1) + 1 = n
    OBVIOUS
  <2> QED BY <1>0, <2>1 DEF SweepInv
<1>2. /\ right \in {a.right} \union Hit
      /\ \A k \in {a.right} \union Hit : k <= right
  <2>1. {a.right} \union Hit \in SUBSET (0..N)
    BY <1>1
  <2>2. IsFiniteSet(0..N) /\ 0..N \in SUBSET Int
    <3>1. 0 \in Int /\ N \in Int
      OBVIOUS
    <3>2. IsFiniteSet(0..N)
      BY <3>1, FS_Interval, Zenon
    <3> QED BY <3>2
  <2>3. IsFiniteSet({a.right} \union Hit)
    BY <2>1, <2>2, FS_Subset
  <2> HIDE DEF Hit
  <2>4. PICK m : m = right
    OBVIOUS
  <2>5. m \in {a.right} \union Hit /\ \A k \in {a.right} \union Hit : k <= m
    BY <2>1, <2>2, <2>3, <2>4, GreatestOf
  <2> QED BY <2>4, <2>5
<1>3. n \in Hit
  OBVIOUS
<1> HIDE DEF right
<1>4. right \in Nat /\ n <= right /\ right <= N /\ a.right <= right
  BY <1>1, <1>2, <1>3
<1>5. ASSUME NEW k \in 1..N PROVE k <= right <=> Reaches(s, width, n, k)
  <2>1. Reaches(s, width, n, k) => k <= right
    BY <1>2 DEF Reaches
  <2>2. ASSUME k <= right PROVE Reaches(s, width, n, k)
    <3>1. right \in 1..N /\ right \in Int
      BY <1>4
    <3>2. s[right].ts - s[n].ts <= width
      <4>1. CASE right \in Hit
        BY <4>1
      <4>2. CASE right = a.right
        <5>1. n - 1 > 0 /\ n - 1 \in 1..N
          BY <1>1, <1>4, <4>2
        <5>2. s[right].ts - s[n - 1].ts <= width
          BY <1>1, <3>1, <4>2, <5>1 DEF Reaches
        <5>3. s[n - 1].ts <= s[n].ts
          BY <5>1
        <5>4. s[n - 1].ts \in Int /\ s[n].ts \in Int /\ s[right].ts \in Int
          BY <3>1, <5>1
        <5> QED BY <5>2, <5>3, <5>4
      <4> QED BY <1>2, <4>1, <4>2
    <3>3. s[k].ts <= s[right].ts
      BY <2>2, <3>1
    <3>4. s[k].ts \in Int /\ s[n].ts \in Int /\ s[right].ts \in Int
      BY <3>1
    <3> QED BY <3>2, <3>3, <3>4 DEF Reaches
  <2> QED BY <2>1, <2>2
<1>6. DOMAIN counts = Items
  BY <1>1
<1>7. ASSUME NEW x \in Items
      PROVE  counts[x] = Cardinality(W(n, right, x)) /\ counts[x] \in Nat
  <2>1. counts[x] = Cardinality(W(n, a.right, x)) + Cardinality(W(a.right + 1, right, x))
    BY <1>1 DEF Waiting
  <2>2. n \in Nat /\ n <= a.right + 1
    BY <1>1
  <2>3. /\ Cardinality(W(n, right, x)) \in Nat
        /\ Cardinality(W(n, right, x))
             = Cardinality(W(n, a.right, x)) + Cardinality(W(a.right + 1, right, x))
    BY <1>1, <1>4, <2>2, WaitingCounted
  <2> QED BY <2>1, <2>3
<1> HIDE DEF counts
<1>8. {x \in DOMAIN counts : counts[x] > 0} = View(s, item, width, n)
  <2>1. ASSUME NEW x \in Items PROVE counts[x] > 0 <=> W(n, right, x) # {}
    <3>1. IsFiniteSet(W(n, right, x))
      BY <1>4, WaitingFinite
    <3>2. Cardinality(W(n, right, x)) = 0 <=> W(n, right, x) = {}
      BY <3>1, FS_EmptySet
    <3>3. PICK c \in Nat : c = counts[x]
      BY <1>7
    <3>4. c = Cardinality(W(n, right, x))
      BY <1>7, <3>3
    <3> QED BY <3>2, <3>3, <3>4
  <2>2. \A k \in Nat : (k \in 1..N /\ n <= k /\ Reaches(s, width, n, k)) <=> k \in n..right
    BY <1>4, <1>5
  <2>3. View(s, item, width, n) = {item[s[k]] : k \in n..right}
    BY <2>2 DEF View
  <2>4. \A k \in n..right : item[s[k]] \in Items
    BY <1>4
  <2>5. \A x : x \in {item[s[k]] : k \in n..right} <=> x \in Items /\ W(n, right, x) # {}
    BY <2>4 DEF Waiting
  <2> HIDE DEF Items, W
  <2> QED BY <1>6, <2>1, <2>3, <2>5
<1>9. distinct = Cardinality(View(s, item, width, n)) /\ distinct \in Nat
  <2>1. IsFiniteSet(Items) /\ View(s, item, width, n) \in SUBSET Items
    <3> DEFINE fn == [k \in DOMAIN s |-> item[s[k]]]
    <3>1. Items = {fn[k] : k \in DOMAIN s}
      OBVIOUS
    <3>2. IsFiniteSet(DOMAIN s)
      BY FS_Interval
    <3> HIDE DEF fn, Items
    <3>3. IsFiniteSet(Items)
      BY <3>1, <3>2, ImageFinite
    <3> QED BY <3>3 DEF View, Items
  <2>2. Cardinality(View(s, item, width, n)) \in Nat
    BY <2>1, FS_Subset, FS_CardinalityType
  <2> QED BY <1>8, <2>2
<1> HIDE DEF distinct
<1>10. PICK b : b = Advance(s, item, width, a, n)
  OBVIOUS
<1>11. /\ b.right = right
       /\ b.counts = [counts EXCEPT ![item[s[n]]] = @ - 1]
       /\ b.peak = Max({a.peak, distinct})
  BY <1>10 DEF Advance, right, counts, distinct
<1>12. b.peak \in Nat /\ b.peak \in {a.peak, distinct} /\ b.peak >= a.peak /\ b.peak >= distinct
  <2>0. PICK was \in Int, now \in Int :
          was = a.peak /\ now = distinct /\ was \in Nat /\ now \in Nat
    BY <1>1, <1>9
  <2>1. PICK p : p = Max({was, now})
    OBVIOUS
  <2>2. p \in Int /\ p \in {was, now} /\ p >= was /\ p >= now
    BY <2>1, MoreOf
  <2> QED BY <1>11, <2>0, <2>1, <2>2
<1>13. DOMAIN b.counts = Items
  BY <1>6, <1>11
<1>14. ASSUME NEW x \in Items
       PROVE  b.counts[x] = Cardinality(W(n + 1, right, x))
  <2>1. /\ IsFiniteSet(W(n, right, x))
        /\ Cardinality(W(n, right, x)) = Cardinality(W(n, n, x)) + Cardinality(W(n + 1, right, x))
        /\ Cardinality(W(n + 1, right, x)) \in Nat
    <3>1. n \in Nat /\ n <= n + 1 /\ n + 1 \in Nat
      OBVIOUS
    <3>2. Cardinality(W(n + 1, right, x)) \in Nat /\ IsFiniteSet(W(n, right, x))
      BY <1>4, <3>1, WaitingFinite
    <3>3. Cardinality(W(n, right, x)) = Cardinality(W(n, n, x)) + Cardinality(W(n + 1, right, x))
      BY <1>4, <3>1, WaitingCounted
    <3> QED BY <3>2, <3>3
  <2>2. PICK rest \in Nat : rest = Cardinality(W(n + 1, right, x))
    BY <2>1
  <2>3. PICK c \in Nat : c = counts[x]
    BY <1>7
  <2>4. CASE x = item[s[n]]
    <3>1. W(n, n, x) = {n}
      BY <2>4 DEF Waiting
    <3>2. Cardinality(W(n, n, x)) = 1
      BY <3>1, FS_Singleton
    <3>3. b.counts[x] = c - 1
      BY <1>6, <1>11, <2>3, <2>4
    <3>4. c = 1 + rest
      BY <1>7, <2>1, <2>2, <2>3, <3>2
    <3> QED BY <2>2, <3>3, <3>4
  <2>5. CASE x # item[s[n]]
    <3>1. W(n, n, x) = {}
      BY <2>5 DEF Waiting
    <3>2. Cardinality(W(n, n, x)) = 0
      BY <3>1, FS_EmptySet
    <3>3. b.counts[x] = c
      BY <1>6, <1>11, <2>3, <2>5
    <3>4. c = 0 + rest
      BY <1>7, <2>1, <2>2, <2>3, <3>2
    <3> QED BY <2>2, <3>3, <3>4
  <2> QED BY <2>4, <2>5
<1>15. ASSUME NEW i \in 1..n PROVE Cardinality(View(s, item, width, i)) <= b.peak
  <2>1. CASE i = n
    BY <1>9, <1>12, <2>1
  <2>2. CASE i # n
    <3>1. i \in 1..(n - 1)
      BY <2>2
    <3>2. Cardinality(View(s, item, width, i)) <= a.peak
      BY <1>1, <3>1
    <3>3. Cardinality(View(s, item, width, i)) \in Nat
      <4> DEFINE fn == [k \in DOMAIN s |-> item[s[k]]]
                 K == {j \in DOMAIN s : i <= j /\ Reaches(s, width, i, j)}
      <4>1. View(s, item, width, i) = {fn[k] : k \in K}
        BY DEF View
      <4>2. IsFiniteSet(K)
        <5>1. IsFiniteSet(DOMAIN s) /\ K \in SUBSET (DOMAIN s)
          BY FS_Interval
        <5> QED BY <5>1, FS_Subset
      <4> HIDE DEF fn, K
      <4> QED BY <4>1, <4>2, ImageFinite
    <3> QED BY <1>1, <1>12, <3>2, <3>3
  <2> QED BY <2>1, <2>2
<1>16. b.peak = 0 \/ \E i \in 1..n : b.peak = Cardinality(View(s, item, width, i))
  <2>1. CASE b.peak = distinct
    BY <1>9, <2>1
  <2>2. CASE b.peak = a.peak
    BY <1>1, <2>2
  <2> QED BY <1>12, <2>1, <2>2
<1>17. /\ b.right \in Nat /\ n <= b.right /\ b.right <= Cardinality(DOMAIN s)
       /\ n # 0
       /\ \A k \in DOMAIN s : k <= b.right <=> Reaches(s, width, n, k)
  BY <1>0, <1>4, <1>5, <1>11
<1>18. \A x \in DOMAIN b.counts :
         b.counts[x] = Cardinality(Waiting(s, item, n + 1, b.right, x))
  BY <1>11, <1>13, <1>14
<1> HIDE DEF W
<1> QED BY <1>10, <1>12, <1>13, <1>15, <1>16, <1>17, <1>18 DEF SweepInv

\* Where it starts: nothing counted yet, no window left behind.
LEMMA SweepStarts ==
  ASSUME NEW s, NEW item, NEW width, Cardinality(DOMAIN s) \in Nat,
         NEW a, a.right = 0, a.peak = 0,
         DOMAIN a.counts = {item[s[k]] : k \in DOMAIN s},
         \A x \in DOMAIN a.counts : a.counts[x] = 0
  PROVE  SweepInv(s, item, width, a, 0)
<1>2. ASSUME NEW x PROVE Cardinality(Waiting(s, item, 0 + 1, 0, x)) = 0
  <2>1. Waiting(s, item, 0 + 1, 0, x) = {}
    BY DEF Waiting
  <2> QED BY <2>1, FS_EmptySet
<1>4. \A x \in DOMAIN a.counts :
        a.counts[x] = Cardinality(Waiting(s, item, 0 + 1, 0, x))
  BY <1>2
<1>5. \A i \in 1..0 : Cardinality(View(s, item, width, i)) <= a.peak
  OBVIOUS
<1> QED BY <1>4, <1>5 DEF SweepInv

\* All positions, one after the other.
LEMMA SweepRuns ==
  ASSUME NEW s, NEW item, NEW width \in Nat, NEW N \in Nat, DOMAIN s = 1..N,
         \A i \in 1..N : s[i].ts \in Int,
         \A i, j \in 1..N : i <= j => s[i].ts <= s[j].ts,
         NEW now, SweepInv(s, item, width, now[0], 0),
         \A n \in 1..N : now[n] = Advance(s, item, width, now[n - 1], n)
  PROVE  SweepInv(s, item, width, now[N], N)
<1> DEFINE Bad == {n \in 0..N : ~SweepInv(s, item, width, now[n], n)}
<1>1. ASSUME Bad # {} PROVE FALSE
  <2>1. PICK n \in Bad : \A m \in Bad : n <= m
    <3>1. Bad \in SUBSET Nat
      OBVIOUS
    <3> HIDE DEF Bad
    <3> QED BY <1>1, <3>1, LeastOf
  <2>2. n \in 0..N /\ n # 0
    OBVIOUS
  <2>3. n \in 1..N /\ n - 1 \in 0..N /\ ~(n <= n - 1)
    BY <2>2
  <2>4. n - 1 \notin Bad
    <3> HIDE DEF Bad
    <3> QED BY <2>1, <2>3
  <2>5. PICK was : was = now[n - 1]
    OBVIOUS
  <2>6. SweepInv(s, item, width, was, n - 1)
    BY <2>3, <2>4, <2>5
  <2>7. SweepInv(s, item, width, Advance(s, item, width, was, n), n)
    BY <2>3, <2>6, SweepStep
  <2>8. now[n] = Advance(s, item, width, was, n)
    BY <2>3, <2>5
  <2> QED BY <2>7, <2>8
<1> QED BY <1>1

LEMMA SweepHolds ==
  ASSUME NEW F, Stamped(F), NEW item, NEW width \in Nat,
         NEW s, s = InTime(F), NEW N, N = Cardinality(F)
  PROVE  SweepInv(s, item, width, Upto(s, item, width, SweepStart(F, item), N), N)
<1>1. /\ N \in Nat /\ DOMAIN s = 1..N
      /\ \A i \in 1..N : s[i] \in F /\ s[i].ts \in Int
      /\ \A f \in F : \E i \in 1..N : s[i] = f
      /\ \A i, j \in 1..N : i <= j => s[i].ts <= s[j].ts
  BY Sorted
<1>2. PICK start : start = SweepStart(F, item)
  OBVIOUS
<1>3. SweepInv(s, item, width, start, 0)
  <2>1. start.right = 0 /\ start.peak = 0 /\ start.counts = [x \in {item[f] : f \in F} |-> 0]
    BY <1>2 DEF SweepStart
  <2>2. {item[f] : f \in F} = {item[s[k]] : k \in DOMAIN s}
    BY <1>1
  <2>3. DOMAIN start.counts = {item[s[k]] : k \in DOMAIN s}
    BY <2>1, <2>2
  <2>4. \A x \in DOMAIN start.counts : start.counts[x] = 0
    BY <2>1
  <2>5. Cardinality(DOMAIN s) \in Nat
    <3>1. 1 \in Int /\ N \in Int
      BY <1>1
    <3>2. IsFiniteSet(1..N)
      BY <3>1, FS_Interval, Zenon
    <3>3. IsFiniteSet(DOMAIN s)
      BY <1>1, <3>2
    <3> QED BY <3>3, FS_CardinalityType
  <2> QED BY <2>1, <2>3, <2>4, <2>5, SweepStarts
<1>4. /\ Upto(s, item, width, start, 0) = start
      /\ \A n \in 1..N :
           Upto(s, item, width, start, n)
             = Advance(s, item, width, Upto(s, item, width, start, n - 1), n)
  BY <1>1, SweepAdvances
<1> DEFINE now == [n \in 0..N |-> Upto(s, item, width, start, n)]
<1>5. now[0] = start /\ now[N] = Upto(s, item, width, start, N)
  BY <1>1, <1>4
<1>6. \A n \in 1..N : now[n] = Advance(s, item, width, now[n - 1], n)
  <2> SUFFICES ASSUME NEW n \in 1..N
               PROVE  now[n] = Advance(s, item, width, now[n - 1], n)
    OBVIOUS
  <2>1. n \in 0..N /\ n - 1 \in 0..N
    BY <1>1
  <2>2. now[n] = Upto(s, item, width, start, n) /\ now[n - 1] = Upto(s, item, width, start, n - 1)
    BY <2>1
  <2> HIDE DEF now
  <2> QED BY <1>4, <2>2
<1> HIDE DEF now
<1>7. SweepInv(s, item, width, now[0], 0)
  BY <1>3, <1>5
<1>8. SweepInv(s, item, width, now[N], N)
  BY <1>1, <1>6, <1>7, SweepRuns
<1> QED BY <1>2, <1>5, <1>8

\* For every finite set of frames, whatever they show and in whatever order,
\* the sweep finds the largest number of distinct items that any window of
\* this width holds.
THEOREM SweepIsExact ==
  ASSUME NEW F, Stamped(F), NEW item, NEW width \in Nat
  PROVE  SlidingPeak(F, item, width) = PeakOf(F, item, width)
<1>1. PICK s, N : s = InTime(F) /\ N = Cardinality(F)
  OBVIOUS
<1>2. /\ N \in Nat /\ DOMAIN s = 1..N
      /\ \A i \in 1..N : s[i] \in F /\ s[i].ts \in Int
      /\ \A f \in F : \E i \in 1..N : s[i] = f
      /\ \A i, j \in 1..N : i <= j => s[i].ts <= s[j].ts
  BY <1>1, Sorted
<1> DEFINE Window(f) == {item[g] : g \in {h \in F : h.ts \in f.ts..(f.ts + width)}}
           V(i) == View(s, item, width, i)
           peaks == {0} \union {Cardinality(Window(f)) : f \in F}
<1>3. PICK a : a = Upto(s, item, width, SweepStart(F, item), N)
  OBVIOUS
<1>4. SweepInv(s, item, width, a, N)
  BY <1>1, <1>3, SweepHolds
<1>5. SlidingPeak(F, item, width) = a.peak
  BY <1>1, <1>2, <1>3, SweepUnfolds DEF Upto
<1>6. /\ a.peak \in Nat
      /\ \A i \in 1..N : Cardinality(V(i)) <= a.peak
      /\ a.peak = 0 \/ \E i \in 1..N : a.peak = Cardinality(V(i))
  BY <1>4 DEF SweepInv
<1>7. ASSUME NEW f \in F PROVE IsFiniteSet(Window(f)) /\ Cardinality(Window(f)) \in Nat
  <2>1. IsFiniteSet({h \in F : h.ts \in f.ts..(f.ts + width)})
    <3>1. {h \in F : h.ts \in f.ts..(f.ts + width)} \in SUBSET F
      OBVIOUS
    <3> QED BY <3>1, FS_Subset DEF Stamped
  <2> QED BY <2>1, ImageFinite
<1>8. ASSUME NEW i \in 1..N PROVE V(i) \subseteq Window(s[i])
  <2> SUFFICES ASSUME NEW j \in 1..N, i <= j, Reaches(s, width, i, j)
               PROVE  item[s[j]] \in Window(s[i])
    BY <1>2 DEF View
  <2>1. /\ s[i].ts \in Int /\ s[j].ts \in Int /\ s[j] \in F
        /\ s[i].ts <= s[j].ts /\ s[j].ts - s[i].ts <= width
    BY <1>2 DEF Reaches
  <2>2. s[j].ts \in s[i].ts..(s[i].ts + width)
    BY <2>1
  <2> QED BY <2>1, <2>2
<1>9. ASSUME NEW f \in F PROVE \E i \in 1..N : Window(f) \subseteq V(i)
  <2> DEFINE Same == {i \in 1..N : s[i].ts = f.ts}
  <2>1. PICK i \in Same : \A j \in Same : i <= j
    <3>1. Same \in SUBSET Nat /\ Same # {}
      BY <1>2
    <3> HIDE DEF Same
    <3> QED BY <3>1, LeastOf
  <2>2. ASSUME NEW g \in F, g.ts \in f.ts..(f.ts + width) PROVE item[g] \in V(i)
    <3>1. PICK j \in 1..N : s[j] = g
      BY <1>2
    <3>2. f.ts \in Int /\ g.ts \in Int /\ s[i].ts = f.ts
      BY <2>1 DEF Stamped
    <3>3. Reaches(s, width, i, j)
      BY <2>2, <3>1, <3>2 DEF Reaches
    <3>4. i <= j
      <4>1. CASE g.ts = f.ts
        BY <2>1, <3>1, <4>1
      <4>2. CASE g.ts # f.ts
        <5>1. ~(s[j].ts <= s[i].ts)
          BY <2>2, <3>1, <3>2, <4>2
        <5>2. i \in 1..N /\ ~(j <= i)
          BY <1>2, <2>1, <5>1
        <5> QED BY <5>2
      <4> QED BY <4>1, <4>2
    <3> QED BY <1>2, <3>1, <3>3, <3>4 DEF View
  <2>3. i \in 1..N /\ Window(f) \subseteq V(i)
    BY <2>1, <2>2
  <2> QED BY <2>3
<1>10. ASSUME NEW i \in 1..N
       PROVE  IsFiniteSet(V(i)) /\ Cardinality(V(i)) <= Cardinality(Window(s[i]))
  <2>1. s[i] \in F
    BY <1>2
  <2>2. V(i) \in SUBSET Window(s[i]) /\ IsFiniteSet(Window(s[i]))
    BY <1>7, <1>8, <2>1
  <2> HIDE DEF V, Window
  <2> QED BY <2>2, FS_Subset
<1>11. ASSUME NEW f \in F PROVE Cardinality(Window(f)) <= a.peak
  <2>1. PICK i \in 1..N : Window(f) \subseteq V(i)
    BY <1>9
  <2>2. IsFiniteSet(V(i)) /\ Cardinality(V(i)) \in Nat
    BY <1>10, FS_CardinalityType
  <2>3. Cardinality(Window(f)) <= Cardinality(V(i))
    <3> HIDE DEF V, Window
    <3> QED BY <2>1, <2>2, FS_Subset
  <2> QED BY <1>6, <1>7, <2>2, <2>3
<1> HIDE DEF Window, V
<1>12. a.peak \in peaks
  <2>1. CASE a.peak = 0
    BY <2>1
  <2>2. ASSUME NEW i \in 1..N, a.peak = Cardinality(V(i)) PROVE a.peak \in peaks
    <3>1. s[i] \in F
      BY <1>2
    <3>2. /\ Cardinality(Window(s[i])) \in Nat
          /\ Cardinality(Window(s[i])) <= a.peak
          /\ a.peak <= Cardinality(Window(s[i]))
      BY <1>7, <1>10, <1>11, <2>2, <3>1
    <3>3. a.peak = Cardinality(Window(s[i]))
      BY <1>6, <3>2
    <3> QED BY <3>1, <3>3
  <2> QED BY <1>6, <2>1, <2>2
<1>13. peaks \in SUBSET Int /\ \A n \in peaks : n <= a.peak
  BY <1>6, <1>7, <1>11
<1>14. Max(peaks) = a.peak
  <2> HIDE DEF peaks
  <2> QED BY <1>12, <1>13, MaxIs
<1>15. PeakOf(F, item, width) = Max(peaks)
  BY DEF PeakOf, Window
<1> QED BY <1>5, <1>14, <1>15

\* Captures: stamps are numbers and no two frames have the same number.
FramesAssumption ==
  \A t \in Themes : /\ \A f \in Capture[t] : f.ts \in Int /\ f.id \in Int
                    /\ \A f, g \in Capture[t] : f.id = g.id => f = g

\* The widths of windows are numbers of seconds.
WindowsAssumption ==
  /\ Threshold.port_scan_time_window \in Nat
  /\ Threshold.arp_discovery_time_window \in Nat
  /\ Threshold.ping_sweep_time_window \in Nat

\* What the detectors of bursts observe has been read.
ObservedInv ==
  /\ det.port_scan.syns \subseteq seen
  /\ det.arp_discovery \subseteq seen
  /\ det.ping_sweep.pings \subseteq seen

\* The sweeps of the port-scan, ARP-discovery and ping-sweep detectors count
\* exactly, for any capture in any order and any windows.
THEOREM WindowsCountExactly ==
  ASSUME CutAssumption, FramesAssumption, WindowsAssumption
  PROVE  Spec => []WindowedCountsExact
<1>1. ASSUME Init PROVE ObservedInv
  BY <1>1 DEF Init, Fresh, ObservedInv, PortScanInit, ArpDiscoveryInit, PingSweepInit
<1>2. ASSUME ObservedInv, [Next]_vars PROVE ObservedInv'
  <2>1. ASSUME NEW f, NEW deaf, Receive(f, deaf) PROVE ObservedInv'
    <3>1. /\ seen' = seen \union {f}
          /\ det'.port_scan \in {det.port_scan, PortScanUpdate(det.port_scan, f)}
          /\ det'.arp_discovery
               \in {det.arp_discovery, ArpDiscoveryUpdate(det.arp_discovery, f)}
          /\ det'.ping_sweep \in {det.ping_sweep, PingSweepUpdate(det.ping_sweep, f)}
      BY <2>1, ReceiveFeeds DEF Receive
    <3>2. PortScanUpdate(det.port_scan, f).syns \subseteq det.port_scan.syns \union {f}
      BY DEF PortScanUpdate
    <3>3. ArpDiscoveryUpdate(det.arp_discovery, f) \subseteq det.arp_discovery \union {f}
      BY DEF ArpDiscoveryUpdate, Keep
    <3>4. PingSweepUpdate(det.ping_sweep, f).pings \subseteq det.ping_sweep.pings \union {f}
      BY DEF PingSweepUpdate, Keep
    <3> QED BY <1>2, <3>1, <3>2, <3>3, <3>4 DEF ObservedInv
  <2>2. ASSUME NEW failed, Finish(failed) PROVE ObservedInv'
    BY <1>2, <2>2 DEF Finish, ObservedInv
  <2>3. ASSUME UNCHANGED vars PROVE ObservedInv'
    BY <1>2, <2>3 DEF vars, ObservedInv
  <2> QED BY <1>2, <2>1, <2>2, <2>3 DEF Next
<1>3. ASSUME CutAssumption, FramesAssumption, WindowsAssumption, ReadInv, ObservedInv
      PROVE  WindowedCountsExact
  <2>1. ASSUME NEW F \in SUBSET seen PROVE Stamped(F)
    BY <1>3, FS_Subset DEF FramesAssumption, ReadInv, Stamped
  <2>2. ASSUME NEW F \in SUBSET seen, NEW item, NEW width \in Nat
        PROVE  SlidingPeak(F, item, width) = PeakOf(F, item, width)
    BY <2>1, <2>2, SweepIsExact
  <2>3. ASSUME NEW f \in det.port_scan.syns,
               NEW F, F = {g \in det.port_scan.syns : g.src = f.src /\ g.dst = f.dst}
        PROVE  SlidingPeak(F, [g \in F |-> g.dport], Threshold.port_scan_time_window)
                 = PeakOf(F, [g \in F |-> g.dport], Threshold.port_scan_time_window)
    BY <1>3, <2>2, <2>3 DEF ObservedInv, WindowsAssumption
  <2>4. ASSUME NEW f \in det.arp_discovery,
               NEW F, F = {g \in det.arp_discovery : g.src = f.src}
        PROVE  SlidingPeak(F, [g \in F |-> g.dst], Threshold.arp_discovery_time_window)
                 = PeakOf(F, [g \in F |-> g.dst], Threshold.arp_discovery_time_window)
    BY <1>3, <2>2, <2>4 DEF ObservedInv, WindowsAssumption
  <2>5. ASSUME NEW f \in det.ping_sweep.pings,
               NEW F, F = {g \in det.ping_sweep.pings : g.src = f.src}
        PROVE  SlidingPeak(F, [g \in F |-> g.dst], Threshold.ping_sweep_time_window)
                 = PeakOf(F, [g \in F |-> g.dst], Threshold.ping_sweep_time_window)
    BY <1>3, <2>2, <2>5 DEF ObservedInv, WindowsAssumption
  <2> QED BY <2>3, <2>4, <2>5 DEF WindowedCountsExact
<1> QED BY <1>1, <1>2, <1>3, ReadInvariant, PTL DEF Spec

-----------------------------------------------------------------------------
(* Who an address belongs to *)

\* What build_hosts listens to: a machine, an address and how the frame ties
\* the two; group MACs and addresses of no host are passed over.
Sources == {"arp", "ndp", "dhcp", "l2"}

Tells(f) ==
  CASE f.proto = "arp" -> {<<f.mac, f.src, "arp">>}
    [] f.proto = "na"  -> {<<f.mac, f.target, "ndp">>}
    [] f.proto = "ns"  -> {<<f.mac, f.src, "ndp">>}
    [] OTHER ->
         (IF f.proto = "dhcp" THEN {<<f.client, f.ciaddr, "dhcp">>} ELSE {})
         \union (IF f.proto = "dhcp" /\ f.ack THEN {<<f.client, f.yiaddr, "dhcp">>} ELSE {})
         \union (IF HasField(f, "mac") /\ IsV4(f) THEN {<<f.mac, f.src, "l2">>} ELSE {})

Told(F) == UNION {Tells(f) : f \in F}

Accepted(mac, ip) == ~(mac \in GroupMacs \/ ip = NoHost \/ Scope[ip] = "none")

\* The pairs that a capture can bind, and room for all of them.
Bindable(F) == {<<k[1], k[2]>> : k \in {q \in Told(F) : Accepted(q[1], q[2])}}

RoomForBindings ==
  /\ MaxBindings \in Nat
  /\ \A t \in Themes : /\ IsFiniteSet(Bindable(Capture[t]))
                       /\ Cardinality(Bindable(Capture[t])) <= MaxBindings

Noted(P) == [mac : {p[1] : p \in P}, ip : {p[2] : p \in P}, first : Int, last : Int,
             sources : SUBSET Sources]

\* The table of bindings is what was told: each pair once, with the ways it
\* was told, and nothing that was not.
Tracks(s, told, P) ==
  /\ s \in Seq(Noted(P))
  /\ \A i, j \in DOMAIN s : s[i].mac = s[j].mac /\ s[i].ip = s[j].ip => i = j
  /\ \A i \in DOMAIN s : <<s[i].mac, s[i].ip>> \in P /\ Accepted(s[i].mac, s[i].ip)
  /\ \A t \in told : Accepted(t[1], t[2]) =>
        \E i \in DOMAIN s : s[i].mac = t[1] /\ s[i].ip = t[2] /\ t[3] \in s[i].sources
  /\ \A i \in DOMAIN s : \A k \in s[i].sources : <<s[i].mac, s[i].ip, k>> \in told

\* A pair that is not in the table finds room.
LEMMA BindingFits ==
  ASSUME NEW P, IsFiniteSet(P), NEW told, NEW s, Tracks(s, told, P),
         NEW mac, NEW ip, <<mac, ip>> \in P,
         ~\E i \in DOMAIN s : s[i].mac = mac /\ s[i].ip = ip
  PROVE  Len(s) < Cardinality(P)
<1> DEFINE at == [i \in DOMAIN s |-> <<s[i].mac, s[i].ip>>]
           Rest == P \ {<<mac, ip>>}
<1>1. /\ s \in Seq(Noted(P))
      /\ \A i, j \in DOMAIN s : s[i].mac = s[j].mac /\ s[i].ip = s[j].ip => i = j
      /\ \A i \in DOMAIN s : <<s[i].mac, s[i].ip>> \in P
  BY DEF Tracks
<1>2. Len(s) \in Nat /\ DOMAIN s = 1..Len(s)
  BY <1>1
<1>3. at \in Injection(DOMAIN s, Rest)
  <2>1. at \in [DOMAIN s -> Rest]
    BY <1>1
  <2>2. ASSUME NEW i \in DOMAIN s, NEW j \in DOMAIN s, at[i] = at[j] PROVE i = j
    BY <1>1, <2>2
  <2> HIDE DEF at, Rest
  <2> QED BY <2>1, <2>2, Zenon DEF Injection, IsInjective
<1>4. /\ IsFiniteSet(Rest)
      /\ Cardinality(Rest) = Cardinality(P) - 1
      /\ Cardinality(P) \in Nat
  BY FS_RemoveElement, FS_CardinalityType
<1>5. Cardinality(DOMAIN s) <= Cardinality(Rest)
  <2> HIDE DEF at, Rest
  <2> QED BY <1>3, <1>4, FS_Injection, Zenon
<1>6. Cardinality(DOMAIN s) = Len(s)
  <2>1. PICK n \in Nat : n = Len(s)
    BY <1>2
  <2>2. Cardinality(1..n) = IF 1 > n THEN 0 ELSE n - 1 + 1
    <3>1. 1 \in Int /\ n \in Int
      OBVIOUS
    <3> QED BY <3>1, FS_Interval, Zenon
  <2>3. Cardinality(1..n) = n
    BY <2>2
  <2> QED BY <1>2, <2>1, <2>3
<1> QED BY <1>2, <1>4, <1>5, <1>6

\* One thing told: noted if it is acceptable.
LEMMA ObserveTracks ==
  ASSUME NEW P, IsFiniteSet(P), MaxBindings \in Nat, Cardinality(P) <= MaxBindings,
         NEW told, NEW s, Tracks(s, told, P),
         NEW mac, NEW ip, NEW source \in Sources, NEW ts \in Int,
         Accepted(mac, ip) => <<mac, ip>> \in P,
         NEW also, also = told \union {<<mac, ip, source>>}
  PROVE  Tracks(Observe(s, mac, ip, source, ts), also, P)
<1> DEFINE at == {i \in DOMAIN s : s[i].mac = mac /\ s[i].ip = ip}
<1>1. /\ s \in Seq(Noted(P)) /\ Len(s) \in Nat /\ DOMAIN s = 1..Len(s)
      /\ \A i, j \in DOMAIN s : s[i].mac = s[j].mac /\ s[i].ip = s[j].ip => i = j
      /\ \A i \in DOMAIN s : <<s[i].mac, s[i].ip>> \in P /\ Accepted(s[i].mac, s[i].ip)
      /\ \A t \in told : Accepted(t[1], t[2]) =>
            \E i \in DOMAIN s : s[i].mac = t[1] /\ s[i].ip = t[2] /\ t[3] \in s[i].sources
      /\ \A i \in DOMAIN s : \A k \in s[i].sources : <<s[i].mac, s[i].ip, k>> \in told
  BY DEF Tracks
<1>2. PICK new : new = Observe(s, mac, ip, source, ts)
  OBVIOUS
<1>3. CASE ~Accepted(mac, ip)
  <2>1. new = s
    BY <1>2, <1>3 DEF Observe, Accepted
  <2>2. \A t \in also : Accepted(t[1], t[2]) => t \in told
    BY <1>3
  <2> QED BY <1>1, <1>2, <2>1, <2>2 DEF Tracks
<1>4. CASE Accepted(mac, ip) /\ at # {}
  <2>1. PICK n \in at : TRUE
    BY <1>4
  <2>2. at = {n}
    BY <1>1, <2>1
  <2>3. Min(at) = n
    BY <1>1, <2>2 DEF Min
  <2>4. n \in DOMAIN s /\ s[n].mac = mac /\ s[n].ip = ip /\ s[n] \in Noted(P)
    BY <1>1, <2>1
  <2>5. PICK lo \in Int, hi \in Int : lo = Min({s[n].first, ts}) /\ hi = Max({s[n].last, ts})
    <3>1. PICK a \in Int, b \in Int : a = s[n].first /\ b = s[n].last
      BY <2>4 DEF Noted
    <3>2. Min({a, ts}) \in Int
      BY LessOf
    <3>3. Max({b, ts}) \in Int
      BY MoreOf
    <3> QED BY <3>1, <3>2, <3>3
  <2>6. PICK e : e = [s[n] EXCEPT !.sources = @ \union {source},
                                  !.first = Min({@, ts}), !.last = Max({@, ts})]
    OBVIOUS
  <2>7. /\ e.mac = mac /\ e.ip = ip /\ e.sources = s[n].sources \union {source}
        /\ e \in Noted(P)
    BY <2>4, <2>5, <2>6 DEF Noted
  <2>8. new = [s EXCEPT ![n] = e]
    <3> DEFINE Noting(i) == [s EXCEPT ![i] = [s[i] EXCEPT !.sources = @ \union {source},
                                                          !.first = Min({@, ts}),
                                                          !.last = Max({@, ts})]]
    <3>1. new = Noting(Min(at))
      <4>1. ~(mac \in GroupMacs \/ ip = NoHost \/ Scope[ip] = "none") /\ at # {}
        BY <1>4 DEF Accepted
      <4> QED BY <1>2, <4>1, Zenon DEF Observe
    <3>2. Noting(n) = [s EXCEPT ![n] = e]
      BY <2>6, Zenon
    <3> HIDE DEF at, Noting
    <3> QED BY <2>3, <3>1, <3>2
  <2>9. /\ new \in Seq(Noted(P)) /\ DOMAIN new = DOMAIN s
        /\ new[n] = e /\ \A i \in DOMAIN s : i # n => new[i] = s[i]
    BY <1>1, <2>4, <2>7, <2>8
  <2>10. \A i \in DOMAIN s : /\ new[i].mac = s[i].mac /\ new[i].ip = s[i].ip
                             /\ s[i].sources \subseteq new[i].sources
    BY <2>4, <2>7, <2>9
  <2>11. ASSUME NEW t \in also, Accepted(t[1], t[2])
         PROVE  \E i \in DOMAIN new :
                  new[i].mac = t[1] /\ new[i].ip = t[2] /\ t[3] \in new[i].sources
    <3>1. CASE t \in told
      <4>1. PICK i \in DOMAIN s : s[i].mac = t[1] /\ s[i].ip = t[2] /\ t[3] \in s[i].sources
        BY <1>1, <2>11, <3>1
      <4>2. new[i].mac = t[1] /\ new[i].ip = t[2] /\ t[3] \in new[i].sources
        BY <2>10, <4>1
      <4> QED BY <2>9, <4>2
    <3>2. CASE t = <<mac, ip, source>>
      <4>1. new[n].mac = t[1] /\ new[n].ip = t[2] /\ t[3] \in new[n].sources
        BY <2>7, <2>9, <3>2
      <4> QED BY <2>4, <2>9, <4>1
    <3> QED BY <3>1, <3>2
  <2>12. ASSUME NEW i \in DOMAIN new, NEW k \in new[i].sources
         PROVE  <<new[i].mac, new[i].ip, k>> \in also
    <3>1. CASE i = n
      BY <1>1, <2>4, <2>7, <2>9, <3>1
    <3>2. CASE i # n
      BY <1>1, <2>9, <3>2
    <3> QED BY <3>1, <3>2
  <2>13. \A i, j \in DOMAIN new : new[i].mac = new[j].mac /\ new[i].ip = new[j].ip => i = j
    BY <1>1, <2>9, <2>10
  <2>14. \A i \in DOMAIN new : <<new[i].mac, new[i].ip>> \in P /\ Accepted(new[i].mac, new[i].ip)
    BY <1>1, <2>9, <2>10
  <2> QED BY <1>2, <2>9, <2>11, <2>12, <2>13, <2>14 DEF Tracks
<1>5. CASE Accepted(mac, ip) /\ at = {}
  <2>1. Len(s) < Cardinality(P)
    BY <1>5, BindingFits
  <2>2. Cardinality(P) \in Nat
    BY FS_CardinalityType
  <2>3. ~(Len(s) >= MaxBindings)
    BY <1>1, <2>1, <2>2
  <2>4. PICK e : e = [mac |-> mac, ip |-> ip, first |-> ts, last |-> ts, sources |-> {source}]
    OBVIOUS
  <2>5. e.mac = mac /\ e.ip = ip /\ e.sources = {source} /\ e \in Noted(P)
    <3>1. <<mac, ip>>[1] = mac /\ <<mac, ip>>[2] = ip
      OBVIOUS
    <3> QED BY <1>5, <2>4, <3>1 DEF Noted
  <2>6. new = Append(s, e)
    BY <1>2, <1>5, <2>3, <2>4 DEF Observe, Accepted
  <2>7. /\ new \in Seq(Noted(P)) /\ DOMAIN new = 1..(Len(s) + 1)
        /\ new[Len(s) + 1] = e
        /\ \A i \in DOMAIN s : new[i] = s[i]
    BY <1>1, <2>5, <2>6
  <2>8. DOMAIN new = DOMAIN s \union {Len(s) + 1} /\ Len(s) + 1 \notin DOMAIN s
    BY <1>1, <2>7
  <2>9. \A i \in DOMAIN s : ~(s[i].mac = mac /\ s[i].ip = ip)
    BY <1>5
  <2>10. ASSUME NEW t \in also, Accepted(t[1], t[2])
         PROVE  \E i \in DOMAIN new :
                  new[i].mac = t[1] /\ new[i].ip = t[2] /\ t[3] \in new[i].sources
    <3>1. CASE t \in told
      <4>1. PICK i \in DOMAIN s : s[i].mac = t[1] /\ s[i].ip = t[2] /\ t[3] \in s[i].sources
        BY <1>1, <2>10, <3>1
      <4> QED BY <2>7, <2>8, <4>1
    <3>2. CASE t = <<mac, ip, source>>
      BY <2>5, <2>7, <2>8, <3>2
    <3> QED BY <3>1, <3>2
  <2>11. ASSUME NEW i \in DOMAIN new, NEW k \in new[i].sources
         PROVE  <<new[i].mac, new[i].ip, k>> \in also
    <3>1. CASE i \in DOMAIN s
      BY <1>1, <2>7, <3>1
    <3>2. CASE i = Len(s) + 1
      BY <2>5, <2>7, <3>2
    <3> QED BY <2>8, <3>1, <3>2
  <2>12. ASSUME NEW i \in DOMAIN new, NEW j \in DOMAIN new,
                new[i].mac = new[j].mac /\ new[i].ip = new[j].ip
         PROVE  i = j
    <3>1. CASE i \in DOMAIN s /\ j \in DOMAIN s
      BY <1>1, <2>7, <2>12, <3>1
    <3>2. CASE i = Len(s) + 1 /\ j \in DOMAIN s
      BY <2>5, <2>7, <2>9, <2>12, <3>2
    <3>3. CASE i \in DOMAIN s /\ j = Len(s) + 1
      BY <2>5, <2>7, <2>9, <2>12, <3>3
    <3> QED BY <2>8, <3>1, <3>2, <3>3
  <2>13. ASSUME NEW i \in DOMAIN new
         PROVE  <<new[i].mac, new[i].ip>> \in P /\ Accepted(new[i].mac, new[i].ip)
    <3>1. CASE i \in DOMAIN s
      BY <1>1, <2>7, <3>1
    <3>2. CASE i = Len(s) + 1
      BY <1>5, <2>5, <2>7, <3>2
    <3> QED BY <2>8, <3>1, <3>2
  <2> QED BY <1>2, <2>7, <2>10, <2>11, <2>12, <2>13 DEF Tracks
<1> QED BY <1>3, <1>4, <1>5

\* What a whole frame tells.
LEMMA UpdateTracks ==
  ASSUME NEW P, IsFiniteSet(P), MaxBindings \in Nat, Cardinality(P) <= MaxBindings,
         NEW told, NEW s, Tracks(s, told, P), NEW f, f.ts \in Int,
         \A k \in Tells(f) : Accepted(k[1], k[2]) => <<k[1], k[2]>> \in P
  PROVE  Tracks(HostsUpdate(s, f), told \union Tells(f), P)
<1>1. ASSUME NEW old, NEW r, Tracks(r, old, P),
             NEW mac, NEW ip, NEW source \in Sources, <<mac, ip, source>> \in Tells(f)
      PROVE  Tracks(Observe(r, mac, ip, source, f.ts), old \union {<<mac, ip, source>>}, P)
  <2>1. Accepted(mac, ip) => <<mac, ip>> \in P
    <3>1. PICK k : k = <<mac, ip, source>>
      OBVIOUS
    <3>2. k \in Tells(f) /\ k[1] = mac /\ k[2] = ip
      BY <1>1, <3>1
    <3> QED BY <3>2
  <2> QED BY <1>1, <2>1, ObserveTracks
<1>2. "arp" \in Sources /\ "ndp" \in Sources /\ "dhcp" \in Sources /\ "l2" \in Sources
  BY DEF Sources
<1>3. CASE f.proto = "arp"
  <2>1. Tells(f) = {<<f.mac, f.src, "arp">>}
    BY <1>3 DEF Tells
  <2>2. HostsUpdate(s, f) = Observe(s, f.mac, f.src, "arp", f.ts)
    BY <1>3 DEF HostsUpdate
  <2> QED BY <1>1, <1>2, <2>1, <2>2
<1>4. CASE f.proto = "na"
  <2>1. Tells(f) = {<<f.mac, f.target, "ndp">>}
    BY <1>4 DEF Tells
  <2>2. HostsUpdate(s, f) = Observe(s, f.mac, f.target, "ndp", f.ts)
    BY <1>4 DEF HostsUpdate
  <2> QED BY <1>1, <1>2, <2>1, <2>2
<1>5. CASE f.proto = "ns"
  <2>1. Tells(f) = {<<f.mac, f.src, "ndp">>}
    BY <1>5 DEF Tells
  <2>2. HostsUpdate(s, f) = Observe(s, f.mac, f.src, "ndp", f.ts)
    BY <1>5 DEF HostsUpdate
  <2> QED BY <1>1, <1>2, <2>1, <2>2
<1>6. CASE f.proto \notin {"arp", "na", "ns"}
  <2> DEFINE asks == IF f.proto = "dhcp" THEN {<<f.client, f.ciaddr, "dhcp">>} ELSE {}
             leases == IF f.proto = "dhcp" /\ f.ack THEN {<<f.client, f.yiaddr, "dhcp">>} ELSE {}
             sends == IF HasField(f, "mac") /\ IsV4(f) THEN {<<f.mac, f.src, "l2">>} ELSE {}
  <2>1. Tells(f) = (asks \union leases) \union sends
    BY <1>6 DEF Tells
  <2>2. PICK stated : stated = IF f.proto = "dhcp" THEN ObserveDhcp(s, f) ELSE s
    OBVIOUS
  <2>3. HostsUpdate(s, f) = IF HasField(f, "mac") /\ IsV4(f)
                            THEN Observe(stated, f.mac, f.src, "l2", f.ts) ELSE stated
    BY <1>6, <2>2 DEF HostsUpdate
  <2>4. Tracks(stated, told \union (asks \union leases), P)
    <3>1. CASE f.proto # "dhcp"
      <4>1. asks = {} /\ leases = {} /\ stated = s
        BY <2>2, <3>1
      <4>2. told \union (asks \union leases) = told
        BY <4>1
      <4> QED BY <4>1, <4>2
    <3>2. CASE f.proto = "dhcp"
      <4>1. PICK said : said = Observe(s, f.client, f.ciaddr, "dhcp", f.ts)
        OBVIOUS
      <4>2. asks = {<<f.client, f.ciaddr, "dhcp">>}
        BY <3>2
      <4>3. Tracks(said, told \union asks, P)
        BY <1>1, <1>2, <2>1, <4>1, <4>2
      <4>4. stated = IF f.ack THEN Observe(said, f.client, f.yiaddr, "dhcp", f.ts) ELSE said
        BY <2>2, <3>2, <4>1 DEF ObserveDhcp
      <4>5. CASE ~f.ack
        <5>1. told \union (asks \union leases) = told \union asks
          BY <4>5
        <5> QED BY <4>3, <4>4, <4>5, <5>1
      <4>6. CASE f.ack
        <5>1. leases = {<<f.client, f.yiaddr, "dhcp">>}
          BY <3>2, <4>6
        <5>2. <<f.client, f.yiaddr, "dhcp">> \in Tells(f)
          BY <2>1, <5>1
        <5>3. told \union (asks \union leases)
                = (told \union asks) \union {<<f.client, f.yiaddr, "dhcp">>}
          BY <5>1
        <5> HIDE DEF asks, leases
        <5>4. Tracks(Observe(said, f.client, f.yiaddr, "dhcp", f.ts),
                     (told \union asks) \union {<<f.client, f.yiaddr, "dhcp">>}, P)
          BY <1>1, <1>2, <4>3, <5>2
        <5> QED BY <4>4, <4>6, <5>3, <5>4
      <4> QED BY <4>5, <4>6
    <3> QED BY <3>1, <3>2
  <2>5. CASE ~(HasField(f, "mac") /\ IsV4(f))
    <3>1. told \union Tells(f) = told \union (asks \union leases)
      BY <2>1, <2>5
    <3> QED BY <2>3, <2>4, <2>5, <3>1
  <2>6. CASE HasField(f, "mac") /\ IsV4(f)
    <3>1. sends = {<<f.mac, f.src, "l2">>}
      BY <2>6
    <3>2. <<f.mac, f.src, "l2">> \in Tells(f)
      BY <2>1, <3>1
    <3>3. told \union Tells(f)
            = (told \union (asks \union leases)) \union {<<f.mac, f.src, "l2">>}
      BY <2>1, <3>1
    <3> HIDE DEF asks, leases, sends
    <3>4. Tracks(Observe(stated, f.mac, f.src, "l2", f.ts),
                 (told \union (asks \union leases)) \union {<<f.mac, f.src, "l2">>}, P)
      BY <1>1, <1>2, <2>4, <3>2
    <3> QED BY <2>3, <2>6, <3>3, <3>4
  <2> QED BY <2>5, <2>6
<1> QED BY <1>3, <1>4, <1>5, <1>6

\* The bindings are those of the frames read.
HostsInv == Tracks(det.hosts, Told(seen), Bindable(Capture[theme]))

\* build_hosts knows every pair that the frames read so far told, and how, as
\* long as MAX_BINDINGS is not reached and the aggregator misses no frame.
THEOREM HostsInvariant ==
  ASSUME CutAssumption, FramesAssumption, RoomForBindings, Attentive({"hosts"})
  PROVE  Spec => []HostsInv
<1>1. ASSUME Init PROVE HostsInv
  <2>1. det.hosts = << >> /\ seen = {}
    BY <1>1 DEF Init, Fresh, HostsInit
  <2>2. Told({}) = {}
    BY DEF Told
  <2>3. << >> \in Seq(Noted(Bindable(Capture[theme]))) /\ DOMAIN << >> = {}
    OBVIOUS
  <2> QED BY <2>1, <2>2, <2>3 DEF HostsInv, Tracks
<1>2. ASSUME ReadInv, HostsInv, [Next]_vars PROVE HostsInv'
  <2>1. ASSUME NEW f \in Capture[theme], NEW deaf \in SUBSET Deaf, Receive(f, deaf)
        PROVE  HostsInv'
    <3>1. PICK P : P = Bindable(Capture[theme])
      OBVIOUS
    <3>2. theme \in Themes /\ theme' = theme /\ seen' = seen \union {f}
      BY <1>2, <2>1 DEF ReadInv, Receive
    <3>3. IsFiniteSet(P) /\ MaxBindings \in Nat /\ Cardinality(P) <= MaxBindings
      BY <3>1, <3>2 DEF RoomForBindings
    <3>4. f.ts \in Int
      BY <3>2 DEF FramesAssumption
    <3>5. \A k \in Tells(f) : Accepted(k[1], k[2]) => <<k[1], k[2]>> \in P
      <4>1. \A k \in Tells(f) : k \in Told(Capture[theme])
        BY DEF Told
      <4> QED BY <3>1, <4>1 DEF Bindable
    <3>6. PICK s, told : s = det.hosts /\ told = Told(seen)
      OBVIOUS
    <3>7. Tracks(s, told, P)
      BY <1>2, <3>1, <3>6 DEF HostsInv
    <3>8. Tracks(HostsUpdate(s, f), told \union Tells(f), P)
      BY <3>3, <3>4, <3>5, <3>7, UpdateTracks
    <3>9. Told(seen') = told \union Tells(f)
      BY <3>2, <3>6 DEF Told
    <3>10. det'.hosts = HostsUpdate(s, f)
      BY <2>1, <3>6, AttentiveHear
    <3>11. Bindable(Capture[theme'])  = P
      BY <3>1, <3>2
    <3> QED BY <3>8, <3>9, <3>10, <3>11 DEF HostsInv
  <2>2. ASSUME NEW failed \in SUBSET Faulty, Finish(failed) PROVE HostsInv'
    BY <1>2, <2>2 DEF HostsInv, Finish
  <2>3. CASE UNCHANGED vars
    BY <1>2, <2>3 DEF HostsInv, vars
  <2> QED BY <1>2, <2>1, <2>2, <2>3 DEF Next
<1> QED BY <1>1, <1>2, ReadInvariant, PTL DEF Spec

\* Of some bindings one outranks all others: those a machine stated come
\* first, among them the latest, among those the one met first.
LEMMA WinnerExists ==
  ASSUME NEW s, NEW N \in Nat, DOMAIN s = 1..N, \A i \in 1..N : s[i].last \in Int,
         NEW R \in SUBSET (1..N), R # {}
  PROVE  \E i \in R : \A j \in R \ {i} : Outranks(s[i], i, s[j], j)
<1>1. PICK T \in SUBSET R : /\ T # {}
                            /\ \A i \in T, j \in R : Stated(s[j]) => Stated(s[i])
                            /\ \A i \in T, j \in R \ T : Stated(s[i]) /\ ~Stated(s[j])
  <2>1. CASE \E i \in R : Stated(s[i])
    <3> DEFINE S == {i \in R : Stated(s[i])}
    <3>1. /\ S \in SUBSET R /\ S # {}
          /\ \A i \in S, j \in R : Stated(s[j]) => Stated(s[i])
          /\ \A i \in S, j \in R \ S : Stated(s[i]) /\ ~Stated(s[j])
      BY <2>1
    <3> HIDE DEF S
    <3> QED BY <3>1
  <2>2. CASE ~\E i \in R : Stated(s[i])
    <3>1. /\ R \in SUBSET R /\ R # {} /\ R \ R = {}
          /\ \A i \in R, j \in R : Stated(s[j]) => Stated(s[i])
      BY <2>2
    <3> QED BY <3>1
  <2> QED BY <2>1, <2>2
<1> DEFINE fn == [i \in 1..N |-> s[i].last]
           Lasts == {fn[i] : i \in T}
<1>2. PICK m : m = Max(Lasts)
  OBVIOUS
<1>3. m \in Lasts /\ \A n \in Lasts : n <= m
  <2>1. Lasts \in SUBSET Int /\ Lasts # {}
    BY <1>1
  <2>2. IsFiniteSet(T)
    <3>1. IsFiniteSet(1..N)
      <4>1. 1 \in Int /\ N \in Int
        OBVIOUS
      <4> QED BY <4>1, FS_Interval, Zenon
    <3>2. T \in SUBSET (1..N)
      BY <1>1
    <3> QED BY <3>1, <3>2, FS_Subset
  <2>3. IsFiniteSet(Lasts)
    <3> HIDE DEF fn
    <3> QED BY <2>2, ImageFinite
  <2> HIDE DEF Lasts
  <2> QED BY <1>2, <2>1, <2>3, GreatestOf
<1>4. m \in Int /\ \A i \in T : s[i].last <= m
  BY <1>1, <1>3
<1> DEFINE Latest == {i \in T : s[i].last = m}
<1>5. PICK i \in Latest : \A j \in Latest : i <= j
  <2>0. ASSUME NEW i \in T PROVE i \in Nat /\ fn[i] = s[i].last
    <3> HIDE DEF Lasts, Latest
    <3>1. i \in 1..N
      BY <1>1
    <3> QED BY <3>1
  <2>1. PICK i \in T : m = fn[i]
    <3> HIDE DEF fn
    <3> QED BY <1>3
  <2>2. Latest \in SUBSET Nat
    BY <2>0
  <2>3. i \in Latest
    BY <2>0, <2>1
  <2> HIDE DEF Latest
  <2> QED BY <2>2, <2>3, LeastOf
<1>6. ASSUME NEW j \in R \ {i} PROVE Outranks(s[i], i, s[j], j)
  <2>0. i \in T /\ i \in 1..N /\ j \in 1..N /\ s[i].last = m
    BY <1>1, <1>5
  <2>1. CASE j \notin T
    BY <1>1, <2>0, <2>1 DEF Outranks
  <2>2. CASE j \in T
    <3>1. Stated(s[i]) <=> Stated(s[j])
      BY <1>1, <2>0, <2>2
    <3>2. Stated(s[i]) = Stated(s[j])
      BY <3>1 DEF Stated
    <3>3. s[j].last <= m /\ s[j].last \in Int
      BY <1>4, <2>0, <2>2
    <3>4. CASE s[j].last = m
      <4>1. i <= j /\ i # j
        BY <1>5, <2>2, <3>4
      <4>2. i < j
        BY <2>0, <4>1
      <4> QED BY <2>0, <3>2, <3>4, <4>2 DEF Outranks
    <3>5. CASE s[j].last # m
      <4>1. s[i].last > s[j].last
        BY <1>4, <2>0, <3>3, <3>5
      <4> QED BY <3>2, <4>1 DEF Outranks
    <3> QED BY <3>4, <3>5
  <2> QED BY <2>1, <2>2
<1> QED BY <1>5, <1>6

\* The owner of an address is a candidate that outranks the others.
LEMMA OwnerWins ==
  ASSUME NEW s, NEW N \in Nat, DOMAIN s = 1..N, \A i \in 1..N : s[i].last \in Int,
         NEW ip \in DOMAIN Owner(s)
  PROVE  \E w \in Candidates(s) :
           /\ s[w].ip = ip /\ Owner(s)[ip] = s[w]
           /\ \A j \in Candidates(s) : s[j].ip = ip /\ j # w => Outranks(s[w], w, s[j], j)
<1> DEFINE rivals == {i \in Candidates(s) : s[i].ip = ip}
           best == CHOOSE i \in rivals : \A j \in rivals \ {i} : Outranks(s[i], i, s[j], j)
<1>1. DOMAIN Owner(s) = {s[i].ip : i \in Candidates(s)}
  BY DEF Owner
<1>2. ip \in {s[i].ip : i \in Candidates(s)}
  BY <1>1
<1>3. Owner(s)[ip] = s[best]
  BY <1>2 DEF Owner
<1>4. rivals \in SUBSET (1..N) /\ rivals # {}
  BY <1>2 DEF Candidates
<1>5. best \in rivals /\ \A j \in rivals \ {best} : Outranks(s[best], best, s[j], j)
  <2> HIDE DEF rivals
  <2>1. \E i \in rivals : \A j \in rivals \ {i} : Outranks(s[i], i, s[j], j)
    BY <1>4, WinnerExists
  <2> QED BY <2>1
<1> HIDE DEF best
<1> QED BY <1>3, <1>5

\* What machines state of themselves is what the authoritative bindings hold.
LEMMA StatedIsTold ==
  ASSUME NEW mac, NEW ip
  PROVE  mac \in StatedBy(ip) <=> \E k \in Authoritative : <<mac, ip, k>> \in Told(seen)
<1>1. ASSUME mac \in StatedBy(ip)
      PROVE  \E k \in Authoritative : <<mac, ip, k>> \in Told(seen)
  <2>1. ASSUME NEW f \in seen, f.proto = "arp", f.src = ip, mac = f.mac
        PROVE  \E k \in Authoritative : <<mac, ip, k>> \in Told(seen)
    <3>1. <<mac, ip, "arp">> \in Tells(f)
      BY <2>1 DEF Tells
    <3> QED BY <3>1 DEF Told, Authoritative
  <2>2. ASSUME NEW f \in seen, f.proto = "na", f.target = ip, mac = f.mac
        PROVE  \E k \in Authoritative : <<mac, ip, k>> \in Told(seen)
    <3>1. <<mac, ip, "ndp">> \in Tells(f)
      BY <2>2 DEF Tells
    <3> QED BY <3>1 DEF Told, Authoritative
  <2>3. ASSUME NEW f \in seen, f.proto = "ns", f.src = ip, mac = f.mac
        PROVE  \E k \in Authoritative : <<mac, ip, k>> \in Told(seen)
    <3>1. <<mac, ip, "ndp">> \in Tells(f)
      BY <2>3 DEF Tells
    <3> QED BY <3>1 DEF Told, Authoritative
  <2>4. ASSUME NEW f \in seen, f.proto = "dhcp", f.ciaddr = ip \/ (f.ack /\ f.yiaddr = ip),
               mac = f.client
        PROVE  \E k \in Authoritative : <<mac, ip, k>> \in Told(seen)
    <3>1. <<mac, ip, "dhcp">> \in Tells(f)
      BY <2>4 DEF Tells
    <3> QED BY <3>1 DEF Told, Authoritative
  <2> QED BY <1>1, <2>1, <2>2, <2>3, <2>4 DEF StatedBy
<1>2. ASSUME NEW k \in Authoritative, NEW f \in seen, <<mac, ip, k>> \in Tells(f)
      PROVE  mac \in StatedBy(ip)
  <2>1. CASE f.proto = "arp"
    <3>1. <<mac, ip, k>> = <<f.mac, f.src, "arp">>
      BY <1>2, <2>1 DEF Tells
    <3> QED BY <2>1, <3>1 DEF StatedBy
  <2>2. CASE f.proto = "na"
    <3>1. <<mac, ip, k>> = <<f.mac, f.target, "ndp">>
      BY <1>2, <2>2 DEF Tells
    <3> QED BY <2>2, <3>1 DEF StatedBy
  <2>3. CASE f.proto = "ns"
    <3>1. <<mac, ip, k>> = <<f.mac, f.src, "ndp">>
      BY <1>2, <2>3 DEF Tells
    <3> QED BY <2>3, <3>1 DEF StatedBy
  <2>4. CASE f.proto \notin {"arp", "na", "ns"}
    <3>1. k # "l2"
      BY DEF Authoritative
    <3>2. \/ f.proto = "dhcp" /\ <<mac, ip, k>> = <<f.client, f.ciaddr, "dhcp">>
          \/ f.proto = "dhcp" /\ f.ack /\ <<mac, ip, k>> = <<f.client, f.yiaddr, "dhcp">>
          \/ <<mac, ip, k>> = <<f.mac, f.src, "l2">>
      BY <1>2, <2>4 DEF Tells
    <3>3. f.proto = "dhcp" /\ mac = f.client /\ (f.ciaddr = ip \/ (f.ack /\ f.yiaddr = ip))
      BY <3>1, <3>2
    <3> QED BY <3>3 DEF StatedBy
  <2> QED BY <2>1, <2>2, <2>3, <2>4
<1>3. ASSUME NEW k \in Authoritative, <<mac, ip, k>> \in Told(seen)
      PROVE  mac \in StatedBy(ip)
  BY <1>2, <1>3 DEF Told
<1> QED BY <1>1, <1>3

\* Whoever states an address as its own is not passed over for who does not.
LEMMA OwnersAreEntitled ==
  ASSUME HostsInv, NEW ip \in DOMAIN Owner(det.hosts),
         NEW m \in StatedBy(ip) \ GroupMacs, <<m, ip>> \notin Excluded
  PROVE  /\ Owner(det.hosts)[ip].mac \in StatedBy(ip) \ GroupMacs
         /\ <<Owner(det.hosts)[ip].mac, ip>> \notin Excluded
<1>1. PICK s, told, P : s = det.hosts /\ told = Told(seen) /\ P = Bindable(Capture[theme])
  OBVIOUS
<1>2. Tracks(s, told, P)
  BY <1>1 DEF HostsInv
<1>3. /\ s \in Seq(Noted(P)) /\ Len(s) \in Nat /\ DOMAIN s = 1..Len(s)
      /\ \A i \in DOMAIN s : Accepted(s[i].mac, s[i].ip)
      /\ \A t \in told : Accepted(t[1], t[2]) =>
            \E i \in DOMAIN s : s[i].mac = t[1] /\ s[i].ip = t[2] /\ t[3] \in s[i].sources
      /\ \A i \in DOMAIN s : \A k \in s[i].sources : <<s[i].mac, s[i].ip, k>> \in told
  <2>1. s \in Seq(Noted(P))
    BY <1>2 DEF Tracks
  <2>2. Len(s) \in Nat /\ DOMAIN s = 1..Len(s)
    BY <2>1
  <2>3. \A i \in DOMAIN s : Accepted(s[i].mac, s[i].ip)
    BY <1>2 DEF Tracks
  <2>4. \A t \in told : Accepted(t[1], t[2]) =>
          \E i \in DOMAIN s : s[i].mac = t[1] /\ s[i].ip = t[2] /\ t[3] \in s[i].sources
    BY <1>2 DEF Tracks
  <2>5. \A i \in DOMAIN s : \A k \in s[i].sources : <<s[i].mac, s[i].ip, k>> \in told
    BY <1>2 DEF Tracks
  <2> QED BY <2>1, <2>2, <2>3, <2>4, <2>5
<1>4. \A i \in 1..Len(s) : s[i].last \in Int
  <2>1. \A i \in 1..Len(s) : s[i] \in Noted(P)
    BY <1>3
  <2> QED BY <2>1 DEF Noted
<1>5. PICK w \in Candidates(s) :
        /\ s[w].ip = ip /\ Owner(s)[ip] = s[w]
        /\ \A j \in Candidates(s) : s[j].ip = ip /\ j # w => Outranks(s[w], w, s[j], j)
  BY <1>1, <1>3, <1>4, OwnerWins
<1>6. w \in DOMAIN s /\ <<s[w].mac, s[w].ip>> \notin Excluded /\ Scope[ip] # "v4_public"
  BY <1>5 DEF Candidates
<1>7. PICK i \in DOMAIN s : s[i].mac = m /\ s[i].ip = ip /\ Stated(s[i])
  <2>1. PICK k \in Authoritative : <<m, ip, k>> \in told
    BY <1>1, StatedIsTold
  <2>2. Accepted(m, ip)
    <3>1. Accepted(s[w].mac, ip)
      BY <1>3, <1>5, <1>6
    <3> QED BY <3>1 DEF Accepted
  <2>3. PICK t : t = <<m, ip, k>>
    OBVIOUS
  <2>4. t \in told /\ t[1] = m /\ t[2] = ip /\ t[3] = k
    BY <2>1, <2>3
  <2>5. PICK i \in DOMAIN s : s[i].mac = m /\ s[i].ip = ip /\ k \in s[i].sources
    BY <1>3, <2>2, <2>4
  <2> QED BY <2>5 DEF Stated
<1>8. i \in Candidates(s)
  BY <1>6, <1>7 DEF Candidates
<1>9. Stated(s[w])
  <2>1. CASE i = w
    BY <1>7, <2>1
  <2>2. CASE i # w
    <3>1. Outranks(s[w], w, s[i], i)
      BY <1>5, <1>7, <1>8, <2>2
    <3> QED BY <1>7, <3>1 DEF Outranks
  <2> QED BY <2>1, <2>2
<1>10. s[w].mac \in StatedBy(ip)
  <2>1. PICK k \in Authoritative : k \in s[w].sources
    BY <1>9 DEF Stated
  <2>2. <<s[w].mac, ip, k>> \in Told(seen)
    BY <1>1, <1>3, <1>5, <1>6, <2>1
  <2> QED BY <2>2, StatedIsTold
<1>11. s[w].mac \notin GroupMacs
  BY <1>3, <1>6 DEF Accepted
<1> QED BY <1>1, <1>5, <1>6, <1>10, <1>11

\* The bindings made by hand, applied in turn: a function from sets of their
\* positions.
AutoBound(owner) == [ip \in DOMAIN owner |-> [key |-> owner[ip].mac, binding |-> "auto"]]

Places(g, owner) ==
  g = [r \in SUBSET (DOMAIN Bindings) |->
         IF r = {} THEN AutoBound(owner)
         ELSE BindByHand(owner, g[r \ {Max(r)}], Bindings[Max(r)])]

Placing(owner) == CHOOSE g : Places(g, owner)

LEMMA PlacedUnfolds ==
  ASSUME NEW owner PROVE PlacedHosts(owner) = Placing(owner)[DOMAIN Bindings]
  BY DEF PlacedHosts, FoldLeft, MapThenFoldSet, Placing, Places, AutoBound

\* The user's bindings are a sequence; an address is bound to one machine
\* (bind_host_ip deletes the other bindings of the address), and a MAC given
\* with a binding is that of the machine (host_key and mac_address of a row).
HandsAssumption ==
  /\ Len(Bindings) \in Nat /\ DOMAIN Bindings = 1..Len(Bindings)
  /\ \A i, j \in DOMAIN Bindings : Bindings[i].ip = Bindings[j].ip => i = j
  /\ \A i \in DOMAIN Bindings :
        MacOf(Bindings[i].key) # NoHost =>
          Bindings[i].mac \in {NoHost, MacOf(Bindings[i].key)}

\* It is a function: there are finitely many bindings.
LEMMA PlacingPlaces ==
  ASSUME NEW owner, NEW N \in Nat, DOMAIN Bindings = 1..N
  PROVE  Places(Placing(owner), owner)
<1> DEFINE S == 1..N
           Step(g, r) == IF r = {} THEN AutoBound(owner)
                         ELSE BindByHand(owner, g[r \ {Max(r)}], Bindings[Max(r)])
           Small(n) == {r \in SUBSET S : Cardinality(r) <= n}
           Good(n, g) == \A r \in Small(n) : g[r] = Step(g, r)
           Bad == {n \in Nat : ~\E g : Good(n, g)}
<1>0. IsFiniteSet(S) /\ S \in SUBSET Int
  BY FS_Interval
<1>1. \A r \in SUBSET S : /\ IsFiniteSet(r)
                          /\ Cardinality(r) \in Nat
                          /\ Cardinality(r) <= Cardinality(S)
  BY <1>0, FS_Subset, FS_CardinalityType
<1>2. \A r \in SUBSET S : r # {} => /\ Max(r) \in r
                                    /\ r \ {Max(r)} \in SUBSET S
                                    /\ Cardinality(r \ {Max(r)}) = Cardinality(r) - 1
  <2> SUFFICES ASSUME NEW r \in SUBSET S, r # {}
               PROVE  /\ Max(r) \in r
                      /\ Cardinality(r \ {Max(r)}) = Cardinality(r) - 1
    OBVIOUS
  <2>1. r \in SUBSET Int /\ IsFiniteSet(r)
    BY <1>0, <1>1
  <2>2. Max(r) \in r
    BY <2>1, GreatestOf
  <2> QED BY <2>1, <2>2, FS_RemoveElement
<1>3. Bad = {}
  <2> SUFFICES ASSUME Bad # {} PROVE FALSE
    OBVIOUS
  <2>1. PICK n \in Bad : \A m \in Bad : n <= m
    BY LeastOf
  <2>2. CASE n = 0
    <3>1. \A r \in Small(0) : r = {}
      BY <1>1, FS_EmptySet
    <3>2. Good(0, [r \in SUBSET S |-> AutoBound(owner)])
      BY <3>1
    <3> QED BY <2>1, <2>2, <3>2
  <2>3. CASE n # 0
    <3>1. n \in Nat /\ n - 1 \in Nat
      BY <2>1, <2>3
    <3>2. n - 1 \notin Bad
      <4> HIDE DEF Bad
      <4> QED BY <2>1, <3>1
    <3>3. PICK g : Good(n - 1, g)
      BY <3>1, <3>2
    <3> DEFINE h == [r \in SUBSET S |-> Step(g, r)]
    <3>4. \A r \in Small(n - 1) : h[r] = g[r]
      BY <3>3
    <3>5. ASSUME NEW r \in Small(n), r # {} PROVE r \ {Max(r)} \in Small(n - 1)
      <4> HIDE DEF S
      <4>1. r \in SUBSET S /\ Cardinality(r) <= n
        OBVIOUS
      <4>2. /\ r \ {Max(r)} \in SUBSET S
            /\ Cardinality(r \ {Max(r)}) = Cardinality(r) - 1
        BY <1>2, <3>5, <4>1
      <4>3. Cardinality(r) \in Nat /\ n \in Nat
        BY <1>1, <2>1, <4>1
      <4>4. Cardinality(r \ {Max(r)}) <= n - 1
        BY <4>1, <4>2, <4>3
      <4> QED BY <4>2, <4>4
    <3>6. ASSUME NEW r \in Small(n) PROVE h[r] = Step(h, r)
      <4>1. h[r] = Step(g, r)
        OBVIOUS
      <4>2. CASE r = {}
        BY <4>1, <4>2
      <4>3. CASE r # {}
        BY <3>4, <3>5, <4>1, <4>3
      <4> QED BY <4>2, <4>3
    <3>7. Good(n, h)
      BY <3>6
    <3> QED BY <2>1, <3>7
  <2> QED BY <2>2, <2>3
<1>4. PICK g : Good(Cardinality(S), g)
  <2>1. Cardinality(S) \in Nat
    BY <1>1
  <2> QED BY <1>3, <2>1
<1>5. \A r \in SUBSET S : g[r] = Step(g, r)
  BY <1>1, <1>4
<1>6. Places([r \in SUBSET S |-> g[r]], owner)
  <2> DEFINE f == [r \in SUBSET S |-> g[r]]
  <2>1. \A r \in SUBSET S : f[r] = Step(f, r)
    BY <1>2, <1>5
  <2>2. f = [r \in SUBSET S |->
               IF r = {} THEN AutoBound(owner)
               ELSE BindByHand(owner, f[r \ {Max(r)}], Bindings[Max(r)])]
    BY <2>1
  <2> HIDE DEF f
  <2> QED BY <2>2 DEF f, Places
<1> QED BY <1>6 DEF Placing

\* An address that the capture shows stays where it shows it, unless some
\* binding made by hand is not contradicted.
Stays(owner, hosts, r) ==
  \A ip \in DOMAIN owner :
    /\ ip \in DOMAIN hosts
    /\ (\A i \in r : Bindings[i].ip = ip => Contradicts(owner, Bindings[i]))
         => hosts[ip].key = owner[ip].mac

LEMMA HandsKeep ==
  ASSUME NEW owner, NEW N \in Nat, DOMAIN Bindings = 1..N
  PROVE  Stays(owner, PlacedHosts(owner), DOMAIN Bindings)
<1> DEFINE g == Placing(owner)
           Bad == {r \in SUBSET (1..N) : ~Stays(owner, g[r], r)}
<1>1. Places(g, owner)
  BY PlacingPlaces
<1>2. IsFiniteSet(1..N) /\ 1..N \in SUBSET Int
  BY FS_Interval
<1> HIDE DEF g
<1>3. ASSUME Bad # {} PROVE FALSE
  <2>1. PICK r \in Bad : IsFiniteSet(r) /\ \A x \in r : r \ {x} \notin Bad
    <3>1. Bad \in SUBSET (SUBSET (1..N))
      OBVIOUS
    <3> HIDE DEF Bad
    <3> QED BY <1>2, <1>3, <3>1, SmallestOf
  <2>2. r \in SUBSET (1..N)
    OBVIOUS
  <2>3. g[r] = IF r = {} THEN AutoBound(owner)
               ELSE BindByHand(owner, g[r \ {Max(r)}], Bindings[Max(r)])
    BY <1>1, <2>2 DEF Places
  <2>4. CASE r = {}
    <3>1. Stays(owner, AutoBound(owner), {})
      BY DEF Stays, AutoBound
    <3> QED BY <2>3, <2>4, <3>1
  <2>5. CASE r # {}
    <3>1. PICK x : x = Max(r)
      OBVIOUS
    <3>2. x \in r
      <4>1. r \in SUBSET Int
        BY <1>2, <2>2
      <4> QED BY <2>1, <2>5, <3>1, <4>1, GreatestOf
    <3>3. PICK old, m : old = g[r \ {x}] /\ m = Bindings[x]
      OBVIOUS
    <3>4. Stays(owner, old, r \ {x})
      BY <2>1, <2>2, <3>2, <3>3
    <3>5. g[r] = BindByHand(owner, old, m)
      BY <2>3, <2>5, <3>1, <3>3
    <3>6. ASSUME NEW ip \in DOMAIN owner
          PROVE  /\ ip \in DOMAIN g[r]
                 /\ (\A i \in r : Bindings[i].ip = ip => Contradicts(owner, Bindings[i]))
                      => g[r][ip].key = owner[ip].mac
      <4>1. /\ ip \in DOMAIN old
            /\ (\A i \in r : Bindings[i].ip = ip => Contradicts(owner, Bindings[i]))
                 => old[ip].key = owner[ip].mac
        BY <3>4 DEF Stays
      <4>2. CASE Contradicts(owner, m)
        BY <3>5, <4>1, <4>2 DEF BindByHand
      <4>3. CASE ~Contradicts(owner, m)
        <5>1. g[r] = Upsert(old, m.ip, [key |-> m.key, binding |-> "manual"])
          BY <3>5, <4>3 DEF BindByHand
        <5>2. /\ ip \in DOMAIN g[r]
              /\ ip # m.ip => g[r][ip] = old[ip]
          BY <4>1, <5>1 DEF Upsert
        <5>3. ip = m.ip =>
                ~(\A i \in r : Bindings[i].ip = ip => Contradicts(owner, Bindings[i]))
          BY <3>2, <3>3, <4>3
        <5> QED BY <4>1, <5>2, <5>3
      <4> QED BY <4>2, <4>3
    <3> QED BY <3>6 DEF Stays
  <2> QED BY <2>4, <2>5
<1>4. Stays(owner, g[1..N], 1..N)
  BY <1>3
<1>5. PlacedHosts(owner) = g[1..N]
  BY PlacedUnfolds DEF g
<1> QED BY <1>4, <1>5

\* An address that machines state as their own is attributed to one of them,
\* never to whoever relayed its packets, and a binding made by hand does not
\* move an address that the capture shows on another machine: for any capture
\* that leaves room in the table and of which the aggregator misses no frame,
\* and any bindings.
THEOREM OwnersAreRight ==
  ASSUME CutAssumption, FramesAssumption, RoomForBindings, HandsAssumption,
         Attentive({"hosts"})
  PROVE  Spec => []HostIdentitySound
<1>1. ASSUME HandsAssumption, HostsInv PROVE HostIdentitySound
  <2>1. PICK owner : owner = Owner(det.hosts)
    OBVIOUS
  <2>2. PICK hostOf : hostOf = BuildHosts(det.hosts).host
    OBVIOUS
  <2>3. ASSUME NEW ip \in DOMAIN owner,
               NEW m \in StatedBy(ip) \ GroupMacs, <<m, ip>> \notin Excluded
        PROVE  owner[ip].mac \in {k \in StatedBy(ip) \ GroupMacs : <<k, ip>> \notin Excluded}
    BY <1>1, <2>1, <2>3, OwnersAreEntitled
  <2>4. ASSUME NEW m \in ToSet(Bindings), m.ip \in DOMAIN owner,
               owner[m.ip].mac # MacOf(m.key), MacOf(m.key) # NoHost
        PROVE  hostOf[m.ip] = owner[m.ip].mac
    <3>1. PICK N \in Nat : DOMAIN Bindings = 1..N
      BY <1>1 DEF HandsAssumption
    <3>2. PICK n \in DOMAIN Bindings : m = Bindings[n]
      BY DEF ToSet
    <3>3. Contradicts(owner, m)
      <4>1. m.mac \in {NoHost, MacOf(m.key)}
        BY <1>1, <2>4, <3>2 DEF HandsAssumption
      <4> QED BY <2>4, <4>1 DEF Contradicts
    <3>4. \A i \in DOMAIN Bindings : Bindings[i].ip = m.ip => Bindings[i] = m
      BY <1>1, <3>2 DEF HandsAssumption
    <3>5. PICK placed : placed = PlacedHosts(owner)
      OBVIOUS
    <3>6. Stays(owner, placed, DOMAIN Bindings)
      BY <3>1, <3>5, HandsKeep
    <3>7. m.ip \in DOMAIN placed /\ placed[m.ip].key = owner[m.ip].mac
      BY <2>4, <3>3, <3>4, <3>6 DEF Stays
    <3>8. hostOf = [ip \in DOMAIN placed |-> placed[ip].key]
      BY <2>1, <2>2, <3>5 DEF BuildHosts, Resolved, HostTable
    <3> QED BY <3>7, <3>8
  <2>5. OwnersEntitled(owner, hostOf)
    BY <2>3, <2>4 DEF OwnersEntitled
  <2> QED BY <2>1, <2>2, <2>5 DEF HostIdentitySound
<1> QED BY <1>1, HostsInvariant, PTL

-----------------------------------------------------------------------------
(* Alerts that stand *)

\* b says of the same matter at least what a says.
AsSevere(b, a) == SameMatter(a, b) /\ Rank(b.sev) >= Rank(a.sev)

\* Every alert of A is still there in B, at least as severe.
Stands(A, B) == \A a \in A : \E b \in B : AsSevere(b, a)

\* Two kinds of alerts that stand, stand together.
LEMMA StandTogether ==
  ASSUME NEW A, NEW B, NEW C, NEW D, Stands(A, C), Stands(B, D)
  PROVE  Stands(A \union B, C \union D)
  BY DEF Stands

\* The ladder of severities, rung by rung.
LEMMA Ranks ==
  /\ Rank("info") = 1 /\ Rank("low") = 2 /\ Rank("medium") = 3
  /\ Rank("high") = 4 /\ Rank("critical") = 5
<1>1. DOMAIN Ladder = 1..5
  BY DEF Ladder
<1>2. \A i \in 1..5 : /\ (Ladder[i] = "info") <=> (i = 1)
                      /\ (Ladder[i] = "low") <=> (i = 2)
                      /\ (Ladder[i] = "medium") <=> (i = 3)
                      /\ (Ladder[i] = "high") <=> (i = 4)
                      /\ (Ladder[i] = "critical") <=> (i = 5)
  BY DEF Ladder
<1> QED BY <1>1, <1>2 DEF Rank

\* An alert stands when its severity does not go down, whatever its count.
LEMMA OneStands ==
  ASSUME NEW rule, NEW x, NEW y, NEW src, NEW dst, NEW about, NEW n, NEW m,
         Rank(y) >= Rank(x)
  PROVE  AsSevere(Alert(rule, y, src, dst, about, m), Alert(rule, x, src, dst, about, n))
<1> DEFINE a == Alert(rule, x, src, dst, about, n)
           b == Alert(rule, y, src, dst, about, m)
<1>1. SameMatter(a, b)
  BY DEF SameMatter, Alert
<1>2. a.sev = x /\ b.sev = y
  BY DEF Alert
<1> QED BY <1>1, <1>2 DEF AsSevere

\* More of something is not less.
LEMMA CountGrows ==
  ASSUME NEW T, IsFiniteSet(T), NEW S, S \subseteq T
  PROVE  /\ Cardinality(S) \in Nat /\ Cardinality(T) \in Nat
         /\ Cardinality(S) <= Cardinality(T)
  BY FS_Subset, FS_CardinalityType

\* The names under a key are counted, and more names are no fewer.
LEMMA NamesGrow ==
  ASSUME NEW T, IsFiniteSet(T), NEW S, S \subseteq T, NEW key
  PROVE  /\ Cardinality(NamesUnder(S, key)) \in Nat
         /\ Cardinality(NamesUnder(T, key)) \in Nat
         /\ Cardinality(NamesUnder(S, key)) <= Cardinality(NamesUnder(T, key))
<1>1. NamesUnder(S, key) \subseteq NamesUnder(T, key) /\ NamesUnder(T, key) \subseteq T
  BY DEF NamesUnder
<1> QED BY <1>1, FS_Subset, CountGrows

\* Tunnelling: zones and names are only added.
LEMMA DnsTunnelStands ==
  ASSUME NEW s, NEW t, s.zones \subseteq t.zones, s.names \subseteq t.names,
         IsFiniteSet(t.names)
  PROVE  Stands(DnsTunnelAlerts(s), DnsTunnelAlerts(t))
<1> DEFINE N(u, key) == Cardinality(NamesUnder(u.names, key))
           Sev(n) == IF n >= 10 THEN "critical" ELSE IF n >= 3 THEN "high" ELSE "medium"
           Of(u, key) == Alert("dns_tunneling", Sev(N(u, key)), key[1], NoHost, key[2],
                               N(u, key))
<1>1. ASSUME NEW key \in s.zones PROVE AsSevere(Of(t, key), Of(s, key))
  <2>1. N(s, key) \in Nat /\ N(t, key) \in Nat /\ N(s, key) <= N(t, key)
    BY NamesGrow
  <2> HIDE DEF N
  <2>2. Rank(Sev(N(t, key))) >= Rank(Sev(N(s, key)))
    BY <2>1, Ranks
  <2> HIDE DEF Sev
  <2> QED BY <2>2, OneStands
<1>2. \A u : DnsTunnelAlerts(u) = {Of(u, key) : key \in u.zones}
  BY DEF DnsTunnelAlerts
<1> HIDE DEF Of
<1> QED BY <1>1, <1>2 DEF Stands

\* Cheap top-level domains: names are only added.
LEMMA SuspiciousTldStands ==
  ASSUME NEW s, NEW t, s \subseteq t, IsFiniteSet(t)
  PROVE  Stands(SuspiciousTldAlerts(s), SuspiciousTldAlerts(t))
<1> DEFINE N(u, key) == Cardinality(NamesUnder(u, key))
           Sev(n) == IF n >= 5 THEN "high" ELSE IF n >= 3 THEN "medium" ELSE "low"
           Of(u, key) == Alert("suspicious_tld", Sev(N(u, key)), key[1], NoHost, key[2],
                               N(u, key))
<1>1. ASSUME NEW key PROVE AsSevere(Of(t, key), Of(s, key))
  <2>1. N(s, key) \in Nat /\ N(t, key) \in Nat /\ N(s, key) <= N(t, key)
    BY NamesGrow
  <2> HIDE DEF N
  <2>2. Rank(Sev(N(t, key))) >= Rank(Sev(N(s, key)))
    BY <2>1, Ranks
  <2> HIDE DEF Sev
  <2> QED BY <2>2, OneStands
<1>2. \A u : SuspiciousTldAlerts(u) = {Of(u, key) : key \in {<<m[1], m[2]>> : m \in u}}
  BY DEF SuspiciousTldAlerts
<1> HIDE DEF Of
<1> QED BY <1>1, <1>2 DEF Stands

\* DNS over TLS: pairs are only added.
LEMMA DotStands ==
  ASSUME NEW s, NEW t, s \subseteq t PROVE Stands(DotAlerts(s), DotAlerts(t))
<1> DEFINE Sev(k) == IF k[2] \in PublicResolvers THEN "low" ELSE "medium"
           Of(k) == Alert("dns_over_tls", Sev(k), k[1], k[2], 853, 1)
<1>1. ASSUME NEW k PROVE AsSevere(Of(k), Of(k))
  <2>1. Rank(Sev(k)) >= Rank(Sev(k))
    BY Ranks
  <2> HIDE DEF Sev
  <2> QED BY <2>1, OneStands
<1>2. \A u : DotAlerts(u) = {Of(k) : k \in u}
  BY DEF DotAlerts
<1> HIDE DEF Of
<1> QED BY <1>1, <1>2 DEF Stands

\* Beacons over DNS: queries are only added.
LEMMA DnsBeaconStands ==
  ASSUME NEW F, NEW G, F \subseteq G, IsFiniteSet(G)
  PROVE  Stands(DnsBeaconAlerts(F), DnsBeaconAlerts(G))
<1> DEFINE N(H, key) == Cardinality({f \in H : ZoneKey(f) = key})
           Of(H, key) == Alert("cs_dns_beacon", BeaconSeverity(N(H, key)), key[1], NoHost,
                               key[2], N(H, key))
<1>1. ASSUME NEW key PROVE AsSevere(Of(G, key), Of(F, key))
  <2>1. N(F, key) \in Nat /\ N(G, key) \in Nat /\ N(F, key) <= N(G, key)
    <3> DEFINE A == {f \in F : ZoneKey(f) = key}
               B == {f \in G : ZoneKey(f) = key}
    <3>1. A \subseteq B /\ B \subseteq G
      OBVIOUS
    <3> HIDE DEF A, B
    <3>2. IsFiniteSet(B)
      BY <3>1, FS_Subset
    <3>3. Cardinality(A) \in Nat /\ Cardinality(B) \in Nat /\ Cardinality(A) <= Cardinality(B)
      BY <3>1, <3>2, CountGrows
    <3> QED BY <3>3 DEF A, B
  <2> HIDE DEF N
  <2>2. Rank(BeaconSeverity(N(G, key))) >= Rank(BeaconSeverity(N(F, key)))
    BY <2>1, Ranks DEF BeaconSeverity
  <2> QED BY <2>2, OneStands
<1>2. \A H : DnsBeaconAlerts(H) = {Of(H, key) : key \in {ZoneKey(f) : f \in H}}
  BY DEF DnsBeaconAlerts
<1> HIDE DEF Of
<1> QED BY <1>1, <1>2 DEF Stands

\* Generated names: more names, and scores no lower than the best so far.
LEMMA DgaStands ==
  ASSUME NEW s, NEW t, s \subseteq t, IsFiniteSet(t), \A m \in t : m[2].score \in Int
  PROVE  Stands(DgaAlerts(s), DgaAlerts(t))
<1> DEFINE Of(u, src) == {m[2] : m \in {k \in u : k[1] = src}}
           Scores(u, src) == {m.score : m \in Of(u, src)}
           Best(u, src) == Max({m.score : m \in Of(u, src)})
           N(u, src) == Cardinality(Of(u, src))
           Sev(n, best) == IF n >= 5 \/ (n >= 3 /\ best >= 85) THEN "critical"
                           ELSE IF n >= 2 \/ best >= 90 THEN "high" ELSE "medium"
           Alarm(u, src) == Alert("dga", Sev(N(u, src), Best(u, src)), src, NoHost,
                                  "names", N(u, src))
<1>1. ASSUME NEW src \in {k[1] : k \in s} PROVE AsSevere(Alarm(t, src), Alarm(s, src))
  <2>1. Of(s, src) \subseteq Of(t, src) /\ Of(s, src) # {}
    OBVIOUS
  <2>2. IsFiniteSet(Of(t, src))
    <3> DEFINE K == {k \in t : k[1] = src}
               fn == [m \in K |-> m[2]]
    <3>1. IsFiniteSet(K)
      BY FS_Subset
    <3>2. Of(t, src) = {fn[m] : m \in K}
      OBVIOUS
    <3> HIDE DEF K, fn, Of
    <3> QED BY <3>1, <3>2, ImageFinite
  <2>3. \A m \in Of(t, src) : m.score \in Int
    OBVIOUS
  <2> HIDE DEF Of
  <2>4. N(s, src) \in Nat /\ N(t, src) \in Nat /\ N(s, src) <= N(t, src)
    BY <2>1, <2>2, CountGrows
  <2>5. Scores(s, src) \subseteq Scores(t, src) /\ Scores(s, src) # {}
        /\ Scores(t, src) \subseteq Int
    BY <2>1, <2>3
  <2>6. IsFiniteSet(Scores(t, src)) /\ IsFiniteSet(Scores(s, src))
    <3> DEFINE fn == [m \in Of(t, src) |-> m.score]
    <3>1. Scores(t, src) = {fn[m] : m \in Of(t, src)}
      OBVIOUS
    <3> HIDE DEF fn, Scores
    <3>2. IsFiniteSet(Scores(t, src))
      BY <2>2, <3>1, ImageFinite
    <3> QED BY <2>5, <3>2, FS_Subset
  <2>7. Best(s, src) = Max(Scores(s, src)) /\ Best(t, src) = Max(Scores(t, src))
    OBVIOUS
  <2> HIDE DEF Scores, N, Best
  <2>8. PICK x, y : x = Best(s, src) /\ y = Best(t, src)
    OBVIOUS
  <2>9. x \in Scores(s, src) /\ y \in Scores(t, src) /\ \A z \in Scores(t, src) : z <= y
    BY <2>5, <2>6, <2>7, <2>8, GreatestOf
  <2>10. x \in Int /\ y \in Int /\ x <= y
    BY <2>5, <2>9
  <2>11. Rank(Sev(N(t, src), y)) >= Rank(Sev(N(s, src), x))
    <3>1. PICK n, m : n = N(s, src) /\ m = N(t, src)
      OBVIOUS
    <3>2. n \in Nat /\ m \in Nat /\ n <= m
      BY <2>4, <3>1
    <3>3. Rank(Sev(m, y)) >= Rank(Sev(n, x))
      BY <2>10, <3>2, Ranks
    <3> QED BY <3>1, <3>3
  <2> HIDE DEF Sev
  <2> QED BY <2>8, <2>11, OneStands
<1>2. \A u : DgaAlerts(u) = {Alarm(u, src) : src \in {k[1] : k \in u}}
  BY DEF DgaAlerts
<1> HIDE DEF Alarm
<1> QED BY <1>1, <1>2 DEF Stands

\* Credentials: what was seen stays seen.
LEMMA CredentialsStand ==
  ASSUME NEW s, NEW t, s.seen \subseteq t.seen
  PROVE  Stands(CredentialsAlerts(s), CredentialsAlerts(t))
<1> DEFINE Sev(c) == IF IsLocal(c[1]) /\ IsLocal(c[2]) THEN "high" ELSE "critical"
           N(u, c) == Cardinality({m \in u.seen : m.conv = c})
           Of(u, c) == Alert("cleartext_credentials", Sev(c), c[1], c[2], c[3], N(u, c))
<1>1. ASSUME NEW c PROVE AsSevere(Of(t, c), Of(s, c))
  <2>1. Rank(Sev(c)) >= Rank(Sev(c))
    BY Ranks
  <2> HIDE DEF Sev, N
  <2> QED BY <2>1, OneStands
<1>2. \A u : CredentialsAlerts(u) = {Of(u, c) : c \in {m.conv : m \in u.seen}}
  BY DEF CredentialsAlerts
<1> HIDE DEF Of
<1> QED BY <1>1, <1>2 DEF Stands

\* Modbus writes: writes are only added.
Writings(s) == {a \in IcsAlerts(s) : a.rule = "modbus_write"}

\* A write over Modbus stands.
LEMMA WritingsStand ==
  ASSUME NEW s, NEW t, s.writes \subseteq t.writes
  PROVE  Stands(Writings(s), Writings(t))
<1> DEFINE N(u, k) == Cardinality({f \in u.writes : f.src = k[1] /\ f.dst = k[2]})
           Of(u, k) == Alert("modbus_write", "critical", k[1], k[2], 502, N(u, k))
<1>1. ASSUME NEW k PROVE AsSevere(Of(t, k), Of(s, k))
  <2>1. Rank("critical") >= Rank("critical")
    BY Ranks
  <2> HIDE DEF N
  <2> QED BY <2>1, OneStands
<1>2. \A u : Writings(u) = {Of(u, k) : k \in {<<f.src, f.dst>> : f \in u.writes}}
  <2> TAKE u
  <2> DEFINE K == {<<f.src, f.dst>> : f \in u.writes}
  <2>1. PICK P : /\ \A a \in P : a.rule = "ics_presence"
                 /\ IcsAlerts(u) = P \union {Of(u, k) : k \in K}
    <3> DEFINE Frames(protocol) == {m \in u.presence : IcsPorts[m[3]] = protocol}
               StatusOfSample(m) ==
                 IF <<m[2], m[1], m[3]>> \in DOMAIN u.flows
                 THEN FlowStatus(u.flows, <<m[2], m[1], m[3]>>)
                 ELSE FlowStatus(u.flows, <<m[1], m[2], m[3]>>)
               Shown(p) == Alert("ics_presence", "medium", NoHost, NoHost,
                                 <<p, BestStatus({StatusOfSample(m) : m \in Frames(p)})>>,
                                 Cardinality(Frames(p)))
               P == {Shown(p) : p \in {IcsPorts[m[3]] : m \in u.presence}}
    <3>1. \A a \in P : a.rule = "ics_presence"
      <4>1. \A p : Shown(p).rule = "ics_presence"
        BY DEF Alert
      <4> HIDE DEF Shown
      <4> QED BY <4>1
    <3>2. IcsAlerts(u) = P \union {Of(u, k) : k \in K}
      BY DEF IcsAlerts
    <3> HIDE DEF P, Of, K
    <3> QED BY <3>1, <3>2
  <2>2. \A k : Of(u, k).rule = "modbus_write"
    BY DEF Alert
  <2> HIDE DEF Of, K
  <2>3. Writings(u) = {Of(u, k) : k \in K}
    BY <2>1, <2>2 DEF Writings
  <2> QED BY <2>3 DEF K
<1> HIDE DEF Of
<1> QED BY <1>1, <1>2 DEF Stands

\* Kerberos: messages are only added, so a pair's requests that name RC4 are
\* not fewer.
Weak(F, pair, msg) == Cardinality({f \in {g \in F : KdcPair(g) = pair /\ g.msg = msg} : f.rc4})

\* Kerberoasting and downgrades to RC4.
Abuses(F) == {a \in KerberosAlerts(F) : a.rule # "as_rep_roasting"}

\* The two kinds of abuse, with the requests they count.
LEMMA AbusesAre ==
  ASSUME NEW F
  PROVE  Abuses(F) =
           {Alert("kerberoasting", IF Weak(F, p, "tgs_req") >= 3 THEN "critical" ELSE "high",
                  p[1], p[2], 88, Weak(F, p, "tgs_req"))
              : p \in {q \in {KdcPair(f) : f \in F} : Weak(F, q, "tgs_req") >= 1}}
           \union
           {Alert("rc4_downgrade", "high", p[1], p[2], 88, Weak(F, p, "as_req"))
              : p \in {q \in {KdcPair(f) : f \in F} : Weak(F, q, "as_req") >= 3}}
<1> DEFINE Pairs == {KdcPair(f) : f \in F}
           Roast(p) == Alert("kerberoasting",
                             IF Weak(F, p, "tgs_req") >= 3 THEN "critical" ELSE "high",
                             p[1], p[2], 88, Weak(F, p, "tgs_req"))
           Downgrade(p) == Alert("rc4_downgrade", "high", p[1], p[2], 88,
                                 Weak(F, p, "as_req"))
           A == {Roast(p) : p \in {q \in Pairs : Weak(F, q, "tgs_req") >= 1}}
           C == {Downgrade(p) : p \in {q \in Pairs : Weak(F, q, "as_req") >= 3}}
<1>1. PICK B : KerberosAlerts(F) = A \union B \union C
               /\ \A a \in B : a.rule = "as_rep_roasting"
  <2> DEFINE Sent(pair, msg) == {f \in F : KdcPair(f) = pair /\ f.msg = msg}
             Preauth(pair, msg) == Cardinality({f \in Sent(pair, msg) : f.preauth})
             Roasting(p) ==
               /\ Cardinality(Sent(p, "as_rep")) >= 5
               /\ Preauth(p, "error") = 0
               /\ Sent(p, "as_req") # {}
               /\ Preauth(p, "as_req") = 0
             Rep(p) == Alert("as_rep_roasting", "high", p[1], p[2], 88,
                             Cardinality(Sent(p, "as_rep")))
             B == {Rep(p) : p \in {q \in Pairs : Roasting(q)}}
  <2>1. KerberosAlerts(F) = A \union B \union C
    BY DEF KerberosAlerts, Weak
  <2>2. \A a \in B : a.rule = "as_rep_roasting"
    <3>1. \A p : Rep(p).rule = "as_rep_roasting"
      BY DEF Alert
    <3> HIDE DEF Rep, Roasting, Pairs
    <3> QED BY <3>1
  <2> HIDE DEF A, B, C
  <2> QED BY <2>1, <2>2
<1>2. \A p : Roast(p).rule # "as_rep_roasting" /\ Downgrade(p).rule # "as_rep_roasting"
  BY DEF Alert
<1> HIDE DEF Roast, Downgrade, Pairs
<1>3. \A a \in A \union C : a.rule # "as_rep_roasting"
  BY <1>2
<1> HIDE DEF A, C
<1>4. Abuses(F) = A \union C
  BY <1>1, <1>3 DEF Abuses
<1> QED BY <1>4 DEF A, C, Roast, Downgrade, Pairs

\* Abuses of Kerberos stand: more requests only raise them.
LEMMA AbusesStand ==
  ASSUME NEW F, NEW G, F \subseteq G, IsFiniteSet(G)
  PROVE  Stands(Abuses(F), Abuses(G))
<1> DEFINE Pairs(H) == {KdcPair(f) : f \in H}
           Sev(n) == IF n >= 3 THEN "critical" ELSE "high"
           Roast(H, p) == Alert("kerberoasting", Sev(Weak(H, p, "tgs_req")), p[1], p[2],
                                88, Weak(H, p, "tgs_req"))
           Downgrade(H, p) == Alert("rc4_downgrade", "high", p[1], p[2], 88,
                                    Weak(H, p, "as_req"))
           A(H) == {Roast(H, p) : p \in {q \in Pairs(H) : Weak(H, q, "tgs_req") >= 1}}
           C(H) == {Downgrade(H, p) : p \in {q \in Pairs(H) : Weak(H, q, "as_req") >= 3}}
<1>1. Abuses(F) = A(F) \union C(F) /\ Abuses(G) = A(G) \union C(G)
  BY AbusesAre
<1>2. ASSUME NEW p, NEW msg
      PROVE  /\ Weak(F, p, msg) \in Nat /\ Weak(G, p, msg) \in Nat
             /\ Weak(F, p, msg) <= Weak(G, p, msg)
  <2> DEFINE S == {f \in {g \in F : KdcPair(g) = p /\ g.msg = msg} : f.rc4}
             T == {f \in {g \in G : KdcPair(g) = p /\ g.msg = msg} : f.rc4}
  <2>1. S \subseteq T /\ T \subseteq G
    OBVIOUS
  <2> HIDE DEF S, T
  <2>2. IsFiniteSet(T)
    BY <2>1, FS_Subset
  <2>3. Cardinality(S) \in Nat /\ Cardinality(T) \in Nat /\ Cardinality(S) <= Cardinality(T)
    BY <2>1, <2>2, CountGrows
  <2> QED BY <2>3 DEF S, T, Weak
<1>3. Pairs(F) \subseteq Pairs(G)
  OBVIOUS
<1>4. ASSUME NEW p PROVE AsSevere(Roast(G, p), Roast(F, p))
  <2>1. Rank(Sev(Weak(G, p, "tgs_req"))) >= Rank(Sev(Weak(F, p, "tgs_req")))
    <3>1. PICK n, m : n = Weak(F, p, "tgs_req") /\ m = Weak(G, p, "tgs_req")
      OBVIOUS
    <3>2. n \in Nat /\ m \in Nat /\ n <= m
      BY <1>2, <3>1
    <3>3. Rank(Sev(m)) >= Rank(Sev(n))
      BY <3>2, Ranks
    <3> QED BY <3>1, <3>3
  <2> HIDE DEF Sev
  <2> QED BY <2>1, OneStands
<1>5. ASSUME NEW p PROVE AsSevere(Downgrade(G, p), Downgrade(F, p))
  <2>1. Rank("high") >= Rank("high")
    BY Ranks
  <2> QED BY <2>1, OneStands
<1> HIDE DEF Roast, Downgrade, Pairs
<1>6. Stands(A(F), A(G))
  <2> SUFFICES ASSUME NEW p \in Pairs(F), Weak(F, p, "tgs_req") >= 1
               PROVE  \E b \in A(G) : AsSevere(b, Roast(F, p))
    BY DEF Stands
  <2>1. Weak(G, p, "tgs_req") >= 1
    BY <1>2
  <2> QED BY <1>3, <1>4, <2>1
<1>7. Stands(C(F), C(G))
  <2> SUFFICES ASSUME NEW p \in Pairs(F), Weak(F, p, "as_req") >= 3
               PROVE  \E b \in C(G) : AsSevere(b, Downgrade(F, p))
    BY DEF Stands
  <2>1. Weak(G, p, "as_req") >= 3
    BY <1>2
  <2> QED BY <1>3, <1>5, <2>1
<1> HIDE DEF A, C
<1> QED BY <1>1, <1>6, <1>7, StandTogether

\* Tunnels: flows are only added, and what a WireGuard flow was held for at
\* its first handshake it is held for ever.
TunnelsGrow(s, t) ==
  /\ DOMAIN s.doq \subseteq DOMAIN t.doq
  /\ DOMAIN s.openvpn \subseteq DOMAIN t.openvpn
  /\ DOMAIN s.encapsulated \subseteq DOMAIN t.encapsulated
  /\ DOMAIN s.wireguard \subseteq DOMAIN t.wireguard
  /\ \A k \in DOMAIN s.wireguard : t.disguised[k] = s.disguised[k]

\* Tunnels stand: a key keeps what was first judged of it.
LEMMA TunnelsStand ==
  ASSUME NEW s, NEW t, TunnelsGrow(s, t)
  PROVE  Stands(TunnelAlerts(s), TunnelAlerts(t))
<1> DEFINE Doq(u, k) == Alert("doq", "high", k[1], k[2], k[3], u.doq[k])
           Wg(u, k) == Alert("wireguard", IF u.disguised[k] THEN "high" ELSE "low",
                             k[1], k[2], k[3], u.wireguard[k])
           Vpn(u, k) == Alert("openvpn", "high", k[1], k[2], k[3], u.openvpn[k])
           Enc(u, k) == Alert("encapsulation", "medium", k[1], k[2], k[3],
                              u.encapsulated[k])
           A(u) == {Doq(u, k) : k \in DOMAIN u.doq}
           B(u) == {Wg(u, k) : k \in DOMAIN u.wireguard}
           C(u) == {Vpn(u, k) : k \in DOMAIN u.openvpn}
           D(u) == {Enc(u, k) : k \in DOMAIN u.encapsulated}
<1>1. \A u : TunnelAlerts(u) = A(u) \union B(u) \union C(u) \union D(u)
  BY DEF TunnelAlerts
<1>2. Rank("high") >= Rank("high") /\ Rank("medium") >= Rank("medium")
      /\ Rank("low") >= Rank("low")
  BY Ranks
<1>3. \A k : AsSevere(Doq(t, k), Doq(s, k))
  BY <1>2, OneStands
<1>4. \A k : AsSevere(Vpn(t, k), Vpn(s, k))
  BY <1>2, OneStands
<1>5. \A k : AsSevere(Enc(t, k), Enc(s, k))
  BY <1>2, OneStands
<1>6. ASSUME NEW k \in DOMAIN s.wireguard PROVE AsSevere(Wg(t, k), Wg(s, k))
  <2>1. PICK sev : sev = IF s.disguised[k] THEN "high" ELSE "low"
    OBVIOUS
  <2>2. sev = IF t.disguised[k] THEN "high" ELSE "low"
    BY <2>1 DEF TunnelsGrow
  <2>3. Rank(sev) >= Rank(sev)
    BY <1>2, <2>1
  <2>4. AsSevere(Alert("wireguard", sev, k[1], k[2], k[3], t.wireguard[k]),
                 Alert("wireguard", sev, k[1], k[2], k[3], s.wireguard[k]))
    BY <2>3, OneStands
  <2> QED BY <2>1, <2>2, <2>4
<1> HIDE DEF Doq, Wg, Vpn, Enc
<1>7. Stands(A(s), A(t)) /\ Stands(C(s), C(t)) /\ Stands(D(s), D(t))
  BY <1>3, <1>4, <1>5 DEF Stands, TunnelsGrow
<1>8. Stands(B(s), B(t))
  BY <1>6 DEF Stands, TunnelsGrow
<1> HIDE DEF A, B, C, D
<1> QED BY <1>1, <1>7, <1>8, StandTogether

\* Trackers: flows are only added and never lose a mark.
Marked(flows) == \A k \in DOMAIN flows : "seen" \in DOMAIN flows[k]

\* Every flow is still there, seen to do all that it was.
MarksGrow(flows, more) ==
  \A k \in DOMAIN flows : k \in DOMAIN more /\ flows[k].seen \subseteq more[k].seen

\* A flow may be replaced by one that was seen to do as much.
LEMMA UpsertGrows ==
  ASSUME NEW flows, Marked(flows), NEW key, NEW next,
         "seen" \in DOMAIN next,
         key \in DOMAIN flows => flows[key].seen \subseteq next.seen
  PROVE  MarksGrow(flows, Upsert(flows, key, next)) /\ Marked(Upsert(flows, key, next))
<1>1. PICK all : all = Upsert(flows, key, next)
  OBVIOUS
<1>2. /\ DOMAIN all = DOMAIN flows \union {key}
      /\ all[key] = next
      /\ \A k \in DOMAIN flows \ {key} : all[k] = flows[k]
  BY <1>1 DEF Upsert
<1>3. MarksGrow(flows, all) /\ Marked(all)
  BY <1>2 DEF MarksGrow, Marked
<1> QED BY <1>1, <1>3

\* A segment adds to what its flow was seen to do.
LEMMA SegmentGrows ==
  ASSUME NEW flows, Marked(flows), NEW key, NEW f, NEW fromClient
  PROVE  /\ MarksGrow(flows, ObserveTcp(flows, key, f, fromClient))
         /\ Marked(ObserveTcp(flows, key, f, fromClient))
<1> DEFINE rec == FlowAt(flows, key)
<1>1. PICK next :
        next = [seen    |-> rec.seen \union Marks(rec, f, fromClient),
                packets |-> rec.packets + 1,
                up      |-> rec.up + (IF fromClient THEN f.len ELSE 0),
                down    |-> rec.down + (IF fromClient THEN 0 ELSE f.len),
                stamps  |-> Stretch(rec.stamps, f.ts)]
  OBVIOUS
<1>2. ObserveTcp(flows, key, f, fromClient) = Upsert(flows, key, next)
  BY <1>1 DEF ObserveTcp
<1>3. "seen" \in DOMAIN next /\ rec.seen \subseteq next.seen
  BY <1>1
<1>4. key \in DOMAIN flows => rec = flows[key]
  BY DEF FlowAt, Lookup
<1> HIDE DEF rec
<1> QED BY <1>2, <1>3, <1>4, UpsertGrows

\* So does an ICMP error.
LEMMA ErrorGrows ==
  ASSUME NEW flows, Marked(flows), NEW f, NEW ports, NEW create
  PROVE  /\ MarksGrow(flows, ObserveIcmpError(flows, f, ports, create))
         /\ Marked(ObserveIcmpError(flows, f, ports, create))
<1>1. CASE ObserveIcmpError(flows, f, ports, create) = flows
  BY <1>1 DEF MarksGrow
<1>2. CASE ObserveIcmpError(flows, f, ports, create) # flows
  <2> DEFINE key == IcmpErrorKey(f, ports)
             rec == FlowAt(flows, key)
  <2>1. PICK next : next = [rec EXCEPT !.seen = @ \union {"icmp"},
                                       !.stamps = Stretch(@, f.ts)]
    OBVIOUS
  <2>2. ObserveIcmpError(flows, f, ports, create) = Upsert(flows, key, next)
    BY <1>2, <2>1 DEF ObserveIcmpError
  <2>3. "seen" \in DOMAIN rec
    BY DEF FlowAt, Lookup, Marked, NewFlow
  <2>4. "seen" \in DOMAIN next /\ next.seen = rec.seen \union {"icmp"}
    BY <2>1, <2>3
  <2>5. key \in DOMAIN flows => rec = flows[key]
    BY DEF FlowAt, Lookup
  <2> HIDE DEF rec, key
  <2> QED BY <2>2, <2>4, <2>5, UpsertGrows
<1> QED BY <1>1, <1>2

\* So does whatever a detector is given to track.
LEMMA TrackGrows ==
  ASSUME NEW flows, Marked(flows), NEW f, NEW ports
  PROVE  MarksGrow(flows, Track(flows, f, ports)) /\ Marked(Track(flows, f, ports))
<1>1. CASE Watched(f, ports)
  BY <1>1, SegmentGrows DEF Track
<1>2. CASE ~Watched(f, ports) /\ f.proto = "icmp"
  BY <1>2, ErrorGrows DEF Track
<1>3. CASE ~Watched(f, ports) /\ f.proto # "icmp"
  <2>1. Track(flows, f, ports) = flows
    BY <1>3 DEF Track
  <2> QED BY <2>1 DEF MarksGrow
<1> QED BY <1>1, <1>2, <1>3

\* A status y that is at least as far in a handshake as x.
NoLess(x, y) == /\ x = "established" => y = "established"
                /\ x \in Answered => y \in Answered

\* The status of a flow only goes towards established.
LEMMA StatusGrows ==
  ASSUME NEW flows, NEW more, MarksGrow(flows, more), NEW k
  PROVE  NoLess(FlowStatus(flows, k), FlowStatus(more, k))
<1>1. CASE k \notin DOMAIN flows
  BY <1>1 DEF FlowStatus, NoLess, Answered
<1>2. CASE k \in DOMAIN flows
  <2>1. PICK a, b : a = flows[k] /\ b = more[k]
    OBVIOUS
  <2>2. k \in DOMAIN more /\ a.seen \subseteq b.seen
    BY <1>2, <2>1 DEF MarksGrow
  <2>3. NoLess(StatusOf(a), StatusOf(b))
    BY <2>2 DEF StatusOf, NoLess, Answered
  <2> QED BY <1>2, <2>1, <2>2, <2>3 DEF FlowStatus
<1> QED BY <1>1, <1>2

\* The best status of a group is established when one of them is, and
\* answered when one of them is.
LEMMA BestIsBest ==
  ASSUME NEW S
  PROVE  /\ "established" \in S => BestStatus(S) = "established"
         /\ S \intersect Answered # {} => BestStatus(S) \in Answered
<1> DEFINE I == {i \in DOMAIN StatusOrder : StatusOrder[i] \in S} \union {Len(StatusOrder)}
<1>1. DOMAIN StatusOrder = 1..5 /\ Len(StatusOrder) = 5
  BY DEF StatusOrder
<1>2. I \in SUBSET (1..5)
  BY <1>1
<1>3. PICK m : m = Min(I)
  OBVIOUS
<1>4. BestStatus(S) = StatusOrder[m]
  BY <1>3 DEF BestStatus
<1>5. ASSUME "established" \in S PROVE BestStatus(S) = "established"
  <2>1. 1 \in I
    BY <1>1, <1>5 DEF StatusOrder
  <2> HIDE DEF I
  <2>2. \A y \in I : 1 <= y
    BY <1>2
  <2>3. m \in I /\ \A y \in I : m <= y
    BY <1>3, <2>1, <2>2 DEF Min
  <2>4. m = 1
    BY <1>2, <2>1, <2>3
  <2> QED BY <1>4, <2>4 DEF StatusOrder
<1>6. ASSUME "established" \notin S, "open_no_ack" \in S PROVE BestStatus(S) = "open_no_ack"
  <2>1. 2 \in I /\ 1 \notin I
    BY <1>1, <1>6 DEF StatusOrder
  <2> HIDE DEF I
  <2>2. \A y \in I : 2 <= y
    BY <1>2, <2>1
  <2>3. m \in I /\ \A y \in I : m <= y
    BY <1>2, <1>3, <2>1, <2>2 DEF Min
  <2>4. m = 2
    BY <1>2, <2>1, <2>2, <2>3
  <2> QED BY <1>4, <2>4 DEF StatusOrder
<1> QED BY <1>5, <1>6 DEF Answered

\* The best status of more flows is no less.
LEMMA BestGrows ==
  ASSUME NEW S, NEW T, \A x \in S : \E y \in T : NoLess(x, y)
  PROVE  NoLess(BestStatus(S), BestStatus(T))
<1>1. ASSUME BestStatus(S) = "established" PROVE BestStatus(T) = "established"
  <2>1. "established" \in S
    BY <1>1, BestIsOneOfThem DEF Answered
  <2>2. "established" \in T
    BY <2>1 DEF NoLess
  <2> QED BY <2>2, BestIsBest
<1>2. ASSUME BestStatus(S) \in Answered PROVE BestStatus(T) \in Answered
  <2>1. BestStatus(S) \in S
    BY <1>2, BestIsOneOfThem
  <2>2. T \intersect Answered # {}
    BY <1>2, <2>1 DEF NoLess
  <2> QED BY <2>2, BestIsBest
<1> QED BY <1>1, <1>2 DEF NoLess

\* Cleartext logins: a flow that goes further makes a graver alert.
LEMMA InsecureStands ==
  ASSUME NEW s, NEW t, MarksGrow(s, t)
  PROVE  Stands(InsecureAlerts(s), InsecureAlerts(t))
<1> DEFINE Flows(u, k) == {j \in DOMAIN u : j[1] = k[1] /\ j[3] = k[3]}
           Status(u, k) == BestStatus({FlowStatus(u, j) : j \in Flows(u, k)})
           Of(u, k) == Alert("insecure_protocol", InsecureSeverity(k[3], Status(u, k)),
                             NoHost, k[1], k[3], Cardinality(Flows(u, k)))
<1>1. ASSUME NEW k PROVE AsSevere(Of(t, k), Of(s, k))
  <2>1. Flows(s, k) \subseteq Flows(t, k)
    BY DEF MarksGrow
  <2> HIDE DEF Flows
  <2>2. NoLess(Status(s, k), Status(t, k))
    <3>1. \A j \in Flows(s, k) : NoLess(FlowStatus(s, j), FlowStatus(t, j))
      BY StatusGrows
    <3>2. \A x \in {FlowStatus(s, j) : j \in Flows(s, k)} :
            \E y \in {FlowStatus(t, j) : j \in Flows(t, k)} : NoLess(x, y)
      BY <2>1, <3>1
    <3> QED BY <3>2, BestGrows
  <2> HIDE DEF Status
  <2>3. Rank(InsecureSeverity(k[3], Status(t, k)))
          >= Rank(InsecureSeverity(k[3], Status(s, k)))
    <3>1. PICK x, y : x = Status(s, k) /\ y = Status(t, k)
      OBVIOUS
    <3>2. Rank(InsecureSeverity(k[3], y)) >= Rank(InsecureSeverity(k[3], x))
      <4>0. NoLess(x, y)
        BY <2>2, <3>1
      <4>1. CASE x = "established"
        <5>1. y = x
          BY <4>0, <4>1 DEF NoLess
        <5>2. InsecureSeverity(k[3], x) \in {"critical", "high"}
          BY <4>1 DEF InsecureSeverity
        <5> QED BY <5>1, <5>2, Ranks
      <4>2. CASE x = "open_no_ack"
        <5>1. y \in {"established", "open_no_ack"}
          BY <4>0, <4>2 DEF NoLess, Answered
        <5>2. InsecureSeverity(k[3], x) = "high"
          BY <4>2 DEF InsecureSeverity
        <5>3. InsecureSeverity(k[3], y) \in {"critical", "high"}
          BY <5>1 DEF InsecureSeverity
        <5> QED BY <5>2, <5>3, Ranks
      <4>3. CASE x \notin {"established", "open_no_ack"}
        <5>1. InsecureSeverity(k[3], x) = "low"
          BY <4>3 DEF InsecureSeverity
        <5>2. InsecureSeverity(k[3], y) \in {"critical", "high", "low"}
          BY DEF InsecureSeverity
        <5> QED BY <5>1, <5>2, Ranks
      <4> QED BY <4>1, <4>2, <4>3
    <3> QED BY <3>1, <3>2
  <2> QED BY <2>3, OneStands
<1>2. \A u : InsecureAlerts(u) = {Of(u, k) : k \in DOMAIN u}
  BY DEF InsecureAlerts
<1>3. DOMAIN s \subseteq DOMAIN t
  BY DEF MarksGrow
<1> HIDE DEF Of
<1> QED BY <1>1, <1>2, <1>3 DEF Stands

\* SMB across the perimeter, likewise.
LEMMA SmbStands ==
  ASSUME NEW s, NEW t, s.crossings \subseteq t.crossings, MarksGrow(s.flows, t.flows)
  PROVE  Stands(SmbAlerts(s), SmbAlerts(t))
<1> DEFINE Flows(u, c) == {k \in DOMAIN u.flows : k[1] = c[2] /\ k[2] = c[1]}
           Status(u, c) == BestStatus({FlowStatus(u.flows, k) : k \in Flows(u, c)})
           Of(u, c) == Alert(IF IsLocal(c[2]) THEN "smb_inbound" ELSE "smb_outbound",
                             SmbSeverity(IsLocal(c[2]), Status(u, c)), c[1], c[2], 445, 1)
<1>1. ASSUME NEW c PROVE AsSevere(Of(t, c), Of(s, c))
  <2>1. Flows(s, c) \subseteq Flows(t, c)
    BY DEF MarksGrow
  <2> HIDE DEF Flows
  <2>2. NoLess(Status(s, c), Status(t, c))
    <3>1. \A j \in Flows(s, c) : NoLess(FlowStatus(s.flows, j), FlowStatus(t.flows, j))
      BY StatusGrows
    <3>2. \A x \in {FlowStatus(s.flows, j) : j \in Flows(s, c)} :
            \E y \in {FlowStatus(t.flows, j) : j \in Flows(t, c)} : NoLess(x, y)
      BY <2>1, <3>1
    <3> QED BY <3>2, BestGrows
  <2> HIDE DEF Status
  <2>3. Rank(SmbSeverity(IsLocal(c[2]), Status(t, c)))
          >= Rank(SmbSeverity(IsLocal(c[2]), Status(s, c)))
    <3>1. PICK x, y : x = Status(s, c) /\ y = Status(t, c)
      OBVIOUS
    <3>2. Rank(SmbSeverity(IsLocal(c[2]), y)) >= Rank(SmbSeverity(IsLocal(c[2]), x))
      BY <2>2, <3>1, Ranks DEF SmbSeverity, NoLess, Answered
    <3> QED BY <3>1, <3>2
  <2> QED BY <2>3, OneStands
<1>2. \A u : SmbAlerts(u) = {Of(u, c) : c \in u.crossings}
  BY DEF SmbAlerts
<1> HIDE DEF Of
<1> QED BY <1>1, <1>2 DEF Stands

\* Exposed databases and named pipes: frames, greetings and targets are only
\* added.
ExposureGrows(s, t) ==
  /\ s.db \subseteq t.db
  /\ s.greeted \subseteq t.greeted
  /\ s.pipes \subseteq t.pipes
  /\ MarksGrow(s.flows, t.flows)

\* Exposed services stand.
LEMMA ExposureStands ==
  ASSUME NEW s, NEW t, ExposureGrows(s, t), IsFiniteSet(t.pipes)
  PROVE  Stands(ExposureAlerts(s), ExposureAlerts(t))
<1> DEFINE Packets(u, k) == Cardinality({m \in u.db : <<m[1], m[2], m[3]>> = k})
           By(u, src, tier) == {q \in u.pipes : q[1] = src /\ Tier(q[3]) = tier}
           Targets(u, src, tier) == Cardinality({m[2] : m \in By(u, src, tier)})
           Asked(u, k) == Cardinality({m \in u.pipes : <<m[1], m[2], m[3]>> = k})
           Db(u, k) == Alert("database_exposed",
                             ExposedSeverity(k \in u.greeted, FlowStatus(u.flows, k)),
                             k[2], k[1], k[3], Packets(u, k))
           Pipe(u, k) == Alert("lateral_pipe",
                               PipeSeverity(IsLocal(k[1]), Tier(k[3]),
                                            Targets(u, k[1], Tier(k[3]))),
                               k[1], k[2], k[3], Asked(u, k))
           A(u) == {Db(u, k) : k \in {<<m[1], m[2], m[3]>> : m \in u.db}}
           B(u) == {Pipe(u, k) : k \in {<<m[1], m[2], m[3]>> : m \in u.pipes}}
<1>1. \A u : ExposureAlerts(u) = A(u) \union B(u)
  BY DEF ExposureAlerts
<1>2. ASSUME NEW k PROVE AsSevere(Db(t, k), Db(s, k))
  <2>1. PICK x, y, g, h : /\ x = FlowStatus(s.flows, k) /\ y = FlowStatus(t.flows, k)
                          /\ g = (k \in s.greeted) /\ h = (k \in t.greeted)
    OBVIOUS
  <2>2. NoLess(x, y)
    BY <2>1, StatusGrows DEF ExposureGrows
  <2>3. g => h
    BY <2>1 DEF ExposureGrows
  <2>4. g \in BOOLEAN /\ h \in BOOLEAN
    BY <2>1
  <2>5. Rank(ExposedSeverity(h, y)) >= Rank(ExposedSeverity(g, x))
    <3>1. CASE g
      BY <2>3, <3>1, Ranks DEF ExposedSeverity
    <3>2. CASE ~g
      BY <2>2, <2>4, <3>2, Ranks DEF ExposedSeverity, NoLess, Answered
    <3> QED BY <3>1, <3>2
  <2> HIDE DEF Packets
  <2> QED BY <2>1, <2>5, OneStands
<1>3. ASSUME NEW k PROVE AsSevere(Pipe(t, k), Pipe(s, k))
  <2>1. PICK tier, local, n, m : /\ tier = Tier(k[3]) /\ local = IsLocal(k[1])
                                 /\ n = Targets(s, k[1], tier) /\ m = Targets(t, k[1], tier)
    OBVIOUS
  <2>2. n \in Nat /\ m \in Nat /\ n <= m
    <3> DEFINE P == By(s, k[1], tier)
               Q == By(t, k[1], tier)
               fn == [q \in Q |-> q[2]]
               TP == {q[2] : q \in P}
               TQ == {q[2] : q \in Q}
    <3>1. P \subseteq Q /\ Q \subseteq t.pipes
      BY DEF ExposureGrows
    <3>2. IsFiniteSet(Q)
      BY <3>1, FS_Subset
    <3>3. TQ = {fn[q] : q \in Q} /\ TP \subseteq TQ
      BY <3>1
    <3>4. n = Cardinality(TP) /\ m = Cardinality(TQ)
      BY <2>1
    <3> HIDE DEF P, Q, fn, TP, TQ
    <3>5. IsFiniteSet(TQ)
      BY <3>2, <3>3, ImageFinite
    <3> QED BY <3>3, <3>4, <3>5, CountGrows
  <2>3. local \in BOOLEAN
    BY <2>1 DEF IsLocal
  <2> HIDE DEF Targets, Asked
  <2>4. Rank(PipeSeverity(local, tier, m)) >= Rank(PipeSeverity(local, tier, n))
    BY <2>2, <2>3, Ranks DEF PipeSeverity
  <2> QED BY <2>1, <2>4, OneStands
<1> HIDE DEF Db, Pipe
<1>4. Stands(A(s), A(t)) /\ Stands(B(s), B(t))
  BY <1>2, <1>3 DEF Stands, ExposureGrows
<1> HIDE DEF A, B
<1> QED BY <1>1, <1>4, StandTogether

\* A frame only adds to what is known to be exposed.
LEMMA ExposureKeeps ==
  ASSUME NEW s, NEW f, Marked(s.flows), IsFiniteSet(s.pipes),
         DOMAIN s = {"db", "greeted", "pipes", "flows"}
  PROVE  /\ ExposureGrows(s, ExposureUpdate(s, f))
         /\ Marked(ExposureUpdate(s, f).flows)
         /\ IsFiniteSet(ExposureUpdate(s, f).pipes)
         /\ DOMAIN ExposureUpdate(s, f) = {"db", "greeted", "pipes", "flows"}
<1>0. MarksGrow(s.flows, s.flows)
  BY DEF MarksGrow
<1>1. CASE f.proto = "icmp"
  <2>1. PICK r : r = [s EXCEPT !.flows = ObserveIcmpError(@, f, ExposureTracked, FALSE)]
    OBVIOUS
  <2>2. ExposureUpdate(s, f) = r
    BY <1>1, <2>1 DEF ExposureUpdate
  <2>3. /\ DOMAIN r = DOMAIN s
        /\ r.flows = ObserveIcmpError(s.flows, f, ExposureTracked, FALSE)
        /\ r.db = s.db /\ r.greeted = s.greeted /\ r.pipes = s.pipes
    BY <2>1
  <2>4. MarksGrow(s.flows, r.flows) /\ Marked(r.flows)
    BY <2>3, ErrorGrows
  <2> QED BY <2>2, <2>3, <2>4 DEF ExposureGrows
<1>2. CASE f.proto = "tcp"
  <2> DEFINE keys == {<<AsDb(f, p).server, AsDb(f, p).client, p>> : p \in ExposedPort(f)}
             flow == IF f.dport \in ExposureTracked THEN <<f.dst, f.src, f.dport>>
                                                    ELSE <<f.src, f.dst, f.sport>>
  <2>1. PICK r : r = ExposureUpdate(s, f)
    OBVIOUS
  <2>2. /\ DOMAIN r = {"db", "greeted", "pipes", "flows"}
        /\ r.db = s.db \union {k \o <<f.id>> : k \in keys}
        /\ r.greeted = IF f.says = "db_hello" THEN s.greeted \union keys ELSE s.greeted
        /\ r.pipes = s.pipes \/ r.pipes = s.pipes \union {<<f.src, f.dst, f.about, f.id>>}
        /\ r.flows = IF Ports(f) \intersect ExposureTracked # {}
                     THEN ObserveTcp(s.flows, flow, f, f.dport \in ExposureTracked)
                     ELSE s.flows
    BY <1>2, <2>1 DEF ExposureUpdate
  <2> HIDE DEF keys, flow
  <2>3. MarksGrow(s.flows, r.flows) /\ Marked(r.flows)
    BY <1>0, <2>2, SegmentGrows
  <2>4. IsFiniteSet(r.pipes)
    <3>1. \A x : IsFiniteSet(s.pipes \union {x})
      BY FS_AddElement
    <3> QED BY <2>2, <3>1
  <2> QED BY <2>1, <2>2, <2>3, <2>4 DEF ExposureGrows
<1>3. CASE f.proto # "icmp" /\ f.proto # "tcp"
  <2>1. ExposureUpdate(s, f) = s
    BY <1>3 DEF ExposureUpdate
  <2> QED BY <1>0, <2>1 DEF ExposureGrows
<1> QED BY <1>1, <1>2, <1>3

\* A frame only adds to the credentials seen.
LEMMA CredentialsKeep ==
  ASSUME NEW s, NEW f, DOMAIN s = {"seen", "upgraded", "flows"}
  PROVE  /\ s.seen \subseteq CredentialsUpdate(s, f).seen
         /\ DOMAIN CredentialsUpdate(s, f) = {"seen", "upgraded", "flows"}
<1>1. PICK tracked : tracked = [s EXCEPT !.flows = Track(@, f, CredentialPorts)]
  OBVIOUS
<1>2. DOMAIN tracked = DOMAIN s /\ tracked.seen = s.seen
  BY <1>1
<1>3. \/ CredentialsUpdate(s, f) = tracked
      \/ \E u : CredentialsUpdate(s, f) = [tracked EXCEPT !.upgraded = u]
      \/ \E m : CredentialsUpdate(s, f) = [tracked EXCEPT !.seen = tracked.seen \union m]
  BY <1>1 DEF CredentialsUpdate
<1> QED BY <1>2, <1>3

\* A frame only adds to the writes seen.
LEMMA WritingsKeep ==
  ASSUME NEW s, NEW f, DOMAIN s = {"presence", "writes", "flows"}
  PROVE  /\ s.writes \subseteq IcsUpdate(s, f).writes
         /\ DOMAIN IcsUpdate(s, f) = {"presence", "writes", "flows"}
<1>1. CASE IcsSegment(f)
  <2>1. PICK r : r = IcsUpdate(s, f)
    OBVIOUS
  <2>2. DOMAIN r = {"presence", "writes", "flows"}
        /\ \E guard : r.writes = Keep(s.writes, f, guard)
    BY <1>1, <2>1 DEF IcsUpdate
  <2> QED BY <2>1, <2>2 DEF Keep
<1>2. CASE ~IcsSegment(f) /\ f.proto = "icmp"
  <2>1. PICK r : r = [s EXCEPT !.flows = ObserveIcmpError(@, f, DOMAIN IcsPorts, FALSE)]
    OBVIOUS
  <2>2. IcsUpdate(s, f) = r
    BY <1>2, <2>1 DEF IcsUpdate
  <2>3. DOMAIN r = DOMAIN s /\ r.writes = s.writes
    BY <2>1
  <2> QED BY <2>2, <2>3
<1>3. CASE ~IcsSegment(f) /\ f.proto # "icmp"
  BY <1>3 DEF IcsUpdate
<1> QED BY <1>1, <1>2, <1>3

\* A WireGuard flow has been judged at its first handshake.
TunnelShape(s) ==
  /\ DOMAIN s = {"encapsulated", "doq", "wireguard", "openvpn", "disguised"}
  /\ DOMAIN s.disguised = DOMAIN s.wireguard

\* A key that is counted is a key of the counts.
LEMMA CountAdds ==
  ASSUME NEW counts, NEW key
  PROVE  DOMAIN Count(counts, key) = DOMAIN counts \union {key}
  BY DEF Count, Upsert

\* A frame only adds to the tunnels, and judges no key twice.
LEMMA TunnelsKeep ==
  ASSUME NEW s, NEW f, TunnelShape(s)
  PROVE  TunnelsGrow(s, TunnelUpdate(s, f)) /\ TunnelShape(TunnelUpdate(s, f))
<1>1. CASE f.proto = "ipip"
  <2>1. PICK n : n = CountIf(s.encapsulated, <<f.src, f.dst, f.kind>>,
                             IsLocal(f.src) # IsLocal(f.dst))
    OBVIOUS
  <2>2. PICK r : r = [s EXCEPT !.encapsulated = n]
    OBVIOUS
  <2>3. TunnelUpdate(s, f) = r
    BY <1>1, <2>1, <2>2 DEF TunnelUpdate
  <2>4. DOMAIN s.encapsulated \subseteq DOMAIN n
    BY <2>1, CountAdds DEF CountIf
  <2>5. /\ DOMAIN r = DOMAIN s /\ r.encapsulated = n
        /\ r.doq = s.doq /\ r.wireguard = s.wireguard
        /\ r.openvpn = s.openvpn /\ r.disguised = s.disguised
    BY <2>2 DEF TunnelShape
  <2> QED BY <2>3, <2>4, <2>5 DEF TunnelsGrow, TunnelShape
<1>2. CASE f.proto = "udp"
  <2> DEFINE doq == <<f.src, f.dst, 853>>
             shakes == f.carries = "wireguard_init"
             quic == /\ 853 \in Ports(f) /\ ~IsLocal(f.dst)
                     /\ doq \in DOMAIN s.doq \/ f.carries = "quic_long"
             reset == /\ f.carries = "openvpn_reset"
                      /\ Ports(f) \intersect (OpenvpnPorts \union {80, 443}) = {}
             a == CountIf(s.doq, doq, quic)
             b == CountIf(s.wireguard, UdpKey(f), shakes)
             c == IF shakes
                  THEN Upsert(s.disguised, UdpKey(f),
                              Lookup(s.disguised, UdpKey(f),
                                     Ports(f) \intersect WireguardPorts = {}))
                  ELSE s.disguised
             d == CountIf(s.openvpn, UdpKey(f), reset)
             r == [s EXCEPT !.doq = a, !.wireguard = b, !.disguised = c, !.openvpn = d]
  <2>1. TunnelUpdate(s, f) = r
    BY <1>2 DEF TunnelUpdate
  <2>2. a = s.doq \/ a = Count(s.doq, doq)
    BY DEF CountIf
  <2>3. /\ shakes => b = Count(s.wireguard, UdpKey(f))
        /\ ~shakes => b = s.wireguard
    BY DEF CountIf
  <2>4. /\ shakes => c = Upsert(s.disguised, UdpKey(f),
                               Lookup(s.disguised, UdpKey(f),
                                      Ports(f) \intersect WireguardPorts = {}))
        /\ ~shakes => c = s.disguised
    OBVIOUS
  <2>5. d = s.openvpn \/ d = Count(s.openvpn, UdpKey(f))
    BY DEF CountIf
  <2> HIDE DEF a, b, c, d, quic, reset
  <2>6. /\ DOMAIN r = DOMAIN s /\ r.encapsulated = s.encapsulated
        /\ r.doq = a /\ r.wireguard = b /\ r.disguised = c /\ r.openvpn = d
    BY DEF TunnelShape
  <2> HIDE DEF r
  <2>7. DOMAIN s.doq \subseteq DOMAIN a
    <3>1. CASE a = Count(s.doq, doq)
      <4>1. \A key : DOMAIN Count(s.doq, key) = DOMAIN s.doq \union {key}
        BY CountAdds
      <4> HIDE DEF doq
      <4>2. DOMAIN Count(s.doq, doq) = DOMAIN s.doq \union {doq}
        BY <4>1
      <4> QED BY <3>1, <4>2
    <3> QED BY <2>2, <3>1
  <2>8. DOMAIN s.openvpn \subseteq DOMAIN d
    <3>1. CASE d = Count(s.openvpn, UdpKey(f))
      <4>1. DOMAIN Count(s.openvpn, UdpKey(f)) = DOMAIN s.openvpn \union {UdpKey(f)}
        BY CountAdds
      <4> QED BY <3>1, <4>1
    <3> QED BY <2>5, <3>1
  <2>9. CASE shakes
    <3>1. DOMAIN b = DOMAIN s.wireguard \union {UdpKey(f)}
      BY <2>3, <2>9, CountAdds
    <3>2. /\ DOMAIN c = DOMAIN s.disguised \union {UdpKey(f)}
          /\ \A k \in DOMAIN s.disguised : c[k] = s.disguised[k]
      BY <2>4, <2>9 DEF Upsert, Lookup
    <3> QED BY <2>1, <2>6, <2>7, <2>8, <3>1, <3>2 DEF TunnelsGrow, TunnelShape
  <2>10. CASE ~shakes
    <3>1. b = s.wireguard /\ c = s.disguised
      BY <2>3, <2>4, <2>10
    <3> QED BY <2>1, <2>6, <2>7, <2>8, <3>1 DEF TunnelsGrow, TunnelShape
  <2> QED BY <2>9, <2>10
<1>3. CASE f.proto # "ipip" /\ f.proto # "udp"
  <2>1. TunnelUpdate(s, f) = s
    BY <1>3 DEF TunnelUpdate
  <2> QED BY <2>1 DEF TunnelsGrow
<1> QED BY <1>1, <1>2, <1>3

\* What the detectors of these rules hold is finite, and has its fields.
Kept(d) ==
  /\ IsFiniteSet(d.dns_tunneling.names)
  /\ IsFiniteSet(d.dga) /\ \A m \in d.dga : m[2].score \in Int
  /\ IsFiniteSet(d.tld)
  /\ IsFiniteSet(d.dns_beacon)
  /\ IsFiniteSet(d.kerberos)
  /\ IsFiniteSet(d.exposure.pipes)
  /\ DOMAIN d.exposure = {"db", "greeted", "pipes", "flows"}
  /\ DOMAIN d.credentials = {"seen", "upgraded", "flows"}
  /\ DOMAIN d.ics = {"presence", "writes", "flows"}
  /\ Marked(d.exposure.flows)
  /\ Marked(d.insecure)
  /\ Marked(d.smb.flows)
  /\ TunnelShape(d.tunnel)

\* The evidence of these rules only accumulates from d to e.
Accumulates(d, e) ==
  /\ d.dns_tunneling.zones \subseteq e.dns_tunneling.zones
  /\ d.dns_tunneling.names \subseteq e.dns_tunneling.names
  /\ d.dga \subseteq e.dga
  /\ d.tld \subseteq e.tld
  /\ d.dot \subseteq e.dot
  /\ d.dns_beacon \subseteq e.dns_beacon
  /\ d.credentials.seen \subseteq e.credentials.seen
  /\ d.smb.crossings \subseteq e.smb.crossings
  /\ MarksGrow(d.smb.flows, e.smb.flows)
  /\ d.kerberos \subseteq e.kerberos
  /\ d.ics.writes \subseteq e.ics.writes
  /\ ExposureGrows(d.exposure, e.exposure)
  /\ MarksGrow(d.insecure, e.insecure)
  /\ TunnelsGrow(d.tunnel, e.tunnel)

\* Nothing read, nothing lost.
LEMMA AccumulatesNothing ==
  ASSUME NEW d PROVE Accumulates(d, d)
  BY DEF Accumulates, MarksGrow, ExposureGrows, TunnelsGrow

\* More evidence, and the alerts stand.
LEMMA LastingStands ==
  ASSUME NEW d, NEW e, Accumulates(d, e), Kept(e)
  PROVE  Stands(Lasting(d), Lasting(e))
<1>1. Stands(DnsTunnelAlerts(d.dns_tunneling), DnsTunnelAlerts(e.dns_tunneling))
  BY DnsTunnelStands DEF Accumulates, Kept
<1>2. Stands(DgaAlerts(d.dga), DgaAlerts(e.dga))
  BY DgaStands DEF Accumulates, Kept
<1>3. Stands(SuspiciousTldAlerts(d.tld), SuspiciousTldAlerts(e.tld))
  BY SuspiciousTldStands DEF Accumulates, Kept
<1>4. Stands(DotAlerts(d.dot), DotAlerts(e.dot))
  BY DotStands DEF Accumulates
<1>5. Stands(DnsBeaconAlerts(d.dns_beacon), DnsBeaconAlerts(e.dns_beacon))
  BY DnsBeaconStands DEF Accumulates, Kept
<1>6. Stands(CredentialsAlerts(d.credentials), CredentialsAlerts(e.credentials))
  BY CredentialsStand DEF Accumulates
<1>7. Stands(SmbAlerts(d.smb), SmbAlerts(e.smb))
  BY SmbStands DEF Accumulates
<1>8. Stands(Abuses(d.kerberos), Abuses(e.kerberos))
  BY AbusesStand DEF Accumulates, Kept
<1>9. Stands(Writings(d.ics), Writings(e.ics))
  BY WritingsStand DEF Accumulates
<1>10. Stands(ExposureAlerts(d.exposure), ExposureAlerts(e.exposure))
  BY ExposureStands DEF Accumulates, Kept
<1>11. Stands(InsecureAlerts(d.insecure), InsecureAlerts(e.insecure))
  BY InsecureStands DEF Accumulates
<1>12. Stands(TunnelAlerts(d.tunnel), TunnelAlerts(e.tunnel))
  BY TunnelsStand DEF Accumulates
<1>13. \A a \in Lasting(d) :
          \/ a \in DnsTunnelAlerts(d.dns_tunneling) \/ a \in DgaAlerts(d.dga)
          \/ a \in SuspiciousTldAlerts(d.tld) \/ a \in DotAlerts(d.dot)
          \/ a \in DnsBeaconAlerts(d.dns_beacon) \/ a \in CredentialsAlerts(d.credentials)
          \/ a \in SmbAlerts(d.smb) \/ a \in Abuses(d.kerberos) \/ a \in Writings(d.ics)
          \/ a \in ExposureAlerts(d.exposure) \/ a \in InsecureAlerts(d.insecure)
          \/ a \in TunnelAlerts(d.tunnel)
  BY DEF Lasting, Abuses, Writings
<1>14. DnsTunnelAlerts(e.dns_tunneling) \union DgaAlerts(e.dga)
       \union SuspiciousTldAlerts(e.tld) \union DotAlerts(e.dot)
       \union DnsBeaconAlerts(e.dns_beacon) \union CredentialsAlerts(e.credentials)
       \union SmbAlerts(e.smb) \union Abuses(e.kerberos) \union Writings(e.ics)
       \union ExposureAlerts(e.exposure) \union InsecureAlerts(e.insecure)
       \union TunnelAlerts(e.tunnel) \subseteq Lasting(e)
  BY DEF Lasting, Abuses, Writings
<1> QED BY <1>1, <1>2, <1>3, <1>4, <1>5, <1>6, <1>7, <1>8, <1>9, <1>10, <1>11, <1>12,
          <1>13, <1>14 DEF Stands

\* What a frame does to these detectors.
LEMMA FedParts ==
  ASSUME NEW d, NEW f
  PROVE  /\ Fed(d, f).dns_tunneling = DnsTunnelUpdate(d.dns_tunneling, f)
         /\ Fed(d, f).dga = DgaUpdate(d.dga, f)
         /\ Fed(d, f).tld = SuspiciousTldUpdate(d.tld, f)
         /\ Fed(d, f).dot = DotUpdate(d.dot, f)
         /\ Fed(d, f).dns_beacon = DnsBeaconUpdate(d.dns_beacon, f)
         /\ Fed(d, f).credentials = CredentialsUpdate(d.credentials, f)
         /\ Fed(d, f).smb = SmbUpdate(d.smb, f)
         /\ Fed(d, f).kerberos = KerberosUpdate(d.kerberos, f)
         /\ Fed(d, f).ics = IcsUpdate(d.ics, f)
         /\ Fed(d, f).exposure = ExposureUpdate(d.exposure, f)
         /\ Fed(d, f).insecure = InsecureUpdate(d.insecure, f)
         /\ Fed(d, f).tunnel = TunnelUpdate(d.tunnel, f)
  BY DEF Fed

\* A query only adds to the zones and names of tunnelling.
LEMMA TunnelNamesKeep ==
  ASSUME NEW s, IsFiniteSet(s.names), NEW f
  PROVE  /\ s.zones \subseteq DnsTunnelUpdate(s, f).zones
         /\ s.names \subseteq DnsTunnelUpdate(s, f).names
         /\ IsFiniteSet(DnsTunnelUpdate(s, f).names)
<1>1. PICK more : more = AddName(s.names, ZoneKey(f), f.name.q)
  OBVIOUS
<1>2. \A x : IsFiniteSet(s.names \union {x})
  BY FS_AddElement
<1>3. s.names \subseteq more /\ IsFiniteSet(more)
  BY <1>1, <1>2 DEF AddName
<1>4. PICK zones : zones = s.zones \union {ZoneKey(f)}
  OBVIOUS
<1>5. DnsTunnelUpdate(s, f) = s \/ DnsTunnelUpdate(s, f) = [zones |-> zones, names |-> more]
  BY <1>1, <1>4 DEF DnsTunnelUpdate
<1> QED BY <1>3, <1>4, <1>5

\* A scored name has a number for its score.
ScoresAssumption ==
  \A t \in Themes : \A f \in Capture[t] : Query(f) => f.name.score \in Int

\* A frame only adds to the evidence of these rules.
LEMMA FrameAccumulates ==
  ASSUME NEW d, Kept(d), NEW f, Query(f) => f.name.score \in Int
  PROVE  Accumulates(d, Fed(d, f)) /\ Kept(Fed(d, f))
<1> DEFINE e == Fed(d, f)
<1> HIDE DEF e
<1>0. /\ e.dns_tunneling = DnsTunnelUpdate(d.dns_tunneling, f)
      /\ e.dga = DgaUpdate(d.dga, f)
      /\ e.tld = SuspiciousTldUpdate(d.tld, f)
      /\ e.dot = DotUpdate(d.dot, f)
      /\ e.dns_beacon = DnsBeaconUpdate(d.dns_beacon, f)
      /\ e.credentials = CredentialsUpdate(d.credentials, f)
      /\ e.smb = SmbUpdate(d.smb, f)
      /\ e.kerberos = KerberosUpdate(d.kerberos, f)
      /\ e.ics = IcsUpdate(d.ics, f)
      /\ e.exposure = ExposureUpdate(d.exposure, f)
      /\ e.insecure = InsecureUpdate(d.insecure, f)
      /\ e.tunnel = TunnelUpdate(d.tunnel, f)
  BY FedParts DEF e
<1>1. /\ d.dns_tunneling.zones \subseteq e.dns_tunneling.zones
      /\ d.dns_tunneling.names \subseteq e.dns_tunneling.names
      /\ IsFiniteSet(e.dns_tunneling.names)
  BY <1>0, TunnelNamesKeep DEF Kept
<1>2. d.dga \subseteq e.dga /\ IsFiniteSet(e.dga) /\ \A m \in e.dga : m[2].score \in Int
  <2>1. \A x : IsFiniteSet(d.dga \union {x})
    BY FS_AddElement DEF Kept
  <2>2. CASE e.dga = d.dga
    BY <2>2 DEF Kept
  <2>3. CASE e.dga # d.dga
    <3>1. Query(f) /\ e.dga = d.dga \union {<<f.src, f.name>>}
      BY <1>0, <2>3 DEF DgaUpdate
    <3>2. <<f.src, f.name>>[2].score \in Int
      BY <3>1
    <3> QED BY <2>1, <3>1, <3>2 DEF Kept
  <2> QED BY <2>2, <2>3
<1>3. d.tld \subseteq e.tld /\ IsFiniteSet(e.tld)
  <2>1. \A x : IsFiniteSet(d.tld \union {x})
    BY FS_AddElement DEF Kept
  <2>2. e.tld = d.tld \/ e.tld = d.tld \union {<<f.src, f.name.tld, f.name.q>>}
    BY <1>0 DEF SuspiciousTldUpdate
  <2> QED BY <2>1, <2>2 DEF Kept
<1>4. d.dot \subseteq e.dot
  BY <1>0 DEF DotUpdate
<1>5. d.dns_beacon \subseteq e.dns_beacon /\ IsFiniteSet(e.dns_beacon)
  <2>1. \A x : IsFiniteSet(d.dns_beacon \union {x})
    BY FS_AddElement DEF Kept
  <2>2. e.dns_beacon = d.dns_beacon \/ e.dns_beacon = d.dns_beacon \union {f}
    BY <1>0 DEF DnsBeaconUpdate, Keep
  <2> QED BY <2>1, <2>2 DEF Kept
<1>6. /\ d.credentials.seen \subseteq e.credentials.seen
      /\ DOMAIN e.credentials = {"seen", "upgraded", "flows"}
  <2>1. DOMAIN d.credentials = {"seen", "upgraded", "flows"}
    BY DEF Kept
  <2>2. /\ d.credentials.seen \subseteq CredentialsUpdate(d.credentials, f).seen
        /\ DOMAIN CredentialsUpdate(d.credentials, f) = {"seen", "upgraded", "flows"}
    BY <2>1, CredentialsKeep
  <2> QED BY <1>0, <2>2
<1>7. /\ d.smb.crossings \subseteq e.smb.crossings
      /\ MarksGrow(d.smb.flows, e.smb.flows) /\ Marked(e.smb.flows)
  <2>1. /\ e.smb.flows = Track(d.smb.flows, f, SmbPorts)
        /\ d.smb.crossings \subseteq e.smb.crossings
    BY <1>0 DEF SmbUpdate
  <2> QED BY <2>1, TrackGrows DEF Kept
<1>8. d.kerberos \subseteq e.kerberos /\ IsFiniteSet(e.kerberos)
  <2>1. \A x : IsFiniteSet(d.kerberos \union {x})
    BY FS_AddElement DEF Kept
  <2>2. e.kerberos = d.kerberos \/ e.kerberos = d.kerberos \union {f}
    BY <1>0 DEF KerberosUpdate, Keep
  <2> QED BY <2>1, <2>2 DEF Kept
<1>9. d.ics.writes \subseteq e.ics.writes /\ DOMAIN e.ics = {"presence", "writes", "flows"}
  <2>1. DOMAIN d.ics = {"presence", "writes", "flows"}
    BY DEF Kept
  <2>2. /\ d.ics.writes \subseteq IcsUpdate(d.ics, f).writes
        /\ DOMAIN IcsUpdate(d.ics, f) = {"presence", "writes", "flows"}
    BY <2>1, WritingsKeep
  <2> QED BY <1>0, <2>2
<1>10. /\ ExposureGrows(d.exposure, e.exposure)
       /\ Marked(e.exposure.flows)
       /\ IsFiniteSet(e.exposure.pipes)
       /\ DOMAIN e.exposure = {"db", "greeted", "pipes", "flows"}
  BY <1>0, ExposureKeeps DEF Kept
<1>11. MarksGrow(d.insecure, e.insecure) /\ Marked(e.insecure)
  BY <1>0, TrackGrows DEF InsecureUpdate, Kept
<1>12. TunnelsGrow(d.tunnel, e.tunnel) /\ TunnelShape(e.tunnel)
  BY <1>0, TunnelsKeep DEF Kept
<1>13. Accumulates(d, e)
  BY <1>1, <1>2, <1>3, <1>4, <1>5, <1>6, <1>7, <1>8, <1>9, <1>10, <1>11, <1>12
     DEF Accumulates
<1>14. Kept(e)
  BY <1>1, <1>2, <1>3, <1>5, <1>6, <1>7, <1>8, <1>9, <1>10, <1>11, <1>12 DEF Kept
<1> QED BY <1>13, <1>14 DEF e

\* And no less when some of them miss it.
LEMMA MissingAccumulates ==
  ASSUME NEW d, Kept(d), NEW f, Query(f) => f.name.score \in Int, NEW deaf
  PROVE  Accumulates(d, Heard(d, f, deaf)) /\ Kept(Heard(d, f, deaf))
<1> DEFINE e == Fed(d, f)
           h == Heard(d, f, deaf)
<1>1. Accumulates(d, e) /\ Kept(e)
  BY FrameAccumulates
<1>2. Accumulates(d, d)
  BY AccumulatesNothing
<1>3. \A name \in DOMAIN Fresh : h[name] \in {d[name], e[name]}
  BY HearsOrNot
<1> HIDE DEF e, h
<1>4. /\ h.dns_tunneling \in {d.dns_tunneling, e.dns_tunneling}
      /\ h.dga \in {d.dga, e.dga} /\ h.tld \in {d.tld, e.tld} /\ h.dot \in {d.dot, e.dot}
      /\ h.dns_beacon \in {d.dns_beacon, e.dns_beacon}
      /\ h.credentials \in {d.credentials, e.credentials}
      /\ h.smb \in {d.smb, e.smb} /\ h.kerberos \in {d.kerberos, e.kerberos}
      /\ h.ics \in {d.ics, e.ics} /\ h.exposure \in {d.exposure, e.exposure}
      /\ h.insecure \in {d.insecure, e.insecure} /\ h.tunnel \in {d.tunnel, e.tunnel}
  BY <1>3, Registered
<1>5. Accumulates(d, h)
  BY <1>1, <1>2, <1>4 DEF Accumulates
<1>6. Kept(h)
  BY <1>1, <1>4 DEF Kept
<1> QED BY <1>5, <1>6 DEF h

\* The capture is one of Themes, and its detectors hold what they should.
StandInv == theme \in Themes /\ Kept(det)

\* What the detectors of lasting alerts hold is finite and well formed, along
\* any capture (__init__ and update() of the twelve detectors).
THEOREM StandInvariant == ASSUME ScoresAssumption PROVE Spec => []StandInv
<1>1. ASSUME Init PROVE StandInv
  <2>1. /\ det.dns_tunneling = DnsTunnelInit /\ det.dga = DgaInit
        /\ det.tld = SuspiciousTldInit /\ det.dns_beacon = DnsBeaconInit
        /\ det.kerberos = KerberosInit /\ det.exposure = ExposureInit
        /\ det.credentials = CredentialsInit /\ det.ics = IcsInit
        /\ det.insecure = InsecureInit /\ det.smb = SmbInit /\ det.tunnel = TunnelInit
    BY <1>1 DEF Init, Fresh
  <2>2. IsFiniteSet({})
    BY FS_EmptySet
  <2>3. Marked(NoFlows)
    BY DEF Marked, NoFlows
  <2>4. TunnelShape(TunnelInit)
    BY DEF TunnelShape, TunnelInit
  <2>5. /\ DOMAIN ExposureInit = {"db", "greeted", "pipes", "flows"}
        /\ ExposureInit.flows = NoFlows /\ ExposureInit.pipes = {}
    BY DEF ExposureInit
  <2>6. /\ DOMAIN CredentialsInit = {"seen", "upgraded", "flows"}
        /\ DOMAIN IcsInit = {"presence", "writes", "flows"}
    BY DEF CredentialsInit, IcsInit
  <2>7. Kept(det)
    BY <2>1, <2>2, <2>3, <2>4, <2>5, <2>6
       DEF Kept, DnsTunnelInit, DgaInit, SuspiciousTldInit, DnsBeaconInit, KerberosInit,
           InsecureInit, SmbInit
  <2> QED BY <1>1, <2>7 DEF Init, StandInv
<1>2. ASSUME StandInv, [Next]_vars PROVE StandInv'
  <2>1. ASSUME NEW f \in Capture[theme], NEW deaf \in SUBSET Deaf, Receive(f, deaf)
        PROVE  StandInv'
    <3>1. det' = Heard(det, f, deaf) /\ theme' = theme
      BY <2>1 DEF Receive
    <3>2. Query(f) => f.name.score \in Int
      BY <1>2, <2>1 DEF StandInv, ScoresAssumption
    <3>3. Kept(Heard(det, f, deaf))
      BY <1>2, <3>2, MissingAccumulates DEF StandInv
    <3> QED BY <1>2, <3>1, <3>3 DEF StandInv
  <2>2. ASSUME NEW failed \in SUBSET Faulty, Finish(failed) PROVE StandInv'
    BY <1>2, <2>2 DEF Finish, StandInv
  <2>3. CASE UNCHANGED vars
    BY <1>2, <2>3 DEF vars, StandInv
  <2> QED BY <1>2, <2>1, <2>2, <2>3 DEF Next
<1> QED BY <1>1, <1>2, PTL DEF Spec

\* Reading on never withdraws or softens a lasting alert, whatever the capture
\* and whatever part of it was read (update() and finalize() of the detectors
\* Lasting names).
THEOREM EvidenceStands == ASSUME ScoresAssumption PROVE Spec => AlertsStand
<1>1. ASSUME StandInv, [Next]_vars PROVE Stands(Lasting(det), Lasting(det'))
  <2>1. ASSUME NEW f \in Capture[theme], NEW deaf \in SUBSET Deaf, Receive(f, deaf)
        PROVE  Stands(Lasting(det), Lasting(det'))
    <3>1. det' = Heard(det, f, deaf)
      BY <2>1 DEF Receive
    <3>2. Query(f) => f.name.score \in Int
      BY <1>1, <2>1 DEF StandInv, ScoresAssumption
    <3>3. Accumulates(det, Heard(det, f, deaf)) /\ Kept(Heard(det, f, deaf))
      BY <1>1, <3>2, MissingAccumulates DEF StandInv
    <3>4. Stands(Lasting(det), Lasting(Heard(det, f, deaf)))
      BY <3>3, LastingStands
    <3> QED BY <3>1, <3>4
  <2>2. CASE det' = det
    <3>1. Stands(Lasting(det), Lasting(det))
      BY <1>1, AccumulatesNothing, LastingStands DEF StandInv
    <3> QED BY <2>2, <3>1
  <2>3. ASSUME NEW failed \in SUBSET Faulty, Finish(failed) PROVE det' = det
    BY <2>3 DEF Finish
  <2>4. UNCHANGED vars => det' = det
    BY DEF vars
  <2> QED BY <1>1, <2>1, <2>2, <2>3, <2>4 DEF Next
<1>2. StandInv /\ [Next]_vars =>
        [\A a \in Lasting(det) : \E b \in Lasting(det') :
           SameMatter(a, b) /\ Rank(b.sev) >= Rank(a.sev)]_vars
  BY <1>1 DEF Stands, AsSevere
<1> QED BY <1>2, StandInvariant, PTL DEF Spec, AlertsStand
=============================================================================
