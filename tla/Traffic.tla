------------------------------- MODULE Traffic -------------------------------
(***************************************************************************)
(* What the detectors of pcap_analyzer share: frames, the local network,   *)
(* the severity ladder, the shape of an alert, sliding windows.            *)
(*                                                                         *)
(* A frame is a record with a frame number id, a stamp ts and the fields   *)
(* its layer has; two frames of a capture differ in id, so the lists that  *)
(* the detectors keep are sets of frames here.                             *)
(***************************************************************************)
EXTENDS Integers, Sequences, FiniteSets, SequencesExt, TLC

CONSTANTS
  Local,        \* the hosts for which _is_local_ip is true
  Sanctioned,   \* hosts whose names in the capture match a bulk-transfer service
  KnownService, \* hosts whose names in the capture match a large platform
  NoHost,       \* no address
  Threshold     \* settings['thresholds'], by the names the code uses

IsLocal(h) == h \in Local

-----------------------------------------------------------------------------
(* Severities *)

Ladder == <<"info", "low", "medium", "high", "critical">>

Rank(sev) == CHOOSE i \in DOMAIN Ladder : Ladder[i] = sev

\* One notch down, but not below the floor.
Lowered(sev, floor) == Ladder[Max({Rank(floor), Rank(sev) - 1})]

Raised(sev) == Ladder[Min({Len(Ladder), Rank(sev) + 1})]

Capped(sev, cap) == Ladder[Min({Rank(sev), Rank(cap)})]

SanctionedDowngrade(dst, sev) ==
  IF dst \in Sanctioned THEN Lowered(sev, "info") ELSE sev

KnownServiceDowngrade(dst, sev) ==
  IF dst \in KnownService THEN Lowered(sev, "low") ELSE sev

-----------------------------------------------------------------------------
(* Alerts.  rule stands for category and title, about for what else in the *)
(* title or the address fields tells two alerts of a rule apart (it is     *)
(* paired with the rule, for what it is differs between rules), n for the  *)
(* count the alert reports.                                                *)

Alert(rule, sev, src, dst, about, n) ==
  [rule |-> rule, sev |-> sev, src |-> src, dst |-> dst,
   about |-> <<rule, about>>, n |-> n]

\* Two alerts on the same matter.
SameMatter(a, b) ==
  /\ a.rule = b.rule
  /\ a.src = b.src
  /\ a.dst = b.dst
  /\ a.about = b.about

-----------------------------------------------------------------------------
(* Dictionaries: an entry is set, or read with a default. *)

Upsert(fn, k, v) == [x \in DOMAIN fn \union {k} |-> IF x = k THEN v ELSE fn[x]]
Lookup(fn, k, default) == IF k \in DOMAIN fn THEN fn[k] ELSE default

-----------------------------------------------------------------------------
(* Frames in time *)

Before(f, g) == f.ts < g.ts \/ (f.ts = g.ts /\ f.id < g.id)

\* A set of frames, sorted by stamp.
InTime(F) ==
  [i \in 1..Cardinality(F) |->
     CHOOSE f \in F : Cardinality({g \in F : Before(g, f)}) = i - 1]

Stamps(F) == {f.ts : f \in F}
FirstStamp(F) == Min(Stamps(F))
LastStamp(F) == Max(Stamps(F))
Duration(F) == IF F = {} THEN 0 ELSE LastStamp(F) - FirstStamp(F)

\* Append an observation to a list when the guard of update() lets it through.
Keep(F, f, observed) == IF observed THEN F \union {f} ELSE F

\* The values of a field-like function over the frames.
Sum(F, value) == MapThenSumSet(LAMBDA f : value[f], F)

-----------------------------------------------------------------------------
(* The two-pointer sweep that the scan detectors run over their sorted     *)
(* observations: the right edge moves while it is inside the window, the   *)
(* left item leaves.  peak is the largest number of distinct items.        *)

\* mutant: the item that leaves the window stays counted
AdvanceKeepsLeft(s, item, width, a, i) ==
  LET right == Max({a.right} \union {k \in DOMAIN s : s[k].ts - s[i].ts <= width})
      counts == [x \in DOMAIN a.counts |->
                   a.counts[x]
                   + Cardinality({k \in (a.right + 1)..right : item[s[k]] = x})]
      distinct == Cardinality({x \in DOMAIN counts : counts[x] > 0})
  IN [right |-> right, counts |-> counts, peak |-> Max({a.peak, distinct})]

Advance(s, item, width, a, i) ==
  LET right == Max({a.right} \union {k \in DOMAIN s : s[k].ts - s[i].ts <= width})
      counts == [x \in DOMAIN a.counts |->
                   a.counts[x]
                   + Cardinality({k \in (a.right + 1)..right : item[s[k]] = x})]
      distinct == Cardinality({x \in DOMAIN counts : counts[x] > 0})
  IN [right |-> right,
      counts |-> [counts EXCEPT ![item[s[i]]] = @ - 1],
      peak |-> Max({a.peak, distinct})]

\* item is a function on the frames F: what is counted.
SlidingPeak(F, item, width) ==
  LET s == InTime(F)
      start == [right |-> 0, counts |-> [x \in {item[f] : f \in F} |-> 0], peak |-> 0]
      Slide(a, i) == Advance(s, item, width, a, i)
  IN FoldLeft(Slide, start, [i \in DOMAIN s |-> i]).peak

\* What the sweep computes: the most distinct items in any window of this
\* width.
PeakOf(F, item, width) ==
  Max({0} \union
      {Cardinality({item[g] : g \in {h \in F : h.ts \in f.ts..(f.ts + width)}}) :
         f \in F})

\* The frames of the first window that holds the most distinct items.
DensestWindow(F, item, width) ==
  LET Window(f) == {g \in F : (g = f \/ Before(f, g)) /\ g.ts <= f.ts + width}
      Items(f) == Cardinality({item[g] : g \in Window(f)})
      first == CHOOSE f \in F : \A g \in F \ {f} :
                 Items(g) < Items(f) \/ (Items(g) = Items(f) /\ Before(f, g))
  IN IF F = {} THEN {} ELSE Window(first)

\* The element in the middle of the sorted values (the upper one of two).
UpperMedian(F, value) ==
  LET below(n) == Cardinality({f \in F : value[f] < n})
      upto(n) == Cardinality({f \in F : value[f] <= n})
      middle == Cardinality(F) \div 2
  IN CHOOSE n \in {value[f] : f \in F} : below(n) <= middle /\ middle < upto(n)
=============================================================================
