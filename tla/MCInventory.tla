---------------------------- MODULE MCInventory ----------------------------
(* A capture with more artifacts than may be raised at once, one with an     *)
(* artifact and a machine that announces its name, and one where two         *)
(* machines claim the address.                                               *)
EXTENDS Inventory, TLC

CONSTANTS m1, m2

With(vs, ms, ns) == [artifacts |-> vs, claims |-> [i \in Ip |-> ms], names |-> ns]

Captures == {With({1, 2}, {}, {}), With({2}, {m1}, {m1}), With({}, {m1, m2}, {})}

Symmetry == Permutations(Analysis) \union Permutations(User)
=============================================================================
