--------------------------- MODULE MCAlertTriage ----------------------------
(* Two hosts; an alert about one of them, and artifacts seen for the first   *)
(* time, which name no host; the rules an admin may submit: a host, a small  *)
(* network, one that pins nothing and one that names too wide a network.     *)
EXTENDS AlertTriage

Hosts == {1, 2}
Networks == {{2}, Hosts}
Wide == {Hosts}

SweepBy1 == [kind |-> "sweep", src |-> {1}, dst |-> {2}, ip |-> 1, about |-> 1,
             severe |-> TRUE]
NewMac(n) == [kind |-> "first_seen", src |-> {}, dst |-> {}, ip |-> 0, about |-> n,
              severe |-> FALSE]
Found == {SweepBy1, NewMac(3)}
Artifacts == {NewMac(3), NewMac(4)}

Unpinned == [kinds |-> {}, src |-> 0, srcNet |-> {}, dst |-> 0, dstNet |-> {}]
Specs == {Unpinned,
          [Unpinned EXCEPT !.src = 1, !.dstNet = {2}],
          [Unpinned EXCEPT !.dstNet = Hosts]}

SaverSymmetry == Permutations(Saver)
=============================================================================
