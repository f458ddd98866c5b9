------------------------------- MODULE TcpFlows -------------------------------
(***************************************************************************)
(* TcpFlowTracker: handshake, payload and ICMP evidence per flow, a flow   *)
(* being <<server, client, port of the server>>.  Eight detectors keep a   *)
(* tracker of their own; its state is a function from the flows seen to    *)
(* their records.                                                          *)
(***************************************************************************)
EXTENDS Traffic

Syn(f) == "S" \in f.flags
Ack(f) == "A" \in f.flags
PureSyn(f) == Syn(f) /\ ~Ack(f)
SynAck(f) == Syn(f) /\ Ack(f)

NoFlows == << >>

\* seen: the *_seen and icmp_unreachable fields that are true.
NewFlow == [seen |-> {}, packets |-> 0, up |-> 0, down |-> 0, stamps |-> {}]

FlowAt(flows, key) == Lookup(flows, key, NewFlow)

Stretch(stamps, t) == {Min(stamps \union {t}), Max(stamps \union {t})}

Marks(rec, f, fromClient) ==
     {m \in {"rst"} : "R" \in f.flags}
  \union {m \in {"fin"} : "F" \in f.flags}
  \union {m \in {"syn"} : fromClient /\ PureSyn(f)}
  \union {m \in {"client_ack"} :
            fromClient /\ Ack(f) /\ ~Syn(f) /\ "syn_ack" \in rec.seen}
  \union {m \in {"syn_ack"} : ~fromClient /\ SynAck(f)}
  \union {m \in {"data"} : f.len > 0}

ObserveTcp(flows, key, f, fromClient) ==
  LET rec == FlowAt(flows, key)
      next == [seen    |-> rec.seen \union Marks(rec, f, fromClient),
               packets |-> rec.packets + 1,
               up      |-> rec.up + (IF fromClient THEN f.len ELSE 0),
               down    |-> rec.down + (IF fromClient THEN 0 ELSE f.len),
               stamps  |-> Stretch(rec.stamps, f.ts)]
  IN Upsert(flows, key, next)

\* An ICMP error that quotes a TCP header: about is the quoted segment
\* [src, sport, dst, dport].
IcmpErrorKey(f, ports) ==
  IF f.about.dport \in ports THEN <<f.about.dst, f.about.src, f.about.dport>>
                             ELSE <<f.about.src, f.about.dst, f.about.sport>>

ObserveIcmpError(flows, f, ports, createMissing) ==
  IF \/ f.kind # "unreachable"
     \/ {f.about.dport, f.about.sport} \intersect ports = {}
     \/ ~createMissing /\ IcmpErrorKey(f, ports) \notin DOMAIN flows
  THEN flows
  ELSE LET key == IcmpErrorKey(f, ports)
           rec == FlowAt(flows, key)
       IN Upsert(flows, key, [rec EXCEPT !.seen = @ \union {"icmp"},
                                         !.stamps = Stretch(@, f.ts)])

\* mutant: any segment of the client makes the flow established
StatusOfAnyAck(rec) ==
  CASE rec.seen \intersect {"client_ack", "data", "syn"} # {} -> "established"
    [] "syn_ack" \in rec.seen -> "open_no_ack"
    [] "icmp" \in rec.seen    -> "icmp_unreachable"
    [] "rst" \in rec.seen     -> "scan_rejected"
    [] OTHER                  -> "scan_no_response"

StatusOf(rec) ==
  IF rec.seen \intersect {"client_ack", "data"} # {} THEN "established"
  ELSE IF "syn_ack" \in rec.seen THEN "open_no_ack"
  ELSE IF "icmp" \in rec.seen THEN "icmp_unreachable"
  ELSE IF "rst" \in rec.seen THEN "scan_rejected"
  ELSE "scan_no_response"

\* None when the tracker has no record of the flow.
FlowStatus(flows, key) ==
  IF key \in DOMAIN flows THEN StatusOf(flows[key]) ELSE "none"

BytesExchanged(flows, key) == FlowAt(flows, key).up + FlowAt(flows, key).down

Unanswered == {"scan_rejected", "scan_no_response", "icmp_unreachable"}

\* The order in which a group of flows is summed up: the best status wins.
StatusOrder == <<"established", "open_no_ack", "icmp_unreachable",
                 "scan_rejected", "scan_no_response">>

BestStatus(statuses) ==
  StatusOrder[Min({i \in DOMAIN StatusOrder : StatusOrder[i] \in statuses}
                  \union {Len(StatusOrder)})]
=============================================================================
