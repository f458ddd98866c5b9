----------------------------- MODULE Aggregators -----------------------------
(***************************************************************************)
(* The aggregators: what the one pass over the capture accumulates for the *)
(* report and for the detectors that run after it.  As for the detectors,  *)
(* XInit is __init__, XUpdate(s, f) is update() on a frame; what           *)
(* finalize() derives has a name of its own.                               *)
(*                                                                         *)
(* Every frame has proto, src, dst, ts, size; mac, dmac, ttl and dhcp when *)
(* the capture has them.  A TCP segment says "hello", "server_hello",      *)
(* "cert", "request", "h2c", "ssh_banner", "kexinit" or anything else.     *)
(***************************************************************************)
EXTENDS Traffic

CONSTANTS
  V6,          \* the IPv6 addresses
  GroupMacs,   \* broadcast, multicast and zero MACs
  SmbFamily,   \* SMB_PORTS
  Interval,    \* 10 seconds per bin of the timeline
  Methods,     \* HTTP_METHODS
  Outliers(_), \* flow -> severity, the verdict of IsolationForest on the features
  Rules,       \* the enabled user rules
  NoWindow,    \* a rule without window_seconds
  MaxNamedIps, \* MAX_IPS
  MaxNames     \* MAX_NAMES

HasField(f, field) == field \in DOMAIN f
OnIp(f) == f.proto # "arp"
IsV4(f) == OnIp(f) /\ {f.src, f.dst} \intersect V6 = {}
Loaded(f) == f.proto = "tcp" /\ f.len > 0
Stream(f) == <<f.src, f.sport, f.dst, f.dport>>

-----------------------------------------------------------------------------
(* Summary, addresses, statistics *)

SummaryInit == [count |-> 0, bytes |-> 0, stamps |-> {}]

SummaryUpdate(s, f) ==
  [count  |-> s.count + 1,
   bytes  |-> s.bytes + f.size,
   stamps |-> {Min(s.stamps \union {f.ts}), Max(s.stamps \union {f.ts})}]

CaptureDuration(s) == IF s.count = 0 THEN 0 ELSE Max(s.stamps) - Min(s.stamps)

\* Pairs <<mac, ip>>.
MacIpInit == {}

MacIpUpdate(s, f) ==
  s \union (IF HasField(f, "mac") /\ f.src # NoHost THEN {<<f.mac, f.src>>} ELSE {})
    \union (IF HasField(f, "dmac") /\ OnIp(f) THEN {<<f.dmac, f.dst>>} ELSE {})

IpMacs(s) == [ip \in {p[2] : p \in s} |-> {p[1] : p \in {q \in s : q[2] = ip}}]

\* The IP frames; what is reported per address is summed over them.
IpStatsInit == {}
IpStatsUpdate(F, f) == Keep(F, f, OnIp(f))

BytesBy(F, ip) == Sum({f \in F : f.src = ip}, [f \in F |-> f.size])
BytesTo(F, ip) == Sum({f \in F : f.dst = ip}, [f \in F |-> f.size])

\* The names a frame is counted under: its transport, and the application the
\* first matching port stands for.
Application == <<<<"HTTP", {80}>>, <<"HTTPS", {443}>>, <<"SSH", {22}>>, <<"FTP", {21}>>,
                 <<"Telnet", {23}>>, <<"SMTP", {25}>>, <<"SMB", SmbFamily>>>>

AppNames(f) ==
  LET hits == {i \in DOMAIN Application :
                 Application[i][2] \intersect {f.sport, f.dport} # {}}
  IN IF hits = {} THEN {} ELSE {Application[Min(hits)][1]}

QuicPorts == {443, 80}
LongHeader(f) == /\ f.proto = "udp" /\ f.carries = "quic_long"
                 /\ {f.sport, f.dport} \intersect QuicPorts # {}

ProtocolNames(f) ==
  CASE f.proto = "tcp"  -> {"TCP"} \union AppNames(f)
                           \union {n \in {"HTTP/2"} : f.says = "h2c"}
    [] f.proto = "dns"  -> {"UDP", "DNS"}
    [] f.proto = "udp"  -> {"UDP"} \union {n \in {"QUIC"} : LongHeader(f)}
    [] f.proto = "icmp" -> {"ICMP"}
    [] f.proto = "arp"  -> {"ARP"}
    [] OTHER            -> {}

\* Pairs <<name, frame>>.
ProtocolStatsInit == {}
ProtocolStatsUpdate(s, f) == s \union {<<n, f>> : n \in ProtocolNames(f)}

\* The peers of an address under a name, in either direction.
PeersOf(s, ip, name) ==
  {p[2].dst : p \in {q \in s : q[1] = name /\ q[2].src = ip}}
  \union {p[2].src : p \in {q \in s : q[1] = name /\ q[2].dst = ip}}

\* first: the stamp of the first frame that arrived, -1 before it.
TimelineInit == [first |-> -1, bins |-> << >>]

\* int() rounds toward zero.
Bin(first, ts) == IF ts >= first THEN (ts - first) \div Interval
                  ELSE -((first - ts) \div Interval)

TimelineUpdate(s, f) ==
  LET first == IF s.first = -1 THEN f.ts ELSE s.first
      bin == Bin(first, f.ts)
  IN [first |-> first, bins |-> Upsert(s.bins, bin, Lookup(s.bins, bin, 0) + 1)]

-----------------------------------------------------------------------------
(* Streams: the head of each for the parsers, more of the likely HTTP ones  *)
(* for the carver.                                                          *)

\* stream -> bytes kept and the segment it starts with.
TcpFlowInit == << >>

TcpFlowUpdate(s, f) ==
  IF Loaded(f)
  THEN LET old == Lookup(s, Stream(f), [len |-> 0, head |-> f])
       IN Upsert(s, Stream(f),
            [old EXCEPT !.len = Min({@ + f.len, Threshold.tcp_flow_max_bytes})])
  ELSE s

LikelyHttp == {80, 8080, 8000, 8008, 3000, 5000}

\* kept: stream -> bytes; total: their sum; dropped: refused segments.
CarvingInit == [kept |-> << >>, total |-> 0, dropped |-> 0]

\* mutant: a stream already in keeps filling up to its own cap
RoomAsDocumented(s, stream) ==
  Threshold.carving_flow_max - Lookup(s.kept, stream, 0)

\* Room for more of a stream: what is left of its cap and of the total.
Room(s, stream) ==
  Min({Threshold.carving_flow_max - Lookup(s.kept, stream, 0),
       Threshold.carving_total_max - s.total})

CarvingUpdate(s, f) ==
  IF \/ ~Threshold.carving_enabled
     \/ ~Loaded(f)
     \/ {f.sport, f.dport} \intersect LikelyHttp = {}
  THEN s
  ELSE IF Stream(f) \notin DOMAIN s.kept /\ s.total >= Threshold.carving_total_max
  THEN [s EXCEPT !.dropped = @ + 1]
  ELSE LET take == Max({0, Min({f.len, Room(s, Stream(f))})}) IN
       [s EXCEPT !.kept = Upsert(@, Stream(f), Lookup(@, Stream(f), 0) + take),
                 !.total = @ + take]

-----------------------------------------------------------------------------
(* TLS, SSH, HTTP, QUIC: IPv4 only *)

TlsInit == [hellos |-> << >>, answers |-> << >>, certs |-> << >>]

TlsUpdate(s, f) ==
  IF Loaded(f) /\ IsV4(f)
  THEN CASE f.says = "hello"        -> [s EXCEPT !.hellos = Append(@, f)]
         [] f.says = "server_hello" -> [s EXCEPT !.answers = Append(@, f)]
         [] f.says = "cert"         -> [s EXCEPT !.certs = Append(@, f)]
         [] OTHER -> s
  ELSE s

\* server: connection -> who spoke a banner first; kex: <<src, dst, server?, fingerprint>>.
SshInit == [server |-> << >>, kex |-> {}]

SshConnection(f) == {<<f.src, f.sport>>, <<f.dst, f.dport>>}

SshServer(s, f) ==
  LET conn == SshConnection(f) IN
  IF conn \in DOMAIN s.server THEN s.server[conn]
  ELSE IF f.sport = 22 /\ f.dport # 22 THEN f.src
  ELSE IF f.dport = 22 /\ f.sport # 22 THEN f.dst ELSE NoHost

SshUpdate(s, f) ==
  IF ~Loaded(f) \/ ~IsV4(f) THEN s
  ELSE IF f.says = "ssh_banner"
  THEN [s EXCEPT !.server = @ @@ (SshConnection(f) :> f.src)]
  ELSE IF f.says = "kexinit" /\ 22 \in {f.sport, f.dport}
  THEN LET server == SshServer(s, f)
           serving == IF server = NoHost THEN f.sport = 22 ELSE server = f.src
       IN [s EXCEPT !.kex = @ \union {<<f.src, f.dst, serving, f.about>>}]
  ELSE s

HttpInit == [requests |-> << >>, seen |-> {}]

RequestKey(f) == <<Stream(f), f.method, f.head>>

AddRequest(s, f) ==
  IF f.says = "request" /\ f.method \in Methods /\ RequestKey(f) \notin s.seen
  THEN [requests |-> Append(s.requests, f), seen |-> s.seen \union {RequestKey(f)}]
  ELSE s

HttpUpdate(s, f) == IF Loaded(f) /\ IsV4(f) THEN AddRequest(s, f) ELSE s

\* The second pass of finalize(), over the heads of the streams: it finds the
\* requests over IPv6, with no stamp.
Requests(s, flows) ==
  LET heads == {flows[k].head : k \in {j \in DOMAIN flows :
                  j[4] \in LikelyHttp \/ j[2] \in {80, 8080}}}
      Again(t, f) == AddRequest(t, [f EXCEPT !.ts = 0])
  IN FoldLeft(Again, s, InTime(heads)).requests

\* flows: records of a QUIC flow in the order they were first seen.
QuicInit == [flows |-> << >>, h2c |-> {}]

\* The client first: the side whose port is not that of the service.
QuicKey(f) ==
  IF f.dport \in QuicPorts /\ f.sport \notin QuicPorts THEN <<f.src, f.dst>>
  ELSE IF f.sport \in QuicPorts /\ f.dport \notin QuicPorts THEN <<f.dst, f.src>>
  ELSE LET low == CHOOSE h \in {f.src, f.dst} : TRUE  \* the smaller address
       IN <<low, IF low = f.src THEN f.dst ELSE f.src>>

QuicUpdate(s, f) ==
  IF LongHeader(f)
  THEN LET at == {i \in DOMAIN s.flows : <<s.flows[i].src, s.flows[i].dst>> = QuicKey(f)}
           new == [src |-> QuicKey(f)[1], dst |-> QuicKey(f)[2], packets |-> 1,
                   bytes |-> f.size]
       IN IF at = {} THEN [s EXCEPT !.flows = Append(@, new)]
          ELSE [s EXCEPT !.flows[Min(at)].packets = @ + 1,
                         !.flows[Min(at)].bytes = @ + f.size]
  ELSE IF Loaded(f) /\ f.says = "h2c" /\ IsV4(f)
  THEN [s EXCEPT !.h2c = @ \union {Stream(f)}]
  ELSE s

\* The flow at this place comes before that at the other: a stable sort.
Heavier(flows, j, k) ==
  \/ flows[j].bytes > flows[k].bytes
  \/ flows[j].bytes = flows[k].bytes /\ j < k

QuicFlows(s) ==
  [i \in DOMAIN s.flows |->
     s.flows[CHOOSE k \in DOMAIN s.flows :
       Cardinality({j \in DOMAIN s.flows : Heavier(s.flows, j, k)}) = i - 1]]

QuicExternal(s) == {d \in {s.flows[i].dst : i \in DOMAIN s.flows} : ~IsLocal(d)}

\* The connections that speak HTTP/2: the cleartext preface, or either side's ALPN.
Http2Flows(s, tls) ==
  s.h2c
  \union {Stream(f) : f \in {g \in ToSet(tls.hellos) : "h2" \in g.alpn}}
  \union {<<f.dst, f.dport, f.src, f.sport>> :
            f \in {g \in ToSet(tls.answers) : "h2" \in g.alpn}}

-----------------------------------------------------------------------------
(* Assets, flow statistics, names *)

\* mac -> its addresses, its largest TTL, the DHCP vendor class said last.
AssetsInit == << >>

AssetsUpdate(s, f) ==
  IF HasField(f, "mac") /\ f.mac \notin GroupMacs
  THEN LET old == Lookup(s, f.mac, [ips |-> {}, ttl |-> 0, vendor |-> ""])
       IN Upsert(s, f.mac,
            [ips    |-> old.ips \union {ip \in {f.src} : IsV4(f)},
             ttl    |-> IF IsV4(f) /\ HasField(f, "ttl") THEN Max({old.ttl, f.ttl})
                        ELSE old.ttl,
             vendor |-> IF HasField(f, "vendor") THEN f.vendor ELSE old.vendor])
  ELSE s

FlowAnomalyInit == {}
FlowAnomalyUpdate(F, f) == Keep(F, f, IsV4(f) /\ f.proto \in {"tcp", "udp", "dns", "icmp"})

AnomalyKey(f) == <<f.src, f.dst, IF f.proto = "icmp" THEN 0 ELSE f.dport, f.proto>>

\* Flows of at least two packets are compared when there are enough of them.
FlowAnomalyAlerts(F) ==
  LET Of(k) == {f \in F : AnomalyKey(f) = k}
      compared == {k \in {AnomalyKey(f) : f \in F} : Cardinality(Of(k)) >= 2}
      odd == {k \in compared : Outliers(Of(k)) # "none"}
  IN IF Cardinality(compared) < Threshold.flow_anomaly_min_flows THEN {}
     ELSE {Alert("flow_anomaly", Outliers(Of(k)), k[1], k[2], <<k[3], k[4]>>,
                 Cardinality(Of(k))) : k \in odd}

\* ip -> the names DNS answers gave it.
DnsNamesInit == << >>

AddIpName(names, name) ==
  IF name # "" /\ Cardinality(names) < MaxNames THEN names \union {name} ELSE names

AddIpNames(s, ip, names) ==
  IF ip \notin DOMAIN s /\ Cardinality(DOMAIN s) >= MaxNamedIps THEN s
  ELSE Upsert(s, ip, FoldLeft(AddIpName, Lookup(s, ip, {}), names))

\* addresses: the A and AAAA records in order, each an ip and the name it is of,
\* which after a CNAME is not the name that was asked.
DnsNamesUpdate(s, f) ==
  IF f.proto = "dns" /\ f.response
  THEN LET Answered(t, rr) == AddIpNames(t, rr.ip, <<rr.owner, f.name.q>>)
       IN FoldLeft(Answered, s, f.addresses)
  ELSE s

-----------------------------------------------------------------------------
(* User rules.  A rule has id, proto, dport, says, direction, key,          *)
(* min_count, window, severity.                                             *)

\* <<rule id, group>> -> count, the stamps first and last to arrive, and the
\* endpoints of the first packet.
UserRulesInit == << >>

DirectionMatches(direction, f) ==
  CASE direction = "outbound" -> IsLocal(f.src) /\ ~IsLocal(f.dst)
    [] direction = "inbound"  -> ~IsLocal(f.src) /\ IsLocal(f.dst)
    [] direction = "lateral"  -> IsLocal(f.src) /\ IsLocal(f.dst)
    [] OTHER                  -> TRUE

\* "any" and 0 match everything.
PacketMatches(rule, f) ==
  /\ rule.proto \in {"any", f.proto}
  /\ rule.dport # 0 => HasField(f, "dport") /\ f.dport = rule.dport
  /\ DirectionMatches(rule.direction, f)
  /\ rule.says # "any" => HasField(f, "says") /\ f.says = rule.says

GroupKey(rule, f) ==
  CASE rule.key = "src"     -> <<f.src>>
    [] rule.key = "dst"     -> <<f.dst>>
    [] rule.key = "src+dst" -> <<f.src, f.dst>>
    [] rule.key = "src+dst_port" -> <<f.src, f.dport>>
    [] OTHER -> <<f.src, f.dst, f.dport>>

GroupAfter(g, f) == [g EXCEPT !.count = @ + 1, !.last = f.ts]

UserRulesUpdate(s, f) ==
  LET new == [count |-> 0, first |-> f.ts, last |-> f.ts, src |-> f.src, dst |-> f.dst]
      hit == {<<r.id, GroupKey(r, f)>> : r \in {q \in Rules : PacketMatches(q, f)}}
  IN IF IsV4(f)
     THEN [k \in DOMAIN s \union hit |->
             IF k \in hit THEN GroupAfter(Lookup(s, k, new), f) ELSE s[k]]
     ELSE s

\* A group alerts when it is large enough and all of it fits the window.
GroupFires(rule, g) ==
  /\ g.count >= rule.min_count
  /\ rule.window = NoWindow \/ g.first = 0 \/ g.last = 0 \/ g.last - g.first <= rule.window

UserRuleAlerts(s) ==
  UNION {{Alert(r.id, r.severity, s[k].src, s[k].dst, k[2], s[k].count)
            : k \in {j \in DOMAIN s : j[1] = r.id /\ GroupFires(r, s[j])}} : r \in Rules}
=============================================================================
