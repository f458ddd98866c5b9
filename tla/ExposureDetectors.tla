--------------------------- MODULE ExposureDetectors ---------------------------
(***************************************************************************)
(* What a perimeter or a domain should not show: tunnels, industrial       *)
(* protocols, databases reached from outside, named pipes and RPC          *)
(* interfaces of lateral movement.                                         *)
(*                                                                         *)
(* A UDP frame carries "quic_long", "wireguard_init", "openvpn_reset" or   *)
(* anything else; a TCP segment says "modbus_write", "db_hello", "pipe" or *)
(* "bind" (and about names the pipe or the interface) or anything else.    *)
(***************************************************************************)
EXTENDS TcpFlows

CONSTANTS
  IcsPorts,       \* ICS_PORTS: port -> protocol
  DbPorts,        \* EXPOSED_DB_PORTS: port -> label
  WellKnown,      \* ports under 1024 or in ALPN_WEB_OK_PORTS
  WireguardPorts, \* WIREGUARD_PORTS_BENIGN
  OpenvpnPorts,   \* OPENVPN_PORTS_BENIGN
  ExecPipes, AdminPipes, RoutinePipes, \* DCERPC_LATERAL_PIPES, by _pipe_tier
  Interfaces,     \* DCERPC_DANGEROUS_INTERFACES: interface -> severity
  Drsr,           \* MS-DRSR
  PrintInterfaces,
  MaxKdcs         \* 1000

-----------------------------------------------------------------------------
(* Tunnels *)

TunnelInit == [encapsulated |-> << >>, doq |-> << >>, wireguard |-> << >>,
               openvpn |-> << >>, disguised |-> << >>]

Count(counts, key) == Upsert(counts, key, Lookup(counts, key, 0) + 1)

CountIf(counts, key, seen) == IF seen THEN Count(counts, key) ELSE counts

UdpKey(f) == <<f.src, f.dst, f.dport>>
Ports(f) == {f.sport, f.dport}

\* disguised: whether the first handshake of a key avoided the standard ports.
\* A DoQ flow is born of a long header; later datagrams of it count whatever
\* they carry.
TunnelUpdate(s, f) ==
  CASE f.proto = "ipip" ->
         [s EXCEPT !.encapsulated =
            CountIf(@, <<f.src, f.dst, f.kind>>, IsLocal(f.src) # IsLocal(f.dst))]
    [] f.proto = "udp" ->
         LET doq == <<f.src, f.dst, 853>>
         IN [s EXCEPT
              !.doq = CountIf(@, doq, /\ 853 \in Ports(f) /\ ~IsLocal(f.dst)
                                      /\ doq \in DOMAIN @ \/ f.carries = "quic_long"),
              !.wireguard = CountIf(@, UdpKey(f), f.carries = "wireguard_init"),
              !.disguised = IF f.carries = "wireguard_init"
                            THEN Upsert(@, UdpKey(f), Lookup(@, UdpKey(f),
                                          Ports(f) \intersect WireguardPorts = {}))
                            ELSE @,
              !.openvpn = CountIf(@, UdpKey(f),
                                  /\ f.carries = "openvpn_reset"
                                  /\ Ports(f) \intersect (OpenvpnPorts \union {80, 443}) = {})]
    [] OTHER -> s

TunnelAlerts(s) ==
  {Alert("doq", "high", k[1], k[2], k[3], s.doq[k]) : k \in DOMAIN s.doq}
  \union
  {Alert("wireguard", IF s.disguised[k] THEN "high" ELSE "low", k[1], k[2], k[3],
         s.wireguard[k])
     : k \in DOMAIN s.wireguard}
  \union
  {Alert("openvpn", "high", k[1], k[2], k[3], s.openvpn[k]) : k \in DOMAIN s.openvpn}
  \union
  {Alert("encapsulation", "medium", k[1], k[2], k[3], s.encapsulated[k])
     : k \in DOMAIN s.encapsulated}

-----------------------------------------------------------------------------
(* Industrial protocols *)

\* presence: protocol -> frames <<source, destination, port, id>>; writes:
\* Modbus writes whose sender is outside.
IcsInit == [presence |-> {}, writes |-> {}, flows |-> NoFlows]

ToIcs(f) == f.dport \in DOMAIN IcsPorts

\* The far side of an industrial session is an arbitrary high port.
IcsSegment(f) ==
  /\ f.proto = "tcp"
  /\ Ports(f) \intersect DOMAIN IcsPorts # {}
  /\ (IF ToIcs(f) THEN f.sport ELSE f.dport) \notin WellKnown

IcsUpdate(s, f) ==
  IF IcsSegment(f)
  THEN LET port == IF ToIcs(f) THEN f.dport ELSE f.sport
           key == IF ToIcs(f) THEN <<f.dst, f.src, port>> ELSE <<f.src, f.dst, port>>
       IN [presence |-> s.presence \union {<<f.src, f.dst, port, f.id>>},
           writes   |-> Keep(s.writes, f, /\ port = 502 /\ f.says = "modbus_write"
                                          /\ ~IsLocal(f.src)),
           flows    |-> ObserveTcp(s.flows, key, f, ToIcs(f))]
  ELSE IF f.proto = "icmp"
  THEN [s EXCEPT !.flows = ObserveIcmpError(@, f, DOMAIN IcsPorts, FALSE)]
  ELSE s

IcsAlerts(s) ==
  LET Frames(protocol) == {m \in s.presence : IcsPorts[m[3]] = protocol}
      \* a sample is a frame of either direction
      StatusOfSample(m) ==
        IF <<m[2], m[1], m[3]>> \in DOMAIN s.flows
        THEN FlowStatus(s.flows, <<m[2], m[1], m[3]>>)
        ELSE FlowStatus(s.flows, <<m[1], m[2], m[3]>>)
      Writes(src, dst) == {f \in s.writes : f.src = src /\ f.dst = dst}
  IN {Alert("ics_presence", "medium", NoHost, NoHost,
            <<p, BestStatus({StatusOfSample(m) : m \in Frames(p)})>>,
            Cardinality(Frames(p)))
        : p \in {IcsPorts[m[3]] : m \in s.presence}}
     \union
     {Alert("modbus_write", "critical", k[1], k[2], 502, Cardinality(Writes(k[1], k[2])))
        : k \in {<<f.src, f.dst>> : f \in s.writes}}

-----------------------------------------------------------------------------
(* Databases reached from outside, named pipes over SMB *)

SmbSides == {139, 445}
Pipes == ExecPipes \union AdminPipes \union RoutinePipes

\* db: frames <<server, client, port, id>>; greeted: those keys that spoke the
\* protocol of the database; pipes: <<source, target, pipe, id>>.
ExposureInit == [db |-> {}, greeted |-> {}, pipes |-> {}, flows |-> NoFlows]

ExposureTracked == DOMAIN DbPorts \union SmbSides

\* How a segment reads with one of its ports as that of the database.
AsDb(f, port) == IF port = f.dport THEN [server |-> f.dst, client |-> f.src]
                                   ELSE [server |-> f.src, client |-> f.dst]
FarPort(f, port) == IF port = f.sport THEN f.dport ELSE f.sport

Exposes(f, port) ==
  /\ port \in DOMAIN DbPorts
  /\ FarPort(f, port) \notin WellKnown
  /\ IsLocal(AsDb(f, port).server)
  /\ ~IsLocal(AsDb(f, port).client)

\* The source port is looked at first.
ExposedPort(f) == IF Exposes(f, f.sport) THEN {f.sport}
                  ELSE {p \in {f.dport} : Exposes(f, p)}

ExposureUpdate(s, f) ==
  IF f.proto = "icmp"
  THEN [s EXCEPT !.flows = ObserveIcmpError(@, f, ExposureTracked, FALSE)]
  ELSE IF f.proto = "tcp"
  THEN LET keys == {<<AsDb(f, p).server, AsDb(f, p).client, p>> : p \in ExposedPort(f)}
           flow == IF f.dport \in ExposureTracked THEN <<f.dst, f.src, f.dport>>
                                                  ELSE <<f.src, f.dst, f.sport>>
       IN [db      |-> s.db \union {k \o <<f.id>> : k \in keys},
           greeted |-> IF f.says = "db_hello" THEN s.greeted \union keys ELSE s.greeted,
           pipes   |-> IF /\ Ports(f) \intersect SmbSides # {}
                          /\ f.says = "pipe" /\ f.about \in Pipes
                       THEN s.pipes \union {<<f.src, f.dst, f.about, f.id>>} ELSE s.pipes,
           flows   |-> IF Ports(f) \intersect ExposureTracked # {}
                       THEN ObserveTcp(s.flows, flow, f, f.dport \in ExposureTracked)
                       ELSE s.flows]
  ELSE s

ExposedSeverity(greeted, status) ==
  IF greeted THEN "high"
  ELSE IF status \in {"established", "open_no_ack"} THEN "medium" ELSE "low"

Tier(pipe) == IF pipe \in ExecPipes THEN "exec"
              ELSE IF pipe \in AdminPipes THEN "admin" ELSE "routine"

PipeSeverity(local, tier, targets) ==
  IF ~local \/ (tier = "exec" /\ targets >= 3) THEN "critical"
  ELSE IF targets >= 5 \/ tier = "exec" THEN "high"
  ELSE IF tier = "admin" THEN "medium" ELSE "low"

ExposureAlerts(s) ==
  LET Packets(k) == Cardinality({m \in s.db : <<m[1], m[2], m[3]>> = k})
      Targets(src, tier) ==
        Cardinality({m[2] : m \in {q \in s.pipes : q[1] = src /\ Tier(q[3]) = tier}})
      Requests(k) == Cardinality({m \in s.pipes : <<m[1], m[2], m[3]>> = k})
  IN {Alert("database_exposed", ExposedSeverity(k \in s.greeted, FlowStatus(s.flows, k)),
            k[2], k[1], k[3], Packets(k))
        : k \in {<<m[1], m[2], m[3]>> : m \in s.db}}
     \union
     {Alert("lateral_pipe",
            PipeSeverity(IsLocal(k[1]), Tier(k[3]), Targets(k[1], Tier(k[3]))),
            k[1], k[2], k[3], Requests(k))
        : k \in {<<m[1], m[2], m[3]>> : m \in s.pipes}}

-----------------------------------------------------------------------------
(* Binds to RPC interfaces of known abuse *)

BindInit == [binds |-> {}, kdcs |-> {}]

\* Whatever a frame is sent to on port 88 is held for a domain controller.
BindUpdate(s, f) ==
  [kdcs |-> IF /\ f.proto \in {"tcp", "udp", "krb"} /\ f.dport = 88
               /\ Cardinality(s.kdcs) < MaxKdcs
            THEN s.kdcs \union {f.dst} ELSE s.kdcs,
   binds |-> IF /\ f.proto = "tcp" /\ f.says = "bind"
                /\ f.about \in DOMAIN Interfaces
             THEN s.binds \union {<<f.src, f.dst, f.about, f.id>>} ELSE s.binds]

BindSeverity(s, k) ==
  LET clients == {m[1] : m \in {q \in s.binds : q[2] = k[2] /\ q[3] = k[3]}}
  IN IF ~IsLocal(k[1]) THEN "critical"
     ELSE IF \/ k[3] = Drsr /\ {k[1], k[2]} \subseteq s.kdcs
             \/ /\ k[3] \in PrintInterfaces
                /\ k[2] \notin s.kdcs
                /\ Cardinality(clients) >= 3
     THEN "low" ELSE Interfaces[k[3]]

BindAlerts(s) ==
  {Alert("rpc_bind", BindSeverity(s, k), k[1], k[2], k[3],
         Cardinality({m \in s.binds : <<m[1], m[2], m[3]>> = k}))
     : k \in {<<m[1], m[2], m[3]>> : m \in s.binds}}
=============================================================================
