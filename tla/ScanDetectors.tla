---------------------------- MODULE ScanDetectors ----------------------------
(***************************************************************************)
(* The detectors of reconnaissance: port scans, suspicious ports, ARP      *)
(* discovery, ping sweeps, host sweeps, SNMP walks, LLMNR/NBT-NS answers.  *)
(* For a detector D, DInit is __init__, DUpdate(s, f) is update() on a     *)
(* frame, DAlerts(s) is what finalize() returns in that state.             *)
(***************************************************************************)
EXTENDS TcpFlows

CONSTANTS
  SuspiciousPorts, \* port -> severity of constants.SUSPICIOUS_PORTS
  WebPorts,        \* ALPN_WEB_OK_PORTS
  Routers,         \* device_types 'Roteador', or an address ending in .1 or .254
  Printers         \* device_types 'Impressora'

-----------------------------------------------------------------------------
(* Port scan: many ports of one target *)

\* NMAP_DEFAULT_WINDOWS and the sets beside it.
NmapDefaultWindows == {1024}
NmapOsDetectWindows == {1, 63, 4, 16, 512, 3, 31337}
NmapRequiredOpts == {"MSS", "SAckOK"}
NmapDisqualifyingOpts == {"Timestamp", "WScale"}

\* syns: the pure SYNs.  windows, opts: for a source, the TCP windows and the
\* option lists its SYNs had, in the order in which they first came.
PortScanInit == [syns |-> {}, windows |-> << >>, opts |-> << >>]

\* A key a Counter gets when it first counts it.
Tallied(keys, src, x) ==
  LET known == IF src \in DOMAIN keys THEN keys[src] ELSE << >>
  IN (src :> IF Contains(known, x) THEN known ELSE Append(known, x)) @@ keys

PortScanUpdate(s, f) ==
  IF f.proto = "tcp" /\ PureSyn(f)
  THEN [syns    |-> s.syns \union {f},
        windows |-> Tallied(s.windows, f.src, f.window),
        opts    |-> Tallied(s.opts, f.src, f.opts)]
  ELSE s

\* most_common(1) of a Counter: of equals, the one that came first.
MostCommon(keys, count) ==
  keys[CHOOSE i \in DOMAIN keys :
         /\ \A j \in DOMAIN keys : count[j] <= count[i]
         /\ \A j \in 1..(i - 1) : count[j] < count[i]]

\* The two counts are taken apart: the window and the options that come first
\* need not be of one SYN.
NmapFingerprint(F, windows, opts) ==
  LET window == MostCommon(windows, [i \in DOMAIN windows |->
                                       Cardinality({f \in F : f.window = windows[i]})])
      opt == ToSet(MostCommon(opts, [i \in DOMAIN opts |->
                                       Cardinality({f \in F : f.opts = opts[i]})]))
  IN \/ window \in NmapOsDetectWindows
     \/ /\ window \in NmapDefaultWindows
        /\ NmapRequiredOpts \subseteq opt
        /\ NmapDisqualifyingOpts \intersect opt = {}

ScanSeverity(src, dst, nmap) ==
  LET base == IF ~IsLocal(dst) THEN "medium"
              ELSE IF IsLocal(src) THEN "high" ELSE "critical"
  IN IF nmap THEN Raised(base) ELSE base

\* The verdict on the SYNs of one source to one target.
TargetVerdict(F) ==
  LET port == [f \in F |-> f.dport]
      total == Cardinality({f.dport : f \in F})
      peak == SlidingPeak(F, port, Threshold.port_scan_time_window)
  IN CASE peak >= Threshold.port_scan_min_ports -> [kind |-> "fast", n |-> peak]
       [] /\ peak < Threshold.port_scan_min_ports
          /\ total >= Threshold.port_scan_min_ports
                      * Threshold.port_scan_slow_multiplier
            -> [kind |-> "slow", n |-> total]
       [] OTHER -> [kind |-> "none", n |-> total]

Stronger(v, w) == \/ v.kind = "fast" /\ w.kind = "slow"
                  \/ v.kind = w.kind /\ v.n > w.n

\* target -> the verdict on what a source sent there.
Verdicts(F) ==
  [dst \in {f.dst : f \in F} |-> TargetVerdict({f \in F : f.dst = dst})]

ScannedTargets(v) == {dst \in DOMAIN v : v[dst].kind # "none"}

\* One alert per source, about the target it scanned most.
ScanAlert(src, v, nmap) ==
  LET dst == CHOOSE d \in ScannedTargets(v) :
               \A e \in ScannedTargets(v) : ~Stronger(v[e], v[d])
  IN Alert("port_scan", ScanSeverity(src, dst, nmap), src, dst, v[dst].kind, v[dst].n)

PortScanAlerts(s) ==
  LET Sent(src) == {f \in s.syns : f.src = src}
      Scanners == {src \in {f.src : f \in s.syns} :
                     ScannedTargets(Verdicts(Sent(src))) # {}}
  IN {ScanAlert(src, Verdicts(Sent(src)), NmapFingerprint(Sent(src), s.windows[src], s.opts[src]))
        : src \in Scanners}

-----------------------------------------------------------------------------
(* Suspicious ports: who really listens there *)

SuspiciousPortInit ==
  [flows |-> NoFlows, listening |-> {}, ephemeral |-> {}, servicePeer |-> {}]

IsServicePort(port) == port < 1024 \/ port \in WebPorts

\* The destination port decides when both are on the list.
ToSuspicious(f) == f.dport \in DOMAIN SuspiciousPorts
TouchesSuspicious(f) == {f.sport, f.dport} \intersect DOMAIN SuspiciousPorts # {}

SuspiciousKey(f) == IF ToSuspicious(f) THEN <<f.dst, f.src, f.dport>>
                                       ELSE <<f.src, f.dst, f.sport>>

SuspiciousPortUpdate(s, f) ==
  IF f.proto = "tcp" /\ TouchesSuspicious(f)
  THEN LET key == SuspiciousKey(f)
           peer == IF ToSuspicious(f) THEN f.sport ELSE f.dport
       IN [flows       |-> ObserveTcp(s.flows, key, f, ToSuspicious(f)),
           listening   |-> s.listening \union {k \in {key} :
                             \/ PureSyn(f) /\ ToSuspicious(f)
                             \/ SynAck(f) /\ ~ToSuspicious(f)},
           ephemeral   |-> s.ephemeral \union {k \in {key} :
                             \/ PureSyn(f) /\ ~ToSuspicious(f)
                             \/ SynAck(f) /\ ToSuspicious(f)},
           servicePeer |-> s.servicePeer \union {k \in {key} : IsServicePort(peer)}]
  ELSE IF f.proto = "icmp"
  THEN [s EXCEPT !.flows =
          ObserveIcmpError(@, f, DOMAIN SuspiciousPorts, FALSE)]
  ELSE s

\* Flows whose suspicious port is a client's ephemeral port are dropped.
IsService(s, key) ==
  key \in s.listening \/ (key \notin s.ephemeral /\ key \notin s.servicePeer)

SuspiciousPortAlerts(s) ==
  LET kept == {key \in DOMAIN s.flows : IsService(s, key)}
      Of(port, server) == {key \in kept : key[1] = server /\ key[3] = port}
  IN {LET status == BestStatus({FlowStatus(s.flows, k) : k \in Of(key[3], key[1])})
      IN Alert("suspicious_port",
               IF status \in Unanswered THEN "low" ELSE SuspiciousPorts[key[3]],
               NoHost, key[1], <<key[3], status>>,
               Cardinality(Of(key[3], key[1])))
        : key \in kept}

-----------------------------------------------------------------------------
(* ARP host discovery *)

ArpDiscoveryInit == {}

ArpDiscoveryUpdate(F, f) ==
  Keep(F, f, /\ f.proto = "arp" /\ f.op = "request"
             /\ NoHost \notin {f.src, f.dst}
             /\ f.src \notin Routers
             /\ f.dst \notin Printers
             /\ f.src # f.dst)

ArpDiscoveryAlerts(F) ==
  LET By(src) == {f \in F : f.src = src}
      Targets(src) == Cardinality({f.dst : f \in By(src)})
      Peak(src) == SlidingPeak(By(src), [f \in By(src) |-> f.dst],
                               Threshold.arp_discovery_time_window)
      Fast(src) == Peak(src) >= Threshold.arp_discovery_min_targets
      Slow(src) ==
        IF Threshold.arp_discovery_time_window > 0
        THEN Targets(src) >= Threshold.arp_discovery_min_targets * 3
        ELSE Targets(src) >= Threshold.arp_discovery_min_targets
  IN {Alert("arp_discovery", IF Fast(src) THEN "high" ELSE "medium",
            src, NoHost, "arp", Targets(src))
        : src \in {f.src : f \in {g \in F : Fast(g.src) \/ Slow(g.src)}}}

-----------------------------------------------------------------------------
(* Ping sweep *)

MaxPingStamps == 200000

PingSweepInit == [targets |-> {}, pings |-> {}]

\* targets keeps every pair, the list of stamps is bounded per source.
PingSweepUpdate(s, f) ==
  IF f.proto = "icmp" /\ f.kind = "echo" /\ ~f.multicast
  THEN [targets |-> s.targets \union {<<f.src, f.dst>>},
        pings   |-> Keep(s.pings, f,
                      Cardinality({g \in s.pings : g.src = f.src}) < MaxPingStamps)]
  ELSE s

\* The median number of pings per target.
MedianPings(F) ==
  LET target == {f.dst : f \in F}
  IN UpperMedian(target, [d \in target |-> Cardinality({f \in F : f.dst = d})])

PingSweepAlerts(s) ==
  LET By(src) == {f \in s.pings : f.src = src}
      Targets(src) == Cardinality({t \in s.targets : t[1] = src})
      Peak(src) == SlidingPeak(By(src), [f \in By(src) |-> f.dst],
                               Threshold.ping_sweep_time_window)
      Fast(src) == /\ Targets(src) >= Threshold.ping_sweep_min_hosts
                   /\ \/ Threshold.ping_sweep_time_window <= 0
                      \/ Peak(src) >= Threshold.ping_sweep_min_hosts
      Slow(src) == Targets(src) >= Threshold.ping_sweep_min_hosts * 3
      Monitoring(src) == MedianPings(By(src)) >= 4 /\ Duration(By(src)) > 300
  IN {Alert("ping_sweep",
            IF Monitoring(src) THEN "low" ELSE IF Fast(src) THEN "high" ELSE "medium",
            src, NoHost, "icmp", Targets(src))
        : src \in {t[1] : t \in {u \in s.targets : Fast(u[1]) \/ Slow(u[1])}}}

-----------------------------------------------------------------------------
(* Host sweep: one port on many hosts, checked against the answers *)

HorizontalScanInit == {}

HorizontalScanUpdate(F, f) == Keep(F, f, f.proto = "tcp" /\ Syn(f) /\ f.src # f.dst)

\* The answer ratios are in tenths.
SweepSeverity(oneSided, wide, answered, probed) ==
  IF oneSided THEN (IF wide THEN "critical" ELSE "high")
  ELSE IF 10 * answered < Threshold.host_scan_answer_ratio_critical * probed
  THEN "critical"
  ELSE IF 10 * answered < Threshold.host_scan_answer_ratio_high * probed THEN "high"
  ELSE "medium"

HorizontalScanAlerts(F) ==
  LET probes == {f \in F : ~Ack(f)}
      answers == F \ probes
      oneSided == answers = {}
      Probes(src, port) == {f \in probes : f.src = src /\ f.dport = port}
      Hosts(src, port) ==
        {h \in {f.dst : f \in Probes(src, port)} : port \in WebPorts => IsLocal(h)}
      Answered(src, port) ==
        Hosts(src, port) \intersect
          {f.src : f \in {g \in answers : g.dst = src /\ g.sport = port}}
      Wide(src, port) ==
        Cardinality(Hosts(src, port)) >= Threshold.host_scan_min_hosts
                                         * Threshold.host_scan_slow_multiplier
      Slow(src, port) == /\ Threshold.host_scan_time_window > 0
                         /\ Duration(Probes(src, port)) > Threshold.host_scan_time_window
      Harmless(src, port) ==
        /\ ~oneSided
        /\ 10 * Cardinality(Answered(src, port))
             >= Threshold.host_scan_answer_ratio_benign
                * Cardinality(Hosts(src, port))
      Swept(src, port) ==
        /\ Cardinality(Hosts(src, port)) >= Threshold.host_scan_min_hosts
        /\ Slow(src, port) => Wide(src, port)
        /\ ~Harmless(src, port)
  IN {Alert("host_sweep",
            SweepSeverity(oneSided, Wide(k[1], k[2]),
                          Cardinality(Answered(k[1], k[2])),
                          Cardinality(Hosts(k[1], k[2]))),
            k[1], NoHost, k[2], Cardinality(Hosts(k[1], k[2])))
        : k \in {q \in {<<f.src, f.dport>> : f \in probes} : Swept(q[1], q[2])}}

-----------------------------------------------------------------------------
(* SNMP walk *)

SnmpWalkInit == {}

SnmpWalkUpdate(F, f) == Keep(F, f, f.proto = "udp" /\ f.dport = 161)

\* Groups of queries further apart than the window.
Bursts(F, window) ==
  1 + Cardinality({i \in 2..Cardinality(F) :
                     InTime(F)[i].ts - InTime(F)[i - 1].ts > window})

SnmpWalkAlerts(F) ==
  LET Pair(src, dst) == {f \in F : f.src = src /\ f.dst = dst}
      Queries(src, dst) == PeakOf(Pair(src, dst), [f \in Pair(src, dst) |-> f.id],
                                  Threshold.snmp_walk_window)
      Severity(src, dst) ==
        IF ~IsLocal(src) THEN "critical"
        ELSE IF Bursts(Pair(src, dst), Threshold.snmp_walk_window) >= 3 THEN "low"
        ELSE "high"
  IN {Alert("snmp_walk", Severity(k[1], k[2]), k[1], k[2], 161,
            Cardinality(Pair(k[1], k[2])))
        : k \in {q \in {<<f.src, f.dst>> : f \in F} :
                   Queries(q[1], q[2]) >= Threshold.snmp_walk_threshold}}

-----------------------------------------------------------------------------
(* LLMNR and NBT-NS answers *)

MaxNamesAnswered == 200

LlmnrInit == [answers |-> {}, names |-> {}]

LlmnrUpdate(s, f) ==
  IF f.proto = "llmnr" /\ IsLocal(f.src) /\ f.response /\ f.answers > 0
  THEN [answers |-> s.answers \union {f},
        names   |-> IF /\ f.name # ""
                       /\ Cardinality({m \in s.names : m[1] = f.src}) < MaxNamesAnswered
                    THEN s.names \union {<<f.src, f.name>>} ELSE s.names]
  ELSE s

LlmnrAlerts(s) ==
  LET Count(src) == Cardinality({f \in s.answers : f.src = src})
      Names(src) == Cardinality({m \in s.names : m[1] = src})
      Severity(src) ==
        IF Names(src) \in 1..2 THEN "low"
        ELSE IF \/ Count(src) >= Threshold.llmnr_response_threshold * 3
                \/ Names(src) >= 5
        THEN "critical" ELSE "high"
  IN {Alert("llmnr_answers", Severity(src), src, NoHost, "names", Count(src))
        : src \in {f.src : f \in {g \in s.answers :
                     Count(g.src) >= Threshold.llmnr_response_threshold}}}
=============================================================================
