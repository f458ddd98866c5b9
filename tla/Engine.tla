-------------------------------- MODULE Engine --------------------------------
(***************************************************************************)
(* PCAPAnalyzer: one pass over the capture feeds every detector and every  *)
(* aggregator, then the alerts are collected and turned into the report.   *)
(*                                                                         *)
(* The capture is any part of a set of frames, in any order: the sniffer   *)
(* loses frames, several sources are merged, and a file is cut at          *)
(* max_packets.                                                            *)
(***************************************************************************)
EXTENDS AlertPipeline, PostDetectors, ScanDetectors, SpoofDetectors, DnsDetectors,
        AccessDetectors, ExfilDetectors, ExposureDetectors

CONSTANTS
  Themes,     \* names of captures
  Capture,    \* theme -> its frames
  MaxPackets, \* thresholds['max_packets']
  KnownQuic,  \* QUIC destinations in artifact_seen
  GreyNoiseKey, \* whether there is a GreyNoise key
  Deaf,       \* detectors and aggregators whose update() may raise on a frame
  Faulty,     \* detectors whose finalize() may raise
  NotYet      \* no report

VARIABLES
  theme,  \* what is captured
  seen,   \* the frames read so far
  det,    \* the state of every detector and aggregator
  report  \* results['alerts'], NotYet before the analysis is over

vars == <<theme, seen, det, report>>

-----------------------------------------------------------------------------
(* The registries STREAMING_DETECTORS and STREAMING_AGGREGATORS: __init__, *)
(* update() and finalize() of every entry.                                  *)

Fresh ==
  [port_scan |-> PortScanInit, suspicious_ports |-> SuspiciousPortInit,
   arp_spoofing |-> ArpSpoofInit, arp_discovery |-> ArpDiscoveryInit,
   ndp_spoofing |-> NdpSpoofInit, dns_tunneling |-> DnsTunnelInit,
   dns_exfil |-> DnsExfilInit, insecure |-> InsecureInit,
   credentials |-> CredentialsInit, smb |-> SmbInit, ping_sweep |-> PingSweepInit,
   host_sweep |-> HorizontalScanInit, snmp_walk |-> SnmpWalkInit, llmnr |-> LlmnrInit,
   icmp_tunnel |-> IcmpTunnelInit, volume |-> VolumeInit, sustained |-> SustainedInit,
   host_exfil |-> HostExfilInit, lateral |-> LateralInit, beaconing |-> BeaconingInit,
   conn_beacon |-> ConnBeaconInit, kerberos |-> KerberosInit,
   brute_force |-> BruteForceInit, spraying |-> SprayInit, dga |-> DgaInit,
   fast_flux |-> FastFluxInit, nxdomain |-> NxdomainInit, tld |-> SuspiciousTldInit,
   dot |-> DotInit, entropy |-> EntropyInit, dns_beacon |-> DnsBeaconInit,
   tunnel |-> TunnelInit, ics |-> IcsInit, exposure |-> ExposureInit, bind |-> BindInit,
   summary |-> SummaryInit, mac_ip |-> MacIpInit, ip_stats |-> IpStatsInit,
   names |-> ProtocolStatsInit, timeline |-> TimelineInit, streams |-> TcpFlowInit,
   carving |-> CarvingInit, tls |-> TlsInit, ssh |-> SshInit, http |-> HttpInit,
   quic |-> QuicInit, assets |-> AssetsInit, anomaly |-> FlowAnomalyInit,
   user_rules |-> UserRulesInit, dns_names |-> DnsNamesInit, hosts |-> HostsInit]

Fed(d, f) ==
  [port_scan |-> PortScanUpdate(d.port_scan, f),
   suspicious_ports |-> SuspiciousPortUpdate(d.suspicious_ports, f),
   arp_spoofing |-> ArpSpoofUpdate(d.arp_spoofing, f),
   arp_discovery |-> ArpDiscoveryUpdate(d.arp_discovery, f),
   ndp_spoofing |-> NdpSpoofUpdate(d.ndp_spoofing, f),
   dns_tunneling |-> DnsTunnelUpdate(d.dns_tunneling, f),
   dns_exfil |-> DnsExfilUpdate(d.dns_exfil, f),
   insecure |-> InsecureUpdate(d.insecure, f),
   credentials |-> CredentialsUpdate(d.credentials, f),
   smb |-> SmbUpdate(d.smb, f),
   ping_sweep |-> PingSweepUpdate(d.ping_sweep, f),
   host_sweep |-> HorizontalScanUpdate(d.host_sweep, f),
   snmp_walk |-> SnmpWalkUpdate(d.snmp_walk, f),
   llmnr |-> LlmnrUpdate(d.llmnr, f),
   icmp_tunnel |-> IcmpTunnelUpdate(d.icmp_tunnel, f),
   volume |-> VolumeUpdate(d.volume, f),
   sustained |-> SustainedUpdate(d.sustained, f),
   host_exfil |-> HostExfilUpdate(d.host_exfil, f),
   lateral |-> LateralUpdate(d.lateral, f),
   beaconing |-> BeaconingUpdate(d.beaconing, f),
   conn_beacon |-> ConnBeaconUpdate(d.conn_beacon, f),
   kerberos |-> KerberosUpdate(d.kerberos, f),
   brute_force |-> BruteForceUpdate(d.brute_force, f),
   spraying |-> SprayUpdate(d.spraying, f),
   dga |-> DgaUpdate(d.dga, f),
   fast_flux |-> FastFluxUpdate(d.fast_flux, f),
   nxdomain |-> NxdomainUpdate(d.nxdomain, f),
   tld |-> SuspiciousTldUpdate(d.tld, f),
   dot |-> DotUpdate(d.dot, f),
   entropy |-> EntropyUpdate(d.entropy, f),
   dns_beacon |-> DnsBeaconUpdate(d.dns_beacon, f),
   tunnel |-> TunnelUpdate(d.tunnel, f),
   ics |-> IcsUpdate(d.ics, f),
   exposure |-> ExposureUpdate(d.exposure, f),
   bind |-> BindUpdate(d.bind, f),
   summary |-> SummaryUpdate(d.summary, f),
   mac_ip |-> MacIpUpdate(d.mac_ip, f),
   ip_stats |-> IpStatsUpdate(d.ip_stats, f),
   names |-> ProtocolStatsUpdate(d.names, f),
   timeline |-> TimelineUpdate(d.timeline, f),
   streams |-> TcpFlowUpdate(d.streams, f),
   carving |-> CarvingUpdate(d.carving, f),
   tls |-> TlsUpdate(d.tls, f),
   ssh |-> SshUpdate(d.ssh, f),
   http |-> HttpUpdate(d.http, f),
   quic |-> QuicUpdate(d.quic, f),
   assets |-> AssetsUpdate(d.assets, f),
   anomaly |-> FlowAnomalyUpdate(d.anomaly, f),
   user_rules |-> UserRulesUpdate(d.user_rules, f),
   dns_names |-> DnsNamesUpdate(d.dns_names, f),
   hosts |-> HostsUpdate(d.hosts, f)]

Streamed(d, built) ==
  [port_scan |-> PortScanAlerts(d.port_scan),
   suspicious_ports |-> SuspiciousPortAlerts(d.suspicious_ports),
   arp_spoofing |-> ArpSpoofAlerts(d.arp_spoofing),
   arp_discovery |-> ArpDiscoveryAlerts(d.arp_discovery),
   ndp_spoofing |-> NdpSpoofAlerts(d.ndp_spoofing),
   dns_tunneling |-> DnsTunnelAlerts(d.dns_tunneling),
   dns_exfil |-> DnsExfilAlerts(d.dns_exfil),
   insecure |-> InsecureAlerts(d.insecure),
   credentials |-> CredentialsAlerts(d.credentials),
   smb |-> SmbAlerts(d.smb),
   ping_sweep |-> PingSweepAlerts(d.ping_sweep),
   host_sweep |-> HorizontalScanAlerts(d.host_sweep),
   snmp_walk |-> SnmpWalkAlerts(d.snmp_walk),
   llmnr |-> LlmnrAlerts(d.llmnr),
   icmp_tunnel |-> IcmpTunnelAlerts(d.icmp_tunnel),
   volume |-> VolumeAlerts(d.volume),
   sustained |-> SustainedAlerts(d.sustained),
   host_exfil |-> HostExfilAlerts(d.host_exfil, built.host),
   lateral |-> LateralAlerts(d.lateral),
   beaconing |-> BeaconingAlerts(d.beaconing),
   conn_beacon |-> ConnBeaconAlerts(d.conn_beacon),
   kerberos |-> KerberosAlerts(d.kerberos),
   brute_force |-> BruteForceAlerts(d.brute_force),
   spraying |-> SprayAlerts(d.spraying),
   dga |-> DgaAlerts(d.dga),
   fast_flux |-> FastFluxAlerts(d.fast_flux),
   nxdomain |-> NxdomainAlerts(d.nxdomain),
   tld |-> SuspiciousTldAlerts(d.tld),
   dot |-> DotAlerts(d.dot),
   entropy |-> EntropyAlerts(d.entropy),
   dns_beacon |-> DnsBeaconAlerts(d.dns_beacon),
   tunnel |-> TunnelAlerts(d.tunnel),
   ics |-> IcsAlerts(d.ics),
   exposure |-> ExposureAlerts(d.exposure),
   bind |-> BindAlerts(d.bind)]

\* POST_DETECTORS, run over what the aggregators collected; scanners are the
\* sources of the port-scan alerts.
Posted(d, built, scanners) ==
  LET requests == Requests(d.http, d.streams)
      tls == d.tls
  IN [ip_macs |-> IpMacAlerts(IpMacs(d.mac_ip)),
      host_addresses |-> HostAddressAlerts(built.hosts, built.conflicts),
      old_tls |-> OldTlsAlerts(tls.hellos, tls.answers),
      sni |-> SniAlerts(tls.hellos),
      ja3 |-> Ja3Alerts(tls.hellos, tls.answers),
      ja3s |-> Ja3sAlerts(tls.answers),
      ja4 |-> Ja4Alerts(tls.hellos, tls.answers),
      alpn |-> AlpnAlerts(tls.hellos, tls.answers),
      ech |-> EchAlerts(tls.hellos),
      cert |-> CertAlerts(tls.hellos, tls.certs),
      scanner_ua |-> ScannerAlerts(requests),
      exploit_path |-> ExploitPathAlerts(requests),
      http_method |-> MethodAlerts(requests),
      injection |-> InjectionAlerts(requests),
      payload |-> PayloadAlerts(requests),
      file_share |-> FileShareAlerts(tls.hellos, requests),
      quic_volume |-> QuicVolumeAlerts(QuicFlows(d.quic), KnownQuic),
      doh |-> DohAlerts(tls.hellos, requests),
      cobalt_strike |-> CobaltAlerts(tls.hellos, requests),
      greynoise |-> GreyNoiseAlerts(scanners, IF GreyNoiseKey THEN scanners ELSE {})]

\* finalize() and run() are each called in a try: a detector that raises
\* leaves nothing behind, the others are collected all the same.
Gathered(found, failed) == UNION {found[name] : name \in DOMAIN found \ failed}

\* streamed: what the streaming detectors raised.
Concluded(d, built, streamed, failed) ==
  LET scanners == {a.src : a \in {b \in streamed : b.rule = "port_scan"}}
  IN Collected(streamed, Gathered(Posted(d, built, scanners), failed),
               FlowAnomalyAlerts(d.anomaly), UserRuleAlerts(d.user_rules))

Alerts(d, built, failed) ==
  Concluded(d, built, Gathered(Streamed(d, built), failed), failed)

-----------------------------------------------------------------------------
(* The analysis *)

Init ==
  /\ theme \in Themes
  /\ seen = {}
  /\ det = Fresh
  /\ report = NotYet

\* update() is called in a try: a detector or aggregator that raises (before it
\* has changed anything) misses the frame, the others get it all the same.
Heard(d, f, deaf) ==
  LET fed == Fed(d, f)
  IN [name \in DOMAIN Fresh |-> IF name \in deaf THEN d[name] ELSE fed[name]]

\* mutant: the capture is read on past max_packets
ReceiveUncut(f, deaf) ==
  /\ report = NotYet
  /\ f \notin seen
  /\ seen' = seen \union {f}
  /\ det' = Heard(det, f, deaf)
  /\ UNCHANGED <<theme, report>>

\* A frame is read and its view extracted; deaf raise on it.  (A frame whose
\* extraction raises is passed over like one that was not captured, and leaves
\* less room under max_packets.)
Receive(f, deaf) ==
  /\ report = NotYet
  /\ f \notin seen
  /\ Cardinality(seen) < MaxPackets
  /\ seen' = seen \union {f}
  /\ det' = Heard(det, f, deaf)
  /\ UNCHANGED <<theme, report>>

Reported(d, built, failed) == Report(Alerts(d, built, failed), d.names, d.assets, built)

\* The capture ends (or is cut) here; failed are the detectors that raise.
Finish(failed) ==
  /\ report = NotYet
  /\ report' = Reported(det, BuildHosts(det.hosts), failed)
  /\ UNCHANGED <<theme, seen, det>>

Next ==
  \/ \E f \in Capture[theme], deaf \in SUBSET Deaf : Receive(f, deaf)
  \/ \E failed \in SUBSET Faulty : Finish(failed)

Spec == Init /\ [][Next]_vars

-----------------------------------------------------------------------------
(* Properties *)

\* The analysis reads frames of the capture, no more than max_packets of
\* them, and the summary counts none twice (stream_packets and the loop over
\* the aggregators in _core.py).
TypeOK ==
  /\ theme \in Themes
  /\ seen \subseteq Capture[theme]
  /\ Cardinality(seen) <= MaxPackets
  /\ det.summary.count \in 0..Cardinality(seen)

\* The sweep with two pointers counts what a look at every window would:
\* no burst of distinct ports, hosts or pings is under- or overcounted,
\* whatever order the frames came in (PortScanDetector, ArpHostDiscovery and
\* PingSweep, finalize()).
WindowedCountsExact ==
  LET Exact(F, item, width) == SlidingPeak(F, item, width) = PeakOf(F, item, width)
  IN /\ \A f \in det.port_scan.syns :
          LET F == {g \in det.port_scan.syns : g.src = f.src /\ g.dst = f.dst}
          IN Exact(F, [g \in F |-> g.dport], Threshold.port_scan_time_window)
     /\ \A f \in det.arp_discovery :
          LET F == {g \in det.arp_discovery : g.src = f.src}
          IN Exact(F, [g \in F |-> g.dst], Threshold.arp_discovery_time_window)
     /\ \A f \in det.ping_sweep.pings :
          LET F == {g \in det.ping_sweep.pings : g.src = f.src}
          IN Exact(F, [g \in F |-> g.dst], Threshold.ping_sweep_time_window)

\* Alerts of rules for which more traffic is only more evidence.
Lasting(d) ==
  DnsTunnelAlerts(d.dns_tunneling) \union DgaAlerts(d.dga) \union SuspiciousTldAlerts(d.tld)
  \union DotAlerts(d.dot) \union DnsBeaconAlerts(d.dns_beacon)
  \union CredentialsAlerts(d.credentials) \union SmbAlerts(d.smb)
  \union {a \in KerberosAlerts(d.kerberos) : a.rule # "as_rep_roasting"}
  \union {a \in IcsAlerts(d.ics) : a.rule = "modbus_write"}
  \union ExposureAlerts(d.exposure) \union InsecureAlerts(d.insecure)
  \union TunnelAlerts(d.tunnel)

\* Reading on never withdraws or softens an alert of these rules: what a
\* capture shows of a tunnel, a beacon, a credential or an exposed service is
\* still there, at least as severe, when the capture is longer.
AlertsStand ==
  [][\A a \in Lasting(det) : \E b \in Lasting(det') :
        SameMatter(a, b) /\ Rank(b.sev) >= Rank(a.sev)]_vars

\* Somebody talked to this port: the server accepted or sent data, or the
\* client sent some.
Engaged(server, port) ==
  \E f \in seen :
    /\ f.proto = "tcp"
    /\ \/ f.src = server /\ f.sport = port /\ (SynAck(f) \/ f.len > 0)
       \/ f.dst = server /\ f.dport = port /\ f.len > 0

\* A probe that nobody answered is never reported as a service in use:
\* severities over "low" for a cleartext login, a suspicious port, an exposed
\* database, and those over "medium" for SMB, need a frame of a conversation
\* (TcpFlowTracker and the detectors that ask it).
ConversationBeforeAlarm ==
  LET Alarm(a, sev) == Rank(a.sev) > Rank(sev)
  IN /\ \A a \in InsecureAlerts(det.insecure) :
          Alarm(a, "low") => Engaged(a.dst, a.about[2])
     /\ \A a \in SuspiciousPortAlerts(det.suspicious_ports) :
          Alarm(a, "low") => Engaged(a.dst, a.about[2][1])
     /\ \A a \in {b \in ExposureAlerts(det.exposure) : b.rule = "database_exposed"} :
          Alarm(a, "low") => Engaged(a.dst, a.about[2])
     /\ \A a \in SmbAlerts(det.smb) :
          Alarm(a, "medium") => \E port \in SmbPorts : Engaged(a.dst, port)

\* bulk, drips: the alerts of the first two detectors.
UploadsSpokenOnce(bulk, drips, hostOf) ==
  LET Within(b, a) == /\ b.src \in DOMAIN hostOf /\ b.dst \notin DOMAIN hostOf
                      /\ a.about[2] = <<hostOf[b.src], DestinationOf(b.dst)>>
  IN /\ \A a \in bulk, b \in drips : <<a.src, a.dst>> # <<b.src, b.dst>>
     /\ \A a \in HostExfilAlerts(det.host_exfil, hostOf) : ~\E b \in bulk : Within(b, a)

\* The three detectors of uploads divide the work: no pair is reported both
\* as bulk and as a drip, and a machine's upload is reported only when none
\* of its addresses is (the cross-references in VolumeExfil, Sustained- and
\* HostExfiltrationDetector).
ExfilSpokenOnce ==
  UploadsSpokenOnce(VolumeAlerts(det.volume), SustainedAlerts(det.sustained),
                    BuildHosts(det.hosts).host)

\* What the carver keeps stays in its budget and its books are straight: the
\* total is the sum over the streams, it never exceeds carving_total_max, and
\* no stream exceeds carving_flow_max (CarvingBufferAggregator.update).
CarvingBounded ==
  LET c == det.carving
  IN /\ c.total = Sum(DOMAIN c.kept, c.kept)
     /\ c.total <= Threshold.carving_total_max
     /\ \A k \in DOMAIN c.kept : c.kept[k] \in 0..Threshold.carving_flow_max

\* The machines that said in ARP, NDP or DHCP that an address is theirs.
StatedBy(ip) ==
  {f.mac : f \in {g \in seen : g.proto = "arp" /\ g.src = ip}}
  \union {f.mac : f \in {g \in seen : g.proto = "na" /\ g.target = ip}}
  \union {f.mac : f \in {g \in seen : g.proto = "ns" /\ g.src = ip}}
  \union {f.client : f \in {g \in seen : /\ g.proto = "dhcp"
                                         /\ g.ciaddr = ip \/ (g.ack /\ g.yiaddr = ip)}}

\* owner: the trusted binding of each address; hostOf: the machine it went to.
OwnersEntitled(owner, hostOf) ==
  LET Entitled(ip) == {m \in StatedBy(ip) \ GroupMacs : <<m, ip>> \notin Excluded}
  IN /\ \A ip \in DOMAIN owner : Entitled(ip) # {} => owner[ip].mac \in Entitled(ip)
     /\ \A m \in ToSet(Bindings) :
          m.ip \in DOMAIN owner /\ owner[m.ip].mac # MacOf(m.key) /\ MacOf(m.key) # NoHost
            => hostOf[m.ip] = owner[m.ip].mac

\* An address that machines state as their own is attributed to one of them,
\* never to whoever relayed its packets, and a binding made by hand does not
\* move an address that the capture shows on another machine (build_hosts).
HostIdentitySound ==
  OwnersEntitled(Owner(det.hosts), BuildHosts(det.hosts).host)

\* "min_count: alert when group has >= N", "window_seconds: only count within
\* N s" (user_rules.py): a rule whose count is reached inside one window
\* raises an alert for that group.  The code compares the span of the whole
\* group with the window instead (UserRulesAggregator.finalize).
RuleFires ==
  \A r \in {q \in Rules : q.window # NoWindow} :
    LET matching == {f \in seen : IsV4(f) /\ PacketMatches(r, f)}
        Group(f) == {g \in matching : GroupKey(r, g) = GroupKey(r, f)}
        Counted(f) == {g \in Group(f) : g.ts \in f.ts..(f.ts + r.window)}
    IN \A f \in matching :
         Cardinality(Counted(f)) >= r.min_count =>
           \E a \in UserRuleAlerts(det.user_rules) :
             a.rule = r.id /\ a.about[2] = GroupKey(r, f)

\* sure: what the detectors that cannot fail raise; most: what all of them do.
EvidenceKept(sure, most) ==
  LET counted == Sum(report, [r \in report |-> r.count])
  IN /\ \A a \in sure : \E r \in report :
          /\ r.key = Key(a)
          /\ \/ Rank(r.sev) >= Rank(a.sev)
             \/ r.suppressed /\ Rank(r.sev) >= Rank(a.sev) - 2
     /\ Cardinality(sure) <= counted
     /\ counted <= Cardinality(most)

Evidence(built) == EvidenceKept(Alerts(det, built, Faulty), Alerts(det, built, {}))

\* The report loses no evidence: whichever detector fails, every alert of the
\* others has an entry with its key, as severe as the alert unless a role of
\* the address lowered it (and says so), and the counts of the merged entries
\* add up to the alerts (_run_detections, apply_host_role_suppression,
\* _dedupe_alerts).
ReportKeepsEvidence == report # NotYet => Evidence(BuildHosts(det.hosts))
=============================================================================
