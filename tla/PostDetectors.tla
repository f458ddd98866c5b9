---------------------------- MODULE PostDetectors ----------------------------
(***************************************************************************)
(* The detectors that run once, over what the aggregators collected: TLS   *)
(* hellos and certificates, HTTP requests, QUIC flows, hosts.  Collected   *)
(* lists are sequences in the order of arrival.                            *)
(*                                                                         *)
(* A client hello has sni, ver, ja3, ja4, alpn, ech; a server hello ver,   *)
(* ja3, ja4, alpn (its ja3s and ja4s); a certificate message cert; a       *)
(* request method, host, ua, and the sets head and body of what its header *)
(* part and its body show.  "" stands for a field that is absent.          *)
(***************************************************************************)
EXTENDS Traffic

CONSTANTS
  OldVersions,      \* OLD_TLS_VERSIONS
  SniReasons,       \* name -> subset of {"literal", "long", "dga", "tld"}
  BadJa3, BadJa3s, BadJa4, BadJa4s, \* built in, of the operator, of SSLBL
  AlpnOddPorts,     \* ALPN_INCONSISTENCY_PORTS
  HttpTokens,       \* ALPN_HTTP_TOKENS
  Zone,             \* name -> registrable zone
  Now,              \* the clock when the analysis runs
  Year2000,         \* stamps before it are not trusted
  ScannerTier,      \* SCANNER_USER_AGENTS: signature -> class of tool
  HighPaths, MediumPaths, \* EXPLOIT_PATHS_HIGH, EXPLOIT_PATHS_MEDIUM
  Injections,       \* INJECTION_PATTERNS: mark -> [label, sev]
  Payloads,         \* _EXPLOIT_PATTERNS: mark -> severity
  MetadataProbe,    \* the mark of the pattern _SSRF_IMDS_IDX
  MetadataHosts,
  ShareHosts,       \* FILE_SHARE_HOSTS, as hosts and server names
  DohHosts, DohIps, DohJa3,
  CobaltJa3,        \* the bad JA3 labelled Cobalt Strike
  Benign            \* sources GreyNoise calls RIOT or benign

\* The elements that pass the test and are the first with their key.
Firsts(s, Test(_), Key(_)) ==
  {s[i] : i \in {j \in DOMAIN s : /\ Test(s[j])
                                  /\ ~\E k \in 1..(j - 1) : Test(s[k]) /\ Key(s[k]) = Key(s[j])}}

Outbound(f) == IsLocal(f.src) /\ ~IsLocal(f.dst)

\* What an attack that leaves the network is lowered to.
FromOurs(sev, outbound) ==
  IF outbound /\ sev # "critical" THEN Lowered(sev, "low") ELSE sev

-----------------------------------------------------------------------------
(* Addresses with several MACs.  macs: ip -> set of MACs. *)

GatewayMacMinIps == 4

IpMacAlerts(macs) ==
  LET Gateway(m) ==
        Cardinality({ip \in DOMAIN macs : m \in macs[ip]}) >= GatewayMacMinIps
      Devices(ip) == {m \in macs[ip] : ~Gateway(m)}
      Severity(ip) ==
        IF IsLocal(ip) /\ Cardinality(Devices(ip)) >= 2 THEN "medium" ELSE "low"
  IN {Alert("ip_macs", Severity(ip), ip, NoHost, IsLocal(ip), Cardinality(macs[ip]))
        : ip \in {i \in DOMAIN macs : Cardinality(macs[i]) > 1}}

-----------------------------------------------------------------------------
(* Hosts with several addresses.  A host has key, gateway_like and its      *)
(* automatically bound addresses: ip, scope, first, last.                   *)

Overlap(a, b) == a.first <= b.last /\ b.first <= a.last

HostAddressAlerts(hosts, conflicts) ==
  LET InScope(h, scopes) == {a \in h.addresses : a.binding = "auto" /\ a.scope \in scopes}
      V4(h) == InScope(h, {"v4_private", "v4_public"})
      LinkLocal(h) == InScope(h, {"v6_link_local"})
      Together(A) == \E a, b \in A : a # b /\ Overlap(a, b)
      devices == {h \in hosts : ~h.gateway_like}
  IN {Alert("host_addresses", IF Together(V4(h)) THEN "medium" ELSE "low",
            h.key, NoHost, "v4", Cardinality(V4(h)))
        : h \in {d \in devices : Cardinality(V4(d)) >= 2}}
     \union
     {Alert("host_addresses", "medium", h.key, NoHost, "v6", Cardinality(LinkLocal(h)))
        : h \in {d \in devices : Cardinality(LinkLocal(d)) >= 2}}
     \union
     {Alert("binding_conflict", "medium", c.ip, NoHost, c.mac, 1) : c \in conflicts}

-----------------------------------------------------------------------------
(* TLS versions, server names and fingerprints.  C are the client hellos,   *)
(* S the server hellos.                                                     *)

OldTlsAlerts(C, S) ==
  LET offered == {<<f.src, f.dst, f.ver>> : f \in {g \in ToSet(C) : g.ver \in OldVersions}}
      confirmed == {<<f.dst, f.src, f.ver>> : f \in {g \in ToSet(S) : g.ver \in OldVersions}}
      Severity(k) == IF k \notin confirmed THEN "low"
                     ELSE IF k[3] = "ssl3" THEN "high" ELSE "medium"
  IN {Alert("old_tls", Severity(k), k[1], k[2], k[3], 1) : k \in offered \union confirmed}

SniSeverity(reasons) ==
  IF "dga" \in reasons \/ Cardinality(reasons) >= 2 THEN "high"
  ELSE IF reasons \intersect {"literal", "long"} # {} THEN "medium" ELSE "low"

SniAlerts(C) ==
  LET Odd(f) == f.sni # "" /\ SniReasons[f.sni] # {}
      Named(f) == <<f.src, f.sni>>
      nameless == {f \in ToSet(C) : f.sni = "" /\ ~IsLocal(f.dst)}
  IN {Alert("suspicious_sni", SniSeverity(SniReasons[f.sni]), f.src, f.dst, f.sni, 1)
        : f \in Firsts(C, Odd, Named)}
     \union
     {Alert("no_sni", "low", f.src, f.dst, f.dport, 1) : f \in nameless}

\* The server of the same pair has a bad fingerprint as well.
Corroborated(S, f) == \E g \in ToSet(S) : g.ja3 \in BadJa3s /\ g.dst = f.src /\ g.src = f.dst

Ja3Alerts(C, S) ==
  LET Bad(f) == f.ja3 \in BadJa3
      Key(f) == <<f.src, f.dst, f.ja3>>
      Severity(f) == IF Corroborated(S, f) THEN "critical"
                     ELSE IF f.dst \in KnownService THEN "low" ELSE "high"
  IN {Alert("bad_ja3", Severity(f), f.src, f.dst, f.ja3, 1) : f \in Firsts(C, Bad, Key)}

Ja3sAlerts(S) ==
  LET Bad(f) == f.ja3 \in BadJa3s
      Key(f) == <<f.src, f.sport, f.ja3>>
  IN {Alert("bad_ja3s", "high", f.dst, f.src, f.ja3, 1) : f \in Firsts(S, Bad, Key)}

Ja4Alerts(C, S) ==
  LET BadClient(f) == f.ja4 \in BadJa4
      ClientKey(f) == <<f.src, f.dst, f.ja4>>
      BadServer(f) == f.ja4 \in BadJa4s
      ServerKey(f) == <<f.src, f.sport, f.ja4>>
  IN {Alert("bad_ja4", "critical", f.src, f.dst, f.ja4, 1)
        : f \in Firsts(C, BadClient, ClientKey)}
     \union
     {Alert("bad_ja4s", "high", f.dst, f.src, f.ja4, 1)
        : f \in Firsts(S, BadServer, ServerKey)}

\* What the last server hello of the flow chose, else what the client offers.
Advertised(S, f) ==
  LET answers == {i \in DOMAIN S : /\ S[i].src = f.dst /\ S[i].sport = f.dport
                                   /\ S[i].dst = f.src /\ S[i].dport = f.sport}
      chosen == IF answers = {} THEN {} ELSE S[Max(answers)].alpn
  IN IF chosen # {} THEN chosen ELSE f.alpn

AlpnAlerts(C, S) ==
  LET Hits(f) == Advertised(S, f) \intersect HttpTokens
      Odd(f) == f.dport \in AlpnOddPorts /\ Hits(f) \notin {{}, {"http/1.1"}}
      Key(f) == <<f.src, f.dst, f.dport, Hits(f)>>
  IN {Alert("alpn_port", "high", f.src, f.dst, <<f.dport, Hits(f)>>, 1)
        : f \in Firsts(C, Odd, Key)}

EchAlerts(C) ==
  {Alert("tls_ech", "low", f.src, f.dst, f.dport, 1)
     : f \in {g \in ToSet(C) : g.ech /\ ~IsLocal(g.dst)}}

-----------------------------------------------------------------------------
(* Certificates.  cert: fp, self_signed, names (those it covers, wildcards  *)
(* too), sans (there are DNS names in it), ip_sans, depth of the chain,     *)
(* from, to, lets_encrypt.                                                  *)

\* The name that the first hello to this server and port asked for.
SniOf(C, f) ==
  LET asked == {i \in DOMAIN C : C[i].dst = f.src /\ C[i].dport = f.sport /\ C[i].sni # ""}
  IN IF asked = {} THEN "" ELSE C[Min(asked)].sni

\* The time a certificate is judged at.
SeenAt(f) == IF f.ts >= Year2000 THEN f.ts ELSE Now

SameZone(cert, sni) == \E n \in cert.names : Zone[n] = Zone[sni]

CertAlerts(C, certs) ==
  LET Bare(f) == f.cert.self_signed /\ ~IsLocal(f.src)
      Mismatch(f) == /\ SniOf(C, f) # "" /\ f.cert.names # {}
                     /\ SniOf(C, f) \notin f.cert.names
      Invalid(f) == f.cert.to < SeenAt(f) \/ f.cert.from > SeenAt(f)
      IpOnly(f) == /\ f.cert.depth = 1 /\ ~IsLocal(f.src)
                   /\ f.cert.ip_sans /\ ~f.cert.sans
      DgaName(f) == /\ f.cert.lets_encrypt /\ SniOf(C, f) # ""
                    /\ "dga" \in SniReasons[SniOf(C, f)]
      ServerCert(f) == <<f.src, f.cert.fp>>
      ServerNameCert(f) == <<f.src, SniOf(C, f), f.cert.fp>>
      NameCert(f) == <<SniOf(C, f), f.cert.fp>>
  IN {Alert("cert_self_signed", "medium", f.dst, f.src, f.cert.fp, 1)
        : f \in Firsts(certs, Bare, ServerCert)}
     \union
     {Alert("cert_mismatch",
            IF SameZone(f.cert, SniOf(C, f)) THEN "medium" ELSE "high",
            f.dst, f.src, <<SniOf(C, f), f.cert.fp>>, 1)
        : f \in Firsts(certs, Mismatch, ServerNameCert)}
     \union
     {Alert("cert_validity", "medium", f.dst, f.src, f.cert.fp, 1)
        : f \in Firsts(certs, Invalid, ServerCert)}
     \union
     {Alert("cert_ip_only", "high", f.dst, f.src, f.cert.fp, 1)
        : f \in Firsts(certs, IpOnly, ServerCert)}
     \union
     {Alert("cert_dga", "high", f.dst, f.src, f.cert.fp, 1)
        : f \in Firsts(certs, DgaName, NameCert)}

-----------------------------------------------------------------------------
(* Cleartext HTTP.  R are the requests. *)

ScannerAlerts(R) ==
  LET Tiers(src) == {ScannerTier[f.ua] : f \in {g \in ToSet(R) :
                       g.src = src /\ g.ua \in DOMAIN ScannerTier}}
      Severity(src) ==
        IF Tiers(src) \intersect {"exploit", "vuln"} # {} THEN "high"
        ELSE IF "recon" \in Tiers(src) THEN (IF IsLocal(src) THEN "high" ELSE "medium")
        ELSE "low"
      mute == {f \in ToSet(R) : f.ua = "" /\ ~IsLocal(f.dst)}
      Muted(src) == {<<f.dst, f.host, f.head>> : f \in {g \in mute : g.src = src}}
  IN {Alert("scanner_ua", Severity(f.src), f.src, NoHost, "ua", Cardinality(Tiers(f.src)))
        : f \in {g \in ToSet(R) : g.ua \in DOMAIN ScannerTier}}
     \union
     {Alert("no_user_agent", "medium", f.src, NoHost, "ua", Cardinality(Muted(f.src)))
        : f \in mute}

ExploitPathAlerts(R) ==
  LET Class(f) == IF f.head \intersect HighPaths # {} THEN "high"
                  ELSE IF f.head \intersect MediumPaths = {} THEN "none"
                  ELSE IF Outbound(f) THEN "low" ELSE "medium"
      Hits(src, class) == {<<f.head, f.host, f.method>> : f \in {g \in ToSet(R) :
                             g.src = src /\ Class(g) = class}}
  IN {Alert("exploit_path", Class(f), f.src, NoHost, Class(f),
            Cardinality(Hits(f.src, Class(f))))
        : f \in {g \in ToSet(R) : Class(g) # "none"}}

TracingMethods == {"TRACE", "TRACK", "CONNECT"}
AuthoringMethods == {"PROPFIND", "PROPPATCH", "MKCOL", "COPY", "MOVE", "LOCK", "UNLOCK"}

MethodSeverity ==
  [m \in TracingMethods \union AuthoringMethods |->
     IF m \in TracingMethods THEN "high" ELSE "medium"]

MethodAlerts(R) ==
  LET Paths(src, m) == {f.head : f \in {g \in ToSet(R) : g.src = src /\ g.method = m}}
  IN {Alert("http_method", MethodSeverity[f.method], f.src, NoHost, f.method,
            Cardinality(Paths(f.src, f.method)))
        : f \in {g \in ToSet(R) : g.method \in DOMAIN MethodSeverity}}

\* Cross-site scripting is looked for in the header part only.
Injected(f) ==
  {Injections[m] : m \in (f.head \union f.body) \intersect DOMAIN Injections}
    \ {Injections[m] : m \in {x \in (f.body \ f.head) \intersect DOMAIN Injections :
                                Injections[x].label = "XSS"}}

InjectionAlerts(R) ==
  LET Hits == UNION {{<<f.src, i, Outbound(f), f.head \union f.body>> : i \in Injected(f)}
                       : f \in ToSet(R)}
  IN {Alert("http_injection", FromOurs(h[2].sev, h[3]), h[1], NoHost, <<h[2], h[3]>>,
            Cardinality({g \in Hits : <<g[1], g[2], g[3]>> = <<h[1], h[2], h[3]>>}))
        : h \in Hits}

MaxSamples == 5

\* Asking the metadata service directly is no forgery.
Exploits(f) ==
  LET direct == f.dst \in MetadataHosts \/ f.host \in MetadataHosts
  IN {m \in (f.head \union f.body) \intersect DOMAIN Payloads :
        m = MetadataProbe => ~direct}

PayloadAlerts(R) ==
  LET Hits(src, m, out) == {i \in DOMAIN R : /\ R[i].src = src /\ m \in Exploits(R[i])
                                             /\ Outbound(R[i]) = out}
  IN UNION {{Alert("exploit_payload", FromOurs(Payloads[m], Outbound(f)), f.src, NoHost,
                   <<m, Outbound(f)>>,
                   Min({MaxSamples, Cardinality(Hits(f.src, m, Outbound(f)))}))
               : m \in Exploits(f)} : f \in ToSet(R)}

FileShareAlerts(C, R) ==
  LET Hits(src) == {<<f.host, "http", f.method>> : f \in {g \in ToSet(R) :
                      g.src = src /\ g.host \in ShareHosts}}
                   \union {<<f.sni, "tls", "">> : f \in {g \in ToSet(C) :
                      g.src = src /\ g.sni \in ShareHosts}}
      Uploads(src) == \E h \in Hits(src) : h[3] \in {"POST", "PUT"}
      sources == {f.src : f \in ToSet(C)} \union {f.src : f \in ToSet(R)}
  IN {Alert("file_share", IF Uploads(src) THEN "medium" ELSE "low", src, NoHost, "share",
            Cardinality(Hits(src)))
        : src \in {s \in sources : Hits(s) # {}}}

-----------------------------------------------------------------------------
(* Volume over QUIC to a destination not seen in earlier scans.  flows is a *)
(* sequence of records dst, bytes, packets, local; known comes from         *)
(* artifact_seen and is empty when the database does not answer.            *)

QuicVolumeAlerts(flows, known) ==
  LET To(dst) == {i \in DOMAIN flows : flows[i].dst = dst /\ ~IsLocal(dst)}
      Bytes(dst) == Sum(To(dst), [i \in To(dst) |-> flows[i].bytes])
      Packets(dst) == Sum(To(dst), [i \in To(dst) |-> flows[i].packets])
      Heavy(dst) == \/ Bytes(dst) >= Threshold.quic_high_volume_bytes
                    \/ Packets(dst) >= Threshold.quic_high_volume_packets
      candidates == {d \in {flows[i].dst : i \in DOMAIN flows} :
                       To(d) # {} /\ Heavy(d) /\ d \notin known}
      \* a stable sort: equals stay in the order they were first seen
      Ahead(d, e) == \/ Bytes(d) > Bytes(e)
                     \/ Bytes(d) = Bytes(e) /\ Min(To(d)) < Min(To(e))
      Place(d) == Cardinality({e \in candidates : Ahead(e, d)})
  IN {Alert("quic_volume", KnownServiceDowngrade(d, "medium"), NoHost, d, "quic", Bytes(d))
        : d \in {c \in candidates : Place(c) < Threshold.quic_new_dest_max_alerts}}

-----------------------------------------------------------------------------
(* DNS over HTTPS *)

\* The first signal a hello gives, as <<kind, evidence>>.
DohSignal(f) ==
  IF f.sni \in DohHosts THEN <<"sni", f.sni>>
  ELSE IF f.ja3 \in DohJa3 THEN <<"ja3", f.ja3>>
  ELSE IF f.sni = "" /\ f.dst \in DohIps THEN <<"ip", f.dst>>
  ELSE <<"none", NoHost>>

DohSeverity(signal) == CASE signal[1] = "sni" -> "low"
                         [] signal[1] = "ja3" -> "high"
                         [] OTHER -> "medium"

DohAlerts(C, R) ==
  {Alert("doh", DohSeverity(DohSignal(f)), f.src, f.dst, DohSignal(f), 1)
     : f \in {g \in ToSet(C) : g.dport = 443 /\ DohSignal(g)[1] # "none"}}
  \union
  {Alert("doh", "high", f.src, f.dst, <<"http_path", f.host>>, 1)
     : f \in {g \in ToSet(R) : g.host \in DohHosts /\ "dns_query" \in g.head}}

-----------------------------------------------------------------------------
(* Cobalt Strike over HTTP.  A request shows "checksum8" (a short path that *)
(* sums to 92 or 93), "cs_uri", "cs_agent", "cs_cookie".                    *)

CobaltSignals == {"cs_uri", "cs_agent", "cs_cookie"}

CobaltShows(f) ==
  (f.head \intersect CobaltSignals)
  \union {m \in {"checksum8"} : m \in f.head /\ f.method = "GET"}

CobaltAlerts(C, R) ==
  LET Signals(src, dst) ==
        UNION {CobaltShows(f) : f \in {g \in ToSet(R) : g.src = src /\ g.dst = dst}}
        \union {m \in {"ja3"} : \E f \in ToSet(C) : f.src = src /\ f.ja3 \in CobaltJa3}
      Severity(src, dst) == IF "checksum8" \in Signals(src, dst) THEN "critical" ELSE "high"
  IN {Alert("cobalt_strike", Severity(k[1], k[2]), k[1], k[2], "c2",
            Cardinality(Signals(k[1], k[2])))
        : k \in {q \in {<<f.src, f.dst>> : f \in ToSet(R)} :
                   \/ "checksum8" \in Signals(q[1], q[2])
                   \/ Cardinality(Signals(q[1], q[2])) >= 2}}

-----------------------------------------------------------------------------
(* GreyNoise: scanners known to be benign; ask holds those it answers for,  *)
(* empty without a key.                                                     *)

GreyNoiseAlerts(scanners, ask) ==
  {Alert("benign_scanner", "low", src, NoHost, "greynoise", 1)
     : src \in scanners \intersect Benign \intersect ask}
=============================================================================
