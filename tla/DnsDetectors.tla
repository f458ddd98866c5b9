----------------------------- MODULE DnsDetectors -----------------------------
(***************************************************************************)
(* What the DNS traffic of a host gives away.  A name is a record of what  *)
(* the code derives from its text: q the text, zone and sub (what is below *)
(* the registrable zone), labels their number, tld; internal (.local,      *)
(* .arpa, ...); long (long and entropic below the zone); payload           *)
(* (_looks_encoded of sub); score (_dga_score of its label, in hundredths) *)
(* and len (of that label); beacon (prefix and label of a CS beacon).      *)
(***************************************************************************)
EXTENDS Traffic

CONSTANTS
  ReputationZones, \* DNS_REPUTATION_LOOKUP_ZONES
  ProviderZones,   \* DNS_PROVIDER_OWNED_ZONES
  SuspiciousTlds,
  PublicResolvers, \* KNOWN_PUBLIC_DNS_RESOLVERS
  MaxZones,        \* MAX_ZONES
  MaxZoneNames     \* 10000 (tunnelling) and 20000 (cumulative) names per zone

Query(f) == f.proto = "dns" /\ ~f.response
Answer(f) == f.proto = "dns" /\ f.response

ZoneKey(f) == <<f.src, f.name.zone>>

\* names holds <<source, zone, text>>.
NamesUnder(names, key) == {m \in names : <<m[1], m[2]>> = key}

AddName(names, key, text) ==
  IF Cardinality(NamesUnder(names, key)) < MaxZoneNames
  THEN names \union {<<key[1], key[2], text>>} ELSE names

-----------------------------------------------------------------------------
(* Tunnelling: long, entropic subdomains per source and zone *)

DnsTunnelInit == [zones |-> {}, names |-> {}]

DnsTunnelUpdate(s, f) ==
  IF /\ Query(f)
     /\ f.name.labels >= 3
     /\ ~f.name.internal
     /\ f.name.long
     /\ f.name.zone \notin ReputationZones
     /\ ZoneKey(f) \in s.zones \/ Cardinality(s.zones) < MaxZones
  THEN [zones |-> s.zones \union {ZoneKey(f)},
        names |-> AddName(s.names, ZoneKey(f), f.name.q)]
  ELSE s

DnsTunnelAlerts(s) ==
  {LET n == Cardinality(NamesUnder(s.names, key))
   IN Alert("dns_tunneling",
            IF n >= 10 THEN "critical" ELSE IF n >= 3 THEN "high" ELSE "medium",
            key[1], NoHost, key[2], n)
     : key \in s.zones}

-----------------------------------------------------------------------------
(* Cumulative exfiltration: bytes and names per source and zone *)

\* sent: queries counted for their bytes; names: those within the cap, encoded
\* the ones that looked like payload when they were first seen.
DnsExfilInit == [sent |-> {}, names |-> {}, encoded |-> {}]

DnsExfilUpdate(s, f) ==
  IF /\ Query(f)
     /\ f.name.labels >= 3
     /\ ~f.name.internal
     /\ f.name.zone \notin ReputationZones \union ProviderZones
     /\ f.name.sub # ""
  THEN LET names == AddName(s.names, ZoneKey(f), f.name.sub)
       IN [sent |-> s.sent \union {f},
           names |-> names,
           encoded |-> s.encoded \union {m \in names \ s.names : f.name.payload}]
  ELSE s

DnsExfilAlerts(s) ==
  LET Queries(key) == {f \in s.sent : ZoneKey(f) = key}
      Bytes(key) == Sum(Queries(key), [f \in Queries(key) |-> f.name.bytes])
      Names(key) == Cardinality(NamesUnder(s.names, key))
      Encoded(key) == Cardinality(NamesUnder(s.encoded, key))
      Heavy(key) == Bytes(key) >= Threshold.dns_cumulative_exfil_bytes
      Many(key) == Names(key) >= Threshold.dns_cumulative_exfil_subdomains
      Severity(key) ==
        IF 10 * Encoded(key) >= 5 * Names(key)
        THEN IF Heavy(key) /\ Many(key) THEN "critical" ELSE "high"
        ELSE IF 10 * Encoded(key) >= 2 * Names(key) THEN "medium" ELSE "low"
  IN {Alert("dns_cumulative_exfil", Severity(key), key[1], NoHost, key[2], Names(key))
        : key \in {ZoneKey(f) : f \in {g \in s.sent :
                     Heavy(ZoneKey(g)) \/ Many(ZoneKey(g))}}}

-----------------------------------------------------------------------------
(* Names generated by algorithm *)

\* suspects holds <<source, name>> for names that scored.
DgaInit == {}

DgaUpdate(s, f) ==
  IF /\ Query(f)
     /\ f.name.labels >= 2
     /\ f.name.len >= Threshold.dga_min_label_length
     /\ f.name.score >= Threshold.dga_score_threshold
  THEN s \union {<<f.src, f.name>>}
  ELSE s

DgaAlerts(s) ==
  LET Of(src) == {m[2] : m \in {k \in s : k[1] = src}}
      Best(src) == Max({m.score : m \in Of(src)})
      N(src) == Cardinality(Of(src))
      Severity(src) ==
        IF N(src) >= 5 \/ (N(src) >= 3 /\ Best(src) >= 85) THEN "critical"
        ELSE IF N(src) >= 2 \/ Best(src) >= 90 THEN "high" ELSE "medium"
  IN {Alert("dga", Severity(src), src, NoHost, "names", N(src)) : src \in {k[1] : k \in s}}

-----------------------------------------------------------------------------
(* Fast flux: one name, many scattered addresses, short lives *)

\* answers: <<domain, address, net, ttl, frame>>; client: who asked first.
FastFluxInit == [answers |-> {}, client |-> << >>]

FastFluxUpdate(s, f) ==
  IF Answer(f)
  THEN [answers |-> s.answers \union
          {<<f.name.q, r.ip, r.net, r.ttl, f.id>> : r \in f.records},
        client |-> [q \in DOMAIN s.client \union {f.name.q : r \in f.records} |->
                      Lookup(s.client, q, f.dst)]]
  ELSE s

FastFluxAlerts(s) ==
  LET Of(q) == {a \in s.answers : a[1] = q}
      Addresses(q) == Cardinality({a[2] : a \in Of(q)})
      Nets(q) == Cardinality({a[3] : a \in Of(q)})
      Timed(q) == {a \in Of(q) : a[4] > 0}
      Lives(q) == Sum(Timed(q), [a \in Timed(q) |-> a[4]])
      \* the average is compared with its sum
      ShortLived(q, ttl) == Lives(q) <= ttl * Cardinality(Timed(q))
      Severity(q) ==
        IF Nets(q) < 3 THEN "low"
        ELSE IF 2 * Nets(q) < Addresses(q) THEN "medium"
        ELSE IF Addresses(q) >= Threshold.fastflux_min_ips * 2 /\ ShortLived(q, 60)
        THEN "critical" ELSE "high"
  IN {Alert("fast_flux", Severity(q), s.client[q], NoHost, q, Addresses(q))
        : q \in {r \in DOMAIN s.client :
                   /\ Addresses(r) >= Threshold.fastflux_min_ips
                   /\ Timed(r) # {}
                   /\ ShortLived(r, Threshold.fastflux_max_ttl)
                   /\ r \notin ProviderZones}}

-----------------------------------------------------------------------------
(* Bursts of NXDOMAIN *)

MaxNxEvents == 100000

NxdomainInit == {}

\* Reverse, local and single-label names fail all the time.
NxdomainUpdate(F, f) ==
  Keep(F, f, /\ Answer(f)
             /\ f.rcode = 3
             /\ f.name.q = "" \/ (f.name.labels >= 2 /\ ~f.name.internal)
             /\ Cardinality({g \in F : g.dst = f.dst}) < MaxNxEvents)

\* A response without a question counts for itself.
FailedName(F) == [f \in F |-> IF f.name.q = "" THEN <<"#", f.id>> ELSE <<f.name.q, 0>>]

\* The names in the window that holds the most of them.
NamesAtPeak(F, width) ==
  {g.name : g \in {h \in DensestWindow(F, FailedName(F), width) : h.name.q # ""}}

NxdomainAlerts(F) ==
  LET To(client) == {f \in F : f.dst = client}
      Peak(client) == SlidingPeak(To(client), FailedName(To(client)),
                                  Threshold.nxdomain_window)
      Names(client) == NamesAtPeak(To(client), Threshold.nxdomain_window)
      Scored(client) == Cardinality({m \in Names(client) : m.len >= 6})
      Random(client) ==
        Cardinality({m \in Names(client) :
                       m.len >= 6 /\ m.score >= Threshold.dga_score_threshold})
      Severity(client) ==
        IF /\ Peak(client) >= Threshold.nxdomain_threshold * 2
           /\ Scored(client) > 0
           /\ 10 * Random(client) >= 3 * Scored(client)
        THEN "critical"
        ELSE IF Scored(client) > 0 /\ 10 * Random(client) < Scored(client)
        THEN "medium" ELSE "high"
  IN {Alert("nxdomain_spike", Severity(c), c, NoHost, "names", Peak(c))
        : c \in {f.dst : f \in {g \in F : Peak(g.dst) >= Threshold.nxdomain_threshold}}}

-----------------------------------------------------------------------------
(* Cheap top-level domains; DNS over TLS *)

SuspiciousTldInit == {}

SuspiciousTldUpdate(s, f) ==
  IF Query(f) /\ f.name.labels >= 2 /\ f.name.tld \in SuspiciousTlds
  THEN s \union {<<f.src, f.name.tld, f.name.q>>} ELSE s

SuspiciousTldAlerts(s) ==
  {LET n == Cardinality(NamesUnder(s, key))
   IN Alert("suspicious_tld",
            IF n >= 5 THEN "high" ELSE IF n >= 3 THEN "medium" ELSE "low",
            key[1], NoHost, key[2], n)
     : key \in {<<m[1], m[2]>> : m \in s}}

DotInit == {}

DotUpdate(s, f) ==
  IF f.proto = "tcp" /\ 853 \in {f.sport, f.dport}
  THEN s \union {IF f.dport = 853 THEN <<f.src, f.dst>> ELSE <<f.dst, f.src>>}
  ELSE s

DotAlerts(s) ==
  {Alert("dns_over_tls", IF k[2] \in PublicResolvers THEN "low" ELSE "medium",
         k[1], k[2], 853, 1) : k \in s}

-----------------------------------------------------------------------------
(* Cobalt Strike beacons over DNS *)

\* mutant: the ladder inverted, a lone hit outranks a sustained beacon
BeaconSeverityInverted(hits) == IF hits < 3 THEN "critical" ELSE "high"

BeaconSeverity(hits) == IF hits >= 3 THEN "critical" ELSE "high"

DnsBeaconInit == {}

DnsBeaconUpdate(F, f) ==
  Keep(F, f, /\ Query(f)
             /\ f.name.labels >= 3
             /\ f.name.beacon
             /\ f.name.zone \notin ReputationZones \union ProviderZones)

DnsBeaconAlerts(F) ==
  {LET hits == Cardinality({f \in F : ZoneKey(f) = key})
   IN Alert("cs_dns_beacon", BeaconSeverity(hits), key[1], NoHost, key[2], hits)
     : key \in {ZoneKey(f) : f \in F}}
=============================================================================
