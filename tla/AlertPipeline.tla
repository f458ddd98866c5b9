----------------------------- MODULE AlertPipeline -----------------------------
(***************************************************************************)
(* From the alerts of the detectors to those of the report: the KEV        *)
(* enricher, canonical endpoints, the machine behind each alert, the       *)
(* suppression by role, the SOC badge and the merge of duplicates.         *)
(***************************************************************************)
EXTENDS Hosts

CONSTANTS
  Cves(_),      \* the CVEs an alert names
  Kev,          \* CISA KEV: CVE -> whether ransomware uses it
  PrinterVendor,\* the vendor classes of printers
  SocRules,     \* settings['soc_ips']: a sequence of [net, mode]
  Apart,        \* rules whose alerts differ in title or ports by about
  Resolver,     \* name of DNS peers a resolver has at least
  FileServer    \* SMB peers a file server has at least

-----------------------------------------------------------------------------
(* KEV: pending are the alerts that exist when the enricher runs *)

KevHits(a) == Cves(a) \intersect DOMAIN Kev
Ransomware(a) == \E cve \in KevHits(a) : Kev[cve]

Promoted(a) == IF Ransomware(a) THEN [a EXCEPT !.sev = "critical"] ELSE a

IpOf(a) == IF a.src # NoHost THEN a.src ELSE a.dst

\* One summary per address and CVE.
KevSummaries(pending) ==
  {Alert("kev_match", IF Kev[h[2]] THEN "critical" ELSE "high", h[1], NoHost, h[2], 1)
     : h \in UNION {{<<IpOf(a), cve>> : cve \in KevHits(a)} : a \in pending}}

\* An empty catalog (also when it cannot be loaded) leaves everything alone.
KevEnriched(pending) == {Promoted(a) : a \in pending} \union KevSummaries(pending)

\* Outlier and user-rule alerts are appended after the post detectors.
Collected(streamed, posted, outliers, ruled) ==
  KevEnriched(streamed \union posted) \union outliers \union ruled

-----------------------------------------------------------------------------
(* Roles *)

\* names: the state of ProtocolStats, assets: that of Assets.
Roles(names, assets, ip) ==
  {r \in {"dns_resolver"} : IsLocal(ip) /\ Cardinality(PeersOf(names, ip, "DNS")) >= Resolver}
  \union
  {r \in {"mail_server"} : IsLocal(ip) /\ Cardinality(PeersOf(names, ip, "SMTP")) >= Resolver}
  \union
  {r \in {"file_server"} : IsLocal(ip) /\ Cardinality(PeersOf(names, ip, "SMB")) >= FileServer}
  \union
  {r \in {"printer"} : \E m \in DOMAIN assets :
     ip \in assets[m].ips /\ assets[m].vendor \in PrinterVendor}

\* How far a role lowers an alert.  The rules for mail servers are about
\* alerts that do not exist yet at this point.
StepsDown(a, roles) ==
  IF "dns_resolver" \in roles /\ a.rule = "nxdomain_spike" THEN 2
  ELSE IF "dns_resolver" \in roles /\ a.rule \in {"suspicious_tld", "dga", "fast_flux"} THEN 1
  ELSE IF "printer" \in roles /\ a.rule = "llmnr_answers" THEN 2
  ELSE 0

DownBy(sev, steps) == Ladder[Max({1, Rank(sev) - steps})]

Suppress(a, roles) ==
  LET lowered == DownBy(a.sev, StepsDown(a, roles))
  IN [alert |-> [a EXCEPT !.sev = lowered], suppressed |-> lowered # a.sev]

-----------------------------------------------------------------------------
(* The SOC badge *)

SocSide(a, rule) ==
  LET srcHit == a.src \in rule.net
      dstHit == a.dst \in rule.net
  IN IF \/ rule.mode = "src_only" /\ ~srcHit
        \/ rule.mode = "dst_only" /\ ~dstHit
        \/ ~srcHit /\ ~dstHit
     THEN "none"
     ELSE IF srcHit /\ dstHit THEN "both" ELSE IF srcHit THEN "src" ELSE "dst"

\* The first rule that matches.
SocMatch(a) ==
  LET hits == {i \in DOMAIN SocRules : SocSide(a, SocRules[i]) # "none"}
  IN IF hits = {} THEN "none" ELSE SocSide(a, SocRules[Min(hits)])

-----------------------------------------------------------------------------
(* The merge of duplicates *)

Key(a) == <<a.rule, a.src, a.dst, IF a.rule \in Apart THEN a.about ELSE NoHost>>

\* mutant: the merged alert is only as severe as its mildest part
WorstIsMildest(sevs) == Ladder[Min({Rank(s) : s \in sevs})]

Worst(sevs) == Ladder[Max({Rank(s) : s \in sevs})]

\* entries: what Suppress returned; hosts: what BuildHosts returned.
Dedupe(entries, hosts) ==
  LET Of(k) == {e \in entries : Key(e.alert) = k}
  IN {[key        |-> k,
       sev        |-> Worst({e.alert.sev : e \in Of(k)}),
       count      |-> Cardinality(Of(k)),
       suppressed |-> \E e \in Of(k) : e.suppressed,
       soc        |-> {SocMatch(e.alert) : e \in Of(k)} \ {"none"},
       host       |-> HostOfAlert(hosts, [src |-> k[2], dst |-> k[3]])]
        : k \in {Key(e.alert) : e \in entries}}

\* results['alerts'] of the scan.
Report(collected, names, assets, hosts) ==
  Dedupe({Suppress(a, Roles(names, assets, IpOf(a))) : a \in collected}, hosts)

-----------------------------------------------------------------------------
(* What is derived from the report *)

\* The alerts filed under an address.
AlertCount(report, ip) ==
  Cardinality({r \in report : IpOf([src |-> r.key[2], dst |-> r.key[3]]) = ip})

Weight == ("critical" :> 20) @@ ("high" :> 8) @@ ("medium" :> 3) @@ ("low" :> 1)
          @@ ("info" :> 0)

\* The part of host_risk's score the analysis fills in: severities, capped.
SeverityScore(report, ip) ==
  LET mine == {r \in report : IpOf([src |-> r.key[2], dst |-> r.key[3]]) = ip}
  IN Min({55, Sum(mine, [r \in mine |-> Weight[r.sev]])})

\* observed_artifacts: fingerprints, names and the MACs of local addresses.
Artifacts(kind, values) == {<<kind, v>> : v \in values \ {""}}

Observed(tls, http, ssh, macs, quic) ==
  Artifacts("ja3", {f.ja3 : f \in ToSet(tls.hellos)})
  \union Artifacts("ja4", {f.ja4 : f \in ToSet(tls.hellos)})
  \union Artifacts("sni", {f.sni : f \in ToSet(tls.hellos)})
  \union Artifacts("ja3s", {f.ja3 : f \in ToSet(tls.answers)})
  \union Artifacts("ja4s", {f.ja4 : f \in ToSet(tls.answers)})
  \union Artifacts("http_host", {f.host : f \in ToSet(http)})
  \union Artifacts("hassh_server", {k[4] : k \in {j \in ssh.kex : j[3]}})
  \union Artifacts("hassh", {k[4] : k \in {j \in ssh.kex : ~j[3]}})
  \union Artifacts("mac", {p[1] : p \in {q \in macs : IsLocal(q[2])}} \ GroupMacs)
  \union Artifacts("quic_dest", QuicExternal(quic))
=============================================================================
