---------------------------- MODULE ExfilDetectors ----------------------------
(***************************************************************************)
(* Data that leaves and implants that call home: upload volume per pair    *)
(* and per machine, slow drips, ICMP tunnels, opaque payload on cleartext  *)
(* ports, lateral movement, periodic connections and periodic bursts.      *)
(***************************************************************************)
EXTENDS TcpFlows

CONSTANTS
  LateralPorts,       \* LATERAL_PORTS
  CleartextPorts,     \* CLEARTEXT_PORTS
  CleanIntervals,     \* NTP_CLEAN_INTERVALS
  Filler(_),          \* _is_filler_pattern of an echo payload
  Entropy(_),         \* _calculate_entropy of what some segments carry, in tenths
  Autocorrelation(_), \* peak score of _binned_autocorrelation_peak, hundredths
  NameOf,             \* address -> registrable zone its hostname belongs to
  MaxPairs,           \* MAX_PAIRS of the host aggregate
  MaxFlows,           \* MAX_FLOWS of in-connection beaconing
  MaxBursts           \* MAX_BURSTS_PER_FLOW

IsIp(f) == f.proto # "arp"

-----------------------------------------------------------------------------
(* Tunnels in ICMP echo payload *)

IcmpTunnelInit == {}

IcmpTunnelUpdate(F, f) ==
  Keep(F, f, f.proto = "icmp" /\ f.kind \in {"echo", "reply"}
             /\ f.len >= Threshold.icmp_payload_threshold)

IcmpTunnelAlerts(F) ==
  LET Of(pair) == {f \in F : <<f.src, f.dst>> = pair}
      Count(pair) == Cardinality(Of(pair))
      Fillers(pair) == Cardinality({f \in Of(pair) : Filler(f)})
      Severity(pair) ==
        IF 10 * Fillers(pair) >= 9 * Count(pair) THEN "low"
        ELSE IF Sum(Of(pair), [f \in Of(pair) |-> f.len]) >= 512 * Count(pair)
        THEN "critical" ELSE "high"
  IN {Alert("icmp_tunneling", Severity(p), p[1], p[2], "icmp", Count(p))
        : p \in {q \in {<<f.src, f.dst>> : f \in F} :
                   Count(q) >= Threshold.icmp_min_large_packets}}

-----------------------------------------------------------------------------
(* Upload volume.  A pair is <<local, external>>; the frames both volume    *)
(* detectors book are those that cross the perimeter.                      *)

Crossing(f) == IsIp(f) /\ IsLocal(f.src) # IsLocal(f.dst)

Pair(f) == IF IsLocal(f.src) THEN <<f.src, f.dst>> ELSE <<f.dst, f.src>>

VolumeInit == {}
VolumeUpdate(F, f) == Keep(F, f, Crossing(f))

BytesOf(F) == Sum(F, [f \in F |-> f.size])
Out(F, pair) == BytesOf({f \in F : <<f.src, f.dst>> = pair})
In(F, pair) == BytesOf({f \in F : <<f.dst, f.src>> = pair})

Inverted(out, in, ratio) == out >= ratio * Max({in, 1})

VolumeSeverity(out) ==
  IF out >= 5 * Threshold.exfil_min_bytes_out THEN "high" ELSE "medium"

Bulk(F, pair) == /\ Out(F, pair) >= Threshold.exfil_min_bytes_out
                 /\ Inverted(Out(F, pair), In(F, pair), Threshold.exfil_min_ratio)

VolumeAlerts(F) ==
  {Alert("volume_exfil", SanctionedDowngrade(p[2], VolumeSeverity(Out(F, p))),
         p[1], p[2], "upload", Out(F, p))
     : p \in {q \in {Pair(f) : f \in F} : Bulk(F, q)}}

SustainedInit == {}
SustainedUpdate(F, f) == Keep(F, f, Crossing(f))

\* mutant: the sibling's threshold is not honoured
DripsAlways(F, pair) ==
  LET span == Duration({f \in F : Pair(f) = pair})
  IN /\ Out(F, pair) >= Threshold.sustained_exfil_min_bytes
     /\ Inverted(Out(F, pair), In(F, pair), Threshold.sustained_exfil_min_ratio)
     /\ span >= Threshold.sustained_exfil_min_duration

\* What already reached the threshold of the volume detector is left to it.
Drips(F, pair) ==
  LET span == Duration({f \in F : Pair(f) = pair})
  IN /\ Out(F, pair) < Threshold.exfil_min_bytes_out
     /\ Out(F, pair) >= Threshold.sustained_exfil_min_bytes
     /\ Inverted(Out(F, pair), In(F, pair), Threshold.sustained_exfil_min_ratio)
     /\ span >= Threshold.sustained_exfil_min_duration

SustainedAlerts(F) ==
  LET Span(pair) == Duration({f \in F : Pair(f) = pair})
      Severity(pair) ==
        IF /\ Span(pair) >= Threshold.trickle_duration
           /\ Out(F, pair) < Threshold.trickle_rate * Max({Span(pair), 1})
        THEN "high" ELSE "medium"
  IN {Alert("sustained_exfil", SanctionedDowngrade(p[2], Severity(p)),
            p[1], p[2], "drip", Out(F, p))
        : p \in {q \in {Pair(f) : f \in F} : Drips(F, q)}}

-----------------------------------------------------------------------------
(* Upload volume of a machine, its IPv4 and IPv6 addresses together *)

\* Booked from both viewpoints: which end is ours is known when the hosts are.
HostExfilInit == [out |-> {}, in |-> {}]

Booked(s) == {<<f.src, f.dst>> : f \in s.out} \union {<<f.dst, f.src>> : f \in s.in}

BookPair(s, F, f, pair, wanted) ==
  Keep(F, f, wanted /\ (pair \in Booked(s) \/ Cardinality(Booked(s)) < MaxPairs))

HostExfilUpdate(s, f) ==
  IF IsIp(f)
  THEN LET sent == [s EXCEPT !.out = BookPair(s, @, f, <<f.src, f.dst>>, ~IsLocal(f.dst))]
       IN [sent EXCEPT !.in = BookPair(sent, @, f, <<f.dst, f.src>>, ~IsLocal(f.src))]
  ELSE s

DestinationOf(peer) == IF peer \in DOMAIN NameOf THEN NameOf[peer] ELSE peer

\* An address that sent most, or NoHost (of equals the code takes the first in
\* the order of its dictionary, or of the addresses).
Most(S, bytes) ==
  IF S = {} THEN NoHost ELSE CHOOSE x \in S : \A y \in S : bytes[y] <= bytes[x]

\* HostOf: the map address -> host of HostIdentityAggregator.
HostExfilAlerts(s, HostOf) ==
  LET OutOf(p) == BytesOf({f \in s.out : <<f.src, f.dst>> = p})
      InOf(p) == BytesOf({f \in s.in : <<f.dst, f.src>> = p})
      Ours == {p \in Booked(s) : p[1] \in DOMAIN HostOf /\ p[2] \notin DOMAIN HostOf}
      Group(p) == <<HostOf[p[1]], DestinationOf(p[2])>>
      Of(g) == {p \in Ours : Group(p) = g}
      SentOver(P) == Sum(P, [p \in P |-> OutOf(p)])
      Received(g) == Sum(Of(g), [p \in Of(g) |-> InOf(p)])
      \* reported by the detector of pairs already
      Covered(g) == \E p \in Of(g) :
                      /\ IsLocal(p[1]) /\ ~IsLocal(p[2])
                      /\ OutOf(p) >= Threshold.exfil_min_bytes_out
                      /\ Inverted(OutOf(p), InOf(p), Threshold.exfil_min_ratio)
      Peers(g) == {p[2] : p \in Of(g)}
      TopPeer(g) == Most(Peers(g), [peer \in Peers(g) |->
                                      SentOver({p \in Of(g) : p[2] = peer})])
      Senders(g) == {p[1] : p \in {q \in Of(g) : OutOf(q) > 0}}
      TopIp(g) == Most(Senders(g), [ip \in Senders(g) |-> OutOf(<<ip, TopPeer(g)>>)])
  IN {Alert("host_exfil", SanctionedDowngrade(TopPeer(g), VolumeSeverity(SentOver(Of(g)))),
            TopIp(g), TopPeer(g), g, SentOver(Of(g)))
        : g \in {h \in {Group(p) : p \in Ours} :
                   /\ ~Covered(h)
                   /\ SentOver(Of(h)) >= Threshold.exfil_min_bytes_out
                   /\ Inverted(SentOver(Of(h)), Received(h), Threshold.exfil_min_ratio)}}

-----------------------------------------------------------------------------
(* Opaque payload from client to server on a cleartext port                 *)

SampleSize == 65536

\* What a segment may open with that is in HEADER_PREFIXES.
Verbs == {"request", "userpass", "basic"}

\* sampled: segments taken while the sample had room.
EntropyInit == [sampled |-> {}, verbs |-> {}]

EntropyFlow(f) == <<f.src, f.dst, f.dport>>

Payload(F) == Sum(F, [f \in F |-> f.len])

EntropyUpdate(s, f) ==
  IF f.proto = "tcp" /\ f.dport \in CleartextPorts /\ f.len > 0
  THEN [sampled |-> Keep(s.sampled, f,
          Payload({g \in s.sampled : EntropyFlow(g) = EntropyFlow(f)}) < SampleSize),
        verbs |-> s.verbs \union {k \in {EntropyFlow(f)} : f.says \in Verbs}]
  ELSE s

EntropyAlerts(s) ==
  LET Of(k) == {f \in s.sampled : EntropyFlow(f) = k}
  IN {Alert("payload_entropy", IF Entropy(Of(k)) >= 78 THEN "high" ELSE "medium",
            k[1], k[2], k[3], Payload(Of(k)))
        : k \in {j \in {EntropyFlow(f) : f \in s.sampled} \ s.verbs :
                   /\ Payload(Of(j)) >= Threshold.payload_entropy_min_bytes
                   /\ Entropy(Of(j)) >= Threshold.payload_entropy_min}}

-----------------------------------------------------------------------------
(* Lateral movement: many peers on one administrative port *)

\* holds <<source, port, target>>
LateralInit == {}

LateralUpdate(s, f) ==
  IF /\ f.proto = "tcp" /\ PureSyn(f) /\ f.src # f.dst
     /\ IsLocal(f.src) /\ IsLocal(f.dst)
     /\ f.dport \in LateralPorts
  THEN s \union {<<f.src, f.dport, f.dst>>} ELSE s

LateralAlerts(s) ==
  LET Targets(src, port) == {m[3] : m \in {k \in s : k[1] = src /\ k[2] = port}}
      Clients(dst, port) == {m[1] : m \in {k \in s : k[2] = port /\ k[3] = dst}}
      Shared(src, port) ==
        {d \in Targets(src, port) : Cardinality(Clients(d, port) \ {src})
                                      >= Threshold.lateral_shared_server_min_clients}
      Peers(src, port) == Cardinality(Targets(src, port) \ Shared(src, port))
  IN {Alert("lateral",
            IF Peers(k[1], k[2]) >= 2 * Threshold.lateral_min_targets
            THEN "critical" ELSE "high",
            k[1], NoHost, k[2], Peers(k[1], k[2]))
        : k \in {<<m[1], m[2]>> : m \in {j \in s :
                   Peers(j[1], j[2]) >= Threshold.lateral_min_targets}}}

-----------------------------------------------------------------------------
(* Periodicity.  stamps is an increasing sequence of integers.  A mean is   *)
(* compared through its sum, a coefficient of variation through squares.    *)

Intervals(stamps) == [i \in 1..(Len(stamps) - 1) |-> stamps[i + 1] - stamps[i]]
Span(stamps) == stamps[Len(stamps)] - stamps[1]

\* percent of the mean that the farthest interval is off, rounded down
Jitter(stamps) ==
  LET ivs == Intervals(stamps)
      off == Max({LET d == ivs[i] * Len(ivs) - Span(stamps)
                  IN IF d < 0 THEN -d ELSE d : i \in DOMAIN ivs})
  IN (100 * off) \div Span(stamps)

\* The clean interval within one percent of the mean, or 0.
CleanInterval(stamps) ==
  LET n == Len(stamps) - 1
      Close(c) == /\ 100 * (Span(stamps) - c * n) <= c * n
                  /\ 100 * (c * n - Span(stamps)) <= c * n
      close == {c \in CleanIntervals : Close(c)}
  IN IF close = {} THEN 0 ELSE Min(close)

\* The phases on the clean grid lie within a twentieth of it, read as they
\* are or shifted by half of it.
PhaseLocked(stamps) ==
  LET c == CleanInterval(stamps)
      phases == {(2 * stamps[i]) % (2 * c) : i \in DOMAIN stamps}
      shifted == {(p + c) % (2 * c) : p \in phases}
  IN c # 0 /\ 20 * Min({Max(phases) - Min(phases), Max(shifted) - Min(shifted)}) < 2 * c

\* At least five sizes with a coefficient of variation under 0.20.
Uniform(sizes) ==
  LET n == Len(sizes)
      S == FoldLeft(LAMBDA a, x : a + x, 0, sizes)
      Q == FoldLeft(LAMBDA a, x : a + x * x, 0, sizes)
  IN n >= 5 /\ S > 0 /\ 100 * (n * Q - S * S) < 4 * S * S

-----------------------------------------------------------------------------
(* Periodic connections *)

\* syns: pure SYNs to the outside; sizes: first payload per connection.
BeaconingInit == [syns |-> {}, sizes |-> << >>]

BeaconKey(f) == <<f.src, f.dst, f.dport>>
Connection(f) == <<f.src, f.sport, f.dst, f.dport>>

BeaconingUpdate(s, f) ==
  IF f.proto = "tcp" /\ IsLocal(f.src) /\ ~IsLocal(f.dst)
  THEN IF PureSyn(f) THEN [s EXCEPT !.syns = @ \union {f}]
       ELSE IF f.len > 0
       THEN [s EXCEPT !.sizes = @ @@ (Connection(f) :> f.len)]
       ELSE s
  ELSE s

StampsOf(F) == [i \in 1..Cardinality(F) |-> InTime(F)[i].ts]

\* The sizes, in any order.
SizesTo(s, key) ==
  LET conns == {c \in DOMAIN s.sizes : <<c[1], c[3], c[4]>> = key}
  IN [i \in 1..Cardinality(conns) |->
        s.sizes[CHOOSE c \in conns : Cardinality({d \in conns : d[2] < c[2]}) = i - 1]]

\* Few samples cap the severity, unless both extra signals speak.
Calibrate(sev, n, strong) ==
  IF strong THEN sev
  ELSE IF n < Threshold.min_samples_high THEN Capped(sev, "medium")
  ELSE IF n < Threshold.min_samples_critical THEN Capped(sev, "high")
  ELSE sev

\* The severity of the linear test and of the autocorrelation, "info" when a
\* test does not speak; the stronger one is reported.
JitterSeverity(stamps, strong) ==
  IF Jitter(stamps) >= Threshold.beaconing_max_jitter_percent THEN "info"
  ELSE IF Jitter(stamps) < 5 \/ strong THEN "critical" ELSE "high"

PeriodicSeverity(stamps, strong) ==
  IF \/ Len(stamps) < Threshold.beaconing_ac_min_samples
     \/ Autocorrelation(stamps) < Threshold.beaconing_ac_min_score
  THEN "info"
  ELSE IF Autocorrelation(stamps) >= 75 \/ strong THEN "critical" ELSE "high"

\* The rank of the stronger test on these stamps.
BeaconRank(stamps, strong) ==
  Max({Rank(JitterSeverity(stamps, strong)), Rank(PeriodicSeverity(stamps, strong))})

EnoughStamps(stamps) == /\ Len(stamps) >= Threshold.beaconing_min_connections
                        /\ Len(stamps) >= 2
                        /\ Span(stamps) > 0

BeaconAlert(k, stamps, strong) ==
  Alert("beaconing",
        KnownServiceDowngrade(k[2],
          Calibrate(Ladder[BeaconRank(stamps, strong)], Len(stamps), strong)),
        k[1], k[2], k[3], Len(stamps))

BeaconingAlerts(s) ==
  LET Times(key) == StampsOf({f \in s.syns : BeaconKey(f) = key})
      Strong(key) == PhaseLocked(Times(key)) /\ Uniform(SizesTo(s, key))
  IN {BeaconAlert(k, Times(k), Strong(k))
        : k \in {j \in {BeaconKey(f) : f \in s.syns} :
                   /\ EnoughStamps(Times(j))
                   /\ BeaconRank(Times(j), Strong(j)) > Rank("info")}}

-----------------------------------------------------------------------------
(* Periodic bursts inside one connection, in the order of arrival *)

\* connection -> its bursts (stamp and size of the first segment) and the
\* latest stamp seen.
ConnBeaconInit == << >>

ConnBeaconUpdate(s, f) ==
  LET key == Connection(f)
      new == [stamps |-> <<f.ts>>, sizes |-> <<f.len>>, last |-> f.ts]
  IN IF \/ f.proto # "tcp"
        \/ ~(IsLocal(f.src) /\ ~IsLocal(f.dst))
        \/ f.len < Threshold.conn_beacon_min_payload
     THEN s
     ELSE IF key \notin DOMAIN s
     THEN IF Cardinality(DOMAIN s) < MaxFlows THEN Upsert(s, key, new) ELSE s
     ELSE LET rec == s[key]
              burst == /\ f.ts - rec.last > Threshold.conn_beacon_burst_gap
                       /\ Len(rec.stamps) < MaxBursts
          IN [s EXCEPT ![key] =
                [stamps |-> IF burst THEN Append(rec.stamps, f.ts) ELSE rec.stamps,
                 sizes  |-> IF burst THEN Append(rec.sizes, f.len) ELSE rec.sizes,
                 last   |-> Max({rec.last, f.ts})]]

\* Strong periodicity alone stays at high.
BurstSeverity(stamps, strong, peak) ==
  IF strong THEN "critical"
  ELSE IF Jitter(stamps) < 5 \/ peak >= 75 THEN "high" ELSE "medium"

ConnBeaconAlerts(s) ==
  LET Regular(k) ==
        Jitter(s[k].stamps) < Threshold.beaconing_max_jitter_percent
      \* asked for only when the linear test fails
      Peak(k) ==
        IF Regular(k) \/ Len(s[k].stamps) < Threshold.beaconing_ac_min_samples
        THEN 0 ELSE Autocorrelation(s[k].stamps)
      Speaks(k) ==
        /\ Len(s[k].stamps) >= Threshold.conn_beacon_min_bursts
        /\ Len(s[k].stamps) >= 2
        /\ Span(s[k].stamps) >= Threshold.conn_beacon_min_duration
        /\ Span(s[k].stamps) > 0
        /\ \/ Regular(k)
           \/ /\ Len(s[k].stamps) >= Threshold.beaconing_ac_min_samples
              /\ Peak(k) >= Threshold.beaconing_ac_min_score
      Strong(k) == PhaseLocked(s[k].stamps) /\ Uniform(s[k].sizes)
  IN {Alert("conn_beaconing",
            KnownServiceDowngrade(k[3], BurstSeverity(s[k].stamps, Strong(k), Peak(k))),
            k[1], k[3], <<k[2], k[4]>>, Len(s[k].stamps))
        : k \in {j \in DOMAIN s : Speaks(j)}}
=============================================================================
