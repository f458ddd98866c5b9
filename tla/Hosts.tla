--------------------------------- MODULE Hosts ---------------------------------
(***************************************************************************)
(* Host identity: which addresses belong to one machine, by its MAC.       *)
(* HostIdentityAggregator collects bindings, build_hosts decides which of  *)
(* them to trust, annotate_with_hosts names the machine in the alerts.     *)
(***************************************************************************)
EXTENDS Aggregators

CONSTANTS
  Scope,           \* classify_ip: address -> scope, "none" for what is no host
  Bindings,        \* the user's bindings, a sequence of [key, ip, mac]
  Excluded,        \* <<key, ip>> the user removed
  MacOf(_),        \* the MAC a host key is, NoHost for one made by hand
  RouterV4,        \* GATEWAY_MIN_V4_SOURCES
  MaxBindings      \* MAX_BINDINGS

V4Scopes == {"v4_private", "v4_link_local", "v4_public"}
Authoritative == {"arp", "ndp", "dhcp"}

\* A sequence of [mac, ip, first, last, sources] in the order they were met.
HostsInit == << >>

Observe(s, mac, ip, source, ts) ==
  LET at == {i \in DOMAIN s : s[i].mac = mac /\ s[i].ip = ip}
  IN IF mac \in GroupMacs \/ ip = NoHost \/ Scope[ip] = "none" THEN s
     ELSE IF at # {}
     THEN LET i == Min(at) IN
          [s EXCEPT ![i] = [s[i] EXCEPT !.sources = @ \union {source},
                                        !.first = Min({@, ts}),
                                        !.last = Max({@, ts})]]
     ELSE IF Len(s) >= MaxBindings THEN s
     ELSE Append(s, [mac |-> mac, ip |-> ip, first |-> ts, last |-> ts,
                     sources |-> {source}])

\* A DHCP frame names its client; an acknowledgement the address it leases.
ObserveDhcp(s, f) ==
  LET said == Observe(s, f.client, f.ciaddr, "dhcp", f.ts)
  IN IF f.ack THEN Observe(said, f.client, f.yiaddr, "dhcp", f.ts) ELSE said

\* The Ethernet source is noted for IPv4 only.
HostsUpdate(s, f) ==
  CASE f.proto = "arp" -> Observe(s, f.mac, f.src, "arp", f.ts)
    [] f.proto = "na"  -> Observe(s, f.mac, f.target, "ndp", f.ts)
    [] f.proto = "ns"  -> Observe(s, f.mac, f.src, "ndp", f.ts)
    [] OTHER ->
         LET stated == IF f.proto = "dhcp" THEN ObserveDhcp(s, f) ELSE s
         IN IF HasField(f, "mac") /\ IsV4(f)
            THEN Observe(stated, f.mac, f.src, "l2", f.ts) ELSE stated

\* A MAC that sends for a public IPv4 address or for many addresses routes.
RouterLike(s) ==
  LET Sent(mac) == {s[i].ip : i \in {j \in DOMAIN s :
                      s[j].mac = mac /\ "l2" \in s[j].sources}}
      Inside(mac) == {ip \in Sent(mac) : Scope[ip] \in V4Scopes \ {"v4_public"}}
  IN {mac \in {s[i].mac : i \in DOMAIN s} :
        \/ \E ip \in Sent(mac) : Scope[ip] = "v4_public"
        \/ Cardinality(Inside(mac)) >= RouterV4}

Stated(b) == b.sources \intersect Authoritative # {}

Candidates(s) ==
  {i \in DOMAIN s : /\ Scope[s[i].ip] # "v4_public"
                    /\ s[i].mac \in RouterLike(s) => Stated(s[i])
                    /\ <<s[i].mac, s[i].ip>> \notin Excluded}

\* mutant: whoever was seen with the address last has it
OutranksByTime(b, i, c, j) == b.last > c.last \/ (b.last = c.last /\ i < j)

\* What a machine states of itself outranks what the wire shows; then the
\* later, then the one met first.
Outranks(b, i, c, j) ==
  \/ Stated(b) /\ ~Stated(c)
  \/ Stated(b) = Stated(c) /\ (b.last > c.last \/ (b.last = c.last /\ i < j))

\* ip -> the binding that won.
Owner(s) ==
  [ip \in {s[i].ip : i \in Candidates(s)} |->
     LET rivals == {i \in Candidates(s) : s[i].ip = ip}
     IN s[CHOOSE i \in rivals : \A j \in rivals \ {i} : Outranks(s[i], i, s[j], j)]]

Addressed(b, binding) ==
  [ip |-> b.ip, scope |-> Scope[b.ip], first |-> b.first, last |-> b.last,
   binding |-> binding]

\* A user's binding the capture shows on another machine.
Contradicts(owner, m) ==
  LET expected == IF m.mac # NoHost THEN m.mac ELSE MacOf(m.key)
  IN m.ip \in DOMAIN owner /\ expected # NoHost /\ owner[m.ip].mac # expected

\* hosts: ip -> the key of its host and how it was bound.
BindByHand(owner, hosts, m) ==
  IF Contradicts(owner, m) THEN hosts
  ELSE Upsert(hosts, m.ip, [key |-> m.key, binding |-> "manual"])

\* Where every address ends: its owner, then the user's bindings in turn.
PlacedHosts(owner) ==
  LET auto == [ip \in DOMAIN owner |-> [key |-> owner[ip].mac, binding |-> "auto"]]
      Bind(hosts, m) == BindByHand(owner, hosts, m)
  IN FoldLeft(Bind, auto, Bindings)

HostEntry(owner, placed, ip) ==
  IF ip \in DOMAIN owner THEN Addressed(owner[ip], placed[ip].binding)
  ELSE [ip |-> ip, scope |-> Scope[ip], first |-> -1, last |-> -1,
        binding |-> placed[ip].binding]

HostTable(routers, owner, placed) ==
  [hosts |-> {[key |-> k,
               gateway_like |-> MacOf(k) \in routers,
               addresses |-> {HostEntry(owner, placed, ip)
                                : ip \in {j \in DOMAIN placed : placed[j].key = k}}]
                : k \in {placed[ip].key : ip \in DOMAIN placed}},
   conflicts |-> {[ip |-> m.ip, mac |-> owner[m.ip].mac] :
                    m \in {n \in ToSet(Bindings) : Contradicts(owner, n)}},
   host |-> [ip \in DOMAIN placed |-> placed[ip].key]]

Resolved(routers, owner) == HostTable(routers, owner, PlacedHosts(owner))

BuildHosts(s) == Resolved(RouterLike(s), Owner(s))

\* The machine an alert is about, by the address the alert is filed under.
HostOfAlert(hosts, a) ==
  LET ip == IF a.src # NoHost THEN a.src ELSE a.dst
  IN Lookup(hosts.host, ip, NoHost)
=============================================================================
