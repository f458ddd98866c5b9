---------------------------- MODULE SpoofDetectors ----------------------------
(***************************************************************************)
(* Address spoofing: ARP and its IPv6 analogue, neighbour advertisements.  *)
(* Both read the frames in the order of the file.                          *)
(***************************************************************************)
EXTENDS Traffic

CONSTANTS
  Gateways,       \* device_types 'Roteador', or an address ending in .1 or .254
  MaxTransitions, \* MAX_TRANSITIONS_PER_IP
  MaxClaims       \* MAX_CLAIMS_TRACKED

ASSUME SpoofAssumption == MaxTransitions \in Nat \ {0} /\ MaxClaims \in Nat \ {0}

AppendCapped(s, x, cap) == IF Len(s) < cap THEN Append(s, x) ELSE s

-----------------------------------------------------------------------------
(* ARP spoofing *)

\* owner: ip -> MAC that claimed it last; changes: ip -> <<ts, old, new>>s;
\* history: ip -> MACs, repetitions collapsed; lastClaim, claims: <<mac, ip>>
\* -> stamp, stamps; garp: mac -> stamps of gratuitous claims in the window.
ArpSpoofInit ==
  [owner |-> << >>, changes |-> << >>, history |-> << >>, lastClaim |-> << >>,
   claims |-> << >>, garp |-> << >>, flooded |-> {}, alerts |-> {}]

\* Drop the stamps at the head of the list while they are out of the window.
Expire(stamps, now) ==
  LET kept == {i \in DOMAIN stamps : now - stamps[i] <= Threshold.arp_claim_window}
      first == Min(kept \union {Len(stamps) + 1})
  IN SubSeq(stamps, first, Len(stamps))

ClaimGratuitously(s, f) ==
  LET recent == Expire(Append(Lookup(s.garp, f.mac, << >>), f.ts), f.ts)
      flood == Len(recent) >= Threshold.arp_gratuitous_max /\ f.mac \notin s.flooded
  IN [s EXCEPT !.garp = Upsert(@, f.mac, recent),
               !.flooded = @ \union {m \in {f.mac} : flood},
               !.alerts = @ \union
                 {a \in {Alert("garp_flood", "high", f.src, NoHost, f.mac, Len(recent))} :
                    flood}]

Claim(s, f) ==
  LET old == Lookup(s.owner, f.src, f.mac)
      changes == Lookup(s.changes, f.src, << >>)
      history == Lookup(s.history, f.src, << >>)
      key == <<f.mac, f.src>>
  IN [s EXCEPT
       !.owner = Upsert(@, f.src, f.mac),
       !.changes = IF old = f.mac THEN @
                   ELSE Upsert(@, f.src, AppendCapped(changes, <<f.ts, old, f.mac>>,
                                                   MaxTransitions)),
       !.history = IF history # << >> /\ Last(history) = f.mac THEN @
                   ELSE Upsert(@, f.src, AppendCapped(history, f.mac, MaxTransitions)),
       !.lastClaim = Upsert(@, key, f.ts),
       !.claims = Upsert(@, key, AppendCapped(Lookup(@, key, << >>), f.ts, MaxClaims))]

ArpSpoofUpdate(s, f) ==
  IF f.proto = "arp" /\ f.src # NoHost
  THEN IF f.src = f.dst THEN ClaimGratuitously(Claim(s, f), f) ELSE Claim(s, f)
  ELSE s

MaxClaimsInWindow(stamps, since) ==
  LET late == {i \in DOMAIN stamps : stamps[i] >= since}
  IN Max({0} \union
         {Cardinality({j \in late : stamps[j] \in
                         stamps[i]..(stamps[i] + Threshold.arp_claim_window)}) :
            i \in late})

FlipFlop(history) == Cardinality(ToSet(history)) < Len(history)

\* The new owner re-announces the address aggressively.
Reannounced(s, ip) ==
  \E c \in ToSet(s.changes[ip]) :
    MaxClaimsInWindow(Lookup(s.claims, <<c[3], ip>>, << >>), c[1])
      >= Threshold.arp_gratuitous_max

\* The new owner goes on answering for another address.
DualIdentity(s, ip) ==
  \E c \in ToSet(s.changes[ip]), k \in DOMAIN s.lastClaim :
    /\ k[1] = c[3]
    /\ k[2] # ip
    /\ s.lastClaim[k] >= c[1]

Poisoned(s, ip) ==
  FlipFlop(s.history[ip]) \/ Reannounced(s, ip) \/ DualIdentity(s, ip)

ArpSpoofAlerts(s) ==
  s.alerts \union
  {IF Poisoned(s, ip)
   THEN Alert("arp_spoofing", "critical", ip, NoHost, "arp", Len(s.changes[ip]))
   ELSE Alert("arp_mac_change", IF ip \in Gateways THEN "high" ELSE "medium",
              ip, NoHost, "arp", Len(s.changes[ip]))
     : ip \in DOMAIN s.changes}

-----------------------------------------------------------------------------
(* Spoofed neighbour advertisements *)

\* Conflicts are told apart by their number.
NdpSpoofInit == [mac |-> << >>, overrides |-> << >>, alerts |-> {}]

NdpSpoofUpdate(s, f) ==
  IF f.proto = "na"
  THEN LET conflict == Lookup(s.mac, f.target, f.mac) # f.mac
           count == Lookup(s.overrides, f.mac, 0) + 1
           flood == f.override /\ count = Threshold.ndp_override_max
           raised ==
             {a \in {Alert("ndp_spoofing", "critical", f.target, NoHost, f.mac,
                           Cardinality(s.alerts) + 1)} : conflict}
             \union
             {a \in {Alert("na_flood", "high", f.src, NoHost, f.mac, count)} : flood}
       IN [mac       |-> Upsert(s.mac, f.target, f.mac),
           overrides |-> IF f.override THEN Upsert(s.overrides, f.mac, count) ELSE s.overrides,
           alerts    |-> s.alerts \union raised]
  ELSE s

NdpSpoofAlerts(s) == s.alerts
=============================================================================
