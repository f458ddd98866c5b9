------------------------------- MODULE MCEngine -------------------------------
(***************************************************************************)
(* Captures for the engine, one theme at a time, with thresholds small     *)
(* enough that a handful of frames crosses them.  The addresses: pc, pc2,  *)
(* pc3, srv and gw are local, ext and ext2 outside, pc6 and ll6 the IPv6   *)
(* addresses (global, link-local) of pc, ext6 one outside; m1 is the MAC   *)
(* of pc, m2 that of gw, m3 another, bc the broadcast one.                 *)
(***************************************************************************)
EXTENDS Engine

CONSTANTS pc, pc2, pc3, srv, gw, ext, ext2, pc6, ll6, ext6, m1, m2, m3, bc, cloud

MCLocal == {pc, pc2, pc3, srv, gw}
MCScope ==
  [h \in MCLocal |-> "v4_private"] @@ [h \in {ext, ext2} |-> "v4_public"]
  @@ (pc6 :> "v6_global") @@ (ext6 :> "v6_global") @@ (ll6 :> "v6_link_local")
  @@ (NoHost :> "none")

MCThreshold ==
  [arp_claim_window |-> 5, arp_discovery_min_targets |-> 2,
   arp_discovery_time_window |-> 5, arp_gratuitous_max |-> 2,
   beaconing_ac_min_samples |-> 4, beaconing_ac_min_score |-> 60,
   beaconing_max_jitter_percent |-> 20, beaconing_min_connections |-> 3,
   brute_force_attempts |-> 3, brute_force_time_window |-> 10, bulky |-> 60,
   carving_enabled |-> TRUE, carving_flow_max |-> 30, carving_total_max |-> 50,
   conn_beacon_burst_gap |-> 5, conn_beacon_min_bursts |-> 3,
   conn_beacon_min_duration |-> 100, conn_beacon_min_payload |-> 1,
   dga_min_label_length |-> 7, dga_score_threshold |-> 70,
   dns_cumulative_exfil_bytes |-> 60, dns_cumulative_exfil_subdomains |-> 2,
   exfil_min_bytes_out |-> 100, exfil_min_ratio |-> 3, fastflux_max_ttl |-> 300,
   fastflux_min_ips |-> 2, flow_anomaly_min_flows |-> 2,
   host_scan_answer_ratio_benign |-> 9, host_scan_answer_ratio_critical |-> 2,
   host_scan_answer_ratio_high |-> 5, host_scan_min_hosts |-> 2,
   host_scan_slow_multiplier |-> 2, host_scan_time_window |-> 10,
   icmp_min_large_packets |-> 2, icmp_payload_threshold |-> 100,
   lateral_min_targets |-> 2, lateral_shared_server_min_clients |-> 1,
   llmnr_response_threshold |-> 2, managed |-> 60, min_samples_critical |-> 5,
   min_samples_high |-> 4, ndp_override_max |-> 2, nxdomain_threshold |-> 2,
   nxdomain_window |-> 5, payload_entropy_min |-> 70, payload_entropy_min_bytes |-> 40,
   ping_sweep_min_hosts |-> 2, ping_sweep_time_window |-> 5, port_scan_min_ports |-> 2,
   port_scan_slow_multiplier |-> 2, port_scan_time_window |-> 5,
   quic_high_volume_bytes |-> 100, quic_high_volume_packets |-> 3,
   quic_new_dest_max_alerts |-> 1, sizeable |-> 20, snmp_walk_threshold |-> 2,
   snmp_walk_window |-> 5, spray_min_targets |-> 2, spray_time_window |-> 10,
   sustained_exfil_min_bytes |-> 40, sustained_exfil_min_duration |-> 10,
   sustained_exfil_min_ratio |-> 2, tcp_flow_max_bytes |-> 60,
   trickle_duration |-> 20, trickle_rate |-> 3]

-----------------------------------------------------------------------------
(* Frames *)

NoCert == [fp |-> "", self_signed |-> FALSE, names |-> {}, sans |-> FALSE,
           ip_sans |-> FALSE, depth |-> 0, from |-> 0, to |-> 0, lets_encrypt |-> FALSE]

Tcp(id, ts, src, sport, dst, dport, flags, len) ==
  [proto |-> "tcp", id |-> id, ts |-> ts, src |-> src, dst |-> dst, size |-> 1 + len,
   sport |-> sport, dport |-> dport, flags |-> flags, len |-> len, window |-> 64240,
   opts |-> <<"MSS", "SAckOK", "Timestamp", "NOP", "WScale">>,
   says |-> "", about |-> "", sni |-> "", ver |-> "", ja3 |-> "", ja4 |-> "",
   alpn |-> {}, ech |-> FALSE, cert |-> NoCert, method |-> "", host |-> "", ua |-> "",
   head |-> {}, body |-> {}]

SYN(id, ts, src, sport, dst, dport) == Tcp(id, ts, src, sport, dst, dport, {"S"}, 0)
SYNACK(id, ts, src, sport, dst, dport) == Tcp(id, ts, src, sport, dst, dport, {"S", "A"}, 0)
ACK(id, ts, src, sport, dst, dport) == Tcp(id, ts, src, sport, dst, dport, {"A"}, 0)
RST(id, ts, src, sport, dst, dport) == Tcp(id, ts, src, sport, dst, dport, {"R"}, 0)
Data(id, ts, src, sport, dst, dport, len, says) ==
  [Tcp(id, ts, src, sport, dst, dport, {"A"}, len) EXCEPT !.says = says]

Udp(id, ts, src, sport, dst, dport, size, carries) ==
  [proto |-> "udp", id |-> id, ts |-> ts, src |-> src, dst |-> dst, size |-> size,
   sport |-> sport, dport |-> dport, carries |-> carries]

Arp(id, ts, mac, src, dst, op) ==
  [proto |-> "arp", id |-> id, ts |-> ts, src |-> src, dst |-> dst, size |-> 1,
   mac |-> mac, op |-> op]

Na(id, ts, mac, target, override) ==
  [proto |-> "na", id |-> id, ts |-> ts, src |-> target, dst |-> ll6, size |-> 1,
   mac |-> mac, target |-> target, override |-> override]

Ns(id, ts, mac, src) ==
  [proto |-> "ns", id |-> id, ts |-> ts, src |-> src, dst |-> ll6, size |-> 1, mac |-> mac]

\* Anything else on the wire, with its Ethernet addresses.
Relayed(id, ts, mac, src, dst, vendor) ==
  [proto |-> "other", id |-> id, ts |-> ts, src |-> src, dst |-> dst, size |-> 1,
   mac |-> mac, dmac |-> bc, ttl |-> 64, vendor |-> vendor]

Dhcp(id, ts, mac, client, ciaddr, ack, yiaddr) ==
  [proto |-> "dhcp", id |-> id, ts |-> ts, src |-> gw, dst |-> pc, size |-> 1,
   mac |-> mac, client |-> client, ciaddr |-> ciaddr, ack |-> ack, yiaddr |-> yiaddr]

Icmp(id, ts, src, dst, kind, len) ==
  [proto |-> "icmp", id |-> id, ts |-> ts, src |-> src, dst |-> dst, size |-> len,
   kind |-> kind, len |-> len, multicast |-> FALSE,
   about |-> [src |-> src, sport |-> 0, dst |-> dst, dport |-> 0]]

\* dst is told that its segment to this port of the source got nowhere.
Unreachable(id, ts, src, dst, sport, dport) ==
  [Icmp(id, ts, src, dst, "unreachable", 1) EXCEPT
     !.about = [src |-> dst, sport |-> sport, dst |-> src, dport |-> dport]]

\* sub below a zone of two labels.
Name(zone, sub) ==
  [q |-> sub \o "." \o zone, zone |-> zone, sub |-> sub, labels |-> 3, tld |-> "com",
   internal |-> FALSE, long |-> FALSE, payload |-> FALSE, score |-> 10, len |-> 6,
   beacon |-> FALSE, bytes |-> 10]
Unnamed == [Name("", "") EXCEPT !.q = "", !.labels = 0]
LongName(zone, sub) ==
  [Name(zone, sub) EXCEPT !.long = TRUE, !.payload = TRUE, !.bytes = 40]
RandomName(zone, sub) == [Name(zone, sub) EXCEPT !.score = 90, !.len = 9, !.tld = "xyz"]
BeaconName(zone, sub) == [Name(zone, sub) EXCEPT !.beacon = TRUE]

Dns(id, ts, src, dst, response, name) ==
  [proto |-> "dns", id |-> id, ts |-> ts, src |-> src, dst |-> dst, size |-> 20,
   sport |-> IF response THEN 53 ELSE 5000, dport |-> IF response THEN 5000 ELSE 53,
   response |-> response, name |-> name, records |-> {}, rcode |-> 0,
   addresses |-> << >>]
Asks(id, ts, src, dst, name) == Dns(id, ts, src, dst, FALSE, name)
Fails(id, ts, src, dst, name) == [Dns(id, ts, src, dst, TRUE, name) EXCEPT !.rcode = 3]
Answers(id, ts, src, dst, name, records) ==
  [Dns(id, ts, src, dst, TRUE, name) EXCEPT
     !.records = records,
     !.addresses = <<[ip |-> (CHOOSE r \in records : TRUE).ip, owner |-> name.zone]>>]

Record(ip, net, ttl) == [ip |-> ip, net |-> net, ttl |-> ttl]

LlmnrAnswer(id, ts, src, name) ==
  [proto |-> "llmnr", id |-> id, ts |-> ts, src |-> src, dst |-> pc, size |-> 1,
   response |-> TRUE, answers |-> 1, name |-> name, mac |-> m3, vendor |-> "printer"]

Krb(id, ts, src, sport, dst, dport, msg, rc4, preauth) ==
  [proto |-> "krb", id |-> id, ts |-> ts, src |-> src, dst |-> dst, size |-> 1,
   sport |-> sport, dport |-> dport, msg |-> msg, rc4 |-> rc4, preauth |-> preauth]

Tunnel(id, ts, src, dst, kind) ==
  [proto |-> "ipip", id |-> id, ts |-> ts, src |-> src, dst |-> dst, size |-> 1,
   kind |-> kind]

Hello(id, ts, dst, dport, sni, ja3) ==
  [Data(id, ts, pc, 2000 + id, dst, dport, 10, "hello") EXCEPT
     !.sni = sni, !.ver = "tls12", !.ja3 = ja3, !.ja4 = ja3]
ServerHello(id, ts, src, dport, ja3) ==
  [Data(id, ts, src, 443, pc, dport, 10, "server_hello") EXCEPT
     !.ver = "tls12", !.ja3 = ja3, !.ja4 = ja3]
Shown(id, ts, src, cert) == [Data(id, ts, src, 443, pc, 2001, 10, "cert") EXCEPT !.cert = cert]

Request(id, ts, src, dst, method, host, ua, head, body) ==
  [Data(id, ts, src, 3000 + id, dst, 80, 20, "request") EXCEPT
     !.method = method, !.host = host, !.ua = ua, !.head = head, !.body = body]

-----------------------------------------------------------------------------
(* The captures *)

\* Bursts of ports, the same port again, frames of equal stamp.
Scanning ==
  {[SYN(1, 1, ext, 1, pc, 1001) EXCEPT !.window = 1024, !.opts = <<"MSS", "SAckOK">>],
   [SYN(2, 4, ext, 1, pc, 1002) EXCEPT !.window = 1024], SYN(3, 4, ext, 1, pc, 1001), SYN(4, 8, ext, 1, pc, 1003), SYN(5, 20, ext, 1, pc, 1004),
   SYN(6, 21, ext, 1, srv, 1001), SYN(7, 22, pc2, 1, ext, 1005)}

Probing ==
  {SYN(1, 1, ext, 7001, pc, 4444), SYNACK(2, 2, pc, 4444, ext, 7001),
   ACK(3, 3, ext, 7001, pc, 4444), RST(4, 4, pc, 4444, ext, 7001),
   Unreachable(5, 5, pc, ext, 7001, 4444), SYN(6, 6, pc2, 4444, ext2, 443),
   SYNACK(7, 7, ext2, 443, pc2, 4444)}

LoggingIn ==
  {SYN(1, 1, pc, 7001, srv, 23), SYNACK(2, 2, srv, 23, pc, 7001),
   Data(3, 3, pc, 7002, ext, 21, 5, "userpass"), Data(4, 4, pc, 7003, ext, 25, 5, "starttls"),
   Data(5, 5, pc, 7003, ext, 25, 5, "auth"), Data(6, 6, pc, 7004, srv, 80, 5, "basic"),
   ACK(7, 7, pc, 7001, srv, 23)}

Sharing ==
  {SYN(1, 1, ext, 7001, srv, 445), SYNACK(2, 2, srv, 445, ext, 7001),
   Data(3, 3, ext, 7001, srv, 445, 5, ""), SYN(4, 4, pc, 7002, ext2, 139),
   Unreachable(5, 5, srv, ext, 7001, 445),
   [Data(6, 6, ext, 7003, srv, 445, 5, "pipe") EXCEPT !.about = "svcctl"]}

Pipe(id, src, dst, about) == [Data(id, id, src, 7000, dst, 445, 5, "pipe") EXCEPT !.about = about]
BindTo(id, src, dst, about) == [Data(id, id, src, 7000, dst, 135, 5, "bind") EXCEPT !.about = about]

Spreading ==
  {Pipe(1, pc, srv, "svcctl"), Pipe(2, pc, pc2, "svcctl"), Pipe(3, pc, pc3, "svcctl"),
   Pipe(4, pc, srv, "samr"), BindTo(5, pc, srv, "drsuapi"),
   Krb(6, 6, pc, 7001, srv, 88, "as_req", FALSE, TRUE),
   Krb(7, 7, srv, 7001, pc, 88, "as_req", FALSE, TRUE),
   BindTo(8, ext, srv, "spoolss")}

Sweeping ==
  {SYN(1, 1, pc, 7001, pc2, 3389), SYN(2, 2, pc, 7002, pc3, 3389),
   SYN(3, 30, pc, 7003, srv, 3389), SYNACK(4, 4, pc2, 3389, pc, 7001),
   SYN(5, 5, pc2, 7004, srv, 3389), Data(6, 6, pc, 7001, pc2, 3389, 70, ""),
   SYN(7, 7, pc, 7005, ext, 80), SYN(8, 8, pc, 7006, ext2, 80)}

Guessing ==
  {SYN(1, 1, ext, 7001, srv, 22), SYN(2, 4, ext, 7002, srv, 22), SYN(3, 9, ext, 7003, srv, 22),
   SYN(4, 20, ext, 7004, srv, 22), RST(5, 5, srv, 22, ext, 7001),
   Data(6, 6, ext, 7001, srv, 22, 10, ""), Data(7, 7, ext, 7002, srv, 22, 70, "")}

Claiming ==
  {Arp(1, 1, m2, gw, pc, "reply"), Arp(2, 2, m3, gw, pc, "reply"),
   Arp(3, 3, m3, gw, gw, "reply"), Arp(4, 4, m3, gw, gw, "reply"),
   Arp(5, 5, m2, gw, pc2, "request"), Arp(6, 7, m3, pc3, pc2, "reply")}

Discovering ==
  {Arp(1, 1, m1, pc, pc2, "request"), Arp(2, 4, m1, pc, pc3, "request"),
   Arp(3, 4, m1, pc, pc2, "request"), Arp(4, 12, m1, pc, srv, "request"),
   Arp(5, 30, m1, pc, gw, "request"), Arp(6, 31, m1, pc, ll6, "request"),
   Arp(7, 40, m1, pc, pc6, "request")}

Neighbours ==
  {Na(1, 1, m1, pc6, TRUE), Na(2, 2, m3, pc6, TRUE), Ns(3, 3, m1, ll6),
   Na(4, 4, m3, pc6, TRUE), Dhcp(5, 5, m2, m1, NoHost, TRUE, pc)}

\* m2 relays for pc and for the outside; m1 states two addresses.
Relaying ==
  {Relayed(1, 1, m2, pc, ext, ""), Arp(2, 2, m1, pc, gw, "request"),
   Relayed(3, 9, m2, pc, ext, ""), Relayed(4, 4, m2, ext, pc, ""),
   Arp(5, 5, m1, pc3, gw, "request"), Relayed(6, 6, m1, srv, pc, "printer")}

Encoding ==
  {Asks(1, 1, pc, gw, LongName("a", "x")), Asks(2, 2, pc, gw, LongName("a", "y")),
   Asks(3, 3, pc, gw, LongName("a", "z")), Asks(4, 4, pc, gw, LongName("b", "x")),
   Asks(5, 5, pc, gw, BeaconName("c", "x")), Asks(6, 6, pc, gw, BeaconName("c", "y")),
   Asks(7, 7, pc, gw, BeaconName("c", "z")), Asks(8, 8, pc, ext, RandomName("d", "x"))}

\* srv resolves for pc and pc2.
Resolving ==
  {Asks(1, 1, pc, srv, RandomName("d", "x")), Asks(2, 1, pc2, srv, Name("d", "y")),
   Fails(3, 2, ext, srv, RandomName("d", "x")), Fails(4, 3, ext, srv, Name("d", "y")),
   Fails(5, 30, ext, srv, Unnamed), Asks(6, 1, srv, ext, RandomName("d", "x")),
   Answers(7, 8, ext, srv, Name("e", "x"),
           {Record(ext, 1, 10), Record(ext2, 2, 20), Record(ext6, 3, 30)})}

Pinging ==
  {Icmp(1, 1, pc, pc2, "echo", 1), Icmp(2, 100, pc, pc2, "echo", 1),
   Icmp(3, 200, pc, pc2, "echo", 1), Icmp(4, 400, pc, pc2, "echo", 1),
   Icmp(5, 402, pc, pc3, "echo", 1), Icmp(6, 500, pc, ext, "echo", 600),
   Icmp(7, 501, pc, ext, "echo", 600), Icmp(8, 800, pc, srv, "echo", 1)}

Naming ==
  {LlmnrAnswer(1, 1, pc3, "a"), LlmnrAnswer(2, 2, pc3, "b"), LlmnrAnswer(3, 3, pc3, "c"),
   Udp(4, 4, ext, 7001, srv, 161, 1, ""), Udp(5, 5, ext, 7001, srv, 161, 1, ""),
   Udp(6, 30, ext, 7001, srv, 161, 1, ""), Relayed(7, 7, m3, pc3, pc, "printer")}

\* pc and pc6 are one machine, ext and ext6 one service.
Uploading ==
  {Arp(1, 1, m1, pc, gw, "request"), Na(2, 2, m1, pc6, FALSE),
   Udp(3, 3, pc, 7001, ext, 9, 60, ""), Udp(4, 25, pc, 7001, ext, 9, 50, ""),
   Udp(5, 5, pc6, 7001, ext6, 9, 60, ""), Udp(6, 6, ext, 9, pc, 7001, 30, ""),
   Udp(7, 7, pc, 7001, ext2, 9, 500, "")}

Calling ==
  {SYN(1, 0, pc, 7001, ext, 443), SYN(2, 60, pc, 7002, ext, 443),
   SYN(3, 120, pc, 7003, ext, 443), SYN(4, 180, pc, 7004, ext, 443),
   SYN(5, 300, pc, 7005, ext, 443), Data(6, 61, pc, 7002, ext, 443, 9, ""),
   SYN(7, 240, pc, 7006, ext, 443)}

Pulsing == {Data(i, 60 * i, pc, 7001, ext, 443, 9, "") : i \in 1..6}

\* Five answers without preauthentication, and keys in RC4.
Roasting ==
  {Krb(i, i, srv, 88, pc, 7001, "as_rep", FALSE, FALSE) : i \in 1..5}
  \union {Krb(6, 6, pc, 7001, srv, 88, "as_req", TRUE, FALSE),
          Krb(7, 7, srv, 88, pc, 7001, "error", FALSE, TRUE),
          Krb(8, 8, pc, 7001, srv, 88, "tgs_req", TRUE, FALSE)}

RoastingMore ==
  {Krb(i, i, pc, 7001, srv, 88, "tgs_req", TRUE, FALSE) : i \in 1..3}
  \union {Krb(i, i, pc, 7001, srv, 88, "as_req", TRUE, FALSE) : i \in 4..6}

OddCert == [NoCert EXCEPT !.fp = "f1", !.self_signed = TRUE, !.names = {"other"},
                          !.depth = 1, !.ip_sans = TRUE, !.to = 3]
FreeCert == [NoCert EXCEPT !.fp = "f2", !.names = {"random"}, !.sans = TRUE, !.to = 9,
                           !.lets_encrypt = TRUE]

Securing ==
  {[Hello(1, 2, ext, 443, "random", "cs") EXCEPT !.alpn = {"h2"}],
   [Hello(2, 3, ext, 8888, "", "good") EXCEPT !.ver = "ssl3", !.alpn = {"h2"}, !.ech = TRUE],
   [ServerHello(3, 4, ext, 2002, "css") EXCEPT !.ver = "ssl3"],
   Shown(4, 4, ext, OddCert), Shown(5, 5, ext, FreeCert)}

Fronting ==
  {Hello(1, 2, ext, 443, "doh", "good"), Hello(2, 2, ext, 443, "", "dohclient"),
   Hello(3, 2, ext2, 443, "", "good"), Hello(4, 2, ext2, 443, "share", "cs"),
   ServerHello(5, 3, ext2, 2004, "css")}

Browsing ==
  {Request(1, 1, ext, srv, "GET", "www", "nikto", {"shell"}, {}),
   Request(2, 2, pc, ext, "TRACE", "share", "", {"env"}, {}),
   Request(3, 3, ext, srv, "POST", "www", "curl", {"log4shell"}, {"xss", "sqli"}),
   Request(4, 4, pc, ext2, "GET", "doh", "agent", {"dns_query", "cs_uri", "cs_cookie"}, {}),
   Request(5, 5, pc, ext2, "GET", "imds", "agent", {"checksum8", "metadata"}, {})}

\* Requests that share the budget of the carver: 50 bytes, 30 each.
Carving ==
  {Data(1, 1, ext, 80, pc, 7001, 25, ""), Data(2, 2, ext, 80, pc, 7001, 20, ""),
   Data(3, 3, ext, 80, pc, 7002, 25, ""), Data(4, 4, ext, 80, pc, 7003, 10, ""),
   Data(5, 5, ext, 80, pc, 7004, 5, ""),
   [Data(6, 6, pc6, 7005, ext6, 80, 10, "request") EXCEPT
      !.method = "TRACE", !.host = "www", !.ua = "curl", !.head = {"env"}]}

Wrapping ==
  {Udp(1, 1, pc, 7001, ext, 443, 80, "quic_long"), Udp(2, 2, ext, 443, pc, 7001, 80, "quic_long"),
   Udp(3, 3, pc, 7001, ext2, 443, 120, "quic_long"), Udp(4, 4, pc, 853, ext, 7002, 5, "quic_long"),
   Udp(5, 5, pc, 7003, ext, 7004, 5, "wireguard_init"),
   Udp(6, 6, pc, 7003, ext, 7005, 5, "openvpn_reset"), Tunnel(7, 7, pc, ext, "gre")}

Controlling ==
  {Data(1, 1, ext, 7001, srv, 502, 5, "modbus_write"), SYN(2, 2, ext, 7001, srv, 502),
   SYN(3, 3, ext, 7002, srv, 3306), SYNACK(4, 4, srv, 3306, ext, 7002),
   Data(5, 5, srv, 3306, ext, 7002, 5, "db_hello"),
   Unreachable(6, 6, srv, ext, 7001, 502), SYN(7, 7, pc, 7003, ext, 853)}

Ruled ==
  {Udp(1, 1, pc, 7001, ext, 99, 1, ""), Udp(2, 3, pc, 7001, ext, 99, 1, ""),
   Udp(3, 60, pc, 7001, ext, 99, 1, ""), Udp(4, 62, pc, 7001, ext, 99, 1, ""),
   Udp(5, 5, ext, 99, pc, 7001, 1, ""), Udp(6, 6, ext, 99, pc, 7001, 1, "")}

Secured ==
  {Data(1, 1, srv, 22, pc, 7001, 5, "ssh_banner"), Data(2, 2, pc, 7001, srv, 22, 5, "ssh_banner"),
   [Data(3, 3, srv, 22, pc, 7001, 5, "kexinit") EXCEPT !.about = "hassh1"],
   [Data(4, 4, pc, 7001, srv, 22, 5, "kexinit") EXCEPT !.about = "hassh2"],
   Data(5, 5, pc, 7002, ext, 8000, 50, "h2c"),
   Data(6, 6, pc, 7003, ext, 8000, 50, "")}

MCCapture ==
  [scanning |-> Scanning, probing |-> Probing, logging_in |-> LoggingIn,
   sharing |-> Sharing, spreading |-> Spreading, sweeping |-> Sweeping,
   guessing |-> Guessing, claiming |-> Claiming, discovering |-> Discovering,
   neighbours |-> Neighbours, relaying |-> Relaying, encoding |-> Encoding,
   resolving |-> Resolving, pinging |-> Pinging, naming |-> Naming,
   uploading |-> Uploading, calling |-> Calling, pulsing |-> Pulsing,
   roasting |-> Roasting, roasting_more |-> RoastingMore, securing |-> Securing,
   fronting |-> Fronting, browsing |-> Browsing, carving |-> Carving,
   wrapping |-> Wrapping, controlling |-> Controlling, ruled |-> Ruled,
   secured |-> Secured]

MCThemes == DOMAIN MCCapture

-----------------------------------------------------------------------------
(* The tables of constants.py and the settings *)

MCSuspiciousPorts == (4444 :> "critical") @@ (1337 :> "high")
MCWebPorts == {80, 443, 8080}
MCNameOf == (ext :> cloud) @@ (ext6 :> cloud)
MCBindings == <<[key |-> m3, ip |-> pc, mac |-> NoHost], [key |-> cloud, ip |-> pc2, mac |-> NoHost]>>
MCExcluded == {<<m1, pc3>>}
MCMacOf(k) == IF k \in {m1, m2, m3} THEN k ELSE NoHost
MCIcsPorts == (502 :> "modbus")
MCDbPorts == (3306 :> "mysql")
MCInterfaces == ("drsuapi" :> "critical") @@ ("spoolss" :> "high")
MCSniReasons == [n \in {"random", "doh", "share", "other"} |-> IF n = "random" THEN {"dga", "tld"} ELSE {}]
MCZone == [n \in {"random", "doh", "share", "other"} |-> IF n \in {"random", "other"} THEN "z" ELSE n]
MCScannerTier == ("nikto" :> "vuln") @@ ("curl" :> "recon")
MCInjections == ("xss" :> [label |-> "XSS", sev |-> "medium"]) @@ ("sqli" :> [label |-> "SQLi", sev |-> "high"])
MCPayloads == ("log4shell" :> "critical") @@ ("metadata" :> "high")
MCKev == ("CVE-2021-44228" :> TRUE) @@ ("CVE-2017-0144" :> FALSE)
MCCves(a) ==
  IF a.rule = "exploit_payload" /\ a.about[2][1] = "log4shell" THEN {"CVE-2021-44228"}
  ELSE IF a.rule = "smb_inbound" THEN {"CVE-2017-0144"} ELSE {}
MCSocRules == <<[net |-> {srv}, mode |-> "dst_only"], [net |-> {pc, ext}, mode |-> "any"]>>
MCFiller(f) == f.len = 100
MCEntropy(F) == IF \E f \in F : f.len = 50 THEN 80 ELSE 30
MCAutocorrelation(stamps) == IF Len(stamps) >= 4 THEN 80 ELSE 0
MCOutliers(F) == IF \E f \in F : f.src = ext THEN "medium" ELSE "none"
MCRules ==
  {[id |-> "burst", proto |-> "udp", dport |-> 99, says |-> "any", direction |-> "outbound",
    key |-> "src+dst", min_count |-> 2, window |-> 10, severity |-> "high"]}
MCApart ==
  {"suspicious_port", "insecure_protocol", "cleartext_credentials", "old_tls",
   "suspicious_tld", "host_sweep", "brute_force", "password_spraying", "http_method",
   "http_injection", "exploit_payload", "kev_match", "beaconing", "conn_beaconing",
   "no_sni", "alpn_port", "tls_ech", "database_exposed", "flow_anomaly", "burst",
   "lateral", "host_addresses", "doq", "wireguard", "openvpn", "encapsulation",
   "ics_presence", "lateral_pipe", "rpc_bind", "payload_entropy", "port_scan"}
=============================================================================
