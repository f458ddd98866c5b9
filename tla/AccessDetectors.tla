--------------------------- MODULE AccessDetectors ---------------------------
(***************************************************************************)
(* Cleartext protocols and credentials, SMB across the perimeter, Kerberos *)
(* abuse, brute force and password spraying.                               *)
(***************************************************************************)
EXTENDS TcpFlows

\* The flow a segment belongs to when one of its ports is watched; the
\* destination port decides first.
FlowKey(f, ports) == IF f.dport \in ports THEN <<f.dst, f.src, f.dport>>
                                          ELSE <<f.src, f.dst, f.sport>>
Watched(f, ports) == f.proto = "tcp" /\ {f.sport, f.dport} \intersect ports # {}

\* What every detector with a tracker does with a frame first.
Track(flows, f, ports) ==
  IF Watched(f, ports)
  THEN ObserveTcp(flows, FlowKey(f, ports), f, f.dport \in ports)
  ELSE IF f.proto = "icmp" THEN ObserveIcmpError(flows, f, ports, FALSE)
  ELSE flows

-----------------------------------------------------------------------------
(* FTP and Telnet *)

CleartextLogin == {21, 23}

InsecureInit == NoFlows

InsecureUpdate(flows, f) == Track(flows, f, CleartextLogin)

InsecureSeverity(port, status) ==
  CASE status = "established" /\ port = 23 -> "critical"
    [] status = "established" /\ port # 23 -> "high"
    [] status = "open_no_ack"              -> "high"
    [] OTHER                               -> "low"

InsecureAlerts(flows) ==
  LET Of(server, port) == {k \in DOMAIN flows : k[1] = server /\ k[3] = port}
      Status(server, port) == BestStatus({FlowStatus(flows, k) : k \in Of(server, port)})
  IN {Alert("insecure_protocol", InsecureSeverity(k[3], Status(k[1], k[3])),
            NoHost, k[1], k[3], Cardinality(Of(k[1], k[3])))
        : k \in DOMAIN flows}

-----------------------------------------------------------------------------
(* Credentials in clear text.  says is what the payload of a segment is:   *)
(* "starttls" (also STLS, AUTH TLS), a kind of login, "" for the rest.     *)

MailPlain == {25, 110, 143, 587}
HttpPorts == {80, 8080, 8000, 8888}
CredentialPorts == MailPlain \union HttpPorts \union {21}

CredentialsInit == [seen |-> {}, upgraded |-> {}, flows |-> NoFlows]

\* Which login a segment to this port can be recorded as.
LoginKind(f) ==
  CASE f.dport \in MailPlain /\ f.says = "auth" -> "smtp_auth"
    [] f.dport \in {25, 110, 587} /\ f.says = "userpass" -> "userpass"
    [] f.dport = 143 /\ f.says = "login" -> "imap_login"
    [] f.dport = 21 /\ f.says = "userpass" -> "ftp_userpass"
    [] f.dport \in HttpPorts /\ f.says = "basic" -> "http_basic"
    [] OTHER -> "none"

\* The upgrade is remembered by client, server and port.
Conversation(f) == <<f.src, f.dst, f.dport>>

CredentialsUpdate(s, f) ==
  LET tracked == [s EXCEPT !.flows = Track(@, f, CredentialPorts)]
      fromClient == f.proto = "tcp" /\ f.dport \in CredentialPorts /\ f.len > 0
  IN IF ~fromClient \/ Conversation(f) \in s.upgraded THEN tracked
     ELSE IF f.says = "starttls" /\ f.dport \notin HttpPorts
     THEN [tracked EXCEPT !.upgraded = @ \union {Conversation(f)}]
     ELSE IF LoginKind(f) # "none"
             /\ ~\E m \in s.seen : m.conv = Conversation(f) /\ m.kind = LoginKind(f)
     THEN [tracked EXCEPT !.seen = @ \union
             {[conv |-> Conversation(f), kind |-> LoginKind(f), ts |-> f.ts]}]
     ELSE tracked

CredentialsAlerts(s) ==
  {Alert("cleartext_credentials",
         IF IsLocal(c[1]) /\ IsLocal(c[2]) THEN "high" ELSE "critical",
         c[1], c[2], c[3], Cardinality({m \in s.seen : m.conv = c}))
     : c \in {m.conv : m \in s.seen}}

-----------------------------------------------------------------------------
(* SMB across the perimeter *)

SmbPorts == {445, 139}

SmbInit == [crossings |-> {}, flows |-> NoFlows]

SmbUpdate(s, f) ==
  [crossings |-> s.crossings \union
     {c \in {<<f.src, f.dst>>} :
        /\ f.proto = "tcp" /\ f.dport \in SmbPorts
        /\ IsLocal(f.src) # IsLocal(f.dst)},
   flows |-> Track(s.flows, f, SmbPorts)]

SmbSeverity(inbound, status) ==
  IF status = "established" THEN (IF inbound THEN "critical" ELSE "high")
  ELSE IF inbound /\ status = "open_no_ack" THEN "high"
  ELSE "medium"

SmbAlerts(s) ==
  {LET inbound == IsLocal(c[2])
       keys == {k \in DOMAIN s.flows : k[1] = c[2] /\ k[2] = c[1]}
   IN Alert(IF inbound THEN "smb_inbound" ELSE "smb_outbound",
            SmbSeverity(inbound, BestStatus({FlowStatus(s.flows, k) : k \in keys})),
            c[1], c[2], 445, 1)
     : c \in s.crossings}

-----------------------------------------------------------------------------
(* Kerberos.  A message is to or from port 88; msg is its tag, rc4 whether *)
(* it names RC4 and no AES, preauth whether it carries PA-ENC-TIMESTAMP    *)
(* (a request) or demands it (an error).                                   *)

KerberosInit == {}

KerberosUpdate(F, f) == Keep(F, f, f.proto = "krb")

KdcPair(f) == IF f.dport = 88 THEN <<f.src, f.dst>> ELSE <<f.dst, f.src>>

KerberosAlerts(F) ==
  LET Sent(pair, msg) == {f \in F : KdcPair(f) = pair /\ f.msg = msg}
      Rc4(pair, msg) == Cardinality({f \in Sent(pair, msg) : f.rc4})
      Preauth(pair, msg) == Cardinality({f \in Sent(pair, msg) : f.preauth})
      Pairs == {KdcPair(f) : f \in F}
      Roasting(p) ==
        /\ Cardinality(Sent(p, "as_rep")) >= 5
        /\ Preauth(p, "error") = 0
        /\ Sent(p, "as_req") # {}
        /\ Preauth(p, "as_req") = 0
  IN {Alert("kerberoasting", IF Rc4(p, "tgs_req") >= 3 THEN "critical" ELSE "high",
            p[1], p[2], 88, Rc4(p, "tgs_req"))
        : p \in {q \in Pairs : Rc4(q, "tgs_req") >= 1}}
     \union
     {Alert("as_rep_roasting", "high", p[1], p[2], 88, Cardinality(Sent(p, "as_rep")))
        : p \in {q \in Pairs : Roasting(q)}}
     \union
     {Alert("rc4_downgrade", "high", p[1], p[2], 88, Rc4(p, "as_req"))
        : p \in {q \in Pairs : Rc4(q, "as_req") >= 3}}

-----------------------------------------------------------------------------
(* Brute force *)

TargetPorts == {21, 22, 23, 25, 110, 143, 445, 465, 587, 993, 995, 1433, 3306,
                3389, 5432, 5900, 5901, 5985, 5986}
AlwaysCritical == {445, 3389, 1433}
DomainPorts == AlwaysCritical \union {5985, 5986}

MaxConnTracked == 1000000

\* tries: the pure SYNs; last: conversation -> id of its latest try; failed:
\* ids of tries that a reset was booked on; sizes: payload per connection.
BruteForceInit == [tries |-> {}, last |-> << >>, failed |-> {}, sizes |-> << >>,
                   flows |-> NoFlows]

\* A reset is booked on the latest try of the conversation, whichever
\* connection it resets.
ResetOf(s, f) ==
  {id \in {s.last[k] : k \in DOMAIN s.last \intersect {<<f.dst, f.src, f.sport>>}} :
     f.sport \in TargetPorts /\ "R" \in f.flags}

ConnectionOf(f) == IF f.dport \in TargetPorts THEN <<f.src, f.dst, f.dport, f.sport>>
                                              ELSE <<f.dst, f.src, f.sport, f.dport>>

AddConnBytes(sizes, f) ==
  LET c == ConnectionOf(f)
      known == c \in DOMAIN sizes
  IN IF f.len = 0 \/ (~known /\ Cardinality(DOMAIN sizes) >= MaxConnTracked) THEN sizes
     ELSE Upsert(sizes, c, Lookup(sizes, c, 0) + f.len)

BruteForceUpdate(s, f) ==
  LET attempt == f.dport \in TargetPorts /\ PureSyn(f)
      tracked == [s EXCEPT !.flows = Track(@, f, TargetPorts)]
  IN IF Watched(f, TargetPorts)
     THEN [tracked EXCEPT
            !.sizes = AddConnBytes(@, f),
            !.tries = IF attempt THEN @ \union {f} ELSE @,
            !.last = IF attempt THEN Upsert(@, Conversation(f), f.id) ELSE @,
            !.failed = @ \union ResetOf(s, f)]
     ELSE tracked

\* Connections that carried data: at least three of them, and a coefficient
\* of variation of 0.6 or more (of n values with sum S and squares Q it is
\* the root of (n * Q - S * S) \div (S * S)).
Varied(F, size) ==
  LET n == Cardinality(F)
      S == Sum(F, size)
      Q == Sum(F, [f \in F |-> size[f] * size[f]])
  IN n >= 3 /\ 100 * (n * Q - S * S) >= 36 * S * S

\* A scale of payload sizes: the code's 2000 and 20000 bytes.
Sizeable == Threshold.sizeable
Bulky == Threshold.bulky

BruteForceVerdict(s, key, window) ==
  LET size == [f \in window |-> LET c == ConnectionOf(f) IN
                 IF c \in DOMAIN s.sizes THEN s.sizes[c] ELSE 0]
      n == Cardinality(window)
      failed == Cardinality({f \in window : f.id \in s.failed})
      withData == {f \in window : size[f] > 0}
      data == [f \in withData |-> size[f]]
      median == IF withData = {} THEN 0 ELSE UpperMedian(withData, data)
      external == ~IsLocal(key[1]) /\ IsLocal(key[2])
      silent == withData = {} /\ BytesExchanged(s.flows, <<key[2], key[1], key[3]>>) = 0
      appLike == /\ 10 * Cardinality(withData) >= 8 * n
                 /\ 10 * failed < 3 * n
                 /\ median >= Bulky \/ (Varied(withData, data) /\ median >= Sizeable)
  IN IF silent THEN (IF external THEN "medium" ELSE "low")
     ELSE IF appLike /\ ~external THEN "low"
     ELSE IF ~external /\ Varied(withData, data) THEN "medium"
     ELSE IF key[3] \in AlwaysCritical
             \/ 10 * failed > 7 * Threshold.brute_force_attempts
     THEN "critical" ELSE "high"

BruteForceAlerts(s) ==
  LET Tries(key) == {f \in s.tries : Conversation(f) = key}
      Window(key) == DensestWindow(Tries(key), [f \in Tries(key) |-> f.id],
                                   Threshold.brute_force_time_window)
  IN {Alert("brute_force", BruteForceVerdict(s, key, Window(key)),
            key[1], key[2], key[3], Cardinality(Window(key)))
        : key \in {k \in DOMAIN s.last :
                     Cardinality(Window(k)) >= Threshold.brute_force_attempts}}

-----------------------------------------------------------------------------
(* Password spraying: few tries on many targets *)

SprayInit == [tries |-> {}, flows |-> NoFlows]

SprayUpdate(s, f) ==
  [tries |-> Keep(s.tries, f, Watched(f, TargetPorts)
                              /\ f.dport \in TargetPorts /\ PureSyn(f)),
   flows |-> Track(s.flows, f, TargetPorts)]

\* The first try on every target.
FirstTries(F) ==
  {f \in F : \A g \in F : g.dst = f.dst /\ g # f => Before(f, g)}

SpraySeverity(s, src, port, targets) ==
  LET Moved(d) == BytesExchanged(s.flows, <<d, src, port>>)
      moved == [d \in targets |-> Moved(d)]
      established ==
        {d \in targets : FlowStatus(s.flows, <<d, src, port>>) = "established"}
  IN IF /\ IsLocal(src)
        /\ \/ /\ 10 * Cardinality(established) >= 8 * Cardinality(targets)
              /\ UpperMedian(targets, moved) >= Threshold.managed
           \/ Sum(targets, moved) = 0
     THEN "medium"
     ELSE IF port \in DomainPorts THEN "critical" ELSE "high"

SprayAlerts(s) ==
  LET Of(src, port) == {f \in s.tries : f.src = src /\ f.dport = port}
      Targets(src, port) == {f.dst : f \in Of(src, port)}
      Peak(src, port) == PeakOf(FirstTries(Of(src, port)),
                                [f \in FirstTries(Of(src, port)) |-> f.dst],
                                Threshold.spray_time_window)
  IN {Alert("password_spraying", SpraySeverity(s, k[1], k[2], Targets(k[1], k[2])),
            k[1], NoHost, k[2], Peak(k[1], k[2]))
        : k \in {q \in {<<f.src, f.dport>> : f \in s.tries} :
                   Peak(q[1], q[2]) >= Threshold.spray_min_targets}}
=============================================================================
