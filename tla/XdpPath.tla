-------------------------------- MODULE XdpPath --------------------------------
(***************************************************************************)
(* filter.bpf.c: packets on several CPUs, each running xdp_filter and the  *)
(* programs it tail-calls through dispatch_rules, while XdpLoader adds     *)
(* rules, closes the filter or dies, and GetStats reads the counters.  A   *)
(* step is one program.  Headers are taken by what the programs branch on, *)
(* and a name that a packet holds by its tokens; "app" says where in the   *)
(* payload it is.  The walk over the labels of a query is one step here;   *)
(* module XdpDns takes it byte by byte, and comes to the same end.         *)
(***************************************************************************)
EXTENDS XdpLoader, XdpNames

CONSTANTS
  CPU,
  Ascii,       \* tokens of ASCII bytes; no other token has an ASCII capital
  Packet,      \* packets, as records of what the programs read
  MaxPackets,  \* bound: packets received
  MaxGets      \* bound: calls of GetStats

ASSUME CPUAssumption == IsFiniteSet(CPU)

VARIABLES
  cpu,        \* the program and packet of each CPU
  stats,      \* the stats map, by index
  uncounted,  \* history: packets that left check_dns without a counter
  due,        \* history: the added rules that select the packet of each CPU
  wrong,      \* history: "passed" against such a rule, "blocked" without a rule
  snap,       \* the result that GetStats is filling, by name
  snapAt,     \* entries already looked up
  gets        \* calls of GetStats

statVars == <<snap, snapAt, gets>>
verdictVars == <<due, wrong>>
vars == <<loaderVars, cpu, stats, uncounted, verdictVars, statVars>>

\* #define DISPATCH_...
Dispatch ==
  [ipv4 |-> 0, ipv6 |-> 1, tcp4 |-> 2, udp4 |-> 3, tcp6 |-> 4, udp6 |-> 5,
   http4 |-> 6, tls4 |-> 7, http6 |-> 8, tls6 |-> 9, dns4 |-> 10, dns6 |-> 11]

\* #define STAT_...
Stat ==
  [total |-> 0, passed |-> 1, http_blocked |-> 2, tls_blocked |-> 3, dns_poisoned |-> 4,
   ip_blocked |-> 5, ip_port_blocked |-> 6, malformed |-> 7]

statNamesShifted ==
  <<"passed", "total", "http_blocked", "tls_blocked", "dns_poisoned",
    "ip_blocked", "ip_port_blocked", "malformed">>

\* statNames of xdp.go: the name of each index
statNames ==
  <<"total", "passed", "http_blocked", "tls_blocked", "dns_poisoned",
    "ip_blocked", "ip_port_blocked", "malformed">>

inc_stat(s, name) == [s EXCEPT ![Stat[name]] = @ + 1]

NoPacket == [prog |-> "idle"]

Init ==
  /\ LoaderInit
  /\ cpu = [c \in CPU |-> NoPacket]
  /\ stats = [i \in 0 .. 7 |-> 0] /\ uncounted = 0
  /\ due = [c \in CPU |-> {}] /\ wrong = {}
  /\ snap = [n \in ToSet(statNames) |-> 0] /\ snapAt = 8 /\ gets = 0

-----------------------------------------------------------------------------
(***************************************************************************)
(* The programs.  Each ends in a tail call, or in a verdict and a counter. *)
(***************************************************************************)
Verdict(action, stat) == [is |-> "verdict", action |-> action, stat |-> stat]
TailCall(prog) == [is |-> "tail", index |-> Dispatch[prog]]
Continue == [is |-> "continue"]

Passed == Verdict("pass", "passed")
Malformed == Verdict("pass", "malformed")

\* ascii_lower on the bytes of a name
ascii_lower(name) ==
  [i \in DOMAIN name |-> IF name[i] \in Ascii THEN Lower[name[i]] ELSE name[i]]

domain_matches(name, flag) ==
  /\ name # << >> /\ ByteLen(name) < maxDomainLen
  /\ Known(ascii_lower(name)) /\ flag \in domains[ascii_lower(name)]

ip_matches_cidr(addr) == \E r \in cidrs : PrefixContains(r, addr)

ip_port_matches(addr, port, proto) == [addr |-> addr, port |-> port, proto |-> proto] \in ipPorts

Then(r, next) == IF r = Continue THEN next ELSE r

\* validate_ipv4, validate_ipv6: fragments are known by the IPv4 header only
validate(fam, p) ==
  IF p.fam # fam \/ ~p.ipOK THEN Malformed
  ELSE IF ip_matches_cidr(p.src) \/ ip_matches_cidr(p.dst) THEN Verdict("drop", "ip_blocked")
  ELSE IF fam = "4" /\ p.frag THEN Passed ELSE Continue

\* parse_tcp_ports, parse_udp_ports after the check of the protocol
ports(p, proto) ==
  IF p.proto # proto THEN Passed ELSE IF ~p.l4OK THEN Malformed ELSE Continue

ip_ports(p) ==
  IF ip_port_matches(p.dst, p.dport, p.proto) \/ ip_port_matches(p.src, p.sport, p.proto)
  THEN Verdict("drop", "ip_port_blocked") ELSE Continue

xdp_ip(fam, p, tcp, udp) ==
  Then(validate(fam, p),
       IF p.proto = protoTCP THEN TailCall(tcp) ELSE IF p.proto = protoUDP THEN TailCall(udp)
       ELSE Passed)

xdp_tcp(fam, p, http, tls) ==
  Then(validate(fam, p), Then(ports(p, protoTCP), Then(ip_ports(p),
       IF p.dport = 80 THEN TailCall(http) ELSE IF p.dport = 443 THEN TailCall(tls) ELSE Passed)))

xdp_udp(fam, p, dns) ==
  Then(validate(fam, p), Then(ports(p, protoUDP), Then(ip_ports(p),
       IF p.dport = 53 THEN TailCall(dns) ELSE Passed)))

\* tcp4_payload_for_port, tcp6_payload_for_port: no rule is looked up again
payload_for_port(fam, p, want) ==
  IF p.fam # fam \/ p.proto # protoTCP THEN Passed
  ELSE IF ~p.ipOK THEN Malformed
  ELSE IF fam = "4" /\ p.frag THEN Passed
  ELSE IF ~p.l4OK THEN Malformed
  ELSE IF p.dport # want THEN Passed ELSE Continue

\* the characters that the loop of check_http_host_at takes
host_cut(host) ==
  SubSeq(host, 1, Max({n \in 0 .. Len(host) : ByteLen(SubSeq(host, 1, n)) < maxDomainLen}))

check_http_host(p) == host_found(p.app) /\ domain_matches(host_cut(p.name), "http")
check_tls_sni(p) == domain_matches(p.name, "tls") /\ sni_found(p.app, ByteLen(p.name))

run_rule_uncounted(drop, stat) == IF drop THEN Verdict("drop", stat) ELSE Verdict("pass", "none")

\* run_http_rule, run_tls_rule
run_rule(drop, stat) == IF drop THEN Verdict("drop", stat) ELSE Passed

xdp_http(fam, p) == Then(payload_for_port(fam, p, 80), run_rule(check_http_host(p), "http_blocked"))
xdp_tls(fam, p) == Then(payload_for_port(fam, p, 443), run_rule(check_tls_sni(p), "tls_blocked"))

dns_domain_matches(p) ==
  /\ p.app.inside /\ ~p.app.response /\ p.app.qdcount # 0 /\ dns_completes(p.app)
  /\ domain_matches(p.name, "dns")

\* check_dns_v4, check_dns_v6: only an answer is counted
check_dns(fam, p) ==
  IF ~dns_domain_matches(p) THEN Verdict("pass", "none")
  ELSE IF fam = "4" /\ p.options THEN Verdict("drop", "none")
  ELSE Verdict("tx", "dns_poisoned")

xdp_dns(fam, p) ==
  Then(validate(fam, p), Then(ports(p, protoUDP),
       IF p.dport # 53 THEN Passed ELSE check_dns(fam, p)))

xdp_filter(p) ==
  CASE p.fam = "short" -> Malformed
    [] p.fam = "4"     -> TailCall("ipv4")
    [] p.fam = "6"     -> TailCall("ipv6")
    [] OTHER           -> Passed

Result(prog, p) ==
  CASE prog = "xdp_filter" -> xdp_filter(p)
    [] prog = "ipv4"  -> xdp_ip("4", p, "tcp4", "udp4")
    [] prog = "ipv6"  -> xdp_ip("6", p, "tcp6", "udp6")
    [] prog = "tcp4"  -> xdp_tcp("4", p, "http4", "tls4")
    [] prog = "tcp6"  -> xdp_tcp("6", p, "http6", "tls6")
    [] prog = "udp4"  -> xdp_udp("4", p, "dns4")
    [] prog = "udp6"  -> xdp_udp("6", p, "dns6")
    [] prog = "http4" -> xdp_http("4", p)
    [] prog = "http6" -> xdp_http("6", p)
    [] prog = "tls4"  -> xdp_tls("4", p)
    [] prog = "tls6"  -> xdp_tls("6", p)
    [] prog = "dns4"  -> xdp_dns("4", p)
    [] prog = "dns6"  -> xdp_dns("6", p)

-----------------------------------------------------------------------------
(***************************************************************************)
(* What the rules that were added mean for a packet, read off the rules    *)
(* and not off the programs.                                               *)
(***************************************************************************)
Whole(p) == p.fam \in {"4", "6"} /\ p.ipOK /\ ~(p.fam = "4" /\ p.frag) /\ p.l4OK

L7(p) ==
  CASE p.proto = protoTCP /\ p.dport = 80  -> "http"
    [] p.proto = protoTCP /\ p.dport = 443 -> "tls"
    [] p.proto = protoUDP /\ p.dport = 53  -> "dns"
    [] OTHER -> "none"

\* a ClientHello whose lengths agree, with a server_name among its first
\* sixteen extensions that ends in the first 512 bytes and in the packet
Readable(h, name_len) ==
  /\ h.client /\ h.compression <= 32 /\ h.extensions = SumBefore(h, Len(h.exts) + 1)
  /\ h.nameType = 0 /\ h.list = 3 + name_len
  /\ \E k \in DOMAIN h.exts :
       /\ k <= 16 /\ {j \in DOMAIN h.exts : h.exts[j].type = 0} = {k}
       /\ h.exts[k].len = 2 + h.list
       /\ extensions_at(h) + SumBefore(h, k + 1) <= Min({MAX_TLS_SCAN, h.size})

\* a query whose name is uncompressed and all there, with its type and class,
\* of at most eight labels and 62 characters, in the first 1024 bytes
Asked(d, name_len) ==
  /\ d.inside /\ ~d.response /\ d.qdcount > 0 /\ d.labels # << >> /\ d.last = 0
  /\ Len(d.labels) <= 8 /\ name_len <= 62 /\ d.size >= name_len + 2 + 4

Named(r, p) == r.rule = "domain" /\ Whole(p) /\ L7(p) = r.flag

\* the programs find no name with a capital outside ASCII, as keys have none
NoOtherCapital(name) == \A i \in DOMAIN name : name[i] \in Ascii \/ Lower[name[i]] = name[i]

Selects(r, p) ==
  CASE r.rule = "cidr" ->
         p.fam \in {"4", "6"} /\ p.ipOK /\ \E a \in {p.src, p.dst} : PrefixContains(r.prefix, a)
    [] r.rule = "ipPort" ->
         /\ Whole(p) /\ p.proto = r.proto
         /\ \E e \in {<<p.src, p.sport>>, <<p.dst, p.dport>>} : e = <<Unmap(r.addr), r.port>>
    [] r.rule = "domain" ->
         /\ Named(r, p) /\ ToLower(p.name) = r.key /\ NoOtherCapital(p.name)
         /\ r.flag = "http" => p.app.at = 16 /\ p.app.blanks \in 0 .. 2
         /\ r.flag = "tls" => Readable(p.app, ByteLen(p.name))
         /\ r.flag = "dns" => Asked(p.app, ByteLen(p.name))

\* name begins with key, whatever the case of its letters
Begins(key, name) ==
  Len(key) <= Len(name) /\ \A i \in 1 .. Len(key) : key[i] \in {name[i], Lower[name[i]]}

\* also a host that only begins with a rule of 63 characters
Covers(r, p) ==
  \/ r.rule # "domain" /\ Selects(r, p)
  \/ /\ Named(r, p) /\ Begins(r.key, p.name)
     /\ Len(r.key) = Len(p.name) \/ (r.flag = "http" /\ ByteLen(r.key) = 63)

InMaps ==
  {[rule |-> "cidr", prefix |-> q] : q \in cidrs}
    \cup {[rule |-> "ipPort", addr |-> k.addr, port |-> k.port, proto |-> k.proto] : k \in ipPorts}
    \cup UNION {{[rule |-> "domain", key |-> k, flag |-> f] : f \in domains[k]} : k \in DOMAIN domains}

\* no token holds a zero byte, which fills a key up; ASCII keeps its length when
\* it is lowered; the cut of host_cut falls between two tokens; and the name of a
\* query is the text of its labels
ASSUME PacketAssumption ==
  \A p \in Packet :
    /\ p.name \in Seq(DOMAIN Lower)
    /\ \A i \in DOMAIN p.name :
         /\ Bytes[p.name[i]] \in Nat \ {0}
         /\ p.name[i] \in Ascii => Bytes[Lower[p.name[i]]] = Bytes[p.name[i]]
    /\ L7(p) = "http" /\ ByteLen(p.name) >= maxDomainLen =>
         \E n \in 1 .. Len(p.name) : ByteLen(SubSeq(p.name, 1, n)) = maxDomainLen - 1
    /\ L7(p) = "tls" => p.app \in ClientHello
    /\ L7(p) = "dns" =>
         /\ p.app \in DnsQuery
         /\ IF p.app.labels = << >> THEN p.name = << >>
            ELSE Offsets(p.app.labels)[Len(p.app.labels)] = ByteLen(p.name) + 1

-----------------------------------------------------------------------------
Receive(c, p) ==
  /\ attached /\ cpu[c] = NoPacket /\ stats[Stat.total] < MaxPackets
  /\ cpu' = [cpu EXCEPT ![c] = [prog |-> "xdp_filter", p |-> p]]
  /\ due' = [due EXCEPT ![c] = {r \in acked : Selects(r, p)}]
  /\ stats' = inc_stat(stats, "total")
  /\ UNCHANGED <<loaderVars, uncounted, wrong, statVars>>

Leave(c, v) ==
  /\ cpu' = [cpu EXCEPT ![c] = NoPacket]
  /\ due' = [due EXCEPT ![c] = {}]
  /\ wrong' = wrong
       \cup {w \in {"passed"} : v = "pass" /\ due[c] \cap acked # {} /\ at = "up"}
       \cup {w \in {"blocked"} : v # "pass" /\ ~\E r \in InMaps : Covers(r, cpu[c].p)}

Busy == {c \in CPU : cpu[c] # NoPacket}

\* a tail call to an empty entry returns, and the packet passes
RunTail(c) ==
  LET r == Result(cpu[c].prog, cpu[c].p)
  IN  /\ r.is = "tail"
      /\ IF dispatch[r.index] = "none"
         THEN Leave(c, "pass") /\ stats' = inc_stat(stats, "passed")
         ELSE cpu' = [cpu EXCEPT ![c].prog = dispatch[r.index]] /\ UNCHANGED <<stats, verdictVars>>
      /\ UNCHANGED uncounted

RunVerdict(c) ==
  LET r == Result(cpu[c].prog, cpu[c].p)
  IN  /\ r.is = "verdict" /\ Leave(c, r.action)
      /\ stats' = IF r.stat = "none" THEN stats ELSE inc_stat(stats, r.stat)
      /\ uncounted' = IF r.stat = "none" /\ cpu[c].prog \in {"dns4", "dns6"}
                      THEN uncounted + 1 ELSE uncounted

RunProgram(c) ==
  /\ c \in Busy
  /\ RunTail(c) \/ RunVerdict(c)
  /\ UNCHANGED <<loaderVars, statVars>>

\* GetStats, which is called while no rule is being added
GetStats ==
  /\ Idle /\ snapAt = 8 /\ gets < MaxGets
  /\ snapAt' = 0 /\ gets' = gets + 1
  /\ UNCHANGED <<loaderVars, cpu, stats, uncounted, verdictVars, snap>>

LookupStat ==
  /\ Idle /\ snapAt < 8
  /\ snap' = [snap EXCEPT ![statNames[snapAt + 1]] = stats[snapAt]]
  /\ snapAt' = snapAt + 1
  /\ UNCHANGED <<loaderVars, cpu, stats, uncounted, verdictVars, gets>>

LookupStatFails ==
  /\ Idle /\ snapAt < 8
  /\ snap' = [n \in DOMAIN snap |-> 0] /\ snapAt' = 8
  /\ UNCHANGED <<loaderVars, cpu, stats, uncounted, verdictVars, gets>>

\* the goroutine that calls GetStats makes no other call meanwhile
LoaderStep ==
  /\ (snapAt = 8 /\ Calls) \/ Death
  /\ UNCHANGED <<cpu, stats, uncounted, verdictVars, statVars>>

Done ==
  /\ at \in {"failed", "closed", "dead"} /\ Busy = {}
  /\ UNCHANGED vars

Next ==
  \/ LoaderStep \/ GetStats \/ LookupStat \/ LookupStatFails \/ Done
  \/ \E c \in CPU : (\E p \in Packet : Receive(c, p)) \/ RunProgram(c)

Spec == Init /\ [][Next]_vars

-----------------------------------------------------------------------------
Outcomes(s) ==
  s["passed"] + s["http_blocked"] + s["tls_blocked"] + s["dns_poisoned"]
    + s["ip_blocked"] + s["ip_port_blocked"] + s["malformed"]

(***************************************************************************)
(* A rule is in force from the moment its Add returned nil, for every      *)
(* packet that arrives then, on whichever CPU and whatever rules are added *)
(* meanwhile, as long as the filter is neither closed nor dead: no such    *)
(* packet is passed.  Given up are only the flags of a domain that a later *)
(* Add overwrites because its lookup of that domain failed.  A request is  *)
(* one whose Host header is at byte 16, a ClientHello a well-formed one    *)
(* with its name in the first 512 bytes, a query one whose name has at     *)
(* most eight labels and 62 characters, uncompressed and complete, in the  *)
(* first 1024 bytes; and the name has no capital outside ASCII.  And       *)
(* nothing is blocked without a rule, but for hosts that begin with a rule *)
(* of 63 characters.                                                       *)
(***************************************************************************)
AddedRulesEnforced == wrong = {}

(***************************************************************************)
(* Every packet that xdp_filter counts in total ends in exactly one other  *)
(* counter, on every path through the tail calls, failed ones included:    *)
(* all but the DNS queries that check_dns lets through or drops.           *)
(***************************************************************************)
XdpAccounting ==
  stats[Stat.total] =
    Outcomes([n \in DOMAIN Stat |-> stats[Stat[n]]]) + Cardinality(Busy) + uncounted

(***************************************************************************)
(* A result of GetStats, read entry by entry while the CPUs count, lacks   *)
(* at most one outcome for each CPU, besides the uncounted queries.        *)
(***************************************************************************)
GetStatsSkew ==
  snapAt = 8 => snap["total"] <= Outcomes(snap) + Cardinality(CPU) + uncounted
================================================================================
