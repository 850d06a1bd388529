---------------------------- MODULE ClassifierSpec ----------------------------
(***************************************************************************)
(* What README.md says the rules block, of the names that a configuration  *)
(* and a packet mean.  The code sees spellings and requests only: here a   *)
(* configuration also has the names that its domains mean, and a packet    *)
(* the name that it asks for, as tokens in lower case.                     *)
(***************************************************************************)
EXTENDS Classifier

Nobody == << >>

\* the names a configured name stands for: itself and one www. variant
Variants(name) ==
  IF name = Nobody THEN {} ELSE IF IsPrefix(www, name) THEN {name} ELSE {name, www \o name}

Blocked(names) == UNION {Variants(names[i]) : i \in DOMAIN names}

SameHost(a, b) == a.bits = b.bits /\ (a.kind = "6") = (b.kind = "6")

InNet(rule, a) ==
  CASE rule.form = "addr" -> SameHost(rule.addr, a)
    [] rule.form = "cidr" -> /\ (rule.addr.kind = "6") = (a.kind = "6")
                             /\ SubSeq(rule.addr.bits, 1, rule.len) = SubSeq(a.bits, 1, rule.len)
    [] OTHER              -> FALSE

PortMatch(rule, a, port, l4) ==
  SameHost(rule.addr, a) /\ rule.port = port /\ (IF rule.proto = "" THEN "tcp" ELSE rule.proto) = l4

IsIP(p) == p.version \in {4, 6} /\ p.decodes

MustBlock(c, p) ==
  /\ IsIP(p)
  /\ \/ \E rule \in ToSet(c.ips) : InNet(rule, p.src) \/ InNet(rule, p.dst)
     \/ \E rule \in ToSet(c.ipPorts) :
          PortMatch(rule, p.src, p.sport, p.l4) \/ PortMatch(rule, p.dst, p.dport, p.l4)
     \/ p.l4 = "tcp" /\ p.dport \in {80, 443} /\ p.names \in Blocked(c.means)
     \/ p.l4 = "udp" /\ p.dport = 53 /\ p.names \in Blocked(c.poisonMeans)

-----------------------------------------------------------------------------
(***************************************************************************)
(* Spellings of a name.                                                    *)
(***************************************************************************)
Schemes == {<< >>, <<"http", ":", "/", "/">>, <<"https", ":", "/", "/">>}

Text == Seq(DOMAIN Lower)

IsName(name) ==
  /\ name \in Text \ {Nobody} /\ Last(name) # "."
  /\ \A i \in DOMAIN name : ~IsSpace(name[i]) /\ name[i] \notin {"/", ":"}

\* a port or a path
IsRest(rest) ==
  rest # << >> => /\ Head(rest) \in {"/", ":"}
                  /\ Head(rest) = ":" /\ Len(rest) > 1 => rest[2] # "/"

\* s begins and ends with something visible
Inked(s) == s # << >> => ~IsSpace(Head(s)) /\ ~IsSpace(Last(s))

\* s is name in any case, perhaps with a scheme, a final dot, a port and a path
Writes(s, name) ==
  \/ s = << >> /\ name = Nobody
  \/ /\ IsName(name) /\ Inked(s) /\ Inked(ToLower(s))
     /\ \E scheme \in Schemes, dot \in {<< >>, <<".">>} :
          LET stem == scheme \o name \o dot
          IN  IsPrefix(stem, ToLower(s)) /\ IsRest(SubSeq(ToLower(s), Len(stem) + 1, Len(s)))

Blank(s) == \A i \in DOMAIN s : IsSpace(s[i])

\* text writes name, perhaps between blanks
Spells(text, name) ==
  \E m \in 0 .. Len(text), n \in 0 .. Len(text) :
    /\ m <= n /\ Writes(SubSeq(text, m + 1, n), name)
    /\ Blank(SubSeq(text, 1, m)) /\ Blank(SubSeq(text, n + 1, Len(text)))

-----------------------------------------------------------------------------
(***************************************************************************)
(* The name a packet asks for.                                             *)
(***************************************************************************)

\* a line of text starts at i with the name of the header
HeaderAt(text, i) ==
  /\ i \in 1 .. Len(text) - 1 /\ text[i] = "host" /\ text[i + 1] = ":"
  /\ i = 1 \/ text[i - 1] = "nl"

\* the first such line of the request has as its value, up to a port, what
\* stands behind m up to n
SaysHost(request, m, n) ==
  \E i \in 1 .. m - 1 :
    /\ HeaderAt(ToLower(request), i) /\ \A j \in 1 .. i - 1 : ~HeaderAt(ToLower(request), j)
    /\ m <= n /\ \A k \in i + 2 .. m : request[k] = " "
    /\ m < Len(request) => request[m + 1] # " "
    /\ \A k \in m + 1 .. n : request[k] \notin {"nl", " ", ":"}
    /\ n < Len(request) => request[n + 1] \in {"nl", " ", ":"}

AsksHTTP(request, name) ==
  IF \E i \in DOMAIN request : HeaderAt(ToLower(request), i)
  THEN \E m \in 0 .. Len(request), n \in 0 .. Len(request) :
         SaysHost(request, m, n) /\ Spells(SubSeq(request, m + 1, n), name)
  ELSE name = Nobody

AsksDNS(dns, name) ==
  IF dns.decodes /\ ~dns.qr /\ dns.questions # << >> THEN Spells(Head(dns.questions), name)
  ELSE name = Nobody

IsHTTP(p) == IsIP(p) /\ p.l4 = "tcp" /\ p.dport = 80

\* every byte that is not UTF-8 becomes three when it is lowered
IsASCII(request) == "bad" \notin ToSet(request)

IsAddr(a) == a \in Addr /\ Len(a.bits) = Width[Unmap(a).kind]

IPRule == [form : {"blank", "junk", "addr", "cidr"}, addr : Addr, len : Nat, padded : BOOLEAN]

\* a blank has no case
ASSUME LowerAssumption == \A t \in DOMAIN Lower : IsSpace(t) => IsSpace(Lower[t])

ASSUME ConfigAssumption ==
  \A c \in RuleConfig :
    /\ DOMAIN c.means = DOMAIN c.domains /\ DOMAIN c.poisonMeans = DOMAIN c.dnsPoisonDomains
    /\ \A i \in DOMAIN c.domains : c.domains[i] \in Text /\ Spells(c.domains[i], c.means[i])
    /\ \A i \in DOMAIN c.dnsPoisonDomains :
         /\ c.dnsPoisonDomains[i] \in Text
         /\ Spells(c.dnsPoisonDomains[i], c.poisonMeans[i])
    /\ \A rule \in ToSet(c.ips) : rule \in IPRule /\ IsAddr(rule.addr)
    /\ \A rule \in ToSet(c.ipPorts) : IsAddr(rule.addr)

ASSUME NameAssumption ==
  \A p \in Packet :
    IsIP(p) =>
      /\ IsAddr(p.src) /\ IsAddr(p.dst)
      /\ p.l4 = "tcp" => p.payload \in Text
      /\ IsHTTP(p) /\ IsASCII(p.payload) => AsksHTTP(p.payload, p.names)
      /\ p.l4 = "tcp" /\ p.dport = 443 => Spells(p.payload, p.names)
      /\ p.l4 = "udp" /\ p.dport = 53 =>
           p.dns.questions \in Seq(Text) /\ AsksDNS(p.dns, p.names)

-----------------------------------------------------------------------------
(***************************************************************************)
(* Classify drops a packet exactly when a configured rule means it,        *)
(* however the rule and the name in the packet are spelled, for IPv4, IPv6 *)
(* and mapped addresses, in both directions.  Of HTTP requests, those in   *)
(* ASCII: see HTTPHostBlocked.                                             *)
(***************************************************************************)
BlocksExactly ==
  pkt # NoPacket /\ query = NoPacket /\ (IsHTTP(pkt) => IsASCII(pkt.payload)) =>
    ((verdict.kind = "drop") <=> MustBlock(conf, pkt))

(***************************************************************************)
(* README, Features: HTTP Host blocking for IPv4 and IPv6 TCP/80.          *)
(***************************************************************************)
HTTPHostBlocked ==
  pkt # NoPacket /\ IsHTTP(pkt) /\ pkt.names \in Blocked(conf.means) => verdict = Drop("http")

(***************************************************************************)
(* A request in ASCII is always decided: the slice that httpHost takes     *)
(* starts inside the payload, also where the payload ends with the header  *)
(* or with the spaces after it, and does not end the process.              *)
(***************************************************************************)
HTTPHostDecides ==
  IsHTTP(pkt) /\ IsASCII(pkt.payload) => httpHostInRange(pkt.payload)
===============================================================================
