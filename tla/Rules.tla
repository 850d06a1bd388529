--------------------------------- MODULE Rules --------------------------------
(***************************************************************************)
(* rules.go and the parsers of config.go: from the rules of the            *)
(* configuration to a RuleSet, and the four match methods.                 *)
(*                                                                         *)
(* A string is a sequence of tokens: a word (a whole label or domain is    *)
(* one word) or one of the bytes the code looks for.  An address has a     *)
(* kind ("4", "6", or "4in6" for ::ffff:0:0/96) and bits; those of a       *)
(* "4in6" address are the bits of the IPv4 address in it.                  *)
(***************************************************************************)
EXTENDS Naturals, Sequences, FiniteSets, SequencesExt

CONSTANTS
  Lower,  \* strings.ToLower on tokens, as a function
  Width   \* bits of an address, by kind

protoTCP == 6
protoUDP == 17

-----------------------------------------------------------------------------
(***************************************************************************)
(* Strings.                                                                *)
(***************************************************************************)
ToLower(s) == [i \in DOMAIN s |-> Lower[s[i]]]

IsSpace(t) == t \in {" ", "nl"}

TrimSpace(s) ==
  LET ink == {i \in DOMAIN s : ~IsSpace(s[i])}
  IN  IF ink = {} THEN << >> ELSE SubSeq(s, Min(ink), Max(ink))

TrimPrefix(s, prefix) ==
  IF IsPrefix(prefix, s) THEN SubSeq(s, Len(prefix) + 1, Len(s)) ELSE s

TrimSuffix(s, suffix) ==
  IF IsSuffix(suffix, s) THEN SubSeq(s, 1, Len(s) - Len(suffix)) ELSE s

\* s[:IndexByte(s, t)], or s if there is no t in it
Before(s, t) == IF Contains(s, t) THEN SubSeq(s, 1, SelectInSeq(s, LAMBDA x : x = t) - 1) ELSE s

normalizeDomain(input) ==
  LET s == TrimPrefix(TrimPrefix(TrimSpace(ToLower(input)), <<"http", ":", "/", "/">>),
                      <<"https", ":", "/", "/">>)
  IN  TrimSuffix(Before(Before(s, "/"), ":"), <<".">>)

www == <<"www", ".">>

domainVariants(domain) ==
  LET normalized == normalizeDomain(domain)
  IN  IF normalized = << >> THEN {}
      ELSE {normalized} \cup (IF IsPrefix(www, normalized) THEN {} ELSE {www \o normalized})

\* of items that are already trimmed; nothing depends on their order
dedupeStrings(items, blank) == ToSet(items) \ {blank}

-----------------------------------------------------------------------------
(***************************************************************************)
(* Addresses and prefixes; Unmap, Masked and Contains are those of netip.  *)
(***************************************************************************)
Unmap(addr) == IF addr.kind = "4in6" THEN [addr EXCEPT !.kind = "4"] ELSE addr

Masked(p) == [p EXCEPT !.bits = [i \in DOMAIN p.bits |-> IF i <= p.len THEN p.bits[i] ELSE 0]]

PrefixContains(p, addr) ==
  /\ p.kind = addr.kind
  /\ \A i \in 1 .. p.len : p.bits[i] = addr.bits[i]

PrefixFrom(addr, len) == [kind |-> addr.kind, bits |-> addr.bits, len |-> len]

OK(val) == [ok |-> TRUE, val |-> val]
Error == [ok |-> FALSE]

\* a rule of "ips" is blank, junk, a bare address or a CIDR, perhaps padded
BlankIP == [form |-> "blank"]

TrimIP(raw) == IF raw.form = "blank" THEN BlankIP ELSE [raw EXCEPT !.padded = FALSE]

parseIPPrefixKeepsMapped(raw) ==
  IF raw.form \notin {"addr", "cidr"} THEN Error
  ELSE IF raw.form = "addr" THEN OK(PrefixFrom(raw.addr, Width[raw.addr.kind]))
  ELSE IF raw.len > Width[raw.addr.kind] THEN Error
  ELSE OK(Masked(PrefixFrom(raw.addr, raw.len)))

parseIPPrefix(raw) ==
  IF raw.form \notin {"addr", "cidr"} THEN Error
  ELSE IF raw.form = "addr"
  THEN OK(PrefixFrom(Unmap(raw.addr), Width[Unmap(raw.addr).kind]))
  ELSE IF raw.len > Width[raw.addr.kind] \/ Unmap(raw.addr) # raw.addr THEN Error
  ELSE OK(Masked(PrefixFrom(raw.addr, raw.len)))

\* the proto of a rule is taken lower-cased and trimmed
parseProto(raw) ==
  CASE raw \in {"", "tcp"} -> OK(protoTCP)
    [] raw = "udp"         -> OK(protoUDP)
    [] OTHER               -> Error

parseIPPortRule(rule) ==
  IF rule.form # "addr" \/ rule.port = 0 \/ ~parseProto(rule.proto).ok THEN Error
  ELSE OK([addr |-> Unmap(rule.addr), port |-> rule.port, proto |-> parseProto(rule.proto).val])

-----------------------------------------------------------------------------
(***************************************************************************)
(* compileRuleSet: the first rule that does not parse is an error.         *)
(***************************************************************************)
compileRuleSet(cfg) ==
  LET variants(items) ==
        LET trimmed == [i \in DOMAIN items |-> TrimSpace(items[i])]
        IN  UNION {domainVariants(d) : d \in dedupeStrings(trimmed, << >>)}
      ips == [i \in DOMAIN cfg.ips |-> TrimIP(cfg.ips[i])]
      prefixes == {parseIPPrefix(r) : r \in dedupeStrings(ips, BlankIP)}
      ports == {parseIPPortRule(r) : r \in ToSet(cfg.ipPorts)}
  IN  IF Error \in prefixes \cup ports THEN Error
      ELSE OK([Domains          |-> variants(cfg.domains),
               DNSPoisonDomains |-> variants(cfg.dnsPoisonDomains),
               Prefixes         |-> {p.val : p \in prefixes},
               IPPorts          |-> {p.val : p \in ports}])

matchDomain(r, domain) == normalizeDomain(domain) \in r.Domains

matchDNSPoison(r, domain) == normalizeDomain(domain) \in r.DNSPoisonDomains

matchIP(r, addr) == \E p \in r.Prefixes : PrefixContains(p, Unmap(addr))

matchIPPort(r, addr, port, proto) ==
  [addr |-> Unmap(addr), port |-> port, proto |-> proto] \in r.IPPorts
=============================================================================
