----------------------------- MODULE FirewallRules ----------------------------
(***************************************************************************)
(* The choice of newFirewallManager and the rules that Install and Cleanup *)
(* of each manager go through, for an NFQueueConfig that loadConfig        *)
(* accepted, together with the tools that LookPath finds.                  *)
(***************************************************************************)
EXTENDS AppConfig

Tool == {"nft", "iptables", "ip6tables", "iptables-legacy", "ip6tables-legacy"}

-----------------------------------------------------------------------------
(***************************************************************************)
(* newFirewallManager.  A manager is the sequence of backends it tries:    *)
(* autoFirewall has its candidates, the others have themselves.            *)
(***************************************************************************)
Label == <<"nft", "iptables", "iptables-legacy">>

Chosen(c) == IF c.backend \in {"nft", "nftables"} THEN "nft" ELSE c.backend

IsAuto(c) == c.installRules /\ c.backend = "auto"
NoManager(c) == ~c.installRules \/ c.backend \in {"none", "disabled"}

\* LookPath
Found(bin, tools) == IF bin \in tools THEN <<bin>> ELSE << >>

\* the first binary decides: Label and first binary are the same
Candidates(c) ==
  IF NoManager(c) THEN << >>
  ELSE IF IsAuto(c)
  THEN Found("nft", c.tools) \o Found("iptables", c.tools) \o Found("iptables-legacy", c.tools)
  ELSE Found(Chosen(c), c.tools)

\* newFirewallManager returns an error
ManagerFails(c) == ~NoManager(c) /\ Candidates(c) = << >>

-----------------------------------------------------------------------------
(***************************************************************************)
(* The rules of a backend.                                                 *)
(***************************************************************************)
normalizedChainsRepeats(raw) ==
  FoldLeft(LAMBDA out, c :
             IF normalizeChoice(c, "") = "" THEN out ELSE Append(out, normalizeChoice(c, "")),
           << >>, raw)

normalizedChains(raw) ==
  LET out[k \in 0 .. Len(raw)] ==
        IF k = 0 THEN << >>
        ELSE LET chain == normalizeChoice(raw[k], "")
             IN  IF chain = "" \/ Contains(out[k - 1], chain) THEN out[k - 1]
                 ELSE Append(out[k - 1], chain)
  IN  out[Len(raw)]

Matches(c) == IF c.capture = "all" THEN <<"any">> ELSE <<"tcp80", "tcp443", "udp53">>

\* queueArgs, the end of the text of a rule: --queue-num and --queue-bypass
queueArgs(c) == <<c.queueNum, c.failOpen>>

Rule(bin, chain, match, args) == [bin |-> bin, chain |-> chain, match |-> match, args |-> args]

\* the whole table is one transaction of nft, and one rule here: it is deleted
\* by its name, whatever configuration wrote it
nftTable == Rule("nft", "middle_filter", "any", << >>)

ipv6Bin(b) == IF b = "iptables" THEN "ip6tables" ELSE "ip6tables-legacy"

\* a missing ip6tables is skipped, by Install and by Cleanup
Rules(c, b) ==
  IF b = "nft" THEN <<nftTable>>
  ELSE LET bins == Found(b, c.tools) \o Found(ipv6Bin(b), c.tools)
           chains == normalizedChains(c.chains)
           of(bin, chain) ==
             [k \in DOMAIN Matches(c) |-> Rule(bin, chain, Matches(c)[k], queueArgs(c))]
       IN  FlattenSeq([i \in DOMAIN bins |->
             FlattenSeq([j \in DOMAIN chains |-> of(bins[i], chains[j])])])

RulesOf(c, i) == Rules(c, Candidates(c)[i])

\* what Cleanup of the manager goes through: autoFirewall cleans every candidate
AllRules(c) == FlattenSeq([i \in DOMAIN Candidates(c) |-> RulesOf(c, i)])
===============================================================================
