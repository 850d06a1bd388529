------------------------------ MODULE Classifier ------------------------------
(***************************************************************************)
(* packet_classifier.go: what Classify decides for a packet, given the     *)
(* RuleSet that newNFQueueEngine compiled, and the packet that             *)
(* sendDNSResponse sends in answer to a poisoned query, which passes the   *)
(* same hooks as any other.                                                *)
(*                                                                         *)
(* A packet is what gopacket makes of it: its layers, addresses and ports, *)
(* and as payload the bytes of an HTTP request as tokens or the name that  *)
(* tlsSNI finds (module TlsSni), or as dns the fields of a DNS message.    *)
(***************************************************************************)
EXTENDS Rules, Integers

CONSTANTS
  RuleConfig,  \* cfg.Rules, with cfg.NFQueue.DNSMode
  Packet,      \* packets that reach the queue
  SpareCap     \* tokens between len and cap of a TCP payload in its buffer

Addr == [kind : {"4", "6", "4in6"}, bits : Seq({0, 1})]

ASSUME ClassifierAssumption ==
  /\ SpareCap \in Nat
  /\ \A p \in Packet : p.version \in {4, 6} /\ p.decodes => p.src \in Addr /\ p.dst \in Addr

-----------------------------------------------------------------------------
(***************************************************************************)
(* httpHost.  "nl" is CR LF, and one token, as is the word "host".         *)
(***************************************************************************)

\* bytes.ToLower: a byte that is not valid UTF-8 becomes the three bytes of
\* the replacement character
Widened(t) == IF t = "bad" THEN <<"repl", "repl", "repl">> ELSE <<Lower[t]>>

bytesToLower(payload) == FlattenSeq([i \in DOMAIN payload |-> Widened(payload[i])])

hostWord == <<"host", ":">>
hostHeader == <<"nl", "host", ":">>

\* the index of "host:" in lower, counted from 0, or -1
hostIndex(lower) ==
  IF IsPrefix(hostWord, lower) THEN 0
  ELSE IF hostHeader \in SubSeqs(lower) THEN IndexFirstSubSeq(hostHeader, lower)
  ELSE -1

\* the first index >= from, counted from 0, that ends payload or has one of tokens
FirstAt(payload, from, tokens) ==
  Min({i \in from .. Max({from, Len(payload)}) : i >= Len(payload) \/ payload[i + 1] \in tokens})

hostStartSkipsSpace(payload) ==
  FirstAt(payload, hostIndex(bytesToLower(payload)) + Len(hostWord) + 1, ToSet(payload) \ {" "})

hostStart(payload) ==
  FirstAt(payload, hostIndex(bytesToLower(payload)) + Len(hostWord), ToSet(payload) \ {" "})

hostEnd(payload) == FirstAt(payload, hostStart(payload), {"nl", " ", ":"})

\* the index is taken in lower and used in payload
httpHost(payload) ==
  IF hostIndex(bytesToLower(payload)) < 0 \/ hostStart(payload) > Len(payload) THEN << >>
  ELSE SubSeq(payload, hostStart(payload) + 1, hostEnd(payload))

\* payload[start:end] is in range: Go allows a slice up to the capacity
httpHostInRange(payload) ==
  hostIndex(bytesToLower(payload)) >= 0 => hostStart(payload) <= Len(payload) + SpareCap

-----------------------------------------------------------------------------
(***************************************************************************)
(* DNS.                                                                    *)
(***************************************************************************)
NoName == << >>

parseDNSQuery(dns) ==
  IF ~dns.decodes \/ dns.qr \/ dns.questions = << >>
  THEN [ok |-> FALSE, qname |-> NoName]
  ELSE [ok |-> TRUE, qname |-> Head(dns.questions)]

dnsNXDomain(query) ==
  [decodes |-> TRUE, qr |-> TRUE, rcode |-> "nxdomain", id |-> query.id,
   questions |-> query.questions, serializes |-> query.serializes]

-----------------------------------------------------------------------------
(***************************************************************************)
(* Verdicts.                                                               *)
(***************************************************************************)
Accept(reason) == [kind |-> "accept", reason |-> reason]
Drop(reason) == [kind |-> "drop", reason |-> reason]

newPacketClassifier(rules, dnsMode) == [rules |-> rules, dnsMode |-> dnsMode]

classifyTCP(c, p, src, dst) ==
  IF matchIPPort(c.rules, src, p.sport, protoTCP) \/ matchIPPort(c.rules, dst, p.dport, protoTCP)
  THEN Drop("ipPort")
  ELSE IF p.dport = 80 /\ httpHost(p.payload) # NoName /\ matchDomain(c.rules, httpHost(p.payload))
  THEN Drop("http")
  ELSE IF p.dport = 443 /\ p.payload # NoName /\ matchDomain(c.rules, p.payload)
  THEN Drop("tls")
  ELSE Accept("none")

classifyUDPAnswersReplies(c, p, src, dst) ==
  IF matchIPPort(c.rules, src, p.sport, protoUDP) \/ matchIPPort(c.rules, dst, p.dport, protoUDP)
  THEN Drop("ipPort")
  ELSE IF p.dport # 53 \/ p.dns.questions = << >> \/ ~matchDNSPoison(c.rules, Head(p.dns.questions))
  THEN Accept("none")
  ELSE IF c.dnsMode = "drop" \/ ~p.dns.serializes THEN Drop("dnsDrop") ELSE Drop("dnsPoison")

\* in mode drop, and where the response does not serialize, nothing is sent
classifyUDP(c, p, src, dst) ==
  IF matchIPPort(c.rules, src, p.sport, protoUDP) \/ matchIPPort(c.rules, dst, p.dport, protoUDP)
  THEN Drop("ipPort")
  ELSE IF p.dport # 53 THEN Accept("none")
  ELSE LET query == parseDNSQuery(p.dns)
       IN  IF ~query.ok \/ ~matchDNSPoison(c.rules, query.qname) THEN Accept("none")
           ELSE IF c.dnsMode = "drop" \/ ~p.dns.serializes THEN Drop("dnsDrop")
           ELSE Drop("dnsPoison")

\* classifyIPv4 and classifyIPv6; addrFromIP unmaps both addresses
classifyIP(c, p) ==
  IF ~p.decodes THEN Accept("malformed")
  ELSE IF matchIP(c.rules, Unmap(p.src)) \/ matchIP(c.rules, Unmap(p.dst)) THEN Drop("ip")
  ELSE CASE p.l4 = "tcp" -> classifyTCP(c, p, Unmap(p.src), Unmap(p.dst))
         [] p.l4 = "udp" -> classifyUDP(c, p, Unmap(p.src), Unmap(p.dst))
         [] OTHER        -> Accept("none")

ClassifyDropsMalformed(c, p) ==
  IF p.version \notin {4, 6} THEN Drop("malformed") ELSE classifyIP(c, p)

Classify(c, p) ==
  IF p.version \notin {4, 6} THEN Accept("malformed") ELSE classifyIP(c, p)

\* sendDNSResponse: the packet it sends, if the families agree
Answerable(p) == (Unmap(p.src).kind = "4") = (Unmap(p.dst).kind = "4")

Answer(p) ==
  [version |-> IF Unmap(p.dst).kind = "4" THEN 4 ELSE 6, decodes |-> TRUE,
   src |-> Unmap(p.dst), dst |-> Unmap(p.src), l4 |-> "udp",
   sport |-> p.dport, dport |-> p.sport, payload |-> NoName, dns |-> dnsNXDomain(p.dns)]

-----------------------------------------------------------------------------
VARIABLES
  conf,     \* the configuration
  engine,   \* the result of newNFQueueEngine: an error, or its classifier
  pkt,      \* the packet classified last
  verdict,  \* its verdict
  query     \* the query it answers, if sendDNSResponse sent it

vars == <<conf, engine, pkt, verdict, query>>

NoPacket == [version |-> 0]

Init ==
  /\ conf \in RuleConfig
  /\ engine = Error /\ pkt = NoPacket /\ verdict = Accept("none") /\ query = NoPacket

\* newNFQueueEngine; an error ends the process
Load ==
  /\ ~engine.ok /\ compileRuleSet(conf).ok
  /\ engine' = OK(newPacketClassifier(compileRuleSet(conf).val, conf.dnsMode))
  /\ UNCHANGED <<conf, pkt, verdict, query>>

Receive(p) ==
  /\ engine.ok
  /\ pkt' = p /\ verdict' = Classify(engine.val, p) /\ query' = NoPacket
  /\ UNCHANGED <<conf, engine>>

\* the response to the query classified last passes the hooks
ReceiveAnswer ==
  /\ engine.ok /\ verdict.reason = "dnsPoison" /\ Answerable(pkt)
  /\ query' = pkt
  /\ pkt' = Answer(pkt) /\ verdict' = Classify(engine.val, Answer(pkt))
  /\ UNCHANGED <<conf, engine>>

Next == Load \/ (\E p \in Packet : Receive(p)) \/ ReceiveAnswer

Spec == Init /\ [][Next]_vars

-----------------------------------------------------------------------------
(***************************************************************************)
(* The answer to a poisoned query passes the filter itself: neither the    *)
(* address and port rules, met with source and destination exchanged, nor  *)
(* the poisoning, which would answer the answer, stop it.                  *)
(***************************************************************************)
AnswerPasses == query # NoPacket => verdict = Accept("none")

(***************************************************************************)
(* What handlePacket and recordDecision rely on: a packet is accepted      *)
(* exactly when its reason is none or malformed, so that what could not be *)
(* parsed is let through and every other reason is a drop.                 *)
(***************************************************************************)
ReasonDecides == (verdict.kind = "accept") = (verdict.reason \in {"none", "malformed"})
=============================================================================
