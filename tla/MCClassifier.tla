----------------------------- MODULE MCClassifier -----------------------------
(***************************************************************************)
(* Instances of ClassifierSpec for TLC.                                    *)
(***************************************************************************)
EXTENDS ClassifierSpec, TLC

Words == {"ex", "other", "www", "http", "https", "host", "x", "p", "get", "80",
          ".", ":", "/", " ", "nl", "bad", "repl"}

MCLower ==
  [w \in Words |-> w] @@ ("EX" :> "ex" @@ "WWW" :> "www" @@ "HTTP" :> "http" @@ "Host" :> "host")

MCWidth == "4" :> 2 @@ "6" :> 3 @@ "4in6" :> 3

Ex == <<"ex">>
WwwEx == <<"www", ".", "ex">>
Other == <<"other">>

Scheme(s) == <<s, ":", "/", "/">>

\* ways to write a domain in config.json, with the name meant
Spelling ==
  {[text |-> <<"EX">>, means |-> Ex],
   [text |-> <<" ">> \o Scheme("HTTP") \o <<"ex", "/", "p", " ">>, means |-> Ex],
   [text |-> Scheme("https") \o <<"ex", ".", ":", "80">>, means |-> Ex],
   [text |-> <<"ex", ":", "80", "/", "p">>, means |-> Ex],
   [text |-> <<"www", ".", "ex", ".", "/">>, means |-> WwwEx],
   [text |-> <<"other">>, means |-> Other],
   [text |-> <<" ">>, means |-> Nobody]}

A4(b) == [kind |-> "4", bits |-> b]
A6(b) == [kind |-> "6", bits |-> b]
AM(b) == [kind |-> "4in6", bits |-> b]

Net(form, a, len, pad) == [form |-> form, addr |-> a, len |-> len, padded |-> pad]

IPRules ==
  {<<Net("addr", A4(<<0, 1>>), 0, TRUE)>>,
   <<Net("addr", AM(<<1, 1>>), 0, FALSE), Net("blank", A4(<<0, 0>>), 0, FALSE)>>,
   <<Net("cidr", A4(<<1, 1>>), 1, FALSE)>>,
   <<Net("cidr", A4(<<0, 0>>), 0, FALSE)>>,
   <<Net("cidr", A6(<<1, 0, 1>>), 2, FALSE), Net("addr", A4(<<0, 0>>), 0, FALSE)>>,
   <<Net("cidr", A6(<<0, 0, 0>>), 0, FALSE)>>,
   <<Net("cidr", A4(<<1, 1>>), 3, FALSE)>>,
   <<Net("cidr", AM(<<1, 1>>), 1, FALSE)>>,
   <<Net("junk", A4(<<0, 0>>), 0, FALSE)>>}

PortRule(form, a, port, proto) == [form |-> form, addr |-> a, port |-> port, proto |-> proto]

PortRules ==
  {<<PortRule("addr", A4(<<0, 1>>), 80, "")>>,
   <<PortRule("addr", AM(<<0, 1>>), 53, "udp"), PortRule("addr", A6(<<1, 0, 0>>), 443, "tcp")>>,
   <<PortRule("addr", A4(<<0, 1>>), 0, "tcp")>>,
   <<PortRule("addr", A4(<<0, 1>>), 80, "icmp")>>,
   <<PortRule("junk", A4(<<0, 1>>), 80, "tcp")>>}

Conf(mode, d, q, ips, ports) ==
  [dnsMode |-> mode,
   domains |-> <<d.text>>, dnsPoisonDomains |-> <<q.text>>, ips |-> ips, ipPorts |-> ports,
   means |-> <<d.means>>, poisonMeans |-> <<q.means>>]

Plain == CHOOSE s \in Spelling : s.text = <<"EX">>

MCRuleConfig ==
  {Conf("nxdomain", d, Plain, << >>, << >>) : d \in Spelling}
    \cup {Conf(m, Plain, q, << >>, << >>) : m \in {"nxdomain", "drop"}, q \in Spelling}
    \cup {Conf("nxdomain", Plain, Plain, ips, << >>) : ips \in IPRules}
    \cup {Conf("nxdomain", Plain, Plain, << >>, ports) : ports \in PortRules}

-----------------------------------------------------------------------------
\* HTTP requests and the host they name
Request ==
  {[payload |-> <<"get", "nl", "x", "host", ":", "other", "nl", "Host", ":", " ", "EX", "nl">>,
    names |-> Ex],
   [payload |-> <<"host", ":", "www", ".", "ex", ":", "80", "nl">>, names |-> WwwEx],
   [payload |-> <<"get", "nl", "Host", ":", "other", "nl", "x", ":", "ex">>, names |-> Other],
   [payload |-> <<"get", "nl", "x", "host", ":", "ex", "nl">>, names |-> Nobody],
   [payload |-> <<"get", "nl", "host", ":">>, names |-> Nobody],
   [payload |-> << >>, names |-> Nobody]}

\* requests with one or two bytes that are not UTF-8 in front of the Host header
NonASCIIRequest ==
  {[payload |-> <<"get", "bad", "nl", "host", ":", "ex", "nl">>, names |-> Ex],
   [payload |-> <<"bad", "bad", "nl", "host", ":">>, names |-> Nobody]}

ServerName ==
  {[payload |-> <<"EX">>, names |-> Ex], [payload |-> <<"www", ".", "ex", ".">>, names |-> WwwEx],
   [payload |-> << >>, names |-> Nobody]}

Message(decodes, qr, questions, serializes) ==
  [decodes |-> decodes, qr |-> qr, id |-> 7, rcode |-> "none",
   questions |-> questions, serializes |-> serializes]

NoDNS == Message(FALSE, FALSE, << >>, TRUE)

DNSMessage ==
  {[dns |-> Message(TRUE, FALSE, <<<<"EX", ".">>, <<"other">>>>, TRUE), names |-> Ex],
   [dns |-> Message(TRUE, FALSE, <<<<"ex">>>>, FALSE), names |-> Ex],
   [dns |-> Message(TRUE, FALSE, <<<<"other">>, <<"ex">>>>, TRUE), names |-> Other],
   [dns |-> Message(TRUE, TRUE, <<<<"ex">>>>, TRUE), names |-> Nobody],
   [dns |-> Message(TRUE, FALSE, << >>, TRUE), names |-> Nobody],
   [dns |-> NoDNS, names |-> Nobody]}

Ends ==
  {<<4, A4(<<0, 1>>), A4(<<1, 1>>)>>, <<4, A4(<<1, 0>>), A4(<<0, 1>>)>>,
   <<6, A6(<<1, 0, 0>>), A6(<<0, 1, 1>>)>>, <<6, A6(<<0, 0, 1>>), A6(<<1, 0, 0>>)>>,
   <<6, AM(<<0, 1>>), AM(<<1, 0>>)>>, <<6, AM(<<1, 1>>), A6(<<0, 0, 0>>)>>}

Pkt(e, l4, sport, dport, c) ==
  [version |-> e[1], decodes |-> TRUE, src |-> e[2], dst |-> e[3], l4 |-> l4,
   sport |-> sport, dport |-> dport, names |-> c.names,
   payload |-> IF l4 = "tcp" THEN c.payload ELSE NoName,
   dns |-> IF l4 = "udp" THEN c.dns ELSE NoDNS]

Nothing == [payload |-> NoName, dns |-> NoDNS, names |-> Nobody]
Broken == [version |-> 4, decodes |-> FALSE, names |-> Nobody]
Alien == [version |-> 5, names |-> Nobody]

MCPacket ==
  UNION {{Pkt(e, "tcp", 9, 80, c) : c \in Request} \cup {Pkt(e, "tcp", 9, 443, c) : c \in ServerName}
           \cup {Pkt(e, "udp", s, 53, c) : s \in {9, 53}, c \in DNSMessage}
           \cup {Pkt(e, "tcp", 80, 9, Nothing), Pkt(e, "udp", 53, 9, Nothing),
                 Pkt(e, "icmp", 0, 0, Nothing)} : e \in Ends}
    \cup {Broken, Alien}

NonASCIIPacket == {Pkt(e, "tcp", 9, 80, c) : e \in Ends, c \in NonASCIIRequest}
NonASCIIConfig == {Conf("nxdomain", Plain, Plain, << >>, << >>)}
===============================================================================
