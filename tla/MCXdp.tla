--------------------------------- MODULE MCXdp ---------------------------------
(***************************************************************************)
(* Instances of XdpPath for TLC.                                           *)
(***************************************************************************)
EXTENDS XdpPath, TLC

MCAscii == {"ex", "EX", "stem", "long", "x", "https", ".", ":", "/", " "}

\* two spellings of one ASCII word, and two of one letter outside ASCII
MCLower ==
  "EX" :> "ex" @@ "EACUTE" :> "eacute"
    @@ [w \in (MCAscii \ {"EX"}) \cup {"eacute"} |-> w]
MCBytes ==
  [w \in DOMAIN MCLower |->
     CASE w = "stem" -> 63 [] w = "long" -> 60 [] w \in {"eacute", "EACUTE"} -> 2 [] OTHER -> 1]
MCWidth == "4" :> 2 @@ "6" :> 3 @@ "4in6" :> 3

A4(b) == [kind |-> "4", bits |-> b]
A6(b) == [kind |-> "6", bits |-> b]
AM(b) == [kind |-> "4in6", bits |-> b]

\* one name spelled in two ways, the longest key, one too long for a key, and
\* the longest that a query is answered for
MCDomainCall ==
  {[domain |-> <<"EX">>, flags |-> {"http"}],
   [domain |-> <<"https", ":", "/", "/", "ex", ".">>, flags |-> {"tls", "dns"}],
   [domain |-> <<"stem">>, flags |-> {"http", "dns"}],
   [domain |-> <<"stem", "x">>, flags |-> {"http"}],
   [domain |-> <<"EACUTE", "long">>, flags |-> {"dns"}]}

MCPrefixCall == {PrefixFrom(A4(<<1, 1>>), 1), PrefixFrom(A6(<<1, 0, 0>>), 3)}

MCPortCall ==
  {[addr |-> AM(<<0, 1>>), port |-> 53, proto |-> protoUDP],
   [addr |-> A6(<<0, 0, 1>>), port |-> 443, proto |-> protoTCP],
   [addr |-> A4(<<0, 1>>), port |-> 53, proto |-> 1]}

P4 == [fam |-> "4", ipOK |-> TRUE, frag |-> FALSE, options |-> FALSE, l4OK |-> TRUE,
       src |-> A4(<<0, 0>>), dst |-> A4(<<0, 1>>), sport |-> 9, dport |-> 80,
       proto |-> protoTCP, name |-> <<"ex">>, app |-> [at |-> 16, blanks |-> 1]]
P6 == [P4 EXCEPT !.fam = "6", !.src = A6(<<0, 0, 0>>), !.dst = A6(<<0, 0, 1>>)]

Request(host, offset, n) == [P4 EXCEPT !.name = host, !.app = [at |-> offset, blanks |-> n]]

Http ==
  {P6, Request(<<"EX">>, 16, 2), Request(<<"ex">>, 22, 1), Request(<<"ex">>, 16, 3),
   Request(<<"stem", "x">>, 16, 0)}

\* a hello with n empty extensions, one of pad bytes and server_name; "EX"
\* takes one byte
Hello(n, pad) ==
  [client |-> TRUE, session |-> 32, ciphers |-> 4, compression |-> 1,
   extensions |-> 4 * n + (4 + pad) + 10,
   exts |-> [k \in 1 .. n + 2 |->
               CASE k <= n -> [type |-> 10, len |-> 0]
                 [] k = n + 1 -> [type |-> 11, len |-> pad]
                 [] OTHER -> [type |-> 0, len |-> 6]],
   list |-> 4, nameType |-> 0, size |-> 600]

\* the last byte of a name is the last that is scanned, or the one after it
Padded(end) == Hello(0, end - extensions_at(Hello(0, 0)) - 14)

Hellos ==
  {Hello(14, 7), Hello(15, 7), Padded(512), Padded(513),
   [Padded(300) EXCEPT !.size = 300], [Padded(300) EXCEPT !.size = 299],
   [Hello(0, 3) EXCEPT !.exts[2].len = 5]}

Tls == {[P6 EXCEPT !.dport = 443, !.name = <<"EX">>, !.app = h] : h \in Hellos}
         \cup {[P4 EXCEPT !.dport = 443, !.app = Hello(1, 0)]}

\* a query with its type and class and nothing after them
Question(name, ls) ==
  [labels |-> ls, last |-> 0, size |-> ByteLen(name) + 2 + 4,
   inside |-> TRUE, response |-> FALSE, qdcount |-> 1]

Asks(p, name, ls) ==
  [p EXCEPT !.dport = 53, !.proto = protoUDP, !.name = name, !.app = Question(name, ls)]

Ones(n) == [k \in 1 .. n |-> 1]

\* each limit of dns_domain_matches on both sides: 62 and 63 characters, eight
\* and nine labels, type and class there and cut
Dns ==
  LET short == Asks(P4, <<"EX">>, <<1>>)
      long == <<"eacute", "long">>
  IN  {short, Asks(P6, <<"ex">>, <<1>>), [short EXCEPT !.options = TRUE],
       Asks(P4, long, Ones(7) \o <<48>>), Asks(P4, long, Ones(8) \o <<46>>),
       Asks(P4, <<"EACUTE", "long">>, Ones(7) \o <<48>>), Asks(P4, <<"stem">>, <<63>>),
       [short EXCEPT !.app.size = 6], [short EXCEPT !.app.last = 192],
       [short EXCEPT !.app.inside = FALSE], [short EXCEPT !.app.response = TRUE],
       [short EXCEPT !.app.qdcount = 0], Asks(P4, << >>, << >>)}

Odd ==
  {[P4 EXCEPT !.fam = "short", !.name = << >>], [P4 EXCEPT !.fam = "arp", !.name = << >>],
   [P4 EXCEPT !.ipOK = FALSE, !.name = <<"ex">>], [P4 EXCEPT !.l4OK = FALSE, !.name = <<"ex">>],
   [P4 EXCEPT !.frag = TRUE, !.name = <<"ex">>],
   [P6 EXCEPT !.proto = 1, !.src = A6(<<1, 0, 0>>), !.name = << >>],
   [P4 EXCEPT !.src = A4(<<1, 0>>), !.dport = 8, !.name = << >>],
   [P4 EXCEPT !.proto = protoUDP, !.src = A4(<<0, 1>>), !.dst = A4(<<0, 0>>),
              !.sport = 53, !.dport = 9, !.name = << >>]}

MCPackets == Http \cup Tls \cup Dns \cup Odd

\* a blocked and a passing request, an answered and a passing query
StatsPackets ==
  {[P4 EXCEPT !.name = <<"EX">>], [P4 EXCEPT !.fam = "short", !.name = << >>],
   Asks(P4, <<"ex">>, <<1>>)}

StatsDomainCall == {[domain |-> <<"EX">>, flags |-> {"http", "dns"}]}
================================================================================
