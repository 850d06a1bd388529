------------------------------- MODULE MCXdpDns -------------------------------
(***************************************************************************)
(* An instance of XdpDns for TLC: names on both sides of each limit with   *)
(* one set of words, and one short name with every set of words.           *)
(***************************************************************************)
EXTENDS XdpDns

Ones(n) == [k \in 1 .. n |-> 1]

\* texts of 0, 1, 3, 15, 17, 61, 62, 63 and 64 characters and more
Names ==
  {<< >>, <<1>>, <<1, 1>>, Ones(8), Ones(9), <<61>>, <<62>>, <<63>>, <<30, 30>>, <<30, 31>>,
   <<31, 31>>, <<31, 32>>, <<32, 32>>, <<63, 1>>, <<62, 1>>, <<61, 1>>, <<60, 1>>, <<1, 61>>,
   <<63, 63>>, Ones(7) \o <<48>>, Ones(7) \o <<49>>, Ones(7) \o <<50>>}

\* the checksum of a packet
Checked(words, r) == CHOOSE c \in Word : Verifies(words, r, c)

AllWords == [flags : 0 .. Top \div 2, ancount : Word, nscount : Word, arcount : Word]
NoWords == [flags |-> 0, ancount |-> 0, nscount |-> 0, arcount |-> 0]

Query(ls, last, size, words, r) ==
  [labels |-> ls, last |-> last, size |-> size, inside |-> TRUE, qdcount |-> 1,
   words |-> words, rest |-> r, check |-> Checked(words, r)]

Plain(ls, last, size) == Query(ls, last, size, NoWords, 3)

\* all there, lacking one byte of type and class or all of it, cut in the
\* name, or followed by other sections
Walks ==
  {Plain(ls, l, Joined(ls) + 2 + k) : ls \in Names, l \in {0, 192}, k \in {0, 3, 4, 20}}
    \cup {Plain(ls, 0, s) : ls \in Names, s \in {0, 1, 2, 40}}
    \cup {Query(<<1>>, 0, 20, [NoWords EXCEPT !.flags = Top], 3),
          [Plain(<<1>>, 0, 20) EXCEPT !.qdcount = 0], [Plain(<<1>>, 0, 20) EXCEPT !.inside = FALSE]}

Answers == {Query(<<1>>, 0, 7, words, r) : words \in AllWords, r \in {0, 1, 3, 6, 7}}

MCQuestion == Walks \cup Answers
================================================================================
