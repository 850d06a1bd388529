--------------------------- MODULE ClassifierProofs ---------------------------
(***************************************************************************)
(* The answers that sendDNSResponse sends pass the filter, the reason of a *)
(* verdict says whether the packet is dropped, and a packet is dropped     *)
(* exactly when a rule means it, for every rule configuration, spelling    *)
(* and set of packets.                                                     *)
(***************************************************************************)
EXTENDS ClassifierSpec, WellFoundedInduction, NaturalsInduction, SequenceTheorems, TLAPS

\* unmapping an address twice is unmapping it once
LEMMA UnmapAddr == \A a \in Addr : Unmap(a) \in Addr /\ Unmap(Unmap(a)) = Unmap(a)
BY DEF Unmap, Addr

\* a poisoned query is a query: its addresses and ports match no rule
LEMMA PoisonedQuery ==
  ASSUME NEW c, NEW p \in Packet, Classify(c, p).reason = "dnsPoison"
  PROVE  /\ p.src \in Addr /\ p.dst \in Addr
         /\ ~matchIP(c.rules, Unmap(p.src)) /\ ~matchIP(c.rules, Unmap(p.dst))
         /\ ~matchIPPort(c.rules, Unmap(p.src), p.sport, protoUDP)
         /\ ~matchIPPort(c.rules, Unmap(p.dst), p.dport, protoUDP)
<1>1. p.version \in {4, 6} /\ p.decodes /\ classifyIP(c, p).reason = "dnsPoison"
  BY DEF Classify, classifyIP, Accept
<1>2. ~matchIP(c.rules, Unmap(p.src)) /\ ~matchIP(c.rules, Unmap(p.dst))
  BY <1>1 DEF classifyIP, Accept, Drop
<1>3. classifyTCP(c, p, Unmap(p.src), Unmap(p.dst)).reason # "dnsPoison"
  BY DEF classifyTCP, Accept, Drop
<1>4. classifyUDP(c, p, Unmap(p.src), Unmap(p.dst)).reason = "dnsPoison"
  BY <1>1, <1>2, <1>3 DEF classifyIP, Accept
<1>5. /\ ~matchIPPort(c.rules, Unmap(p.src), p.sport, protoUDP)
      /\ ~matchIPPort(c.rules, Unmap(p.dst), p.dport, protoUDP)
  BY <1>4 DEF classifyUDP, Drop
<1> QED BY <1>1, <1>2, <1>5, ClassifierAssumption

\* the same classifier accepts the answer to it
LEMMA AnswerAccepted ==
  ASSUME NEW c, NEW p \in Packet, Classify(c, p).reason = "dnsPoison"
  PROVE  Classify(c, Answer(p)) = Accept("none")
<1> DEFINE a == Answer(p)
<1>1. /\ a.version \in {4, 6} /\ a.decodes /\ a.l4 = "udp"
      /\ a.src = Unmap(p.dst) /\ a.dst = Unmap(p.src)
      /\ a.sport = p.dport /\ a.dport = p.sport
      /\ a.dns.qr
  BY DEF Answer, dnsNXDomain
<1>2. Unmap(a.src) = Unmap(p.dst) /\ Unmap(a.dst) = Unmap(p.src)
  BY <1>1, PoisonedQuery, UnmapAddr
<1>3. ~parseDNSQuery(a.dns).ok
  BY <1>1 DEF parseDNSQuery
<1>4. classifyUDP(c, a, Unmap(a.src), Unmap(a.dst)) = Accept("none")
  BY <1>1, <1>2, <1>3, PoisonedQuery DEF classifyUDP
<1>5. classifyIP(c, a) = Accept("none")
  BY <1>1, <1>2, <1>4, PoisonedQuery DEF classifyIP
<1> QED BY <1>1, <1>5 DEF Classify

(***************************************************************************)
(* The verdict belongs to the packet: without it, that the answer passes   *)
(* would not be inductive.                                                 *)
(***************************************************************************)
VerdictInv ==
  /\ query = NoPacket =>
       \/ verdict = Accept("none")
       \/ engine.ok /\ pkt \in Packet /\ verdict = Classify(engine.val, pkt)
  /\ AnswerPasses

\* the inductive step of AnswersPass
LEMMA VerdictInvStep ==
  ASSUME VerdictInv, [Next]_vars
  PROVE  VerdictInv'
<1>1. CASE Load
  BY <1>1 DEF Load, VerdictInv, AnswerPasses, OK
<1>2. ASSUME NEW p \in Packet, Receive(p)
      PROVE  VerdictInv'
  BY <1>2 DEF Receive, VerdictInv, AnswerPasses
<1>3. CASE ReceiveAnswer
  <2>1. query = NoPacket /\ pkt \in Packet /\ Classify(engine.val, pkt).reason = "dnsPoison"
    BY <1>3 DEF ReceiveAnswer, VerdictInv, AnswerPasses, Accept
  <2>2. verdict' = Accept("none")
    BY <1>3, <2>1, AnswerAccepted DEF ReceiveAnswer
  <2> QED BY <2>2 DEF VerdictInv, AnswerPasses
<1>4. CASE UNCHANGED vars
  BY <1>4 DEF vars, VerdictInv, AnswerPasses
<1> QED BY <1>1, <1>2, <1>3, <1>4 DEF Next

(***************************************************************************)
(* No NXDOMAIN answer is dropped or answered again by the filter that sent *)
(* it, whatever the rules are and whatever port the client asked from.     *)
(***************************************************************************)
THEOREM AnswersPass == Spec => []AnswerPasses
<1>1. Init => VerdictInv
  BY DEF Init, VerdictInv, AnswerPasses
<1>2. VerdictInv /\ [Next]_vars => VerdictInv'
  BY VerdictInvStep
<1>3. VerdictInv => AnswerPasses
  BY DEF VerdictInv
<1> QED BY <1>1, <1>2, <1>3, PTL DEF Spec

-----------------------------------------------------------------------------
\* a verdict handlePacket and recordDecision know
Decided(v) ==
  v \in {Accept("none"), Accept("malformed"), Drop("ip"), Drop("ipPort"), Drop("http"),
         Drop("tls"), Drop("dnsPoison"), Drop("dnsDrop")}

\* Classify returns no other
LEMMA ClassifyDecided == ASSUME NEW c, NEW p PROVE Decided(Classify(c, p))
<1>1. \A src, dst : Decided(classifyTCP(c, p, src, dst))
  BY DEF classifyTCP, Decided
<1>2. \A src, dst : Decided(classifyUDP(c, p, src, dst))
  BY DEF classifyUDP, Decided
<1>3. Decided(classifyIP(c, p))
  BY <1>1, <1>2 DEF classifyIP, Decided
<1> QED BY <1>3 DEF Classify, Decided

(***************************************************************************)
(* Whatever the rules and the packet, Classify accepts with the reasons    *)
(* none and malformed only and drops with all others, so the verdict that  *)
(* handlePacket sets and the counter that recordDecision picks agree.      *)
(***************************************************************************)
THEOREM ReasonsDecide == Spec => []ReasonDecides
<1> DEFINE KnownVerdict == Decided(verdict)
<1>1. Init => KnownVerdict
  BY DEF Init, Decided
<1>2. KnownVerdict /\ [Next]_vars => KnownVerdict'
  BY ClassifyDecided DEF Next, Load, Receive, ReceiveAnswer, vars, Decided
<1>3. KnownVerdict => ReasonDecides
  BY DEF Decided, ReasonDecides, Accept, Drop
<1> QED BY <1>1, <1>2, <1>3, PTL DEF Spec

-----------------------------------------------------------------------------
(***************************************************************************)
(* bytes.ToLower keeps the positions of an ASCII request.  FlattenSeq is a *)
(* recursion over the tokens: it has exactly one solution, the prefixes of *)
(* the lowered request, by induction on its length.                        *)
(***************************************************************************)
\* induction over the natural numbers, for a set in place of a predicate
LEMMA NatSetInduction ==
  ASSUME NEW S \in SUBSET Nat, 0 \in S, \A n \in S : n + 1 \in S
  PROVE  S = Nat
<1> SUFFICES ASSUME Nat \ S # {} PROVE FALSE
  OBVIOUS
<1>1. PICK m \in Nat \ S : \A k \in Nat \ S : ~(<<k, m>> \in OpToRel(<, Nat))
  <2> DEFINE T == Nat \ S
  <2>1. T \subseteq Nat /\ T # {}
    OBVIOUS
  <2> HIDE DEF T
  <2>2. \E x \in T : \A y \in T : ~(<<y, x>> \in OpToRel(<, Nat))
    BY <2>1, NatLessThanWellFounded, WFMin
  <2> QED BY <2>2 DEF T
<1>2. m # 0 /\ m - 1 \in Nat
  OBVIOUS
<1>3. <<m - 1, m>> \in OpToRel(<, Nat)
  BY <1>2 DEF OpToRel
<1>4. m - 1 \in S
  BY <1>1, <1>2, <1>3
<1> QED BY <1>2, <1>4

\* a set of natural numbers that is not empty has a least element
LEMMA LeastExists ==
  ASSUME NEW S \in SUBSET Nat, S # {}
  PROVE  \E m \in S : \A k \in S : m <= k
<1>1. PICK m \in S : \A k \in S : ~(<<k, m>> \in OpToRel(<, Nat))
  BY NatLessThanWellFounded, WFMin
<1>2. \A k \in S : k \in Nat /\ m \in Nat /\ ~(k < m)
  BY <1>1 DEF OpToRel
<1>3. \A k \in S : m <= k
  BY <1>2
<1> QED BY <1>3

\* Min is the element below all others
LEMMA MinIs ==
  ASSUME NEW S \in SUBSET Int, NEW m \in S, \A x \in S : m <= x
  PROVE  Min(S) = m
<1>1. \E x \in S : \A y \in S : x <= y
  OBVIOUS
<1>2. Min(S) \in S /\ \A y \in S : Min(S) <= y
  BY <1>1 DEF Min
<1>3. m \in Int /\ Min(S) \in Int
  BY <1>2
<1>4. m <= Min(S) /\ Min(S) <= m
  BY <1>2, <1>3
<1> QED BY <1>3, <1>4

\* Max is the element above all others
LEMMA MaxIs ==
  ASSUME NEW S \in SUBSET Int, NEW m \in S, \A x \in S : x <= m
  PROVE  Max(S) = m
<1>1. \E x \in S : \A y \in S : x >= y
  OBVIOUS
<1>2. Max(S) \in S /\ \A y \in S : Max(S) >= y
  BY <1>1 DEF Max
<1>3. m \in Int /\ Max(S) \in Int
  BY <1>2
<1>4. Max(S) <= m /\ m <= Max(S)
  BY <1>2, <1>3
<1> QED BY <1>3, <1>4

\* the recursion with which FlattenSeq joins n sequences
Flattens(g, w, n) == g = [i \in 1 .. n |-> IF i = 1 THEN w[i] ELSE g[i - 1] \o w[i]]

\* joining sequences of one element each, in order, gives the elements
LEMMA FlattenOnes ==
  ASSUME NEW T, NEW l \in Seq(T), NEW w, DOMAIN w = 1 .. Len(l), Len(w) = Len(l),
         \A i \in 1 .. Len(l) : w[i] = <<l[i]>>
  PROVE  l # << >> => FlattenSeq(w) = l
<1> DEFINE n == Len(l)
           p == [k \in 1 .. n |-> SubSeq(l, 1, k)]
<1> SUFFICES ASSUME l # << >> PROVE FlattenSeq(w) = l
  OBVIOUS
<1>1. n \in Nat \ {0} /\ DOMAIN l = 1 .. n
  OBVIOUS
<1>2. \A k \in 1 .. n : k # 1 => SubSeq(l, 1, k) = SubSeq(l, 1, k - 1) \o <<l[k]>>
  BY <1>1, SubSeqRecursiveSecond
<1>3. SubSeq(l, 1, 1) = <<l[1]>> /\ SubSeq(l, 1, n) = l
  <2>1. SubSeq(l, 1, n) = l
    BY SubSeqFull
  <2>2. SubSeq(l, 1, 1) \in Seq(T) /\ Len(SubSeq(l, 1, 1)) = 1 /\ SubSeq(l, 1, 1)[1] = l[1]
    BY <1>1
  <2>3. <<l[1]>> \in Seq(T) /\ Len(<<l[1]>>) = 1 /\ <<l[1]>>[1] = l[1]
    BY <1>1
  <2>4. SubSeq(l, 1, 1) = <<l[1]>>
    <3> DEFINE a == SubSeq(l, 1, 1)
               b == <<l[1]>>
    <3>2. a \in Seq(T) /\ b \in Seq(T) /\ Len(a) = Len(b) /\ \A i \in 1 .. Len(a) : a[i] = b[i]
      BY <2>2, <2>3
    <3> HIDE DEF a, b
    <3>3. a = b
      BY <3>2, SeqEqual
    <3> QED BY <3>3 DEF a, b
  <2> QED BY <2>1, <2>4
<1>4. Flattens(p, w, n)
  <2>1. \A k \in 1 .. n : p[k] = IF k = 1 THEN w[k] ELSE p[k - 1] \o w[k]
    <3> SUFFICES ASSUME NEW k \in 1 .. n PROVE p[k] = IF k = 1 THEN w[k] ELSE p[k - 1] \o w[k]
      OBVIOUS
    <3>1. w[k] = <<l[k]>> /\ p[k] = SubSeq(l, 1, k) /\ (k # 1 => p[k - 1] = SubSeq(l, 1, k - 1))
      BY <1>1
    <3> QED BY <1>2, <1>3, <3>1
  <2>2. p = [k \in 1 .. n |-> p[k]]
    OBVIOUS
  <2> HIDE DEF p
  <2> QED BY <2>1, <2>2 DEF Flattens
<1>5. ASSUME NEW g, Flattens(g, w, n) PROVE g[n] = l
  <2> DEFINE S == {k \in Nat : k \in 1 .. n => g[k] = SubSeq(l, 1, k)}
  <2>1. g[1] = w[1] /\ \A k \in 1 .. n : k # 1 => g[k] = g[k - 1] \o w[k]
    <3> HIDE DEF n, p, S
    <3>1. \A k \in 1 .. n : g[k] = IF k = 1 THEN w[k] ELSE g[k - 1] \o w[k]
      BY <1>5 DEF Flattens
    <3>2. 1 \in 1 .. n
      BY <1>1
    <3>3. g[1] = w[1]
      BY <3>1, <3>2, Zenon
    <3>4. ASSUME NEW k \in 1 .. n, k # 1 PROVE g[k] = g[k - 1] \o w[k]
      BY <3>1, <3>4, Zenon
    <3> QED BY <3>3, <3>4
  <2>2. 0 \in S
    <3>1. 0 \notin 1 .. n
      BY <1>1
    <3> QED BY <3>1
  <2> HIDE DEF n
  <2>3. ASSUME NEW k \in S PROVE k + 1 \in S
    <3> DEFINE j == k + 1
    <3> SUFFICES ASSUME j \in 1 .. n PROVE g[j] = SubSeq(l, 1, j)
      OBVIOUS
    <3>1. k \in Nat /\ j - 1 = k /\ (k # 0 => k \in 1 .. n)
      BY <1>1
    <3>2. CASE j = 1
      BY <1>1, <1>3, <2>1, <3>2 DEF n
    <3>3. CASE j # 1
      <4>1. g[j - 1] = SubSeq(l, 1, j - 1)
        BY <3>1, <3>3
      <4> HIDE DEF j
      <4>2. g[j] = g[j - 1] \o w[j] /\ w[j] = <<l[j]>>
        BY <2>1, <3>3 DEF n
      <4> QED BY <1>2, <3>3, <4>1, <4>2
    <3> QED BY <3>2, <3>3
  <2> HIDE DEF S
  <2>4. S = Nat
    <3>1. S \subseteq Nat
      BY DEF S
    <3> QED BY <3>1, <2>2, <2>3, NatSetInduction
  <2>5. n \in S
    BY <1>1, <2>4
  <2> QED BY <1>1, <1>3, <2>5 DEF S
<1>6. FlattenSeq(w) = (CHOOSE g : Flattens(g, w, n))[n]
  BY <1>1 DEF FlattenSeq, Flattens
<1> HIDE DEF p, n
<1>7. Flattens(CHOOSE g : Flattens(g, w, n), w, n)
  BY <1>4
<1> QED BY <1>5, <1>6, <1>7

\* lowering an ASCII request token by token changes neither its length nor where
\* anything stands: the index that httpHost takes in lower is one in the payload
LEMMA LowerIsLower ==
  ASSUME NEW s \in Text, IsASCII(s)
  PROVE  /\ bytesToLower(s) = ToLower(s)
         /\ ToLower(s) \in Seq({Lower[t] : t \in DOMAIN Lower}) /\ Len(ToLower(s)) = Len(s)
<1> DEFINE w == [i \in DOMAIN s |-> Widened(s[i])]
<1>1. s \in Seq(DOMAIN Lower) /\ DOMAIN s = 1 .. Len(s) /\ Len(s) \in Nat
  BY DEF Text
<1>2. \A i \in 1 .. Len(s) : s[i] \in DOMAIN Lower /\ s[i] # "bad"
  BY <1>1 DEF IsASCII, ToSet
<1>3. \A i \in 1 .. Len(s) : w[i] = <<Lower[s[i]]>>
  BY <1>1, <1>2 DEF Widened
<1>4. ToLower(s) \in Seq({Lower[t] : t \in DOMAIN Lower})
  BY <1>1, <1>2 DEF ToLower
<1>5. Len(ToLower(s)) = Len(s) /\ \A i \in 1 .. Len(s) : ToLower(s)[i] = Lower[s[i]]
  BY <1>1 DEF ToLower
<1>6. Len(w) = Len(s) /\ DOMAIN w = 1 .. Len(s)
  BY <1>1
<1> HIDE DEF w
<1>7. CASE ToLower(s) # << >>
  BY <1>3, <1>4, <1>5, <1>6, <1>7, FlattenOnes DEF bytesToLower, w
<1>8. CASE ToLower(s) = << >>
  <2>1. Len(s) = 0 /\ Len(w) = 0 /\ w = << >>
    BY <1>5, <1>6, <1>8, <1>1 DEF w
  <2>2. FlattenSeq(w) = w
    BY <2>1 DEF FlattenSeq
  <2> QED BY <1>4, <1>5, <2>1, <2>2, <1>8 DEF bytesToLower, w
<1> QED BY <1>4, <1>5, <1>7, <1>8

-----------------------------------------------------------------------------
(***************************************************************************)
(* httpHost: the index it takes is that of the first line with the header, *)
(* and the slice it takes from there is the value up to a port.            *)
(***************************************************************************)
\* "host:" behind a line break, ending at k
LineEnds(l, k) == k - 2 \in 1 .. Len(l) /\ l[k - 2] = "nl" /\ l[k - 1] = "host" /\ l[k] = ":"

\* bytes.HasPrefix(lower, "host:") is a header in the first line
LEMMA PrefixIsHeader ==
  ASSUME NEW T, NEW l \in Seq(T)
  PROVE  IsPrefix(hostWord, l) <=> HeaderAt(l, 1)
<1>1. hostWord \in Seq({"host", ":"}) /\ Len(hostWord) = 2 /\ hostWord[1] = "host" /\ hostWord[2] = ":"
  BY DEF hostWord
<1>2. SubSeq(hostWord, 1, Len(hostWord)) = hostWord
  BY <1>1, SubSeqFull
<1>3. CASE Len(l) >= 2
  <2> DEFINE a == SubSeq(l, 1, 2)
  <2>1. a \in Seq(T) /\ Len(a) = 2 /\ a[1] = l[1] /\ a[2] = l[2]
    BY <1>3
  <2>2. hostWord = a <=> hostWord[1] = a[1] /\ hostWord[2] = a[2]
    <3> DEFINE U == T \cup {"host", ":"}
    <3>1. hostWord \in Seq(U) /\ a \in Seq(U)
      <4>1. hostWord \in Seq(U)
        BY <1>1, SeqMonotonic
      <4>2. a \in Seq(U)
        BY <2>1, SeqMonotonic
      <4> QED BY <4>1, <4>2
    <3>2. \A i \in 1 .. 2 : i = 1 \/ i = 2
      OBVIOUS
    <3> HIDE DEF a, U
    <3>3. ASSUME hostWord[1] = a[1], hostWord[2] = a[2] PROVE hostWord = a
      BY <1>1, <2>1, <3>1, <3>2, <3>3, SeqEqual
    <3> QED BY <3>3
  <2>3. IsPrefix(hostWord, l) <=> hostWord = a
    BY <1>1, <1>2, <1>3 DEF IsPrefix
  <2>4. HeaderAt(l, 1) <=> l[1] = "host" /\ l[2] = ":"
    BY <1>3 DEF HeaderAt
  <2> QED BY <1>1, <2>1, <2>2, <2>3, <2>4
<1>4. CASE ~(Len(l) >= 2)
  BY <1>1, <1>4 DEF IsPrefix, HeaderAt
<1> QED BY <1>3, <1>4

\* the first k tokens contain "host:" behind a line break iff one ends among them
LEMMA HeaderInPrefix ==
  ASSUME NEW T, NEW l \in Seq(T), NEW k \in 0 .. Len(l)
  PROVE  hostHeader \in SubSeqs(SubSeq(l, 1, k)) <=> \E e \in 3 .. k : LineEnds(l, e)
<1> DEFINE s == SubSeq(l, 1, k)
<1>1. s \in Seq(T) /\ Len(s) = k /\ \A i \in 1 .. k : s[i] = l[i]
  OBVIOUS
<1>2. /\ hostHeader \in Seq({"nl", "host", ":"}) /\ Len(hostHeader) = 3
      /\ hostHeader[1] = "nl" /\ hostHeader[2] = "host" /\ hostHeader[3] = ":"
  BY DEF hostHeader
<1> HIDE DEF s
<1>3. ASSUME NEW i \in 0 .. k, NEW j \in 0 .. k, hostHeader = SubSeq(s, i + 1, j)
      PROVE  \E e \in 3 .. k : LineEnds(l, e)
  <2>1. Len(SubSeq(s, i + 1, j)) = 3
    BY <1>2, <1>3
  <2>2. Len(SubSeq(s, i + 1, j)) = IF i + 1 <= j THEN j - i ELSE 0
    BY <1>1
  <2>3. j = i + 3
    BY <2>1, <2>2
  <2>4. \A m \in 1 .. 3 : SubSeq(s, i + 1, j)[m] = s[i + m]
    BY <1>1, <2>3
  <2>5. s[i + 1] = "nl" /\ s[i + 2] = "host" /\ s[i + 3] = ":"
    BY <1>2, <1>3, <2>4
  <2>6. l[i + 1] = "nl" /\ l[i + 2] = "host" /\ l[i + 3] = ":"
    BY <1>1, <2>3, <2>5
  <2>7. j \in 3 .. k /\ j - 2 = i + 1 /\ j - 1 = i + 2 /\ j = i + 3 /\ j - 2 \in 1 .. Len(l)
    BY <2>3
  <2>8. LineEnds(l, j)
    BY <2>6, <2>7 DEF LineEnds
  <2> QED BY <2>7, <2>8
<1>4. ASSUME NEW e \in 3 .. k, LineEnds(l, e)
      PROVE  hostHeader \in SubSeqs(s)
  <2> DEFINE i == e - 3
             a == SubSeq(s, i + 1, e)
             U == T \cup {"nl", "host", ":"}
  <2>1. a \in Seq(T) /\ Len(a) = 3
    BY <1>1
  <2>2. a[1] = s[e - 2] /\ a[2] = s[e - 1] /\ a[3] = s[e]
    <3>1. \A m \in 1 .. 3 : a[m] = s[i + m]
      BY <1>1
    <3>2. i + 1 = e - 2 /\ i + 2 = e - 1 /\ i + 3 = e
      OBVIOUS
    <3> HIDE DEF a, i
    <3> QED BY <3>1, <3>2
  <2>3. a[1] = "nl" /\ a[2] = "host" /\ a[3] = ":"
    <3> HIDE DEF a
    <3>1. s[e - 2] = l[e - 2] /\ s[e - 1] = l[e - 1] /\ s[e] = l[e]
      BY <1>1
    <3> QED BY <1>4, <2>2, <3>1 DEF LineEnds
  <2>4. hostHeader \in Seq(U) /\ a \in Seq(U)
    <3>1. hostHeader \in Seq(U)
      BY <1>2, SeqMonotonic
    <3>2. a \in Seq(U)
      <4> HIDE DEF a
      <4> QED BY <2>1, SeqMonotonic
    <3> QED BY <3>1, <3>2
  <2>5. hostHeader = a
    <3> HIDE DEF a, U
    <3>1. \A m \in 1 .. 3 : m = 1 \/ m = 2 \/ m = 3
      OBVIOUS
    <3>2. \A m \in 1 .. Len(a) : hostHeader[m] = a[m]
      BY <1>2, <2>1, <2>3, <3>1
    <3> QED BY <1>2, <2>1, <2>4, <3>2, SeqEqual
  <2>6. i \in 0 .. Len(s) /\ e \in 0 .. Len(s)
    BY <1>1
  <2> HIDE DEF i
  <2> QED BY <2>5, <2>6 DEF SubSeqs
<1>5. hostHeader \in SubSeqs(s) <=> \E i, j \in 0 .. k : hostHeader = SubSeq(s, i + 1, j)
  BY <1>1 DEF SubSeqs
<1> QED BY <1>3, <1>4, <1>5 DEF s

\* the header that httpHost looks for
FirstHeader(l, i) == HeaderAt(l, i) /\ \A j \in 1 .. i - 1 : ~HeaderAt(l, j)

\* hostIndex is where the first line with the header starts, or -1 if there is none
LEMMA HostIndexIs ==
  ASSUME NEW T, NEW l \in Seq(T)
  PROVE  \/ hostIndex(l) = -1 /\ \A i : ~HeaderAt(l, i)
         \/ \E i \in 1 .. Len(l) - 1 : FirstHeader(l, i) /\ hostIndex(l) = i - 1
<1> DEFINE n == Len(l)
<1>1. n \in Nat
  OBVIOUS
<1>2. CASE IsPrefix(hostWord, l)
  <2>1. HeaderAt(l, 1)
    BY <1>2, PrefixIsHeader
  <2>2. FirstHeader(l, 1) /\ 1 \in 1 .. Len(l) - 1
    BY <2>1 DEF FirstHeader, HeaderAt
  <2> QED BY <1>2, <2>2 DEF hostIndex
<1>3. CASE ~IsPrefix(hostWord, l)
  <2>1. ~HeaderAt(l, 1)
    BY <1>3, PrefixIsHeader
  <2>2. \A i : HeaderAt(l, i) <=> i + 1 \in 3 .. n /\ LineEnds(l, i + 1) /\ i \in Nat
    <3> SUFFICES ASSUME NEW i
                 PROVE HeaderAt(l, i) <=> i + 1 \in 3 .. n /\ LineEnds(l, i + 1) /\ i \in Nat
      OBVIOUS
    <3>1. CASE i \in Nat
      <4>1. (i + 1) - 2 = i - 1 /\ (i + 1) - 1 = i
        BY <3>1
      <4>2. LineEnds(l, i + 1) <=> i - 1 \in 1 .. n /\ l[i - 1] = "nl" /\ l[i] = "host" /\ l[i + 1] = ":"
        BY <4>1 DEF LineEnds
      <4>3. HeaderAt(l, i) <=>
              /\ i \in 1 .. n - 1 /\ i # 1 /\ l[i - 1] = "nl" /\ l[i] = "host" /\ l[i + 1] = ":"
        BY <2>1 DEF HeaderAt
      <4> QED BY <1>1, <3>1, <4>2, <4>3
    <3>2. CASE i \notin Nat
      BY <1>1, <3>2 DEF HeaderAt
    <3> QED BY <3>1, <3>2
  <2>3. \A k \in 0 .. n : hostHeader \in SubSeqs(SubSeq(l, 1, k)) <=> \E e \in 3 .. k : LineEnds(l, e)
    BY HeaderInPrefix
  <2>4. SubSeq(l, 1, n) = l
    BY SubSeqFull
  <2>5. hostHeader \in SubSeqs(l) <=> \E e \in 3 .. n : LineEnds(l, e)
    <3> HIDE DEF n
    <3>1. n \in 0 .. n
      BY <1>1
    <3>2. hostHeader \in SubSeqs(SubSeq(l, 1, n)) <=> \E e \in 3 .. n : LineEnds(l, e)
      BY <2>3, <3>1
    <3> QED BY <2>4, <3>2
  <2> HIDE DEF n
  <2>6. CASE hostHeader \notin SubSeqs(l)
    <3>1. hostIndex(l) = -1
      BY <1>3, <2>6 DEF hostIndex
    <3> QED BY <2>2, <2>5, <2>6, <3>1
  <2>7. CASE hostHeader \in SubSeqs(l)
    <3> DEFINE S == {e \in 3 .. n : LineEnds(l, e)}
               Found(k) == /\ hostHeader \in SubSeqs(SubSeq(l, 1, k))
                           /\ \A j \in 0 .. k - 1 : hostHeader \notin SubSeqs(SubSeq(l, 1, j))
    <3>1. S # {} /\ S \subseteq Nat
      BY <2>5, <2>7
    <3>2. PICK e \in S : \A x \in S : e <= x
      <4> HIDE DEF S
      <4> QED BY <3>1, LeastExists
    <3>3. e \in 3 .. n /\ LineEnds(l, e) /\ \A x \in 3 .. n : LineEnds(l, x) => e <= x
      BY <3>2
    <3>4. \A k \in 0 .. n : Found(k) <=> k = e
      <4> SUFFICES ASSUME NEW k \in 0 .. n PROVE Found(k) <=> k = e
        OBVIOUS
      <4>1. \A j \in 0 .. n : hostHeader \in SubSeqs(SubSeq(l, 1, j)) <=> e <= j
        <5> SUFFICES ASSUME NEW j \in 0 .. n
                     PROVE hostHeader \in SubSeqs(SubSeq(l, 1, j)) <=> e <= j
          OBVIOUS
        <5>1. (\E x \in 3 .. j : LineEnds(l, x)) <=> e <= j
          BY <1>1, <3>3
        <5> QED BY <2>3, <5>1
      <4>2. Found(k) <=> e <= k /\ \A j \in 0 .. k - 1 : ~(e <= j)
        BY <1>1, <4>1
      <4> HIDE DEF Found
      <4>3. (e <= k /\ \A j \in 0 .. k - 1 : ~(e <= j)) <=> k = e
        <5>1. CASE e < k
          <6>1. e \in 0 .. k - 1 /\ e <= e
            BY <3>3, <5>1
          <6> QED BY <5>1, <6>1
        <5> QED BY <5>1, <3>3
      <4> QED BY <4>2, <4>3
    <3>5. (CHOOSE k \in 0 .. n : Found(k)) = e
      <4> HIDE DEF Found
      <4>1. e \in 0 .. n /\ Found(e)
        BY <3>3, <3>4, <1>1
      <4> QED BY <3>4, <4>1
    <3>6. IndexFirstSubSeq(hostHeader, l) = (CHOOSE k \in 0 .. n : Found(k)) - (Len(hostHeader) - 1)
      BY DEF IndexFirstSubSeq, n
    <3>7. Len(hostHeader) = 3
      BY DEF hostHeader
    <3>8. hostIndex(l) = e - 2
      <4> HIDE DEF Found
      <4>1. IndexFirstSubSeq(hostHeader, l) = e - 2
        <5> DEFINE c == CHOOSE k \in 0 .. n : Found(k)
        <5>1. IndexFirstSubSeq(hostHeader, l) = c - (3 - 1)
          BY <3>6, <3>7
        <5>2. c = e
          BY <3>5
        <5> HIDE DEF c
        <5>3. c - (3 - 1) = c - 2
          BY <3>3, <5>2
        <5> QED BY <5>1, <5>2, <5>3
      <4>2. hostIndex(l) = IndexFirstSubSeq(hostHeader, l)
        BY <1>3, <2>7 DEF hostIndex
      <4> QED BY <4>1, <4>2
    <3> DEFINE i == e - 1
    <3>9. i \in Nat /\ i + 1 = e /\ i - 1 = e - 2 /\ i \in 1 .. n - 1
      BY <1>1, <3>3
    <3> HIDE DEF i, Found, S
    <3>10. HeaderAt(l, i)
      BY <2>2, <3>3, <3>9
    <3>11. ASSUME NEW j \in 1 .. i - 1, HeaderAt(l, j) PROVE FALSE
      <4>1. j + 1 \in 3 .. n /\ LineEnds(l, j + 1)
        BY <2>2, <3>11
      <4>2. e <= j + 1
        BY <3>3, <4>1
      <4> QED BY <3>9, <4>2, <3>3
    <3> QED BY <3>8, <3>9, <3>10, <3>11 DEF FirstHeader, n
  <2> QED BY <2>6, <2>7
<1> QED BY <1>2, <1>3

\* the loops of httpHost stop at the first of the tokens they look for, or at the end
LEMMA FirstAtIs ==
  ASSUME NEW T, NEW s \in Seq(T), NEW from \in 0 .. Len(s), NEW tokens,
         NEW m \in from .. Len(s), m < Len(s) => s[m + 1] \in tokens,
         \A k \in from .. m - 1 : s[k + 1] \notin tokens
  PROVE  FirstAt(s, from, tokens) = m
<1> DEFINE n == Len(s)
           S == {i \in from .. n : i >= n \/ s[i + 1] \in tokens}
<1>1. n \in Nat /\ from \in Nat /\ from <= n /\ m \in Nat /\ m <= n
  OBVIOUS
<1>2. Max({from, n}) = n
  <2> HIDE DEF n
  <2>1. {from, n} \subseteq Int /\ n \in {from, n} /\ \A x \in {from, n} : x <= n
    BY <1>1
  <2> QED BY <2>1, MaxIs
<1>3. FirstAt(s, from, tokens) = Min(S)
  BY <1>2 DEF FirstAt
<1>4. m \in S /\ S \subseteq Int
  OBVIOUS
<1>5. ASSUME NEW x \in S PROVE m <= x
  <2>1. x \in Int /\ x >= from /\ x <= n
    OBVIOUS
  <2>2. CASE x < m
    <3>1. x \in from .. m - 1
      BY <1>1, <2>1, <2>2
    <3>2. s[x + 1] \notin tokens
      BY <3>1
    <3> QED BY <1>1, <2>1, <2>2, <3>2
  <2> QED BY <1>1, <2>1, <2>2
<1> HIDE DEF S
<1>6. Min(S) = m
  BY <1>4, <1>5, MinIs
<1> QED BY <1>3, <1>6

\* they never pass the end of the payload
LEMMA FirstAtInside ==
  ASSUME NEW T, NEW s \in Seq(T), NEW from \in 0 .. Len(s), NEW tokens
  PROVE  FirstAt(s, from, tokens) \in from .. Len(s)
<1> DEFINE S == {i \in from .. Len(s) : i >= Len(s) \/ s[i + 1] \in tokens}
<1>1. Len(s) \in S /\ S \subseteq Nat
  OBVIOUS
<1>2. PICK m \in S : \A k \in S : m <= k
  <2> HIDE DEF S
  <2> QED BY <1>1, LeastExists
<1>3. m \in from .. Len(s)
  OBVIOUS
<1>4. m < Len(s) => s[m + 1] \in tokens
  OBVIOUS
<1>5. ASSUME NEW k \in from .. m - 1, s[k + 1] \in tokens PROVE FALSE
  <2>1. k \in S
    BY <1>3, <1>5
  <2>2. m <= k
    BY <1>2, <2>1
  <2> QED BY <1>3, <2>2
<1>6. FirstAt(s, from, tokens) = m
  <2> HIDE DEF S
  <2> QED BY <1>3, <1>4, <1>5, FirstAtIs
<1> QED BY <1>3, <1>6

\* HostIndexIs, for the request in place of its lower case
LEMMA HostIndexOf ==
  ASSUME NEW s \in Text, IsASCII(s)
  PROVE  \/ hostIndex(bytesToLower(s)) = -1 /\ \A i : ~HeaderAt(ToLower(s), i)
         \/ \E i \in 1 .. Len(s) - 1 :
              FirstHeader(ToLower(s), i) /\ hostIndex(bytesToLower(s)) = i - 1
<1> DEFINE l == ToLower(s)
           U == {Lower[t] : t \in DOMAIN Lower}
<1>1. bytesToLower(s) = l /\ l \in Seq(U) /\ Len(l) = Len(s)
  BY LowerIsLower
<1> HIDE DEF l, U
<1>2. \/ hostIndex(l) = -1 /\ \A i : ~HeaderAt(l, i)
      \/ \E i \in 1 .. Len(l) - 1 : FirstHeader(l, i) /\ hostIndex(l) = i - 1
  BY <1>1, HostIndexIs
<1> QED BY <1>1, <1>2 DEF l

\* the slice of an ASCII request that httpHost takes is in range
LEMMA HostInRange ==
  ASSUME NEW s \in Text, IsASCII(s)
  PROVE  httpHostInRange(s)
<1> DEFINE x == hostIndex(bytesToLower(s))
<1>1. s \in Seq(DOMAIN Lower) /\ Len(s) \in Nat /\ SpareCap \in Nat
  BY ClassifierAssumption DEF Text
<1> SUFFICES ASSUME x >= 0 PROVE hostStart(s) <= Len(s) + SpareCap
  BY DEF httpHostInRange
<1>2. PICK i \in 1 .. Len(s) - 1 : x = i - 1
  <2>1. x # -1
    OBVIOUS
  <2> HIDE DEF x
  <2> QED BY <2>1, HostIndexOf DEF x
<1>3. x + Len(hostWord) \in 0 .. Len(s)
  <2>1. Len(hostWord) = 2
    BY DEF hostWord
  <2> HIDE DEF x
  <2> QED BY <1>1, <1>2, <2>1
<1>4. hostStart(s) = FirstAt(s, x + Len(hostWord), ToSet(s) \ {" "})
  BY DEF hostStart
<1> HIDE DEF x
<1>5. hostStart(s) \in x + Len(hostWord) .. Len(s)
  BY <1>1, <1>3, <1>4, FirstAtInside
<1> QED BY <1>1, <1>3, <1>5

\* without the header, httpHost is empty
LEMMA NoHostRead ==
  ASSUME NEW s \in Text, IsASCII(s), \A i \in DOMAIN s : ~HeaderAt(ToLower(s), i)
  PROVE  httpHost(s) = << >>
<1>1. DOMAIN s = 1 .. Len(s) /\ Len(s) \in Nat
  BY DEF Text
<1>2. hostIndex(bytesToLower(s)) = -1
  BY <1>1, HostIndexOf DEF FirstHeader
<1> QED BY <1>2 DEF httpHost

\* with it, httpHost is the value of the first one, without its port
LEMMA HostRead ==
  ASSUME NEW s \in Text, IsASCII(s), NEW m \in 0 .. Len(s), NEW n \in 0 .. Len(s), SaysHost(s, m, n)
  PROVE  httpHost(s) = SubSeq(s, m + 1, n)
<1> DEFINE l == ToLower(s)
           x == hostIndex(bytesToLower(s))
<1>1. s \in Seq(DOMAIN Lower) /\ Len(s) \in Nat /\ DOMAIN s = 1 .. Len(s)
  BY DEF Text
<1>2. PICK i \in 1 .. m - 1 :
        /\ FirstHeader(l, i) /\ m <= n /\ \A k \in i + 2 .. m : s[k] = " "
        /\ m < Len(s) => s[m + 1] # " "
        /\ \A k \in m + 1 .. n : s[k] \notin {"nl", " ", ":"}
        /\ n < Len(s) => s[n + 1] \in {"nl", " ", ":"}
  BY DEF SaysHost, FirstHeader
<1>a. i \in Nat /\ i >= 1 /\ i <= m - 1 /\ m \in Nat /\ n \in Nat /\ m <= Len(s) /\ n <= Len(s)
  BY <1>1
<1>b. m <= n /\ (m < Len(s) => s[m + 1] # " ")
  BY <1>2
<1> HIDE DEF l, x
<1>3. x = i - 1
  <2>1. i \in Nat /\ HeaderAt(l, i)
    BY <1>2, <1>a DEF FirstHeader
  <2>2. PICK j \in 1 .. Len(s) - 1 : FirstHeader(l, j) /\ x = j - 1
    BY <2>1, HostIndexOf DEF l, x
  <2>3. ~(i < j) /\ ~(j < i)
    <3>1. j \in Nat /\ j >= 1 /\ HeaderAt(l, j)
      BY <1>1, <2>2 DEF FirstHeader
    <3>2. i < j => i \in 1 .. j - 1
      BY <1>a, <3>1
    <3>3. j < i => j \in 1 .. i - 1
      BY <1>a, <3>1
    <3> QED BY <1>2, <2>1, <2>2, <3>1, <3>2, <3>3 DEF FirstHeader
  <2>4. i = j
    BY <1>1, <1>a, <2>2, <2>3
  <2> QED BY <2>2, <2>4
<1>4. x + Len(hostWord) = i + 1 /\ i + 1 \in 0 .. Len(s) /\ m \in i + 1 .. Len(s)
  <2>1. Len(hostWord) = 2
    BY DEF hostWord
  <2> QED BY <1>1, <1>a, <1>3, <2>1
<1>5. hostStart(s) = m
  <2> DEFINE ink == ToSet(s) \ {" "}
  <2>1. hostStart(s) = FirstAt(s, i + 1, ink)
    BY <1>4 DEF hostStart, x
  <2>2. m < Len(s) => s[m + 1] \in ink
    <3> SUFFICES ASSUME m < Len(s) PROVE s[m + 1] \in ink
      OBVIOUS
    <3>1. m + 1 \in 1 .. Len(s)
      BY <1>1, <1>a
    <3>2. s[m + 1] \in ToSet(s)
      BY <1>1, <3>1 DEF ToSet
    <3> QED BY <1>b, <3>2
  <2>3. ASSUME NEW k \in i + 1 .. m - 1 PROVE s[k + 1] \notin ink
    <3>1. k + 1 \in i + 2 .. m
      BY <1>a
    <3> QED BY <1>2, <3>1
  <2> HIDE DEF ink
  <2>4. FirstAt(s, i + 1, ink) = m
    BY <1>1, <1>4, <2>2, <2>3, FirstAtIs
  <2> QED BY <2>1, <2>4
<1>6. hostEnd(s) = n
  <2> DEFINE stops == {"nl", " ", ":"}
  <2>1. hostEnd(s) = FirstAt(s, m, stops)
    BY <1>5 DEF hostEnd
  <2>2. n < Len(s) => s[n + 1] \in stops
    BY <1>2
  <2>3. ASSUME NEW k \in m .. n - 1 PROVE s[k + 1] \notin stops
    <3>1. k + 1 \in m + 1 .. n
      BY <1>a
    <3> QED BY <1>2, <3>1
  <2>4. n \in m .. Len(s)
    <3>1. m <= n /\ m \in Nat /\ n \in Nat /\ n <= Len(s) /\ Len(s) \in Nat
      BY <1>1, <1>a, <1>b, Zenon
    <3> QED BY <3>1
  <2> HIDE DEF stops
  <2>5. FirstAt(s, m, stops) = n
    BY <1>1, <2>2, <2>3, <2>4, FirstAtIs
  <2> QED BY <2>1, <2>5
<1>7. ~(x < 0) /\ ~(hostStart(s) > Len(s))
  BY <1>a, <1>3, <1>5, <1>1
<1> QED BY <1>5, <1>6, <1>7 DEF httpHost, x

-----------------------------------------------------------------------------
(***************************************************************************)
(* normalizeDomain leaves of every spelling of a name the name itself:     *)
(* strings.TrimSpace takes the blanks, TrimPrefix the scheme and no more,  *)
(* the two cuts the path and the port, TrimSuffix the final dot.           *)
(***************************************************************************)
\* the elements of a slice of a sequence
LEMMA SliceAt ==
  ASSUME NEW T, NEW s \in Seq(T), NEW m \in 0 .. Len(s), NEW n \in m .. Len(s)
  PROVE  /\ SubSeq(s, m + 1, n) \in Seq(T) /\ Len(SubSeq(s, m + 1, n)) = n - m
         /\ DOMAIN SubSeq(s, m + 1, n) = 1 .. n - m
         /\ \A i \in 1 .. n - m : SubSeq(s, m + 1, n)[i] = s[m + i]
<1>1. Len(s) \in Nat /\ m \in Nat /\ n \in Nat /\ m <= n /\ n <= Len(s)
  OBVIOUS
<1>2. \A i \in m + 1 .. n : s[i] \in T
  BY <1>1
<1> DEFINE p == m + 1
           c == SubSeq(s, p, n)
<1>3. p \in Int /\ n \in Int /\ \A i \in p .. n : s[i] \in T
  BY <1>1, <1>2
<1> HIDE DEF p
<1>4. /\ c \in Seq(T) /\ Len(c) = (IF p <= n THEN n - p + 1 ELSE 0)
      /\ \A i \in 1 .. n - p + 1 : c[i] = s[p + i - 1]
  BY <1>3, SubSeqProperties
<1>5. n - p + 1 = n - m /\ (IF p <= n THEN n - p + 1 ELSE 0) = n - m
  BY <1>1 DEF p
<1> HIDE DEF c
<1>6. ASSUME NEW i \in 1 .. n - m PROVE c[i] = s[m + i]
  <2>1. c[i] = s[p + i - 1]
    BY <1>4, <1>5
  <2>2. p + i - 1 = m + i
    BY <1>1 DEF p
  <2> QED BY <2>1, <2>2
<1>7. Len(c) = n - m /\ DOMAIN c = 1 .. n - m
  BY <1>4, <1>5
<1> QED BY <1>4, <1>6, <1>7 DEF c, p

\* TrimSpace takes the blanks around a text that begins and ends with ink
LEMMA TrimIs ==
  ASSUME NEW T, NEW s \in Seq(T), NEW m \in 0 .. Len(s), NEW n \in m .. Len(s),
         Blank(SubSeq(s, 1, m)), Blank(SubSeq(s, n + 1, Len(s))), Inked(SubSeq(s, m + 1, n))
  PROVE  TrimSpace(s) = SubSeq(s, m + 1, n)
<1> DEFINE ink == {i \in DOMAIN s : ~IsSpace(s[i])}
           c == SubSeq(s, m + 1, n)
<1>1. DOMAIN s = 1 .. Len(s) /\ Len(s) \in Nat /\ m \in Nat /\ n \in Nat /\ m <= n /\ n <= Len(s)
  OBVIOUS
<1>2. ASSUME NEW i \in 1 .. m PROVE IsSpace(s[i])
  <2>1. i \in DOMAIN SubSeq(s, 1, m) /\ SubSeq(s, 1, m)[i] = s[i]
    BY <1>1
  <2> QED BY <2>1 DEF Blank
<1>3. ASSUME NEW i \in n + 1 .. Len(s) PROVE IsSpace(s[i])
  <2> DEFINE b == SubSeq(s, n + 1, Len(s))
             j == i - n
  <2>1. DOMAIN b = 1 .. Len(s) - n /\ \A x \in 1 .. Len(s) - n : b[x] = s[n + x]
    <3>1. n \in 0 .. Len(s) /\ Len(s) \in n .. Len(s)
      BY <1>1
    <3> QED BY <3>1, SliceAt
  <2>2. j \in 1 .. Len(s) - n /\ n + j = i
    BY <1>1
  <2> HIDE DEF b, j
  <2>3. j \in DOMAIN b /\ b[j] = s[i]
    BY <2>1, <2>2
  <2> QED BY <2>3 DEF Blank, b
<1>4. \A i \in ink : i \in Int /\ m + 1 <= i /\ i <= n
  <2> SUFFICES ASSUME NEW i \in ink PROVE i \in Int /\ m + 1 <= i /\ i <= n
    OBVIOUS
  <2>1. i \in 1 .. Len(s) /\ ~IsSpace(s[i])
    BY <1>1
  <2>2. i \notin 1 .. m /\ i \notin n + 1 .. Len(s)
    BY <1>2, <1>3, <2>1
  <2> QED BY <1>1, <2>1, <2>2
<1>5. CASE m = n
  <2>1. ink = {}
    <3> HIDE DEF ink
    <3> QED BY <1>1, <1>4, <1>5
  <2>2. c = << >>
    BY <1>1, <1>5, SubSeqEmpty
  <2> HIDE DEF c
  <2> QED BY <2>1, <2>2 DEF TrimSpace, c
<1>6. CASE m < n
  <2>1. c \in Seq(T) /\ Len(c) = n - m /\ c # << >> /\ Head(c) = s[m + 1] /\ Last(c) = s[n]
    <3>1. c \in Seq(T) /\ Len(c) = n - m /\ \A i \in 1 .. n - m : c[i] = s[m + i]
      BY SliceAt
    <3>2. 1 \in 1 .. n - m /\ n - m \in 1 .. n - m /\ m + (n - m) = n
      BY <1>1, <1>6
    <3> HIDE DEF c
    <3>3. c # << >> /\ c[1] = s[m + 1] /\ c[n - m] = s[n]
      BY <3>1, <3>2, <1>1, <1>6
    <3>4. Head(c) = c[1]
      BY <3>1, <3>3
    <3> QED BY <3>1, <3>3, <3>4 DEF Last
  <2>2. ~IsSpace(s[m + 1]) /\ ~IsSpace(s[n])
    BY <2>1 DEF Inked
  <2>3. m + 1 \in ink /\ n \in ink
    BY <1>1, <1>6, <2>2
  <2> HIDE DEF ink, c
  <2>4. ink \subseteq Int
    BY <1>4
  <2>5. Min(ink) = m + 1
    BY <1>4, <2>3, <2>4, MinIs
  <2>6. Max(ink) = n
    BY <1>4, <2>3, <2>4, MaxIs
  <2>7. ink # {}
    BY <2>3
  <2> QED BY <2>5, <2>6, <2>7 DEF TrimSpace, ink
<1> QED BY <1>1, <1>5, <1>6

\* it leaves alone what has no blanks around it
LEMMA InkedStays ==
  ASSUME NEW T, NEW s \in Seq(T), Inked(s)
  PROVE  TrimSpace(s) = s
<1>1. Len(s) \in Nat /\ 0 \in 0 .. Len(s) /\ Len(s) \in 0 .. Len(s)
  OBVIOUS
<1>2. SubSeq(s, 1, 0) = << >> /\ SubSeq(s, Len(s) + 1, Len(s)) = << >>
  BY <1>1, SubSeqEmpty
<1>3. SubSeq(s, 0 + 1, Len(s)) = s
  BY SubSeqFull
<1>4. Blank(<< >>)
  BY DEF Blank
<1> QED BY <1>1, <1>2, <1>3, <1>4, TrimIs

\* Before cuts at the first t, if there is one
LEMMA BeforeIs ==
  ASSUME NEW T, NEW r \in Seq(T), NEW t
  PROVE  \E k \in 0 .. Len(r) : /\ Before(r, t) = SubSeq(r, 1, k)
                                /\ \A i \in 1 .. k : r[i] # t
                                /\ k < Len(r) => r[k + 1] = t
<1> DEFINE I == {i \in 1 .. Len(r) : r[i] = t}
<1>1. Len(r) \in Nat
  OBVIOUS
<1>2. CASE I = {}
  <2>1. ~Contains(r, t)
    BY <1>2 DEF Contains
  <2>2. Before(r, t) = SubSeq(r, 1, Len(r))
    BY <2>1, SubSeqFull DEF Before
  <2> QED BY <1>1, <1>2, <2>2
<1>3. CASE I # {}
  <2>1. I \subseteq Nat
    BY <1>1
  <2>2. PICK e \in I : \A x \in I : e <= x
    <3> HIDE DEF I
    <3> QED BY <1>3, <2>1, LeastExists
  <2>3. Contains(r, t)
    BY <1>3 DEF Contains
  <2>4. Min(I) = e
    <3> HIDE DEF I
    <3> QED BY <2>1, <2>2, MinIs
  <2>5. Before(r, t) = SubSeq(r, 1, e - 1)
    BY <1>3, <2>3, <2>4 DEF Before, SelectInSeq
  <2>6. e \in 1 .. Len(r) /\ r[e] = t
    OBVIOUS
  <2>7. ASSUME NEW i \in 1 .. e - 1 PROVE r[i] # t
    <3>1. i \in 1 .. Len(r) /\ ~(e <= i)
      BY <1>1, <2>6
    <3> QED BY <2>2, <3>1
  <2> DEFINE k == e - 1
  <2>8. k \in 0 .. Len(r) /\ k + 1 = e
    BY <1>1, <2>6
  <2> HIDE DEF k, I
  <2>9. Before(r, t) = SubSeq(r, 1, k) /\ \A i \in 1 .. k : r[i] # t
    BY <2>5, <2>7 DEF k
  <2> QED BY <2>6, <2>8, <2>9
<1> QED BY <1>2, <1>3

\* r is name, d final dots, and a port or a path
Begins(r, name, d) ==
  /\ d \in {0, 1} /\ Len(name) + d <= Len(r)
  /\ \A i \in 1 .. Len(name) : r[i] = name[i]
  /\ d = 1 => r[Len(name) + 1] = "."
  /\ Len(name) + d < Len(r) => r[Len(name) + d + 1] \in {"/", ":"}
  /\ Len(name) + d + 1 < Len(r) /\ r[Len(name) + d + 1] = ":" => r[Len(name) + d + 2] # "/"

\* the tokens of a name: no blank, slash or colon, and no dot at its end
LEMMA NameTokens ==
  ASSUME NEW name, IsName(name)
  PROVE  /\ name \in Text /\ Len(name) \in Nat \ {0} /\ name[Len(name)] # "."
         /\ \A i \in 1 .. Len(name) : name[i] \notin {"/", ":"} /\ ~IsSpace(name[i])
<1>1. name \in Seq(DOMAIN Lower) /\ name # << >> /\ DOMAIN name = 1 .. Len(name)
  BY DEF IsName, Text, Nobody
<1>2. Len(name) \in Nat \ {0}
  BY <1>1
<1> QED BY <1>1, <1>2 DEF IsName, Last, Text

\* what is left of a URL is no URL
LEMMA NoScheme ==
  ASSUME NEW T, NEW r \in Seq(T), NEW name, IsName(name), NEW d, Begins(r, name, d), NEW x
  PROVE  ~IsPrefix(<<x, ":", "/", "/">>, r)
<1> DEFINE p == <<x, ":", "/", "/">>
           a == Len(name)
<1> SUFFICES ASSUME IsPrefix(p, r) PROVE FALSE
  OBVIOUS
<1>1. Len(p) = 4 /\ p[2] = ":" /\ p[3] = "/" /\ p \in Seq({x, ":", "/"})
  OBVIOUS
<1>2. Len(r) \in Nat /\ Len(r) >= 4
  BY <1>1 DEF IsPrefix
<1>3. SubSeq(p, 1, 4) = SubSeq(r, 1, 4)
  <2> HIDE DEF p
  <2> QED BY <1>1 DEF IsPrefix
<1>4. SubSeq(p, 1, 4)[2] = ":" /\ SubSeq(p, 1, 4)[3] = "/"
  <2> HIDE DEF p
  <2> QED BY <1>1
<1>5. SubSeq(r, 1, 4)[2] = r[2] /\ SubSeq(r, 1, 4)[3] = r[3]
  BY <1>2
<1>6. r[2] = ":" /\ r[3] = "/"
  BY <1>3, <1>4, <1>5
<1>7. a \in Nat \ {0} /\ \A i \in 1 .. a : r[i] \notin {"/", ":"}
  BY NameTokens DEF Begins
<1> HIDE DEF a, p
<1>8. a = 1
  <2>1. 2 \notin 1 .. a
    BY <1>6, <1>7
  <2> QED BY <1>7, <2>1
<1>9. d = 0
  <2>1. d = 1 => r[1 + 1] = "."
    BY <1>8 DEF Begins, a
  <2>2. d \in {0, 1}
    BY DEF Begins
  <2> QED BY <1>6, <2>1, <2>2
<1>10. a + d + 1 = 2 /\ a + d + 2 = 3
  BY <1>8, <1>9
<1>11. a + d + 1 < Len(r) /\ r[a + d + 1] = ":" => r[a + d + 2] # "/"
  BY DEF Begins, a
<1> QED BY <1>2, <1>6, <1>10, <1>11

\* a text ends with a token iff it is its last
LEMMA SuffixIs ==
  ASSUME NEW T, NEW z \in Seq(T), Len(z) # 0, NEW t
  PROVE  IsSuffix(<<t>>, z) <=> z[Len(z)] = t
<1> DEFINE U == T \cup {t}
           a == Reverse(<<t>>)
           b == Reverse(z)
           n == Len(z)
<1>1. n \in Nat \ {0} /\ Len(<<t>>) = 1
  OBVIOUS
<1>2. a \in Seq(U) /\ Len(a) = 1 /\ a[1] = t
  BY DEF Reverse
<1>3. b \in Seq(T) /\ Len(b) = n /\ b[1] = z[n]
  <2>1. b = [i \in 1 .. n |-> z[(n - i) + 1]]
    BY DEF Reverse
  <2>2. \A i \in 1 .. n : (n - i) + 1 \in 1 .. n
    BY <1>1
  <2>3. \A i \in 1 .. n : z[(n - i) + 1] \in T
    BY <2>2
  <2> HIDE DEF n, b
  <2>4. b \in [1 .. n -> T]
    BY <2>1, <2>3
  <2>5. b \in Seq(T) /\ Len(b) = n
    BY <1>1, <2>4
  <2>6. b[1] = z[(n - 1) + 1] /\ (n - 1) + 1 = n
    BY <1>1, <2>1
  <2> QED BY <2>5, <2>6
<1> HIDE DEF a, b, n
<1>4. SubSeq(a, 1, 1) = a
  BY <1>2, SubSeqFull
<1>5. SubSeq(b, 1, 1) \in Seq(U) /\ Len(SubSeq(b, 1, 1)) = 1 /\ SubSeq(b, 1, 1)[1] = b[1]
  <2>1. b \in Seq(U)
    BY <1>3, SeqMonotonic
  <2> QED BY <1>1, <1>3, <2>1
<1> DEFINE c == SubSeq(b, 1, 1)
<1> HIDE DEF c, U
<1>6. a = c <=> a[1] = c[1]
  <2>1. ASSUME a[1] = c[1] PROVE a = c
    <3>1. \A i \in 1 .. Len(a) : a[i] = c[i]
      BY <1>2, <2>1
    <3> QED BY <1>2, <1>5, <3>1, SeqEqual DEF c
  <2> QED BY <2>1
<1>7. IsSuffix(<<t>>, z) <=> a = c
  BY <1>1, <1>2, <1>3, <1>4 DEF IsSuffix, IsPrefix, a, b, c
<1> QED BY <1>2, <1>3, <1>5, <1>6, <1>7 DEF c, n

\* the path, the port and the final dot go, and the name stays
LEMMA CutRest ==
  ASSUME NEW T, NEW r \in Seq(T), NEW name, IsName(name), NEW d, Begins(r, name, d)
  PROVE  TrimSuffix(Before(Before(r, "/"), ":"), <<".">>) = name
<1> DEFINE a == Len(name)
           e == a + d
<1>1. /\ a \in Nat \ {0} /\ d \in {0, 1} /\ e \in Nat \ {0} /\ Len(r) \in Nat /\ e <= Len(r)
      /\ \A i \in 1 .. a : r[i] = name[i]
  <2>1. a \in Nat \ {0}
    BY NameTokens
  <2> QED BY <2>1 DEF Begins
<1>2. ASSUME NEW i \in 1 .. e PROVE r[i] \notin {"/", ":"}
  <2>1. CASE i \in 1 .. a
    BY <1>1, <2>1, NameTokens
  <2>2. CASE i \notin 1 .. a
    <3>1. d = 1 /\ i = a + 1
      BY <1>1, <2>2
    <3>2. r[a + 1] = "."
      BY <3>1 DEF Begins
    <3> QED BY <3>1, <3>2
  <2> QED BY <2>1, <2>2
<1>3. /\ e < Len(r) => r[e + 1] \in {"/", ":"}
      /\ d = 1 => r[a + 1] = "."
  BY DEF Begins
<1> HIDE DEF e, a
<1>4. PICK k \in 0 .. Len(r) : /\ Before(r, "/") = SubSeq(r, 1, k)
                               /\ \A i \in 1 .. k : r[i] # "/"
                               /\ k < Len(r) => r[k + 1] = "/"
  BY BeforeIs
<1> DEFINE b == SubSeq(r, 1, k)
<1>5. k >= e
  <2> SUFFICES ASSUME k < e PROVE FALSE
    BY <1>1
  <2>1. k + 1 \in 1 .. e /\ k < Len(r)
    BY <1>1
  <2> QED BY <1>2, <1>4, <2>1
<1>6. b \in Seq(T) /\ Len(b) = k /\ \A i \in 1 .. k : b[i] = r[i]
  BY <1>1
<1> HIDE DEF b
<1>7. PICK j \in 0 .. Len(b) : /\ Before(b, ":") = SubSeq(b, 1, j)
                               /\ \A i \in 1 .. j : b[i] # ":"
                               /\ j < Len(b) => b[j + 1] = ":"
  BY <1>6, BeforeIs
<1>8. j = e
  <2>1. j \in Nat /\ j <= k /\ k \in Nat /\ k <= Len(r)
    BY <1>1, <1>6
  <2>2. ~(j < e)
    <3> SUFFICES ASSUME j < e PROVE FALSE
      OBVIOUS
    <3>1. j + 1 \in 1 .. e /\ j < Len(b) /\ j + 1 \in 1 .. k
      BY <1>1, <1>5, <1>6, <2>1
    <3>2. b[j + 1] = r[j + 1]
      BY <1>6, <3>1
    <3> QED BY <1>2, <1>7, <3>1, <3>2
  <2>3. ~(j > e)
    <3> SUFFICES ASSUME j > e PROVE FALSE
      OBVIOUS
    <3>1. e + 1 \in 1 .. j /\ e + 1 \in 1 .. k /\ e < Len(r)
      BY <1>1, <2>1
    <3>2. r[e + 1] # "/" /\ b[e + 1] # ":" /\ b[e + 1] = r[e + 1]
      BY <1>4, <1>6, <1>7, <3>1
    <3> QED BY <1>3, <3>1, <3>2
  <2> QED BY <1>1, <2>1, <2>2, <2>3
<1> DEFINE z == SubSeq(b, 1, e)
<1>9. z \in Seq(T) /\ Len(z) = e /\ \A i \in 1 .. e : z[i] = r[i]
  <2>1. e <= k /\ k \in Nat /\ e \in Nat
    BY <1>1, <1>5
  <2>2. z \in Seq(T) /\ Len(z) = e /\ \A i \in 1 .. e : z[i] = b[i]
    BY <1>6, <2>1
  <2>3. \A i \in 1 .. e : i \in 1 .. k
    BY <2>1
  <2> HIDE DEF z
  <2> QED BY <1>6, <2>2, <2>3
<1> HIDE DEF z
<1>10. Before(Before(r, "/"), ":") = z
  BY <1>4, <1>7, <1>8 DEF b, z
<1>11. IsSuffix(<<".">>, z) <=> z[e] = "."
  BY <1>1, <1>9, SuffixIs
<1>12. TrimSuffix(z, <<".">>) = SubSeq(z, 1, a)
  <2>1. CASE d = 1
    <3>1. e = a + 1 /\ Len(<<".">>) = 1 /\ Len(z) - 1 = a /\ e \in 1 .. e
      BY <1>1, <1>9, <2>1 DEF e
    <3>2. z[e] = "."
      BY <1>3, <1>9, <2>1, <3>1
    <3> QED BY <1>11, <3>1, <3>2 DEF TrimSuffix
  <2>2. CASE d = 0
    <3>1. e = a /\ e \in 1 .. e
      BY <1>1, <2>2 DEF e
    <3>2. z[e] # "."
      <4>1. z[e] = name[a]
        BY <1>1, <1>9, <3>1
      <4> QED BY <4>1, NameTokens DEF a
    <3>3. SubSeq(z, 1, Len(z)) = z
      BY <1>9, SubSeqFull
    <3> QED BY <1>9, <1>11, <3>1, <3>2, <3>3 DEF TrimSuffix
  <2> QED BY <1>1, <2>1, <2>2
<1>13. SubSeq(z, 1, a) = name
  <2> DEFINE U == T \cup DOMAIN Lower
             y == SubSeq(z, 1, a)
  <2>1. a <= e /\ e \in Nat /\ a \in Nat
    BY <1>1 DEF e
  <2>2. y \in Seq(T) /\ Len(y) = a /\ \A i \in 1 .. a : y[i] = z[i]
    BY <1>9, <2>1
  <2> HIDE DEF y
  <2>3. y \in Seq(U) /\ name \in Seq(U)
    <3>1. y \in Seq(U)
      BY <2>2, SeqMonotonic
    <3>2. name \in Seq(DOMAIN Lower)
      BY NameTokens DEF Text
    <3>3. name \in Seq(U)
      BY <3>2, SeqMonotonic
    <3> QED BY <3>1, <3>3
  <2>4. \A i \in 1 .. a : y[i] = name[i]
    <3>1. \A i \in 1 .. a : i \in 1 .. e
      BY <2>1
    <3> QED BY <1>1, <1>9, <2>2, <3>1
  <2> HIDE DEF U
  <2>5. y = name
    BY <2>2, <2>3, <2>4, SeqEqual DEF a
  <2> QED BY <2>5 DEF y
<1> QED BY <1>10, <1>12, <1>13

\* p is a prefix of q iff q begins with the tokens of p
LEMMA PrefixIs ==
  ASSUME NEW T, NEW p \in Seq(T), NEW q \in Seq(T)
  PROVE  IsPrefix(p, q) <=> Len(p) <= Len(q) /\ \A i \in 1 .. Len(p) : q[i] = p[i]
<1> DEFINE n == Len(p)
           a == SubSeq(p, 1, n)
           b == SubSeq(q, 1, n)
<1>1. n \in Nat /\ Len(q) \in Nat
  OBVIOUS
<1>2. a = p
  BY SubSeqFull
<1>3. CASE n <= Len(q)
  <2>1. b \in Seq(T) /\ Len(b) = n /\ \A i \in 1 .. n : b[i] = q[i]
    BY <1>1, <1>3
  <2> HIDE DEF b, a
  <2>2. p = b <=> \A i \in 1 .. n : q[i] = p[i]
    <3>1. ASSUME \A i \in 1 .. n : q[i] = p[i] PROVE p = b
      <4>1. \A i \in 1 .. Len(p) : p[i] = b[i]
        BY <2>1, <3>1
      <4> QED BY <2>1, <4>1, SeqEqual
    <3> HIDE DEF n
    <3> QED BY <2>1, <3>1
  <2> QED BY <1>2, <1>3, <2>2 DEF IsPrefix, a, b
<1>4. CASE ~(n <= Len(q))
  BY <1>4 DEF IsPrefix
<1> QED BY <1>3, <1>4

\* of the two schemes that are cut one after the other exactly one goes
LEMMA SchemeCut ==
  ASSUME NEW T, NEW q \in Seq(T), {"http", "https", ":", "/"} \subseteq T, NEW scheme \in Schemes,
         IsPrefix(scheme, q), NEW name, IsName(name), NEW d,
         Begins(SubSeq(q, Len(scheme) + 1, Len(q)), name, d)
  PROVE  TrimPrefix(TrimPrefix(q, <<"http", ":", "/", "/">>), <<"https", ":", "/", "/">>)
           = SubSeq(q, Len(scheme) + 1, Len(q))
<1> DEFINE p1 == <<"http", ":", "/", "/">>
           p2 == <<"https", ":", "/", "/">>
           r == SubSeq(q, Len(scheme) + 1, Len(q))
<1>1. p1 \in Seq(T) /\ p2 \in Seq(T) /\ Len(p1) = 4 /\ Len(p2) = 4 /\ p1[1] = "http" /\ p2[1] = "https"
  OBVIOUS
<1>2. Len(scheme) \in Nat /\ Len(scheme) <= Len(q) /\ Len(q) \in Nat
  BY DEF IsPrefix, Schemes
<1>3. r \in Seq(T)
  BY <1>2
<1>4. ~IsPrefix(p1, r) /\ ~IsPrefix(p2, r)
  BY <1>3, NoScheme
<1>5. CASE scheme = << >>
  <2>1. r = q
    BY <1>5, SubSeqFull
  <2> HIDE DEF r, p1, p2
  <2> QED BY <1>4, <2>1 DEF TrimPrefix, r, p1, p2
<1>6. CASE scheme = p1
  <2>1. TrimPrefix(q, p1) = r
    <3> HIDE DEF p1
    <3> QED BY <1>6 DEF TrimPrefix
  <2> HIDE DEF r, p1, p2
  <2> QED BY <1>4, <2>1 DEF TrimPrefix, r, p1, p2
<1>7. CASE scheme = p2
  <2>1. ~IsPrefix(p1, q)
    <3> HIDE DEF p1, p2
    <3>1. q[1] = "https"
      BY <1>1, <1>7, PrefixIs
    <3>2. IsPrefix(p1, q) => q[1] = "http"
      BY <1>1, PrefixIs
    <3> QED BY <3>1, <3>2
  <2>2. TrimPrefix(q, p1) = q
    BY <2>1 DEF TrimPrefix
  <2>3. TrimPrefix(q, p2) = r
    <3> HIDE DEF p2
    <3> QED BY <1>7 DEF TrimPrefix
  <2> HIDE DEF r, p1, p2
  <2> QED BY <2>2, <2>3 DEF r, p1, p2
<1> QED BY <1>5, <1>6, <1>7 DEF Schemes

\* behind its scheme, a text that writes name begins with name
LEMMA StemBegins ==
  ASSUME NEW T, NEW q \in Seq(T), NEW name \in Seq(T), IsName(name),
         NEW scheme \in Seq(T), NEW dot \in {<< >>, <<".">>}, "." \in T,
         IsPrefix(scheme \o name \o dot, q),
         IsRest(SubSeq(q, Len(scheme \o name \o dot) + 1, Len(q)))
  PROVE  /\ IsPrefix(scheme, q)
         /\ Begins(SubSeq(q, Len(scheme) + 1, Len(q)), name, Len(dot))
<1> DEFINE c == Len(scheme)
           a == Len(name)
           d == Len(dot)
           L == Len(q)
           sn == scheme \o name
           stem == sn \o dot
           r == SubSeq(q, c + 1, L)
<1>1. c \in Nat /\ a \in Nat \ {0} /\ d \in {0, 1} /\ L \in Nat /\ dot \in Seq(T)
      /\ (d = 1 => dot[1] = ".")
  <2>1. a \in Nat \ {0}
    BY NameTokens
  <2>2. c \in Nat /\ L \in Nat
    OBVIOUS
  <2>3. << >> \in Seq(T) /\ Len(<< >>) = 0 /\ <<".">> \in Seq(T) /\ Len(<<".">>) = 1 /\ <<".">>[1] = "."
    OBVIOUS
  <2>4. dot = << >> \/ dot = <<".">>
    OBVIOUS
  <2>5. d \in {0, 1} /\ dot \in Seq(T) /\ (d = 1 => dot[1] = ".")
    <3>1. CASE dot = << >>
      BY <2>3, <3>1
    <3>2. CASE dot = <<".">>
      BY <2>3, <3>2
    <3> QED BY <2>4, <3>1, <3>2
  <2> HIDE DEF c, L, a, d
  <2> QED BY <2>1, <2>2, <2>5
<1>2. /\ sn \in Seq(T) /\ Len(sn) = c + a
      /\ \A i \in 1 .. c + a : sn[i] = IF i <= c THEN scheme[i] ELSE name[i - c]
  BY ConcatProperties
<1> HIDE DEF sn
<1>3. /\ stem \in Seq(T) /\ Len(stem) = (c + a) + d
      /\ \A i \in 1 .. (c + a) + d : stem[i] = IF i <= c + a THEN sn[i] ELSE dot[i - (c + a)]
  <2> HIDE DEF c, a
  <2>1. sn \in Seq(T) /\ dot \in Seq(T)
    BY <1>1, <1>2
  <2>2. /\ stem \in Seq(T) /\ Len(stem) = Len(sn) + d
        /\ \A i \in 1 .. Len(sn) + d : stem[i] = IF i <= Len(sn) THEN sn[i] ELSE dot[i - Len(sn)]
    BY <2>1, ConcatProperties
  <2> HIDE DEF stem, d
  <2> QED BY <1>2, <2>2
<1> HIDE DEF stem
<1>4. Len(stem) <= L /\ \A i \in 1 .. Len(stem) : q[i] = stem[i]
  <2>1. IsPrefix(stem, q)
    BY DEF stem, sn
  <2> QED BY <1>3, <2>1, PrefixIs
<1> HIDE DEF c, a, d, L
<1>5. \A i \in 1 .. c : q[i] = scheme[i]
  <2> SUFFICES ASSUME NEW i \in 1 .. c PROVE q[i] = scheme[i]
    OBVIOUS
  <2>1. i \in 1 .. c + a /\ i \in 1 .. (c + a) + d /\ i <= c /\ i <= c + a
    BY <1>1
  <2> QED BY <1>2, <1>3, <1>4, <2>1
<1>6. IsPrefix(scheme, q)
  <2>1. c <= L
    BY <1>1, <1>3, <1>4
  <2> QED BY <1>5, <2>1, PrefixIs DEF c, L
<1>7. r \in Seq(T) /\ Len(r) = L - c /\ \A i \in 1 .. L - c : r[i] = q[c + i]
  <2>1. c \in 0 .. Len(q) /\ L \in c .. Len(q)
    BY <1>1, <1>3, <1>4 DEF L
  <2> QED BY <2>1, SliceAt
<1> HIDE DEF r
<1>8. a + d <= L - c
  BY <1>1, <1>3, <1>4
<1>9. ASSUME NEW i \in 1 .. a PROVE r[i] = name[i]
  <2>1. /\ c + i \in 1 .. c + a /\ c + i \in 1 .. (c + a) + d
        /\ ~(c + i <= c) /\ c + i <= c + a /\ (c + i) - c = i
    BY <1>1
  <2>2. i \in 1 .. L - c
    BY <1>1, <1>8
  <2>3. q[c + i] = name[i]
    BY <1>2, <1>3, <1>4, <2>1
  <2> QED BY <1>7, <2>2, <2>3
<1>10. d = 1 => r[a + 1] = "."
  <2> SUFFICES ASSUME d = 1 PROVE r[a + 1] = "."
    OBVIOUS
  <2>1. /\ c + (a + 1) \in 1 .. (c + a) + d /\ ~(c + (a + 1) <= c + a)
        /\ (c + (a + 1)) - (c + a) = 1 /\ a + 1 \in 1 .. L - c
    BY <1>1, <1>8
  <2>2. q[c + (a + 1)] = dot[1]
    BY <1>3, <1>4, <2>1
  <2> QED BY <1>1, <1>7, <2>1, <2>2
<1> DEFINE e == (c + a) + d
           rest == SubSeq(q, e + 1, L)
<1>11. /\ rest \in Seq(T) /\ Len(rest) = L - e /\ \A i \in 1 .. L - e : rest[i] = q[e + i]
  <2>1. e \in 0 .. Len(q) /\ L \in e .. Len(q)
    BY <1>1, <1>3, <1>4 DEF L
  <2> HIDE DEF e
  <2> QED BY <2>1, SliceAt
<1>12. IsRest(rest)
  BY <1>3 DEF stem, sn, L
<1>13. e \in Nat /\ e = c + (a + d) /\ L - e \in Nat
  BY <1>1, <1>3, <1>4
<1> HIDE DEF e, rest
<1>14. ASSUME a + d < Len(r)
       PROVE  /\ r[a + d + 1] \in {"/", ":"}
              /\ a + d + 1 < Len(r) /\ r[a + d + 1] = ":" => r[a + d + 2] # "/"
  <2>1. 1 \in 1 .. L - e /\ a + d + 1 \in 1 .. L - c /\ c + (a + d + 1) = e + 1
    BY <1>1, <1>7, <1>13, <1>14
  <2>2. r[a + d + 1] = rest[1]
    BY <1>7, <1>11, <2>1
  <2>3. rest # << >> /\ Head(rest) = rest[1]
    BY <1>11, <2>1
  <2>4. rest[1] \in {"/", ":"} /\ (rest[1] = ":" /\ Len(rest) > 1 => rest[2] # "/")
    BY <1>12, <2>3 DEF IsRest
  <2>5. ASSUME a + d + 1 < Len(r)
        PROVE  Len(rest) > 1 /\ r[a + d + 2] = rest[2]
    <3>1. 2 \in 1 .. L - e /\ a + d + 2 \in 1 .. L - c /\ c + (a + d + 2) = e + 2 /\ L - e > 1
      BY <1>1, <1>7, <1>13, <2>5
    <3> QED BY <1>7, <1>11, <3>1
  <2> QED BY <2>2, <2>4, <2>5
<1>15. a + d \in Nat /\ a + d + 1 \in Nat /\ Len(r) \in Nat /\ (a + d + 1 < Len(r) => a + d < Len(r))
  BY <1>1, <1>7, <1>13
<1>16. Begins(r, name, d)
  BY <1>1, <1>7, <1>8, <1>9, <1>10, <1>14, <1>15 DEF Begins, a
<1> QED BY <1>6, <1>16 DEF r, c, d, L

\* normalizeDomain leaves of each way to write a name the name
LEMMA NormalizeWritten ==
  ASSUME NEW s \in Text, NEW name, Writes(s, name)
  PROVE  normalizeDomain(s) = name
<1> DEFINE q == ToLower(s)
           T == {Lower[t] : t \in DOMAIN Lower} \cup DOMAIN Lower \cup {"http", "https", ":", "/", "."}
<1>1. s \in Seq(DOMAIN Lower) /\ DOMAIN s = 1 .. Len(s) /\ Len(s) \in Nat
  BY DEF Text
<1>2. q \in Seq(T) /\ Len(q) = Len(s)
  BY <1>1 DEF ToLower
<1> DEFINE p1 == <<"http", ":", "/", "/">>
           p2 == <<"https", ":", "/", "/">>
<1>3. normalizeDomain(s)
        = TrimSuffix(Before(Before(TrimPrefix(TrimPrefix(TrimSpace(q), p1), p2), "/"), ":"), <<".">>)
  BY DEF normalizeDomain
<1>4. CASE s = << >> /\ name = Nobody
  <2>1. q = << >>
    BY <1>4 DEF ToLower
  <2>2. TrimSpace(q) = << >>
    BY <2>1 DEF TrimSpace
  <2>3. TrimPrefix(<< >>, p1) = << >> /\ TrimPrefix(<< >>, p2) = << >>
    BY DEF TrimPrefix, IsPrefix
  <2>4. Before(<< >>, "/") = << >> /\ Before(<< >>, ":") = << >>
    BY DEF Before, Contains
  <2>5. TrimSuffix(<< >>, <<".">>) = << >>
    BY DEF TrimSuffix, IsSuffix, IsPrefix, Reverse
  <2> HIDE DEF p1, p2, q
  <2> QED BY <1>3, <1>4, <2>2, <2>3, <2>4, <2>5 DEF Nobody
<1>5. CASE ~(s = << >> /\ name = Nobody)
  <2>1. IsName(name) /\ Inked(q)
    BY <1>5 DEF Writes
  <2>2. PICK scheme \in Schemes, dot \in {<< >>, <<".">>} :
           /\ IsPrefix(scheme \o name \o dot, q)
           /\ IsRest(SubSeq(q, Len(scheme \o name \o dot) + 1, Len(q)))
    BY <1>2, <1>5 DEF Writes
  <2>3. name \in Seq(T) /\ scheme \in Seq(T) /\ "." \in T /\ {"http", "https", ":", "/"} \subseteq T
    <3>1. name \in Seq(DOMAIN Lower)
      BY <2>1, NameTokens DEF Text
    <3>2. name \in Seq(T)
      BY <3>1, SeqMonotonic
    <3>3. scheme \in Seq(T)
      <4>1. << >> \in Seq(T) /\ p1 \in Seq(T) /\ p2 \in Seq(T)
        OBVIOUS
      <4> QED BY <4>1 DEF Schemes
    <3> QED BY <3>2, <3>3
  <2> HIDE DEF T, q
  <2> DEFINE r == SubSeq(q, Len(scheme) + 1, Len(q))
  <2>4. IsPrefix(scheme, q) /\ Begins(r, name, Len(dot))
    BY <1>2, <2>1, <2>2, <2>3, StemBegins
  <2>5. TrimSpace(q) = q
    BY <1>2, <2>1, InkedStays
  <2>6. TrimPrefix(TrimPrefix(q, p1), p2) = r
    BY <1>2, <2>1, <2>3, <2>4, SchemeCut
  <2>7. r \in Seq(T)
    <3>1. Len(scheme) \in Nat /\ Len(scheme) <= Len(q)
      BY <2>3, <2>4 DEF IsPrefix
    <3> QED BY <1>2, <3>1
  <2> HIDE DEF r, p1, p2
  <2>8. TrimSuffix(Before(Before(r, "/"), ":"), <<".">>) = name
    BY <2>1, <2>4, <2>7, CutRest
  <2> QED BY <1>3, <2>5, <2>6, <2>8
<1> QED BY <1>4, <1>5

\* a spelling of a name is normalized to it, trimmed before or not
LEMMA SpellsCore ==
  ASSUME NEW s \in Text, NEW name, Spells(s, name)
  PROVE  /\ TrimSpace(s) \in Text /\ Writes(TrimSpace(s), name)
         /\ normalizeDomain(TrimSpace(s)) = name
         /\ normalizeDomain(s) = name
<1>1. s \in Seq(DOMAIN Lower) /\ DOMAIN s = 1 .. Len(s) /\ Len(s) \in Nat
  BY DEF Text
<1>2. PICK m \in 0 .. Len(s), n \in 0 .. Len(s) :
         /\ m <= n /\ Writes(SubSeq(s, m + 1, n), name)
         /\ Blank(SubSeq(s, 1, m)) /\ Blank(SubSeq(s, n + 1, Len(s)))
  BY DEF Spells
<1>3. m \in Nat /\ n \in Nat /\ n \in m .. Len(s) /\ m <= n /\ n <= Len(s)
  BY <1>1, <1>2
<1> DEFINE c == SubSeq(s, m + 1, n)
           q == ToLower(s)
           T == {Lower[t] : t \in DOMAIN Lower}
<1>4. /\ c \in Seq(DOMAIN Lower) /\ Len(c) = n - m /\ DOMAIN c = 1 .. n - m
      /\ \A i \in 1 .. n - m : c[i] = s[m + i]
  BY <1>1, <1>3, SliceAt
<1>5. q \in Seq(T) /\ Len(q) = Len(s) /\ \A i \in 1 .. Len(s) : q[i] = Lower[s[i]]
  BY <1>1 DEF ToLower
<1>6. Inked(c) /\ Inked(ToLower(c))
  <2> HIDE DEF c
  <2>1. CASE c = << >>
    BY <2>1 DEF Inked, ToLower
  <2>2. CASE c # << >>
    BY <1>2, <2>2 DEF Writes, c
  <2> QED BY <2>1, <2>2
<1>7. TrimSpace(s) = c
  <2> HIDE DEF c
  <2> QED BY <1>1, <1>2, <1>3, <1>6, TrimIs DEF c
<1>8. c \in Text /\ normalizeDomain(c) = name
  <2>1. c \in Text
    BY <1>4 DEF Text
  <2> HIDE DEF c
  <2> QED BY <1>2, <2>1, NormalizeWritten DEF c
<1> HIDE DEF q, T
<1> DEFINE k == SubSeq(q, m + 1, n)
<1>9. k = ToLower(c)
  <2>1. /\ k \in Seq(T) /\ Len(k) = n - m
        /\ \A i \in 1 .. n - m : k[i] = q[m + i]
    BY <1>3, <1>5, SliceAt
  <2> HIDE DEF k, c
  <2>2. ToLower(c) = [i \in 1 .. n - m |-> Lower[c[i]]]
    BY <1>4 DEF ToLower
  <2>3. ASSUME NEW i \in 1 .. n - m PROVE k[i] = Lower[c[i]]
    <3>1. m + i \in 1 .. Len(s)
      BY <1>1, <1>3
    <3> QED BY <1>4, <1>5, <2>1, <3>1
  <2>4. k = [i \in 1 .. n - m |-> k[i]]
    BY <2>1, <1>3
  <2> QED BY <2>2, <2>3, <2>4
<1>10. ASSUME NEW i \in 1 .. Len(s), IsSpace(s[i]) PROVE IsSpace(q[i])
  BY <1>1, <1>5, <1>10, LowerAssumption
<1>11. Blank(SubSeq(q, 1, m))
  <2> SUFFICES ASSUME NEW i \in DOMAIN SubSeq(q, 1, m) PROVE IsSpace(SubSeq(q, 1, m)[i])
    BY DEF Blank
  <2>1. i \in 1 .. m /\ SubSeq(q, 1, m)[i] = q[i] /\ i \in 1 .. Len(s)
    BY <1>1, <1>3, <1>5
  <2>2. i \in DOMAIN SubSeq(s, 1, m) /\ SubSeq(s, 1, m)[i] = s[i]
    BY <1>1, <1>3, <2>1
  <2>3. IsSpace(s[i])
    BY <1>2, <2>2 DEF Blank
  <2> QED BY <1>10, <2>1, <2>3
<1>12. Blank(SubSeq(q, n + 1, Len(q)))
  <2> DEFINE u == SubSeq(q, n + 1, Len(q))
             v == SubSeq(s, n + 1, Len(s))
             L == Len(s)
  <2>1. n \in 0 .. L /\ L \in n .. L
    BY <1>1, <1>3
  <2>2. DOMAIN u = 1 .. L - n /\ \A i \in 1 .. L - n : u[i] = q[n + i]
    BY <1>5, <2>1, SliceAt
  <2>3. DOMAIN v = 1 .. L - n /\ \A i \in 1 .. L - n : v[i] = s[n + i]
    BY <1>1, <2>1, SliceAt
  <2> SUFFICES ASSUME NEW i \in DOMAIN u PROVE IsSpace(u[i])
    BY DEF Blank
  <2>4. Blank(v)
    BY <1>2
  <2> HIDE DEF u, v
  <2>5. i \in 1 .. L - n /\ n + i \in 1 .. Len(s)
    BY <1>1, <1>3, <2>2
  <2>6. IsSpace(s[n + i])
    BY <2>3, <2>4, <2>5 DEF Blank
  <2> QED BY <1>10, <2>2, <2>5, <2>6
<1>13. TrimSpace(q) = ToLower(c)
  <2> HIDE DEF c
  <2>1. Inked(k)
    BY <1>6, <1>9
  <2>2. m \in 0 .. Len(q) /\ n \in m .. Len(q)
    BY <1>3, <1>5
  <2>3. TrimSpace(q) = k
    <3> HIDE DEF k
    <3> QED BY <1>5, <1>11, <1>12, <2>1, <2>2, TrimIs DEF k
  <2> QED BY <1>9, <2>3
<1>14. TrimSpace(ToLower(c)) = ToLower(c)
  <2>1. k \in Seq(T)
    BY <1>3, <1>5, SliceAt
  <2> HIDE DEF k, c
  <2> QED BY <1>6, <1>9, <2>1, InkedStays
<1>15. normalizeDomain(s) = normalizeDomain(c)
  <2> HIDE DEF c
  <2> QED BY <1>13, <1>14 DEF normalizeDomain, q
<1> HIDE DEF c
<1> QED BY <1>2, <1>7, <1>8, <1>15 DEF c

\* the domains of a configuration become the names that they mean, and www. variants
LEMMA VariantsMeant ==
  ASSUME NEW items, NEW means, DOMAIN means = DOMAIN items,
         \A i \in DOMAIN items : items[i] \in Text /\ Spells(items[i], means[i])
  PROVE  UNION {domainVariants(d) :
                  d \in dedupeStrings([i \in DOMAIN items |-> TrimSpace(items[i])], << >>)}
           = Blocked(means)
<1> DEFINE trimmed == [i \in DOMAIN items |-> TrimSpace(items[i])]
           D == dedupeStrings(trimmed, << >>)
<1>1. \A d : d \in D <=> d # << >> /\ \E i \in DOMAIN items : d = TrimSpace(items[i])
  BY DEF dedupeStrings, ToSet
<1>2. ASSUME NEW i \in DOMAIN items
      PROVE  /\ TrimSpace(items[i]) = << >> => Variants(means[i]) = {}
             /\ TrimSpace(items[i]) # << >> => domainVariants(TrimSpace(items[i])) = Variants(means[i])
  <2> DEFINE s == TrimSpace(items[i])
             name == means[i]
  <2>1. s \in Text /\ Writes(s, name) /\ normalizeDomain(s) = name
    BY SpellsCore
  <2> HIDE DEF s, name
  <2>2. CASE s = << >>
    <3>1. name = Nobody
      <4>1. normalizeDomain(<< >>) = << >>
        <5>1. << >> \in Text /\ Writes(<< >>, Nobody)
          BY DEF Text, Writes, Nobody
        <5> QED BY <5>1, NormalizeWritten DEF Nobody
      <4> QED BY <2>1, <2>2, <4>1 DEF Nobody
    <3> QED BY <2>2, <3>1 DEF Variants, s, name
  <2>3. CASE s # << >>
    <3>1. name # << >>
      BY <2>1, <2>3, NameTokens DEF Writes, IsName, Nobody
    <3>2. domainVariants(s) = Variants(name)
      BY <2>1, <3>1 DEF domainVariants, Variants, Nobody
    <3> QED BY <2>3, <3>2 DEF s, name
  <2> QED BY <2>2, <2>3
<1> HIDE DEF D
<1>3. \A v : v \in UNION {domainVariants(d) : d \in D} <=> \E i \in DOMAIN items : v \in Variants(means[i])
  <2> SUFFICES ASSUME NEW v
               PROVE  v \in UNION {domainVariants(d) : d \in D}
                        <=> \E i \in DOMAIN items : v \in Variants(means[i])
    OBVIOUS
  <2>1. v \in UNION {domainVariants(d) : d \in D} <=> \E d \in D : v \in domainVariants(d)
    OBVIOUS
  <2>2. ASSUME NEW d \in D, v \in domainVariants(d) PROVE \E i \in DOMAIN items : v \in Variants(means[i])
    BY <1>1, <1>2, <2>2
  <2>3. ASSUME NEW i \in DOMAIN items, v \in Variants(means[i]) PROVE \E d \in D : v \in domainVariants(d)
    BY <1>1, <1>2, <2>3
  <2> QED BY <2>1, <2>2, <2>3
<1>4. \A v : v \in Blocked(means) <=> \E i \in DOMAIN items : v \in Variants(means[i])
  BY DEF Blocked
<1> QED BY <1>3, <1>4 DEF D

-----------------------------------------------------------------------------
(***************************************************************************)
(* The rules for addresses and ports, for addresses of any width.          *)
(***************************************************************************)
\* two addresses are of one host iff they are equal once unmapped
LEMMA SameHostIs ==
  ASSUME NEW a \in Addr, NEW b \in Addr
  PROVE  SameHost(a, b) <=> Unmap(a) = Unmap(b)
<1>1. \A x \in Addr : Unmap(x) = [kind |-> IF x.kind = "6" THEN "6" ELSE "4", bits |-> x.bits]
  BY DEF Unmap, Addr
<1>2. Unmap(a).bits = a.bits /\ Unmap(b).bits = b.bits
      /\ Unmap(a).kind = (IF a.kind = "6" THEN "6" ELSE "4")
      /\ Unmap(b).kind = (IF b.kind = "6" THEN "6" ELSE "4")
  BY <1>1
<1>3. Unmap(a) = Unmap(b) <=> Unmap(a).bits = Unmap(b).bits /\ Unmap(a).kind = Unmap(b).kind
  BY <1>1
<1> QED BY <1>2, <1>3 DEF SameHost

\* unmapping leaves the bits of an address and makes it one of its width
LEMMA AddrBits ==
  ASSUME NEW a, IsAddr(a)
  PROVE  /\ a \in Addr /\ Unmap(a) \in Addr /\ a.bits \in Seq({0, 1}) /\ Len(a.bits) \in Nat
         /\ Unmap(a).bits = a.bits /\ Unmap(a).kind = (IF a.kind = "6" THEN "6" ELSE "4")
         /\ Len(a.bits) = Width[Unmap(a).kind] /\ DOMAIN a.bits = 1 .. Len(a.bits)
<1>1. a \in Addr /\ Len(a.bits) = Width[Unmap(a).kind]
  BY DEF IsAddr
<1>2. Unmap(a) = [kind |-> IF a.kind = "6" THEN "6" ELSE "4", bits |-> a.bits]
  BY <1>1 DEF Unmap, Addr
<1>3. a.bits \in Seq({0, 1})
  BY <1>1 DEF Addr
<1>4. Len(a.bits) \in Nat /\ DOMAIN a.bits = 1 .. Len(a.bits)
  <2> DEFINE b == a.bits
  <2>1. b \in Seq({0, 1})
    BY <1>3
  <2> HIDE DEF b
  <2>2. Len(b) \in Nat /\ DOMAIN b = 1 .. Len(b)
    BY <2>1
  <2> QED BY <2>2 DEF b
<1> QED BY <1>1, <1>2, <1>3, <1>4, UnmapAddr

\* a rule that parses contains exactly the addresses that it means
LEMMA PrefixMeant ==
  ASSUME NEW rule, rule.form \in {"addr", "cidr"}, rule.len \in Nat, IsAddr(rule.addr),
         parseIPPrefix(rule).ok, NEW a, IsAddr(a)
  PROVE  PrefixContains(parseIPPrefix(rule).val, Unmap(Unmap(a))) <=> InNet(rule, a)
<1> DEFINE x == rule.addr
           u == x.bits
           v == a.bits
           p == parseIPPrefix(rule).val
<1>1. /\ u \in Seq({0, 1}) /\ Len(u) \in Nat /\ DOMAIN u = 1 .. Len(u)
      /\ v \in Seq({0, 1}) /\ Len(v) \in Nat /\ DOMAIN v = 1 .. Len(v)
      /\ Unmap(x).bits = u /\ Unmap(x).kind = (IF x.kind = "6" THEN "6" ELSE "4")
      /\ Unmap(a).bits = v /\ Unmap(a).kind = (IF a.kind = "6" THEN "6" ELSE "4")
      /\ Len(u) = Width[Unmap(x).kind] /\ Len(v) = Width[Unmap(a).kind]
      /\ x \in Addr /\ a \in Addr
  BY AddrBits
<1>2. Unmap(Unmap(a)) = Unmap(a)
  BY <1>1, UnmapAddr
<1> HIDE DEF u, v
<1>3. CASE rule.form = "addr"
  <2>1. p = [kind |-> Unmap(x).kind, bits |-> Unmap(x).bits, len |-> Width[Unmap(x).kind]]
    BY <1>3 DEF parseIPPrefix, PrefixFrom, OK
  <2>2. p.kind = Unmap(x).kind /\ p.bits = u /\ p.len = Len(u)
    BY <1>1, <2>1
  <2> HIDE DEF p
  <2>3. PrefixContains(p, Unmap(a)) <=>
          Unmap(x).kind = Unmap(a).kind /\ \A i \in 1 .. Len(u) : u[i] = v[i]
    BY <1>1, <2>2 DEF PrefixContains
  <2>4. Unmap(x).kind = Unmap(a).kind => (u = v <=> \A i \in 1 .. Len(u) : u[i] = v[i])
    <3> SUFFICES ASSUME Unmap(x).kind = Unmap(a).kind, \A i \in 1 .. Len(u) : u[i] = v[i] PROVE u = v
      OBVIOUS
    <3>1. Len(u) = Len(v)
      BY <1>1
    <3> QED BY <1>1, <3>1, SeqEqual
  <2>5. InNet(rule, a) <=> u = v /\ (x.kind = "6") = (a.kind = "6")
    BY <1>3 DEF InNet, SameHost, u, v
  <2>6. Unmap(x).kind = Unmap(a).kind <=> ((x.kind = "6") = (a.kind = "6"))
    BY <1>1
  <2> QED BY <1>2, <2>3, <2>4, <2>5, <2>6 DEF p
<1>4. CASE rule.form = "cidr"
  <2>1. ~(rule.len > Width[x.kind]) /\ Unmap(x) = x
    BY <1>4 DEF parseIPPrefix, Error
  <2>2. p = Masked(PrefixFrom(x, rule.len))
    BY <1>4, <2>1 DEF parseIPPrefix, OK
  <2>3. /\ p.kind = x.kind /\ p.len = rule.len
        /\ p.bits = [i \in DOMAIN u |-> IF i <= rule.len THEN u[i] ELSE 0]
    BY <2>2 DEF Masked, PrefixFrom, u
  <2> HIDE DEF p
  <2> DEFINE n == rule.len
  <2>4. n \in Nat /\ n <= Len(u)
    BY <1>1, <2>1
  <2> HIDE DEF n
  <2>5. \A i \in 1 .. n : p.bits[i] = u[i]
    BY <1>1, <2>3, <2>4 DEF n
  <2>6. PrefixContains(p, Unmap(a)) <=> x.kind = Unmap(a).kind /\ \A i \in 1 .. n : u[i] = v[i]
    BY <1>1, <2>3, <2>5 DEF PrefixContains, n
  <2>7. x.kind = (IF x.kind = "6" THEN "6" ELSE "4")
    BY <1>1, <2>1
  <2>8. x.kind = Unmap(a).kind <=> ((x.kind = "6") = (a.kind = "6"))
    BY <1>1, <2>7
  <2>9. x.kind = Unmap(a).kind => Len(v) = Len(u)
    BY <1>1, <2>1
  <2>10. Len(v) = Len(u) => (SubSeq(u, 1, n) = SubSeq(v, 1, n) <=> \A i \in 1 .. n : u[i] = v[i])
    <3> SUFFICES ASSUME Len(v) = Len(u)
                 PROVE  SubSeq(u, 1, n) = SubSeq(v, 1, n) <=> \A i \in 1 .. n : u[i] = v[i]
      OBVIOUS
    <3> DEFINE f == SubSeq(u, 1, n)
               g == SubSeq(v, 1, n)
    <3>1. /\ f \in Seq({0, 1}) /\ Len(f) = n /\ \A i \in 1 .. n : f[i] = u[i]
          /\ g \in Seq({0, 1}) /\ Len(g) = n /\ \A i \in 1 .. n : g[i] = v[i]
      BY <1>1, <2>4
    <3> HIDE DEF f, g
    <3>2. f = g => \A i \in 1 .. n : u[i] = v[i]
      BY <3>1
    <3>3. ASSUME \A i \in 1 .. n : u[i] = v[i] PROVE f = g
      <4>1. \A i \in 1 .. Len(f) : f[i] = g[i]
        BY <3>1, <3>3
      <4> QED BY <3>1, <4>1, SeqEqual
    <3> QED BY <3>2, <3>3 DEF f, g
  <2>11. InNet(rule, a) <=> (x.kind = "6") = (a.kind = "6") /\ SubSeq(u, 1, n) = SubSeq(v, 1, n)
    BY <1>4 DEF InNet, u, v, n
  <2> QED BY <1>2, <2>6, <2>8, <2>9, <2>10, <2>11 DEF p
<1> QED BY <1>3, <1>4

-----------------------------------------------------------------------------
(***************************************************************************)
(* compileRuleSet: each set of rules holds what the configuration means.   *)
(***************************************************************************)
\* the parsed rules of a configuration, and the names of its domains
ParsedIPs(c) ==
  {parseIPPrefix(x) : x \in dedupeStrings([i \in DOMAIN c.ips |-> TrimIP(c.ips[i])], BlankIP)}

ParsedPorts(c) == {parseIPPortRule(x) : x \in ToSet(c.ipPorts)}

VariantsOf(items) ==
  UNION {domainVariants(d) : d \in dedupeStrings([i \in DOMAIN items |-> TrimSpace(items[i])], << >>)}

\* what compileRuleSet returns when no rule is in error
LEMMA CompiledIs ==
  ASSUME NEW c, compileRuleSet(c).ok
  PROVE  /\ Error \notin ParsedIPs(c) /\ Error \notin ParsedPorts(c)
         /\ compileRuleSet(c).val.Prefixes = {x.val : x \in ParsedIPs(c)}
         /\ compileRuleSet(c).val.IPPorts = {x.val : x \in ParsedPorts(c)}
         /\ compileRuleSet(c).val.Domains = VariantsOf(c.domains)
         /\ compileRuleSet(c).val.DNSPoisonDomains = VariantsOf(c.dnsPoisonDomains)
<1>1. compileRuleSet(c) =
        IF Error \in ParsedIPs(c) \cup ParsedPorts(c) THEN Error
        ELSE OK([Domains          |-> VariantsOf(c.domains),
                 DNSPoisonDomains |-> VariantsOf(c.dnsPoisonDomains),
                 Prefixes         |-> {x.val : x \in ParsedIPs(c)},
                 IPPorts          |-> {x.val : x \in ParsedPorts(c)}])
  BY DEF compileRuleSet, ParsedIPs, ParsedPorts, VariantsOf
<1>2. Error \notin ParsedIPs(c) \cup ParsedPorts(c)
  BY <1>1 DEF Error
<1> QED BY <1>1, <1>2 DEF OK

\* the domains that it compiles are the names that the configuration blocks
LEMMA NamesMeant ==
  ASSUME NEW c \in RuleConfig, compileRuleSet(c).ok
  PROVE  /\ compileRuleSet(c).val.Domains = Blocked(c.means)
         /\ compileRuleSet(c).val.DNSPoisonDomains = Blocked(c.poisonMeans)
<1>1. /\ DOMAIN c.means = DOMAIN c.domains /\ DOMAIN c.poisonMeans = DOMAIN c.dnsPoisonDomains
      /\ \A i \in DOMAIN c.domains : c.domains[i] \in Text /\ Spells(c.domains[i], c.means[i])
      /\ \A i \in DOMAIN c.dnsPoisonDomains :
           c.dnsPoisonDomains[i] \in Text /\ Spells(c.dnsPoisonDomains[i], c.poisonMeans[i])
  BY ConfigAssumption
<1>2. VariantsOf(c.domains) = Blocked(c.means)
  BY <1>1, VariantsMeant DEF VariantsOf
<1>3. VariantsOf(c.dnsPoisonDomains) = Blocked(c.poisonMeans)
  BY <1>1, VariantsMeant DEF VariantsOf
<1> QED BY <1>2, <1>3, CompiledIs

\* an address matches iff it is in one of the networks of the configuration
LEMMA IPsMeant ==
  ASSUME NEW c \in RuleConfig, compileRuleSet(c).ok, NEW a, IsAddr(a)
  PROVE  matchIP(compileRuleSet(c).val, Unmap(a)) <=> \E rule \in ToSet(c.ips) : InNet(rule, a)
<1> DEFINE trimmed == [i \in DOMAIN c.ips |-> TrimIP(c.ips[i])]
           D == dedupeStrings(trimmed, BlankIP)
           Holds(x) == PrefixContains(parseIPPrefix(x).val, Unmap(Unmap(a)))
<1>1. \A x : x \in D <=> x # BlankIP /\ \E rule \in ToSet(c.ips) : x = TrimIP(rule)
  BY DEF dedupeStrings, ToSet
<1>2. matchIP(compileRuleSet(c).val, Unmap(a)) <=> \E x \in D : Holds(x)
  <2>1. compileRuleSet(c).val.Prefixes = {x.val : x \in {parseIPPrefix(y) : y \in D}}
    BY CompiledIs DEF ParsedIPs
  <2> HIDE DEF D
  <2> QED BY <2>1 DEF matchIP
<1>3. \A x \in D : parseIPPrefix(x) # Error
  <2>1. Error \notin {parseIPPrefix(y) : y \in D}
    BY CompiledIs DEF ParsedIPs
  <2> HIDE DEF D
  <2> QED BY <2>1
<1> HIDE DEF D
<1>4. ASSUME NEW rule \in ToSet(c.ips)
      PROVE  /\ TrimIP(rule) = BlankIP => ~InNet(rule, a)
             /\ TrimIP(rule) # BlankIP => (Holds(TrimIP(rule)) <=> InNet(rule, a))
  <2>1. rule \in IPRule /\ IsAddr(rule.addr)
    BY ConfigAssumption
  <2>2. CASE rule.form = "blank"
    BY <2>2 DEF TrimIP, InNet
  <2>3. CASE rule.form # "blank"
    <3> DEFINE x == TrimIP(rule)
    <3>1. x.form = rule.form /\ x.addr = rule.addr /\ x.len = rule.len /\ x.len \in Nat
      BY <2>1, <2>3 DEF TrimIP, IPRule
    <3>2. x # BlankIP
      BY <2>3, <3>1 DEF BlankIP
    <3> HIDE DEF x
    <3>3. x \in D
      BY <1>1, <3>2 DEF x
    <3>4. parseIPPrefix(x) # Error
      BY <1>3, <3>3
    <3>5. x.form \in {"addr", "cidr"} /\ parseIPPrefix(x).ok
      BY <3>4 DEF parseIPPrefix, OK
    <3>6. Holds(x) <=> InNet(x, a)
      BY <2>1, <3>1, <3>5, PrefixMeant
    <3>7. InNet(x, a) <=> InNet(rule, a)
      BY <3>1 DEF InNet
    <3> QED BY <3>2, <3>6, <3>7 DEF x
  <2> QED BY <2>2, <2>3
<1> HIDE DEF Holds
<1>5. (\E x \in D : Holds(x)) <=> \E rule \in ToSet(c.ips) : InNet(rule, a)
  BY <1>1, <1>4
<1> QED BY <1>2, <1>5

\* an address and port match iff a rule of the configuration names them
LEMMA PortsMeant ==
  ASSUME NEW c \in RuleConfig, compileRuleSet(c).ok, NEW a, IsAddr(a), NEW port,
         NEW l4 \in {"tcp", "udp"}
  PROVE  matchIPPort(compileRuleSet(c).val, Unmap(a), port, IF l4 = "tcp" THEN protoTCP ELSE protoUDP)
           <=> \E rule \in ToSet(c.ipPorts) : PortMatch(rule, a, port, l4)
<1> DEFINE D == ToSet(c.ipPorts)
           proto == IF l4 = "tcp" THEN protoTCP ELSE protoUDP
           key == [addr |-> Unmap(Unmap(a)), port |-> port, proto |-> proto]
<1>1. matchIPPort(compileRuleSet(c).val, Unmap(a), port, proto) <=> \E x \in D : parseIPPortRule(x).val = key
  <2>1. compileRuleSet(c).val.IPPorts = {x.val : x \in {parseIPPortRule(y) : y \in D}}
    BY CompiledIs DEF ParsedPorts
  <2> HIDE DEF D, proto
  <2> QED BY <2>1 DEF matchIPPort
<1>2. \A x \in D : parseIPPortRule(x) # Error
  <2>1. Error \notin {parseIPPortRule(y) : y \in D}
    BY CompiledIs DEF ParsedPorts
  <2> HIDE DEF D
  <2> QED BY <2>1
<1>3. Unmap(Unmap(a)) = Unmap(a) /\ a \in Addr
  BY AddrBits, UnmapAddr
<1>4. ASSUME NEW x \in D PROVE parseIPPortRule(x).val = key <=> PortMatch(x, a, port, l4)
  <2>1. x.addr \in Addr
    BY ConfigAssumption DEF IsAddr
  <2>2. parseProto(x.proto).ok
    BY <1>2 DEF parseIPPortRule
  <2>3. parseIPPortRule(x).val = [addr |-> Unmap(x.addr), port |-> x.port, proto |-> parseProto(x.proto).val]
    BY <1>2 DEF parseIPPortRule, OK
  <2>4. parseProto(x.proto).val = proto <=> (IF x.proto = "" THEN "tcp" ELSE x.proto) = l4
    <3>1. CASE x.proto \in {"", "tcp"}
      <4>1. parseProto(x.proto).val = protoTCP
        BY <3>1 DEF parseProto, OK
      <4>2. proto = protoTCP <=> l4 = "tcp"
        BY DEF protoTCP, protoUDP
      <4> QED BY <3>1, <4>1, <4>2
    <3>2. CASE x.proto = "udp"
      <4>1. parseProto(x.proto).val = protoUDP
        BY <3>2 DEF parseProto, OK
      <4>2. proto = protoUDP <=> l4 = "udp"
        BY DEF protoTCP, protoUDP
      <4> QED BY <3>2, <4>1, <4>2
    <3>3. CASE x.proto \notin {"", "tcp", "udp"}
      BY <2>2, <3>3 DEF parseProto, Error
    <3> QED BY <3>1, <3>2, <3>3
  <2> HIDE DEF proto
  <2>5. parseIPPortRule(x).val = key <=>
          Unmap(x.addr) = Unmap(a) /\ x.port = port /\ parseProto(x.proto).val = proto
    BY <1>3, <2>3
  <2>6. SameHost(x.addr, a) <=> Unmap(x.addr) = Unmap(a)
    BY <1>3, <2>1, SameHostIs
  <2> QED BY <2>4, <2>5, <2>6 DEF PortMatch
<1> HIDE DEF D, key
<1>5. (\E x \in D : parseIPPortRule(x).val = key) <=> \E x \in D : PortMatch(x, a, port, l4)
  BY <1>4
<1> QED BY <1>1, <1>5 DEF D

-----------------------------------------------------------------------------
(***************************************************************************)
(* Classify drops what the configuration means, and nothing else.          *)
(***************************************************************************)
\* no rule stands for the empty name
LEMMA NobodyFree == ASSUME NEW names PROVE Nobody \notin Blocked(names)
<1>1. ASSUME NEW name PROVE Nobody \notin Variants(name)
  <2>1. ASSUME NEW x PROVE www \o x # Nobody
    BY DEF www, Nobody
  <2> QED BY <2>1 DEF Variants
<1> QED BY <1>1 DEF Blocked

\* nothing spells the empty name only
LEMMA NothingSpells == ASSUME NEW name, Spells(<< >>, name) PROVE name = Nobody
<1>1. << >> \in Text /\ Len(<< >>) = 0
  BY DEF Text
<1>2. Spells(<< >>, Nobody)
  <2>1. SubSeq(<< >>, 1, 0) = << >>
    BY DEF Text
  <2>2. Writes(<< >>, Nobody) /\ Blank(<< >>)
    BY DEF Writes, Blank
  <2>3. /\ 0 \in 0 .. Len(<< >>) /\ 0 <= 0 /\ SubSeq(<< >>, 0 + 1, 0) = << >>
        /\ SubSeq(<< >>, 0 + 1, Len(<< >>)) = << >>
    BY <1>1, <2>1
  <2> QED BY <2>1, <2>2, <2>3 DEF Spells
<1>3. normalizeDomain(<< >>) = Nobody
  BY <1>1, <1>2, SpellsCore
<1>4. normalizeDomain(<< >>) = name
  BY <1>1, SpellsCore
<1> QED BY <1>3, <1>4

\* looking a spelling up decides for the name that it spells
LEMMA NameDecides ==
  ASSUME NEW text \in Text, NEW name, Spells(text, name), NEW names
  PROVE  text # NoName /\ normalizeDomain(text) \in Blocked(names) <=> name \in Blocked(names)
<1>1. normalizeDomain(text) = name
  BY SpellsCore
<1>2. CASE text = << >>
  <2>1. name = Nobody
    BY <1>2, NothingSpells
  <2> QED BY <1>2, <2>1, NobodyFree DEF NoName
<1> QED BY <1>1, <1>2 DEF NoName

\* what httpHost reads from an ASCII request is what the request asks for
LEMMA HostDecides ==
  ASSUME NEW s \in Text, IsASCII(s), NEW name, AsksHTTP(s, name), NEW names
  PROVE  httpHost(s) # NoName /\ normalizeDomain(httpHost(s)) \in Blocked(names) <=> name \in Blocked(names)
<1>1. CASE \E i \in DOMAIN s : HeaderAt(ToLower(s), i)
  <2>1. PICK m \in 0 .. Len(s), n \in 0 .. Len(s) : SaysHost(s, m, n) /\ Spells(SubSeq(s, m + 1, n), name)
    BY <1>1 DEF AsksHTTP
  <2>2. httpHost(s) = SubSeq(s, m + 1, n)
    BY <2>1, HostRead
  <2>3. SubSeq(s, m + 1, n) \in Text
    BY DEF Text
  <2> QED BY <2>1, <2>2, <2>3, NameDecides
<1>2. CASE \A i \in DOMAIN s : ~HeaderAt(ToLower(s), i)
  <2>1. name = Nobody
    BY <1>2 DEF AsksHTTP
  <2>2. httpHost(s) = << >>
    BY <1>2, NoHostRead
  <2> QED BY <2>1, <2>2, NobodyFree DEF NoName
<1> QED BY <1>1, <1>2

\* every rule for a port that compiles is for TCP or UDP
LEMMA PortRulesAreTCPOrUDP ==
  ASSUME NEW c, compileRuleSet(c).ok, NEW rule \in ToSet(c.ipPorts)
  PROVE  rule.proto \in {"", "tcp", "udp"}
<1>1. parseIPPortRule(rule) # Error
  <2>1. parseIPPortRule(rule) \in ParsedPorts(c)
    BY DEF ParsedPorts
  <2> QED BY <2>1, CompiledIs
<1>2. parseProto(rule.proto).ok
  BY <1>1 DEF parseIPPortRule
<1> QED BY <1>2 DEF parseProto, Error

\* classifyTCP drops exactly the segments that the configuration means
LEMMA TCPDecides ==
  ASSUME NEW c \in RuleConfig, compileRuleSet(c).ok, NEW mode, NEW p \in Packet, IsIP(p),
         IsHTTP(p) => IsASCII(p.payload), p.l4 = "tcp"
  PROVE  (classifyTCP(newPacketClassifier(compileRuleSet(c).val, mode), p,
                      Unmap(p.src), Unmap(p.dst)).kind = "drop")
           <=> \/ \E rule \in ToSet(c.ipPorts) :
                    PortMatch(rule, p.src, p.sport, p.l4) \/ PortMatch(rule, p.dst, p.dport, p.l4)
               \/ p.dport \in {80, 443} /\ p.names \in Blocked(c.means)
<1> DEFINE r == compileRuleSet(c).val
           e == newPacketClassifier(r, mode)
           src == Unmap(p.src)
           dst == Unmap(p.dst)
           port == matchIPPort(r, src, p.sport, protoTCP) \/ matchIPPort(r, dst, p.dport, protoTCP)
           http == httpHost(p.payload) # NoName /\ matchDomain(r, httpHost(p.payload))
           tls == p.payload # NoName /\ matchDomain(r, p.payload)
           named == p.names \in Blocked(c.means)
<1>1. e.rules = r
  BY DEF newPacketClassifier
<1>2. /\ IsAddr(p.src) /\ IsAddr(p.dst) /\ p.payload \in Text
      /\ p.dport = 80 => IsASCII(p.payload) /\ AsksHTTP(p.payload, p.names)
      /\ p.dport = 443 => Spells(p.payload, p.names)
  BY NameAssumption DEF IsHTTP
<1>3. port <=> \E rule \in ToSet(c.ipPorts) :
                 PortMatch(rule, p.src, p.sport, p.l4) \/ PortMatch(rule, p.dst, p.dport, p.l4)
  <2>1. matchIPPort(r, src, p.sport, protoTCP)
          <=> \E rule \in ToSet(c.ipPorts) : PortMatch(rule, p.src, p.sport, "tcp")
    BY <1>2, PortsMeant
  <2>2. matchIPPort(r, dst, p.dport, protoTCP)
          <=> \E rule \in ToSet(c.ipPorts) : PortMatch(rule, p.dst, p.dport, "tcp")
    BY <1>2, PortsMeant
  <2> QED BY <2>1, <2>2
<1>4. p.dport = 80 => (http <=> named)
  BY <1>2, HostDecides, NamesMeant DEF matchDomain
<1>5. p.dport = 443 => (tls <=> named)
  BY <1>2, NameDecides, NamesMeant DEF matchDomain
<1>6. classifyTCP(e, p, src, dst) =
        IF port THEN Drop("ipPort") ELSE IF p.dport = 80 /\ http THEN Drop("http")
        ELSE IF p.dport = 443 /\ tls THEN Drop("tls") ELSE Accept("none")
  BY <1>1 DEF classifyTCP
<1>7. (classifyTCP(e, p, src, dst).kind = "drop") <=> port \/ (p.dport = 80 /\ http) \/ (p.dport = 443 /\ tls)
  BY <1>6 DEF Drop, Accept
<1>8. (classifyTCP(e, p, src, dst).kind = "drop") <=> port \/ (p.dport \in {80, 443} /\ named)
  BY <1>4, <1>5, <1>7
<1> QED BY <1>3, <1>8

\* classifyUDP drops exactly the datagrams that the configuration means
LEMMA UDPDecides ==
  ASSUME NEW c \in RuleConfig, compileRuleSet(c).ok, NEW mode, NEW p \in Packet, IsIP(p), p.l4 = "udp"
  PROVE  (classifyUDP(newPacketClassifier(compileRuleSet(c).val, mode), p,
                      Unmap(p.src), Unmap(p.dst)).kind = "drop")
           <=> \/ \E rule \in ToSet(c.ipPorts) :
                    PortMatch(rule, p.src, p.sport, p.l4) \/ PortMatch(rule, p.dst, p.dport, p.l4)
               \/ p.dport = 53 /\ p.names \in Blocked(c.poisonMeans)
<1> DEFINE r == compileRuleSet(c).val
           e == newPacketClassifier(r, mode)
           src == Unmap(p.src)
           dst == Unmap(p.dst)
           port == matchIPPort(r, src, p.sport, protoUDP) \/ matchIPPort(r, dst, p.dport, protoUDP)
           q == parseDNSQuery(p.dns)
           poisoned == q.ok /\ matchDNSPoison(r, q.qname)
           named == p.names \in Blocked(c.poisonMeans)
<1>1. e.rules = r
  BY DEF newPacketClassifier
<1>2. /\ IsAddr(p.src) /\ IsAddr(p.dst)
      /\ p.dport = 53 => p.dns.questions \in Seq(Text) /\ AsksDNS(p.dns, p.names)
  BY NameAssumption
<1>3. port <=> \E rule \in ToSet(c.ipPorts) :
                 PortMatch(rule, p.src, p.sport, p.l4) \/ PortMatch(rule, p.dst, p.dport, p.l4)
  <2>1. matchIPPort(r, src, p.sport, protoUDP)
          <=> \E rule \in ToSet(c.ipPorts) : PortMatch(rule, p.src, p.sport, "udp")
    BY <1>2, PortsMeant
  <2>2. matchIPPort(r, dst, p.dport, protoUDP)
          <=> \E rule \in ToSet(c.ipPorts) : PortMatch(rule, p.dst, p.dport, "udp")
    BY <1>2, PortsMeant
  <2> QED BY <2>1, <2>2
<1>4. ASSUME p.dport = 53 PROVE poisoned <=> named
  <2>1. p.dns.questions \in Seq(Text) /\ AsksDNS(p.dns, p.names)
    BY <1>2, <1>4
  <2>2. CASE p.dns.decodes /\ ~p.dns.qr /\ p.dns.questions # << >>
    <3>1. q.ok /\ q.qname = Head(p.dns.questions)
      BY <2>2 DEF parseDNSQuery
    <3>2. Head(p.dns.questions) \in Text /\ Spells(Head(p.dns.questions), p.names)
      BY <2>1, <2>2 DEF AsksDNS
    <3>3. normalizeDomain(Head(p.dns.questions)) = p.names
      BY <3>2, SpellsCore
    <3>4. r.DNSPoisonDomains = Blocked(c.poisonMeans)
      BY NamesMeant
    <3> HIDE DEF q, r
    <3> QED BY <3>1, <3>3, <3>4 DEF matchDNSPoison
  <2>3. CASE ~(p.dns.decodes /\ ~p.dns.qr /\ p.dns.questions # << >>)
    <3>1. ~q.ok
      BY <2>3 DEF parseDNSQuery
    <3>2. p.names = Nobody
      BY <2>1, <2>3 DEF AsksDNS
    <3> QED BY <3>1, <3>2, NobodyFree
  <2> QED BY <2>2, <2>3
<1>5. classifyUDP(e, p, src, dst) =
        IF port THEN Drop("ipPort") ELSE IF p.dport # 53 THEN Accept("none")
        ELSE IF ~q.ok \/ ~matchDNSPoison(r, q.qname) THEN Accept("none")
        ELSE IF e.dnsMode = "drop" \/ ~p.dns.serializes THEN Drop("dnsDrop") ELSE Drop("dnsPoison")
  BY <1>1 DEF classifyUDP
<1>6. classifyUDP(e, p, src, dst) =
        IF port THEN Drop("ipPort") ELSE IF p.dport # 53 THEN Accept("none")
        ELSE IF ~poisoned THEN Accept("none")
        ELSE IF e.dnsMode = "drop" \/ ~p.dns.serializes THEN Drop("dnsDrop") ELSE Drop("dnsPoison")
  BY <1>5
<1>7. (classifyUDP(e, p, src, dst).kind = "drop") <=> port \/ (p.dport = 53 /\ poisoned)
  BY <1>6 DEF Drop, Accept
<1>8. (classifyUDP(e, p, src, dst).kind = "drop") <=> port \/ (p.dport = 53 /\ named)
  BY <1>4, <1>7
<1> QED BY <1>3, <1>8

\* so does Classify with the packets, whether they parse or not
LEMMA DropsMeant ==
  ASSUME NEW c \in RuleConfig, compileRuleSet(c).ok, NEW mode, NEW p \in Packet,
         IsHTTP(p) => IsASCII(p.payload)
  PROVE  (Classify(newPacketClassifier(compileRuleSet(c).val, mode), p).kind = "drop") <=> MustBlock(c, p)
<1> DEFINE r == compileRuleSet(c).val
           e == newPacketClassifier(r, mode)
           src == Unmap(p.src)
           dst == Unmap(p.dst)
           net == \E rule \in ToSet(c.ips) : InNet(rule, p.src) \/ InNet(rule, p.dst)
           port == \E rule \in ToSet(c.ipPorts) :
                     PortMatch(rule, p.src, p.sport, p.l4) \/ PortMatch(rule, p.dst, p.dport, p.l4)
           named == p.names \in Blocked(c.means)
           poisoned == p.names \in Blocked(c.poisonMeans)
<1>1. CASE ~IsIP(p)
  BY <1>1 DEF IsIP, MustBlock, Classify, classifyIP, Accept
<1>2. CASE IsIP(p)
  <2>1. IsAddr(p.src) /\ IsAddr(p.dst)
    BY <1>2, NameAssumption
  <2>2. matchIP(r, src) \/ matchIP(r, dst) <=> net
    BY <2>1, IPsMeant
  <2>3. e.rules = r
    BY DEF newPacketClassifier
  <2>4. Classify(e, p) =
          IF matchIP(r, src) \/ matchIP(r, dst) THEN Drop("ip")
          ELSE CASE p.l4 = "tcp" -> classifyTCP(e, p, src, dst)
                 [] p.l4 = "udp" -> classifyUDP(e, p, src, dst)
                 [] OTHER        -> Accept("none")
    BY <1>2, <2>3 DEF IsIP, Classify, classifyIP
  <2>5. MustBlock(c, p) <=>
          \/ net \/ port
          \/ p.l4 = "tcp" /\ p.dport \in {80, 443} /\ named
          \/ p.l4 = "udp" /\ p.dport = 53 /\ poisoned
    BY <1>2 DEF MustBlock
  <2>6. p.l4 = "tcp" =>
          ((classifyTCP(e, p, src, dst).kind = "drop") <=> port \/ (p.dport \in {80, 443} /\ named))
    BY <1>2, TCPDecides
  <2>7. p.l4 = "udp" =>
          ((classifyUDP(e, p, src, dst).kind = "drop") <=> port \/ (p.dport = 53 /\ poisoned))
    BY <1>2, UDPDecides
  <2>8. p.l4 \notin {"tcp", "udp"} => ~port
    BY PortRulesAreTCPOrUDP DEF PortMatch
  <2>9. Drop("ip").kind = "drop" /\ Accept("none").kind # "drop"
    BY DEF Drop, Accept
  <2>10. CASE p.l4 = "tcp"
    BY <2>2, <2>4, <2>5, <2>6, <2>9, <2>10
  <2>11. CASE p.l4 = "udp"
    BY <2>2, <2>4, <2>5, <2>7, <2>9, <2>11
  <2>12. CASE p.l4 \notin {"tcp", "udp"}
    BY <2>2, <2>4, <2>5, <2>8, <2>9, <2>12
  <2> QED BY <2>10, <2>11, <2>12
<1> QED BY <1>1, <1>2

(***************************************************************************)
(* The classifier holds the rules of the configuration, and the verdict is *)
(* its verdict on the packet: the last conjunct is what the theorems need, *)
(* the others keep it, and VerdictInv that an answer comes from a query.   *)
(***************************************************************************)
LoadedInv ==
  /\ VerdictInv
  /\ conf \in RuleConfig
  /\ engine.ok => /\ compileRuleSet(conf).ok
                  /\ engine.val = newPacketClassifier(compileRuleSet(conf).val, conf.dnsMode)
  /\ pkt = NoPacket \/ pkt \in Packet \/ pkt.l4 = "udp"
  /\ pkt # NoPacket /\ query = NoPacket =>
       engine.ok /\ pkt \in Packet /\ verdict = Classify(engine.val, pkt)

\* the inductive step of both theorems below
LEMMA LoadedInvStep ==
  ASSUME LoadedInv, [Next]_vars
  PROVE  LoadedInv'
<1> USE DEF LoadedInv
<1>0. VerdictInv'
  BY VerdictInvStep
<1>1. CASE Load
  <2>1. /\ ~engine.ok /\ compileRuleSet(conf).ok /\ UNCHANGED <<conf, pkt, verdict, query>>
        /\ engine'.val = newPacketClassifier(compileRuleSet(conf).val, conf.dnsMode)
    BY <1>1 DEF Load, OK
  <2> QED BY <1>0, <2>1
<1>2. ASSUME NEW p \in Packet, Receive(p)
      PROVE  LoadedInv'
  BY <1>0, <1>2 DEF Receive
<1>3. CASE ReceiveAnswer
  <2>1. query = NoPacket /\ pkt \in Packet /\ Classify(engine.val, pkt).reason = "dnsPoison"
    BY <1>3 DEF ReceiveAnswer, VerdictInv, AnswerPasses, Accept
  <2>2. pkt # NoPacket
    BY <2>1 DEF Classify, Accept, NoPacket
  <2>3. pkt'.l4 = "udp" /\ query' = pkt /\ UNCHANGED <<conf, engine>>
    BY <1>3 DEF ReceiveAnswer, Answer
  <2> QED BY <1>0, <2>2, <2>3
<1>4. CASE UNCHANGED vars
  BY <1>0, <1>4 DEF vars
<1> QED BY <1>1, <1>2, <1>3, <1>4 DEF Next

\* a process that has not loaded its rules has classified nothing
LEMMA LoadedInvInit == Init => LoadedInv
BY DEF Init, LoadedInv, VerdictInv, AnswerPasses, Error

(***************************************************************************)
(* For every configuration, of any number of rules in any spelling, and    *)
(* every set of packets: a packet is dropped exactly when a rule means it. *)
(* No rule that the code normalizes wrongly, and no name in the packet     *)
(* that it reads wrongly, lets one through or stops another.               *)
(***************************************************************************)
THEOREM BlockedAsMeant == Spec => []BlocksExactly
<1>1. LoadedInv => BlocksExactly
  <2> SUFFICES ASSUME LoadedInv, pkt # NoPacket, query = NoPacket, IsHTTP(pkt) => IsASCII(pkt.payload)
               PROVE  (verdict.kind = "drop") <=> MustBlock(conf, pkt)
    BY DEF BlocksExactly
  <2>1. /\ conf \in RuleConfig /\ pkt \in Packet /\ compileRuleSet(conf).ok
        /\ verdict = Classify(newPacketClassifier(compileRuleSet(conf).val, conf.dnsMode), pkt)
    BY DEF LoadedInv
  <2> QED BY <2>1, DropsMeant
<1> QED BY <1>1, LoadedInvInit, LoadedInvStep, PTL DEF Spec

(***************************************************************************)
(* No request in ASCII, of any length and with its Host header anywhere or *)
(* cut off anywhere, makes httpHost slice beyond the payload and end the   *)
(* process, whatever the capacity of its buffer.                           *)
(***************************************************************************)
THEOREM HostAlwaysDecided == Spec => []HTTPHostDecides
<1>1. LoadedInv => HTTPHostDecides
  <2> SUFFICES ASSUME LoadedInv, IsHTTP(pkt), IsASCII(pkt.payload)
               PROVE  httpHostInRange(pkt.payload)
    BY DEF HTTPHostDecides
  <2>1. pkt \in Packet
    BY DEF LoadedInv, IsHTTP, IsIP, NoPacket
  <2>2. pkt.payload \in Text
    BY <2>1, NameAssumption DEF IsHTTP
  <2> QED BY <2>2, HostInRange
<1> QED BY <1>1, LoadedInvInit, LoadedInvStep, PTL DEF Spec
=============================================================================
