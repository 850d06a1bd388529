----------------------------- MODULE XdpDnsProofs -----------------------------
(***************************************************************************)
(* The loop of dns_domain_matches and the checksum of the answer, for      *)
(* every question, every width of a word and every content of the packet.  *)
(***************************************************************************)
EXTENDS XdpDns, NaturalsInduction, WellFoundedInduction, TLAPS

-----------------------------------------------------------------------------
(***************************************************************************)
(* Arithmetic: induction over a set of numbers, and division by a number   *)
(* that is not known.                                                      *)
(***************************************************************************)
LEMMA NatSetInduction ==
  ASSUME NEW S \in SUBSET Nat, 0 \in S, \A n \in S : n + 1 \in S
  PROVE  S = Nat
<1> SUFFICES ASSUME Nat \ S # {} PROVE FALSE
  OBVIOUS
<1>1. PICK m \in Nat \ S : \A k \in Nat \ S : ~(<<k, m>> \in OpToRel(<, Nat))
  <2> DEFINE T == Nat \ S
  <2>1. T \subseteq Nat /\ T # {}
    OBVIOUS
  <2> HIDE DEF T
  <2>2. \E x \in T : \A y \in T : ~(<<y, x>> \in OpToRel(<, Nat))
    BY <2>1, NatLessThanWellFounded, WFMin
  <2> QED BY <2>2 DEF T
<1>2. m # 0 /\ m - 1 \in Nat
  OBVIOUS
<1>3. <<m - 1, m>> \in OpToRel(<, Nat)
  BY <1>2 DEF OpToRel
<1>4. m - 1 \in S
  BY <1>1, <1>2, <1>3
<1> QED BY <1>2, <1>4

LEMMA DivMod ==
  ASSUME NEW x \in Int, NEW m \in Nat, m > 0
  PROVE  /\ x \div m \in Int /\ x % m \in 0 .. m - 1
         /\ x = m * (x \div m) + (x % m)
OBVIOUS

LEMMA SmallMultiple ==
  ASSUME NEW k \in Int, NEW m \in Nat, m > 0, m * k > -m, m * k < m
  PROVE  k = 0
<1>1. CASE k >= 1
  BY <1>1
<1>2. CASE k <= -1
  BY <1>2
<1> QED BY <1>1, <1>2

LEMMA DivModUnique ==
  ASSUME NEW m \in Nat, m > 0, NEW d \in Int, NEW r \in Int, 0 <= r, r < m
  PROVE  (m * d + r) \div m = d /\ (m * d + r) % m = r
<1> DEFINE x == m * d + r
           k == x \div m - d
<1>1. x \in Int /\ x \div m \in Int /\ x % m \in 0 .. m - 1 /\ x = m * (x \div m) + (x % m)
  BY DivMod
<1>2. k \in Int /\ m * k = m * (x \div m) - m * d
  BY <1>1
<1>3. m * k = r - (x % m)
  BY <1>1, <1>2
<1> HIDE DEF k
<1>4. k = 0
  BY <1>1, <1>2, <1>3, SmallMultiple
<1> QED BY <1>1, <1>3, <1>4 DEF k

LEMMA ModShift ==
  ASSUME NEW x \in Int, NEW m \in Nat, m > 0, NEW k \in Int
  PROVE  (x + m * k) % m = x % m
<1>1. x \div m \in Int /\ x % m \in Int /\ 0 <= x % m /\ x % m < m /\ x = m * (x \div m) + (x % m)
  BY DivMod
<1> DEFINE d == x \div m
           r == x % m
<1>2. x + m * k = m * (d + k) + r /\ d + k \in Int /\ r \in Int /\ 0 <= r /\ r < m
  BY <1>1
<1> HIDE DEF d, r
<1>3. (m * (d + k) + r) % m = r
  BY <1>2, DivModUnique
<1> QED BY <1>2, <1>3 DEF r

-----------------------------------------------------------------------------
(***************************************************************************)
(* The offsets of the length bytes of a question.                          *)
(***************************************************************************)
\* a sequence of labels, by its elements
Labelled(ls) ==
  /\ Len(ls) \in Nat
  /\ \A k \in 1 .. Len(ls) : ls[k] \in Nat /\ ls[k] >= 1 /\ ls[k] <= 63

LEMMA ElementOf == ASSUME NEW L, NEW s \in Seq(L) PROVE \A k \in 1 .. Len(s) : s[k] \in L
OBVIOUS

LEMMA LabelFacts ==
  ASSUME NEW ls \in Seq(1 .. 63)
  PROVE  Labelled(ls)
<1>1. \A k \in 1 .. Len(ls) : ls[k] \in 1 .. 63
  BY ElementOf
<1>2. \A x \in 1 .. 63 : x \in Nat /\ x >= 1 /\ x <= 63
  OBVIOUS
<1>3. Len(ls) \in Nat
  OBVIOUS
<1> QED BY <1>1, <1>2, <1>3, Zenon DEF Labelled

LEMMA OffsetsExist ==
  ASSUME NEW ls, Labelled(ls)
  PROVE  \E f \in [0 .. Len(ls) -> Nat] :
           f[0] = 0 /\ \A k \in 1 .. Len(ls) : f[k] = f[k - 1] + 1 + ls[k]
<1> USE DEF Labelled
<1> DEFINE P(m, f) == f[0] = 0 /\ \A k \in 1 .. m : f[k] = f[k - 1] + 1 + ls[k]
           S == {m \in Nat : m <= Len(ls) => \E f \in [0 .. m -> Nat] : P(m, f)}
<1>1. 0 \in S
  <2>1. [j \in 0 .. 0 |-> 0] \in [0 .. 0 -> Nat] /\ P(0, [j \in 0 .. 0 |-> 0])
    OBVIOUS
  <2> QED BY <2>1
<1>2. ASSUME NEW m \in S PROVE m + 1 \in S
  <2>1. m \in Nat
    OBVIOUS
  <2>2. m <= Len(ls) => \E f \in [0 .. m -> Nat] : P(m, f)
    BY Zenon
  <2> SUFFICES ASSUME m + 1 <= Len(ls) PROVE \E f \in [0 .. m + 1 -> Nat] : P(m + 1, f)
    <3>1. m + 1 \in Nat
      BY <2>1
    <3> QED BY <3>1, Zenon
  <2> HIDE DEF S
  <2>3. m <= Len(ls)
    BY <2>1
  <2>4. PICK f \in [0 .. m -> Nat] : P(m, f)
    BY <2>2, <2>3, Zenon
  <2> DEFINE g == [j \in 0 .. m + 1 |-> IF j <= m THEN f[j] ELSE f[m] + 1 + ls[m + 1]]
  <2>5. ls[m + 1] \in Nat
    BY <2>1
  <2>6. g \in [0 .. m + 1 -> Nat]
    BY <2>1, <2>5
  <2>7. P(m + 1, g)
    <3>1. g[0] = 0
      BY <2>1, <2>4
    <3>2. ASSUME NEW k \in 1 .. m + 1 PROVE g[k] = g[k - 1] + 1 + ls[k]
      <4>1. CASE k = m + 1
        BY <2>1, <4>1
      <4>2. CASE k <= m
        <5>1. k \in 1 .. m /\ k \in 0 .. m + 1 /\ k - 1 \in 0 .. m + 1 /\ k - 1 <= m
          BY <2>1, <4>2
        <5>2. g[k] = f[k] /\ g[k - 1] = f[k - 1]
          BY <4>2, <5>1
        <5> QED BY <2>4, <5>1, <5>2
      <4> QED BY <2>1, <4>1, <4>2
    <3> HIDE DEF g
    <3> QED BY <3>1, <3>2
  <2> QED BY <2>6, <2>7
<1>3. S = Nat
  <2>1. S \subseteq Nat
    OBVIOUS
  <2> HIDE DEF S
  <2> QED BY <1>1, <1>2, <2>1, NatSetInduction
<1>4. Len(ls) \in S
  BY <1>3
<1> QED BY <1>4

LEMMA OffsetsFacts ==
  ASSUME NEW ls, Labelled(ls)
  PROVE  /\ Offsets(ls) \in [0 .. Len(ls) -> Nat]
         /\ Offsets(ls)[0] = 0
         /\ \A k \in 1 .. Len(ls) : Offsets(ls)[k] = Offsets(ls)[k - 1] + 1 + ls[k]
<1> USE DEF Labelled
<1> DEFINE IsOffsets(f) ==
             f = [k \in 0 .. Len(ls) |-> IF k = 0 THEN 0 ELSE f[k - 1] + 1 + ls[k]]
<1>1. \E f : IsOffsets(f)
  <2>1. PICK f \in [0 .. Len(ls) -> Nat] :
               f[0] = 0 /\ \A k \in 1 .. Len(ls) : f[k] = f[k - 1] + 1 + ls[k]
    BY OffsetsExist
  <2>2. IsOffsets(f)
    BY <2>1
  <2> QED BY <2>2
<1>2. Offsets(ls) = CHOOSE f : IsOffsets(f)
  BY DEF Offsets
<1>3. IsOffsets(Offsets(ls))
  BY <1>1, <1>2
<1> USE DEF Labelled
<1> DEFINE at == Offsets(ls)
           S == {m \in Nat : m <= Len(ls) => at[m] \in Nat}
<1>4. /\ DOMAIN at = 0 .. Len(ls)
      /\ at[0] = 0 /\ \A k \in 1 .. Len(ls) : at[k] = at[k - 1] + 1 + ls[k]
  BY <1>3
<1>5. at = [k \in 0 .. Len(ls) |-> at[k]]
  BY <1>3
<1> HIDE DEF at
<1>6. 0 \in S
  BY <1>4
<1>7. ASSUME NEW m \in S PROVE m + 1 \in S
  <2>1. m \in Nat
    OBVIOUS
  <2>2. m <= Len(ls) => at[m] \in Nat
    BY Zenon
  <2> SUFFICES ASSUME m + 1 <= Len(ls) PROVE at[m + 1] \in Nat
    BY <2>1
  <2> HIDE DEF S
  <2>3. m <= Len(ls) /\ m + 1 \in 1 .. Len(ls) /\ (m + 1) - 1 = m
    BY <2>1
  <2>4. at[m + 1] = at[m] + 1 + ls[m + 1] /\ ls[m + 1] \in Nat
    BY <1>4, <2>3
  <2> QED BY <2>2, <2>3, <2>4
<1>8. S = Nat
  <2>1. S \subseteq Nat
    OBVIOUS
  <2> HIDE DEF S
  <2> QED BY <1>6, <1>7, <2>1, NatSetInduction
<1>9. \A k \in 0 .. Len(ls) : at[k] \in Nat
  BY <1>8
<1> QED BY <1>4, <1>5, <1>9 DEF at

LEMMA OffsetsGrow ==
  ASSUME NEW ls, Labelled(ls), NEW j \in 0 .. Len(ls)
  PROVE  Offsets(ls)[j] <= Offsets(ls)[Len(ls)]
<1> USE DEF Labelled
<1> DEFINE at == Offsets(ls)
           S == {m \in Nat : j + m <= Len(ls) => at[j] <= at[j + m]}
<1>1. /\ at \in [0 .. Len(ls) -> Nat]
      /\ \A k \in 1 .. Len(ls) : at[k] = at[k - 1] + 1 + ls[k]
  BY OffsetsFacts
<1> HIDE DEF at
<1>2. 0 \in S
  BY <1>1
<1>3. ASSUME NEW m \in S PROVE m + 1 \in S
  <2>1. m \in Nat /\ (j + m <= Len(ls) => at[j] <= at[j + m])
    BY Zenon
  <2> SUFFICES ASSUME j + m + 1 <= Len(ls) PROVE at[j] <= at[j + m + 1]
    BY <2>1
  <2> HIDE DEF S
  <2>2. at[j + m + 1] = at[j + m] + 1 + ls[j + m + 1] /\ ls[j + m + 1] \in Nat
    BY <1>1, <2>1
  <2>3. at[j] \in Nat /\ at[j + m] \in Nat /\ at[j] <= at[j + m]
    BY <1>1, <2>1
  <2> QED BY <2>2, <2>3
<1>4. S = Nat
  <2>1. S \subseteq Nat
    OBVIOUS
  <2> HIDE DEF S
  <2> QED BY <1>2, <1>3, <2>1, NatSetInduction
<1>5. Len(ls) - j \in Nat
  OBVIOUS
<1>6. j + (Len(ls) - j) <= Len(ls) => at[j] <= at[j + (Len(ls) - j)]
  BY <1>4, <1>5, Zenon
<1> QED BY <1>6 DEF at

LEMMA QuestionFacts ==
  ASSUME NEW p \in Question
  PROVE  /\ Len(p.labels) \in Nat /\ (p.labels = << >> <=> Len(p.labels) = 0)
         /\ Offsets(p.labels) \in [0 .. Len(p.labels) -> Nat]
         /\ Offsets(p.labels)[0] = 0
         /\ \A k \in 1 .. Len(p.labels) :
              /\ p.labels[k] \in Nat /\ p.labels[k] >= 1 /\ p.labels[k] <= 63
              /\ Offsets(p.labels)[k] = Offsets(p.labels)[k - 1] + 1 + p.labels[k]
         /\ \A k \in 0 .. Len(p.labels) : Offsets(p.labels)[k] <= Offsets(p.labels)[Len(p.labels)]
         /\ p.size \in Nat /\ p.qdcount \in Nat /\ p.last \in Nat /\ (p.last = 0 \/ p.last > 63)
<1>1. p.labels \in Seq(1 .. 63)
  BY QuestionAssumption
<1>2. Labelled(p.labels)
  BY <1>1, LabelFacts
<1>3. p.labels = << >> <=> Len(p.labels) = 0
  BY <1>1
<1>4. p.size \in Nat /\ p.qdcount \in Nat /\ p.last \in Nat /\ (p.last = 0 \/ p.last > 63)
  <2>1. p.size \in Nat /\ p.qdcount \in Nat /\ p.last \in {0} \cup (64 .. 255)
    BY QuestionAssumption
  <2> QED BY <2>1
<1>5. \A k \in 0 .. Len(p.labels) : Offsets(p.labels)[k] <= Offsets(p.labels)[Len(p.labels)]
  BY <1>2, OffsetsGrow
<1> QED BY <1>2, <1>3, <1>4, <1>5, OffsetsFacts DEF Labelled

-----------------------------------------------------------------------------
(***************************************************************************)
(* The inductive invariant of the loop.                                    *)
(***************************************************************************)
WalkType ==
  /\ q \in Question /\ result \in {"run", "no", "key"}
  /\ i \in Nat /\ pos \in Nat /\ out \in Nat /\ label_remaining \in Nat
  /\ labels \in 0 .. Len(q.labels)

\* where the loop is: label_remaining bytes before the next length byte, one
\* iteration for each byte read, and a character for all of them but the first
Reading ==
  result = "run" =>
    /\ q.inside /\ ~IsResponse(q) /\ q.qdcount # 0
    /\ i = pos /\ i <= MAX_DNS_SCAN /\ labels <= MAX_DNS_LABELS
    /\ pos = Offsets(q.labels)[labels] - label_remaining
    /\ labels = 0 => label_remaining = 0 /\ out = 0
    /\ labels > 0 => label_remaining <= q.labels[labels] /\ out = pos - 1

WalkInv == WalkType /\ Reading /\ InsideKey /\ WalkExact

LEMMA InitWalkInv == Init => WalkInv
<1> SUFFICES ASSUME Init PROVE WalkInv
  OBVIOUS
<1>1. q \in Question /\ q.qdcount \in Nat
  BY QuestionAssumption DEF Init
<1>2. WalkType /\ Reading /\ InsideKey
  BY <1>1, QuestionFacts DEF Init, WalkType, Reading, InsideKey, MAX_DNS_SCAN, MAX_DNS_LABELS,
    MAX_DOMAIN_LEN
<1>3. WalkExact
  BY <1>1 DEF Init, WalkExact, WellFormed
<1> QED BY <1>2, <1>3 DEF WalkInv

LEMMA WalkInvStep ==
  ASSUME WalkInv, [Next]_vars
  PROVE  WalkInv'
<1> DEFINE n == Len(q.labels)
           at == Offsets(q.labels)
<1>1. /\ n \in Nat /\ (q.labels = << >> <=> n = 0) /\ at[0] = 0
      /\ \A k \in 0 .. n : at[k] \in Nat /\ at[k] <= at[n]
      /\ \A k \in 1 .. n : /\ q.labels[k] \in Nat /\ q.labels[k] >= 1 /\ q.labels[k] <= 63
                          /\ at[k] = at[k - 1] + 1 + q.labels[k]
      /\ q.size \in Nat /\ q.qdcount \in Nat /\ q.last \in Nat /\ (q.last = 0 \/ q.last > 63)
  BY QuestionFacts DEF WalkInv, WalkType
<1>2. /\ labels \in Nat /\ labels <= n /\ at[labels] \in Nat /\ at[n] \in Nat
      /\ at[labels] <= at[n] /\ (labels = 0 => at[labels] = 0)
  BY <1>1 DEF WalkInv, WalkType
<1>3. labels > 0 => at[labels] >= 2 /\ q.labels[labels] \in Nat
  <2>1. labels > 0 => labels \in 1 .. n /\ labels - 1 \in 0 .. n
    BY <1>1, <1>2
  <2> HIDE DEF n, at
  <2>2. CASE labels > 0
    <3>1. at[labels - 1] \in Nat
      BY <1>1, <2>1, <2>2
    <3>2. /\ q.labels[labels] \in Nat /\ q.labels[labels] >= 1
          /\ at[labels] = at[labels - 1] + 1 + q.labels[labels]
      BY <1>1, <2>1, <2>2
    <3> QED BY <3>1, <3>2
  <2> QED BY <2>2
<1>4. labels < n => /\ label_len \in Nat /\ 1 <= label_len /\ label_len <= 63
                    /\ label_len = q.labels[labels + 1]
                    /\ at[labels + 1] = at[labels] + 1 + label_len
  <2>1. labels < n => labels + 1 \in 1 .. n /\ (labels + 1) - 1 = labels
    BY <1>1, <1>2
  <2> QED BY <1>1, <2>1 DEF label_len
<1>5. labels = n => label_len = q.last
  BY <1>1 DEF label_len
<1>6. q' = q
  BY DEF Next, EndOfName, StartLabel, StartLabelFails, CopyByte, CopyByteFails, ScanEnds,
    CorrectField, Finished, Iterate, vars
<1> DEFINE good == WellFormed /\ n <= MAX_DNS_LABELS /\ at[n] - 1 <= 62
<1>7. /\ WalkExact <=> ( (result = "key" => out = at[n] - 1)
                         /\ (result # "run" => (result = "key" <=> good)) )
      /\ WalkExact' <=> ( (result' = "key" => out' = at[n] - 1)
                          /\ (result' # "run" => (result' = "key" <=> good)) )
  <2> DEFINE Asks == q.inside /\ ~IsResponse(q) /\ q.labels # << >>
             completes == Asks /\ q.qdcount # 0 /\ dns_completes(q)
  <2>1. WellFormed' <=> WellFormed
    BY <1>6 DEF WellFormed
  <2>2. completes' <=> completes
    BY <1>6
  <2>3. good <=> completes
    <3>1. q.qdcount > 0 <=> q.qdcount # 0
      BY <1>1
    <3>2. at[n] - 1 <= 62 <=> at[n] < MAX_DNS_SCAN
      BY <1>2 DEF MAX_DNS_SCAN
    <3>3. q.size >= (at[n] - 1) + 2 + 4 <=> at[n] + 1 + 4 <= q.size
      BY <1>1, <1>2
    <3>4. good <=> /\ Asks /\ q.qdcount > 0 /\ q.last = 0 /\ n <= MAX_DNS_LABELS
                   /\ q.size >= (at[n] - 1) + 2 + 4 /\ at[n] - 1 <= 62
      BY Zenon DEF WellFormed, Joined
    <3>5. completes <=> /\ Asks /\ q.qdcount # 0 /\ q.last = 0 /\ n <= MAX_DNS_LABELS
                        /\ at[n] < MAX_DNS_SCAN /\ at[n] + 1 + 4 <= q.size
      BY Zenon DEF dns_completes
    <3> QED BY <3>1, <3>2, <3>3, <3>4, <3>5, Zenon
  <2>4. Joined(q.labels) = at[n] - 1
    BY DEF Joined
  <2> HIDE DEF n, at
  <2>5. WalkExact <=> /\ result = "key" => out = at[n] - 1
                      /\ result # "run" => (result = "key" <=> good)
                      /\ result # "run" => (result = "key" <=> completes)
    <3>1. (WellFormed /\ Len(q.labels) <= MAX_DNS_LABELS /\ Joined(q.labels) <= 62) <=> good
      BY <2>4 DEF n
    <3> QED BY <2>4, <3>1, Zenon DEF WalkExact
  <2>6. WalkExact' <=> /\ result' = "key" => out' = at[n] - 1
                       /\ result' # "run" => (result' = "key" <=> good)
                       /\ result' # "run" => (result' = "key" <=> completes')
    <3>1. Joined(q.labels)' = at[n] - 1
      BY <1>6, <2>4
    <3>2. (WellFormed' /\ Len(q'.labels) <= MAX_DNS_LABELS /\ Joined(q'.labels) <= 62) <=> good
      BY <1>6, <2>1, <2>4 DEF n
    <3> QED BY <1>6, <2>4, <3>1, <3>2 DEF WalkExact
  <2> QED BY <2>2, <2>3, <2>5, <2>6, Zenon
<1>8. good => n # 0 /\ q.last = 0 /\ q.size >= at[n] + 5 /\ n <= 8 /\ at[n] <= 63
  BY <1>1, <1>2 DEF WellFormed, Joined, MAX_DNS_LABELS
<1>9. result = "run" /\ n # 0 /\ q.last = 0 /\ q.size >= at[n] + 5 /\ n <= 8 /\ at[n] <= 63 => good
  <2>1. result = "run" => q.inside /\ ~IsResponse(q) /\ q.qdcount > 0
    BY <1>1 DEF WalkInv, Reading
  <2>2. q.size >= at[n] + 5 => q.size >= Joined(q.labels) + 2 + 4
    BY <1>1, <1>2 DEF Joined
  <2>3. n # 0 => q.labels # << >>
    BY <1>1
  <2>4. n <= 8 /\ at[n] <= 63 => n <= MAX_DNS_LABELS /\ at[n] - 1 <= 62
    BY <1>1, <1>2 DEF MAX_DNS_LABELS
  <2> QED BY <2>1, <2>2, <2>3, <2>4 DEF WellFormed
<1> HIDE DEF good
<1>10. n \in Nat /\ q.size \in Nat /\ q.last \in Nat /\ (q.last = 0 \/ q.last > 63)
  BY <1>1
<1>11. result = "run" =>
         /\ i = pos /\ i <= 64 /\ labels <= 8 /\ pos = at[labels] - label_remaining
         /\ labels = 0 => label_remaining = 0 /\ out = 0
         /\ labels > 0 => label_remaining <= q.labels[labels] /\ out = pos - 1
  BY DEF WalkInv, Reading, MAX_DNS_SCAN, MAX_DNS_LABELS
<1> USE DEF MAX_DNS_SCAN, MAX_DNS_LABELS, MAX_DOMAIN_LEN
<1>12. CASE EndOfName
  <2>1. labels = n /\ q.last = 0
    BY <1>12, <1>2, <1>4, <1>5, <1>10 DEF EndOfName
  <2>2. /\ result = "run" /\ pos = at[n] /\ i = pos /\ i < 64
        /\ out = (IF n = 0 THEN 0 ELSE at[n] - 1)
    BY <1>12, <1>2, <1>11, <2>1 DEF EndOfName, Iterate, WalkInv, WalkType
  <2>3. WalkType' /\ Reading' /\ InsideKey'
    BY <1>12, <1>6, <1>10 DEF EndOfName, Iterate, WalkInv, WalkType, Reading, InsideKey
  <2>4. CASE n = 0
    <3>1. result' = "no" /\ ~good
      BY <1>12, <1>8, <2>2, <2>4 DEF EndOfName
    <3> QED BY <1>7, <3>1, <2>3 DEF WalkInv
  <2>5. CASE n # 0
    <3>1. out = at[n] - 1 /\ out' = out /\ out # 0 /\ ~(out >= 64)
      BY <1>12, <1>2, <1>3, <1>10, <2>1, <2>2, <2>5 DEF EndOfName, WalkInv, InsideKey
    <3>2. good <=> q.size >= at[n] + 5
      <4>1. n <= 8 /\ at[n] <= 63
        BY <1>2, <1>11, <2>1, <2>2
      <4>2. n # 0 /\ q.last = 0 /\ result = "run"
        BY <2>1, <2>2, <2>5
      <4> HIDE DEF n, at
      <4>3. good => q.size >= at[n] + 5
        BY <1>8, Zenon
      <4>4. q.size >= at[n] + 5 => good
        BY <1>9, <4>1, <4>2, Zenon
      <4> QED BY <4>3, <4>4, Zenon
    <3>3. result' = "key" <=> good
      <4>1. result' = IF q.size - (pos + 1) < 4 \/ out = 0 \/ out >= 64 THEN "no" ELSE "key"
        BY <1>12 DEF EndOfName
      <4>2. q.size \in Nat /\ at[n] \in Nat /\ pos = at[n]
        BY <1>2, <1>10, <2>2
      <4> HIDE DEF n, at
      <4>3. q.size - (pos + 1) < 4 <=> ~(q.size >= at[n] + 5)
        BY <4>2
      <4> QED BY <3>1, <3>2, <4>1, <4>3
    <3> QED BY <1>7, <3>1, <3>3, <2>3 DEF WalkInv
  <2> QED BY <2>4, <2>5
<1>13. CASE StartLabel
  <2>1. labels < n
    BY <1>13, <1>2, <1>5, <1>10 DEF StartLabel
  <2>2. WalkType' /\ InsideKey'
    BY <1>13, <1>2, <1>4, <1>6, <1>10, <2>1 DEF StartLabel, Iterate, WalkInv, WalkType, InsideKey
  <2>3. labels > 0 => out > 0
    BY <1>13, <1>2, <1>3, <1>11 DEF StartLabel, Iterate, WalkInv, WalkType
  <2>4. /\ i' = pos' /\ i' <= 64 /\ labels' <= 8 /\ labels' > 0
        /\ pos' = at[labels + 1] - label_remaining'
        /\ label_remaining' = q.labels[labels + 1] /\ label_remaining' \in Nat
    BY <1>13, <1>2, <1>4, <1>11, <2>1 DEF StartLabel, Iterate, WalkInv, WalkType
  <2>5. out' = pos' - 1
    BY <1>13, <1>2, <1>11, <2>3 DEF StartLabel, Iterate, WalkInv, WalkType
  <2>6. Reading'
    BY <1>13, <1>6, <2>4, <2>5 DEF StartLabel, Iterate, WalkInv, Reading
  <2>7. WalkExact'
    BY <1>13, <1>7 DEF StartLabel, Iterate
  <2> QED BY <2>2, <2>6, <2>7 DEF WalkInv
<1>14. CASE StartLabelFails
  <2>1. WalkType' /\ Reading' /\ InsideKey'
    BY <1>14, <1>6, <1>10 DEF StartLabelFails, Iterate, Refuse, WalkInv, WalkType, Reading, InsideKey
  <2>2. ASSUME good PROVE FALSE
    <3>1. result = "run" /\ pos = at[labels] /\ (labels = 0 => out = 0) /\ (labels > 0 => out = pos - 1)
      BY <1>14, <1>2, <1>11 DEF StartLabelFails, Iterate
    <3>2. at[n] <= 63 /\ q.size >= at[n] + 5 /\ q.last = 0 /\ n <= 8
      BY <1>8, <2>2
    <3>3. pos < q.size /\ out < 63
      BY <1>2, <1>10, <3>1, <3>2
    <3>4. label_len > 63 \/ (label_len # 0 /\ labels >= 8)
      BY <1>14, <1>10, <3>3 DEF StartLabelFails, WalkInv, WalkType
    <3> QED BY <1>2, <1>4, <1>5, <1>10, <3>2, <3>4
  <2>3. ~good
    BY <2>2
  <2>4. WalkExact'
    BY <1>14, <1>7, <2>3 DEF StartLabelFails, Refuse
  <2> QED BY <2>1, <2>4 DEF WalkInv
<1>15. CASE CopyByte
  <2>1. WalkType' /\ InsideKey'
    BY <1>15, <1>6, <1>10 DEF CopyByte, Iterate, WalkInv, WalkType, InsideKey
  <2>2. Reading'
    BY <1>15, <1>2, <1>3, <1>6, <1>11 DEF CopyByte, Iterate, WalkInv, WalkType, Reading
  <2>3. WalkExact'
    BY <1>15, <1>7 DEF CopyByte, Iterate
  <2> QED BY <2>1, <2>2, <2>3 DEF WalkInv
<1>16. CASE CopyByteFails
  <2>1. WalkType' /\ Reading' /\ InsideKey'
    BY <1>16, <1>6, <1>10 DEF CopyByteFails, Iterate, Refuse, WalkInv, WalkType, Reading, InsideKey
  <2>2. ASSUME good PROVE FALSE
    <3>1. /\ result = "run" /\ labels > 0 /\ out = pos - 1 /\ pos = at[labels] - label_remaining
          /\ label_remaining > 0 /\ label_remaining \in Nat
      BY <1>16, <1>2, <1>11 DEF CopyByteFails, Iterate, WalkInv, WalkType
    <3>2. at[n] <= 63 /\ q.size >= at[n] + 5
      BY <1>8, <2>2
    <3>3. pos \in Int /\ pos < at[n]
      BY <1>2, <3>1
    <3>4. pos < q.size /\ pos - 1 < 63
      BY <1>2, <1>10, <3>2, <3>3
    <3>5. out = pos - 1
      BY <3>1
    <3> QED BY <1>16, <1>10, <3>4, <3>5 DEF CopyByteFails, WalkInv, WalkType
  <2>3. WalkExact'
    BY <1>16, <1>7, <2>2 DEF CopyByteFails, Refuse
  <2> QED BY <2>1, <2>3 DEF WalkInv
<1>17. CASE ScanEnds
  <2>1. WalkType' /\ Reading' /\ InsideKey'
    BY <1>17, <1>6, <1>10 DEF ScanEnds, Refuse, WalkInv, WalkType, Reading, InsideKey
  <2>2. ~good
    BY <1>17, <1>2, <1>8, <1>10, <1>11 DEF ScanEnds, WalkInv, WalkType
  <2>3. WalkExact'
    BY <1>17, <1>7, <2>2 DEF ScanEnds, Refuse
  <2> QED BY <2>1, <2>3 DEF WalkInv
<1>18. CASE CorrectField \/ UNCHANGED vars
  <2>1. UNCHANGED walk
    BY <1>18 DEF CorrectField, vars
  <2>2. WalkType' /\ Reading' /\ InsideKey'
    BY <1>6, <2>1 DEF walk, WalkInv, WalkType, Reading, InsideKey
  <2>3. WalkExact'
    BY <1>7, <2>1 DEF walk, WalkInv
  <2> QED BY <2>2, <2>3 DEF WalkInv
<1> QED
  BY <1>12, <1>13, <1>14, <1>15, <1>16, <1>17, <1>18 DEF Next, Finished

-----------------------------------------------------------------------------
(***************************************************************************)
(* The one's complement arithmetic: a fold, and so a correction, changes a *)
(* sum by a multiple of Top.                                               *)
(***************************************************************************)
LEMMA FoldFacts ==
  ASSUME NEW s \in Nat
  PROVE  /\ s \div (Top + 1) \in Nat /\ s % (Top + 1) \in 0 .. Top
         /\ s = (Top + 1) * (s \div (Top + 1)) + (s % (Top + 1))
         /\ Fold(s) = (s % (Top + 1)) + (s \div (Top + 1))
         /\ s = Fold(s) + Top * (s \div (Top + 1))
<1>1. Top + 1 \in Nat /\ Top + 1 > 0 /\ Top \in Nat
  BY QuestionAssumption
<1> DEFINE d == s \div (Top + 1)
           r == s % (Top + 1)
<1>2. d \in Int /\ r \in 0 .. Top /\ s = (Top + 1) * d + r
  BY <1>1, DivMod
<1>3. Fold(s) = r + d
  BY DEF Fold
<1> HIDE DEF d, r
<1>4. (Top + 1) * d = Top * d + d
  BY <1>1, <1>2
<1>5. d \in Nat
  BY <1>1, <1>2
<1>6. s = Fold(s) + Top * d
  BY <1>1, <1>2, <1>3, <1>4
<1> QED BY <1>2, <1>3, <1>5, <1>6 DEF d, r

\* two folds of a sum of three words leave a word
LEMMA TwoFolds ==
  ASSUME NEW s \in Nat, s <= Top + Top + Top
  PROVE  /\ Fold(Fold(s)) \in 0 .. Top
         /\ \E k \in Int : s = Fold(Fold(s)) + Top * k
<1>1. Top \in Nat /\ Top >= 3
  BY QuestionAssumption
<1> DEFINE M == Top + 1
           d == s \div M
           F == Fold(s)
           e == F \div M
           r == F % M
<1>2. d \in Nat /\ s % M \in 0 .. Top /\ s = M * d + (s % M) /\ F = (s % M) + d /\ s = F + Top * d
  BY FoldFacts
<1>3. d <= 2
  <2>1. ASSUME d >= 3 PROVE FALSE
    <3>1. M * d >= M * 3
      BY <1>1, <1>2, <2>1
    <3> QED BY <1>1, <1>2, <3>1
  <2> QED BY <1>2, <2>1
<1>4. F \in Nat /\ F <= Top + 2
  BY <1>1, <1>2, <1>3
<1>5. e \in Nat /\ r \in 0 .. Top /\ F = M * e + r /\ Fold(F) = r + e /\ F = Fold(F) + Top * e
  BY <1>4, FoldFacts
<1> HIDE DEF F, d, e, r
<1>6. e <= 1
  <2>1. ASSUME e >= 2 PROVE FALSE
    <3>1. M * e >= M * 2
      BY <1>1, <1>5, <2>1
    <3>2. M * 2 = Top + Top + 2
      BY <1>1
    <3>3. F >= M * e
      BY <1>1, <1>5
    <3> QED BY <1>1, <1>4, <1>5, <3>1, <3>2, <3>3
  <2> QED BY <1>5, <2>1
<1>7. Fold(F) \in 0 .. Top
  <2>1. CASE e = 0
    BY <1>1, <1>5, <2>1
  <2>2. CASE e = 1
    BY <1>1, <1>4, <1>5, <2>2
  <2> QED BY <1>5, <1>6, <2>1, <2>2
<1>8. s = Fold(F) + Top * (d + e) /\ d + e \in Int
  <2>1. Top * (d + e) = Top * d + Top * e
    BY <1>1, <1>2, <1>5
  <2> QED BY <1>1, <1>2, <1>5, <1>7, <2>1
<1> QED BY <1>7, <1>8 DEF F

LEMMA CorrectionFacts ==
  ASSUME NEW c \in Word, NEW was \in Word, NEW new \in Word
  PROVE  /\ csum_replace16(c, was, new) \in Word \ {0}
         /\ \E k \in Int : csum_replace16(c, was, new) + new = c + was + Top * k
<1>1. Top \in Nat /\ Top >= 3 /\ c \in Nat /\ was \in Nat /\ new \in Nat
      /\ c <= Top /\ was <= Top /\ new <= Top
  BY QuestionAssumption DEF Word
<1> DEFINE s == (Top - c) + (Top - was) + new
           F == Fold(Fold(s))
           inv == (Top - F) % (Top + 1)
<1>2. s \in Nat /\ s <= Top + Top + Top
  BY <1>1
<1>3. csum_replace16(c, was, new) = IF inv = 0 THEN Top ELSE inv
  BY DEF csum_replace16
<1> HIDE DEF s
<1>4. F \in 0 .. Top /\ \E k \in Int : s = F + Top * k
  BY <1>2, TwoFolds
<1>5. PICK k \in Int : s = F + Top * k
  BY <1>4
<1> HIDE DEF F
<1>6. inv = Top - F
  <2>1. (Top + 1) * 0 + (Top - F) = Top - F
    BY <1>1, <1>4
  <2>2. ((Top + 1) * 0 + (Top - F)) % (Top + 1) = Top - F
    BY <1>1, <1>4, DivModUnique
  <2> QED BY <2>1, <2>2
<1> HIDE DEF inv
<1>7. csum_replace16(c, was, new) \in Word \ {0}
  BY <1>1, <1>3, <1>4, <1>6 DEF Word
<1>8. s = (Top - c) + (Top - was) + new
  BY DEF s
<1>9. CASE inv = 0
  <2>1. Top * k = s - F
    BY <1>1, <1>2, <1>4, <1>5
  <2>2. csum_replace16(c, was, new) + new = c + was + Top * k
    BY <1>1, <1>2, <1>3, <1>4, <1>6, <1>8, <1>9, <2>1
  <2> QED BY <1>7, <2>2
<1>10. CASE inv # 0
  <2>1. k - 1 \in Int /\ Top * k = s - F /\ Top * (k - 1) = Top * k - Top
    BY <1>1, <1>2, <1>4, <1>5
  <2>2. csum_replace16(c, was, new) + new = c + was + Top * (k - 1)
    BY <1>1, <1>2, <1>3, <1>4, <1>6, <1>8, <1>10, <2>1
  <2> QED BY <1>7, <2>1, <2>2
<1> QED BY <1>7, <1>9, <1>10

\* one correction of a packet that verifies: o is the sum of its other words
LEMMA CorrectionVerifies ==
  ASSUME NEW c \in Word, NEW was \in Word, NEW new \in Word, NEW o \in Int,
         (o + was + c) % Top = 0
  PROVE  (o + new + csum_replace16(c, was, new)) % Top = 0
<1> DEFINE c2 == csum_replace16(c, was, new)
<1>1. Top \in Nat /\ Top > 0 /\ c \in Int /\ was \in Int /\ new \in Int
  BY QuestionAssumption DEF Word
<1>2. c2 \in Int
  BY <1>1, CorrectionFacts DEF Word
<1>3. PICK k \in Int : c2 + new = c + was + Top * k
  BY CorrectionFacts
<1> HIDE DEF c2
<1>4. Top * k \in Int
  BY <1>1
<1>5. o + new + c2 = (o + was + c) + Top * k
  BY <1>1, <1>2, <1>3, <1>4
<1>6. ((o + was + c) + Top * k) % Top = (o + was + c) % Top
  <2>1. o + was + c \in Int
    BY <1>1
  <2> QED BY <1>1, <2>1, ModShift
<1> QED BY <1>5, <1>6 DEF c2

-----------------------------------------------------------------------------
AnswerType == q \in Question /\ check \in Word /\ corrected \in 0 .. 4

AnswerInv == AnswerType /\ AnswerVerifies

\* the words of p when n of its fields are corrected
WordsAt(p, n) ==
  [flags   |-> IF n >= 1 THEN Response ELSE p.words.flags,
   ancount |-> IF n >= 2 THEN 0 ELSE p.words.ancount,
   nscount |-> IF n >= 3 THEN 0 ELSE p.words.nscount,
   arcount |-> IF n >= 4 THEN 0 ELSE p.words.arcount]

LEMMA WordFacts ==
  ASSUME NEW p \in Question
  PROVE  /\ DOMAIN p.words = {"flags", "ancount", "nscount", "arcount"}
         /\ p.words.flags \in Word /\ p.words.ancount \in Word
         /\ p.words.nscount \in Word /\ p.words.arcount \in Word
         /\ p.rest \in Word /\ p.check \in Word
         /\ Verifies(p.words, p.rest, p.check)
<1>1. ToSet(Fields) = {"flags", "ancount", "nscount", "arcount"}
  <2>1. ToSet(Fields) = {Fields[k] : k \in 1 .. 4}
    BY DEF ToSet, Fields
  <2> QED BY <2>1 DEF Fields
<1>2. p.words \in [ToSet(Fields) -> Word]
  BY QuestionAssumption
<1> QED BY <1>1, <1>2, QuestionAssumption

LEMMA WordsAtType ==
  ASSUME NEW p \in Question, NEW n \in 0 .. 4
  PROVE  LET w == WordsAt(p, n)
         IN  w.flags \in Word /\ w.ancount \in Word /\ w.nscount \in Word /\ w.arcount \in Word
BY WordFacts, QuestionAssumption DEF WordsAt, Word

LEMMA VerifiesAt ==
  ASSUME NEW p \in Question, NEW n \in 0 .. 4, NEW c
  PROVE  LET done == {Fields[k] : k \in 1 .. n}
             now  == [f \in DOMAIN p.words |-> IF f \in done THEN New(f) ELSE p.words[f]]
         IN  Verifies(now, p.rest, c) <=> Verifies(WordsAt(p, n), p.rest, c)
<1> DEFINE done == {Fields[k] : k \in 1 .. n}
           now == [f \in DOMAIN p.words |-> IF f \in done THEN New(f) ELSE p.words[f]]
<1>1. /\ "flags" \in done <=> n >= 1
      /\ "ancount" \in done <=> n >= 2
      /\ "nscount" \in done <=> n >= 3
      /\ "arcount" \in done <=> n >= 4
  BY DEF Fields
<1> HIDE DEF done
<1>2. /\ now.flags = WordsAt(p, n).flags /\ now.ancount = WordsAt(p, n).ancount
      /\ now.nscount = WordsAt(p, n).nscount /\ now.arcount = WordsAt(p, n).arcount
  BY <1>1, WordFacts DEF WordsAt, New
<1> HIDE DEF now
<1>3. Verifies(now, p.rest, c) <=> Verifies(WordsAt(p, n), p.rest, c)
  BY <1>2 DEF Verifies
<1> QED BY <1>3 DEF now, done

LEMMA CorrectFieldStep ==
  ASSUME AnswerInv, CorrectField
  PROVE  AnswerInv'
<1> DEFINE f == Fields[corrected + 1]
           w == WordsAt(q, corrected)
           v == WordsAt(q, corrected + 1)
           sum == w.flags + w.ancount + w.nscount + w.arcount + q.rest
           o == sum - w[f]
<1>1. /\ corrected \in 0 .. 3 /\ corrected + 1 \in 0 .. 4 /\ corrected' = corrected + 1
      /\ q' = q /\ q \in Question /\ check \in Word
      /\ check' = csum_replace16(check, q.words[f], New(f))
  BY DEF CorrectField, AnswerInv, AnswerType, Fields
<1>2. Word \subseteq Int /\ 0 \in Word /\ Response \in Word
  BY QuestionAssumption DEF Word
<1>3. /\ w.flags \in Word /\ w.ancount \in Word /\ w.nscount \in Word /\ w.arcount \in Word
      /\ q.rest \in Word
  BY <1>1, WordsAtType, WordFacts
<1>4. w[f] = q.words[f] /\ w[f] \in Word /\ New(f) \in Word
  BY <1>1, <1>2, WordFacts DEF Fields, New, WordsAt
<1>5. \/ /\ w[f] = w.flags /\ v.flags = New(f) /\ v.ancount = w.ancount
         /\ v.nscount = w.nscount /\ v.arcount = w.arcount
      \/ /\ w[f] = w.ancount /\ v.ancount = New(f) /\ v.flags = w.flags
         /\ v.nscount = w.nscount /\ v.arcount = w.arcount
      \/ /\ w[f] = w.nscount /\ v.nscount = New(f) /\ v.flags = w.flags
         /\ v.ancount = w.ancount /\ v.arcount = w.arcount
      \/ /\ w[f] = w.arcount /\ v.arcount = New(f) /\ v.flags = w.flags
         /\ v.ancount = w.ancount /\ v.nscount = w.nscount
  BY <1>1 DEF WordsAt, Fields, New
<1>6. Verifies(w, q.rest, check)
  <2>1. corrected \in 0 .. 4
    BY <1>1
  <2> QED BY <1>1, <2>1, VerifiesAt DEF AnswerInv, AnswerVerifies
<1> HIDE DEF w, v
<1>7. /\ o \in Int /\ sum = o + w[f]
      /\ v.flags + v.ancount + v.nscount + v.arcount + q.rest = o + New(f)
  <2>1. /\ w.flags \in Int /\ w.ancount \in Int /\ w.nscount \in Int /\ w.arcount \in Int
        /\ q.rest \in Int /\ w[f] \in Int /\ New(f) \in Int
    BY <1>2, <1>3, <1>4
  <2> HIDE DEF f
  <2> QED BY <1>5, <2>1
<1>8. (sum + check) % Top = 0
  BY <1>6 DEF Verifies
<1> HIDE DEF o, sum
<1>9. (o + w[f] + check) % Top = 0
  BY <1>7, <1>8
<1>10. (o + New(f) + check') % Top = 0 /\ check' \in Word \ {0}
  <2>1. (o + New(f) + csum_replace16(check, w[f], New(f))) % Top = 0
    BY <1>1, <1>4, <1>7, <1>9, CorrectionVerifies
  <2>2. csum_replace16(check, w[f], New(f)) \in Word \ {0}
    BY <1>1, <1>4, CorrectionFacts
  <2> QED BY <1>1, <1>4, <2>1, <2>2
<1>11. Verifies(v, q.rest, check')
  BY <1>7, <1>10 DEF Verifies
<1>12. AnswerVerifies'
  <2>1. q' \in Question /\ corrected' \in 0 .. 4 /\ Verifies(WordsAt(q', corrected'), q'.rest, check')
    BY <1>1, <1>11 DEF v
  <2> QED BY <2>1, VerifiesAt DEF AnswerVerifies
<1> QED BY <1>1, <1>10, <1>12 DEF AnswerInv, AnswerType

-----------------------------------------------------------------------------
(***************************************************************************)
(* dns_domain_matches asks for a key exactly for the well-formed questions *)
(* of at most eight labels and 62 characters, and then for the whole text: *)
(* no question of any length or shape makes it look up a part of a name.   *)
(* It asks when dns_completes says so, which stands for it in XdpPath.     *)
(***************************************************************************)
THEOREM WalkIsExact == Spec => []WalkExact
<1>1. WalkInv /\ [Next]_vars => WalkInv'
  BY WalkInvStep
<1>2. WalkInv => WalkExact
  BY DEF WalkInv
<1> QED BY InitWalkInv, <1>1, <1>2, PTL DEF Spec

(***************************************************************************)
(* Whatever the packet holds, the loop writes inside the 64 bytes of       *)
(* key->name and reads inside the payload.                                 *)
(***************************************************************************)
THEOREM WalkStaysInside == Spec => []InsideKey
<1>1. WalkInv /\ [Next]_vars => WalkInv'
  BY WalkInvStep
<1>2. WalkInv => InsideKey
  BY DEF WalkInv
<1> QED BY InitWalkInv, <1>1, <1>2, PTL DEF Spec

(***************************************************************************)
(* The checksum that csum_replace16 leaves after each field verifies, for  *)
(* words of any width: two folds are enough for every carry, and zero is   *)
(* never sent.                                                             *)
(***************************************************************************)
THEOREM AnswersVerify == Spec => []AnswerVerifies
<1>1. Init => AnswerInv
  <2> SUFFICES ASSUME Init PROVE AnswerInv
    OBVIOUS
  <2>1. AnswerType /\ corrected = 0 /\ check = q.check
    BY WordFacts DEF Init, AnswerType
  <2>2. Verifies(WordsAt(q, corrected), q.rest, check)
    BY <2>1, WordFacts DEF AnswerType, Verifies, WordsAt
  <2> QED BY <2>1, <2>2, VerifiesAt DEF AnswerInv, AnswerType, AnswerVerifies
<1>2. AnswerInv /\ [Next]_vars => AnswerInv'
  <2> SUFFICES ASSUME AnswerInv, [Next]_vars PROVE AnswerInv'
    OBVIOUS
  <2>1. CorrectField \/ UNCHANGED <<q, check, corrected>>
    BY DEF Next, EndOfName, StartLabel, StartLabelFails, CopyByte, CopyByteFails, ScanEnds,
      Finished, Iterate, answer, vars
  <2>2. UNCHANGED <<q, check, corrected>> => AnswerInv'
    BY DEF AnswerInv, AnswerType, AnswerVerifies
  <2> QED BY <2>1, <2>2, CorrectFieldStep
<1>3. AnswerInv => AnswerVerifies
  BY DEF AnswerInv
<1> QED BY <1>1, <1>2, <1>3, PTL DEF Spec
=============================================================================
