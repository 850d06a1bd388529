---------------------------- MODULE FirewallProofs ----------------------------
(***************************************************************************)
(* The safety properties of Firewall, and its refinement of FirewallSpec,  *)
(* for every set of configurations and every number of failed deletions,   *)
(* crashes and restarts; and those of Startup, which shares the lemmas     *)
(* about normalizedChains.                                                 *)
(***************************************************************************)
EXTENDS Firewall, Startup, NaturalsInduction, WellFoundedInduction, FiniteSetTheorems, TLAPS

-----------------------------------------------------------------------------
(***************************************************************************)
(* The inductive invariant, in named parts.                                *)
(***************************************************************************)
Distinct(s) == \A i, j \in 1 .. Len(s) : s[i] = s[j] => i = j

Installing == mode \in {"preclean", "insert", "undo"}

\* the rules of the candidate that Install is at, and those already done
Current == ToSet(RulesOf(cfg, cand))
Past == Current \ ToSet(todo)

\* where a process is in its loops
LoopInv ==
  /\ mode = "down" => cand = 0
  /\ cand <= Len(Candidates(cfg)) /\ (Installing => cand >= 1)
  /\ Installing => ToSet(todo) \subseteq Current
  /\ mode = "cleanup" => ToSet(todo) \subseteq OwnRules
  /\ mode \in {"down", "up"} => todo = << >>
  /\ mode = "insert" => Distinct(todo)
  /\ mode = "undo" => Current # {}
  /\ exit \in {"ended", "failed"} => mode = "down"

\* deleteIPTablesRule has taken one copy away in each of its turns
TriesInv ==
  tries = 0 \/ (todo # << >> /\ table[Head(todo)] + tries <= 1 + deleteFaults)

\* unless ctx is done, a rule that Install is yet to insert was deleted first
PrecleanInv ==
  mode = "preclean" /\ ~cancelled => \A r \in Past : table[r] <= deleteFaults

InsertInv ==
  mode = "insert" =>
    /\ \A r \in Past : table[r] >= 1
    /\ ~cancelled => \A r \in ToSet(todo) : table[r] <= deleteFaults

CopiesInv ==
  TypeOK /\ LoopInv /\ CopiesBounded /\ TriesInv /\ PrecleanInv /\ InsertInv /\ CompleteWhenUp

Gone(r) == table[r] = 0 \/ dirty

\* what Cleanup, or the Cleanup of a candidate that failed, has been through
GoneInv ==
  /\ mode = "undo" => \A r \in Past : Gone(r)
  /\ mode = "cleanup" => \A r \in OwnRules \ ToSet(todo) : Gone(r)
  /\ Installing => \A j \in 1 .. cand - 1 : \A r \in ToSet(RulesOf(cfg, j)) \ Current : Gone(r)

Traced(r) ==
  \/ mode # "down" /\ cand # 0 /\ r \in Current
  \/ \E c \in unclean : r \in ToSet(AllRules(c))

TraceInv ==
  /\ dirty => cfg \in unclean
  /\ deleteFaults <= MaxDeleteFaults
  /\ \A r \in RuleSpace : table[r] > 0 => Traced(r)

CleanInv == GoneInv /\ TraceInv /\ CleanExit
-----------------------------------------------------------------------------
(***************************************************************************)
(* Induction over a set of numbers, and sequences: their elements, and     *)
(* whether these are distinct.                                             *)
(***************************************************************************)
LEMMA NatSetInduction ==
  ASSUME NEW S \in SUBSET Nat, 0 \in S, \A n \in S : n + 1 \in S
  PROVE  S = Nat
<1> SUFFICES ASSUME Nat \ S # {} PROVE FALSE
  OBVIOUS
<1>1. PICK m \in Nat \ S : \A k \in Nat \ S : ~(<<k, m>> \in OpToRel(<, Nat))
  <2> DEFINE T == Nat \ S
  <2>1. T \subseteq Nat /\ T # {}
    OBVIOUS
  <2> HIDE DEF T
  <2>2. \E x \in T : \A y \in T : ~(<<y, x>> \in OpToRel(<, Nat))
    BY <2>1, NatLessThanWellFounded, WFMin
  <2> QED BY <2>2 DEF T
<1>2. m # 0 /\ m - 1 \in Nat
  OBVIOUS
<1>3. <<m - 1, m>> \in OpToRel(<, Nat)
  BY <1>2 DEF OpToRel
<1>4. m - 1 \in S
  BY <1>1, <1>2, <1>3
<1> QED BY <1>2, <1>4

LEMMA SeqElements ==
  ASSUME NEW S, NEW s \in Seq(S)
  PROVE  /\ Len(s) \in Nat /\ DOMAIN s = 1 .. Len(s)
         /\ \A i \in 1 .. Len(s) : s[i] \in S /\ s[i] \in ToSet(s)
         /\ ToSet(s) \subseteq S
         /\ \A r \in ToSet(s) : \E i \in 1 .. Len(s) : r = s[i]
         /\ ToSet(s) = {} <=> s = << >>
<1>1. Len(s) \in Nat /\ DOMAIN s = 1 .. Len(s) /\ \A i \in 1 .. Len(s) : s[i] \in S
  OBVIOUS
<1>2. \A r : r \in ToSet(s) <=> \E i \in 1 .. Len(s) : r = s[i]
  BY <1>1 DEF ToSet
<1>3. ToSet(s) = {} <=> s = << >>
  <2>1. s = << >> <=> Len(s) = 0
    OBVIOUS
  <2>2. Len(s) = 0 => ToSet(s) = {}
    BY <1>2
  <2>3. Len(s) # 0 => s[1] \in ToSet(s)
    BY <1>1, <1>2
  <2> QED BY <2>1, <2>2, <2>3
<1> QED BY <1>1, <1>2, <1>3

LEMMA HeadTail ==
  ASSUME NEW S, NEW s \in Seq(S), s # << >>
  PROVE  /\ Head(s) \in ToSet(s) /\ Tail(s) \in Seq(S)
         /\ ToSet(s) = {Head(s)} \cup ToSet(Tail(s))
         /\ Distinct(s) => Distinct(Tail(s)) /\ Head(s) \notin ToSet(Tail(s))
<1>1. Len(s) \in Nat /\ Len(s) >= 1 /\ Head(s) = s[1] /\ DOMAIN s = 1 .. Len(s)
  OBVIOUS
<1>2. /\ Tail(s) \in Seq(S) /\ Len(Tail(s)) = Len(s) - 1 /\ DOMAIN Tail(s) = 1 .. Len(s) - 1
      /\ \A i \in 1 .. Len(s) - 1 : Tail(s)[i] = s[i + 1]
  OBVIOUS
<1>3. Head(s) \in ToSet(s)
  BY <1>1 DEF ToSet
<1>4. ToSet(s) = {Head(s)} \cup ToSet(Tail(s))
  <2>1. ASSUME NEW i \in 1 .. Len(s) PROVE s[i] = Head(s) \/ s[i] \in ToSet(Tail(s))
    <3>1. CASE i = 1
      BY <1>1, <3>1
    <3>2. CASE i # 1
      <4>1. i - 1 \in 1 .. Len(s) - 1 /\ i = (i - 1) + 1
        BY <1>1, <3>2
      <4>2. Tail(s)[i - 1] = s[i]
        BY <1>2, <4>1
      <4> QED BY <1>2, <4>1, <4>2 DEF ToSet
    <3> QED BY <3>1, <3>2
  <2>2. ASSUME NEW i \in 1 .. Len(s) - 1 PROVE Tail(s)[i] \in ToSet(s)
    <3>1. i + 1 \in 1 .. Len(s) /\ Tail(s)[i] = s[i + 1]
      BY <1>1, <1>2
    <3> QED BY <1>1, <3>1 DEF ToSet
  <2> QED BY <1>1, <1>2, <1>3, <2>1, <2>2 DEF ToSet
<1>5. ASSUME Distinct(s) PROVE Distinct(Tail(s)) /\ Head(s) \notin ToSet(Tail(s))
  <2>1. \A i \in 1 .. Len(s) - 1 : i + 1 \in 1 .. Len(s)
    BY <1>1
  <2>2. Distinct(Tail(s))
    BY <1>1, <1>2, <1>5, <2>1 DEF Distinct
  <2>3. Head(s) \notin ToSet(Tail(s))
    BY <1>1, <1>2, <1>5, <2>1 DEF Distinct, ToSet
  <2> QED BY <2>2, <2>3
<1> QED BY <1>2, <1>3, <1>4, <1>5

LEMMA Concatenation ==
  ASSUME NEW S, NEW s \in Seq(S), NEW t \in Seq(S)
  PROVE  /\ s \o t \in Seq(S) /\ Len(s \o t) = Len(s) + Len(t)
         /\ ToSet(s \o t) = ToSet(s) \cup ToSet(t)
         /\ Distinct(s) /\ Distinct(t) /\ ToSet(s) \cap ToSet(t) = {} => Distinct(s \o t)
<1> DEFINE u == s \o t
<1>1. /\ Len(s) \in Nat /\ Len(t) \in Nat /\ DOMAIN s = 1 .. Len(s) /\ DOMAIN t = 1 .. Len(t)
      /\ u \in Seq(S) /\ Len(u) = Len(s) + Len(t) /\ DOMAIN u = 1 .. Len(s) + Len(t)
  OBVIOUS
<1>2. /\ \A i \in 1 .. Len(s) : u[i] = s[i]
      /\ \A i \in 1 .. Len(t) : u[Len(s) + i] = t[i]
  OBVIOUS
<1>3. \A i \in 1 .. Len(u) : i \in 1 .. Len(s) \/ (i - Len(s) \in 1 .. Len(t) /\ i = Len(s) + (i - Len(s)))
  BY <1>1
<1>4. /\ \A i \in 1 .. Len(s) : i \in 1 .. Len(u)
      /\ \A i \in 1 .. Len(t) : Len(s) + i \in 1 .. Len(u)
  BY <1>1
<1> HIDE DEF u
<1>5. \A i \in 1 .. Len(u) : u[i] \in ToSet(s) \/ u[i] \in ToSet(t)
  BY <1>1, <1>2, <1>3 DEF ToSet
<1>6. ToSet(u) = ToSet(s) \cup ToSet(t)
  <2>1. ToSet(u) \subseteq ToSet(s) \cup ToSet(t)
    BY <1>1, <1>5 DEF ToSet
  <2>2. ToSet(s) \subseteq ToSet(u)
    BY <1>1, <1>2, <1>4 DEF ToSet
  <2>3. ToSet(t) \subseteq ToSet(u)
    BY <1>1, <1>2, <1>4 DEF ToSet
  <2> QED BY <2>1, <2>2, <2>3
<1>7. ASSUME Distinct(s), Distinct(t), ToSet(s) \cap ToSet(t) = {},
             NEW i \in 1 .. Len(u), NEW j \in 1 .. Len(u), u[i] = u[j]
      PROVE  i = j
  <2>1. CASE i \in 1 .. Len(s) /\ j \in 1 .. Len(s)
    BY <1>2, <1>7, <2>1 DEF Distinct
  <2>2. CASE i - Len(s) \in 1 .. Len(t) /\ j - Len(s) \in 1 .. Len(t)
    <3>1. u[i] = t[i - Len(s)] /\ u[j] = t[j - Len(s)]
      BY <1>1, <1>2, <2>2
    <3>2. i - Len(s) = j - Len(s)
      BY <1>7, <2>2, <3>1 DEF Distinct
    <3> QED BY <1>1, <3>2
  <2>3. ASSUME NEW a \in 1 .. Len(u), NEW b \in 1 .. Len(u),
               a \in 1 .. Len(s), b - Len(s) \in 1 .. Len(t)
        PROVE  u[a] # u[b]
    <3>1. u[a] = s[a] /\ u[b] = t[b - Len(s)]
      BY <1>1, <1>2, <2>3
    <3>2. u[a] \in ToSet(s) /\ u[b] \in ToSet(t)
      BY <1>1, <2>3, <3>1 DEF ToSet
    <3> QED BY <1>7, <3>2
  <2> QED BY <1>3, <1>7, <2>1, <2>2, <2>3
<1>8. Distinct(s) /\ Distinct(t) /\ ToSet(s) \cap ToSet(t) = {} => Distinct(u)
  BY <1>7 DEF Distinct
<1> QED BY <1>1, <1>6, <1>8 DEF u

LEMMA Appending ==
  ASSUME NEW S, NEW s \in Seq(S), NEW x \in S
  PROVE  /\ Append(s, x) \in Seq(S) /\ ToSet(Append(s, x)) = ToSet(s) \cup {x}
         /\ Distinct(s) /\ x \notin ToSet(s) => Distinct(Append(s, x))
<1> DEFINE t == <<x>>
<1>1. t \in Seq(S) /\ ToSet(t) = {x} /\ Distinct(t)
  BY DEF ToSet, Distinct
<1>2. Append(s, x) = s \o t
  OBVIOUS
<1> HIDE DEF t
<1> QED BY <1>1, <1>2, Concatenation

\* f is a loop of n turns, from base, with the given steps
IsLoop(f, n, T, base, step) ==
  f \in [0 .. n -> T] /\ f[0] = base /\ \A k \in 1 .. n : f[k] = step[k][f[k - 1]]

LEMMA LoopExists ==
  ASSUME NEW n \in Nat, NEW T, NEW base \in T, NEW step \in [1 .. n -> [T -> T]]
  PROVE  \E f : IsLoop(f, n, T, base, step)
<1> DEFINE P(m, f) == f[0] = base /\ \A k \in 1 .. m : f[k] = step[k][f[k - 1]]
           S == {m \in Nat : m <= n => \E f \in [0 .. m -> T] : P(m, f)}
<1>1. 0 \in S
  <2>1. [j \in 0 .. 0 |-> base] \in [0 .. 0 -> T] /\ P(0, [j \in 0 .. 0 |-> base])
    OBVIOUS
  <2> QED BY <2>1
<1>2. ASSUME NEW m \in S PROVE m + 1 \in S
  <2>1. m \in Nat
    OBVIOUS
  <2>2. m <= n => \E f \in [0 .. m -> T] : P(m, f)
    BY Zenon
  <2> SUFFICES ASSUME m + 1 <= n PROVE \E f \in [0 .. m + 1 -> T] : P(m + 1, f)
    <3>1. m + 1 \in Nat
      BY <2>1
    <3> QED BY <3>1, Zenon
  <2> HIDE DEF S
  <2>3. m <= n
    BY <2>1
  <2>4. PICK f \in [0 .. m -> T] : P(m, f)
    BY <2>2, <2>3, Zenon
  <2> DEFINE y == step[m + 1][f[m]]
             g == [j \in 0 .. m + 1 |-> IF j <= m THEN f[j] ELSE y]
  <2>5. y \in T
    <3>1. m + 1 \in 1 .. n /\ m \in 0 .. m
      BY <2>1
    <3> QED BY <3>1
  <2> HIDE DEF y
  <2>6. g \in [0 .. m + 1 -> T]
    BY <2>1, <2>5
  <2>7. P(m + 1, g)
    <3>1. g[0] = base
      BY <2>1, <2>4
    <3>2. ASSUME NEW k \in 1 .. m + 1 PROVE g[k] = step[k][g[k - 1]]
      <4>1. CASE k = m + 1
        BY <2>1, <4>1 DEF y
      <4>2. CASE k <= m
        <5>1. k \in 1 .. m /\ k \in 0 .. m + 1 /\ k - 1 \in 0 .. m + 1 /\ k - 1 <= m
          BY <2>1, <4>2
        <5>2. g[k] = f[k] /\ g[k - 1] = f[k - 1]
          BY <4>2, <5>1
        <5> QED BY <2>4, <5>1, <5>2
      <4> QED BY <2>1, <4>1, <4>2
    <3> HIDE DEF g
    <3> QED BY <3>1, <3>2
  <2> QED BY <2>6, <2>7
<1>3. S = Nat
  <2>1. S \subseteq Nat
    OBVIOUS
  <2> HIDE DEF S
  <2> QED BY <1>1, <1>2, <2>1, NatSetInduction
<1>4. n \in S
  BY <1>3
<1>5. \E f \in [0 .. n -> T] : P(n, f)
  BY <1>4
<1> QED BY <1>5 DEF IsLoop

LEMMA Flattening ==
  ASSUME NEW S, NEW ss \in Seq(Seq(S))
  PROVE  /\ FlattenSeq(ss) \in Seq(S)
         /\ \A x : x \in ToSet(FlattenSeq(ss)) <=> \E i \in 1 .. Len(ss) : x \in ToSet(ss[i])
         /\ /\ \A i \in 1 .. Len(ss) : Distinct(ss[i])
            /\ \A i, j \in 1 .. Len(ss) : i # j => ToSet(ss[i]) \cap ToSet(ss[j]) = {}
            => Distinct(FlattenSeq(ss))
<1> DEFINE n == Len(ss)
           T == Seq(S)
           Apart == /\ \A i \in 1 .. n : Distinct(ss[i])
                    /\ \A i, j \in 1 .. n : i # j => ToSet(ss[i]) \cap ToSet(ss[j]) = {}
           IsFlat(f) == f = [i \in 1 .. n |-> IF i = 1 THEN ss[i] ELSE f[i - 1] \o ss[i]]
           Good(m, s) == /\ s \in T
                         /\ \A x : x \in ToSet(s) <=> \E i \in 1 .. m : x \in ToSet(ss[i])
                         /\ Apart => Distinct(s)
<1>1. n \in Nat /\ \A i \in 1 .. n : ss[i] \in T
  OBVIOUS
<1>2. CASE n = 0
  <2>1. ss = << >> /\ FlattenSeq(ss) = << >>
    BY <1>2 DEF FlattenSeq
  <2>2. << >> \in Seq(S) /\ ToSet(<< >>) = {} /\ Distinct(<< >>)
    BY DEF ToSet, Distinct
  <2>3. \A i \in 1 .. Len(ss) : FALSE
    BY <1>2
  <2> QED BY <2>1, <2>2, <2>3, Zenon
<1>3. CASE n # 0
  <2>1. \E f : IsFlat(f)
    <3> DEFINE step == [k \in 1 .. n |-> [s \in T |-> s \o ss[k]]]
               none == << >>
    <3>1. step \in [1 .. n -> [T -> T]] /\ none \in T
      BY <1>1, Concatenation
    <3>2. PICK f : IsLoop(f, n, T, none, step)
      <4>1. n \in Nat
        BY <1>1
      <4> HIDE DEF step, n, T, none
      <4> QED BY <3>1, <4>1, LoopExists
    <3>3. \A k \in 1 .. n : k - 1 \in 0 .. n /\ k \in 0 .. n /\ f[k - 1] \in T
      <4>1. n \in Nat /\ f \in [0 .. n -> T]
        BY <1>1, <3>2 DEF IsLoop
      <4> HIDE DEF T, n, step
      <4> QED BY <4>1
    <3>4. \A k \in 1 .. n : f[k] = f[k - 1] \o ss[k]
      <4> HIDE DEF T
      <4> QED BY <3>2, <3>3 DEF IsLoop
    <3>5. f[1] = ss[1]
      <4>1. 1 \in 1 .. n /\ 1 - 1 = 0
        BY <1>1, <1>3
      <4>2. f[1] = << >> \o ss[1] /\ ss[1] \in Seq(S)
        BY <1>1, <3>2, <3>4, <4>1 DEF IsLoop
      <4> QED BY <4>2
    <3> DEFINE g == [k \in 1 .. n |-> f[k]]
    <3>6. ASSUME NEW k \in 1 .. n PROVE g[k] = IF k = 1 THEN ss[k] ELSE g[k - 1] \o ss[k]
      <4>1. k # 1 => k - 1 \in 1 .. n
        BY <1>1
      <4> HIDE DEF T
      <4> QED BY <3>4, <3>5, <4>1
    <3>7. IsFlat(g)
      BY <3>6
    <3> QED BY <3>7
  <2>2. FlattenSeq(ss) = (CHOOSE f : IsFlat(f))[n]
    BY <1>1, <1>3 DEF FlattenSeq
  <2> DEFINE g == CHOOSE f : IsFlat(f)
  <2>3. IsFlat(g)
    BY <2>1
  <2> HIDE DEF g
  <2>4. g[1] = ss[1] /\ \A k \in 1 .. n : k # 1 => g[k] = g[k - 1] \o ss[k]
    <3> DEFINE F == [i \in 1 .. n |-> IF i = 1 THEN ss[i] ELSE g[i - 1] \o ss[i]]
    <3>1. \A k \in 1 .. n : F[k] = IF k = 1 THEN ss[k] ELSE g[k - 1] \o ss[k]
      BY Zenon
    <3>2. g = F
      BY <2>3, Zenon
    <3>3. 1 \in 1 .. n
      BY <1>1, <1>3
    <3> HIDE DEF F
    <3> QED BY <3>1, <3>2, <3>3, Zenon
  <2> DEFINE H == {m \in Nat : m + 1 <= n => Good(m + 1, g[m + 1])}
  <2> HIDE DEF n
  <2>5. 0 \in H
    <3>1. 1 \in 1 .. n /\ 0 + 1 = 1 /\ 1 .. 1 = {1}
      BY <1>1, <1>3
    <3>2. Good(1, g[1])
      BY <1>1, <2>4, <3>1, Zenon
    <3> QED BY <3>1, <3>2
  <2>6. ASSUME NEW m \in H PROVE m + 1 \in H
    <3>1. m \in Nat
      OBVIOUS
    <3>2. m + 1 <= n => Good(m + 1, g[m + 1])
      BY Zenon
    <3> SUFFICES ASSUME m + 2 <= n PROVE Good(m + 2, g[m + 2])
      <4>1. m + 1 \in Nat /\ (m + 1) + 1 = m + 2
        BY <3>1
      <4> HIDE DEF Good
      <4> QED BY <4>1
    <3> HIDE DEF H
    <3>3. /\ m + 2 \in 1 .. n /\ m + 2 # 1 /\ (m + 2) - 1 = m + 1 /\ m + 1 <= n
          /\ \A i : i \in 1 .. m + 2 <=> (i \in 1 .. m + 1 \/ i = m + 2)
          /\ \A i \in 1 .. m + 1 : i \in 1 .. n /\ i # m + 2
      BY <1>1, <3>1
    <3> DEFINE s == g[m + 1]
               t == ss[m + 2]
    <3>4. g[m + 2] = s \o t /\ t \in T
      BY <1>1, <2>4, <3>3
    <3>5. Good(m + 1, s)
      BY <3>2, <3>3
    <3> HIDE DEF s
    <3>6. /\ s \o t \in T /\ ToSet(s \o t) = ToSet(s) \cup ToSet(t)
          /\ Distinct(s) /\ Distinct(t) /\ ToSet(s) \cap ToSet(t) = {} => Distinct(s \o t)
      BY <3>4, <3>5, Concatenation
    <3>7. \A x : x \in ToSet(s \o t) <=> \E i \in 1 .. m + 2 : x \in ToSet(ss[i])
      <4> HIDE DEF T
      <4> QED BY <3>3, <3>5, <3>6, Zenon
    <3>8. ASSUME Apart PROVE Distinct(s \o t)
      <4>1. Distinct(s) /\ Distinct(t)
        BY <3>3, <3>5, <3>8, Zenon
      <4>2. ASSUME NEW x \in ToSet(s), x \in ToSet(t) PROVE FALSE
        <5>1. PICK i \in 1 .. m + 1 : x \in ToSet(ss[i])
          BY <3>5, Zenon
        <5>2. i \in 1 .. n /\ i # m + 2 /\ m + 2 \in 1 .. n
          BY <3>3, Zenon
        <5>3. ToSet(ss[i]) \cap ToSet(ss[m + 2]) = {}
          BY <3>8, <5>2, Zenon
        <5> QED BY <4>2, <5>1, <5>3, Zenon
      <4> HIDE DEF T
      <4> QED BY <3>6, <4>1, <4>2, Zenon
    <3> HIDE DEF Apart, t
    <3> QED BY <3>4, <3>6, <3>7, <3>8, Zenon
  <2>7. H = Nat
    <3>1. H \subseteq Nat
      OBVIOUS
    <3> HIDE DEF H
    <3> QED BY <2>5, <2>6, <3>1, NatSetInduction
  <2>8. n - 1 \in H /\ (n - 1) + 1 = n
    <3> HIDE DEF H
    <3> QED BY <1>1, <1>3, <2>7
  <2>9. Good(n, g[n])
    <3> HIDE DEF Good
    <3> QED BY <1>1, <2>8
  <2> QED BY <2>2, <2>9, Zenon DEF g, n
<1> QED BY <1>2, <1>3

-----------------------------------------------------------------------------
(***************************************************************************)
(* The rules of a manager: what normalizedChains keeps, that the rules of  *)
(* a backend are distinct, and that Cleanup goes through all of them.      *)
(***************************************************************************)
LEMMA ChainsOnce ==
  ASSUME NEW raw, Len(raw) \in Nat, NEW W, \A k \in 1 .. Len(raw) : raw[k].word \in W
  PROVE  /\ normalizedChains(raw) \in Seq(W) /\ Distinct(normalizedChains(raw))
         /\ \A x : x \in ToSet(normalizedChains(raw)) <=>
                     x # "" /\ \E k \in 1 .. Len(raw) : raw[k].word = x
<1> DEFINE n == Len(raw)
           T == Seq(W)
           Next1(s, w) == IF w = "" \/ Contains(s, w) THEN s ELSE Append(s, w)
           IsOut(f) ==
             f = [k \in 0 .. n |->
                    IF k = 0 THEN << >>
                    ELSE LET chain == normalizeChoice(raw[k], "")
                         IN  IF chain = "" \/ Contains(f[k - 1], chain) THEN f[k - 1]
                             ELSE Append(f[k - 1], chain)]
           Good(m, s) == /\ s \in T /\ Distinct(s)
                         /\ \A x : x \in ToSet(s) <=>
                                     x # "" /\ \E k \in 1 .. m : raw[k].word = x
<1>1. \A k \in 1 .. n : normalizeChoice(raw[k], "") = raw[k].word
  BY DEF normalizeChoice
<1>2. ASSUME NEW s \in T, NEW w \in W
      PROVE  /\ Next1(s, w) \in T
             /\ Distinct(s) => Distinct(Next1(s, w))
             /\ ToSet(Next1(s, w)) = ToSet(s) \cup ({w} \ {""})
  <2>1. Contains(s, w) <=> w \in ToSet(s)
    BY SeqElements DEF Contains
  <2>2. CASE w = "" \/ w \in ToSet(s)
    <3>1. Next1(s, w) = s
      BY <2>1, <2>2
    <3> HIDE DEF Next1, T
    <3> QED BY <2>2, <3>1
  <2>3. CASE w # "" /\ w \notin ToSet(s)
    <3>1. Next1(s, w) = Append(s, w)
      BY <2>1, <2>3
    <3>2. /\ Append(s, w) \in T /\ ToSet(Append(s, w)) = ToSet(s) \cup {w}
          /\ Distinct(s) => Distinct(Append(s, w))
      BY <2>3, Appending
    <3> HIDE DEF Next1, T
    <3> QED BY <2>3, <3>1, <3>2
  <2> QED BY <2>2, <2>3
<1>3. \E f : IsOut(f)
  <2> DEFINE step == [k \in 1 .. n |-> [s \in T |-> Next1(s, raw[k].word)]]
             none == << >>
  <2>1. step \in [1 .. n -> [T -> T]] /\ none \in T
    <3>1. none \in T
      OBVIOUS
    <3>2. \A k \in 1 .. n : raw[k].word \in W
      OBVIOUS
    <3> HIDE DEF Next1, T, none, n
    <3>3. \A k \in 1 .. n : \A s \in T : Next1(s, raw[k].word) \in T
      BY <1>2, <3>2
    <3> QED BY <3>1, <3>3
  <2>2. PICK f : IsLoop(f, n, T, none, step)
    <3>1. n \in Nat
      OBVIOUS
    <3> HIDE DEF step, n, T, none
    <3> QED BY <2>1, <3>1, LoopExists
  <2>3. n \in Nat /\ f \in [0 .. n -> T]
    BY <2>2 DEF IsLoop
  <2>4. \A k \in 1 .. n : f[k - 1] \in T
    <3> HIDE DEF T, n, step
    <3> QED BY <2>3
  <2>5. \A k \in 1 .. n : f[k] = Next1(f[k - 1], raw[k].word)
    <3> HIDE DEF T, n, Next1
    <3> QED BY <2>2, <2>4 DEF IsLoop
  <2>6. f[0] = << >>
    BY <2>2 DEF IsLoop
  <2> DEFINE F == [k \in 0 .. n |->
                     IF k = 0 THEN << >>
                     ELSE LET chain == normalizeChoice(raw[k], "")
                          IN  IF chain = "" \/ Contains(f[k - 1], chain) THEN f[k - 1]
                              ELSE Append(f[k - 1], chain)]
  <2>7. ASSUME NEW k \in 0 .. n PROVE F[k] = f[k]
    <3>1. k # 0 => k \in 1 .. n
      BY <2>3
    <3> HIDE DEF n
    <3> QED BY <1>1, <2>5, <2>6, <3>1, Zenon
  <2>8. f = [k \in 0 .. n |-> f[k]] /\ F = [k \in 0 .. n |-> F[k]]
    <3> HIDE DEF T, n
    <3> QED BY <2>3, Zenon
  <2>9. f = F
    <3> HIDE DEF F, n
    <3> QED BY <2>7, <2>8
  <2> QED BY <2>9
<1> DEFINE g == CHOOSE f : IsOut(f)
<1>4. normalizedChains(raw) = g[n]
  BY DEF normalizedChains
<1>5. IsOut(g)
  BY <1>3
<1> HIDE DEF g
<1>6. g[0] = << >> /\ \A k \in 1 .. n : g[k] = Next1(g[k - 1], raw[k].word)
  <2> DEFINE F == [k \in 0 .. n |->
                     IF k = 0 THEN << >>
                     ELSE LET chain == normalizeChoice(raw[k], "")
                          IN  IF chain = "" \/ Contains(g[k - 1], chain) THEN g[k - 1]
                              ELSE Append(g[k - 1], chain)]
  <2>1. g = F
    BY <1>5, Zenon
  <2>2. 0 \in 0 .. n /\ \A k \in 1 .. n : k \in 0 .. n /\ k # 0
    OBVIOUS
  <2>3. \A k \in 1 .. n : F[k] = Next1(g[k - 1], raw[k].word)
    <3> HIDE DEF n
    <3> QED BY <1>1, <2>2, Zenon
  <2>4. F[0] = << >>
    BY <2>2, Zenon
  <2> HIDE DEF F
  <2> QED BY <2>1, <2>3, <2>4, Zenon
<1> DEFINE H == {m \in Nat : m <= n => Good(m, g[m])}
<1>7. n \in Nat /\ \A k \in 1 .. n : raw[k].word \in W
  OBVIOUS
<1> HIDE DEF n
<1>8. 0 \in H
  <2>1. \A k \in 1 .. 0 : FALSE
    OBVIOUS
  <2>2. << >> \in T /\ Distinct(<< >>) /\ ToSet(<< >>) = {}
    BY DEF Distinct, ToSet
  <2>3. Good(0, g[0])
    <3> HIDE DEF T
    <3> QED BY <1>6, <2>1, <2>2, Zenon
  <2> QED BY <2>3
<1>9. ASSUME NEW m \in H PROVE m + 1 \in H
  <2>1. m \in Nat
    OBVIOUS
  <2>2. m <= n => Good(m, g[m])
    BY Zenon
  <2> SUFFICES ASSUME m + 1 <= n PROVE Good(m + 1, g[m + 1])
    <3> HIDE DEF Good
    <3> QED BY <2>1
  <2> HIDE DEF H
  <2>3. /\ m + 1 \in 1 .. n /\ (m + 1) - 1 = m /\ m <= n
        /\ \A k : k \in 1 .. m + 1 <=> (k \in 1 .. m \/ k = m + 1)
    BY <1>7, <2>1
  <2> DEFINE s == g[m]
             w == raw[m + 1].word
  <2>4. Good(m, s)
    BY <2>2, <2>3
  <2>5. w \in W /\ g[m + 1] = Next1(s, w)
    <3> HIDE DEF Next1
    <3> QED BY <1>6, <1>7, <2>3
  <2>6. /\ Next1(s, w) \in T /\ Distinct(Next1(s, w))
        /\ ToSet(Next1(s, w)) = ToSet(s) \cup ({w} \ {""})
    <3> HIDE DEF Next1, T, s, w
    <3> QED BY <1>2, <2>4, <2>5, Zenon
  <2>7. ASSUME NEW x
        PROVE  x \in ToSet(Next1(s, w)) <=> x # "" /\ \E k \in 1 .. m + 1 : raw[k].word = x
    <3>1. (\E k \in 1 .. m + 1 : raw[k].word = x) <=> ((\E k \in 1 .. m : raw[k].word = x) \/ w = x)
      <4> HIDE DEF s
      <4> QED BY <2>3, Zenon
    <3>2. x \in ToSet(s) <=> x # "" /\ \E k \in 1 .. m : raw[k].word = x
      <4> HIDE DEF T
      <4> QED BY <2>4, Zenon
    <3> HIDE DEF Next1, s, w
    <3> QED BY <2>6, <3>1, <3>2
  <2> HIDE DEF Next1, T, s, w
  <2> QED BY <2>5, <2>6, <2>7
<1>10. H = Nat
  <2>1. H \subseteq Nat
    OBVIOUS
  <2> HIDE DEF H
  <2> QED BY <1>8, <1>9, <2>1, NatSetInduction
<1>11. Good(n, g[n])
  <2>1. n \in H
    <3> HIDE DEF H
    <3> QED BY <1>7, <1>10
  <2> HIDE DEF Good
  <2> QED BY <1>7, <2>1
<1> QED BY <1>4, <1>11, Zenon DEF n

Labels == {"nft", "iptables", "iptables-legacy"}

LEMMA FoundFacts ==
  ASSUME NEW bin, NEW W, bin \in W, NEW found
  PROVE  /\ Found(bin, found) \in Seq(W) /\ Len(Found(bin, found)) <= 1
         /\ ToSet(Found(bin, found)) \subseteq {bin} /\ Distinct(Found(bin, found))
<1>1. CASE bin \in found
  <2>1. Found(bin, found) = <<bin>>
    BY <1>1 DEF Found
  <2>2. <<bin>> \in Seq(W) /\ Len(<<bin>>) <= 1 /\ ToSet(<<bin>>) = {bin} /\ Distinct(<<bin>>)
    BY DEF ToSet, Distinct
  <2> QED BY <2>1, <2>2
<1>2. CASE bin \notin found
  <2>1. Found(bin, found) = << >>
    BY <1>2 DEF Found
  <2>2. << >> \in Seq(W) /\ Len(<< >>) <= 1 /\ ToSet(<< >>) = {} /\ Distinct(<< >>)
    BY DEF ToSet, Distinct
  <2> QED BY <2>1, <2>2
<1> QED BY <1>1, <1>2

LEMMA CandidatesFacts ==
  ASSUME NEW c \in Config
  PROVE  /\ Candidates(c) \in Seq(Labels) /\ Len(Candidates(c)) \in 0 .. 3
         /\ NoManager(c) => Candidates(c) = << >>
<1>1. CASE NoManager(c)
  BY <1>1 DEF Candidates
<1>2. CASE ~NoManager(c) /\ IsAuto(c)
  <2> DEFINE a1 == Found("nft", c.tools)
             a2 == Found("iptables", c.tools)
             a3 == Found("iptables-legacy", c.tools)
  <2>1. a1 \in Seq(Labels) /\ a2 \in Seq(Labels) /\ a3 \in Seq(Labels)
    BY FoundFacts DEF Labels
  <2>2. Len(a1) <= 1 /\ Len(a2) <= 1 /\ Len(a3) <= 1
    BY FoundFacts
  <2>3. Candidates(c) = a1 \o a2 \o a3
    BY <1>2 DEF Candidates
  <2> HIDE DEF a1, a2, a3
  <2>4. a1 \o a2 \in Seq(Labels) /\ Len(a1 \o a2) = Len(a1) + Len(a2)
    BY <2>1, Concatenation
  <2>5. /\ (a1 \o a2) \o a3 \in Seq(Labels)
        /\ Len((a1 \o a2) \o a3) = Len(a1) + Len(a2) + Len(a3)
    BY <2>1, <2>4, Concatenation
  <2>6. Len(a1) \in Nat /\ Len(a2) \in Nat /\ Len(a3) \in Nat
    BY <2>1
  <2> QED BY <1>2, <2>2, <2>3, <2>5, <2>6
<1>3. CASE ~NoManager(c) /\ ~IsAuto(c)
  <2>1. Chosen(c) \in Labels
    BY <1>3, FirewallAssumption DEF NoManager, IsAuto, Chosen, Labels, Backend
  <2>2. Candidates(c) = Found(Chosen(c), c.tools)
    BY <1>3 DEF Candidates
  <2>3. Candidates(c) \in Seq(Labels) /\ Len(Candidates(c)) <= 1
    BY <2>1, <2>2, FoundFacts
  <2>4. Len(Candidates(c)) \in Nat
    BY <2>3
  <2>5. Len(Candidates(c)) \in 0 .. 3
    <3> DEFINE n == Len(Candidates(c))
    <3>1. n \in Nat /\ n <= 1
      BY <2>3, <2>4
    <3> HIDE DEF n
    <3>2. n \in 0 .. 3
      BY <3>1
    <3> QED BY <3>2 DEF n
  <2> QED BY <1>3, <2>3, <2>5
<1> QED BY <1>1, <1>2, <1>3

\* the rules of one chain
RulesAt(bin, chain, ms, args) == [k \in DOMAIN ms |-> Rule(bin, chain, ms[k], args)]

LEMMA ChainRules ==
  ASSUME NEW M, NEW ms \in Seq(M), Distinct(ms), NEW args, NEW B, NEW bin \in B,
         NEW C, NEW chain \in C
  PROVE  /\ RulesAt(bin, chain, ms, args) \in Seq([bin : B, chain : C, match : M, args : {args}])
         /\ Distinct(RulesAt(bin, chain, ms, args))
         /\ \A r \in ToSet(RulesAt(bin, chain, ms, args)) : r.bin = bin /\ r.chain = chain
<1> DEFINE s == RulesAt(bin, chain, ms, args)
           S == [bin : B, chain : C, match : M, args : {args}]
<1>1. Len(ms) \in Nat /\ DOMAIN ms = 1 .. Len(ms) /\ \A k \in 1 .. Len(ms) : ms[k] \in M
  OBVIOUS
<1>2. \A k \in 1 .. Len(ms) : Rule(bin, chain, ms[k], args) \in S
  BY <1>1 DEF Rule
<1>3. s \in Seq(S) /\ Len(s) = Len(ms)
  <2> HIDE DEF S
  <2> QED BY <1>1, <1>2 DEF RulesAt
<1>4. /\ \A k \in 1 .. Len(ms) : s[k].match = ms[k] /\ s[k].bin = bin /\ s[k].chain = chain
      /\ DOMAIN s = 1 .. Len(ms)
  BY <1>1 DEF Rule, RulesAt
<1> HIDE DEF s, S
<1>5. Distinct(s)
  BY <1>3, <1>4 DEF Distinct
<1>6. \A r \in ToSet(s) : r.bin = bin /\ r.chain = chain
  BY <1>4 DEF ToSet
<1> QED BY <1>3, <1>5, <1>6 DEF s, S

LEMMA MatchesFacts ==
  ASSUME NEW c
  PROVE  Matches(c) \in Seq({"any", "tcp80", "tcp443", "udp53"}) /\ Distinct(Matches(c))
<1>1. CASE c.capture = "all"
  <2>1. Matches(c) = <<"any">>
    BY <1>1 DEF Matches
  <2> QED BY <2>1 DEF Distinct
<1>2. CASE c.capture # "all"
  <2>1. Matches(c) = <<"tcp80", "tcp443", "udp53">>
    BY <1>2 DEF Matches
  <2> QED BY <2>1 DEF Distinct
<1> QED BY <1>1, <1>2

LEMMA RulesDistinct ==
  ASSUME NEW c \in Config, NEW b \in Labels
  PROVE  Rules(c, b) \in Seq(RuleSpace) /\ Distinct(Rules(c, b))
<1>1. ASSUME NEW r \in ToSet(Rules(c, b)) PROVE r \in RuleSpace
  <2>1. \E i \in 1 .. 3 : b = Label[i]
    BY DEF Labels, Label
  <2> QED BY <2>1 DEF RuleSpace
<1>2. ASSUME NEW S, Rules(c, b) \in Seq(S) PROVE Rules(c, b) \in Seq(RuleSpace)
  <2> DEFINE s == Rules(c, b)
  <2>1. Len(s) \in Nat /\ s = [i \in 1 .. Len(s) |-> s[i]]
    BY <1>2
  <2>2. \A i \in 1 .. Len(s) : s[i] \in RuleSpace
    BY <1>1, <1>2, SeqElements
  <2> HIDE DEF s
  <2>3. s \in Seq(RuleSpace)
    BY <2>1, <2>2
  <2> QED BY <2>3 DEF s
<1>3. CASE b = "nft"
  <2>1. Rules(c, b) = <<nftTable>>
    BY <1>3 DEF Rules
  <2>2. <<nftTable>> \in Seq({nftTable}) /\ Distinct(<<nftTable>>)
    BY DEF Distinct
  <2> QED BY <1>2, <2>1, <2>2
<1>4. CASE b # "nft"
  <2> DEFINE bins == Found(b, c.tools) \o Found(ipv6Bin(b), c.tools)
             chains == normalizedChains(c.chains)
             M == {"any", "tcp80", "tcp443", "udp53"}
             B == {b, ipv6Bin(b)}
             S == [bin : B, chain : STRING, match : M, args : {queueArgs(c)}]
             of(bin, chain) == RulesAt(bin, chain, Matches(c), queueArgs(c))
             ofBin(bin) == [j \in DOMAIN chains |-> of(bin, chains[j])]
             all == [i \in DOMAIN bins |-> FlattenSeq(ofBin(bins[i]))]
  <2>1. Rules(c, b) = FlattenSeq(all)
    BY <1>4 DEF Rules, RulesAt
  <2>2. chains \in Seq(STRING) /\ Distinct(chains)
    <3> DEFINE R == [word : STRING, spelled : STRING]
               raw == c.chains
    <3>1. raw \in Seq(R)
      BY FirewallAssumption
    <3>2. \A x \in R : x.word \in STRING
      OBVIOUS
    <3> HIDE DEF R, raw
    <3>3. Len(raw) \in Nat /\ \A k \in 1 .. Len(raw) : raw[k] \in R
      BY <3>1
    <3>4. \A k \in 1 .. Len(raw) : raw[k].word \in STRING
      BY <3>2, <3>3
    <3>5. normalizedChains(raw) \in Seq(STRING) /\ Distinct(normalizedChains(raw))
      BY <3>3, <3>4, ChainsOnce
    <3> QED BY <3>5 DEF raw
  <2>3. bins \in Seq(B) /\ Distinct(bins)
    <3> DEFINE b4 == Found(b, c.tools)
               b6 == Found(ipv6Bin(b), c.tools)
    <3>1. /\ b4 \in Seq(B) /\ b6 \in Seq(B) /\ Distinct(b4) /\ Distinct(b6)
          /\ ToSet(b4) \subseteq {b} /\ ToSet(b6) \subseteq {ipv6Bin(b)}
      BY FoundFacts
    <3>2. b # ipv6Bin(b)
      BY DEF Labels, ipv6Bin
    <3>3. ToSet(b4) \cap ToSet(b6) = {}
      BY <3>1, <3>2
    <3>4. bins = b4 \o b6
      OBVIOUS
    <3> HIDE DEF b4, b6, B, bins
    <3> QED BY <3>1, <3>3, <3>4, Concatenation
  <2>4. Matches(c) \in Seq(M) /\ Distinct(Matches(c))
    BY MatchesFacts
  <2> HIDE DEF bins, chains, M, B
  <2>5. ASSUME NEW bin \in B, NEW chain \in STRING
        PROVE  /\ of(bin, chain) \in Seq(S) /\ Distinct(of(bin, chain))
               /\ \A r \in ToSet(of(bin, chain)) : r.bin = bin /\ r.chain = chain
    BY <2>4, ChainRules
  <2> HIDE DEF S, of
  <2>6. ASSUME NEW bin \in B
        PROVE  /\ FlattenSeq(ofBin(bin)) \in Seq(S) /\ Distinct(FlattenSeq(ofBin(bin)))
               /\ \A r \in ToSet(FlattenSeq(ofBin(bin))) : r.bin = bin
    <3> DEFINE ss == ofBin(bin)
               T == Seq(S)
    <3>1. Len(chains) \in Nat /\ DOMAIN chains = 1 .. Len(chains)
          /\ \A j \in 1 .. Len(chains) : chains[j] \in STRING
      BY <2>2, SeqElements
    <3>2. \A j \in 1 .. Len(chains) : ss[j] = of(bin, chains[j])
      BY <3>1
    <3>3. \A j \in 1 .. Len(chains) : of(bin, chains[j]) \in T
      BY <2>5, <3>1
    <3>4. ss \in Seq(T) /\ Len(ss) = Len(chains)
      <4> HIDE DEF T
      <4> QED BY <3>1, <3>3
    <3> HIDE DEF ss
    <3>5. ASSUME NEW j \in 1 .. Len(ss)
          PROVE  Distinct(ss[j]) /\ \A r \in ToSet(ss[j]) : r.bin = bin /\ r.chain = chains[j]
      <4>1. chains[j] \in STRING /\ ss[j] = of(bin, chains[j])
        BY <3>1, <3>2, <3>4
      <4> DEFINE w == chains[j]
      <4>2. w \in STRING
        BY <4>1
      <4> HIDE DEF w
      <4>3. Distinct(of(bin, w)) /\ \A r \in ToSet(of(bin, w)) : r.bin = bin /\ r.chain = w
        BY <2>5, <4>2
      <4>4. ss[j] = of(bin, w)
        BY <4>1 DEF w
      <4>5. Distinct(ss[j]) /\ \A r \in ToSet(ss[j]) : r.bin = bin /\ r.chain = w
        BY <4>3, <4>4
      <4> QED BY <4>5 DEF w
    <3>6. ASSUME NEW i \in 1 .. Len(ss), NEW j \in 1 .. Len(ss), i # j
          PROVE  ToSet(ss[i]) \cap ToSet(ss[j]) = {}
      <4>1. chains[i] # chains[j]
        BY <2>2, <3>4, <3>6 DEF Distinct
      <4> QED BY <3>5, <4>1
    <3>7. /\ FlattenSeq(ss) \in Seq(S) /\ Distinct(FlattenSeq(ss))
          /\ \A x : x \in ToSet(FlattenSeq(ss)) <=> \E i \in 1 .. Len(ss) : x \in ToSet(ss[i])
      BY <3>4, <3>5, <3>6, Flattening
    <3> QED BY <3>5, <3>7, Zenon DEF ss
  <2> HIDE DEF ofBin
  <2> DEFINE T == Seq(S)
  <2>7. /\ Len(bins) \in Nat /\ DOMAIN bins = 1 .. Len(bins)
        /\ \A i \in 1 .. Len(bins) : bins[i] \in B
    BY <2>3, SeqElements
  <2>8. \A i \in 1 .. Len(bins) : all[i] = FlattenSeq(ofBin(bins[i])) /\ FlattenSeq(ofBin(bins[i])) \in T
    BY <2>6, <2>7
  <2>9. all \in Seq(T) /\ Len(all) = Len(bins)
    <3> HIDE DEF T
    <3> QED BY <2>7, <2>8
  <2> HIDE DEF all
  <2>10. \A i \in 1 .. Len(all) : Distinct(all[i]) /\ \A r \in ToSet(all[i]) : r.bin = bins[i]
    BY <2>6, <2>7, <2>8, <2>9, Zenon
  <2>11. ASSUME NEW i \in 1 .. Len(all), NEW j \in 1 .. Len(all), i # j
         PROVE  ToSet(all[i]) \cap ToSet(all[j]) = {}
    <3>1. bins[i] # bins[j]
      BY <2>3, <2>9, <2>11 DEF Distinct
    <3> QED BY <2>10, <3>1
  <2>12. FlattenSeq(all) \in Seq(S) /\ Distinct(FlattenSeq(all))
    BY <2>9, <2>10, <2>11, Flattening
  <2> QED BY <1>2, <2>1, <2>12
<1> QED BY <1>3, <1>4

LEMMA RulesOfFacts ==
  ASSUME NEW c \in Config, NEW i \in 1 .. Len(Candidates(c))
  PROVE  RulesOf(c, i) \in Seq(RuleSpace) /\ Distinct(RulesOf(c, i))
<1>1. Candidates(c)[i] \in Labels
  BY CandidatesFacts, SeqElements
<1> QED BY <1>1, RulesDistinct DEF RulesOf

LEMMA AllRulesFacts ==
  ASSUME NEW c \in Config
  PROVE  /\ AllRules(c) \in Seq(RuleSpace)
         /\ \A r : r \in ToSet(AllRules(c)) <=>
                     \E i \in 1 .. Len(Candidates(c)) : r \in ToSet(RulesOf(c, i))
<1> DEFINE ss == [i \in DOMAIN Candidates(c) |-> RulesOf(c, i)]
           T == Seq(RuleSpace)
           n == Len(Candidates(c))
<1>1. n \in Nat /\ DOMAIN Candidates(c) = 1 .. n
  BY CandidatesFacts, SeqElements
<1>2. \A i \in 1 .. n : ss[i] = RulesOf(c, i) /\ RulesOf(c, i) \in T
  BY <1>1, RulesOfFacts
<1>3. ss \in Seq(T) /\ Len(ss) = n
  <2> HIDE DEF T, n
  <2> QED BY <1>1, <1>2
<1>4. AllRules(c) = FlattenSeq(ss)
  BY DEF AllRules
<1> HIDE DEF ss, n
<1>5. /\ FlattenSeq(ss) \in Seq(RuleSpace)
      /\ \A x : x \in ToSet(FlattenSeq(ss)) <=> \E i \in 1 .. Len(ss) : x \in ToSet(ss[i])
  BY <1>3, Flattening
<1> QED BY <1>2, <1>3, <1>4, <1>5, Zenon DEF n

-----------------------------------------------------------------------------
(***************************************************************************)
(* Type correctness and the place in the loops.                            *)
(***************************************************************************)
LEMMA TodoFacts ==
  ASSUME todo \in Seq(RuleSpace), todo # << >>
  PROVE  /\ Head(todo) \in RuleSpace /\ Head(todo) \in ToSet(todo)
         /\ Tail(todo) \in Seq(RuleSpace) /\ ToSet(todo) = {Head(todo)} \cup ToSet(Tail(todo))
         /\ Distinct(todo) => Distinct(Tail(todo)) /\ Head(todo) \notin ToSet(Tail(todo))
BY HeadTail, SeqElements

LEMMA NoneTodo == << >> \in Seq(RuleSpace) /\ ToSet(<< >>) = {} /\ Distinct(<< >>)
BY DEF ToSet, Distinct

LEMMA UpToThree ==
  ASSUME NEW n \in 0 .. 3, NEW i \in Nat, i <= n
  PROVE  i \in 0 .. 3 /\ (1 <= i => i \in 1 .. n)
OBVIOUS

LEMMA CandidateFacts ==
  ASSUME NEW c \in Config, NEW i \in Nat, 1 <= i, i <= Len(Candidates(c))
  PROVE  /\ i \in 0 .. 3 /\ ToSet(RulesOf(c, i)) \subseteq ToSet(AllRules(c))
         /\ RulesOf(c, i) \in Seq(RuleSpace) /\ Distinct(RulesOf(c, i))
         /\ ToSet(RulesOf(c, i)) \subseteq RuleSpace
<1>1. Len(Candidates(c)) \in 0 .. 3
  BY CandidatesFacts
<1>2. i \in 0 .. 3 /\ i \in 1 .. Len(Candidates(c))
  BY <1>1, UpToThree
<1>3. RulesOf(c, i) \in Seq(RuleSpace) /\ Distinct(RulesOf(c, i))
  BY <1>2, RulesOfFacts
<1>4. ToSet(RulesOf(c, i)) \subseteq ToSet(AllRules(c))
  BY <1>2, AllRulesFacts
<1> QED BY <1>2, <1>3, <1>4, SeqElements

LEMMA ManagerFacts ==
  ASSUME NEW c \in Config
  PROVE  /\ Len(Candidates(c)) \in 0 .. 3
         /\ NoManager(c) => Len(Candidates(c)) = 0
         /\ ~NoManager(c) /\ ~ManagerFails(c) => 1 <= Len(Candidates(c))
         /\ AllRules(c) \in Seq(RuleSpace) /\ ToSet(AllRules(c)) \subseteq RuleSpace
<1>1. Candidates(c) \in Seq(Labels) /\ Len(Candidates(c)) \in 0 .. 3
  BY CandidatesFacts
<1>2. Candidates(c) # << >> => Len(Candidates(c)) # 0
  BY <1>1
<1>3. NoManager(c) => Len(Candidates(c)) = 0
  BY CandidatesFacts
<1>4. ~NoManager(c) /\ ~ManagerFails(c) => 1 <= Len(Candidates(c))
  <2>1. \A n \in 0 .. 3 : n # 0 => 1 <= n
    OBVIOUS
  <2> QED BY <1>1, <1>2, <2>1 DEF ManagerFails
<1>5. AllRules(c) \in Seq(RuleSpace)
  BY AllRulesFacts
<1> QED BY <1>1, <1>3, <1>4, <1>5, SeqElements

\* the types of what is not a place in a loop
Others ==
  /\ cfg \in Config
  /\ table \in [RuleSpace -> Nat]
  /\ cancelled \in BOOLEAN /\ dirty \in BOOLEAN
  /\ exit \in {"none", "ended", "failed", "crash", "refused"}
  /\ deleteFaults \in Nat /\ crashes \in Nat /\ changes \in Nat
  /\ unclean \subseteq Config

LEMMA TypeParts ==
  TypeOK <=> /\ Others
             /\ mode \in {"down", "preclean", "insert", "undo", "up", "cleanup"}
             /\ cand \in 0 .. 3 /\ todo \in Seq(RuleSpace) /\ tries \in 0 .. DeleteTries - 1
BY DEF TypeOK, Others

\* where Install and Cleanup begin a loop
LEMMA EnterFacts ==
  ASSUME TypeOK, LoopInv, NEW m \in {"preclean", "insert", "undo", "up", "cleanup", "down"},
         NEW i \in Nat, NEW rules, Enter(m, i, rules), cfg' = cfg,
         m \in {"preclean", "insert", "undo"} =>
           1 <= i /\ i <= Len(Candidates(cfg)) /\ rules = RulesOf(cfg, i),
         m = "cleanup" => i <= Len(Candidates(cfg)) /\ rules = AllRules(cfg),
         m = "up" => i <= Len(Candidates(cfg)) /\ rules = << >>,
         m = "down" => i = 0 /\ rules = << >>
  PROVE  /\ mode' = m /\ cand' = i /\ todo' = rules /\ tries' = 0
         /\ cand' \in 0 .. 3 /\ todo' \in Seq(RuleSpace) /\ tries' \in 0 .. DeleteTries - 1
         /\ cand' <= Len(Candidates(cfg'))
         /\ m \in {"preclean", "insert", "undo"} =>
              cand' >= 1 /\ ToSet(todo') = Current' /\ Distinct(todo')
         /\ m = "cleanup" => ToSet(todo') = OwnRules'
         /\ m \in {"up", "down"} => todo' = << >>
<1>1. mode' = m /\ cand' = i /\ todo' = rules /\ tries' = 0
  BY DEF Enter
<1>2. cfg \in Config /\ cfg' = cfg
  BY DEF TypeOK
<1>3. Len(Candidates(cfg)) \in 0 .. 3
  BY <1>2, ManagerFacts
<1>4. 0 \in 0 .. DeleteTries - 1
  BY FirewallAssumption
<1>5. CASE m \in {"preclean", "insert", "undo"}
  <2>1. i \in 0 .. 3 /\ RulesOf(cfg, i) \in Seq(RuleSpace) /\ Distinct(RulesOf(cfg, i))
    BY <1>2, <1>5, CandidateFacts
  <2> QED BY <1>1, <1>2, <1>4, <1>5, <2>1 DEF Current
<1>6. CASE m = "cleanup"
  <2>1. i \in 0 .. 3 /\ AllRules(cfg) \in Seq(RuleSpace)
    BY <1>2, <1>3, <1>6, ManagerFacts, UpToThree
  <2> QED BY <1>1, <1>2, <1>4, <1>6, <2>1 DEF OwnRules
<1>7. CASE m \in {"up", "down"}
  <2>0. CASE m = "down"
    <3>1. \A n \in 0 .. 3 : 0 <= n
      OBVIOUS
    <3>2. 0 \in 0 .. 3 /\ 0 <= Len(Candidates(cfg))
      BY <1>3, <3>1
    <3> QED BY <1>1, <1>2, <1>4, <2>0, <3>2, NoneTodo
  <2>1. CASE m = "up"
    <3>1. i \in 0 .. 3 /\ i <= Len(Candidates(cfg))
      BY <1>3, <2>1, UpToThree
    <3> QED BY <1>1, <1>2, <1>4, <2>1, <3>1, NoneTodo
  <2> QED BY <1>7, <2>0, <2>1
<1> QED BY <1>5, <1>6, <1>7

LEMMA NextRuleFacts ==
  ASSUME TypeOK, LoopInv, NextRule, todo # << >>, cfg' = cfg
  PROVE  /\ mode' = mode /\ cand' = cand /\ Current' = Current /\ OwnRules' = OwnRules
         /\ todo' \in Seq(RuleSpace) /\ ToSet(todo) = {Head(todo)} \cup ToSet(todo')
         /\ Distinct(todo) => Distinct(todo') /\ Head(todo) \notin ToSet(todo')
         /\ tries' = 0 /\ tries' \in 0 .. DeleteTries - 1
         /\ Head(todo) \in RuleSpace
BY TodoFacts, FirewallAssumption DEF NextRule, TypeOK, Current, OwnRules

LEMMA EnterLoop ==
  ASSUME TypeOK, LoopInv, NEW m \in {"preclean", "insert", "undo", "up", "cleanup", "down"},
         NEW i \in Nat, NEW rules, Enter(m, i, rules), cfg' = cfg,
         m \in {"preclean", "insert", "undo"} =>
           1 <= i /\ i <= Len(Candidates(cfg)) /\ rules = RulesOf(cfg, i),
         m = "cleanup" => i <= Len(Candidates(cfg)) /\ rules = AllRules(cfg),
         m = "up" => i <= Len(Candidates(cfg)) /\ rules = << >>,
         m = "down" => i = 0 /\ rules = << >>,
         m = "undo" => Current' # {}, exit' \in {"ended", "failed"} => m = "down", Others'
  PROVE  TypeOK' /\ LoopInv'
<1>1. /\ mode' = m /\ cand' = i /\ todo' = rules /\ tries' = 0
      /\ cand' \in 0 .. 3 /\ todo' \in Seq(RuleSpace) /\ tries' \in 0 .. DeleteTries - 1
      /\ cand' <= Len(Candidates(cfg'))
      /\ m \in {"preclean", "insert", "undo"} =>
           cand' >= 1 /\ ToSet(todo') = Current' /\ Distinct(todo')
      /\ m = "cleanup" => ToSet(todo') = OwnRules'
      /\ m \in {"up", "down"} => todo' = << >>
  BY EnterFacts
<1>2. TypeOK'
  BY <1>1, TypeParts DEF TypeOK, Others
<1>3. LoopInv'
  BY <1>1 DEF LoopInv, Installing
<1> QED BY <1>2, <1>3

LEMMA NextRuleLoop ==
  ASSUME TypeOK, LoopInv, NextRule, todo # << >>, cfg' = cfg, exit' = exit, Others'
  PROVE  TypeOK' /\ LoopInv'
<1>1. /\ mode' = mode /\ cand' = cand /\ Current' = Current /\ OwnRules' = OwnRules
      /\ todo' \in Seq(RuleSpace) /\ ToSet(todo) = {Head(todo)} \cup ToSet(todo')
      /\ Distinct(todo) => Distinct(todo') /\ Head(todo) \notin ToSet(todo')
      /\ tries' = 0 /\ tries' \in 0 .. DeleteTries - 1
  BY NextRuleFacts
<1>2. ToSet(todo') \subseteq ToSet(todo)
  BY <1>1
<1>3. TypeOK'
  BY <1>1 DEF TypeOK, Others
<1>4. LoopInv'
  BY <1>1, <1>2 DEF LoopInv, Installing
<1> QED BY <1>3, <1>4

LEMMA SamePlaceLoop ==
  ASSUME TypeOK, LoopInv, UNCHANGED <<mode, cand, todo>>, tries' \in 0 .. DeleteTries - 1,
         cfg' = cfg \/ mode = "down", exit' \in {"ended", "failed"} => exit' = exit, Others'
  PROVE  TypeOK' /\ LoopInv'
<1>1. TypeOK'
  BY DEF TypeOK, Others
<1>2. CASE cfg' = cfg
  <2>1. Current' = Current /\ OwnRules' = OwnRules
    BY <1>2 DEF Current, OwnRules
  <2> QED BY <1>1, <1>2, <2>1 DEF LoopInv, Installing
<1>3. CASE mode = "down"
  <2>1. cfg' \in Config
    BY DEF Others
  <2>2. 0 <= Len(Candidates(cfg'))
    <3>1. \A n \in 0 .. 3 : 0 <= n
      OBVIOUS
    <3> QED BY <2>1, <3>1, ManagerFacts
  <2> QED BY <1>1, <1>3, <2>2 DEF LoopInv, Installing
<1> QED BY <1>2, <1>3

\* a failed insertion: autoFirewall undoes it, the other managers return
LEMMA InstallErrorLoop ==
  ASSUME TypeOK, LoopInv, Inserting, InstallError, cfg' = cfg, exit' = exit \/ exit' = "failed",
         Others'
  PROVE  TypeOK' /\ LoopInv'
<1>1. /\ cand \in Nat /\ 1 <= cand /\ cand <= Len(Candidates(cfg)) /\ todo \in Seq(RuleSpace)
      /\ exit \notin {"ended", "failed"} /\ Current # {}
  BY TodoFacts DEF TypeOK, LoopInv, Inserting, Installing
<1>2. CASE IsAuto(cfg)
  <2>1. Enter("undo", cand, RulesOf(cfg, cand)) /\ exit' = exit
    BY <1>2 DEF InstallError
  <2>2. Current' # {}
    BY <1>1, <2>1 DEF Current, Enter
  <2> QED BY <1>1, <2>1, <2>2, EnterLoop
<1>3. CASE ~IsAuto(cfg)
  <2>1. Enter("down", 0, << >>)
    BY <1>3 DEF InstallError, End
  <2> QED BY <1>1, <2>1, EnterLoop
<1> QED BY <1>2, <1>3

\* the types of what an action changes outside the loops
LEMMA OthersStep == ASSUME TypeOK, [Next]_vars PROVE Others'
<1>1. Others /\ DeleteTries \in Nat
  BY TypeParts, FirewallAssumption
<1>2. CASE Refuse \/ Start \/ PrecleanDone \/ InsertDone \/ LeaveUp \/ Cancel \/ DeleteNothing
  BY <1>1, <1>2 DEF Refuse, Start, PrecleanDone, InsertDone, LeaveUp, Cancel, DeleteNothing, Others,
     counts
<1>3. CASE Deleting /\ Delete
  <2>1. Head(todo) \in RuleSpace /\ table[Head(todo)] \in Nat /\ table[Head(todo)] > 0
    BY <1>3, TodoFacts DEF TypeOK, Deleting, Delete, Present
  <2>2. table[Head(todo)] - 1 \in Nat
    BY <2>1
  <2>3. table' \in [RuleSpace -> Nat]
    BY <1>3, <2>1, <2>2 DEF TypeOK, Delete
  <2> QED BY <1>1, <1>3, <2>3 DEF Delete, Others, counts
<1>4. CASE DeleteFails
  BY <1>1, <1>4 DEF DeleteFails, Others, Suspect
<1>5. CASE Insert \/ InsertKilled
  <2>1. Head(todo) \in RuleSpace /\ table[Head(todo)] \in Nat
    BY <1>5, TodoFacts DEF TypeOK, Insert, InsertKilled, Inserting
  <2>2. table' \in [RuleSpace -> Nat]
    BY <1>5, <2>1 DEF TypeOK, Insert, InsertKilled, AddRule
  <2> QED BY <1>1, <1>5, <2>2 DEF Insert, InsertKilled, InstallError, End, Suspect, Others, counts
<1>6. CASE InsertFails
  BY <1>1, <1>6 DEF InsertFails, InstallError, End, Suspect, Others, counts
<1>7. CASE UndoDone \/ CleanupDone
  BY <1>1, <1>7 DEF UndoDone, CleanupDone, End, Trusted, Others, counts
<1>8. CASE Crash
  BY <1>1, <1>8 DEF Crash, End, Suspect, Others
<1>9. CASE Reconfigure
  <2>1. cfg' \in Config
    BY <1>9, Zenon DEF Reconfigure
  <2>2. changes \in Nat /\ changes' = changes + 1
    BY <1>1, <1>9, Zenon DEF Reconfigure, Others
  <2>3. changes' \in Nat
    BY <2>2
  <2>4. dirty' \in BOOLEAN
    BY <1>9, Zenon DEF Reconfigure
  <2>5. UNCHANGED <<table, cancelled, deleteFaults, crashes, unclean>> /\ exit' = "none"
    BY <1>9 DEF Reconfigure
  <2> QED BY <1>1, <2>1, <2>3, <2>4, <2>5 DEF Others
<1>10. CASE UNCHANGED vars
  BY <1>1, <1>10 DEF vars, process, counts, Others
<1> QED
  BY <1>2, <1>3, <1>4, <1>5, <1>6, <1>7, <1>8, <1>9, <1>10 DEF Next, Program, Delete

LEMMA LoopStep == ASSUME TypeOK, LoopInv, [Next]_vars PROVE TypeOK' /\ LoopInv'
<1>1. Others'
  BY OthersStep
<1>2. /\ cfg \in Config /\ cand \in Nat /\ tries \in Nat /\ tries \in 0 .. DeleteTries - 1
      /\ DeleteTries \in Nat
  BY FirewallAssumption DEF TypeOK
<1>3. CASE Refuse \/ Cancel \/ Reconfigure \/ UNCHANGED vars
  <2>1. /\ UNCHANGED <<mode, cand, todo, tries>> /\ (cfg' = cfg \/ mode = "down")
        /\ exit' \in {"ended", "failed"} => exit' = exit
    BY <1>3 DEF Refuse, Cancel, Reconfigure, vars, process
  <2> QED BY <1>1, <1>2, <2>1, SamePlaceLoop
<1>4. CASE Start
  <2>1. cfg' = cfg /\ exit' = "none"
    BY <1>4 DEF Start
  <2>2. CASE NoManager(cfg)
    <3>1. Enter("up", 0, << >>)
      BY <1>4, <2>2 DEF Start
    <3>2. 0 <= Len(Candidates(cfg))
      <4>1. Len(Candidates(cfg)) = 0
        BY <1>2, <2>2, ManagerFacts
      <4> QED BY <4>1
    <3> QED BY <1>1, <2>1, <3>1, <3>2, EnterLoop
  <2>3. CASE ~NoManager(cfg)
    <3>1. Enter("preclean", 1, RulesOf(cfg, 1)) /\ ~ManagerFails(cfg)
      BY <1>4, <2>3 DEF Start
    <3>2. 1 <= Len(Candidates(cfg))
      BY <1>2, <2>3, <3>1, ManagerFacts
    <3> QED BY <1>1, <2>1, <3>1, <3>2, EnterLoop
  <2> QED BY <2>2, <2>3
<1>5. CASE Delete
  <2>1. todo # << >> /\ cfg' = cfg /\ exit' = exit
    BY <1>5 DEF Delete, Deleting
  <2>2. CASE NextRule
    BY <1>1, <2>1, <2>2, NextRuleLoop
  <2>3. CASE ~NextRule
    <3>1. tries + 1 < DeleteTries /\ tries' = tries + 1 /\ UNCHANGED <<mode, cand, todo>>
      BY <1>5, <2>3 DEF Delete
    <3>2. tries' \in 0 .. DeleteTries - 1
      BY <1>2, <3>1
    <3> QED BY <1>1, <2>1, <3>1, <3>2, SamePlaceLoop
  <2> QED BY <2>2, <2>3
<1>6. CASE DeleteNothing \/ DeleteFails \/ Insert
  <2>1. todo # << >> /\ NextRule /\ cfg' = cfg /\ exit' = exit
    BY <1>6 DEF DeleteNothing, DeleteFails, Insert, Deleting, Inserting
  <2> QED BY <1>1, <2>1, NextRuleLoop
<1>7. CASE PrecleanDone \/ InsertDone \/ LeaveUp
  <2>1. cand <= Len(Candidates(cfg)) /\ (mode = "preclean" => 1 <= cand)
    BY DEF LoopInv, Installing
  <2>2. cfg' = cfg /\ exit' = exit /\ (exit \in {"ended", "failed"} => mode = "down")
    BY <1>7 DEF PrecleanDone, InsertDone, LeaveUp, LoopInv
  <2>3. CASE PrecleanDone
    BY <1>1, <1>2, <2>1, <2>2, <2>3, EnterLoop DEF PrecleanDone
  <2>4. CASE InsertDone
    BY <1>1, <1>2, <2>1, <2>2, <2>4, EnterLoop DEF InsertDone
  <2>5. CASE LeaveUp
    BY <1>1, <1>2, <2>1, <2>2, <2>5, EnterLoop DEF LeaveUp
  <2> QED BY <1>7, <2>3, <2>4, <2>5
<1>8. CASE InsertFails \/ InsertKilled
  <2>1. Inserting /\ InstallError /\ cfg' = cfg /\ (exit' = exit \/ exit' = "failed")
    BY <1>8 DEF InsertFails, InsertKilled, InstallError, End
  <2> QED BY <1>1, <2>1, InstallErrorLoop
<1>9. CASE UndoDone
  <2>1. cfg' = cfg /\ 1 <= cand /\ exit \notin {"ended", "failed"}
    BY <1>9 DEF UndoDone, LoopInv, Installing
  <2>2. CASE cand < Len(Candidates(cfg))
    <3>1. Enter("preclean", cand + 1, RulesOf(cfg, cand + 1)) /\ exit' = exit
      BY <1>9, <2>2 DEF UndoDone
    <3>2. cand + 1 \in Nat /\ 1 <= cand + 1 /\ cand + 1 <= Len(Candidates(cfg))
      <4>1. \A n \in 0 .. 3 : cand < n => cand + 1 <= n
        BY <1>2
      <4> QED BY <1>2, <2>2, <4>1, ManagerFacts
    <3> QED BY <1>1, <2>1, <3>1, <3>2, EnterLoop
  <2>3. CASE ~(cand < Len(Candidates(cfg)))
    <3>1. Enter("down", 0, << >>)
      BY <1>9, <2>3 DEF UndoDone, End
    <3> QED BY <1>1, <2>1, <3>1, EnterLoop
  <2> QED BY <2>2, <2>3
<1>10. CASE CleanupDone \/ Crash
  <2>1. Enter("down", 0, << >>) /\ cfg' = cfg
    BY <1>10 DEF CleanupDone, Crash, End
  <2> QED BY <1>1, <2>1, EnterLoop
<1> QED BY <1>3, <1>4, <1>5, <1>6, <1>7, <1>8, <1>9, <1>10 DEF Next, Program

-----------------------------------------------------------------------------
(***************************************************************************)
(* The copies of a rule, action by action.                                 *)
(***************************************************************************)
Counts == CopiesBounded /\ TriesInv /\ PrecleanInv /\ InsertInv /\ CompleteWhenUp

LEMMA CountTypes ==
  ASSUME CopiesInv
  PROVE  /\ \A r \in RuleSpace : table[r] \in Nat /\ table[r] <= 1 + deleteFaults
         /\ deleteFaults \in Nat /\ tries \in Nat /\ tries <= DeleteTries - 1 /\ DeleteTries \in Nat
         /\ cand # 0 => Current \subseteq RuleSpace /\ Current \subseteq OwnRules
         /\ OwnRules \subseteq RuleSpace /\ todo \in Seq(RuleSpace) /\ cand \in Nat
<1>1. TypeOK /\ LoopInv /\ CopiesBounded
  BY DEF CopiesInv
<1>2. /\ cfg \in Config /\ table \in [RuleSpace -> Nat] /\ deleteFaults \in Nat /\ cand \in Nat
      /\ tries \in Nat /\ tries <= DeleteTries - 1 /\ DeleteTries \in Nat /\ todo \in Seq(RuleSpace)
  BY <1>1, FirewallAssumption DEF TypeOK
<1>3. cand # 0 => Current \subseteq RuleSpace /\ Current \subseteq OwnRules
  <2>1. cand # 0 => 1 <= cand
    BY <1>2
  <2>2. cand <= Len(Candidates(cfg))
    BY <1>1 DEF LoopInv
  <2> QED BY <1>2, <2>1, <2>2, CandidateFacts DEF Current, OwnRules
<1>4. OwnRules \subseteq RuleSpace
  BY <1>2, ManagerFacts DEF OwnRules
<1> QED BY <1>1, <1>2, <1>3, <1>4 DEF CopiesBounded

\* a step that changes no table, no place in a loop and no count
LEMMA SameCounts ==
  ASSUME CopiesInv, UNCHANGED <<table, mode, cand, todo, tries, deleteFaults>>,
         cfg' = cfg \/ mode = "down", cancelled' = cancelled \/ cancelled'
  PROVE  Counts'
<1>1. CopiesBounded' /\ TriesInv'
  BY DEF CopiesInv, CopiesBounded, TriesInv
<1>2. CASE mode = "down"
  BY <1>1, <1>2 DEF Counts, PrecleanInv, InsertInv, CompleteWhenUp
<1>3. CASE cfg' = cfg
  <2>1. Past' = Past /\ Current' = Current
    BY <1>3 DEF Past, Current
  <2>2. PrecleanInv' /\ InsertInv'
    BY <2>1 DEF CopiesInv, PrecleanInv, InsertInv
  <2>3. CompleteWhenUp'
    BY <1>3 DEF CopiesInv, CompleteWhenUp
  <2> QED BY <1>1, <2>2, <2>3 DEF Counts
<1> QED BY <1>2, <1>3

\* a loop that begins with nothing done, the table unchanged
LEMMA EnterCounts ==
  ASSUME CopiesInv, NEW m, NEW i, NEW rules, Enter(m, i, rules),
         UNCHANGED <<table, deleteFaults>>, m # "up" \/ i = 0, m # "insert",
         m = "preclean" => rules = RulesOf(cfg', i)
  PROVE  Counts'
<1>1. CopiesBounded'
  BY DEF CopiesInv, CopiesBounded
<1>2. mode' = m /\ cand' = i /\ todo' = rules /\ tries' = 0
  BY DEF Enter
<1>3. TriesInv' /\ InsertInv' /\ CompleteWhenUp'
  BY <1>2 DEF TriesInv, InsertInv, CompleteWhenUp
<1>4. PrecleanInv'
  <2>1. m = "preclean" => Past' = {}
    BY <1>2 DEF Past, Current
  <2> QED BY <1>2, <2>1 DEF PrecleanInv
<1> QED BY <1>1, <1>3, <1>4 DEF Counts

LEMMA DeleteCounts == ASSUME CopiesInv, Delete PROVE Counts'
<1> DEFINE h == Head(todo)
<1>1. /\ Deleting /\ Present /\ todo # << >> /\ mode # "insert" /\ mode # "up"
      /\ cfg' = cfg /\ cancelled' = cancelled /\ deleteFaults' = deleteFaults
  BY DEF Delete, Deleting, counts
<1>2. /\ h \in RuleSpace /\ ToSet(todo) = {h} \cup ToSet(Tail(todo))
      /\ \A r \in RuleSpace : table[r] \in Nat /\ table[r] <= 1 + deleteFaults
      /\ deleteFaults \in Nat /\ tries \in Nat /\ tries <= DeleteTries - 1 /\ DeleteTries \in Nat
      /\ cand # 0 => Current \subseteq RuleSpace
      /\ table \in [RuleSpace -> Nat] /\ table[h] > 0
  BY <1>1, CountTypes, TodoFacts DEF Present, CopiesInv, TypeOK
<1>3. tries = 0 \/ table[h] + tries <= 1 + deleteFaults
  BY DEF CopiesInv, TriesInv
<1>4. (mode = "preclean" => cand # 0) /\ UNCHANGED <<mode, cand>>
  BY DEF Delete, NextRule, CopiesInv, LoopInv, Installing
<1>5. InsertInv' /\ CompleteWhenUp'
  BY <1>1, <1>4 DEF InsertInv, CompleteWhenUp
<1> HIDE DEF h
<1>6. CASE h = nftTable
  <2>1. table' = [table EXCEPT ![h] = 0] /\ NextRule
    BY <1>6 DEF Delete, h
  <2>2. /\ \A r \in RuleSpace : table'[r] <= table[r] /\ table'[r] \in Nat
        /\ table'[h] = 0 /\ tries' = 0 /\ todo' = Tail(todo)
    BY <1>2, <2>1 DEF NextRule
  <2>3. CopiesBounded' /\ TriesInv'
    BY <1>1, <1>2, <2>2 DEF CopiesBounded, TriesInv
  <2>4. PrecleanInv'
    <3> SUFFICES ASSUME mode = "preclean", ~cancelled, NEW r \in Past'
                 PROVE  table'[r] <= deleteFaults
      BY <1>1, <1>4 DEF PrecleanInv
    <3>1. Past' \subseteq Past \cup {h} /\ Past' \subseteq RuleSpace
      BY <1>1, <1>2, <1>4, <2>2 DEF Past, Current
    <3>2. CASE r = h
      BY <1>2, <2>2, <3>2
    <3>3. CASE r \in Past
      <4>1. table[r] <= deleteFaults
        BY <3>3 DEF CopiesInv, PrecleanInv
      <4> QED BY <1>2, <2>2, <3>1, <4>1
    <3> QED BY <3>1, <3>2, <3>3
  <2> QED BY <1>5, <2>3, <2>4 DEF Counts
<1>7. CASE h # nftTable
  <2>1. /\ table' = [table EXCEPT ![h] = @ - 1]
        /\ IF tries + 1 < DeleteTries
           THEN tries' = tries + 1 /\ UNCHANGED <<mode, cand, todo>>
           ELSE NextRule
    BY <1>7 DEF Delete, h
  <2>2. /\ \A r \in RuleSpace : table'[r] <= table[r] /\ table'[r] \in Nat
        /\ table'[h] = table[h] - 1
    BY <1>2, <2>1
  <2>3. CopiesBounded'
    BY <1>1, <1>2, <2>2 DEF CopiesBounded
  <2>4. CASE tries + 1 < DeleteTries
    <3>1. tries' = tries + 1 /\ todo' = todo /\ Past' = Past
      BY <1>1, <2>1, <2>4 DEF Past, Current
    <3>2. table'[h] + tries' <= 1 + deleteFaults'
      BY <1>1, <1>2, <1>3, <2>2, <3>1
    <3>3. TriesInv'
      BY <1>1, <3>1, <3>2 DEF TriesInv, h
    <3>4. PrecleanInv'
      <4> SUFFICES ASSUME mode = "preclean", ~cancelled, NEW r \in Past
                   PROVE  table'[r] <= deleteFaults
        BY <1>1, <1>4, <3>1 DEF PrecleanInv
      <4>1. table[r] <= deleteFaults
        BY DEF CopiesInv, PrecleanInv
      <4>2. r \in RuleSpace
        BY <1>2, <1>4 DEF Past
      <4> QED BY <1>2, <2>2, <4>1, <4>2
    <3> QED BY <1>5, <2>3, <3>3, <3>4 DEF Counts
  <2>5. CASE ~(tries + 1 < DeleteTries)
    <3>1. tries' = 0 /\ todo' = Tail(todo)
      BY <2>1, <2>5 DEF NextRule
    <3>2. table'[h] <= deleteFaults
      BY <1>2, <1>3, <2>2, <2>5
    <3>3. TriesInv'
      BY <3>1 DEF TriesInv
    <3>4. PrecleanInv'
      <4> SUFFICES ASSUME mode = "preclean", ~cancelled, NEW r \in Past'
                   PROVE  table'[r] <= deleteFaults
        BY <1>1, <1>4 DEF PrecleanInv
      <4>1. Past' \subseteq Past \cup {h} /\ Past' \subseteq RuleSpace
        BY <1>1, <1>2, <1>4, <3>1 DEF Past, Current
      <4>2. CASE r = h
        BY <3>2, <4>2
      <4>3. CASE r \in Past
        <5>1. table[r] <= deleteFaults
          BY <4>3 DEF CopiesInv, PrecleanInv
        <5> QED BY <1>2, <2>2, <4>1, <5>1
      <4> QED BY <4>1, <4>2, <4>3
    <3> QED BY <1>5, <2>3, <3>3, <3>4 DEF Counts
  <2> QED BY <2>4, <2>5
<1> QED BY <1>6, <1>7

LEMMA DeleteNothingCounts == ASSUME CopiesInv, DeleteNothing PROVE Counts'
<1>1. /\ todo # << >> /\ mode # "insert" /\ mode # "up" /\ NextRule
      /\ UNCHANGED <<cfg, table, mode, cand, cancelled, deleteFaults>>
      /\ mode = "preclean" /\ ~cancelled => ~Present
  BY DEF DeleteNothing, Deleting, CommandsRun, NextRule, counts
<1>2. /\ Head(todo) \in RuleSpace /\ table[Head(todo)] \in Nat /\ deleteFaults \in Nat
      /\ ToSet(todo) = {Head(todo)} \cup ToSet(Tail(todo))
  BY <1>1, CountTypes, TodoFacts
<1>3. CopiesBounded' /\ TriesInv' /\ InsertInv' /\ CompleteWhenUp'
  BY <1>1 DEF CopiesInv, CopiesBounded, TriesInv, InsertInv, CompleteWhenUp, NextRule
<1>4. PrecleanInv'
  <2> SUFFICES ASSUME mode = "preclean", ~cancelled, NEW r \in Past'
               PROVE  table[r] <= deleteFaults
    BY <1>1 DEF PrecleanInv
  <2>1. Past' \subseteq Past \cup {Head(todo)}
    BY <1>1, <1>2 DEF Past, Current, NextRule
  <2>2. CASE r = Head(todo)
    BY <1>1, <1>2, <2>2 DEF Present
  <2>3. CASE r \in Past
    BY <2>3 DEF CopiesInv, PrecleanInv
  <2> QED BY <2>1, <2>2, <2>3
<1> QED BY <1>3, <1>4 DEF Counts

LEMMA DeleteFailsCounts == ASSUME CopiesInv, DeleteFails PROVE Counts'
<1>1. /\ todo # << >> /\ mode # "insert" /\ mode # "up" /\ NextRule
      /\ UNCHANGED <<cfg, table, mode, cand, cancelled>> /\ deleteFaults' = deleteFaults + 1
  BY DEF DeleteFails, Deleting, NextRule
<1>2. /\ Head(todo) \in RuleSpace /\ deleteFaults \in Nat
      /\ \A r \in RuleSpace : table[r] \in Nat /\ table[r] <= 1 + deleteFaults
      /\ mode = "preclean" => Current \subseteq RuleSpace
  BY <1>1, CountTypes, TodoFacts DEF CopiesInv, LoopInv, Installing
<1>3. TriesInv' /\ InsertInv' /\ CompleteWhenUp'
  BY <1>1 DEF TriesInv, InsertInv, CompleteWhenUp, NextRule
<1>4. CopiesBounded'
  BY <1>1, <1>2 DEF CopiesBounded
<1>5. PrecleanInv'
  <2>1. mode = "preclean" => Past' \subseteq RuleSpace
    BY <1>1, <1>2 DEF Past, Current
  <2> QED BY <1>1, <1>2, <2>1 DEF PrecleanInv
<1> QED BY <1>3, <1>4, <1>5 DEF Counts

LEMMA PrecleanDoneCounts == ASSUME CopiesInv, PrecleanDone PROVE Counts'
<1>1. /\ mode = "preclean" /\ todo = << >> /\ mode' = "insert" /\ cand' = cand /\ tries' = 0
      /\ todo' = RulesOf(cfg, cand) /\ UNCHANGED <<cfg, table, cancelled, deleteFaults>>
  BY DEF PrecleanDone, Enter, counts
<1>2. Past = Current /\ ToSet(todo') = Current /\ Past' = {}
  BY <1>1, NoneTodo DEF Past, Current
<1>3. CopiesBounded' /\ TriesInv' /\ PrecleanInv' /\ CompleteWhenUp'
  BY <1>1 DEF CopiesInv, CopiesBounded, TriesInv, PrecleanInv, CompleteWhenUp
<1>4. InsertInv'
  BY <1>1, <1>2 DEF CopiesInv, PrecleanInv, InsertInv
<1> QED BY <1>3, <1>4 DEF Counts

\* while ctx is not done, the rule that is added was not there
LEMMA AddedFacts ==
  ASSUME CopiesInv, Inserting, ~cancelled, AddRule
  PROVE  /\ Head(todo) \in RuleSpace /\ Head(todo) \in Current
         /\ table' \in [RuleSpace -> Nat] /\ table'[Head(todo)] = table[Head(todo)] + 1
         /\ \A r \in RuleSpace : r # Head(todo) => table'[r] = table[r]
         /\ \A r \in RuleSpace : table'[r] >= table[r] /\ table'[r] <= 1 + deleteFaults
         /\ table'[Head(todo)] >= 1
<1> DEFINE h == Head(todo)
<1>1. mode = "insert" /\ todo # << >>
  BY DEF Inserting
<1>2. /\ h \in RuleSpace /\ h \in ToSet(todo) /\ deleteFaults \in Nat /\ table \in [RuleSpace -> Nat]
      /\ \A r \in RuleSpace : table[r] \in Nat /\ table[r] <= 1 + deleteFaults
  BY <1>1, CountTypes, TodoFacts DEF CopiesInv, TypeOK
<1>3. h \in Current
  BY <1>1, <1>2 DEF CopiesInv, LoopInv, Installing
<1>4. table[h] <= deleteFaults
  BY <1>1, <1>2 DEF CopiesInv, InsertInv
<1>5. table' = [table EXCEPT ![h] = @ + 1]
  BY DEF AddRule
<1> HIDE DEF h
<1>6. /\ table' \in [RuleSpace -> Nat] /\ table'[h] = table[h] + 1
      /\ \A r \in RuleSpace : r # h => table'[r] = table[r]
  BY <1>2, <1>5
<1>7. \A r \in RuleSpace : table'[r] >= table[r] /\ table'[r] <= 1 + deleteFaults
  BY <1>2, <1>4, <1>6
<1>8. table'[h] >= 1
  BY <1>2, <1>6
<1> QED BY <1>2, <1>3, <1>6, <1>7, <1>8 DEF h

LEMMA InsertCounts == ASSUME CopiesInv, Insert PROVE Counts'
<1> DEFINE h == Head(todo)
<1>1. /\ Inserting /\ mode = "insert" /\ todo # << >> /\ ~cancelled /\ AddRule /\ NextRule
      /\ UNCHANGED <<cfg, mode, cand, cancelled, deleteFaults>> /\ todo' = Tail(todo) /\ tries' = 0
  BY DEF Insert, Inserting, NextRule, counts
<1>2. /\ h \in RuleSpace /\ table'[h] >= 1
      /\ \A r \in RuleSpace : r # h => table'[r] = table[r]
      /\ \A r \in RuleSpace : table'[r] >= table[r] /\ table'[r] <= 1 + deleteFaults
      /\ table' \in [RuleSpace -> Nat]
  BY <1>1, AddedFacts
<1>3. /\ todo \in Seq(RuleSpace) /\ Distinct(todo) /\ Current \subseteq RuleSpace
      /\ table \in [RuleSpace -> Nat]
  BY <1>1, CountTypes DEF CopiesInv, LoopInv, Installing, TypeOK
<1>4. /\ ToSet(todo) = {h} \cup ToSet(todo') /\ h \notin ToSet(todo')
      /\ ToSet(todo) \subseteq RuleSpace
  BY <1>1, <1>3, TodoFacts, SeqElements
<1>5. CopiesBounded' /\ TriesInv' /\ PrecleanInv' /\ CompleteWhenUp'
  BY <1>1, <1>2 DEF CopiesBounded, TriesInv, PrecleanInv, CompleteWhenUp
<1>6. Past' \subseteq Past \cup {h} /\ Past' \subseteq RuleSpace
  BY <1>1, <1>3, <1>4 DEF Past, Current
<1>7. (\A r \in Past : table[r] >= 1) /\ (\A r \in ToSet(todo) : table[r] <= deleteFaults)
  BY <1>1 DEF CopiesInv, InsertInv
<1> HIDE DEF h
<1>8. ASSUME NEW r \in Past' PROVE table'[r] >= 1
  <2>1. CASE r = h
    BY <1>2, <2>1
  <2>2. CASE r \in Past
    <3>1. table'[r] \in Nat /\ table[r] \in Nat /\ table'[r] >= table[r] /\ table[r] >= 1
      BY <1>2, <1>3, <1>6, <1>7, <2>2
    <3> QED BY <3>1
  <2> QED BY <1>6, <2>1, <2>2
<1>9. ASSUME NEW r \in ToSet(todo') PROVE table'[r] <= deleteFaults
  BY <1>2, <1>4, <1>7
<1>10. InsertInv'
  BY <1>1, <1>8, <1>9 DEF InsertInv
<1> QED BY <1>5, <1>10 DEF Counts

LEMMA InsertEndsCounts == ASSUME CopiesInv, InsertFails \/ InsertKilled PROVE Counts'
<1>1. /\ mode' \in {"undo", "down"} /\ tries' = 0 /\ deleteFaults' = deleteFaults
  BY DEF InsertFails, InsertKilled, InstallError, End, Enter, counts
<1>2. TriesInv' /\ PrecleanInv' /\ InsertInv' /\ CompleteWhenUp'
  BY <1>1 DEF TriesInv, PrecleanInv, InsertInv, CompleteWhenUp
<1>3. CASE InsertFails
  BY <1>1, <1>2, <1>3 DEF InsertFails, Counts, CopiesInv, CopiesBounded
<1>4. CASE InsertKilled
  <2>1. \A r \in RuleSpace : table'[r] <= 1 + deleteFaults
    BY <1>4, AddedFacts DEF InsertKilled
  <2> QED BY <1>1, <1>2, <2>1 DEF Counts, CopiesBounded
<1> QED BY <1>3, <1>4

LEMMA InsertDoneCounts == ASSUME CopiesInv, InsertDone PROVE Counts'
<1>1. /\ mode = "insert" /\ todo = << >> /\ mode' = "up" /\ cand' = cand /\ tries' = 0
      /\ UNCHANGED <<cfg, table, deleteFaults>>
  BY DEF InsertDone, Enter, counts
<1>2. Past = Current
  BY <1>1, NoneTodo DEF Past
<1>3. CopiesBounded' /\ TriesInv' /\ PrecleanInv' /\ InsertInv'
  BY <1>1 DEF CopiesInv, CopiesBounded, TriesInv, PrecleanInv, InsertInv
<1>4. CompleteWhenUp'
  BY <1>1, <1>2 DEF CopiesInv, InsertInv, CompleteWhenUp, Current
<1> QED BY <1>3, <1>4 DEF Counts

LEMMA CountStep == ASSUME CopiesInv, [Next]_vars PROVE Counts'
<1>1. CASE Refuse \/ Cancel \/ Reconfigure \/ UNCHANGED vars
  BY <1>1, SameCounts DEF Refuse, Cancel, Reconfigure, vars, process, counts
<1>2. CASE Start
  BY <1>2, EnterCounts DEF Start, counts
<1>3. CASE UndoDone
  BY <1>3, EnterCounts DEF UndoDone, End, counts
<1>4. CASE LeaveUp
  BY <1>4, EnterCounts DEF LeaveUp, counts
<1>5. CASE CleanupDone \/ Crash
  BY <1>5, EnterCounts DEF CleanupDone, Crash, End, counts
<1> QED
  BY <1>1, <1>2, <1>3, <1>4, <1>5, DeleteCounts, DeleteNothingCounts, DeleteFailsCounts,
     PrecleanDoneCounts, InsertCounts, InsertEndsCounts, InsertDoneCounts DEF Next, Program

\* the type invariant, the bound on copies and the completeness of what is up
THEOREM CopiesInvariance == Spec => []CopiesInv
<1>1. Init => CopiesInv
  <2> SUFFICES ASSUME Init PROVE CopiesInv
    OBVIOUS
  <2>1. TypeOK
    <3>1. 0 \in 0 .. DeleteTries - 1
      BY FirewallAssumption
    <3>2. table \in [RuleSpace -> Nat]
      BY DEF Init
    <3>3. cancelled \in BOOLEAN /\ dirty \in BOOLEAN
      BY DEF Init
    <3>4. cand \in 0 .. 3 /\ tries = 0 /\ deleteFaults \in Nat /\ crashes \in Nat /\ changes \in Nat
      BY DEF Init
    <3>5. cfg \in Config /\ mode = "down" /\ exit = "none" /\ todo = << >> /\ unclean = {}
      BY DEF Init
    <3> QED BY <3>1, <3>2, <3>3, <3>4, <3>5, NoneTodo DEF TypeOK
  <2>2. LoopInv
    <3>1. \A n \in 0 .. 3 : 0 <= n
      OBVIOUS
    <3>2. 0 <= Len(Candidates(cfg))
      BY <2>1, <3>1, ManagerFacts DEF TypeOK
    <3> QED BY <3>2 DEF Init, LoopInv, Installing
  <2>3. Counts
    BY DEF Init, Counts, CopiesBounded, TriesInv, PrecleanInv, InsertInv, CompleteWhenUp
  <2> QED BY <2>1, <2>2, <2>3 DEF CopiesInv, Counts
<1>2. CopiesInv /\ [Next]_vars => CopiesInv'
  BY LoopStep, CountStep DEF CopiesInv, Counts
<1> QED BY <1>1, <1>2, PTL DEF Spec

\* the types are kept: no table holds a negative number of copies, and the
\* loop of deleteIPTablesRule stays within its turns
THEOREM TypeCorrect == Spec => []TypeOK
BY CopiesInvariance, PTL DEF CopiesInv

\* restarts do not pile rules up, for any number of crashes, cancellations,
\* failed commands and changes of configuration
THEOREM CopiesStayBounded == Spec => []CopiesBounded
BY CopiesInvariance, PTL DEF CopiesInv

\* Install returns nil only with every rule of its backend in the kernel
THEOREM UpIsComplete == Spec => []CompleteWhenUp
BY CopiesInvariance, PTL DEF CopiesInv

-----------------------------------------------------------------------------
(***************************************************************************)
(* What Cleanup leaves.  The loop of deleteIPTablesRule removes every copy *)
(* only while there are no more of them than its turns: fewer deletions    *)
(* may have failed, over all processes, than the loop has turns (20).      *)
(***************************************************************************)
LEMMA CleanTypes ==
  ASSUME CopiesInv, CleanInv
  PROVE  /\ cand # 0 => Current \subseteq RuleSpace /\ Current \subseteq OwnRules
         /\ OwnRules \subseteq RuleSpace
         /\ \A r \in RuleSpace : table[r] \in Nat
         /\ Installing => cand # 0 /\ cand \in Nat /\ 1 <= cand
         /\ Installing => \A j \in 1 .. cand - 1 : ToSet(RulesOf(cfg, j)) \subseteq RuleSpace
         /\ mode # "down" => exit \notin {"ended", "failed"}
<1>1. /\ cand # 0 => Current \subseteq RuleSpace /\ Current \subseteq OwnRules
      /\ OwnRules \subseteq RuleSpace /\ cand \in Nat
      /\ \A r \in RuleSpace : table[r] \in Nat
  BY CountTypes
<1>2. /\ Installing => cand >= 1
      /\ mode # "down" => exit \notin {"ended", "failed"}
      /\ cand <= Len(Candidates(cfg)) /\ cfg \in Config
  BY DEF CopiesInv, LoopInv, TypeOK
<1>3. Installing => cand # 0 /\ 1 <= cand
  BY <1>1, <1>2
<1>4. ASSUME Installing, NEW j \in 1 .. cand - 1
      PROVE  ToSet(RulesOf(cfg, j)) \subseteq RuleSpace
  <2>1. \A n \in 0 .. 3 : cand <= n => j \in Nat /\ 1 <= j /\ j <= n
    BY <1>1
  <2>2. j \in Nat /\ 1 <= j /\ j <= Len(Candidates(cfg))
    BY <1>2, <2>1, ManagerFacts
  <2> QED BY <1>2, <2>2, CandidateFacts
<1> QED BY <1>1, <1>2, <1>3, <1>4

\* a step inside a loop: what it passes over while cleaning up is gone
LEMMA KeepsClean ==
  ASSUME CopiesInv, CleanInv, mode # "down", UNCHANGED <<cfg, mode, cand, exit>>,
         mode \in {"undo", "cleanup"} => \A r \in ToSet(todo) \ ToSet(todo') : Gone(r)',
         \A r \in RuleSpace : Gone(r) => Gone(r)' \/ (mode = "insert" /\ r \in Current),
         \A r \in RuleSpace : table'[r] > 0 => table[r] > 0 \/ (mode = "insert" /\ r \in Current),
         unclean \subseteq unclean', dirty' => cfg \in unclean', deleteFaults' <= MaxDeleteFaults
  PROVE  CleanInv'
<1>1. /\ Current' = Current /\ OwnRules' = OwnRules /\ (Installing' <=> Installing)
      /\ Past' \subseteq Past \cup (ToSet(todo) \ ToSet(todo'))
  BY DEF Current, OwnRules, Past, Installing
<1>2. GoneInv
  BY DEF CleanInv
<1>3. ASSUME mode = "undo", NEW r \in Past' PROVE Gone(r)'
  <2>1. Past \subseteq RuleSpace
    BY <1>3, CleanTypes DEF Past, Installing
  <2> QED BY <1>1, <1>2, <1>3, <2>1 DEF GoneInv
<1>4. ASSUME mode = "cleanup", NEW r \in OwnRules \ ToSet(todo') PROVE Gone(r)'
  <2>1. OwnRules \subseteq RuleSpace
    BY CleanTypes
  <2> QED BY <1>2, <1>4, <2>1 DEF GoneInv
<1>5. ASSUME Installing, NEW j \in 1 .. cand - 1, NEW r \in ToSet(RulesOf(cfg, j)) \ Current
      PROVE  Gone(r)'
  <2>1. r \in RuleSpace
    BY <1>5, CleanTypes
  <2> QED BY <1>2, <1>5, <2>1 DEF GoneInv
<1>6. GoneInv'
  BY <1>1, <1>3, <1>4, <1>5 DEF GoneInv
<1>7. ASSUME NEW r \in RuleSpace, table'[r] > 0 PROVE Traced(r)'
  <2>1. CASE table[r] > 0
    BY <1>1, <2>1 DEF CleanInv, TraceInv, Traced
  <2>2. CASE mode = "insert" /\ r \in Current
    <3>1. cand # 0
      BY <2>2, CleanTypes DEF Installing
    <3> QED BY <1>1, <2>2, <3>1 DEF Traced
  <2> QED BY <1>7, <2>1, <2>2
<1>8. TraceInv'
  BY <1>7 DEF TraceInv
<1>9. CleanExit'
  BY CleanTypes DEF CleanExit
<1> QED BY <1>6, <1>8, <1>9 DEF CleanInv

\* the last turn of the delete loop removes the last copy
LEMMA LastTry ==
  ASSUME MaxDeleteFaults < DeleteTries, CopiesInv, CleanInv, Delete
  PROVE  /\ \A r \in RuleSpace : table'[r] > 0 => table[r] > 0
         /\ \A r \in RuleSpace : table[r] = 0 => table'[r] = 0
         /\ table'[Head(todo)] = 0 \/ UNCHANGED <<mode, cand, todo>>
         /\ table'[Head(todo)] = 0 => todo' \in {todo, Tail(todo)}
<1> DEFINE h == Head(todo)
<1>1. todo # << >> /\ table[h] > 0
  BY DEF Delete, Deleting, Present
<1>2. /\ h \in RuleSpace /\ table[h] \in Nat /\ table[h] <= 1 + deleteFaults
      /\ deleteFaults \in Nat /\ tries \in Nat /\ tries <= DeleteTries - 1 /\ DeleteTries \in Nat
      /\ table \in [RuleSpace -> Nat]
  BY <1>1, CountTypes, TodoFacts DEF CopiesInv, TypeOK
<1>3. tries = 0 \/ table[h] + tries <= 1 + deleteFaults
  BY DEF CopiesInv, TriesInv
<1>4. deleteFaults <= MaxDeleteFaults /\ MaxDeleteFaults \in Nat
  BY FirewallAssumption DEF CleanInv, TraceInv
<1>5. IF h = nftTable
      THEN table' = [table EXCEPT ![h] = 0] /\ todo' = Tail(todo)
      ELSE /\ table' = [table EXCEPT ![h] = @ - 1]
           /\ IF tries + 1 < DeleteTries
              THEN UNCHANGED <<mode, cand, todo>>
              ELSE todo' = Tail(todo)
  BY DEF Delete, NextRule
<1> HIDE DEF h
<1>6. CASE h = nftTable
  <2>1. table' = [table EXCEPT ![h] = 0] /\ todo' = Tail(todo)
    BY <1>5, <1>6
  <2>2. table'[h] = 0 /\ \A r \in RuleSpace : r # h => table'[r] = table[r]
    BY <1>2, <2>1
  <2> QED BY <1>1, <1>2, <2>1, <2>2 DEF h
<1>7. CASE h # nftTable
  <2>1. table' = [table EXCEPT ![h] = @ - 1]
    BY <1>5, <1>7
  <2>2. table'[h] = table[h] - 1 /\ \A r \in RuleSpace : r # h => table'[r] = table[r]
    BY <1>2, <2>1
  <2>3. \A r \in RuleSpace : table'[r] > 0 => table[r] > 0
    BY <1>1, <2>2
  <2>4. \A r \in RuleSpace : table[r] = 0 => table'[r] = 0
    BY <1>1, <1>2, <2>2
  <2>5. ~(tries + 1 < DeleteTries) => table'[h] = 0
    BY <1>1, <1>2, <1>3, <1>4, <2>2
  <2>6. tries + 1 < DeleteTries => UNCHANGED <<mode, cand, todo>>
    BY <1>5, <1>7
  <2>7. todo' \in {todo, Tail(todo)}
    BY <1>5, <1>7
  <2> QED BY <2>3, <2>4, <2>5, <2>6, <2>7 DEF h
<1> QED BY <1>6, <1>7

LEMMA LoopClean ==
  ASSUME MaxDeleteFaults < DeleteTries, CopiesInv, CleanInv,
         Delete \/ DeleteNothing \/ DeleteFails \/ Insert \/ Cancel
  PROVE  CleanInv'
<1>1. /\ todo \in Seq(RuleSpace) /\ deleteFaults \in Nat /\ MaxDeleteFaults \in Nat
      /\ deleteFaults <= MaxDeleteFaults /\ (dirty => cfg \in unclean)
  BY CountTypes, FirewallAssumption DEF CleanInv, TraceInv
<1>2. CASE Cancel
  <2>1. UNCHANGED <<cfg, table, mode, cand, todo, exit, dirty, deleteFaults, unclean>> /\ mode # "down"
    BY <1>2 DEF Cancel, counts
  <2>2. \A r \in ToSet(todo) \ ToSet(todo') : Gone(r)'
    BY <2>1
  <2>3. \A r \in RuleSpace : Gone(r) => Gone(r)'
    BY <2>1 DEF Gone
  <2> QED BY <1>1, <2>1, <2>2, <2>3, KeepsClean
<1>3. CASE DeleteNothing
  <2>1. /\ todo # << >> /\ mode # "down" /\ (mode \in {"undo", "cleanup"} => ~Present) /\ NextRule
        /\ UNCHANGED <<cfg, table, mode, cand, exit, dirty, deleteFaults, unclean>>
    BY <1>3 DEF DeleteNothing, Deleting, CommandsRun, NextRule, counts
  <2>2. ToSet(todo) \subseteq ToSet(todo') \cup {Head(todo)} /\ Head(todo) \in RuleSpace
    BY <1>1, <2>1, TodoFacts DEF NextRule
  <2>3. \A r \in RuleSpace : Gone(r) => Gone(r)'
    BY <2>1 DEF Gone
  <2>4. mode \in {"undo", "cleanup"} => table'[Head(todo)] = 0
    <3>1. table[Head(todo)] \in Nat
      BY <2>2, CleanTypes
    <3> QED BY <2>1, <3>1 DEF Present
  <2>5. mode \in {"undo", "cleanup"} => \A r \in ToSet(todo) \ ToSet(todo') : Gone(r)'
    BY <2>2, <2>4 DEF Gone
  <2> QED BY <1>1, <2>1, <2>3, <2>5, KeepsClean
<1>4. CASE DeleteFails
  <2>1. /\ todo # << >> /\ mode # "down" /\ NextRule /\ dirty' = (dirty \/ mode # "preclean")
        /\ UNCHANGED <<cfg, table, mode, cand, exit>>
        /\ unclean' = IF mode = "preclean" THEN unclean ELSE Suspect
    BY <1>4 DEF DeleteFails, Deleting, NextRule
  <2>2. ToSet(todo) \subseteq ToSet(todo') \cup {Head(todo)}
    BY <1>1, <2>1, TodoFacts DEF NextRule
  <2>3. \A r \in RuleSpace : Gone(r) => Gone(r)'
    BY <2>1 DEF Gone
  <2>4. mode \in {"undo", "cleanup"} => \A r \in ToSet(todo) \ ToSet(todo') : Gone(r)'
    BY <2>1, <2>2 DEF Gone
  <2>5. unclean \subseteq unclean' /\ (dirty' => cfg \in unclean')
    BY <1>1, <2>1 DEF Suspect
  <2>6. deleteFaults' <= MaxDeleteFaults
    BY <1>1, <1>4 DEF DeleteFails
  <2> QED BY <2>1, <2>2, <2>3, <2>4, <2>5, <2>6, KeepsClean
<1>5. CASE Insert
  <2>1. /\ todo # << >> /\ mode = "insert" /\ NextRule /\ Inserting /\ ~cancelled /\ AddRule
        /\ UNCHANGED <<cfg, mode, cand, exit, dirty, deleteFaults, unclean>>
    BY <1>5 DEF Insert, Inserting, NextRule, counts
  <2>2. ToSet(todo) \subseteq ToSet(todo') \cup {Head(todo)}
    BY <1>1, <2>1, TodoFacts DEF NextRule
  <2>3. Head(todo) \in Current /\ \A r \in RuleSpace : r # Head(todo) => table'[r] = table[r]
    BY <2>1, AddedFacts
  <2>4. \A r \in RuleSpace : Gone(r) => Gone(r)' \/ (mode = "insert" /\ r \in Current)
    BY <2>1, <2>3 DEF Gone
  <2>5. \A r \in RuleSpace : table'[r] > 0 => table[r] > 0 \/ (mode = "insert" /\ r \in Current)
    BY <2>1, <2>3
  <2> QED BY <1>1, <2>1, <2>2, <2>4, <2>5, KeepsClean
<1>6. CASE Delete
  <2>1. /\ todo # << >> /\ mode # "down"
        /\ UNCHANGED <<cfg, mode, cand, exit, dirty, deleteFaults, unclean>>
    BY <1>6 DEF Delete, Deleting, NextRule, counts
  <2>2. /\ \A r \in RuleSpace : table'[r] > 0 => table[r] > 0
        /\ \A r \in RuleSpace : table[r] = 0 => table'[r] = 0
        /\ table'[Head(todo)] = 0 \/ UNCHANGED <<mode, cand, todo>>
        /\ table'[Head(todo)] = 0 => todo' \in {todo, Tail(todo)}
    BY <1>6, LastTry
  <2>3. \A r \in RuleSpace : Gone(r) => Gone(r)'
    BY <2>1, <2>2 DEF Gone
  <2>4. unclean \subseteq unclean' /\ (dirty' => cfg \in unclean') /\ deleteFaults' <= MaxDeleteFaults
    BY <1>1, <2>1
  <2>5. CASE UNCHANGED todo
    <3>1. \A r \in ToSet(todo) \ ToSet(todo') : Gone(r)'
      BY <2>5
    <3>2. \A r \in RuleSpace : table'[r] > 0 => table[r] > 0
      BY <2>2
    <3> QED BY <2>1, <2>3, <2>4, <3>1, <3>2, KeepsClean
  <2>6. CASE table'[Head(todo)] = 0
    <3>1. ToSet(todo) \subseteq ToSet(todo') \cup {Head(todo)}
      BY <1>1, <2>1, <2>2, <2>6, TodoFacts
    <3>2. \A r \in ToSet(todo) \ ToSet(todo') : Gone(r)'
      BY <2>6, <3>1 DEF Gone
    <3>3. \A r \in RuleSpace : table'[r] > 0 => table[r] > 0
      BY <2>2
    <3> QED BY <2>1, <2>3, <2>4, <3>1, <3>2, <3>3, KeepsClean
  <2> QED BY <2>2, <2>5, <2>6
<1> QED BY <1>2, <1>3, <1>4, <1>5, <1>6

\* a candidate whose Cleanup is done, and with it the ones before it
LEMMA UndoneFacts ==
  ASSUME CopiesInv, CleanInv, mode = "undo", todo = << >>
  PROVE  /\ \A r \in Current : Gone(r)
         /\ \A j \in 1 .. cand : \A r \in ToSet(RulesOf(cfg, j)) : Gone(r)
         /\ ~(cand < Len(Candidates(cfg))) => \A r \in OwnRules : Gone(r)
<1>1. Past = Current /\ Installing
  BY NoneTodo DEF Past, Installing
<1>2. \A r \in Current : Gone(r)
  BY <1>1 DEF CleanInv, GoneInv
<1>3. cand \in Nat /\ 1 <= cand
  BY <1>1, CleanTypes
<1>4. ASSUME NEW j \in 1 .. cand, NEW r \in ToSet(RulesOf(cfg, j)) PROVE Gone(r)
  <2>1. CASE r \in Current
    BY <1>2, <2>1
  <2>2. CASE r \notin Current
    <3>1. j # cand
      BY <1>4, <2>2 DEF Current
    <3>2. j \in 1 .. cand - 1
      BY <1>3, <3>1
    <3> QED BY <1>1, <1>4, <2>2, <3>2 DEF CleanInv, GoneInv
  <2> QED BY <2>1, <2>2
<1>5. ASSUME ~(cand < Len(Candidates(cfg))), NEW r \in OwnRules PROVE Gone(r)
  <2>1. cfg \in Config
    BY DEF CopiesInv, TypeOK
  <2>2. PICK i \in 1 .. Len(Candidates(cfg)) : r \in ToSet(RulesOf(cfg, i))
    BY <2>1, AllRulesFacts DEF OwnRules
  <2>3. \A n \in 0 .. 3 : ~(cand < n) => 1 .. n \subseteq 1 .. cand
    BY <1>3
  <2>4. i \in 1 .. cand
    BY <1>5, <2>1, <2>2, <2>3, ManagerFacts
  <2> QED BY <1>4, <2>2, <2>4
<1> QED BY <1>2, <1>4, <1>5

\* a process that ends with all its own rules gone, unless a deletion failed
LEMMA EndTrusted ==
  ASSUME CopiesInv, CleanInv, NEW how, End(how, Trusted),
         \A r \in OwnRules : Gone(r), UNCHANGED <<cfg, table, dirty, deleteFaults>>
  PROVE  CleanInv'
<1>1. mode' = "down" /\ unclean' = Trusted /\ OwnRules' = OwnRules
  BY DEF End, Enter, OwnRules
<1>2. GoneInv'
  BY <1>1 DEF GoneInv, Installing
<1>3. CleanExit'
  BY <1>1 DEF CleanExit, Gone
<1>4. ASSUME NEW r \in RuleSpace, table[r] > 0 PROVE \E c \in Trusted : r \in ToSet(AllRules(c))
  <2>1. Traced(r)
    BY <1>4 DEF CleanInv, TraceInv
  <2>2. CASE dirty
    <3>1. cfg \in unclean /\ Trusted = unclean
      BY <2>2 DEF CleanInv, TraceInv, Trusted
    <3>2. CASE cand # 0 /\ r \in Current
      <4>1. r \in ToSet(AllRules(cfg))
        BY <3>2, CleanTypes DEF OwnRules
      <4> QED BY <3>1, <4>1
    <3> QED BY <2>1, <3>1, <3>2 DEF Traced
  <2>3. CASE ~dirty
    <3>1. Trusted = unclean \ {cfg}
      BY <2>3 DEF Trusted
    <3>2. r \notin OwnRules
      <4>1. table[r] # 0
        BY <1>4
      <4> QED BY <2>3, <4>1 DEF Gone
    <3>3. ~(cand # 0 /\ r \in Current)
      BY <3>2, CleanTypes
    <3>4. PICK c \in unclean : r \in ToSet(AllRules(c))
      BY <2>1, <3>3 DEF Traced
    <3>5. c # cfg
      BY <3>2, <3>4 DEF OwnRules
    <3> QED BY <3>1, <3>4, <3>5
  <2> QED BY <2>2, <2>3
<1>5. TraceInv'
  <2>1. dirty' => cfg' \in unclean'
    BY <1>1 DEF CleanInv, TraceInv, Trusted
  <2>2. deleteFaults' <= MaxDeleteFaults
    BY DEF CleanInv, TraceInv
  <2>3. \A r \in RuleSpace : table'[r] > 0 => Traced(r)'
    BY <1>1, <1>4 DEF Traced
  <2> QED BY <2>1, <2>2, <2>3 DEF TraceInv
<1> QED BY <1>2, <1>3, <1>5 DEF CleanInv

\* a process that ends without cleaning up is suspected
LEMMA EndSuspect ==
  ASSUME CopiesInv, CleanInv, NEW how, End(how, Suspect),
         how = "crash" \/ (how = "failed" /\ ~IsAuto(cfg)), UNCHANGED <<cfg, dirty, deleteFaults>>,
         \A r \in RuleSpace : table'[r] > 0 => table[r] > 0 \/ (cand # 0 /\ r \in Current)
  PROVE  CleanInv'
<1>1. mode' = "down" /\ unclean' = unclean \cup {cfg} /\ exit' = how
  BY DEF End, Enter, Suspect
<1>2. GoneInv' /\ CleanExit'
  BY <1>1 DEF GoneInv, Installing, CleanExit
<1>3. ASSUME NEW r \in RuleSpace, table'[r] > 0
      PROVE  \E c \in unclean \cup {cfg} : r \in ToSet(AllRules(c))
  <2>1. CASE cand # 0 /\ r \in Current
    <3>1. r \in ToSet(AllRules(cfg))
      BY <2>1, CleanTypes DEF OwnRules
    <3> QED BY <3>1
  <2>2. CASE table[r] > 0
    <3>1. Traced(r)
      BY <2>2 DEF CleanInv, TraceInv
    <3> QED BY <2>1, <3>1 DEF Traced
  <2> QED BY <1>3, <2>1, <2>2
<1>4. \A r \in RuleSpace : table'[r] > 0 => Traced(r)'
  BY <1>1, <1>3 DEF Traced
<1>5. deleteFaults' <= MaxDeleteFaults
  BY DEF CleanInv, TraceInv
<1>6. TraceInv'
  BY <1>1, <1>4, <1>5 DEF TraceInv
<1> QED BY <1>2, <1>6 DEF CleanInv

LEMMA InstallErrorClean ==
  ASSUME CopiesInv, CleanInv, Inserting, InstallError, UNCHANGED <<cfg, dirty, deleteFaults>>,
         \A r \in RuleSpace : r \notin Current => table'[r] = table[r]
  PROVE  CleanInv'
<1>1. mode = "insert" /\ cand # 0 /\ Installing /\ exit \notin {"ended", "failed"}
  BY CleanTypes DEF Inserting, Installing
<1>2. CASE ~IsAuto(cfg)
  <2>1. End("failed", Suspect)
    BY <1>2 DEF InstallError
  <2> QED BY <1>1, <1>2, <2>1, EndSuspect
<1>3. CASE IsAuto(cfg)
  <2>1. /\ mode' = "undo" /\ cand' = cand /\ todo' = RulesOf(cfg, cand)
        /\ exit' = exit /\ unclean' = unclean /\ Current' = Current
    BY <1>3 DEF InstallError, Enter, Current
  <2>2. Past' = {} /\ Installing'
    BY <2>1 DEF Past, Current, Installing
  <2>3. ASSUME NEW j \in 1 .. cand - 1, NEW r \in ToSet(RulesOf(cfg, j)) \ Current PROVE Gone(r)'
    <3>1. r \in RuleSpace
      BY <1>1, <2>3, CleanTypes
    <3>2. Gone(r)
      BY <1>1, <2>3 DEF CleanInv, GoneInv
    <3> QED BY <2>3, <3>1, <3>2 DEF Gone
  <2>4. GoneInv'
    BY <2>1, <2>2, <2>3 DEF GoneInv
  <2>5. \A r \in RuleSpace : table'[r] > 0 => Traced(r)'
    BY <1>1, <2>1 DEF CleanInv, TraceInv, Traced
  <2>6. TraceInv'
    BY <2>1, <2>5 DEF CleanInv, TraceInv
  <2>7. CleanExit'
    BY <1>1, <2>1 DEF CleanExit
  <2> QED BY <2>4, <2>6, <2>7 DEF CleanInv
<1> QED BY <1>2, <1>3

LEMMA UndoDoneClean == ASSUME CopiesInv, CleanInv, UndoDone PROVE CleanInv'
<1>1. mode = "undo" /\ todo = << >> /\ UNCHANGED <<cfg, table, dirty, deleteFaults>>
  BY DEF UndoDone, counts
<1>2. /\ \A r \in Current : Gone(r)
      /\ \A j \in 1 .. cand : \A r \in ToSet(RulesOf(cfg, j)) : Gone(r)
      /\ ~(cand < Len(Candidates(cfg))) => \A r \in OwnRules : Gone(r)
  BY <1>1, UndoneFacts
<1>3. cand \in Nat /\ exit \notin {"ended", "failed"} /\ cand # 0
  BY <1>1, CleanTypes DEF Installing
<1>4. CASE cand < Len(Candidates(cfg))
  <2>1. mode' = "preclean" /\ cand' = cand + 1 /\ UNCHANGED <<exit, unclean>>
    BY <1>4 DEF UndoDone, Enter
  <2>2. 1 .. cand' - 1 = 1 .. cand
    BY <1>3, <2>1
  <2>3. GoneInv'
    <3> SUFFICES ASSUME NEW j \in 1 .. cand, NEW r \in ToSet(RulesOf(cfg, j)) PROVE Gone(r)'
      BY <1>1, <2>1, <2>2 DEF GoneInv
    <3> QED BY <1>1, <1>2 DEF Gone
  <2>4. ASSUME NEW r \in RuleSpace, table[r] > 0 PROVE \E c \in unclean : r \in ToSet(AllRules(c))
    <3>1. Traced(r)
      BY <2>4 DEF CleanInv, TraceInv
    <3>2. CASE r \in Current
      <4>1. table[r] # 0
        BY <2>4
      <4>2. cfg \in unclean
        BY <1>2, <3>2, <4>1 DEF Gone, CleanInv, TraceInv
      <4>3. r \in ToSet(AllRules(cfg))
        BY <1>3, <3>2, CleanTypes DEF OwnRules
      <4> QED BY <4>2, <4>3
    <3> QED BY <3>1, <3>2 DEF Traced
  <2>5. \A r \in RuleSpace : table'[r] > 0 => Traced(r)'
    BY <1>1, <2>1, <2>4 DEF Traced
  <2>6. TraceInv'
    BY <1>1, <2>1, <2>5 DEF CleanInv, TraceInv
  <2>7. CleanExit'
    BY <1>3, <2>1 DEF CleanExit
  <2> QED BY <2>3, <2>6, <2>7 DEF CleanInv
<1>5. CASE ~(cand < Len(Candidates(cfg)))
  <2>1. End("failed", Trusted)
    BY <1>5 DEF UndoDone
  <2> QED BY <1>1, <1>2, <1>5, <2>1, EndTrusted
<1> QED BY <1>4, <1>5

LEMMA CleanStep ==
  ASSUME MaxDeleteFaults < DeleteTries, CopiesInv, CleanInv, [Next]_vars
  PROVE  CleanInv'
<1>0. /\ \A r \in RuleSpace : table[r] > 0 => Traced(r)
      /\ deleteFaults <= MaxDeleteFaults /\ (dirty => cfg \in unclean) /\ GoneInv /\ CleanExit
  BY DEF CleanInv, TraceInv
<1>1. CASE Delete \/ DeleteNothing \/ DeleteFails \/ Insert \/ Cancel
  BY <1>1, LoopClean
<1>2. CASE Refuse \/ Reconfigure
  <2>1. /\ mode = "down" /\ mode' = "down" /\ UNCHANGED <<table, deleteFaults, unclean>>
        /\ exit' \notin {"ended", "failed"} /\ (dirty' => dirty /\ cfg' = cfg)
    BY <1>2 DEF Refuse, Reconfigure, counts
  <2>2. \A r \in RuleSpace : table'[r] > 0 => Traced(r)'
    BY <1>0, <2>1 DEF Traced
  <2>3. TraceInv'
    BY <1>0, <2>1, <2>2 DEF TraceInv
  <2> QED BY <2>1, <2>3 DEF CleanInv, GoneInv, CleanExit, Installing
<1>3. CASE Start
  <2>1. /\ mode = "down" /\ mode' \in {"up", "preclean"} /\ cand' \in {0, 1}
        /\ UNCHANGED <<table, deleteFaults, unclean>> /\ exit' = "none" /\ ~dirty'
    BY <1>3 DEF Start, Enter, counts
  <2>2. \A r \in RuleSpace : table'[r] > 0 => Traced(r)'
    BY <1>0, <2>1 DEF Traced
  <2>3. TraceInv'
    BY <1>0, <2>1, <2>2 DEF TraceInv
  <2>4. GoneInv'
    <3>1. \A i \in {0, 1} : 1 .. i - 1 = {}
      OBVIOUS
    <3>2. 1 .. cand' - 1 = {}
      BY <2>1, <3>1
    <3> QED BY <2>1, <3>2 DEF GoneInv
  <2> QED BY <2>1, <2>3, <2>4 DEF CleanInv, CleanExit
<1>4. CASE PrecleanDone \/ InsertDone \/ LeaveUp
  <2>1. /\ mode \in {"preclean", "insert", "up"} /\ mode' \in {"insert", "up", "cleanup"}
        /\ UNCHANGED <<cfg, cand, table, deleteFaults, unclean, exit, dirty>>
        /\ mode' = "insert" => Installing
        /\ mode' = "cleanup" => todo' = AllRules(cfg)
    BY <1>4 DEF PrecleanDone, InsertDone, LeaveUp, Enter, Installing, counts
  <2>2. Current' = Current /\ OwnRules' = OwnRules /\ exit \notin {"ended", "failed"}
    BY <2>1, CleanTypes DEF Current, OwnRules
  <2>3. \A r \in RuleSpace : table'[r] > 0 => Traced(r)'
    BY <1>0, <2>1, <2>2 DEF Traced
  <2>4. TraceInv'
    BY <1>0, <2>1, <2>3 DEF TraceInv
  <2>5. GoneInv'
    BY <1>0, <2>1, <2>2 DEF GoneInv, Installing, Gone, OwnRules
  <2> QED BY <2>1, <2>2, <2>4, <2>5 DEF CleanInv, CleanExit
<1>5. CASE InsertFails
  BY <1>5, InstallErrorClean DEF InsertFails, counts
<1>6. CASE InsertKilled
  <2>1. \A r \in RuleSpace : r \notin Current => table'[r] = table[r]
    BY <1>6, AddedFacts DEF InsertKilled
  <2> QED BY <1>6, <2>1, InstallErrorClean DEF InsertKilled, counts
<1>7. CASE UndoDone
  BY <1>7, UndoDoneClean
<1>8. CASE CleanupDone
  <2>1. /\ mode = "cleanup" /\ todo = << >> /\ End("ended", Trusted)
        /\ UNCHANGED <<cfg, table, dirty, deleteFaults>>
    BY <1>8 DEF CleanupDone, counts
  <2>2. \A r \in OwnRules : Gone(r)
    BY <1>0, <2>1, NoneTodo DEF GoneInv
  <2> QED BY <2>1, <2>2, EndTrusted
<1>9. CASE Crash
  BY <1>9, EndSuspect DEF Crash
<1>10. CASE UNCHANGED vars
  <2>1. UNCHANGED <<cfg, table, mode, cand, todo, exit, dirty, deleteFaults, unclean>>
    BY <1>10 DEF vars, process, counts
  <2> QED BY <2>1
        DEF CleanInv, GoneInv, TraceInv, CleanExit, Traced, Gone, Past, Current, OwnRules, Installing
<1> QED
  BY <1>1, <1>2, <1>3, <1>4, <1>5, <1>6, <1>7, <1>8, <1>9, <1>10 DEF Next, Program

\* nothing but what an unclean process wrote outlives it
THEOREM CleanInvariance ==
  ASSUME MaxDeleteFaults < DeleteTries
  PROVE  Spec => [](CopiesInv /\ CleanInv)
<1>1. Init => CleanInv
  <2> SUFFICES ASSUME Init PROVE CleanInv
    OBVIOUS
  <2>1. GoneInv /\ CleanExit
    BY DEF Init, GoneInv, CleanExit, Installing
  <2>2. TraceInv
    <3>1. dirty = FALSE /\ deleteFaults <= MaxDeleteFaults
      BY FirewallAssumption DEF Init
    <3>2. \A r \in RuleSpace : ~(table[r] > 0)
      BY DEF Init
    <3> QED BY <3>1, <3>2 DEF TraceInv
  <2> QED BY <2>1, <2>2 DEF CleanInv
<1>2. CopiesInv /\ CleanInv /\ [Next]_vars => CleanInv'
  BY CleanStep
<1> QED BY <1>1, <1>2, CopiesInvariance, PTL DEF Spec

\* a process that came up and stopped leaves none of the rules that its
\* configuration names, nor does an autoFirewall whose Install failed
THEOREM ExitIsClean ==
  ASSUME MaxDeleteFaults < DeleteTries
  PROVE  Spec => []CleanExit
BY CleanInvariance, PTL DEF CleanInv

\* every rule in the kernel is of the backend that is up or of a process that
\* did not clean up
THEOREM AllRulesTraceable ==
  ASSUME MaxDeleteFaults < DeleteTries
  PROVE  Spec => []RulesTraceable
<1>1. CopiesInv /\ CleanInv => RulesTraceable
  BY DEF CleanInv, TraceInv, Traced, RulesTraceable, Current
<1> QED BY <1>1, CleanInvariance, PTL

-----------------------------------------------------------------------------
(***************************************************************************)
(* Firewall implements FirewallSpec, action by action.                     *)
(***************************************************************************)
InKernel == {r \in RuleSpace : table[r] > 0}
ThisManager == ManagerFor[cfg]

LEMMA ManagerMapped ==
  ASSUME TypeOK
  PROVE  /\ ThisManager.own = OwnRules /\ ThisManager.undoes = IsAuto(cfg)
         /\ \A i \in 1 .. Len(Candidates(cfg)) : ToSet(RulesOf(cfg, i)) \in ThisManager.backends
         /\ Len(Candidates(cfg)) = 0 => ThisManager.backends = {}
         /\ ThisManager \in Managers
<1>1. cfg \in Config
  BY DEF TypeOK
<1>2. ThisManager = ManagerOf(cfg) /\ ThisManager \in Managers
  BY <1>1 DEF ManagerFor, Managers, ThisManager
<1>3. Candidates(cfg) \in Seq(Labels) /\ Len(Candidates(cfg)) \in 0 .. 3
  BY <1>1, CandidatesFacts
<1>4. DOMAIN Candidates(cfg) = 1 .. Len(Candidates(cfg))
  BY <1>3
<1>5. Len(Candidates(cfg)) = 0 => DOMAIN Candidates(cfg) = {}
  BY <1>4
<1>6. ThisManager.backends = {ToSet(RulesOf(cfg, i)) : i \in DOMAIN Candidates(cfg)}
  BY <1>2 DEF ManagerOf
<1>7. ThisManager.own = OwnRules /\ ThisManager.undoes = IsAuto(cfg)
  BY <1>2 DEF ManagerOf, OwnRules
<1>8. \A i \in 1 .. Len(Candidates(cfg)) : ToSet(RulesOf(cfg, i)) \in ThisManager.backends
  BY <1>4, <1>6, Zenon
<1>9. Len(Candidates(cfg)) = 0 => ThisManager.backends = {}
  BY <1>5, <1>6, Zenon
<1> QED BY <1>2, <1>7, <1>8, <1>9

\* what a step that changes copies of at most one rule does to the kernel
LEMMA KernelSame ==
  ASSUME table' = table
  PROVE  InKernel' = InKernel
BY DEF InKernel

LEMMA KernelAdds ==
  ASSUME CopiesInv, Inserting, ~cancelled, AddRule
  PROVE  InKernel' = InKernel \cup {Head(todo)}
<1> DEFINE h == Head(todo)
<1>1. /\ h \in RuleSpace /\ table'[h] >= 1 /\ table' \in [RuleSpace -> Nat]
      /\ \A r \in RuleSpace : r # h => table'[r] = table[r]
  BY AddedFacts
<1>2. h \in RuleSpace /\ table'[h] > 0
  BY <1>1
<1> HIDE DEF h
<1>3. InKernel' = InKernel \cup {h}
  BY <1>1, <1>2 DEF InKernel
<1> QED BY <1>3 DEF h

LEMMA KernelDeletes ==
  ASSUME CopiesInv, Delete
  PROVE  InKernel' \in {InKernel, InKernel \ {Head(todo)}} /\ Head(todo) \in RuleSpace
<1> DEFINE h == Head(todo)
<1>1. todo # << >> /\ table[h] > 0
  BY DEF Delete, Deleting, Present
<1>2. h \in RuleSpace /\ table \in [RuleSpace -> Nat]
  BY <1>1, CountTypes, TodoFacts DEF CopiesInv, TypeOK
<1>3. \E n : table' = [table EXCEPT ![h] = n]
  BY DEF Delete
<1> HIDE DEF h
<1>4. \A r \in RuleSpace : r # h => table'[r] = table[r]
  BY <1>2, <1>3
<1>5. CASE table'[h] > 0
  <2>1. InKernel' = InKernel
    BY <1>1, <1>4, <1>5 DEF InKernel
  <2> QED BY <1>2, <2>1 DEF h
<1>6. CASE ~(table'[h] > 0)
  <2>1. InKernel' = InKernel \ {h}
    BY <1>1, <1>4, <1>6 DEF InKernel
  <2> QED BY <1>2, <2>1 DEF h
<1> QED BY <1>5, <1>6

\* a deletion is of a rule of the manager
LEMMA TodoOwn ==
  ASSUME CopiesInv, todo # << >>
  PROVE  Head(todo) \in ThisManager.own
<1>1. Head(todo) \in ToSet(todo) /\ TypeOK /\ LoopInv
  BY CountTypes, TodoFacts DEF CopiesInv
<1>2. CASE Installing
  BY <1>1, <1>2, ManagerMapped, CountTypes DEF LoopInv, Installing
<1>3. CASE mode = "cleanup"
  BY <1>1, <1>3, ManagerMapped DEF LoopInv
<1> QED BY <1>1, <1>2, <1>3 DEF LoopInv, TypeOK, Installing

LEMMA DeleteMapped ==
  ASSUME CopiesInv, Delete
  PROVE  Contract!Next \/ UNCHANGED Contract!vars
<1>1. /\ mode \in {"preclean", "undo", "cleanup"} /\ todo # << >>
      /\ UNCHANGED <<cfg, mode, dirty>>
  BY DEF Delete, Deleting, NextRule
<1>2. InKernel' \in {InKernel, InKernel \ {Head(todo)}} /\ Head(todo) \in ThisManager.own
  BY <1>1, KernelDeletes, TodoOwn
<1>3. ThisManager' = ThisManager /\ Phase' = Phase /\ Phase \in {"installing", "cleaning"}
  BY <1>1 DEF ThisManager, Phase
<1>4. CASE InKernel' = InKernel
  BY <1>1, <1>3, <1>4 DEF Contract!vars, InKernel, ThisManager
<1>5. CASE InKernel' = InKernel \ {Head(todo)} /\ Phase = "installing"
  <2>1. Contract!Command
    BY <1>1, <1>2, <1>3, <1>5 DEF Contract!Command, InKernel, ThisManager
  <2> QED BY <2>1 DEF Contract!Next
<1>6. CASE InKernel' = InKernel \ {Head(todo)} /\ Phase = "cleaning"
  <2>1. Contract!Remove
    BY <1>1, <1>2, <1>3, <1>6 DEF Contract!Remove, InKernel, ThisManager
  <2> QED BY <2>1 DEF Contract!Next
<1> QED BY <1>2, <1>3, <1>4, <1>5, <1>6

\* a failed insertion is the end of Install only without autoFirewall
LEMMA InsertEndsMapped ==
  ASSUME CopiesInv, InsertFails \/ InsertKilled
  PROVE  Contract!Next \/ UNCHANGED Contract!vars
<1>1. /\ mode = "insert" /\ todo # << >> /\ UNCHANGED <<cfg, dirty>> /\ TypeOK
      /\ mode' = IF IsAuto(cfg) THEN "undo" ELSE "down"
  BY DEF InsertFails, InsertKilled, Inserting, InstallError, End, Enter, CopiesInv
<1>2. InKernel' \in {InKernel, InKernel \cup {Head(todo)}} /\ Head(todo) \in ThisManager.own
  BY <1>1, KernelSame, KernelAdds, TodoOwn DEF InsertFails, InsertKilled
<1>3. ThisManager' = ThisManager /\ Phase = "installing" /\ ThisManager.undoes = IsAuto(cfg)
  BY <1>1, ManagerMapped DEF ThisManager, Phase
<1>4. CASE IsAuto(cfg)
  <2>1. Phase' = Phase
    BY <1>1, <1>4 DEF Phase
  <2>2. CASE InKernel' = InKernel
    BY <1>1, <1>3, <2>1, <2>2 DEF Contract!vars, InKernel, ThisManager
  <2>3. CASE InKernel' = InKernel \cup {Head(todo)}
    <3>1. Contract!Command
      BY <1>1, <1>2, <1>3, <2>1, <2>3 DEF Contract!Command, InKernel, ThisManager
    <3> QED BY <3>1 DEF Contract!Next
  <2> QED BY <1>2, <2>2, <2>3
<1>5. CASE ~IsAuto(cfg)
  <2>1. Phase' = "down"
    BY <1>1, <1>5 DEF Phase
  <2>2. Contract!InstallFails
    BY <1>1, <1>2, <1>3, <1>5, <2>1 DEF Contract!InstallFails, InKernel, ThisManager
  <2> QED BY <2>2 DEF Contract!Next
<1> QED BY <1>4, <1>5

LEMMA GoneFromKernel ==
  ASSUME CopiesInv, CleanInv, \A r \in OwnRules : Gone(r), ~dirty
  PROVE  ThisManager.own \cap InKernel = {}
<1>1. ThisManager.own = OwnRules
  BY ManagerMapped DEF CopiesInv
<1>2. \A r \in OwnRules : table[r] = 0
  BY DEF Gone
<1>3. \A r \in OwnRules : ~(table[r] > 0)
  BY <1>2
<1> QED BY <1>1, <1>3 DEF InKernel

LEMMA UndoDoneMapped ==
  ASSUME CopiesInv, CleanInv, UndoDone
  PROVE  Contract!Next \/ UNCHANGED Contract!vars
<1>1. mode = "undo" /\ todo = << >> /\ UNCHANGED <<cfg, dirty, table>> /\ TypeOK /\ LoopInv
  BY DEF UndoDone, CopiesInv
<1>2. ThisManager' = ThisManager /\ Phase = "installing" /\ InKernel' = InKernel
  BY <1>1, KernelSame DEF ThisManager, Phase
<1>3. CASE cand < Len(Candidates(cfg))
  <2>1. Phase' = Phase
    BY <1>3 DEF UndoDone, Enter, Phase
  <2> QED BY <1>1, <1>2, <2>1 DEF Contract!vars, InKernel, ThisManager
<1>4. CASE ~(cand < Len(Candidates(cfg)))
  <2>1. Phase' = "down"
    BY <1>4 DEF UndoDone, End, Enter, Phase
  <2>2. dirty \/ ThisManager.own \cap InKernel = {}
    BY <1>1, <1>4, UndoneFacts, GoneFromKernel
  <2>3. PICK r \in ThisManager.own : TRUE
    <3>1. Current # {} /\ Current \subseteq OwnRules /\ ThisManager.own = OwnRules
      BY <1>1, ManagerMapped, CleanTypes DEF LoopInv, Installing
    <3> QED BY <3>1
  <2>4. Contract!InstallFails
    BY <1>1, <1>2, <2>1, <2>2, <2>3 DEF Contract!InstallFails, Contract!Clean, InKernel, ThisManager
  <2> QED BY <2>4 DEF Contract!Next
<1> QED BY <1>3, <1>4

\* each step of the managers is one of the contract, or none
LEMMA StepMapped ==
  ASSUME CopiesInv, CleanInv, [Next]_vars
  PROVE  [Contract!Next]_(Contract!vars)
<1>1. TypeOK /\ LoopInv /\ cfg \in Config
  BY DEF CopiesInv, TypeOK
<1>2. CASE Delete
  BY <1>2, DeleteMapped
<1>3. CASE InsertFails \/ InsertKilled
  BY <1>3, InsertEndsMapped
<1>4. CASE UndoDone
  BY <1>4, UndoDoneMapped
<1>5. CASE Refuse \/ Cancel \/ DeleteNothing \/ PrecleanDone \/ UNCHANGED vars
  <2>1. UNCHANGED <<cfg, table, dirty>>
    BY <1>5 DEF Refuse, Cancel, DeleteNothing, PrecleanDone, vars, process
  <2>2. Phase' = Phase
    BY <1>5 DEF Refuse, Cancel, DeleteNothing, NextRule, PrecleanDone, Enter, vars, process, Phase
  <2>3. ThisManager' = ThisManager /\ InKernel' = InKernel
    BY <2>1, KernelSame DEF ThisManager
  <2> QED BY <2>1, <2>2, <2>3 DEF Contract!vars, ThisManager, InKernel
<1>6. CASE Start
  <2>1. UNCHANGED <<cfg, table>> /\ dirty' = FALSE /\ mode = "down" /\ ~ManagerFails(cfg)
    BY <1>6 DEF Start
  <2>2. Phase' = IF NoManager(cfg) THEN "up" ELSE "installing"
    BY <1>6 DEF Start, Enter, Phase
  <2>3. NoManager(cfg) <=> ThisManager.backends = {}
    <3>1. NoManager(cfg) => ThisManager.backends = {}
      BY <1>1, ManagerFacts, ManagerMapped
    <3>2. CASE ~NoManager(cfg)
      <4>1. 1 <= Len(Candidates(cfg)) /\ Len(Candidates(cfg)) \in 0 .. 3
        BY <1>1, <2>1, <3>2, ManagerFacts
      <4>2. \A n \in 0 .. 3 : 1 <= n => 1 \in 1 .. n
        OBVIOUS
      <4>3. 1 \in 1 .. Len(Candidates(cfg))
        BY <4>1, <4>2
      <4>4. ToSet(RulesOf(cfg, 1)) \in ThisManager.backends
        BY <1>1, <4>3, ManagerMapped
      <4> QED BY <3>2, <4>4
    <3> QED BY <3>1, <3>2
  <2>4. ThisManager' = ThisManager /\ InKernel' = InKernel /\ Phase = "down"
    BY <2>1, KernelSame DEF ThisManager, Phase
  <2>5. Contract!Install
    BY <2>1, <2>2, <2>3, <2>4 DEF Contract!Install, ThisManager, InKernel
  <2> QED BY <2>5 DEF Contract!Next
<1>7. CASE DeleteFails
  <2>1. /\ mode \in {"preclean", "undo", "cleanup"} /\ UNCHANGED <<cfg, table, mode>>
        /\ dirty' = (dirty \/ mode # "preclean")
    BY <1>7 DEF DeleteFails, Deleting, NextRule
  <2>2. /\ ThisManager' = ThisManager /\ InKernel' = InKernel /\ Phase' = Phase
        /\ Phase \in {"installing", "cleaning"}
    BY <2>1, KernelSame DEF ThisManager, Phase
  <2>3. CASE mode = "preclean"
    <3>1. dirty' = dirty
      BY <1>1, <2>1, <2>3 DEF TypeOK
    <3> QED BY <2>2, <3>1 DEF Contract!vars, ThisManager, InKernel
  <2>4. CASE mode # "preclean"
    <3>1. dirty' = TRUE
      BY <2>1, <2>4
    <3>2. Contract!DeletionFails
      BY <2>2, <3>1 DEF Contract!DeletionFails, ThisManager, InKernel
    <3> QED BY <3>2 DEF Contract!Next
  <2> QED BY <2>3, <2>4
<1>8. CASE Insert
  <2>1. /\ Inserting /\ mode = "insert" /\ todo # << >> /\ ~cancelled /\ AddRule
        /\ UNCHANGED <<cfg, mode, dirty>>
    BY <1>8 DEF Insert, Inserting, NextRule
  <2>2. InKernel' = InKernel \cup {Head(todo)} /\ Head(todo) \in ThisManager.own
    BY <2>1, KernelAdds, TodoOwn
  <2>3. ThisManager' = ThisManager /\ Phase = "installing" /\ Phase' = Phase
    BY <2>1 DEF ThisManager, Phase
  <2>4. Contract!Command
    BY <2>1, <2>2, <2>3 DEF Contract!Command, ThisManager, InKernel
  <2> QED BY <2>4 DEF Contract!Next
<1>9. CASE InsertDone
  <2>1. mode = "insert" /\ todo = << >> /\ mode' = "up" /\ UNCHANGED <<cfg, table, dirty>>
    BY <1>9 DEF InsertDone, Enter
  <2>2. ThisManager' = ThisManager /\ InKernel' = InKernel /\ Phase = "installing" /\ Phase' = "up"
    BY <2>1, KernelSame DEF ThisManager, Phase
  <2>3. Current \in ThisManager.backends
    <3>1. cand \in Nat /\ 1 <= cand /\ cand <= Len(Candidates(cfg))
      BY <1>1, <2>1 DEF LoopInv, TypeOK, Installing
    <3>2. cand \in 1 .. Len(Candidates(cfg))
      BY <1>1, <3>1, UpToThree, ManagerFacts
    <3> QED BY <1>1, <3>2, ManagerMapped DEF Current
  <2>4. Current \subseteq InKernel
    <3>1. Past = Current
      BY <2>1, NoneTodo DEF Past
    <3>2. Current \subseteq RuleSpace /\ \A r \in RuleSpace : table[r] \in Nat
      BY <2>1, CleanTypes DEF Installing
    <3>3. \A r \in Current : table[r] >= 1
      BY <2>1, <3>1 DEF CopiesInv, InsertInv
    <3>4. \A r \in Current : table[r] > 0
      BY <3>2, <3>3
    <3> QED BY <3>2, <3>4 DEF InKernel
  <2>5. Contract!InstallOK
    BY <2>1, <2>2, <2>3, <2>4 DEF Contract!InstallOK, ThisManager, InKernel
  <2> QED BY <2>5 DEF Contract!Next
<1>10. CASE LeaveUp
  <2>1. mode = "up" /\ mode' = "cleanup" /\ UNCHANGED <<cfg, table, dirty>>
    BY <1>10 DEF LeaveUp, Enter
  <2>2. ThisManager' = ThisManager /\ InKernel' = InKernel /\ Phase = "up" /\ Phase' = "cleaning"
    BY <2>1, KernelSame DEF ThisManager, Phase
  <2>3. Contract!Leave
    BY <2>1, <2>2 DEF Contract!Leave, ThisManager, InKernel
  <2> QED BY <2>3 DEF Contract!Next
<1>11. CASE CleanupDone
  <2>1. /\ mode = "cleanup" /\ todo = << >> /\ mode' = "down" /\ UNCHANGED <<cfg, table, dirty>>
    BY <1>11 DEF CleanupDone, End, Enter
  <2>2. ThisManager' = ThisManager /\ InKernel' = InKernel /\ Phase = "cleaning" /\ Phase' = "down"
    BY <2>1, KernelSame DEF ThisManager, Phase
  <2>3. \A r \in OwnRules : Gone(r)
    BY <2>1, NoneTodo DEF CleanInv, GoneInv
  <2>4. dirty \/ ThisManager.own \cap InKernel = {}
    BY <2>3, GoneFromKernel
  <2>5. Contract!Cleanup
    BY <2>1, <2>2, <2>4 DEF Contract!Cleanup, Contract!Clean, ThisManager, InKernel
  <2> QED BY <2>5 DEF Contract!Next
<1>12. CASE Crash
  <2>1. mode # "down" /\ mode' = "down" /\ UNCHANGED <<cfg, table, dirty>>
    BY <1>12 DEF Crash, End, Enter
  <2>2. ThisManager' = ThisManager /\ InKernel' = InKernel /\ Phase # "down" /\ Phase' = "down"
    BY <1>1, <2>1, KernelSame DEF ThisManager, Phase, TypeOK
  <2>3. Contract!Die
    BY <2>1, <2>2 DEF Contract!Die, ThisManager, InKernel
  <2> QED BY <2>3 DEF Contract!Next
<1>13. CASE Reconfigure
  <2>1. mode = "down" /\ mode' = "down" /\ table' = table /\ dirty' = FALSE /\ cfg' \in Config
    BY <1>13, Zenon DEF Reconfigure
  <2>2. InKernel' = InKernel /\ Phase = "down" /\ Phase' = "down"
    BY <2>1, KernelSame DEF Phase
  <2>3. ThisManager' \in Managers
    BY <2>1 DEF ThisManager, Managers
  <2>4. Contract!newFirewallManager
    BY <2>1, <2>2, <2>3 DEF Contract!newFirewallManager, ThisManager, InKernel
  <2> QED BY <2>4 DEF Contract!Next
<1> QED
  BY <1>2, <1>3, <1>4, <1>5, <1>6, <1>7, <1>8, <1>9, <1>10, <1>11, <1>12, <1>13 DEF Next, Program

\* the managers keep the contract of FirewallManager that Run relies on
THEOREM ManagersKeepContract ==
  ASSUME MaxDeleteFaults < DeleteTries
  PROVE  Spec => KeepsContract
<1>1. Init => Contract!Init
  <2> SUFFICES ASSUME Init PROVE Contract!Init
    OBVIOUS
  <2>1. cfg \in Config /\ Phase = "down" /\ dirty = FALSE
    BY DEF Init, Phase
  <2>2. ThisManager \in Managers
    BY <2>1 DEF ThisManager, Managers
  <2>3. InKernel = {}
    BY DEF Init, InKernel
  <2> QED BY <2>1, <2>2, <2>3 DEF Contract!Init, ThisManager, InKernel
<1>2. CopiesInv /\ CleanInv /\ [Next]_vars => [Contract!Next]_(Contract!vars)
  BY StepMapped
<1> QED BY <1>1, <1>2, CleanInvariance, PTL DEF Spec, KeepsContract, Contract!Spec

-----------------------------------------------------------------------------
(***************************************************************************)
(* The way to a manager: what loadConfig accepts, newEngine and Install    *)
(* can use, for every configuration file and every set of tools.           *)
(***************************************************************************)
\* once it is past loadConfig, run holds what loadConfig accepted
Accepted == loaded = loadConfig(file) /\ loaded.ok

BootInv ==
  /\ file \in File
  /\ loaded.ok => Accepted
  /\ at # "returned" => error = "none"
  /\ at \in {"root", "engine", "ticker", "started"} => Accepted
  /\ AcceptedUsable

LEMMA AcceptedFacts ==
  ASSUME Accepted
  PROVE  /\ loaded.cfg.engine \in {"nfqueue", "af_xdp", "xdp_fast_path"}
         /\ loaded.cfg.rules = "compile" /\ loaded.cfg.backend \in Backend /\ loaded.every > 0
         /\ \A i \in DOMAIN loaded.cfg.chains : loaded.cfg.chains[i].word \in Hook
         /\ loaded.cfg.chains =
              IF Decode(file).chains = << >> THEN AllHooks ELSE Decode(file).chains
<1> DEFINE raw == Decode(file)
           cfg1 == Normalized(raw)
<1>1. loadConfig(file) =
        IF file.is # "valid" THEN Refused("file")
        ELSE IF cfg1.engine \notin {"nfqueue", "af_xdp", "xdp_fast_path"} THEN Refused("engine")
        ELSE IF ~IntervalOK(raw.statsInterval) THEN Refused("stats_interval")
        ELSE IF ~validateNFQueueConfig(cfg1) THEN Refused("nfqueue")
        ELSE IF cfg1.rules # "compile" THEN Refused("rules")
        ELSE [ok |-> TRUE, cfg |-> cfg1, every |-> statsEvery(raw.statsInterval)]
  BY DEF loadConfig
<1>2. cfg1.chains = IF raw.chains = << >> THEN AllHooks ELSE raw.chains
  BY DEF Normalized
<1> HIDE DEF raw, cfg1
<1>3. \A why : ~Refused(why).ok
  BY DEF Refused
<1>4. /\ loaded = [ok |-> TRUE, cfg |-> cfg1, every |-> statsEvery(raw.statsInterval)]
      /\ cfg1.engine \in {"nfqueue", "af_xdp", "xdp_fast_path"} /\ cfg1.rules = "compile"
      /\ IntervalOK(raw.statsInterval) /\ validateNFQueueConfig(cfg1)
  BY <1>1, <1>3 DEF Accepted
<1>5. loaded.cfg = cfg1 /\ loaded.every > 0
  BY <1>4 DEF IntervalOK
<1>6. /\ cfg1.backend \in Backend
      /\ \A i \in DOMAIN cfg1.chains : normalizeChoice(cfg1.chains[i], "") \in Hook
  BY <1>4 DEF validateNFQueueConfig
<1>7. \A i \in DOMAIN cfg1.chains : cfg1.chains[i].word \in Hook
  BY <1>6 DEF normalizeChoice, Hook
<1> QED BY <1>2, <1>4, <1>5, <1>6, <1>7 DEF raw

LEMMA BootStep ==
  ASSUME BootInv, [BootNext]_bootVars
  PROVE  BootInv'
<1>0. /\ file \in File /\ (loaded.ok => Accepted) /\ (at # "returned" => error = "none")
      /\ at \in {"root", "engine", "ticker", "started"} => Accepted
      /\ loaded.ok => error \notin {"unknown engine", "unknown backend", "rules", "panic"}
  BY DEF BootInv, AcceptedUsable
<1>1. CASE BadArgs \/ NotRoot
  <2>1. UNCHANGED <<file, loaded>> /\ at' = "returned" /\ error' \in {"args", "root"}
    BY <1>1 DEF BadArgs, NotRoot, Fail
  <2> QED BY <1>0, <2>1 DEF BootInv, Accepted, AcceptedUsable
<1>2. CASE Load
  <2>1. /\ file' = file /\ loaded' = loadConfig(file) /\ at = "args"
        /\ IF loadConfig(file).ok THEN at' = "root" /\ error' = error ELSE at' = "returned"
    BY <1>2 DEF Load, Fail
  <2> QED BY <1>0, <2>1 DEF BootInv, Accepted, AcceptedUsable
<1>3. CASE Root
  <2>1. UNCHANGED <<file, loaded, error>> /\ at = "root" /\ at' = "engine"
    BY <1>3 DEF Root, Go
  <2> QED BY <1>0, <2>1 DEF BootInv, Accepted, AcceptedUsable
<1>4. CASE newEngine
  <2>1. /\ UNCHANGED <<file, loaded>> /\ at = "engine" /\ error = "none" /\ Accepted
        /\ \/ at' = "ticker" /\ error' = error
           \/ at' = "returned" /\ error' = EngineError
    BY <1>0, <1>4 DEF newEngine, Fail
  <2>2. EngineError \in {"not implemented", "no tool", "none"}
    <3>1. /\ loaded.cfg.engine \in {"nfqueue", "af_xdp", "xdp_fast_path"}
          /\ loaded.cfg.rules = "compile" /\ loaded.cfg.backend \in Backend
      BY <2>1, AcceptedFacts
    <3>2. NFQueue.backend = loaded.cfg.backend
      BY DEF NFQueue
    <3>3. ~NoManager(NFQueue) =>
            loaded.cfg.backend \in {"auto", "nft", "nftables", "iptables", "iptables-legacy"}
      BY <3>1, <3>2 DEF NoManager, Backend
    <3> QED BY <3>1, <3>3 DEF EngineError
  <2> QED BY <1>0, <2>1, <2>2 DEF BootInv, Accepted, AcceptedUsable
<1>5. CASE NewTicker
  <2>1. /\ UNCHANGED <<file, loaded>> /\ at = "ticker" /\ error = "none" /\ Accepted
        /\ IF loaded.every > 0 THEN at' = "started" /\ error' = error ELSE at' = "returned"
    BY <1>0, <1>5 DEF NewTicker, Fail
  <2>2. at' = "started" /\ error' = "none"
    BY <2>1, AcceptedFacts
  <2> QED BY <1>0, <2>1, <2>2 DEF BootInv, Accepted, AcceptedUsable
<1>6. CASE UNCHANGED bootVars
  BY <1>0, <1>6 DEF bootVars, BootInv, Accepted, AcceptedUsable
<1> QED
  BY <1>1, <1>2, <1>3, <1>4, <1>5, <1>6 DEF BootNext, Done

LEMMA BootInvariance == BootSpec => []BootInv
<1>1. BootInit => BootInv
  BY DEF BootInit, Refused, BootInv, Accepted, AcceptedUsable
<1>2. BootInv /\ [BootNext]_bootVars => BootInv'
  BY BootStep
<1> QED BY <1>1, <1>2, PTL DEF BootSpec

\* what loadConfig accepts falls to no default of a switch of newEngine or
\* newFirewallManager, fails no second compilation and panics no ticker
THEOREM AcceptedIsUsable == BootSpec => []AcceptedUsable
BY BootInvariance, PTL DEF BootInv

\* a list without repetitions is as long as the set of its elements
LEMMA DistinctLength ==
  ASSUME NEW S, NEW s \in Seq(S), Distinct(s)
  PROVE  Cardinality(ToSet(s)) = Len(s)
<1> DEFINE n == Len(s)
<1>1. n \in Nat /\ DOMAIN s = 1 .. n
  OBVIOUS
<1>2. ToSet(s) = {s[i] : i \in 1 .. n}
  BY <1>1 DEF ToSet
<1>3. s \in [1 .. n -> ToSet(s)]
  BY <1>1, <1>2
<1>4. IsInjective(s)
  BY <1>1 DEF IsInjective, Distinct
<1>5. \A t \in ToSet(s) : \E i \in 1 .. n : s[i] = t
  BY <1>2
<1>6. ExistsBijection(1 .. n, ToSet(s))
  BY <1>3, <1>4, <1>5, Zenon DEF ExistsBijection, Bijection, Injection, Surjection
<1> HIDE DEF n
<1>7. Cardinality(ToSet(s)) = n
  BY <1>1, <1>6, FS_CountingElements
<1> QED BY <1>7 DEF n

\* the chains that are decoded are the ones the file lists, or all three
LEMMA HooksListed ==
  ASSUME file \in File, Accepted
  PROVE  LET chains == loaded.cfg.chains
         IN  /\ Len(chains) \in Nat /\ Meant = {chains[i].word : i \in 1 .. Len(chains)}
             /\ Meant \subseteq Hook
<1> DEFINE chains == loaded.cfg.chains
           W == [word : STRING, spelled : STRING]
           listed == file.fields.chains
<1>1. /\ \A i \in DOMAIN chains : chains[i].word \in Hook
      /\ chains = IF Decode(file).chains = << >> THEN AllHooks ELSE Decode(file).chains
  BY AcceptedFacts
<1>2. /\ Len(AllHooks) \in Nat /\ DOMAIN AllHooks = 1 .. Len(AllHooks) /\ AllHooks # << >>
      /\ {AllHooks[i].word : i \in DOMAIN AllHooks} = Hook
  <2>1. \A w : Choice(w).word = w
    BY DEF Choice
  <2>2. AllHooks = <<Choice("input"), Choice("output"), Choice("forward")>>
    BY DEF AllHooks
  <2>3. /\ Len(AllHooks) = 3 /\ DOMAIN AllHooks = 1 .. 3 /\ AllHooks # << >>
        /\ AllHooks[1] = Choice("input") /\ AllHooks[2] = Choice("output")
        /\ AllHooks[3] = Choice("forward")
    BY <2>2
  <2>4. 1 .. 3 = {1, 2, 3}
    OBVIOUS
  <2>5. AllHooks[1].word = "input" /\ AllHooks[2].word = "output" /\ AllHooks[3].word = "forward"
    BY <2>1, <2>3
  <2>6. {AllHooks[i].word : i \in {1, 2, 3}} = {"input", "output", "forward"}
    BY <2>5
  <2> QED BY <2>3, <2>4, <2>6 DEF Hook
<1>3. Default.chains = AllHooks /\ "chains" \in DOMAIN Default
  BY DEF Default
<1>4. Decode(file).chains = IF "chains" \in DOMAIN file.fields THEN listed
                            ELSE IF "chains" \in file.nulls THEN << >> ELSE AllHooks
  BY <1>3 DEF Decode
<1>5. "chains" \in DOMAIN file.fields => listed \in Seq(W)
  BY FileAssumption DEF WellFormed
<1>6. Meant = IF "chains" \in DOMAIN file.fields /\ listed # << >>
                   THEN {listed[i].word : i \in DOMAIN listed} ELSE Hook
  BY DEF Meant
<1> HIDE DEF W, listed, chains
<1>7. /\ Len(chains) \in Nat /\ DOMAIN chains = 1 .. Len(chains)
      /\ Meant = {chains[i].word : i \in DOMAIN chains}
  <2>1. CASE "chains" \in DOMAIN file.fields /\ listed # << >>
    <3>1. chains = listed
      BY <1>1, <1>4, <2>1
    <3>2. listed \in Seq(W)
      BY <1>5, <2>1
    <3> QED BY <1>6, <2>1, <3>1, <3>2
  <2>2. CASE ~("chains" \in DOMAIN file.fields /\ listed # << >>)
    <3>1. chains = AllHooks
      BY <1>1, <1>2, <1>4, <2>2
    <3> QED BY <1>2, <1>6, <2>2, <3>1
  <2> QED BY <2>1, <2>2
<1>8. Meant \subseteq Hook
  BY <1>1, <1>7
<1> QED BY <1>7, <1>8 DEF chains

\* a filter that started queues at the hooks its file means, each of them once
THEOREM HooksMeant == BootSpec => []HooksAsMeant
<1>1. ASSUME BootInv PROVE HooksAsMeant
  <2> DEFINE raw == loaded.cfg.chains
             chains == normalizedChains(raw)
  <2> SUFFICES ASSUME Accepted
               PROVE  /\ ToSet(normalizedChains(loaded.cfg.chains)) = Meant
                      /\ Meant \subseteq Hook
                      /\ Len(normalizedChains(loaded.cfg.chains)) = Cardinality(Meant)
    BY <1>1, Zenon DEF HooksAsMeant, BootInv
  <2>1. /\ Len(raw) \in Nat /\ Meant \subseteq Hook
        /\ Meant = {raw[i].word : i \in 1 .. Len(raw)}
    BY <1>1, HooksListed DEF BootInv
  <2>2. Len(raw) \in Nat /\ \A k \in 1 .. Len(raw) : raw[k].word \in Hook
    BY <2>1, Zenon
  <2>3. /\ chains \in Seq(Hook) /\ Distinct(chains)
        /\ \A x : x \in ToSet(chains) <=> x # "" /\ \E k \in 1 .. Len(raw) : raw[k].word = x
    BY <2>2, ChainsOnce
  <2>4. "" \notin Hook
    BY DEF Hook
  <2> HIDE DEF raw, chains
  <2>5. \A x : x \in Meant <=> \E k \in 1 .. Len(raw) : raw[k].word = x
    BY <2>1, Zenon
  <2>6. ToSet(chains) = Meant
    BY <2>1, <2>3, <2>4, <2>5
  <2>7. Cardinality(ToSet(chains)) = Len(chains)
    BY <2>3, DistinctLength
  <2> QED BY <2>1, <2>6, <2>7 DEF raw, chains
<1> QED BY <1>1, BootInvariance, PTL
================================================================================
