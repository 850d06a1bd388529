------------------------------- MODULE XdpProofs -------------------------------
(***************************************************************************)
(* The safety properties of XdpPath, for any number of CPUs, packets,      *)
(* rules and calls: what a filter holds once it is closed, the counters    *)
(* and what GetStats makes of them, and that an added rule is enforced.    *)
(***************************************************************************)
EXTENDS XdpPath, FiniteSetTheorems, NaturalsInduction, TLAPS

-----------------------------------------------------------------------------
(***************************************************************************)
(* The inductive invariants.                                               *)
(***************************************************************************)

\* before AttachXDP and after CloseLink nothing is attached; an end of
\* NewXDPFilter, of Close or of the process has closed everything
LoaderInv ==
  /\ open \subseteq closeArgs /\ (at = "load" => open = {})
  /\ at \notin {"up", "dying"} => ~attached
  /\ NothingLeaked

Programmed == {"xdp_filter"} \cup ToSet(Programs)
Running == [prog : Programmed, p : Packet]

CountsType ==
  /\ dispatch \in [0 .. 11 -> {"none"} \cup ToSet(Programs)]
  /\ cpu \in [CPU -> {NoPacket} \cup Running]
  /\ stats \in [0 .. 7 -> Nat] /\ uncounted \in Nat
  /\ snap \in [ToSet(statNames) -> Nat] /\ snapAt \in 0 .. 8

\* the counter i as GetStats has it, or will have it if it reads it now
Seen(i) == IF i < snapAt THEN snap[statNames[i + 1]] ELSE stats[i]

\* GetStatsSkew while the entries are read: total came first, and what is
\* read after it can only be larger than it was then
SkewInv ==
  snapAt >= 1 =>
    snap["total"] <= Seen(1) + Seen(2) + Seen(3) + Seen(4) + Seen(5) + Seen(6) + Seen(7)
                       + Cardinality(CPU) + uncounted

-----------------------------------------------------------------------------
(***************************************************************************)
(* The descriptors and the link.                                           *)
(***************************************************************************)
LEMMA LoaderStepInv == LoaderInv /\ [Next]_vars => LoaderInv'
<1> SUFFICES ASSUME LoaderInv, [Next]_vars PROVE LoaderInv'
  OBVIOUS
<1> USE DEF LoaderInv, NothingLeaked
<1>1. CASE NewXDPFilter
  <2>1. Object \subseteq closeArgs
    BY DEF Object, closeArgs
  <2> QED
    BY <1>1, <2>1 DEF NewXDPFilter, LoadFails, LoadAndAssign, PopulateDispatch, InterfaceByName,
                      AttachXDP, NewFails, Step, closeObjects
<1>2. CASE AddRules
  BY <1>2 DEF AddRules
<1>3. CASE CloseLink \/ CloseFilter
  BY <1>3 DEF CloseLink, CloseFilter, Step, closeObjects
<1>4. CASE Death
  BY <1>4 DEF Death, Die, DieObjects, DieLink, Dead
<1>5. CASE UNCHANGED loaderVars
  BY <1>5 DEF loaderVars
<1>6. QED
  BY <1>1, <1>2, <1>3, <1>4, <1>5
     DEF Next, LoaderStep, Calls, GetStats, LookupStat, LookupStatFails, Done, Receive,
         RunProgram, vars

(***************************************************************************)
(* A filter that could not be built, or was closed, or whose process died, *)
(* holds neither a descriptor nor the interface, at whichever call         *)
(* NewXDPFilter failed.                                                    *)
(***************************************************************************)
THEOREM ClosedHoldsNothing == Spec => []NothingLeaked
<1>1. Init => LoaderInv
  BY DEF Init, LoaderInit, LoaderInv, NothingLeaked
<1>2. LoaderInv => NothingLeaked
  BY DEF LoaderInv
<1>3. QED
  BY <1>1, <1>2, LoaderStepInv, PTL DEF Spec

-----------------------------------------------------------------------------
(***************************************************************************)
(* What a program returns: a tail call to an entry of dispatch_rules, or a *)
(* verdict that is counted.  Only the programs for DNS leave uncounted.    *)
(***************************************************************************)
OutcomeName ==
  {"passed", "http_blocked", "tls_blocked", "dns_poisoned", "ip_blocked", "ip_port_blocked",
   "malformed"}

Counted(r) == r.is = "verdict" /\ r.stat \in OutcomeName
Jumps(r) == r.is = "tail" /\ r.index \in 0 .. 11
Lost(r) == r.is = "verdict" /\ r.stat = "none"

LEMMA StepsCount ==
  ASSUME NEW fam, NEW p, NEW proto, NEW want
  PROVE  /\ Counted(Passed) /\ Counted(Malformed)
         /\ Counted(validate(fam, p)) \/ validate(fam, p) = Continue
         /\ Counted(ports(p, proto)) \/ ports(p, proto) = Continue
         /\ Counted(ip_ports(p)) \/ ip_ports(p) = Continue
         /\ Counted(payload_for_port(fam, p, want)) \/ payload_for_port(fam, p, want) = Continue
BY DEF Counted, OutcomeName, Passed, Malformed, Verdict, validate, ports, ip_ports, payload_for_port

LEMMA ThenCounts ==
  ASSUME NEW r, NEW n, Counted(r) \/ r = Continue
  PROVE  Counted(Then(r, n)) \/ Then(r, n) = n
BY DEF Then

LEMMA TailCallJumps ==
  ASSUME NEW prog \in ToSet(Programs)
  PROVE  Jumps(TailCall(prog))
BY DEF Jumps, TailCall, Dispatch, Programs, ToSet

LEMMA ResultShape ==
  ASSUME NEW prog \in Programmed, NEW p
  PROVE  \/ Counted(Result(prog, p)) \/ Jumps(Result(prog, p))
         \/ Lost(Result(prog, p)) /\ prog \in {"dns4", "dns6"}
<1>1. \A q \in {"ipv4", "ipv6", "tcp4", "udp4", "tcp6", "udp6",
                "http4", "tls4", "http6", "tls6", "dns4", "dns6"} : Jumps(TailCall(q))
  BY TailCallJumps DEF ToSet, Programs
<1>2. CASE prog = "xdp_filter"
  <2>1. Result(prog, p) = xdp_filter(p)
    BY <1>2 DEF Result
  <2>2. QED
    BY <2>1, <1>1, StepsCount DEF xdp_filter
<1>3. ASSUME NEW fam, NEW tcp, NEW udp, Jumps(TailCall(tcp)), Jumps(TailCall(udp))
      PROVE  Counted(xdp_ip(fam, p, tcp, udp)) \/ Jumps(xdp_ip(fam, p, tcp, udp))
  BY <1>3, StepsCount, ThenCounts DEF xdp_ip
<1>4. ASSUME NEW fam, NEW http, NEW tls, Jumps(TailCall(http)), Jumps(TailCall(tls))
      PROVE  Counted(xdp_tcp(fam, p, http, tls)) \/ Jumps(xdp_tcp(fam, p, http, tls))
  BY <1>4, StepsCount, ThenCounts DEF xdp_tcp
<1>5. ASSUME NEW fam, NEW dns, Jumps(TailCall(dns))
      PROVE  Counted(xdp_udp(fam, p, dns)) \/ Jumps(xdp_udp(fam, p, dns))
  BY <1>5, StepsCount, ThenCounts DEF xdp_udp
<1>6. ASSUME NEW fam PROVE Counted(xdp_http(fam, p)) /\ Counted(xdp_tls(fam, p))
  <2>1. ASSUME NEW drop, NEW stat \in OutcomeName PROVE Counted(run_rule(drop, stat))
    BY StepsCount DEF run_rule, Counted, Verdict
  <2>2. QED
    BY <2>1, StepsCount, ThenCounts DEF xdp_http, xdp_tls, OutcomeName
<1>7. ASSUME NEW fam PROVE Counted(xdp_dns(fam, p)) \/ Lost(xdp_dns(fam, p))
  <2>1. Counted(check_dns(fam, p)) \/ Lost(check_dns(fam, p))
    BY DEF check_dns, Counted, Lost, Verdict, OutcomeName
  <2>2. QED
    BY <2>1, StepsCount, ThenCounts DEF xdp_dns
<1>8. CASE prog \in {"ipv4", "ipv6"}
  BY <1>1, <1>3, <1>8 DEF Result
<1>9. CASE prog \in {"tcp4", "tcp6"}
  BY <1>1, <1>4, <1>9 DEF Result
<1>10. CASE prog \in {"udp4", "udp6"}
  BY <1>1, <1>5, <1>10 DEF Result
<1>11. CASE prog \in {"http4", "http6", "tls4", "tls6"}
  BY <1>6, <1>11 DEF Result
<1>12. CASE prog \in {"dns4", "dns6"}
  BY <1>7, <1>12 DEF Result
<1>13. QED
  BY <1>2, <1>8, <1>9, <1>10, <1>11, <1>12 DEF Programmed, ToSet, Programs

-----------------------------------------------------------------------------
(***************************************************************************)
(* Counting.                                                               *)
(***************************************************************************)
Sum(s) == s[1] + s[2] + s[3] + s[4] + s[5] + s[6] + s[7]

LEMMA IncTotal ==
  ASSUME NEW s \in [0 .. 7 -> Nat]
  PROVE  /\ inc_stat(s, "total") \in [0 .. 7 -> Nat]
         /\ inc_stat(s, "total")[0] = s[0] + 1
         /\ \A i \in 1 .. 7 : inc_stat(s, "total")[i] = s[i]
BY DEF inc_stat, Stat

LEMMA IncOutcome ==
  ASSUME NEW s \in [0 .. 7 -> Nat], NEW name \in OutcomeName
  PROVE  /\ inc_stat(s, name) \in [0 .. 7 -> Nat]
         /\ inc_stat(s, name)[0] = s[0]
         /\ Sum(inc_stat(s, name)) = Sum(s) + 1
         /\ \A i \in 0 .. 7 : s[i] <= inc_stat(s, name)[i]
<1>1. PICK k \in 1 .. 7 : inc_stat(s, name) = [s EXCEPT ![k] = @ + 1]
  <2>1. Stat[name] \in 1 .. 7
    BY DEF OutcomeName, Stat
  <2>2. QED
    BY <2>1 DEF inc_stat
<1>2. QED
  BY <1>1 DEF Sum

LEMMA AccountingSum ==
  ASSUME NEW s \in [0 .. 7 -> Nat]
  PROVE  /\ s[Stat.total] = s[0]
         /\ Outcomes([n \in DOMAIN Stat |-> s[Stat[n]]]) = Sum(s)
BY DEF Stat, Outcomes, Sum

-----------------------------------------------------------------------------
(***************************************************************************)
(* What a step does to the counters: a packet arrives, a program calls     *)
(* another, or a packet leaves with a count or without one.                *)
(***************************************************************************)
Arrives(c) ==
  /\ cpu[c] = NoPacket /\ cpu'[c] # NoPacket /\ cpu' = [cpu EXCEPT ![c] = cpu'[c]]
  /\ stats' = inc_stat(stats, "total") /\ uncounted' = uncounted

GoesOn(c) ==
  /\ cpu[c] # NoPacket /\ cpu'[c] # NoPacket /\ cpu' = [cpu EXCEPT ![c] = cpu'[c]]
  /\ stats' = stats /\ uncounted' = uncounted

Leaves(c) ==
  /\ cpu[c] # NoPacket /\ cpu' = [cpu EXCEPT ![c] = NoPacket]
  /\ \/ \E name \in OutcomeName : stats' = inc_stat(stats, name) /\ uncounted' = uncounted
     \/ stats' = stats /\ uncounted' = uncounted + 1

Counting == \E c \in CPU : Arrives(c) \/ GoesOn(c) \/ Leaves(c)

LEMMA ReceiveArrives ==
  ASSUME CountsType, NEW c \in CPU, NEW p \in Packet, Receive(c, p)
  PROVE  Arrives(c) /\ cpu'[c] \in Running
<1>1. [prog |-> "xdp_filter", p |-> p] \in Running
  BY DEF Running, Programmed
<1>2. QED
  BY <1>1 DEF Receive, Arrives, CountsType, NoPacket, Running

LEMMA RunProgramCounts ==
  ASSUME CountsType, NEW c \in CPU, RunProgram(c)
  PROVE  (GoesOn(c) /\ cpu'[c] \in Running) \/ Leaves(c)
<1> DEFINE r == Result(cpu[c].prog, cpu[c].p)
<1>1. cpu[c] \in Running /\ cpu[c] # NoPacket
  BY DEF RunProgram, Busy, CountsType
<1>2. cpu[c].prog \in Programmed
  BY <1>1 DEF Running
<1>3. Counted(r) \/ Jumps(r) \/ (Lost(r) /\ cpu[c].prog \in {"dns4", "dns6"})
  BY <1>2, ResultShape
<1> HIDE DEF r
<1>4. CASE RunTail(c)
  <2>1. r.is = "tail" /\ r.index \in 0 .. 11 /\ uncounted' = uncounted
    BY <1>3, <1>4 DEF RunTail, r, Counted, Jumps, Lost
  <2>2. CASE dispatch[r.index] = "none"
    <3>1. cpu' = [cpu EXCEPT ![c] = NoPacket] /\ stats' = inc_stat(stats, "passed")
      BY <1>4, <2>2 DEF RunTail, Leave, r
    <3>2. QED
      BY <1>1, <2>1, <3>1 DEF Leaves, OutcomeName
  <2>3. CASE dispatch[r.index] # "none"
    <3>1. cpu' = [cpu EXCEPT ![c].prog = dispatch[r.index]] /\ stats' = stats
      BY <1>4, <2>3 DEF RunTail, r
    <3>2. dispatch[r.index] \in Programmed
      BY <2>1, <2>3 DEF CountsType, Programmed
    <3>3. cpu'[c] = [cpu[c] EXCEPT !.prog = dispatch[r.index]] /\ cpu' = [cpu EXCEPT ![c] = cpu'[c]]
      BY <3>1 DEF CountsType
    <3>4. cpu'[c] \in Running
      BY <1>1, <3>2, <3>3 DEF Running
    <3>5. cpu'[c] # NoPacket
      BY <3>2, <3>3, <1>1 DEF Running, NoPacket, Programmed, ToSet, Programs
    <3>6. QED
      BY <1>1, <2>1, <3>1, <3>3, <3>4, <3>5 DEF GoesOn
  <2>4. QED
    BY <2>2, <2>3
<1>5. CASE RunVerdict(c)
  <2>1. /\ r.is = "verdict" /\ cpu' = [cpu EXCEPT ![c] = NoPacket]
        /\ stats' = IF r.stat = "none" THEN stats ELSE inc_stat(stats, r.stat)
        /\ uncounted' = IF r.stat = "none" /\ cpu[c].prog \in {"dns4", "dns6"}
                        THEN uncounted + 1 ELSE uncounted
    BY <1>5 DEF RunVerdict, Leave, r
  <2>2. CASE Counted(r)
    BY <1>1, <2>1, <2>2 DEF Leaves, Counted, OutcomeName
  <2>3. CASE Lost(r) /\ cpu[c].prog \in {"dns4", "dns6"}
    BY <1>1, <2>1, <2>3 DEF Leaves, Lost
  <2>4. QED
    BY <1>3, <2>1, <2>2, <2>3 DEF Jumps
<1>6. QED
  BY <1>4, <1>5 DEF RunProgram

LEMMA CountsTypeStep == CountsType /\ [Next]_vars => CountsType'
<1> SUFFICES ASSUME CountsType, [Next]_vars PROVE CountsType'
  OBVIOUS
<1>1. CASE LoaderStep
  <2>1. dispatch' \in [0 .. 11 -> {"none"} \cup ToSet(Programs)]
    <3>1. CASE PopulateDispatch
      <4> DEFINE k == Min(Unset)
      <4>1. dispatch' = [dispatch EXCEPT ![k] = Programs[k + 1]]
        BY <3>1 DEF PopulateDispatch
      <4>2. k \in 0 .. 11 => Programs[k + 1] \in ToSet(Programs)
        <5> HIDE DEF k
        <5>1. QED
          BY DEF Programs, ToSet
      <4>3. QED
        <5> HIDE DEF k
        <5>1. QED
          BY <4>1, <4>2 DEF CountsType
    <3>2. CASE dispatch' = NoProgram
      BY <3>2 DEF NoProgram
    <3>3. CASE dispatch' = dispatch
      BY <3>3 DEF CountsType
    <3>4. QED
      BY <1>1, <3>1, <3>2, <3>3
         DEF LoaderStep, Calls, NewXDPFilter, LoadFails, LoadAndAssign, InterfaceByName, AttachXDP,
             NewFails, AddRules, CloseLink, CloseFilter, Death, Die, DieObjects, DieLink, Dead,
             closeObjects
  <2>2. QED
    BY <1>1, <2>1 DEF LoaderStep, CountsType, statVars
<1>2. CASE GetStats
  BY <1>2 DEF GetStats, CountsType, loaderVars
<1>3. CASE LookupStat
  <2>1. snapAt \in 0 .. 7 /\ stats[snapAt] \in Nat
    BY <1>3 DEF LookupStat, CountsType
  <2>2. snap' \in [ToSet(statNames) -> Nat]
    BY <1>3, <2>1 DEF LookupStat, CountsType
  <2>3. QED
    BY <1>3, <2>1, <2>2 DEF LookupStat, CountsType, loaderVars
<1>4. CASE LookupStatFails
  BY <1>4 DEF LookupStatFails, CountsType, loaderVars
<1>5. ASSUME NEW c \in CPU, NEW p \in Packet, Receive(c, p) PROVE CountsType'
  <2>1. cpu' \in [CPU -> {NoPacket} \cup Running]
    BY <1>5, ReceiveArrives DEF CountsType, Arrives
  <2>2. stats' \in [0 .. 7 -> Nat]
    BY <1>5, IncTotal DEF Receive, CountsType
  <2>3. QED
    BY <1>5, <2>1, <2>2 DEF Receive, CountsType, loaderVars, statVars
<1>6. ASSUME NEW c \in CPU, RunProgram(c) PROVE CountsType'
  <2>1. cpu' \in [CPU -> {NoPacket} \cup Running]
    BY <1>6, RunProgramCounts DEF CountsType, GoesOn, Leaves
  <2>2. stats' \in [0 .. 7 -> Nat] /\ uncounted' \in Nat
    BY <1>6, RunProgramCounts, IncOutcome DEF CountsType, GoesOn, Leaves
  <2>3. UNCHANGED <<dispatch, snap, snapAt>>
    BY <1>6 DEF RunProgram, loaderVars, statVars
  <2>4. QED
    BY <2>1, <2>2, <2>3 DEF CountsType
<1>7. CASE UNCHANGED vars
  BY <1>7 DEF vars, loaderVars, statVars, CountsType
<1>8. QED
  BY <1>1, <1>2, <1>3, <1>4, <1>5, <1>6, <1>7 DEF Next, Done

\* the other steps leave the packets and the counters alone
LEMMA OtherwiseStill ==
  ASSUME CountsType, [Next]_vars
  PROVE  \/ Counting /\ UNCHANGED <<snap, snapAt>>
         \/ (GetStats \/ LookupStat \/ LookupStatFails \/ UNCHANGED <<snap, snapAt>>)
            /\ UNCHANGED <<cpu, stats, uncounted>>
<1>1. ASSUME NEW c \in CPU, NEW p \in Packet, Receive(c, p)
      PROVE  Counting /\ UNCHANGED <<snap, snapAt>>
  BY <1>1, ReceiveArrives DEF Counting, Receive, statVars
<1>2. ASSUME NEW c \in CPU, RunProgram(c) PROVE Counting /\ UNCHANGED <<snap, snapAt>>
  BY <1>2, RunProgramCounts DEF Counting, RunProgram, statVars
<1>3. QED
  BY <1>1, <1>2
     DEF Next, LoaderStep, GetStats, LookupStat, LookupStatFails, Done, vars, statVars

-----------------------------------------------------------------------------
(***************************************************************************)
(* Every packet is in one place.                                           *)
(***************************************************************************)
LEMMA AccountingStep ==
  CountsType /\ XdpAccounting /\ [Next]_vars => XdpAccounting'
<1> SUFFICES ASSUME CountsType, XdpAccounting, [Next]_vars PROVE XdpAccounting'
  OBVIOUS
<1>1. CountsType'
  BY CountsTypeStep
<1>2. /\ stats \in [0 .. 7 -> Nat] /\ stats' \in [0 .. 7 -> Nat]
      /\ uncounted \in Nat /\ uncounted' \in Nat
  BY <1>1 DEF CountsType
<1>3. stats[0] = Sum(stats) + Cardinality(Busy) + uncounted
  BY <1>2, AccountingSum DEF XdpAccounting
<1>4. SUFFICES stats'[0] = Sum(stats') + Cardinality(Busy') + uncounted'
  BY <1>2, AccountingSum DEF XdpAccounting
<1>5. IsFiniteSet(Busy) /\ Cardinality(Busy) \in Nat
  BY CPUAssumption, FS_Subset, FS_CardinalityType DEF Busy
<1>6. Sum(stats) \in Nat /\ stats[0] \in Nat
  BY <1>2 DEF Sum
<1>7. CASE UNCHANGED <<cpu, stats, uncounted>>
  BY <1>3, <1>7 DEF Busy
<1>8. ASSUME NEW c \in CPU, Arrives(c)
      PROVE  stats'[0] = Sum(stats') + Cardinality(Busy') + uncounted'
  <2>1. Busy' = Busy \cup {c} /\ c \notin Busy
    BY <1>8 DEF Busy, Arrives, CountsType
  <2>2. Cardinality(Busy') = Cardinality(Busy) + 1
    BY <1>5, <2>1, FS_AddElement
  <2>3. Sum(stats') = Sum(stats) /\ stats'[0] = stats[0] + 1
    BY <1>2, <1>8, IncTotal DEF Arrives, Sum
  <2>4. QED
    BY <1>2, <1>3, <1>5, <1>6, <1>8, <2>2, <2>3 DEF Arrives
<1>9. ASSUME NEW c \in CPU, GoesOn(c)
      PROVE  stats'[0] = Sum(stats') + Cardinality(Busy') + uncounted'
  <2>1. Busy' = Busy
    BY <1>9 DEF Busy, GoesOn, CountsType
  <2>2. QED
    BY <1>3, <1>9, <2>1 DEF GoesOn
<1>10. ASSUME NEW c \in CPU, Leaves(c)
       PROVE  stats'[0] = Sum(stats') + Cardinality(Busy') + uncounted'
  <2>1. Busy' = Busy \ {c} /\ c \in Busy
    BY <1>10 DEF Busy, Leaves, CountsType
  <2>2. Cardinality(Busy') = Cardinality(Busy) - 1
    BY <1>5, <2>1, FS_RemoveElement
  <2>3. \/ Sum(stats') = Sum(stats) + 1 /\ stats'[0] = stats[0] /\ uncounted' = uncounted
        \/ stats' = stats /\ uncounted' = uncounted + 1
    BY <1>2, <1>10, IncOutcome DEF Leaves
  <2>4. QED
    BY <1>2, <1>3, <1>5, <1>6, <2>2, <2>3
<1>11. QED
  BY <1>7, <1>8, <1>9, <1>10, OtherwiseStill DEF Counting

LEMMA CountsInit == Init => CountsType /\ XdpAccounting /\ SkewInv
<1> SUFFICES ASSUME Init PROVE CountsType /\ XdpAccounting /\ SkewInv
  OBVIOUS
<1>1. CountsType
  BY DEF Init, LoaderInit, NoProgram, CountsType, NoPacket
<1>2. XdpAccounting
  <2>1. Busy = {}
    BY DEF Init, Busy
  <2>2. Cardinality(Busy) = 0 /\ Sum(stats) = 0 /\ stats[0] = 0 /\ uncounted = 0
    BY <2>1, FS_EmptySet DEF Init, Sum
  <2>3. QED
    BY <1>1, <2>2, AccountingSum DEF XdpAccounting, CountsType
<1>3. SkewInv
  <2>1. \A i \in 1 .. 7 : Seen(i) = 0
    BY DEF Init, Seen, statNames, ToSet
  <2>2. snap["total"] = 0 /\ uncounted = 0 /\ Cardinality(CPU) \in Nat
    BY CPUAssumption, FS_CardinalityType DEF Init, statNames, ToSet
  <2>3. QED
    BY <2>1, <2>2 DEF SkewInv
<1>4. QED
  BY <1>1, <1>2, <1>3

(***************************************************************************)
(* The counters add up: whatever packets arrive on however many CPUs, and  *)
(* wherever NewXDPFilter, Close or the death of the process leaves the     *)
(* dispatch table, a packet in total is in one other counter, in a program *)
(* or among the queries that check_dns does not count.                     *)
(***************************************************************************)
THEOREM CountersAddUp == Spec => []XdpAccounting
<1>1. CountsType /\ XdpAccounting /\ [Next]_vars => (CountsType /\ XdpAccounting)'
  BY CountsTypeStep, AccountingStep
<1>2. QED
  BY <1>1, CountsInit, PTL DEF Spec

-----------------------------------------------------------------------------
(***************************************************************************)
(* GetStats among the packets.                                             *)
(***************************************************************************)
LEMMA SeenType ==
  ASSUME CountsType
  PROVE  /\ \A i \in 0 .. 7 : Seen(i) \in Nat /\ statNames[i + 1] \in ToSet(statNames)
         /\ snap["total"] \in Nat /\ Cardinality(CPU) \in Nat /\ uncounted \in Nat
<1>1. \A i \in 0 .. 7 : statNames[i + 1] \in ToSet(statNames)
  BY DEF statNames, ToSet
<1>2. "total" \in ToSet(statNames)
  BY DEF statNames, ToSet
<1>3. QED
  BY <1>1, <1>2, CPUAssumption, FS_CardinalityType DEF CountsType, Seen

\* no packet takes a count back
LEMMA CountsGrow ==
  ASSUME CountsType, Counting
  PROVE  uncounted <= uncounted' /\ \A i \in 1 .. 7 : stats[i] <= stats'[i]
<1>1. stats \in [0 .. 7 -> Nat] /\ uncounted \in Nat
  BY DEF CountsType
<1>2. \A i \in 1 .. 7 : stats[i] \in Nat /\ stats[i] <= stats[i]
  BY <1>1
<1>3. PICK c \in CPU : Arrives(c) \/ GoesOn(c) \/ Leaves(c)
  BY DEF Counting
<1>4. CASE Arrives(c)
  BY <1>1, <1>2, <1>4, IncTotal DEF Arrives
<1>5. CASE GoesOn(c)
  BY <1>1, <1>2, <1>5 DEF GoesOn
<1>6. CASE Leaves(c)
  BY <1>1, <1>2, <1>6, IncOutcome DEF Leaves
<1>7. QED
  BY <1>3, <1>4, <1>5, <1>6

LEMMA SkewStep ==
  CountsType /\ XdpAccounting /\ SkewInv /\ [Next]_vars => SkewInv'
<1> SUFFICES ASSUME CountsType, XdpAccounting, SkewInv, [Next]_vars PROVE SkewInv'
  OBVIOUS
<1>1. CountsType'
  BY CountsTypeStep
<1>2. /\ \A i \in 1 .. 7 : Seen(i) \in Nat
      /\ snap["total"] \in Nat /\ Cardinality(CPU) \in Nat /\ uncounted \in Nat
  BY SeenType
<1>3. /\ \A i \in 1 .. 7 : Seen(i)' \in Nat
      /\ snap'["total"] \in Nat /\ uncounted' \in Nat
  <2>1. /\ \A i \in 0 .. 7 : statNames[i + 1] \in ToSet(statNames)
        /\ "total" \in ToSet(statNames)
    BY DEF statNames, ToSet
  <2>2. QED
    BY <1>1, <2>1 DEF CountsType, Seen
<1>4. CASE Counting /\ UNCHANGED <<snap, snapAt>>
  <2>1. \A i \in 1 .. 7 : Seen(i) <= Seen(i)'
    BY <1>2, <1>3, <1>4, CountsGrow DEF Seen
  <2>2. uncounted <= uncounted'
    BY <1>4, CountsGrow
  <2>3. QED
    BY <1>2, <1>3, <1>4, <2>1, <2>2 DEF SkewInv, CountsType
<1>5. CASE GetStats
  BY <1>5 DEF GetStats, SkewInv
<1>6. CASE LookupStatFails
  <2>1. snap'["total"] = 0
    BY <1>6 DEF LookupStatFails, CountsType, statNames, ToSet
  <2>2. QED
    BY <1>2, <1>3, <2>1 DEF SkewInv
<1>7. CASE LookupStat /\ snapAt = 0
  <2>1. snap'["total"] = stats[0] /\ snapAt' = 1
    BY <1>7 DEF LookupStat, CountsType, statNames, ToSet
  <2>2. \A i \in 1 .. 7 : Seen(i)' = stats[i] /\ stats[i] \in Nat
    BY <1>7, <2>1 DEF Seen, LookupStat, CountsType
  <2>3. stats[0] = Sum(stats) + Cardinality(Busy) + uncounted
    BY AccountingSum DEF XdpAccounting, CountsType
  <2>4. Cardinality(Busy) \in Nat /\ Cardinality(Busy) <= Cardinality(CPU)
    BY CPUAssumption, FS_Subset, FS_CardinalityType DEF Busy
  <2>5. uncounted' = uncounted
    BY <1>7 DEF LookupStat
  <2>6. QED
    BY <1>2, <2>1, <2>2, <2>3, <2>4, <2>5 DEF SkewInv, Sum
<1>8. CASE LookupStat /\ snapAt # 0
  <2>1. /\ snapAt \in 1 .. 7 /\ snapAt' = snapAt + 1 /\ stats' = stats /\ uncounted' = uncounted
        /\ snap' = [snap EXCEPT ![statNames[snapAt + 1]] = stats[snapAt]]
    BY <1>8 DEF LookupStat, CountsType
  <2>2. \A i, j \in 0 .. 7 : statNames[i + 1] = statNames[j + 1] => i = j
    BY DEF statNames
  <2>3. \A i \in 0 .. 7 : statNames[i + 1] \in DOMAIN snap
    BY SeenType DEF CountsType
  <2>4. \A i \in 1 .. 7 : Seen(i)' = Seen(i)
    BY <2>1, <2>2, <2>3 DEF Seen
  <2>5. snap'["total"] = snap["total"]
    <3>1. statNames[0 + 1] = "total"
      BY DEF statNames
    <3>2. statNames[snapAt + 1] # "total"
      BY <2>1, <2>2, <3>1
    <3>3. QED
      BY <2>1, <3>2 DEF CountsType
  <2>6. QED
    BY <1>2, <2>1, <2>4, <2>5 DEF SkewInv
<1>9. CASE UNCHANGED <<snap, snapAt, cpu, stats, uncounted>>
  BY <1>9 DEF SkewInv, Seen
<1>10. QED
  BY <1>4, <1>5, <1>6, <1>7, <1>8, <1>9, OtherwiseStill

(***************************************************************************)
(* A result of GetStats lacks at most one outcome for each CPU besides the *)
(* uncounted queries, however the packets fall between its lookups: total  *)
(* is read first, and no counter of an outcome goes down.                  *)
(***************************************************************************)
THEOREM StatsLackLittle == Spec => []GetStatsSkew
<1> DEFINE All == CountsType /\ XdpAccounting /\ SkewInv
<1>1. All /\ [Next]_vars => All'
  BY CountsTypeStep, AccountingStep, SkewStep
<1>2. All => GetStatsSkew
  <2> SUFFICES ASSUME All, snapAt = 8
               PROVE  snap["total"] <= Outcomes(snap) + Cardinality(CPU) + uncounted
    BY DEF GetStatsSkew
  <2>1. \A i \in 1 .. 7 : Seen(i) = snap[statNames[i + 1]] /\ Seen(i) \in Nat
    BY SeenType DEF Seen
  <2>2. Outcomes(snap) = Seen(1) + Seen(2) + Seen(3) + Seen(4) + Seen(5) + Seen(6) + Seen(7)
    BY <2>1 DEF Outcomes, statNames
  <2>3. QED
    BY <2>2 DEF SkewInv
<1>3. Init => All
  BY CountsInit
<1> HIDE DEF All
<1>4. QED
  BY <1>1, <1>2, <1>3, PTL DEF Spec

-----------------------------------------------------------------------------
(***************************************************************************)
(* FoldLeft, with which SumBefore and ByteLen add up lengths: its recursion *)
(* has exactly one solution, the sums of the prefixes, by induction on the *)
(* length of the sequence.                                                 *)
(***************************************************************************)
\* induction over the natural numbers, for a set in place of a predicate
LEMMA NatSetInduction ==
  ASSUME NEW S \in SUBSET Nat, 0 \in S, \A n \in S : n + 1 \in S
  PROVE  S = Nat
<1> SUFFICES ASSUME Nat \ S # {} PROVE FALSE
  OBVIOUS
<1>1. PICK m \in Nat \ S : \A k \in Nat \ S : ~(<<k, m>> \in OpToRel(<, Nat))
  <2> DEFINE T == Nat \ S
  <2>1. T \subseteq Nat /\ T # {}
    OBVIOUS
  <2> HIDE DEF T
  <2>2. \E x \in T : \A y \in T : ~(<<y, x>> \in OpToRel(<, Nat))
    BY <2>1, NatLessThanWellFounded, WFMin
  <2> QED BY <2>2 DEF T
<1>2. m # 0 /\ m - 1 \in Nat
  OBVIOUS
<1>3. <<m - 1, m>> \in OpToRel(<, Nat)
  BY <1>2 DEF OpToRel
<1>4. m - 1 \in S
  BY <1>1, <1>2, <1>3
<1> QED BY <1>2, <1>4

\* the element that FoldLeft takes off the indices 1 .. n + 1
LEMMA MaxOfUpTo ==
  ASSUME NEW n \in Nat, NEW ss \in SUBSET (1 .. n + 1), n + 1 \in ss
  PROVE  Max(ss) = n + 1
<1>1. \A y \in ss : n + 1 >= y
  OBVIOUS
<1>2. \A x \in ss : (\A y \in ss : x >= y) => x = n + 1
  OBVIOUS
<1>3. Max(ss) \in ss /\ \A y \in ss : Max(ss) >= y
  BY <1>1 DEF Max
<1> QED BY <1>2, <1>3

\* the element that FoldLeft takes off the indices 1 .. k
LEMMA MaxUpTo ==
  ASSUME NEW k \in Nat \ {0}
  PROVE  Max(1 .. k) = k
<1>1. k - 1 \in Nat /\ 1 .. k \in SUBSET (1 .. (k - 1) + 1) /\ (k - 1) + 1 \in 1 .. k
  OBVIOUS
<1>2. Max(1 .. k) = (k - 1) + 1
  BY <1>1, MaxOfUpTo
<1> QED BY <1>2

\* the recursion by which FoldLeft adds up a sequence of length n
Folds(n, a, g) ==
  g = [ss \in SUBSET (1 .. n) |-> IF ss = {} THEN 0 ELSE g[ss \ {Max(ss)}] + a[ss]]

\* the recursion behind FoldLeft has a solution for a sequence of any length
LEMMA FoldExists ==
  ASSUME NEW n \in Nat, NEW a
  PROVE  \E g : Folds(n, a, g)
<1> DEFINE S == {m \in Nat : \E g : Folds(m, a, g)}
<1> USE DEF Folds
<1>1. 0 \in S
  <2>1. Folds(0, a, [ss \in SUBSET (1 .. 0) |-> 0])
    OBVIOUS
  <2> QED BY <2>1
<1>2. ASSUME NEW m \in S PROVE m + 1 \in S
  <2>1. PICK g : Folds(m, a, g)
    OBVIOUS
  <2> DEFINE h == [ss \in SUBSET (1 .. m + 1) |->
                     IF m + 1 \in ss THEN g[ss \ {m + 1}] + a[ss] ELSE g[ss]]
  <2>2. ASSUME NEW ss \in SUBSET (1 .. m + 1)
        PROVE  h[ss] = IF ss = {} THEN 0 ELSE h[ss \ {Max(ss)}] + a[ss]
    <3>1. CASE m + 1 \in ss
      <4>1. Max(ss) = m + 1
        BY <3>1, MaxOfUpTo
      <4>2. ss \ {m + 1} \in SUBSET (1 .. m + 1) /\ m + 1 \notin ss \ {m + 1}
        OBVIOUS
      <4>3. h[ss \ {m + 1}] = g[ss \ {m + 1}]
        BY <4>2
      <4> QED BY <3>1, <4>1, <4>3
    <3>2. CASE m + 1 \notin ss
      <4> DEFINE rest == ss \ {Max(ss)}
      <4>1. ss \in SUBSET (1 .. m) /\ rest \in SUBSET (1 .. m)
        <5>1. \A x \in ss : x \in 1 .. m + 1 /\ x # m + 1
          BY <3>2
        <5>2. \A x \in 1 .. m + 1 : x # m + 1 => x \in 1 .. m
          OBVIOUS
        <5> QED BY <5>1, <5>2
      <4>2. h[ss] = g[ss] /\ h[rest] = g[rest]
        BY <3>2, <4>1
      <4>3. g[ss] = IF ss = {} THEN 0 ELSE g[rest] + a[ss]
        BY <2>1, <4>1
      <4> HIDE DEF h
      <4> QED BY <4>2, <4>3
    <3> QED BY <3>1, <3>2
  <2>3. Folds(m + 1, a, h)
    <3> HIDE DEF h
    <3>1. h = [ss \in SUBSET (1 .. m + 1) |-> h[ss]]
      BY DEF h
    <3> QED BY <2>2, <3>1
  <2> HIDE DEF h, Folds
  <2> QED BY <2>3
<1> HIDE DEF Folds
<1>3. S = Nat
  <2>1. S \in SUBSET Nat
    OBVIOUS
  <2> HIDE DEF S
  <2> QED BY <1>1, <1>2, <2>1, NatSetInduction
<1> QED BY <1>3

\* a solution of that recursion adds one element for each index
LEMMA FoldUnwinds ==
  ASSUME NEW n \in Nat, NEW a, NEW g, Folds(n, a, g)
  PROVE  g[1 .. 0] = 0 /\ \A k \in 1 .. n : g[1 .. k] = g[1 .. k - 1] + a[1 .. k]
<1>0. g[1 .. 0] = 0
  BY DEF Folds
<1> SUFFICES ASSUME NEW k \in 1 .. n PROVE g[1 .. k] = g[1 .. k - 1] + a[1 .. k]
  BY <1>0
<1>1. 1 .. 0 = {} /\ 1 .. k # {} /\ 1 .. k \in SUBSET (1 .. n) /\ {} \in SUBSET (1 .. n)
  OBVIOUS
<1>2. Max(1 .. k) = k
  BY MaxUpTo
<1>3. (1 .. k) \ {k} = 1 .. k - 1
  OBVIOUS
<1> QED BY <1>1, <1>2, <1>3 DEF Folds

\* f[k] is the sum of the first k elements of w
Sums(f, w, n) == f[0] = 0 /\ \A k \in 1 .. n : f[k] = f[k - 1] + w[k]

\* the sums of numbers that are not negative do not go down
LEMMA SumsGrow ==
  ASSUME NEW n \in Nat, NEW w, \A k \in 1 .. n : w[k] \in Nat, NEW f, Sums(f, w, n)
  PROVE  \A k \in 0 .. n : f[k] \in Nat /\ \A j \in 0 .. k : f[j] <= f[k]
<1> DEFINE S == {k \in Nat : k <= n => \A j \in 0 .. k : f[j] \in Nat /\ f[j] <= f[k]}
<1>1. 0 \in S
  BY DEF Sums
<1>2. ASSUME NEW k \in S PROVE k + 1 \in S
  <2> SUFFICES ASSUME k + 1 <= n
               PROVE  \A j \in 0 .. k + 1 : f[j] \in Nat /\ f[j] <= f[k + 1]
    OBVIOUS
  <2>1. k \in Nat /\ \A j \in 0 .. k : f[j] \in Nat /\ f[j] <= f[k]
    OBVIOUS
  <2>2. k + 1 \in 1 .. n /\ (k + 1) - 1 = k
    OBVIOUS
  <2>3. f[k + 1] = f[k] + w[k + 1] /\ w[k + 1] \in Nat
    BY <2>2 DEF Sums
  <2>4. \A j \in 0 .. k + 1 : j \in 0 .. k \/ j = k + 1
    BY <2>1
  <2> QED BY <2>1, <2>3, <2>4
<1>3. S = Nat
  <2>1. S \in SUBSET Nat
    OBVIOUS
  <2> HIDE DEF S
  <2> QED BY <1>1, <1>2, <2>1, NatSetInduction
<1> QED BY <1>3

\* the sums of a sequence are unique
LEMMA SumsAgree ==
  ASSUME NEW n \in Nat, NEW w, NEW f, NEW g, Sums(f, w, n), Sums(g, w, n)
  PROVE  \A k \in 0 .. n : f[k] = g[k]
<1> DEFINE S == {k \in Nat : k <= n => f[k] = g[k]}
<1>1. 0 \in S
  BY DEF Sums
<1>2. ASSUME NEW k \in S PROVE k + 1 \in S
  <2> SUFFICES ASSUME k + 1 <= n PROVE f[k + 1] = g[k + 1]
    OBVIOUS
  <2>1. k + 1 \in 1 .. n /\ (k + 1) - 1 = k /\ f[k] = g[k]
    OBVIOUS
  <2> QED BY <2>1 DEF Sums
<1>3. S = Nat
  <2>1. S \in SUBSET Nat
    OBVIOUS
  <2> HIDE DEF S
  <2> QED BY <1>1, <1>2, <2>1, NatSetInduction
<1> QED BY <1>3

\* FoldLeft(+, 0, w) is the last of the sums of w
LEMMA FoldLeftSums ==
  ASSUME NEW n \in Nat, NEW w, DOMAIN w = 1 .. n
  PROVE  \E f : Sums(f, w, n) /\ FoldLeft(+, 0, w) = f[n]
<1> DEFINE a == [ss \in SUBSET (1 .. n) |-> w[Max(ss)]]
           Added(g) == g = [ss \in SUBSET (1 .. n) |->
                              IF ss = {} THEN 0 ELSE g[ss \ {Max(ss)}] + w[Max(ss)]]
<1>1. \A g : Added(g) <=> Folds(n, a, g)
  BY DEF Folds
<1>2. FoldLeft(+, 0, w) = (CHOOSE g : Added(g))[1 .. n]
  BY DEF FoldLeft, MapThenFoldSet
<1>3. PICK g : Folds(n, a, g) /\ FoldLeft(+, 0, w) = g[1 .. n]
  <2> HIDE DEF Added, a
  <2>1. \E g : Added(g)
    BY <1>1, FoldExists
  <2>2. Added(CHOOSE g : Added(g))
    BY <2>1
  <2> QED BY <1>1, <1>2, <2>2
<1> DEFINE f == [k \in 0 .. n |-> g[1 .. k]]
<1>4. g[1 .. 0] = 0 /\ \A k \in 1 .. n : g[1 .. k] = g[1 .. k - 1] + a[1 .. k]
  <2> HIDE DEF a
  <2>1. Folds(n, a, g)
    BY <1>3
  <2> QED BY <2>1, FoldUnwinds, SMTT(60)
<1>5. \A k \in 1 .. n : a[1 .. k] = w[k]
  BY MaxUpTo
<1> HIDE DEF a, Added
<1>6. Sums(f, w, n) /\ f[n] = g[1 .. n]
  BY <1>4, <1>5 DEF Sums
<1> QED BY <1>3, <1>6

\* the fold of any prefix of w
PrefixSums(f, w, n) ==
  /\ Sums(f, w, n)
  /\ \A k \in 0 .. n : f[k] \in Nat /\ \A j \in 0 .. k : f[j] <= f[k]
  /\ \A k \in 0 .. n : FoldLeft(+, 0, [j \in 1 .. k |-> w[j]]) = f[k]

\* FoldLeft of every prefix of w is the sum at its end
LEMMA FoldLeftExtends ==
  ASSUME NEW n \in Nat, NEW w, DOMAIN w = 1 .. n, \A k \in 1 .. n : w[k] \in Nat
  PROVE  \E f : PrefixSums(f, w, n)
<1>1. PICK f : Sums(f, w, n) /\ FoldLeft(+, 0, w) = f[n]
  BY FoldLeftSums
<1>2. \A k \in 0 .. n : f[k] \in Nat /\ \A j \in 0 .. k : f[j] <= f[k]
  BY <1>1, SumsGrow
<1>3. ASSUME NEW k \in 0 .. n PROVE FoldLeft(+, 0, [j \in 1 .. k |-> w[j]]) = f[k]
  <2> DEFINE v == [j \in 1 .. k |-> w[j]]
  <2>1. k \in Nat /\ DOMAIN v = 1 .. k
    OBVIOUS
  <2>2. PICK g : Sums(g, v, k) /\ FoldLeft(+, 0, v) = g[k]
    <3> HIDE DEF v
    <3> QED BY <2>1, FoldLeftSums
  <2>3. \A j \in 1 .. k : v[j] = w[j] /\ j \in 1 .. n
    OBVIOUS
  <2> HIDE DEF v
  <2>3a. Sums(g, w, k)
    BY <2>2, <2>3 DEF Sums
  <2>3b. Sums(f, w, k)
    BY <1>1, <2>3 DEF Sums
  <2>4. g[k] = f[k]
    BY <2>1, <2>3a, <2>3b, SumsAgree
  <2> QED BY <2>2, <2>4 DEF v
<1> QED BY <1>1, <1>2, <1>3 DEF PrefixSums
-----------------------------------------------------------------------------
(***************************************************************************)
(* Lengths of names, and offsets of extensions.                            *)
(***************************************************************************)
\* a prefix of a name is no longer than a longer one: what bounds host_cut
LEMMA ByteLenOfPrefix ==
  ASSUME NEW T, NEW s \in Seq(T), \A i \in 1 .. Len(s) : Bytes[s[i]] \in Nat \ {0}
  PROVE  /\ \A m \in 0 .. Len(s) :
              /\ ByteLen(SubSeq(s, 1, m)) \in Nat
              /\ \A n \in 0 .. m : ByteLen(SubSeq(s, 1, n)) <= ByteLen(SubSeq(s, 1, m))
         /\ ByteLen(s) = ByteLen(SubSeq(s, 1, Len(s)))
         /\ ByteLen(SubSeq(s, 1, 0)) = 0 /\ (s # << >> => ByteLen(s) # 0)
<1> DEFINE w == [i \in 1 .. Len(s) |-> Bytes[s[i]]]
<1>1. Len(s) \in Nat /\ DOMAIN w = 1 .. Len(s) /\ \A k \in 1 .. Len(s) : w[k] \in Nat
  OBVIOUS
<1>2. PICK f : PrefixSums(f, w, Len(s))
  <2> HIDE DEF w
  <2> QED BY <1>1, FoldLeftExtends
<1>3. ASSUME NEW m \in 0 .. Len(s) PROVE ByteLen(SubSeq(s, 1, m)) = f[m]
  <2>1. DOMAIN SubSeq(s, 1, m) = 1 .. m
    OBVIOUS
  <2>2. [j \in DOMAIN SubSeq(s, 1, m) |-> Bytes[SubSeq(s, 1, m)[j]]] = [j \in 1 .. m |-> w[j]]
    BY <2>1
  <2> HIDE DEF w
  <2> QED BY <1>2, <2>2 DEF ByteLen, PrefixSums
<1>4. SubSeq(s, 1, Len(s)) = s
  OBVIOUS
<1>5. s # << >> => f[1] >= 1 /\ 1 \in 0 .. Len(s)
  <2> SUFFICES ASSUME s # << >> PROVE f[1] >= 1 /\ 1 \in 0 .. Len(s)
    OBVIOUS
  <2>1. 1 \in 1 .. Len(s)
    OBVIOUS
  <2>2. w[1] \in Nat \ {0}
    BY <2>1
  <2>3. f[1] = f[1 - 1] + w[1] /\ f[0] = 0
    <3> HIDE DEF w
    <3> QED BY <1>2, <2>1 DEF PrefixSums, Sums
  <2> HIDE DEF w
  <2> QED BY <2>1, <2>2, <2>3
<1> HIDE DEF w
<1>6. s # << >> => ByteLen(s) # 0
  <2> SUFFICES ASSUME s # << >> PROVE ByteLen(s) # 0
    OBVIOUS
  <2>1. Len(s) \in 0 .. Len(s) /\ 1 \in 0 .. Len(s)
    BY <1>1, <1>5
  <2>2. f[1] <= f[Len(s)] /\ f[1] \in Nat /\ f[Len(s)] \in Nat
    BY <1>2, <2>1 DEF PrefixSums
  <2>3. ByteLen(s) = f[Len(s)]
    BY <1>3, <1>4, <2>1
  <2> QED BY <1>5, <2>2, <2>3
<1>7. ASSUME NEW m \in 0 .. Len(s), NEW n \in 0 .. m
      PROVE  ByteLen(SubSeq(s, 1, n)) <= ByteLen(SubSeq(s, 1, m))
  <2>1. n \in 0 .. Len(s)
    BY <1>1
  <2> QED BY <1>2, <1>3, <2>1 DEF PrefixSums
<1>8. \A m \in 0 .. Len(s) : ByteLen(SubSeq(s, 1, m)) \in Nat
  BY <1>2, <1>3 DEF PrefixSums
<1>9. ByteLen(SubSeq(s, 1, 0)) = 0
  <2>1. 0 \in 0 .. Len(s)
    BY <1>1
  <2> QED BY <1>2, <1>3, <2>1 DEF PrefixSums, Sums
<1> QED BY <1>4, <1>6, <1>7, <1>8, <1>9

\* the programs lower a name byte by byte, which leaves its length
LEMMA LowerKeepsLength ==
  ASSUME NEW T, NEW s \in Seq(T),
         \A i \in 1 .. Len(s) : s[i] \in Ascii => Bytes[Lower[s[i]]] = Bytes[s[i]]
  PROVE  ByteLen(ascii_lower(s)) = ByteLen(s)
<1>1. DOMAIN ascii_lower(s) = DOMAIN s /\ DOMAIN s = 1 .. Len(s)
  BY DEF ascii_lower
<1>2. \A i \in DOMAIN s : Bytes[ascii_lower(s)[i]] = Bytes[s[i]]
  BY <1>1 DEF ascii_lower
<1> QED BY <1>1, <1>2 DEF ByteLen

\* the offset at which check_tls_sni reads the next extension is 4 bytes and the
\* body of this one further on
LEMMA SumBeforeSteps ==
  ASSUME NEW h \in ClientHello
  PROVE  /\ SumBefore(h, 1) = 0
         /\ \A k \in 1 .. Len(h.exts) : SumBefore(h, k + 1) = SumBefore(h, k) + 4 + h.exts[k].len
         /\ \A k \in 1 .. Len(h.exts) + 1 :
              /\ SumBefore(h, k) \in Nat
              /\ \A j \in 1 .. k : SumBefore(h, j) <= SumBefore(h, k)
<1> DEFINE n == Len(h.exts)
           w == [j \in 1 .. n |-> 4 + h.exts[j].len]
<1>1. n \in Nat /\ \A j \in 1 .. n : h.exts[j].len \in Nat
  <2>1. h.exts \in Seq([type : Nat, len : Nat])
    BY DEF ClientHello
  <2>2. \A j \in 1 .. n : h.exts[j] \in [type : Nat, len : Nat]
    <3>1. ASSUME NEW T, NEW e \in Seq(T) PROVE \A j \in 1 .. Len(e) : e[j] \in T
      OBVIOUS
    <3> QED BY <2>1, <3>1
  <2> QED BY <2>1, <2>2
<1>2. DOMAIN w = 1 .. n /\ \A k \in 1 .. n : w[k] \in Nat
  BY <1>1
<1>3. PICK f : PrefixSums(f, w, n)
  <2> HIDE DEF w, n
  <2> QED BY <1>1, <1>2, FoldLeftExtends
<1>4. ASSUME NEW k \in 1 .. n + 1 PROVE SumBefore(h, k) = f[k - 1]
  <2>1. k - 1 \in 0 .. n
    BY <1>1
  <2>2. [j \in 1 .. k - 1 |-> 4 + h.exts[j].len] = [j \in 1 .. k - 1 |-> w[j]]
    BY <1>1, <2>1
  <2> HIDE DEF w, n
  <2> QED BY <1>3, <2>1, <2>2 DEF SumBefore, PrefixSums
<1>5. ASSUME NEW k \in 1 .. n
      PROVE  SumBefore(h, k + 1) = SumBefore(h, k) + 4 + h.exts[k].len
  <2>1. k \in 1 .. n + 1 /\ k + 1 \in 1 .. n + 1 /\ (k + 1) - 1 = k /\ k - 1 \in 0 .. n
    BY <1>1
  <2>2. SumBefore(h, k + 1) = f[k] /\ SumBefore(h, k) = f[k - 1]
    BY <1>4, <2>1
  <2>3. f[k] = f[k - 1] + w[k] /\ f[k - 1] \in Nat
    <3> HIDE DEF w, n
    <3> QED BY <1>3, <2>1 DEF PrefixSums, Sums
  <2>4. w[k] = 4 + h.exts[k].len /\ h.exts[k].len \in Nat
    BY <1>1
  <2> HIDE DEF w, n
  <2> QED BY <2>2, <2>3, <2>4
<1> HIDE DEF w, n
<1>6. SumBefore(h, 1) = 0
  <2>1. 1 \in 1 .. n + 1 /\ 1 - 1 = 0
    BY <1>1
  <2> QED BY <1>3, <1>4, <2>1 DEF PrefixSums, Sums
<1>7. ASSUME NEW k \in 1 .. n + 1, NEW j \in 1 .. k
      PROVE  SumBefore(h, k) \in Nat /\ SumBefore(h, j) <= SumBefore(h, k)
  <2>1. j \in 1 .. n + 1 /\ k - 1 \in 0 .. n /\ j - 1 \in 0 .. k - 1
    BY <1>1
  <2> QED BY <1>3, <1>4, <2>1 DEF PrefixSums
<1>8. ASSUME NEW k \in 1 .. n + 1 PROVE SumBefore(h, k) \in Nat
  <2>1. k \in 1 .. k
    BY <1>1
  <2> QED BY <1>7, <2>1
<1> QED BY <1>5, <1>6, <1>7, <1>8 DEF n
\* the longest prefix that host_cut takes is one of those it may take
LEMMA MaxExists ==
  ASSUME NEW n \in Nat, NEW S \in SUBSET (0 .. n), S # {}
  PROVE  Max(S) \in S /\ \A y \in S : y <= Max(S)
<1> DEFINE HasMax(T) == \E x \in T : \A y \in T : x >= y
           K == {m \in Nat : \A T \in SUBSET (0 .. m) : T # {} => HasMax(T)}
<1>1. 0 \in K
  <2>1. ASSUME NEW T \in SUBSET (0 .. 0), T # {} PROVE 0 \in T /\ \A y \in T : 0 >= y
    <3>1. \A y \in 0 .. 0 : y = 0
      OBVIOUS
    <3>2. \A y \in T : y = 0
      BY <3>1
    <3>3. PICK y : y \in T
      BY <2>1
    <3> QED BY <3>2, <3>3
  <2>2. \A T \in SUBSET (0 .. 0) : T # {} => HasMax(T)
    BY <2>1
  <2> QED BY <2>2
<1>2. ASSUME NEW m \in K PROVE m + 1 \in K
  <2> SUFFICES ASSUME NEW T \in SUBSET (0 .. m + 1), T # {} PROVE HasMax(T)
    OBVIOUS
  <2>1. CASE m + 1 \in T
    BY <2>1
  <2>2. CASE m + 1 \notin T
    <3>1. \A x \in 0 .. m + 1 : x # m + 1 => x \in 0 .. m
      OBVIOUS
    <3>2. T \in SUBSET (0 .. m)
      BY <2>2, <3>1
    <3> QED BY <3>2
  <2> QED BY <2>1, <2>2
<1>3. K = Nat
  <2>1. K \in SUBSET Nat
    OBVIOUS
  <2> HIDE DEF K
  <2> QED BY <1>1, <1>2, <2>1, NatSetInduction
<1>4. HasMax(S)
  BY <1>3
<1>5. Max(S) \in S /\ \A y \in S : Max(S) >= y
  BY <1>4 DEF Max
<1> QED BY <1>5

\* lowering changes no letter for another
LEMMA LowerSpells ==
  ASSUME NEW T, NEW s \in Seq(T)
  PROVE  /\ Len(ascii_lower(s)) = Len(s)
         /\ \A i \in 1 .. Len(s) : ascii_lower(s)[i] \in {s[i], Lower[s[i]]}
<1>1. DOMAIN s = 1 .. Len(s) /\ Len(s) \in Nat
  OBVIOUS
<1>2. ascii_lower(s) = [i \in 1 .. Len(s) |-> IF s[i] \in Ascii THEN Lower[s[i]] ELSE s[i]]
  BY <1>1 DEF ascii_lower
<1>3. Len(ascii_lower(s)) = Len(s)
  BY <1>1, <1>2
<1> QED BY <1>2, <1>3

\* what check_http_host_at reads of a host: all of it, or its first 63 bytes
LEMMA HostCut ==
  ASSUME NEW p \in Packet, L7(p) = "http"
  PROVE  /\ ByteLen(p.name) < maxDomainLen => host_cut(p.name) = p.name
         /\ host_cut(p.name) = p.name \/ ByteLen(ascii_lower(host_cut(p.name))) = 63
         /\ Begins(ascii_lower(host_cut(p.name)), p.name)
<1> DEFINE s == p.name
           N == {n \in 0 .. Len(s) : ByteLen(SubSeq(s, 1, n)) < maxDomainLen}
           m == Max(N)
<1>1. s \in Seq(DOMAIN Lower) /\ DOMAIN s = 1 .. Len(s) /\ Len(s) \in Nat
  BY PacketAssumption
<1>2. \A i \in 1 .. Len(s) :
        Bytes[s[i]] \in Nat \ {0} /\ (s[i] \in Ascii => Bytes[Lower[s[i]]] = Bytes[s[i]])
  BY <1>1, PacketAssumption
<1>3. /\ \A k \in 0 .. Len(s) :
           /\ ByteLen(SubSeq(s, 1, k)) \in Nat
           /\ \A j \in 0 .. k : ByteLen(SubSeq(s, 1, j)) <= ByteLen(SubSeq(s, 1, k))
      /\ ByteLen(s) = ByteLen(SubSeq(s, 1, Len(s))) /\ ByteLen(SubSeq(s, 1, 0)) = 0
  <2> HIDE DEF s
  <2> QED BY <1>1, <1>2, ByteLenOfPrefix
<1>4. m \in N /\ \A n \in N : n <= m
  <2>1. 0 \in N
    BY <1>1, <1>3 DEF maxDomainLen
  <2>2. N \in SUBSET (0 .. Len(s))
    OBVIOUS
  <2> HIDE DEF N
  <2> QED BY <1>1, <2>1, <2>2, MaxExists
<1>5. host_cut(s) = SubSeq(s, 1, m)
  BY DEF host_cut
<1>6. m \in 0 .. Len(s) /\ ByteLen(SubSeq(s, 1, m)) < maxDomainLen
  BY <1>4
<1>7. SubSeq(s, 1, Len(s)) = s
  BY <1>1
<1>8. ByteLen(s) < maxDomainLen => host_cut(s) = s
  <2> SUFFICES ASSUME ByteLen(s) < maxDomainLen PROVE m = Len(s)
    BY <1>5, <1>7
  <2>1. Len(s) \in N
    BY <1>1, <1>3
  <2>2. Len(s) <= m
    BY <1>4, <2>1
  <2>3. m \in 0 .. Len(s) /\ Len(s) \in Nat
    BY <1>1, <1>6
  <2> HIDE DEF N, m, s
  <2> QED BY <2>2, <2>3
<1>9. host_cut(s) = s \/ ByteLen(SubSeq(s, 1, m)) = 63
  <2> SUFFICES ASSUME ~(ByteLen(s) < maxDomainLen) PROVE ByteLen(SubSeq(s, 1, m)) = 63
    BY <1>8
  <2>1. ByteLen(s) \in Nat
    BY <1>1, <1>3
  <2>2. ByteLen(s) >= maxDomainLen
    BY <2>1 DEF maxDomainLen
  <2>3. PICK n \in 1 .. Len(s) : ByteLen(SubSeq(s, 1, n)) = 63
    BY <2>2, PacketAssumption DEF maxDomainLen
  <2>4. n \in N
    BY <1>1, <2>3 DEF maxDomainLen
  <2> HIDE DEF N, m, s
  <2>5. n \in 0 .. m
    BY <1>1, <1>4, <1>6, <2>4
  <2>6. 63 <= ByteLen(SubSeq(s, 1, m)) /\ ByteLen(SubSeq(s, 1, m)) \in Nat
    BY <1>3, <1>6, <2>3, <2>5
  <2> QED BY <1>6, <2>6 DEF maxDomainLen
<1> DEFINE q == SubSeq(s, 1, m)
<1>10. q \in Seq(DOMAIN Lower) /\ Len(q) = m /\ \A i \in 1 .. m : q[i] = s[i] /\ i \in 1 .. Len(s)
  <2> HIDE DEF N, m, s
  <2> QED BY <1>1, <1>6
<1>11. ByteLen(ascii_lower(q)) = ByteLen(q)
  <2>1. \A i \in 1 .. Len(q) : q[i] \in Ascii => Bytes[Lower[q[i]]] = Bytes[q[i]]
    BY <1>2, <1>10
  <2> HIDE DEF q
  <2> QED BY <1>10, <2>1, LowerKeepsLength
<1>12. Begins(ascii_lower(q), s)
  <2> HIDE DEF m, N, s, q
  <2>1. Len(ascii_lower(q)) = m /\ \A i \in 1 .. m : ascii_lower(q)[i] \in {q[i], Lower[q[i]]}
    BY <1>10, LowerSpells
  <2> QED BY <1>1, <1>6, <1>10, <2>1 DEF Begins
<1> QED BY <1>5, <1>8, <1>9, <1>11, <1>12

-----------------------------------------------------------------------------
(***************************************************************************)
(* The parser of a ClientHello, and the spellings of a name.               *)
(***************************************************************************)
\* the shorter of two bounds of the parser is one of them
LEMMA MinOfTwo ==
  ASSUME NEW a \in Int, NEW b \in Int
  PROVE  Min({a, b}) \in {a, b} /\ Min({a, b}) <= a /\ Min({a, b}) <= b
<1>1. \E x \in {a, b} : \A y \in {a, b} : x <= y
  OBVIOUS
<1>2. Min({a, b}) \in {a, b} /\ \A y \in {a, b} : Min({a, b}) <= y
  BY <1>1 DEF Min
<1> QED BY <1>2

\* a well-formed ClientHello with its name in the first 512 bytes is read to the
\* name: no early return of check_tls_sni is taken
LEMMA ReadableFound ==
  ASSUME NEW h \in ClientHello, NEW name_len \in Nat \ {0}, Readable(h, name_len)
  PROVE  sni_found(h, name_len)
<1> DEFINE n == Len(h.exts)
           at0 == extensions_at(h)
<1>1. /\ h.size \in Nat /\ h.extensions \in Nat /\ at0 \in Nat /\ n \in Nat
      /\ h.session \in Nat /\ h.ciphers \in Nat /\ h.compression \in Nat /\ h.list \in Nat
      /\ DOMAIN h.exts = 1 .. n
  <2>1. h.exts \in Seq([type : Nat, len : Nat])
    BY DEF ClientHello
  <2>2. /\ h.size \in Nat /\ h.extensions \in Nat
        /\ h.session \in Nat /\ h.ciphers \in Nat /\ h.compression \in Nat /\ h.list \in Nat
    BY DEF ClientHello
  <2>3. at0 \in Nat
    BY <2>2 DEF extensions_at
  <2>4. n \in Nat /\ DOMAIN h.exts = 1 .. n
    <3>1. ASSUME NEW T, NEW e \in Seq(T) PROVE Len(e) \in Nat /\ DOMAIN e = 1 .. Len(e)
      OBVIOUS
    <3> QED BY <2>1, <3>1
  <2> QED BY <2>2, <2>3, <2>4
<1>2. \A j \in 1 .. n : h.exts[j].len \in Nat
  <2>1. h.exts \in Seq([type : Nat, len : Nat])
    BY DEF ClientHello
  <2>2. \A j \in 1 .. n : h.exts[j] \in [type : Nat, len : Nat]
    <3>1. ASSUME NEW T, NEW e \in Seq(T) PROVE \A j \in 1 .. Len(e) : e[j] \in T
      OBVIOUS
    <3> QED BY <2>1, <3>1
  <2> QED BY <2>2
<1>3. /\ h.client /\ h.compression <= 32 /\ h.extensions = SumBefore(h, n + 1)
      /\ h.nameType = 0 /\ h.list = 3 + name_len
  BY DEF Readable
<1>4. PICK k \in 1 .. n :
         /\ k <= 16 /\ {j \in DOMAIN h.exts : h.exts[j].type = 0} = {k}
         /\ h.exts[k].len = 2 + h.list
         /\ at0 + SumBefore(h, k + 1) <= Min({MAX_TLS_SCAN, h.size})
  BY <1>1 DEF Readable
<1>5. at0 + SumBefore(h, k + 1) <= 512 /\ at0 + SumBefore(h, k + 1) <= h.size
  <2>1. k + 1 \in 1 .. n + 1
    BY <1>1
  <2>2. SumBefore(h, k + 1) \in Nat
    BY <2>1, SumBeforeSteps
  <2>3. /\ Min({MAX_TLS_SCAN, h.size}) \in {MAX_TLS_SCAN, h.size}
        /\ Min({MAX_TLS_SCAN, h.size}) <= MAX_TLS_SCAN /\ Min({MAX_TLS_SCAN, h.size}) <= h.size
    <3>1. MAX_TLS_SCAN \in Int /\ h.size \in Int
      BY <1>1 DEF MAX_TLS_SCAN
    <3> QED BY <3>1, MinOfTwo
  <2> HIDE DEF at0
  <2> QED BY <1>1, <1>4, <2>2, <2>3 DEF MAX_TLS_SCAN
<1>6. h.exts[k].type = 0 /\ \A j \in 1 .. n : j < k => h.exts[j].type # 0
  <2>1. k \in {i \in DOMAIN h.exts : h.exts[i].type = 0}
    BY <1>4
  <2>2. ASSUME NEW j \in 1 .. n, j < k, h.exts[j].type = 0
        PROVE  FALSE
    <3>1. j \in {i \in DOMAIN h.exts : h.exts[i].type = 0}
      BY <1>1, <2>2
    <3>2. j = k
      BY <1>4, <3>1, Zenon
    <3> QED BY <2>2, <3>2
  <2> QED BY <2>1, <2>2
<1> HIDE DEF at0, n
<1>7. \A j \in 1 .. k : /\ SumBefore(h, j + 1) = SumBefore(h, j) + 4 + h.exts[j].len
                        /\ SumBefore(h, j) \in Nat /\ h.exts[j].len \in Nat
                        /\ SumBefore(h, j + 1) <= SumBefore(h, k + 1)
                        /\ SumBefore(h, j + 1) <= h.extensions
  <2> SUFFICES ASSUME NEW j \in 1 .. k
               PROVE  /\ SumBefore(h, j + 1) = SumBefore(h, j) + 4 + h.exts[j].len
                      /\ SumBefore(h, j) \in Nat /\ h.exts[j].len \in Nat
                      /\ SumBefore(h, j + 1) <= SumBefore(h, k + 1)
                      /\ SumBefore(h, j + 1) <= SumBefore(h, n + 1)
    BY <1>3
  <2>1. /\ j \in 1 .. n /\ j \in 1 .. n + 1 /\ k + 1 \in 1 .. n + 1 /\ n + 1 \in 1 .. n + 1
        /\ j + 1 \in 1 .. k + 1 /\ j + 1 \in 1 .. n + 1
    BY <1>1
  <2> QED BY <1>2, <2>1, SumBeforeSteps DEF n
<1>8. at0 <= MAX_TLS_SCAN /\ at0 <= h.size
  <2>1. SumBefore(h, k + 1) \in Nat
    <3>1. k \in 1 .. k
      OBVIOUS
    <3> QED BY <1>7, <3>1
  <2> QED BY <1>1, <1>5, <2>1 DEF MAX_TLS_SCAN
<1>9. ASSUME NEW j \in 1 .. k PROVE ext_enters(h, j)
  <2>1. /\ at0 + h.extensions \in Int /\ MAX_TLS_SCAN \in Int
        /\ extensions_end(h) = Min({at0 + h.extensions, MAX_TLS_SCAN})
    BY <1>1 DEF extensions_end, MAX_TLS_SCAN, at0
  <2>2. extensions_end(h) \in {at0 + h.extensions, MAX_TLS_SCAN}
    BY <2>1, MinOfTwo
  <2>3. ext_pos(h, j) = at0 + SumBefore(h, j) + 4
    BY DEF ext_pos, at0
  <2>4. /\ SumBefore(h, j + 1) = SumBefore(h, j) + 4 + h.exts[j].len
        /\ SumBefore(h, j) \in Nat /\ h.exts[j].len \in Nat
        /\ SumBefore(h, j + 1) <= SumBefore(h, k + 1)
        /\ SumBefore(h, j + 1) <= h.extensions
    BY <1>7
  <2>5. SumBefore(h, k + 1) \in Nat
    <3>1. k \in 1 .. k
      OBVIOUS
    <3> QED BY <1>7, <3>1
  <2>6. /\ at0 \in Nat /\ h.size \in Nat /\ h.extensions \in Nat
        /\ at0 + SumBefore(h, k + 1) <= 512 /\ at0 + SumBefore(h, k + 1) <= h.size
    BY <1>1, <1>5
  <2> DEFINE b == SumBefore(h, j)
             c == SumBefore(h, j + 1)
             d == SumBefore(h, k + 1)
             e == h.exts[j].len
             q == ext_pos(h, j)
             x == extensions_end(h)
  <2>7. /\ b \in Nat /\ d \in Nat /\ e \in Nat /\ c = b + 4 + e /\ c <= d /\ c <= h.extensions
        /\ q = at0 + b + 4 /\ x \in {at0 + h.extensions, 512} /\ at0 + d <= 512 /\ at0 + d <= h.size
    BY <2>2, <2>3, <2>4, <2>5, <2>6 DEF MAX_TLS_SCAN
  <2> HIDE DEF b, c, d, e, q, x
  <2>8. q <= x /\ q <= h.size /\ e <= 512 - q
    BY <2>6, <2>7
  <2> QED BY <2>8 DEF ext_enters, MAX_TLS_SCAN, e, q, x
<1>10. k \in server_name(h)
  <2>1. 16 \in Int /\ n \in Int
    BY <1>1
  <2>2. Min({16, n}) \in {16, n}
    BY <2>1, MinOfTwo
  <2>3. k \in 1 .. Min({16, n})
    BY <1>1, <1>4, <2>2
  <2>4. \A j \in 1 .. k : j < k => h.exts[j].type # 0
    BY <1>1, <1>6
  <2> QED BY <1>6, <1>9, <2>3, <2>4 DEF server_name, n
<1>11. ext_pos(h, k) + 5 + name_len <= h.size
  <2>1. k \in 1 .. k
    OBVIOUS
  <2>2. SumBefore(h, k + 1) = SumBefore(h, k) + 4 + h.exts[k].len /\ SumBefore(h, k) \in Nat
    BY <1>7, <2>1
  <2>3. h.exts[k].len = 5 + name_len
    BY <1>3, <1>4
  <2>4. ext_pos(h, k) = at0 + SumBefore(h, k) + 4
    BY DEF ext_pos, at0
  <2> QED BY <1>1, <1>5, <2>2, <2>3, <2>4
<1>12. h.list >= 3 /\ h.exts[k].len >= 5 /\ name_len <= h.exts[k].len - 5
  BY <1>3, <1>4
<1> QED BY <1>3, <1>8, <1>10, <1>11, <1>12 DEF sni_found, at0

\* a key that makeDomainKey returns is found for every spelling of the name that
\* has no capital outside ASCII
LEMMA NameMatches ==
  ASSUME NEW p \in Packet, NEW flag, NoOtherCapital(p.name), ToLower(p.name) # << >>,
         ~(ByteLen(ToLower(p.name)) >= maxDomainLen),
         Known(ToLower(p.name)), flag \in domains[ToLower(p.name)]
  PROVE  domain_matches(p.name, flag) /\ ByteLen(p.name) \in Nat \ {0}
<1> DEFINE s == p.name
<1>1. s \in Seq(DOMAIN Lower) /\ DOMAIN s = 1 .. Len(s) /\ Len(s) \in Nat
  BY PacketAssumption
<1>2. \A i \in 1 .. Len(s) :
        Bytes[s[i]] \in Nat \ {0} /\ (s[i] \in Ascii => Bytes[Lower[s[i]]] = Bytes[s[i]])
  BY <1>1, PacketAssumption
<1>3. s # << >>
  <2> SUFFICES ASSUME s = << >> PROVE FALSE
    OBVIOUS
  <2>1. ToLower(s) = << >>
    BY DEF ToLower
  <2> QED BY <2>1
<1>4. ascii_lower(s) = ToLower(s)
  <2>1. \A i \in DOMAIN s : s[i] \notin Ascii => Lower[s[i]] = s[i]
    BY DEF NoOtherCapital
  <2> HIDE DEF s
  <2> QED BY <2>1 DEF ascii_lower, ToLower
<1> HIDE DEF s
<1>5. ByteLen(ToLower(s)) = ByteLen(s)
  BY <1>1, <1>2, <1>4, LowerKeepsLength
<1>6. ByteLen(s) \in Nat \ {0}
  <2>1. Len(s) \in 0 .. Len(s)
    BY <1>1
  <2> QED BY <1>1, <1>2, <1>3, <2>1, ByteLenOfPrefix
<1>7. ByteLen(s) < maxDomainLen
  BY <1>5, <1>6 DEF maxDomainLen, s
<1> QED BY <1>3, <1>6, <1>7, <1>4 DEF domain_matches, s

-----------------------------------------------------------------------------
(***************************************************************************)
(* What the programs block, and the rules that cover it.                   *)
(***************************************************************************)
\* a verdict other than pass
Blocks(res) == res.is = "verdict" /\ res.action # "pass"

\* the prefixes, addresses with ports and names that the maps hold, as rules
LEMMA MapsAsRules ==
  /\ \A q \in cidrs : [rule |-> "cidr", prefix |-> q] \in InMaps
  /\ \A k \in ipPorts :
       [rule |-> "ipPort", addr |-> k.addr, port |-> k.port, proto |-> k.proto] \in InMaps
  /\ \A k, f : Known(k) /\ f \in domains[k] => [rule |-> "domain", key |-> k, flag |-> f] \in InMaps
<1>1. ASSUME NEW k, NEW f, Known(k), f \in domains[k]
      PROVE  [rule |-> "domain", key |-> k, flag |-> f] \in InMaps
  <2> DEFINE D == {{[rule |-> "domain", key |-> j, flag |-> g] : g \in domains[j]} : j \in DOMAIN domains}
  <2>1. {[rule |-> "domain", key |-> k, flag |-> g] : g \in domains[k]} \in D
    BY <1>1 DEF Known
  <2>2. [rule |-> "domain", key |-> k, flag |-> f] \in UNION D
    BY <1>1, <2>1
  <2> QED BY <2>2 DEF InMaps
<1>2. \A q \in cidrs : [rule |-> "cidr", prefix |-> q] \in InMaps
  BY DEF InMaps
<1>3. \A k \in ipPorts :
       [rule |-> "ipPort", addr |-> k.addr, port |-> k.port, proto |-> k.proto] \in InMaps
  BY DEF InMaps
<1> QED BY <1>1, <1>2, <1>3

\* what the entry program blocks is of its family, and in a prefix of the map
LEMMA ValidateBlocks ==
  ASSUME NEW p, NEW fam \in {"4", "6"}
  PROVE  /\ validate(fam, p) = Continue =>
              p.fam = fam /\ p.ipOK /\ ~(fam = "4" /\ p.frag)
         /\ Blocks(validate(fam, p)) => \E r \in InMaps : Covers(r, p)
<1>1. validate(fam, p) = Continue => p.fam = fam /\ p.ipOK /\ ~(fam = "4" /\ p.frag)
  BY DEF validate, Continue, Malformed, Passed, Verdict
<1>2. ASSUME Blocks(validate(fam, p)) PROVE \E r \in InMaps : Covers(r, p)
  <2>1. p.fam = fam /\ p.ipOK /\ (ip_matches_cidr(p.src) \/ ip_matches_cidr(p.dst))
    BY <1>2 DEF Blocks, validate, Malformed, Passed, Verdict, Continue
  <2>2. PICK a \in {p.src, p.dst}, q \in cidrs : PrefixContains(q, a)
    BY <2>1 DEF ip_matches_cidr
  <2> DEFINE r == [rule |-> "cidr", prefix |-> q]
  <2>3. r \in InMaps
    BY MapsAsRules
  <2>4. Covers(r, p)
    BY <2>1, <2>2 DEF Covers, Selects
  <2> QED BY <2>3, <2>4
<1> QED BY <1>1, <1>2

\* reading the ports of a segment blocks nothing
LEMMA PortsBlocks ==
  ASSUME NEW p, NEW proto
  PROVE  /\ ports(p, proto) = Continue => p.proto = proto /\ p.l4OK
         /\ ~Blocks(ports(p, proto))
BY DEF ports, Continue, Malformed, Passed, Verdict, Blocks

\* what the address and port lookups block, a rule in the map covers
LEMMA IpPortsBlocks ==
  ASSUME NEW p, Whole(p), \A k \in ipPorts : Unmap(k.addr) = k.addr, Blocks(ip_ports(p))
  PROVE  \E r \in InMaps : Covers(r, p)
<1>1. PICK e \in {<<p.dst, p.dport>>, <<p.src, p.sport>>} :
        [addr |-> e[1], port |-> e[2], proto |-> p.proto] \in ipPorts
  BY DEF Blocks, ip_ports, ip_port_matches, Continue
<1> DEFINE k == [addr |-> e[1], port |-> e[2], proto |-> p.proto]
           r == [rule |-> "ipPort", addr |-> k.addr, port |-> k.port, proto |-> k.proto]
<1>2. r \in InMaps
  BY <1>1, MapsAsRules
<1>3. Unmap(r.addr) = e[1] /\ r.port = e[2] /\ r.proto = p.proto /\ r.rule = "ipPort"
  BY <1>1
<1>4. e = <<Unmap(r.addr), r.port>>
  BY <1>3
<1> HIDE DEF r
<1>5. Selects(r, p)
  BY <1>1, <1>3, <1>4 DEF Selects
<1> QED BY <1>2, <1>3, <1>5 DEF Covers

\* a name that a lookup finds, whole or cut after 63 bytes, a rule in the map covers
LEMMA NameBlocks ==
  ASSUME NEW p \in Packet, NEW name, NEW flag, Whole(p), L7(p) = flag, domain_matches(name, flag),
         \/ name = p.name
         \/ /\ flag = "http" /\ ByteLen(ascii_lower(name)) = 63
            /\ Begins(ascii_lower(name), p.name)
  PROVE  \E r \in InMaps : Covers(r, p)
<1> DEFINE r == [rule |-> "domain", key |-> ascii_lower(name), flag |-> flag]
<1>1. r \in InMaps
  BY MapsAsRules DEF domain_matches
<1>2. Named(r, p)
  BY DEF Named
<1>3. name = p.name => Begins(r.key, p.name) /\ Len(r.key) = Len(p.name)
  <2>1. p.name \in Seq(DOMAIN Lower)
    BY PacketAssumption
  <2>2. /\ Len(ascii_lower(p.name)) = Len(p.name) /\ Len(p.name) \in Nat
        /\ \A i \in 1 .. Len(p.name) : ascii_lower(p.name)[i] \in {p.name[i], Lower[p.name[i]]}
    BY <2>1, LowerSpells
  <2> QED BY <2>2 DEF Begins
<1>4. Covers(r, p)
  BY <1>2, <1>3 DEF Covers
<1> QED BY <1>1, <1>4

\* reaching the payload of a TCP segment blocks nothing: it is of the right port
LEMMA PayloadBlocks ==
  ASSUME NEW p, NEW fam \in {"4", "6"}, NEW want
  PROVE  /\ payload_for_port(fam, p, want) = Continue =>
              Whole(p) /\ p.fam = fam /\ p.proto = protoTCP /\ p.dport = want
         /\ ~Blocks(payload_for_port(fam, p, want))
BY DEF payload_for_port, Continue, Malformed, Passed, Verdict, Blocks, Whole

(***************************************************************************)
(* Whatever a program drops or answers, a rule in the maps covers.         *)
(***************************************************************************)
LEMMA BlockedIsCovered ==
  ASSUME \A k \in ipPorts : Unmap(k.addr) = k.addr,
         NEW prog \in Programmed, NEW p \in Packet, Blocks(Result(prog, p))
  PROVE  \E r \in InMaps : Covers(r, p)
<1> DEFINE Covered == \E r \in InMaps : Covers(r, p)
<1> SUFFICES Covered
  OBVIOUS
<1>1. ASSUME NEW q PROVE ~Blocks(TailCall(q))
  BY DEF Blocks, TailCall
<1>2. ~Blocks(Passed) /\ ~Blocks(Malformed) /\ ~Blocks(Continue)
  BY DEF Blocks, Passed, Malformed, Verdict, Continue
<1>3. ~Blocks(xdp_filter(p))
  BY <1>1, <1>2 DEF xdp_filter
<1>4. ASSUME NEW fam \in {"4", "6"}, NEW tcp, NEW udp, Blocks(xdp_ip(fam, p, tcp, udp)) PROVE Covered
  BY <1>1, <1>2, <1>4, ValidateBlocks DEF xdp_ip, Then
<1>5. ASSUME NEW fam \in {"4", "6"}, validate(fam, p) = Continue, p.l4OK PROVE Whole(p)
  BY <1>5, ValidateBlocks DEF Whole
<1>6. ASSUME NEW fam \in {"4", "6"}, NEW http, NEW tls, Blocks(xdp_tcp(fam, p, http, tls)) PROVE Covered
  <2>1. CASE Blocks(validate(fam, p))
    BY <2>1, ValidateBlocks
  <2>2. CASE ~Blocks(validate(fam, p))
    <3>1. validate(fam, p) = Continue /\ ports(p, protoTCP) = Continue /\ Blocks(ip_ports(p))
      BY <1>1, <1>2, <1>6, <2>2, PortsBlocks DEF xdp_tcp, Then
    <3>2. Whole(p)
      BY <1>5, <3>1, PortsBlocks
    <3> QED BY <3>1, <3>2, IpPortsBlocks
  <2> QED BY <2>1, <2>2
<1>7. ASSUME NEW fam \in {"4", "6"}, NEW dns, Blocks(xdp_udp(fam, p, dns)) PROVE Covered
  <2>1. CASE Blocks(validate(fam, p))
    BY <2>1, ValidateBlocks
  <2>2. CASE ~Blocks(validate(fam, p))
    <3>1. validate(fam, p) = Continue /\ ports(p, protoUDP) = Continue /\ Blocks(ip_ports(p))
      BY <1>1, <1>2, <1>7, <2>2, PortsBlocks DEF xdp_udp, Then
    <3>2. Whole(p)
      BY <1>5, <3>1, PortsBlocks
    <3> QED BY <3>1, <3>2, IpPortsBlocks
  <2> QED BY <2>1, <2>2
<1>8. ASSUME NEW fam \in {"4", "6"}, Blocks(xdp_http(fam, p)) PROVE Covered
  <2>1. payload_for_port(fam, p, 80) = Continue /\ check_http_host(p)
    BY <1>2, <1>8, PayloadBlocks DEF xdp_http, Then, run_rule
  <2>2. Whole(p) /\ L7(p) = "http"
    BY <2>1, PayloadBlocks DEF L7
  <2>3. domain_matches(host_cut(p.name), "http")
    BY <2>1 DEF check_http_host
  <2> QED BY <2>2, <2>3, HostCut, NameBlocks
<1>9. ASSUME NEW fam \in {"4", "6"}, Blocks(xdp_tls(fam, p)) PROVE Covered
  <2>1. payload_for_port(fam, p, 443) = Continue /\ check_tls_sni(p)
    BY <1>2, <1>9, PayloadBlocks DEF xdp_tls, Then, run_rule
  <2>2. Whole(p) /\ L7(p) = "tls"
    BY <2>1, PayloadBlocks DEF L7
  <2>3. domain_matches(p.name, "tls")
    BY <2>1 DEF check_tls_sni
  <2> QED BY <2>2, <2>3, NameBlocks
<1>10. ASSUME NEW fam \in {"4", "6"}, Blocks(xdp_dns(fam, p)) PROVE Covered
  <2>1. CASE Blocks(validate(fam, p))
    BY <2>1, ValidateBlocks
  <2>2. CASE ~Blocks(validate(fam, p))
    <3>1. validate(fam, p) = Continue /\ ports(p, protoUDP) = Continue
      BY <1>2, <1>10, <2>2, PortsBlocks DEF xdp_dns, Then
    <3>2. p.dport = 53 /\ Blocks(check_dns(fam, p))
      BY <1>2, <1>10, <2>2, <3>1 DEF xdp_dns, Then
    <3>3. domain_matches(p.name, "dns")
      BY <3>2 DEF check_dns, dns_domain_matches, Blocks, Verdict
    <3>4. Whole(p) /\ p.proto = protoUDP
      BY <1>5, <3>1, PortsBlocks
    <3>5. L7(p) = "dns"
      BY <3>2, <3>4 DEF L7, protoTCP, protoUDP
    <3> QED BY <3>3, <3>4, <3>5, NameBlocks
  <2> QED BY <2>1, <2>2
<1> HIDE DEF Covered
<1>11. CASE prog = "xdp_filter"
  BY <1>3, <1>11 DEF Result
<1>12. CASE prog \in {"ipv4", "ipv6"}
  BY <1>4, <1>12 DEF Result
<1>13. CASE prog \in {"tcp4", "tcp6"}
  BY <1>6, <1>13 DEF Result
<1>14. CASE prog \in {"udp4", "udp6"}
  BY <1>7, <1>14 DEF Result
<1>15. CASE prog \in {"http4", "http6"}
  BY <1>8, <1>15 DEF Result
<1>16. CASE prog \in {"tls4", "tls6"}
  BY <1>9, <1>16 DEF Result
<1>17. CASE prog \in {"dns4", "dns6"}
  BY <1>10, <1>17 DEF Result
<1> QED
  BY <1>11, <1>12, <1>13, <1>14, <1>15, <1>16, <1>17 DEF Programmed, ToSet, Programs

-----------------------------------------------------------------------------
(***************************************************************************)
(* A rule on its way to a packet: what is selected stays selected from one *)
(* program to the next.                                                    *)
(***************************************************************************)
\* the rules that Add calls make
IsRule(r) ==
  \/ r.rule = "cidr"
  \/ r.rule = "ipPort" /\ r.proto \in {protoTCP, protoUDP}
  \/ /\ r.rule = "domain" /\ r = [rule |-> "domain", key |-> r.key, flag |-> r.flag]
     /\ r.key # << >> /\ ~(ByteLen(r.key) >= maxDomainLen) /\ r.flag \in Flag

\* r is in the map for its kind
Stored(r) ==
  CASE r.rule = "cidr" -> r.prefix \in cidrs
    [] r.rule = "ipPort" -> [addr |-> Unmap(r.addr), port |-> r.port, proto |-> r.proto] \in ipPorts
    [] r.rule = "domain" -> Known(r.key) /\ r.flag \in domains[r.key]

\* what the tail calls that led to prog say of a packet, and of a rule that
\* selects it and has not blocked it yet: http4 to dns6 have only names to look up
Reached(prog, r, p) ==
  CASE prog \in {"ipv4", "ipv6"} -> TRUE
    [] prog \in {"tcp4", "tcp6"} -> p.proto = protoTCP
    [] prog \in {"udp4", "udp6"} -> p.proto = protoUDP
    [] prog \in {"http4", "http6"} -> r.rule = "domain" /\ r.flag = "http"
    [] prog \in {"tls4", "tls6"} -> r.rule = "domain" /\ r.flag = "tls"
    [] prog \in {"dns4", "dns6"} -> r.rule = "domain" /\ r.flag = "dns"

Family(prog) == IF prog \in {"ipv4", "tcp4", "udp4", "http4", "tls4", "dns4"} THEN "4" ELSE "6"

Pending(prog, r, p) ==
  Selects(r, p) /\ (prog # "xdp_filter" => p.fam = Family(prog) /\ Reached(prog, r, p))

\* the steps of the programs on a packet that a rule selects, where names are not
\* looked up yet
LEMMA SelectedSteps ==
  ASSUME NEW p \in Packet, NEW r, IsRule(r), r.rule # "domain" => Stored(r), Selects(r, p)
  PROVE  /\ p.fam \in {"4", "6"}
         /\ Blocks(validate(p.fam, p)) \/ (r.rule # "cidr" /\ validate(p.fam, p) = Continue)
         /\ r.rule # "cidr" =>
              /\ p.proto \in {protoTCP, protoUDP} /\ ports(p, p.proto) = Continue
              /\ Blocks(ip_ports(p)) \/ (r.rule = "domain" /\ ip_ports(p) = Continue)
<1>1. p.fam \in {"4", "6"} /\ p.ipOK
  BY DEF IsRule, Selects, Named, Whole
<1>2. r.rule # "cidr" => Whole(p)
  BY DEF IsRule, Selects, Named
<1>3. r.rule = "cidr" => ip_matches_cidr(p.src) \/ ip_matches_cidr(p.dst)
  BY DEF Selects, Stored, ip_matches_cidr
<1>4. validate(p.fam, p) = Continue \/ Blocks(validate(p.fam, p)) \/ r.rule = "cidr"
  BY <1>1, <1>2 DEF validate, Blocks, Verdict, Whole
<1>5. r.rule = "cidr" => Blocks(validate(p.fam, p))
  BY <1>1, <1>3 DEF validate, Blocks, Verdict
<1>6. r.rule # "cidr" => p.proto \in {protoTCP, protoUDP} /\ ports(p, p.proto) = Continue
  <2> SUFFICES ASSUME r.rule # "cidr" PROVE p.proto \in {protoTCP, protoUDP} /\ p.l4OK
    BY DEF ports
  <2>1. CASE r.rule = "ipPort"
    BY <1>2, <2>1 DEF IsRule, Selects, Whole
  <2>2. CASE r.rule = "domain"
    <3>1. L7(p) \in Flag
      BY <2>2 DEF IsRule, Selects, Named
    <3> QED BY <1>2, <2>2, <3>1 DEF L7, Flag, Whole
  <2> QED BY <2>1, <2>2 DEF IsRule
<1>7. ip_ports(p) = Continue \/ Blocks(ip_ports(p))
  BY DEF ip_ports, Blocks, Verdict
<1>8. r.rule = "ipPort" => Blocks(ip_ports(p))
  <2> SUFFICES ASSUME r.rule = "ipPort" PROVE Blocks(ip_ports(p))
    OBVIOUS
  <2>1. /\ [addr |-> Unmap(r.addr), port |-> r.port, proto |-> r.proto] \in ipPorts
        /\ p.proto = r.proto
        /\ \E e \in {<<p.src, p.sport>>, <<p.dst, p.dport>>} : e = <<Unmap(r.addr), r.port>>
    BY DEF Stored, Selects
  <2>2. \/ p.src = Unmap(r.addr) /\ p.sport = r.port
        \/ p.dst = Unmap(r.addr) /\ p.dport = r.port
    BY <2>1
  <2>3. ip_port_matches(p.dst, p.dport, p.proto) \/ ip_port_matches(p.src, p.sport, p.proto)
    BY <2>1, <2>2 DEF ip_port_matches
  <2> QED BY <2>3 DEF ip_ports, Blocks, Verdict
<1> QED BY <1>1, <1>4, <1>5, <1>6, <1>7, <1>8 DEF IsRule

\* a packet that the rule of a name selects is of the protocol of its flag
LEMMA SelectedPlace ==
  ASSUME NEW p \in Packet, NEW r, IsRule(r), Selects(r, p), r.rule = "domain"
  PROVE  /\ L7(p) = r.flag /\ Whole(p) /\ r.flag \in Flag
         /\ ToLower(p.name) = r.key /\ NoOtherCapital(p.name)
BY DEF IsRule, Selects, Named

\* a query of at most eight labels and 62 characters, complete and in the first
\* 1024 bytes, ends the walk over its labels: 64 iterations reach the last byte
LEMMA AskedMatches ==
  ASSUME NEW p \in Packet, L7(p) = "dns", ByteLen(p.name) \in Nat,
         Asked(p.app, ByteLen(p.name)), domain_matches(p.name, "dns")
  PROVE  dns_domain_matches(p)
<1> DEFINE end == Offsets(p.app.labels)[Len(p.app.labels)]
<1>1. /\ p.app.inside /\ ~p.app.response /\ p.app.qdcount > 0 /\ p.app.labels # << >>
      /\ p.app.last = 0 /\ Len(p.app.labels) <= 8
      /\ ByteLen(p.name) <= 62 /\ p.app.size >= ByteLen(p.name) + 2 + 4
  BY DEF Asked
<1>2. p.app \in DnsQuery /\ end = ByteLen(p.name) + 1
  BY <1>1, PacketAssumption
<1>3. p.app.qdcount \in Nat /\ p.app.size \in Nat
  BY <1>2 DEF DnsQuery
<1> HIDE DEF end
<1>4. end < 64 /\ end + 1 + 4 <= p.app.size /\ p.app.qdcount # 0
  BY <1>1, <1>2, <1>3
<1>5. dns_completes(p.app)
  BY <1>1, <1>4 DEF dns_completes, end, MAX_DNS_LABELS, MAX_DNS_SCAN
<1> QED BY <1>1, <1>4, <1>5 DEF dns_domain_matches

\* the name of a packet that a stored rule selects is found by the lookup of its flag
LEMMA SelectedName ==
  ASSUME NEW p \in Packet, NEW r, IsRule(r), Stored(r), Selects(r, p), r.rule = "domain"
  PROVE  /\ r.flag = "http" => check_http_host(p)
         /\ r.flag = "tls" => check_tls_sni(p)
         /\ r.flag = "dns" => dns_domain_matches(p)
<1>1. /\ L7(p) = r.flag /\ Whole(p) /\ r.flag \in Flag
      /\ ToLower(p.name) = r.key /\ NoOtherCapital(p.name)
  BY SelectedPlace
<1>2. /\ r.key # << >> /\ ~(ByteLen(r.key) >= maxDomainLen)
      /\ Known(r.key) /\ r.flag \in domains[r.key]
  BY DEF IsRule, Stored
<1>3. domain_matches(p.name, r.flag) /\ ByteLen(p.name) \in Nat \ {0}
  BY <1>1, <1>2, NameMatches
<1>4. r.flag = "http" => check_http_host(p)
  <2> SUFFICES ASSUME r.flag = "http" PROVE check_http_host(p)
    OBVIOUS
  <2>1. host_cut(p.name) = p.name
    BY <1>1, <1>3, HostCut DEF domain_matches
  <2>2. host_found(p.app)
    BY DEF Selects, host_found
  <2> QED BY <1>3, <2>1, <2>2 DEF check_http_host
<1>5. r.flag = "tls" => check_tls_sni(p)
  <2> SUFFICES ASSUME r.flag = "tls" PROVE check_tls_sni(p)
    OBVIOUS
  <2>1. p.app \in ClientHello /\ Readable(p.app, ByteLen(p.name))
    BY <1>1, PacketAssumption DEF Selects
  <2>2. sni_found(p.app, ByteLen(p.name))
    BY <1>3, <2>1, ReadableFound
  <2> QED BY <1>3, <2>2 DEF check_tls_sni
<1>6. r.flag = "dns" => dns_domain_matches(p)
  <2> SUFFICES ASSUME r.flag = "dns" PROVE dns_domain_matches(p)
    OBVIOUS
  <2>1. Asked(p.app, ByteLen(p.name))
    BY DEF Selects
  <2> QED BY <1>1, <1>3, <2>1, AskedMatches
<1> QED BY <1>4, <1>5, <1>6

\* the programs that look up a name end with a verdict
LookUpNames == {"http4", "http6", "tls4", "tls6", "dns4", "dns6"}

LEMMA NamesVerdict ==
  ASSUME NEW prog \in LookUpNames, NEW p
  PROVE  Result(prog, p).is = "verdict"
<1>1. ASSUME NEW r, NEW n, Counted(r) \/ r = Continue, n.is = "verdict" PROVE Then(r, n).is = "verdict"
  BY <1>1 DEF Then, Counted
<1>2. ASSUME NEW drop, NEW stat PROVE run_rule(drop, stat).is = "verdict"
  BY DEF run_rule, Passed, Verdict
<1>3. ASSUME NEW fam PROVE xdp_http(fam, p).is = "verdict" /\ xdp_tls(fam, p).is = "verdict"
  BY <1>1, <1>2, StepsCount DEF xdp_http, xdp_tls
<1>4. ASSUME NEW fam PROVE xdp_dns(fam, p).is = "verdict"
  <2>1. check_dns(fam, p).is = "verdict" /\ Passed.is = "verdict"
    BY DEF check_dns, Passed, Verdict
  <2>2. (IF p.dport # 53 THEN Passed ELSE check_dns(fam, p)).is = "verdict"
    BY <2>1
  <2>3. Then(ports(p, protoUDP), IF p.dport # 53 THEN Passed ELSE check_dns(fam, p)).is = "verdict"
    BY <1>1, <2>2, StepsCount
  <2> QED BY <1>1, <2>3, StepsCount DEF xdp_dns
<1> QED BY <1>3, <1>4 DEF LookUpNames, Result

(***************************************************************************)
(* A packet that a rule selects is blocked by the program that runs on it, *)
(* or tail-called on towards the one that looks the rule up; there it is   *)
(* blocked if the rule is still stored.                                    *)
(***************************************************************************)
LEMMA PendingStep ==
  ASSUME NEW prog \in Programmed, NEW p \in Packet, NEW r,
         IsRule(r), r.rule # "domain" => Stored(r), Pending(prog, r, p)
  PROVE  \/ Blocks(Result(prog, p))
         \/ \E q \in ToSet(Programs) : Result(prog, p) = TailCall(q) /\ Pending(q, r, p)
         \/ ~Stored(r) /\ Result(prog, p).is = "verdict"
<1> DEFINE Goal == \/ Blocks(Result(prog, p))
                   \/ \E q \in ToSet(Programs) : Result(prog, p) = TailCall(q) /\ Pending(q, r, p)
                   \/ ~Stored(r) /\ Result(prog, p).is = "verdict"
<1> SUFFICES Goal
  OBVIOUS
<1>1. Selects(r, p) /\ (prog # "xdp_filter" => p.fam = Family(prog) /\ Reached(prog, r, p))
  BY DEF Pending
<1>2. /\ p.fam \in {"4", "6"}
      /\ Blocks(validate(p.fam, p)) \/ (r.rule # "cidr" /\ validate(p.fam, p) = Continue)
      /\ r.rule # "cidr" =>
           /\ p.proto \in {protoTCP, protoUDP} /\ ports(p, p.proto) = Continue
           /\ Blocks(ip_ports(p)) \/ (r.rule = "domain" /\ ip_ports(p) = Continue)
  BY <1>1, SelectedSteps
<1>3. Continue.is = "continue" /\ ~Blocks(Continue)
  BY DEF Continue, Blocks
<1>4. ASSUME NEW q \in ToSet(Programs), Result(prog, p) = TailCall(q),
             p.fam = Family(q), Reached(q, r, p)
      PROVE  Goal
  BY <1>1, <1>4 DEF Pending
<1> HIDE DEF Goal
<1>5. CASE prog \in LookUpNames /\ ~Stored(r)
  BY <1>5, NamesVerdict DEF Goal
<1>6. CASE prog = "xdp_filter"
  <2>1. Result(prog, p) = IF p.fam = "4" THEN TailCall("ipv4") ELSE TailCall("ipv6")
    BY <1>2, <1>6 DEF Result, xdp_filter
  <2>2. /\ "ipv4" \in ToSet(Programs) /\ Family("ipv4") = "4" /\ Reached("ipv4", r, p)
        /\ "ipv6" \in ToSet(Programs) /\ Family("ipv6") = "6" /\ Reached("ipv6", r, p)
    BY DEF Family, Reached, ToSet, Programs
  <2> QED BY <1>2, <1>4, <2>1, <2>2
<1>7. CASE prog \in {"ipv4", "ipv6"}
  <2> DEFINE tcp == IF prog = "ipv4" THEN "tcp4" ELSE "tcp6"
             udp == IF prog = "ipv4" THEN "udp4" ELSE "udp6"
  <2>1. p.fam = Family(prog) /\ Result(prog, p) = xdp_ip(p.fam, p, tcp, udp)
    BY <1>1, <1>7 DEF Result, Family
  <2>2. CASE Blocks(validate(p.fam, p))
    BY <1>3, <2>1, <2>2 DEF xdp_ip, Then, Goal
  <2>3. CASE r.rule # "cidr" /\ validate(p.fam, p) = Continue
    <3>1. Result(prog, p) = IF p.proto = protoTCP THEN TailCall(tcp) ELSE TailCall(udp)
      BY <1>2, <2>1, <2>3 DEF xdp_ip, Then
    <3>2. tcp \in ToSet(Programs) /\ udp \in ToSet(Programs)
          /\ p.fam = Family(tcp) /\ p.fam = Family(udp)
      BY <1>7, <2>1 DEF Family, ToSet, Programs
    <3>3. (p.proto = protoTCP => Reached(tcp, r, p)) /\ (p.proto = protoUDP => Reached(udp, r, p))
      BY DEF Reached
    <3> HIDE DEF tcp, udp
    <3> QED BY <1>2, <1>4, <2>3, <3>1, <3>2, <3>3
  <2> QED BY <1>2, <2>2, <2>3
<1>8. CASE prog \in {"tcp4", "tcp6"}
  <2> DEFINE http == IF prog = "tcp4" THEN "http4" ELSE "http6"
             tls == IF prog = "tcp4" THEN "tls4" ELSE "tls6"
  <2>1. /\ p.fam = Family(prog) /\ p.proto = protoTCP
        /\ Result(prog, p) = xdp_tcp(p.fam, p, http, tls)
    BY <1>1, <1>8 DEF Result, Family, Reached
  <2>2. CASE Blocks(validate(p.fam, p))
    BY <1>3, <2>1, <2>2 DEF xdp_tcp, Then, Goal
  <2>3. CASE r.rule # "cidr" /\ validate(p.fam, p) = Continue /\ Blocks(ip_ports(p))
    BY <1>2, <1>3, <2>1, <2>3 DEF xdp_tcp, Then, Goal
  <2>4. CASE validate(p.fam, p) = Continue /\ r.rule = "domain" /\ ip_ports(p) = Continue
    <3>1. L7(p) = r.flag /\ r.flag \in Flag
      BY <1>1, <2>4, SelectedPlace
    <3>2. \/ p.dport = 80 /\ r.flag = "http"
          \/ p.dport = 443 /\ r.flag = "tls"
      BY <2>1, <3>1 DEF L7, Flag, protoTCP, protoUDP
    <3>3. Result(prog, p) = IF p.dport = 80 THEN TailCall(http) ELSE TailCall(tls)
      BY <1>2, <2>1, <2>4, <3>2 DEF xdp_tcp, Then
    <3>4. http \in ToSet(Programs) /\ tls \in ToSet(Programs)
          /\ p.fam = Family(http) /\ p.fam = Family(tls)
      BY <1>8, <2>1 DEF Family, ToSet, Programs
    <3>5. (r.flag = "http" => Reached(http, r, p)) /\ (r.flag = "tls" => Reached(tls, r, p))
      BY <2>4 DEF Reached
    <3> HIDE DEF http, tls
    <3>6. CASE p.dport = 80
      <4>1. r.flag = "http" /\ Result(prog, p) = TailCall(http)
        BY <3>2, <3>3, <3>6
      <4> QED BY <1>4, <3>4, <3>5, <4>1
    <3>7. CASE p.dport # 80
      BY <1>4, <3>2, <3>3, <3>4, <3>5, <3>7
    <3> QED BY <3>6, <3>7
  <2> QED BY <1>2, <2>2, <2>3, <2>4
<1>9. CASE prog \in {"udp4", "udp6"}
  <2> DEFINE dns == IF prog = "udp4" THEN "dns4" ELSE "dns6"
  <2>1. /\ p.fam = Family(prog) /\ p.proto = protoUDP
        /\ Result(prog, p) = xdp_udp(p.fam, p, dns)
    BY <1>1, <1>9 DEF Result, Family, Reached
  <2>2. CASE Blocks(validate(p.fam, p))
    BY <1>3, <2>1, <2>2 DEF xdp_udp, Then, Goal
  <2>3. CASE r.rule # "cidr" /\ validate(p.fam, p) = Continue /\ Blocks(ip_ports(p))
    BY <1>2, <1>3, <2>1, <2>3 DEF xdp_udp, Then, Goal
  <2>4. CASE validate(p.fam, p) = Continue /\ r.rule = "domain" /\ ip_ports(p) = Continue
    <3>1. L7(p) = r.flag /\ r.flag \in Flag
      BY <1>1, <2>4, SelectedPlace
    <3>2. p.dport = 53 /\ r.flag = "dns"
      BY <2>1, <3>1 DEF L7, Flag, protoTCP, protoUDP
    <3>3. Result(prog, p) = TailCall(dns)
      BY <1>2, <2>1, <2>4, <3>2 DEF xdp_udp, Then
    <3>4. dns \in ToSet(Programs) /\ p.fam = Family(dns) /\ Reached(dns, r, p)
      BY <1>9, <2>1, <2>4, <3>2 DEF Family, ToSet, Programs, Reached
    <3> HIDE DEF dns
    <3> QED BY <1>4, <3>3, <3>4
  <2> QED BY <1>2, <2>2, <2>3, <2>4
<1>10. CASE prog \in {"http4", "http6"} /\ Stored(r)
  <2>1. /\ p.fam = Family(prog) /\ r.rule = "domain" /\ r.flag = "http"
        /\ Result(prog, p) = xdp_http(p.fam, p)
    BY <1>1, <1>10 DEF Result, Family, Reached
  <2>2. L7(p) = "http" /\ Whole(p) /\ check_http_host(p)
    BY <1>1, <1>10, <2>1, SelectedName, SelectedPlace
  <2>3. payload_for_port(p.fam, p, 80) = Continue
    BY <2>2 DEF payload_for_port, L7, Whole, protoTCP, protoUDP
  <2> QED BY <2>1, <2>2, <2>3 DEF xdp_http, Then, run_rule, Blocks, Verdict, Goal
<1>11. CASE prog \in {"tls4", "tls6"} /\ Stored(r)
  <2>1. /\ p.fam = Family(prog) /\ r.rule = "domain" /\ r.flag = "tls"
        /\ Result(prog, p) = xdp_tls(p.fam, p)
    BY <1>1, <1>11 DEF Result, Family, Reached
  <2>2. L7(p) = "tls" /\ Whole(p) /\ check_tls_sni(p)
    BY <1>1, <1>11, <2>1, SelectedName, SelectedPlace
  <2>3. payload_for_port(p.fam, p, 443) = Continue
    BY <2>2 DEF payload_for_port, L7, Whole, protoTCP, protoUDP
  <2> QED BY <2>1, <2>2, <2>3 DEF xdp_tls, Then, run_rule, Blocks, Verdict, Goal
<1>12. CASE prog \in {"dns4", "dns6"} /\ Stored(r)
  <2>1. /\ p.fam = Family(prog) /\ r.rule = "domain" /\ r.flag = "dns"
        /\ Result(prog, p) = xdp_dns(p.fam, p)
    BY <1>1, <1>12 DEF Result, Family, Reached
  <2>2. CASE Blocks(validate(p.fam, p))
    BY <1>3, <2>1, <2>2 DEF xdp_dns, Then, Goal
  <2>3. CASE validate(p.fam, p) = Continue
    <3>1. L7(p) = "dns" /\ dns_domain_matches(p)
      BY <1>1, <1>12, <2>1, SelectedName, SelectedPlace
    <3>2. p.dport = 53 /\ p.proto = protoUDP
      BY <3>1 DEF L7
    <3>3. ports(p, protoUDP) = Continue
      BY <1>2, <2>1, <3>2
    <3>4. Result(prog, p) = check_dns(p.fam, p)
      BY <1>3, <2>1, <2>3, <3>2, <3>3 DEF xdp_dns, Then
    <3> QED BY <3>1, <3>4 DEF check_dns, Blocks, Verdict, Goal
  <2> QED BY <1>2, <2>2, <2>3
<1> QED
  BY <1>6, <1>7, <1>8, <1>9, <1>10, <1>11, <1>12, <1>5
     DEF Programmed, ToSet, Programs, LookUpNames

-----------------------------------------------------------------------------
(***************************************************************************)
(* The inductive invariant of AddedRulesEnforced: the dispatch table, the  *)
(* calls of AddDomainRule under way, the rules acked and the packets due.  *)
(***************************************************************************)
\* the table as populateDispatchRules leaves it
Filled == [i \in 0 .. 11 |-> Programs[i + 1]]

\* populateDispatchRules fills the table in order, and it stays full until the
\* filter is closed; before it is full nothing is attached and no packet comes
DispatchInv ==
  /\ at \in {"load", "populate", "interface", "flags"} => Busy = {}
  /\ at = "load" => dispatch = NoProgram
  /\ at = "populate" => \A i \in 0 .. 11 : dispatch[i] \in {"none", Filled[i]}
  /\ at \in {"interface", "flags", "up"} => dispatch = Filled

\* what AddDomainRule puts back has the flags that it was asked for and those
\* that the map has, but for the ones that a failed lookup loses
CallInv ==
  call # NoCall =>
    /\ call.key # << >> /\ ~(ByteLen(call.key) >= maxDomainLen)
    /\ call.asked \subseteq Flag /\ call.asked \subseteq call.put
    /\ Known(call.key) => domains[call.key] \subseteq call.put \cup call.lost

\* a rule whose Add returned is in its map until a failed lookup loses it
AckedInv == \A r \in acked : IsRule(r) /\ Stored(r)

RulesInv == CallInv /\ AckedInv /\ \A k \in ipPorts : Unmap(k.addr) = k.addr

\* a packet is on its way to every rule that was added before it came, even to one
\* that has been lost since: it may be added again in time
DueInv ==
  /\ due = [c \in CPU |-> due[c]]
  /\ at = "up" =>
       \A c \in Busy : \A r \in due[c] :
         /\ IsRule(r) /\ (r.rule # "domain" => Stored(r))
         /\ Pending(cpu[c].prog, r, cpu[c].p)

EnforceInv == LoaderInv /\ CountsType /\ DispatchInv /\ RulesInv /\ DueInv /\ AddedRulesEnforced

\* PopulateDispatch has a next index as long as one is left
LEMMA MinInSet ==
  ASSUME NEW S \in SUBSET (0 .. 11), S # {}
  PROVE  Min(S) \in S /\ \A y \in S : Min(S) <= y
<1>1. \E x \in S : \A y \in S : x <= y
  <2>1. S \subseteq Nat /\ S # {}
    OBVIOUS
  <2>2. PICK x \in S : \A y \in S : ~(<<y, x>> \in OpToRel(<, Nat))
    BY <2>1, NatLessThanWellFounded, WFMin
  <2>3. \A y \in S : ~(y < x)
    BY <2>1, <2>2 DEF OpToRel
  <2>4. \A y \in S : x <= y
    BY <2>1, <2>3
  <2> QED BY <2>4
<1> QED BY <1>1 DEF Min

\* every step of the loader keeps the dispatch table as DispatchInv has it
LEMMA DispatchStep ==
  ASSUME LoaderInv, CountsType, DispatchInv, [Next]_vars
  PROVE  DispatchInv'
<1>1. CASE UNCHANGED <<at, dispatch, cpu>>
  BY <1>1 DEF DispatchInv, Busy
<1>2. CASE Calls /\ UNCHANGED cpu
  <2>1. Busy' = Busy
    BY <1>2 DEF Busy
  <2>2. CASE LoadFails \/ InterfaceByName \/ AttachXDP \/ NewFails \/ CloseLink \/ CloseFilter
    BY <2>1, <2>2 DEF LoadFails, InterfaceByName, AttachXDP, NewFails, CloseLink, CloseFilter,
                      Step, Idle, closeObjects, DispatchInv
  <2>3. CASE LoadAndAssign
    <3>1. at = "load" /\ at' = "populate" /\ dispatch' = NoProgram
      BY <2>3 DEF LoadAndAssign, Step, DispatchInv
    <3> QED BY <2>1, <3>1 DEF DispatchInv, NoProgram
  <2>4. CASE PopulateDispatch
    <3> DEFINE k == Min(Unset)
    <3>1. k \in 0 .. 11 /\ \A i \in 0 .. 11 : dispatch[i] = "none" => k <= i
      BY <2>4, MinInSet DEF PopulateDispatch, Unset
    <3>2. /\ dispatch' = [dispatch EXCEPT ![k] = Programs[k + 1]]
          /\ at = "populate" /\ at' = IF k = 11 THEN "interface" ELSE "populate"
      BY <2>4 DEF PopulateDispatch
    <3> HIDE DEF k
    <3>3. /\ \A i \in 0 .. 11 : dispatch[i] \in {"none", Filled[i]} /\ Filled[k] = Programs[k + 1]
          /\ DOMAIN dispatch = 0 .. 11
      BY <3>1, <3>2 DEF DispatchInv, Filled, CountsType
    <3>4. \A i \in 0 .. 11 : dispatch'[i] \in {"none", Filled[i]}
      BY <3>1, <3>2, <3>3
    <3>5. k = 11 => \A i \in 0 .. 11 : dispatch'[i] = Filled[i]
      BY <3>1, <3>2, <3>3
    <3>6. k = 11 => dispatch' = Filled
      BY <3>2, <3>3, <3>5 DEF Filled
    <3> QED BY <2>1, <3>2, <3>4, <3>6 DEF DispatchInv
  <2>5. CASE AddRules
    BY <2>1, <2>5 DEF AddRules, DispatchInv
  <2> QED BY <1>2, <2>2, <2>3, <2>4, <2>5 DEF Calls, NewXDPFilter
<1>3. CASE Death /\ UNCHANGED cpu
  BY <1>3 DEF Death, Die, DieObjects, DieLink, Dead, DispatchInv, Busy
<1>4. ASSUME NEW c \in CPU, NEW p \in Packet, Receive(c, p) PROVE DispatchInv'
  BY <1>4 DEF Receive, loaderVars, DispatchInv, LoaderInv
<1>5. ASSUME NEW c \in CPU, RunProgram(c) PROVE DispatchInv'
  <2>1. Busy # {}
    BY <1>5 DEF RunProgram
  <2> QED BY <1>5, <2>1 DEF RunProgram, loaderVars, DispatchInv
<1> QED
  BY <1>1, <1>2, <1>3, <1>4, <1>5
     DEF Next, LoaderStep, GetStats, LookupStat, LookupStatFails, Done, vars, loaderVars

\* a name that AddDomainRule accepts has a key that fits the map
LEMMA KeyFits ==
  ASSUME NEW d, makeDomainKey(d).ok
  PROVE  makeDomainKey(d).val # << >> /\ ~(ByteLen(makeDomainKey(d).val) >= maxDomainLen)
BY DEF makeDomainKey, OK, Error

\* a rule stays in a map that grows
LEMMA StoredStays ==
  ASSUME NEW r, IsRule(r), Stored(r), cidrs \subseteq cidrs', ipPorts \subseteq ipPorts',
         r.rule = "domain" => r.key \in DOMAIN domains' /\ r.flag \in domains'[r.key]
  PROVE  Stored(r)'
<1>1. CASE r.rule = "cidr"
  BY <1>1 DEF Stored
<1>2. CASE r.rule = "ipPort"
  BY <1>2 DEF Stored
<1>3. CASE r.rule = "domain"
  BY <1>3 DEF Stored, Known
<1> QED BY <1>1, <1>2, <1>3 DEF IsRule

\* the keys that AddIPPortRule stores are unmapped already
LEMMA UnmapTwice ==
  ASSUME NEW a \in [kind : {"4", "6", "4in6"}, bits : Seq({0, 1})]
  PROVE  Unmap(Unmap(a)) = Unmap(a)
BY DEF Unmap

\* no step of the calls, of the loader or of a packet takes an acked rule out of
\* the maps, but for the flags that a Put after a failed lookup loses
LEMMA RulesStep ==
  ASSUME RulesInv, [Next]_vars
  PROVE  RulesInv'
<1>1. CASE UNCHANGED ruleVars
  BY <1>1 DEF ruleVars, RulesInv, CallInv, AckedInv, Stored, Known
<1>2. CASE Die
  BY <1>2 DEF Die, RulesInv, CallInv, AckedInv, Stored, Known, NoCall
<1>3. CASE AddRules
  <2>1. ASSUME NEW d \in DomainCall, LookupDomain(d.domain, d.flags) PROVE RulesInv'
    <3> DEFINE k == makeDomainKey(d.domain).val
    <3>1. /\ call'.key = k /\ call'.asked = d.flags
          /\ call'.put = d.flags \cup (IF Known(k) THEN domains[k] ELSE {})
          /\ UNCHANGED <<domains, cidrs, ipPorts, acked, lookupFaults>>
      BY <2>1 DEF LookupDomain
    <3>2. k # << >> /\ ~(ByteLen(k) >= maxDomainLen) /\ d.flags \subseteq Flag
      BY <2>1, KeyFits, CallAssumption DEF LookupDomain
    <3> HIDE DEF k
    <3>3. CallInv'
      BY <3>1, <3>2 DEF CallInv, Known
    <3> QED BY <3>1, <3>3 DEF RulesInv, AckedInv, Stored, Known
  <2>2. ASSUME NEW d \in DomainCall, LookupDomainFails(d.domain, d.flags) PROVE RulesInv'
    <3> DEFINE k == makeDomainKey(d.domain).val
    <3>1. /\ call'.key = k /\ call'.asked = d.flags /\ call'.put = d.flags
          /\ call'.lost = domains[k] \ d.flags
          /\ UNCHANGED <<domains, cidrs, ipPorts, acked>>
      BY <2>2 DEF LookupDomainFails
    <3>2. k # << >> /\ ~(ByteLen(k) >= maxDomainLen) /\ d.flags \subseteq Flag
      BY <2>2, KeyFits, CallAssumption DEF LookupDomainFails
    <3> HIDE DEF k
    <3>3. CallInv'
      BY <3>1, <3>2 DEF CallInv, Known
    <3> QED BY <3>1, <3>3 DEF RulesInv, AckedInv, Stored, Known
  <2>3. CASE PutDomain
    <3>1. /\ call # NoCall /\ call' = NoCall
          /\ domains' = [k \in DOMAIN domains \cup {call.key} |->
                           IF k = call.key THEN call.put ELSE domains[k]]
          /\ acked' = (acked \ DomainRules(call.key, call.lost)) \cup DomainRules(call.key, call.asked)
          /\ UNCHANGED <<cidrs, ipPorts>>
      BY <2>3 DEF PutDomain
    <3>2. /\ call.key # << >> /\ ~(ByteLen(call.key) >= maxDomainLen)
          /\ call.asked \subseteq Flag /\ call.asked \subseteq call.put
          /\ Known(call.key) => domains[call.key] \subseteq call.put \cup call.lost
      BY <3>1 DEF RulesInv, CallInv
    <3>3. ASSUME NEW k \in DOMAIN domains, NEW f \in domains[k],
                 k = call.key => f \notin call.lost
          PROVE  k \in DOMAIN domains' /\ f \in domains'[k]
      BY <3>1, <3>2, <3>3 DEF Known
    <3>4. ASSUME NEW r \in acked, r \notin DomainRules(call.key, call.lost)
          PROVE  IsRule(r) /\ Stored(r)'
      <4>1. IsRule(r) /\ Stored(r)
        BY DEF RulesInv, AckedInv
      <4>2. ASSUME r.rule = "domain" PROVE r.key \in DOMAIN domains' /\ r.flag \in domains'[r.key]
        <5>1. /\ r = [rule |-> "domain", key |-> r.key, flag |-> r.flag]
              /\ r.key \in DOMAIN domains /\ r.flag \in domains[r.key]
          BY <4>1, <4>2 DEF IsRule, Stored, Known
        <5>2. r.key = call.key => r.flag \notin call.lost
          BY <3>4, <5>1 DEF DomainRules
        <5> QED BY <3>3, <5>1, <5>2
      <4> QED BY <3>1, <4>1, <4>2, StoredStays
    <3>5. ASSUME NEW f \in call.asked, NEW r, r = [rule |-> "domain", key |-> call.key, flag |-> f]
          PROVE  IsRule(r) /\ Stored(r)'
      <4>1. /\ r.rule = "domain" /\ r.key = call.key /\ r.flag = f
            /\ r = [rule |-> "domain", key |-> r.key, flag |-> r.flag]
        BY <3>5
      <4>2. IsRule(r)
        BY <3>2, <4>1 DEF IsRule
      <4>3. call.key \in DOMAIN domains' /\ f \in domains'[call.key]
        BY <3>1, <3>2
      <4> QED BY <4>1, <4>2, <4>3 DEF Stored, Known
    <3>6. AckedInv'
      <4>1. \A r \in DomainRules(call.key, call.asked) : IsRule(r) /\ Stored(r)'
        BY <3>5 DEF DomainRules
      <4>2. \A r \in acked' : IsRule(r) /\ Stored(r)'
        BY <3>1, <3>4, <4>1
      <4> QED BY <4>2 DEF AckedInv
    <3> QED BY <3>1, <3>6 DEF RulesInv, CallInv
  <2>4. CASE PutDomainFails
    BY <2>4 DEF PutDomainFails, RulesInv, CallInv, AckedInv, Stored, Known
  <2>5. ASSUME NEW q \in PrefixCall, AddCIDR(q) PROVE RulesInv'
    <3> DEFINE new == [rule |-> "cidr", prefix |-> Masked(q)]
    <3>1. /\ cidrs' = cidrs \cup {Masked(q)} /\ acked' = acked \cup {new}
          /\ UNCHANGED <<domains, ipPorts, call>>
      BY <2>5 DEF AddCIDR
    <3>2. IsRule(new) /\ Stored(new)'
      BY <3>1 DEF IsRule, Stored
    <3> HIDE DEF new
    <3>3. AckedInv'
      BY <3>1, <3>2, StoredStays DEF RulesInv, AckedInv, Stored, Known
    <3> QED BY <3>1, <3>3 DEF RulesInv, CallInv, Known
  <2>6. ASSUME NEW e \in PortCall, AddIPPort(e.addr, e.port, e.proto) PROVE RulesInv'
    <3> DEFINE new == [rule |-> "ipPort", addr |-> e.addr, port |-> e.port, proto |-> e.proto]
               key == [addr |-> Unmap(e.addr), port |-> e.port, proto |-> e.proto]
    <3>1. /\ ipPorts' = ipPorts \cup {key} /\ acked' = acked \cup {new}
          /\ e.proto \in {protoTCP, protoUDP}
          /\ UNCHANGED <<domains, cidrs, call>>
      BY <2>6 DEF AddIPPort
    <3>2. IsRule(new) /\ Stored(new)'
      BY <3>1 DEF IsRule, Stored
    <3>3. Unmap(key.addr) = key.addr
      BY UnmapTwice, CallAssumption
    <3> HIDE DEF new, key
    <3>4. AckedInv'
      BY <3>1, <3>2, StoredStays DEF RulesInv, AckedInv, Stored, Known
    <3> QED BY <3>1, <3>3, <3>4 DEF RulesInv, CallInv, Known
  <2> QED BY <1>3, <2>1, <2>2, <2>3, <2>4, <2>5, <2>6 DEF AddRules
<1> QED
  BY <1>1, <1>2, <1>3
     DEF Next, LoaderStep, Calls, NewXDPFilter, LoadFails, LoadAndAssign, PopulateDispatch,
         InterfaceByName, AttachXDP, NewFails, CloseLink, CloseFilter, Death, DieObjects, DieLink,
         Dead, GetStats, LookupStat, LookupStatFails, Done, Receive, RunProgram, vars, loaderVars

-----------------------------------------------------------------------------
(***************************************************************************)
(* No packet that is due is passed.                                        *)
(***************************************************************************)
\* the table is full, so that every tail call lands in the program it names
LEMMA TailIndex ==
  ASSUME NEW q \in ToSet(Programs)
  PROVE  Dispatch[q] \in 0 .. 11 /\ Filled[Dispatch[q]] = q /\ q # "none" /\ q # "xdp_filter"
<1> USE DEF Dispatch, Filled, Programs, ToSet
<1>1. q \in {"ipv4", "ipv6", "tcp4", "udp4", "tcp6", "udp6",
             "http4", "tls4", "http6", "tls6", "dns4", "dns6"}
  OBVIOUS
<1> QED BY <1>1

\* up to the tail calls, a packet stays on its way to the rules that select it;
\* it does not pass one that is in force when it is looked up
LEMMA DueRuns ==
  ASSUME EnforceInv, NEW c \in CPU, RunProgram(c), at = "up", NEW r \in due[c]
  PROVE  \/ (\E v : Leave(c, v)) /\ (r \in acked => \E v : v # "pass" /\ Leave(c, v))
         \/ \E q \in ToSet(Programs) :
              /\ cpu' = [cpu EXCEPT ![c].prog = q] /\ UNCHANGED verdictVars
              /\ Pending(q, r, cpu[c].p)
<1> USE DEF EnforceInv
<1> DEFINE prog == cpu[c].prog
           p == cpu[c].p
           res == Result(prog, p)
<1>1. c \in Busy /\ cpu[c] \in Running
  BY DEF RunProgram, Busy, CountsType
<1>2. prog \in Programmed /\ p \in Packet
  BY <1>1 DEF Running
<1>3. IsRule(r) /\ (r.rule # "domain" => Stored(r)) /\ Pending(prog, r, p)
  BY <1>1 DEF DueInv
<1>4. r \in acked => Stored(r)
  BY DEF RulesInv, AckedInv
<1>5. CASE Blocks(res)
  <2>1. RunVerdict(c)
    BY <1>5 DEF RunProgram, RunTail, Blocks
  <2> QED BY <1>5, <2>1 DEF RunVerdict, Blocks
<1>6. ASSUME NEW q \in ToSet(Programs), res = TailCall(q), Pending(q, r, p)
      PROVE  /\ cpu' = [cpu EXCEPT ![c].prog = q] /\ UNCHANGED verdictVars
             /\ Pending(q, r, p)
  <2>1. res.is = "tail" /\ res.index = Dispatch[q]
    BY <1>6 DEF TailCall
  <2>2. RunTail(c)
    BY <2>1 DEF RunProgram, RunVerdict
  <2>3. dispatch[res.index] = q /\ q # "none"
    BY <2>1, TailIndex DEF DispatchInv
  <2>4. cpu' = [cpu EXCEPT ![c].prog = q] /\ UNCHANGED verdictVars
    BY <2>2, <2>3 DEF RunTail
  <2> QED BY <1>6, <2>4
<1>7. CASE ~Stored(r) /\ res.is = "verdict"
  <2>1. RunVerdict(c)
    BY <1>7 DEF RunProgram, RunTail
  <2> QED BY <1>4, <1>7, <2>1 DEF RunVerdict
<1> HIDE DEF prog, p, res
<1>8. \/ Blocks(res) \/ \E q \in ToSet(Programs) : res = TailCall(q) /\ Pending(q, r, p)
      \/ ~Stored(r) /\ res.is = "verdict"
  BY <1>2, <1>3, PendingStep DEF res
<1> QED BY <1>5, <1>6, <1>7, <1>8 DEF p

\* the verdict a packet leaves with is none that XdpPath counts as wrong
LEMMA LeaveWrong ==
  ASSUME EnforceInv, NEW c \in CPU, RunProgram(c)
  PROVE  AddedRulesEnforced'
<1> USE DEF EnforceInv
<1> DEFINE res == Result(cpu[c].prog, cpu[c].p)
<1>1. cpu[c].prog \in Programmed /\ cpu[c].p \in Packet
  BY DEF RunProgram, Busy, CountsType, Running
<1>2. wrong = {}
  BY DEF AddedRulesEnforced
<1>3. wrong' = wrong \/ \E v : Leave(c, v)
  BY DEF RunProgram, RunTail, RunVerdict, verdictVars
<1>4. wrong' \subseteq {"passed", "blocked"}
  BY <1>2, <1>3 DEF Leave
<1>5. "blocked" \notin wrong'
  <2>1. CASE RunTail(c)
    BY <1>2, <2>1 DEF RunTail, Leave, verdictVars
  <2>2. CASE RunVerdict(c)
    <3>1. CASE Blocks(res)
      <4>1. \E r \in InMaps : Covers(r, cpu[c].p)
        BY <1>1, <3>1, BlockedIsCovered DEF RulesInv
      <4> QED BY <1>2, <2>2, <4>1 DEF RunVerdict, Leave
    <3>2. CASE ~Blocks(res)
      BY <1>2, <2>2, <3>2 DEF RunVerdict, Leave, Blocks
    <3> QED BY <3>1, <3>2
  <2> QED BY <2>1, <2>2 DEF RunProgram
<1>6. "passed" \notin wrong'
  <2>1. CASE at = "up" /\ due[c] \cap acked # {}
    <3>1. PICK r \in due[c] : r \in acked
      BY <2>1
    <3>2. wrong' = wrong \/ \E v : v # "pass" /\ Leave(c, v)
      BY <2>1, <3>1, DueRuns DEF verdictVars
    <3> QED BY <1>2, <3>2 DEF Leave
  <2>2. CASE ~(at = "up" /\ due[c] \cap acked # {})
    BY <1>2, <1>3, <2>2 DEF Leave
  <2> QED BY <2>1, <2>2
<1> QED BY <1>4, <1>5, <1>6 DEF AddedRulesEnforced

\* prefixes, addresses and ports are never taken out of the maps
LEMMA MapsGrow ==
  ASSUME [Next]_vars
  PROVE  /\ cidrs \subseteq cidrs' /\ ipPorts \subseteq ipPorts'
         /\ at' = "up" => at \in {"up", "flags"}
<1>1. CASE AddRules
  <2>1. at' = at
    BY <1>1 DEF AddRules
  <2>2. cidrs \subseteq cidrs' /\ ipPorts \subseteq ipPorts'
    BY <1>1 DEF AddRules, LookupDomain, LookupDomainFails, PutDomain, PutDomainFails, AddCIDR,
                AddIPPort
  <2> QED BY <2>1, <2>2
<1>2. CASE NewXDPFilter
  BY <1>2 DEF NewXDPFilter, LoadFails, LoadAndAssign, PopulateDispatch, InterfaceByName,
              AttachXDP, NewFails, Step, ruleVars
<1>3. CASE CloseLink \/ CloseFilter \/ Death
  BY <1>3 DEF CloseLink, CloseFilter, Death, Die, DieObjects, DieLink, Dead, Step, ruleVars
<1>4. CASE UNCHANGED loaderVars
  BY <1>4 DEF loaderVars, ruleVars
<1> QED
  BY <1>1, <1>2, <1>3, <1>4
     DEF Next, LoaderStep, Calls, GetStats, LookupStat, LookupStatFails, Done, Receive, RunProgram,
         vars

\* the inductive step of AddedRulesEnforced
LEMMA EnforceStep == EnforceInv /\ [Next]_vars => EnforceInv'
<1> SUFFICES ASSUME EnforceInv, [Next]_vars PROVE EnforceInv'
  OBVIOUS
<1>1. LoaderInv' /\ CountsType' /\ DispatchInv' /\ RulesInv'
  BY LoaderStepInv, CountsTypeStep, DispatchStep, RulesStep DEF EnforceInv
<1>2. DueInv' /\ AddedRulesEnforced'
  <2>1. CASE UNCHANGED <<cpu, due, wrong>>
    <3>1. Busy' = Busy
      BY <2>1 DEF Busy
    <3>2. at' = "up" /\ Busy # {} => at = "up"
      BY MapsGrow DEF EnforceInv, DispatchInv
    <3>3. ASSUME NEW r, IsRule(r), r.rule # "domain", Stored(r) PROVE Stored(r)'
      BY <3>3, MapsGrow, StoredStays
    <3>4. DueInv'
      BY <2>1, <3>1, <3>2, <3>3 DEF EnforceInv, DueInv
    <3> QED BY <2>1, <3>4 DEF EnforceInv, AddedRulesEnforced
  <2>2. ASSUME NEW c \in CPU, NEW p \in Packet, Receive(c, p)
        PROVE  DueInv' /\ AddedRulesEnforced'
    <3>1. /\ UNCHANGED <<acked, at, domains, cidrs, ipPorts, wrong>>
          /\ cpu' = [cpu EXCEPT ![c] = [prog |-> "xdp_filter", p |-> p]]
          /\ due' = [due EXCEPT ![c] = {r \in acked : Selects(r, p)}]
      BY <2>2 DEF Receive, loaderVars, ruleVars
    <3>2. cpu \in [CPU -> {NoPacket} \cup Running] /\ due = [d \in CPU |-> due[d]]
      BY DEF EnforceInv, CountsType, DueInv
    <3>3. /\ cpu'[c].prog = "xdp_filter" /\ cpu'[c].p = p
          /\ due'[c] = {r \in acked : Selects(r, p)}
      BY <3>1, <3>2
    <3>4. \A r \in due'[c] : IsRule(r) /\ Stored(r)' /\ Pending(cpu'[c].prog, r, cpu'[c].p)
      BY <3>1, <3>3 DEF EnforceInv, RulesInv, AckedInv, Stored, Known, Pending
    <3>5. \A d \in Busy' : d = c \/ (d \in Busy /\ cpu'[d] = cpu[d] /\ due'[d] = due[d])
      BY <3>1, <3>2 DEF Busy
    <3>6. \A r : Stored(r)' <=> Stored(r)
      BY <3>1 DEF Stored, Known
    <3>7. due' = [d \in CPU |-> due'[d]]
      BY <3>1, <3>2
    <3>8. DueInv'
      BY <3>1, <3>4, <3>5, <3>6, <3>7 DEF EnforceInv, DueInv
    <3> QED BY <3>1, <3>8 DEF EnforceInv, AddedRulesEnforced
  <2>3. ASSUME NEW c \in CPU, RunProgram(c) PROVE DueInv' /\ AddedRulesEnforced'
    <3>1. UNCHANGED <<acked, at, domains, cidrs, ipPorts>>
      BY <2>3 DEF RunProgram, loaderVars, ruleVars
    <3>2. AddedRulesEnforced'
      BY <2>3, LeaveWrong
    <3>3. /\ cpu \in [CPU -> {NoPacket} \cup Running] /\ cpu[c] # NoPacket
          /\ due = [d \in CPU |-> due[d]]
      BY <2>3 DEF EnforceInv, CountsType, DueInv, RunProgram, Busy
    <3>4. /\ \E x : cpu' = [cpu EXCEPT ![c] = x]
          /\ due' = due \/ due' = [due EXCEPT ![c] = {}]
      <4>1. CASE RunVerdict(c)
        BY <4>1 DEF RunVerdict, Leave
      <4>2. CASE RunTail(c)
        BY <4>2 DEF RunTail, Leave, verdictVars
      <4> QED BY <2>3, <4>1, <4>2 DEF RunProgram
    <3>5. /\ due' = [d \in CPU |-> due'[d]]
          /\ \A d \in Busy' : d = c \/ (d \in Busy /\ cpu'[d] = cpu[d] /\ due'[d] = due[d])
      BY <3>3, <3>4 DEF Busy
    <3>6. \A r : Stored(r)' <=> Stored(r)
      BY <3>1 DEF Stored, Known
    <3>7. ASSUME at = "up", c \in Busy', NEW r \in due'[c]
          PROVE  /\ IsRule(r) /\ (r.rule # "domain" => Stored(r))
                 /\ Pending(cpu'[c].prog, r, cpu'[c].p)
      <4>1. ASSUME NEW v, Leave(c, v) PROVE FALSE
        BY <3>3, <3>7, <4>1 DEF Leave, Busy
      <4>2. r \in due[c]
        BY <3>3, <3>4, <3>7
      <4>3. PICK q \in ToSet(Programs) :
               cpu' = [cpu EXCEPT ![c].prog = q] /\ Pending(q, r, cpu[c].p)
        BY <2>3, <3>7, <4>1, <4>2, DueRuns
      <4>4. cpu'[c].prog = q /\ cpu'[c].p = cpu[c].p
        BY <3>3, <4>3 DEF Running
      <4>5. IsRule(r) /\ (r.rule # "domain" => Stored(r))
        BY <2>3, <3>7, <4>2 DEF EnforceInv, DueInv, RunProgram
      <4> QED BY <4>3, <4>4, <4>5
    <3>8. DueInv'
      BY <3>1, <3>5, <3>6, <3>7 DEF EnforceInv, DueInv
    <3> QED BY <3>2, <3>8
  <2> QED
    BY <2>1, <2>2, <2>3
       DEF Next, LoaderStep, GetStats, LookupStat, LookupStatFails, Done, vars, verdictVars
<1> QED BY <1>1, <1>2 DEF EnforceInv

(***************************************************************************)
(* A rule whose Add returned is enforced on every packet that comes after: *)
(* no program passes a packet that the rule selects, unless the flag of    *)
(* the rule was lost before to a failed lookup of the same domain, and     *)
(* none drops or answers a packet that no rule in the maps covers.  For    *)
(* any CPUs, calls, rules and packets, and every interleaving of tail      *)
(* calls with Adds, Close and the process's end.                           *)
(***************************************************************************)
THEOREM RulesEnforced == Spec => []AddedRulesEnforced
<1>1. Init => EnforceInv
  <2> SUFFICES ASSUME Init PROVE EnforceInv
    OBVIOUS
  <2>1. LoaderInv /\ CountsType
    BY CountsInit DEF Init, LoaderInit, LoaderInv, NothingLeaked
  <2>2. Busy = {} /\ DispatchInv /\ DueInv
    BY DEF Init, LoaderInit, Busy, DispatchInv, DueInv
  <2>3. RulesInv /\ AddedRulesEnforced
    BY DEF Init, LoaderInit, RulesInv, CallInv, AckedInv, AddedRulesEnforced
  <2> QED BY <2>1, <2>2, <2>3 DEF EnforceInv
<1>2. EnforceInv => AddedRulesEnforced
  BY DEF EnforceInv
<1> QED BY <1>1, <1>2, EnforceStep, PTL DEF Spec
================================================================================
