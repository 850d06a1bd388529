--------------------------- MODULE PacketPathProofs ---------------------------
(***************************************************************************)
(* The safety properties of PacketPath, for every set of packets, every    *)
(* content, every queue length and any number of stats lines.              *)
(***************************************************************************)
EXTENDS PacketPath, FiniteSetTheorems, TLAPS

-----------------------------------------------------------------------------
(***************************************************************************)
(* The inductive invariant, in named parts.                                *)
(***************************************************************************)

\* what handlePacket knows of the packet it works on at each step
HandlerInv ==
  /\ h = "record" => Content[cur] \in PassReason \cup DropReason
  /\ h = "pass" => Content[cur] \in PassReason
  /\ h = "answer" => Content[cur] = "dnsPoison"

\* the fates a packet can have once the queue has taken it
Taken == {"queued", "accepted", "dropped", "lost"}

FateInv ==
  /\ \A i \in 1 .. Len(inbox) : fate[inbox[i]] \in Taken
  /\ h \in {"record", "pass", "answer", "verdict"} => fate[cur] \in Taken
  /\ \A p \in answered : fate[p] \in Taken /\ Content[p] = "dnsPoison"
  /\ \A p \in Packet : fate[p] = "accepted" => Content[p] \notin DropReason
  /\ \A p \in Packet : fate[p] = "bypassed" => FailOpen

\* the place of each field in LoadOrder
Place ==
  [total |-> 1, passed |-> 2, httpBlocked |-> 3, tlsBlocked |-> 4, dnsPoisoned |-> 5,
   dnsBlocked |-> 6, ipBlocked |-> 7, ipPortBlocked |-> 8, malformed |-> 9]

\* the line Stats would return if the rest of it were loaded at once
Mixed == [c \in StatName |-> IF Place[c] <= snapAt THEN snap[c] ELSE stats[c]]

\* Stats has counted at most one packet whose outcome it can still miss, and
\* every counter grows from the last line to this one and on to its value now
ReaderInv ==
  /\ snapAt >= 1 => snap["total"] <= Outcomes(Mixed) + 1
  /\ \A c \in StatName : /\ printed[c] <= Mixed[c]
                         /\ Mixed[c] <= stats[c]

-----------------------------------------------------------------------------
LEMMA PlaceFacts ==
  /\ Len(LoadOrder) = 9
  /\ \A i \in 1 .. 9 : LoadOrder[i] \in StatName /\ Place[LoadOrder[i]] = i
  /\ \A c \in StatName : Place[c] \in 1 .. 9
BY DEF LoadOrder, Place, StatName

LEMMA PlaceInjective == \A c, d \in StatName : Place[c] = Place[d] => c = d
BY DEF Place, StatName

LEMMA CounterFacts ==
  \A r \in (PassReason \cup DropReason) \ {"none"} : CounterOf[r] \in StatName
BY DEF PassReason, DropReason, CounterOf, StatName

LEMMA BumpType ==
  ASSUME NEW s \in [StatName -> Nat], NEW c \in StatName
  PROVE  /\ Bump(s, c) \in [StatName -> Nat]
         /\ Bump(s, c)[c] = s[c] + 1
         /\ \A d \in StatName : d # c => Bump(s, c)[d] = s[d]
         /\ \A d \in StatName : s[d] <= Bump(s, c)[d]
BY DEF Bump

LEMMA BumpOutcomes ==
  ASSUME NEW s \in [StatName -> Nat], NEW c \in StatName
  PROVE  /\ Outcomes(s) \in Nat
         /\ Bump(s, c)["total"] = IF c = "total" THEN s["total"] + 1 ELSE s["total"]
         /\ Outcomes(Bump(s, c)) = IF c \in {"total", "malformed"} THEN Outcomes(s)
                                  ELSE Outcomes(s) + 1
<1>1. \A d \in StatName : s[d] \in Nat /\ Bump(s, c)[d] = IF d = c THEN s[d] + 1 ELSE s[d]
  BY DEF Bump
<1>2. \A d \in StatName \ {c} : Bump(s, c)[d] = s[d]
  BY <1>1
<1>3. CASE c = "total"     BY <1>1, <1>3 DEF StatName, Outcomes
<1>4. CASE c = "malformed" BY <1>1, <1>4 DEF StatName, Outcomes
<1>5. CASE c \in {"passed", "httpBlocked", "tlsBlocked"}
  BY <1>1, <1>5 DEF StatName, Outcomes
<1>6. CASE c \in {"dnsPoisoned", "dnsBlocked", "ipBlocked", "ipPortBlocked"}
  BY <1>1, <1>6 DEF StatName, Outcomes
<1> QED BY <1>3, <1>4, <1>5, <1>6 DEF StatName

LEMMA OutcomesMonotone ==
  ASSUME NEW s \in [StatName -> Nat], NEW t \in [StatName -> Nat],
         \A c \in StatName : s[c] <= t[c]
  PROVE  Outcomes(s) \in Nat /\ Outcomes(t) \in Nat /\ Outcomes(s) <= Outcomes(t)
BY DEF Outcomes, StatName

LEMMA ZeroType == Zero \in [StatName -> Nat] /\ \A c \in StatName : Zero[c] = 0
BY DEF Zero

LEMMA InitTypeOK == Init => TypeOK
<1> SUFFICES ASSUME Init PROVE TypeOK
  OBVIOUS
<1>1. fate \in [Packet -> Fate] /\ inbox \in Seq(Packet)
  BY DEF Init, Fate
<1>2. /\ stats \in [StatName -> Nat] /\ snap \in [StatName -> Nat]
      /\ printed \in [StatName -> Nat] /\ snapAt \in 0 .. 9 /\ ticks \in Nat
  BY ZeroType DEF Init
<1> QED BY <1>1, <1>2 DEF Init, TypeOK

-----------------------------------------------------------------------------
(***************************************************************************)
(* TypeOK is preserved together with HandlerInv, which says which counter  *)
(* recordDecision may reach.                                               *)
(***************************************************************************)
LEMMA TypeStep ==
  ASSUME TypeOK, HandlerInv, [Next]_vars
  PROVE  TypeOK'
<1>1. CASE HandleNoID \/ HandleNoPayload \/ HandlePayload
  <2>1. \A c \in {"malformed", "total"} : Bump(stats, c) \in [StatName -> Nat]
    BY BumpType DEF TypeOK, StatName
  <2>2. Head(inbox) \in Packet /\ Tail(inbox) \in Seq(Packet)
    BY <1>1 DEF HandleNoID, HandleNoPayload, HandlePayload, TakeMessage, TypeOK
  <2> QED BY <1>1, <2>1, <2>2 DEF HandleNoID, HandleNoPayload, HandlePayload,
       TakeMessage, HandlerStep, TypeOK, readerVars
<1>2. CASE RecordReason
  <2>1. stats' \in [StatName -> Nat]
    BY <1>2, BumpType, CounterFacts DEF RecordReason, HandlerStep, HandlerInv, TypeOK
  <2> QED BY <1>2, <2>1 DEF RecordReason, HandlerStep, AfterRecord, TypeOK,
       kernelVars, readerVars
<1>3. CASE RecordPassed
  <2>1. stats' \in [StatName -> Nat]
    BY <1>3, BumpType DEF RecordPassed, TypeOK, StatName
  <2> QED BY <1>3, <2>1 DEF RecordPassed, HandlerStep, TypeOK, kernelVars, readerVars
<1>4. CASE SendDNSResponse
  BY <1>4 DEF SendDNSResponse, HandlerStep, TypeOK, kernelVars, readerVars
<1>5. CASE SetVerdict
  BY <1>5 DEF SetVerdict, HandlerStep, Judge, Verdict, Fate, TypeOK, readerVars
<1>6. CASE SetVerdictFails
  BY <1>6 DEF SetVerdictFails, HandlerStep, TypeOK, kernelVars, readerVars
<1>7. CASE LoadField
  <2>1. snapAt \in 0 .. 8 /\ snapAt' = snapAt + 1
    BY <1>7, PlaceFacts DEF LoadField, TypeOK
  <2>3. LoadOrder[snapAt + 1] \in StatName
    BY <2>1, PlaceFacts
  <2>2. snap' \in [StatName -> Nat]
    BY <1>7, <2>3 DEF LoadField, TypeOK
  <2> QED BY <1>7, <2>1, <2>2 DEF LoadField, TypeOK, kernelVars
<1>8. CASE PrintStats
  <2>1. snapAt' \in 0 .. 9 /\ ticks' \in Nat /\ printed' \in [StatName -> Nat]
    BY <1>8 DEF PrintStats, TypeOK
  <2> QED BY <1>8, <2>1 DEF PrintStats, TypeOK, kernelVars
<1>9. ASSUME NEW p \in Packet, ArriveUnqueued(p) \/ ArriveQueued(p)
      PROVE  TypeOK'
  <2>1. fate' \in [Packet -> Fate]
    BY <1>9 DEF ArriveUnqueued, ArriveQueued, Judge, Refused, Fate, TypeOK
  <2>2. inbox' = inbox \/ inbox' = Append(inbox, p)
    BY <1>9 DEF ArriveUnqueued, ArriveQueued
  <2>3. inbox' \in Seq(Packet)
    <3>1. inbox \in Seq(Packet) /\ p \in Packet
      BY <1>9 DEF TypeOK
    <3> QED BY <2>2, <3>1
  <2> QED BY <1>9, <2>1, <2>3 DEF ArriveUnqueued, ArriveQueued, TypeOK, readerVars
<1>10. CASE InstallRules \/ RemoveRules \/ Register
  BY <1>10 DEF InstallRules, RemoveRules, Register, HandlerStep, TypeOK, readerVars
<1>11. CASE CloseQueue
  <2>1. Flushed \in [Packet -> Fate]
    BY DEF Flushed, TypeOK, Fate
  <2>2. inbox' \in Seq(Packet)
    BY <1>11 DEF CloseQueue, TypeOK
  <2> QED BY <1>11, <2>1, <2>2 DEF CloseQueue, TypeOK, readerVars
<1>12. CASE ProcessEnds
  <2>1. Flushed \in [Packet -> Fate]
    BY DEF Flushed, TypeOK, Fate
  <2> QED BY <1>12, <2>1, ZeroType DEF ProcessEnds, TypeOK
<1>13. CASE UNCHANGED vars
  BY <1>13 DEF vars, kernelVars, readerVars, TypeOK
<1> QED BY <1>1, <1>2, <1>3, <1>4, <1>5, <1>6, <1>7, <1>8, <1>9, <1>10, <1>11,
     <1>12, <1>13 DEF Next, Handler, Environment

LEMMA HandlerInvStep ==
  ASSUME TypeOK, HandlerInv, [Next]_vars
  PROVE  HandlerInv'
<1>1. CASE HandleNoID \/ HandleNoPayload \/ HandlePayload
  BY <1>1 DEF HandleNoID, HandleNoPayload, HandlePayload, TakeMessage, HandlerStep, HandlerInv
<1>2. CASE RecordReason \/ RecordPassed \/ SendDNSResponse \/ SetVerdict \/ SetVerdictFails
  BY <1>2 DEF RecordReason, RecordPassed, SendDNSResponse, SetVerdict, SetVerdictFails,
     HandlerStep, AfterRecord, HandlerInv
<1>3. CASE LoadField \/ PrintStats \/ InstallRules \/ RemoveRules \/ CloseQueue
  BY <1>3 DEF LoadField, PrintStats, InstallRules, RemoveRules, CloseQueue, HandlerInv
<1>4. CASE \E p \in Packet : ArriveUnqueued(p) \/ ArriveQueued(p)
  BY <1>4 DEF ArriveUnqueued, ArriveQueued, HandlerInv
<1>5. CASE Register \/ ProcessEnds
  BY <1>5 DEF Register, ProcessEnds, HandlerStep, HandlerInv
<1>6. CASE UNCHANGED vars
  BY <1>6 DEF vars, HandlerInv
<1> QED BY <1>1, <1>2, <1>3, <1>4, <1>5, <1>6 DEF Next, Handler, Environment

(***************************************************************************)
(* Every counter, program counter, fate and snapshot keeps its type: no    *)
(* order of verdicts, shutdowns and restarts brings a counter below zero   *)
(* or loses a message.                                                     *)
(***************************************************************************)
THEOREM TypeCorrect == Spec => []TypeOK
<1>1. Init => TypeOK /\ HandlerInv
  BY InitTypeOK DEF Init, HandlerInv
<1>2. TypeOK /\ HandlerInv /\ [Next]_vars => TypeOK' /\ HandlerInv'
  BY TypeStep, HandlerInvStep
<1> QED BY <1>1, <1>2, PTL DEF Spec

-----------------------------------------------------------------------------
(***************************************************************************)
(* What each step does to the counters.                                    *)
(***************************************************************************)
LEMMA AccountingStep ==
  ASSUME TypeOK, HandlerInv, Accounting, [Next]_vars
  PROVE  Accounting'
<1>1. CASE HandleNoID \/ HandleNoPayload
  <2>1. stats' = Bump(stats, "malformed")
    BY <1>1 DEF HandleNoID, HandleNoPayload
  <2>2. InFlight' = InFlight
    BY <1>1 DEF HandleNoID, HandleNoPayload, HandlerStep, InFlight
  <2> QED BY <2>1, <2>2, BumpOutcomes DEF Accounting, TypeOK, StatName
<1>2. CASE HandlePayload
  <2>1. InFlight = 0 /\ InFlight' = 1
    BY <1>2 DEF HandlePayload, HandlerStep, InFlight
  <2>2. /\ stats["total"] \in Nat /\ Outcomes(stats) \in Nat
        /\ stats'["total"] = stats["total"] + 1 /\ Outcomes(stats)' = Outcomes(stats)
    BY <1>2, BumpOutcomes DEF HandlePayload, TypeOK, StatName
  <2> QED BY <2>1, <2>2 DEF Accounting
<1>3. CASE RecordReason
  <2>1. CASE Content[cur] \in PassReason
    <3>1. stats' = stats \/ stats' = Bump(stats, "malformed")
      BY <1>3, <2>1 DEF RecordReason, CounterOf, PassReason
    <3>2. InFlight = 1 /\ InFlight' = 1
      BY <1>3, <2>1 DEF RecordReason, HandlerStep, AfterRecord, InFlight
    <3> QED BY <3>1, <3>2, BumpOutcomes DEF Accounting, TypeOK, StatName
  <2>2. CASE Content[cur] \in DropReason
    <3>1. \E c \in StatName \ {"total", "malformed"} : stats' = Bump(stats, c)
      BY <1>3, <2>2 DEF RecordReason, CounterOf, DropReason, StatName
    <3>2. InFlight = 1 /\ InFlight' = 0
      BY <1>3, <2>2 DEF RecordReason, HandlerStep, AfterRecord, InFlight,
         PassReason, DropReason
    <3>3. /\ stats["total"] \in Nat /\ Outcomes(stats) \in Nat
          /\ stats'["total"] = stats["total"] /\ Outcomes(stats)' = Outcomes(stats) + 1
      <4>1. PICK c \in StatName \ {"total", "malformed"} : stats' = Bump(stats, c)
        BY <3>1
      <4>2. stats \in [StatName -> Nat] /\ "total" \in StatName
        BY DEF TypeOK, StatName
      <4> QED BY <4>1, <4>2, BumpOutcomes
    <3> QED BY <3>2, <3>3 DEF Accounting
  <2> QED BY <1>3, <2>1, <2>2 DEF RecordReason, HandlerStep, HandlerInv
<1>4. CASE RecordPassed
  <2>1. InFlight = 1 /\ InFlight' = 0
    BY <1>4 DEF RecordPassed, HandlerStep, InFlight
  <2>2. /\ stats["total"] \in Nat /\ Outcomes(stats) \in Nat
        /\ stats'["total"] = stats["total"] /\ Outcomes(stats)' = Outcomes(stats) + 1
    BY <1>4, BumpOutcomes DEF RecordPassed, TypeOK, StatName
  <2> QED BY <2>1, <2>2 DEF Accounting
<1>5. CASE SendDNSResponse \/ SetVerdict \/ SetVerdictFails \/ Register
  <2>1. stats' = stats /\ InFlight' = InFlight
    BY <1>5 DEF SendDNSResponse, SetVerdict, SetVerdictFails, Register, HandlerStep, InFlight
  <2> QED BY <2>1 DEF Accounting
<1>6. CASE LoadField \/ PrintStats \/ InstallRules \/ RemoveRules \/ CloseQueue
  BY <1>6 DEF LoadField, PrintStats, InstallRules, RemoveRules, CloseQueue,
     Accounting, InFlight
<1>7. CASE \E p \in Packet : ArriveUnqueued(p) \/ ArriveQueued(p)
  BY <1>7 DEF ArriveUnqueued, ArriveQueued, Accounting, InFlight
<1>8. CASE ProcessEnds
  BY <1>8 DEF ProcessEnds, Zero, Accounting, InFlight, Outcomes, StatName
<1>9. CASE UNCHANGED vars
  BY <1>9 DEF vars, Accounting, InFlight
<1> QED BY <1>1, <1>2, <1>3, <1>4, <1>5, <1>6, <1>7, <1>8, <1>9
     DEF Next, Handler, Environment

\* the steps of the callback goroutine and of an environment that goes on
Ongoing ==
  \/ Handler
  \/ \E p \in Packet : ArriveUnqueued(p) \/ ArriveQueued(p)
  \/ InstallRules \/ RemoveRules \/ Register \/ CloseQueue

\* they leave the reader alone, and counters only grow
LEMMA OngoingStep ==
  ASSUME TypeOK, HandlerInv, [Ongoing]_vars
  PROVE  UNCHANGED readerVars /\ \A c \in StatName : stats[c] <= stats'[c]
<1> USE DEF readerVars
<1>0. \A c \in StatName : stats[c] <= stats[c]
  BY DEF TypeOK
<1>1. CASE HandleNoID \/ HandleNoPayload \/ HandlePayload
  <2>1. \E c \in StatName : stats' = Bump(stats, c)
    BY <1>1 DEF HandleNoID, HandleNoPayload, HandlePayload, StatName
  <2> QED BY <1>1, <2>1, BumpType DEF HandleNoID, HandleNoPayload, HandlePayload, TypeOK
<1>2. CASE RecordReason
  <2>1. stats' = stats \/ \E c \in StatName : stats' = Bump(stats, c)
    BY <1>2, CounterFacts DEF RecordReason, HandlerStep, HandlerInv
  <2> QED BY <1>0, <1>2, <2>1, BumpType DEF RecordReason, TypeOK
<1>3. CASE RecordPassed
  <2>1. \E c \in StatName : stats' = Bump(stats, c)
    BY <1>3 DEF RecordPassed, StatName
  <2> QED BY <1>3, <2>1, BumpType DEF RecordPassed, TypeOK
<1>4. CASE SendDNSResponse \/ SetVerdict \/ SetVerdictFails
  BY <1>0, <1>4 DEF SendDNSResponse, SetVerdict, SetVerdictFails
<1>5. CASE \E p \in Packet : ArriveUnqueued(p) \/ ArriveQueued(p)
  BY <1>0, <1>5 DEF ArriveUnqueued, ArriveQueued
<1>6. CASE InstallRules \/ RemoveRules \/ Register \/ CloseQueue
  BY <1>0, <1>6 DEF InstallRules, RemoveRules, Register, CloseQueue
<1>7. CASE UNCHANGED vars
  BY <1>0, <1>7 DEF vars
<1> QED BY <1>1, <1>2, <1>3, <1>4, <1>5, <1>6, <1>7 DEF Ongoing, Handler

LEMMA NextSplit ==
  [Next]_vars <=> [Ongoing]_vars \/ LoadField \/ PrintStats \/ ProcessEnds
BY DEF Next, Ongoing, Environment

\* no step moves the counters while Stats loads one of them or printStats prints
LEMMA StatsStep ==
  ASSUME TypeOK, HandlerInv, [Next]_vars
  PROVE  \/ ProcessEnds
         \/ (LoadField \/ PrintStats) /\ stats' = stats
         \/ /\ UNCHANGED readerVars
            /\ \A c \in StatName : stats[c] <= stats'[c]
BY OngoingStep, NextSplit DEF LoadField, PrintStats

\* a field is loaded with the value that it has in Mixed already
LEMMA LoadKeepsMixed ==
  ASSUME TypeOK, TypeOK', LoadField
  PROVE  Mixed' = Mixed
<1> DEFINE c0 == LoadOrder[snapAt + 1]
<1>1. /\ Mixed \in [StatName -> Nat] /\ Mixed' \in [StatName -> Nat]
      /\ \A c \in StatName : Mixed[c] = IF Place[c] <= snapAt THEN snap[c] ELSE stats[c]
      /\ \A c \in StatName : Mixed'[c] = IF Place[c] <= snapAt' THEN snap'[c] ELSE stats'[c]
  BY DEF Mixed, TypeOK
<1>2. \A c \in StatName : Place[c] \in 1 .. 9
  BY PlaceFacts
<1>3. /\ snapAt \in 0 .. 8 /\ snapAt' = snapAt + 1 /\ stats' = stats
      /\ snap' = [snap EXCEPT ![c0] = stats[c0]]
  BY PlaceFacts DEF LoadField, TypeOK
<1>4. c0 \in StatName /\ Place[c0] = snapAt + 1
  BY <1>3, PlaceFacts
<1>5. /\ snap'[c0] = stats[c0]
      /\ \A c \in StatName \ {c0} : snap'[c] = snap[c]
  BY <1>3, <1>4 DEF TypeOK
<1>6. ASSUME NEW c \in StatName PROVE Mixed'[c] = Mixed[c]
  <2>1. CASE c = c0
    BY <1>1, <1>3, <1>4, <1>5, <2>1
  <2>2. CASE c # c0
    <3>1. Place[c] # snapAt + 1
      BY <1>4, <2>2, PlaceInjective
    <3> QED BY <1>1, <1>2, <1>3, <1>5, <2>2, <3>1
  <2> QED BY <2>1, <2>2
<1> QED BY <1>1, <1>6

\* where the reader stands still, Mixed grows with the counters
LEMMA MixedGrows ==
  ASSUME TypeOK, TypeOK', ReaderInv, UNCHANGED readerVars,
         \A c \in StatName : stats[c] <= stats'[c]
  PROVE  /\ \A c \in StatName : Mixed[c] <= Mixed'[c] /\ Mixed'[c] <= stats'[c]
         /\ Outcomes(Mixed) \in Nat /\ Outcomes(Mixed') \in Nat
         /\ Outcomes(Mixed) <= Outcomes(Mixed')
<1>1. /\ Mixed \in [StatName -> Nat] /\ Mixed' \in [StatName -> Nat]
      /\ \A c \in StatName : Mixed[c] = IF Place[c] <= snapAt THEN snap[c] ELSE stats[c]
      /\ \A c \in StatName : Mixed'[c] = IF Place[c] <= snapAt' THEN snap'[c] ELSE stats'[c]
  BY DEF Mixed, TypeOK
<1>2. snap' = snap /\ snapAt' = snapAt
  BY DEF readerVars
<1>3. ASSUME NEW c \in StatName
      PROVE  Mixed[c] <= Mixed'[c] /\ Mixed'[c] <= stats'[c]
  <2>1. Mixed[c] \in Nat /\ Mixed'[c] \in Nat /\ stats[c] \in Nat /\ stats'[c] \in Nat
    BY <1>1 DEF TypeOK
  <2>2. Mixed[c] <= stats[c] /\ stats[c] <= stats'[c]
    BY DEF ReaderInv
  <2>3. Mixed'[c] = Mixed[c] \/ (Mixed[c] = stats[c] /\ Mixed'[c] = stats'[c])
    BY <1>1, <1>2
  <2> QED BY <2>1, <2>2, <2>3
<1> QED BY <1>1, <1>3, OutcomesMonotone

LEMMA ReaderInvStep ==
  ASSUME TypeOK, TypeOK', HandlerInv, Accounting, ReaderInv, [Next]_vars
  PROVE  ReaderInv'
<1>1. /\ Mixed \in [StatName -> Nat] /\ Mixed' \in [StatName -> Nat]
      /\ \A c \in StatName : Mixed[c] = IF Place[c] <= snapAt THEN snap[c] ELSE stats[c]
      /\ \A c \in StatName : Mixed'[c] = IF Place[c] <= snapAt' THEN snap'[c] ELSE stats'[c]
  BY DEF Mixed, TypeOK
<1>2. \A c \in StatName : /\ printed[c] \in Nat /\ stats[c] \in Nat /\ stats'[c] \in Nat
                         /\ Place[c] \in 1 .. 9
  BY PlaceFacts DEF TypeOK
<1>3. CASE ProcessEnds
  <2>1. /\ snapAt' = 0
        /\ \A c \in StatName : printed'[c] = 0 /\ stats'[c] = 0
    BY <1>3, ZeroType DEF ProcessEnds
  <2>2. \A c \in StatName : Mixed'[c] = 0
    BY <1>1, <1>2, <2>1
  <2> QED BY <2>1, <2>2 DEF ReaderInv
<1>4. CASE LoadField /\ stats' = stats
  <2> DEFINE c0 == LoadOrder[snapAt + 1]
  <2>1. /\ snapAt \in 0 .. 8 /\ snapAt' = snapAt + 1 /\ printed' = printed
        /\ snap' = [snap EXCEPT ![c0] = stats[c0]]
    BY <1>4, PlaceFacts DEF LoadField, TypeOK
  <2>2. c0 \in StatName /\ Place[c0] = snapAt + 1
    BY <2>1, PlaceFacts
  <2>3. /\ snap'[c0] = stats[c0]
        /\ \A c \in StatName \ {c0} : snap'[c] = snap[c]
    BY <2>1, <2>2 DEF TypeOK
  <2>5. Mixed' = Mixed
    BY <1>4, LoadKeepsMixed
  <2>6. snap'["total"] <= Outcomes(Mixed) + 1
    <3>1. CASE snapAt = 0
      <4>1. c0 = "total"
        BY <3>1 DEF LoadOrder
      <4>2. Mixed = stats
        <5>1. \A c \in StatName : Mixed[c] = stats[c]
          BY <1>1, <1>2, <3>1
        <5> QED BY <1>1, <5>1 DEF TypeOK
      <4>3. stats["total"] <= Outcomes(stats) + 1
        <5>1. Outcomes(stats) \in Nat
          BY <1>2 DEF Outcomes, StatName
        <5> QED BY <5>1 DEF Accounting, InFlight
      <4> QED BY <2>3, <4>1, <4>2, <4>3
    <3>2. CASE snapAt # 0
      <4>1. c0 # "total"
        BY <2>1, <2>2, <3>2 DEF Place
      <4>2. snap'["total"] = snap["total"]
        BY <2>3, <4>1 DEF StatName
      <4> QED BY <2>1, <3>2, <4>2 DEF ReaderInv
    <3> QED BY <3>1, <3>2
  <2> QED BY <1>4, <2>1, <2>5, <2>6 DEF ReaderInv, Outcomes
<1>5. CASE PrintStats /\ stats' = stats
  <2>1. snapAt = 9 /\ snapAt' = 0 /\ printed' = snap
    BY <1>5, PlaceFacts DEF PrintStats
  <2>2. \A c \in StatName : Mixed[c] = snap[c] /\ Mixed'[c] = stats'[c]
    BY <1>1, <1>2, <2>1
  <2> QED BY <1>2, <1>5, <2>1, <2>2 DEF ReaderInv
<1>6. CASE /\ UNCHANGED readerVars
           /\ \A c \in StatName : stats[c] <= stats'[c]
  <2>1. snap' = snap /\ snapAt' = snapAt /\ printed' = printed
    BY <1>6 DEF readerVars
  <2>2. /\ \A c \in StatName : Mixed[c] <= Mixed'[c] /\ Mixed'[c] <= stats'[c]
        /\ Outcomes(Mixed) \in Nat /\ Outcomes(Mixed') \in Nat
        /\ Outcomes(Mixed) <= Outcomes(Mixed')
    BY <1>6, MixedGrows
  <2>4. \A c \in StatName : printed'[c] <= Mixed'[c]
    BY <1>1, <1>2, <2>1, <2>2 DEF ReaderInv
  <2>5. snapAt' >= 1 => snap'["total"] <= Outcomes(Mixed') + 1
    <3>1. snap["total"] \in Nat
      BY DEF TypeOK, StatName
    <3> QED BY <2>1, <2>2, <3>1 DEF ReaderInv
  <2> QED BY <2>2, <2>4, <2>5 DEF ReaderInv, Outcomes
<1> QED BY <1>3, <1>4, <1>5, <1>6, StatsStep

-----------------------------------------------------------------------------
(***************************************************************************)
(* What each step does to the packets.                                     *)
(***************************************************************************)
LEMMA FateInvStep ==
  ASSUME TypeOK, HandlerInv, FateInv, [Next]_vars
  PROVE  FateInv'
<1> USE DEF Taken
<1>1. CASE HandleNoID \/ HandleNoPayload \/ HandlePayload
  <2>1. /\ fate' = fate /\ answered' = answered
        /\ inbox # << >> /\ cur' = Head(inbox) /\ inbox' = Tail(inbox)
    BY <1>1 DEF HandleNoID, HandleNoPayload, HandlePayload, TakeMessage
  <2>2. fate[Head(inbox)] \in Taken
    BY <2>1 DEF FateInv, TypeOK
  <2>3. \A i \in 1 .. Len(Tail(inbox)) : fate[Tail(inbox)[i]] \in Taken
    <3>1. inbox \in Seq(Packet)
      BY DEF TypeOK
    <3>2. \A i \in 1 .. Len(Tail(inbox)) : /\ i + 1 \in 1 .. Len(inbox)
                                          /\ Tail(inbox)[i] = inbox[i + 1]
      BY <2>1, <3>1
    <3> QED BY <3>2 DEF FateInv
  <2> QED BY <2>1, <2>2, <2>3 DEF FateInv
<1>2. CASE RecordReason \/ RecordPassed \/ SetVerdictFails
  BY <1>2 DEF RecordReason, RecordPassed, SetVerdictFails, HandlerStep, AfterRecord,
     kernelVars, FateInv
<1>3. CASE SendDNSResponse
  BY <1>3 DEF SendDNSResponse, HandlerStep, HandlerInv, kernelVars, FateInv
<1>4. CASE SetVerdict
  <2>1. /\ fate' = [fate EXCEPT ![cur] = Verdict(Content[cur])]
        /\ h' = "idle" /\ UNCHANGED <<inbox, cur, answered>>
    BY <1>4 DEF SetVerdict, HandlerStep, Judge
  <2>2. /\ Verdict(Content[cur]) \in {"accepted", "dropped"}
        /\ Verdict(Content[cur]) = "accepted" => Content[cur] \notin DropReason
    BY DEF Verdict
  <2>3. \A p \in Packet : p # cur => fate'[p] = fate[p]
    BY <2>1 DEF TypeOK
  <2>6. fate'[cur] = Verdict(Content[cur])
    BY <2>1 DEF TypeOK
  <2>4. ASSUME NEW p \in Packet, fate[p] \in Taken PROVE fate'[p] \in Taken
    <3>1. CASE p = cur
      BY <2>2, <2>6, <3>1
    <3>2. CASE p # cur
      BY <2>3, <2>4, <3>2
    <3> QED BY <3>1, <3>2
  <2>5. answered \subseteq Packet /\ \A i \in 1 .. Len(inbox) : inbox[i] \in Packet
    <3>1. inbox \in Seq(Packet) /\ answered \subseteq Packet
      BY DEF TypeOK
    <3> QED BY <3>1
  <2> QED BY <2>1, <2>2, <2>3, <2>4, <2>5, <2>6 DEF FateInv
<1>5. CASE LoadField \/ PrintStats \/ InstallRules \/ RemoveRules
  BY <1>5 DEF LoadField, PrintStats, InstallRules, RemoveRules, kernelVars, FateInv
<1>6. ASSUME NEW p \in Packet, ArriveUnqueued(p) \/ ArriveQueued(p)
      PROVE  FateInv'
  <2>1. /\ UNCHANGED <<h, cur, answered>>
        /\ fate[p] = "new"
        /\ \E f \in Fate : /\ fate' = [fate EXCEPT ![p] = f]
                           /\ f = "bypassed" => FailOpen
                           /\ f # "accepted"
                           /\ inbox' = inbox \/ (inbox' = Append(inbox, p) /\ f = "queued")
    BY <1>6 DEF ArriveUnqueued, ArriveQueued, Judge, Refused, Fate
  <2>2. PICK f \in Fate : /\ fate' = [fate EXCEPT ![p] = f]
                          /\ f = "bypassed" => FailOpen
                          /\ f # "accepted"
                          /\ inbox' = inbox \/ (inbox' = Append(inbox, p) /\ f = "queued")
    BY <2>1
  <2>3. \A q \in Packet : /\ q # p => fate'[q] = fate[q]
                         /\ q = p => fate'[q] = f
    BY <2>2 DEF TypeOK
  <2>4. \A q \in Packet : fate[q] \in Taken => fate'[q] \in Taken
    BY <2>1, <2>3
  <2>5. inbox \in Seq(Packet) /\ cur \in Packet /\ answered \subseteq Packet
    BY DEF TypeOK
  <2>6. \A i \in 1 .. Len(inbox') : fate'[inbox'[i]] \in Taken
    <3>1. CASE inbox' = inbox
      BY <2>4, <2>5, <3>1 DEF FateInv
    <3>2. CASE inbox' = Append(inbox, p) /\ f = "queued"
      <4>1. \A i \in 1 .. Len(inbox') : \/ i \in 1 .. Len(inbox) /\ inbox'[i] = inbox[i]
                                       \/ inbox'[i] = p
        BY <1>6, <2>5, <3>2
      <4> QED BY <1>6, <2>3, <2>4, <2>5, <3>2, <4>1 DEF FateInv
    <3> QED BY <2>2, <3>1, <3>2
  <2> QED BY <2>1, <2>2, <2>3, <2>4, <2>5, <2>6 DEF FateInv
<1>7. CASE Register
  BY <1>7 DEF Register, HandlerStep, FateInv
<1>8. CASE CloseQueue \/ ProcessEnds
  <2>1. /\ fate' = Flushed /\ cur' = cur /\ answered' = answered
        /\ h' = h \/ h' = "off"
    BY <1>8 DEF CloseQueue, ProcessEnds
  <2>2. \A p \in Packet : fate'[p] = fate[p] \/ fate'[p] = "lost"
    BY <2>1 DEF Flushed
  <2>3. \A p \in Packet : fate[p] \in Taken => fate'[p] \in Taken
    BY <2>2
  <2>4. inbox \in Seq(Packet) /\ cur \in Packet /\ answered \subseteq Packet
    BY DEF TypeOK
  <2>5. \A i \in 1 .. Len(inbox') : i \in 1 .. Len(inbox) /\ inbox'[i] = inbox[i]
    <3>1. CASE inbox' = << >>
      BY <3>1
    <3>2. CASE \E n \in 0 .. Len(inbox) : inbox' = SubSeq(inbox, 1, n)
      BY <2>4, <3>2
    <3> QED BY <1>8, <3>1, <3>2 DEF CloseQueue, ProcessEnds
  <2> QED BY <2>1, <2>2, <2>3, <2>4, <2>5 DEF FateInv
<1>9. CASE UNCHANGED vars
  BY <1>9 DEF vars, kernelVars, FateInv
<1> QED BY <1>1, <1>2, <1>3, <1>4, <1>5, <1>6, <1>7, <1>8, <1>9
     DEF Next, Handler, Environment

-----------------------------------------------------------------------------
(***************************************************************************)
(* The inductive invariant and the properties that follow from it.         *)
(***************************************************************************)
PacketPathInv == TypeOK /\ HandlerInv /\ Accounting /\ ReaderInv /\ FateInv

LEMMA InitInv == Init => PacketPathInv
<1> SUFFICES ASSUME Init PROVE PacketPathInv
  OBVIOUS
<1>1. TypeOK
  BY InitTypeOK
<1>2. HandlerInv
  BY DEF Init, HandlerInv
<1>3. Accounting
  BY DEF Init, Accounting, InFlight, Outcomes, Zero, StatName
<1>4. ReaderInv
  <2>1. /\ snapAt = 0
        /\ \A c \in StatName : printed[c] = 0 /\ stats[c] = 0 /\ Place[c] \in 1 .. 9
    BY ZeroType, PlaceFacts DEF Init
  <2>2. \A c \in StatName : Mixed[c] = 0
    BY <2>1 DEF Mixed
  <2> QED BY <2>1, <2>2 DEF ReaderInv
<1>5. FateInv
  BY DEF Init, FateInv
<1> QED BY <1>1, <1>2, <1>3, <1>4, <1>5 DEF PacketPathInv

LEMMA InvStep == PacketPathInv /\ [Next]_vars => PacketPathInv'
BY TypeStep, HandlerInvStep, AccountingStep, ReaderInvStep, FateInvStep DEF PacketPathInv

LEMMA Invariance == Spec => []PacketPathInv
BY InitInv, InvStep, PTL DEF Spec

(***************************************************************************)
(* recordDecision adds every packet counted in total to exactly one        *)
(* outcome, with at most the packet in flight missing.                     *)
(***************************************************************************)
THEOREM CountersAccount == Spec => []Accounting
<1>1. PacketPathInv => Accounting
  BY DEF PacketPathInv
<1> QED BY <1>1, Invariance, PTL

(***************************************************************************)
(* A stats line, read counter by counter while packets are handled, misses *)
(* at most one outcome of the packets it reports, however many are handled *)
(* during the reading.                                                     *)
(***************************************************************************)
THEOREM SnapshotsNearlyConsistent == Spec => []SnapshotSkew
<1>1. PacketPathInv => SnapshotSkew
  <2> SUFFICES ASSUME PacketPathInv, snapAt = 9 PROVE snap["total"] <= Outcomes(snap) + 1
    BY DEF SnapshotSkew
  <2>1. \A c \in StatName : Mixed[c] = snap[c]
    BY PlaceFacts DEF Mixed
  <2> QED BY <2>1 DEF PacketPathInv, ReaderInv, Outcomes, StatName
<1> QED BY <1>1, Invariance, PTL

(***************************************************************************)
(* No counter decreases from one stats line of a process to the next.      *)
(***************************************************************************)
THEOREM LinesGrow == Spec => []LinesMonotone
<1>1. PacketPathInv => LinesMonotone
  <2> SUFFICES ASSUME PacketPathInv, snapAt = 9, NEW c \in StatName PROVE printed[c] <= snap[c]
    BY DEF LinesMonotone
  <2>1. Mixed[c] = snap[c]
    BY PlaceFacts DEF Mixed
  <2> QED BY <2>1 DEF PacketPathInv, ReaderInv
<1> QED BY <1>1, Invariance, PTL

(***************************************************************************)
(* No verdict of handlePacket forwards a packet that Classify drops.       *)
(***************************************************************************)
THEOREM NoBlockedPacketForwarded == Spec => []BlockedNotForwarded
<1>1. PacketPathInv => BlockedNotForwarded
  BY DEF PacketPathInv, FateInv, BlockedNotForwarded, Forwarded
<1> QED BY <1>1, Invariance, PTL

(***************************************************************************)
(* A query answered with NXDOMAIN never also reaches the resolver.         *)
(***************************************************************************)
THEOREM NoAnsweredQueryForwarded == Spec => []AnsweredNotForwarded
<1>1. PacketPathInv => AnsweredNotForwarded
  BY DEF PacketPathInv, FateInv, TypeOK, AnsweredNotForwarded, Taken, Forwarded, DropReason
<1> QED BY <1>1, Invariance, PTL

-----------------------------------------------------------------------------
(***************************************************************************)
(* Verdicts against counters, for module Filter, where a process ends only *)
(* once.  Until it does, every packet that got a verdict is in an outcome  *)
(* counter, and so is the one that handlePacket is about to decide; a      *)
(* packet without payload is in none.                                      *)
(***************************************************************************)
Decided == {p \in Packet : fate[p] \in {"accepted", "dropped"} /\ Content[p] # "noPayload"}

AboutToDecide == IF h \in {"answer", "verdict"} /\ Content[cur] # "noPayload" THEN 1 ELSE 0

Counted ==
  /\ IsFiniteSet(Decided)
  /\ Cardinality(Decided) + AboutToDecide <= Outcomes(stats)

\* only SetVerdict decides a packet, and it needs the queue
LEMMA DecidedStep ==
  ASSUME TypeOK, [Next]_vars
  PROVE  \/ Decided' = Decided
         \/ sock = "bound" /\ SetVerdict /\ Decided' \subseteq Decided \cup {cur}
<1>1. CASE SetVerdict
  <2>1. \A p \in Packet : p # cur => fate'[p] = fate[p]
    BY <1>1 DEF SetVerdict, Judge, TypeOK
  <2> QED BY <1>1, <2>1 DEF SetVerdict, Decided
<1>2. CASE \/ HandleNoID \/ HandleNoPayload \/ HandlePayload \/ RecordReason \/ RecordPassed
           \/ SendDNSResponse \/ SetVerdictFails \/ LoadField \/ PrintStats
           \/ InstallRules \/ RemoveRules \/ Register \/ UNCHANGED vars
  <2>1. fate' = fate
    BY <1>2 DEF HandleNoID, HandleNoPayload, HandlePayload, RecordReason, RecordPassed,
       SendDNSResponse, SetVerdictFails, LoadField, PrintStats, InstallRules, RemoveRules,
       Register, vars, kernelVars
  <2> QED BY <2>1 DEF Decided
<1>3. ASSUME NEW p \in Packet, ArriveUnqueued(p) \/ ArriveQueued(p)
      PROVE  Decided' = Decided
  <2>1. /\ fate[p] = "new"
        /\ \E f \in Fate \ {"accepted", "dropped"} : fate' = [fate EXCEPT ![p] = f]
    BY <1>3 DEF ArriveUnqueued, ArriveQueued, Judge, Refused, Fate
  <2>2. \A q \in Packet : /\ q # p => fate'[q] = fate[q]
                          /\ q = p => fate'[q] \notin {"accepted", "dropped"}
    BY <2>1 DEF TypeOK
  <2> QED BY <2>1, <2>2 DEF Decided
<1>4. CASE CloseQueue \/ ProcessEnds
  <2>1. fate' = Flushed
    BY <1>4 DEF CloseQueue, ProcessEnds
  <2>2. \A p \in Packet : fate'[p] = IF fate[p] = "queued" THEN "lost" ELSE fate[p]
    BY <2>1 DEF Flushed
  <2> QED BY <2>2 DEF Decided
<1> QED BY <1>1, <1>2, <1>3, <1>4 DEF Next, Handler, Environment

\* what a step does to the sum on the left of Counted, and to the outcomes
LEMMA CountedStep ==
  ASSUME TypeOK, HandlerInv, Counted, [Ongoing]_vars \/ LoadField \/ PrintStats
  PROVE  Counted'
<1>0. /\ IsFiniteSet(Decided) /\ Cardinality(Decided) \in Nat /\ Outcomes(stats) \in Nat
      /\ Cardinality(Decided) + AboutToDecide <= Outcomes(stats)
      /\ AboutToDecide \in {0, 1} /\ AboutToDecide' \in {0, 1}
  <2>1. IsFiniteSet(Decided) /\ Cardinality(Decided) + AboutToDecide <= Outcomes(stats)
    BY DEF Counted
  <2>2. Cardinality(Decided) \in Nat
    BY <2>1, FS_CardinalityType
  <2>3. Outcomes(stats) \in Nat
    BY BumpOutcomes DEF TypeOK, StatName
  <2>4. AboutToDecide \in {0, 1} /\ AboutToDecide' \in {0, 1}
    BY DEF AboutToDecide
  <2> QED BY <2>1, <2>2, <2>3, <2>4
<1>1. CASE SetVerdict
  <2>1. /\ AboutToDecide' = 0 /\ stats' = stats
        /\ h = "verdict" /\ fate' = [fate EXCEPT ![cur] = Verdict(Content[cur])]
    BY <1>1 DEF SetVerdict, HandlerStep, Judge, AboutToDecide
  <2>2. CASE Content[cur] = "noPayload"
    <3>1. Decided' = Decided
      <4>1. \A p \in Packet : p # cur => fate'[p] = fate[p]
        BY <2>1 DEF TypeOK
      <4> QED BY <2>2, <4>1 DEF Decided
    <3> QED BY <1>0, <2>1, <3>1 DEF Counted
  <2>3. CASE Content[cur] # "noPayload"
    <3>1. AboutToDecide = 1
      BY <2>1, <2>3 DEF AboutToDecide
    <3>2. Decided' \subseteq Decided \cup {cur}
      BY DecidedStep, NextSplit
    <3>3. /\ IsFiniteSet(Decided \cup {cur})
          /\ Cardinality(Decided \cup {cur}) \in Nat
          /\ Cardinality(Decided \cup {cur}) <= Cardinality(Decided) + 1
      <4> DEFINE D == Decided
      <4>1. IsFiniteSet(D) /\ Cardinality(D) \in Nat
        BY <1>0
      <4> HIDE DEF D
      <4>2. /\ IsFiniteSet(D \cup {cur})
            /\ \/ Cardinality(D \cup {cur}) = Cardinality(D)
               \/ Cardinality(D \cup {cur}) = Cardinality(D) + 1
        BY <4>1, FS_AddElement
      <4> QED BY <4>1, <4>2 DEF D
    <3>4. /\ IsFiniteSet(Decided') /\ Cardinality(Decided') \in Nat
          /\ Cardinality(Decided') <= Cardinality(Decided \cup {cur})
      BY <3>2, <3>3, FS_Subset, FS_CardinalityType
    <3>5. Cardinality(Decided') + 0 <= Outcomes(stats)
      BY <1>0, <3>1, <3>3, <3>4
    <3> QED BY <2>1, <3>4, <3>5 DEF Counted
  <2> QED BY <2>2, <2>3
<1>2. CASE ~SetVerdict
  <2>1. Decided' = Decided
    BY <1>2, DecidedStep, NextSplit
  <2>2. /\ Outcomes(stats)' \in Nat
        /\ \/ AboutToDecide' <= AboutToDecide /\ Outcomes(stats)' >= Outcomes(stats)
           \/ Outcomes(stats)' = Outcomes(stats) + 1
    <3>1. CASE HandleNoID \/ HandleNoPayload \/ HandlePayload
      <4>1. AboutToDecide' = 0
        BY <3>1 DEF HandleNoID, HandleNoPayload, HandlePayload, TakeMessage, HandlerStep,
           AboutToDecide
      <4>2. Outcomes(stats)' = Outcomes(stats)
        BY <3>1, BumpOutcomes DEF HandleNoID, HandleNoPayload, HandlePayload, TypeOK, StatName
      <4> QED BY <1>0, <4>1, <4>2
    <3>2. CASE RecordReason /\ Content[cur] \in PassReason
      <4>1. AboutToDecide' = 0
        BY <3>2 DEF RecordReason, HandlerStep, AfterRecord, AboutToDecide
      <4>2. stats' = stats \/ stats' = Bump(stats, "malformed")
        BY <3>2 DEF RecordReason, CounterOf, PassReason
      <4>3. Outcomes(stats)' = Outcomes(stats)
        BY <4>2, BumpOutcomes DEF TypeOK, StatName
      <4> QED BY <1>0, <4>1, <4>3
    <3>3. CASE RecordReason /\ Content[cur] \in DropReason
      <4>1. PICK c \in StatName \ {"total", "malformed"} : stats' = Bump(stats, c)
        BY <3>3 DEF RecordReason, CounterOf, DropReason, StatName
      <4>2. stats \in [StatName -> Nat]
        BY DEF TypeOK
      <4> QED BY <1>0, <4>1, <4>2, BumpOutcomes
    <3>4. CASE RecordPassed
      <4>1. stats' = Bump(stats, "passed") /\ "passed" \in StatName /\ stats \in [StatName -> Nat]
        BY <3>4 DEF RecordPassed, TypeOK, StatName
      <4>2. Outcomes(Bump(stats, "passed")) = Outcomes(stats) + 1
        BY <4>1, BumpOutcomes
      <4> QED BY <1>0, <4>1, <4>2
    <3>5. CASE SendDNSResponse \/ SetVerdictFails \/ Register
      <4>1. stats' = stats /\ cur' = cur
        BY <3>5 DEF SendDNSResponse, SetVerdictFails, Register
      <4>2. AboutToDecide' <= AboutToDecide
        BY <3>5, <4>1 DEF SendDNSResponse, SetVerdictFails, Register, HandlerStep, AboutToDecide
      <4> QED BY <1>0, <4>1, <4>2
    <3>6. CASE \/ LoadField \/ PrintStats \/ InstallRules \/ RemoveRules \/ CloseQueue
               \/ (\E p \in Packet : ArriveUnqueued(p) \/ ArriveQueued(p)) \/ UNCHANGED vars
      <4>1. stats' = stats /\ cur' = cur /\ h' = h
        BY <3>6 DEF LoadField, PrintStats, InstallRules, RemoveRules, CloseQueue,
           ArriveUnqueued, ArriveQueued, vars
      <4> QED BY <1>0, <4>1 DEF AboutToDecide
    <3>7. RecordReason => Content[cur] \in PassReason \/ Content[cur] \in DropReason
      BY DEF RecordReason, HandlerStep, HandlerInv
    <3> QED BY <1>2, <3>1, <3>2, <3>3, <3>4, <3>5, <3>6, <3>7 DEF Ongoing, Handler
  <2>3. Cardinality(Decided) + AboutToDecide' <= Outcomes(stats)'
    BY <1>0, <2>2
  <2> QED BY <1>0, <2>1, <2>3 DEF Counted
<1> QED BY <1>1, <1>2

\* unless the line is printed or the process ends, the line that Stats is
\* filling loses no outcome
LEMMA MixedStep ==
  ASSUME TypeOK, TypeOK', HandlerInv, ReaderInv, [Ongoing]_vars \/ LoadField
  PROVE  /\ Outcomes(Mixed) \in Nat /\ Outcomes(Mixed') \in Nat
         /\ Outcomes(Mixed) <= Outcomes(Mixed')
<1>1. CASE LoadField
  <2>1. Mixed \in [StatName -> Nat] /\ Mixed' = Mixed
    BY <1>1, LoadKeepsMixed DEF Mixed, TypeOK
  <2>2. \A c \in StatName : Mixed[c] <= Mixed[c]
    BY <2>1
  <2> QED BY <2>1, <2>2, OutcomesMonotone
<1>2. CASE [Ongoing]_vars
  BY <1>2, OngoingStep, MixedGrows
<1> QED BY <1>1, <1>2

\* a line that is begun would hold the counters as they are
LEMMA MixedBegins ==
  ASSUME snapAt' = 0
  PROVE  Outcomes(Mixed)' = Outcomes(stats)'
<1>1. \A c \in StatName : Mixed'[c] = stats'[c]
  BY PlaceFacts DEF Mixed
<1> QED BY <1>1 DEF Outcomes, StatName

\* and one that is filled is what printStats prints
LEMMA MixedEnds ==
  ASSUME snapAt = 9
  PROVE  Outcomes(Mixed) = Outcomes(snap)
<1>1. \A c \in StatName : Mixed[c] = snap[c]
  BY PlaceFacts DEF Mixed
<1> QED BY <1>1 DEF Outcomes, StatName
=============================================================================
