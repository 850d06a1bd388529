------------------------------ MODULE PacketPath ------------------------------
(***************************************************************************)
(* The path of a packet through the NFQUEUE engine: the kernel's queue,    *)
(* the callback goroutine that runs handlePacket, the atomic counters of   *)
(* nfQueueEngine.stats and the main goroutine that reads them with Stats.  *)
(*                                                                         *)
(* Classify is taken here by its result (module Classifier computes it):   *)
(* Content[p] is the Reason that Classify returns for p, or says that the  *)
(* netlink attribute of p lacks its id or its payload.  The lifecycle of   *)
(* the engine (rules installed and removed, queue bound and closed, the    *)
(* process ended at any point and started again) is left to an arbitrary   *)
(* environment, so what holds here holds in every order of start-up and    *)
(* shutdown.                                                               *)
(***************************************************************************)
EXTENDS Naturals, Sequences, FiniteSets

CONSTANTS
  Packet,          \* packets that reach the netfilter hooks
  Content,         \* what handlePacket finds in each of them
  FailOpen,        \* cfg.NFQueue.FailOpen
  MaxQueueLen,     \* nfqueue.Config.MaxQueueLen (0x400)
  VerdictMayFail,  \* SetVerdict may fail on an open socket (WriteTimeout)
  MaxTicks         \* bound: stats lines printed per process

PassReason == {"none", "malformed"}
DropReason == {"http", "tls", "dnsPoison", "dnsDrop", "ip", "ipPort"}
Attribute  == PassReason \cup DropReason \cup {"noID", "noPayload"}

ASSUME PacketPathAssumption ==
  /\ Content \in [Packet -> Attribute]
  /\ FailOpen \in BOOLEAN /\ VerdictMayFail \in BOOLEAN
  /\ MaxQueueLen \in Nat \ {0}
  /\ MaxTicks \in Nat

VARIABLES
  hooked,    \* the NFQUEUE rules are in the firewall
  sock,      \* netlink socket: "closed", "bound" to the queue, "done"
  fate,      \* what has become of each packet
  inbox,     \* messages of queued packets not yet handed to handlePacket
  h,         \* program counter of the callback goroutine
  cur,       \* the packet handlePacket is working on
  answered,  \* packets for which sendDNSResponse sent its answer
  stats,     \* atomicStats
  snap,      \* the EngineStats that Stats is filling
  snapAt,    \* number of its fields already loaded
  printed,   \* the EngineStats of the last line printed
  ticks      \* lines printed by this process

kernelVars == <<hooked, sock, fate, inbox>>
readerVars == <<snap, snapAt, printed, ticks>>
vars == <<kernelVars, h, cur, answered, stats, readerVars>>

Fate == {"new", "queued", "accepted", "dropped", "lost", "bypassed", "unfiltered"}
Forwarded == {"accepted", "bypassed", "unfiltered"}

(***************************************************************************)
(* EngineStats, in the order in which Stats loads its fields.              *)
(***************************************************************************)
StatName == {"total", "passed", "httpBlocked", "tlsBlocked", "dnsPoisoned",
             "dnsBlocked", "ipBlocked", "ipPortBlocked", "malformed"}

LoadOrderTotalLast ==
  <<"passed", "httpBlocked", "tlsBlocked", "dnsPoisoned", "dnsBlocked",
    "ipBlocked", "ipPortBlocked", "malformed", "total">>

LoadOrder ==
  <<"total", "passed", "httpBlocked", "tlsBlocked", "dnsPoisoned",
    "dnsBlocked", "ipBlocked", "ipPortBlocked", "malformed">>

Zero == [c \in StatName |-> 0]

BumpDown(s, c) == [s EXCEPT ![c] = @ - 1]

Bump(s, c) == [s EXCEPT ![c] = @ + 1]

\* the counter that recordDecision adds to for each reason but reasonNone
CounterOf ==
  [http |-> "httpBlocked", tls |-> "tlsBlocked", dnsPoison |-> "dnsPoisoned",
   dnsDrop |-> "dnsBlocked", ip |-> "ipBlocked", ipPort |-> "ipPortBlocked",
   malformed |-> "malformed"]

\* the counters of which every classified packet adds to exactly one
Outcomes(s) ==
  s["passed"] + s["httpBlocked"] + s["tlsBlocked"] + s["dnsPoisoned"]
    + s["dnsBlocked"] + s["ipBlocked"] + s["ipPortBlocked"]

Init ==
  /\ hooked = FALSE /\ sock = "closed"
  /\ fate = [p \in Packet |-> "new"] /\ inbox = << >>
  /\ h = "off" /\ cur \in Packet
  /\ answered = {}
  /\ stats = Zero /\ snap = Zero /\ snapAt = 0 /\ printed = Zero /\ ticks = 0

-----------------------------------------------------------------------------
(***************************************************************************)
(* Kernel: nfnetlink_queue, as the flags and lengths of Run configure it.  *)
(***************************************************************************)
Queued == {p \in Packet : fate[p] = "queued"}

\* a packet the queue does not take is let through only in fail-open mode
Refused == IF FailOpen THEN "bypassed" ELSE "lost"

Judge(p, f) == fate' = [fate EXCEPT ![p] = f]

\* p passes a hook that has no rule, or the kernel cannot hand it over: no
\* listener is bound, the queue is full, or the socket buffer is full, which
\* can happen at any time (NoENOBUFS only hides it from the reader)
ArriveUnqueued(p) ==
  /\ fate[p] = "new"
  /\ Judge(p, IF hooked THEN Refused ELSE "unfiltered")
  /\ UNCHANGED <<hooked, sock, inbox, h, cur, answered, stats, readerVars>>

ArriveQueued(p) ==
  /\ fate[p] = "new" /\ hooked /\ sock = "bound"
  /\ Cardinality(Queued) < MaxQueueLen
  /\ Judge(p, "queued")
  /\ inbox' = Append(inbox, p)
  /\ UNCHANGED <<hooked, sock, h, cur, answered, stats, readerVars>>

\* an instance that goes away drops what is still waiting for a verdict
Flushed == [p \in Packet |-> IF fate[p] = "queued" THEN "lost" ELSE fate[p]]

-----------------------------------------------------------------------------
(***************************************************************************)
(* handlePacket, one action per step that another goroutine can observe.   *)
(***************************************************************************)
HandlerStep(from, to) == h = from /\ h' = to

TakeMessage == inbox # << >> /\ cur' = Head(inbox) /\ inbox' = Tail(inbox)

\* attr.PacketID == nil: counted, and no verdict can be given
HandleNoID ==
  /\ HandlerStep("idle", "idle") /\ TakeMessage
  /\ Content[Head(inbox)] = "noID"
  /\ stats' = Bump(stats, "malformed")
  /\ UNCHANGED <<hooked, sock, fate, answered, readerVars>>

\* attr.Payload == nil: counted as malformed only, then accepted
HandleNoPayload ==
  /\ HandlerStep("idle", "verdict") /\ TakeMessage
  /\ Content[Head(inbox)] = "noPayload"
  /\ stats' = Bump(stats, "malformed")
  /\ UNCHANGED <<hooked, sock, fate, answered, readerVars>>

\* stats.total.Add(1), then Classify
HandlePayload ==
  /\ HandlerStep("idle", "record") /\ TakeMessage
  /\ Content[Head(inbox)] \in PassReason \cup DropReason
  /\ stats' = Bump(stats, "total")
  /\ UNCHANGED <<hooked, sock, fate, answered, readerVars>>

AfterRecordSkipsMalformed(r) ==
  IF r = "none" THEN "pass" ELSE IF r = "dnsPoison" THEN "answer" ELSE "verdict"

AfterRecordForgetsVerdict(r) ==
  IF r \in PassReason THEN "pass" ELSE IF r = "dnsPoison" THEN "answer" ELSE "idle"

\* what follows the switch on decision.Reason
AfterRecord(r) ==
  IF r \in PassReason THEN "pass" ELSE IF r = "dnsPoison" THEN "answer" ELSE "verdict"

RecordReason ==
  /\ HandlerStep("record", AfterRecord(Content[cur]))
  /\ stats' = IF Content[cur] = "none" THEN stats
              ELSE Bump(stats, CounterOf[Content[cur]])
  /\ UNCHANGED <<kernelVars, cur, answered, readerVars>>

RecordPassed ==
  /\ HandlerStep("pass", "verdict")
  /\ stats' = Bump(stats, "passed")
  /\ UNCHANGED <<kernelVars, cur, answered, readerVars>>

\* sendDNSResponse: its error is logged and changes nothing
SendDNSResponse ==
  /\ HandlerStep("answer", "verdict")
  /\ answered' \in {answered, answered \cup {cur}}
  /\ UNCHANGED <<kernelVars, cur, stats, readerVars>>

VerdictForwardsPoisoned(r) ==
  IF r \in DropReason \ {"dnsPoison"} THEN "dropped" ELSE "accepted"

\* the switch on decision.Kind, and the accept of a packet without payload
Verdict(r) == IF r \in DropReason THEN "dropped" ELSE "accepted"

SetVerdict ==
  /\ HandlerStep("verdict", "idle")
  /\ sock = "bound" /\ fate[cur] = "queued"
  /\ Judge(cur, Verdict(Content[cur]))
  /\ UNCHANGED <<hooked, sock, inbox, cur, answered, stats, readerVars>>

\* SetVerdict fails, and its error is discarded: the packet stays queued
SetVerdictFails ==
  /\ HandlerStep("verdict", "idle")
  /\ VerdictMayFail \/ sock # "bound"
  /\ UNCHANGED <<kernelVars, cur, answered, stats, readerVars>>

Handler ==
  \/ HandleNoID \/ HandleNoPayload \/ HandlePayload
  \/ RecordReason \/ RecordPassed \/ SendDNSResponse
  \/ SetVerdict \/ SetVerdictFails

-----------------------------------------------------------------------------
(***************************************************************************)
(* The main goroutine: Stats loads one counter after the other, and        *)
(* printStats prints the result.                                           *)
(***************************************************************************)
LoadFieldSwaps ==
  /\ snapAt < Len(LoadOrder) /\ ticks < MaxTicks
  /\ snap' = [snap EXCEPT ![LoadOrder[snapAt + 1]] = stats[LoadOrder[snapAt + 1]]]
  /\ stats' = [stats EXCEPT ![LoadOrder[snapAt + 1]] = 0]
  /\ snapAt' = snapAt + 1
  /\ UNCHANGED <<kernelVars, h, cur, answered, printed, ticks>>

LoadField ==
  /\ snapAt < Len(LoadOrder) /\ ticks < MaxTicks
  /\ snap' = [snap EXCEPT ![LoadOrder[snapAt + 1]] = stats[LoadOrder[snapAt + 1]]]
  /\ snapAt' = snapAt + 1
  /\ UNCHANGED <<kernelVars, h, cur, answered, stats, printed, ticks>>

PrintStats ==
  /\ snapAt = Len(LoadOrder)
  /\ printed' = snap
  /\ snapAt' = 0
  /\ ticks' = ticks + 1
  /\ UNCHANGED <<kernelVars, h, cur, answered, stats, snap>>

-----------------------------------------------------------------------------
(***************************************************************************)
(* The environment: Run, the firewall manager and the operating system.    *)
(***************************************************************************)
InstallRules ==
  /\ ~hooked /\ hooked' = TRUE
  /\ UNCHANGED <<sock, fate, inbox, h, cur, answered, stats, readerVars>>

RemoveRules ==
  /\ hooked /\ hooked' = FALSE
  /\ UNCHANGED <<sock, fate, inbox, h, cur, answered, stats, readerVars>>

\* RegisterWithErrorFunc binds the queue and starts the callback goroutine
Register ==
  /\ sock = "closed" /\ sock' = "bound"
  /\ HandlerStep("off", "idle")
  /\ UNCHANGED <<hooked, fate, inbox, cur, answered, stats, readerVars>>

\* nfq.Close: the messages the goroutine has already received (a prefix of
\* the inbox) are still handled, although their verdicts will fail
CloseQueue ==
  /\ sock = "bound" /\ sock' = "done"
  /\ fate' = Flushed
  /\ \E n \in 0 .. Len(inbox) : inbox' = SubSeq(inbox, 1, n)
  /\ UNCHANGED <<hooked, h, cur, answered, stats, readerVars>>

\* the process exits or is killed; the next one starts with fresh counters
ProcessEnds ==
  /\ sock' = "closed" /\ h' = "off"
  /\ fate' = Flushed /\ inbox' = << >>
  /\ stats' = Zero /\ snap' = Zero /\ snapAt' = 0 /\ printed' = Zero /\ ticks' = 0
  /\ UNCHANGED <<hooked, cur, answered>>

Environment ==
  \/ \E p \in Packet : ArriveUnqueued(p) \/ ArriveQueued(p)
  \/ InstallRules \/ RemoveRules \/ Register \/ CloseQueue \/ ProcessEnds

Next == Handler \/ LoadField \/ PrintStats \/ Environment

Spec == Init /\ [][Next]_vars

-----------------------------------------------------------------------------
(***************************************************************************)
(* Type invariant.                                                         *)
(***************************************************************************)
TypeOK ==
  /\ hooked \in BOOLEAN /\ sock \in {"closed", "bound", "done"}
  /\ fate \in [Packet -> Fate]
  /\ inbox \in Seq(Packet)
  /\ h \in {"off", "idle", "record", "pass", "answer", "verdict"}
  /\ cur \in Packet
  /\ answered \subseteq Packet
  /\ stats \in [StatName -> Nat]
  /\ snap \in [StatName -> Nat] /\ snapAt \in 0 .. 9
  /\ printed \in [StatName -> Nat] /\ ticks \in Nat

\* handlePacket has added a packet to total but not yet to its outcome
InFlight == IF h \in {"record", "pass"} THEN 1 ELSE 0

(***************************************************************************)
(* recordDecision adds every packet counted in total to exactly one of the *)
(* outcome counters, malformed packets to passed; between the two atomic   *)
(* additions the counters are off by the packet in flight.                 *)
(***************************************************************************)
Accounting == stats["total"] = Outcomes(stats) + InFlight

(***************************************************************************)
(* A line printed by printStats, although Stats reads the counters while   *)
(* handlePacket moves them, misses at most one outcome of the packets it   *)
(* reports in total: total is loaded before every outcome.                 *)
(***************************************************************************)
SnapshotSkew == snapAt = 9 => snap["total"] <= Outcomes(snap) + 1

(***************************************************************************)
(* No counter of a stats line is ever smaller than in the line before it.  *)
(***************************************************************************)
LinesMonotone == snapAt = 9 => \A c \in StatName : printed[c] <= snap[c]

(***************************************************************************)
(* A packet that Classify wants dropped goes through only where no rule    *)
(* selects it or, in fail-open mode, where the queue does not take it:     *)
(* never by a verdict, whatever closes, fails or ends meanwhile.           *)
(***************************************************************************)
BlockedNotForwarded ==
  \A p \in Packet :
    Content[p] \in DropReason /\ fate[p] \in Forwarded =>
      fate[p] = "unfiltered" \/ (FailOpen /\ fate[p] = "bypassed")

(***************************************************************************)
(* A query that sendDNSResponse answered never also reaches the resolver,  *)
(* even if its verdict is lost or the queue is closed under the handler.   *)
(***************************************************************************)
AnsweredNotForwarded == \A p \in answered : fate[p] \notin Forwarded

(***************************************************************************)
(* Every queued packet gets a verdict or is flushed, if SetVerdict works;  *)
(* a packet whose attribute lacks the id is the one exception.             *)
(***************************************************************************)
QueuedDecided ==
  \A p \in Packet : Content[p] # "noID" /\ fate[p] = "queued" ~> fate[p] # "queued"
=============================================================================
