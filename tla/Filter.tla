-------------------------------- MODULE Filter ---------------------------------
(***************************************************************************)
(* The process and its packets: Lifecycle (run, Run, signals) composed     *)
(* with PacketPath (the kernel's queue, the callback goroutine, the        *)
(* counters).  What is an arbitrary environment in PacketPath is here what *)
(* Run and main do: Install and Cleanup hook and unhook the packets,       *)
(* RegisterWithErrorFunc and Close bind and flush the queue, and the stats *)
(* are loaded where run calls printStats, field by field, while the        *)
(* callback goroutine goes on.                                             *)
(***************************************************************************)
EXTENDS Naturals, Sequences, FiniteSets

CONSTANTS Packet, Content, FailOpen, MaxQueueLen, VerdictMayFail,  \* as in PacketPath
          MaxTicks  \* bound: stats lines of a process

VARIABLES
  manager, main, engine, result, errCh, tick, ctxDone, notified,     \* Lifecycle
  rules, sock, installFailed, cleanupFailed, exit,
  fate, inbox, h, cur, answered, stats, snap, snapAt, printed, ticks \* PacketPath

Process == INSTANCE Lifecycle

\* e.nfq as the kernel sees it: after WaitDone the socket that is closed was bound
QueueOf ==
  IF exit # "running" THEN "closed"
  ELSE IF sock = "closed" /\ result = "nil" THEN "done"
  ELSE IF sock = "bound" THEN "bound" ELSE "closed"

Path == INSTANCE PacketPath WITH hooked <- rules, sock <- QueueOf

ASSUME FilterAssumption == Path!PacketPathAssumption

packets == <<fate, inbox, h, cur, answered, stats, snap, snapAt, printed, ticks>>
process == <<manager, main, engine, result, errCh, tick, ctxDone, notified,
             rules, sock, installFailed, cleanupFailed, exit>>
vars == <<process, packets>>

Init == Process!Init /\ Path!Init

-----------------------------------------------------------------------------
\* printStats calls Stats: the line is printed when every field is loaded
Printing == main \in {"print", "lastLine"}

\* what a step of the process does to the packets
Effect ==
  IF exit' # exit THEN Path!ProcessEnds
  ELSE IF Printing /\ main' # main THEN Path!PrintStats
  ELSE IF rules' # rules THEN Path!InstallRules \/ Path!RemoveRules
  ELSE IF sock # "bound" /\ sock' = "bound" THEN Path!Register
  ELSE IF sock = "bound" /\ sock' # "bound" THEN Path!CloseQueue
  ELSE UNCHANGED packets

\* the last line is always printed, so ticks leaves room for it
ProcessStep ==
  /\ Process!Next
  /\ main = "select" /\ main' = "print" => ticks + 1 < MaxTicks
  /\ Effect

Handle == UNCHANGED process /\ Path!Handler

Load == Printing /\ exit = "running" /\ UNCHANGED process /\ Path!LoadField

Arrive ==
  /\ UNCHANGED process
  /\ \E p \in Packet : Path!ArriveUnqueued(p) \/ Path!ArriveQueued(p)

Next == ProcessStep \/ Handle \/ Load \/ Arrive

(***************************************************************************)
(* The Go scheduler runs the goroutines of run, of Run and of the callback,*)
(* none of whose steps blocks without a timeout, and select takes every    *)
(* case that stays ready sooner or later.                                  *)
(***************************************************************************)
Spec ==
  /\ Init /\ [][Next]_vars
  /\ WF_vars(Process!Main /\ ProcessStep) /\ WF_vars(Process!Engine /\ ProcessStep)
  /\ SF_vars(Process!SelectDone /\ ProcessStep) /\ SF_vars(Process!SelectResult /\ ProcessStep)
  /\ WF_vars(Handle) /\ WF_vars(Load)

-----------------------------------------------------------------------------
Decided == {p \in Packet : fate[p] \in {"accepted", "dropped"} /\ Content[p] # "noPayload"}

(***************************************************************************)
(* The stats line that run prints when it ends is the last word: although  *)
(* the callback goroutine may still run, no packet gets a verdict that the *)
(* line does not count, because the line comes after Run has closed the    *)
(* queue.                                                                  *)
(***************************************************************************)
LastLineComplete ==
  main \in {"stopNil", "closeNil"} /\ exit = "running" =>
    Cardinality(Decided) <= Path!Outcomes(printed)

(***************************************************************************)
(* Every queued packet gets a verdict or is flushed, while run prints its  *)
(* lines and Run stops and closes the queue at any moment, if SetVerdict   *)
(* works; a packet whose attribute lacks the id is the one exception.      *)
(***************************************************************************)
QueuedDecided == Path!QueuedDecided

(***************************************************************************)
(* After a signal no packet is held: each one waiting for a verdict gets   *)
(* it or is flushed with the queue, also one that handlePacket could not   *)
(* answer for lack of an id.                                               *)
(***************************************************************************)
SignalFlushes ==
  \A p \in Packet : ctxDone /\ fate[p] = "queued" ~> fate[p] # "queued"
================================================================================
