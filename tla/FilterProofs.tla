----------------------------- MODULE FilterProofs -----------------------------
(***************************************************************************)
(* The composition: Filter implements Lifecycle and PacketPath, so their   *)
(* safety properties hold of the process with its packets, and the last    *)
(* stats line counts every verdict.                                        *)
(***************************************************************************)
EXTENDS Filter, FiniteSetTheorems, TLAPS

ProcessP == INSTANCE LifecycleProofs
PathP == INSTANCE PacketPathProofs WITH hooked <- rules, sock <- QueueOf

-----------------------------------------------------------------------------
(***************************************************************************)
(* The instances of the proof modules name anew what those of Filter name. *)
(***************************************************************************)
LEMMA ProcessSame ==
  /\ Process!Init <=> ProcessP!Init
  /\ Process!Next <=> ProcessP!Next
  /\ UNCHANGED Process!vars <=> UNCHANGED ProcessP!vars
<1> USE DEF Process!mainVars, ProcessP!mainVars, Process!flags, ProcessP!flags,
     Process!engineVars, ProcessP!engineVars, Process!vars, ProcessP!vars,
     Process!Running, ProcessP!Running
<1>1. Process!Init <=> ProcessP!Init
  BY DEF Process!Init, ProcessP!Init
<1>2. Process!Main <=> ProcessP!Main
  BY DEF Process!Main, ProcessP!Main, Process!MainStep, ProcessP!MainStep,
     Process!LoadFails, ProcessP!LoadFails, Process!NotifyContext, ProcessP!NotifyContext,
     Process!StartEngine, ProcessP!StartEngine, Process!SelectTick, ProcessP!SelectTick,
     Process!PrintStats, ProcessP!PrintStats, Process!SelectResult, ProcessP!SelectResult,
     Process!SelectDone, ProcessP!SelectDone, Process!AwaitResult, ProcessP!AwaitResult,
     Process!LastLine, ProcessP!LastLine, Process!Return, ProcessP!Return,
     Process!Stop, ProcessP!Stop, Process!Close, ProcessP!Close
<1>3. Process!Engine <=> ProcessP!Engine
  BY DEF Process!Engine, ProcessP!Engine, Process!EngineStep, ProcessP!EngineStep,
     Process!Fail, ProcessP!Fail, Process!InstallOK, ProcessP!InstallOK,
     Process!InstallFails, ProcessP!InstallFails, Process!Open, ProcessP!Open,
     Process!OpenFails, ProcessP!OpenFails, Process!SetOption, ProcessP!SetOption,
     Process!Register, ProcessP!Register, Process!SetupFails, ProcessP!SetupFails,
     Process!WaitDone, ProcessP!WaitDone, Process!CloseQueue, ProcessP!CloseQueue,
     Process!CleanupFirewall, ProcessP!CleanupFirewall, Process!SendResult, ProcessP!SendResult
<1>4. /\ Process!Tick <=> ProcessP!Tick
      /\ Process!SignalCaught <=> ProcessP!SignalCaught
      /\ Process!SignalKills <=> ProcessP!SignalKills
      /\ Process!Ended <=> ProcessP!Ended
  BY DEF Process!Tick, ProcessP!Tick, Process!SignalCaught, ProcessP!SignalCaught,
     Process!SignalKills, ProcessP!SignalKills, Process!Ended, ProcessP!Ended
<1> QED BY <1>1, <1>2, <1>3, <1>4 DEF Process!Next, ProcessP!Next

LEMMA PathSame ==
  /\ Path!Init <=> PathP!Init
  /\ Path!Handler <=> PathP!Handler
  /\ Path!LoadField <=> PathP!LoadField
  /\ Path!PrintStats <=> PathP!PrintStats
  /\ \A p \in Packet : /\ Path!ArriveUnqueued(p) <=> PathP!ArriveUnqueued(p)
                       /\ Path!ArriveQueued(p) <=> PathP!ArriveQueued(p)
  /\ Path!InstallRules <=> PathP!InstallRules
  /\ Path!RemoveRules <=> PathP!RemoveRules
  /\ Path!Register <=> PathP!Register
  /\ Path!CloseQueue <=> PathP!CloseQueue
  /\ Path!ProcessEnds <=> PathP!ProcessEnds
  /\ UNCHANGED Path!vars <=> UNCHANGED PathP!vars
  /\ \A s : Path!Outcomes(s) = PathP!Outcomes(s)
<1> USE DEF Path!kernelVars, PathP!kernelVars, Path!readerVars, PathP!readerVars,
     Path!Zero, PathP!Zero, Path!StatName, PathP!StatName, Path!HandlerStep, PathP!HandlerStep,
     Path!Judge, PathP!Judge, Path!Flushed, PathP!Flushed
<1>1. Path!Init <=> PathP!Init
  BY DEF Path!Init, PathP!Init
<1>2. /\ Path!HandleNoID <=> PathP!HandleNoID
      /\ Path!HandleNoPayload <=> PathP!HandleNoPayload
      /\ Path!HandlePayload <=> PathP!HandlePayload
  BY DEF Path!HandleNoID, PathP!HandleNoID, Path!HandleNoPayload, PathP!HandleNoPayload,
     Path!HandlePayload, PathP!HandlePayload, Path!TakeMessage, PathP!TakeMessage,
     Path!Bump, PathP!Bump, Path!PassReason, PathP!PassReason, Path!DropReason, PathP!DropReason
<1>3. /\ Path!RecordReason <=> PathP!RecordReason
      /\ Path!RecordPassed <=> PathP!RecordPassed
  BY DEF Path!RecordReason, PathP!RecordReason, Path!RecordPassed, PathP!RecordPassed,
     Path!AfterRecord, PathP!AfterRecord, Path!CounterOf, PathP!CounterOf, Path!Bump, PathP!Bump,
     Path!PassReason, PathP!PassReason
<1>4. /\ Path!SendDNSResponse <=> PathP!SendDNSResponse
      /\ Path!SetVerdict <=> PathP!SetVerdict
      /\ Path!SetVerdictFails <=> PathP!SetVerdictFails
  BY DEF Path!SendDNSResponse, PathP!SendDNSResponse, Path!SetVerdict, PathP!SetVerdict,
     Path!SetVerdictFails, PathP!SetVerdictFails, Path!Verdict, PathP!Verdict,
     Path!DropReason, PathP!DropReason
<1>5. Path!Handler <=> PathP!Handler
  BY <1>2, <1>3, <1>4 DEF Path!Handler, PathP!Handler
<1>6. /\ Path!LoadField <=> PathP!LoadField
      /\ Path!PrintStats <=> PathP!PrintStats
  BY DEF Path!LoadField, PathP!LoadField, Path!PrintStats, PathP!PrintStats,
     Path!LoadOrder, PathP!LoadOrder
<1>7. ASSUME NEW p \in Packet
      PROVE  /\ Path!ArriveUnqueued(p) <=> PathP!ArriveUnqueued(p)
             /\ Path!ArriveQueued(p) <=> PathP!ArriveQueued(p)
  <2>1. \A s : Path!Cardinality(s) = PathP!Cardinality(s)
    BY Zenon DEF Path!Cardinality, PathP!Cardinality
  <2> QED
    BY <2>1 DEF Path!ArriveUnqueued, PathP!ArriveUnqueued, Path!ArriveQueued, PathP!ArriveQueued,
       Path!Refused, PathP!Refused, Path!Queued, PathP!Queued
<1>8. /\ Path!InstallRules <=> PathP!InstallRules
      /\ Path!RemoveRules <=> PathP!RemoveRules
      /\ Path!Register <=> PathP!Register
      /\ Path!CloseQueue <=> PathP!CloseQueue
      /\ Path!ProcessEnds <=> PathP!ProcessEnds
  BY DEF Path!InstallRules, PathP!InstallRules, Path!RemoveRules, PathP!RemoveRules,
     Path!Register, PathP!Register, Path!CloseQueue, PathP!CloseQueue,
     Path!ProcessEnds, PathP!ProcessEnds
<1>9. UNCHANGED Path!vars <=> UNCHANGED PathP!vars
  BY DEF Path!vars, PathP!vars
<1>10. \A s : Path!Outcomes(s) = PathP!Outcomes(s)
  BY DEF Path!Outcomes, PathP!Outcomes
<1> QED BY <1>1, <1>5, <1>6, <1>7, <1>8, <1>9, <1>10

\* PacketPathProofs counts the packets as Filter does
LEMMA CountSame ==
  /\ PathP!Decided = Decided
  /\ \A s : PathP!Cardinality(s) = Cardinality(s)
  /\ \A s : PathP!IsFiniteSet(s) <=> IsFiniteSet(s)
<1>1. PathP!Decided = Decided
  BY DEF PathP!Decided, Decided
<1>2. \A s : PathP!Cardinality(s) = Cardinality(s)
  BY Zenon DEF PathP!Cardinality, Cardinality
<1>3. \A s : PathP!IsFiniteSet(s) <=> IsFiniteSet(s)
  BY Zenon DEF PathP!IsFiniteSet, IsFiniteSet
<1> QED BY <1>1, <1>2, <1>3

LEMMA PathAssumption == PathP!PacketPathAssumption
BY FilterAssumption DEF Path!PacketPathAssumption, PathP!PacketPathAssumption,
   Path!Attribute, PathP!Attribute, Path!PassReason, PathP!PassReason, Path!DropReason,
   PathP!DropReason

-----------------------------------------------------------------------------
(***************************************************************************)
(* Filter implements Lifecycle: what is added to a step of the process is  *)
(* its effect on the packets, and the other steps leave the process alone. *)
(***************************************************************************)
LEMMA ProcessMapped == [Next]_vars => [Process!Next]_(Process!vars)
<1> SUFFICES ASSUME [Next]_vars PROVE [Process!Next]_(Process!vars)
  OBVIOUS
<1>1. CASE ProcessStep
  BY <1>1 DEF ProcessStep
<1>2. CASE Handle \/ Load \/ Arrive \/ UNCHANGED vars
  <2>1. UNCHANGED process
    BY <1>2 DEF Handle, Load, Arrive, vars
  <2> QED BY <2>1 DEF process, Process!vars, Process!mainVars, Process!engineVars, Process!flags
<1> QED BY <1>1, <1>2 DEF Next

(***************************************************************************)
(* The process with its packets is a process of Lifecycle: neither the     *)
(* callback goroutine nor the loads of Stats move main or Run.             *)
(***************************************************************************)
THEOREM ImplementsLifecycle == Spec => Process!Spec
<1>1. Init => Process!Init
  BY DEF Init
<1> QED BY <1>1, ProcessMapped, PTL DEF Spec, Process!Spec

\* Run comes to close the queue with no error exactly where it had bound it
QueueInv ==
  engine = "close" => /\ sock = "bound" => result = "nil"
                      /\ sock = "open" => result = "err"

LEMMA QueueInvStep ==
  ASSUME ProcessP!Inv, QueueInv, [ProcessP!Next]_(ProcessP!vars)
  PROVE  QueueInv'
<1> USE DEF QueueInv, ProcessP!mainVars, ProcessP!engineVars, ProcessP!flags
<1>1. CASE ProcessP!Main
  BY <1>1 DEF ProcessP!Main, ProcessP!MainStep, ProcessP!LoadFails, ProcessP!NotifyContext,
     ProcessP!StartEngine, ProcessP!SelectTick, ProcessP!PrintStats, ProcessP!SelectResult,
     ProcessP!SelectDone, ProcessP!AwaitResult, ProcessP!LastLine, ProcessP!Return,
     ProcessP!Stop, ProcessP!Close, ProcessP!Inv, ProcessP!MainInv
<1>2. CASE ProcessP!Engine
  BY <1>2 DEF ProcessP!Engine, ProcessP!EngineStep, ProcessP!Fail, ProcessP!InstallOK,
     ProcessP!InstallFails, ProcessP!Open, ProcessP!OpenFails, ProcessP!SetOption,
     ProcessP!Register, ProcessP!SetupFails, ProcessP!WaitDone, ProcessP!CloseQueue,
     ProcessP!CleanupFirewall, ProcessP!SendResult, ProcessP!Inv, ProcessP!EngineInv
<1>3. CASE ProcessP!Tick \/ ProcessP!SignalCaught \/ ProcessP!SignalKills \/ UNCHANGED ProcessP!vars
  BY <1>3 DEF ProcessP!Tick, ProcessP!SignalCaught, ProcessP!SignalKills, ProcessP!vars
<1> QED BY <1>1, <1>2, <1>3 DEF ProcessP!Next, ProcessP!Ended

\* a step of the process that neither ends it nor binds or closes a bound
\* socket looks to the kernel as if nothing had happened to the queue
LEMMA QueueOfStays ==
  ASSUME ProcessP!Inv, QueueInv, ProcessP!Next, exit' = exit,
         sock = "bound" <=> sock' = "bound"
  PROVE  QueueOf' = QueueOf
<1> USE DEF QueueOf, ProcessP!mainVars, ProcessP!engineVars, ProcessP!flags
<1>1. CASE ProcessP!Main
  BY <1>1 DEF ProcessP!Main, ProcessP!MainStep, ProcessP!LoadFails, ProcessP!NotifyContext,
     ProcessP!StartEngine, ProcessP!SelectTick, ProcessP!PrintStats, ProcessP!SelectResult,
     ProcessP!SelectDone, ProcessP!AwaitResult, ProcessP!LastLine, ProcessP!Return,
     ProcessP!Stop, ProcessP!Close, ProcessP!Running
<1>2. CASE ProcessP!Engine
  BY <1>2 DEF ProcessP!Engine, ProcessP!EngineStep, ProcessP!Fail, ProcessP!InstallOK,
     ProcessP!InstallFails, ProcessP!Open, ProcessP!OpenFails, ProcessP!SetOption,
     ProcessP!Register, ProcessP!SetupFails, ProcessP!WaitDone, ProcessP!CloseQueue,
     ProcessP!CleanupFirewall, ProcessP!SendResult, ProcessP!Inv, ProcessP!EngineInv, QueueInv
<1>3. CASE ProcessP!Tick \/ ProcessP!SignalCaught \/ ProcessP!SignalKills \/ UNCHANGED ProcessP!vars
  BY <1>3 DEF ProcessP!Tick, ProcessP!SignalCaught, ProcessP!SignalKills, ProcessP!vars
<1> QED BY <1>1, <1>2, <1>3 DEF ProcessP!Next, ProcessP!Ended

-----------------------------------------------------------------------------
(***************************************************************************)
(* Filter implements PacketPath, with the socket of Run as the kernel sees *)
(* it for the queue.  Each branch of Effect names the step of PacketPath,  *)
(* and where there is none nothing that PacketPath sees has changed.       *)
(***************************************************************************)
LEMMA EffectMapped ==
  ASSUME ProcessP!Inv, QueueInv, ProcessStep
  PROVE  /\ exit' # exit => PathP!ProcessEnds
         /\ exit' = exit /\ Printing /\ main' # main => PathP!PrintStats
         /\ exit' = exit /\ ~(Printing /\ main' # main) => [PathP!Ongoing]_(PathP!vars)
<1>1. ProcessP!Next
  BY ProcessSame DEF ProcessStep
<1>2. Effect
  BY DEF ProcessStep
<1>3. exit' # exit => PathP!ProcessEnds
  BY <1>2, PathSame DEF Effect
<1>4. exit' = exit /\ Printing /\ main' # main => PathP!PrintStats
  BY <1>2, PathSame DEF Effect
<1>5. ASSUME exit' = exit, ~(Printing /\ main' # main)
      PROVE  [PathP!Ongoing]_(PathP!vars)
  <2>1. CASE Path!InstallRules \/ Path!RemoveRules \/ Path!Register \/ Path!CloseQueue
    BY <2>1, PathSame DEF PathP!Ongoing
  <2>2. CASE rules' = rules /\ (sock = "bound" <=> sock' = "bound") /\ UNCHANGED packets
    <3>1. QueueOf' = QueueOf
      BY <1>1, <1>5, <2>2, QueueOfStays
    <3> QED BY <2>2, <3>1 DEF packets, PathP!vars, PathP!kernelVars, PathP!readerVars
  <2> QED BY <1>2, <1>5, <2>1, <2>2 DEF Effect
<1> QED BY <1>3, <1>4, <1>5

LEMMA PathMapped ==
  ASSUME ProcessP!Inv, QueueInv, [Next]_vars
  PROVE  [PathP!Next]_(PathP!vars)
<1>1. CASE ProcessStep
  <2>1. \/ [PathP!Ongoing]_(PathP!vars) \/ PathP!PrintStats \/ PathP!ProcessEnds
    BY <1>1, EffectMapped
  <2> QED BY <2>1, PathP!NextSplit, PathAssumption
<1>2. CASE Handle \/ Load
  BY <1>2, PathSame DEF Handle, Load, PathP!Next
<1>3. CASE Arrive
  BY <1>3, PathSame DEF Arrive, PathP!Next, PathP!Environment
<1>4. CASE UNCHANGED vars
  <2>1. UNCHANGED <<process, packets>>
    BY <1>4 DEF vars
  <2>2. QueueOf' = QueueOf
    BY <2>1 DEF process, QueueOf
  <2> QED BY <2>1, <2>2 DEF process, packets, PathP!vars, PathP!kernelVars, PathP!readerVars
<1> QED BY <1>1, <1>2, <1>3, <1>4 DEF Next

LEMMA PathNextSame == [PathP!Next]_(PathP!vars) => [Path!Next]_(Path!vars)
BY PathSame DEF PathP!Next, Path!Next, PathP!Environment, Path!Environment

\* the inductive invariant of Lifecycle, and what QueueOf needs besides
ProcessInv == ProcessP!Inv /\ QueueInv

LEMMA ProcessInvariance == Spec => []ProcessInv
<1>1. Init => ProcessInv
  BY ProcessSame, ProcessP!InitInv DEF Init, ProcessInv, QueueInv, ProcessP!Init
<1>2. ProcessInv /\ [Next]_vars => ProcessInv'
  BY ProcessMapped, ProcessSame, ProcessP!StepInv, QueueInvStep DEF ProcessInv
<1> QED BY <1>1, <1>2, PTL DEF Spec

(***************************************************************************)
(* The process with its packets is an environment of PacketPath: Install,  *)
(* Cleanup, RegisterWithErrorFunc, the two calls of Close and the end of   *)
(* the process hook, bind, flush and end in an order that PacketPath has.  *)
(***************************************************************************)
THEOREM ImplementsPacketPath == Spec => Path!Spec
<1>1. Init => Path!Init
  BY DEF Init
<1>2. ProcessInv /\ [Next]_vars => [Path!Next]_(Path!vars)
  BY PathMapped, PathNextSame DEF ProcessInv
<1> QED BY <1>1, <1>2, ProcessInvariance, PTL DEF Spec, Path!Spec

-----------------------------------------------------------------------------
(***************************************************************************)
(* The inductive invariant of the last line.  While it is filled, it would *)
(* hold every decided packet if the rest were loaded at once, and no       *)
(* packet is decided any more, since the queue is closed.                  *)
(***************************************************************************)
LineInv ==
  exit = "running" =>
    /\ PathP!Counted
    /\ ~Printing => snapAt = 0
    /\ main = "lastLine" => Cardinality(Decided) <= PathP!Outcomes(PathP!Mixed)
    /\ main \in {"stopNil", "closeNil"} => Cardinality(Decided) <= PathP!Outcomes(printed)

FilterInv == ProcessInv /\ PathP!PacketPathInv /\ LineInv

LEMMA InitInv == Init => FilterInv
<1> SUFFICES ASSUME Init PROVE FilterInv
  OBVIOUS
<1>1. ProcessInv /\ main = "load"
  BY ProcessSame, ProcessP!InitInv DEF Init, ProcessInv, QueueInv, ProcessP!Init
<1>2. PathP!Init
  BY PathSame DEF Init
<1>3. PathP!PacketPathInv
  BY <1>2, PathP!InitInv, PathAssumption
<1>4. PathP!Counted
  <2>1. PathP!Decided = {} /\ PathP!AboutToDecide = 0 /\ PathP!Outcomes(stats) = 0
    BY <1>2 DEF PathP!Init, PathP!Decided, PathP!AboutToDecide, PathP!Outcomes, PathP!Zero,
       PathP!StatName
  <2>2. IsFiniteSet({}) /\ Cardinality({}) = 0
    BY FS_EmptySet
  <2> QED BY <2>1, <2>2, CountSame DEF PathP!Counted
<1>5. LineInv
  BY <1>1, <1>2, <1>4 DEF LineInv, PathP!Init
<1> QED BY <1>1, <1>3, <1>5 DEF FilterInv

\* a process that has ended stays so
LEMMA StaysEnded ==
  ASSUME [Next]_vars, exit' = "running"
  PROVE  exit = "running"
<1>1. CASE ProcessStep
  <2>1. ProcessP!Next
    BY <1>1, ProcessSame DEF ProcessStep
  <2>2. CASE ProcessP!Main
    BY <2>2 DEF ProcessP!Main, ProcessP!MainStep, ProcessP!LoadFails, ProcessP!NotifyContext,
       ProcessP!StartEngine, ProcessP!SelectTick, ProcessP!PrintStats, ProcessP!SelectResult,
       ProcessP!SelectDone, ProcessP!AwaitResult, ProcessP!LastLine, ProcessP!Return,
       ProcessP!Stop, ProcessP!Close, ProcessP!Running
  <2>3. CASE ProcessP!Engine
    BY <2>3 DEF ProcessP!Engine, ProcessP!EngineStep, ProcessP!InstallOK,
       ProcessP!InstallFails, ProcessP!Open, ProcessP!OpenFails, ProcessP!SetOption,
       ProcessP!Register, ProcessP!SetupFails, ProcessP!WaitDone, ProcessP!CloseQueue,
       ProcessP!CleanupFirewall, ProcessP!SendResult, ProcessP!Running
  <2>4. CASE ProcessP!Tick \/ ProcessP!SignalCaught \/ ProcessP!SignalKills
    BY <2>4 DEF ProcessP!Tick, ProcessP!SignalCaught, ProcessP!SignalKills, ProcessP!Running
  <2>5. CASE ProcessP!Ended
    BY <2>5 DEF ProcessP!Ended, ProcessP!vars, ProcessP!mainVars
  <2> QED BY <2>1, <2>2, <2>3, <2>4, <2>5 DEF ProcessP!Next
<1>2. CASE Handle \/ Load \/ Arrive \/ UNCHANGED vars
  BY <1>2 DEF Handle, Load, Arrive, vars, process
<1> QED BY <1>1, <1>2 DEF Next

\* where main comes from, by what step of PacketPath
LEMMA MainMoves ==
  ASSUME ProcessP!Inv, ProcessP!Next, exit' = exit
  PROVE  /\ main' = "lastLine" => main \in {"select", "await", "lastLine"}
         /\ main' = "stopNil" => main \in {"lastLine", "stopNil"}
         /\ main' = "closeNil" => main \in {"stopNil", "closeNil"}
         /\ main \in {"print", "lastLine"} /\ main' # main =>
              main' \in {"select", "stopNil"} /\ (main' = "stopNil" => main = "lastLine")
<1> USE DEF ProcessP!mainVars, ProcessP!engineVars, ProcessP!flags
<1>1. CASE ProcessP!Main
  BY <1>1 DEF ProcessP!Main, ProcessP!MainStep, ProcessP!LoadFails, ProcessP!NotifyContext,
     ProcessP!StartEngine, ProcessP!SelectTick, ProcessP!PrintStats, ProcessP!SelectResult,
     ProcessP!SelectDone, ProcessP!AwaitResult, ProcessP!LastLine, ProcessP!Return,
     ProcessP!Stop, ProcessP!Close, ProcessP!Running
<1>2. CASE ProcessP!Engine
  <2>1. main' = main
    BY <1>2 DEF ProcessP!Engine, ProcessP!EngineStep, ProcessP!Fail, ProcessP!InstallOK,
       ProcessP!InstallFails, ProcessP!Open, ProcessP!OpenFails, ProcessP!SetOption,
       ProcessP!Register, ProcessP!SetupFails, ProcessP!WaitDone, ProcessP!CloseQueue,
       ProcessP!CleanupFirewall, ProcessP!SendResult
  <2> QED BY <2>1
<1>3. CASE ProcessP!Tick \/ ProcessP!SignalCaught \/ ProcessP!SignalKills \/ UNCHANGED ProcessP!vars
  BY <1>3 DEF ProcessP!Tick, ProcessP!SignalCaught, ProcessP!SignalKills, ProcessP!vars
<1> QED BY <1>1, <1>2, <1>3 DEF ProcessP!Next, ProcessP!Ended

\* a step of Filter as PacketPath sees it, and where it leaves main
LEMMA StepKinds ==
  ASSUME ProcessInv, [Next]_vars, exit' = exit
  PROVE  /\ main' = main \/ ProcessP!Next
         /\ \/ PathP!LoadField /\ Printing /\ main' = main
            \/ PathP!PrintStats /\ Printing /\ main' # main
            \/ [PathP!Ongoing]_(PathP!vars) /\ ~(Printing /\ main' # main)
<1>1. CASE ProcessStep
  <2>1. ProcessP!Next
    BY <1>1, ProcessSame DEF ProcessStep
  <2> QED BY <1>1, <2>1, EffectMapped DEF ProcessInv
<1>2. CASE Load
  BY <1>2, PathSame DEF Load, process
<1>3. CASE Handle \/ Arrive
  <2>1. main' = main
    BY <1>3 DEF Handle, Arrive, process
  <2>2. PathP!Ongoing
    BY <1>3, PathSame DEF Handle, Arrive, PathP!Ongoing
  <2> QED BY <2>1, <2>2
<1>4. CASE UNCHANGED vars
  <2>1. UNCHANGED <<process, packets>>
    BY <1>4 DEF vars
  <2>2. QueueOf' = QueueOf
    BY <2>1 DEF process, QueueOf
  <2> QED BY <2>1, <2>2 DEF process, packets, PathP!vars, PathP!kernelVars, PathP!readerVars
<1> QED BY <1>1, <1>2, <1>3, <1>4 DEF Next

\* one kind of step after the other, what it does to each part of LineInv
LEMMA LineStep ==
  ASSUME FilterInv, PathP!PacketPathInv', [Next]_vars
  PROVE  LineInv'
<1> SUFFICES ASSUME exit' = "running"
             PROVE  /\ PathP!Counted'
                    /\ (~Printing => snapAt = 0)'
                    /\ main' = "lastLine" =>
                         Cardinality(Decided)' <= PathP!Outcomes(PathP!Mixed)'
                    /\ main' \in {"stopNil", "closeNil"} =>
                         Cardinality(Decided)' <= PathP!Outcomes(printed)'
  BY DEF LineInv
<1>1. exit = "running" /\ exit' = exit
  BY StaysEnded
<1>2. /\ PathP!Counted /\ (~Printing => snapAt = 0)
      /\ main = "lastLine" => Cardinality(Decided) <= PathP!Outcomes(PathP!Mixed)
      /\ main \in {"stopNil", "closeNil"} => Cardinality(Decided) <= PathP!Outcomes(printed)
  BY <1>1 DEF FilterInv, LineInv
<1>3. /\ PathP!TypeOK /\ PathP!TypeOK' /\ PathP!HandlerInv /\ PathP!ReaderInv
      /\ ProcessInv /\ ProcessP!Inv
  BY DEF FilterInv, ProcessInv, PathP!PacketPathInv
<1>4. /\ main' = main \/ ProcessP!Next
      /\ \/ PathP!LoadField /\ Printing /\ main' = main
         \/ PathP!PrintStats /\ Printing /\ main' # main
         \/ [PathP!Ongoing]_(PathP!vars) /\ ~(Printing /\ main' # main)
  BY <1>1, <1>3, StepKinds
<1>5. PathP!Counted'
  BY <1>2, <1>3, <1>4, PathP!CountedStep, PathAssumption
<1>6. [PathP!Ongoing]_(PathP!vars) => UNCHANGED <<snapAt, printed>>
  BY <1>3, PathP!OngoingStep, PathAssumption DEF PathP!readerVars
<1>7. (~Printing => snapAt = 0)'
  BY <1>2, <1>4, <1>6 DEF Printing, PathP!PrintStats
<1>8. main \in {"lastLine", "stopNil", "closeNil"} => Decided' = Decided
  <2>1. main \in {"lastLine", "stopNil", "closeNil"} => QueueOf # "bound"
    BY <1>3 DEF ProcessP!Inv, ProcessP!MainInv, ProcessP!EngineInv, QueueOf
  <2>2. [PathP!Next]_(PathP!vars)
    BY <1>3, PathMapped DEF ProcessInv
  <2>3. PathP!Decided' = PathP!Decided \/ QueueOf = "bound"
    BY <1>3, <2>2, PathP!DecidedStep, PathAssumption
  <2>4. PathP!Decided = Decided /\ PathP!Decided' = Decided'
    BY DEF PathP!Decided, Decided
  <2> QED BY <2>1, <2>3, <2>4
<1>9. main' = "lastLine" => Cardinality(Decided)' <= PathP!Outcomes(PathP!Mixed)'
  <2> SUFFICES ASSUME main' = "lastLine"
               PROVE  Cardinality(Decided)' <= PathP!Outcomes(PathP!Mixed)'
    OBVIOUS
  <2>1. CASE main = "lastLine"
    <3>1. PathP!LoadField \/ [PathP!Ongoing]_(PathP!vars)
      BY <1>4, <2>1
    <3>2. /\ PathP!Outcomes(PathP!Mixed) \in Nat /\ PathP!Outcomes(PathP!Mixed)' \in Nat
          /\ PathP!Outcomes(PathP!Mixed) <= PathP!Outcomes(PathP!Mixed)'
      BY <1>3, <3>1, PathP!MixedStep, PathAssumption
    <3>3. Cardinality(Decided) \in Nat
      BY <1>2, CountSame, FS_CardinalityType DEF PathP!Counted
    <3> QED BY <1>2, <1>8, <2>1, <3>2, <3>3
  <2>2. CASE main # "lastLine"
    <3>1. main \in {"select", "await"}
      BY <1>1, <1>3, <1>4, <2>2, MainMoves
    <3>2. snapAt' = 0
      BY <1>2, <1>4, <1>6, <3>1 DEF Printing
    <3>3. PathP!Outcomes(PathP!Mixed)' = PathP!Outcomes(stats)'
      BY <3>2, PathP!MixedBegins, PathAssumption
    <3>4. Cardinality(Decided)' <= PathP!Outcomes(stats)'
      <4>1. /\ IsFiniteSet(PathP!Decided')
            /\ Cardinality(PathP!Decided') + PathP!AboutToDecide' <= PathP!Outcomes(stats)'
        BY <1>5, CountSame DEF PathP!Counted
      <4>2. Cardinality(PathP!Decided') \in Nat /\ PathP!AboutToDecide' \in {0, 1}
        BY <4>1, FS_CardinalityType DEF PathP!AboutToDecide
      <4>3. PathP!Decided' = Decided'
        BY DEF PathP!Decided, Decided
      <4>4. PathP!Outcomes(stats)' \in Nat
        BY <1>3, PathP!BumpOutcomes, PathAssumption DEF PathP!TypeOK, PathP!StatName
      <4> QED BY <4>1, <4>2, <4>3, <4>4
    <3> QED BY <3>3, <3>4
  <2> QED BY <2>1, <2>2
<1>10. main' \in {"stopNil", "closeNil"} => Cardinality(Decided)' <= PathP!Outcomes(printed)'
  <2> SUFFICES ASSUME main' \in {"stopNil", "closeNil"}
               PROVE  Cardinality(Decided)' <= PathP!Outcomes(printed)'
    OBVIOUS
  <2>1. CASE main = "lastLine"
    <3>1. PathP!PrintStats
      BY <1>4, <2>1 DEF Printing
    <3>2. snapAt = 9 /\ printed' = snap
      BY <3>1, PathP!PlaceFacts, PathAssumption DEF PathP!PrintStats
    <3>3. PathP!Outcomes(PathP!Mixed) = PathP!Outcomes(snap)
      BY <3>2, PathP!MixedEnds, PathAssumption
    <3> QED BY <1>2, <1>8, <2>1, <3>2, <3>3 DEF PathP!Outcomes
  <2>2. CASE main # "lastLine"
    <3>1. main \in {"stopNil", "closeNil"}
      BY <1>1, <1>3, <1>4, <2>2, MainMoves
    <3>2. printed' = printed
      BY <1>4, <1>6, <3>1 DEF Printing
    <3> QED BY <1>2, <1>8, <3>1, <3>2 DEF PathP!Outcomes
  <2> QED BY <2>1, <2>2
<1> QED BY <1>5, <1>7, <1>9, <1>10

LEMMA StepInv == FilterInv /\ [Next]_vars => FilterInv'
<1> SUFFICES ASSUME FilterInv, [Next]_vars PROVE FilterInv'
  OBVIOUS
<1>1. ProcessInv'
  BY ProcessMapped, ProcessSame, ProcessP!StepInv, QueueInvStep DEF FilterInv, ProcessInv
<1>2. PathP!PacketPathInv'
  BY PathMapped, PathP!InvStep, PathAssumption DEF FilterInv, ProcessInv
<1> QED BY <1>1, <1>2, LineStep DEF FilterInv

(***************************************************************************)
(* The stats line that run prints when it ends counts every packet that    *)
(* got a verdict, for any set of packets and any number of lines before.   *)
(***************************************************************************)
THEOREM LastLineCounts == Spec => []LastLineComplete
<1>1. FilterInv => LastLineComplete
  BY PathSame DEF FilterInv, LineInv, LastLineComplete
<1> QED BY <1>1, InitInv, StepInv, PTL DEF Spec
===============================================================================
