---------------------------- MODULE LifecycleProofs ----------------------------
(***************************************************************************)
(* The safety properties of Lifecycle, for every manager, every failure of *)
(* a call and every moment of a signal.  What main may conclude from its   *)
(* place about the place of Run, and what Run has left behind at each of   *)
(* its places, is one inductive invariant; the properties follow from it.  *)
(***************************************************************************)
EXTENDS Lifecycle, TLAPS

-----------------------------------------------------------------------------
(***************************************************************************)
(* The inductive invariant, in named parts.                                *)
(***************************************************************************)

\* rules are there exactly when there is a manager, and nothing has failed
Installed == rules = (manager # "nil") /\ ~installFailed /\ ~cleanupFailed

\* what Run holds at each of its places
EngineInv ==
  /\ engine \in {"none", "install"} =>
       sock = "none" /\ ~rules /\ ~installFailed /\ ~cleanupFailed
  /\ engine = "open" => sock = "none" /\ Installed
  /\ engine \in {"option", "register"} => sock = "open" /\ Installed
  /\ engine = "wait" => sock = "bound" /\ Installed
  /\ engine = "close" => sock \in {"open", "bound"} /\ Installed
  /\ engine = "cleanup" => sock \in {"none", "closed"} /\ Installed
  /\ engine \in {"send", "done"} =>
       /\ sock \in {"none", "closed"}
       /\ cleanupFailed \/ (installFailed /\ manager # "auto") \/ ~rules

\* Run has a result exactly once it has begun to return, and sends that one
ResultInv ==
  /\ result = "none" <=> engine \in {"none", "install", "open", "option", "register", "wait"}
  /\ errCh # << >> => engine = "done" /\ errCh = <<result>>

\* what main knows of Run at each of its places
MainInv ==
  /\ main \in {"load", "start"} => engine = "none"
  /\ main \in {"select", "print", "await"} => engine # "none"
  /\ main \in {"lastLine", "stopNil", "closeNil"} => engine = "done" /\ result = "nil"
  /\ main \in {"stop", "close"} => engine = "done" /\ result = "err"
  /\ main \in {"start", "select", "print", "await", "lastLine", "stop", "stopNil"} => notified

\* how the process can have ended
ExitInv ==
  /\ main = "exited" <=> exit \in {"ok", "fatal"}
  /\ exit = "ok" => engine = "done" /\ result = "nil"
  /\ exit = "fatal" => engine \in {"none", "done"} /\ result # "nil"
  /\ exit = "killed" => engine \in {"none", "done"}

Inv == TypeOK /\ EngineInv /\ ResultInv /\ MainInv /\ ExitInv

-----------------------------------------------------------------------------
LEMMA InitInv == Init => Inv
BY DEF Init, Inv, TypeOK, EngineInv, ResultInv, MainInv, ExitInv

(***************************************************************************)
(* The steps of run: they read the result and leave what Run holds alone,  *)
(* until Close finds the queue closed already.                             *)
(***************************************************************************)
LEMMA MainStepInv ==
  ASSUME Inv, Main
  PROVE  Inv'
<1> USE DEF Inv, MainStep, Running, mainVars, engineVars, flags
<1>1. CASE LoadFails
  BY <1>1 DEF LoadFails, TypeOK, EngineInv, ResultInv, MainInv, ExitInv, Installed
<1>2. CASE NotifyContext
  BY <1>2 DEF NotifyContext, TypeOK, EngineInv, ResultInv, MainInv, ExitInv, Installed
<1>3. CASE StartEngine
  BY <1>3 DEF StartEngine, TypeOK, EngineInv, ResultInv, MainInv, ExitInv, Installed
<1>4. CASE SelectTick
  BY <1>4 DEF SelectTick, TypeOK, EngineInv, ResultInv, MainInv, ExitInv, Installed
<1>5. CASE PrintStats
  BY <1>5 DEF PrintStats, TypeOK, EngineInv, ResultInv, MainInv, ExitInv, Installed
<1>6. CASE SelectResult
  BY <1>6 DEF SelectResult, TypeOK, EngineInv, ResultInv, MainInv, ExitInv, Installed
<1>7. CASE SelectDone
  BY <1>7 DEF SelectDone, TypeOK, EngineInv, ResultInv, MainInv, ExitInv, Installed
<1>8. CASE AwaitResult
  BY <1>8 DEF AwaitResult, TypeOK, EngineInv, ResultInv, MainInv, ExitInv, Installed
<1>9. CASE LastLine
  BY <1>9 DEF LastLine, TypeOK, EngineInv, ResultInv, MainInv, ExitInv, Installed
<1>10. CASE Return
  <2>1. CASE Stop("stop", "close")
    BY <2>1 DEF Stop, TypeOK, EngineInv, ResultInv, MainInv, ExitInv, Installed
  <2>2. CASE Stop("stopNil", "closeNil")
    BY <2>2 DEF Stop, TypeOK, EngineInv, ResultInv, MainInv, ExitInv, Installed
  <2>3. CASE Close("close", "fatal")
    BY <2>3 DEF Close, TypeOK, EngineInv, ResultInv, MainInv, ExitInv, Installed
  <2>4. CASE Close("closeNil", "ok")
    BY <2>4 DEF Close, TypeOK, EngineInv, ResultInv, MainInv, ExitInv, Installed
  <2> QED BY <1>10, <2>1, <2>2, <2>3, <2>4 DEF Return
<1> QED
  BY <1>1, <1>2, <1>3, <1>4, <1>5, <1>6, <1>7, <1>8, <1>9, <1>10 DEF Main

(***************************************************************************)
(* The steps of Run.  While it is at one of these places main is inside    *)
(* its loop, so no signal can have killed the process.                     *)
(***************************************************************************)
LEMMA EngineStepInv ==
  ASSUME Inv, Engine
  PROVE  Inv'
<1> USE DEF Inv, EngineStep, Running, Fail, mainVars, flags
<1>1. CASE InstallOK
  BY <1>1 DEF InstallOK, TypeOK, EngineInv, ResultInv, MainInv, ExitInv, Installed
<1>2. CASE InstallFails
  BY <1>2 DEF InstallFails, TypeOK, EngineInv, ResultInv, MainInv, ExitInv, Installed
<1>3. CASE Open
  BY <1>3 DEF Open, TypeOK, EngineInv, ResultInv, MainInv, ExitInv, Installed
<1>4. CASE OpenFails
  BY <1>4 DEF OpenFails, TypeOK, EngineInv, ResultInv, MainInv, ExitInv, Installed
<1>5. CASE SetOption
  BY <1>5 DEF SetOption, TypeOK, EngineInv, ResultInv, MainInv, ExitInv, Installed
<1>6. CASE Register
  BY <1>6 DEF Register, TypeOK, EngineInv, ResultInv, MainInv, ExitInv, Installed
<1>7. CASE SetupFails
  BY <1>7 DEF SetupFails, TypeOK, EngineInv, ResultInv, MainInv, ExitInv, Installed
<1>8. CASE WaitDone
  BY <1>8 DEF WaitDone, TypeOK, EngineInv, ResultInv, MainInv, ExitInv, Installed
<1>9. CASE CloseQueue
  BY <1>9 DEF CloseQueue, TypeOK, EngineInv, ResultInv, MainInv, ExitInv, Installed
<1>10. CASE CleanupFirewall
  BY <1>10 DEF CleanupFirewall, TypeOK, EngineInv, ResultInv, MainInv, ExitInv, Installed
<1>11. CASE SendResult
  <2>1. errCh = << >> /\ result \in {"nil", "err"}
    BY <1>11 DEF SendResult, TypeOK, ResultInv
  <2>2. errCh' = <<result>>
    BY <1>11, <2>1 DEF SendResult
  <2> QED
    BY <1>11, <2>1, <2>2 DEF SendResult, TypeOK, EngineInv, ResultInv, MainInv, ExitInv, Installed
<1> QED
  BY <1>1, <1>2, <1>3, <1>4, <1>5, <1>6, <1>7, <1>8, <1>9, <1>10, <1>11 DEF Engine

(***************************************************************************)
(* The ticker and the signals.  Outside run's protection, that is without  *)
(* notified, main is before the start of Run or after its end.             *)
(***************************************************************************)
LEMMA SignalStepInv ==
  ASSUME Inv, Tick \/ SignalCaught \/ SignalKills \/ UNCHANGED vars
  PROVE  Inv'
<1> USE DEF Inv, Running, mainVars, engineVars, flags
<1>1. CASE Tick
  BY <1>1 DEF Tick, TypeOK, EngineInv, ResultInv, MainInv, ExitInv, Installed
<1>2. CASE SignalCaught
  BY <1>2 DEF SignalCaught, TypeOK, EngineInv, ResultInv, MainInv, ExitInv, Installed
<1>3. CASE SignalKills
  BY <1>3 DEF SignalKills, TypeOK, EngineInv, ResultInv, MainInv, ExitInv, Installed
<1>4. CASE UNCHANGED vars
  BY <1>4 DEF vars, TypeOK, EngineInv, ResultInv, MainInv, ExitInv, Installed
<1> QED BY <1>1, <1>2, <1>3, <1>4

LEMMA StepInv == Inv /\ [Next]_vars => Inv'
BY MainStepInv, EngineStepInv, SignalStepInv DEF Next, Ended

(***************************************************************************)
(* The inductive invariant holds of every behaviour.                       *)
(***************************************************************************)
THEOREM Invariance == Spec => []Inv
BY InitInv, StepInv, PTL DEF Spec

(***************************************************************************)
(* errCh, of capacity 1, never holds more than one result; the other       *)
(* variables of run and Run have their types.                              *)
(***************************************************************************)
THEOREM TypeCorrect == Spec => []TypeOK
<1>1. Inv => TypeOK
  BY DEF Inv
<1> QED BY <1>1, Invariance, PTL

(***************************************************************************)
(* run returns only after Run and its deferred calls are through: no open  *)
(* queue and no rule remains, unless a command that removes them failed.   *)
(***************************************************************************)
THEOREM ExitIsClean == Spec => []ExitClean
<1>1. Inv => ExitClean
  BY DEF Inv, EngineInv, ExitInv, ExitClean
<1> QED BY <1>1, Invariance, PTL

(***************************************************************************)
(* A signal kills the process only where NotifyContext does not receive    *)
(* it, and there no rule is installed.                                     *)
(***************************************************************************)
THEOREM KillIsClean == Spec => []KilledLeavesNoRules
<1>1. Inv => KilledLeavesNoRules
  BY DEF Inv, EngineInv, ExitInv, KilledLeavesNoRules
<1> QED BY <1>1, Invariance, PTL

(***************************************************************************)
(* The queue's listener is registered after Install and closed before      *)
(* Cleanup, the deferred calls of Run being LIFO.                          *)
(***************************************************************************)
THEOREM BoundWithRules == Spec => []BoundOnlyWithRules
<1>1. Inv => BoundOnlyWithRules
  BY DEF Inv, TypeOK, EngineInv, Installed, BoundOnlyWithRules
<1> QED BY <1>1, Invariance, PTL

(***************************************************************************)
(* The exit status of run is the error of Run, whichever case of select    *)
(* ended its loop.                                                         *)
(***************************************************************************)
THEOREM ErrorIsReported == Spec => []ErrorReported
<1>1. Inv => ErrorReported
  BY DEF Inv, ExitInv, ErrorReported
<1> QED BY <1>1, Invariance, PTL
=============================================================================
