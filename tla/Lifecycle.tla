------------------------------ MODULE Lifecycle -------------------------------
(***************************************************************************)
(* One process from main to its exit: the goroutine of run, which selects  *)
(* on the ticker, the result of the engine and the context; the goroutine  *)
(* of nfQueueEngine.Run with its deferred calls; the signals, and          *)
(* signal.NotifyContext that turns them into a done context.  Module       *)
(* Firewall has the commands behind Install and Cleanup and module         *)
(* PacketPath the packets; here both are taken by their effect.            *)
(***************************************************************************)
EXTENDS Naturals, Sequences

VARIABLES
  manager,        \* what newFirewallManager returned: "nil", "single" or "auto"
  main,           \* where the goroutine of run is
  engine,         \* where the goroutine of Run is
  result,         \* what Run is going to return
  errCh,          \* the channel of capacity 1
  tick,           \* a tick waits in ticker.C
  ctxDone,        \* ctx is cancelled
  notified,       \* NotifyContext receives the signals
  rules,          \* some of our rules are in the firewall
  sock,           \* e.nfq: "none", "open", "bound" or "closed"
  installFailed,  \* Install returned an error
  cleanupFailed,  \* a Cleanup left rules behind
  exit            \* "running", or how the process ended

mainVars == <<main, tick, notified, exit>>
flags == <<installFailed, cleanupFailed>>
engineVars == <<engine, result, rules, sock, flags>>
vars == <<manager, mainVars, engineVars, errCh, ctxDone>>

Init ==
  /\ manager \in {"nil", "single", "auto"}
  /\ main = "load" /\ engine = "none" /\ result = "none" /\ errCh = << >>
  /\ tick = FALSE /\ ctxDone = FALSE /\ notified = FALSE
  /\ rules = FALSE /\ sock = "none"
  /\ installFailed = FALSE /\ cleanupFailed = FALSE
  /\ exit = "running"

Running == exit = "running"

MainStep(from, to) == Running /\ main = from /\ main' = to
EngineStep(from, to) == Running /\ engine = from /\ engine' = to

-----------------------------------------------------------------------------
(***************************************************************************)
(* run.  Its deferred calls are ticker.Stop, stop and engine.Close, in     *)
(* this order.                                                             *)
(***************************************************************************)

\* loadConfig, Geteuid or newEngine returns an error
LoadFails ==
  /\ MainStep("load", "exited") /\ exit' = "fatal"
  /\ UNCHANGED <<manager, engineVars, errCh, ctxDone, tick, notified>>

NotifyContext ==
  /\ MainStep("load", "start") /\ notified' = TRUE
  /\ UNCHANGED <<manager, engineVars, errCh, ctxDone, tick, exit>>

StartEngine ==
  /\ MainStep("start", "select")
  /\ engine = "none" /\ engine' = "install"
  /\ UNCHANGED <<manager, result, rules, sock, flags, errCh, ctxDone, tick, notified, exit>>

Tick ==
  /\ Running /\ main \in {"start", "select", "print", "await"} /\ ~tick /\ tick' = TRUE
  /\ UNCHANGED <<manager, main, notified, exit, engineVars, errCh, ctxDone>>

SelectTick ==
  /\ MainStep("select", "print") /\ tick /\ tick' = FALSE
  /\ UNCHANGED <<manager, engineVars, errCh, ctxDone, notified, exit>>

PrintStats ==
  /\ MainStep("print", "select")
  /\ UNCHANGED <<manager, engineVars, errCh, ctxDone, tick, notified, exit>>

SelectResultRetries ==
  /\ MainStep("select", IF errCh = <<"nil">> THEN "lastLine" ELSE "select")
  /\ errCh # << >> /\ errCh' = << >>
  /\ UNCHANGED <<manager, engineVars, ctxDone, tick, notified, exit>>

\* the result is received; on nil the last stats line is printed
SelectResult ==
  /\ MainStep("select", IF errCh = <<"nil">> THEN "lastLine" ELSE "stop")
  /\ errCh # << >> /\ errCh' = << >>
  /\ UNCHANGED <<manager, engineVars, ctxDone, tick, notified, exit>>

SelectDoneLeaves ==
  /\ MainStep("select", "lastLine") /\ ctxDone
  /\ UNCHANGED <<manager, engineVars, errCh, ctxDone, tick, notified, exit>>

SelectDoneStops ==
  /\ MainStep("select", "await") /\ ctxDone
  /\ notified' = FALSE
  /\ UNCHANGED <<manager, engineVars, errCh, ctxDone, tick, exit>>

SelectDone ==
  /\ MainStep("select", "await") /\ ctxDone
  /\ UNCHANGED <<manager, engineVars, errCh, ctxDone, tick, notified, exit>>

AwaitResultIgnored ==
  /\ MainStep("await", "lastLine")
  /\ errCh # << >> /\ errCh' = << >>
  /\ UNCHANGED <<manager, engineVars, ctxDone, tick, notified, exit>>

AwaitResult ==
  /\ MainStep("await", IF errCh = <<"nil">> THEN "lastLine" ELSE "stop")
  /\ errCh # << >> /\ errCh' = << >>
  /\ UNCHANGED <<manager, engineVars, ctxDone, tick, notified, exit>>

LastLine ==
  /\ MainStep("lastLine", "stopNil")
  /\ UNCHANGED <<manager, engineVars, errCh, ctxDone, tick, notified, exit>>

\* stop cancels ctx too
Stop(from, to) ==
  /\ MainStep(from, to) /\ notified' = FALSE /\ ctxDone' = TRUE
  /\ UNCHANGED <<manager, engineVars, errCh, tick, exit>>

\* engine.Close closes e.nfq, a second time if Run came to open it
Close(from, how) ==
  /\ MainStep(from, "exited") /\ exit' = how
  /\ sock' = IF sock = "none" THEN "none" ELSE "closed"
  /\ UNCHANGED <<manager, engine, result, rules, flags, errCh, ctxDone, tick, notified>>

Return ==
  \/ Stop("stop", "close") \/ Stop("stopNil", "closeNil")
  \/ Close("close", "fatal") \/ Close("closeNil", "ok")

Main ==
  \/ LoadFails \/ NotifyContext \/ StartEngine \/ SelectTick \/ PrintStats
  \/ SelectResult \/ SelectDone \/ AwaitResult \/ LastLine \/ Return

-----------------------------------------------------------------------------
(***************************************************************************)
(* nfQueueEngine.Run.  Its deferred calls are nfq.Close, once the queue is *)
(* open, and the Cleanup of the firewall, once Install has returned nil.   *)
(***************************************************************************)
Fail(to) == engine' = to /\ result' = "err"

InstallOK ==
  /\ EngineStep("install", "open")
  /\ rules' = (manager # "nil")
  /\ UNCHANGED <<manager, mainVars, result, sock, flags, errCh, ctxDone>>

\* Run returns at once: no deferred call is there yet.  autoFirewall has cleaned
\* up after each backend, the other managers have not
InstallFails ==
  /\ Running /\ manager # "nil" /\ engine = "install" /\ Fail("send")
  /\ installFailed' = TRUE
  /\ rules' \in BOOLEAN /\ cleanupFailed' = (manager = "auto" /\ rules')
  /\ UNCHANGED <<manager, mainVars, sock, errCh, ctxDone>>

Open ==
  /\ EngineStep("open", "option") /\ sock' = "open"
  /\ UNCHANGED <<manager, mainVars, result, rules, flags, errCh, ctxDone>>

OpenFails ==
  /\ Running /\ engine = "open" /\ Fail("cleanup")
  /\ UNCHANGED <<manager, mainVars, rules, sock, flags, errCh, ctxDone>>

SetOption ==
  /\ EngineStep("option", "register")
  /\ UNCHANGED <<manager, mainVars, result, rules, sock, flags, errCh, ctxDone>>

Register ==
  /\ EngineStep("register", "wait") /\ sock' = "bound"
  /\ UNCHANGED <<manager, mainVars, result, rules, flags, errCh, ctxDone>>

SetupFailsIgnored ==
  /\ Running /\ engine \in {"option", "register"}
  /\ engine' = IF engine = "option" THEN "register" ELSE "wait"
  /\ UNCHANGED <<manager, mainVars, result, rules, sock, flags, errCh, ctxDone>>

\* SetOption or RegisterWithErrorFunc fails
SetupFails ==
  /\ Running /\ engine \in {"option", "register"} /\ Fail("close")
  /\ UNCHANGED <<manager, mainVars, rules, sock, flags, errCh, ctxDone>>

WaitDoneNever ==
  /\ EngineStep("wait", "close") /\ FALSE /\ UNCHANGED vars

WaitDoneCleansFirst ==
  /\ EngineStep("wait", "close") /\ ctxDone /\ result' = "nil" /\ rules' = FALSE
  /\ UNCHANGED <<manager, mainVars, sock, flags, errCh, ctxDone>>

WaitDone ==
  /\ EngineStep("wait", "close") /\ ctxDone /\ result' = "nil"
  /\ UNCHANGED <<manager, mainVars, rules, sock, flags, errCh, ctxDone>>

CloseQueue ==
  /\ EngineStep("close", "cleanup") /\ sock' = "closed"
  /\ UNCHANGED <<manager, mainVars, result, rules, flags, errCh, ctxDone>>

CleanupFirewall ==
  /\ EngineStep("cleanup", "send")
  /\ rules' \in {FALSE, rules} /\ cleanupFailed' = rules'
  /\ UNCHANGED <<manager, mainVars, result, sock, installFailed, errCh, ctxDone>>

SendResultTwice ==
  /\ EngineStep("send", "done")
  /\ errCh' = errCh \o <<result, result>>
  /\ UNCHANGED <<manager, mainVars, result, rules, sock, flags, ctxDone>>

SendResult ==
  /\ EngineStep("send", "done") /\ Len(errCh) < 1
  /\ errCh' = Append(errCh, result)
  /\ UNCHANGED <<manager, mainVars, result, rules, sock, flags, ctxDone>>

Engine ==
  \/ InstallOK \/ InstallFails \/ Open \/ OpenFails \/ SetOption \/ Register \/ SetupFails
  \/ WaitDone \/ CloseQueue \/ CleanupFirewall \/ SendResult

-----------------------------------------------------------------------------
(***************************************************************************)
(* SIGINT or SIGTERM: the first one cancels ctx, later ones are received   *)
(* and ignored; where they are not received they kill the process.         *)
(***************************************************************************)
SignalCaught ==
  /\ Running /\ notified /\ ctxDone' = TRUE
  /\ UNCHANGED <<manager, mainVars, engineVars, errCh>>

SignalKills ==
  /\ Running /\ ~notified /\ exit' = "killed"
  /\ UNCHANGED <<manager, main, tick, notified, engineVars, errCh, ctxDone>>

Ended == ~Running /\ UNCHANGED vars

Next == Main \/ Engine \/ Tick \/ SignalCaught \/ SignalKills \/ Ended

Spec == Init /\ [][Next]_vars

(***************************************************************************)
(* Both goroutines are scheduled, and select takes every case that stays   *)
(* ready sooner or later, however often the ticker is ready too.           *)
(***************************************************************************)
FairSpec ==
  /\ Spec
  /\ WF_vars(Main) /\ WF_vars(Engine)
  /\ SF_vars(SelectDone) /\ SF_vars(SelectResult)

-----------------------------------------------------------------------------
(***************************************************************************)
(* Type invariant: errCh, of capacity 1, never holds more than one result. *)
(***************************************************************************)
TypeOK ==
  /\ manager \in {"nil", "single", "auto"}
  /\ main \in {"load", "start", "select", "print", "await", "lastLine", "stop", "stopNil",
               "close", "closeNil", "exited"}
  /\ engine \in {"none", "install", "open", "option", "register", "wait", "close",
                 "cleanup", "send", "done"}
  /\ result \in {"none", "nil", "err"}
  /\ errCh \in {<< >>, <<"nil">>, <<"err">>}
  /\ sock \in {"none", "open", "bound", "closed"}
  /\ exit \in {"running", "ok", "fatal", "killed"}
  /\ {tick, ctxDone, notified, rules, installFailed, cleanupFailed} \subseteq BOOLEAN

(***************************************************************************)
(* The process never returns from main before Run and its deferred calls   *)
(* are through: whichever case of select ended the loop, no open queue and  *)
(* no rule remains, unless Cleanup itself failed or the Install of a       *)
(* single backend did.                                                     *)
(***************************************************************************)
ExitClean ==
  exit \in {"ok", "fatal"} =>
    /\ sock \in {"none", "closed"}
    /\ cleanupFailed \/ (installFailed /\ manager # "auto") \/ ~rules

(***************************************************************************)
(* A second Ctrl+C during shutdown does not kill the process half way: a   *)
(* signal kills it only before the rules are installed or after they are   *)
(* removed.                                                                *)
(***************************************************************************)
KilledLeavesNoRules == exit = "killed" /\ ~installFailed /\ ~cleanupFailed => ~rules

(***************************************************************************)
(* The listener is bound only while the rules are there: it comes after    *)
(* Install and, the deferred calls being LIFO, goes before Cleanup.        *)
(***************************************************************************)
BoundOnlyWithRules == sock = "bound" /\ manager # "nil" => rules

(***************************************************************************)
(* An error of the engine is never lost: the exit status is that of Run    *)
(* even when a signal made main leave the loop first.                      *)
(***************************************************************************)
ErrorReported == (exit = "ok" => result = "nil") /\ (exit = "fatal" => result # "nil")

(***************************************************************************)
(* After a signal the process ends.                                        *)
(***************************************************************************)
SignalEnds == ctxDone ~> ~Running

(***************************************************************************)
(* When Run fails, the process ends, although nobody cancelled ctx.        *)
(***************************************************************************)
EngineErrorEnds == result = "err" ~> ~Running

(***************************************************************************)
(* Matching packets are without a listener (dropped, unless fail_open is   *)
(* set) only for a while: once rules are there, the queue is bound or the  *)
(* rules go, whatever call fails in between, unless Install or Cleanup     *)
(* failed to remove them.                                                  *)
(***************************************************************************)
BlackoutEnds ==
  rules /\ sock # "bound" ~> sock = "bound" \/ ~rules \/ installFailed \/ cleanupFailed
=============================================================================
