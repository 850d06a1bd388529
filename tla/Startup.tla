-------------------------------- MODULE Startup --------------------------------
(***************************************************************************)
(* run up to its loop: loadConfig, the checks that follow, newEngine and   *)
(* the ticker.  The choices that loadConfig has checked are taken apart    *)
(* again by newEngine and newFirewallManager, whose switches have lists of *)
(* their own, and by normalizedChains when the rules are written.  The names of  *)
(* its specification leave those of Firewall free, so that one module can  *)
(* reason about both.                                                      *)
(***************************************************************************)
EXTENDS FirewallRules

CONSTANTS
  File,     \* configuration files
  ToolSet   \* what may be in PATH

\* the strings of a list that is decoded, as AppConfig takes them
WellFormed(f) ==
  "chains" \in DOMAIN f.fields => f.fields.chains \in Seq([word : STRING, spelled : STRING])

ASSUME FileAssumption == \A f \in File : WellFormed(f)

VARIABLES
  file,    \* the configuration file
  tools,   \* the tools in PATH
  at,      \* the step of run
  loaded,  \* the result of loadConfig
  error    \* why run returned, "panic" if it did not get to

bootVars == <<file, tools, at, loaded, error>>

BootInit ==
  /\ file \in File /\ tools \in ToolSet
  /\ at = "args" /\ loaded = Refused("none") /\ error = "none"

Go(from, to) == at = from /\ at' = to

Fail(why) == at' = "returned" /\ error' = why

\* flag.NArg() != 0
BadArgs ==
  /\ at = "args" /\ Fail("args")
  /\ UNCHANGED <<file, tools, loaded>>

Load ==
  /\ at = "args"
  /\ loaded' = loadConfig(file)
  /\ IF loadConfig(file).ok THEN at' = "root" /\ UNCHANGED error
     ELSE Fail(loadConfig(file).why)
  /\ UNCHANGED <<file, tools>>

NotRoot ==
  /\ at = "root" /\ Fail("root")
  /\ UNCHANGED <<file, tools, loaded>>

Root ==
  /\ Go("root", "engine")
  /\ UNCHANGED <<file, tools, loaded, error>>

NFQueue ==
  [backend |-> loaded.cfg.backend, installRules |-> loaded.cfg.installRules,
   chains |-> loaded.cfg.chains, capture |-> loaded.cfg.capture, tools |-> tools]

\* the error of newEngine, newNFQueueEngine or newFirewallManager
EngineError ==
  IF loaded.cfg.engine \in {"af_xdp", "xdp_fast_path"} THEN "not implemented"
  ELSE IF loaded.cfg.engine # "nfqueue" THEN "unknown engine"
  ELSE IF loaded.cfg.rules # "compile" THEN "rules"
  ELSE IF NoManager(NFQueue) THEN "none"
  ELSE IF loaded.cfg.backend \notin {"auto", "nft", "nftables", "iptables", "iptables-legacy"}
  THEN "unknown backend"
  ELSE IF ManagerFails(NFQueue) THEN "no tool" ELSE "none"

newEngine ==
  /\ at = "engine"
  /\ IF EngineError = "none" THEN at' = "ticker" /\ UNCHANGED error ELSE Fail(EngineError)
  /\ UNCHANGED <<file, tools, loaded>>

\* time.NewTicker panics unless the interval is positive
NewTicker ==
  /\ at = "ticker"
  /\ IF loaded.every > 0 THEN at' = "started" /\ UNCHANGED error ELSE Fail("panic")
  /\ UNCHANGED <<file, tools, loaded>>

Done == at \in {"started", "returned"} /\ UNCHANGED bootVars

BootNext == BadArgs \/ Load \/ NotRoot \/ Root \/ newEngine \/ NewTicker \/ Done

BootSpec == BootInit /\ [][BootNext]_bootVars

-----------------------------------------------------------------------------
(***************************************************************************)
(* What loadConfig accepts, the rest of the program can use: no switch     *)
(* falls to its default, no rule fails to compile the second time, and the *)
(* ticker does not panic.                                                  *)
(***************************************************************************)
AcceptedUsable ==
  loaded.ok => error \notin {"unknown engine", "unknown backend", "rules", "panic"}

\* the hooks a reader of the file expects: those it lists, or all three
Meant ==
  IF "chains" \in DOMAIN file.fields /\ file.fields.chains # << >>
  THEN {file.fields.chains[i].word : i \in DOMAIN file.fields.chains} ELSE Hook

(***************************************************************************)
(* A filter that started with a firewall manager queues at exactly the     *)
(* hooks the file means, each once however often and in whatever spelling  *)
(* it is listed: no file starts a filter that selects nothing.             *)
(***************************************************************************)
HooksAsMeant ==
  at = "started" /\ ~NoManager(NFQueue) =>
    LET chains == normalizedChains(loaded.cfg.chains)
    IN  /\ ToSet(chains) = Meant /\ Meant \subseteq Hook
        /\ Len(chains) = Cardinality(Meant)
===============================================================================
