------------------------------- MODULE Firewall -------------------------------
(***************************************************************************)
(* The firewall managers that newFirewallManager chooses (FirewallRules):  *)
(* Install and Cleanup of nftFirewall, iptablesFirewall and autoFirewall   *)
(* run as sequences of external commands.  One step is one command (or one *)
(* turn of a loop), so a signal, a failing command or the death of the     *)
(* process can fall between any two of them.  The rule tables of the       *)
(* kernel outlive the process, which is started again any number of times, *)
(* with the same configuration or another one.                             *)
(***************************************************************************)
EXTENDS FirewallRules

CONSTANTS
  Config,           \* the configurations to consider, with the tools in PATH
  DeleteTries,      \* turns of the loop of deleteIPTablesRule (20)
  MaxDeleteFaults,  \* bound: deletions that fail although the rule is there
  MaxCrashes,       \* bound: processes that die without running a defer
  MaxChanges        \* bound: changes of the configuration between two processes

ASSUME FirewallAssumption ==
  /\ \A c \in Config : /\ c.backend \in Backend
                       /\ c.installRules \in BOOLEAN
                       /\ c.capture \in {"l7", "all"}
                       /\ c.tools \subseteq Tool
                       /\ c.chains \in Seq([word : STRING, spelled : STRING])
                       /\ c.queueNum \in Nat /\ c.failOpen \in BOOLEAN
  /\ DeleteTries \in Nat \ {0}
  /\ MaxDeleteFaults \in Nat /\ MaxCrashes \in Nat /\ MaxChanges \in Nat

VARIABLES
  cfg,           \* the configuration of the process, or of the next one
  table,         \* copies of each of our rules in the kernel
  mode,          \* what the process is doing
  cand,          \* index of the candidate that Install is at
  todo,          \* rules the current loop still has to insert or delete
  tries,         \* deletions of Head(todo) so far
  cancelled,     \* ctx is done
  exit,          \* how the last process ended
  dirty,         \* this process failed to delete a rule when it cleaned up
  deleteFaults,  \* deletions that failed, over all processes
  crashes,       \* processes that died
  changes,       \* changes of the configuration
  unclean        \* history: configurations whose last process may have left rules

process == <<mode, cand, todo, tries, cancelled, exit, dirty>>
counts == <<deleteFaults, crashes, changes>>
vars == <<cfg, table, process, counts, unclean>>

-----------------------------------------------------------------------------
RuleSpace == UNION {ToSet(Rules(c, Label[i])) : c \in Config, i \in 1 .. 3}

Init ==
  /\ cfg \in Config
  /\ table = [r \in RuleSpace |-> 0]
  /\ mode = "down" /\ cand = 0 /\ todo = << >> /\ tries = 0
  /\ cancelled = FALSE /\ exit = "none" /\ dirty = FALSE
  /\ deleteFaults = 0 /\ crashes = 0 /\ changes = 0 /\ unclean = {}

-----------------------------------------------------------------------------
(***************************************************************************)
(* Phases of a process: "preclean" and "insert" of a candidate's Install,  *)
(* "undo" when autoFirewall cleans up after a failed one, "up" from the    *)
(* return of Install to the deferred calls of Run, "cleanup" in them.      *)
(***************************************************************************)
Enter(m, i, rules) == mode' = m /\ cand' = i /\ todo' = rules /\ tries' = 0

\* what the configurations in unclean become when a process with cfg ends
Suspect == unclean \cup {cfg}
Trusted == IF dirty THEN unclean ELSE unclean \ {cfg}

End(how, suspects) ==
  Enter("down", 0, << >>) /\ exit' = how /\ unclean' = suspects

NextRule == todo' = Tail(todo) /\ tries' = 0 /\ UNCHANGED <<mode, cand>>

Refuse ==
  /\ mode = "down" /\ ManagerFails(cfg)
  /\ exit' = "refused"
  /\ UNCHANGED <<cfg, table, mode, cand, todo, tries, cancelled, dirty, counts, unclean>>

StartWithoutPreclean ==
  /\ mode = "down" /\ ~ManagerFails(cfg)
  /\ IF NoManager(cfg) THEN Enter("up", 0, << >>)
     ELSE Enter("insert", 1, RulesOf(cfg, 1))
  /\ cancelled' = FALSE /\ dirty' = FALSE /\ exit' = "none"
  /\ UNCHANGED <<cfg, table, counts, unclean>>

Start ==
  /\ mode = "down" /\ ~ManagerFails(cfg)
  /\ IF NoManager(cfg) THEN Enter("up", 0, << >>)
     ELSE Enter("preclean", 1, RulesOf(cfg, 1))
  /\ cancelled' = FALSE /\ dirty' = FALSE /\ exit' = "none"
  /\ UNCHANGED <<cfg, table, counts, unclean>>

\* Install cleans up under ctx, Run and autoFirewall under context.Background
Deleting == mode \in {"preclean", "undo", "cleanup"} /\ todo # << >>
CommandsRun == mode \in {"undo", "cleanup"} \/ ~cancelled

Present == table[Head(todo)] > 0

DeleteUnchecked ==
  /\ Deleting /\ CommandsRun
  /\ table' = [table EXCEPT ![Head(todo)] = @ - 1]
  /\ NextRule
  /\ UNCHANGED <<cfg, cancelled, exit, dirty, counts, unclean>>

DeleteFlushesChain ==
  /\ Deleting /\ CommandsRun /\ Present
  /\ table' = [r \in RuleSpace |->
                 IF r.bin = Head(todo).bin /\ r.chain = Head(todo).chain THEN 0 ELSE table[r]]
  /\ NextRule
  /\ UNCHANGED <<cfg, cancelled, exit, dirty, counts, unclean>>

\* nft deletes the table; iptables one copy, and goes on until it fails
Delete ==
  /\ Deleting /\ CommandsRun /\ Present
  /\ IF Head(todo) = nftTable
     THEN table' = [table EXCEPT ![nftTable] = 0] /\ NextRule
     ELSE /\ table' = [table EXCEPT ![Head(todo)] = @ - 1]
          /\ IF tries + 1 < DeleteTries
             THEN tries' = tries + 1 /\ UNCHANGED <<mode, cand, todo>>
             ELSE NextRule
  /\ UNCHANGED <<cfg, cancelled, exit, dirty, counts, unclean>>

DeleteRetriesForever ==
  /\ Deleting /\ ~(CommandsRun /\ Present)
  /\ UNCHANGED vars

\* the command fails, nothing to delete or ctx done: on to the next rule
DeleteNothing ==
  /\ Deleting /\ ~(CommandsRun /\ Present)
  /\ NextRule
  /\ UNCHANGED <<cfg, table, cancelled, exit, dirty, counts, unclean>>

\* the command fails for another reason, and the rule stays
DeleteFails ==
  /\ Deleting /\ CommandsRun /\ Present
  /\ deleteFaults < MaxDeleteFaults
  /\ deleteFaults' = deleteFaults + 1
  /\ dirty' = (dirty \/ mode # "preclean")
  /\ unclean' = IF mode = "preclean" THEN unclean ELSE Suspect
  /\ NextRule
  /\ UNCHANGED <<cfg, table, cancelled, exit, crashes, changes>>

PrecleanDone ==
  /\ mode = "preclean" /\ todo = << >>
  /\ Enter("insert", cand, RulesOf(cfg, cand))
  /\ UNCHANGED <<cfg, table, cancelled, exit, dirty, counts, unclean>>

-----------------------------------------------------------------------------
(***************************************************************************)
(* Inserting.  An error ends Install: autoFirewall cleans up and tries the *)
(* next candidate, the other managers return it, and then Run returns too. *)
(***************************************************************************)
Inserting == mode = "insert" /\ todo # << >>
AddRule == table' = [table EXCEPT ![Head(todo)] = @ + 1]

InstallErrorWithoutUndo ==
  IF IsAuto(cfg) /\ cand < Len(Candidates(cfg))
  THEN Enter("preclean", cand + 1, RulesOf(cfg, cand + 1)) /\ UNCHANGED <<exit, unclean>>
  ELSE End("failed", Trusted)

InstallError ==
  IF IsAuto(cfg) THEN Enter("undo", cand, RulesOf(cfg, cand)) /\ UNCHANGED <<exit, unclean>>
  ELSE End("failed", Suspect)

Insert ==
  /\ Inserting /\ ~cancelled
  /\ AddRule /\ NextRule
  /\ UNCHANGED <<cfg, cancelled, exit, dirty, counts, unclean>>

InsertFailsIgnored ==
  /\ Inserting
  /\ NextRule
  /\ UNCHANGED <<cfg, table, cancelled, exit, dirty, counts, unclean>>

\* the command fails: ctx is done, no permission, no kernel support, ...
InsertFails ==
  /\ Inserting
  /\ InstallError
  /\ UNCHANGED <<cfg, table, cancelled, dirty, counts>>

\* the signal arrives when the command has inserted the rule but still runs:
\* CommandContext kills it, and Run reports an error
InsertKilled ==
  /\ Inserting /\ ~cancelled
  /\ AddRule /\ InstallError
  /\ cancelled' = TRUE
  /\ UNCHANGED <<cfg, dirty, counts>>

InsertDone ==
  /\ mode = "insert" /\ todo = << >>
  /\ Enter("up", cand, << >>)
  /\ UNCHANGED <<cfg, table, cancelled, exit, dirty, counts, unclean>>

UndoDone ==
  /\ mode = "undo" /\ todo = << >>
  /\ IF cand < Len(Candidates(cfg))
     THEN Enter("preclean", cand + 1, RulesOf(cfg, cand + 1)) /\ UNCHANGED <<exit, unclean>>
     ELSE End("failed", Trusted)
  /\ UNCHANGED <<cfg, table, cancelled, dirty, counts>>

LeaveUpActiveOnly ==
  /\ mode = "up"
  /\ Enter("cleanup", cand, IF cand = 0 THEN << >> ELSE RulesOf(cfg, cand))
  /\ UNCHANGED <<cfg, table, cancelled, exit, dirty, counts, unclean>>

\* Run returns, on ctx.Done or on an error of the queue: Cleanup is deferred
LeaveUp ==
  /\ mode = "up"
  /\ Enter("cleanup", cand, AllRules(cfg))
  /\ UNCHANGED <<cfg, table, cancelled, exit, dirty, counts, unclean>>

CleanupDone ==
  /\ mode = "cleanup" /\ todo = << >>
  /\ End("ended", Trusted)
  /\ UNCHANGED <<cfg, table, cancelled, dirty, counts>>

Cancel ==
  /\ mode # "down" /\ ~cancelled
  /\ cancelled' = TRUE
  /\ UNCHANGED <<cfg, table, mode, cand, todo, tries, exit, dirty, counts, unclean>>

Crash ==
  /\ mode # "down" /\ crashes < MaxCrashes
  /\ crashes' = crashes + 1
  /\ End("crash", Suspect)
  /\ UNCHANGED <<cfg, table, cancelled, dirty, deleteFaults, changes>>

\* another file, or other tools in PATH, for the next process
Reconfigure ==
  /\ mode = "down" /\ changes < MaxChanges
  /\ cfg' \in Config \ {cfg}
  /\ changes' = changes + 1
  /\ exit' = "none" /\ dirty' = FALSE
  /\ UNCHANGED <<table, mode, cand, todo, tries, cancelled, deleteFaults, crashes, unclean>>

Program ==
  \/ Delete \/ DeleteNothing \/ DeleteFails \/ PrecleanDone
  \/ Insert \/ InsertFails \/ InsertKilled \/ InsertDone
  \/ UndoDone \/ CleanupDone

Next == Program \/ LeaveUp \/ Refuse \/ Start \/ Cancel \/ Crash \/ Reconfigure

Spec == Init /\ [][Next]_vars

(***************************************************************************)
(* Every command ends, and Run returns once ctx is done.                   *)
(***************************************************************************)
FairSpec == Spec /\ WF_vars(Program) /\ WF_vars(cancelled /\ LeaveUp)

-----------------------------------------------------------------------------
(***************************************************************************)
(* Type invariant: a table never holds a negative number of copies, and the*)
(* delete loop of deleteIPTablesRule stays within its turns.               *)
(***************************************************************************)
TypeOK ==
  /\ cfg \in Config
  /\ table \in [RuleSpace -> Nat]
  /\ mode \in {"down", "preclean", "insert", "undo", "up", "cleanup"}
  /\ cand \in 0 .. 3
  /\ todo \in Seq(RuleSpace) /\ tries \in 0 .. DeleteTries - 1
  /\ cancelled \in BOOLEAN /\ dirty \in BOOLEAN
  /\ exit \in {"none", "ended", "failed", "crash", "refused"}
  /\ deleteFaults \in Nat /\ crashes \in Nat /\ changes \in Nat
  /\ unclean \subseteq Config

(***************************************************************************)
(* Restarts do not pile rules up: whatever crashed, failed or was          *)
(* cancelled before, a rule has more than one copy only for each deletion  *)
(* that failed.                                                            *)
(***************************************************************************)
CopiesBounded == \A r \in RuleSpace : table[r] <= 1 + deleteFaults

(***************************************************************************)
(* Once Install has returned nil, every rule of the backend it installed   *)
(* is in the kernel: a cancelled or failed command never goes unnoticed.   *)
(***************************************************************************)
CompleteWhenUp ==
  mode = "up" /\ cand # 0 => \A r \in ToSet(RulesOf(cfg, cand)) : table[r] >= 1

OwnRules == ToSet(AllRules(cfg))

(***************************************************************************)
(* Every rule in the kernel can be traced: while the process is up it is a *)
(* rule of the one backend that Install settled on, so no packet is queued *)
(* twice, and while no process runs there is none; any other rule is one   *)
(* that a process with a configuration in unclean wrote (it died, Install  *)
(* of its single backend failed, or a deletion did), and that a process    *)
(* started and stopped with that configuration would remove, however the   *)
(* configuration has changed since.                                        *)
(***************************************************************************)
RulesTraceable ==
  mode \in {"down", "up"} =>
    \A r \in RuleSpace :
      table[r] > 0 =>
        \/ mode = "up" /\ cand # 0 /\ r \in ToSet(RulesOf(cfg, cand))
        \/ \E c \in unclean : r \in ToSet(AllRules(c))

(***************************************************************************)
(* A process that came up and stopped leaves none of the rules that its    *)
(* configuration names, not even one left by a process that crashed before *)
(* it, if its own deletions worked; with firewall_backend auto, neither    *)
(* does one whose Install failed.                                          *)
(***************************************************************************)
CleanExit ==
  /\ exit = "ended" \/ (exit = "failed" /\ IsAuto(cfg))
  /\ ~dirty
  => \A r \in OwnRules : table[r] = 0

(***************************************************************************)
(* README, Firewall Cleanup: rules are removed on a clean shutdown, and    *)
(* only a crash may require manual cleanup.                                *)
(***************************************************************************)
StoppedClean ==
  exit \in {"ended", "failed"} /\ ~dirty /\ crashes = 0 =>
    \A r \in RuleSpace : table[r] = 0

(***************************************************************************)
(* After SIGINT or SIGTERM the process stops, in whatever command of       *)
(* Install or Cleanup it was, and however many commands fail.              *)
(***************************************************************************)
SignalStops == cancelled ~> mode = "down"

-----------------------------------------------------------------------------
ManagerOf(c) ==
  [own      |-> ToSet(AllRules(c)),
   backends |-> {ToSet(RulesOf(c, i)) : i \in DOMAIN Candidates(c)},
   undoes   |-> IsAuto(c)]

ManagerFor == [c \in Config |-> ManagerOf(c)]
Managers == {ManagerFor[c] : c \in Config}

Phase ==
  CASE mode \in {"preclean", "insert", "undo"} -> "installing"
    [] mode = "cleanup" -> "cleaning"
    [] OTHER -> mode

Contract ==
  INSTANCE FirewallSpec WITH
    Manager <- Managers,
    manager <- ManagerFor[cfg],
    phase   <- Phase,
    failed  <- dirty,
    present <- {r \in RuleSpace : table[r] > 0}

(***************************************************************************)
(* The managers keep the contract of FirewallManager that Run relies on,   *)
(* command by command: each touches only its own rules, adds none in       *)
(* Cleanup, and changes nothing while Run is up or no process runs.        *)
(***************************************************************************)
KeepsContract == Contract!Spec
=============================================================================
