----------------------------- MODULE FirewallSpec ------------------------------
(***************************************************************************)
(* What nfQueueEngine.Run relies on in a FirewallManager, whatever it runs *)
(* to install and remove its rules: it touches no rule but its own and     *)
(* none while it is not called, Install returns nil only when one backend  *)
(* is complete, and Cleanup returns with none of its rules left unless a   *)
(* deletion failed.  The rules of the kernel outlive the process.          *)
(***************************************************************************)
CONSTANT Manager  \* managers: their rules, those of each backend, and whether
                  \* Install undoes what it did before it returns an error

VARIABLES
  manager,  \* the manager of the process, or of the next one
  phase,    \* what Run has called: "down", "installing", "up", "cleaning"
  failed,   \* a deletion of this process failed
  present   \* rules in the kernel

vars == <<manager, phase, failed, present>>

Init == manager \in Manager /\ phase = "down" /\ failed = FALSE /\ present = {}

Clean == manager.own \cap present = {}

newFirewallManager ==
  /\ phase = "down" /\ manager' \in Manager /\ failed' = FALSE
  /\ UNCHANGED <<phase, present>>

\* without a manager Run goes on at once
Install ==
  /\ phase = "down"
  /\ phase' = IF manager.backends = {} THEN "up" ELSE "installing"
  /\ failed' = FALSE
  /\ UNCHANGED <<manager, present>>

\* a command of Install, or one of the Cleanup that Install calls
Command ==
  /\ phase = "installing"
  /\ \E r \in manager.own : present' \in {present \cup {r}, present \ {r}}
  /\ UNCHANGED <<manager, phase, failed>>

InstallOK ==
  /\ phase = "installing" /\ phase' = "up"
  /\ \E b \in manager.backends : b \subseteq present
  /\ UNCHANGED <<manager, failed, present>>

\* Install may be interrupted by the command that added its last rule
InstallFails ==
  /\ phase = "installing" /\ phase' = "down"
  /\ \E r \in manager.own : present' \in {present, present \cup {r}}
  /\ manager.undoes => failed \/ (Clean /\ present' = present)
  /\ UNCHANGED <<manager, failed>>

Leave ==
  /\ phase = "up" /\ phase' = "cleaning"
  /\ UNCHANGED <<manager, failed, present>>

Remove ==
  /\ phase = "cleaning"
  /\ \E r \in manager.own : present' = present \ {r}
  /\ UNCHANGED <<manager, phase, failed>>

DeletionFails ==
  /\ phase \in {"installing", "cleaning"} /\ failed' = TRUE
  /\ UNCHANGED <<manager, phase, present>>

Cleanup ==
  /\ phase = "cleaning" /\ phase' = "down"
  /\ failed \/ Clean
  /\ UNCHANGED <<manager, failed, present>>

Die ==
  /\ phase # "down" /\ phase' = "down"
  /\ UNCHANGED <<manager, failed, present>>

Next ==
  \/ newFirewallManager \/ Install \/ Command \/ InstallOK \/ InstallFails
  \/ Leave \/ Remove \/ DeletionFails \/ Cleanup \/ Die

Spec == Init /\ [][Next]_vars
================================================================================
