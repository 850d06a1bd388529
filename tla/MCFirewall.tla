------------------------------ MODULE MCFirewall ------------------------------
(***************************************************************************)
(* Instances of Firewall for TLC.                                          *)
(***************************************************************************)
EXTENDS Firewall

Raw(w, s) == [word |-> w, spelled |-> s]

\* a chain named twice, spelled differently
Chains == <<Raw("input", "lower"), Raw("input", "upper")>>

Cfg(b, inst, capture, tools) ==
  [backend |-> b, installRules |-> inst, capture |-> capture,
   tools |-> tools, chains |-> Chains, queueNum |-> 100, failOpen |-> FALSE]

\* iptables for both families, as the finding about leftover rules needs it
IptablesConfigs == {Cfg("iptables", TRUE, "l7", {"iptables", "ip6tables"})}

\* configurations that follow one another: other rules of the same backend
\* (queue_num, fail_open, capture, a tool that is gone), a manager that tries
\* three backends, one that newFirewallManager refuses, and none
ChangingConfigs ==
  LET ipt == Cfg("iptables", TRUE, "all", {"iptables", "ip6tables"})
  IN  {ipt,
       [ipt EXCEPT !.queueNum = 7, !.failOpen = TRUE, !.capture = "l7", !.tools = {"iptables"}],
       Cfg("auto", TRUE, "all", {"nft", "iptables", "iptables-legacy"}),
       Cfg("auto", TRUE, "all", {"ip6tables"}),
       Cfg("none", TRUE, "all", Tool)}
===============================================================================
