------------------------------- MODULE AppConfig -------------------------------
(***************************************************************************)
(* loadConfig.  A file has the fields it sets, each with its value, and    *)
(* those it sets to null.  A choice is taken as the word left when it is   *)
(* trimmed and lower-cased, and the way it is spelled; of the rules only   *)
(* whether compileRuleSet takes them (module Rules has the rest).          *)
(***************************************************************************)
EXTENDS Integers, Sequences, FiniteSets, SequencesExt

Choice(w) == [word |-> w, spelled |-> "plain"]

Backend == {"auto", "nftables", "nft", "iptables", "iptables-legacy", "none", "disabled"}
Hook == {"input", "output", "forward"}

AllHooks == <<Choice("input"), Choice("output"), Choice("forward")>>

\* the AppConfig that is decoded into
Default ==
  [engine |-> Choice("nfqueue"), statsInterval |-> [form |-> "blank"], rules |-> "compile",
   queueNum |-> 100, backend |-> Choice("auto"), installRules |-> TRUE, chains |-> AllHooks,
   capture |-> Choice("l7"), failOpen |-> FALSE, dnsMode |-> Choice("nxdomain")]

defaultStatsInterval == 5

normalizeChoice(raw, fallback) == IF raw.word = "" THEN fallback ELSE raw.word

\* a field that is missing, or null, keeps what was there; a null list is nil
Decode(file) ==
  [f \in DOMAIN Default |->
     IF f \in DOMAIN file.fields THEN file.fields[f]
     ELSE IF f = "chains" /\ f \in file.nulls THEN << >>
     ELSE Default[f]]

\* strings.TrimSpace leaves nothing of a blank one; ParseDuration knows no junk
statsEvery(raw) == IF raw.form = "number" THEN raw.seconds ELSE defaultStatsInterval

IntervalParses(raw) == raw.form # "junk"

IntervalOK(raw) == raw.form # "junk" /\ statsEvery(raw) > 0

Normalized(c) ==
  [engine       |-> normalizeChoice(c.engine, "nfqueue"),
   rules        |-> c.rules,
   queueNum     |-> IF c.queueNum = 0 THEN 100 ELSE c.queueNum,
   backend      |-> normalizeChoice(c.backend, "auto"),
   installRules |-> c.installRules,
   chains       |-> IF c.chains = << >> THEN AllHooks ELSE c.chains,
   capture      |-> normalizeChoice(c.capture, "l7"),
   failOpen     |-> c.failOpen,
   dnsMode      |-> normalizeChoice(c.dnsMode, "nxdomain")]

validateNFQueueConfig(c) ==
  /\ c.backend \in Backend
  /\ c.capture \in {"l7", "all"}
  /\ c.dnsMode \in {"nxdomain", "drop"}
  /\ \A i \in DOMAIN c.chains : normalizeChoice(c.chains[i], "") \in Hook

Refused(why) == [ok |-> FALSE, why |-> why]

\* the first check that fails is the error
loadConfig(file) ==
  LET raw == Decode(file)
      cfg == Normalized(raw)
  IN  IF file.is # "valid" THEN Refused("file")
      ELSE IF cfg.engine \notin {"nfqueue", "af_xdp", "xdp_fast_path"} THEN Refused("engine")
      ELSE IF ~IntervalOK(raw.statsInterval) THEN Refused("stats_interval")
      ELSE IF ~validateNFQueueConfig(cfg) THEN Refused("nfqueue")
      ELSE IF cfg.rules # "compile" THEN Refused("rules")
      ELSE [ok |-> TRUE, cfg |-> cfg, every |-> statsEvery(raw.statsInterval)]
===============================================================================
