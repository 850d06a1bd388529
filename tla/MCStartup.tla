------------------------------- MODULE MCStartup -------------------------------
(***************************************************************************)
(* Instances of Startup for TLC: files that set one or two fields, in      *)
(* every combination of the values below.                                  *)
(***************************************************************************)
EXTENDS Startup

Spelled(w, s) == [word |-> w, spelled |-> s]

Words(words) == {Choice(w) : w \in words \cup {"", "typo"}}

Values ==
  [engine |-> Words({"nfqueue", "af_xdp", "xdp_fast_path"}),
   statsInterval |-> {[form |-> "blank"], [form |-> "junk"]}
                       \cup {[form |-> "number", seconds |-> n] : n \in {-1, 0, 1}},
   rules |-> {"compile", "fail"},
   queueNum |-> {0, 7},
   backend |-> Words(Backend),
   installRules |-> BOOLEAN,
   chains |-> {<< >>, <<Choice("")>>, <<Choice("input"), Choice("typo")>>,
               <<Choice("output"), Spelled("output", "upper")>>,
               <<Choice("forward"), Choice("input")>>},
   capture |-> Words({"l7", "all"}),
   failOpen |-> BOOLEAN,
   dnsMode |-> Words({"nxdomain", "drop"})]

Fields == DOMAIN Values

FileOf(r) == [is |-> "valid", fields |-> r, nulls |-> {}]

MCFile ==
  UNION {{FileOf(f :> v @@ g :> w) : v \in Values[f], w \in Values[g]} : f, g \in Fields}
    \cup {[is |-> "valid", fields |-> f :> v, nulls |-> {g}] :
            f \in {"failOpen"}, v \in BOOLEAN, g \in Fields \ {"failOpen"}}
    \cup {[is |-> how, fields |-> "failOpen" :> TRUE, nulls |-> {}] : how \in {"missing", "malformed"}}

MCToolSet == {{}, {"nft"}, {"iptables"}, Tool}
===============================================================================
