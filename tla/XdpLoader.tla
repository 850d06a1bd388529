------------------------------- MODULE XdpLoader -------------------------------
(***************************************************************************)
(* xdp.go: NewXDPFilter with its failing steps, the calls that add rules,  *)
(* and Close, as one goroutine makes them.  normalizeDomain is the same    *)
(* text as in rules.go, and addresses and prefixes are those of module     *)
(* Rules.  The maps and programs are the kernel's: they are seen by the    *)
(* packets of module XdpPath while they change.                            *)
(***************************************************************************)
EXTENDS Rules

CONSTANTS
  Bytes,            \* length of a token in bytes
  Mode,             \* values of the mode argument
  DomainCall,       \* arguments of AddDomainRule: domain and flags
  PrefixCall,       \* arguments of AddCIDR
  PortCall,         \* arguments of AddIPPort: addr, port, proto
  MaxEntries,       \* max_entries of a rule map (2048 and 4096)
  MaxLookupFaults   \* bound: lookups that fail although the key is there

VARIABLES
  at,            \* where NewXDPFilter or Close is, "up" in between
  mode,          \* the mode argument
  open,          \* programs and maps of which the process holds a descriptor
  dispatch,      \* dispatch_rules, 0 .. 11
  attached,      \* xdp_filter is attached to the interface
  domains,       \* domain_rules: flags by key
  cidrs,         \* cidr_rules and cidr_v6_rules
  ipPorts,       \* ip_port_rules and ip_port_v6_rules
  call,          \* AddDomainRule between its Lookup and its Put
  acked,         \* history: rules whose Add has returned nil, but for domain flags
                 \* that a later Add overwrote after its lookup had failed
  lookupFaults   \* lookups that failed although the key was there

ruleVars == <<domains, cidrs, ipPorts, call, acked, lookupFaults>>
loaderVars == <<at, mode, open, dispatch, attached, ruleVars>>

-----------------------------------------------------------------------------
maxDomainLen == 64
Flag == {"http", "tls", "dns"}

ASSUME CallAssumption ==
  /\ \A c \in DomainCall : c.flags \subseteq Flag
  /\ \A c \in PortCall : c.addr \in [kind : {"4", "6", "4in6"}, bits : Seq({0, 1})]

\* the order in which populateDispatchRules takes the programs
Programs ==
  <<"ipv4", "ipv6", "tcp4", "udp4", "tcp6", "udp6",
    "http4", "tls4", "http6", "tls6", "dns4", "dns6">>

Object ==
  {"xdp_filter"} \cup ToSet(Programs)
    \cup {"dispatch_rules", "scratch_domain", "domain_rules", "cidr_rules",
          "cidr_v6_rules", "ip_port_rules", "ip_port_v6_rules", "stats"}

NoProgram == [i \in 0 .. 11 |-> "none"]

xdpAttachFlags(m) ==
  CASE m \in {"", "generic"}       -> OK("generic")
    [] m \in {"driver", "native"}  -> OK("driver")
    [] m = "auto"                  -> OK("any")
    [] OTHER                       -> Error

ByteLen(s) == FoldLeft(+, 0, [i \in DOMAIN s |-> Bytes[s[i]]])

makeDomainKey(input) ==
  LET normalized == normalizeDomain(input)
  IN  IF normalized = << >> \/ ByteLen(normalized) >= maxDomainLen THEN Error
      ELSE OK(normalized)

NoCall == [key |-> << >>]

LoaderInit ==
  /\ at = "load" /\ mode \in Mode
  /\ open = {} /\ dispatch = NoProgram /\ attached = FALSE
  /\ domains = << >> /\ cidrs = {} /\ ipPorts = {}
  /\ call = NoCall /\ acked = {} /\ lookupFaults = 0

-----------------------------------------------------------------------------
(***************************************************************************)
(* NewXDPFilter.  A step that fails closes what was loaded.                *)
(***************************************************************************)
Step(from, to) == at = from /\ at' = to

closeArgsForgetsMap ==
  {"xdp_filter"} \cup ToSet(Programs)
    \cup {"dispatch_rules", "domain_rules", "cidr_rules", "cidr_v6_rules",
          "ip_port_rules", "ip_port_v6_rules", "stats"}

\* the arguments of closeObjects, the same wherever it is called
closeArgs ==
  {"xdp_filter"} \cup ToSet(Programs)
    \cup {"dispatch_rules", "scratch_domain", "domain_rules", "cidr_rules",
          "cidr_v6_rules", "ip_port_rules", "ip_port_v6_rules", "stats"}

\* the kernel empties a program array when the last descriptor of it goes
closeObjects ==
  /\ open' = open \ closeArgs
  /\ dispatch' = IF "dispatch_rules" \in open' THEN dispatch ELSE NoProgram

\* RemoveMemlock, LoadCollectionSpecFromReader or LoadAndAssign fails
LoadFails ==
  /\ Step("load", "failed")
  /\ UNCHANGED <<mode, open, dispatch, attached, ruleVars>>

LoadAndAssign ==
  /\ Step("load", "populate") /\ open' = Object
  /\ UNCHANGED <<mode, dispatch, attached, ruleVars>>

Unset == {i \in 0 .. 11 : dispatch[i] = "none"}

\* one Put of populateDispatchRules
PopulateDispatch ==
  /\ at = "populate" /\ Unset # {}
  /\ dispatch' = [dispatch EXCEPT ![Min(Unset)] = Programs[Min(Unset) + 1]]
  /\ at' = IF Min(Unset) = 11 THEN "interface" ELSE "populate"
  /\ UNCHANGED <<mode, open, attached, ruleVars>>

InterfaceByName ==
  /\ Step("interface", "flags")
  /\ UNCHANGED <<mode, open, dispatch, attached, ruleVars>>

AttachXDP ==
  /\ Step("flags", "up") /\ xdpAttachFlags(mode).ok /\ attached' = TRUE
  /\ UNCHANGED <<mode, open, dispatch, ruleVars>>

\* a Put, InterfaceByName, xdpAttachFlags or AttachXDP fails
NewFails ==
  /\ at \in {"populate", "interface", "flags"} /\ at' = "failed"
  /\ closeObjects
  /\ UNCHANGED <<mode, attached, ruleVars>>

NewXDPFilter ==
  LoadFails \/ LoadAndAssign \/ PopulateDispatch \/ InterfaceByName \/ AttachXDP \/ NewFails

-----------------------------------------------------------------------------
(***************************************************************************)
(* Adding rules.  AddDomainRule merges its flags with those it looks up;   *)
(* any error of the lookup counts as a missing key, and the flags of a key *)
(* that is there are then lost with the Put.                               *)
(***************************************************************************)
Idle == at = "up" /\ call = NoCall

Known(k) == k \in DOMAIN domains

LookupDomainOverwrites(d, flags) ==
  /\ Idle /\ makeDomainKey(d).ok
  /\ call' = [key |-> makeDomainKey(d).val, put |-> flags, asked |-> flags, lost |-> {}]
  /\ UNCHANGED <<domains, cidrs, ipPorts, acked, lookupFaults>>

LookupDomain(d, flags) ==
  /\ Idle /\ makeDomainKey(d).ok
  /\ LET k == makeDomainKey(d).val
     IN  call' = [key |-> k, put |-> flags \cup (IF Known(k) THEN domains[k] ELSE {}),
                  asked |-> flags, lost |-> {}]
  /\ UNCHANGED <<domains, cidrs, ipPorts, acked, lookupFaults>>

LookupDomainFails(d, flags) ==
  /\ Idle /\ makeDomainKey(d).ok /\ Known(makeDomainKey(d).val)
  /\ lookupFaults < MaxLookupFaults /\ lookupFaults' = lookupFaults + 1
  /\ LET k == makeDomainKey(d).val
     IN  call' = [key |-> k, put |-> flags, asked |-> flags, lost |-> domains[k] \ flags]
  /\ UNCHANGED <<domains, cidrs, ipPorts, acked>>

\* a full map takes only a key that it has
Fits(key, keys) == key \in keys \/ Cardinality(keys) < MaxEntries

DomainRules(key, flags) == {[rule |-> "domain", key |-> key, flag |-> f] : f \in flags}

PutDomain ==
  /\ at = "up" /\ call # NoCall /\ Fits(call.key, DOMAIN domains)
  /\ domains' = [k \in DOMAIN domains \cup {call.key} |->
                   IF k = call.key THEN call.put ELSE domains[k]]
  /\ acked' = (acked \ DomainRules(call.key, call.lost)) \cup DomainRules(call.key, call.asked)
  /\ call' = NoCall
  /\ UNCHANGED <<cidrs, ipPorts, lookupFaults>>

PutDomainFails ==
  /\ at = "up" /\ call # NoCall /\ call' = NoCall
  /\ UNCHANGED <<domains, cidrs, ipPorts, acked, lookupFaults>>

\* Is4 decides the map; a prefix is in one of them by its kind
AddCIDR(prefix) ==
  /\ Idle /\ Fits(Masked(prefix), {q \in cidrs : q.kind = prefix.kind})
  /\ cidrs' = cidrs \cup {Masked(prefix)}
  /\ acked' = acked \cup {[rule |-> "cidr", prefix |-> Masked(prefix)]}
  /\ UNCHANGED <<domains, ipPorts, call, lookupFaults>>

AddIPPort(addr, port, proto) ==
  /\ Idle /\ proto \in {protoTCP, protoUDP}
  /\ LET key == [addr |-> Unmap(addr), port |-> port, proto |-> proto]
     IN  /\ Fits(key, {k \in ipPorts : k.addr.kind = key.addr.kind})
         /\ ipPorts' = ipPorts \cup {key}
  /\ acked' = acked \cup {[rule |-> "ipPort", addr |-> addr, port |-> port, proto |-> proto]}
  /\ UNCHANGED <<domains, cidrs, call, lookupFaults>>

AddRules ==
  /\ \/ \E c \in DomainCall : LookupDomain(c.domain, c.flags) \/ LookupDomainFails(c.domain, c.flags)
     \/ PutDomain \/ PutDomainFails
     \/ \E p \in PrefixCall : AddCIDR(p)
     \/ \E c \in PortCall : AddIPPort(c.addr, c.port, c.proto)
  /\ UNCHANGED <<at, mode, open, dispatch, attached>>

-----------------------------------------------------------------------------
(***************************************************************************)
(* Close, and the death of the process: the kernel closes its descriptors  *)
(* in any order, and detaches the program with the descriptor of the link. *)
(***************************************************************************)
CloseLink ==
  /\ Idle /\ at' = "closing" /\ attached' = FALSE
  /\ UNCHANGED <<mode, open, dispatch, ruleVars>>

CloseFilter ==
  /\ Step("closing", "closed") /\ closeObjects
  /\ UNCHANGED <<mode, attached, ruleVars>>

Die ==
  /\ at \notin {"failed", "closed", "dying", "dead"} /\ at' = "dying"
  /\ call' = NoCall
  /\ UNCHANGED <<mode, open, dispatch, attached, domains, cidrs, ipPorts, acked, lookupFaults>>

DieObjects ==
  /\ at = "dying" /\ open # {} /\ open' = {} /\ dispatch' = NoProgram
  /\ UNCHANGED <<at, mode, attached, ruleVars>>

DieLink ==
  /\ at = "dying" /\ attached /\ attached' = FALSE
  /\ UNCHANGED <<at, mode, open, dispatch, ruleVars>>

Dead ==
  /\ at = "dying" /\ open = {} /\ ~attached /\ at' = "dead"
  /\ UNCHANGED <<mode, open, dispatch, attached, ruleVars>>

Death == Die \/ DieObjects \/ DieLink \/ Dead

Calls == NewXDPFilter \/ AddRules \/ CloseLink \/ CloseFilter

-----------------------------------------------------------------------------
(***************************************************************************)
(* A filter that could not be built, or was closed, holds nothing: neither *)
(* a descriptor of a program or map nor the interface.                     *)
(***************************************************************************)
NothingLeaked == at \in {"failed", "closed", "dead"} => open = {} /\ ~attached
================================================================================
