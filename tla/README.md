# Middle Filter: verification project

Middle Filter is a packet filter for Linux. Firewall rules hand selected packets
to a Go process over NFQUEUE; the process accepts them, drops them, or drops a DNS
query and answers it with NXDOMAIN. This directory models that program in TLA+,
checks the models with TLC and proves the safety properties with TLAPS.

`PROJECT.json` has the exact correspondence: which definition stands for which
lines, which run checks which property, which change of the code each property
would catch, the hazards the properties are for, and the findings.

## The system

| Component | State | Operations | Correct means |
|---|---|---|---|
| `main.go`: `run` | select loop, `errCh`, context, ticker | start the engine, print stats, wait for its result, deferred calls | always ends after a signal or an engine error; ends only after the engine has cleaned up; exit status is the engine's |
| `config.go` | none (pure) | `loadConfig`, `validateNFQueueConfig`, parsers | what is accepted can be used by every later switch |
| `engine.go` | none | `newEngine` | chooses the engine or refuses |
| `nfqueue_engine_linux.go` | `atomicStats`, `e.nfq` | `Run`, `handlePacket`, `recordDecision`, `Stats`, `Close`, `sendDNSResponse` | blocked packets are never forwarded; counters add up; every packet gets a verdict |
| `packet_classifier.go` | compiled rules, `dnsMode` | `Classify` and the HTTP, TLS and DNS parsers | drops exactly what a rule means; reads inside the packet |
| `rules.go` | `RuleSet` | `compileRuleSet`, `match*` | spelling and address form do not matter |
| `firewall_linux.go` | rule tables of the kernel, which outlive the process | `newFirewallManager`, `Install`, `Cleanup` of three managers | complete when up, one backend, no copies, gone after a stop |
| `xdp.go` | BPF objects and the link to the interface, rule maps | `NewXDPFilter`, `AddDomainRule`, `AddCIDR`, `AddIPPort`, `GetStats`, `Close` | nothing stays loaded after a failure or `Close`; a rule whose `Add` returned nil is in force |
| `bpf/filter.bpf.c` | rule maps, `dispatch_rules`, `stats` | thirteen programs that tail-call one another, parsers for HTTP, TLS and DNS, the NXDOMAIN answer | drops what a rule selects and nothing else; every packet is counted once; answers have a right checksum |

Three threads of control meet: the goroutine of `run`, the goroutine of
`engine.Run`, and the callback goroutine that runs `handlePacket`. The first two
share `errCh` and the context; the last shares the atomic counters and the socket
with both. The kernel's queue and rule tables are shared with everything else and
survive a crash. The XDP path (behind the build tag `xdp`, not in the default
binary) is separate: one goroutine changes maps that packets on every CPU read.

What is hard here: counters read while they move; verdicts and answers that fail
or come after the queue is closed; `select` with several ready cases; signals
during install and cleanup; installs of up to eighteen commands that stop half
way; rules left by a crashed process; parsers that follow length fields of the
packet; a forged answer that passes the same hooks again; maps that are read while
they change, and tail calls that fail while a process dies. `PROJECT.json` lists
each under `hazards`, at its line.

## Modules

| Module | Models | State and actions |
|---|---|---|
| `PacketPath` | kernel queue, `handlePacket`, `recordDecision`, `Stats`, `printStats` | `h` is the program counter of `handlePacket`: one action per atomic addition, answer or verdict. `fate` is what the kernel did with each packet. `LoadField` is one `Load` of `Stats`. Start, close and end of the process are arbitrary (`Environment`) |
| `AppConfig` | `loadConfig`, `validateNFQueueConfig`, `normalizeChoice` | operators; a file is the set of fields it sets |
| `FirewallRules` | `newFirewallManager`, `normalizedChains`, the rules of each backend | operators; extends `AppConfig` |
| `Startup` | `run` up to its loop, `newEngine`, `newNFQueueEngine` | composes `AppConfig` and `FirewallRules`: one action per check |
| `Firewall` | `Install` and `Cleanup` of `nftFirewall`, `iptablesFirewall`, `autoFirewall` | `table` counts the copies of each rule in the kernel; one step per external command. `Crash` and `Start` carry `table` from one process to the next, and `Reconfigure` changes the configuration in between |
| `FirewallSpec` | what `Run` relies on in a `FirewallManager` (`firewall.go`) | the set of rules present and the phase of `Run`; `Firewall` implements it |
| `Lifecycle` | `run`, `Run`, their deferred calls, signals | `main` and `engine` are the program counters of the two goroutines; each call of `Run` may fail |
| `Filter` | the process and its packets together | composes `Lifecycle` and `PacketPath`: each step of `Lifecycle` has its effect on the queue, and lines are loaded field by field where `run` prints |
| `Rules` | `compileRuleSet`, `parseIPPrefix`, `parseProto`, `normalizeDomain`, `match*` | operators on token sequences and bit strings |
| `Classifier` | `Classify`, `classifyTCP`, `classifyUDP`, `httpHost`, `parseDNSQuery`, the packet of `sendDNSResponse` | extends `Rules`; `Receive` classifies any packet, `ReceiveAnswer` the forged answer |
| `ClassifierSpec` | what `README.md` says the rules block | the reference for `Classifier`: the names that spellings and requests mean, by a grammar of their own, and `MustBlock`; extends `Classifier` with the properties that compare the two |
| `TlsSni` | `tlsSNI` | one action per field read; bytes are chosen when read |
| `XdpLoader` | `xdp.go`: `NewXDPFilter`, the `Add` calls, `Close`, death of the process | `at` is where the goroutine is; one action per system call that can fail or that packets can see |
| `XdpNames` | where `check_http_host_at` and `check_tls_sni` look for a name, and which questions `dns_domain_matches` completes | operators on offsets and length fields |
| `XdpPath` | the programs of `filter.bpf.c`, `GetStats` | extends `XdpLoader` and `XdpNames`; `cpu` is the program and packet of each CPU, a step is one program, the walk of `dns_domain_matches` included |
| `XdpDns` | `dns_domain_matches` iteration by iteration, which ends as `dns_completes` of `XdpNames` says (`WalkExact`); `csum_replace16` and the rewriting of `poison_dns_nxdomain_v6` | position, key length, labels, checksum |
| `MCPacketPath`, `MCStartup`, `MCFirewall`, `MCFilter`, `MCClassifier`, `MCXdp`, `MCXdpDns` | constants for TLC | |
| `PacketPathProofs`, `LifecycleProofs`, `FilterProofs`, `FirewallProofs` (with `Startup`), `ClassifierProofs`, `TlsSniProofs`, `XdpProofs`, `XdpDnsProofs` | theorems and the lemmas they rest on | |

How the models fit together. `PacketPath` takes the result of `Classify` as given
(`Content`) and allows every order of install, bind, close and process end; `Filter`
replaces that by the orders that `Lifecycle` produces. `Classifier` says which
result it is, and `TlsSni` that computing it does not fail. `ReasonDecides` of
`Classifier` is the fact that `PacketPath` rests on when it takes a packet's verdict
from its reason. `Lifecycle` takes `Install` and `Cleanup` by whether any rule is
left; `Firewall` has them in detail.

`Firewall` implements `FirewallSpec` (property `KeepsContract`). The mapping is
computed from the variables of `Firewall`: the phase from `mode`, the rules present
from `table`, a failed deletion from `dirty`, the manager from the configuration.
The contract says what `Run` may rely on whatever commands are used: only rules of
the manager are touched, none outside `Install` and `Cleanup`, `Install` returns nil
only with one backend complete, `Cleanup` returns with none of them left unless a
deletion failed, and an `Install` that undoes leaves none behind when it fails.

Operators whose name says what they get wrong (`BumpDown`,
`VerdictForwardsPoisoned`, ...) are used by nothing: each is the changed form of
the definition after it, with which TLC finds the property named in
`PROJECT.json` under `mutants` violated.

### Abstractions

- Packets are records of what gopacket decodes. Strings are sequences of tokens:
  a word, or one of the bytes the code looks for. A byte that is not UTF-8 is a
  token, because `bytes.ToLower` changes its length.
- Addresses have 2 or 3 bits instead of 32 or 128 (`Width`); the kind of an
  address (IPv4, IPv6, IPv4 mapped into IPv6) is kept, since `netip` tells them
  apart.
- A rule of iptables is its binary, chain, match and queue arguments (`queue_num`,
  `fail_open`), since it is deleted by its text. An nftables table is one rule:
  `nft -f` is a transaction.
- `modprobe`, logging and error texts change no state and are left out.
- Counters are natural numbers: 2^64 packets are not reached.
- Signals, failing commands and deaths of the process are always possible where
  the code does not exclude them.
- `SpareCap` is the capacity behind the payload of a TCP segment. The payload is
  cut from a buffer of the netlink library that ends with the packet, hence 0.
- A step of `XdpPath` is a whole BPF program: the programs share only the maps, each looks
  up domains once, addresses and ports are only ever added, and the counters commute.
  `scratch_domain` is per CPU.
- `acked` holds the rules whose `Add` returned nil. `AddDomainRule` takes a failed
  lookup for a missing key and writes its own flags over those that were there: what it
  overwrote leaves `acked` with that `Put` and not before, so `AddedRulesEnforced` goes
  on for every other rule.
- The list of objects to close is written out five times in `xdp.go`, each time with
  all twenty-one objects: `closeArgs` is that list, and what a list leaves out stays open.
- Words of the checksum are `0 .. Top` in place of 16 bits. Three words are added, so
  the carries are the same for every width of two bits or more (`Top` 3), and
  `AnswersVerify` is proved for all of them.

## Runs

Run with `tlc -config <cfg> <module>`.

| Run | Shows | States |
|---|---|---|
| `packet` (`PacketPath.cfg`, `MCPacketPath`) | `BlockedNotForwarded`, `AnsweredNotForwarded`, `Accounting`, `SnapshotSkew`, `LinesMonotone`, with lost verdicts and close and restart at any step, fail-closed | 3 533 048 |
| `startup` (`Startup.cfg`, `MCStartup`) | `AcceptedUsable`, `HooksAsMeant` | 15 441 |
| `firewall` (`Firewall.cfg`, `MCFirewall`) | `CopiesBounded`, `CompleteWhenUp`, `CleanExit`, `RulesTraceable`, the refinement `KeepsContract`, and `SignalStops` | 139 000 |
| `firewall_leftover` (`Firewall_leftover.cfg`, `MCFirewall`) | finding: `StoppedClean` does not hold | |
| `lifecycle` (`Lifecycle.cfg`, `Lifecycle`) | `ExitClean`, `KilledLeavesNoRules`, `BoundOnlyWithRules`, `ErrorReported`, `SignalEnds`, `EngineErrorEnds`, `BlackoutEnds` | 827 |
| `filter` (`Filter.cfg`, `MCFilter`) | `LastLineComplete`, `QueuedDecided`, `SignalFlushes` on the composition | 105 416 |
| `tls_sni` (`TlsSni.cfg`, `TlsSni`) | `ReadsInBounds`, `NameInside`, `Terminates` | 3 331 |
| `classifier_blocks` (`Classifier_blocks.cfg`, `MCClassifier`) | `BlocksExactly`, `AnswerPasses`, `ReasonDecides`, `HTTPHostDecides` | 4 308 |
| `http_nonascii` (`Classifier_nonascii.cfg`, `MCClassifier`) | finding: `HTTPHostBlocked` does not hold | |
| `xdp_rules` (`Xdp_rules.cfg`, `MCXdp`) | `NothingLeaked`, `AddedRulesEnforced` | 944 771 |
| `xdp_stats` (`Xdp_stats.cfg`, `MCXdp`) | `XdpAccounting`, `GetStatsSkew` | 659 160 |
| `xdp_dns` (`XdpDns.cfg`, `MCXdpDns`) | `WalkExact`, `InsideKey`, `AnswerVerifies` | 92 250 |

Bounds, and why they are enough:

- `PacketPath`: four packets, one of each kind that `handlePacket` treats
  differently (a blocked packet takes the path of a poisoned query without its answer,
  an accepted one that of the malformed packet); `MaxQueueLen` 2, so that the queue is empty, partly full and full;
  `MaxTicks` 2, the fewest lines that can be compared. The safety properties are also
  proved without bounds.
- `Startup`: all pairs of fields, since no check reads more than two.
- `Firewall`: five configurations that differ in everything a rule is deleted by
  (queue number, `fail_open`, capture, tools), one with three backends to try, one
  that is refused and one without a manager; a chain listed twice in different
  spelling; `MaxChanges` 2, so that a configuration can come back; one crash and one
  failing deletion, so that what is left over meets another process. `DeleteTries` is
  the real 20. Installs may fail any number of times.
- `Filter`: a packet that is dropped and one without an id, and `MaxTicks` 2: one line
  while packets are handled and the last one. Verdicts succeed here; `packet` has the
  lost ones.
- `TlsSni`: values of the length fields on both sides of every comparison, and
  records just long enough for two extensions.
- `Classifier`: spellings with every part that `normalizeDomain` cuts; prefixes of
  length zero, full and in between; rules that do not parse.
- `xdp_rules`: one packet at a time (`MaxPackets` 1), because packets meet only in
  the counters; 34 kinds of packet with Host headers at and off byte 16; server
  names as sixteenth and seventeenth extension, ending at byte 512 and 513, and cut by
  one byte; questions of 62 and 63 characters and of eight and nine labels, with a rule
  for each name, cut by one byte, compressed, past the first 1024 bytes, empty, in a
  response and in a message without questions; a letter outside ASCII in both cases.
  `MaxEntries` 2, so that a map is full; `MaxLookupFaults` 1, so that flags are lost.
- `xdp_stats`: two CPUs, three packets, one call of `GetStats` (`MaxGets`).
- `xdp_dns`: names of 61 to 64 characters and of 8 and 9 labels, payloads that end at
  every part of a question; all words of three bits (`Top` 7).
- `Lifecycle` needs no bound: it is finite as it is.

Deadlock is checked except in the runs of `Classifier`, where a configuration that
does not compile ends the process. `Lifecycle`, `Startup` and `TlsSni` have an
explicit step for a program that has ended, as have `XdpPath` and `XdpDns`.

Fairness:

- `Filter`: weak fairness of the callback goroutine and of the loads of `Stats`, and
  the fairness of `Lifecycle`. The Go scheduler runs the goroutines, and no call of
  the callback blocks without a timeout (50 ms for a verdict, 1 s for the answer).
  Nothing is assumed of packets or signals. `QueuedDecided` is checked with verdicts
  that succeed: the code discards the error of `SetVerdict`, and such a packet does
  stay queued until the queue is closed.
- `Lifecycle`: weak fairness of both goroutines, strong fairness of the two cases
  that leave the loop: Go's `select` chooses among ready cases at random, so a case
  that is ready again and again is chosen in the end however often the ticker is
  ready too.
- `Firewall`: weak fairness of the program (each external command ends) and of
  `Run` returning once the context is done.
- `TlsSni`: the function runs.

## Proofs

`tlapm` checks all proofs, for every value of the constants. All 33 properties of the
passing runs that are not liveness are proved.

Assumptions. `PacketPathAssumption`, `FilterAssumption`, `TlsSniAssumption`,
`ClassifierAssumption`, `FirewallAssumption` and `FileAssumption` give the constants
their types. `FirewallAssumption` and `FileAssumption` let `chains` be any list
of strings. `CPUAssumption` says that there are finitely many CPUs.
`QuestionAssumption` has words of at least two bits, the lengths that a label byte can
have, and a query whose checksum is right when it arrives. `CallAssumption` gives the
arguments of the `Add` calls their types. `PacketAssumption` does so for the fields of
a ClientHello and of a DNS message, and says how the programs see a name, byte by byte:
no byte is zero (zeros fill a key up); a token of `Ascii` has as many bytes in lower
case; the name of a query is the text of its labels, joined by dots; and a host of 64
bytes or more can be cut after exactly 63. Of characters outside ASCII nothing is
assumed.

Three assumptions of `ClassifierSpec` tie what the code sees to what is meant. They
describe texts and use neither `normalizeDomain` nor `httpHost`. `LowerAssumption`:
a blank stays blank in lower case. `ConfigAssumption`: beside each domain of a
configuration stands the name that it `Spells`, in any case, with perhaps blanks
around, a scheme, a port, a path and one final dot; addresses have the bits of their
kind. `NameAssumption`: beside each packet stands the name that it asks for: for an
HTTP request in ASCII the value of its first Host line (`SaysHost`), for a ClientHello
the name that `tlsSNI` returns, for a DNS query its first question, and `Nobody` where
there is none. TLC evaluates them on every configuration and packet of its runs.

Three theorems about `Firewall` have the hypothesis `MaxDeleteFaults < DeleteTries`:
in the history of the machine fewer deletions fail with the rule in place than
`deleteIPTablesRule` has turns (20). It is needed. A failed deletion leaves a copy for
the next process to add to, and once more than 20 copies have piled up the loop ends,
without an error, before the last one is gone.

- `PacketPathProofs`: `TypeCorrect`, `CountersAccount`, `SnapshotsNearlyConsistent`,
  `LinesGrow`, `NoBlockedPacketForwarded`, `NoAnsweredQueryForwarded`, all from one
  inductive invariant `PacketPathInv`. None of the properties is inductive alone.
  `HandlerInv` says what the position of `handlePacket` implies of the packet, which
  `Accounting` needs to know that a malformed packet is on its way to `passed`.
  `ReaderInv` speaks of `Mixed`, the line that `Stats` would return if it loaded the
  rest at once: total was loaded first and outcomes only grow, so `Mixed` lacks at
  most the packet that was in flight, and when the last field is loaded `Mixed` is
  the line. `FateInv` says that whatever sits in the inbox, under the handler or
  among the answered was taken by the queue, and can therefore only be decided by
  its verdict or lost.
- `LifecycleProofs`: `TypeCorrect`, `ExitIsClean`, `KillIsClean`, `BoundWithRules`,
  `ErrorIsReported`, from `Inv`. `EngineInv` gives what `Run` holds (socket, rules,
  failures) at each of its places, `ResultInv` that the one result sent is the one
  `Run` returns with, `MainInv` what `run` may conclude from its place about the place
  of `Run`, and `ExitInv` where both are when the process ends. `ExitClean` rests on
  `MainInv`: past its loop `run` has received a result, so `Run` is through its
  deferred calls. `KilledLeavesNoRules` rests on it too: a signal kills only while
  `NotifyContext` does not receive it, which is before `Run` or after it.
- `FilterProofs`: `ImplementsLifecycle` and `ImplementsPacketPath`, the two refinements
  of the composition, and `LastLineCounts`. By the refinements every safety theorem
  above holds of `Filter`. The second needs `ProcessInv`, because the queue that
  `PacketPath` sees (`QueueOf`) is computed from the socket and the result of `Run`: a
  step that binds or closes nothing must not change it. `LineInv` then says that until
  the process ends every decided packet is in an outcome counter (`Counted`, with the
  packet whose verdict is due counted already), that no line is half loaded while
  `run` is elsewhere, and that the last line, once begun, would hold every decided
  packet if the rest were loaded at once. The last part is kept because the queue is
  closed by then, so no packet is decided any more, while `Mixed` only grows.
- `FirewallProofs`: `TypeCorrect`, `CopiesStayBounded`, `UpIsComplete`, from
  `CopiesInv`; with the hypothesis above `ExitIsClean` and `AllRulesTraceable` from
  `CleanInv`, and `ManagersKeepContract`, the refinement of `FirewallSpec` action by
  action. `LoopInv` says which rules the loop at hand still has to visit. `TriesInv`
  relates the copies of the rule under deletion to the turns already taken,
  `PrecleanInv` and `InsertInv` say that a rule is inserted only after its deletion was
  tried, unless the context is done and then nothing is inserted: hence one copy more
  than failed deletions. `GoneInv` says that the rules a cleanup has passed are gone
  or the process is `dirty`, and `TraceInv` that each rule in the kernel has an owner;
  `CleanExit` and `RulesTraceable` are what they say when the loop is at its end. The
  proofs use that the rules of one candidate are distinct, which comes from
  `ChainsOnce`: `normalizedChains` lists every hook once.
  About `Startup`: `AcceptedIsUsable` and `HooksMeant`, from `BootInv` (past
  `loadConfig`, `run` holds what `loadConfig` accepted) and `ChainsOnce`.
- `TlsSniProofs`: `SniReadsInBounds`, `SniNameInside`, from `TlsInv`, which gives at
  each field how positions, end of the extensions, record and payload are ordered.
- `ClassifierProofs`: `AnswersPass` and `ReasonsDecide`. A query is poisoned only when
  neither address nor port rule met it; the answer has the two ends exchanged, so
  neither meets the answer; and it is a response, which `parseDNSQuery` refuses, or is
  not sent to port 53.
  `BlockedAsMeant` and `HostAlwaysDecided` from `LoadedInv`: the classifier holds the
  rules compiled from the configuration, and the verdict is its verdict on the packet.
  What remains is about the operators, for inputs of any length. `LowerIsLower`:
  `bytes.ToLower` keeps the positions of an ASCII request, so that the index taken in
  `lower` is one in `payload`. `HostIndexIs`, `HostRead`: it is the start of the first
  Host line, and the two loops stop around its value, inside the payload.
  `NormalizeWritten`: `normalizeDomain` leaves the name of every spelling; of the two
  schemes it cuts one after the other only one can go, since what is left is no URL
  (`NoScheme`), and the cuts at the slash, the colon and the dot meet nothing of a name.
  `PrefixMeant`: a rule that parses contains the addresses that it means, for addresses
  of any width, mapped or not. `DropsMeant` puts them together.
- `XdpProofs`: `ClosedHoldsNothing` from `LoaderInv`; `CountersAddUp`, by going through
  the results that each of the thirteen programs can have (`ResultShape`) and the
  change of each counter, with the packets under way counted over all CPUs;
  `StatsLackLittle` from `SkewInv`, which is to `GetStats` what `ReaderInv` is to
  `Stats`. `RulesEnforced` from `EnforceInv`. Its parts: the dispatch table is full from
  the moment the filter is up until it is closed, so that every tail call of a packet
  that is due lands (`DispatchInv`); what was acknowledged stays in its map, and the
  flags that an `AddDomainRule` under way will write are its own and those that are in
  the map, but for the ones it lost with its lookup, which leave `acked` when they are
  written over (`AckedInv`, `CallInv`); every rule due for a packet is one that the
  programs still before the packet look up, even if it was lost since, because it may be
  added again in time (`DueInv`, with `Pending` by program). For a query this needs that `Asked`, which speaks of
  characters and labels, implies `dns_completes` (`AskedMatches`), and that `ascii_lower`
  of a name without other capitals is the key (`LowerSpells`).
  `ReadableFound` shows that no early return of `check_tls_sni` is taken for a
  well-formed ClientHello, and `BlockedIsCovered` that whatever a program blocks, a
  rule in the maps covers.
- `XdpDnsProofs`: `WalkIsExact` and `WalkStaysInside` from `WalkInv` (the position is
  that of the label reached, less the bytes of it still to copy; the key is one byte
  shorter), for names of every length; `AnswersVerify` from arithmetic modulo `Top`:
  two folds of a sum of three words keep it modulo `Top`, and a sum that is not zero
  stays so, so the correction of one field keeps the receiver's check.

Recursive functions (`normalizedChains`, `Offsets`, and those inside `FoldLeft`, with
which `SumBefore` adds lengths up, and `FlattenSeq`, with which `bytesToLower` joins
tokens) are reasoned about through `NatSetInduction`, which derives induction over a set of numbers from the
well-foundedness of `<`; the set is the one where the fact wanted holds.

Only model-checked: liveness (`QueuedDecided`, `SignalFlushes`, `SignalStops`,
`SignalEnds`, `EngineErrorEnds`, `BlackoutEnds`, `Terminates`), because fairness and
`ENABLED` are out of the prover's reach.

## Findings

1. **Rules left by a failed install.** With one configured backend, `Run` returns at
   `nfqueue_engine_linux.go:63` when `Install` fails or is interrupted by a signal,
   before its `Cleanup` is deferred. iptables rules inserted so far stay although
   nothing crashed, against `README.md:151`. `autoFirewall` does clean up.
2. **Host header after bytes that are not UTF-8.** `httpHost` looks for the header in
   `bytes.ToLower(payload)`, which is longer than `payload` when a byte is not valid
   UTF-8, and uses the index in `payload`. The host is then read from the wrong
   place, and a configured host is accepted, against `README.md:12`. The same index
   can lie past the end of `payload`: then `payload[start:end]` is out of range and
   the panic ends the process. `HTTPHostDecides` shows that ASCII text is never cut
   out of range. Valid text beyond ASCII is no better off: `bytes.ToLower` also changes
   the length of the few characters whose lower case is longer or shorter in UTF-8
   (`Ⱥ` takes two bytes, its lower case three).

Observations about the XDP path, of which no document says otherwise; the properties
state the behaviour as it is:

- `makeDomainKey` accepts 63 characters, but the 64 iterations of
  `dns_domain_matches` complete names of at most 62, and of at most eight labels
  (`WalkExact`). `AddedRulesEnforced` speaks of queries within these limits: a rule of
  63 characters, or of nine labels, is accepted and never answers a query.
- `makeDomainKey` lowers every letter (`strings.ToLower`), the programs only ASCII
  (`ascii_lower`): a name sent with a capital outside ASCII is not found
  (`NoOtherCapital` in `AddedRulesEnforced`).
- A host is looked for at byte 16 of a request only, and cut after 63 characters: a
  rule of that length also matches longer hosts that begin with it
  (`AddedRulesEnforced`).
- A DNS query that `check_dns` lets through, or drops because of IPv4 options, is in
  `total` and in no other counter (`XdpAccounting`).
- `AddDomainRule` takes any error of its lookup for a missing key and then overwrites
  flags that were there: of all acknowledged rules `AddedRulesEnforced` gives up these.
- `AddCIDR` does not unmap its prefix as `AddIPPort` does: a prefix mapped into IPv6
  goes to the map of IPv6, which no IPv4 packet is looked up in.

## Not modelled

- The socket calls of `sendDNSResponse`, gopacket, the JSON decoder, go-nfqueue,
  cilium/ebpf and the kernel, except by what the program sees of them. Of the
  configuration, `debug` and `af_xdp` are left out: no decision reads them.
- `reasonString`, `packetSummary`, `explainNFQueueFirewallError`: formatting.
- The build. With the tag `xdp`, `xdp.go` declares `protoTCP`, `protoUDP` and
  `normalizeDomain` a second time beside `rules.go`.
- Fragmented packets, QUIC and ECH: the program does not look at them.
- `AddDomainRule` from two goroutines: nothing in the repository calls it so.
- A missing `ip6tables` leaves IPv6 past the queue by intent (a line is logged):
  `CompleteWhenUp` is about the tools that are there.

## Plan

Done, in this order: packet path and counters, because they are the purpose of the
program and run concurrently; firewall managers, because their state survives the
process; lifecycle; parsers and classifier; start-up; the contract of the firewall
managers and changing configurations; the composition of process and packets; the
XDP loader, programs and parsers.

Proved, in this order: packet path, TLS walk and forged answer; lifecycle; XDP name
walk and checksum; XDP loader and counters; firewall managers and their contract;
start-up; the composition; the rules of the XDP path; what the classifier blocks.

Next: `tlsSNI` returns the name of every well-formed ClientHello, as `ReadableFound`
shows for its counterpart in the XDP path. `TlsSni` chooses bytes as they are read, so
that this needs a reference for the bytes of a record first.
