-------------------------------- MODULE XdpDns --------------------------------
(***************************************************************************)
(* The rest of a DNS program of filter.bpf.c for a query over IPv6, as     *)
(* check_dns_v6 runs it: dns_domain_matches turns the labels of the        *)
(* question into the text of a key, one iteration of its loop at a step,   *)
(* and poison_dns_nxdomain_v6 makes the answer in place, correcting the    *)
(* UDP checksum field by field.                                            *)
(*                                                                         *)
(* A question is the length bytes of its labels, the byte that ends them   *)
(* and the number of bytes from the name to the end of the payload; its    *)
(* characters are copied and do not matter.  Words go up to Top, 0xffff in *)
(* the code, and are in host order.  Addresses and ports are exchanged,    *)
(* which leaves the sum of a packet as it is: they are part of "rest".     *)
(***************************************************************************)
EXTENDS XdpNames

CONSTANTS
  Top,        \* the largest word, all of its bits set
  Response,   \* 0x8183
  Question    \* queries: labels, last, size, inside (the payload ends in the packet
              \* and in its first 1024 bytes), qdcount, the fields, rest and check

Word == 0 .. Top

\* in the order in which they are corrected
Fields == <<"flags", "ancount", "nscount", "arcount">>

\* what a receiver checks: the one's complement sum of the packet, its
\* checksum included, is zero, and a checksum is there
Verifies(words, rest, c) ==
  c # 0 /\ (words.flags + words.ancount + words.nscount + words.arcount + rest + c) % Top = 0

ASSUME QuestionAssumption ==
  /\ Top \in Nat /\ Top >= 3 /\ Response \in Word
  /\ \A p \in Question :
       /\ p.labels \in Seq(1 .. 63) /\ p.last \in {0} \cup (64 .. 255) /\ p.size \in Nat
       /\ p.inside \in BOOLEAN /\ p.qdcount \in Nat
       /\ p.words \in [ToSet(Fields) -> Word] /\ p.rest \in Word /\ p.check \in Word
       /\ Verifies(p.words, p.rest, p.check)

VARIABLES
  q,                \* the query
  result,           \* "run", "no", or "key" when domain_matches is asked
  i,                \* iterations
  pos,              \* bytes of the name read, pos - dns_off - 12
  out,              \* characters of the key
  label_remaining,
  labels,
  check,            \* udp->check
  corrected         \* fields corrected

walk == <<result, i, pos, out, label_remaining, labels>>
answer == <<check, corrected>>
vars == <<q, walk, answer>>

IsResponse(p) == p.words.flags > Top \div 2

Init ==
  /\ q \in Question
  /\ result = IF ~q.inside \/ IsResponse(q) \/ q.qdcount = 0 THEN "no" ELSE "run"
  /\ i = 0 /\ pos = 0 /\ out = 0 /\ label_remaining = 0 /\ labels = 0
  /\ check = q.check /\ corrected = 0

-----------------------------------------------------------------------------
Iterate == result = "run" /\ i < MAX_DNS_SCAN /\ i' = i + 1 /\ UNCHANGED <<q, answer>>

\* the length byte at pos
label_len == IF labels < Len(q.labels) THEN q.labels[labels + 1] ELSE q.last

Refuse == result' = "no" /\ UNCHANGED <<pos, out, label_remaining, labels>>

EndOfNameUnchecked ==
  /\ Iterate /\ label_remaining = 0 /\ pos < q.size /\ label_len = 0
  /\ pos' = pos + 1
  /\ result' = IF out = 0 \/ out >= MAX_DOMAIN_LEN THEN "no" ELSE "key"
  /\ UNCHANGED <<out, label_remaining, labels>>

\* the loop is left; type and class must follow, and domain_matches takes
\* neither an empty key nor one that fills its 64 bytes
EndOfName ==
  /\ Iterate /\ label_remaining = 0 /\ pos < q.size /\ label_len = 0
  /\ pos' = pos + 1
  /\ result' = IF q.size - (pos + 1) < 4 \/ out = 0 \/ out >= MAX_DOMAIN_LEN
               THEN "no" ELSE "key"
  /\ UNCHANGED <<out, label_remaining, labels>>

StartLabel ==
  /\ Iterate /\ label_remaining = 0 /\ pos < q.size /\ label_len \in 1 .. 63
  /\ labels < MAX_DNS_LABELS /\ (out > 0 => out < MAX_DOMAIN_LEN - 1)
  /\ labels' = labels + 1 /\ pos' = pos + 1 /\ label_remaining' = label_len
  /\ out' = IF out > 0 THEN out + 1 ELSE 0
  /\ UNCHANGED result

\* a compression pointer, too many labels, no room for the dot, or the end
StartLabelFails ==
  /\ Iterate /\ label_remaining = 0
  /\ \/ pos >= q.size
     \/ label_len > 63
     \/ label_len # 0 /\ (labels >= MAX_DNS_LABELS \/ out >= MAX_DOMAIN_LEN - 1)
  /\ Refuse

CopyBytePastEnd ==
  /\ Iterate /\ label_remaining > 0 /\ out < MAX_DOMAIN_LEN - 1
  /\ out' = out + 1 /\ pos' = pos + 1 /\ label_remaining' = label_remaining - 1
  /\ UNCHANGED <<result, labels>>

CopyByte ==
  /\ Iterate /\ label_remaining > 0 /\ out < MAX_DOMAIN_LEN - 1 /\ pos < q.size
  /\ out' = out + 1 /\ pos' = pos + 1 /\ label_remaining' = label_remaining - 1
  /\ UNCHANGED <<result, labels>>

CopyByteFails ==
  /\ Iterate /\ label_remaining > 0 /\ (out >= MAX_DOMAIN_LEN - 1 \/ pos >= q.size)
  /\ Refuse

\* the loop ends without complete
ScanEnds ==
  /\ result = "run" /\ i = MAX_DNS_SCAN /\ Refuse /\ UNCHANGED <<q, i, answer>>

-----------------------------------------------------------------------------
(***************************************************************************)
(* poison_dns_nxdomain_v6, if domain_matches finds a rule for the key.     *)
(***************************************************************************)
New(f) == IF f = "flags" THEN Response ELSE 0

Fold(sum) == (sum % (Top + 1)) + (sum \div (Top + 1))

csum_replace16OneFold(c, was, new) ==
  LET inv == (Top - Fold((Top - c) + (Top - was) + new)) % (Top + 1)
  IN  IF inv = 0 THEN Top ELSE inv

csum_replace16(c, was, new) ==
  LET inv == (Top - Fold(Fold((Top - c) + (Top - was) + new))) % (Top + 1)
  IN  IF inv = 0 THEN Top ELSE inv

CorrectField ==
  /\ result = "key" /\ corrected < Len(Fields) /\ corrected' = corrected + 1
  /\ LET f == Fields[corrected + 1]
     IN  check' = csum_replace16(check, q.words[f], New(f))
  /\ UNCHANGED <<q, walk>>

Finished == result # "run" /\ UNCHANGED vars

Next ==
  \/ EndOfName \/ StartLabel \/ StartLabelFails \/ CopyByte \/ CopyByteFails \/ ScanEnds
  \/ CorrectField \/ Finished

Spec == Init /\ [][Next]_vars

-----------------------------------------------------------------------------
\* the length of the text of a question, its labels joined by dots
Joined(ls) == Offsets(ls)[Len(ls)] - 1

\* a query whose name is uncompressed and all there, with its type and class
WellFormed ==
  /\ q.inside /\ ~IsResponse(q) /\ q.qdcount > 0 /\ q.labels # << >> /\ q.last = 0
  /\ q.size >= Joined(q.labels) + 2 + 4

(***************************************************************************)
(* dns_domain_matches looks up exactly the well-formed questions of at     *)
(* most eight labels and 62 characters, the most that 64 iterations reach  *)
(* with a length byte before and after (one character less than the key    *)
(* holds and makeDomainKey accepts); and it looks up the whole text.  The  *)
(* walk ends as dns_completes has it, the one step that it is in XdpPath.  *)
(***************************************************************************)
WalkExact ==
  /\ result = "key" => out = Joined(q.labels)
  /\ result # "run" =>
       (result = "key" <=>
          WellFormed /\ Len(q.labels) <= MAX_DNS_LABELS /\ Joined(q.labels) <= 62)
  /\ result # "run" =>
       (result = "key" <=>
          /\ q.inside /\ ~IsResponse(q) /\ q.qdcount # 0
          /\ q.labels # << >> /\ dns_completes(q))

(***************************************************************************)
(* The loop never writes outside key->name, whatever the packet holds, and *)
(* a question has been read no further than its end.                       *)
(***************************************************************************)
InsideKey == out <= MAX_DOMAIN_LEN - 1 /\ pos <= q.size

(***************************************************************************)
(* The checksum is right after every field that was corrected, for the     *)
(* packet with that field rewritten: the answer that XDP_TX sends is one   *)
(* its receiver accepts, through every carry and through zero.             *)
(***************************************************************************)
AnswerVerifies ==
  LET rewritten == {Fields[k] : k \in 1 .. corrected}
  IN  Verifies([f \in DOMAIN q.words |-> IF f \in rewritten THEN New(f) ELSE q.words[f]],
               q.rest, check)
================================================================================
