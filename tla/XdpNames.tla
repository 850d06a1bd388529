------------------------------- MODULE XdpNames -------------------------------
(***************************************************************************)
(* Where the XDP programs look for a name.                                 *)
(*                                                                         *)
(* A request is the offset of its Host header in the payload ("at") and    *)
(* the blanks before the host.  A ClientHello is its length fields: those  *)
(* of session, ciphers, compression and extensions, type and length of     *)
(* every extension as far as the packet goes, length of the list and type  *)
(* of the name in server_name; "client" says that content, version and     *)
(* handshake type are right, "size" how many bytes of the payload are in   *)
(* the packet.  Offsets count from the payload: it starts before byte 135  *)
(* of the packet, so that tls_limit is always MAX_TLS_SCAN and the checks  *)
(* against MAX_PACKET_READ let everything here through.                    *)
(*                                                                         *)
(* A DNS message is what dns_domain_matches reads of it: the length bytes  *)
(* of the labels of its first question, the byte that ends them (a pointer *)
(* if it is not zero) and the bytes from the name to the end of the        *)
(* payload; "inside" says that there is a DNS header and that the payload  *)
(* ends in the packet and in its first 1024 bytes.                         *)
(***************************************************************************)
EXTENDS Integers, SequencesExt

MAX_TLS_SCAN == 512

ClientHello ==
  [client : BOOLEAN, session : Nat, ciphers : Nat, compression : Nat, extensions : Nat,
   exts : Seq([type : Nat, len : Nat]), list : Nat, nameType : Nat, size : Nat]

\* check_http_host_at: a third blank ends the host before it begins
host_found(r) == r.at = 16 /\ r.blanks <= 2

-----------------------------------------------------------------------------
(***************************************************************************)
(* check_tls_sni.  A byte that is read is in the packet and before         *)
(* tls_limit.                                                              *)
(***************************************************************************)
extensions_at(h) == 43 + (1 + h.session) + (2 + h.ciphers) + (1 + h.compression) + 2

extensions_end(h) == Min({extensions_at(h) + h.extensions, MAX_TLS_SCAN})

\* of the extensions before the k-th
SumBefore(h, k) == FoldLeft(+, 0, [j \in 1 .. k - 1 |-> 4 + h.exts[j].len])

\* behind type and length of the k-th extension
ext_pos(h, k) == extensions_at(h) + SumBefore(h, k) + 4

ext_enters(h, k) ==
  /\ ext_pos(h, k) <= extensions_end(h) /\ ext_pos(h, k) <= h.size
  /\ h.exts[k].len <= MAX_TLS_SCAN - ext_pos(h, k)

\* the loop stops at the first server_name
server_name(h) ==
  {k \in 1 .. Min({16, Len(h.exts)}) :
     /\ h.exts[k].type = 0
     /\ \A j \in 1 .. k : ext_enters(h, j) /\ (j < k => h.exts[j].type # 0)}

\* the packet holds a name of name_len bytes where check_tls_sni looks it up
sni_found(h, name_len) ==
  /\ h.client /\ h.compression <= 32
  /\ extensions_at(h) <= MAX_TLS_SCAN /\ extensions_at(h) <= h.size
  /\ \E k \in server_name(h) :
       /\ h.nameType = 0 /\ h.list >= 3 /\ name_len # 0
       /\ h.exts[k].len >= 5 /\ name_len <= h.exts[k].len - 5
       /\ ext_pos(h, k) + 5 + name_len <= h.size

-----------------------------------------------------------------------------
(***************************************************************************)
(* dns_domain_matches.                                                     *)
(***************************************************************************)
MAX_DOMAIN_LEN == 64
MAX_DNS_SCAN == 64
MAX_DNS_LABELS == 8

DnsQuery ==
  [labels : Seq(1 .. 63), last : {0} \cup (64 .. 255), size : Nat,
   inside : BOOLEAN, response : BOOLEAN, qdcount : Nat]

\* where the length bytes of a question are: that of label k + 1, or the byte
\* that ends the labels, is k labels with their length bytes behind the first
Offsets(ls) ==
  LET at[k \in 0 .. Len(ls)] == IF k = 0 THEN 0 ELSE at[k - 1] + 1 + ls[k] IN at

\* the loop reaches the byte that ends the labels: one iteration for a byte,
\* this one included; type and class follow
dns_completes(d) ==
  LET end == Offsets(d.labels)[Len(d.labels)]
  IN  /\ d.last = 0 /\ Len(d.labels) <= MAX_DNS_LABELS /\ end < MAX_DNS_SCAN
      /\ end + 1 + 4 <= d.size
================================================================================
