-------------------------------- MODULE TlsSni --------------------------------
(***************************************************************************)
(* tlsSNI: the walk over a TLS record that looks for the server name.  The *)
(* bytes of the record are arbitrary: a byte or a length is chosen when    *)
(* the code reads it, and none is read twice.  Only lengths and positions  *)
(* are kept, since they are what can leave the slice.                      *)
(***************************************************************************)
EXTENDS Integers

CONSTANTS
  PayloadLen,  \* lengths of the TCP payload
  Byte,        \* values of a byte
  Word         \* values of a big-endian Uint16

ASSUME TlsSniAssumption == PayloadLen \subseteq Nat /\ Byte \subseteq Nat /\ Word \subseteq Nat

VARIABLES
  at,      \* the field to be read next
  len,     \* len(payload)
  n,       \* len(body)
  pos,     \* index into body
  end,     \* end of the extensions in body
  extLen,  \* length of the extension at pos
  name     \* what is returned: body[name.from : name.to], empty if none

vars == <<at, len, n, pos, end, extLen, name>>

None == [from |-> 0, to |-> 0]

Init ==
  /\ len \in PayloadLen
  /\ at = "record" /\ n = 0 /\ pos = 0 /\ end = 0 /\ extLen = 0 /\ name = None

-----------------------------------------------------------------------------
FailsOffByOne ==
  CASE at = "record"      -> len < 5
    [] at = "session"     -> pos >= n
    [] at = "ciphers"     -> pos + 2 > n
    [] at = "compression" -> pos > n
    [] at = "extensions"  -> pos + 2 > n
    [] at = "loop"        -> pos + 4 > end
    [] OTHER              -> FALSE

\* the check in front of each read, which returns ""
Fails ==
  CASE at = "record"      -> len < 5
    [] at = "session"     -> pos >= n
    [] at = "ciphers"     -> pos + 2 > n
    [] at = "compression" -> pos >= n
    [] at = "extensions"  -> pos + 2 > n
    [] at = "loop"        -> pos + 4 > end
    [] OTHER              -> FALSE

\* the read itself: the end of the slice or index it takes from body
ReadEnd ==
  CASE at \in {"session", "compression"} -> pos + 1
    [] at \in {"ciphers", "extensions"}  -> pos + 2
    [] at = "loop"                       -> pos + 4
    [] at = "name"                       -> pos + 5
    [] OTHER                             -> 0

Reading(where) == at = where /\ ~Fails

Go(to) == at' = to

Bail ==
  /\ Fails
  /\ Go("done")
  /\ UNCHANGED <<len, n, pos, end, extLen, name>>

\* record header and handshake type; the 38 bytes up to the session are skipped
ReadRecord ==
  /\ Reading("record")
  /\ \E recordLen \in Word, isClientHello \in BOOLEAN :
       IF recordLen > 0 /\ 5 + recordLen <= len /\ recordLen >= 42 /\ isClientHello
       THEN Go("session") /\ n' = recordLen /\ pos' = 4 + 2 + 32
       ELSE Go("done") /\ UNCHANGED <<n, pos>>
  /\ UNCHANGED <<len, end, extLen, name>>

\* a vector behind a length of one byte, or of two
SkipVector(from, to, lengths, width) ==
  /\ Reading(from)
  /\ \E l \in lengths : pos' = pos + width + l
  /\ Go(to)
  /\ UNCHANGED <<len, n, end, extLen, name>>

ReadSession     == SkipVector("session", "ciphers", Byte, 1)
ReadCiphers     == SkipVector("ciphers", "compression", Word, 2)
ReadCompression == SkipVector("compression", "extensions", Byte, 1)

ReadExtensions ==
  /\ Reading("extensions")
  /\ \E extensionsLen \in Word :
       IF pos + 2 + extensionsLen > n THEN Go("done") /\ UNCHANGED end
       ELSE Go("loop") /\ end' = pos + 2 + extensionsLen
  /\ pos' = pos + 2
  /\ UNCHANGED <<len, n, extLen, name>>

ReadExtensionStays ==
  /\ Reading("loop")
  /\ at' \in {"serverName", "otherExtension"} /\ extLen' \in Word
  /\ UNCHANGED <<len, n, pos, end, name>>

\* the head of the loop: extType, 0 for server_name, and extLen
ReadExtension ==
  /\ Reading("loop")
  /\ at' \in {"serverName", "otherExtension"} /\ extLen' \in Word
  /\ pos' = pos + 4
  /\ UNCHANGED <<len, n, end, name>>

SkipExtension ==
  /\ at = "otherExtension" /\ pos + extLen <= end
  /\ pos' = pos + extLen /\ Go("loop")
  /\ UNCHANGED <<len, n, end, extLen, name>>

EnterServerName ==
  /\ at = "serverName" /\ pos + extLen <= end /\ extLen >= 5
  /\ Go("name")
  /\ UNCHANGED <<len, n, pos, end, extLen, name>>

\* the extension overruns the extensions, or server_name is too short
BadExtension ==
  /\ \/ at \in {"serverName", "otherExtension"} /\ pos + extLen > end
     \/ at = "serverName" /\ extLen < 5
  /\ Go("done")
  /\ UNCHANGED <<len, n, pos, end, extLen, name>>

ReadNameUnchecked ==
  /\ Reading("name")
  /\ \E nameLen \in Word : name' = [from |-> pos + 5, to |-> pos + 5 + nameLen]
  /\ Go("done")
  /\ UNCHANGED <<len, n, pos, end, extLen>>

ReadName ==
  /\ Reading("name")
  /\ \E nameLen \in Word, isHostName \in BOOLEAN :
       name' = IF isHostName /\ nameLen > 0 /\ pos + 5 + nameLen <= pos + extLen
               THEN [from |-> pos + 5, to |-> pos + 5 + nameLen] ELSE None
  /\ Go("done")
  /\ UNCHANGED <<len, n, pos, end, extLen>>

Returned == at = "done" /\ UNCHANGED vars

Step ==
  \/ Bail \/ ReadRecord \/ ReadSession \/ ReadCiphers \/ ReadCompression \/ ReadExtensions
  \/ ReadExtension \/ SkipExtension \/ EnterServerName \/ BadExtension \/ ReadName

Next == Step \/ Returned

Spec == Init /\ [][Next]_vars

\* tlsSNI runs to its end
FairSpec == Spec /\ WF_vars(Step)

-----------------------------------------------------------------------------
(***************************************************************************)
(* Type invariant: no position or length of tlsSNI becomes negative.       *)
(***************************************************************************)
TypeOK ==
  /\ at \in {"record", "session", "ciphers", "compression", "extensions", "loop",
             "serverName", "otherExtension", "name", "done"}
  /\ {len, n, pos, end, extLen} \subseteq Nat
  /\ name \in [from : Nat, to : Nat]

(***************************************************************************)
(* No payload makes tlsSNI read outside body, a panic that would end the   *)
(* process: where a check lets it through, the read stays inside,          *)
(* whatever the length fields say.                                         *)
(***************************************************************************)
ReadsInBounds == ~Fails => ReadEnd <= n

(***************************************************************************)
(* A name that is returned is not empty and lies inside the server_name    *)
(* extension, that inside the extensions, those inside the record and the  *)
(* record inside the payload.                                              *)
(***************************************************************************)
NameInside ==
  name # None =>
    /\ pos + 5 = name.from /\ name.from < name.to
    /\ name.to <= pos + extLen /\ pos + extLen <= end
    /\ end <= n /\ 5 + n <= len

(***************************************************************************)
(* The walk ends: every turn of the loop moves on, even past an extension  *)
(* of length 0.                                                            *)
(***************************************************************************)
Terminates == <>(at = "done")
=============================================================================
