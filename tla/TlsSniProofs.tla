----------------------------- MODULE TlsSniProofs -----------------------------
(***************************************************************************)
(* tlsSNI stays inside its slices for payloads of every length and every   *)
(* value of the bytes and length fields.                                   *)
(***************************************************************************)
EXTENDS TlsSni, TLAPS

(***************************************************************************)
(* What the walk knows at each field.  Up to the extensions nothing but    *)
(* the checks bounds pos; from then on end <= n does, and in a server_name *)
(* extension its length does.                                              *)
(***************************************************************************)
WalkInv ==
  /\ at = "session" => pos + 1 <= n
  /\ at \in {"session", "ciphers", "compression", "extensions", "loop",
             "serverName", "otherExtension", "name"} => 5 + n <= len
  /\ at \in {"loop", "serverName", "otherExtension", "name"} => end <= n
  /\ at = "name" => 5 <= extLen /\ pos + extLen <= end
  /\ at # "done" => name = None

TlsInv == TypeOK /\ WalkInv /\ NameInside

LEMMA InitInv == Init => TlsInv
BY TlsSniAssumption DEF Init, TlsInv, TypeOK, WalkInv, NameInside, None

LEMMA StepInv ==
  ASSUME TlsInv, [Next]_vars
  PROVE  TlsInv'
<1> USE TlsSniAssumption DEF TlsInv, TypeOK
<1>1. CASE Bail
  BY <1>1 DEF Bail, Go, WalkInv, NameInside
<1>2. CASE ReadRecord
  BY <1>2 DEF ReadRecord, Reading, Go, WalkInv, NameInside
<1>3. CASE ReadSession
  BY <1>3 DEF ReadSession, SkipVector, Reading, Go, WalkInv, NameInside
<1>4. CASE ReadCiphers
  BY <1>4 DEF ReadCiphers, SkipVector, Reading, Go, WalkInv, NameInside
<1>5. CASE ReadCompression
  BY <1>5 DEF ReadCompression, SkipVector, Reading, Go, WalkInv, NameInside
<1>6. CASE ReadExtensions
  BY <1>6 DEF ReadExtensions, Reading, Go, WalkInv, NameInside
<1>7. CASE ReadExtension
  BY <1>7 DEF ReadExtension, Reading, Go, WalkInv, NameInside
<1>8. CASE SkipExtension
  BY <1>8 DEF SkipExtension, Go, WalkInv, NameInside
<1>9. CASE EnterServerName
  BY <1>9 DEF EnterServerName, Go, WalkInv, NameInside
<1>10. CASE BadExtension
  BY <1>10 DEF BadExtension, Go, WalkInv, NameInside
<1>11. CASE ReadName
  <2>1. PICK nameLen \in Word, isHostName \in BOOLEAN :
          name' = IF isHostName /\ nameLen > 0 /\ pos + 5 + nameLen <= pos + extLen
                  THEN [from |-> pos + 5, to |-> pos + 5 + nameLen] ELSE None
    BY <1>11 DEF ReadName
  <2>2. /\ at = "name" /\ at' = "done" /\ UNCHANGED <<len, n, pos, end, extLen>>
        /\ nameLen \in Nat
    BY <1>11 DEF ReadName, Reading, Go
  <2>3. CASE name' = None
    BY <2>2, <2>3 DEF WalkInv, NameInside, None
  <2>4. CASE /\ nameLen > 0 /\ pos + 5 + nameLen <= pos + extLen
             /\ name' = [from |-> pos + 5, to |-> pos + 5 + nameLen]
    <3>1. name'.from = pos + 5 /\ name'.to = pos + 5 + nameLen /\ name' \in [from : Nat, to : Nat]
      BY <2>2, <2>4
    <3> QED BY <2>2, <2>4, <3>1 DEF WalkInv, NameInside
  <2> QED BY <2>1, <2>3, <2>4
<1>12. CASE Returned \/ UNCHANGED vars
  BY <1>12 DEF Returned, vars, WalkInv, NameInside
<1> QED BY <1>1, <1>2, <1>3, <1>4, <1>5, <1>6, <1>7, <1>8, <1>9, <1>10, <1>11, <1>12
     DEF Next, Step

LEMMA Invariance == Spec => []TlsInv
<1>1. TlsInv /\ [Next]_vars => TlsInv'
  BY StepInv
<1> QED BY <1>1, InitInv, PTL DEF Spec

(***************************************************************************)
(* No payload, of whatever length and content, makes tlsSNI read outside   *)
(* the record body.                                                        *)
(***************************************************************************)
THEOREM SniReadsInBounds == Spec => []ReadsInBounds
<1>1. TlsInv => ReadsInBounds
  BY DEF TlsInv, TypeOK, WalkInv, ReadsInBounds, Fails, ReadEnd
<1> QED BY <1>1, Invariance, PTL

(***************************************************************************)
(* The name tlsSNI returns always lies inside the server_name extension of *)
(* the payload.                                                            *)
(***************************************************************************)
THEOREM SniNameInside == Spec => []NameInside
<1>1. TlsInv => NameInside
  BY DEF TlsInv
<1> QED BY <1>1, Invariance, PTL
=============================================================================
