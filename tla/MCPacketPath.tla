----------------------------- MODULE MCPacketPath -----------------------------
(***************************************************************************)
(* An instance of PacketPath for TLC.  The packets are named for what      *)
(* handlePacket finds in them.                                             *)
(***************************************************************************)
EXTENDS PacketPath, TLC

CONSTANTS pMalformed, pPoison, pNoPayload, pNoID

Everything ==
  pMalformed :> "malformed" @@ pPoison :> "dnsPoison" @@ pNoPayload :> "noPayload" @@ pNoID :> "noID"

MCContent == [p \in Packet |-> Everything[p]]
===============================================================================
