------------------------------- MODULE MCFilter --------------------------------
(***************************************************************************)
(* An instance of Filter for TLC.                                          *)
(***************************************************************************)
EXTENDS Filter, TLC

CONSTANTS pDrop, pNoID

Everything == pDrop :> "dnsDrop" @@ pNoID :> "noID"

MCContent == [p \in Packet |-> Everything[p]]
================================================================================
