------------------------------- MODULE MCOta -------------------------------
(***************************************************************************)
(* Instances of the update for TLC.                                        *)
(***************************************************************************)
EXTENDS OtaHistory, TLC

CONSTANTS old, new, phone, mesh

MCVersion == old :> 1 @@ new :> 1
=============================================================================
