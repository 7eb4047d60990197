----------------------------- MODULE MCGateway -----------------------------
(***************************************************************************)
(* Instances of Gateway for TLC, which state liveness and therefore use no *)
(* symmetry.                                                               *)
(***************************************************************************)
EXTENDS Gateway, TLC

=============================================================================
