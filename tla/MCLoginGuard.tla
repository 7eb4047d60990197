---------------------------- MODULE MCLoginGuard ----------------------------
(***************************************************************************)
(* Model values and symmetry for the model checking of LoginGuard.         *)
(***************************************************************************)
EXTENDS LoginGuard, TLC
CONSTANTS s0, t0
MCNoLegacyToken == [s \in {} |-> NoToken]
Symmetry == Permutations(Session) \cup Permutations(Token) \cup Permutations(Proc)
=============================================================================
