----------------------------- MODULE MCSsoAccess -----------------------------
(***************************************************************************)
(* Instances of SsoAccess for TLC: no session taken over, a few fresh ids. *)
(***************************************************************************)
EXTENDS SsoAccess, TLC

MCLegacyToken == [s \in {} |-> NoToken]

Symmetry == Permutations(Session) \cup Permutations(Token) \cup Permutations(Proc)

=============================================================================
