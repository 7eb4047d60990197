---------------------------- MODULE MCSsoSession ----------------------------
(***************************************************************************)
(* Instances of SsoSession for TLC: one session taken over from the        *)
(* previous version, and a few fresh ids.                                  *)
(***************************************************************************)
EXTENDS SsoSession, TLC

CONSTANTS s0, t0

MCLegacy == {s0}
MCLegacyToken == s0 :> t0

\* Fresh ids and requests are interchangeable.
Symmetry ==
  Permutations(Session \ Legacy) \cup Permutations(Token \ {t0}) \cup Permutations(Proc)

\* Bound of the instance: a password change or an expiry, not both, and the last
\* fresh token only while neither has happened and no dead request holds a lock.
NothingExpired ==
  /\ \A s \in created : sess[s] # "none"
  /\ \A t \in Token : tokSess[t] # NoSession => tok[t] # "none"

NoLockLeft == \A t \in Token : lock[t] # Dead

MCBound ==
  \/ FreshToken # {} /\ (dbVersion = 1 \/ NothingExpired)
  \/ dbVersion = 1 /\ NothingExpired /\ NoLockLeft

=============================================================================
