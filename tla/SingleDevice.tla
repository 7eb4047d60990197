---------------------------- MODULE SingleDevice ----------------------------
(***************************************************************************)
(* What single-device login promises (session_service.go:72-80,            *)
(* token_validator.go:16-25), whatever scripts and requests bring it       *)
(* about: at any time one session of the user holds the device, a session  *)
(* takes the seat once, and it loses it in the very step that announces    *)
(* its end, unless its record had lapsed by itself.                        *)
(***************************************************************************)
CONSTANTS Session, NoSession

VARIABLES
  holder,   \* the session whose access tokens are accepted
  told,     \* sessions whose end has been announced
  live,     \* sessions whose record exists
  seated    \* sessions that have been created

deviceVars == <<holder, told, live, seated>>

\* Sessions of a version without single-device login may be live already.
Init ==
  /\ holder = NoSession
  /\ told = {}
  /\ seated \in SUBSET Session
  /\ live = seated

\* The seat can be left for next by a holder that is told, or has lapsed.
Leaves(next) == holder # next /\ holder # NoSession => holder \in told' \/ holder \notin live

SignIn(s) ==
  /\ s \notin seated
  /\ holder' = s
  /\ told \subseteq told' /\ told' \subseteq seated
  /\ Leaves(s)
  /\ seated' = seated \cup {s}
  /\ live' = live \cup {s}

SignOut ==
  /\ holder' \in {holder, NoSession}
  /\ told \subseteq told' /\ told' \subseteq seated
  /\ Leaves(holder')
  /\ holder' # NoSession => holder' \notin told'
  /\ UNCHANGED <<live, seated>>

Lapse(s) ==
  /\ live' = live \ {s}
  /\ UNCHANGED <<holder, told, seated>>

\* A refresh writes back the record of a session that had just lapsed.
Restore(s) ==
  /\ s \in seated
  /\ live' = live \cup {s}
  /\ UNCHANGED <<holder, told, seated>>

Next == SignOut \/ \E s \in Session : SignIn(s) \/ Lapse(s) \/ Restore(s)

Spec == Init /\ [][Next]_deviceVars

=============================================================================
