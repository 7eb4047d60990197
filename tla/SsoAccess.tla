------------------------------ MODULE SsoAccess ------------------------------
(***************************************************************************)
(* The checks of access tokens (token_validator.go), running beside the    *)
(* requests of SsoSession.  A check makes up to seven calls to Redis and   *)
(* MySQL, and sessions end and passwords change between any two of them.   *)
(* Three callers share the validator: the SSO's own middleware, the        *)
(* introspection that the OA back end asks for (with its result cache),    *)
(* and the introspection that the WebSocket gateway asks for.              *)
(*                                                                         *)
(* Simplifications: an access token is its claim, the session and the      *)
(* password version; its signature and deadline are checked before the     *)
(* first call and are left out; reasons and messages are left out.         *)
(***************************************************************************)
EXTENDS SsoSession

CONSTANTS
  Checker,       \* access token checks running concurrently
  NoClaim,       \* no token
  Callers        \* who asks: "middleware", "introspect", "gateway"

\* What an access token says: GenerateAccessToken.
Claims == Session \X Version

ASSUME AccessAssumption ==
  /\ NoClaim \notin Claims
  /\ Callers \subseteq {"middleware", "introspect", "gateway"}

VARIABLES
  vpc,           \* the call each check makes next
  caller,        \* who asked for it
  claim,         \* the token under check
  vver,          \* the password version read from MySQL
  cached,        \* tokens with a valid entry under sso:introspect:{hash}
  wasEnded,      \* history: had the session's end been announced at the start?
  wasAcked       \* history: the newest password acknowledged at the start

checks     == <<vpc, caller, claim, vver, wasEnded, wasAcked>>
accessVars == <<vars, checks, cached>>

CheckLabel == {"idle", "cache.read", "cache.current", "veto", "session.current",
               "session.record", "user", "cache.version", "cache.result",
               "gateway.record", "accepted"}

AccessTypeOK ==
  /\ TypeOK
  /\ vpc \in [Checker -> CheckLabel]
  /\ caller \in [Checker -> {"middleware", "introspect", "gateway", "nobody"}]
  /\ claim \in [Checker -> Claims \cup {NoClaim}]
  /\ \A v \in Checker : vpc[v] # "idle" => claim[v] \in access
  /\ vver \in [Checker -> Version]
  /\ cached \subseteq access
  /\ wasEnded \in [Checker -> BOOLEAN]
  /\ wasAcked \in [Checker -> Version]

AccessInit ==
  /\ Init
  /\ vpc = [v \in Checker |-> "idle"]
  /\ caller = [v \in Checker |-> "nobody"]
  /\ claim = [v \in Checker |-> NoClaim]
  /\ vver = [v \in Checker |-> 0]
  /\ cached = {}
  /\ wasEnded = [v \in Checker |-> FALSE]
  /\ wasAcked = [v \in Checker |-> 0]

-----------------------------------------------------------------------------

Sid(v) == claim[v][1]
Pv(v)  == claim[v][2]

CheckGoto(v, label) ==
  /\ vpc' = [vpc EXCEPT ![v] = label]
  /\ UNCHANGED <<caller, claim, vver, wasEnded, wasAcked>>

CheckReturn(v) ==
  /\ vpc' = [vpc EXCEPT ![v] = "idle"]
  /\ caller' = [caller EXCEPT ![v] = "nobody"]
  /\ claim' = [claim EXCEPT ![v] = NoClaim]
  /\ vver' = [vver EXCEPT ![v] = 0]
  /\ wasEnded' = [wasEnded EXCEPT ![v] = FALSE]
  /\ wasAcked' = [wasAcked EXCEPT ![v] = 0]

\* Also the outcome of a Redis or MySQL error where nothing else is said.
Reject(v) == CheckReturn(v)

Failing == "fail" \in Faults

\* Every token in circulation passes ParseAccessToken: only the calls after it may reject it.
Begin(v, who, label, c) ==
  /\ vpc[v] = "idle"
  /\ who \in Callers
  /\ vpc' = [vpc EXCEPT ![v] = label]
  /\ caller' = [caller EXCEPT ![v] = who]
  /\ claim' = [claim EXCEPT ![v] = c]
  /\ wasEnded' = [wasEnded EXCEPT ![v] = events[c[1]] > 0]
  /\ wasAcked' = [wasAcked EXCEPT ![v] = acked]
  /\ UNCHANGED <<vars, vver, cached>>

\* The three ways in; only the introspection for the OA looks into its cache first.
CheckFromMiddleware(v, c) == Begin(v, "middleware", "veto", c)
CheckFromIntrospect(v, c) == Begin(v, "introspect", "cache.read", c)
CheckFromGateway(v, c)    == Begin(v, "gateway", "veto", c)

\* Introspect: a cached result counts while its session is the current one.
CacheRead(v) ==
  /\ vpc[v] = "cache.read"
  /\ \/ claim[v] \in cached /\ CheckGoto(v, "cache.current")
     \/ (claim[v] \notin cached \/ Failing) /\ CheckGoto(v, "veto")
  /\ UNCHANGED <<vars, cached>>

\* Mutant: a cached result counts by itself.
CacheCurrentSkipped(v) ==
  /\ vpc[v] = "cache.current"
  /\ CheckGoto(v, "accepted")
  /\ UNCHANGED <<vars, cached>>

CacheCurrent(v) ==
  /\ vpc[v] = "cache.current"
  /\ \/ current = Sid(v) /\ CheckGoto(v, "accepted")
     \/ (current # Sid(v) \/ Failing) /\ CheckGoto(v, "veto")
  /\ UNCHANGED <<vars, cached>>

\* ValidateAccessToken: a cached password version other than the token's.
Veto(v) ==
  /\ vpc[v] = "veto"
  /\ \/ pvCache \notin {0, Pv(v)} /\ Reject(v)
     \/ (pvCache \in {0, Pv(v)} \/ Failing) /\ CheckGoto(v, "session.current")
  /\ UNCHANGED <<vars, cached>>

\* verifySession: current_session, then the record.
SessionCurrent(v) ==
  /\ vpc[v] = "session.current"
  /\ \/ current = Sid(v) /\ CheckGoto(v, "session.record")
     \/ (current # Sid(v) \/ Failing) /\ Reject(v)
  /\ UNCHANGED <<vars, cached>>

\* Mutant: the password version of the record is not compared.
RecordAcceptsAnyVersion(v) == sess[Sid(v)] = "active"

RecordAccepts(v) == sess[Sid(v)] = "active" /\ sessPv[Sid(v)] \in {0, Pv(v)}

SessionRecord(v) ==
  /\ vpc[v] = "session.record"
  /\ \/ RecordAccepts(v) /\ CheckGoto(v, "user")
     \/ (~RecordAccepts(v) \/ Failing) /\ Reject(v)
  /\ UNCHANGED <<vars, cached>>

ReadUser(v) ==
  /\ vpc[v] = "user"
  /\ \/ /\ vpc' = [vpc EXCEPT ![v] = "cache.version"]
        /\ vver' = [vver EXCEPT ![v] = dbVersion]
        /\ UNCHANGED <<caller, claim, wasEnded, wasAcked>>
     \/ Failing /\ Reject(v)
  /\ UNCHANGED <<vars, cached>>

\* The version that was read goes to the cache whether or not it matches.
CacheVersion(v) ==
  /\ vpc[v] = "cache.version"
  /\ pvCache' \in IF Failing THEN {vver[v], pvCache} ELSE {vver[v]}
  /\ IF vver[v] # Pv(v)
     THEN Reject(v)
     ELSE CheckGoto(v, CASE caller[v] = "introspect" -> "cache.result"
                         [] caller[v] = "gateway"    -> "gateway.record"
                         [] OTHER                    -> "accepted")
  /\ UNCHANGED <<store, lock, dbVersion, clients, pc, locals, cached>>

\* Mutant: the result is cached under the newest password version.
CacheResultNewest(v) ==
  /\ vpc[v] = "cache.result"
  /\ cached' = cached \cup {<<Sid(v), dbVersion>>}
  /\ CheckGoto(v, "accepted")
  /\ UNCHANGED vars

CacheResult(v) ==
  /\ vpc[v] = "cache.result"
  /\ cached' \in IF Failing THEN {cached \cup {claim[v]}, cached} ELSE {cached \cup {claim[v]}}
  /\ CheckGoto(v, "accepted")
  /\ UNCHANGED vars

\* IntrospectSession reads the record once more and only wants it to be there.
GatewayRecord(v) ==
  /\ vpc[v] = "gateway.record"
  /\ \/ sess[Sid(v)] # "none" /\ CheckGoto(v, "accepted")
     \/ (sess[Sid(v)] = "none" \/ Failing) /\ Reject(v)
  /\ UNCHANGED <<vars, cached>>

Accepted(v) ==
  /\ vpc[v] = "accepted"
  /\ CheckReturn(v)
  /\ UNCHANGED <<vars, cached>>

Check(v) ==
  \/ \E c \in access :
       CheckFromMiddleware(v, c) \/ CheckFromIntrospect(v, c) \/ CheckFromGateway(v, c)
  \/ CacheRead(v) \/ CacheCurrent(v) \/ Veto(v) \/ SessionCurrent(v) \/ SessionRecord(v)
  \/ ReadUser(v) \/ CacheVersion(v) \/ CacheResult(v) \/ GatewayRecord(v) \/ Accepted(v)

\* The introspection cache (30 s) and the password version cache (24 h).
CachedExpires(c) ==
  /\ cached' = cached \ {c}
  /\ UNCHANGED <<vars, checks>>

VersionExpires ==
  /\ pvCache # 0
  /\ pvCache' = 0
  /\ UNCHANGED <<store, lock, dbVersion, clients, pc, locals, checks, cached>>

AccessNext ==
  \/ Next /\ UNCHANGED <<checks, cached>>
  \/ \E v \in Checker : Check(v)
  \/ \E c \in cached : CachedExpires(c)
  \/ VersionExpires

AccessSpec == AccessInit /\ [][AccessNext]_accessVars

-----------------------------------------------------------------------------
\* Safety.

\* A token of a session whose end was announced before the check began is
\* rejected, by the introspection cache too (token_validator.go:24-25, 111-112).
NoAcceptAfterEnd == \A v \in Checker : vpc[v] = "accepted" => ~wasEnded[v]

\* Once a password change has been answered, no check that begins later
\* accepts a session that was logged in with an older password, however late
\* that login finished and whatever its refresh tokens were turned into.
PasswordChangeFinal ==
  \A v \in Checker :
    vpc[v] = "accepted" => sessPv[Sid(v)] >= wasAcked[v] /\ Pv(v) >= wasAcked[v]

-----------------------------------------------------------------------------
\* What the repository says of the code, and the code does not do.

\* redis.go:157: dropping the cached version on a password change forces the
\* next check back to MySQL, so no check vetoes a token of the newest password
\* once the change has been answered.
FreshTokenNotVetoed ==
  \A v \in Checker :
    vpc[v] = "veto" /\ Pv(v) = dbVersion /\ acked = dbVersion
      /\ (\A p \in Proc : pc[p] \notin {"revoke.all", "revoke.cache"})
    => pvCache \in {0, Pv(v)}

=============================================================================
