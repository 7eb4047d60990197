----------------------------- MODULE SsoSession -----------------------------
(***************************************************************************)
(* The session store of the SSO service (src/sso/server): the Redis        *)
(* records of one user's sessions and refresh tokens, the three Lua        *)
(* scripts that change them atomically, and the requests that reach them   *)
(* through several separate Redis and MySQL calls.                         *)
(*                                                                         *)
(* All keys are per user (session records and tokens carry their user's    *)
(* id), so one user is the whole state; Proc are concurrent requests of    *)
(* that user, of an administrator, or of the OA back end.                  *)
(*                                                                         *)
(* Simplifications:                                                        *)
(*  - a record is its status; device, IP and timestamps are left out;      *)
(*  - time is left out, with the few seconds by which the deadlines that   *)
(*    two overlapping requests set may differ: a key may expire whenever   *)
(*    the keys that are given no later deadline have expired too;          *)
(*  - the event stream is the number of events written about each session  *)
(*    (the gateway that reads the stream has a module of its own);         *)
(*  - a pipeline whose commands commute with every other command is one    *)
(*    step.                                                                *)
(***************************************************************************)
EXTENDS Naturals, FiniteSets

CONSTANTS
  Session,         \* session ids, each generated at most once
  Token,           \* refresh tokens (their hashes)
  Proc,            \* requests being served concurrently
  NoSession,       \* an absent current_session key
  NoToken,         \* an absent refresh token
  Free,            \* an absent refresh lock key
  Dead,            \* the request id of a request that died holding a lock
  Legacy,          \* sessions written before current_session existed
  LegacyToken,     \* the refresh token of each of them
  Mode,            \* login_mode: "replace" or "reject"
  Requests,        \* the kinds of request that are served
  Faults,          \* what may go wrong: see the actions
  MaxVersion       \* bound on the number of password versions

ASSUME SessionAssumption ==
  /\ NoSession \notin Session
  /\ NoToken \notin Token
  /\ Free \notin Proc /\ Dead \notin Proc /\ Free # Dead
  /\ Legacy \subseteq Session
  /\ LegacyToken \in [Legacy -> Token]
  /\ \A a, b \in Legacy : LegacyToken[a] = LegacyToken[b] => a = b
  /\ Mode \in {"replace", "reject"}
  /\ Requests \subseteq {"login", "refresh", "logout", "revoke", "change_password"}
  /\ Faults \subseteq {"fail", "crash", "expiry", "lock"}
  /\ MaxVersion \in Nat \ {0}

VARIABLES
  sess,          \* status of sso:session:{sid}; "none": no such key
  sessPv,        \* passwordVersion of the record; 0 in legacy records
  created,       \* session ids that have been written
  userSessions,  \* the set sso:user_sessions:{uid}
  current,       \* sso:user:{uid}:current_session
  events,        \* number of stream events about each session
  tok,           \* status of sso:rt:{hash}; "none": no such key
  tokSess,       \* sessionId of the token; its family is sso:rt_family:{sid}
  parent,        \* rotatedFrom
  lock,          \* sso:refresh_lock:{hash}: the request id that holds it
  dbVersion,     \* sys_user.password_version in MySQL
  pvCache,       \* sso:user:password_version:{uid}; 0: no such key
  issued,        \* refresh tokens returned to a client
  access,        \* access tokens signed: <<session, password version>>
  acked,         \* history: newest password whose change was answered "done"
  pc,            \* the call each request makes next
  rt,            \* the refresh token it works on
  new,           \* the token a rotation has just saved
  ver,           \* the password version it has read
  seen,          \* the session status TouchSession has read
  mark,          \* the status UpdateRefreshTokenStatus is to write
  known,         \* has Logout identified the user from the access token?
  changed        \* the version a ChangePassword request has committed

store   == <<sess, sessPv, created, userSessions, current, events, tok, tokSess, parent>>
users   == <<dbVersion, pvCache>>
clients == <<issued, access, acked>>
locals  == <<rt, new, ver, seen, mark, known, changed>>
vars    == <<store, lock, users, clients, pc, locals>>

Ended == {"replaced", "revoked", "logged_out"}

SessionStatus == {"none", "active"} \cup Ended

TokenStatus == {"none", "active", "rotated", "revoked", "expired"}

Locked == {"recheck", "token.read", "token.write", "rotate.save",
           "touch.read", "touch.write", "refresh.done", "replay", "unlock"}

Label == {"idle", "login.establish", "refresh.session", "refresh.user", "refresh.lock",
          "logout.token", "logout.session", "revoke.all", "revoke.cache"} \cup Locked

Version == 0 .. MaxVersion

StoreTypeOK ==
  /\ sess \in [Session -> SessionStatus]
  /\ sessPv \in [Session -> Version]
  /\ created \in SUBSET Session
  /\ userSessions \in SUBSET Session
  /\ current \in Session \cup {NoSession}
  /\ events \in [Session -> Nat]
  /\ tok \in [Token -> TokenStatus]
  /\ tokSess \in [Token -> Session \cup {NoSession}]
  /\ parent \in [Token -> Token \cup {NoToken}]

ServiceTypeOK ==
  /\ lock \in [Token -> Proc \cup {Free, Dead}]
  /\ dbVersion \in Version
  /\ pvCache \in Version
  /\ issued \in SUBSET Token
  /\ access \in SUBSET (Session \X Version)
  /\ acked \in Version

RequestTypeOK ==
  /\ pc \in [Proc -> Label]
  /\ rt \in [Proc -> Token \cup {NoToken}]
  /\ new \in [Proc -> Token \cup {NoToken}]
  /\ ver \in [Proc -> Version]
  /\ seen \in [Proc -> SessionStatus]
  /\ mark \in [Proc -> TokenStatus]
  /\ known \in [Proc -> BOOLEAN]
  /\ changed \in [Proc -> Version]

\* Every record, key and local variable holds a value of its type.
TypeOK == StoreTypeOK /\ ServiceTypeOK /\ RequestTypeOK

-----------------------------------------------------------------------------
\* A deployment takes over the sessions of the previous version, which are
\* active, indexed, and have no current_session (redis.go:272).

Init ==
  /\ sess = [s \in Session |-> IF s \in Legacy THEN "active" ELSE "none"]
  /\ sessPv = [s \in Session |-> 0]
  /\ created = Legacy
  /\ userSessions = Legacy
  /\ current = NoSession
  /\ events = [s \in Session |-> 0]
  /\ tok = [t \in Token |-> IF \E s \in Legacy : LegacyToken[s] = t THEN "active" ELSE "none"]
  /\ tokSess = [t \in Token |->
                  IF \E s \in Legacy : LegacyToken[s] = t
                  THEN CHOOSE s \in Legacy : LegacyToken[s] = t
                  ELSE NoSession]
  /\ parent = [t \in Token |-> NoToken]
  /\ lock = [t \in Token |-> Free]
  /\ dbVersion = 1
  /\ pvCache = 0
  /\ issued = {LegacyToken[s] : s \in Legacy}
  /\ access = {<<s, 1>> : s \in Legacy}
  /\ acked = 0
  /\ pc = [p \in Proc |-> "idle"]
  /\ rt = [p \in Proc |-> NoToken]
  /\ new = [p \in Proc |-> NoToken]
  /\ ver = [p \in Proc |-> 0]
  /\ seen = [p \in Proc |-> "none"]
  /\ mark = [p \in Proc |-> "none"]
  /\ known = [p \in Proc |-> FALSE]
  /\ changed = [p \in Proc |-> 0]

-----------------------------------------------------------------------------
\* Control flow of a request.

Goto(p, label) == pc' = [pc EXCEPT ![p] = label]

Return(p) ==
  /\ Goto(p, "idle")
  /\ rt' = [rt EXCEPT ![p] = NoToken]
  /\ new' = [new EXCEPT ![p] = NoToken]
  /\ ver' = [ver EXCEPT ![p] = 0]
  /\ seen' = [seen EXCEPT ![p] = "none"]
  /\ mark' = [mark EXCEPT ![p] = "none"]
  /\ known' = [known EXCEPT ![p] = FALSE]
  /\ changed' = [changed EXCEPT ![p] = 0]

FreshToken == {t \in Token : tokSess[t] = NoSession}

\* Bound of the model: a request that finds no fresh id left is given up.
OutOfIds(p) ==
  \/ pc[p] \in {"login.establish", "rotate.save"} /\ FreshToken = {}
  \/ pc[p] = "login.establish" /\ created = Session

-----------------------------------------------------------------------------
\* The Lua scripts: each runs alone.

\* The indexed sessions whose record still exists.
Indexed == {s \in userSessions : sess[s] # "none"}

RevokeFamilies(families) ==
  [t \in Token |-> IF tok[t] = "active" /\ tokSess[t] \in families THEN "revoked" ELSE tok[t]]

End(sessions, status) ==
  /\ sess' = [s \in Session |-> IF s \in sessions THEN status ELSE sess[s]]
  /\ events' = [s \in Session |-> IF s \in sessions THEN events[s] + 1 ELSE events[s]]

\* Mutant: a login is rejected only while the current record is gone.
LoginRejectedInverted ==
  /\ Mode = "reject"
  /\ current # NoSession
  /\ sess[current] # "active"

\* login_replace.lua: a live session under current_session rejects the login.
LoginRejected ==
  /\ Mode = "reject"
  /\ current # NoSession
  /\ sess[current] = "active"

\* Mutant: the new session is not added to the index that was reset.
LoginReplaceUnindexed(s, t, version) ==
  LET replaced == {x \in Indexed : sess[x] = "active"} IN
  /\ sess' = [x \in Session |-> IF x = s THEN "active"
                                ELSE IF x \in replaced THEN "replaced" ELSE sess[x]]
  /\ events' = [x \in Session |-> IF x \in replaced THEN events[x] + 1 ELSE events[x]]
  /\ tok' = [RevokeFamilies(Indexed) EXCEPT ![t] = "active"]
  /\ tokSess' = [tokSess EXCEPT ![t] = s]
  /\ sessPv' = [sessPv EXCEPT ![s] = version]
  /\ created' = created \cup {s}
  /\ userSessions' = {}
  /\ current' = s
  /\ UNCHANGED parent

\* login_replace.lua: end every indexed session, write session s with token t.
LoginReplace(s, t, version) ==
  LET replaced == {x \in Indexed : sess[x] = "active"} IN
  /\ sess' = [x \in Session |-> IF x = s THEN "active"
                                ELSE IF x \in replaced THEN "replaced" ELSE sess[x]]
  /\ events' = [x \in Session |-> IF x \in replaced THEN events[x] + 1 ELSE events[x]]
  /\ tok' = [RevokeFamilies(Indexed) EXCEPT ![t] = "active"]
  /\ tokSess' = [tokSess EXCEPT ![t] = s]
  /\ sessPv' = [sessPv EXCEPT ![s] = version]
  /\ created' = created \cup {s}
  /\ userSessions' = {s}
  /\ current' = s
  /\ UNCHANGED parent

\* Mutant: current_session is deleted whichever session it names.
RevokeSessionClears(s, status) ==
  IF sess[s] = "active"
  THEN /\ End({s}, status)
       /\ tok' = RevokeFamilies({s})
       /\ current' = NoSession
       /\ userSessions' = userSessions \ {s}
       /\ UNCHANGED <<sessPv, created, tokSess, parent>>
  ELSE UNCHANGED store

\* Mutant: current_session is left behind.
RevokeSessionLeaves(s, status) ==
  IF sess[s] = "active"
  THEN /\ End({s}, status)
       /\ tok' = RevokeFamilies({s})
       /\ userSessions' = userSessions \ {s}
       /\ UNCHANGED <<current, sessPv, created, tokSess, parent>>
  ELSE UNCHANGED store

\* Mutant: the refresh tokens of the session are not revoked.
RevokeSessionKeepsTokens(s, status) ==
  IF sess[s] = "active"
  THEN /\ End({s}, status)
       /\ current' = IF current = s THEN NoSession ELSE current
       /\ userSessions' = userSessions \ {s}
       /\ UNCHANGED <<tok, sessPv, created, tokSess, parent>>
  ELSE UNCHANGED store

\* revoke_session.lua: only a session that is still active is ended, and
\* current_session is deleted only when it names that session.
RevokeSession(s, status) ==
  IF sess[s] = "active"
  THEN /\ End({s}, status)
       /\ tok' = RevokeFamilies({s})
       /\ current' = IF current = s THEN NoSession ELSE current
       /\ userSessions' = userSessions \ {s}
       /\ UNCHANGED <<sessPv, created, tokSess, parent>>
  ELSE UNCHANGED store

\* Mutant: the statuses are written, the events are not.
RevokeUserSilent ==
  /\ sess' = [s \in Session |-> IF s \in Indexed /\ sess[s] = "active" THEN "revoked" ELSE sess[s]]
  /\ tok' = RevokeFamilies(Indexed)
  /\ current' = NoSession
  /\ UNCHANGED <<events, sessPv, created, userSessions, tokSess, parent>>

\* revoke_user.lua: end every indexed session and delete current_session.
RevokeUser ==
  /\ End({s \in Indexed : sess[s] = "active"}, "revoked")
  /\ tok' = RevokeFamilies(Indexed)
  /\ current' = NoSession
  /\ UNCHANGED <<sessPv, created, userSessions, tokSess, parent>>

-----------------------------------------------------------------------------
\* Login: the password is checked against the user row, the access token is
\* signed, then one script replaces the session.

LoginReadUser(p) ==
  /\ "login" \in Requests
  /\ pc[p] = "idle"
  /\ Goto(p, "login.establish")
  /\ ver' = [ver EXCEPT ![p] = dbVersion]
  /\ UNCHANGED <<store, lock, users, clients, rt, new, seen, mark, known, changed>>

LoginEstablish(p) ==
  /\ pc[p] = "login.establish"
  /\ Return(p)
  /\ UNCHANGED <<lock, users>>
  /\ \/ LoginRejected /\ UNCHANGED <<store, clients>>
     \/ /\ ~LoginRejected
        /\ \E s \in Session \ created, t \in FreshToken :
             /\ LoginReplace(s, t, ver[p])
             /\ issued' = issued \cup {t}
             /\ access' = access \cup {<<s, ver[p]>>}
             /\ UNCHANGED acked

-----------------------------------------------------------------------------
\* Refresh.

RefreshReadToken(p, t) ==
  /\ "refresh" \in Requests
  /\ pc[p] = "idle"
  /\ t \in issued
  /\ rt' = [rt EXCEPT ![p] = t]
  /\ \/ tok[t] = "rotated" /\ Goto(p, "replay") /\ UNCHANGED mark
     \/ tok[t] = "active" /\ Goto(p, "refresh.session") /\ UNCHANGED mark
     \/ /\ tok[t] = "active"            \* past its deadline, key not yet gone
        /\ Goto(p, "token.read")
        /\ mark' = [mark EXCEPT ![p] = "expired"]
  /\ UNCHANGED <<store, lock, users, clients, new, ver, seen, known, changed>>

RefreshReadSession(p) ==
  /\ pc[p] = "refresh.session"
  /\ IF sess[tokSess[rt[p]]] = "active"
     THEN Goto(p, "refresh.user") /\ UNCHANGED locals
     ELSE Return(p)
  /\ UNCHANGED <<store, lock, users, clients>>

RefreshReadUser(p) ==
  /\ pc[p] = "refresh.user"
  /\ Goto(p, "refresh.lock")
  /\ ver' = [ver EXCEPT ![p] = dbVersion]
  /\ UNCHANGED <<store, lock, users, clients, rt, new, seen, mark, known, changed>>

\* SET NX EX 5; a Redis error lets the request through without the lock.
RefreshLock(p) ==
  /\ pc[p] = "refresh.lock"
  /\ \/ /\ lock[rt[p]] = Free
        /\ lock' = [lock EXCEPT ![rt[p]] = p]
        /\ Goto(p, "recheck")
        /\ UNCHANGED locals
     \/ lock[rt[p]] # Free /\ Return(p) /\ UNCHANGED lock
     \/ "lock" \in Faults /\ Goto(p, "recheck") /\ UNCHANGED <<lock, locals>>
  /\ UNCHANGED <<store, users, clients>>

\* Mutant: the status read before the lock is trusted.
RefreshRecheckTrusts(p) ==
  /\ pc[p] = "recheck"
  /\ Goto(p, "token.read")
  /\ mark' = [mark EXCEPT ![p] = "rotated"]
  /\ UNCHANGED <<store, lock, users, clients, rt, new, ver, seen, known, changed>>

RefreshRecheck(p) ==
  /\ pc[p] = "recheck"
  /\ \/ tok[rt[p]] = "rotated" /\ Goto(p, "replay") /\ UNCHANGED mark
     \/ /\ tok[rt[p]] = "active"
        /\ Goto(p, "token.read")
        /\ mark' = [mark EXCEPT ![p] = "rotated"]
     \/ tok[rt[p]] \notin {"rotated", "active"} /\ Goto(p, "unlock") /\ UNCHANGED mark
  /\ UNCHANGED <<store, lock, users, clients, rt, new, ver, seen, known, changed>>

\* UpdateRefreshTokenStatus reads the record and writes it back in a second
\* call. What the request does next depends on the status it is writing.
AfterMark(p) == CASE mark[p] = "rotated" -> "rotate.save"
                  [] mark[p] = "expired" -> "unlock"
                  [] OTHER               -> "logout.session"

TokenRead(p) ==
  /\ pc[p] = "token.read"
  /\ Goto(p, IF tok[rt[p]] = "none"
             THEN IF mark[p] = "revoked" THEN "logout.session" ELSE "unlock"
             ELSE IF tok[rt[p]] = mark[p] THEN AfterMark(p) ELSE "token.write")
  /\ UNCHANGED <<store, lock, users, clients, locals>>

TokenWrite(p) ==
  /\ pc[p] = "token.write"
  /\ tok' = [tok EXCEPT ![rt[p]] = mark[p]]
  /\ Goto(p, AfterMark(p))
  /\ UNCHANGED <<sess, sessPv, created, userSessions, current, events, tokSess, parent>>
  /\ UNCHANGED <<lock, users, clients, locals>>

\* Mutant: the new token is saved but not returned.
RotateSaveUnreturned(p) ==
  /\ pc[p] = "rotate.save"
  /\ \E t \in FreshToken :
       /\ tok' = [tok EXCEPT ![t] = "active"]
       /\ tokSess' = [tokSess EXCEPT ![t] = tokSess[rt[p]]]
       /\ parent' = [parent EXCEPT ![t] = rt[p]]
  /\ Goto(p, "touch.read")
  /\ UNCHANGED <<sess, sessPv, created, userSessions, current, events>>
  /\ UNCHANGED <<lock, users, clients, rt, new, ver, seen, mark, known, changed>>

\* SaveRefreshToken: the record and its entry in the family of the session.
RotateSave(p) ==
  /\ pc[p] = "rotate.save"
  /\ \E t \in FreshToken :
       /\ tok' = [tok EXCEPT ![t] = "active"]
       /\ tokSess' = [tokSess EXCEPT ![t] = tokSess[rt[p]]]
       /\ parent' = [parent EXCEPT ![t] = rt[p]]
       /\ new' = [new EXCEPT ![p] = t]
  /\ Goto(p, "touch.read")
  /\ UNCHANGED <<sess, sessPv, created, userSessions, current, events>>
  /\ UNCHANGED <<lock, users, clients, rt, ver, seen, mark, known, changed>>

\* TouchSession reads the whole record and writes it back with a new deadline.
TouchRead(p) ==
  /\ pc[p] = "touch.read"
  /\ IF sess[tokSess[rt[p]]] = "none"
     THEN Goto(p, "unlock") /\ UNCHANGED seen
     ELSE /\ Goto(p, "touch.write")
          /\ seen' = [seen EXCEPT ![p] = sess[tokSess[rt[p]]]]
  /\ UNCHANGED <<store, lock, users, clients, rt, new, ver, mark, known, changed>>

TouchWrite(p) ==
  /\ pc[p] = "touch.write"
  /\ sess' = [sess EXCEPT ![tokSess[rt[p]]] = seen[p]]
  /\ Goto(p, "refresh.done")
  /\ UNCHANGED <<sessPv, created, userSessions, current, events, tok, tokSess, parent>>
  /\ UNCHANGED <<lock, users, clients, locals>>

\* The signed access token carries the password version read before the lock.
RefreshDone(p) ==
  /\ pc[p] = "refresh.done"
  /\ issued' = issued \cup {new[p]}
  /\ access' = access \cup {<<tokSess[rt[p]], ver[p]>>}
  /\ Goto(p, "unlock")
  /\ UNCHANGED <<acked, store, lock, users, locals>>

\* handleRefreshReplay; the error of the script is logged and dropped.
RefreshReplay(p) ==
  /\ pc[p] = "replay"
  /\ RevokeSession(tokSess[rt[p]], "revoked")
  /\ Goto(p, "unlock")
  /\ UNCHANGED <<lock, users, clients, locals>>

\* release_refresh_lock.lua deletes the lock only if this request holds it.
RefreshUnlock(p) ==
  /\ pc[p] = "unlock"
  /\ lock' = [t \in Token |-> IF t = rt[p] /\ lock[t] = p THEN Free ELSE lock[t]]
  /\ Return(p)
  /\ UNCHANGED <<store, users, clients>>

-----------------------------------------------------------------------------
\* Logout. With a valid access token the session it names is revoked first and
\* the refresh token after that; a refresh token alone revokes its own session.
\* A Redis error is logged and the request carries on.

LogoutAccess(p, s, t) ==
  /\ "logout" \in Requests
  /\ pc[p] = "idle"
  /\ \E v \in Version : <<s, v>> \in access
  /\ RevokeSession(s, "logged_out") \/ ("fail" \in Faults /\ UNCHANGED store)
  /\ IF t = NoToken
     THEN UNCHANGED <<pc, rt, known>>
     ELSE /\ Goto(p, "logout.token")
          /\ rt' = [rt EXCEPT ![p] = t]
          /\ known' = [known EXCEPT ![p] = TRUE]
  /\ UNCHANGED <<lock, users, clients, new, ver, seen, mark, changed>>

LogoutRefreshOnly(p, t) ==
  /\ "logout" \in Requests
  /\ pc[p] = "idle"
  /\ Goto(p, "logout.token")
  /\ rt' = [rt EXCEPT ![p] = t]
  /\ UNCHANGED <<store, lock, users, clients, new, ver, seen, mark, known, changed>>

LogoutReadToken(p) ==
  /\ pc[p] = "logout.token"
  /\ IF tok[rt[p]] = "active"
     THEN /\ Goto(p, "token.read")
          /\ mark' = [mark EXCEPT ![p] = "revoked"]
          /\ UNCHANGED <<rt, new, ver, seen, known, changed>>
     ELSE Return(p)
  /\ UNCHANGED <<store, lock, users, clients>>

LogoutTokenSession(p) ==
  /\ pc[p] = "logout.session"
  /\ IF known[p] THEN UNCHANGED store ELSE RevokeSession(tokSess[rt[p]], "logged_out")
  /\ Return(p)
  /\ UNCHANGED <<lock, users, clients>>

-----------------------------------------------------------------------------
\* ChangePassword, the OA back end's ResetPassword, and the internal endpoint
\* that only revokes: commit the password, revoke the user, drop the cached
\* version. A failure to drop it is logged only.

ChangePassword(p) ==
  /\ "change_password" \in Requests
  /\ pc[p] = "idle"
  /\ dbVersion < MaxVersion
  /\ dbVersion' = dbVersion + 1
  /\ changed' = [changed EXCEPT ![p] = dbVersion + 1]
  /\ Goto(p, "revoke.all")
  /\ UNCHANGED <<store, lock, pvCache, clients, rt, new, ver, seen, mark, known>>

RevokeAllScript(p) ==
  /\ pc[p] = "revoke.all" \/ (pc[p] = "idle" /\ "revoke" \in Requests)
  /\ RevokeUser
  /\ Goto(p, "revoke.cache")
  /\ UNCHANGED <<lock, users, clients, locals>>

RevokeAllDropCache(p) ==
  /\ pc[p] = "revoke.cache"
  /\ pvCache' \in IF "fail" \in Faults THEN {0, pvCache} ELSE {0}
  /\ acked' = IF changed[p] > acked THEN changed[p] ELSE acked
  /\ Return(p)
  /\ UNCHANGED <<store, lock, dbVersion, issued, access>>

-----------------------------------------------------------------------------
\* Failures and expiry.

\* A call of a request fails: the request returns the error, through the
\* deferred release if it had acquired the lock. Logout logs it and carries on.
StepFails(p) ==
  /\ "fail" \in Faults \/ OutOfIds(p)
  /\ pc[p] \notin {"idle", "unlock"}
  /\ IF pc[p] \in Locked
     THEN Goto(p, IF mark[p] = "revoked" THEN "logout.session" ELSE "unlock") /\ UNCHANGED locals
     ELSE Return(p)
  /\ UNCHANGED <<store, lock, users, clients>>

\* The service dies between two calls; its lock stays until it expires.
Crash(p) ==
  /\ "crash" \in Faults
  /\ pc[p] # "idle"
  /\ lock' = [t \in Token |-> IF lock[t] = p THEN Dead ELSE lock[t]]
  /\ Return(p)
  /\ UNCHANGED <<store, users, clients>>

\* The 5 s lock expires: under a request that is still running only if the
\* deployment lets a request last that long.
LockExpires(t) ==
  /\ lock[t] = Dead \/ ("lock" \in Faults /\ lock[t] # Free)
  /\ lock' = [lock EXCEPT ![t] = Free]
  /\ UNCHANGED <<store, users, clients, pc, locals>>

TokenExpires(t) ==
  /\ "expiry" \in Faults
  /\ tok[t] # "none"
  /\ tok' = [tok EXCEPT ![t] = "none"]
  /\ UNCHANGED <<sess, sessPv, created, userSessions, current, events, tokSess, parent>>
  /\ UNCHANGED <<lock, users, clients, pc, locals>>

SessionExpires(s) ==
  /\ "expiry" \in Faults
  /\ sess[s] # "none"
  /\ sess' = [sess EXCEPT ![s] = "none"]
  /\ UNCHANGED <<sessPv, created, userSessions, current, events, tok, tokSess, parent>>
  /\ UNCHANGED <<lock, users, clients, pc, locals>>

\* Every call that gives a session a deadline gives the index and
\* current_session one at least as late.
IndexExpires ==
  /\ "expiry" \in Faults
  /\ userSessions # {} \/ current # NoSession
  /\ \A s \in userSessions \cup {current} : s # NoSession => sess[s] = "none"
  /\ userSessions' = {}
  /\ current' = NoSession
  /\ UNCHANGED <<sess, sessPv, created, events, tok, tokSess, parent>>
  /\ UNCHANGED <<lock, users, clients, pc, locals>>

-----------------------------------------------------------------------------

Step(p) ==
  \/ LoginReadUser(p) \/ LoginEstablish(p)
  \/ \E t \in issued : RefreshReadToken(p, t) \/ LogoutRefreshOnly(p, t)
  \/ RefreshReadSession(p) \/ RefreshReadUser(p) \/ RefreshLock(p) \/ RefreshRecheck(p)
  \/ TokenRead(p) \/ TokenWrite(p)
  \/ RotateSave(p) \/ TouchRead(p) \/ TouchWrite(p) \/ RefreshDone(p)
  \/ RefreshReplay(p) \/ RefreshUnlock(p)
  \/ \E s \in Session, t \in issued \cup {NoToken} : LogoutAccess(p, s, t)
  \/ LogoutReadToken(p) \/ LogoutTokenSession(p)
  \/ ChangePassword(p) \/ RevokeAllScript(p) \/ RevokeAllDropCache(p)
  \/ StepFails(p) \/ Crash(p)

Expiry ==
  \/ \E t \in Token : LockExpires(t) \/ TokenExpires(t)
  \/ \E s \in Session : SessionExpires(s)
  \/ IndexExpires

Next == Expiry \/ \E p \in Proc : Step(p)

Spec == Init /\ [][Next]_vars

-----------------------------------------------------------------------------
\* Safety.

\* A session about which an offline event was written is never the current
\* session again: the gateway's notice is final (login_replace.lua:122).
AnnouncedIsOut == \A s \in Session : events[s] > 0 => current # s

\* A record in a terminal status has its event in the stream, whichever of the
\* scripts and of the racing TouchSession writes wrote it last.
EndedIsTold == \A s \in Session : sess[s] \in Ended => events[s] > 0

\* While the record of the current session exists it is active and indexed, so
\* that revoking the user reaches it.
CurrentIsIndexed ==
  \A s \in Session : current = s /\ sess[s] # "none" => sess[s] = "active" /\ s \in userSessions

\* A session loses its place as current session only in the step that writes
\* its event, or by expiry: no stale credential ends a session silently
\* (session_service.go:186).
DisplacedIsTold ==
  [][\A s \in Session : current = s /\ current' # s =>
       events'[s] > events[s] \/ sess[s] = "none"]_vars

\* One live refresh token per session: no interleaving of refreshes forks the
\* rotation chain. Holds if a request outlives neither its lock nor Redis.
OneLiveToken ==
  \A t, u \in Token :
    tok[t] = "active" /\ tok[u] = "active" /\ tokSess[t] = tokSess[u] => t = u

\* A session that was announced as ended cannot be refreshed, even when a
\* racing TouchSession has written its record back to active.
NoRefreshAfterEnd ==
  \A t \in Token, s \in Session :
    tok[t] = "active" /\ tokSess[t] = s /\ events[s] > 0 => sess[s] # "active"

\* The store implements single-device login: see SingleDevice.
Device == INSTANCE SingleDevice WITH
            holder <- current,
            told   <- {s \in Session : events[s] > 0},
            live   <- {s \in Session : sess[s] # "none"},
            seated <- created

SingleDeviceLogin == Device!Spec

\* In "reject" mode no login takes the device from a live session: only its own
\* end or a revocation does (consts/realtime.go:49).
RejectKeepsHolder ==
  [][Mode = "reject" /\ current # NoSession /\ current' \notin {current, NoSession}
       => sess[current] # "active"]_vars

-----------------------------------------------------------------------------
\* What the repository says of the code, and the code does not do.

\* session_lua.go:152: revoking a user ends all of the user's active sessions.
RevokeAllLeavesNoneActive ==
  [][(\E p \in Proc : pc'[p] = "revoke.cache" /\ pc[p] # "revoke.cache")
       => \A s \in Session : sess'[s] # "active"]_vars

\* session_service.go:24: the writes of one refresh all succeed or leave
\* nothing behind: a token that no request is rotating and that counts as
\* rotated was rotated into a successor.
RotatedHasSuccessor ==
  \A t \in Token :
    tok[t] = "rotated" /\ (\A p \in Proc : rt[p] # t) => \E u \in Token : parent[u] = t

=============================================================================
