-------------------------- MODULE SsoAccessProofs --------------------------
(***************************************************************************)
(* Proofs about SsoAccess, for every number of sessions, tokens, requests, *)
(* checks and password versions, and every combination of faults.          *)
(*                                                                         *)
(* A check accepts on the strength of what it read some calls ago.  The    *)
(* invariant says why that is enough: CheckEnds, that a session which was  *)
(* the current one after the check began had not been announced as ended   *)
(* before it; and CheckVersions, that whatever a check has read about      *)
(* password versions binds it as long as its session is the current one.   *)
(***************************************************************************)
EXTENDS SsoAccess, SsoSessionProofs

-----------------------------------------------------------------------------
\* What the requests of SsoSession do to what a check has read.

\* Versions are from 1 on, except those of sessions taken over from the
\* previous version, none of which is ever the current session.
VersionInv ==
  /\ dbVersion >= 1 /\ acked <= dbVersion
  /\ \A p \in Proc : changed[p] <= dbVersion /\ (pc[p] = "login.establish" => ver[p] >= 1)
  /\ current # NoSession => current \in created /\ sessPv[current] >= 1

\* Nobody has been told, or is about to be, that a version above n is in force.
Floor(n) == n >= acked /\ \A p \in Proc : pc[p] = "revoke.cache" => n >= changed[p]

\* A session in the index of what exists keeps its version, an ended one its
\* event, and the device comes to a session only at its login.
Moves ==
  /\ access \subseteq access'
  /\ created \subseteq created'
  /\ \A s \in created : sessPv'[s] = sessPv[s]
  /\ \A s \in Session : events[s] > 0 => events'[s] > 0
  /\ current' \in {current, NoSession} \/ current' \notin created
  /\ acked' >= acked
  /\ current' \in created => \A n \in Nat : Floor(n) => Floor(n)'

\* A step that leaves versions alone.
LEMMA QuietMoves ==
  ASSUME IInv, VersionInv, NEW p \in Proc,
         \A q \in Proc \ {p} : pc'[q] = pc[q] /\ changed'[q] = changed[q] /\ ver'[q] = ver[q],
         pc'[p] # "revoke.cache", pc'[p] # "login.establish", changed'[p] \in {0, changed[p]},
         UNCHANGED <<dbVersion, acked, sessPv, created>>,
         access \subseteq access',
         \A s \in Session : events[s] > 0 => events'[s] > 0,
         current' \in {current, NoSession}
  PROVE  VersionInv' /\ Moves
<1>1. /\ acked \in Nat /\ dbVersion \in Nat /\ NoSession \notin Session
      /\ changed \in [Proc -> Nat] /\ created \subseteq Session
  BY SessionAssumption DEF IInv, StoreInv, StoreTypeOK, ServiceInv, ServiceTypeOK, RequestInv, RequestTypeOK, Version
<1>2. VersionInv'
  BY <1>1 DEF VersionInv
<1>3. \A n \in Nat : Floor(n) => Floor(n)'
  BY <1>1 DEF Floor
<1>4. acked' >= acked
  BY <1>1
<1> QED BY <1>2, <1>3, <1>4 DEF Moves

\* A step in which no request returns or goes on (expiry).
LEMMA ExpiryMoves ==
  ASSUME IInv, VersionInv, Expiry
  PROVE  VersionInv' /\ Moves
<1>1. /\ acked \in Nat /\ UNCHANGED <<dbVersion, acked, access, sessPv, created, events, pc, changed, ver>>
      /\ current' \in {current, NoSession}
  BY DEF Expiry, LockExpires, TokenExpires, SessionExpires, IndexExpires, store, users, clients, locals,
         IInv, ServiceInv, ServiceTypeOK, Version
<1>2. VersionInv'
  BY <1>1 DEF VersionInv
<1>3. \A n \in Nat : Floor(n) => Floor(n)'
  BY <1>1 DEF Floor
<1>4. acked' >= acked
  BY <1>1
<1> QED BY <1>1, <1>2, <1>3, <1>4 DEF Moves

LEMMA ScriptMoves ==
  ASSUME IInv,
         \/ \E s \in Session, status \in Ended : RevokeSession(s, status)
         \/ RevokeUser
         \/ UNCHANGED store
  PROVE  /\ UNCHANGED <<sessPv, created>>
         /\ \A s \in Session : events[s] > 0 => events'[s] > 0
         /\ current' \in {current, NoSession}
<1>0. events \in [Session -> Nat]
  BY DEF IInv, StoreInv, StoreTypeOK
<1>1. ASSUME NEW s \in Session, NEW status \in Ended, RevokeSession(s, status), sess[s] = "active"
      PROVE  /\ UNCHANGED <<sessPv, created>>
             /\ \A x \in Session : events[x] > 0 => events'[x] > 0
             /\ current' \in {current, NoSession}
  BY <1>0, <1>1 DEF RevokeSession, End
<1>2. CASE RevokeUser
  <2>1. /\ UNCHANGED <<sessPv, created>>
        /\ events' = [x \in Session |-> IF x \in Indexed /\ sess[x] = "active" THEN events[x] + 1 ELSE events[x]]
        /\ current' = NoSession
    BY <1>2 DEF RevokeUser, End, Indexed, IInv, StoreInv, StoreTypeOK
  <2> QED BY <1>0, <2>1
<1>3. CASE UNCHANGED store
  BY <1>3 DEF store
<1> QED BY <1>1, <1>2, <1>3 DEF RevokeSession

\* A login: the device passes to a session that did not exist.
LEMMA LoginMoves ==
  ASSUME IInv, VersionInv, NEW p \in Proc, LoginEstablish(p)
  PROVE  VersionInv' /\ Moves
<1>1. /\ acked \in Nat /\ dbVersion \in Nat /\ NoSession \notin Session
      /\ changed \in [Proc -> Nat] /\ created \subseteq Session /\ ver[p] \in Version
      /\ changed[p] \in Nat /\ sessPv \in [Session -> Version] /\ events \in [Session -> Nat]
      /\ pc \in [Proc -> Label] /\ ver \in [Proc -> Version]
  BY SessionAssumption DEF IInv, StoreInv, StoreTypeOK, ServiceInv, ServiceTypeOK, RequestInv, RequestTypeOK, Version
<1>2. /\ \A q \in Proc \ {p} : pc'[q] = pc[q] /\ changed'[q] = changed[q] /\ ver'[q] = ver[q]
      /\ pc'[p] = "idle" /\ changed'[p] = 0 /\ ver[p] >= 1
      /\ UNCHANGED dbVersion
  BY <1>1 DEF LoginEstablish, Return, Goto, VersionInv, users
<1>3. CASE UNCHANGED store /\ UNCHANGED clients
  <2>1. UNCHANGED <<acked, access, sessPv, created, events, current>>
    BY <1>3 DEF store, clients
  <2> QED BY <1>2, <2>1, QuietMoves
<1>4. ASSUME NEW s \in Session \ created, NEW t \in FreshToken, LoginReplace(s, t, ver[p]),
             access' = access \cup {<<s, ver[p]>>}, UNCHANGED acked
      PROVE  VersionInv' /\ Moves
  <2>1. /\ sessPv' = [sessPv EXCEPT ![s] = ver[p]]
        /\ created' = created \cup {s}
        /\ current' = s
        /\ \A x \in Session : events[x] > 0 => events'[x] > 0
    BY <1>1, <1>4 DEF LoginReplace
  <2>2. VersionInv'
    BY <1>1, <1>2, <1>4, <2>1 DEF VersionInv
  <2> QED BY <1>1, <1>4, <2>1, <2>2 DEF Moves
<1> QED BY <1>3, <1>4 DEF LoginEstablish

LEMMA RequestMoves ==
  ASSUME IInv, VersionInv, NEW p \in Proc, Step(p)
  PROVE  VersionInv' /\ Moves
<1>1. /\ acked \in Nat /\ dbVersion \in Nat /\ NoSession \notin Session
      /\ changed \in [Proc -> Nat] /\ created \subseteq Session
      /\ pc \in [Proc -> Label] /\ ver \in [Proc -> Version] /\ events \in [Session -> Nat]
  BY SessionAssumption DEF IInv, StoreInv, StoreTypeOK, ServiceInv, ServiceTypeOK, RequestInv, RequestTypeOK, Version
<1>2. CASE LoginReadUser(p)
  <2>1. /\ \A q \in Proc \ {p} : pc'[q] = pc[q]
        /\ pc'[p] = "login.establish" /\ UNCHANGED changed
        /\ ver' = [ver EXCEPT ![p] = dbVersion]
        /\ UNCHANGED <<dbVersion, acked, sessPv, created, access, events, current>>
    BY <1>1, <1>2 DEF LoginReadUser, Goto, store, users, clients
  <2>2. VersionInv'
    BY <1>1, <2>1 DEF VersionInv
  <2>3. \A n \in Nat : Floor(n) => Floor(n)'
    BY <1>1, <2>1 DEF Floor
  <2>4. acked' >= acked
    BY <1>1, <2>1
  <2> QED BY <2>1, <2>2, <2>3, <2>4 DEF Moves
<1>3. CASE LoginEstablish(p)
  BY <1>3, LoginMoves
<1>4. CASE \/ RefreshReadSession(p) \/ RefreshReadUser(p) \/ RefreshLock(p) \/ RefreshRecheck(p)
           \/ TokenRead(p) \/ TokenWrite(p) \/ RotateSave(p) \/ TouchRead(p) \/ TouchWrite(p)
           \/ RefreshUnlock(p) \/ LogoutReadToken(p) \/ StepFails(p) \/ Crash(p)
           \/ \E t \in issued : RefreshReadToken(p, t) \/ LogoutRefreshOnly(p, t)
  <2>1. UNCHANGED <<dbVersion, acked, sessPv, created, access, events, current>>
    BY <1>4 DEF RefreshReadSession, RefreshReadUser, RefreshLock, RefreshRecheck, TokenRead, TokenWrite,
         RotateSave, TouchRead, TouchWrite, RefreshUnlock, LogoutReadToken, StepFails, Crash,
         RefreshReadToken, LogoutRefreshOnly, store, users, clients
  <2>2. /\ \A q \in Proc \ {p} : pc'[q] = pc[q] /\ changed'[q] = changed[q] /\ ver'[q] = ver[q]
        /\ changed'[p] \in {0, changed[p]}
    BY <1>1, <1>4 DEF RefreshReadSession, RefreshReadUser, RefreshLock, RefreshRecheck, TokenRead, TokenWrite,
         RotateSave, TouchRead, TouchWrite, RefreshUnlock, LogoutReadToken, StepFails, Crash,
         RefreshReadToken, LogoutRefreshOnly, Goto, Return, locals
  <2>3. pc'[p] # "revoke.cache" /\ pc'[p] # "login.establish"
    BY <1>1, <1>4 DEF RefreshReadSession, RefreshReadUser, RefreshLock, RefreshRecheck, TokenRead, TokenWrite,
         RotateSave, TouchRead, TouchWrite, RefreshUnlock, LogoutReadToken, StepFails, Crash,
         RefreshReadToken, LogoutRefreshOnly, Goto, Return, AfterMark
  <2> QED BY <2>1, <2>2, <2>3, QuietMoves
<1>5. CASE RefreshDone(p)
  <2>1. /\ \A q \in Proc \ {p} : pc'[q] = pc[q] /\ changed'[q] = changed[q] /\ ver'[q] = ver[q]
        /\ pc'[p] = "unlock" /\ UNCHANGED changed /\ access \subseteq access'
        /\ UNCHANGED <<dbVersion, acked, sessPv, created, events, current>>
    BY <1>1, <1>5 DEF RefreshDone, Goto, store, users, locals
  <2> QED BY <2>1, QuietMoves
<1>6. CASE RefreshReplay(p) \/ LogoutTokenSession(p)
  <2>0. tokSess[rt[p]] \in Session
    BY <1>6 DEF RefreshReplay, LogoutTokenSession, IInv, RequestInv, RequestOK, WithToken, Locked, StoreInv, StoreTypeOK
  <2>1. /\ \A q \in Proc \ {p} : pc'[q] = pc[q] /\ changed'[q] = changed[q] /\ ver'[q] = ver[q]
        /\ pc'[p] \in {"unlock", "idle"} /\ changed'[p] \in {0, changed[p]}
        /\ UNCHANGED <<dbVersion, acked, access>>
    BY <1>1, <1>6 DEF RefreshReplay, LogoutTokenSession, Goto, Return, users, clients, locals
  <2>2. /\ UNCHANGED <<sessPv, created>>
        /\ \A s \in Session : events[s] > 0 => events'[s] > 0
        /\ current' \in {current, NoSession}
    BY <1>6, <2>0, ScriptMoves DEF RefreshReplay, LogoutTokenSession, Ended
  <2> QED BY <2>1, <2>2, QuietMoves
<1>7. ASSUME NEW s \in Session, NEW t \in issued \cup {NoToken}, LogoutAccess(p, s, t)
      PROVE  VersionInv' /\ Moves
  <2>1. /\ \A q \in Proc \ {p} : pc'[q] = pc[q] /\ changed'[q] = changed[q] /\ ver'[q] = ver[q]
        /\ pc'[p] \in {"idle", "logout.token"} /\ changed'[p] = changed[p]
        /\ UNCHANGED <<dbVersion, acked, access>>
    BY <1>1, <1>7 DEF LogoutAccess, Goto, users, clients
  <2>2. /\ UNCHANGED <<sessPv, created>>
        /\ \A x \in Session : events[x] > 0 => events'[x] > 0
        /\ current' \in {current, NoSession}
    BY <1>7, ScriptMoves DEF LogoutAccess, Ended
  <2> QED BY <2>1, <2>2, QuietMoves
<1>8. CASE ChangePassword(p)
  <2>1. /\ \A q \in Proc \ {p} : pc'[q] = pc[q] /\ changed'[q] = changed[q]
        /\ pc'[p] = "revoke.all" /\ changed'[p] = dbVersion + 1 /\ dbVersion' = dbVersion + 1
        /\ UNCHANGED <<acked, sessPv, created, access, events, current, ver>>
    BY <1>1, <1>8 DEF ChangePassword, Goto, store, clients
  <2>2. VersionInv'
    BY <1>1, <2>1 DEF VersionInv
  <2>3. \A n \in Nat : Floor(n) => Floor(n)'
    BY <1>1, <2>1 DEF Floor
  <2>4. acked' >= acked
    BY <1>1, <2>1
  <2> QED BY <2>1, <2>2, <2>3, <2>4 DEF Moves
<1>9. CASE RevokeAllScript(p)
  <2>1. /\ current' = NoSession /\ UNCHANGED <<sessPv, created, dbVersion, acked, access, changed, ver>>
        /\ \A q \in Proc \ {p} : pc'[q] = pc[q]
        /\ pc'[p] = "revoke.cache"
    BY <1>1, <1>9 DEF RevokeAllScript, RevokeUser, Goto, users, clients, locals
  <2>2. \A s \in Session : events[s] > 0 => events'[s] > 0
    BY <1>9, ScriptMoves DEF RevokeAllScript
  <2>3. VersionInv'
    BY <1>1, <2>1 DEF VersionInv
  <2>4. acked' >= acked
    BY <1>1, <2>1
  <2> QED BY <1>1, <2>1, <2>2, <2>3, <2>4 DEF Moves
<1>10. CASE RevokeAllDropCache(p)
  <2>1. /\ \A q \in Proc \ {p} : pc'[q] = pc[q] /\ changed'[q] = changed[q] /\ ver'[q] = ver[q]
        /\ pc[p] = "revoke.cache" /\ pc'[p] = "idle" /\ changed'[p] = 0
        /\ acked' = IF changed[p] > acked THEN changed[p] ELSE acked
        /\ UNCHANGED <<dbVersion, sessPv, created, access, events, current>>
    BY <1>1, <1>10 DEF RevokeAllDropCache, Goto, Return, store
  <2>2. VersionInv'
    BY <1>1, <2>1 DEF VersionInv
  <2>3. \A n \in Nat : Floor(n) => Floor(n)'
    BY <1>1, <2>1 DEF Floor
  <2>4. acked' >= acked
    BY <1>1, <2>1
  <2> QED BY <2>1, <2>2, <2>3, <2>4 DEF Moves
<1> QED BY <1>2, <1>3, <1>4, <1>5, <1>6, <1>7, <1>8, <1>9, <1>10 DEF Step

-----------------------------------------------------------------------------
\* The checks.

\* A token whose version was that of its session's login, and is not below
\* any that somebody was told of while its session is the current one.
Vetted(c) ==
  /\ c[1] \in created /\ sessPv[c[1]] = c[2]
  /\ current = c[1] => Floor(c[2])

\* Labels of a check that has found its session under current_session.
Passed == {"session.record", "user", "cache.version", "cache.result", "gateway.record", "accepted"}

CheckTypeOK ==
  /\ vpc \in [Checker -> CheckLabel]
  /\ caller \in [Checker -> {"middleware", "introspect", "gateway", "nobody"}]
  /\ claim \in [Checker -> Claims \cup {NoClaim}]
  /\ vver \in [Checker -> Version]
  /\ cached \subseteq access
  /\ wasEnded \in [Checker -> BOOLEAN]
  /\ wasAcked \in [Checker -> Version]

CheckEnds(v) ==
  /\ vpc[v] # "idle" => claim[v] \in access
  /\ vpc[v] # "idle" /\ wasEnded[v] => events[Sid(v)] > 0
  /\ vpc[v] \in Passed => ~wasEnded[v]

CheckVersions(v) ==
  /\ vpc[v] # "idle" => wasAcked[v] <= acked
  /\ vpc[v] = "session.record" => Sid(v) \in created /\ sessPv[Sid(v)] >= 1
  /\ vpc[v] \in {"user", "cache.version"} => Sid(v) \in created /\ sessPv[Sid(v)] = Pv(v)
  /\ vpc[v] = "cache.version" => vver[v] >= wasAcked[v] /\ (current = Sid(v) => Floor(vver[v]))
  /\ vpc[v] \in {"cache.current", "cache.result", "gateway.record", "accepted"} => Vetted(claim[v])
  /\ vpc[v] \in {"cache.result", "gateway.record", "accepted"} => Pv(v) >= wasAcked[v]

AccessInv ==
  /\ IInv /\ VersionInv /\ CheckTypeOK
  /\ \A v \in Checker : CheckEnds(v) /\ CheckVersions(v)
  /\ \A c \in cached : Vetted(c)

\* What a check may read of, and no check changes.
Quiet == UNCHANGED <<store, lock, dbVersion, clients, pc, locals>>

LEMMA QuietKeeps ==
  ASSUME IInv, VersionInv, Quiet, pvCache' \in Version
  PROVE  IInv' /\ VersionInv'
<1>1. StoreInv' /\ Grows /\ StoreTypeOK
  BY StoreSame DEF Quiet, IInv, StoreInv
<1>2. ServiceInv'
  BY DEF Quiet, IInv, ServiceInv, ServiceTypeOK, clients, store
<1>3. RequestInv'
  BY <1>1, AllKeep DEF Quiet, IInv
<1>4. VersionInv'
  BY DEF Quiet, VersionInv, clients, store, locals
<1> QED BY <1>1, <1>2, <1>3, <1>4 DEF IInv

LEMMA QuietVetted ==
  ASSUME Quiet
  PROVE  /\ \A n : Floor(n)' <=> Floor(n)
         /\ \A c : Vetted(c)' <=> Vetted(c)
         /\ UNCHANGED <<created, sessPv, current, events, acked, access>>
BY DEF Quiet, Floor, Vetted, clients, store, locals

\* A step of one check.
LEMMA OneCheck ==
  ASSUME AccessInv, NEW v \in Checker, Quiet, pvCache' \in Version,
         CheckTypeOK', CheckEnds(v)', CheckVersions(v)',
         \A c \in cached' : Vetted(c),
         \A w \in Checker \ {v} : /\ vpc'[w] = vpc[w] /\ claim'[w] = claim[w] /\ vver'[w] = vver[w]
                                  /\ wasEnded'[w] = wasEnded[w] /\ wasAcked'[w] = wasAcked[w]
  PROVE  AccessInv'
<1>1. IInv' /\ VersionInv' /\ \A c \in cached' : Vetted(c)'
  BY QuietKeeps, QuietVetted DEF AccessInv
<1>2. ASSUME NEW w \in Checker \ {v} PROVE CheckEnds(w)' /\ CheckVersions(w)'
  BY QuietVetted DEF AccessInv, CheckEnds, CheckVersions, Sid, Pv
<1> QED BY <1>1, <1>2 DEF AccessInv

\* A check that goes on to its next call.
LEMMA GotoChecks ==
  ASSUME AccessInv, NEW v \in Checker, NEW label \in CheckLabel, Quiet, pvCache' \in Version,
         UNCHANGED cached, CheckGoto(v, label),
         vpc[v] # "idle",
         label \in Passed => ~wasEnded[v],
         label = "session.record" => Sid(v) \in created /\ sessPv[Sid(v)] >= 1,
         label = "user" => Sid(v) \in created /\ sessPv[Sid(v)] = Pv(v),
         label # "cache.version",
         label \in {"cache.current", "cache.result", "gateway.record", "accepted"} => Vetted(claim[v]),
         label \in {"cache.result", "gateway.record", "accepted"} => Pv(v) >= wasAcked[v]
  PROVE  AccessInv'
<1>1. CheckTypeOK'
  BY QuietVetted DEF AccessInv, CheckTypeOK, CheckGoto
<1>2. vpc'[v] = label /\ \A w \in Checker \ {v} : vpc'[w] = vpc[w]
  BY DEF AccessInv, CheckTypeOK, CheckGoto
<1>3. CheckEnds(v)' /\ CheckVersions(v)'
  BY <1>2, QuietVetted DEF AccessInv, CheckEnds, CheckVersions, CheckGoto, Sid, Pv
<1> QED BY <1>1, <1>2, <1>3, OneCheck DEF AccessInv, CheckGoto

\* A check that ends.
LEMMA ReturnChecks ==
  ASSUME AccessInv, NEW v \in Checker, Quiet, pvCache' \in Version, UNCHANGED cached, CheckReturn(v)
  PROVE  AccessInv'
<1>1. CheckTypeOK'
  BY QuietVetted, SessionAssumption DEF AccessInv, CheckTypeOK, CheckReturn, CheckLabel, Version
<1>2. CheckEnds(v)' /\ CheckVersions(v)'
  BY DEF AccessInv, CheckTypeOK, CheckEnds, CheckVersions, CheckReturn, Passed
<1>3. \A w \in Checker \ {v} : /\ vpc'[w] = vpc[w] /\ claim'[w] = claim[w] /\ vver'[w] = vver[w]
                               /\ wasEnded'[w] = wasEnded[w] /\ wasAcked'[w] = wasAcked[w]
  BY DEF AccessInv, CheckTypeOK, CheckReturn
<1> QED BY <1>1, <1>2, <1>3, OneCheck DEF AccessInv

LEMMA CheckKeeps ==
  ASSUME AccessInv, NEW v \in Checker, Check(v)
  PROVE  AccessInv'
<1>0. /\ acked \in Nat /\ dbVersion \in Version /\ pvCache \in Version /\ access \subseteq Claims
      /\ changed \in [Proc -> Nat] /\ AnnouncedIsOut /\ created \subseteq Session /\ NoSession \notin Session
      /\ vver[v] \in Version /\ acked \in Version /\ Version \subseteq Nat /\ events \in [Session -> Nat]
  BY SessionAssumption DEF AccessInv, CheckTypeOK, IInv, StoreInv, StoreTypeOK, ServiceInv, ServiceTypeOK,
     RequestInv, RequestTypeOK, Version, Claims
<1>1. UNCHANGED vars => Quiet /\ pvCache' \in Version
  BY <1>0 DEF vars, Quiet, users
<1>2. ASSUME NEW c \in access,
             CheckFromMiddleware(v, c) \/ CheckFromIntrospect(v, c) \/ CheckFromGateway(v, c)
      PROVE  AccessInv'
  <2>1. PICK who \in {"middleware", "introspect", "gateway"}, label \in {"veto", "cache.read"} : Begin(v, who, label, c)
    BY <1>2 DEF CheckFromMiddleware, CheckFromIntrospect, CheckFromGateway
  <2>2. Quiet /\ pvCache' \in Version /\ UNCHANGED cached
    BY <1>1, <2>1 DEF Begin
  <2>3. /\ vpc'[v] = label /\ claim'[v] = c /\ wasAcked'[v] = acked
        /\ wasEnded'[v] = (events[c[1]] > 0)
        /\ \A w \in Checker \ {v} : /\ vpc'[w] = vpc[w] /\ claim'[w] = claim[w] /\ vver'[w] = vver[w]
                                     /\ wasEnded'[w] = wasEnded[w] /\ wasAcked'[w] = wasAcked[w]
    BY <2>1 DEF Begin, AccessInv, CheckTypeOK
  <2>4. CheckTypeOK'
    BY <1>0, <2>1, <2>2, QuietVetted DEF Begin, AccessInv, CheckTypeOK, CheckLabel
  <2>5. /\ acked' = acked /\ events' = events /\ access' = access /\ vpc'[v] \notin Passed
        /\ vpc'[v] \notin {"cache.current"}
    BY <2>2, <2>3, QuietVetted DEF Passed
  <2>6. CheckEnds(v)'
    BY <2>3, <2>5 DEF CheckEnds, Sid
  <2>7. CheckVersions(v)'
    BY <1>0, <2>3, <2>5 DEF CheckVersions, Passed
  <2> QED BY <2>2, <2>3, <2>4, <2>6, <2>7, OneCheck DEF AccessInv
<1>3. CASE CacheRead(v)
  BY <1>1, <1>3, GotoChecks DEF CacheRead, AccessInv, Passed, CheckLabel
<1>4. CASE CacheCurrent(v)
  <2>1. vpc[v] = "cache.current" /\ Quiet /\ pvCache' \in Version /\ UNCHANGED cached
    BY <1>1, <1>4 DEF CacheCurrent
  <2>2. CASE current = Sid(v) /\ CheckGoto(v, "accepted")
    <3>1. ~wasEnded[v]
      BY <1>0, <2>1, <2>2 DEF AccessInv, CheckEnds, AnnouncedIsOut, Claims, Sid
    <3>2. Vetted(claim[v]) /\ Pv(v) >= acked /\ wasAcked[v] <= acked
      BY <2>1, <2>2 DEF AccessInv, CheckVersions, Vetted, Floor, Sid, Pv
    <3>3. Pv(v) \in Nat /\ wasAcked[v] \in Nat
      BY <1>0, <2>1 DEF AccessInv, CheckEnds, CheckTypeOK, Claims, Pv
    <3>4. Pv(v) >= wasAcked[v]
      BY <1>0, <3>2, <3>3
    <3> QED BY <2>1, <2>2, <3>1, <3>2, <3>4, GotoChecks DEF CheckLabel
  <2>3. CASE CheckGoto(v, "veto")
    BY <2>1, <2>3, GotoChecks DEF Passed, CheckLabel
  <2> QED BY <1>4, <2>2, <2>3 DEF CacheCurrent
<1>5. CASE Veto(v)
  BY <1>1, <1>5, GotoChecks, ReturnChecks DEF Veto, Reject, Passed, CheckLabel
<1>6. CASE SessionCurrent(v)
  <2>1. vpc[v] = "session.current" /\ Quiet /\ pvCache' \in Version /\ UNCHANGED cached
    BY <1>1, <1>6 DEF SessionCurrent
  <2>2. CASE current = Sid(v) /\ CheckGoto(v, "session.record")
    <3>1. ~wasEnded[v] /\ Sid(v) \in Session
      BY <1>0, <2>1, <2>2 DEF AccessInv, CheckEnds, AnnouncedIsOut, Claims, Sid
    <3>2. Sid(v) \in created /\ sessPv[Sid(v)] >= 1
      BY <1>0, <2>2, <3>1 DEF AccessInv, VersionInv
    <3> QED BY <2>1, <2>2, <3>1, <3>2, GotoChecks DEF CheckLabel
  <2>3. CASE Reject(v)
    BY <2>1, <2>3, ReturnChecks DEF Reject
  <2> QED BY <1>6, <2>2, <2>3 DEF SessionCurrent
<1>7. CASE SessionRecord(v)
  <2>1. vpc[v] = "session.record" /\ Quiet /\ pvCache' \in Version /\ UNCHANGED cached
    BY <1>1, <1>7 DEF SessionRecord
  <2>2. CASE RecordAccepts(v) /\ CheckGoto(v, "user")
    <3>1. ~wasEnded[v] /\ Sid(v) \in created /\ sessPv[Sid(v)] = Pv(v)
      BY <2>1, <2>2 DEF AccessInv, CheckEnds, CheckVersions, RecordAccepts, Passed
    <3> QED BY <2>1, <2>2, <3>1, GotoChecks DEF CheckLabel
  <2>3. CASE Reject(v)
    BY <2>1, <2>3, ReturnChecks DEF Reject
  <2> QED BY <1>7, <2>2, <2>3 DEF SessionRecord
<1>8. CASE ReadUser(v)
  <2>1. vpc[v] = "user" /\ Quiet /\ pvCache' \in Version /\ UNCHANGED cached
    BY <1>1, <1>8 DEF ReadUser
  <2>2. CASE /\ vpc' = [vpc EXCEPT ![v] = "cache.version"]
             /\ vver' = [vver EXCEPT ![v] = dbVersion]
             /\ UNCHANGED <<caller, claim, wasEnded, wasAcked>>
    <3>1. CheckTypeOK'
      BY <1>0, <2>1, <2>2, QuietVetted DEF AccessInv, CheckTypeOK, CheckLabel
    <3>2. /\ vpc'[v] = "cache.version" /\ vver'[v] = dbVersion
          /\ \A w \in Checker \ {v} : vpc'[w] = vpc[w] /\ vver'[w] = vver[w]
      BY <2>2 DEF AccessInv, CheckTypeOK
    <3>3. Floor(dbVersion) /\ dbVersion >= acked
      BY <1>0 DEF AccessInv, VersionInv, Floor
    <3>4. wasAcked[v] \in Nat /\ wasAcked[v] <= acked
      BY <1>0, <2>1 DEF AccessInv, CheckTypeOK, CheckVersions
    <3>5. CheckEnds(v)'
      BY <2>1, <2>2, <3>2, QuietVetted DEF AccessInv, CheckEnds, Passed, Sid
    <3>6. dbVersion >= wasAcked[v]
      BY <1>0, <3>3, <3>4
    <3>7. CheckVersions(v)'
      BY <2>1, <2>2, <3>2, <3>3, <3>4, <3>6, QuietVetted DEF AccessInv, CheckVersions, Sid, Pv
    <3> QED BY <2>1, <2>2, <3>1, <3>2, <3>5, <3>7, OneCheck DEF AccessInv
  <2>3. CASE Reject(v)
    BY <2>1, <2>3, ReturnChecks DEF Reject
  <2> QED BY <1>8, <2>2, <2>3 DEF ReadUser
<1>9. CASE CacheVersion(v)
  <2>1. vpc[v] = "cache.version" /\ Quiet /\ pvCache' \in Version /\ UNCHANGED cached
    BY <1>0, <1>9 DEF CacheVersion, Quiet
  <2>2. CASE vver[v] # Pv(v)
    BY <1>9, <2>1, <2>2, ReturnChecks DEF CacheVersion, Reject
  <2>3. CASE vver[v] = Pv(v)
    <3>1. PICK label \in {"cache.result", "gateway.record", "accepted"} : CheckGoto(v, label)
      BY <1>9, <2>3 DEF CacheVersion
    <3>2. ~wasEnded[v] /\ Vetted(claim[v]) /\ Pv(v) >= wasAcked[v]
      BY <2>1, <2>3 DEF AccessInv, CheckEnds, CheckVersions, Passed, Vetted, Sid, Pv
    <3> QED BY <2>1, <3>1, <3>2, GotoChecks DEF CheckLabel
  <2> QED BY <2>2, <2>3
<1>10. CASE CacheResult(v)
  <2>1. vpc[v] = "cache.result" /\ Quiet /\ pvCache' \in Version /\ cached' \subseteq cached \cup {claim[v]}
        /\ CheckGoto(v, "accepted")
    BY <1>1, <1>10 DEF CacheResult
  <2>2. claim[v] \in access /\ ~wasEnded[v] /\ Vetted(claim[v]) /\ Pv(v) >= wasAcked[v] /\ wasAcked[v] <= acked
    BY <2>1 DEF AccessInv, CheckEnds, CheckVersions, Passed
  <2>3. CheckTypeOK'
    BY <2>1, <2>2, QuietVetted DEF AccessInv, CheckTypeOK, CheckGoto, CheckLabel
  <2>4. vpc'[v] = "accepted" /\ \A w \in Checker \ {v} : vpc'[w] = vpc[w]
    BY <2>1 DEF CheckGoto, AccessInv, CheckTypeOK
  <2>5. CheckEnds(v)' /\ CheckVersions(v)'
    BY <2>1, <2>2, <2>4, QuietVetted DEF CheckEnds, CheckVersions, CheckGoto, Sid, Pv
  <2>6. \A c \in cached' : Vetted(c)
    BY <2>1, <2>2 DEF AccessInv
  <2> QED BY <2>1, <2>3, <2>4, <2>5, <2>6, OneCheck DEF CheckGoto
<1>11. CASE GatewayRecord(v)
  <2>1. vpc[v] = "gateway.record" /\ Quiet /\ pvCache' \in Version /\ UNCHANGED cached
    BY <1>1, <1>11 DEF GatewayRecord
  <2>2. ~wasEnded[v] /\ Vetted(claim[v]) /\ Pv(v) >= wasAcked[v]
    BY <2>1 DEF AccessInv, CheckEnds, CheckVersions, Passed
  <2> QED BY <1>11, <2>1, <2>2, GotoChecks, ReturnChecks DEF GatewayRecord, Reject, CheckLabel
<1>12. CASE Accepted(v)
  BY <1>1, <1>12, ReturnChecks DEF Accepted
<1> QED BY <1>2, <1>3, <1>4, <1>5, <1>6, <1>7, <1>8, <1>9, <1>10, <1>11, <1>12 DEF Check

\* The requests of SsoSession: what a check has read still binds it.
LEMMA MovesKeep ==
  ASSUME AccessInv, IInv', VersionInv', Moves, UNCHANGED <<checks, cached>>
  PROVE  AccessInv'
<1>0. /\ access \subseteq Claims /\ Version \subseteq Nat /\ created \subseteq Session /\ NoSession \notin Session
      /\ acked \in Nat /\ acked' \in Nat
      /\ \A v \in Checker : vver[v] \in Nat /\ wasAcked[v] \in Nat
  BY SessionAssumption DEF AccessInv, CheckTypeOK, IInv, StoreInv, StoreTypeOK, ServiceInv, ServiceTypeOK, Version, Claims
<1>1. CheckTypeOK'
  BY DEF AccessInv, CheckTypeOK, Moves, checks
<1>2. ASSUME NEW n \in Nat, NEW s \in created, current = s => Floor(n), current' = s PROVE Floor(n)'
  <2>1. current = s
    BY <1>0, <1>2 DEF Moves
  <2> QED BY <1>2, <2>1 DEF Moves
<1>3. ASSUME NEW c \in Claims, Vetted(c) PROVE Vetted(c)'
  <2>1. c[2] \in Nat /\ c[1] \in created
    BY <1>0, <1>3 DEF Claims, Vetted
  <2> QED BY <1>2, <1>3, <2>1 DEF Vetted, Moves
<1>4. \A c \in cached' : Vetted(c)'
  BY <1>0, <1>3 DEF AccessInv, CheckTypeOK, checks
<1>5. ASSUME NEW v \in Checker PROVE CheckEnds(v)' /\ CheckVersions(v)'
  <2>1. vpc'[v] = vpc[v] /\ claim'[v] = claim[v] /\ vver'[v] = vver[v] /\ wasEnded'[v] = wasEnded[v]
        /\ wasAcked'[v] = wasAcked[v] /\ Sid(v)' = Sid(v) /\ Pv(v)' = Pv(v)
    BY DEF checks, Sid, Pv
  <2>2. vpc[v] # "idle" => claim[v] \in Claims /\ claim[v] \in access /\ Sid(v) \in Session
    BY <1>0 DEF AccessInv, CheckEnds, Claims, Sid
  <2>3. CheckEnds(v)'
    BY <2>1, <2>2 DEF AccessInv, CheckEnds, Moves, Passed
  <2>4. acked' >= acked /\ \A s \in created : s \in created' /\ sessPv'[s] = sessPv[s]
    BY DEF Moves
  <2>5. CASE vpc[v] = "cache.version"
    <3>1. /\ wasAcked[v] <= acked /\ Sid(v) \in created /\ sessPv[Sid(v)] = Pv(v) /\ vver[v] >= wasAcked[v]
          /\ current = Sid(v) => Floor(vver[v])
      BY <2>5 DEF AccessInv, CheckVersions
    <3>2. \A n \in Nat : n = vver[v] /\ current' = Sid(v) => Floor(n)'
      BY <1>2, <3>1
    <3>3. current' = Sid(v)' => Floor(vver[v])'
      BY <1>0, <2>1, <3>2 DEF Floor
    <3>4. wasAcked[v] <= acked'
      BY <1>0, <2>4, <3>1
    <3>5. Sid(v)' \in created' /\ sessPv'[Sid(v)'] = Pv(v)' /\ vver'[v] >= wasAcked'[v]
      BY <2>1, <2>4, <3>1
    <3> QED BY <2>1, <2>3, <2>5, <3>3, <3>4, <3>5 DEF CheckVersions
  <2>6. CASE vpc[v] # "cache.version"
    <3>1. vpc[v] # "idle" => wasAcked[v] <= acked'
      BY <1>0, <2>4 DEF AccessInv, CheckVersions
    <3>2. ASSUME vpc[v] \in {"cache.current", "cache.result", "gateway.record", "accepted"} PROVE Vetted(claim[v])'
      <4>1. PICK c \in Claims : c = claim[v] /\ c = claim'[v]
        BY <2>1, <2>2, <3>2
      <4>2. Vetted(c)'
        BY <1>3, <3>2, <4>1 DEF AccessInv, CheckVersions
      <4> QED BY <4>1, <4>2 DEF Vetted, Floor
    <3>3. vpc[v] = "session.record" => Sid(v)' \in created' /\ sessPv'[Sid(v)'] >= 1
      BY <2>1, <2>4 DEF AccessInv, CheckVersions
    <3>4. vpc[v] = "user" => Sid(v)' \in created' /\ sessPv'[Sid(v)'] = Pv(v)'
      BY <2>1, <2>4 DEF AccessInv, CheckVersions
    <3>5. vpc[v] \in {"cache.result", "gateway.record", "accepted"} => Pv(v)' >= wasAcked'[v]
      BY <2>1 DEF AccessInv, CheckVersions
    <3> QED BY <2>1, <2>3, <2>6, <3>1, <3>2, <3>3, <3>4, <3>5 DEF CheckVersions
  <2> QED BY <2>5, <2>6
<1> QED BY <1>1, <1>4, <1>5 DEF AccessInv

LEMMA NextAccessInv == AccessInv /\ [AccessNext]_accessVars => AccessInv'
<1> SUFFICES ASSUME AccessInv, [AccessNext]_accessVars PROVE AccessInv'
  OBVIOUS
<1>1. ASSUME Next, UNCHANGED <<checks, cached>> PROVE AccessInv'
  <2>1. VersionInv' /\ Moves
    BY <1>1, ExpiryMoves, RequestMoves DEF Next, AccessInv
  <2>2. IInv'
    BY <1>1, NextKeeps DEF AccessInv
  <2> QED BY <1>1, <2>1, <2>2, MovesKeep
<1>2. ASSUME NEW v \in Checker, Check(v) PROVE AccessInv'
  BY <1>2, CheckKeeps
<1>3. ASSUME Quiet, pvCache' \in Version, UNCHANGED checks, cached' \subseteq cached PROVE AccessInv'
  <2>1. IInv' /\ VersionInv' /\ \A c \in cached' : Vetted(c)'
    BY <1>3, QuietKeeps, QuietVetted DEF AccessInv
  <2>2. CheckTypeOK'
    BY <1>3, QuietVetted DEF AccessInv, CheckTypeOK, checks
  <2>3. ASSUME NEW v \in Checker PROVE CheckEnds(v)' /\ CheckVersions(v)'
    BY <1>3, QuietVetted DEF AccessInv, CheckEnds, CheckVersions, Sid, Pv, checks
  <2> QED BY <2>1, <2>2, <2>3 DEF AccessInv
<1>4. pvCache \in Version /\ 0 \in Version
  BY SessionAssumption DEF AccessInv, IInv, ServiceInv, ServiceTypeOK, Version
<1>5. ASSUME NEW c \in cached, CachedExpires(c) PROVE AccessInv'
  BY <1>3, <1>4, <1>5 DEF CachedExpires, vars, users, Quiet
<1>6. CASE VersionExpires
  BY <1>3, <1>4, <1>6 DEF VersionExpires, Quiet
<1>7. CASE UNCHANGED accessVars
  BY <1>3, <1>4, <1>7 DEF accessVars, vars, users, Quiet
<1> QED BY <1>1, <1>2, <1>5, <1>6, <1>7 DEF AccessNext

LEMMA AccessInvariance == AccessSpec => []AccessInv
<1>1. AccessInit => AccessInv
  <2> SUFFICES ASSUME AccessInit PROVE AccessInv
    OBVIOUS
  <2>1. IInv
    BY InitHolds DEF AccessInit
  <2>2. VersionInv
    BY DEF AccessInit, Init, VersionInv
  <2>3. CheckTypeOK
    BY SessionAssumption DEF AccessInit, CheckTypeOK, CheckLabel, Version
  <2>4. ASSUME NEW v \in Checker PROVE CheckEnds(v) /\ CheckVersions(v)
    BY DEF AccessInit, CheckEnds, CheckVersions, Passed
  <2> QED BY <2>1, <2>2, <2>3, <2>4 DEF AccessInit, AccessInv
<1> QED BY <1>1, NextAccessInv, PTL DEF AccessSpec

-----------------------------------------------------------------------------
\* Every variable keeps its type, and every check is of a token that was signed.
THEOREM AccessTypeCorrect == AccessSpec => []AccessTypeOK
<1>1. AccessInv => AccessTypeOK
  BY DEF AccessInv, IInv, StoreInv, ServiceInv, RequestInv, TypeOK, CheckTypeOK, CheckEnds, AccessTypeOK
<1> QED BY <1>1, AccessInvariance, PTL

\* A token of a session whose end was announced before the check began is
\* rejected (token_validator.go:24, 111), through every interleaving and with
\* every call failing: no error path accepts, and no cached result does.
THEOREM EndedIsRejected == AccessSpec => []NoAcceptAfterEnd
<1>1. AccessInv => NoAcceptAfterEnd
  BY DEF AccessInv, CheckEnds, NoAcceptAfterEnd, Passed
<1> QED BY <1>1, AccessInvariance, PTL

\* Once a password change was answered, no check that begins later accepts a
\* token or a session of an older password (auth_service.go:320,
\* token_validator.go:58), with every call failing and every cache stale.
THEOREM OldPasswordIsRejected == AccessSpec => []PasswordChangeFinal
<1>1. AccessInv => PasswordChangeFinal
  <2> SUFFICES ASSUME AccessInv, NEW v \in Checker, vpc[v] = "accepted"
               PROVE  sessPv[Sid(v)] >= wasAcked[v] /\ Pv(v) >= wasAcked[v]
    BY DEF PasswordChangeFinal
  <2> QED BY DEF AccessInv, CheckVersions, Vetted, Sid, Pv
<1> QED BY <1>1, AccessInvariance, PTL

=============================================================================
