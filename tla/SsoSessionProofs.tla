-------------------------- MODULE SsoSessionProofs --------------------------
(***************************************************************************)
(* Proofs about SsoSession, for every number of sessions, refresh tokens   *)
(* and concurrent requests, both login modes and every combination of      *)
(* requests and faults.                                                    *)
(*                                                                         *)
(* The inductive invariant IInv is StoreInv, about the Redis records       *)
(* alone, with ServiceInv and RequestInv, which say what a request may     *)
(* rely on between two calls while other requests change the records.      *)
(* ChainInv adds what is known of rotations while the lock is kept.  The   *)
(* last two parts are about promises that fail: they say that what TLC     *)
(* shows is the only way in which they do.                                 *)
(***************************************************************************)
EXTENDS SsoSession, TLAPS

\* Nothing is known of a session id before its login.
CreatedFirst ==
  /\ userSessions \subseteq created
  /\ \A s \in Session : sess[s] # "none" \/ events[s] > 0 => s \in created
  /\ \A t \in Token : tok[t] # "none" \/ tokSess[t] # NoSession => tokSess[t] \in created

\* What CurrentIsIndexed needs to be inductive: the current session stays in
\* the index even while its record has expired.
CurrentIsKept == current # NoSession => current \in userSessions

StoreInv ==
  /\ StoreTypeOK
  /\ CreatedFirst
  /\ EndedIsTold
  /\ AnnouncedIsOut
  /\ CurrentIsKept
  /\ CurrentIsIndexed

\* Every refresh token a client holds is of a session that was created.
ServiceInv == ServiceTypeOK /\ \A t \in issued : tokSess[t] \in created

\* Labels at which a request works on a refresh token.
WithToken == {"refresh.session", "refresh.user", "refresh.lock",
              "logout.token", "logout.session"} \cup Locked

\* Labels between the save of a rotation's new token and its answer.
Rotated == {"touch.read", "touch.write", "refresh.done"}

\* The status that TouchSession is about to write back is no news: if it is
\* terminal, the event was written by whoever ended the session.
RequestOK(p) ==
  /\ pc[p] \in WithToken => rt[p] \in Token /\ tokSess[rt[p]] \in created
  /\ pc[p] \in Rotated => new[p] \in Token /\ tokSess[new[p]] \in created
  /\ pc[p] = "touch.write" =>
       /\ seen[p] # "none"
       /\ seen[p] \in Ended => events[tokSess[rt[p]]] > 0

RequestInv == RequestTypeOK /\ \A p \in Proc : RequestOK(p)

IInv == StoreInv /\ ServiceInv /\ RequestInv

\* What a request keeps of the records it has read, whoever writes next.
Grows ==
  /\ created \subseteq created'
  /\ \A s \in Session : events[s] > 0 => events'[s] > 0
  /\ \A t \in Token : tokSess[t] \in created => tokSess'[t] = tokSess[t]

-----------------------------------------------------------------------------
\* The scripts keep StoreInv.

LEMMA StoreSame ==
  ASSUME StoreInv, UNCHANGED store
  PROVE  StoreInv' /\ Grows
BY DEF StoreInv, StoreTypeOK, CreatedFirst, EndedIsTold, AnnouncedIsOut, CurrentIsKept,
       CurrentIsIndexed, Grows, store

LEMMA LoginReplaceKeeps ==
  ASSUME StoreInv, NEW s \in Session \ created, NEW t \in FreshToken, NEW version \in Version,
         LoginReplace(s, t, version)
  PROVE  StoreInv' /\ Grows /\ tokSess'[t] \in created'
<1> USE SessionAssumption DEF StoreInv, LoginReplace, FreshToken
<1>1. StoreTypeOK'
  BY DEF StoreTypeOK, RevokeFamilies, Indexed, SessionStatus, Ended, TokenStatus
<1>2. /\ sess[s] = "none" /\ events[s] = 0
      /\ \A x \in Session : x \in Indexed => x # s
  BY DEF StoreTypeOK, CreatedFirst, Indexed
<1>3. \A x \in Session : events'[x] > 0 => events[x] > 0 \/ x \in Indexed
  BY DEF StoreTypeOK, Indexed
<1>4. CreatedFirst'
  BY <1>1, <1>2, <1>3 DEF StoreTypeOK, CreatedFirst, Indexed, RevokeFamilies
<1>5. EndedIsTold' /\ AnnouncedIsOut'
  BY <1>1, <1>2, <1>3 DEF StoreTypeOK, EndedIsTold, AnnouncedIsOut, Ended, Indexed
<1>6. CurrentIsKept' /\ CurrentIsIndexed'
  BY <1>1 DEF StoreTypeOK, CurrentIsKept, CurrentIsIndexed
<1>7. Grows /\ tokSess'[t] \in created'
  BY DEF Grows, StoreTypeOK
<1> QED BY <1>1, <1>4, <1>5, <1>6, <1>7

LEMMA RevokeSessionKeeps ==
  ASSUME StoreInv, NEW s \in Session, NEW status \in Ended, RevokeSession(s, status)
  PROVE  StoreInv' /\ Grows
<1>1. CASE sess[s] # "active"
  BY <1>1, StoreSame DEF RevokeSession
<1>2. CASE sess[s] = "active"
  <2> USE SessionAssumption DEF StoreInv
  <2>1. /\ sess' = [x \in Session |-> IF x = s THEN status ELSE sess[x]]
        /\ events' = [x \in Session |-> IF x = s THEN events[x] + 1 ELSE events[x]]
        /\ tok' = RevokeFamilies({s})
        /\ current' = IF current = s THEN NoSession ELSE current
        /\ userSessions' = userSessions \ {s}
        /\ UNCHANGED <<sessPv, created, tokSess, parent>>
    BY <1>2 DEF RevokeSession, End
  <2>2. StoreTypeOK'
    BY <2>1 DEF StoreTypeOK, RevokeFamilies, SessionStatus, TokenStatus
  <2>3. CreatedFirst' /\ Grows
    BY <1>2, <2>1 DEF StoreTypeOK, CreatedFirst, Grows, RevokeFamilies
  <2>4. EndedIsTold' /\ AnnouncedIsOut'
    BY <2>1 DEF StoreTypeOK, EndedIsTold, AnnouncedIsOut
  <2>5. CurrentIsKept' /\ CurrentIsIndexed'
    BY <2>1 DEF StoreTypeOK, CurrentIsKept, CurrentIsIndexed
  <2> QED BY <2>2, <2>3, <2>4, <2>5
<1> QED BY <1>1, <1>2

LEMMA RevokeUserKeeps ==
  ASSUME StoreInv, RevokeUser
  PROVE  StoreInv' /\ Grows
<1> USE SessionAssumption DEF StoreInv
<1> DEFINE E == {s \in Indexed : sess[s] = "active"}
<1>1. /\ sess' = [s \in Session |-> IF s \in E THEN "revoked" ELSE sess[s]]
      /\ events' = [s \in Session |-> IF s \in E THEN events[s] + 1 ELSE events[s]]
      /\ tok' = RevokeFamilies(Indexed)
      /\ current' = NoSession
      /\ UNCHANGED <<sessPv, created, userSessions, tokSess, parent>>
  BY DEF RevokeUser, End
<1>2. \A s \in E : s \in created
  BY DEF Indexed, CreatedFirst
<1> HIDE DEF E
<1>3. StoreTypeOK'
  BY <1>1 DEF StoreTypeOK, RevokeFamilies, SessionStatus, TokenStatus, Ended
<1>4. CreatedFirst' /\ Grows
  BY <1>1, <1>2 DEF StoreTypeOK, CreatedFirst, Grows, RevokeFamilies
<1>5. EndedIsTold' /\ AnnouncedIsOut' /\ CurrentIsKept' /\ CurrentIsIndexed'
  BY <1>1 DEF StoreTypeOK, EndedIsTold, AnnouncedIsOut, CurrentIsKept, CurrentIsIndexed
<1> QED BY <1>3, <1>4, <1>5

-----------------------------------------------------------------------------
\* Requests do not disturb each other.

\* A step of p that keeps RequestOK(p) keeps it of every other request.
LEMMA OthersKeep ==
  ASSUME RequestInv, RequestTypeOK', Grows, NEW p \in Proc, RequestOK(p)',
         StoreTypeOK,
         \A q \in Proc \ {p} : pc'[q] = pc[q] /\ rt'[q] = rt[q] /\ new'[q] = new[q] /\ seen'[q] = seen[q]
  PROVE  RequestInv'
<1> SUFFICES ASSUME NEW q \in Proc \ {p} PROVE RequestOK(q)'
  BY DEF RequestInv
<1> QED
  BY DEF RequestInv, RequestOK, Grows, StoreTypeOK, WithToken, Locked, Rotated

\* A step of the store that no request takes.
LEMMA AllKeep ==
  ASSUME RequestInv, Grows, StoreTypeOK, UNCHANGED <<pc, locals>>
  PROVE  RequestInv'
<1>1. RequestTypeOK'
  BY DEF RequestInv, RequestTypeOK, locals
<1>2. ASSUME NEW q \in Proc PROVE RequestOK(q)'
  BY DEF RequestInv, RequestOK, Grows, StoreTypeOK, WithToken, Locked, Rotated, locals
<1> QED BY <1>1, <1>2 DEF RequestInv

\* A request that goes on to a label, keeping its locals.
LEMMA GotoKeeps ==
  ASSUME RequestInv, Grows, StoreTypeOK, NEW p \in Proc, NEW label \in Label,
         Goto(p, label), UNCHANGED locals,
         label \in WithToken => pc[p] \in WithToken,
         label \in Rotated => pc[p] \in Rotated,
         label # "touch.write"
  PROVE  RequestInv'
<1>1. RequestTypeOK'
  BY DEF RequestInv, RequestTypeOK, Goto, locals
<1>2. RequestOK(p)'
  BY DEF RequestInv, RequestTypeOK, RequestOK, Goto, Grows, StoreTypeOK, WithToken, Locked, Rotated, locals
<1>3. \A q \in Proc \ {p} : pc'[q] = pc[q] /\ rt'[q] = rt[q] /\ new'[q] = new[q] /\ seen'[q] = seen[q]
  BY DEF RequestInv, RequestTypeOK, Goto, locals
<1> QED BY <1>1, <1>2, <1>3, OthersKeep

\* A request that ends.
LEMMA ReturnKeeps ==
  ASSUME RequestInv, Grows, StoreTypeOK, NEW p \in Proc, Return(p)
  PROVE  RequestInv'
<1>1. RequestTypeOK'
  BY SessionAssumption
     DEF RequestInv, RequestTypeOK, Return, Goto, Label, Version, SessionStatus, TokenStatus
<1>2. RequestOK(p)'
  BY DEF RequestInv, RequestTypeOK, RequestOK, Return, Goto, WithToken, Locked, Rotated
<1>3. \A q \in Proc \ {p} : pc'[q] = pc[q] /\ rt'[q] = rt[q] /\ new'[q] = new[q] /\ seen'[q] = seen[q]
  BY DEF RequestInv, RequestTypeOK, Return, Goto
<1> QED BY <1>1, <1>2, <1>3, OthersKeep

LEMMA ServiceKeeps ==
  ASSUME ServiceInv, Grows, StoreTypeOK, ServiceTypeOK',
         issued' = issued
  PROVE  ServiceInv'
BY DEF ServiceInv, ServiceTypeOK, Grows, StoreTypeOK

-----------------------------------------------------------------------------
\* Every step keeps the invariant.

\* Steps that only read: the store, the users and the clients' tokens stay.
LEMMA ReadStep ==
  ASSUME IInv, NEW p \in Proc,
         \/ LoginReadUser(p)
         \/ RefreshReadSession(p) \/ RefreshReadUser(p) \/ RefreshLock(p) \/ RefreshRecheck(p)
         \/ TokenRead(p) \/ TouchRead(p) \/ RefreshUnlock(p) \/ LogoutReadToken(p)
         \/ StepFails(p) \/ Crash(p)
         \/ \E t \in issued : RefreshReadToken(p, t) \/ LogoutRefreshOnly(p, t)
  PROVE  IInv'
<1> USE SessionAssumption DEF IInv
<1>1. UNCHANGED store /\ UNCHANGED users /\ UNCHANGED clients
  BY DEF LoginReadUser, RefreshReadSession, RefreshReadUser, RefreshLock, RefreshRecheck, TokenRead,
         TouchRead, RefreshUnlock, LogoutReadToken, StepFails, Crash, RefreshReadToken, LogoutRefreshOnly
<1>2. StoreInv' /\ Grows /\ StoreTypeOK
  BY <1>1, StoreSame DEF StoreInv
<1>3. lock' \in [Token -> Proc \cup {Free, Dead}]
  BY DEF LoginReadUser, RefreshReadSession, RefreshReadUser, RefreshLock, RefreshRecheck, TokenRead,
         TouchRead, RefreshUnlock, LogoutReadToken, StepFails, Crash, RefreshReadToken, LogoutRefreshOnly,
         ServiceInv, ServiceTypeOK
<1>4. ServiceInv'
  BY <1>1, <1>2, <1>3, ServiceKeeps DEF ServiceInv, ServiceTypeOK, users, clients
<1>5. RequestInv'
  <2> USE DEF WithToken, Rotated, Locked, Label
  <2>1. CASE LoginReadUser(p)
    <3>1. RequestTypeOK' /\ RequestOK(p)'
      BY <2>1 DEF LoginReadUser, Goto, RequestInv, RequestTypeOK, RequestOK, ServiceInv, ServiceTypeOK
    <3> QED BY <1>2, <2>1, <3>1, OthersKeep DEF LoginReadUser, Goto, RequestInv, RequestTypeOK
  <2>2. CASE RefreshReadSession(p)
    BY <1>2, <2>2, GotoKeeps, ReturnKeeps DEF RefreshReadSession
  <2>3. CASE RefreshReadUser(p)
    <3>1. RequestTypeOK' /\ RequestOK(p)'
      BY <1>1, <2>3 DEF RefreshReadUser, Goto, RequestInv, RequestTypeOK, RequestOK, ServiceInv, ServiceTypeOK, store
    <3> QED BY <1>2, <2>3, <3>1, OthersKeep DEF RefreshReadUser, Goto, RequestInv, RequestTypeOK
  <2>4. CASE RefreshLock(p)
    BY <1>2, <2>4, GotoKeeps, ReturnKeeps DEF RefreshLock
  <2>5. CASE RefreshRecheck(p)
    <3>1. RequestTypeOK' /\ RequestOK(p)'
      BY <1>1, <2>5 DEF RefreshRecheck, Goto, RequestInv, RequestTypeOK, RequestOK, TokenStatus, store
    <3> QED BY <1>2, <2>5, <3>1, OthersKeep DEF RefreshRecheck, Goto, RequestInv, RequestTypeOK
  <2>6. CASE TokenRead(p)
    BY <1>2, <2>6, GotoKeeps DEF TokenRead, AfterMark
  <2>7. CASE TouchRead(p)
    <3>1. RequestTypeOK' /\ RequestOK(p)'
      BY <1>1, <2>7 DEF TouchRead, Goto, RequestInv, RequestTypeOK, RequestOK, StoreInv, StoreTypeOK,
                        EndedIsTold, store
    <3> QED BY <1>2, <2>7, <3>1, OthersKeep DEF TouchRead, Goto, RequestInv, RequestTypeOK
  <2>8. CASE RefreshUnlock(p)
    BY <1>2, <2>8, ReturnKeeps DEF RefreshUnlock
  <2>9. CASE LogoutReadToken(p)
    <3>1. CASE tok[rt[p]] # "active"
      BY <1>2, <2>9, <3>1, ReturnKeeps DEF LogoutReadToken
    <3>2. CASE tok[rt[p]] = "active"
      <4>1. RequestTypeOK' /\ RequestOK(p)'
        BY <1>1, <2>9, <3>2 DEF LogoutReadToken, Goto, RequestInv, RequestTypeOK, RequestOK, TokenStatus, store
      <4> QED BY <1>2, <2>9, <3>2, <4>1, OthersKeep DEF LogoutReadToken, Goto, RequestInv, RequestTypeOK
    <3> QED BY <3>1, <3>2
  <2>10. CASE StepFails(p)
    BY <1>2, <2>10, GotoKeeps, ReturnKeeps DEF StepFails
  <2>11. CASE Crash(p)
    BY <1>2, <2>11, ReturnKeeps DEF Crash
  <2>12. ASSUME NEW t \in issued, RefreshReadToken(p, t) \/ LogoutRefreshOnly(p, t)
         PROVE  RequestInv'
    <3>1. t \in Token /\ tokSess[t] \in created
      BY DEF ServiceInv, ServiceTypeOK
    <3>2. RequestTypeOK' /\ RequestOK(p)'
      BY <1>1, <2>12, <3>1 DEF RefreshReadToken, LogoutRefreshOnly, Goto, RequestInv, RequestTypeOK, RequestOK,
                               TokenStatus, store
    <3> QED BY <1>2, <2>12, <3>2, OthersKeep DEF RefreshReadToken, LogoutRefreshOnly, Goto, RequestInv, RequestTypeOK
  <2> QED BY <2>1, <2>2, <2>3, <2>4, <2>5, <2>6, <2>7, <2>8, <2>9, <2>10, <2>11, <2>12
<1> QED BY <1>2, <1>4, <1>5

\* Steps that write records or answer a client.
LEMMA WriteStep ==
  ASSUME IInv, NEW p \in Proc,
         \/ LoginEstablish(p)
         \/ TokenWrite(p) \/ RotateSave(p) \/ TouchWrite(p) \/ RefreshDone(p) \/ RefreshReplay(p)
         \/ \E s \in Session, t \in issued \cup {NoToken} : LogoutAccess(p, s, t)
         \/ LogoutTokenSession(p)
         \/ ChangePassword(p) \/ RevokeAllScript(p) \/ RevokeAllDropCache(p)
  PROVE  IInv'
<1> USE SessionAssumption DEF IInv
<1>0. StoreTypeOK
  BY DEF StoreInv
<1>1. CASE LoginEstablish(p)
  <2>0. Return(p) /\ UNCHANGED <<lock, users>>
    BY <1>1 DEF LoginEstablish
  <2>1. CASE UNCHANGED store /\ UNCHANGED clients
    <3>1. StoreInv' /\ Grows
      BY <2>1, StoreSame
    <3> QED BY <1>0, <2>0, <2>1, <3>1, ReturnKeeps, ServiceKeeps DEF ServiceInv, ServiceTypeOK, users, clients
  <2>2. ASSUME NEW s \in Session \ created, NEW t \in FreshToken, LoginReplace(s, t, ver[p]),
               issued' = issued \cup {t}, access' = access \cup {<<s, ver[p]>>}, UNCHANGED acked
        PROVE  IInv'
    <3>1. ver[p] \in Version
      BY DEF RequestInv, RequestTypeOK
    <3>2. StoreInv' /\ Grows /\ tokSess'[t] \in created'
      BY <2>2, <3>1, LoginReplaceKeeps
    <3>3. ServiceInv'
      BY <1>0, <2>0, <2>2, <3>1, <3>2 DEF ServiceInv, ServiceTypeOK, Grows, StoreTypeOK, users, FreshToken
    <3> QED BY <1>0, <2>0, <3>2, <3>3, ReturnKeeps
  <2> QED BY <1>1, <2>1, <2>2 DEF LoginEstablish
<1>2. CASE TokenWrite(p)
  <2>1. StoreInv' /\ Grows
    BY <1>2 DEF TokenWrite, StoreInv, StoreTypeOK, CreatedFirst, EndedIsTold, AnnouncedIsOut, CurrentIsKept,
                CurrentIsIndexed, Grows, RequestInv, RequestTypeOK, RequestOK, WithToken, Locked
  <2>2. ServiceInv'
    BY <1>0, <1>2, <2>1, ServiceKeeps DEF TokenWrite, ServiceInv, ServiceTypeOK, users, clients
  <2>3. RequestInv'
    BY <1>0, <1>2, <2>1, GotoKeeps DEF TokenWrite, AfterMark, WithToken, Locked, Rotated, Label
  <2> QED BY <2>1, <2>2, <2>3
<1>3. CASE RotateSave(p)
  <2>0. rt[p] \in Token /\ tokSess[rt[p]] \in created
    BY <1>3 DEF RotateSave, RequestInv, RequestOK, WithToken, Locked
  <2>1. PICK t \in FreshToken : /\ tok' = [tok EXCEPT ![t] = "active"]
                                /\ tokSess' = [tokSess EXCEPT ![t] = tokSess[rt[p]]]
                                /\ parent' = [parent EXCEPT ![t] = rt[p]]
                                /\ new' = [new EXCEPT ![p] = t]
    BY <1>3 DEF RotateSave
  <2>2. /\ UNCHANGED <<sess, sessPv, created, userSessions, current, events>>
        /\ UNCHANGED <<lock, users, clients, rt, ver, seen, mark, known, changed>>
        /\ Goto(p, "touch.read")
    BY <1>3 DEF RotateSave
  <2>3. StoreTypeOK'
    BY <2>0, <2>1, <2>2 DEF StoreInv, StoreTypeOK, TokenStatus, FreshToken
  <2>4. StoreInv' /\ Grows
    BY <2>0, <2>1, <2>2, <2>3 DEF StoreInv, StoreTypeOK, CreatedFirst, EndedIsTold, AnnouncedIsOut, CurrentIsKept,
                CurrentIsIndexed, Grows, FreshToken
  <2>5. ServiceInv'
    BY <1>0, <2>2, <2>4, ServiceKeeps DEF ServiceInv, ServiceTypeOK, users, clients
  <2>6. RequestTypeOK' /\ RequestOK(p)'
    BY <2>0, <2>1, <2>2 DEF RequestInv, RequestTypeOK, RequestOK, Goto, Label, Locked, WithToken, Rotated,
                            FreshToken, StoreInv, StoreTypeOK
  <2>7. RequestInv'
    BY <1>0, <2>1, <2>2, <2>4, <2>6, OthersKeep DEF Goto, RequestInv, RequestTypeOK
  <2> QED BY <2>4, <2>5, <2>7
<1>4. CASE TouchWrite(p)
  <2> DEFINE s == tokSess[rt[p]]
  <2>1. /\ rt[p] \in Token /\ s \in created
        /\ seen[p] # "none"
        /\ seen[p] \in Ended => events[s] > 0
        /\ seen[p] \in SessionStatus
    BY <1>4 DEF TouchWrite, RequestInv, RequestTypeOK, RequestOK, WithToken, Locked
  <2>2. /\ sess' = [sess EXCEPT ![s] = seen[p]]
        /\ Goto(p, "refresh.done") /\ UNCHANGED locals
        /\ UNCHANGED <<sessPv, created, userSessions, current, events, tok, tokSess, parent>>
        /\ UNCHANGED <<lock, users, clients>>
    BY <1>4 DEF TouchWrite
  <2> HIDE DEF s
  <2>3. StoreInv' /\ Grows
    BY <2>1, <2>2 DEF StoreInv, StoreTypeOK, CreatedFirst, EndedIsTold, AnnouncedIsOut, CurrentIsKept,
                CurrentIsIndexed, Grows, SessionStatus
  <2>4. ServiceInv'
    BY <1>0, <2>2, <2>3, ServiceKeeps DEF ServiceInv, ServiceTypeOK, users, clients
  <2>5. RequestInv'
    BY <1>0, <1>4, <2>2, <2>3, GotoKeeps DEF TouchWrite, WithToken, Locked, Rotated, Label
  <2> QED BY <2>3, <2>4, <2>5
<1>5. CASE RefreshDone(p)
  <2>1. StoreInv' /\ Grows
    BY <1>5, StoreSame DEF RefreshDone
  <2>2. /\ rt[p] \in Token /\ tokSess[rt[p]] \in created
        /\ new[p] \in Token /\ tokSess[new[p]] \in created
        /\ ver[p] \in Version
    BY <1>5 DEF RefreshDone, RequestInv, RequestTypeOK, RequestOK, WithToken, Locked, Rotated
  <2>3. ServiceInv'
    BY <1>0, <1>5, <2>1, <2>2 DEF RefreshDone, ServiceInv, ServiceTypeOK, StoreTypeOK, Grows, users, store
  <2>4. RequestInv'
    BY <1>0, <1>5, <2>1, GotoKeeps DEF RefreshDone, WithToken, Locked, Rotated, Label
  <2> QED BY <2>1, <2>3, <2>4
<1>6. CASE RefreshReplay(p)
  <2>1. tokSess[rt[p]] \in Session
    BY <1>0, <1>6 DEF RefreshReplay, RequestInv, RequestOK, WithToken, Locked, StoreTypeOK
  <2>2. StoreInv' /\ Grows
    BY <1>6, <2>1, RevokeSessionKeeps DEF RefreshReplay, Ended
  <2>3. ServiceInv'
    BY <1>0, <1>6, <2>2, ServiceKeeps DEF RefreshReplay, ServiceInv, ServiceTypeOK, users, clients
  <2>4. RequestInv'
    BY <1>0, <1>6, <2>2, GotoKeeps DEF RefreshReplay, WithToken, Locked, Rotated, Label
  <2> QED BY <2>2, <2>3, <2>4
<1>7. ASSUME NEW s \in Session, NEW t \in issued \cup {NoToken}, LogoutAccess(p, s, t)
      PROVE  IInv'
  <2>1. StoreInv' /\ Grows
    BY <1>7, StoreSame, RevokeSessionKeeps DEF LogoutAccess, Ended
  <2>2. ServiceInv'
    BY <1>0, <1>7, <2>1, ServiceKeeps DEF LogoutAccess, ServiceInv, ServiceTypeOK, users, clients
  <2>3. CASE t = NoToken
    BY <1>0, <1>7, <2>1, <2>2, <2>3, AllKeep DEF LogoutAccess, locals
  <2>4. CASE t # NoToken
    <3>1. t \in Token /\ tokSess[t] \in created /\ tokSess'[t] \in created'
      BY <2>1, <2>4 DEF ServiceInv, ServiceTypeOK, Grows
    <3>2. /\ pc' = [pc EXCEPT ![p] = "logout.token"]
          /\ rt' = [rt EXCEPT ![p] = t]
          /\ known' = [known EXCEPT ![p] = TRUE]
          /\ UNCHANGED <<new, ver, seen, mark, changed>>
      BY <1>7, <2>4 DEF LogoutAccess, Goto
    <3>3. RequestTypeOK' /\ RequestOK(p)'
      BY <3>1, <3>2 DEF RequestInv, RequestTypeOK, RequestOK, Label, Locked, Rotated
    <3>4. RequestInv'
      BY <1>0, <2>1, <3>2, <3>3, OthersKeep DEF RequestInv, RequestTypeOK
    <3> QED BY <2>1, <2>2, <3>4
  <2> QED BY <2>3, <2>4
<1>8. CASE LogoutTokenSession(p)
  <2>1. tokSess[rt[p]] \in Session
    BY <1>0, <1>8 DEF LogoutTokenSession, RequestInv, RequestOK, WithToken, StoreTypeOK
  <2>2. StoreInv' /\ Grows
    BY <1>8, <2>1, StoreSame, RevokeSessionKeeps DEF LogoutTokenSession, Ended
  <2>3. ServiceInv'
    BY <1>0, <1>8, <2>2, ServiceKeeps DEF LogoutTokenSession, ServiceInv, ServiceTypeOK, users, clients
  <2>4. RequestInv'
    BY <1>0, <1>8, <2>2, ReturnKeeps DEF LogoutTokenSession
  <2> QED BY <2>2, <2>3, <2>4
<1>9. CASE ChangePassword(p)
  <2>1. StoreInv' /\ Grows
    BY <1>9, StoreSame DEF ChangePassword
  <2>2. dbVersion + 1 \in Version
    BY <1>9 DEF ChangePassword, ServiceInv, ServiceTypeOK, Version
  <2>3. ServiceInv'
    BY <1>0, <1>9, <2>1, <2>2, ServiceKeeps DEF ChangePassword, ServiceInv, ServiceTypeOK, clients
  <2>4. RequestTypeOK' /\ RequestOK(p)'
    BY <1>9, <2>2 DEF ChangePassword, Goto, RequestInv, RequestTypeOK, RequestOK, Label, Locked, WithToken, Rotated
  <2>5. RequestInv'
    BY <1>0, <1>9, <2>1, <2>4, OthersKeep DEF ChangePassword, Goto, RequestInv, RequestTypeOK
  <2> QED BY <2>1, <2>3, <2>5
<1>10. CASE RevokeAllScript(p)
  <2>1. StoreInv' /\ Grows
    BY <1>10, RevokeUserKeeps DEF RevokeAllScript
  <2>2. ServiceInv'
    BY <1>0, <1>10, <2>1, ServiceKeeps DEF RevokeAllScript, ServiceInv, ServiceTypeOK, users, clients
  <2>3. RequestInv'
    BY <1>0, <1>10, <2>1, GotoKeeps DEF RevokeAllScript, WithToken, Locked, Rotated, Label
  <2> QED BY <2>1, <2>2, <2>3
<1>11. CASE RevokeAllDropCache(p)
  <2>1. StoreInv' /\ Grows
    BY <1>11, StoreSame DEF RevokeAllDropCache
  <2>2. pvCache' \in Version /\ acked' \in Version
    BY <1>11 DEF RevokeAllDropCache, ServiceInv, ServiceTypeOK, RequestInv, RequestTypeOK, Version
  <2>3. ServiceInv'
    BY <1>0, <1>11, <2>1, <2>2, ServiceKeeps DEF RevokeAllDropCache, ServiceInv, ServiceTypeOK
  <2>4. RequestInv'
    BY <1>0, <1>11, <2>1, ReturnKeeps DEF RevokeAllDropCache
  <2> QED BY <2>1, <2>3, <2>4
<1> QED BY <1>1, <1>2, <1>3, <1>4, <1>5, <1>6, <1>7, <1>8, <1>9, <1>10, <1>11

LEMMA ExpiryStep ==
  ASSUME IInv, Expiry
  PROVE  IInv'
<1> USE SessionAssumption DEF IInv
<1>0. StoreTypeOK
  BY DEF StoreInv
<1>1. StoreInv' /\ Grows
  <2> USE DEF StoreInv, StoreTypeOK, CreatedFirst, EndedIsTold, AnnouncedIsOut, CurrentIsKept, CurrentIsIndexed, Grows
  <2>1. ASSUME NEW t \in Token, LockExpires(t) PROVE StoreInv' /\ Grows
    BY <2>1, StoreSame DEF LockExpires
  <2>2. ASSUME NEW t \in Token, TokenExpires(t) PROVE StoreInv' /\ Grows
    BY <2>2 DEF TokenExpires, TokenStatus
  <2>3. ASSUME NEW s \in Session, SessionExpires(s) PROVE StoreInv' /\ Grows
    BY <2>3 DEF SessionExpires, SessionStatus, Ended
  <2>4. CASE IndexExpires
    BY <2>4 DEF IndexExpires
  <2> QED BY <2>1, <2>2, <2>3, <2>4 DEF Expiry
<1>2. lock' \in [Token -> Proc \cup {Free, Dead}]
  BY DEF Expiry, LockExpires, TokenExpires, SessionExpires, IndexExpires, ServiceInv, ServiceTypeOK
<1>3. UNCHANGED users /\ UNCHANGED clients /\ UNCHANGED <<pc, locals>>
  BY DEF Expiry, LockExpires, TokenExpires, SessionExpires, IndexExpires
<1> QED BY <1>0, <1>1, <1>2, <1>3, AllKeep, ServiceKeeps DEF ServiceInv, ServiceTypeOK, users, clients

LEMMA StutterStep ==
  ASSUME IInv, UNCHANGED vars
  PROVE  IInv'
<1>1. StoreInv' /\ Grows
  BY StoreSame DEF IInv, vars
<1> QED BY <1>1, AllKeep, ServiceKeeps
        DEF IInv, StoreInv, ServiceInv, ServiceTypeOK, vars, users, clients

LEMMA NextKeeps == IInv /\ [Next]_vars => IInv'
<1> SUFFICES ASSUME IInv, [Next]_vars PROVE IInv'
  OBVIOUS
<1>1. ASSUME NEW p \in Proc, Step(p) PROVE IInv'
  BY <1>1, ReadStep, WriteStep DEF Step
<1> QED BY <1>1, ExpiryStep, StutterStep DEF Next

LEMMA InitHolds == Init => IInv
<1> SUFFICES ASSUME Init PROVE IInv
  OBVIOUS
<1> USE SessionAssumption DEF Init
<1>1. \A t \in Token : tokSess[t] \in Legacy \cup {NoSession}
  BY Zenon
<1>2. \A s \in Legacy : tokSess[LegacyToken[s]] \in Legacy
  BY Zenon
<1>3. StoreInv
  BY <1>1 DEF StoreInv, StoreTypeOK, CreatedFirst, EndedIsTold, AnnouncedIsOut, CurrentIsKept, CurrentIsIndexed,
              SessionStatus, TokenStatus, Ended, Version
<1>4. ServiceInv
  BY <1>2 DEF ServiceInv, ServiceTypeOK, Version
<1>5. RequestInv
  BY DEF RequestInv, RequestTypeOK, RequestOK, WithToken, Locked, Rotated, Label, Version, SessionStatus, TokenStatus
<1> QED BY <1>3, <1>4, <1>5 DEF IInv

THEOREM Invariance == Spec => []IInv
BY InitHolds, NextKeeps, PTL DEF Spec

-----------------------------------------------------------------------------
\* The safety properties that the runs check.

\* Every variable keeps its type.
THEOREM TypeCorrect == Spec => []TypeOK
BY Invariance, PTL DEF IInv, StoreInv, ServiceInv, RequestInv, TypeOK

\* A session whose end was announced never becomes current again.
THEOREM AnnouncedStaysOut == Spec => []AnnouncedIsOut
BY Invariance, PTL DEF IInv, StoreInv

\* Whoever writes a session record last, TouchSession's late write included, a
\* terminal status in it has been announced.
THEOREM EndIsAnnounced == Spec => []EndedIsTold
BY Invariance, PTL DEF IInv, StoreInv

\* Revoking the user reaches the current session.
THEOREM CurrentIsReached == Spec => []CurrentIsIndexed
BY Invariance, PTL DEF IInv, StoreInv

\* The current session changes only together with its event, or after its
\* record has lapsed.
Displacement ==
  \A s \in Session : current = s /\ current' # s => events'[s] > events[s] \/ sess[s] = "none"

LEMMA ScriptDisplaces ==
  ASSUME StoreInv,
         \/ \E s \in Session \ created, t \in FreshToken, version \in Version : LoginReplace(s, t, version)
         \/ \E s \in Session, status \in Ended : RevokeSession(s, status)
         \/ RevokeUser
         \/ IndexExpires
         \/ UNCHANGED current
  PROVE  Displacement
<1> USE DEF StoreInv, Displacement
<1>1. ASSUME NEW s \in Session \ created, NEW t \in FreshToken, NEW version \in Version,
             LoginReplace(s, t, version)
      PROVE  Displacement
  <2>1. \A x \in Session : x \in Indexed /\ sess[x] = "active" => events'[x] = events[x] + 1
    BY <1>1 DEF LoginReplace
  <2> QED BY <2>1 DEF StoreTypeOK, CurrentIsKept, CurrentIsIndexed, Indexed
<1>2. ASSUME NEW s \in Session, NEW status \in Ended, RevokeSession(s, status)
      PROVE  Displacement
  BY <1>2 DEF RevokeSession, End, StoreTypeOK, store
<1>3. CASE RevokeUser
  <2>1. \A x \in Session : x \in Indexed /\ sess[x] = "active" => events'[x] = events[x] + 1
    BY <1>3 DEF RevokeUser, End
  <2> QED BY <2>1 DEF StoreTypeOK, CurrentIsKept, CurrentIsIndexed, Indexed
<1>4. CASE IndexExpires
  BY <1>4, SessionAssumption DEF IndexExpires
<1> QED BY <1>1, <1>2, <1>3, <1>4

LEMMA RequestDisplaces ==
  ASSUME IInv, NEW p \in Proc, Step(p)
  PROVE  Displacement
<1>0. StoreInv
  BY DEF IInv
<1>1. CASE LoginEstablish(p)
  <2>1. ver[p] \in Version
    BY DEF IInv, RequestInv, RequestTypeOK
  <2> QED BY <1>0, <1>1, <2>1, ScriptDisplaces DEF LoginEstablish, store
<1>2. CASE RefreshReplay(p) \/ LogoutTokenSession(p)
  <2>1. tokSess[rt[p]] \in Session
    BY <1>2 DEF RefreshReplay, LogoutTokenSession, IInv, RequestInv, RequestOK, WithToken, Locked, StoreInv, StoreTypeOK
  <2> QED BY <1>0, <1>2, <2>1, ScriptDisplaces DEF RefreshReplay, LogoutTokenSession, Ended, store
<1>3. ASSUME NEW s \in Session, NEW t \in issued \cup {NoToken}, LogoutAccess(p, s, t)
      PROVE  Displacement
  BY <1>0, <1>3, ScriptDisplaces DEF LogoutAccess, Ended, store
<1>4. CASE RevokeAllScript(p)
  BY <1>0, <1>4, ScriptDisplaces DEF RevokeAllScript
<1>5. CASE \/ LoginReadUser(p) \/ RefreshReadSession(p) \/ RefreshReadUser(p) \/ RefreshLock(p)
           \/ RefreshRecheck(p) \/ TokenRead(p) \/ TokenWrite(p) \/ RotateSave(p) \/ TouchRead(p) \/ TouchWrite(p)
           \/ RefreshDone(p) \/ RefreshUnlock(p)
           \/ LogoutReadToken(p) \/ ChangePassword(p) \/ RevokeAllDropCache(p) \/ StepFails(p) \/ Crash(p)
           \/ \E t \in issued : RefreshReadToken(p, t) \/ LogoutRefreshOnly(p, t)
  <2>1. UNCHANGED current
    BY <1>5 DEF LoginReadUser, RefreshReadSession, RefreshReadUser, RefreshLock, RefreshRecheck, TokenRead,
         TokenWrite, RotateSave, TouchRead, TouchWrite, RefreshDone, RefreshUnlock, LogoutReadToken,
         ChangePassword, RevokeAllDropCache, StepFails, Crash, RefreshReadToken, LogoutRefreshOnly, store
  <2> QED BY <1>0, <2>1, ScriptDisplaces
<1> QED BY <1>1, <1>2, <1>3, <1>4, <1>5 DEF Step

\* No session is displaced silently.
THEOREM DisplacementIsAnnounced == Spec => DisplacedIsTold
<1>1. IInv /\ [Next]_vars => [Displacement]_vars
  <2> SUFFICES ASSUME IInv, Next PROVE Displacement
    OBVIOUS
  <2>1. CASE Expiry
    BY <2>1, ScriptDisplaces DEF IInv, Expiry, LockExpires, TokenExpires, SessionExpires, store
  <2> QED BY <2>1, RequestDisplaces DEF Next
<1> QED BY <1>1, Invariance, PTL DEF Spec, DisplacedIsTold, Displacement

-----------------------------------------------------------------------------
\* A rejecting login mode.

\* The device passes to another session only through a login that is let in.
Takeover == Mode = "reject" /\ current # NoSession /\ current' \notin {current, NoSession}

LEMMA ScriptTakesNothing ==
  ASSUME \/ UNCHANGED current
         \/ \E s \in Session, status \in Ended : RevokeSession(s, status)
         \/ RevokeUser \/ IndexExpires
  PROVE  ~Takeover
BY DEF Takeover, RevokeSession, RevokeUser, IndexExpires, store

\* In "reject" mode no login takes the device from a session whose record is
\* active (login_replace.lua:65), in whatever order logins, expiry, failures
\* and late writes of other requests happen.
THEOREM HolderIsKept == Spec => RejectKeepsHolder
<1>1. ASSUME IInv, NEW p \in Proc, Step(p), Takeover PROVE sess[current] # "active"
  <2> USE <1>1
  <2>1. CASE LoginEstablish(p)
    BY <2>1, ScriptTakesNothing DEF LoginEstablish, LoginRejected, Takeover, store
  <2>2. CASE RefreshReplay(p) \/ LogoutTokenSession(p)
    <3>1. tokSess[rt[p]] \in Session
      BY <2>2 DEF RefreshReplay, LogoutTokenSession, IInv, RequestInv, RequestOK, WithToken, Locked, StoreInv, StoreTypeOK
    <3> QED BY <2>2, <3>1, ScriptTakesNothing DEF RefreshReplay, LogoutTokenSession, Ended, store
  <2>3. ASSUME NEW s \in Session, NEW t \in issued \cup {NoToken}, LogoutAccess(p, s, t) PROVE FALSE
    BY <2>3, ScriptTakesNothing DEF LogoutAccess, Ended, store
  <2>4. CASE RevokeAllScript(p)
    BY <2>4, ScriptTakesNothing DEF RevokeAllScript
  <2>5. CASE UNCHANGED current
    BY <2>5, ScriptTakesNothing
  <2>6. \/ LoginEstablish(p) \/ RefreshReplay(p) \/ LogoutTokenSession(p) \/ RevokeAllScript(p)
        \/ \E s \in Session, t \in issued \cup {NoToken} : LogoutAccess(p, s, t)
        \/ UNCHANGED current
    BY DEF Step, LoginReadUser, RefreshReadSession, RefreshReadUser, RefreshLock, RefreshRecheck, TokenRead,
         TokenWrite, RotateSave, TouchRead, TouchWrite, RefreshDone, RefreshUnlock, LogoutReadToken,
         ChangePassword, RevokeAllDropCache, StepFails, Crash, RefreshReadToken, LogoutRefreshOnly, store
  <2> QED BY <2>1, <2>2, <2>3, <2>4, <2>5, <2>6
<1>2. ASSUME Expiry PROVE ~Takeover
  BY <1>2, ScriptTakesNothing DEF Expiry, LockExpires, TokenExpires, SessionExpires, store
<1>3. IInv /\ [Next]_vars => [Takeover => sess[current] # "active"]_vars
  BY <1>1, <1>2 DEF Next
<1> QED BY <1>3, Invariance, PTL DEF Spec, RejectKeepsHolder, Takeover

-----------------------------------------------------------------------------
\* The store implements SingleDevice.

Told == {s \in Session : events[s] > 0}
Live == {s \in Session : sess[s] # "none"}

\* The scripts are steps of the abstract specification.
LEMMA LoginReplaceIsSignIn ==
  ASSUME StoreInv, NEW s \in Session \ created, NEW t \in FreshToken, NEW version \in Version,
         LoginReplace(s, t, version)
  PROVE  Device!SignIn(s)
<1> USE SessionAssumption DEF StoreInv
<1>1. /\ current' = s
      /\ created' = created \cup {s}
      /\ \A x \in Session : sess'[x] # "none" <=> x = s \/ sess[x] # "none"
      /\ \A x \in Session : events[x] > 0 => events'[x] > 0
      /\ \A x \in Session : events'[x] > 0 => events[x] > 0 \/ x \in Indexed
      /\ \A x \in Session : x \in Indexed /\ sess[x] = "active" => events'[x] > 0
  BY DEF LoginReplace, StoreTypeOK, Indexed
<1>2. Told \subseteq Told' /\ Told' \subseteq created
  BY <1>1 DEF Told, CreatedFirst, Indexed
<1>3. current # NoSession => current \in Told' \/ current \notin Live
  BY <1>1 DEF StoreTypeOK, Told, Live, CurrentIsKept, CurrentIsIndexed, Indexed
<1>4. Live' = Live \cup {s}
  BY <1>1 DEF Live
<1> QED BY <1>1, <1>2, <1>3, <1>4 DEF Device!SignIn, Device!Leaves, Told, Live

LEMMA RevokeSessionIsSignOut ==
  ASSUME StoreInv, NEW s \in Session, NEW status \in Ended, RevokeSession(s, status)
  PROVE  Device!SignOut \/ UNCHANGED store
<1> USE SessionAssumption DEF StoreInv
<1> SUFFICES ASSUME sess[s] = "active" PROVE Device!SignOut
  BY DEF RevokeSession
<1>1. /\ \A x \in Session : sess'[x] # "none" <=> sess[x] # "none"
      /\ \A x \in Session : events'[x] > 0 <=> events[x] > 0 \/ x = s
      /\ current' = IF current = s THEN NoSession ELSE current
      /\ created' = created
  BY DEF RevokeSession, End, StoreTypeOK, Ended
<1>2. Told' = Told \cup {s} /\ Told' \subseteq created
  BY <1>1 DEF Told, CreatedFirst
<1>3. Live' = Live
  BY <1>1 DEF Live
<1>4. current' # NoSession => current' \notin Told'
  BY <1>1, <1>2 DEF Told, AnnouncedIsOut
<1> QED BY <1>1, <1>2, <1>3, <1>4 DEF Device!SignOut, Device!Leaves, Told, Live

LEMMA RevokeUserIsSignOut ==
  ASSUME StoreInv, RevokeUser
  PROVE  Device!SignOut
<1> USE SessionAssumption DEF StoreInv
<1>1. /\ \A x \in Session : sess'[x] # "none" <=> sess[x] # "none"
      /\ \A x \in Session : events'[x] > 0 <=> events[x] > 0 \/ (x \in Indexed /\ sess[x] = "active")
      /\ current' = NoSession
      /\ created' = created
  BY DEF RevokeUser, End, StoreTypeOK
<1>2. Told \subseteq Told' /\ Told' \subseteq created
  BY <1>1 DEF Told, CreatedFirst, Indexed
<1>3. Live' = Live
  BY <1>1 DEF Live
<1>4. current # NoSession => current \in Told' \/ current \notin Live
  BY <1>1 DEF StoreTypeOK, Told, Live, CurrentIsKept, CurrentIsIndexed, Indexed
<1> QED BY <1>1, <1>2, <1>3, <1>4 DEF Device!SignOut, Device!Leaves, Told, Live

LEMMA SameIsStutter ==
  ASSUME UNCHANGED <<sess, current, events, created>>
  PROVE  UNCHANGED Device!deviceVars
BY DEF Device!deviceVars

LEMMA RequestStepImplements ==
  ASSUME IInv, NEW p \in Proc, Step(p)
  PROVE  [Device!Next]_Device!deviceVars
<1> USE DEF IInv
<1>1. CASE LoginEstablish(p)
  <2>1. ver[p] \in Version
    BY DEF RequestInv, RequestTypeOK
  <2>2. ASSUME NEW s \in Session \ created, NEW t \in FreshToken, LoginReplace(s, t, ver[p])
        PROVE  Device!Next
    BY <2>1, <2>2, LoginReplaceIsSignIn DEF Device!Next
  <2> QED BY <1>1, <2>2, SameIsStutter DEF LoginEstablish, store
<1>2. CASE TouchWrite(p)
  <2>1. PICK s \in Session : s = tokSess[rt[p]] /\ s \in created /\ seen[p] # "none"
    BY <1>2 DEF TouchWrite, RequestInv, RequestOK, WithToken, Locked, StoreInv, StoreTypeOK
  <2>2. /\ sess' = [sess EXCEPT ![s] = seen[p]]
        /\ UNCHANGED <<current, events, created>>
    BY <1>2, <2>1 DEF TouchWrite
  <2>3. Live' = Live \cup {s}
    BY <2>1, <2>2 DEF Live, StoreInv, StoreTypeOK
  <2>4. Device!Restore(s)
    BY <2>1, <2>2, <2>3 DEF Device!Restore, Live
  <2> QED BY <2>4 DEF Device!Next
<1>3. CASE RefreshReplay(p) \/ LogoutTokenSession(p)
  <2>1. tokSess[rt[p]] \in Session
    BY <1>3 DEF RefreshReplay, LogoutTokenSession, RequestInv, RequestOK, WithToken, Locked, StoreInv, StoreTypeOK
  <2> QED BY <1>3, <2>1, RevokeSessionIsSignOut, SameIsStutter
          DEF RefreshReplay, LogoutTokenSession, Ended, store, Device!Next
<1>4. ASSUME NEW s \in Session, NEW t \in issued \cup {NoToken}, LogoutAccess(p, s, t)
      PROVE  [Device!Next]_Device!deviceVars
  BY <1>4, RevokeSessionIsSignOut, SameIsStutter DEF LogoutAccess, Ended, store, Device!Next
<1>5. CASE RevokeAllScript(p)
  BY <1>5, RevokeUserIsSignOut DEF RevokeAllScript, Device!Next
<1>6. CASE TokenWrite(p) \/ RotateSave(p)
  BY <1>6, SameIsStutter DEF TokenWrite, RotateSave
<1>7. CASE \/ LoginReadUser(p) \/ RefreshReadSession(p) \/ RefreshReadUser(p) \/ RefreshLock(p)
           \/ RefreshRecheck(p) \/ TokenRead(p) \/ TouchRead(p) \/ RefreshDone(p) \/ RefreshUnlock(p)
           \/ LogoutReadToken(p) \/ ChangePassword(p) \/ RevokeAllDropCache(p) \/ StepFails(p) \/ Crash(p)
           \/ \E t \in issued : RefreshReadToken(p, t) \/ LogoutRefreshOnly(p, t)
  <2>1. UNCHANGED store
    BY <1>7 DEF LoginReadUser, RefreshReadSession, RefreshReadUser, RefreshLock, RefreshRecheck, TokenRead,
         TouchRead, RefreshDone, RefreshUnlock, LogoutReadToken, ChangePassword, RevokeAllDropCache,
         StepFails, Crash, RefreshReadToken, LogoutRefreshOnly
  <2> QED BY <2>1, SameIsStutter DEF store
<1> QED BY <1>1, <1>2, <1>3, <1>4, <1>5, <1>6, <1>7 DEF Step

LEMMA ExpiryImplements ==
  ASSUME IInv, Expiry
  PROVE  [Device!Next]_Device!deviceVars
<1> USE SessionAssumption DEF IInv, StoreInv
<1>1. ASSUME NEW t \in Token, LockExpires(t) \/ TokenExpires(t) PROVE UNCHANGED Device!deviceVars
  BY <1>1, SameIsStutter DEF LockExpires, TokenExpires, store
<1>2. ASSUME NEW s \in Session, SessionExpires(s) PROVE Device!Next
  <2>1. Live' = Live \ {s}
    BY <1>2 DEF SessionExpires, Live, StoreTypeOK
  <2>2. Device!Lapse(s)
    BY <1>2, <2>1 DEF SessionExpires, Device!Lapse, Live
  <2> QED BY <2>2 DEF Device!Next
<1>3. CASE IndexExpires
  <2>1. Told \subseteq created
    BY DEF Told, CreatedFirst
  <2>2. current # NoSession => current \notin Live
    BY <1>3 DEF IndexExpires, Live, StoreTypeOK
  <2>3. Device!SignOut
    BY <1>3, <2>1, <2>2 DEF IndexExpires, Device!SignOut, Device!Leaves, Told, Live
  <2> QED BY <2>3 DEF Device!Next
<1> QED BY <1>1, <1>2, <1>3 DEF Expiry

LEMMA StepImplements == IInv /\ [Next]_vars => [Device!Next]_Device!deviceVars
<1> SUFFICES ASSUME IInv, [Next]_vars PROVE [Device!Next]_Device!deviceVars
  OBVIOUS
<1>1. CASE UNCHANGED vars
  BY <1>1, SameIsStutter DEF vars, store
<1> QED BY <1>1, RequestStepImplements, ExpiryImplements DEF Next

LEMMA InitImplements == Init => Device!Init
BY SessionAssumption DEF Init, Device!Init

\* Single-device login, for every interleaving of logins, refreshes, logouts,
\* revocations, password changes, crashes and expiries: one session holds the
\* device, never takes it twice, and never loses it without being told.
THEOREM ImplementsSingleDevice == Spec => SingleDeviceLogin
<1>1. Spec => [][Device!Next]_Device!deviceVars
  BY Invariance, StepImplements, PTL DEF Spec
<1> QED BY <1>1, InitImplements, PTL DEF Spec, SingleDeviceLogin, Device!Spec

-----------------------------------------------------------------------------
(***************************************************************************)
(* The rotation of refresh tokens: a session has at most one live token,   *)
(* and none that would let it be refreshed after its end was announced.    *)
(* Both rest on the refresh lock, so they are proved for the deployments   *)
(* in which no request outlives its lock and none is let through without   *)
(* one (NoLockFault); SingleDeviceLogin needs no such assumption.          *)
(***************************************************************************)

NoLockFault == "lock" \notin Faults

Family(p) == tokSess[rt[p]]

\* From the recheck of the old token's status to the save of the new token.
InWindow(p) ==
  \/ pc[p] = "rotate.save"
  \/ pc[p] \in {"token.read", "token.write"} /\ mark[p] = "rotated"

\* From the save of the new token to its answer.
InTouch(p) == pc[p] \in Rotated

Rotating(p) == InWindow(p) \/ InTouch(p)

LiveIn(s) == {t \in Token : tok[t] = "active" /\ tokSess[t] = s}

\* A request works on a token that some client was given.
WorksOnIssued(p) == pc[p] \in WithToken => rt[p] \in issued

MarkIsFinal(p) ==
  pc[p] \in {"token.read", "token.write"} => mark[p] \in {"rotated", "revoked", "expired"}

HoldsLock(p) == InWindow(p) \/ pc[p] = "recheck" => lock[rt[p]] = p

\* In the window the old token is the only one that can be live.
OldIsLast(p) ==
  InWindow(p) => /\ LiveIn(Family(p)) \subseteq {rt[p]}
                 /\ pc[p] = "rotate.save" => tok[rt[p]] # "active"

\* After it only the new one can, and nobody knows it yet.
NewIsSecret(p) ==
  InTouch(p) => /\ LiveIn(Family(p)) \subseteq {new[p]}
                /\ new[p] \notin issued
                /\ tokSess[new[p]] = Family(p)

OneRotation ==
  \A p, q \in Proc : Rotating(p) /\ Rotating(q) /\ Family(p) = Family(q) => p = q

AtMostOne == \A s \in Session : \A t, u \in LiveIn(s) : t = u

\* Once the end of s was announced, a live token, or a rotation that may still
\* save one, means that nothing can make the record active again.
EndIsFinal ==
  \A s \in Session :
    /\ events[s] > 0
    /\ LiveIn(s) # {} \/ \E p \in Proc : InWindow(p) /\ Family(p) = s
    => /\ sess[s] # "active"
       /\ \A q \in Proc : pc[q] = "touch.write" /\ Family(q) = s => seen[q] # "active"

ChainInv ==
  /\ \A p \in Proc : WorksOnIssued(p) /\ MarkIsFinal(p) /\ HoldsLock(p) /\ OldIsLast(p) /\ NewIsSecret(p)
  /\ OneRotation
  /\ AtMostOne
  /\ EndIsFinal

-----------------------------------------------------------------------------
\* Most steps neither save a refresh token in a session that exists nor start
\* a rotation.

\* Sessions that exist gain no live token; a record becomes active again only
\* by a TouchSession that had read it active; announcing the end of a session
\* leaves nothing live in it.
Calm ==
  /\ \A t \in Token : tokSess[t] \in created => tokSess'[t] = tokSess[t]
  /\ \A t \in Token : tok'[t] = "active" /\ tokSess'[t] \in created
                        => tok[t] = "active" /\ tokSess[t] = tokSess'[t]
  /\ \A s \in created :
       /\ sess'[s] = "active" =>
            sess[s] = "active" \/ \E q \in Proc : pc[q] = "touch.write" /\ Family(q) = s /\ seen[q] = "active"
       /\ events'[s] > 0 => events[s] > 0 \/ (sess'[s] # "active" /\ LiveIn(s)' = {})
  /\ \A s \in Session \ created :
       /\ ~(events'[s] > 0)
       /\ \A t, u \in LiveIn(s)' : t = u

\* The request starts no rotation, and goes on with the one it was in.
KeepsPlace(q) ==
  /\ InWindow(q)' => InWindow(q) /\ rt'[q] = rt[q]
  /\ InTouch(q)' => InTouch(q) /\ rt'[q] = rt[q] /\ new'[q] = new[q] /\ new[q] \notin issued'
  /\ pc'[q] = "touch.write" =>
       \/ pc[q] = "touch.write" /\ seen'[q] = seen[q]
       \/ seen'[q] = sess[Family(q)]
  /\ pc'[q] = "rotate.save" => tok'[rt'[q]] # "active"
  /\ WorksOnIssued(q)' /\ MarkIsFinal(q)' /\ HoldsLock(q)'

LEMMA CalmKeeps ==
  ASSUME IInv, ChainInv, Calm, \A q \in Proc : KeepsPlace(q)
  PROVE  ChainInv'
<1> USE DEF ChainInv
<1>1. /\ created \subseteq Session
      /\ tokSess \in [Token -> Session \cup {NoSession}]
      /\ \A q \in Proc : Rotating(q) => rt[q] \in Token /\ Family(q) \in created
      /\ \A q \in Proc : InTouch(q) => new[q] \in Token
  BY DEF IInv, StoreInv, StoreTypeOK, RequestInv, RequestOK, Rotating, InWindow, InTouch, Family,
         WithToken, Locked, Rotated
<1>2. \A q \in Proc : /\ Rotating(q)' => Rotating(q) /\ Family(q)' = Family(q)
                      /\ InWindow(q)' => InWindow(q)
                      /\ InTouch(q)' => InTouch(q)
  BY <1>1 DEF KeepsPlace, Rotating, Calm, Family
<1>3. \A s \in created : LiveIn(s)' \subseteq LiveIn(s)
  BY DEF Calm, LiveIn
<1>4. \A q \in Proc : ~(InWindow(q) /\ InTouch(q))
  BY DEF InWindow, InTouch, Rotated
<1>5. ASSUME NEW q \in Proc
      PROVE  (WorksOnIssued(q) /\ MarkIsFinal(q) /\ HoldsLock(q) /\ OldIsLast(q) /\ NewIsSecret(q))'
  <2>1. OldIsLast(q)'
    BY <1>1, <1>2, <1>3 DEF KeepsPlace, OldIsLast, Rotating
  <2>2. NewIsSecret(q)'
    <3> SUFFICES ASSUME InTouch(q)' PROVE /\ LiveIn(Family(q))' \subseteq {new'[q]}
                                          /\ new'[q] \notin issued'
                                          /\ tokSess'[new'[q]] = Family(q)'
      BY DEF NewIsSecret
    <3>1. /\ InTouch(q) /\ new'[q] = new[q] /\ new[q] \notin issued' /\ new[q] \in Token
          /\ Family(q)' = Family(q) /\ Family(q) \in created
          /\ tokSess[new[q]] = Family(q)
          /\ LiveIn(Family(q)) \subseteq {new[q]}
      BY <1>1, <1>2 DEF KeepsPlace, Rotating, NewIsSecret
    <3>2. tokSess'[new[q]] = tokSess[new[q]]
      BY <3>1 DEF Calm
    <3>3. LiveIn(Family(q))' \subseteq LiveIn(Family(q))
      BY <3>1, <1>3
    <3> QED BY <3>1, <3>2, <3>3
  <2> QED BY <2>1, <2>2 DEF KeepsPlace
<1>6. OneRotation'
  BY <1>2 DEF OneRotation
<1>7. AtMostOne'
  <2> SUFFICES ASSUME NEW s \in Session PROVE \A t, u \in LiveIn(s)' : t = u
    BY DEF AtMostOne
  <2> QED BY <1>3 DEF AtMostOne, Calm
<1>8. EndIsFinal'
  <2> SUFFICES ASSUME NEW s \in Session, events'[s] > 0,
                      LiveIn(s)' # {} \/ \E p \in Proc : InWindow(p)' /\ Family(p)' = s
               PROVE  /\ sess'[s] # "active"
                      /\ \A q \in Proc : pc'[q] = "touch.write" /\ Family(q)' = s => seen'[q] # "active"
    BY DEF EndIsFinal
  <2>1. s \in created
    BY DEF Calm
  <2>2. LiveIn(s) # {} \/ \E p \in Proc : InWindow(p) /\ Family(p) = s
    BY <1>2, <1>3, <2>1 DEF Rotating
  <2>3. \A q \in Proc : pc'[q] = "touch.write" /\ Family(q)' = s =>
          InTouch(q)' /\ InTouch(q) /\ Family(q) = s
    BY <1>2 DEF InTouch, Rotating, Rotated
  <2>4. CASE events[s] > 0
    <3>1. /\ sess[s] # "active"
          /\ \A q \in Proc : pc[q] = "touch.write" /\ Family(q) = s => seen[q] # "active"
      BY <2>2, <2>4 DEF EndIsFinal
    <3>2. sess'[s] # "active"
      BY <2>1, <3>1 DEF Calm
    <3>3. \A q \in Proc : pc'[q] = "touch.write" /\ Family(q)' = s => seen'[q] # "active"
      BY <2>3, <3>1 DEF KeepsPlace
    <3> QED BY <3>2, <3>3
  <2>5. CASE ~(events[s] > 0)
    <3>1. sess'[s] # "active" /\ LiveIn(s)' = {}
      BY <2>1, <2>5 DEF Calm
    <3>2. PICK p \in Proc : InWindow(p)' /\ Family(p)' = s
      BY <3>1
    <3>3. \A q \in Proc : ~(pc'[q] = "touch.write" /\ Family(q)' = s)
      BY <1>2, <1>4, <2>3, <3>2 DEF OneRotation, Rotating
    <3> QED BY <3>1, <3>3
  <2> QED BY <2>4, <2>5
<1> QED BY <1>5, <1>6, <1>7, <1>8

-----------------------------------------------------------------------------
\* The store: everything but the save of a rotated token is calm.

LEMMA ScriptIsCalm ==
  ASSUME IInv,
         \/ UNCHANGED store
         \/ \E s \in Session \ created, t \in FreshToken, version \in Version : LoginReplace(s, t, version)
         \/ \E s \in Session, status \in Ended : RevokeSession(s, status)
         \/ RevokeUser
  PROVE  Calm
<1> USE SessionAssumption DEF IInv, StoreInv
<1>0. /\ \A s \in Session \ created : sess[s] = "none" /\ events[s] = 0 /\ LiveIn(s) = {}
      /\ NoSession \notin created /\ created \subseteq Session
  BY DEF StoreTypeOK, CreatedFirst, LiveIn
<1>1. CASE UNCHANGED store
  BY <1>0, <1>1 DEF Calm, LiveIn, store
<1>2. ASSUME NEW s \in Session \ created, NEW t \in FreshToken, NEW version \in Version,
             LoginReplace(s, t, version)
      PROVE  Calm
  <2>1. t \in Token /\ tokSess[t] = NoSession /\ tokSess'[t] = s /\ s \notin Indexed
    BY <1>0, <1>2 DEF LoginReplace, FreshToken, StoreTypeOK, Indexed
  <2>2. \A u \in Token \ {t} :
          /\ tokSess'[u] = tokSess[u]
          /\ tok'[u] = "active" => tok[u] = "active" /\ tokSess[u] \notin Indexed
    BY <1>2 DEF LoginReplace, RevokeFamilies, StoreTypeOK
  <2>3. \A x \in Session \ {s} :
          /\ sess'[x] = "active" => sess[x] = "active"
          /\ events'[x] > 0 => events[x] > 0 \/ (x \in Indexed /\ sess'[x] # "active")
    BY <1>2 DEF LoginReplace, StoreTypeOK
  <2>4. events'[s] = 0
    BY <1>0, <1>2, <2>1 DEF LoginReplace, StoreTypeOK
  <2>5. \A x \in Indexed : LiveIn(x)' = {}
    BY <2>1, <2>2 DEF LiveIn
  <2>6. LiveIn(s)' \subseteq {t} /\ \A x \in Session \ {s} : LiveIn(x)' \subseteq LiveIn(x)
    BY <1>0, <2>1, <2>2 DEF LiveIn
  <2>7. \A x \in Session \ created : ~(events'[x] > 0)
    BY <1>0, <2>3, <2>4 DEF Indexed
  <2> QED BY <1>0, <2>1, <2>2, <2>3, <2>5, <2>6, <2>7 DEF Calm
<1>3. ASSUME NEW s \in Session, NEW status \in Ended, RevokeSession(s, status)
      PROVE  Calm
  <2> SUFFICES ASSUME sess[s] = "active" PROVE Calm
    BY <1>1, <1>3 DEF RevokeSession
  <2>1. /\ s \in created
        /\ tokSess' = tokSess
        /\ \A t \in Token : tok'[t] = "active" => tok[t] = "active" /\ tokSess[t] # s
        /\ \A x \in Session : /\ sess'[x] = "active" => sess[x] = "active" /\ x # s
                              /\ x # s => events'[x] = events[x]
    BY <1>0, <1>3 DEF RevokeSession, RevokeFamilies, End, StoreTypeOK, Ended
  <2>2. LiveIn(s)' = {} /\ \A x \in Session : LiveIn(x)' \subseteq LiveIn(x)
    BY <2>1 DEF LiveIn
  <2> QED BY <1>0, <2>1, <2>2 DEF Calm
<1>4. CASE RevokeUser
  <2>1. /\ tokSess' = tokSess
        /\ \A t \in Token : tok'[t] = "active" => tok[t] = "active" /\ tokSess[t] \notin Indexed
        /\ \A x \in Session : /\ sess'[x] = "active" => sess[x] = "active"
                              /\ events'[x] = events[x] \/ (x \in Indexed /\ sess'[x] # "active")
    BY <1>0, <1>4 DEF RevokeUser, RevokeFamilies, End, StoreTypeOK
  <2>2. /\ \A x \in Indexed : LiveIn(x)' = {}
        /\ \A x \in Session : LiveIn(x)' \subseteq LiveIn(x)
    BY <2>1 DEF LiveIn
  <2> QED BY <1>0, <2>1, <2>2 DEF Calm, Indexed
<1> QED BY <1>1, <1>2, <1>3, <1>4

\* Single writes to a token or a session record, and expiry.
LEMMA WriteIsCalm ==
  ASSUME IInv, ChainInv,
         \/ \E t \in Token, status \in TokenStatus \ {"active"} :
              /\ tok' = [tok EXCEPT ![t] = status]
              /\ UNCHANGED <<sess, events, tokSess>>
         \/ \E p \in Proc : TouchWrite(p)
         \/ \E s \in Session : SessionExpires(s)
         \/ IndexExpires
  PROVE  Calm
<1> USE DEF IInv, StoreInv
<1>0. /\ \A s \in Session \ created : sess[s] = "none" /\ events[s] = 0 /\ LiveIn(s) = {}
      /\ created \subseteq Session
  BY SessionAssumption DEF StoreTypeOK, CreatedFirst, LiveIn
<1>1. /\ tokSess' = tokSess /\ events' = events
      /\ \A t \in Token : tok'[t] = "active" => tok[t] = "active"
  BY DEF StoreTypeOK, TouchWrite, SessionExpires, IndexExpires
<1>2. \A s \in Session : LiveIn(s)' \subseteq LiveIn(s)
  BY <1>1 DEF LiveIn
<1>3. \A s \in created :
        sess'[s] = "active" =>
          sess[s] = "active" \/ \E q \in Proc : pc[q] = "touch.write" /\ Family(q) = s /\ seen[q] = "active"
  BY <1>0 DEF StoreTypeOK, TouchWrite, SessionExpires, IndexExpires, Family
<1> QED BY <1>0, <1>1, <1>2, <1>3 DEF Calm

\* A request that takes no part in the step.
Bystander(q) ==
  /\ pc'[q] = pc[q] /\ rt'[q] = rt[q] /\ new'[q] = new[q] /\ seen'[q] = seen[q] /\ mark'[q] = mark[q]
  /\ \A t \in Token : lock[t] = q => lock'[t] = q

LEMMA BystanderKeeps ==
  ASSUME IInv, ChainInv, Calm, NEW q \in Proc, Bystander(q),
         issued \subseteq issued',
         \A t \in issued' \ issued : ~(tokSess[t] \in created /\ InTouch(q) /\ t = new[q])
  PROVE  KeepsPlace(q)
<1> USE DEF ChainInv, Bystander
<1>1. /\ pc[q] \in WithToken => rt[q] \in Token /\ Family(q) \in created
      /\ InTouch(q) => new[q] \in Token /\ tokSess[new[q]] \in created
  BY DEF IInv, StoreInv, StoreTypeOK, RequestInv, RequestOK, InTouch, Family
<1>2. (InWindow(q)' <=> InWindow(q)) /\ (InTouch(q)' <=> InTouch(q))
  BY DEF InWindow, InTouch
<1>3. InTouch(q) => new[q] \notin issued'
  BY <1>1 DEF NewIsSecret
<1>4. pc[q] = "rotate.save" => tok'[rt[q]] # "active"
  <2> SUFFICES ASSUME pc[q] = "rotate.save", tok'[rt[q]] = "active" PROVE FALSE
    OBVIOUS
  <2>1. rt[q] \in Token /\ tokSess[rt[q]] \in created
    BY <1>1 DEF WithToken, Locked, Family
  <2>2. tok[rt[q]] = "active"
    BY <2>1 DEF Calm
  <2> QED BY <2>2 DEF OldIsLast, InWindow
<1>5. WorksOnIssued(q)' /\ MarkIsFinal(q)'
  BY DEF WorksOnIssued, MarkIsFinal
<1>6. HoldsLock(q)'
  BY <1>1, <1>2 DEF HoldsLock, InWindow, WithToken, Locked
<1> QED BY <1>2, <1>3, <1>4, <1>5, <1>6 DEF KeepsPlace

\* A request that ends.
LEMMA ReturnKeepsPlace ==
  ASSUME IInv, NEW p \in Proc, Return(p)
  PROVE  KeepsPlace(p)
BY DEF IInv, RequestInv, RequestTypeOK, Return, Goto, KeepsPlace, InWindow, InTouch, WorksOnIssued, MarkIsFinal,
       HoldsLock, WithToken, Locked, Rotated

\* A request that goes on, outside a rotation or to the next call of the one it is in.
LEMMA GotoKeepsPlace ==
  ASSUME IInv, ChainInv, NEW p \in Proc, NEW label \in Label, Goto(p, label), UNCHANGED <<rt, new, seen, mark, lock>>,
         issued' = issued,
         label \in WithToken => pc[p] \in WithToken,
         label \notin {"token.read", "recheck"},
         label \in {"token.write"} => pc[p] = "token.read",
         label = "rotate.save" => InWindow(p) /\ tok'[rt[p]] # "active",
         label \in Rotated => InTouch(p) /\ label # "touch.write"
  PROVE  KeepsPlace(p)
<1>1. pc'[p] = label
  BY DEF Goto, IInv, RequestInv, RequestTypeOK
<1> QED
  BY <1>1 DEF ChainInv, KeepsPlace, InWindow, InTouch, WorksOnIssued, MarkIsFinal, HoldsLock, NewIsSecret,
              WithToken, Locked, Rotated

-----------------------------------------------------------------------------
\* Every step keeps ChainInv.

\* A calm step of one request: the others stand by.
LEMMA CalmStep ==
  ASSUME IInv, ChainInv, Calm, NEW p \in Proc, KeepsPlace(p),
         \A q \in Proc \ {p} : Bystander(q),
         issued \subseteq issued',
         \A t \in issued' \ issued : tokSess[t] \notin created \/ (InTouch(p) /\ t = new[p])
  PROVE  ChainInv'
<1>1. ASSUME NEW q \in Proc \ {p}
      PROVE  \A t \in issued' \ issued : ~(tokSess[t] \in created /\ InTouch(q) /\ t = new[q])
  <2> SUFFICES ASSUME InTouch(p), InTouch(q), new[p] = new[q] PROVE FALSE
    OBVIOUS
  <2> QED BY DEF ChainInv, NewIsSecret, OneRotation, Rotating
<1>2. \A q \in Proc \ {p} : KeepsPlace(q)
  BY <1>1, BystanderKeeps
<1> QED BY <1>2, CalmKeeps

\* The locals of the other requests.
LEMMA OthersStand ==
  ASSUME IInv, NEW p \in Proc, Step(p),
         \A q \in Proc \ {p}, t \in Token : lock[t] = q => lock'[t] = q
  PROVE  \A q \in Proc \ {p} : Bystander(q)
<1> SUFFICES \A q \in Proc \ {p} : pc'[q] = pc[q] /\ rt'[q] = rt[q] /\ new'[q] = new[q] /\ seen'[q] = seen[q]
                                   /\ mark'[q] = mark[q]
  BY DEF Bystander
<1> USE DEF IInv, RequestInv, RequestTypeOK, Goto, Return, locals
<1>1. CASE LoginReadUser(p) \/ LoginEstablish(p)
  BY <1>1 DEF LoginReadUser, LoginEstablish
<1>2. ASSUME NEW t \in issued, RefreshReadToken(p, t) \/ LogoutRefreshOnly(p, t)
      PROVE \A q \in Proc \ {p} : pc'[q] = pc[q] /\ rt'[q] = rt[q] /\ new'[q] = new[q] /\ seen'[q] = seen[q]
                                  /\ mark'[q] = mark[q]
  BY <1>2 DEF RefreshReadToken, LogoutRefreshOnly
<1>3. CASE RefreshReadSession(p) \/ RefreshReadUser(p) \/ RefreshLock(p) \/ RefreshRecheck(p)
  BY <1>3 DEF RefreshReadSession, RefreshReadUser, RefreshLock, RefreshRecheck
<1>4. CASE TokenRead(p) \/ TokenWrite(p) \/ RotateSave(p) \/ TouchRead(p) \/ TouchWrite(p) \/ RefreshDone(p)
  BY <1>4 DEF TokenRead, TokenWrite, RotateSave, TouchRead, TouchWrite, RefreshDone
<1>5. CASE RefreshReplay(p) \/ RefreshUnlock(p) \/ LogoutReadToken(p) \/ LogoutTokenSession(p)
  BY <1>5 DEF RefreshReplay, RefreshUnlock, LogoutReadToken, LogoutTokenSession
<1>6. ASSUME NEW s \in Session, NEW t \in issued \cup {NoToken}, LogoutAccess(p, s, t)
      PROVE \A q \in Proc \ {p} : pc'[q] = pc[q] /\ rt'[q] = rt[q] /\ new'[q] = new[q] /\ seen'[q] = seen[q]
                                  /\ mark'[q] = mark[q]
  BY <1>6 DEF LogoutAccess
<1>7. CASE ChangePassword(p) \/ RevokeAllScript(p) \/ RevokeAllDropCache(p) \/ StepFails(p) \/ Crash(p)
  BY <1>7 DEF ChangePassword, RevokeAllScript, RevokeAllDropCache, StepFails, Crash
<1> QED BY <1>1, <1>2, <1>3, <1>4, <1>5, <1>6, <1>7 DEF Step

\* Locks are only taken when free, and only their holder gives them back.
LEMMA LocksKept ==
  ASSUME IInv, NoLockFault, NEW p \in Proc, Step(p)
  PROVE  \A q \in Proc \ {p}, t \in Token : lock[t] = q => lock'[t] = q
<1> USE SessionAssumption DEF IInv, ServiceInv, ServiceTypeOK, NoLockFault
<1>1. CASE RefreshLock(p)
  BY <1>1 DEF RefreshLock
<1>2. CASE RefreshUnlock(p) \/ Crash(p)
  BY <1>2 DEF RefreshUnlock, Crash
<1>3. CASE UNCHANGED lock
  BY <1>3
<1> QED BY <1>1, <1>2, <1>3
        DEF Step, LoginReadUser, LoginEstablish, RefreshReadToken, LogoutRefreshOnly, RefreshReadSession,
            RefreshReadUser, RefreshRecheck, TokenRead, TokenWrite, RotateSave, TouchRead, TouchWrite, RefreshDone,
            RefreshReplay, LogoutAccess, LogoutReadToken, LogoutTokenSession, ChangePassword, RevokeAllScript,
            RevokeAllDropCache, StepFails

\* After the recheck the old token is the only live one, and no other request
\* is rotating it: that would hold the lock, or have made the old token new.
LEMMA RecheckKeeps ==
  ASSUME IInv, NoLockFault, ChainInv, NEW p \in Proc, RefreshRecheck(p), tok[rt[p]] = "active",
         \A q \in Proc \ {p} : Bystander(q)
  PROVE  ChainInv'
<1> USE DEF ChainInv
<1>1. /\ pc[p] = "recheck" /\ pc'[p] = "token.read" /\ mark'[p] = "rotated"
      /\ UNCHANGED <<store, lock, issued, rt, new, seen>>
  BY DEF RefreshRecheck, Goto, IInv, RequestInv, RequestTypeOK, clients
<1>2. rt[p] \in Token /\ rt[p] \in issued /\ Family(p) \in Session
  BY <1>1 DEF IInv, StoreInv, StoreTypeOK, RequestInv, RequestOK, WithToken, Locked, WorksOnIssued, Family
<1>3. rt[p] \in LiveIn(Family(p)) /\ LiveIn(Family(p)) \subseteq {rt[p]}
  BY <1>2 DEF LiveIn, Family, AtMostOne
<1>4. ASSUME NEW q \in Proc \ {p}, Rotating(q), Family(q) = Family(p)
      PROVE  FALSE
  <2>1. CASE InWindow(q)
    BY <1>1, <1>3, <1>4, <2>1 DEF OldIsLast, HoldsLock
  <2>2. CASE InTouch(q)
    BY <1>2, <1>3, <1>4, <2>2 DEF NewIsSecret
  <2> QED BY <1>4, <2>1, <2>2 DEF Rotating
<1>5. /\ \A q \in Proc : Family(q)' = Family(q)
      /\ \A s \in Session : LiveIn(s)' = LiveIn(s)
  BY <1>1 DEF Family, LiveIn, store
<1>6. /\ InWindow(p)' /\ ~InTouch(p)'
      /\ \A q \in Proc \ {p} : (InWindow(q)' <=> InWindow(q)) /\ (InTouch(q)' <=> InTouch(q))
  BY <1>1 DEF Bystander, InWindow, InTouch, Rotated
<1>7. /\ WorksOnIssued(p)' /\ MarkIsFinal(p)' /\ HoldsLock(p)'
      /\ LiveIn(Family(p))' \subseteq {rt'[p]}
      /\ pc'[p] # "rotate.save"
  BY <1>1, <1>2, <1>3, <1>5 DEF WorksOnIssued, MarkIsFinal, HoldsLock, LiveIn, Family, store
<1>8. ASSUME NEW q \in Proc \ {p}
      PROVE  (WorksOnIssued(q) /\ MarkIsFinal(q) /\ HoldsLock(q) /\ OldIsLast(q) /\ NewIsSecret(q))'
  BY <1>1, <1>6 DEF Bystander, WorksOnIssued, MarkIsFinal, HoldsLock, OldIsLast, NewIsSecret, LiveIn, Family, store
<1>9. OneRotation'
  BY <1>4, <1>5, <1>6 DEF OneRotation, Rotating
<1>10. AtMostOne'
  BY <1>5 DEF AtMostOne
<1>11. EndIsFinal'
  <2> SUFFICES ASSUME NEW s \in Session, events'[s] > 0,
                      LiveIn(s)' # {} \/ \E q \in Proc : InWindow(q)' /\ Family(q)' = s
               PROVE  /\ sess'[s] # "active"
                      /\ \A q \in Proc : pc'[q] = "touch.write" /\ Family(q)' = s => seen'[q] # "active"
    BY DEF EndIsFinal
  <2>1. LiveIn(s) # {} \/ \E q \in Proc : InWindow(q) /\ Family(q) = s
    BY <1>3, <1>5, <1>6
  <2>2. /\ sess[s] # "active"
        /\ \A q \in Proc : pc[q] = "touch.write" /\ Family(q) = s => seen[q] # "active"
    BY <1>1, <2>1 DEF EndIsFinal, store
  <2> QED BY <1>1, <1>5, <2>2 DEF Bystander, store
<1> QED BY <1>6, <1>7, <1>8, <1>9, <1>10, <1>11 DEF OldIsLast, NewIsSecret

\* The save of the new token: the window left no live token in the family.
LEMMA RotateSaveKeeps ==
  ASSUME IInv, NoLockFault, ChainInv, NEW p \in Proc, RotateSave(p), \A q \in Proc \ {p} : Bystander(q)
  PROVE  ChainInv'
<1> USE DEF ChainInv
<1>1. PICK t \in FreshToken : /\ tok' = [tok EXCEPT ![t] = "active"]
                              /\ tokSess' = [tokSess EXCEPT ![t] = tokSess[rt[p]]]
                              /\ new'[p] = t
  BY DEF RotateSave, IInv, RequestInv, RequestTypeOK
<1>2. /\ pc[p] = "rotate.save" /\ pc'[p] = "touch.read"
      /\ UNCHANGED <<sess, events, lock, issued, rt, seen, mark>>
  BY DEF RotateSave, Goto, IInv, RequestInv, RequestTypeOK, clients
<1>3. /\ tok \in [Token -> TokenStatus] /\ tokSess \in [Token -> Session \cup {NoSession}]
      /\ NoSession \notin created /\ created \subseteq Session /\ issued \subseteq Token
      /\ \A u \in issued : tokSess[u] \in created
      /\ \A q \in Proc : pc[q] \in WithToken => rt[q] \in Token /\ Family(q) \in created
      /\ \A q \in Proc : InTouch(q) => new[q] \in Token /\ tokSess[new[q]] \in created
  BY SessionAssumption DEF IInv, StoreInv, StoreTypeOK, ServiceInv, ServiceTypeOK, RequestInv, RequestOK, Family, InTouch
<1>4. /\ t \in Token /\ t \notin issued
      /\ \A q \in Proc : pc[q] \in WithToken => rt[q] # t
      /\ \A q \in Proc : InTouch(q) => new[q] # t
  BY <1>3 DEF FreshToken, Family
<1>5. PICK F \in created : /\ F = Family(p) /\ InWindow(p) /\ rt[p] \in Token
                           /\ LiveIn(F) = {}
  BY <1>2, <1>3 DEF InWindow, OldIsLast, LiveIn, WithToken, Locked
<1>6. \A q \in Proc : Rotating(q) \/ pc[q] \in WithToken => pc[q] \in WithToken /\ Family(q)' = Family(q)
  BY <1>1, <1>2, <1>3, <1>4 DEF Family, Rotating, InWindow, InTouch, Rotated, WithToken, Locked
<1>7. /\ tokSess'[t] = F
      /\ LiveIn(F)' = {t}
      /\ \A s \in Session \ {F} : LiveIn(s)' = LiveIn(s)
  <2>1. /\ tok'[t] = "active" /\ tokSess'[t] = F
        /\ \A u \in Token \ {t} : tok'[u] = tok[u] /\ tokSess'[u] = tokSess[u]
    BY <1>1, <1>3, <1>4, <1>5 DEF Family
  <2>2. \A s \in Session \ {F} : t \notin LiveIn(s)
    BY SessionAssumption DEF LiveIn, FreshToken
  <2>3. LiveIn(F)' = {t}
    <3>1. \A u \in Token : ~(tok[u] = "active" /\ tokSess[u] = F)
      BY <1>5 DEF LiveIn
    <3> QED BY <1>4, <2>1, <3>1 DEF LiveIn
  <2>4. ASSUME NEW s \in Session \ {F} PROVE LiveIn(s)' = LiveIn(s)
    <3>1. ~(tok[t] = "active" /\ tokSess[t] = s)
      BY <1>4, <2>2 DEF LiveIn
    <3> QED BY <1>4, <2>1, <3>1 DEF LiveIn
  <2> QED BY <2>1, <2>3, <2>4
<1>8. /\ ~InWindow(p)' /\ InTouch(p)'
      /\ \A q \in Proc \ {p} : (InWindow(q)' <=> InWindow(q)) /\ (InTouch(q)' <=> InTouch(q))
  BY <1>2 DEF Bystander, InWindow, InTouch, Rotated
<1>9. \A q \in Proc \ {p} : Rotating(q) => Family(q) # F
  BY <1>5 DEF OneRotation, Rotating
<1>10. OldIsLast(p)' /\ NewIsSecret(p)' /\ WorksOnIssued(p)' /\ MarkIsFinal(p)' /\ HoldsLock(p)'
  <2>1. Family(p)' = F
    BY <1>5, <1>6 DEF Rotating
  <2> QED BY <1>1, <1>2, <1>4, <1>7, <1>8, <2>1
          DEF OldIsLast, NewIsSecret, WorksOnIssued, MarkIsFinal, HoldsLock, WithToken, Locked
<1>11. ASSUME NEW q \in Proc \ {p}
       PROVE  (WorksOnIssued(q) /\ MarkIsFinal(q) /\ HoldsLock(q) /\ OldIsLast(q) /\ NewIsSecret(q))'
  <2>1. Rotating(q) => Family(q)' = Family(q) /\ LiveIn(Family(q))' = LiveIn(Family(q)) /\ rt[q] # t
    <3> SUFFICES ASSUME Rotating(q) PROVE Family(q)' = Family(q) /\ LiveIn(Family(q))' = LiveIn(Family(q)) /\ rt[q] # t
      OBVIOUS
    <3>1. PICK G \in Session \ {F} : G = Family(q) /\ Family(q)' = G /\ rt[q] # t
      BY <1>3, <1>4, <1>6, <1>9
    <3>2. LiveIn(G)' = LiveIn(G)
      BY <1>7, <3>1
    <3> QED BY <3>1, <3>2
  <2>2. OldIsLast(q)'
    <3>1. pc[q] = "rotate.save" => tok'[rt[q]] # "active"
      BY <1>1, <1>3, <2>1 DEF OldIsLast, InWindow, Rotating, WithToken, Locked
    <3> QED BY <1>8, <2>1, <3>1 DEF OldIsLast, Bystander, Rotating
  <2>3. NewIsSecret(q)'
    <3>1. InTouch(q) => tokSess'[new[q]] = tokSess[new[q]]
      BY <1>1, <1>3, <1>4
    <3> QED BY <1>2, <1>8, <2>1, <3>1 DEF NewIsSecret, Bystander, Rotating
  <2>4. WorksOnIssued(q)' /\ MarkIsFinal(q)' /\ HoldsLock(q)'
    BY <1>2, <1>8 DEF Bystander, WorksOnIssued, MarkIsFinal, HoldsLock
  <2> QED BY <2>2, <2>3, <2>4
<1>12. OneRotation'
  BY <1>5, <1>6, <1>8, <1>9 DEF OneRotation, Rotating
<1>13. AtMostOne'
  <2> SUFFICES ASSUME NEW s \in Session, NEW u \in LiveIn(s)', NEW v \in LiveIn(s)' PROVE u = v
    BY DEF AtMostOne
  <2>1. CASE s = F
    BY <1>7, <2>1
  <2>2. CASE s # F
    <3>1. LiveIn(s)' = LiveIn(s)
      BY <1>7, <2>2
    <3> QED BY <3>1 DEF AtMostOne
  <2> QED BY <2>1, <2>2
<1>14. EndIsFinal'
  <2> SUFFICES ASSUME NEW s \in Session, events'[s] > 0,
                      LiveIn(s)' # {} \/ \E q \in Proc : InWindow(q)' /\ Family(q)' = s
               PROVE  /\ sess'[s] # "active"
                      /\ \A q \in Proc : pc'[q] = "touch.write" /\ Family(q)' = s => seen'[q] # "active"
    BY DEF EndIsFinal
  <2>1. LiveIn(s) # {} \/ \E q \in Proc : InWindow(q) /\ Family(q) = s
    BY <1>5, <1>6, <1>7, <1>8 DEF Rotating
  <2>2. /\ sess[s] # "active"
        /\ \A q \in Proc : pc[q] = "touch.write" /\ Family(q) = s => seen[q] # "active"
    BY <1>2, <2>1 DEF EndIsFinal
  <2>3. \A q \in Proc : pc'[q] = "touch.write" => pc[q] = "touch.write" /\ Family(q)' = Family(q)
    BY <1>2, <1>6 DEF Bystander, WithToken, Locked
  <2> QED BY <1>2, <2>2, <2>3
<1> QED BY <1>10, <1>11, <1>12, <1>13, <1>14

LEMMA RequestKeepsChain ==
  ASSUME IInv, NoLockFault, ChainInv, NEW p \in Proc, Step(p)
  PROVE  ChainInv'
<1> USE DEF ChainInv
<1>0. \A q \in Proc \ {p} : Bystander(q)
  BY LocksKept, OthersStand
<1>1. CASE RotateSave(p)
  BY <1>0, <1>1, RotateSaveKeeps
<1>2. CASE RefreshRecheck(p) /\ tok[rt[p]] = "active"
  BY <1>0, <1>2, RecheckKeeps
<1>3. CASE LoginEstablish(p)
  <2>1. Calm
    <3>1. ver[p] \in Version
      BY DEF IInv, RequestInv, RequestTypeOK
    <3> QED BY <1>3, <3>1, ScriptIsCalm DEF LoginEstablish, store
  <2>2. KeepsPlace(p)
    BY <1>3, ReturnKeepsPlace DEF LoginEstablish
  <2>3. issued \subseteq issued' /\ \A t \in issued' \ issued : tokSess[t] \notin created
    BY <1>3, SessionAssumption
       DEF LoginEstablish, FreshToken, IInv, StoreInv, StoreTypeOK, clients
  <2> QED BY <1>0, <2>1, <2>2, <2>3, CalmStep
<1>4. CASE RefreshDone(p)
  <2>1. Calm
    BY <1>4, ScriptIsCalm DEF RefreshDone
  <2>2. /\ pc[p] = "refresh.done" /\ pc'[p] = "unlock" /\ rt' = rt
        /\ issued' = issued \cup {new[p]} /\ InTouch(p)
    BY <1>4 DEF RefreshDone, Goto, IInv, RequestInv, RequestTypeOK, InTouch, Rotated, locals
  <2>3. KeepsPlace(p)
    BY <2>2 DEF KeepsPlace, InWindow, InTouch, WorksOnIssued, MarkIsFinal, HoldsLock, WithToken, Locked, Rotated
  <2> QED BY <1>0, <2>1, <2>2, <2>3, CalmStep
<1>5. CASE TokenWrite(p) \/ TouchWrite(p)
  <2>1. mark[p] \in TokenStatus \ {"active"} \/ TouchWrite(p)
    BY <1>5 DEF TokenWrite, MarkIsFinal, TokenStatus
  <2>2. rt[p] \in Token /\ pc[p] \in WithToken /\ Family(p) \in created
    BY <1>5 DEF TokenWrite, TouchWrite, IInv, RequestInv, RequestOK, WithToken, Locked, Family
  <2>3. Calm
    BY <1>5, <2>1, <2>2, WriteIsCalm DEF TokenWrite
  <2>4. KeepsPlace(p)
    <3>1. CASE TokenWrite(p)
      <4>1. tok'[rt[p]] = mark[p]
        BY <2>2, <3>1 DEF TokenWrite, IInv, StoreInv, StoreTypeOK
      <4> QED BY <2>2, <3>1, <4>1, GotoKeepsPlace
              DEF TokenWrite, AfterMark, MarkIsFinal, Label, WithToken, Locked, Rotated, InWindow, clients, locals
    <3>2. CASE TouchWrite(p)
      BY <2>2, <3>2, GotoKeepsPlace
         DEF TouchWrite, Label, WithToken, Locked, Rotated, InTouch, clients, locals
    <3> QED BY <1>5, <3>1, <3>2
  <2>5. issued' = issued
    BY <1>5 DEF TokenWrite, TouchWrite, clients
  <2> QED BY <1>0, <2>3, <2>4, <2>5, CalmStep
<1>6. CASE \/ RefreshReplay(p) \/ LogoutTokenSession(p) \/ RevokeAllScript(p) \/ RevokeAllDropCache(p)
           \/ \E s \in Session, t \in issued \cup {NoToken} : LogoutAccess(p, s, t)
  <2>1. tokSess[rt[p]] \in Session \/ ~(RefreshReplay(p) \/ LogoutTokenSession(p))
    BY DEF RefreshReplay, LogoutTokenSession, IInv, RequestInv, RequestOK, WithToken, Locked, StoreInv, StoreTypeOK
  <2>2. Calm
    BY <1>6, <2>1, ScriptIsCalm
       DEF RefreshReplay, LogoutTokenSession, RevokeAllScript, RevokeAllDropCache, LogoutAccess, Ended
  <2>3. KeepsPlace(p)
    <3>1. CASE RefreshReplay(p) \/ RevokeAllScript(p)
      BY <3>1, GotoKeepsPlace
         DEF RefreshReplay, RevokeAllScript, Label, WithToken, Locked, Rotated, clients, locals
    <3>2. CASE LogoutTokenSession(p) \/ RevokeAllDropCache(p)
      BY <3>2, ReturnKeepsPlace DEF LogoutTokenSession, RevokeAllDropCache
    <3>3. ASSUME NEW s \in Session, NEW t \in issued \cup {NoToken}, LogoutAccess(p, s, t)
          PROVE  KeepsPlace(p)
      BY <3>3 DEF LogoutAccess, Goto, KeepsPlace, InWindow, InTouch, WorksOnIssued, MarkIsFinal, HoldsLock,
                  WithToken, Locked, Rotated, clients, IInv, RequestInv, RequestTypeOK
    <3> QED BY <1>6, <3>1, <3>2, <3>3
  <2>4. issued' = issued
    BY <1>6 DEF RefreshReplay, LogoutTokenSession, RevokeAllScript, RevokeAllDropCache, LogoutAccess, clients
  <2> QED BY <1>0, <2>2, <2>3, <2>4, CalmStep
<1>7. CASE \/ LoginReadUser(p) \/ RefreshReadSession(p) \/ RefreshReadUser(p) \/ RefreshLock(p)
           \/ (RefreshRecheck(p) /\ tok[rt[p]] # "active")
           \/ TokenRead(p) \/ TouchRead(p) \/ RefreshUnlock(p)
           \/ LogoutReadToken(p) \/ ChangePassword(p) \/ StepFails(p) \/ Crash(p)
           \/ \E t \in issued : RefreshReadToken(p, t) \/ LogoutRefreshOnly(p, t)
  <2>1. UNCHANGED store /\ issued' = issued
    BY <1>7 DEF LoginReadUser, RefreshReadSession, RefreshReadUser, RefreshLock, RefreshRecheck, TokenRead,
         TouchRead, RefreshUnlock, LogoutReadToken, ChangePassword, StepFails, Crash, RefreshReadToken,
         LogoutRefreshOnly, clients
  <2>2. Calm
    BY <2>1, ScriptIsCalm
  <2> USE DEF Label, WithToken, Locked, Rotated
  <2>3. KeepsPlace(p)
    <3> USE DEF IInv, RequestInv, RequestTypeOK
    <3>1. CASE LoginReadUser(p) \/ ChangePassword(p)
      BY <2>1, <3>1, GotoKeepsPlace DEF LoginReadUser, ChangePassword
    <3>2. CASE RefreshReadSession(p) \/ RefreshReadUser(p) \/ (RefreshRecheck(p) /\ tok[rt[p]] # "active")
               \/ StepFails(p)
      BY <2>1, <3>2, GotoKeepsPlace, ReturnKeepsPlace
         DEF RefreshReadSession, RefreshReadUser, RefreshRecheck, StepFails, locals
    <3>3. CASE RefreshLock(p)
      <4>1. CASE lock[rt[p]] # Free
        BY <3>3, <4>1, ReturnKeepsPlace DEF RefreshLock, NoLockFault
      <4>2. CASE lock[rt[p]] = Free
        <5>1. /\ pc[p] = "refresh.lock" /\ pc'[p] = "recheck" /\ rt' = rt /\ lock'[rt[p]] = p
          BY <3>3, <4>2 DEF RefreshLock, Goto, RequestOK, locals, NoLockFault, ServiceInv, ServiceTypeOK
        <5> QED BY <2>1, <5>1 DEF KeepsPlace, InWindow, InTouch, WorksOnIssued, MarkIsFinal, HoldsLock
      <4> QED BY <4>1, <4>2
    <3>4. CASE TokenRead(p)
      <4>1. tok'[rt[p]] = tok[rt[p]]
        BY <2>1 DEF store
      <4> QED BY <2>1, <3>4, <4>1, GotoKeepsPlace DEF TokenRead, AfterMark, MarkIsFinal, InWindow, locals
    <3>5. CASE TouchRead(p)
      BY <2>1, <3>5 DEF TouchRead, Goto, KeepsPlace, InWindow, InTouch, WorksOnIssued, MarkIsFinal, HoldsLock,
                        NewIsSecret, Family
    <3>6. CASE RefreshUnlock(p) \/ Crash(p)
      BY <3>6, ReturnKeepsPlace DEF RefreshUnlock, Crash
    <3>7. CASE LogoutReadToken(p)
      <4>1. CASE tok[rt[p]] # "active"
        BY <3>7, <4>1, ReturnKeepsPlace DEF LogoutReadToken
      <4>2. CASE tok[rt[p]] = "active"
        BY <2>1, <3>7, <4>2 DEF LogoutReadToken, Goto, KeepsPlace, InWindow, InTouch, WorksOnIssued,
                                MarkIsFinal, HoldsLock
      <4> QED BY <4>1, <4>2
    <3>8. ASSUME NEW t \in issued, RefreshReadToken(p, t) \/ LogoutRefreshOnly(p, t)
          PROVE  KeepsPlace(p)
      BY <2>1, <3>8 DEF RefreshReadToken, LogoutRefreshOnly, Goto, KeepsPlace, InWindow, InTouch, WorksOnIssued,
                        MarkIsFinal, HoldsLock
    <3> QED BY <1>7, <3>1, <3>2, <3>3, <3>4, <3>5, <3>6, <3>7, <3>8
  <2> QED BY <1>0, <2>1, <2>2, <2>3, CalmStep
<1> QED BY <1>1, <1>2, <1>3, <1>4, <1>5, <1>6, <1>7 DEF Step

LEMMA ExpiryKeepsChain ==
  ASSUME IInv, NoLockFault, ChainInv, Expiry
  PROVE  ChainInv'
<1>1. UNCHANGED <<pc, locals>> /\ issued' = issued
  BY DEF Expiry, LockExpires, TokenExpires, SessionExpires, IndexExpires, clients
<1>2. \A q \in Proc, t \in Token : lock[t] = q => lock'[t] = q
  BY SessionAssumption
     DEF Expiry, LockExpires, TokenExpires, SessionExpires, IndexExpires, NoLockFault, IInv, ServiceInv, ServiceTypeOK
<1>3. \A q \in Proc : Bystander(q)
  BY <1>1, <1>2 DEF Bystander, locals
<1>4. Calm
  <2>1. ASSUME NEW t \in Token, TokenExpires(t) PROVE Calm
    BY <2>1, WriteIsCalm DEF TokenExpires, TokenStatus
  <2>2. ASSUME NEW t \in Token, LockExpires(t) PROVE Calm
    BY <2>2, ScriptIsCalm DEF LockExpires
  <2>3. CASE (\E s \in Session : SessionExpires(s)) \/ IndexExpires
    BY <2>3, WriteIsCalm
  <2> QED BY <2>1, <2>2, <2>3 DEF Expiry
<1>5. \A q \in Proc : KeepsPlace(q)
  BY <1>1, <1>3, <1>4, BystanderKeeps
<1> QED BY <1>4, <1>5, CalmKeeps

LEMMA ChainSame ==
  ASSUME ChainInv, UNCHANGED vars
  PROVE  ChainInv'
BY DEF ChainInv, WorksOnIssued, MarkIsFinal, HoldsLock, OldIsLast, NewIsSecret, OneRotation, AtMostOne, EndIsFinal,
       InWindow, InTouch, Rotating, Family, LiveIn, vars, store, clients, locals

LEMMA ChainNext == NoLockFault /\ IInv /\ ChainInv /\ [Next]_vars => ChainInv'
<1> SUFFICES ASSUME NoLockFault, IInv, ChainInv, [Next]_vars PROVE ChainInv'
  OBVIOUS
<1> QED BY RequestKeepsChain, ExpiryKeepsChain, ChainSame DEF Next

LEMMA ChainInit == Init => ChainInv
<1> SUFFICES ASSUME Init PROVE ChainInv
  OBVIOUS
<1> USE SessionAssumption
<1>1. /\ \A p \in Proc : pc[p] = "idle"
      /\ \A s \in Session : events[s] = 0
  BY DEF Init
<1>2. \A t \in Token : tok[t] = "active" => tokSess[t] \in Legacy /\ LegacyToken[tokSess[t]] = t
  <2> SUFFICES ASSUME NEW t \in Token, tok[t] = "active"
               PROVE  tokSess[t] \in Legacy /\ LegacyToken[tokSess[t]] = t
    OBVIOUS
  <2>1. \E s \in Legacy : LegacyToken[s] = t
    BY DEF Init
  <2>2. tokSess[t] = CHOOSE s \in Legacy : LegacyToken[s] = t
    BY <2>1 DEF Init
  <2> QED BY <2>1, <2>2
<1>3. AtMostOne
  BY <1>2 DEF AtMostOne, LiveIn
<1> QED BY <1>1, <1>3 DEF ChainInv, WorksOnIssued, MarkIsFinal, HoldsLock, OldIsLast, NewIsSecret, OneRotation,
               EndIsFinal, InWindow, InTouch, Rotating, WithToken, Locked, Rotated

\* ChainInv is an invariant of the deployments without lock faults.
THEOREM ChainInvariance == NoLockFault => (Spec => []ChainInv)
<1> SUFFICES ASSUME NoLockFault PROVE Spec => []ChainInv
  OBVIOUS
<1>1. IInv /\ ChainInv /\ [Next]_vars => ChainInv'
  BY ChainNext
<1> QED BY <1>1, ChainInit, Invariance, PTL DEF Spec

-----------------------------------------------------------------------------
\* No interleaving of refreshes, replays, logouts and logins forks a rotation
\* chain: a session has one live refresh token, whatever fails or crashes, as
\* long as no request outlives the 5 s lock or is let in without it.
THEOREM OneTokenLives == NoLockFault => (Spec => []OneLiveToken)
<1> SUFFICES ASSUME NoLockFault PROVE Spec => []OneLiveToken
  OBVIOUS
<1>1. IInv /\ ChainInv => OneLiveToken
  <2> SUFFICES ASSUME IInv, ChainInv, NEW t \in Token, NEW u \in Token,
                      tok[t] = "active", tok[u] = "active", tokSess[t] = tokSess[u]
               PROVE  t = u
    BY DEF OneLiveToken
  <2>1. tokSess[t] \in Session
    BY DEF IInv, StoreInv, CreatedFirst, StoreTypeOK
  <2> QED BY <2>1 DEF ChainInv, AtMostOne, LiveIn
<1> QED BY <1>1, ChainInvariance, Invariance, PTL

\* Under the same assumption no live refresh token is left of a session that
\* was announced as ended and whose record a late TouchSession made active.
THEOREM EndStopsRefresh == NoLockFault => (Spec => []NoRefreshAfterEnd)
<1> SUFFICES ASSUME NoLockFault PROVE Spec => []NoRefreshAfterEnd
  OBVIOUS
<1>1. ChainInv => NoRefreshAfterEnd
  BY DEF ChainInv, EndIsFinal, LiveIn, NoRefreshAfterEnd
<1> QED BY <1>1, ChainInvariance, PTL

-----------------------------------------------------------------------------
\* What a revocation of the user leaves behind.

\* The script runs, at the end of a password change or by itself.
RevokesAll == \E p \in Proc : pc'[p] = "revoke.cache" /\ pc[p] # "revoke.cache"

\* No key lapses while a request is at work on what it held.
NoExpiry == "expiry" \notin Faults

\* A session that was created has a record, and is in the index until its end was announced.
IndexInv == \A s \in created : sess[s] # "none" /\ (s \in userSessions \/ events[s] > 0)

LEMMA ScriptKeepsIndex ==
  ASSUME StoreInv, IndexInv,
         \/ \E s \in Session \ created, t \in FreshToken, version \in Version : LoginReplace(s, t, version)
         \/ \E s \in Session, status \in Ended : RevokeSession(s, status)
         \/ RevokeUser
         \/ UNCHANGED <<created, userSessions, events, sess>>
  PROVE  IndexInv'
<1> USE DEF IndexInv
<1>1. created \subseteq Session /\ userSessions \subseteq Session /\ events \in [Session -> Nat]
      /\ sess \in [Session -> SessionStatus]
  BY DEF StoreInv, StoreTypeOK
<1>2. ASSUME NEW s \in Session \ created, NEW t \in FreshToken, NEW version \in Version,
             LoginReplace(s, t, version)
      PROVE  IndexInv'
  <2> SUFFICES ASSUME NEW x \in created'
               PROVE  sess'[x] # "none" /\ (x \in userSessions' \/ events'[x] > 0)
    OBVIOUS
  <2>1. CASE x = s
    BY <1>1, <1>2, <2>1 DEF LoginReplace
  <2>2. CASE x # s
    <3>1. x \in created /\ x \in Session /\ events[x] \in Nat
      BY <1>1, <1>2, <2>2 DEF LoginReplace
    <3>2. sess'[x] # "none"
      BY <1>2, <2>2, <3>1 DEF LoginReplace
    <3>3. CASE x \in userSessions /\ sess[x] = "active"
      BY <1>2, <3>1, <3>3 DEF LoginReplace, Indexed
    <3>4. CASE x \in userSessions /\ sess[x] # "active"
      <4>1. events[x] > 0
        BY <1>1, <3>1, <3>4 DEF StoreInv, EndedIsTold, SessionStatus
      <4> QED BY <1>2, <3>1, <3>2, <4>1 DEF LoginReplace
    <3>5. CASE x \notin userSessions
      BY <1>2, <3>1, <3>2, <3>5 DEF LoginReplace
    <3> QED BY <3>2, <3>3, <3>4, <3>5
  <2> QED BY <2>1, <2>2
<1>3. ASSUME NEW s \in Session, NEW status \in Ended, RevokeSession(s, status)
      PROVE  IndexInv'
  BY <1>1, <1>3 DEF RevokeSession, End, Ended, store
<1>4. CASE RevokeUser
  BY <1>1, <1>4 DEF RevokeUser, End
<1> QED BY <1>2, <1>3, <1>4

\* The write of a TouchSession restores no record that is gone.
LEMMA RequestKeepsIndex ==
  ASSUME IInv, IndexInv, NEW p \in Proc, Step(p)
  PROVE  IndexInv'
<1>0. StoreInv
  BY DEF IInv
<1>1. CASE LoginEstablish(p)
  <2>1. ver[p] \in Version
    BY DEF IInv, RequestInv, RequestTypeOK
  <2> QED BY <1>0, <1>1, <2>1, ScriptKeepsIndex DEF LoginEstablish, store
<1>2. CASE RefreshReplay(p) \/ LogoutTokenSession(p)
  <2>1. tokSess[rt[p]] \in Session
    BY <1>2 DEF RefreshReplay, LogoutTokenSession, IInv, RequestInv, RequestOK, WithToken, Locked, StoreInv, StoreTypeOK
  <2> QED BY <1>0, <1>2, <2>1, ScriptKeepsIndex DEF RefreshReplay, LogoutTokenSession, Ended, store
<1>3. ASSUME NEW s \in Session, NEW t \in issued \cup {NoToken}, LogoutAccess(p, s, t)
      PROVE  IndexInv'
  BY <1>0, <1>3, ScriptKeepsIndex DEF LogoutAccess, Ended, store
<1>4. CASE RevokeAllScript(p)
  BY <1>0, <1>4, ScriptKeepsIndex DEF RevokeAllScript
<1>5. CASE TouchWrite(p)
  <2>1. seen[p] # "none"
    BY <1>5 DEF TouchWrite, IInv, RequestInv, RequestOK
  <2>2. created \subseteq Session /\ sess \in [Session -> SessionStatus]
    BY <1>0 DEF StoreInv, StoreTypeOK
  <2> QED BY <1>5, <2>1, <2>2 DEF TouchWrite, IndexInv
<1>6. CASE \/ LoginReadUser(p) \/ RefreshReadSession(p) \/ RefreshReadUser(p) \/ RefreshLock(p)
           \/ RefreshRecheck(p) \/ TokenRead(p) \/ TokenWrite(p) \/ RotateSave(p) \/ TouchRead(p)
           \/ RefreshDone(p) \/ RefreshUnlock(p)
           \/ LogoutReadToken(p) \/ ChangePassword(p) \/ RevokeAllDropCache(p) \/ StepFails(p) \/ Crash(p)
           \/ \E t \in issued : RefreshReadToken(p, t) \/ LogoutRefreshOnly(p, t)
  <2>1. UNCHANGED <<created, userSessions, events, sess>>
    BY <1>6 DEF LoginReadUser, RefreshReadSession, RefreshReadUser, RefreshLock, RefreshRecheck, TokenRead,
         TokenWrite, RotateSave, TouchRead, RefreshDone, RefreshUnlock, LogoutReadToken,
         ChangePassword, RevokeAllDropCache, StepFails, Crash, RefreshReadToken, LogoutRefreshOnly, store
  <2> QED BY <1>0, <2>1, ScriptKeepsIndex
<1> QED BY <1>1, <1>2, <1>3, <1>4, <1>5, <1>6 DEF Step

LEMMA IndexInvariance == NoExpiry => (Spec => []IndexInv)
<1> SUFFICES ASSUME NoExpiry PROVE Spec => []IndexInv
  OBVIOUS
<1>1. Init => IndexInv
  BY SessionAssumption DEF Init, IndexInv
<1>2. IInv /\ IndexInv /\ [Next]_vars => IndexInv'
  <2> SUFFICES ASSUME IInv, IndexInv, [Next]_vars PROVE IndexInv'
    OBVIOUS
  <2>1. StoreInv
    BY DEF IInv
  <2>2. ASSUME NEW p \in Proc, Step(p) PROVE IndexInv'
    BY <2>2, RequestKeepsIndex
  <2>3. CASE Expiry
    <3>1. UNCHANGED <<created, userSessions, events, sess>>
      BY <2>3 DEF Expiry, LockExpires, TokenExpires, SessionExpires, IndexExpires, NoExpiry, store
    <3> QED BY <2>1, <3>1, ScriptKeepsIndex
  <2>4. CASE UNCHANGED vars
    BY <2>1, <2>4, ScriptKeepsIndex DEF vars, store
  <2> QED BY <2>2, <2>3, <2>4 DEF Next
<1> QED BY <1>1, <1>2, Invariance, PTL DEF Spec

\* The step of a request that runs the script, and what it finds.
LEMMA RevokeAllFinds ==
  ASSUME IInv, IndexInv, [Next]_vars, RevokesAll
  PROVE  \A s \in Session : sess'[s] = "active" => events'[s] > 0
<1>1. PICK p \in Proc : pc'[p] = "revoke.cache" /\ pc[p] # "revoke.cache"
  BY DEF RevokesAll
<1>2. pc \in [Proc -> Label]
  BY DEF IInv, RequestInv, RequestTypeOK
<1>3. ASSUME NEW q \in Proc, Step(q) PROVE RevokeUser
  <2> USE <1>1, <1>2, <1>3
  <2>1. q = p /\ RevokeAllScript(p)
    BY DEF Step, LoginReadUser, LoginEstablish, RefreshReadToken, LogoutRefreshOnly, RefreshReadSession,
         RefreshReadUser, RefreshLock, RefreshRecheck, TokenRead, AfterMark, TokenWrite, RotateSave, TouchRead,
         TouchWrite, RefreshDone, RefreshReplay, RefreshUnlock, LogoutAccess, LogoutReadToken, LogoutTokenSession,
         ChangePassword, RevokeAllScript, RevokeAllDropCache, StepFails, Crash, Goto, Return, locals
  <2> QED BY <2>1 DEF RevokeAllScript
<1>4. RevokeUser
  <2>1. Expiry \/ UNCHANGED vars => pc' = pc
    BY DEF Expiry, LockExpires, TokenExpires, SessionExpires, IndexExpires, vars
  <2> QED BY <1>1, <1>3, <2>1 DEF Next
<1>5. /\ sess \in [Session -> SessionStatus] /\ events \in [Session -> Nat]
      /\ \A s \in Session : sess[s] # "none" => s \in created
  BY DEF IInv, StoreInv, StoreTypeOK, CreatedFirst
<1>6. ASSUME NEW s \in Session, sess'[s] = "active" PROVE events'[s] > 0
  <2>1. sess[s] = "active" /\ s \notin Indexed
    BY <1>4, <1>5, <1>6 DEF RevokeUser, End
  <2>2. s \in created /\ s \notin userSessions
    BY <1>5, <2>1 DEF Indexed
  <2>3. events[s] > 0 /\ events'[s] = events[s]
    BY <1>4, <1>5, <2>1, <2>2 DEF IndexInv, RevokeUser, End
  <2> QED BY <2>3
<1> QED BY <1>6

\* The promise of session_lua.go:152 fails (RevokeAllLeavesNoneActive), but only for sessions
\* of whose end the gateway was told before: no other session is active after a revocation.
THEOREM RevokeAllLeavesOnlyTold ==
  NoExpiry => (Spec => [][RevokesAll => \A s \in Session : sess'[s] = "active" => events'[s] > 0]_vars)
<1> SUFFICES ASSUME NoExpiry
             PROVE  Spec => [][RevokesAll => \A s \in Session : sess'[s] = "active" => events'[s] > 0]_vars
  OBVIOUS
<1>1. IInv /\ IndexInv /\ [Next]_vars =>
        [RevokesAll => \A s \in Session : sess'[s] = "active" => events'[s] > 0]_vars
  BY RevokeAllFinds
<1> QED BY <1>1, IndexInvariance, Invariance, PTL DEF Spec

\* And such a session is of no use to a client: a revocation of the user leaves no live
\* refresh token of a session whose record is active, whatever refreshes it overtakes.
THEOREM RevokeAllLeavesNoneUsable ==
  NoExpiry /\ NoLockFault =>
    (Spec => [][RevokesAll => \A t \in Token, s \in Session :
                                tok'[t] = "active" /\ tokSess'[t] = s => sess'[s] # "active"]_vars)
<1> SUFFICES ASSUME NoExpiry, NoLockFault
             PROVE  Spec => [][RevokesAll => \A t \in Token, s \in Session :
                                 tok'[t] = "active" /\ tokSess'[t] = s => sess'[s] # "active"]_vars
  OBVIOUS
<1>1. IInv /\ IndexInv /\ NoRefreshAfterEnd' /\ [Next]_vars =>
        [RevokesAll => \A t \in Token, s \in Session :
                         tok'[t] = "active" /\ tokSess'[t] = s => sess'[s] # "active"]_vars
  BY RevokeAllFinds DEF NoRefreshAfterEnd
<1> QED BY <1>1, IndexInvariance, Invariance, EndStopsRefresh, PTL DEF Spec

-----------------------------------------------------------------------------
\* What becomes of a rotation.

\* The token counts as rotated, and neither has a successor nor is going to have one.
Lost(t) ==
  /\ tok[t] = "rotated"
  /\ \A u \in Token : parent[u] # t
  /\ \A p \in Proc : rt[p] = t => pc[p] # "rotate.save"

\* A token that nobody has been given has no parent.
FreshInv == \A u \in Token : tokSess[u] = NoSession => parent[u] = NoToken

LEMMA FreshKept ==
  ASSUME IInv, FreshInv, [Next]_vars
  PROVE  FreshInv' /\ \A u, t \in Token : parent[u] = t => parent'[u] = t
<1> USE SessionAssumption DEF FreshInv
<1>1. /\ parent \in [Token -> Token \cup {NoToken}] /\ tokSess \in [Token -> Session \cup {NoSession}]
      /\ created \subseteq Session
  BY DEF IInv, StoreInv, StoreTypeOK
<1>2. ASSUME NEW p \in Proc, RotateSave(p)
      PROVE  FreshInv' /\ \A u, t \in Token : parent[u] = t => parent'[u] = t
  <2>1. tokSess[rt[p]] # NoSession
    BY <1>1, <1>2 DEF RotateSave, IInv, RequestInv, RequestOK, WithToken, Locked
  <2>2. PICK n \in FreshToken : /\ tokSess' = [tokSess EXCEPT ![n] = tokSess[rt[p]]]
                                /\ parent' = [parent EXCEPT ![n] = rt[p]]
    BY <1>2 DEF RotateSave
  <2>3. n \in Token /\ parent[n] = NoToken
    BY <2>2 DEF FreshToken
  <2> QED BY <1>1, <2>1, <2>2, <2>3
<1>3. ASSUME NEW s \in Session, NEW t \in FreshToken, NEW version \in Version, LoginReplace(s, t, version)
      PROVE  FreshInv' /\ parent' = parent
  BY <1>1, <1>3 DEF LoginReplace, FreshToken
<1>4. CASE \E p \in Proc : LoginEstablish(p)
  <2>1. PICK p \in Proc : LoginEstablish(p)
    BY <1>4
  <2>2. ver[p] \in Version
    BY DEF IInv, RequestInv, RequestTypeOK
  <2> QED BY <1>3, <2>1, <2>2 DEF LoginEstablish, store
<1>5. ASSUME NEW p \in Proc, Step(p), ~LoginEstablish(p), ~RotateSave(p)
      PROVE  UNCHANGED <<parent, tokSess>>
  BY <1>5 DEF Step, LoginReadUser, RefreshReadToken, LogoutRefreshOnly, RefreshReadSession,
       RefreshReadUser, RefreshLock, RefreshRecheck, TokenRead, TokenWrite, TouchRead,
       TouchWrite, RefreshDone, RefreshReplay, RefreshUnlock, LogoutAccess, LogoutReadToken, LogoutTokenSession,
       ChangePassword, RevokeAllScript, RevokeAllDropCache, StepFails, Crash, RevokeSession, RevokeUser, End, store
<1>6. Expiry \/ UNCHANGED vars => UNCHANGED <<parent, tokSess>>
  BY DEF Expiry, LockExpires, TokenExpires, SessionExpires, IndexExpires, vars, store
<1> QED BY <1>2, <1>4, <1>5, <1>6 DEF Next

LEMMA FreshInvariance == Spec => []FreshInv
<1>1. Init => FreshInv
  BY DEF Init, FreshInv
<1>2. IInv /\ FreshInv /\ [Next]_vars => FreshInv'
  BY FreshKept
<1> QED BY <1>1, <1>2, Invariance, PTL DEF Spec

\* Only the request that saves the successor may mark a token as rotated, and goes on to save it.
LEMMA MarkedByRotation ==
  ASSUME IInv, [Next]_vars, NEW t \in Token, tok[t] # "rotated", tok'[t] = "rotated"
  PROVE  \E p \in Proc : rt'[p] = t /\ pc'[p] = "rotate.save"
<1>1. tok \in [Token -> TokenStatus] /\ pc \in [Proc -> Label]
  BY DEF IInv, StoreInv, StoreTypeOK, RequestInv, RequestTypeOK
<1>2. ASSUME NEW p \in Proc, TokenWrite(p) PROVE rt'[p] = t /\ pc'[p] = "rotate.save"
  <2>1. rt[p] = t /\ mark[p] = "rotated"
    BY <1>1, <1>2 DEF TokenWrite
  <2> QED BY <1>1, <1>2, <2>1 DEF TokenWrite, AfterMark, Goto, locals
<1>3. RevokeUser => FALSE
  BY <1>1 DEF RevokeUser, RevokeFamilies
<1>4. ASSUME NEW s, NEW status, RevokeSession(s, status) PROVE FALSE
  BY <1>1, <1>4 DEF RevokeSession, RevokeFamilies, store
<1>5. ASSUME NEW p \in Proc, RotateSave(p) \/ LoginEstablish(p) PROVE FALSE
  BY <1>1, <1>5 DEF RotateSave, LoginEstablish, LoginReplace, RevokeFamilies, FreshToken, store
<1>6. ASSUME NEW p \in Proc, Step(p), ~TokenWrite(p), ~RotateSave(p), ~LoginEstablish(p) PROVE tok' = tok
  BY <1>3, <1>4, <1>6 DEF Step, LoginReadUser, RefreshReadToken, LogoutRefreshOnly, RefreshReadSession,
       RefreshReadUser, RefreshLock, RefreshRecheck, TokenRead, TouchRead,
       TouchWrite, RefreshDone, RefreshReplay, RefreshUnlock, LogoutAccess, LogoutReadToken, LogoutTokenSession,
       ChangePassword, RevokeAllScript, RevokeAllDropCache, StepFails, Crash, store
<1>7. CASE Expiry
  BY <1>1, <1>7 DEF Expiry, LockExpires, TokenExpires, SessionExpires, IndexExpires, store
<1>8. UNCHANGED vars => tok' = tok
  BY DEF vars, store
<1> QED BY <1>2, <1>5, <1>6, <1>7, <1>8 DEF Next

\* A request that was about to save a successor saves it, unless the call fails or it dies.
LEMMA SaveOrGiveUp ==
  ASSUME IInv, [Next]_vars, NEW p \in Proc, pc[p] = "rotate.save"
  PROVE  \/ pc'[p] = "rotate.save" /\ rt'[p] = rt[p]
         \/ \E u \in Token : parent'[u] = rt[p]
         \/ StepFails(p) \/ Crash(p)
<1>1. /\ pc \in [Proc -> Label] /\ rt \in [Proc -> Token \cup {NoToken}]
      /\ parent \in [Token -> Token \cup {NoToken}]
  BY DEF IInv, StoreInv, StoreTypeOK, RequestInv, RequestTypeOK
<1>2. CASE RotateSave(p)
  BY <1>1, <1>2 DEF RotateSave, FreshToken
<1>3. CASE Step(p) /\ ~RotateSave(p)
  BY <1>3 DEF Step, LoginReadUser, LoginEstablish, RefreshReadToken, LogoutRefreshOnly, RefreshReadSession,
       RefreshReadUser, RefreshLock, RefreshRecheck, TokenRead, TokenWrite, TouchRead,
       TouchWrite, RefreshDone, RefreshReplay, RefreshUnlock, LogoutAccess, LogoutReadToken, LogoutTokenSession,
       ChangePassword, RevokeAllScript, RevokeAllDropCache
<1>4. ASSUME NEW q \in Proc, q # p, Step(q) PROVE pc'[p] = pc[p] /\ rt'[p] = rt[p]
  BY <1>1, <1>4 DEF Step, LoginReadUser, LoginEstablish, RefreshReadToken, LogoutRefreshOnly,
       RefreshReadSession, RefreshReadUser, RefreshLock, RefreshRecheck, TokenRead, TokenWrite, RotateSave, TouchRead,
       TouchWrite, RefreshDone, RefreshReplay, RefreshUnlock, LogoutAccess, LogoutReadToken, LogoutTokenSession,
       ChangePassword, RevokeAllScript, RevokeAllDropCache, StepFails, Crash, Goto, Return, locals
<1>5. Expiry \/ UNCHANGED vars => pc' = pc /\ rt' = rt
  BY DEF Expiry, LockExpires, TokenExpires, SessionExpires, IndexExpires, vars, locals
<1> QED BY <1>2, <1>3, <1>4, <1>5 DEF Next

\* The promise of session_service.go:24 fails (RotatedHasSuccessor), but only at one call: a
\* token is left rotated without a successor by a request that fails or dies when it comes to
\* save the successor; no race of refreshes, logouts, replays and expiry does it.
THEOREM RotationIsLostAtSave ==
  Spec => [][\A t \in Token : Lost(t)' /\ ~Lost(t) =>
               \E p \in Proc : rt[p] = t /\ pc[p] = "rotate.save" /\ (StepFails(p) \/ Crash(p))]_vars
<1>1. ASSUME IInv, FreshInv, [Next]_vars, NEW t \in Token, Lost(t)', ~Lost(t)
      PROVE  \E p \in Proc : rt[p] = t /\ pc[p] = "rotate.save" /\ (StepFails(p) \/ Crash(p))
  <2>1. tok[t] = "rotated"
    BY <1>1, MarkedByRotation DEF Lost
  <2>2. \A u \in Token : parent[u] # t
    BY <1>1, FreshKept DEF Lost
  <2>3. PICK p \in Proc : rt[p] = t /\ pc[p] = "rotate.save"
    BY <1>1, <2>1, <2>2 DEF Lost
  <2>4. StepFails(p) \/ Crash(p)
    BY <1>1, <2>3, SaveOrGiveUp DEF Lost
  <2> QED BY <2>3, <2>4
<1>2. IInv /\ FreshInv /\ [Next]_vars =>
        [\A t \in Token : Lost(t)' /\ ~Lost(t) =>
           \E p \in Proc : rt[p] = t /\ pc[p] = "rotate.save" /\ (StepFails(p) \/ Crash(p))]_vars
  BY <1>1
<1> QED BY <1>2, FreshInvariance, Invariance, PTL DEF Spec

=============================================================================
