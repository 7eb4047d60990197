-------------------------- MODULE LoginGuardProofs --------------------------
(***************************************************************************)
(* Proofs about LoginGuard, for every limit, every finite set of           *)
(* concurrent requests and every combination of failing calls.             *)
(*                                                                         *)
(* The guard only restricts when a login may start: GuardSpec implements   *)
(* Spec, and what SsoSessionProofs shows of Spec holds behind the guard.   *)
(* Of its own state, CountInv bounds a counter together with the requests  *)
(* that have passed it and may still add to it.                            *)
(***************************************************************************)
EXTENDS LoginGuard, SsoSessionProofs, FiniteSetTheorems

\* A request is either with the guard or under way.
OneAtATime == \A p \in Proc : pc[p] = "idle" \/ gate[p] = "idle"

GuardInv == IInv /\ GuardTypeOK /\ OneAtATime

\* The requests that have passed the check of a counter and not added to it.
Pending(k) ==
  {p \in Proc :
     gate[p] \in IF k = "account"
                 THEN {"check.ip", "passed", "count.account"}
                 ELSE {"passed", "count.account", "deadline.account", "count.ip"}}

CountInv == \A k \in Counter : failures[k] + Cardinality(Pending(k)) < Limit[k] + Cardinality(Proc) + waived

\* What the guard sees of a step of the request proper.
LEMMA StepKeepsOthers ==
  ASSUME RequestTypeOK, NEW p \in Proc, Step(p)
  PROVE  /\ \A q \in Proc \ {p} : pc'[q] = pc[q]
         /\ pc[p] = "login.establish" => pc'[p] = "idle"
<1> USE DEF RequestTypeOK, Return, Goto
<1>1. CASE \/ LoginReadUser(p) \/ LoginEstablish(p)
           \/ \E t \in issued : RefreshReadToken(p, t) \/ LogoutRefreshOnly(p, t)
           \/ RefreshReadSession(p) \/ RefreshReadUser(p) \/ RefreshLock(p) \/ RefreshRecheck(p)
  BY <1>1 DEF LoginReadUser, LoginEstablish, RefreshReadToken, LogoutRefreshOnly,
              RefreshReadSession, RefreshReadUser, RefreshLock, RefreshRecheck
<1>2. CASE \/ TokenRead(p) \/ TokenWrite(p)
           \/ RotateSave(p) \/ TouchRead(p) \/ TouchWrite(p) \/ RefreshDone(p)
           \/ RefreshReplay(p) \/ RefreshUnlock(p)
  <2>1. pc[p] # "login.establish"
    BY <1>2 DEF TokenRead, TokenWrite, RotateSave, TouchRead, TouchWrite, RefreshDone, RefreshReplay, RefreshUnlock
  <2>2. \E label : Goto(p, label)
    BY <1>2 DEF TokenRead, TokenWrite, RotateSave, TouchRead, TouchWrite, RefreshDone, RefreshReplay, RefreshUnlock
  <2> QED BY <2>1, <2>2
<1>3. CASE \/ \E s \in Session, t \in issued \cup {NoToken} : LogoutAccess(p, s, t)
           \/ LogoutReadToken(p) \/ LogoutTokenSession(p)
           \/ ChangePassword(p) \/ RevokeAllScript(p) \/ RevokeAllDropCache(p)
  BY <1>3 DEF LogoutAccess, LogoutReadToken, LogoutTokenSession, ChangePassword, RevokeAllScript, RevokeAllDropCache
<1>4. CASE StepFails(p)
  BY <1>4 DEF StepFails, Locked
<1>5. CASE Crash(p)
  BY <1>5 DEF Crash
<1> QED BY <1>1, <1>2, <1>3, <1>4, <1>5 DEF Step

\* No step of the guard is a step of the store, and every other step is one.
LEMMA GuardStepIsStep == GuardNext => [Next]_vars
BY DEF GuardNext, CheckAccount, CheckIp, WrongPassword, Count, Deadline, Clear, WindowPasses, Serve,
       GuardCrash, Next

\* The guard adds behaviour of its own to none of the store's.
THEOREM GuardRestricts == GuardSpec => Spec
<1>1. [GuardNext]_guardVars => [Next]_vars
  BY GuardStepIsStep DEF guardVars
<1>2. GuardInit => Init
  BY DEF GuardInit
<1> QED BY <1>1, <1>2, PTL DEF GuardSpec, Spec

-----------------------------------------------------------------------------
\* Types, and one place at a time.

LEMMA GateLabels ==
  /\ \A k \in Counter : CountOf[k] \in Gate /\ DeadlineOf[k] \in Gate /\ AfterCount(k) \in Gate
  /\ CountOf["account"] = "count.account" /\ DeadlineOf["account"] = "deadline.account"
  /\ CountOf["ip"] = "count.ip" /\ DeadlineOf["ip"] = "deadline.ip"
BY DEF Gate, CountOf, DeadlineOf, AfterCount, Counter

LEMMA InitGuardInv == GuardInit => GuardInv
BY InitHolds, GuardAssumption DEF GuardInit, GuardInv, GuardTypeOK, OneAtATime, Gate, Init

LEMMA NextGuardInv == GuardInv /\ [GuardNext]_guardVars => GuardInv'
<1> SUFFICES ASSUME GuardInv, [GuardNext]_guardVars PROVE GuardInv'
  OBVIOUS
<1> USE GuardAssumption, GateLabels DEF GuardInv, GuardTypeOK, OneAtATime
<1>1. IInv'
  BY GuardStepIsStep, NextKeeps DEF guardVars
<1>2. pc \in [Proc -> Label] /\ RequestTypeOK
  BY DEF IInv, RequestInv, RequestTypeOK
<1>3. ASSUME NEW p \in Proc, CheckAccount(p) \/ CheckIp(p) \/ WrongPassword(p) \/ Clear(p) \/ GuardCrash(p)
      PROVE  GuardTypeOK' /\ OneAtATime'
  <2>1. UNCHANGED pc
    BY <1>3 DEF CheckAccount, CheckIp, WrongPassword, Clear, GuardCrash, vars
  <2>2. \A q \in Proc \ {p} : gate'[q] = gate[q]
    BY <1>3 DEF CheckAccount, CheckIp, WrongPassword, Clear, GuardCrash, Gated
  <2>3. gate'[p] = "idle" \/ pc[p] = "idle"
    BY <1>3 DEF CheckAccount, CheckIp, WrongPassword, Clear, GuardCrash, Gated
  <2>4. gate' \in [Proc -> Gate]
    BY <1>3 DEF CheckAccount, CheckIp, WrongPassword, Clear, GuardCrash, Gated, Gate
  <2>5. waived' \in 0 .. MaxWaived
    BY <1>3 DEF CheckAccount, CheckIp, Reads, WrongPassword, Clear, GuardCrash
  <2>6. failures' \in [Counter -> Nat] /\ window' \in SUBSET Counter /\ lost' \in SUBSET Counter
    <3>1. CASE CheckAccount(p) \/ CheckIp(p) \/ WrongPassword(p) \/ GuardCrash(p)
      BY <3>1 DEF CheckAccount, CheckIp, WrongPassword, GuardCrash
    <3>2. CASE Clear(p)
      BY <3>2 DEF Clear, Delete
    <3> QED BY <1>3, <3>1, <3>2
  <2> QED BY <2>1, <2>2, <2>3, <2>4, <2>5, <2>6
<1>4. ASSUME NEW p \in Proc, NEW k \in Counter, Count(p, k) \/ Deadline(p, k)
      PROVE  GuardTypeOK' /\ OneAtATime'
  <2>1. gate' \in [Proc -> Gate] /\ UNCHANGED pc
    BY <1>4 DEF Count, Deadline, Gated, vars
  <2>2. failures' \in [Counter -> Nat] /\ window' \in SUBSET Counter /\ waived' \in 0 .. MaxWaived
        /\ lost' \in SUBSET Counter
    BY <1>4 DEF Count, Deadline
  <2>3. gate[p] # "idle" /\ \A q \in Proc \ {p} : gate'[q] = gate[q]
    BY <1>4 DEF Count, Deadline, Gated, CountOf, DeadlineOf, Counter
  <2> QED BY <1>2, <2>1, <2>2, <2>3
<1>5. ASSUME NEW p \in Proc, Serve(p)
      PROVE  GuardTypeOK' /\ OneAtATime'
  <2>1. \A q \in Proc \ {p} : pc'[q] = pc[q] /\ gate'[q] = gate[q]
    BY <1>2, <1>5, StepKeepsOthers DEF Serve, Gated
  <2>2. gate'[p] = "clear" => pc'[p] = "idle"
    BY <1>2, <1>5, StepKeepsOthers DEF Serve, Gated
  <2>3. gate'[p] \in {"clear", "idle"} /\ gate' \in [Proc -> Gate]
    BY <1>5 DEF Serve, Gated, Gate
  <2> QED BY <1>5, <2>1, <2>2, <2>3 DEF Serve
<1>6. ASSUME NEW k \in Counter, WindowPasses(k)
      PROVE  GuardTypeOK' /\ OneAtATime'
  BY <1>6 DEF WindowPasses, Delete, vars
<1>7. CASE Expiry /\ UNCHANGED guard
  <2>1. UNCHANGED pc
    BY <1>7 DEF Expiry, LockExpires, TokenExpires, SessionExpires, IndexExpires
  <2> QED BY <1>1, <1>7, <2>1 DEF guard
<1>8. CASE UNCHANGED guardVars
  <2>1. UNCHANGED pc /\ UNCHANGED guard
    BY <1>8 DEF guardVars, vars
  <2> QED BY <1>1, <2>1 DEF guard
<1> QED BY <1>1, <1>3, <1>4, <1>5, <1>6, <1>7, <1>8 DEF GuardNext

LEMMA GuardInvariance == GuardSpec => []GuardInv
BY InitGuardInv, NextGuardInv, PTL DEF GuardSpec

\* Counters, deadlines and labels keep their types (redis.go:168-226).
THEOREM GuardTypeCorrect == GuardSpec => []GuardTypeOK
BY GuardInvariance, PTL DEF GuardInv

-----------------------------------------------------------------------------
\* The window of a counter.

\* A lock-out ends with its window: whatever the guard's calls, crashes and
\* other requests do, a counter without a deadline is about to get one, or its
\* EXPIRE was lost (redis.go:220).
THEOREM LockoutEnds == GuardSpec => []LockoutIsWindowed
<1>1. GuardInit => LockoutIsWindowed
  BY DEF GuardInit, LockoutIsWindowed
<1>2. GuardInv /\ LockoutIsWindowed /\ [GuardNext]_guardVars => LockoutIsWindowed'
  <2> SUFFICES ASSUME GuardInv, LockoutIsWindowed, [GuardNext]_guardVars,
                      NEW c \in Counter, failures'[c] > 0
               PROVE  c \in window' \/ c \in lost' \/ \E p \in Proc : gate'[p] = DeadlineOf[c]
    BY DEF LockoutIsWindowed
  <2> USE GateLabels DEF GuardInv, GuardTypeOK, LockoutIsWindowed
  <2>0. DeadlineOf[c] \notin {"idle", "check.ip", "passed", "count.account", "count.ip", "clear"}
    BY DEF Counter
  <2>1. ASSUME NEW p \in Proc, CheckAccount(p) \/ CheckIp(p) \/ WrongPassword(p)
        PROVE  UNCHANGED <<failures, window, lost>> /\ \A q \in Proc : gate[q] = DeadlineOf[c] => gate'[q] = gate[q]
    BY <2>0, <2>1 DEF CheckAccount, CheckIp, WrongPassword, Gated
  <2>2. ASSUME NEW p \in Proc, NEW k \in Counter, Count(p, k)
        PROVE  c \in window' \/ c \in lost' \/ \E q \in Proc : gate'[q] = DeadlineOf[c]
    <3>1. \A q \in Proc \ {p} : gate'[q] = gate[q]
      BY <2>2 DEF Count, Gated
    <3>2. gate[p] # DeadlineOf[c] /\ UNCHANGED <<window, lost>>
      BY <2>0, <2>2 DEF Count, Counter
    <3>3. CASE failures[c] > 0
      BY <3>1, <3>2, <3>3
    <3>4. CASE ~(failures[c] > 0)
      <4>1. c = k /\ failures[k] = 0
        BY <2>2, <3>4 DEF Count
      <4> QED BY <2>2, <3>4, <4>1 DEF Count, Gated
    <3> QED BY <3>3, <3>4
  <2>3. ASSUME NEW p \in Proc, NEW k \in Counter, Deadline(p, k)
        PROVE  c \in window' \/ c \in lost' \/ \E q \in Proc : gate'[q] = DeadlineOf[c]
    <3>1. \A q \in Proc \ {p} : gate'[q] = gate[q]
      BY <2>3 DEF Deadline, Gated
    <3>2. gate[p] = DeadlineOf[c] => c = k
      BY <2>3 DEF Deadline, Counter
    <3> QED BY <2>3, <3>1, <3>2 DEF Deadline
  <2>4. ASSUME NEW p \in Proc, Clear(p)
        PROVE  c \in window' \/ c \in lost' \/ \E q \in Proc : gate'[q] = DeadlineOf[c]
    <3>1. \A q \in Proc : gate[q] = DeadlineOf[c] => gate'[q] = gate[q]
      BY <2>0, <2>4 DEF Clear, Gated
    <3> QED BY <2>4, <3>1 DEF Clear, Delete, Counter
  <2>5. ASSUME NEW p \in Proc, Serve(p)
        PROVE  UNCHANGED <<failures, window, lost>> /\ \A q \in Proc : gate[q] = DeadlineOf[c] => gate'[q] = gate[q]
    <3>1. gate[p] \in {"idle", "passed"}
      BY <2>5 DEF Serve, OneAtATime
    <3> QED BY <2>0, <2>5, <3>1 DEF Serve, Gated
  <2>6. ASSUME NEW p \in Proc, GuardCrash(p)
        PROVE  c \in window' \/ c \in lost' \/ \E q \in Proc : gate'[q] = DeadlineOf[c]
    BY <2>6 DEF GuardCrash, Gated
  <2>7. ASSUME NEW k \in Counter, WindowPasses(k)
        PROVE  c \in window' \/ c \in lost' \/ \E q \in Proc : gate'[q] = DeadlineOf[c]
    BY <2>7 DEF WindowPasses, Delete
  <2>8. CASE UNCHANGED guard
    BY <2>8 DEF guard
  <2> QED BY <2>1, <2>2, <2>3, <2>4, <2>5, <2>6, <2>7, <2>8 DEF GuardNext, guardVars
<1> QED BY <1>1, <1>2, GuardInvariance, PTL DEF GuardSpec

-----------------------------------------------------------------------------
\* The limits.

LEMMA PendingIsFinite ==
  ASSUME NEW k \in Counter
  PROVE  /\ IsFiniteSet(Pending(k)) /\ Cardinality(Pending(k)) \in Nat
         /\ Cardinality(Pending(k)) <= Cardinality(Proc) /\ Cardinality(Proc) \in Nat
BY GuardAssumption, FS_Subset, FS_CardinalityType DEF Pending

LEMMA LimitType == Limit \in [Counter -> Nat]
BY GuardAssumption DEF Limit, Counter

\* A step that neither counts for k nor lets a request past its check.
LEMMA FewerPending ==
  ASSUME GuardInv, CountInv, NEW k \in Counter, GuardTypeOK',
         failures'[k] <= failures[k], waived' >= waived,
         Pending(k)' \subseteq Pending(k)
  PROVE  failures'[k] + Cardinality(Pending(k)') < Limit[k] + Cardinality(Proc) + waived'
<1>1. Cardinality(Pending(k)') <= Cardinality(Pending(k)) /\ Cardinality(Pending(k)') \in Nat
  BY PendingIsFinite, FS_Subset, FS_CardinalityType
<1>2. failures[k] + Cardinality(Pending(k)) < Limit[k] + Cardinality(Proc) + waived
  BY DEF CountInv
<1>3. failures[k] \in Nat /\ failures'[k] \in Nat /\ waived \in Nat /\ waived' \in Nat /\ Limit[k] \in Nat
  BY LimitType, GuardAssumption DEF GuardInv, GuardTypeOK
<1> QED BY <1>1, <1>2, <1>3, PendingIsFinite

\* A step that reads the counter and lets the request past.
LEMMA CheckCounts ==
  ASSUME GuardInv, CountInv, NEW k \in Counter, GuardTypeOK', UNCHANGED failures, Reads(k),
         NEW p \in Proc, Pending(k)' \subseteq Pending(k) \cup {p}
  PROVE  failures'[k] + Cardinality(Pending(k)') < Limit[k] + Cardinality(Proc) + waived'
<1>1. /\ failures[k] \in Nat /\ waived \in Nat /\ waived' \in Nat /\ Limit[k] \in Nat
      /\ Cardinality(Proc) \in Nat
  BY LimitType, PendingIsFinite, GuardAssumption DEF GuardInv, GuardTypeOK
<1>2. IsFiniteSet(Pending(k)') /\ Cardinality(Pending(k)') \in Nat /\ Cardinality(Pending(k)') <= Cardinality(Proc)
  BY GuardAssumption, FS_Subset, FS_CardinalityType DEF Pending
<1>3. CASE BelowLimit(k)
  BY <1>1, <1>2, <1>3 DEF BelowLimit, Reads
<1>4. CASE ~BelowLimit(k)
  <2>1. waived' = waived + 1
    BY <1>4 DEF Reads
  <2>2. failures[k] + Cardinality(Pending(k)) < Limit[k] + Cardinality(Proc) + waived
    BY DEF CountInv
  <2>3. IsFiniteSet(Pending(k) \cup {p}) /\ Cardinality(Pending(k) \cup {p}) <= Cardinality(Pending(k)) + 1
    <3>1. IsFiniteSet(Pending(k)) /\ Cardinality(Pending(k)) \in Nat
      BY PendingIsFinite
    <3> HIDE DEF Pending
    <3>2. /\ IsFiniteSet(Pending(k) \cup {p})
          /\ \/ Cardinality(Pending(k) \cup {p}) = Cardinality(Pending(k)) + 1
             \/ Cardinality(Pending(k) \cup {p}) = Cardinality(Pending(k))
      BY <3>1, FS_AddElement
    <3> QED BY <3>1, <3>2
  <2>4. Cardinality(Pending(k)') <= Cardinality(Pending(k)) + 1
    BY <1>2, <2>3, PendingIsFinite, FS_Subset, FS_CardinalityType
  <2>5. failures'[k] = failures[k]
    OBVIOUS
  <2> QED BY <1>1, <1>2, <2>1, <2>2, <2>4, <2>5, PendingIsFinite
<1> QED BY <1>3, <1>4

\* A request that counts a failure is no longer pending.
LEMMA CountCounts ==
  ASSUME GuardInv, CountInv, NEW k \in Counter, GuardTypeOK', UNCHANGED waived,
         failures'[k] = failures[k] + 1,
         NEW p \in Pending(k), Pending(k)' \subseteq Pending(k) \ {p}
  PROVE  failures'[k] + Cardinality(Pending(k)') < Limit[k] + Cardinality(Proc) + waived'
<1>1. /\ failures[k] \in Nat /\ waived \in Nat /\ Limit[k] \in Nat /\ Cardinality(Proc) \in Nat
      /\ IsFiniteSet(Pending(k)) /\ Cardinality(Pending(k)) \in Nat
  BY LimitType, PendingIsFinite, GuardAssumption DEF GuardInv, GuardTypeOK
<1>2. /\ IsFiniteSet(Pending(k) \ {p})
      /\ Cardinality(Pending(k) \ {p}) = Cardinality(Pending(k)) - 1
  BY <1>1, FS_RemoveElement
<1>3. Cardinality(Pending(k)') <= Cardinality(Pending(k)) - 1 /\ Cardinality(Pending(k)') \in Nat
  BY <1>2, FS_Subset, FS_CardinalityType
<1>4. failures[k] + Cardinality(Pending(k)) < Limit[k] + Cardinality(Proc) + waived
  BY DEF CountInv
<1> QED BY <1>1, <1>3, <1>4

\* The gate of every other request stays.
OthersWait(p) == \A q \in Proc \ {p} : gate'[q] = gate[q]

LEMMA NextCountInv == GuardInv /\ CountInv /\ [GuardNext]_guardVars => CountInv'
<1> SUFFICES ASSUME GuardInv, CountInv, [GuardNext]_guardVars, NEW k \in Counter
             PROVE  failures'[k] + Cardinality(Pending(k)') < Limit[k] + Cardinality(Proc) + waived'
  BY DEF CountInv
<1> DEFINE Goal == failures'[k] + Cardinality(Pending(k)') < Limit[k] + Cardinality(Proc) + waived'
<1>0. GuardTypeOK'
  BY NextGuardInv DEF GuardInv
<1>t. /\ failures \in [Counter -> Nat] /\ waived \in Nat
      /\ gate \in [Proc -> Gate] /\ (k = "account" \/ k = "ip")
  BY GuardAssumption DEF GuardInv, GuardTypeOK, Counter
<1>1. ASSUME NEW p \in Proc, CheckAccount(p) PROVE Goal
  <2>1. UNCHANGED failures /\ OthersWait(p)
    BY <1>1, <1>t DEF CheckAccount, Gated, OthersWait
  <2>2. gate'[p] = gate[p] \/ (gate'[p] = "check.ip" /\ Reads("account"))
    BY <1>1, <1>t DEF CheckAccount, Gated
  <2>3. CASE k = "account" /\ Reads("account")
    <3>1. Pending(k)' \subseteq Pending(k) \cup {p}
      BY <2>1 DEF Pending, OthersWait
    <3> QED BY <1>0, <2>1, <2>3, <3>1, CheckCounts
  <2>4. CASE ~(k = "account" /\ Reads("account"))
    <3>1. Pending(k)' \subseteq Pending(k)
      BY <1>t, <2>1, <2>2, <2>4 DEF Pending, OthersWait
    <3>2. waived' >= waived
      BY <1>1, <1>t DEF CheckAccount, Reads
    <3> QED BY <1>0, <1>t, <2>1, <3>1, <3>2, FewerPending
  <2> QED BY <2>3, <2>4
<1>2. ASSUME NEW p \in Proc, CheckIp(p) PROVE Goal
  <2>1. UNCHANGED failures /\ OthersWait(p) /\ gate[p] = "check.ip"
    BY <1>2, <1>t DEF CheckIp, Gated, OthersWait
  <2>2. gate'[p] = "idle" \/ (gate'[p] = "passed" /\ Reads("ip"))
    BY <1>2, <1>t DEF CheckIp, Gated
  <2>3. CASE k = "ip" /\ Reads("ip")
    <3>1. Pending(k)' \subseteq Pending(k) \cup {p}
      BY <2>1 DEF Pending, OthersWait
    <3> QED BY <1>0, <2>1, <2>3, <3>1, CheckCounts
  <2>4. CASE ~(k = "ip" /\ Reads("ip"))
    <3>1. Pending(k)' \subseteq Pending(k)
      BY <1>t, <2>1, <2>2, <2>4 DEF Pending, OthersWait
    <3>2. waived' >= waived
      BY <1>2, <1>t DEF CheckIp, Reads
    <3> QED BY <1>0, <1>t, <2>1, <3>1, <3>2, FewerPending
  <2> QED BY <2>3, <2>4
<1>3. ASSUME NEW p \in Proc, WrongPassword(p) PROVE Goal
  <2>1. Pending(k)' \subseteq Pending(k)
    BY <1>3, <1>t DEF WrongPassword, Gated, Pending
  <2> QED BY <1>0, <1>3, <1>t, <2>1, FewerPending DEF WrongPassword
<1>4. ASSUME NEW p \in Proc, NEW c \in Counter, Count(p, c) PROVE Goal
  <2>1. gate[p] = CountOf[c] /\ OthersWait(p) /\ UNCHANGED waived
    BY <1>4, <1>t DEF Count, Gated, OthersWait
  <2>2. gate'[p] = DeadlineOf[c] \/ gate'[p] = AfterCount(c)
    BY <1>4, <1>t DEF Count, Gated
  <2>3. Pending(k)' \subseteq Pending(k)
    BY <1>t, <2>1, <2>2 DEF Pending, OthersWait, CountOf, DeadlineOf, AfterCount, Counter
  <2>4. CASE k = c /\ failures'[c] = failures[c] + 1
    <3>1. p \in Pending(k)
      BY <2>1, <2>4, <1>t DEF Pending, CountOf
    <3>2. p \notin Pending(k)'
      BY <1>t, <2>1, <2>2, <2>4 DEF Pending, CountOf, DeadlineOf, AfterCount
    <3> QED BY <1>0, <2>1, <2>3, <2>4, <3>1, <3>2, CountCounts
  <2>5. CASE ~(k = c /\ failures'[c] = failures[c] + 1)
    <3>1. failures'[k] = failures[k]
      BY <1>4, <1>t, <2>5 DEF Count
    <3> QED BY <1>0, <1>t, <2>1, <2>3, <3>1, FewerPending
  <2> QED BY <2>4, <2>5
<1>5. ASSUME NEW p \in Proc, NEW c \in Counter, Deadline(p, c) PROVE Goal
  <2>1. Pending(k)' \subseteq Pending(k)
    BY <1>5, <1>t DEF Deadline, Gated, Pending, DeadlineOf, AfterCount, Counter
  <2> QED BY <1>0, <1>5, <1>t, <2>1, FewerPending DEF Deadline
<1>6. ASSUME NEW p \in Proc, Clear(p) PROVE Goal
  <2>1. Pending(k)' \subseteq Pending(k)
    BY <1>6, <1>t DEF Clear, Gated, Pending
  <2>2. failures'[k] <= failures[k] /\ waived' = waived
    BY <1>6, <1>t DEF Clear, Delete
  <2> QED BY <1>0, <1>t, <2>1, <2>2, FewerPending
<1>7. ASSUME NEW p \in Proc, Serve(p) \/ GuardCrash(p) PROVE Goal
  <2>1. Pending(k)' \subseteq Pending(k)
    BY <1>7, <1>t DEF Serve, GuardCrash, Gated, Pending
  <2> QED BY <1>0, <1>7, <1>t, <2>1, FewerPending DEF Serve, GuardCrash
<1>8. ASSUME NEW c \in Counter, WindowPasses(c) PROVE Goal
  <2>1. failures'[k] <= failures[k] /\ UNCHANGED <<gate, waived>>
    BY <1>8, <1>t DEF WindowPasses, Delete
  <2>2. Pending(k)' = Pending(k)
    BY <2>1 DEF Pending
  <2> QED BY <1>0, <1>t, <2>1, <2>2, FewerPending
<1>9. CASE UNCHANGED guard
  <2>1. Pending(k)' = Pending(k)
    BY <1>9 DEF guard, Pending
  <2> QED BY <1>0, <1>9, <1>t, <2>1, FewerPending DEF guard
<1> QED BY <1>1, <1>2, <1>3, <1>4, <1>5, <1>6, <1>7, <1>8, <1>9 DEF GuardNext, guardVars

\* Failures pass a limit only by the requests that passed the check together
\* and by the reads that failed (redis.go:42, 168): however many requests are
\* served at once, the limit cannot be outrun.
THEOREM FailuresStayBounded == GuardSpec => []FailuresBounded
<1>1. GuardInit => CountInv
  <2> SUFFICES ASSUME GuardInit, NEW k \in Counter
               PROVE  failures[k] + Cardinality(Pending(k)) < Limit[k] + Cardinality(Proc) + waived
    BY DEF CountInv
  <2>1. Pending(k) = {} /\ failures[k] = 0 /\ waived = 0
    BY DEF GuardInit, Pending
  <2>2. Limit[k] \in Nat \ {0}
    BY GuardAssumption DEF Limit, Counter
  <2> QED BY <2>1, <2>2, FS_EmptySet, PendingIsFinite
<1>2. GuardInv /\ CountInv => FailuresBounded
  <2> SUFFICES ASSUME GuardInv, CountInv, NEW k \in Counter
               PROVE  failures[k] < Limit[k] + Cardinality(Proc) + waived
    BY DEF FailuresBounded
  <2>1. failures[k] + Cardinality(Pending(k)) < Limit[k] + Cardinality(Proc) + waived
    BY DEF CountInv
  <2>2. failures[k] \in Nat /\ waived \in Nat /\ Limit[k] \in Nat
    BY LimitType, GuardAssumption DEF GuardInv, GuardTypeOK
  <2> QED BY <2>1, <2>2, PendingIsFinite
<1> QED BY <1>1, <1>2, NextCountInv, GuardInvariance, PTL DEF GuardSpec

-----------------------------------------------------------------------------
\* What is shown of the store holds behind the guard.

\* Behind the guard, too, the store implements single-device login.
THEOREM GuardedSingleDevice == GuardSpec => SingleDeviceLogin
BY GuardRestricts, ImplementsSingleDevice, PTL

\* Behind the guard, too, a rejecting mode never takes the device from a live
\* session (login_replace.lua:65).
THEOREM GuardedHolderIsKept == GuardSpec => RejectKeepsHolder
BY GuardRestricts, HolderIsKept, PTL

=============================================================================
