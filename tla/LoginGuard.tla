----------------------------- MODULE LoginGuard -----------------------------
(***************************************************************************)
(* The guard on failed logins of the SSO service (redis.go:168-226): one   *)
(* Redis counter per account name and one per client address, read before  *)
(* the password is compared and incremented after it was wrong, around the *)
(* login request of SsoSession.                                            *)
(*                                                                         *)
(* Simplifications: all requests come from one address and name the        *)
(* account in one way; the audit record of the attempt, which nothing      *)
(* reads back, is left out; the five-minute window of a counter passes at  *)
(* any time after its deadline is set.                                     *)
(***************************************************************************)
EXTENDS SsoSession

CONSTANTS
  AccountLimit,    \* loginFailAccountLimit
  IpLimit,         \* loginFailIPLimit
  GuardFaults,     \* the Redis calls of the guard that may fail
  MaxWaived        \* bound on the checks that fail

ASSUME GuardAssumption ==
  /\ AccountLimit \in Nat \ {0} /\ IpLimit \in Nat \ {0}
  /\ GuardFaults \subseteq {"check", "count", "deadline", "clear"}
  /\ MaxWaived \in Nat
  /\ IsFiniteSet(Proc)

VARIABLES
  failures,        \* sso:login_fail:{account|ip}; 0: no such key
  window,          \* the counters that have a deadline
  gate,            \* the guard's next call for each request
  waived,          \* history: checks that a failing read let through
  lost             \* history: counters whose EXPIRE never happened

guard     == <<failures, window, gate, waived, lost>>
guardVars == <<vars, guard>>

Counter == {"account", "ip"}

Limit == [k \in Counter |-> IF k = "account" THEN AccountLimit ELSE IpLimit]

\* "idle" also while the request proper is running.
Gate == {"idle", "check.ip", "passed", "count.account", "deadline.account", "count.ip",
         "deadline.ip", "clear"}

CountOf    == [k \in Counter |-> IF k = "account" THEN "count.account" ELSE "count.ip"]
DeadlineOf == [k \in Counter |-> IF k = "account" THEN "deadline.account" ELSE "deadline.ip"]

\* Every counter, label and history variable holds a value of its type.
GuardTypeOK ==
  /\ failures \in [Counter -> Nat]
  /\ window \in SUBSET Counter
  /\ gate \in [Proc -> Gate]
  /\ waived \in 0 .. MaxWaived
  /\ lost \in SUBSET Counter

GuardInit ==
  /\ Init
  /\ failures = [k \in Counter |-> 0]
  /\ window = {}
  /\ gate = [p \in Proc |-> "idle"]
  /\ waived = 0
  /\ lost = {}

-----------------------------------------------------------------------------

Gated(p, label) == gate' = [gate EXCEPT ![p] = label]

\* Mutant: an attempt more than the limit passes.
BelowLimitOrAt(k) == failures[k] <= Limit[k]

\* IsLoginRateLimited lets an attempt through that finds no counter at its limit.
BelowLimit(k) == failures[k] < Limit[k]

\* A read of a counter lets the attempt pass: it is below its limit, or the read
\* fails (which changes nothing when it is).
Reads(k) ==
  \/ BelowLimit(k) /\ UNCHANGED waived
  \/ /\ "check" \in GuardFaults
     /\ ~BelowLimit(k) /\ waived < MaxWaived
     /\ waived' = waived + 1

CheckAccount(p) ==
  /\ "login" \in Requests
  /\ pc[p] = "idle" /\ gate[p] = "idle"
  /\ \/ Reads("account") /\ Gated(p, "check.ip")
     \/ failures["account"] >= AccountLimit /\ UNCHANGED <<gate, waived>>
  /\ UNCHANGED <<vars, failures, window, lost>>

CheckIp(p) ==
  /\ gate[p] = "check.ip"
  /\ \/ Reads("ip") /\ Gated(p, "passed")
     \/ failures["ip"] >= IpLimit /\ Gated(p, "idle") /\ UNCHANGED waived
  /\ UNCHANGED <<vars, failures, window, lost>>

\* The account is not known or the password is wrong: loginFailed.
WrongPassword(p) ==
  /\ gate[p] = "passed"
  /\ Gated(p, "count.account")
  /\ UNCHANGED <<vars, failures, window, waived, lost>>

\* RecordLoginFailure counts for the account, then for the address.
AfterCount(k) == IF k = "account" THEN "count.ip" ELSE "idle"

\* Mutant: the deadline is set by the second failure of a window.
CountSecond(p, k) ==
  /\ gate[p] = CountOf[k]
  /\ failures' = [failures EXCEPT ![k] = @ + 1]
  /\ Gated(p, IF failures[k] = 1 THEN DeadlineOf[k] ELSE AfterCount(k))
  /\ UNCHANGED <<vars, window, waived, lost>>

\* incrWithTTL, the INCR: the first one is followed by an EXPIRE.
Count(p, k) ==
  /\ gate[p] = CountOf[k]
  /\ \/ /\ failures' = [failures EXCEPT ![k] = @ + 1]
        /\ Gated(p, IF failures[k] = 0 THEN DeadlineOf[k] ELSE AfterCount(k))
     \/ /\ "count" \in GuardFaults
        /\ Gated(p, AfterCount(k))
        /\ UNCHANGED failures
  /\ UNCHANGED <<vars, window, waived, lost>>

\* incrWithTTL, the EXPIRE, which does nothing to a counter cleared meanwhile.
Deadline(p, k) ==
  /\ gate[p] = DeadlineOf[k]
  /\ \/ /\ window' = IF failures[k] > 0 THEN window \cup {k} ELSE window
        /\ UNCHANGED lost
     \/ /\ "deadline" \in GuardFaults
        /\ lost' = lost \cup {k}
        /\ UNCHANGED window
  /\ Gated(p, AfterCount(k))
  /\ UNCHANGED <<vars, failures, waived>>

\* Mutant: a login takes one failure back instead of deleting the key.
DeleteOne(k) ==
  /\ failures' = [failures EXCEPT ![k] = @ - 1]
  /\ UNCHANGED <<window, lost>>

\* The key goes with its deadline.
Delete(k) ==
  /\ failures' = [failures EXCEPT ![k] = 0]
  /\ window' = window \ {k}
  /\ lost' = lost \ {k}

\* ClearLoginFailures: a failing DEL is logged and the login succeeds.
Clear(p) ==
  /\ gate[p] = "clear"
  /\ Gated(p, "idle")
  /\ Delete("account") \/ ("clear" \in GuardFaults /\ UNCHANGED <<failures, window, lost>>)
  /\ UNCHANGED <<vars, waived>>

\* Five minutes after its first failure a counter is gone.
WindowPasses(k) ==
  /\ k \in window
  /\ Delete(k)
  /\ UNCHANGED <<vars, gate, waived>>

\* A step of the request proper: a login reads the user once the guard has let
\* it pass, and clears the account's counter once its session is established.
Serve(p) ==
  /\ Step(p)
  /\ pc[p] = "idle" => gate[p] = IF pc'[p] = "login.establish" THEN "passed" ELSE "idle"
  /\ Gated(p, IF pc[p] = "login.establish" /\ access' # access THEN "clear" ELSE "idle")
  /\ UNCHANGED <<failures, window, waived, lost>>

\* The service dies while the guard is at work.
GuardCrash(p) ==
  /\ "crash" \in Faults
  /\ gate[p] # "idle"
  /\ Gated(p, "idle")
  /\ lost' = lost \cup {k \in Counter : gate[p] = DeadlineOf[k]}
  /\ UNCHANGED <<vars, failures, window, waived>>

GuardNext ==
  \/ \E p \in Proc :
       \/ CheckAccount(p) \/ CheckIp(p) \/ WrongPassword(p)
       \/ \E k \in Counter : Count(p, k) \/ Deadline(p, k)
       \/ Clear(p) \/ Serve(p) \/ GuardCrash(p)
  \/ \E k \in Counter : WindowPasses(k)
  \/ Expiry /\ UNCHANGED guard

GuardSpec == GuardInit /\ [][GuardNext]_guardVars

-----------------------------------------------------------------------------
\* Properties.

\* Requests that passed the check together go past the limit together, and no
\* further: a counter exceeds its limit at most by the other requests under way
\* (redis.go:42, "locked at 5 failures") and by the reads that failed.
FailuresBounded == \A k \in Counter : failures[k] < Limit[k] + Cardinality(Proc) + waived

\* A counter that is not about to get its deadline has one, unless the EXPIRE
\* of a window was lost: only then does a lock-out last longer than the five
\* minutes the client is told (auth_service.go:74).
LockoutIsWindowed ==
  \A k \in Counter :
    failures[k] > 0 =>
      k \in window \/ k \in lost \/ \E p \in Proc : gate[p] = DeadlineOf[k]

=============================================================================
