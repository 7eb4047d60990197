------------------------------ MODULE OaProofs ------------------------------
(***************************************************************************)
(* Who is admitted by the OA back end, and what no request can do to the   *)
(* built-in roles, for any number of requests, users and roles.            *)
(*                                                                         *)
(* OaInv says that the committed policy and bindings, both caches, and     *)
(* what each request has read but not yet installed, were once committed.  *)
(* Since a request is the list of its remaining steps, most of the work is *)
(* in the order of such lists: a decision comes after every step that      *)
(* loads roles for it, and before any step that loads another user's.      *)
(***************************************************************************)
EXTENDS OaBackend, TLAPS

-----------------------------------------------------------------------------
(* The steps that a request still has to take *)

\* A step that leads to a decision is followed by it.
Gated(t) ==
  \A i \in 1 .. Len(t) : t[i] \in {"load", "keep", "enforce"} =>
    \E j \in i + 1 .. Len(t) : t[j] = "decide"

\* Other users' roles are loaded after the decision; a commit is the end.
Ordered(t) ==
  /\ \A i, j \in 1 .. Len(t) : i < j /\ t[j] = "decide" => t[i] \notin {"target", "keep_target"}
  /\ \A i \in 1 .. Len(t) : t[i] = "commit" => i = Len(t)

KeptFirst(t) == \A i \in 1 .. Len(t) : t[i] \in {"keep", "keep_target"} => i = 1

Deciding(t) == \E j \in 1 .. Len(t) : t[j] = "decide"
Checking(t) == \E j \in 1 .. Len(t) : t[j] = "check"
Past(t)     == \A i \in 1 .. Len(t) : t[i] \notin {"load", "keep", "enforce", "decide"}
Heads(t, s) == t # <<>> /\ Head(t) = s

\* What remains true of the list when its first step is done.
LEMMA TailFacts ==
  ASSUME NEW t \in Seq(Step), t # <<>>
  PROVE  /\ Tail(t) \in Seq(Step)
         /\ Gated(t) => Gated(Tail(t))
         /\ Ordered(t) => Ordered(Tail(t))
         /\ KeptFirst(t) => KeptFirst(Tail(t))
         /\ KeptFirst(t) => ~Heads(Tail(t), "keep") /\ ~Heads(Tail(t), "keep_target")
         /\ Deciding(Tail(t)) => Deciding(t)
         /\ Gated(t) /\ Past(Tail(t)) /\ Head(t) # "decide" => Past(t)
         /\ Checking(t) /\ Head(t) # "check" => Checking(Tail(t))
<1> DEFINE u == Tail(t)
<1>1. /\ u \in Seq(Step) /\ Len(t) \in Nat /\ Len(u) = Len(t) - 1
      /\ t[1] = Head(t) /\ 1 \in 1 .. Len(t)
      /\ \A i \in 1 .. Len(u) : u[i] = t[i + 1] /\ i + 1 \in 1 .. Len(t)
      /\ u # <<>> => Head(u) = t[2] /\ 2 \in 1 .. Len(t)
  OBVIOUS
<1> HIDE DEF u
<1>2. Gated(t) => Gated(u)
  <2> SUFFICES ASSUME Gated(t), NEW i \in 1 .. Len(u), u[i] \in {"load", "keep", "enforce"}
               PROVE  \E j \in i + 1 .. Len(u) : u[j] = "decide"
    BY DEF Gated
  <2>1. PICK j \in i + 2 .. Len(t) : t[j] = "decide"
    BY <1>1 DEF Gated
  <2>2. j - 1 \in i + 1 .. Len(u) /\ j - 1 \in 1 .. Len(u) /\ (j - 1) + 1 = j
    BY <1>1
  <2> QED BY <1>1, <2>1, <2>2
<1>3. Ordered(t) => Ordered(u)
  BY <1>1 DEF Ordered
<1>4. KeptFirst(t) => KeptFirst(u) /\ ~Heads(u, "keep") /\ ~Heads(u, "keep_target")
  BY <1>1 DEF KeptFirst, Heads
<1>5. Deciding(u) => Deciding(t)
  BY <1>1 DEF Deciding
<1>6. ASSUME Gated(t), Past(u), Head(t) # "decide" PROVE Past(t)
  <2>1. \A i \in 2 .. Len(t) : t[i] \notin {"load", "keep", "enforce", "decide"}
    <3> SUFFICES ASSUME NEW i \in 2 .. Len(t)
                 PROVE  t[i] \notin {"load", "keep", "enforce", "decide"}
      OBVIOUS
    <3>1. i - 1 \in 1 .. Len(u) /\ (i - 1) + 1 = i
      BY <1>1
    <3> QED BY <1>1, <1>6, <3>1 DEF Past
  <2>2. t[1] \notin {"load", "keep", "enforce"}
    BY <1>1, <1>6, <2>1 DEF Gated
  <2> QED BY <1>1, <1>6, <2>1, <2>2 DEF Past
<1>7. ASSUME Checking(t), Head(t) # "check" PROVE Checking(u)
  <2>1. PICK j \in 1 .. Len(t) : t[j] = "check"
    BY <1>7 DEF Checking
  <2>2. j - 1 \in 1 .. Len(u) /\ (j - 1) + 1 = j
    BY <1>1, <1>7, <2>1
  <2> QED BY <1>1, <2>1, <2>2 DEF Checking
<1> QED BY <1>1, <1>2, <1>3, <1>4, <1>5, <1>6, <1>7 DEF u

\* Steps of the Enforcer that are put before a list change nothing of it.
LEMMA PlainFacts ==
  ASSUME NEW u \in Seq(Step), NEW s \in Seq({"read", "install", "stale"}), s # <<>>
  PROVE  /\ s \o u \in Seq(Step) /\ s \o u # <<>>
         /\ Gated(u) => Gated(s \o u)
         /\ Ordered(u) => Ordered(s \o u)
         /\ KeptFirst(u) /\ ~Heads(u, "keep") /\ ~Heads(u, "keep_target") => KeptFirst(s \o u)
         /\ ~Heads(s \o u, "keep") /\ ~Heads(s \o u, "keep_target")
         /\ Deciding(s \o u) => Deciding(u)
         /\ Past(s \o u) => Past(u)
         /\ Checking(u) => Checking(s \o u)
<1> DEFINE v == s \o u
           n == Len(s)
<1>1. /\ n \in Nat \ {0}
      /\ \A i \in 1 .. n : s[i] \in {"read", "install", "stale"}
  OBVIOUS
<1>2. s \in Seq(Step)
  BY DEF Step
<1> HIDE DEF n
<1>3. /\ v \in Seq(Step) /\ v # <<>> /\ Len(u) \in Nat /\ Len(v) = n + Len(u)
      /\ Head(v) = v[1]
      /\ \A i \in 1 .. n : i \in 1 .. Len(v) /\ v[i] = s[i]
  BY <1>1, <1>2 DEF n
<1>4. \A i \in 1 .. Len(u) : i + n \in 1 .. Len(v) /\ v[i + n] = u[i]
  BY <1>1, <1>2, <1>3 DEF n
<1>5. \A i \in 1 .. Len(v) : i > n => i - n \in 1 .. Len(u) /\ v[i] = u[i - n]
  BY <1>1, <1>2, <1>3 DEF n
<1>6. \A i \in 1 .. Len(v) : i <= n => v[i] \in {"read", "install", "stale"}
  BY <1>1, <1>3
<1> HIDE DEF v
<1>7. ASSUME Gated(u) PROVE Gated(v)
  <2> SUFFICES ASSUME NEW i \in 1 .. Len(v), v[i] \in {"load", "keep", "enforce"}
               PROVE  \E j \in i + 1 .. Len(v) : v[j] = "decide"
    BY DEF Gated
  <2>1. i - n \in 1 .. Len(u) /\ u[i - n] \in {"load", "keep", "enforce"}
    BY <1>1, <1>5, <1>6
  <2>2. PICK j \in (i - n) + 1 .. Len(u) : u[j] = "decide"
    BY <1>7, <2>1 DEF Gated
  <2>3. j \in 1 .. Len(u) /\ j + n \in i + 1 .. Len(v)
    BY <1>1, <1>3, <2>1, <2>2
  <2> QED BY <1>4, <2>2, <2>3
<1>8. ASSUME Ordered(u) PROVE Ordered(v)
  <2>1. ASSUME NEW i \in 1 .. Len(v), NEW j \in 1 .. Len(v), i < j, v[j] = "decide"
        PROVE  v[i] \notin {"target", "keep_target"}
    <3>1. CASE i <= n
      BY <1>6, <3>1
    <3>2. CASE i > n
      <4>1. i - n \in 1 .. Len(u) /\ j - n \in 1 .. Len(u) /\ i - n < j - n
            /\ v[i] = u[i - n] /\ v[j] = u[j - n]
        BY <1>1, <1>3, <1>5, <2>1, <3>2
      <4> QED BY <1>8, <2>1, <4>1 DEF Ordered
    <3> QED BY <1>1, <3>1, <3>2
  <2>2. ASSUME NEW i \in 1 .. Len(v), v[i] = "commit" PROVE i = Len(v)
    <3>1. i > n
      BY <1>1, <1>6, <2>2
    <3>2. i - n \in 1 .. Len(u) /\ v[i] = u[i - n]
      BY <1>5, <3>1
    <3>3. i - n = Len(u)
      BY <1>8, <2>2, <3>2 DEF Ordered
    <3> QED BY <1>1, <1>3, <3>3
  <2> QED BY <2>1, <2>2 DEF Ordered
<1>9. ASSUME KeptFirst(u), ~Heads(u, "keep"), ~Heads(u, "keep_target") PROVE KeptFirst(v)
  <2> SUFFICES ASSUME NEW i \in 1 .. Len(v), v[i] \in {"keep", "keep_target"} PROVE FALSE
    BY DEF KeptFirst
  <2>1. i - n \in 1 .. Len(u) /\ u[i - n] \in {"keep", "keep_target"}
    BY <1>1, <1>5, <1>6
  <2>2. u[1] \in {"keep", "keep_target"} /\ u # <<>> /\ Head(u) = u[1]
    BY <1>9, <2>1 DEF KeptFirst
  <2> QED BY <1>9, <2>2 DEF Heads
<1>10. ~Heads(v, "keep") /\ ~Heads(v, "keep_target")
  BY <1>1, <1>3, <1>6 DEF Heads
<1>11. Deciding(v) => Deciding(u)
  BY <1>1, <1>3, <1>5, <1>6 DEF Deciding
<1>12. Past(v) => Past(u)
  BY <1>4 DEF Past
<1>13. Checking(u) => Checking(v)
  BY <1>4 DEF Checking
<1> QED BY <1>3, <1>7, <1>8, <1>9, <1>10, <1>11, <1>12, <1>13 DEF v

\* A request that has just read roles keeps them in the cache next.
LEMMA KeepFacts ==
  ASSUME NEW t \in Seq(Step), t # <<>>, NEW k \in {"keep", "keep_target"},
         Head(t) = IF k = "keep" THEN "load" ELSE "target", KeptFirst(t), Ordered(t)
  PROVE  /\ <<k>> \o Tail(t) \in Seq(Step)
         /\ Gated(t) => Gated(<<k>> \o Tail(t))
         /\ Ordered(<<k>> \o Tail(t)) /\ KeptFirst(<<k>> \o Tail(t))
         /\ Heads(<<k>> \o Tail(t), k)
         /\ Deciding(<<k>> \o Tail(t)) => Deciding(t) /\ k = "keep"
         /\ Past(<<k>> \o Tail(t)) => k = "keep_target" /\ Past(t)
         /\ Checking(t) => Checking(<<k>> \o Tail(t))
<1> DEFINE v == <<k>> \o Tail(t)
<1>1. k \in Step
  BY DEF Step
<1>2. /\ v \in Seq(Step) /\ Len(v) = Len(t) /\ Len(t) \in Nat /\ v[1] = k /\ Head(v) = k /\ v # <<>>
      /\ t[1] = Head(t) /\ 1 \in 1 .. Len(t)
      /\ \A i \in 2 .. Len(t) : v[i] = t[i]
  BY <1>1
<1> HIDE DEF v
<1>3. Gated(t) => Gated(v)
  BY <1>2 DEF Gated
<1>4. Ordered(v)
  BY <1>2 DEF Ordered
<1>5. KeptFirst(v)
  BY <1>2 DEF KeptFirst
<1>6. Heads(v, k)
  BY <1>2 DEF Heads
<1>7. Deciding(v) => Deciding(t) /\ k = "keep"
  BY <1>2 DEF Deciding, Ordered
<1>8. Past(v) => k = "keep_target" /\ Past(t)
  BY <1>2 DEF Past
<1>9. Checking(t) => Checking(v)
  BY <1>2 DEF Checking
<1> QED BY <1>2, <1>3, <1>4, <1>5, <1>6, <1>7, <1>8, <1>9 DEF v

Kinds ==
  {"create_role", "update_role", "delete_role", "assign_permissions", "assign_users",
   "set_user_roles", "create_employee", "update_employee", "delete_employee", "reset_password",
   "create_platform", "update_platform", "delete_platform", "create_permission", "me"} \cup Reads

LEMMA InputKinds == \A o \in Input : o.kind \in Kinds
BY DEF Kinds, Input, RoleInput, EmployeeInput, PlatformInput, ReadInput, CreateRoleInput,
  UpdateRoleInput, DeleteRoleInput, AssignPermissionsInput, AssignUsersInput,
  SetUserRolesInput, CreateEmployeeInput, UpdateEmployeeInput, DeleteEmployeeInput,
  ResetPasswordInput, CreatePlatformInput, UpdatePlatformInput, DeletePlatformInput,
  CreatePermissionInput

\* What follows the three steps of an authorisation.
LEMMA GatePrefix ==
  ASSUME NEW s \in Seq(Step), Len(s) \in 1 .. 6,
         \A i \in 1 .. Len(s) : s[i] \notin {"load", "keep", "enforce", "decide", "keep_target"},
         \A i \in 1 .. Len(s) : s[i] = "commit" => i = Len(s),
         NEW P, P = <<"load", "enforce", "decide">> \o s
  PROVE  /\ P \in Seq(Step) /\ P # <<>> /\ Head(P) = "load"
         /\ Ordered(P) /\ KeptFirst(P) /\ Gated(P) /\ ~Past(P)
         /\ s[1] = "check" => Checking(P)
<1>1. P \in Seq(Step) /\ Len(P) = 3 + Len(s)
  BY DEF Step
<1>2. P[1] = "load" /\ P[2] = "enforce" /\ P[3] = "decide"
  BY DEF Step
<1>3. \A i \in 4 .. Len(P) : P[i] = s[i - 3] /\ i - 3 \in 1 .. Len(s)
  BY <1>1 DEF Step
<1>4. Head(P) = "load" /\ P # <<>>
  BY <1>1, <1>2
<1>5. \A i \in 4 .. Len(P) : P[i] \notin {"load", "keep", "enforce", "decide", "keep_target"}
  BY <1>3
<1>6. Len(P) \in 4 .. 9
  <2>1. \A n \in 1 .. 6 : 3 + n \in 4 .. 9
    OBVIOUS
  <2> QED BY <1>1, <2>1, Zenon
<1>7. \A i \in 1 .. Len(P) : P[i] = "commit" => i = Len(P)
  <2> SUFFICES ASSUME NEW i \in 1 .. Len(P), P[i] = "commit" PROVE i = Len(P)
    OBVIOUS
  <2>1. i \in 4 .. Len(P)
    BY <1>2, <1>6
  <2>2. i - 3 = Len(s)
    BY <1>3, <2>1
  <2> QED BY <1>1, <2>1, <2>2
<1>8. Ordered(P) /\ KeptFirst(P) /\ Gated(P) /\ ~Past(P)
  <2>1. Ordered(P)
    BY <1>2, <1>5, <1>6, <1>7 DEF Ordered
  <2>2. KeptFirst(P) /\ ~Past(P)
    BY <1>2, <1>5, <1>6 DEF KeptFirst, Past
  <2>3. Gated(P)
    BY <1>2, <1>5, <1>6 DEF Gated
  <2> QED BY <2>1, <2>2, <2>3
<1>9. ASSUME s[1] = "check" PROVE Checking(P)
  <2>1. 4 \in 1 .. Len(P) /\ 4 \in 4 .. Len(P) /\ 4 - 3 = 1
    BY <1>6
  <2>2. P[4] = s[1]
    BY <1>3, <2>1
  <2> QED BY <1>9, <2>1, <2>2 DEF Checking
<1> QED BY <1>1, <1>4, <1>8, <1>9

\* Every request but the one for one's own page is decided on before it does
\* anything else.
LEMMA ProgramFacts ==
  ASSUME NEW k \in Kinds
  PROVE  /\ Program(k) \in Seq(Step) /\ Program(k) # <<>> /\ Head(Program(k)) = "load"
         /\ Ordered(Program(k)) /\ KeptFirst(Program(k))
         /\ k # "me" => Gated(Program(k)) /\ ~Past(Program(k))
         /\ k \in {"update_role", "delete_role"} => Checking(Program(k))
<1> DEFINE P == Program(k)
           Rest == Step \ {"load", "keep", "enforce", "decide", "keep_target"}
<1>1. CASE k = "me"
  <2>1. P = <<"load", "ensure", "load", "query", "load">>
    BY <1>1 DEF Program, Reads
  <2> HIDE DEF P
  <2>2. /\ P \in Seq(Step) /\ Len(P) = 5 /\ Head(P) = "load" /\ P # <<>>
    BY <2>1 DEF Step
  <2>3. P[1] = "load" /\ P[2] = "ensure" /\ P[3] = "load" /\ P[4] = "query" /\ P[5] = "load"
    BY <2>1
  <2>4. \A i \in 1 .. 5 : P[i] \in {"load", "ensure", "query"}
    BY <2>3
  <2>5. Ordered(P) /\ KeptFirst(P)
    BY <2>2, <2>4 DEF Ordered, KeptFirst
  <2> QED BY <1>1, <2>2, <2>5 DEF P
<1>2. CASE k # "me"
  <2>1. \E s \in Seq(Rest) : /\ P = <<"load", "enforce", "decide">> \o s
                             /\ Len(s) \in 1 .. 6
                             /\ \A i \in 1 .. Len(s) : s[i] = "commit" => i = Len(s)
                             /\ k \in {"update_role", "delete_role"} => s[1] = "check"
    <3>1. CASE k \in Reads
      <4> DEFINE s == <<"query">>
      <4>1. P = <<"load", "enforce", "decide">> \o s
        BY <1>2, <3>1 DEF Program, Authorise, Reads
      <4>2. s \in Seq(Rest) /\ Len(s) \in 1 .. 6
            /\ \A i \in 1 .. Len(s) : s[i] = "commit" => i = Len(s)
        BY DEF Step
      <4>3. k \notin {"update_role", "delete_role"}
        BY <3>1 DEF Reads
      <4> HIDE DEF P, Rest, s
      <4> QED BY <4>1, <4>2, <4>3
    <3>2. CASE k = "create_role"
      <4> DEFINE s == <<"check", "write", "commit">>
      <4>1. P = <<"load", "enforce", "decide">> \o s
        BY <3>2 DEF Program, Authorise, Reads
      <4>2. s \in Seq(Rest) /\ Len(s) \in 1 .. 6
            /\ \A i \in 1 .. Len(s) : s[i] = "commit" => i = Len(s)
        BY DEF Step
      <4> HIDE DEF P, Rest, s
      <4> QED BY <3>2, <4>1, <4>2
    <3>3. CASE k \in {"update_role", "delete_role", "assign_permissions", "create_platform",
                      "update_platform", "delete_platform", "create_permission"}
      <4> DEFINE s == <<"check", "write", "invalidate", "commit">>
      <4>1. P = <<"load", "enforce", "decide">> \o s
        BY <3>3 DEF Program, Authorise, Reads
      <4>2. s \in Seq(Rest) /\ Len(s) \in 1 .. 6 /\ s[1] = "check"
            /\ \A i \in 1 .. Len(s) : s[i] = "commit" => i = Len(s)
        BY DEF Step
      <4> HIDE DEF P, Rest, s
      <4> QED BY <4>1, <4>2
    <3>4. CASE k \in {"assign_users", "set_user_roles", "create_employee"}
      <4> DEFINE s == <<"check", "write", "forget", "commit">>
      <4>1. P = <<"load", "enforce", "decide">> \o s
        BY <3>4 DEF Program, Authorise, Reads
      <4>2. s \in Seq(Rest) /\ Len(s) \in 1 .. 6
            /\ \A i \in 1 .. Len(s) : s[i] = "commit" => i = Len(s)
        BY DEF Step
      <4> HIDE DEF P, Rest, s
      <4> QED BY <3>4, <4>1, <4>2
    <3>5. CASE k = "update_employee"
      <4> DEFINE s == <<"check", "target", "spare", "write", "forget", "commit">>
      <4>1. P = <<"load", "enforce", "decide">> \o s
        BY <3>5 DEF Program, Authorise, Reads
      <4>2. s \in Seq(Rest) /\ Len(s) \in 1 .. 6
            /\ \A i \in 1 .. Len(s) : s[i] = "commit" => i = Len(s)
        BY DEF Step
      <4> HIDE DEF P, Rest, s
      <4> QED BY <3>5, <4>1, <4>2
    <3>6. CASE k = "delete_employee"
      <4> DEFINE s == <<"write", "forget", "check", "target", "spare", "commit">>
      <4>1. P = <<"load", "enforce", "decide">> \o s
        BY <3>6 DEF Program, Authorise, Reads
      <4>2. s \in Seq(Rest) /\ Len(s) \in 1 .. 6
            /\ \A i \in 1 .. Len(s) : s[i] = "commit" => i = Len(s)
        BY DEF Step
      <4> HIDE DEF P, Rest, s
      <4> QED BY <3>6, <4>1, <4>2
    <3>7. CASE k = "reset_password"
      <4> DEFINE s == <<"check", "target", "spare", "save", "revoke">>
      <4>1. P = <<"load", "enforce", "decide">> \o s
        BY <3>7 DEF Program, Authorise, Reads
      <4>2. s \in Seq(Rest) /\ Len(s) \in 1 .. 6
            /\ \A i \in 1 .. Len(s) : s[i] = "commit" => i = Len(s)
        BY DEF Step
      <4> HIDE DEF P, Rest, s
      <4> QED BY <3>7, <4>1, <4>2
    <3> HIDE DEF P, Rest
    <3> QED BY <1>2, <3>1, <3>2, <3>3, <3>4, <3>5, <3>6, <3>7 DEF Kinds
  <2> HIDE DEF P, Rest
  <2>2. PICK s \in Seq(Rest) : /\ P = <<"load", "enforce", "decide">> \o s
                               /\ Len(s) \in 1 .. 6
                               /\ \A i \in 1 .. Len(s) : s[i] = "commit" => i = Len(s)
                               /\ k \in {"update_role", "delete_role"} => s[1] = "check"
    BY <2>1, Zenon
  <2>3. s \in Seq(Step) /\ \A i \in 1 .. Len(s) : s[i] \in Rest
    BY <2>2 DEF Rest
  <2>4. \A i \in 1 .. Len(s) :
          /\ s[i] \notin {"load", "keep", "enforce", "decide", "keep_target"}
          /\ s[i] = "commit" => i = Len(s)
    BY <2>2, <2>3 DEF Rest
  <2>5. /\ P \in Seq(Step) /\ P # <<>> /\ Head(P) = "load"
        /\ Ordered(P) /\ KeptFirst(P) /\ Gated(P) /\ ~Past(P)
        /\ s[1] = "check" => Checking(P)
    <3>1. /\ s \in Seq(Step) /\ Len(s) \in 1 .. 6
          /\ P = <<"load", "enforce", "decide">> \o s
      BY <2>2, <2>3, Zenon
    <3> QED BY <2>4, <3>1, GatePrefix
  <2>6. k \in {"update_role", "delete_role"} => Checking(P)
    BY <2>2, <2>5, Zenon
  <2>7. /\ P \in Seq(Step) /\ P # <<>> /\ Head(P) = "load"
        /\ Ordered(P) /\ KeptFirst(P) /\ (k # "me" => Gated(P) /\ ~Past(P))
        /\ (k \in {"update_role", "delete_role"} => Checking(P))
    BY <2>5, <2>6
  <2> QED BY <2>7 DEF P
<1> QED BY <1>1, <1>2

-----------------------------------------------------------------------------
(* The built-in roles in the tables *)

Rows(d) == DOMAIN d = DOMAIN EmptyDatabase /\ DOMAIN d.roles = Role

BuiltinOn(d) == \A r \in BuiltinRoles : d.roles[r] = "on"

\* What the checks of role requests leave to be relied on when they commit.
Spares(o, s) ==
  /\ o.kind = "update_role" => BuiltinOn(s) /\ (o.status = "off" => o.role \notin BuiltinRoles)
  /\ o.kind = "delete_role" => o.role \notin BuiltinRoles

LEMMA UpdateStatus ==
  ASSUME NEW o \in Input, o.kind = "update_role"
  PROVE  o.status \in {"keep", "on", "off"}
BY DEF Input, RoleInput, EmployeeInput, PlatformInput, ReadInput, CreateRoleInput,
  UpdateRoleInput, DeleteRoleInput, AssignPermissionsInput, AssignUsersInput,
  SetUserRolesInput, CreateEmployeeInput, UpdateEmployeeInput, DeleteEmployeeInput,
  ResetPasswordInput, CreatePlatformInput, UpdatePlatformInput, DeletePlatformInput,
  CreatePermissionInput, Reads

\* No operation but those on roles touches the roles.
LEMMA EffectKeeps ==
  ASSUME NEW d, Rows(d), BuiltinOn(d), NEW s, NEW o \in Input, Spares(o, s)
  PROVE  Rows(Effect(d, s, o)) /\ BuiltinOn(Effect(d, s, o))
<1> DEFINE e == Effect(d, s, o)
<1>1. CASE o.kind = "create_role"
  <2>1. e = CreateRole(d, o)
    BY <1>1 DEF Effect
  <2> QED BY <2>1 DEF CreateRole, Rows, BuiltinOn, EmptyDatabase
<1>2. CASE o.kind = "update_role"
  <2>1. e = UpdateRole(d, s, o)
    BY <1>2 DEF Effect
  <2>2. CASE RoleLives(d, o.role)
    <3> DEFINE x == IF o.status = "keep" THEN s.roles[o.role] ELSE o.status
    <3>1. e = [d EXCEPT !.roles[o.role] = x]
      BY <2>1, <2>2 DEF UpdateRole
    <3>2. o.role \in BuiltinRoles => x = "on"
      BY <1>2, UpdateStatus DEF Spares, BuiltinOn
    <3> HIDE DEF x, e
    <3> QED BY <3>1, <3>2 DEF Rows, BuiltinOn, EmptyDatabase, e
  <2> QED BY <2>1, <2>2 DEF UpdateRole
<1>3. CASE o.kind = "delete_role"
  <2>1. e = DeleteRole(d, o)
    BY <1>3 DEF Effect
  <2>2. o.role \notin BuiltinRoles
    BY <1>3 DEF Spares
  <2> QED BY <2>1, <2>2 DEF DeleteRole, Rows, BuiltinOn, EmptyDatabase
<1>4. CASE o.kind \in Kinds \ {"create_role", "update_role", "delete_role"}
  <2> SUFFICES DOMAIN e = DOMAIN d /\ e.roles = d.roles
    BY DEF Rows, BuiltinOn
  <2>1. CASE o.kind \in {"assign_permissions", "assign_users", "set_user_roles"}
    <3>1. e = AssignPermissions(d, o) \/ e = AssignUsers(d, o) \/ e = SetUserRoles(d, o)
      BY <2>1 DEF Effect
    <3> QED BY <3>1 DEF AssignPermissions, AssignUsers, SetUserRoles, Rows, EmptyDatabase
  <2>2. CASE o.kind \in {"create_employee", "update_employee", "delete_employee",
                         "reset_password"}
    <3>1. \/ e = CreateEmployee(d, s, o) \/ e = UpdateEmployee(d, s, o)
          \/ e = DeleteEmployee(d, o) \/ e = ResetPassword(d, o)
      BY <2>2 DEF Effect
    <3> QED BY <3>1 DEF CreateEmployee, UpdateEmployee, DeleteEmployee, ResetPassword, Rows,
              EmptyDatabase
  <2>3. CASE o.kind \in {"create_platform", "update_platform", "delete_platform",
                         "create_permission"}
    <3>1. \/ e = CreatePlatform(d, o) \/ e = UpdatePlatform(d, s, o)
          \/ e = DeletePlatform(d, o) \/ e = CreatePermission(d, o)
      BY <2>3 DEF Effect
    <3> QED BY <3>1 DEF CreatePlatform, UpdatePlatform, DeletePlatform, CreatePermission, Rows,
              EmptyDatabase
  <2>4. CASE o.kind \in Reads \cup {"me"}
    <3>1. e = d
      BY <2>4 DEF Effect, Reads
    <3> QED BY <3>1
  <2> QED BY <1>4, <2>1, <2>2, <2>3, <2>4 DEF Kinds
<1> QED BY <1>1, <1>2, <1>3, <1>4, InputKinds

\* Nor does the bootstrap.
LEMMA InitKeeps ==
  ASSUME NEW d, Rows(d), BuiltinOn(d)
  PROVE  Rows(InitRBAC(d)) /\ BuiltinOn(InitRBAC(d))
<1> DEFINE a == initRootPlatform(d)
           b == initBuiltinRoles(a)
           c == initBuiltinPermissions(b)
           e == initRolePermissions(c)
<1>1. Rows(a) /\ BuiltinOn(a)
  BY DEF initRootPlatform, Rows, BuiltinOn, EmptyDatabase
<1> HIDE DEF a
<1>2. Rows(b) /\ BuiltinOn(b)
  BY <1>1 DEF initBuiltinRoles, Rows, BuiltinOn, EmptyDatabase, BuiltinRoles
<1> HIDE DEF b
<1>3. Rows(c) /\ BuiltinOn(c)
  BY <1>2 DEF initBuiltinPermissions, AddPermissions, Rows, BuiltinOn, EmptyDatabase
<1> HIDE DEF c
<1>4. Rows(e) /\ BuiltinOn(e)
  BY <1>3 DEF initRolePermissions, AddPermissions, Rows, BuiltinOn, EmptyDatabase
<1> HIDE DEF e
<1>5. Rows(initAdminUser(e)) /\ BuiltinOn(initAdminUser(e))
  BY <1>4 DEF initAdminUser, Rows, BuiltinOn, EmptyDatabase
<1> QED BY <1>5 DEF InitRBAC, a, b, c, e

-----------------------------------------------------------------------------
(* The inductive invariant *)

\* The shape of a request; S is whatever tables, roles and policies it has read.
ReqWith(S) ==
  [todo : Seq(Step), op : {NoOp} \cup Input, who : User, roles : S, rows : S, seen : S,
   tx : {"none", "open", "wrote"}]

GrantFor(r, G, H) ==
  \E g \in G : /\ <<r.who, g[1]>> \in H
               /\ matchPolicy(g[2], Need(r.op.kind)[1], Need(r.op.kind)[2])

\* G and H are the grants and the bindings that were ever committed.
ReqInv(r, G, H) ==
  /\ Ordered(r.todo) /\ KeptFirst(r.todo)
  /\ r.op # NoOp /\ r.op.kind # "me" => Gated(r.todo) /\ (Past(r.todo) => GrantFor(r, G, H))
  /\ Deciding(r.todo) \/ Heads(r.todo, "keep") => \A x \in r.roles : <<r.who, x>> \in H
  /\ Heads(r.todo, "keep_target") /\ r.op.user \in User =>
       \A x \in r.roles : <<r.op.user, x>> \in H
  /\ r.rows \subseteq G
  /\ r.op # NoOp /\ r.todo # <<>> /\ ~Checking(r.todo) => Spares(r.op, r.seen)
  /\ r.op = NoOp => r.todo \in {<<>>, <<"arrive">>}

Shape  == \E S : req \in [Request -> ReqWith(S)]
Tables == /\ Rows(db) /\ BuiltinOn(db)
          /\ ListPolicy(db) \subseteq granted /\ Holding(db) \subseteq held
Caches == /\ policy \subseteq granted /\ DOMAIN cache = User
          /\ \A u \in User : cache[u] # NoRoles => \A x \in cache[u] : <<u, x>> \in held

OaInv ==
  /\ Shape /\ Tables /\ Caches
  /\ \A p \in Request : ReqInv(req[p], granted, held)

\* The invariant implies the properties.
LEMMA Implied == OaInv => AdmittedByGrant /\ BuiltinStays
<1> SUFFICES ASSUME OaInv PROVE AdmittedByGrant /\ BuiltinStays
  OBVIOUS
<1>1. BuiltinStays
  BY DEF OaInv, Tables, BuiltinStays, BuiltinOn
<1>2. ASSUME NEW p \in Request, Admitted(p)
      PROVE  GrantFor(req[p], granted, held)
  <2>1. PICK S : req \in [Request -> ReqWith(S)]
    BY DEF OaInv, Shape
  <2>2. req[p].todo \in Seq(Step)
    BY <2>1 DEF ReqWith
  <2>3. DOMAIN req[p].todo = 1 .. Len(req[p].todo)
    BY <2>2
  <2>4. req[p].op # NoOp /\ req[p].op.kind # "me"
    BY <1>2 DEF Admitted
  <2>5. \A i \in 1 .. Len(req[p].todo) :
          req[p].todo[i] \notin {"load", "keep", "enforce", "decide"}
    BY <1>2, <2>3 DEF Admitted
  <2>6. Past(req[p].todo)
    BY <2>5 DEF Past
  <2> QED BY <2>4, <2>6 DEF OaInv, ReqInv
<1> QED BY <1>1, <1>2 DEF AdmittedByGrant, GrantFor

-----------------------------------------------------------------------------
(* One request's step *)

\* Requests that have ended or not begun.
LEMMA NothingLeft ==
  ASSUME Admin \in User, NEW G, NEW H
  PROVE  /\ Done \in ReqWith({{}, NoDb}) /\ ReqInv(Done, G, H)
         /\ Idle \in ReqWith({{}, NoDb}) /\ ReqInv(Idle, G, H)
<1>1. Done \in ReqWith({{}, NoDb})
  BY DEF Done, ReqWith
<1>2. <<"arrive">> \in Seq(Step)
  BY DEF Step
<1>3. Idle \in ReqWith({{}, NoDb})
  BY <1>1, <1>2 DEF Idle, ReqWith
<1>4. Done.todo = <<>> /\ Done.op = NoOp /\ Done.roles = {} /\ Done.rows = {}
  BY DEF Done
<1>5. Idle.todo = <<"arrive">> /\ Idle.op = NoOp /\ Idle.roles = {} /\ Idle.rows = {}
  BY <1>4 DEF Idle, Done
<1>6. ReqInv(Done, G, H)
  BY <1>4 DEF ReqInv, Ordered, KeptFirst, Deciding, Heads
<1>7. ReqInv(Idle, G, H)
  BY <1>5 DEF ReqInv, Ordered, KeptFirst, Deciding, Heads
<1> QED BY <1>1, <1>3, <1>6, <1>7

LEMMA Begun ==
  ASSUME NEW r, NEW G, NEW H, ReqInv(r, G, H), r.todo # <<>>, Head(r.todo) # "arrive"
  PROVE  r.op # NoOp
BY DEF ReqInv

\* The three ways in which a list of steps changes.
LEMMA AdvanceKeeps ==
  ASSUME NEW S, NEW r \in ReqWith(S), NEW G, NEW H, ReqInv(r, G, H),
         r.todo # <<>>, Head(r.todo) \notin {"decide", "check", "arrive"}
  PROVE  LET n == [r EXCEPT !.todo = Tail(@)]
         IN  n \in ReqWith(S) /\ ReqInv(n, G, H)
<1> DEFINE n == [r EXCEPT !.todo = Tail(@)]
           t == r.todo
           u == Tail(t)
<1>1. t \in Seq(Step)
  BY DEF ReqWith
<1>2. /\ u \in Seq(Step)
      /\ Gated(t) => Gated(u) /\ (Past(u) => Past(t))
      /\ Ordered(t) => Ordered(u)
      /\ KeptFirst(t) => KeptFirst(u) /\ ~Heads(u, "keep") /\ ~Heads(u, "keep_target")
      /\ Deciding(u) => Deciding(t)
      /\ Checking(t) => Checking(u)
  <2> HIDE DEF t
  <2> QED BY <1>1, TailFacts DEF t
<1>3. /\ n \in ReqWith(S) /\ n.todo = u
      /\ n.op = r.op /\ n.who = r.who /\ n.roles = r.roles /\ n.rows = r.rows /\ n.seen = r.seen
  BY <1>2 DEF ReqWith
<1>4. r.op # NoOp
  BY Begun
<1> HIDE DEF n, t, u
<1> QED BY <1>2, <1>3, <1>4 DEF ReqInv, GrantFor, n, t

LEMMA PushKeeps ==
  ASSUME NEW S, NEW r \in ReqWith(S), NEW G, NEW H, ReqInv(r, G, H),
         r.todo # <<>>, Head(r.todo) \notin {"decide", "check", "arrive"},
         NEW s \in Seq({"read", "install", "stale"}), s # <<>>
  PROVE  LET n == [r EXCEPT !.todo = s \o Tail(@)]
         IN  n \in ReqWith(S) /\ ReqInv(n, G, H)
<1> DEFINE n == [r EXCEPT !.todo = s \o Tail(@)]
           t == r.todo
           u == Tail(t)
           v == s \o u
<1>1. t \in Seq(Step) /\ u \in Seq(Step)
  BY TailFacts DEF ReqWith
<1>2. v \in Seq(Step)
  BY <1>1, PlainFacts
<1>3. /\ n \in ReqWith(S) /\ n.todo = v
      /\ n.op = r.op /\ n.who = r.who /\ n.roles = r.roles /\ n.rows = r.rows /\ n.seen = r.seen
  BY <1>2 DEF ReqWith
<1>4. /\ Ordered(t) => Ordered(v)
      /\ KeptFirst(t) => KeptFirst(v)
      /\ Gated(t) => Gated(v) /\ (Past(v) => Past(t))
      /\ Deciding(v) => Deciding(t)
      /\ Checking(t) => Checking(v)
      /\ ~Heads(v, "keep") /\ ~Heads(v, "keep_target")
  <2> HIDE DEF t
  <2> QED BY <1>1, TailFacts, PlainFacts DEF t
<1>5. r.op # NoOp
  BY Begun
<1> HIDE DEF n, t, u, v
<1> QED BY <1>3, <1>4, <1>5 DEF ReqInv, GrantFor, n, t

LEMMA KeepKeeps ==
  ASSUME NEW S, NEW r \in ReqWith(S), NEW G, NEW H, ReqInv(r, G, H), NEW R \in S,
         r.todo # <<>>, NEW k \in {"keep", "keep_target"},
         Head(r.todo) = IF k = "keep" THEN "load" ELSE "target",
         LET u == IF k = "keep" THEN r.who ELSE r.op.user
         IN  u \in User => \A x \in R : <<u, x>> \in H
  PROVE  LET n == [[r EXCEPT !.todo = <<k>> \o Tail(@)] EXCEPT !.roles = R]
         IN  n \in ReqWith(S) /\ ReqInv(n, G, H)
<1> DEFINE n == [[r EXCEPT !.todo = <<k>> \o Tail(@)] EXCEPT !.roles = R]
           t == r.todo
           v == <<k>> \o Tail(t)
<1>1. t \in Seq(Step) /\ KeptFirst(t) /\ Ordered(t) /\ r.who \in User
  BY DEF ReqWith, ReqInv
<1>2. /\ v \in Seq(Step)
      /\ Gated(t) => Gated(v)
      /\ Ordered(v) /\ KeptFirst(v)
      /\ Heads(v, k)
      /\ Deciding(v) => Deciding(t) /\ k = "keep"
      /\ Past(v) => k = "keep_target" /\ Past(t)
      /\ Checking(t) => Checking(v)
  <2> HIDE DEF t
  <2> QED BY <1>1, KeepFacts DEF t
<1>3. /\ n \in ReqWith(S) /\ n.todo = v
      /\ n.op = r.op /\ n.who = r.who /\ n.roles = R /\ n.rows = r.rows /\ n.seen = r.seen
  BY <1>2 DEF ReqWith
<1>4. /\ k = "keep" => \A x \in R : <<r.who, x>> \in H
      /\ k = "keep_target" /\ r.op.user \in User => \A x \in R : <<r.op.user, x>> \in H
  BY <1>1
<1>5. ~Heads(v, IF k = "keep" THEN "keep_target" ELSE "keep")
  BY <1>2 DEF Heads
<1>6. r.todo # <<>> /\ (~Checking(v) => ~Checking(t))
  BY <1>2
<1>7. r.op # NoOp
  BY Begun
<1> HIDE DEF n, t, v
<1> QED BY <1>1, <1>2, <1>3, <1>4, <1>5, <1>6, <1>7 DEF ReqInv, GrantFor, n, t

\* What was once granted and held stays so.
LEMMA HistoryGrows ==
  ASSUME NEW r, NEW G, NEW H, ReqInv(r, G, H), NEW G2, NEW H2, G \subseteq G2, H \subseteq H2
  PROVE  ReqInv(r, G2, H2)
<1>1. GrantFor(r, G, H) => GrantFor(r, G2, H2)
  BY DEF GrantFor
<1> QED BY <1>1 DEF ReqInv

\* What else a step writes into the request.
LEMMA RowsKeep ==
  ASSUME NEW S, NEW r \in ReqWith(S), NEW G, NEW H, ReqInv(r, G, H), NEW R \in S, R \subseteq G
  PROVE  LET n == [r EXCEPT !.rows = R] IN n \in ReqWith(S) /\ ReqInv(n, G, H)
<1> DEFINE n == [r EXCEPT !.rows = R]
<1>1. /\ n \in ReqWith(S) /\ n.todo = r.todo /\ n.rows = R
      /\ n.op = r.op /\ n.who = r.who /\ n.roles = r.roles /\ n.seen = r.seen
  BY DEF ReqWith
<1> HIDE DEF n
<1> QED BY <1>1 DEF ReqInv, GrantFor, n

LEMMA TxKeep ==
  ASSUME NEW S, NEW r \in ReqWith(S), NEW G, NEW H, ReqInv(r, G, H),
         NEW x \in {"none", "open", "wrote"}
  PROVE  LET n == [r EXCEPT !.tx = x] IN n \in ReqWith(S) /\ ReqInv(n, G, H)
<1> DEFINE n == [r EXCEPT !.tx = x]
<1>1. /\ n \in ReqWith(S) /\ n.todo = r.todo /\ n.rows = r.rows
      /\ n.op = r.op /\ n.who = r.who /\ n.roles = r.roles /\ n.seen = r.seen
  BY DEF ReqWith
<1> HIDE DEF n
<1> QED BY <1>1 DEF ReqInv, GrantFor, n

\* A step of one request that leaves the tables and the caches alone.
LEMMA OwnStep ==
  ASSUME OaInv, NEW p \in Request, NEW S, req \in [Request -> ReqWith(S)],
         NEW T, NEW r \in ReqWith(T), S \subseteq T, Becomes(p, r), ReqInv(r, granted, held), KeepDb
  PROVE  Shape' /\ Tables' /\ \A q \in Request : ReqInv(req[q], granted, held)'
<1>1. \A q \in Request : req'[q] = IF q = p THEN r ELSE req[q]
  BY DEF Becomes
<1>2. \A q \in Request : req'[q] \in ReqWith(T)
  BY <1>1 DEF ReqWith
<1>3. req' \in [Request -> ReqWith(T)]
  BY <1>2 DEF Becomes
<1>4. Shape'
  BY <1>3 DEF Shape
<1>5. Tables'
  BY DEF OaInv, Tables, KeepDb, Rows, BuiltinOn, ListPolicy, Holding, FindRoleCodesByUserID
<1>6. \A q \in Request : ReqInv(req[q], granted, held)'
  BY <1>1 DEF OaInv, KeepDb
<1> QED BY <1>4, <1>5, <1>6

LEMMA EndStep ==
  ASSUME OaInv, NEW p \in Request, Ends(p), KeepDb
  PROVE  Shape' /\ Tables' /\ \A q \in Request : ReqInv(req[q], granted, held)'
<1>1. PICK S : req \in [Request -> ReqWith(S)]
  BY DEF OaInv, Shape
<1> DEFINE T == S \cup {{}, NoDb}
<1>2. Done \in ReqWith(T) /\ ReqInv(Done, granted, held)
  BY NothingLeft, StoreAssumption DEF ReqWith
<1> HIDE DEF T
<1> QED BY <1>1, <1>2, OwnStep DEF Ends, T

LEMMA NextStep ==
  ASSUME OaInv, NEW p \in Request, NEW k \in Step \ {"decide", "check", "arrive"}, At(p, k),
         Becomes(p, Next1(p)), KeepDb
  PROVE  Shape' /\ Tables' /\ \A q \in Request : ReqInv(req[q], granted, held)'
<1>1. PICK S : req \in [Request -> ReqWith(S)]
  BY DEF OaInv, Shape
<1>2. req[p] \in ReqWith(S) /\ ReqInv(req[p], granted, held)
  BY <1>1 DEF OaInv
<1>3. Next1(p) \in ReqWith(S) /\ ReqInv(Next1(p), granted, held)
  BY <1>2, AdvanceKeeps DEF At, Next1
<1> QED BY <1>1, <1>3, OwnStep

LEMMA PushStep ==
  ASSUME OaInv, NEW p \in Request, NEW k \in Step \ {"decide", "check", "arrive"}, At(p, k),
         NEW s \in Seq({"read", "install", "stale"}), s # <<>>, Becomes(p, Push(p, s)), KeepDb
  PROVE  Shape' /\ Tables' /\ \A q \in Request : ReqInv(req[q], granted, held)'
<1>1. PICK S : req \in [Request -> ReqWith(S)]
  BY DEF OaInv, Shape
<1>2. req[p] \in ReqWith(S) /\ ReqInv(req[p], granted, held)
  BY <1>1 DEF OaInv
<1>3. Push(p, s) \in ReqWith(S) /\ ReqInv(Push(p, s), granted, held)
  BY <1>2, PushKeeps DEF At, Push
<1> QED BY <1>1, <1>3, OwnStep

LEMMA CachesStay == Caches /\ KeepDb /\ UNCHANGED enforcer => Caches'
BY DEF Caches, KeepDb, enforcer

LEMMA StepNames ==
  /\ {"load", "keep", "enforce", "ensure", "read", "install", "query", "target",
      "keep_target", "spare", "write", "invalidate", "stale", "forget", "save"}
       \subseteq Step \ {"decide", "check", "arrive"}
  /\ <<"read">> \in Seq({"read", "install", "stale"})
  /\ <<"install">> \in Seq({"read", "install", "stale"})
  /\ <<"stale", "read">> \in Seq({"read", "install", "stale"})
  /\ <<"read">> # <<>> /\ <<"install">> # <<>> /\ <<"stale", "read">> # <<>>
BY DEF Step

-----------------------------------------------------------------------------
(* The actions of a request *)

LEMMA ArriveKeeps == ASSUME OaInv, NEW p \in Request, Arrive(p) PROVE OaInv'
<1>1. PICK S : req \in [Request -> ReqWith(S)]
  BY DEF OaInv, Shape
<1>2. PICK o \in Op :
        Becomes(p, [Done EXCEPT !.todo = Program(o[2].kind), !.who = o[1], !.op = o[2]])
  BY DEF Arrive
<1> DEFINE k == o[2].kind
           n == [Done EXCEPT !.todo = Program(k), !.who = o[1], !.op = o[2]]
           T == S \cup {{}, NoDb}
<1>3. o[1] \in User /\ o[2] \in Input
  BY BackendAssumption
<1>4. k \in Kinds
  BY <1>3, InputKinds
<1>5. /\ Program(k) \in Seq(Step) /\ Program(k) # <<>> /\ Head(Program(k)) = "load"
      /\ Ordered(Program(k)) /\ KeptFirst(Program(k))
      /\ k # "me" => Gated(Program(k)) /\ ~Past(Program(k))
      /\ k \in {"update_role", "delete_role"} => Checking(Program(k))
  <2> HIDE DEF k
  <2> QED BY <1>4, ProgramFacts
<1>6. /\ n \in ReqWith(T) /\ n.todo = Program(k) /\ n.op = o[2] /\ n.roles = {} /\ n.rows = {}
  <2> HIDE DEF k
  <2> QED BY <1>3, <1>5 DEF Done, ReqWith
<1>7. ReqInv(n, granted, held)
  <2>1. n.op.kind = k
    BY <1>6
  <2> HIDE DEF n, k, T
  <2>2. n.op # NoOp
    BY <1>3, <1>6, BackendAssumption
  <2> QED BY <1>5, <1>6, <2>1, <2>2 DEF ReqInv, Heads, Spares
<1>8. KeepDb /\ UNCHANGED enforcer /\ Becomes(p, n)
  BY <1>2 DEF Arrive
<1> HIDE DEF n, T
<1>9. Shape' /\ Tables' /\ \A q \in Request : ReqInv(req[q], granted, held)'
  BY <1>1, <1>6, <1>7, <1>8, OwnStep DEF T
<1> QED BY <1>8, <1>9, CachesStay DEF OaInv

\* Roles, from the cache or the tables, and into the cache.
LEMMA LoadKeeps ==
  ASSUME OaInv, NEW p \in Request, RolesCached(p) \/ ReadRoles(p) \/ KeepRoles(p)
  PROVE  OaInv'
<1>1. PICK S : req \in [Request -> ReqWith(S)]
  BY DEF OaInv, Shape
<1>2. /\ req[p] \in ReqWith(S) /\ ReqInv(req[p], granted, held)
      /\ req[p].todo \in Seq(Step) /\ req[p].who \in User
  BY <1>1 DEF OaInv, ReqWith
<1> DEFINE u == Subject(p)
<1>3. CASE RolesCached(p)
  <2> DEFINE R == cache[u]
             T == S \cup {R}
             n == [Next1(p) EXCEPT !.roles = R]
  <2>1. PICK k \in {"load", "target"} : At(p, k)
    BY <1>3 DEF RolesCached
  <2>2. u = IF k = "load" THEN req[p].who ELSE req[p].op.user
    BY <2>1 DEF Subject, At
  <2>3. u \in User => \A x \in R : <<u, x>> \in held
    BY <1>3 DEF RolesCached, OaInv, Caches
  <2>4. Next1(p) \in ReqWith(S) /\ ReqInv(Next1(p), granted, held)
    BY <1>2, <2>1, AdvanceKeeps DEF At, Next1
  <2>5. /\ Next1(p).todo = Tail(req[p].todo) /\ Next1(p).who = req[p].who
        /\ Next1(p).op = req[p].op
    BY <1>2 DEF Next1, ReqWith
  <2>6. /\ n \in ReqWith(T) /\ n.todo = Tail(req[p].todo) /\ n.who = req[p].who
        /\ n.op = req[p].op /\ n.roles = R /\ n.rows = Next1(p).rows /\ n.seen = Next1(p).seen
    <3> HIDE DEF R
    <3> QED BY <2>4, <2>5 DEF ReqWith
  <2>7. /\ ~Heads(n.todo, "keep") /\ ~Heads(n.todo, "keep_target")
        /\ Deciding(n.todo) => k = "load"
    <3>1. req[p].todo # <<>> /\ Head(req[p].todo) = k /\ KeptFirst(req[p].todo)
          /\ Ordered(req[p].todo)
      BY <1>2, <2>1 DEF At, ReqInv
    <3>2. ~Heads(n.todo, "keep") /\ ~Heads(n.todo, "keep_target")
      BY <1>2, <2>6, <3>1, TailFacts
    <3>3. ASSUME Deciding(n.todo) PROVE k = "load"
      <4>1. PICK j \in 1 .. Len(Tail(req[p].todo)) : Tail(req[p].todo)[j] = "decide"
        BY <2>6, <3>3 DEF Deciding
      <4>2. /\ req[p].todo[j + 1] = "decide" /\ j + 1 \in 1 .. Len(req[p].todo)
            /\ 1 \in 1 .. Len(req[p].todo) /\ 1 < j + 1 /\ req[p].todo[1] = k
        BY <1>2, <3>1, <4>1
      <4> QED BY <3>1, <4>2 DEF Ordered
    <3> QED BY <3>2, <3>3
  <2>8. ReqInv(n, granted, held)
    <3> HIDE DEF n, R, u
    <3> QED BY <1>2, <2>2, <2>3, <2>4, <2>5, <2>6, <2>7 DEF ReqInv, GrantFor
  <2>9. KeepDb /\ UNCHANGED enforcer /\ Becomes(p, n)
    BY <1>3 DEF RolesCached
  <2> HIDE DEF n, T
  <2>10. Shape' /\ Tables' /\ \A q \in Request : ReqInv(req[q], granted, held)'
    BY <1>1, <2>6, <2>8, <2>9, OwnStep DEF T
  <2> QED BY <2>9, <2>10, CachesStay DEF OaInv
<1>4. CASE ReadRoles(p)
  <2> DEFINE R == FindRoleCodesByUserID(db, u)
             T == S \cup {R}
  <2>1. PICK k \in {"keep", "keep_target"} : At(p, IF k = "keep" THEN "load" ELSE "target")
    BY <1>4 DEF ReadRoles
  <2> DEFINE n == [[req[p] EXCEPT !.todo = <<k>> \o Tail(@)] EXCEPT !.roles = R]
  <2>2. u = IF k = "keep" THEN req[p].who ELSE req[p].op.user
    BY <2>1 DEF Subject, At
  <2>3. u \in User => \A x \in R : <<u, x>> \in held
    BY DEF OaInv, Tables, Holding, FindRoleCodesByUserID
  <2>4. n \in ReqWith(T) /\ ReqInv(n, granted, held)
    <3>1. req[p] \in ReqWith(T) /\ R \in T
      BY <1>2 DEF ReqWith
    <3>2. req[p].todo # <<>> /\ Head(req[p].todo) = IF k = "keep" THEN "load" ELSE "target"
      BY <2>1 DEF At
    <3> HIDE DEF R, T, u
    <3> QED BY <1>2, <2>2, <2>3, <3>1, <3>2, KeepKeeps
  <2>5. KeepDb /\ UNCHANGED enforcer /\ Becomes(p, n)
    BY <1>4, <2>1 DEF ReadRoles, Push, At
  <2> HIDE DEF n, T
  <2>6. Shape' /\ Tables' /\ \A q \in Request : ReqInv(req[q], granted, held)'
    BY <1>1, <2>4, <2>5, OwnStep DEF T
  <2> QED BY <2>5, <2>6, CachesStay DEF OaInv
<1>5. CASE KeepRoles(p)
  <2>1. PICK k \in {"keep", "keep_target"} : At(p, k)
    BY <1>5 DEF KeepRoles
  <2>2. k \in Step \ {"decide", "check", "arrive"} /\ Becomes(p, Next1(p)) /\ KeepDb
    BY <1>5, <2>1, StepNames DEF KeepRoles
  <2>3. Shape' /\ Tables' /\ \A q \in Request : ReqInv(req[q], granted, held)'
    BY <2>1, <2>2, NextStep
  <2>4. u = IF k = "keep" THEN req[p].who ELSE req[p].op.user
    BY <2>1 DEF Subject, At
  <2>5. u \in User => \A x \in req[p].roles : <<u, x>> \in held
    BY <1>2, <2>1, <2>4 DEF ReqInv, Heads, At
  <2> HIDE DEF u
  <2>6. Caches'
    <3>1. cache' = [cache EXCEPT ![u] = req[p].roles] /\ UNCHANGED <<policy, granted, held>>
      BY <1>5 DEF KeepRoles, KeepDb, u
    <3> QED BY <2>5, <3>1 DEF OaInv, Caches
  <2> QED BY <2>3, <2>6 DEF OaInv
<1> QED BY <1>3, <1>4, <1>5

\* The one step that lets a request in.
LEMMA DecideKeeps == ASSUME OaInv, NEW p \in Request, Decide(p) PROVE OaInv'
<1>1. PICK S : req \in [Request -> ReqWith(S)]
  BY DEF OaInv, Shape
<1>2. /\ req[p] \in ReqWith(S) /\ ReqInv(req[p], granted, held)
      /\ req[p].todo \in Seq(Step)
  BY <1>1 DEF OaInv, ReqWith
<1>3. At(p, "decide") /\ KeepDb /\ UNCHANGED enforcer
  BY DEF Decide
<1>4. CASE Covered(p)
  <2> DEFINE n == Next1(p)
             t == req[p].todo
  <2>1. t # <<>> /\ Head(t) = "decide"
    BY <1>3 DEF At
  <2>2. /\ Tail(t) \in Seq(Step)
        /\ Gated(t) => Gated(Tail(t))
        /\ Ordered(t) => Ordered(Tail(t))
        /\ KeptFirst(t) => KeptFirst(Tail(t))
        /\ KeptFirst(t) => ~Heads(Tail(t), "keep") /\ ~Heads(Tail(t), "keep_target")
        /\ Deciding(Tail(t)) => Deciding(t)
        /\ Checking(t) => Checking(Tail(t))
    <3> HIDE DEF t
    <3> QED BY <1>2, <2>1, TailFacts DEF t
  <2>3. /\ n \in ReqWith(S) /\ n.todo = Tail(t) /\ n.op = req[p].op /\ n.who = req[p].who
        /\ n.roles = req[p].roles /\ n.rows = req[p].rows /\ n.seen = req[p].seen
    BY <1>2, <2>2 DEF Next1, ReqWith
  <2>4. Deciding(t)
    <3>1. 1 \in 1 .. Len(t) /\ t[1] = "decide"
      BY <1>2, <2>1
    <3> QED BY <3>1 DEF Deciding
  <2>5. GrantFor(req[p], granted, held)
    <3>1. PICK r \in req[p].roles, c \in Code :
            /\ <<r, c>> \in policy
            /\ matchPolicy(c, Need(req[p].op.kind)[1], Need(req[p].op.kind)[2])
      BY <1>4 DEF Covered
    <3>2. <<r, c>> \in granted
      BY <3>1 DEF OaInv, Caches
    <3>3. <<req[p].who, r>> \in held
      BY <1>2, <2>4, <3>1 DEF ReqInv
    <3> DEFINE g == <<r, c>>
    <3>4. g \in granted /\ g[1] = r /\ g[2] = c
      BY <3>2
    <3> HIDE DEF g
    <3> QED BY <3>1, <3>3, <3>4 DEF GrantFor
  <2>6. ReqInv(n, granted, held)
    <3>1. req[p].op # NoOp
      BY <1>2, <2>1, Begun
    <3> HIDE DEF n, t
    <3> QED BY <1>2, <2>1, <2>2, <2>3, <2>4, <2>5, <3>1 DEF ReqInv, GrantFor, t
  <2>7. Becomes(p, n)
    BY <1>4 DEF Decide
  <2> HIDE DEF n
  <2>8. Shape' /\ Tables' /\ \A q \in Request : ReqInv(req[q], granted, held)'
    BY <1>1, <1>3, <2>3, <2>6, <2>7, OwnStep
  <2> QED BY <1>3, <2>8, CachesStay DEF OaInv
<1>5. CASE ~Covered(p)
  <2>1. Ends(p)
    BY <1>5 DEF Decide
  <2> QED BY <1>3, <2>1, EndStep, CachesStay DEF OaInv
<1> QED BY <1>4, <1>5

\* Steps that only move on, end the request or ask the Enforcer.
LEMMA PlainKeeps ==
  ASSUME OaInv, NEW p \in Request,
         \/ NoRoleDenied(p) \/ EnsurePolicy(p) \/ Unauthenticated(p) \/ Query(p) \/ Refuse(p)
         \/ SpareAdmin(p) \/ RevokeUserSessions(p) \/ StatementFails(p)
  PROVE  OaInv'
<1>1. KeepDb /\ UNCHANGED enforcer
  BY DEF NoRoleDenied, EnsurePolicy, Unauthenticated, Query, Refuse, SpareAdmin,
         RevokeUserSessions, StatementFails
<1>2. SUFFICES Shape' /\ Tables' /\ \A q \in Request : ReqInv(req[q], granted, held)'
  BY <1>1, CachesStay DEF OaInv
<1>3. \/ Ends(p)
      \/ \E k \in {"enforce", "ensure", "query", "spare", "read"} :
           At(p, k) /\ (Becomes(p, Next1(p)) \/ Becomes(p, Push(p, <<"read">>)))
  <2>1. CASE EnsurePolicy(p)
    BY <2>1 DEF EnsurePolicy
  <2>2. CASE ~EnsurePolicy(p)
    BY <2>2 DEF NoRoleDenied, Unauthenticated, Query, Refuse, SpareAdmin, RevokeUserSessions,
              StatementFails
  <2> QED BY <2>1, <2>2
<1>4. CASE Ends(p)
  BY <1>1, <1>4, EndStep
<1>5. CASE ~Ends(p)
  <2>1. PICK k \in {"enforce", "ensure", "query", "spare", "read"} :
          At(p, k) /\ (Becomes(p, Next1(p)) \/ Becomes(p, Push(p, <<"read">>)))
    BY <1>3, <1>5
  <2>2. k \in Step \ {"decide", "check", "arrive"}
    BY StepNames
  <2> QED BY <1>1, <2>1, <2>2, NextStep, PushStep, StepNames
<1> QED BY <1>4, <1>5

\* The policy, from the tables into the cache.
LEMMA PolicyKeeps ==
  ASSUME OaInv, NEW p \in Request, ReadPolicy(p) \/ InstallPolicy(p)
  PROVE  OaInv'
<1>1. PICK S : req \in [Request -> ReqWith(S)]
  BY DEF OaInv, Shape
<1>2. req[p] \in ReqWith(S) /\ ReqInv(req[p], granted, held)
  BY <1>1 DEF OaInv
<1>3. CASE ReadPolicy(p)
  <2> DEFINE T == S \cup {ListPolicy(db)}
             m == Push(p, <<"install">>)
             n == [m EXCEPT !.rows = ListPolicy(db)]
  <2>1. m \in ReqWith(S) /\ ReqInv(m, granted, held)
    BY <1>2, <1>3, PushKeeps, StepNames DEF ReadPolicy, At, Push
  <2>2. m \in ReqWith(T) /\ ListPolicy(db) \in T /\ ListPolicy(db) \subseteq granted
    BY <2>1 DEF ReqWith, OaInv, Tables
  <2>3. KeepDb /\ UNCHANGED enforcer /\ Becomes(p, n)
    BY <1>3 DEF ReadPolicy
  <2> HIDE DEF T, m
  <2>4. n \in ReqWith(T) /\ ReqInv(n, granted, held)
    BY <2>1, <2>2, RowsKeep
  <2> HIDE DEF n
  <2>5. S \subseteq T
    BY DEF T
  <2>6. Shape' /\ Tables' /\ \A q \in Request : ReqInv(req[q], granted, held)'
    BY <1>1, <2>3, <2>4, <2>5, OwnStep
  <2> QED BY <2>3, <2>6, CachesStay DEF OaInv
<1>4. CASE InstallPolicy(p)
  <2> DEFINE T == S \cup {{}}
             m == Next1(p)
             n == [m EXCEPT !.rows = {}]
  <2>1. m \in ReqWith(S) /\ ReqInv(m, granted, held)
    BY <1>2, <1>4, AdvanceKeeps DEF InstallPolicy, At, Next1
  <2>2. m \in ReqWith(T) /\ {} \in T /\ S \subseteq T
    BY <2>1 DEF ReqWith
  <2>3. KeepDb /\ Becomes(p, n) /\ policy' = req[p].rows /\ UNCHANGED cache
    BY <1>4 DEF InstallPolicy
  <2> HIDE DEF T, m
  <2>4. n \in ReqWith(T) /\ ReqInv(n, granted, held)
    BY <2>1, <2>2, RowsKeep
  <2> HIDE DEF n
  <2>5. Shape' /\ Tables' /\ \A q \in Request : ReqInv(req[q], granted, held)'
    BY <1>1, <2>2, <2>3, <2>4, OwnStep
  <2>6. Caches'
    BY <1>2, <2>3 DEF OaInv, Caches, KeepDb, ReqInv
  <2> QED BY <2>5, <2>6 DEF OaInv
<1> QED BY <1>3, <1>4

\* What is forgotten cannot admit anybody.
LEMMA ForgettingKeeps ==
  ASSUME OaInv, NEW p \in Request, Invalidate(p) \/ MarkStale(p) \/ Forget(p)
  PROVE  OaInv'
<1>1. KeepDb /\ UNCHANGED policy
  BY DEF Invalidate, MarkStale, Forget, enforcer
<1>2. Caches'
  <2>1. CASE UNCHANGED cache
    BY <1>1, <2>1 DEF OaInv, Caches, KeepDb
  <2>2. CASE cache' = [u \in User |-> NoRoles]
    BY <1>1, <2>2 DEF OaInv, Caches, KeepDb
  <2>3. CASE cache' = [u \in User |-> IF u \in Forgotten(req[p].seen, req[p].op)
                                      THEN NoRoles ELSE cache[u]]
    <3> DEFINE F == Forgotten(req[p].seen, req[p].op)
    <3> HIDE DEF F
    <3>1. cache' = [u \in User |-> IF u \in F THEN NoRoles ELSE cache[u]]
      BY <2>3 DEF F
    <3> QED BY <1>1, <3>1 DEF OaInv, Caches, KeepDb
  <2> QED BY <2>1, <2>2, <2>3 DEF Invalidate, MarkStale, Forget, enforcer
<1>3. PICK k \in {"invalidate", "stale", "forget"} :
        At(p, k) /\ (Becomes(p, Next1(p)) \/ Becomes(p, Push(p, <<"stale", "read">>)))
  BY DEF Invalidate, MarkStale, Forget
<1>4. k \in Step \ {"decide", "check", "arrive"}
  BY StepNames
<1>5. Shape' /\ Tables' /\ \A q \in Request : ReqInv(req[q], granted, held)'
  BY <1>1, <1>3, <1>4, NextStep, PushStep, StepNames
<1> QED BY <1>2, <1>5 DEF OaInv

-----------------------------------------------------------------------------
(* Transactions *)

\* The one step after which a role request may rely on what it has checked.
LEMMA CheckKeeps == ASSUME OaInv, NEW p \in Request, Check(p) PROVE OaInv'
<1>1. PICK S : req \in [Request -> ReqWith(S)]
  BY DEF OaInv, Shape
<1>2. /\ req[p] \in ReqWith(S) /\ ReqInv(req[p], granted, held)
      /\ req[p].todo \in Seq(Step) /\ req[p].op \in {NoOp} \cup Input
  BY <1>1 DEF OaInv, ReqWith
<1>3. At(p, "check") /\ KeepDb /\ UNCHANGED enforcer
  BY DEF Check
<1>4. CASE Allowed(db, req[p].op)
  <2> DEFINE T == S \cup {db}
             t == req[p].todo
             x == IF req[p].tx = "none" /\ InTransaction(p) THEN "open" ELSE req[p].tx
             n == [Next1(p) EXCEPT !.seen = db,
                     !.tx = IF @ = "none" /\ InTransaction(p) THEN "open" ELSE @]
  <2>1. t # <<>> /\ Head(t) = "check"
    BY <1>3 DEF At
  <2>2. /\ Tail(t) \in Seq(Step)
        /\ Gated(t) => Gated(Tail(t)) /\ (Past(Tail(t)) => Past(t))
        /\ Ordered(t) => Ordered(Tail(t))
        /\ KeptFirst(t) => KeptFirst(Tail(t))
        /\ KeptFirst(t) => ~Heads(Tail(t), "keep") /\ ~Heads(Tail(t), "keep_target")
        /\ Deciding(Tail(t)) => Deciding(t)
    <3> HIDE DEF t
    <3> QED BY <1>2, <2>1, TailFacts DEF t
  <2>3. x \in {"none", "open", "wrote"}
    BY <1>2 DEF ReqWith
  <2>4. /\ n \in ReqWith(T) /\ n.todo = Tail(t) /\ n.op = req[p].op /\ n.who = req[p].who
        /\ n.roles = req[p].roles /\ n.rows = req[p].rows /\ n.seen = db
    <3>1. Next1(p) \in ReqWith(S) /\ Next1(p).tx = req[p].tx
      BY <1>2, <2>2 DEF Next1, ReqWith
    <3>2. n = [Next1(p) EXCEPT !.seen = db, !.tx = x]
      BY <3>1
    <3>3. /\ Next1(p).todo = Tail(t) /\ Next1(p).op = req[p].op /\ Next1(p).who = req[p].who
          /\ Next1(p).roles = req[p].roles /\ Next1(p).rows = req[p].rows
      BY <1>2, <2>2 DEF Next1, ReqWith
    <3> HIDE DEF n, t, x
    <3> QED BY <2>3, <3>1, <3>2, <3>3 DEF ReqWith
  <2>5. Spares(req[p].op, db)
    BY <1>4 DEF Spares, Allowed, UpdateRoleAllowed, DeleteRoleAllowed, OaInv, Tables
  <2>6. ReqInv(n, granted, held)
    <3>1. req[p].op # NoOp
      BY <1>2, <2>1, Begun
    <3> HIDE DEF n, t, T
    <3> QED BY <1>2, <2>1, <2>2, <2>4, <2>5, <3>1 DEF ReqInv, GrantFor, t
  <2>7. Becomes(p, n)
    BY <1>4 DEF Check
  <2>8. S \subseteq T
    OBVIOUS
  <2> HIDE DEF n, T
  <2>9. Shape' /\ Tables' /\ \A q \in Request : ReqInv(req[q], granted, held)'
    BY <1>1, <1>3, <2>4, <2>6, <2>7, <2>8, OwnStep
  <2> QED BY <1>3, <2>9, CachesStay DEF OaInv
<1>5. CASE ~Allowed(db, req[p].op)
  <2>1. Ends(p)
    BY <1>5 DEF Check
  <2> QED BY <1>3, <2>1, EndStep, CachesStay DEF OaInv
<1> QED BY <1>4, <1>5

LEMMA WriteKeeps == ASSUME OaInv, NEW p \in Request, WriteRows(p) PROVE OaInv'
<1>1. PICK S : req \in [Request -> ReqWith(S)]
  BY DEF OaInv, Shape
<1>2. req[p] \in ReqWith(S) /\ ReqInv(req[p], granted, held)
  BY <1>1 DEF OaInv
<1>3. At(p, "write") /\ KeepDb /\ UNCHANGED enforcer
  BY DEF WriteRows
<1>4. CASE Refused(db, req[p].seen, req[p].op)
  <2>1. Ends(p)
    BY <1>4 DEF WriteRows
  <2> QED BY <1>3, <2>1, EndStep, CachesStay DEF OaInv
<1>5. CASE ~Refused(db, req[p].seen, req[p].op)
  <2> DEFINE m == Next1(p)
             n == [m EXCEPT !.tx = "wrote"]
  <2>1. m \in ReqWith(S) /\ ReqInv(m, granted, held)
    BY <1>2, <1>3, AdvanceKeeps DEF At, Next1
  <2>2. Becomes(p, n)
    BY <1>5 DEF WriteRows
  <2> HIDE DEF m
  <2>3. n \in ReqWith(S) /\ ReqInv(n, granted, held)
    BY <2>1, TxKeep
  <2> HIDE DEF n
  <2>4. Shape' /\ Tables' /\ \A q \in Request : ReqInv(req[q], granted, held)'
    BY <1>1, <1>3, <2>2, <2>3, OwnStep
  <2> QED BY <1>3, <2>4, CachesStay DEF OaInv
<1> QED BY <1>4, <1>5

\* A commit adds to what was ever granted and held, and never takes from it.
LEMMA CommitStep ==
  ASSUME OaInv, NEW d, Rows(d), BuiltinOn(d), Commits(d)
  PROVE  /\ Tables' /\ (UNCHANGED enforcer => Caches')
         /\ granted \subseteq granted' /\ held \subseteq held'
         /\ \A r : ReqInv(r, granted, held) => ReqInv(r, granted', held')
<1>1. granted \subseteq granted' /\ held \subseteq held'
  BY DEF Commits
<1>2. ListPolicy(db)' = ListPolicy(d) /\ Holding(db)' = Holding(d) /\ db' = d
  BY DEF Commits, ListPolicy, Holding, FindRoleCodesByUserID
<1>3. Tables'
  BY <1>1, <1>2 DEF Commits, Tables, Rows, BuiltinOn
<1>4. UNCHANGED enforcer => Caches'
  BY <1>1 DEF OaInv, Caches, enforcer
<1>5. \A r : ReqInv(r, granted, held) => ReqInv(r, granted', held')
  BY <1>1, HistoryGrows
<1> QED BY <1>1, <1>3, <1>4, <1>5

LEMMA CommitKeeps == ASSUME OaInv, NEW p \in Request, Commit(p) PROVE OaInv'
<1> DEFINE d == Effect(db, req[p].seen, req[p].op)
<1>1. PICK S : req \in [Request -> ReqWith(S)]
  BY DEF OaInv, Shape
<1>2. /\ req[p] \in ReqWith(S) /\ ReqInv(req[p], granted, held)
      /\ req[p].todo \in Seq(Step) /\ req[p].op \in {NoOp} \cup Input
  BY <1>1 DEF OaInv, ReqWith
<1>3. At(p, "commit") /\ Commits(d) /\ Ends(p) /\ UNCHANGED enforcer
  BY DEF Commit
<1>4. Rows(d) /\ BuiltinOn(d)
  <2>1. Rows(db) /\ BuiltinOn(db)
    BY DEF OaInv, Tables
  <2>2. ~Checking(req[p].todo) /\ req[p].todo # <<>>
    <3>1. req[p].todo # <<>> /\ req[p].todo[1] = "commit" /\ 1 \in 1 .. Len(req[p].todo)
      BY <1>2, <1>3 DEF At
    <3>2. Len(req[p].todo) = 1
      BY <1>2, <3>1 DEF ReqInv, Ordered
    <3> QED BY <3>1, <3>2 DEF Checking
  <2>3. req[p].op # NoOp
    BY <1>2, <1>3, <2>2, Begun DEF At
  <2>4. req[p].op \in Input /\ Spares(req[p].op, req[p].seen)
    BY <1>2, <2>2, <2>3 DEF ReqInv
  <2> QED BY <2>1, <2>4, EffectKeeps
<1> DEFINE T == S \cup {{}, NoDb}
<1>5. /\ Tables' /\ Caches'
      /\ \A r : ReqInv(r, granted, held) => ReqInv(r, granted', held')
  <2> HIDE DEF d
  <2> QED BY <1>3, <1>4, CommitStep
<1>6. Done \in ReqWith(T) /\ ReqInv(Done, granted, held)
  BY NothingLeft, StoreAssumption DEF ReqWith
<1>7. \A q \in Request : req'[q] = IF q = p THEN Done ELSE req[q]
  BY <1>1, <1>3 DEF Ends, Becomes
<1>8. \A q \in Request : ReqInv(req'[q], granted', held')
  BY <1>5, <1>6, <1>7 DEF OaInv
<1>9. Shape'
  <2>1. \A q \in Request : req'[q] \in ReqWith(T)
    BY <1>1, <1>6, <1>7 DEF ReqWith
  <2>2. req' \in [Request -> ReqWith(T)]
    BY <1>1, <1>3, <2>1 DEF Ends, Becomes
  <2> QED BY <2>2 DEF Shape
<1> QED BY <1>5, <1>8, <1>9 DEF OaInv

LEMMA SaveKeeps == ASSUME OaInv, NEW p \in Request, SavePassword(p) PROVE OaInv'
<1> DEFINE d == ResetPassword(db, req[p].op)
           n == Next1(p)
<1>1. PICK S : req \in [Request -> ReqWith(S)]
  BY DEF OaInv, Shape
<1>2. req[p] \in ReqWith(S) /\ ReqInv(req[p], granted, held)
  BY <1>1 DEF OaInv
<1>3. At(p, "save") /\ Commits(d) /\ Becomes(p, n) /\ UNCHANGED enforcer
  BY DEF SavePassword
<1>4. Rows(d) /\ BuiltinOn(d)
  BY DEF OaInv, Tables, ResetPassword, Rows, BuiltinOn, EmptyDatabase
<1>5. /\ Tables' /\ Caches'
      /\ \A r : ReqInv(r, granted, held) => ReqInv(r, granted', held')
  <2> HIDE DEF d, n
  <2> QED BY <1>3, <1>4, CommitStep
<1>6. n \in ReqWith(S) /\ ReqInv(n, granted, held)
  BY <1>2, <1>3, AdvanceKeeps DEF At, Next1
<1> HIDE DEF n
<1>7. \A q \in Request : req'[q] = IF q = p THEN n ELSE req[q]
  BY <1>1, <1>3 DEF Becomes
<1>8. \A q \in Request : ReqInv(req'[q], granted', held')
  BY <1>5, <1>6, <1>7 DEF OaInv
<1>9. req' \in [Request -> ReqWith(S)]
  BY <1>1, <1>3, <1>6 DEF Becomes
<1> QED BY <1>5, <1>8, <1>9 DEF OaInv, Shape

-----------------------------------------------------------------------------
(* Restarts, time, and the theorems *)

LEMMA RestartKeeps == ASSUME OaInv, Restart PROVE OaInv'
<1>1. PICK S : req \in [Request -> ReqWith(S)]
  BY DEF OaInv, Shape
<1> DEFINE T == {{}, NoDb}
<1>2. \A q \in Request : req'[q] \in {Done, Idle}
  BY DEF Restart
<1>3. \A G, H : /\ Done \in ReqWith(T) /\ ReqInv(Done, G, H)
               /\ Idle \in ReqWith(T) /\ ReqInv(Idle, G, H)
  BY NothingLeft, StoreAssumption
<1>4. \A q \in Request : ReqInv(req'[q], granted', held')
  BY <1>2, <1>3
<1>5. Shape'
  <2> HIDE DEF T
  <2>1. req' \in [Request -> ReqWith(T)]
    BY <1>2, <1>3 DEF Restart
  <2> QED BY <2>1 DEF Shape
<1>6. cache' = [u \in User |-> NoRoles]
  BY DEF Restart
<1>7. CASE InitRBACFails(db)
  <2>1. KeepDb /\ UNCHANGED <<policy, fresh>>
    BY <1>7 DEF Restart
  <2>2. Tables'
    BY <2>1 DEF OaInv, Tables, KeepDb, Rows, BuiltinOn, ListPolicy, Holding, FindRoleCodesByUserID
  <2>3. Caches'
    BY <1>6, <2>1 DEF OaInv, Caches, KeepDb
  <2> QED BY <1>4, <1>5, <2>2, <2>3 DEF OaInv
<1>8. CASE ~InitRBACFails(db)
  <2> DEFINE d == InitRBAC(db)
  <2>1. Commits(d) /\ (policy' = ListPolicy(db') \/ policy' = {})
    BY <1>8 DEF Restart
  <2>2. Rows(d) /\ BuiltinOn(d)
    BY InitKeeps DEF OaInv, Tables
  <2> HIDE DEF d
  <2>3. Tables'
    BY <2>1, <2>2, CommitStep
  <2>4. ListPolicy(db') \subseteq granted'
    BY <2>1 DEF Commits
  <2>5. Caches'
    BY <1>6, <2>1, <2>4 DEF Caches
  <2> QED BY <1>4, <1>5, <2>3, <2>5 DEF OaInv
<1> QED BY <1>7, <1>8

LEMMA TimeKeeps ==
  ASSUME OaInv, PolicyExpires \/ (\E u \in User : RolesExpire(u)) \/ UNCHANGED vars
  PROVE  OaInv'
<1>1. KeepDb /\ UNCHANGED <<policy, req>>
  BY DEF PolicyExpires, RolesExpire, vars, enforcer, KeepDb
<1>2. Tables'
  BY <1>1 DEF OaInv, Tables, KeepDb, Rows, BuiltinOn, ListPolicy, Holding, FindRoleCodesByUserID
<1>3. Shape' /\ \A q \in Request : ReqInv(req[q], granted, held)'
  BY <1>1 DEF OaInv, Shape, KeepDb
<1>4. Caches'
  <2>1. \/ UNCHANGED cache
        \/ \E u \in User : cache' = [cache EXCEPT ![u] = NoRoles]
    BY DEF PolicyExpires, RolesExpire, vars, enforcer
  <2> QED BY <1>1, <2>1 DEF OaInv, Caches, KeepDb
<1> QED BY <1>2, <1>3, <1>4 DEF OaInv

LEMMA InitHolds == OaInit => OaInv
<1> SUFFICES ASSUME OaInit PROVE OaInv
  OBVIOUS
<1> DEFINE T == {{}, NoDb}
<1>1. Idle \in ReqWith(T) /\ ReqInv(Idle, granted, held)
  BY NothingLeft, StoreAssumption
<1> HIDE DEF T
<1>2. Shape /\ \A q \in Request : ReqInv(req[q], granted, held)
  BY <1>1 DEF OaInit, Shape
<1>3. Tables
  <2>1. db \in Database /\ BuiltinOn(db)
    BY BackendAssumption DEF OaInit, BuiltinOn, Consistent
  <2>2. Rows(db)
    BY <2>1 DEF Database, Rows, EmptyDatabase
  <2> QED BY <2>1, <2>2 DEF OaInit, Tables
<1>4. Caches
  BY DEF OaInit, Caches
<1> QED BY <1>2, <1>3, <1>4 DEF OaInv

LEMMA StepKeeps == OaInv /\ [OaNext]_vars => OaInv'
<1> SUFFICES ASSUME OaInv, [OaNext]_vars PROVE OaInv'
  OBVIOUS
<1>1. ASSUME NEW p \in Request,
             Arrive(p) \/ Unauthenticated(p) \/ Continue(p) \/ Refuse(p) \/ StatementFails(p)
      PROVE  OaInv'
  <2>1. CASE Arrive(p)
    BY <2>1, ArriveKeeps
  <2>2. CASE Unauthenticated(p) \/ Refuse(p) \/ StatementFails(p)
    BY <2>2, PlainKeeps
  <2>3. CASE Continue(p)
    BY <2>3, LoadKeeps, PlainKeeps, DecideKeeps, PolicyKeeps, ForgettingKeeps, CheckKeeps,
       WriteKeeps, CommitKeeps, SaveKeeps DEF Continue
  <2> QED BY <1>1, <2>1, <2>2, <2>3
<1>2. CASE Restart
  BY <1>2, RestartKeeps
<1>3. CASE PolicyExpires \/ (\E u \in User : RolesExpire(u)) \/ UNCHANGED vars
  BY <1>3, TimeKeeps
<1> QED BY <1>1, <1>2, <1>3 DEF OaNext

LEMMA Inductive == OaSpec => []OaInv
BY InitHolds, StepKeeps, PTL DEF OaSpec

\* Nobody gets past a permission check without a role that once held the
\* permission for the route, in rows that were committed: stale caches, reloads
\* during a transaction and rollbacks included (enforcer.go:86-105).
THEOREM AdmissionIsGranted == OaSpec => []AdmittedByGrant
BY Inductive, Implied, PTL

\* The built-in roles can be neither deleted nor disabled, by whatever requests
\* at once (role/service.go:129, :169).
THEOREM BuiltinRolesStay == OaSpec => []BuiltinStays
BY Inductive, Implied, PTL

=============================================================================
