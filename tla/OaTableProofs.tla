--------------------------- MODULE OaTableProofs ---------------------------
(***************************************************************************)
(* The tables of the OA back end under concurrent requests: no permission, *)
(* grant or binding is ever without the row it refers to, the pages agree  *)
(* with each other, and a restart restores what was lost.                  *)
(*                                                                         *)
(* A request checks its input in a snapshot, is checked against the        *)
(* committed tables when it writes, and has its effect when it commits.    *)
(* The proof is about what it may rely on in between: what it refers to is *)
(* there when it writes (Refers), and the locks keep apart from it every   *)
(* request that would take that away (Apart).                              *)
(*                                                                         *)
(* With the same invariant: a password version falls only where an update  *)
(* writes back what it read before a reset (UpdatesAloneUndo).             *)
(***************************************************************************)
EXTENDS OaProofs, FiniteSetTheorems

-----------------------------------------------------------------------------
(* The inductive invariant *)

Has(t, s) == \E j \in 1 .. Len(t) : t[j] = s

\* What is written has been checked.
CheckedFirst(t) == \A i, j \in 1 .. Len(t) : i < j /\ t[j] = "check" => t[i] # "write"

LiveRoles(d) == {r \in Role : RoleLives(d, r)}

Binding == {"assign_users", "set_user_roles", "create_employee", "update_employee"}

\* The rows that an operation's new rows refer to are in the tables d, and a new
\* employee is not.
Refers(d, s, o) ==
  /\ o.kind = "create_employee" => o.user \notin d.users
  /\ o.kind = "assign_permissions" =>
       o.perms \subseteq PermIds(d) /\ (o.perms = {} \/ o.role \in LiveRoles(d))
  /\ o.kind \in Binding => o.roles \subseteq LiveRoles(d)
  /\ o.kind = "create_permission" => o.plat \in PlatformIds(d)
  /\ o.kind = "assign_users" => o.users \subseteq d.users
  /\ o.kind = "set_user_roles" => o.roles = {} \/ o.user \in d.users
  /\ o.kind = "update_employee" =>
       o.user \in d.users \/ (o.roles = {} /\ FindRoleIDsByUserID(s, o.user) # {})

\* Deleting what x deletes takes nothing away that o refers to, and they do not both
\* create one employee.
Apart(d, o, x) ==
  /\ x.kind = "create_employee" /\ o.kind = "create_employee" => x.user # o.user
  /\ x.kind = "delete_platform" =>
       /\ o.kind = "create_permission" => o.plat # x.plat
       /\ o.kind = "assign_permissions" => \A y \in d.perm : y.plat = x.plat => y.id \notin o.perms
  /\ x.kind = "delete_role" =>
       /\ o.kind = "assign_permissions" => o.role # x.role
       /\ o.kind \in Binding => x.role \notin o.roles
  /\ x.kind = "delete_employee" =>
       /\ o.kind = "assign_users" => x.user \notin o.users
       /\ o.kind \in {"set_user_roles", "update_employee"} => x.user # o.user

Targeting == {"update_employee", "delete_employee", "reset_password"}

\* What is relied on from the check on.
Snapshot(d, s, o) ==
  /\ o.kind \in {"update_role", "update_employee"} => s \in Database
  /\ o.kind = "update_role" => RoleLives(s, o.role)
  /\ o.kind = "delete_platform" => o.plat \in d.closed \cup PlatformIds(d)

RowsInv(r, d) ==
  r.op # NoOp =>
    /\ Has(r.todo, "target") => r.op.kind \in Targeting
    /\ r.op.kind # "delete_employee" =>
         CheckedFirst(r.todo) /\ (r.tx = "wrote" => ~Has(r.todo, "check"))
    /\ Has(r.todo, "commit") /\ ~Has(r.todo, "write") => r.tx = "wrote"
    /\ ~Has(r.todo, "check") => Snapshot(d, r.seen, r.op)
    /\ r.tx = "wrote" => Refers(d, r.seen, r.op)

ReqType ==
  [todo : Seq(Step), op : {NoOp} \cup Input, who : User, roles : SUBSET Role,
   rows : SUBSET Policy, seen : {NoDb} \cup Database, tx : {"none", "open", "wrote"}]

RestTyped ==
  /\ policy \subseteq Policy /\ fresh \in BOOLEAN
  /\ cache \in [User -> {NoRoles} \cup SUBSET Role]
  /\ up \in BOOLEAN /\ faults \in 0 .. MaxFaults
  /\ granted \subseteq Policy /\ held \subseteq User \X Role

LocksInv ==
  \A p, q \in Request :
    p # q /\ req[p].tx = "wrote" /\ req[q].tx = "wrote" => Apart(db, req[p].op, req[q].op)

RequestsInv ==
  /\ Consistent(db) /\ req \in [Request -> ReqType] /\ LocksInv
  /\ \A p \in Request : /\ RowsInv(req[p], db)
                        /\ req[p].op = NoOp => req[p].tx = "none"

TableInv == RequestsInv /\ RestTyped

-----------------------------------------------------------------------------
(* The steps that a request still has to take *)

Marks == {"check", "write", "commit", "target"}
Other == Step \ Marks

\* Steps of no mark may come before a list.
LEMMA PrefixFacts ==
  ASSUME NEW s \in Seq(Other), NEW u \in Seq(Step)
  PROVE  /\ s \o u \in Seq(Step)
         /\ \A a \in Marks : Has(s \o u, a) <=> Has(u, a)
         /\ CheckedFirst(u) => CheckedFirst(s \o u)
<1> DEFINE v == s \o u
           n == Len(s)
<1>1. /\ n \in Nat /\ Len(u) \in Nat /\ s \in Seq(Step)
      /\ \A i \in 1 .. n : s[i] \notin Marks
  BY DEF Other
<1>2. v \in Seq(Step) /\ Len(v) = n + Len(u)
  BY <1>1
<1>3. \A i \in 1 .. Len(u) : i + n \in 1 .. Len(v) /\ v[i + n] = u[i]
  BY <1>1, <1>2
<1>4. \A i \in 1 .. Len(v) : \/ v[i] \notin Marks
                             \/ i - n \in 1 .. Len(u) /\ v[i] = u[i - n]
  <2> SUFFICES ASSUME NEW i \in 1 .. Len(v)
               PROVE  \/ v[i] \notin Marks
                      \/ i - n \in 1 .. Len(u) /\ v[i] = u[i - n]
    OBVIOUS
  <2>1. CASE i <= n
    BY <1>1, <2>1
  <2>2. CASE i > n
    BY <1>1, <1>2, <2>2
  <2> QED BY <1>1, <2>1, <2>2
<1> HIDE DEF v, n
<1>5. \A a \in Marks : Has(v, a) <=> Has(u, a)
  BY <1>3, <1>4 DEF Has
<1>6. CheckedFirst(u) => CheckedFirst(v)
  <2> SUFFICES ASSUME CheckedFirst(u), NEW i \in 1 .. Len(v), NEW j \in 1 .. Len(v),
                      i < j, v[j] = "check", v[i] = "write"
               PROVE  FALSE
    BY DEF CheckedFirst
  <2>1. /\ i - n \in 1 .. Len(u) /\ v[i] = u[i - n]
        /\ j - n \in 1 .. Len(u) /\ v[j] = u[j - n] /\ i - n < j - n
    BY <1>1, <1>4 DEF Marks
  <2> QED BY <2>1 DEF CheckedFirst
<1> QED BY <1>2, <1>5, <1>6 DEF v

\* A list without its first step.
LEMMA RestFacts ==
  ASSUME NEW t \in Seq(Step), t # <<>>
  PROVE  /\ Tail(t) \in Seq(Step)
         /\ \A a \in Marks :
              /\ Has(Tail(t), a) => Has(t, a)
              /\ Has(t, a) /\ Head(t) # a => Has(Tail(t), a)
         /\ CheckedFirst(t) => CheckedFirst(Tail(t))
         /\ CheckedFirst(t) /\ Head(t) = "write" => ~Has(t, "check")
         /\ Head(t) \in Step /\ Has(t, Head(t))
<1> DEFINE u == Tail(t)
<1>1. /\ u \in Seq(Step) /\ Len(t) \in Nat /\ Len(u) = Len(t) - 1
      /\ t[1] = Head(t) /\ 1 \in 1 .. Len(t) /\ Head(t) \in Step
      /\ \A i \in 1 .. Len(u) : u[i] = t[i + 1] /\ i + 1 \in 1 .. Len(t)
  OBVIOUS
<1>2. \A i \in 1 .. Len(t) : i # 1 => i - 1 \in 1 .. Len(u) /\ u[i - 1] = t[i]
  BY <1>1
<1> HIDE DEF u
<1>3. \A a : (Has(u, a) => Has(t, a)) /\ (Has(t, a) /\ Head(t) # a => Has(u, a))
  BY <1>1, <1>2 DEF Has
<1>4. CheckedFirst(t) => CheckedFirst(u)
  <2> SUFFICES ASSUME CheckedFirst(t), NEW i \in 1 .. Len(u), NEW j \in 1 .. Len(u),
                      i < j, u[j] = "check"
               PROVE  u[i] # "write"
    BY DEF CheckedFirst
  <2>1. i + 1 < j + 1
    OBVIOUS
  <2> QED BY <1>1, <2>1 DEF CheckedFirst
<1>5. CheckedFirst(t) /\ Head(t) = "write" => ~Has(t, "check")
  BY <1>1 DEF CheckedFirst, Has
<1>6. Has(t, Head(t))
  BY <1>1 DEF Has
<1> QED BY <1>1, <1>3, <1>4, <1>5, <1>6 DEF u

\* t goes on as v without a check or a write.
GoesOnAs(t, v) ==
  /\ v \in Seq(Step)
  /\ \A a \in {"check", "write"} : Has(v, a) <=> Has(t, a)
  /\ \A a \in {"commit", "target"} : Has(v, a) => Has(t, a)
  /\ CheckedFirst(t) => CheckedFirst(v)

LEMMA NextFacts ==
  ASSUME NEW t \in Seq(Step), t # <<>>, Head(t) \notin {"check", "write"}
  PROVE  /\ GoesOnAs(t, Tail(t))
         /\ \A s \in Seq(Other) : GoesOnAs(t, s \o Tail(t))
<1>1. GoesOnAs(t, Tail(t))
  BY RestFacts DEF GoesOnAs, Marks
<1>2. ASSUME NEW s \in Seq(Other) PROVE GoesOnAs(t, s \o Tail(t))
  <2>1. PICK u \in Seq(Step) : u = Tail(t)
    BY <1>1 DEF GoesOnAs
  <2>2. /\ s \o u \in Seq(Step)
        /\ \A a \in Marks : Has(s \o u, a) <=> Has(u, a)
        /\ CheckedFirst(u) => CheckedFirst(s \o u)
    BY PrefixFacts
  <2> QED BY <1>1, <2>1, <2>2 DEF GoesOnAs, Marks
<1> QED BY <1>1, <1>2

Safe(P, k) ==
  /\ k # "delete_employee" => CheckedFirst(P)
  /\ Has(P, "commit") => Has(P, "write")
  /\ k \in {"update_role", "update_employee", "delete_platform"} => Has(P, "check")
  /\ Has(P, "target") => k \in Targeting

\* Every program checks before it writes, but that of DeleteEmployee, and
\* writes before it commits.
LEMMA ProgramsAreSafe == \A k \in Kinds : Safe(Program(k), k)
<1> SUFFICES ASSUME NEW k \in Kinds PROVE Safe(Program(k), k)
  OBVIOUS
<1>1. ASSUME NEW s \in Seq(Step), Program(k) = Authorise \o s, Safe(s, k) PROVE Safe(Program(k), k)
  <2>1. Authorise \in Seq(Other)
    BY DEF Authorise, Other, Step, Marks
  <2> QED BY <1>1, <2>1, PrefixFacts DEF Safe, Marks
<1>2. CASE k = "me"
  <2>1. Program(k) = <<"load", "ensure", "load", "query", "load">>
    BY <1>2 DEF Program, Reads
  <2> QED BY <1>2, <2>1 DEF Safe, CheckedFirst, Has, Targeting
<1>3. CASE k \in Reads
  <2>1. Program(k) = Authorise \o <<"query">> /\ k \notin {"update_role", "update_employee", "delete_platform"}
    BY <1>3 DEF Program, Reads
  <2>2. Safe(<<"query">>, k) /\ <<"query">> \in Seq(Step)
    BY <2>1 DEF Safe, CheckedFirst, Has, Targeting, Step
  <2> QED BY <1>1, <2>1, <2>2
<1>4. CASE k = "create_role"
  <2>1. Program(k) = Authorise \o <<"check", "write", "commit">>
    BY <1>4 DEF Program, Reads
  <2>2. Safe(<<"check", "write", "commit">>, k) /\ <<"check", "write", "commit">> \in Seq(Step)
    BY DEF Safe, CheckedFirst, Has, Targeting, Step
  <2> QED BY <1>1, <2>1, <2>2
<1>5. CASE k \in {"update_role", "delete_role", "assign_permissions", "create_platform",
                  "update_platform", "delete_platform", "create_permission"}
  <2> DEFINE s == <<"check", "write", "invalidate", "commit">>
  <2>1. Program(k) = Authorise \o s
    BY <1>5 DEF Program, Reads
  <2>2. Safe(s, k) /\ s \in Seq(Step)
    BY DEF Safe, CheckedFirst, Has, Targeting, Step
  <2> QED BY <1>1, <2>1, <2>2
<1>6. CASE k \in {"assign_users", "set_user_roles", "create_employee"}
  <2> DEFINE s == <<"check", "write", "forget", "commit">>
  <2>1. Program(k) = Authorise \o s
    BY <1>6 DEF Program, Reads
  <2>2. Safe(s, k) /\ s \in Seq(Step)
    BY DEF Safe, CheckedFirst, Has, Targeting, Step
  <2> QED BY <1>1, <2>1, <2>2
<1>7. CASE k = "update_employee"
  <2> DEFINE s == <<"check", "target", "spare", "write", "forget", "commit">>
  <2>1. Program(k) = Authorise \o s
    BY <1>7 DEF Program, Reads
  <2>2. Safe(s, k) /\ s \in Seq(Step)
    BY <1>7 DEF Safe, CheckedFirst, Has, Targeting, Step
  <2> QED BY <1>1, <2>1, <2>2
<1>8. CASE k = "delete_employee"
  <2> DEFINE s == <<"write", "forget", "check", "target", "spare", "commit">>
  <2>1. Program(k) = Authorise \o s
    BY <1>8 DEF Program, Reads
  <2>2. Safe(s, k) /\ s \in Seq(Step)
    BY <1>8 DEF Safe, CheckedFirst, Has, Targeting, Step
  <2> QED BY <1>1, <2>1, <2>2
<1>9. CASE k = "reset_password"
  <2> DEFINE s == <<"check", "target", "spare", "save", "revoke">>
  <2>1. Program(k) = Authorise \o s
    BY <1>9 DEF Program, Reads
  <2>2. Safe(s, k) /\ s \in Seq(Step)
    BY <1>9 DEF Safe, CheckedFirst, Has, Targeting, Step
  <2> QED BY <1>1, <2>1, <2>2
<1> QED BY <1>2, <1>3, <1>4, <1>5, <1>6, <1>7, <1>8, <1>9 DEF Kinds

-----------------------------------------------------------------------------
(* Numbered ids *)

LEMMA Image ==
  ASSUME NEW S, IsFiniteSet(S), NEW f, DOMAIN f = S
  PROVE  IsFiniteSet({f[x] : x \in S})
<1> DEFINE T == {f[x] : x \in S}
<1>1. [x \in S |-> f[x]] \in Surjection(S, T)
  BY DEF Surjection
<1> HIDE DEF T
<1>2. IsFiniteSet(T)
  BY <1>1, FS_Surjection
<1> QED BY <1>2 DEF T

Numbers(c, n) == {<<c, m>> : m \in 0 .. n - 1}

LEMMA Count ==
  ASSUME NEW c, NEW n \in Nat
  PROVE  IsFiniteSet(Numbers(c, n)) /\ Cardinality(Numbers(c, n)) = n
<1> DEFINE T == Numbers(c, n)
           f == [m \in 0 .. n - 1 |-> <<c, m>>]
<1>1. IsFiniteSet(0 .. n - 1) /\ Cardinality(0 .. n - 1) = n
  <2>1. 0 \in Int /\ n - 1 \in Int
    OBVIOUS
  <2>2. Cardinality(0 .. n - 1) = IF 0 > n - 1 THEN 0 ELSE (n - 1) - 0 + 1
    BY <2>1, FS_Interval
  <2>3. IsFiniteSet(0 .. n - 1)
    BY <2>1, FS_Interval
  <2> QED BY <2>2, <2>3
<1>2. f \in Bijection(0 .. n - 1, T)
  <2>1. f \in [0 .. n - 1 -> T] /\ \A m \in 0 .. n - 1 : f[m] = <<c, m>>
    BY DEF Numbers
  <2>2. \A x \in T : \E m \in 0 .. n - 1 : x = <<c, m>>
    BY DEF Numbers
  <2> HIDE DEF f, T
  <2>3. \A a, b \in 0 .. n - 1 : f[a] = f[b] => a = b
    BY <2>1
  <2>4. \A x \in T : \E m \in 0 .. n - 1 : f[m] = x
    BY <2>1, <2>2
  <2> QED BY <2>1, <2>3, <2>4 DEF Bijection, Injection, Surjection, IsInjective
<1>3. ExistsBijection(0 .. n - 1, T)
  BY <1>2 DEF ExistsBijection
<1> HIDE DEF T
<1>4. IsFiniteSet(T) /\ Cardinality(T) = Cardinality(0 .. n - 1)
  BY <1>1, <1>3, FS_Bijection
<1> QED BY <1>1, <1>4 DEF T

\* The next number under a code is new, and leaves no gap.
LEMMA NextNumber ==
  ASSUME NEW C, NEW ids \in SUBSET (C \X Nat), IsFiniteSet(ids), Dense(ids), NEW c,
         NEW k, k = Cardinality({i \in ids : i[1] = c})
  PROVE  k \in Nat /\ <<c, k>> \notin ids /\ Dense(ids \cup {<<c, k>>})
<1> DEFINE T    == {i \in ids : i[1] = c}
           Free == {n \in Nat : <<c, n>> \notin ids}
<1>1. IsFiniteSet(T) /\ k \in Nat
  <2> HIDE DEF T
  <2>1. T \in SUBSET ids
    BY DEF T
  <2>2. IsFiniteSet(T) /\ Cardinality(T) \in Nat
    BY <2>1, FS_Subset, FS_CardinalityType
  <2> QED BY <2>2 DEF T
<1>2. Free # {}
  <2> SUFFICES ASSUME Free = {} PROVE FALSE
    OBVIOUS
  <2>1. Numbers(c, k + 1) \in SUBSET T
    BY <1>1 DEF Numbers
  <2> HIDE DEF T
  <2>2. Cardinality(Numbers(c, k + 1)) = k + 1
    <3> k + 1 \in Nat
      BY <1>1
    <3> QED BY Count
  <2>3. Cardinality(Numbers(c, k + 1)) <= Cardinality(T)
    BY <1>1, <2>1, FS_Subset
  <2> QED BY <1>1, <2>2, <2>3 DEF T
<1>3. PICK n \in Free : \A m \in Free : ~(m < n)
  <2>1. PICK n \in Free : \A m \in Free : <<m, n>> \notin OpToRel(<, Nat)
    <3> HIDE DEF Free
    <3> Free \subseteq Nat
      BY DEF Free
    <3> QED BY <1>2, WFMin, NatLessThanWellFounded
  <2>2. \A m \in Free : ~(m < n)
    BY <2>1 DEF OpToRel
  <2> QED BY <2>2
<1>4. \A m \in Nat : <<c, m>> \in ids <=> m < n
  <2> SUFFICES ASSUME NEW m \in Nat PROVE <<c, m>> \in ids <=> m < n
    OBVIOUS
  <2>1. m < n => <<c, m>> \in ids
    BY <1>3
  <2>2. ASSUME <<c, m>> \in ids, ~(m < n) PROVE FALSE
    <3>1. m = n \/ n \in 0 .. (m - 1)
      BY <1>3, <2>2
    <3>2. <<c, m>>[1] = c /\ <<c, m>>[2] = m
      OBVIOUS
    <3>3. \A x \in 0 .. (m - 1) : <<c, x>> \in ids
      BY <2>2, <3>2 DEF Dense
    <3> QED BY <1>3, <2>2, <3>1, <3>3
  <2> QED BY <2>1, <2>2
<1>5. T = Numbers(c, n)
  <2>1. ASSUME NEW i \in T PROVE i \in Numbers(c, n)
    <3>1. i = <<c, i[2]>> /\ i[2] \in Nat
      OBVIOUS
    <3>2. i[2] < n
      BY <1>4, <3>1
    <3> QED BY <1>3, <3>1, <3>2 DEF Numbers
  <2>2. ASSUME NEW i \in Numbers(c, n) PROVE i \in T
    BY <1>3, <1>4 DEF Numbers
  <2> QED BY <2>1, <2>2
<1>6. k = n
  <2>1. Cardinality(Numbers(c, n)) = n
    BY <1>3, Count
  <2> QED BY <1>5, <2>1
<1>7. Dense(ids \cup {<<c, k>>})
  <2> SUFFICES ASSUME NEW i \in ids \cup {<<c, k>>}, NEW m \in 0 .. (i[2] - 1)
               PROVE  <<i[1], m>> \in ids
    BY DEF Dense
  <2>1. CASE i \in ids
    BY <2>1 DEF Dense
  <2>2. CASE i = <<c, k>>
    BY <1>3, <1>4, <1>6, <2>2
  <2> QED BY <2>1, <2>2
<1> QED BY <1>1, <1>3, <1>6, <1>7

-----------------------------------------------------------------------------
(* What the operations do to the tables *)

\* The fields of a request of a kind.
InputOf(o) ==
  /\ o.kind \in {"create_role", "update_role", "delete_role", "assign_permissions"} => o.role \in Role
  /\ o.kind = "update_role" => o.status \in {"keep", "on", "off"}
  /\ o.kind = "assign_permissions" => o.perms \subseteq PermId
  /\ o.kind = "assign_users" => o.users \subseteq User
  /\ o.kind \in {"assign_users", "set_user_roles", "create_employee", "update_employee"} =>
       o.roles \subseteq Role
  /\ o.kind \in {"set_user_roles", "create_employee", "update_employee", "delete_employee",
                 "reset_password"} => o.user \in User
  /\ o.kind \in {"create_platform", "update_platform"} => o.name \in Name /\ o.code \in PlatformCode
  /\ o.kind \in {"update_platform", "delete_platform", "create_permission"} => o.plat \in PlatformId
  /\ o.kind = "create_permission" => o.code \in Code

LEMMA InputFacts == \A o \in Input : InputOf(o)
<1> SUFFICES ASSUME NEW o \in Input PROVE InputOf(o)
  OBVIOUS
<1>1. CASE o \in RoleInput
  BY <1>1 DEF InputOf, RoleInput, CreateRoleInput, UpdateRoleInput, DeleteRoleInput,
     AssignPermissionsInput, AssignUsersInput, SetUserRolesInput
<1>2. CASE o \in EmployeeInput
  BY <1>2 DEF InputOf, EmployeeInput, CreateEmployeeInput, UpdateEmployeeInput,
     DeleteEmployeeInput, ResetPasswordInput
<1>3. CASE o \in PlatformInput
  BY <1>3 DEF InputOf, PlatformInput, CreatePlatformInput, UpdatePlatformInput,
     DeletePlatformInput, CreatePermissionInput
<1>4. CASE o \in ReadInput
  BY <1>4 DEF InputOf, ReadInput, Reads
<1> QED BY <1>1, <1>2, <1>3, <1>4 DEF Input

\* The tables e that o makes of d: what others rely on is there, but for what o
\* deletes, employees are new only if it creates them, and new permissions belong to the platform they were created for or to a new one.
Leaves(d, e, o) ==
  /\ \A u \in d.users : u \in e.users \/ (o.kind = "delete_employee" /\ u = o.user)
  /\ \A u \in e.users : u \in d.users \/ (o.kind = "create_employee" /\ u = o.user)
  /\ \A r \in LiveRoles(d) : r \in LiveRoles(e) \/ (o.kind = "delete_role" /\ r = o.role)
  /\ \A i \in PlatformIds(d) : i \in PlatformIds(e) \/ (o.kind = "delete_platform" /\ i = o.plat)
  /\ d.closed \cup PlatformIds(d) \subseteq e.closed \cup PlatformIds(e)
  /\ \A y \in d.perm : y.id \in PermIds(e) \/ (o.kind = "delete_platform" /\ y.plat = o.plat)
  /\ \A y \in e.perm :
       \/ \E z \in d.perm : z.id = y.id /\ z.plat = y.plat
       \/ o.kind = "create_permission" /\ y.plat = o.plat
       \/ o.kind = "create_platform" /\ y.plat \notin d.closed \cup PlatformIds(d)

Result(d, e, o) == Consistent(e) /\ Leaves(d, e, o)

\* The parts of the tables that a permission belongs to.
SameRows(d, e) == e.perm = d.perm /\ e.plat = d.plat /\ e.gone = d.gone /\ e.closed = d.closed

\* Roles stay found while they are as they were and no row refers to others.
LEMMA RolesStayFound ==
  ASSUME NEW d, NEW e, RolesFound(d), e.roles = d.roles,
         e.grant \subseteq d.grant, e.bind \subseteq d.bind
  PROVE  RolesFound(e)
BY DEF RolesFound, RoleLives

LEMMA SameRoles ==
  ASSUME NEW d, NEW e, e.roles = d.roles
  PROVE  LiveRoles(e) = LiveRoles(d) /\ \A r : RoleLives(e, r) <=> RoleLives(d, r)
BY DEF LiveRoles, RoleLives

LEMMA SameRowsResult ==
  ASSUME NEW d, NEW e, NEW o, Consistent(d), e \in Database, SameRows(d, e),
         \A u \in d.users : u \in e.users \/ (o.kind = "delete_employee" /\ u = o.user),
         \A u \in e.users : u \in d.users \/ (o.kind = "create_employee" /\ u = o.user),
         \A r \in LiveRoles(d) : r \in LiveRoles(e) \/ (o.kind = "delete_role" /\ r = o.role),
         \A g \in e.grant : g[2] \in PermIds(d),
         \A b \in e.bind : b[1] \in e.users,
         RolesFound(e)
  PROVE  Result(d, e, o)
<1>1. PlatformIds(e) = PlatformIds(d) /\ PermIds(e) = PermIds(d)
  BY DEF SameRows, PlatformIds, PermIds
<1>2. Consistent(e)
  BY <1>1 DEF Consistent, SameRows
<1>3. Leaves(d, e, o)
  <2>1. \A y \in e.perm : y \in d.perm
    BY DEF SameRows
  <2>2. \A y \in d.perm : y.id \in PermIds(e)
    BY <1>1 DEF PermIds
  <2> QED BY <1>1, <2>1, <2>2 DEF Leaves, SameRows
<1> QED BY <1>2, <1>3 DEF Result

LEMMA RoleResult ==
  ASSUME NEW d, NEW s, NEW o, Consistent(d), InputOf(o),
         o.kind \in {"create_role", "update_role", "delete_role", "assign_permissions"},
         o.kind = "update_role" => s \in Database /\ RoleLives(s, o.role), Refers(d, s, o)
  PROVE  Result(d, Effect(d, s, o), o)
<1>1. d \in Database /\ o.role \in Role /\ RolesFound(d)
  BY DEF Consistent, InputOf
\* A role's status is set, and the role lives.
<1>2. ASSUME NEW x \in {"on", "off"} PROVE Result(d, [d EXCEPT !.roles[o.role] = x], o)
  <2> DEFINE e == [d EXCEPT !.roles[o.role] = x]
  <2>1. /\ e.roles = [d.roles EXCEPT ![o.role] = x] /\ SameRows(d, e)
        /\ e.users = d.users /\ e.grant = d.grant /\ e.bind = d.bind
    BY <1>1 DEF Database, SameRows
  <2>2. e \in Database
    BY <1>1 DEF Database
  <2> HIDE DEF e
  <2>3. \A r \in Role : RoleLives(d, r) => RoleLives(e, r)
    BY <1>1, <2>1 DEF Database, RoleLives
  <2>4. RolesFound(e)
    BY <1>1, <2>1, <2>3 DEF RolesFound, Database
  <2>5. \A r \in LiveRoles(d) : r \in LiveRoles(e)
    BY <2>3 DEF LiveRoles
  <2>6. Result(d, e, o)
    BY <2>1, <2>2, <2>4, <2>5, SameRowsResult DEF Consistent
  <2> QED BY <2>6 DEF e
<1>3. CASE o.kind = "create_role"
  BY <1>2, <1>3 DEF Effect, CreateRole
<1>4. CASE o.kind = "update_role"
  <2> DEFINE x == IF o.status = "keep" THEN s.roles[o.role] ELSE o.status
  <2>1. Effect(d, s, o) = UpdateRole(d, s, o)
    BY <1>4 DEF Effect
  <2>2. x \in {"on", "off"}
    BY <1>1, <1>4 DEF InputOf, RoleLives
  <2> HIDE DEF x
  <2>3. CASE RoleLives(d, o.role)
    <3>1. Effect(d, s, o) = [d EXCEPT !.roles[o.role] = x]
      BY <2>1, <2>3 DEF UpdateRole, x
    <3> QED BY <1>2, <2>2, <3>1
  <2>4. CASE ~RoleLives(d, o.role)
    <3>1. Effect(d, s, o) = d
      BY <2>1, <2>4 DEF UpdateRole
    <3> QED BY <1>1, <3>1, SameRowsResult DEF Consistent, SameRows
  <2> QED BY <2>3, <2>4
<1>5. CASE o.kind = "delete_role"
  <2> DEFINE e == DeleteRole(d, o)
  <2>1. Effect(d, s, o) = e
    BY <1>5 DEF Effect
  <2>2. e \in Database
    BY <1>1 DEF Database, DeleteRole
  <2>3. /\ SameRows(d, e) /\ e.users = d.users /\ e.roles = [d.roles EXCEPT ![o.role] = "gone"]
        /\ e.grant = {g \in d.grant : g[1] # o.role} /\ e.bind = {b \in d.bind : b[2] # o.role}
    BY <1>1 DEF Database, SameRows, DeleteRole
  <2> HIDE DEF e
  <2>4. \A r \in Role : RoleLives(d, r) => RoleLives(e, r) \/ r = o.role
    BY <1>1, <2>3 DEF Database, RoleLives
  <2>5. RolesFound(e)
    BY <1>1, <2>3, <2>4 DEF RolesFound, Database
  <2>6. \A r \in LiveRoles(d) : r \in LiveRoles(e) \/ r = o.role
    BY <2>4 DEF LiveRoles
  <2> QED BY <1>5, <2>1, <2>2, <2>3, <2>5, <2>6, SameRowsResult DEF Consistent
<1>6. CASE o.kind = "assign_permissions"
  <2> DEFINE e == AssignPermissions(d, o)
  <2>1. Effect(d, s, o) = e
    BY <1>6 DEF Effect
  <2>2. o.perms \subseteq PermId /\ o.perms \subseteq PermIds(d) /\ (o.perms = {} \/ RoleLives(d, o.role))
    BY <1>6 DEF InputOf, Refers, LiveRoles
  <2>3. e \in Database
    BY <1>1, <2>2 DEF Database, AssignPermissions
  <2>4. /\ SameRows(d, e) /\ e.users = d.users /\ e.bind = d.bind /\ e.roles = d.roles
        /\ e.grant = {g \in d.grant : g[1] # o.role} \cup ({o.role} \X o.perms)
    BY <1>1 DEF Database, SameRows, AssignPermissions
  <2> HIDE DEF e
  <2>5. \A g \in e.grant : RoleLives(d, g[1]) /\ g[2] \in PermIds(d)
    BY <1>1, <2>2, <2>4 DEF RolesFound, Consistent
  <2>6. RolesFound(e)
    BY <1>1, <2>4, <2>5, SameRoles DEF RolesFound
  <2> QED BY <2>1, <2>3, <2>4, <2>5, <2>6, SameRoles, SameRowsResult DEF Consistent
<1> QED BY <1>3, <1>4, <1>5, <1>6

LEMMA EmployeeResult ==
  ASSUME NEW d, NEW s, NEW o, Consistent(d), InputOf(o),
         o.kind \in {"assign_users", "set_user_roles", "create_employee", "update_employee",
                     "delete_employee", "reset_password"},
         o.kind = "update_employee" => s \in Database, Refers(d, s, o), BuiltinOn(d)
  PROVE  Result(d, Effect(d, s, o), o)
<1>1. /\ d \in Database /\ RolesFound(d)
      /\ \A b \in d.bind : b[1] \in d.users /\ b \in User \X Role /\ RoleLives(d, b[2])
  BY DEF Consistent, Database, RolesFound
\* It is enough that the bindings are found, as roles and grants stay as they were.
<1>2. ASSUME NEW e, e \in Database, SameRows(d, e), e.grant = d.grant, e.roles = d.roles,
             \A u \in d.users : u \in e.users \/ (o.kind = "delete_employee" /\ u = o.user),
             \A u \in e.users : u \in d.users \/ (o.kind = "create_employee" /\ u = o.user),
             \A b \in e.bind : b[1] \in e.users /\ RoleLives(d, b[2])
      PROVE  Result(d, e, o)
  <2>1. RolesFound(e)
    BY <1>1, <1>2, SameRoles DEF RolesFound
  <2>2. \A r \in LiveRoles(d) : r \in LiveRoles(e)
    BY <1>2, SameRoles
  <2> QED BY <1>2, <2>1, <2>2, SameRowsResult DEF Consistent
<1>3. o.kind \in Binding => \A r \in o.roles : RoleLives(d, r)
  BY DEF Refers, LiveRoles
<1>4. CASE o.kind = "assign_users"
  <2> DEFINE e == AssignUsers(d, o)
  <2>1. Effect(d, s, o) = e
    BY <1>4 DEF Effect
  <2>2. o.users \subseteq User /\ o.roles \subseteq Role /\ o.users \subseteq d.users
    BY <1>4 DEF InputOf, Refers
  <2>3. e \in Database
    BY <1>1, <2>2 DEF Database, AssignUsers
  <2>4. /\ SameRows(d, e) /\ e.users = d.users /\ e.grant = d.grant /\ e.roles = d.roles
        /\ e.bind = d.bind \cup (o.users \X o.roles)
    BY <1>1 DEF Database, SameRows, AssignUsers
  <2> HIDE DEF e
  <2>5. \A b \in e.bind : b[1] \in e.users /\ RoleLives(d, b[2])
    BY <1>1, <1>4, <1>3, <2>2, <2>4 DEF Binding
  <2> QED BY <1>2, <2>1, <2>3, <2>4, <2>5
<1>5. CASE o.kind = "set_user_roles"
  <2> DEFINE e == SetUserRoles(d, o)
  <2>1. Effect(d, s, o) = e
    BY <1>5 DEF Effect
  <2>2. o.user \in User /\ o.roles \subseteq Role /\ (o.roles = {} \/ o.user \in d.users)
    BY <1>5 DEF InputOf, Refers
  <2>3. \A b \in SetRoles(d, o.user, o.roles) :
          b \in User \X Role /\ b[1] \in d.users /\ RoleLives(d, b[2])
    BY <1>1, <1>5, <1>3, <2>2 DEF SetRoles, Binding
  <2>4. SetRoles(d, o.user, o.roles) \in SUBSET (User \X Role)
    BY <2>3
  <2>5. e \in Database
    BY <1>1, <2>4 DEF Database, SetUserRoles
  <2>6. /\ SameRows(d, e) /\ e.users = d.users /\ e.grant = d.grant /\ e.roles = d.roles
        /\ e.bind = SetRoles(d, o.user, o.roles)
    BY <1>1 DEF Database, SameRows, SetUserRoles
  <2> HIDE DEF e
  <2> QED BY <1>2, <2>1, <2>3, <2>5, <2>6
<1>6. ASSUME o.user \in User, o.roles \subseteq Role, o.kind \in Binding
      PROVE  \A b \in EnsureEmployeeRole(d, s, o) :
               /\ b \in User \X Role /\ RoleLives(d, b[2])
               /\ b[1] \in d.users
                  \/ (b[1] = o.user /\ (o.roles # {} \/ FindRoleIDsByUserID(s, o.user) = {}))
  <2>1. EmployeeRole(s) \subseteq Role /\ \A r \in EmployeeRole(s) : RoleLives(d, r)
    BY StoreAssumption DEF EmployeeRole, BuiltinOn, BuiltinRoles, RoleLives
  <2>2. CASE o.roles # {}
    BY <1>1, <1>6, <1>3, <2>2 DEF EnsureEmployeeRole, SetRoles
  <2>3. CASE o.roles = {} /\ FindRoleIDsByUserID(s, o.user) # {}
    BY <1>1, <2>3 DEF EnsureEmployeeRole
  <2>4. CASE o.roles = {} /\ FindRoleIDsByUserID(s, o.user) = {}
    BY <1>1, <1>6, <2>1, <2>4 DEF EnsureEmployeeRole
  <2> QED BY <2>2, <2>3, <2>4
<1>7. CASE o.kind = "create_employee"
  <2> DEFINE e == CreateEmployee(d, s, o)
  <2>1. Effect(d, s, o) = e
    BY <1>7 DEF Effect
  <2>2. o.user \in User /\ o.roles \subseteq Role
    BY <1>7 DEF InputOf
  <2>3. \A b \in EnsureEmployeeRole(d, s, o) :
          b \in User \X Role /\ b[1] \in d.users \cup {o.user} /\ RoleLives(d, b[2])
    BY <1>6, <1>7, <2>2 DEF Binding
  <2>4. EnsureEmployeeRole(d, s, o) \in SUBSET (User \X Role)
    BY <2>3
  <2>5. e \in Database
    BY <1>1, <2>2, <2>4 DEF Database, CreateEmployee
  <2>6. /\ SameRows(d, e) /\ e.users = d.users \cup {o.user} /\ e.grant = d.grant
        /\ e.roles = d.roles /\ e.bind = EnsureEmployeeRole(d, s, o)
    BY <1>1 DEF Database, SameRows, CreateEmployee
  <2> HIDE DEF e
  <2> QED BY <1>7, <1>2, <2>1, <2>3, <2>5, <2>6
<1>8. CASE o.kind = "update_employee"
  <2> DEFINE e == UpdateEmployee(d, s, o)
  <2>1. Effect(d, s, o) = e
    BY <1>8 DEF Effect
  <2>2. o.user \in User /\ o.roles \subseteq Role /\ s.ver[o.user] \in Nat
    BY <1>8 DEF InputOf, Database
  <2>3. \A b \in EnsureEmployeeRole(d, s, o) :
          b \in User \X Role /\ b[1] \in d.users /\ RoleLives(d, b[2])
    BY <1>6, <1>8, <2>2 DEF Refers, Binding
  <2>4. EnsureEmployeeRole(d, s, o) \in SUBSET (User \X Role)
    BY <2>3
  <2>5. e \in Database
    BY <1>1, <2>2, <2>4 DEF Database, UpdateEmployee
  <2>6. /\ SameRows(d, e) /\ e.users = d.users /\ e.grant = d.grant
        /\ e.roles = d.roles /\ e.bind = EnsureEmployeeRole(d, s, o)
    BY <1>1 DEF Database, SameRows, UpdateEmployee
  <2> HIDE DEF e
  <2> QED BY <1>2, <2>1, <2>3, <2>5, <2>6
<1>9. CASE o.kind = "delete_employee"
  <2> DEFINE e == DeleteEmployee(d, o)
  <2>1. Effect(d, s, o) = e
    BY <1>9 DEF Effect
  <2>2. o.user \in User
    BY <1>9 DEF InputOf
  <2>3. e \in Database
    BY <1>1, <2>2 DEF Database, DeleteEmployee
  <2>4. /\ SameRows(d, e) /\ e.users = d.users \ {o.user} /\ e.grant = d.grant
        /\ e.roles = d.roles /\ e.bind = {b \in d.bind : b[1] # o.user}
    BY <1>1 DEF Database, SameRows, DeleteEmployee
  <2> HIDE DEF e
  <2> QED BY <1>1, <1>9, <1>2, <2>1, <2>3, <2>4
<1>10. CASE o.kind = "reset_password"
  <2> DEFINE e == ResetPassword(d, o)
  <2>1. Effect(d, s, o) = e
    BY <1>10 DEF Effect
  <2>2. e \in Database
    BY <1>1 DEF Database, ResetPassword
  <2>3. /\ SameRows(d, e) /\ e.users = d.users /\ e.grant = d.grant
        /\ e.roles = d.roles /\ e.bind = d.bind
    BY <1>1 DEF Database, SameRows, ResetPassword
  <2> HIDE DEF e
  <2> QED BY <1>1, <1>2, <2>1, <2>2, <2>3
<1> QED BY <1>4, <1>5, <1>7, <1>8, <1>9, <1>10

LEMMA IdsFinite ==
  ASSUME NEW d, Consistent(d)
  PROVE  /\ IsFiniteSet(PlatformIds(d)) /\ IsFiniteSet(d.closed \cup PlatformIds(d))
         /\ IsFiniteSet(PermIds(d)) /\ IsFiniteSet(d.gone \cup PermIds(d))
         /\ d.closed \cup PlatformIds(d) \in SUBSET (PlatformCode \X Nat)
         /\ d.gone \cup PermIds(d) \in SUBSET (Code \X Nat)
<1> DEFINE f == [p \in d.plat |-> p.id]
           g == [p \in d.perm |-> p.id]
<1>1. PlatformIds(d) = {f[p] : p \in d.plat} /\ PermIds(d) = {g[p] : p \in d.perm}
  BY DEF PlatformIds, PermIds
<1>2. DOMAIN f = d.plat /\ DOMAIN g = d.perm
  OBVIOUS
<1> HIDE DEF f, g
<1>3. IsFiniteSet(PlatformIds(d)) /\ IsFiniteSet(PermIds(d))
  BY <1>1, <1>2, Image DEF Consistent
<1>4. IsFiniteSet(d.closed \cup PlatformIds(d)) /\ IsFiniteSet(d.gone \cup PermIds(d))
  BY <1>3, FS_Union DEF Consistent
<1>5. /\ d.closed \cup PlatformIds(d) \in SUBSET (PlatformCode \X Nat)
      /\ d.gone \cup PermIds(d) \in SUBSET (Code \X Nat)
  BY DEF Consistent, Database, SysPlatform, SysPermission, PlatformId, PermId, PlatformIds, PermIds
<1> QED BY <1>3, <1>4, <1>5

\* A permission's serial number is a number; nothing else about it matters here.
LEMMA NewPermTyped ==
  ASSUME NEW d, Consistent(d), NEW c \in Code
  PROVE  NewPerm(d, c) \in PermId
<1> DEFINE T == {i \in d.gone \cup PermIds(d) : i[1] = c}
<1>1. T \in SUBSET (d.gone \cup PermIds(d))
  OBVIOUS
<1>2. Cardinality(T) \in Nat
  <2> HIDE DEF T
  <2>1. IsFiniteSet(T)
    BY <1>1, IdsFinite, FS_Subset
  <2> QED BY <2>1, FS_CardinalityType
<1> QED BY <1>2 DEF NewPerm, PermId

LEMMA NewPlatformFresh ==
  ASSUME NEW d, Consistent(d), NEW c \in PlatformCode
  PROVE  /\ NewPlatform(d, c) \in PlatformId
         /\ NewPlatform(d, c) \notin d.closed \cup PlatformIds(d)
         /\ Dense(d.closed \cup PlatformIds(d) \cup {NewPlatform(d, c)})
<1> DEFINE ids == d.closed \cup PlatformIds(d)
           k == Cardinality({i \in ids : i[1] = c})
<1>1. ids \in SUBSET (PlatformCode \X Nat) /\ IsFiniteSet(ids) /\ Dense(ids)
  BY IdsFinite DEF Consistent
<1>2. NewPlatform(d, c) = <<c, k>>
  BY DEF NewPlatform
<1> HIDE DEF ids
<1>3. k \in Nat /\ <<c, k>> \notin ids /\ Dense(ids \cup {<<c, k>>})
  BY <1>1, NextNumber
<1> HIDE DEF k
<1> QED BY <1>2, <1>3 DEF ids, PlatformId

\* Platforms and permissions are added.
LEMMA GrownResult ==
  ASSUME NEW d, NEW e, NEW o, Consistent(d), e \in Database,
         e.users = d.users /\ e.grant = d.grant /\ e.bind = d.bind /\ e.roles = d.roles,
         e.gone = d.gone /\ e.closed = d.closed,
         d.plat \subseteq e.plat /\ d.perm \subseteq e.perm,
         IsFiniteSet(e.plat) /\ IsFiniteSet(e.perm),
         Dense(e.closed \cup PlatformIds(e)),
         \A y \in e.perm \ d.perm :
           /\ y.plat \in PlatformIds(e)
           /\ \/ o.kind = "create_permission" /\ y.plat = o.plat
              \/ o.kind = "create_platform" /\ y.plat \notin d.closed \cup PlatformIds(d)
  PROVE  Result(d, e, o)
<1>1. PlatformIds(d) \subseteq PlatformIds(e) /\ PermIds(d) \subseteq PermIds(e)
  BY DEF PlatformIds, PermIds
<1>2. RolesFound(e)
  BY RolesStayFound DEF Consistent
<1>3. Consistent(e)
  BY <1>1, <1>2 DEF Consistent
<1>4. \A y \in d.perm : y.id \in PermIds(d)
  BY DEF PermIds
<1>5. LiveRoles(e) = LiveRoles(d)
  BY SameRoles
<1>6. Leaves(d, e, o)
  BY <1>1, <1>4, <1>5 DEF Leaves
<1> QED BY <1>3, <1>6 DEF Result

\* Rows change, but not what they refer to nor their ids.
LEMMA RenamedResult ==
  ASSUME NEW d, NEW e, NEW o, Consistent(d), e \in Database,
         e.users = d.users /\ e.grant = d.grant /\ e.bind = d.bind /\ e.roles = d.roles,
         e.gone = d.gone /\ e.closed = d.closed,
         NEW f, DOMAIN f = d.plat, e.plat = {f[p] : p \in d.plat},
         NEW g, DOMAIN g = d.perm, e.perm = {g[p] : p \in d.perm},
         \A p \in d.plat : f[p].id = p.id,
         \A p \in d.perm : g[p].id = p.id /\ g[p].plat = p.plat
  PROVE  Result(d, e, o)
<1>1. IsFiniteSet(e.plat) /\ IsFiniteSet(e.perm)
  BY Image DEF Consistent
<1>2. PlatformIds(d) = PlatformIds(e) /\ PermIds(d) = PermIds(e)
  BY DEF PlatformIds, PermIds
<1>3. \A y \in e.perm : \E z \in d.perm : z.id = y.id /\ z.plat = y.plat
  OBVIOUS
<1>4. RolesFound(e)
  BY RolesStayFound DEF Consistent
<1>5. Consistent(e)
  BY <1>1, <1>2, <1>3, <1>4 DEF Consistent
<1>6. \A y \in d.perm : y.id \in PermIds(d)
  BY DEF PermIds
<1>7. LiveRoles(e) = LiveRoles(d)
  BY SameRoles
<1>8. Leaves(d, e, o)
  BY <1>2, <1>3, <1>6, <1>7 DEF Leaves
<1> QED BY <1>5, <1>8 DEF Result

LEMMA PlatformResult ==
  ASSUME NEW d, NEW s, NEW o, Consistent(d), InputOf(o),
         o.kind \in {"create_platform", "update_platform", "delete_platform", "create_permission"},
         Refers(d, s, o)
  PROVE  Result(d, Effect(d, s, o), o)
<1>1. d \in Database
  BY DEF Consistent
<1>2. CASE o.kind = "create_platform"
  <2> DEFINE e   == CreatePlatform(d, o)
             i   == NewPlatform(d, o.code)
             c   == PlatformAccessCode(o.code)
             row == [id |-> i, name |-> o.name, code |-> o.code]
             own == [id |-> NewPerm(d, c), plat |-> i, code |-> c]
  <2>1. Effect(d, s, o) = e
    BY <1>2 DEF Effect
  <2>2. o.code \in PlatformCode /\ o.name \in Name /\ c \in Code
    BY <1>2, CodeAssumption DEF InputOf
  <2>3. i \in PlatformId /\ i \notin d.closed \cup PlatformIds(d)
        /\ Dense(d.closed \cup PlatformIds(d) \cup {i})
    BY <2>2, NewPlatformFresh
  <2>4. e = [d EXCEPT !.plat = @ \cup {row}, !.perm = @ \cup {own}]
    BY DEF CreatePlatform
  <2>5. NewPerm(d, c) \in PermId
    BY <2>2, NewPermTyped
  <2> HIDE DEF i, c
  <2>6. row \in SysPlatform /\ own \in SysPermission /\ row.id = i /\ own.plat = i
    BY <2>2, <2>3, <2>5 DEF SysPlatform, SysPermission
  <2> HIDE DEF e, row, own
  <2>7. e \in Database
    BY <1>1, <2>4, <2>6 DEF Database
  <2>8. /\ e.users = d.users /\ e.grant = d.grant /\ e.bind = d.bind /\ e.roles = d.roles
        /\ e.gone = d.gone /\ e.closed = d.closed
        /\ e.plat = d.plat \cup {row} /\ e.perm = d.perm \cup {own}
    BY <1>1, <2>4 DEF Database
  <2>9. IsFiniteSet(e.plat) /\ IsFiniteSet(e.perm)
    <3>1. IsFiniteSet(d.plat) /\ IsFiniteSet(d.perm)
      BY DEF Consistent
    <3>2. IsFiniteSet(d.plat \cup {row})
      BY <3>1, FS_AddElement
    <3>3. IsFiniteSet(d.perm \cup {own})
      BY <3>1, FS_AddElement
    <3> QED BY <2>8, <3>2, <3>3
  <2>10. PlatformIds(e) = PlatformIds(d) \cup {i}
    BY <2>6, <2>8 DEF PlatformIds
  <2>11. e.closed \cup PlatformIds(e) = d.closed \cup PlatformIds(d) \cup {i}
    BY <2>8, <2>10
  <2>12. \A y \in e.perm \ d.perm : y.plat \in PlatformIds(e) /\ y.plat \notin d.closed \cup PlatformIds(d)
    BY <2>3, <2>6, <2>8, <2>10
  <2> QED BY <1>2, <2>1, <2>3, <2>7, <2>8, <2>9, <2>11, <2>12, GrownResult
<1>3. CASE o.kind = "update_platform"
  <2> DEFINE e == UpdatePlatform(d, s, o)
             f == [p \in d.plat |-> IF p.id = o.plat
                                    THEN [p EXCEPT !.name = o.name, !.code = o.code] ELSE p]
             g == [p \in d.perm |-> IF p.id \in Renamed(s, o)
                                    THEN [p EXCEPT !.code = PlatformAccessCode(o.code)] ELSE p]
  <2>1. Effect(d, s, o) = e
    BY <1>3 DEF Effect
  <2>2. o.code \in PlatformCode /\ o.name \in Name /\ PlatformAccessCode(o.code) \in Code
    BY <1>3, CodeAssumption DEF InputOf
  <2>3. d.plat \in SUBSET SysPlatform /\ d.perm \in SUBSET SysPermission
    BY <1>1 DEF Database
  <2>4. /\ \A p \in d.plat : f[p] \in SysPlatform /\ f[p].id = p.id
        /\ \A p \in d.perm : g[p] \in SysPermission /\ g[p].id = p.id /\ g[p].plat = p.plat
    BY <2>2, <2>3 DEF SysPlatform, SysPermission
  <2>5. e = [d EXCEPT !.plat = {f[p] : p \in d.plat}, !.perm = {g[p] : p \in d.perm}]
    BY DEF UpdatePlatform
  <2>6. DOMAIN f = d.plat /\ DOMAIN g = d.perm
    OBVIOUS
  <2> HIDE DEF e, f, g
  <2>7. {f[p] : p \in d.plat} \in SUBSET SysPlatform /\ {g[p] : p \in d.perm} \in SUBSET SysPermission
    BY <2>4
  <2>8. e \in Database
    BY <1>1, <2>5, <2>7 DEF Database
  <2>9. /\ e.users = d.users /\ e.grant = d.grant /\ e.bind = d.bind /\ e.roles = d.roles
        /\ e.gone = d.gone /\ e.closed = d.closed
        /\ e.plat = {f[p] : p \in d.plat} /\ e.perm = {g[p] : p \in d.perm}
    BY <1>1, <2>5 DEF Database
  <2> QED BY <2>1, <2>4, <2>6, <2>8, <2>9, RenamedResult
<1>4. CASE o.kind = "delete_platform"
  <2> DEFINE e    == DeletePlatform(d, o)
             lost == {p \in d.perm : p.plat = o.plat}
             gone == {p.id : p \in lost}
  <2>1. Effect(d, s, o) = e
    BY <1>4 DEF Effect
  <2>2. o.plat \in PlatformId /\ gone \in SUBSET PermId /\ gone \subseteq PermIds(d)
    BY <1>1, <1>4 DEF InputOf, Database, SysPermission, PermIds
  <2>3. /\ e = [d EXCEPT !.plat = {p \in @ : p.id # o.plat}, !.perm = @ \ lost,
                !.grant = {g \in @ : g[2] \notin gone}, !.gone = @ \cup gone,
                !.closed = @ \cup ({o.plat} \cap PlatformIds(d))]
    BY DEF DeletePlatform
  <2> HIDE DEF e, gone
  <2>4. e \in Database
    BY <1>1, <2>2, <2>3 DEF Database
  <2>5. /\ e.users = d.users /\ e.bind = d.bind /\ e.roles = d.roles
        /\ e.plat = {p \in d.plat : p.id # o.plat} /\ e.perm = d.perm \ lost
        /\ e.grant = {g \in d.grant : g[2] \notin gone} /\ e.gone = d.gone \cup gone
        /\ e.closed = d.closed \cup ({o.plat} \cap PlatformIds(d))
    BY <1>1, <2>3 DEF Database
  <2>6. PlatformIds(e) = PlatformIds(d) \ {o.plat}
    BY <2>5 DEF PlatformIds
  <2>7. PermIds(d) \ gone \subseteq PermIds(e)
    BY <2>5 DEF PermIds, gone
  <2>8. /\ IsFiniteSet(e.plat) /\ IsFiniteSet(e.perm) /\ IsFiniteSet(e.gone) /\ IsFiniteSet(e.closed)
    <3>1. e.plat \in SUBSET d.plat /\ e.perm \in SUBSET d.perm
      BY <2>5
    <3>2. e.gone \in SUBSET (d.gone \cup PermIds(d)) /\ e.closed \in SUBSET (d.closed \cup PlatformIds(d))
      BY <2>2, <2>5
    <3> QED BY <3>1, <3>2, IdsFinite, FS_Subset DEF Consistent
  <2>9. e.closed \cup PlatformIds(e) = d.closed \cup PlatformIds(d)
    BY <2>5, <2>6
  <2>10. /\ \A p \in e.perm : p.plat \in PlatformIds(e)
         /\ \A g \in e.grant : g[2] \in PermIds(e)
         /\ \A b \in e.bind : b[1] \in e.users
    BY <2>5, <2>6, <2>7 DEF Consistent
  <2>11. RolesFound(e)
    BY <2>5, RolesStayFound DEF Consistent
  <2>12. Consistent(e)
    BY <2>4, <2>8, <2>9, <2>10, <2>11 DEF Consistent
  <2>13. Leaves(d, e, o)
    <3>1. \A y \in d.perm : y.id \in PermIds(e) \/ y.plat = o.plat
      BY <2>5 DEF PermIds
    <3>2. LiveRoles(e) = LiveRoles(d)
      BY <2>5, SameRoles
    <3> QED BY <1>4, <2>5, <2>6, <2>9, <3>1, <3>2 DEF Leaves
  <2> QED BY <2>1, <2>12, <2>13 DEF Result
<1>5. CASE o.kind = "create_permission"
  <2> DEFINE e   == CreatePermission(d, o)
             own == [id |-> NewPerm(d, o.code), plat |-> o.plat, code |-> o.code]
  <2>1. Effect(d, s, o) = e
    BY <1>5 DEF Effect
  <2>2. o.code \in Code /\ o.plat \in PlatformId /\ o.plat \in PlatformIds(d)
    BY <1>5 DEF InputOf, Refers
  <2>3. e = [d EXCEPT !.perm = @ \cup {own}]
    BY DEF CreatePermission
  <2>4. own \in SysPermission /\ own.plat = o.plat
    BY <2>2, NewPermTyped DEF SysPermission
  <2> HIDE DEF e, own
  <2>5. e \in Database
    BY <1>1, <2>3, <2>4 DEF Database
  <2>6. /\ e.users = d.users /\ e.grant = d.grant /\ e.bind = d.bind /\ e.roles = d.roles
        /\ e.gone = d.gone /\ e.closed = d.closed
        /\ e.plat = d.plat /\ e.perm = d.perm \cup {own}
    BY <1>1, <2>3 DEF Database
  <2>7. IsFiniteSet(e.plat) /\ IsFiniteSet(e.perm)
    <3>1. IsFiniteSet(d.plat) /\ IsFiniteSet(d.perm)
      BY DEF Consistent
    <3>2. IsFiniteSet(d.perm \cup {own})
      BY <3>1, FS_AddElement, Zenon
    <3> QED BY <2>6, <3>1, <3>2
  <2>8. PlatformIds(e) = PlatformIds(d)
    BY <2>6 DEF PlatformIds
  <2>9. Dense(e.closed \cup PlatformIds(e))
    BY <2>6, <2>8 DEF Consistent
  <2>10. \A y \in e.perm \ d.perm : y.plat \in PlatformIds(e) /\ y.plat = o.plat
    BY <2>2, <2>4, <2>6, <2>8
  <2> QED BY <1>5, <2>1, <2>5, <2>6, <2>7, <2>9, <2>10, GrownResult
<1> QED BY <1>2, <1>3, <1>4, <1>5

\* An operation whose rows refer to rows that are there leaves the tables consistent.
LEMMA EffectResult ==
  ASSUME NEW d, NEW s, NEW o \in Input, Consistent(d), BuiltinOn(d),
         Refers(d, s, o), Snapshot(d, s, o)
  PROVE  Result(d, Effect(d, s, o), o)
<1>1. InputOf(o) /\ o.kind \in Kinds
  BY InputFacts, InputKinds
<1>2. CASE o.kind \in {"create_role", "update_role", "delete_role", "assign_permissions"}
  BY <1>1, <1>2, RoleResult DEF Snapshot
<1>3. CASE o.kind \in {"assign_users", "set_user_roles", "create_employee", "update_employee",
                       "delete_employee", "reset_password"}
  BY <1>1, <1>3, EmployeeResult DEF Snapshot
<1>4. CASE o.kind \in {"create_platform", "update_platform", "delete_platform", "create_permission"}
  BY <1>1, <1>4, PlatformResult
<1>5. CASE o.kind \in {"me"} \cup Reads
  <2>1. Effect(d, s, o) = d
    BY <1>5 DEF Effect, Reads
  <2>2. d \in Database /\ SameRows(d, d)
    BY DEF Consistent, SameRows
  <2> QED BY <2>1, <2>2, SameRowsResult DEF Consistent
<1> QED BY <1>1, <1>2, <1>3, <1>4, <1>5 DEF Kinds

-----------------------------------------------------------------------------
(* What a start leaves in the tables *)

HasRoot(d) == \E p \in d.plat : p.code = RootCode

\* The parts of the tables that a step of the start does not touch.
SameRest(d, e) ==
  /\ e.users = d.users /\ e.grant = d.grant /\ e.bind = d.bind /\ e.roles = d.roles

LEMMA RootAdded ==
  ASSUME NEW d, Consistent(d), NEW e, e = initRootPlatform(d)
  PROVE  Consistent(e) /\ HasRoot(e) /\ SameRest(d, e) /\ e.perm = d.perm
<1> DEFINE i   == NewPlatform(d, RootCode)
           row == [id |-> i, name |-> RootName, code |-> RootCode]
<1>1. d \in Database /\ RootCode \in PlatformCode /\ RootName \in Name
  BY StoreAssumption DEF Consistent
<1>2. CASE HasRoot(d)
  BY <1>2 DEF initRootPlatform, HasRoot, SameRest
<1>3. CASE ~HasRoot(d)
  <2>1. e = [d EXCEPT !.plat = @ \cup {row}]
    BY <1>3 DEF initRootPlatform, HasRoot
  <2>2. i \in PlatformId /\ Dense(d.closed \cup PlatformIds(d) \cup {i})
    BY <1>1, NewPlatformFresh
  <2> HIDE DEF i
  <2>3. row \in SysPlatform /\ row.id = i /\ row.code = RootCode
    BY <1>1, <2>2 DEF SysPlatform
  <2> HIDE DEF row
  <2>4. e \in Database /\ SameRest(d, e)
    BY <1>1, <2>1, <2>3 DEF Database, SameRest
  <2>5. e.plat = d.plat \cup {row} /\ e.perm = d.perm /\ e.gone = d.gone /\ e.closed = d.closed
    BY <1>1, <2>1 DEF Database
  <2>6. PlatformIds(e) = PlatformIds(d) \cup {i} /\ PermIds(e) = PermIds(d)
    BY <2>3, <2>5 DEF PlatformIds, PermIds
  <2>7. IsFiniteSet(e.plat)
    BY <2>5, FS_AddElement DEF Consistent
  <2>8. e.closed \cup PlatformIds(e) = d.closed \cup PlatformIds(d) \cup {i}
    BY <2>5, <2>6
  <2>9. Consistent(e)
    <3>1. RolesFound(e)
      BY <2>4, RolesStayFound DEF Consistent, SameRest
    <3> QED BY <2>2, <2>4, <2>5, <2>6, <2>7, <2>8, <3>1 DEF Consistent, SameRest
  <2> QED BY <2>3, <2>4, <2>5, <2>9 DEF HasRoot
<1> QED BY <1>2, <1>3

\* No built-in role has been disabled or deleted, but they may be yet to come.
BuiltinOrNone(d) == \A r \in BuiltinRoles : d.roles[r] \in {"on", "none"}

LEMMA RolesAdded ==
  ASSUME NEW d, Consistent(d), HasRoot(d), BuiltinOrNone(d), NEW e, e = initBuiltinRoles(d)
  PROVE  /\ Consistent(e) /\ HasRoot(e) /\ BuiltinOn(e)
         /\ e.users = d.users /\ e.grant = d.grant /\ e.bind = d.bind
<1> DEFINE R == [r \in Role |-> IF r \in BuiltinRoles /\ d.roles[r] = "none" THEN "on" ELSE d.roles[r]]
<1>1. d \in Database /\ e = [d EXCEPT !.roles = R]
  BY DEF Consistent, initBuiltinRoles
<1>2. R \in [Role -> {"none", "on", "off", "gone"}] /\ \A r \in BuiltinRoles : R[r] = "on"
  BY <1>1 DEF Database, BuiltinOrNone, BuiltinRoles
<1> HIDE DEF R
<1>3. e \in Database
  BY <1>1, <1>2 DEF Database
<1>4. /\ e.users = d.users /\ e.grant = d.grant /\ e.bind = d.bind /\ e.roles = R
      /\ e.perm = d.perm /\ e.plat = d.plat /\ e.gone = d.gone /\ e.closed = d.closed
  BY <1>1 DEF Database
<1>5. PlatformIds(e) = PlatformIds(d) /\ PermIds(e) = PermIds(d)
  BY <1>4 DEF PlatformIds, PermIds
<1>6. RolesFound(e)
  <2>1. \A r \in Role : RoleLives(d, r) => RoleLives(e, r)
    BY <1>1, <1>4 DEF RoleLives, R
  <2> QED BY <1>1, <1>4, <2>1 DEF RolesFound, Consistent, Database
<1>7. Consistent(e)
  BY <1>3, <1>4, <1>5, <1>6 DEF Consistent
<1> QED BY <1>2, <1>4, <1>7 DEF HasRoot, BuiltinOn

LEMMA PermissionsAdded ==
  ASSUME NEW d, Consistent(d), HasRoot(d), NEW C \in SUBSET Code, IsFiniteSet(C),
         NEW e, e = AddPermissions(d, C)
  PROVE  /\ Consistent(e) /\ HasRoot(e) /\ SameRest(d, e)
         /\ d.perm \subseteq e.perm /\ C \subseteq PermCodes(e)
<1> DEFINE S == C \ PermCodes(d)
           f == [c \in S |-> [id |-> NewPerm(d, c), plat |-> Root(d), code |-> c]]
           X == {f[c] : c \in S}
<1>1. d \in Database /\ DOMAIN f = S
  BY DEF Consistent
<1>2. Root(d) \in PlatformIds(d) /\ Root(d) \in PlatformId
  <2>1. (CHOOSE p \in d.plat : p.code = RootCode) \in d.plat
    BY DEF HasRoot
  <2> QED BY <1>1, <2>1 DEF Root, PlatformIds, Database, SysPlatform
<1>3. \A c \in S : f[c] \in SysPermission /\ f[c].plat = Root(d) /\ f[c].code = c
  BY <1>2, NewPermTyped DEF SysPermission
<1>4. e = [d EXCEPT !.perm = @ \cup X]
  BY DEF AddPermissions
<1>5. IsFiniteSet(X)
  <2>1. S \in SUBSET C
    OBVIOUS
  <2> HIDE DEF S, f
  <2>2. IsFiniteSet(S)
    BY <2>1, FS_Subset
  <2> QED BY <1>1, <2>2, Image
<1> HIDE DEF f
<1>6. X \in SUBSET SysPermission
  BY <1>3
<1>7. \A y \in X : y.plat = Root(d)
  BY <1>3
<1>8. \A c \in S : \E y \in X : y.code = c
  BY <1>3
<1> HIDE DEF X
<1>9. e \in Database /\ SameRest(d, e)
  BY <1>1, <1>4, <1>6 DEF Database, SameRest
<1>10. e.perm = d.perm \cup X /\ e.plat = d.plat /\ e.gone = d.gone /\ e.closed = d.closed
  BY <1>1, <1>4 DEF Database
<1>11. PlatformIds(e) = PlatformIds(d) /\ PermIds(d) \subseteq PermIds(e)
  BY <1>10 DEF PlatformIds, PermIds
<1>12. IsFiniteSet(e.perm)
  <2>1. IsFiniteSet(d.perm)
    BY DEF Consistent
  <2> QED BY <1>5, <1>10, <2>1, FS_Union
<1>13. Consistent(e)
  <2>1. RolesFound(e)
    BY <1>9, RolesStayFound DEF Consistent, SameRest
  <2> QED BY <1>2, <1>7, <1>9, <1>10, <1>11, <1>12, <2>1 DEF Consistent, SameRest
<1>14. C \subseteq PermCodes(e)
  BY <1>8, <1>10 DEF PermCodes
<1> QED BY <1>9, <1>10, <1>13, <1>14 DEF HasRoot

LEMMA Five == \A a, b, c, x, y : IsFiniteSet({a, b, c, x, y})
<1> SUFFICES ASSUME NEW a, NEW b, NEW c, NEW x, NEW y PROVE IsFiniteSet({a, b, c, x, y})
  OBVIOUS
<1>1. IsFiniteSet({a})
  BY FS_Singleton
<1>2. IsFiniteSet({a} \cup {b})
  BY <1>1, FS_AddElement
<1>3. IsFiniteSet(({a} \cup {b}) \cup {c})
  BY <1>2, FS_AddElement
<1>4. IsFiniteSet((({a} \cup {b}) \cup {c}) \cup {x})
  BY <1>3, FS_AddElement
<1>5. IsFiniteSet(((({a} \cup {b}) \cup {c}) \cup {x}) \cup {y})
  BY <1>4, FS_AddElement
<1>6. {a, b, c, x, y} = ((({a} \cup {b}) \cup {c}) \cup {x}) \cup {y}
  OBVIOUS
<1> QED BY <1>5, <1>6

Under(x, S) == {<<x, a>> : a \in S}

LEMMA BuiltinFinite == IsFiniteSet(builtinPermissions)
<1> DEFINE A == Under("platform", {"list", "create", "update", "delete"})
           B == Under("employee", {"list", "create", "update", "delete", "reset-password"})
           C == Under("role", {"list", "create", "update", "delete", "assign"})
           D == {<<"user", "role", "assign">>, <<"permission", "list">>, <<"permission", "create">>}
           E == Under("menu", {"platform", "employee", "role"})
<1>1. \A x, S : IsFiniteSet(S) => IsFiniteSet(Under(x, S))
  <2> SUFFICES ASSUME NEW x, NEW S, IsFiniteSet(S) PROVE IsFiniteSet(Under(x, S))
    OBVIOUS
  <2> DEFINE f == [a \in S |-> <<x, a>>]
  <2>1. DOMAIN f = S /\ Under(x, S) = {f[a] : a \in S}
    BY DEF Under
  <2> HIDE DEF f
  <2>2. IsFiniteSet({f[a] : a \in S})
    BY <2>1, Image
  <2> QED BY <2>1, <2>2
<1>2. \A a, b, c, x : IsFiniteSet({a, b, c, x}) /\ IsFiniteSet({a, b, c})
  <2> TAKE a, b, c, x
  <2>1. {a, b, c, x} = {a, b, c, x, x} /\ {a, b, c} = {a, b, c, c, c}
    OBVIOUS
  <2> QED BY <2>1, Five
<1>3. IsFiniteSet(A) /\ IsFiniteSet(B) /\ IsFiniteSet(C) /\ IsFiniteSet(D) /\ IsFiniteSet(E)
  <2>1. /\ IsFiniteSet({"list", "create", "update", "delete"})
        /\ IsFiniteSet({"list", "create", "update", "delete", "reset-password"})
        /\ IsFiniteSet({"list", "create", "update", "delete", "assign"})
        /\ IsFiniteSet({"platform", "employee", "role"}) /\ IsFiniteSet(D)
    BY <1>2, Five
  <2> HIDE DEF D
  <2> QED BY <1>1, <2>1
<1>4. builtinPermissions = (((A \cup B) \cup C) \cup D) \cup E
  BY DEF builtinPermissions, Under
<1> HIDE DEF A, B, C, D, E
<1>5. IsFiniteSet(A \cup B)
  BY <1>3, FS_Union
<1>6. IsFiniteSet((A \cup B) \cup C)
  BY <1>3, <1>5, FS_Union
<1>7. IsFiniteSet(((A \cup B) \cup C) \cup D)
  BY <1>3, <1>6, FS_Union
<1> QED BY <1>3, <1>4, <1>7, FS_Union

\* The policy is read off a grant and its permission.
LEMMA InPolicy ==
  ASSUME NEW d, NEW g \in d.grant, NEW p \in d.perm, g[2] = p.id, d.roles[g[1]] = "on"
  PROVE  <<g[1], p.code>> \in ListPolicy(d)
<1> DEFINE x == <<g, p>>
<1>1. x \in d.grant \X d.perm /\ x[1] = g /\ x[2] = p
  OBVIOUS
<1> HIDE DEF x
<1> QED BY <1>1 DEF ListPolicy

LEMMA GrantsAdded ==
  ASSUME NEW d, Consistent(d), HasRoot(d), BuiltinOn(d),
         builtinPermissions \cap Code \subseteq PermCodes(d),
         NEW e, e = initRolePermissions(d)
  PROVE  /\ Consistent(e)
         /\ e.users = d.users /\ e.bind = d.bind /\ e.roles = d.roles
         /\ d.grant \subseteq e.grant /\ PermCodes(d) \subseteq PermCodes(e)
         /\ \A r \in BuiltinRoles : (\A g \in d.grant : g[1] # r) =>
              \A c \in builtinRolePermissions(r) \cap Code :
                \E g \in e.grant, p \in e.perm : g[1] = r /\ g[2] = p.id /\ p.code = c
<1> DEFINE bare == {r \in BuiltinRoles : \A g \in d.grant : g[1] # r}
           W == IF "admin" \in bare THEN {<<Wildcard, Wildcard>>} ELSE {}
           x == AddPermissions(d, W)
           G == {g \in bare \X PermIds(x) :
                   \E p \in x.perm : p.id = g[2] /\ p.code \in builtinRolePermissions(g[1]) \cap Code}
<1>1. e = [x EXCEPT !.grant = @ \cup G]
  BY DEF initRolePermissions
<1>2. W \in SUBSET Code /\ IsFiniteSet(W)
  BY CodeAssumption, FS_Singleton, FS_EmptySet
<1>3. /\ Consistent(x) /\ SameRest(d, x) /\ d.perm \subseteq x.perm /\ W \subseteq PermCodes(x)
  BY <1>2, PermissionsAdded
<1>4. x \in Database /\ bare \subseteq Role
  BY <1>3 DEF Consistent, BuiltinRoles
<1> HIDE DEF x
<1>5. G \in SUBSET (Role \X PermId)
  BY <1>4 DEF Database, SysPermission, PermIds
<1>6. \A g \in G : g[2] \in PermIds(x)
  OBVIOUS
<1>7. \A r \in bare : \A p \in x.perm : p.code \in builtinRolePermissions(r) \cap Code => <<r, p.id>> \in G
  BY DEF PermIds
<1>8. \A r \in bare : builtinRolePermissions(r) \cap Code \subseteq PermCodes(x)
  <2> SUFFICES ASSUME NEW r \in bare, NEW c \in builtinRolePermissions(r) \cap Code
               PROVE  c \in PermCodes(x)
    OBVIOUS
  <2>1. CASE r = "admin"
    BY <1>3, <2>1 DEF builtinRolePermissions
  <2>2. ASSUME r # "admin" PROVE c \in builtinPermissions
    BY <2>2 DEF builtinRolePermissions, builtinPermissions
  <2>3. PermCodes(d) \subseteq PermCodes(x)
    BY <1>3 DEF PermCodes
  <2> QED BY <2>1, <2>2, <2>3
<1> HIDE DEF G
<1>9. e \in Database
  BY <1>1, <1>4, <1>5 DEF Database
<1>10. /\ e.users = x.users /\ e.bind = x.bind /\ e.roles = x.roles /\ e.grant = x.grant \cup G
       /\ e.perm = x.perm /\ e.plat = x.plat /\ e.gone = x.gone /\ e.closed = x.closed
  BY <1>1, <1>4 DEF Database
<1>11. PlatformIds(e) = PlatformIds(x) /\ PermIds(e) = PermIds(x) /\ PermCodes(e) = PermCodes(x)
  BY <1>10 DEF PlatformIds, PermIds, PermCodes
<1>12. Consistent(e)
  <2>1. \A g \in G : RoleLives(x, g[1])
    BY <1>3 DEF G, BuiltinOn, SameRest, RoleLives
  <2>2. RolesFound(e)
    BY <1>3, <1>10, <2>1, SameRoles DEF RolesFound, Consistent
  <2> QED BY <1>3, <1>6, <1>9, <1>10, <1>11, <2>2 DEF Consistent
<1>13. ASSUME NEW r \in bare, NEW c \in builtinRolePermissions(r) \cap Code
       PROVE  \E g \in e.grant, p \in e.perm : g[1] = r /\ g[2] = p.id /\ p.code = c
  <2>1. PICK p \in x.perm : p.code = c
    BY <1>8, <1>13 DEF PermCodes
  <2>2. <<r, p.id>> \in G
    BY <1>7, <1>13, <2>1
  <2>3. <<r, p.id>> \in e.grant /\ p \in e.perm /\ <<r, p.id>>[1] = r /\ <<r, p.id>>[2] = p.id
    BY <1>10, <2>2
  <2> QED BY <2>1, <2>3
<1>14. PermCodes(d) \subseteq PermCodes(e)
  BY <1>3, <1>10 DEF PermCodes
<1>15. \A r \in BuiltinRoles : (\A g \in d.grant : g[1] # r) => r \in bare
  OBVIOUS
<1> HIDE DEF bare
<1> QED BY <1>3, <1>10, <1>12, <1>13, <1>14, <1>15 DEF SameRest

LEMMA AdminAdded ==
  ASSUME NEW d, Consistent(d), BuiltinOn(d), NEW e, e = initAdminUser(d)
  PROVE  /\ Consistent(e) /\ Admin \in e.users /\ <<Admin, "admin">> \in e.bind
         /\ d.bind \subseteq e.bind /\ e.grant = d.grant /\ e.perm = d.perm /\ e.roles = d.roles
<1>1. d \in Database /\ Admin \in User /\ "admin" \in Role
  BY StoreAssumption DEF Consistent
<1> DEFINE v == IF Admin \in d.users THEN d.ver[Admin] ELSE 1
<1>2. v \in Nat
  BY <1>1 DEF Database
<1>3. e = [d EXCEPT !.users = @ \cup {Admin}, !.ver[Admin] = v, !.bind = @ \cup {<<Admin, "admin">>}]
  BY DEF initAdminUser
<1> HIDE DEF v
<1>4. e \in Database
  <2> DEFINE w == [d.ver EXCEPT ![Admin] = v]
  <2>1. w \in [User -> Nat] /\ d.bind \cup {<<Admin, "admin">>} \in SUBSET (User \X Role)
    BY <1>1, <1>2 DEF Database
  <2>2. e = [d EXCEPT !.users = @ \cup {Admin}, !.ver = w, !.bind = @ \cup {<<Admin, "admin">>}]
    BY <1>3
  <2> DEFINE U == d.users \cup {Admin}
             B == d.bind \cup {<<Admin, "admin">>}
  <2>3. U \in SUBSET User
    BY <1>1 DEF Database
  <2>4. e = [d EXCEPT !.users = U, !.ver = w, !.bind = B]
    BY <2>2
  <2> HIDE DEF w, U, B
  <2>5. B \in SUBSET (User \X Role)
    BY <2>1 DEF B
  <2> QED BY <1>1, <2>1, <2>3, <2>4, <2>5 DEF Database
<1>5. /\ e.users = d.users \cup {Admin} /\ e.bind = d.bind \cup {<<Admin, "admin">>}
      /\ e.grant = d.grant /\ e.roles = d.roles
      /\ e.perm = d.perm /\ e.plat = d.plat /\ e.gone = d.gone /\ e.closed = d.closed
  BY <1>1, <1>3 DEF Database
<1>6. PlatformIds(e) = PlatformIds(d) /\ PermIds(e) = PermIds(d)
  BY <1>5 DEF PlatformIds, PermIds
<1>7. RolesFound(e)
  <2>1. RoleLives(d, "admin")
    BY <1>1 DEF BuiltinOn, BuiltinRoles, RoleLives
  <2> QED BY <1>5, <2>1, SameRoles DEF RolesFound, Consistent
<1>8. Consistent(e)
  BY <1>4, <1>5, <1>6, <1>7 DEF Consistent
<1> QED BY <1>5, <1>8

\* A start keeps the tables consistent, loses no grant or binding, and restores the
\* administrator, the built-in permissions and the defaults of roles without grants.
LEMMA StartResult ==
  ASSUME NEW d, Consistent(d), BuiltinOrNone(d), NEW e, e = InitRBAC(d)
  PROVE  /\ Consistent(e) /\ BuiltinOn(e)
         /\ <<Admin, "admin">> \in e.bind /\ Admin \in e.users
         /\ builtinPermissions \cap Code \subseteq PermCodes(e)
         /\ \A r \in BuiltinRoles : (\A g \in d.grant : g[1] # r) =>
              {r} \X (builtinRolePermissions(r) \cap Code) \subseteq ListPolicy(e)
         /\ d.grant \subseteq e.grant /\ d.bind \subseteq e.bind
<1> DEFINE a == initRootPlatform(d)
           b == initBuiltinRoles(a)
           C == builtinPermissions \cap Code
           c == initBuiltinPermissions(b)
           x == initRolePermissions(c)
<1>1. Consistent(a) /\ HasRoot(a) /\ SameRest(d, a)
  BY RootAdded
<1>2. /\ Consistent(b) /\ HasRoot(b) /\ BuiltinOn(b)
      /\ b.users = a.users /\ b.grant = a.grant /\ b.bind = a.bind
  <2> HIDE DEF a
  <2>1. BuiltinOrNone(a)
    BY <1>1 DEF SameRest, BuiltinOrNone
  <2> QED BY <1>1, <2>1, RolesAdded
<1>3. Consistent(c) /\ HasRoot(c) /\ SameRest(b, c) /\ C \subseteq PermCodes(c)
  <2> HIDE DEF b
  <2>1. C \in SUBSET Code /\ C \in SUBSET builtinPermissions
    OBVIOUS
  <2>2. IsFiniteSet(C)
    <3> HIDE DEF C
    <3> QED BY <2>1, BuiltinFinite, FS_Subset
  <2>3. c = AddPermissions(b, C)
    BY DEF initBuiltinPermissions
  <2> HIDE DEF C, c
  <2> QED BY <1>2, <2>1, <2>2, <2>3, PermissionsAdded
<1>4. e = initAdminUser(x)
  BY DEF InitRBAC
<1> HIDE DEF a, b, c
<1>5. c.users = d.users /\ c.grant = d.grant /\ c.bind = d.bind /\ BuiltinOn(c)
  BY <1>1, <1>2, <1>3 DEF SameRest, BuiltinOn
<1>6. /\ Consistent(x)
      /\ x.users = c.users /\ x.bind = c.bind /\ x.roles = c.roles
      /\ c.grant \subseteq x.grant /\ PermCodes(c) \subseteq PermCodes(x)
      /\ \A r \in BuiltinRoles : (\A g \in c.grant : g[1] # r) =>
           \A k \in builtinRolePermissions(r) \cap Code :
             \E g \in x.grant, p \in x.perm : g[1] = r /\ g[2] = p.id /\ p.code = k
  BY <1>3, <1>5, GrantsAdded
<1> HIDE DEF x
<1>7. /\ Consistent(e) /\ Admin \in e.users /\ <<Admin, "admin">> \in e.bind
      /\ x.bind \subseteq e.bind /\ e.grant = x.grant /\ e.perm = x.perm /\ e.roles = x.roles
  <2>1. BuiltinOn(x)
    BY <1>5, <1>6 DEF BuiltinOn
  <2> QED BY <1>4, <1>6, <2>1, AdminAdded
<1>8. ASSUME NEW r \in BuiltinRoles, \A g \in d.grant : g[1] # r,
             NEW k \in builtinRolePermissions(r) \cap Code
      PROVE  <<r, k>> \in ListPolicy(e)
  <2>1. PICK g \in x.grant, p \in x.perm : g[1] = r /\ g[2] = p.id /\ p.code = k
    BY <1>5, <1>6, <1>8
  <2>2. g \in e.grant /\ p \in e.perm /\ e.roles[g[1]] = "on"
    BY <1>5, <1>6, <1>7, <1>8, <2>1 DEF BuiltinOn
  <2> QED BY <2>1, <2>2, InPolicy
<1>9. C \subseteq PermCodes(e)
  BY <1>3, <1>6, <1>7 DEF PermCodes
<1>10. d.grant \subseteq e.grant /\ d.bind \subseteq e.bind
  BY <1>5, <1>6, <1>7
<1>11. BuiltinOn(e)
  BY <1>5, <1>6, <1>7 DEF BuiltinOn
<1> QED BY <1>7, <1>8, <1>9, <1>10, <1>11

\* What InitDatabases is assumed to hold is what the first start leaves (bootstrap.go:80-98).
THEOREM FirstStart == Consistent(InitRBAC(EmptyDatabase)) /\ BuiltinOn(InitRBAC(EmptyDatabase))
<1> DEFINE d == EmptyDatabase
<1>1. d \in Database
  BY DEF EmptyDatabase, Database
<1>2. /\ d.perm = {} /\ d.gone = {} /\ d.plat = {} /\ d.closed = {} /\ d.grant = {} /\ d.bind = {}
      /\ BuiltinOrNone(d)
  BY DEF EmptyDatabase, BuiltinOrNone, BuiltinRoles
<1>3. Consistent(d)
  BY <1>1, <1>2, FS_EmptySet DEF Consistent, Dense, PlatformIds, PermIds, RolesFound
<1> HIDE DEF d
<1>4. Consistent(InitRBAC(d)) /\ BuiltinOn(InitRBAC(d))
  BY <1>2, <1>3, StartResult
<1> QED BY <1>4 DEF d

-----------------------------------------------------------------------------
(* What other requests may still rely on *)

LEMMA OthersRely ==
  ASSUME NEW d, NEW e, NEW o, Consistent(d), Result(d, e, o), NEW s, NEW x
  PROVE  /\ Refers(d, s, x) /\ Apart(d, x, o) => Refers(e, s, x)
         /\ Snapshot(d, s, x) => Snapshot(e, s, x)
<1>1. /\ \A u \in d.users : u \in e.users \/ (o.kind = "delete_employee" /\ u = o.user)
      /\ \A u \in e.users : u \in d.users \/ (o.kind = "create_employee" /\ u = o.user)
      /\ \A r \in LiveRoles(d) : r \in LiveRoles(e) \/ (o.kind = "delete_role" /\ r = o.role)
      /\ \A i \in PlatformIds(d) : i \in PlatformIds(e) \/ (o.kind = "delete_platform" /\ i = o.plat)
      /\ d.closed \cup PlatformIds(d) \subseteq e.closed \cup PlatformIds(e)
      /\ \A y \in d.perm : y.id \in PermIds(e) \/ (o.kind = "delete_platform" /\ y.plat = o.plat)
  BY DEF Result, Leaves
<1>2. ASSUME Refers(d, s, x), Apart(d, x, o) PROVE Refers(e, s, x)
  <2>1. x.kind = "assign_permissions" => x.perms \subseteq PermIds(e)
    <3> SUFFICES ASSUME x.kind = "assign_permissions", NEW i \in x.perms PROVE i \in PermIds(e)
      OBVIOUS
    <3>1. PICK y \in d.perm : y.id = i
      BY <1>2 DEF Refers, PermIds
    <3> QED BY <1>1, <1>2, <3>1 DEF Apart
  <2>2. x.kind = "create_permission" => x.plat \in PlatformIds(e)
    BY <1>1, <1>2 DEF Refers, Apart
  <2>3. x.kind = "assign_users" => x.users \subseteq e.users
    BY <1>1, <1>2 DEF Refers, Apart
  <2>4. /\ x.kind = "set_user_roles" => x.roles = {} \/ x.user \in e.users
        /\ x.kind = "update_employee" =>
             x.user \in e.users \/ (x.roles = {} /\ FindRoleIDsByUserID(s, x.user) # {})
    BY <1>1, <1>2 DEF Refers, Apart
  <2>5. x.kind = "create_employee" => x.user \notin e.users
    BY <1>1, <1>2 DEF Refers, Apart
  <2>6. x.kind = "assign_permissions" => x.perms = {} \/ x.role \in LiveRoles(e)
    BY <1>1, <1>2 DEF Refers, Apart
  <2>7. x.kind \in Binding => x.roles \subseteq LiveRoles(e)
    BY <1>1, <1>2 DEF Refers, Apart
  <2> QED BY <2>1, <2>2, <2>3, <2>4, <2>5, <2>6, <2>7 DEF Refers
<1>3. Snapshot(d, s, x) => Snapshot(e, s, x)
  BY <1>1 DEF Snapshot
<1> QED BY <1>2, <1>3

\* A committed operation cannot bring in a permission that a deletion would take from
\* another request.
LEMMA StillApart ==
  ASSUME NEW d, NEW e, NEW o, Result(d, e, o), NEW y, NEW x, NEW s,
         Apart(d, y, x), Apart(d, o, x), Snapshot(d, s, x)
  PROVE  Apart(e, y, x)
<1>1. \A z \in e.perm :
        \/ \E w \in d.perm : w.id = z.id /\ w.plat = z.plat
        \/ o.kind = "create_permission" /\ z.plat = o.plat
        \/ o.kind = "create_platform" /\ z.plat \notin d.closed \cup PlatformIds(d)
  BY DEF Result, Leaves
<1>2. ASSUME x.kind = "delete_platform", y.kind = "assign_permissions",
             NEW z \in e.perm, z.plat = x.plat
      PROVE  z.id \notin y.perms
  BY <1>1, <1>2 DEF Apart, Snapshot
<1> QED BY <1>2 DEF Apart

\* A request that is not refused refers to rows that are there.
LEMMA WrittenRefers ==
  ASSUME NEW d, NEW s, NEW o \in Input, ~Refused(d, s, o)
  PROVE  Refers(d, s, o)
<1>1. InputOf(o)
  BY InputFacts
<1>2. o.kind = "assign_permissions" =>
        o.perms \subseteq PermIds(d) /\ (o.perms = {} \/ o.role \in LiveRoles(d))
  BY <1>1 DEF Refused, InputOf, LiveRoles
<1>3. ASSUME o.kind \in Binding PROVE o.roles \subseteq LiveRoles(d)
  <2>1. o.roles \subseteq Role
    BY <1>1, <1>3 DEF InputOf, Binding
  <2>2. \A r \in o.roles : RoleLives(d, r)
    BY <1>3 DEF Refused, Binding
  <2> QED BY <2>1, <2>2 DEF LiveRoles
<1>4. /\ o.kind = "create_employee" => o.user \notin d.users
      /\ o.kind = "create_permission" => o.plat \in PlatformIds(d)
      /\ o.kind = "assign_users" => o.users \subseteq d.users
      /\ o.kind = "set_user_roles" => o.roles = {} \/ o.user \in d.users
      /\ o.kind = "update_employee" =>
           o.user \in d.users \/ (o.roles = {} /\ FindRoleIDsByUserID(s, o.user) # {})
  BY DEF Refused
<1> QED BY <1>2, <1>3, <1>4 DEF Refers

\* The locks of a deletion are in the way of whoever refers to what it deletes, those of
\* a new employee's row of whoever creates the same.
LEMMA LocksApart ==
  ASSUME NEW o, NEW x, NEW s, Parents(o) \cap Writes(s, x) = {}
  PROVE  Apart(db, o, x)
<1>1. ASSUME x.kind = "delete_platform" PROVE Apart(db, o, x)
  <2> DEFINE lost == {p.id : p \in {q \in db.perm : q.plat = x.plat}}
  <2>1. Writes(s, x) = {<<"plat", x.plat>>} \cup ({"perm"} \X lost)
    BY <1>1 DEF Writes
  <2>2. \A y \in db.perm : y.plat = x.plat => y.id \in lost
    OBVIOUS
  <2> HIDE DEF lost
  <2>3. ASSUME o.kind = "create_permission" PROVE o.plat # x.plat
    <3>1. <<"plat", o.plat>> \in Parents(o)
      BY <2>3 DEF Parents
    <3> QED BY <2>1, <3>1
  <2>4. ASSUME o.kind = "assign_permissions", NEW y \in db.perm, y.plat = x.plat
        PROVE  y.id \notin o.perms
    <3> SUFFICES ASSUME y.id \in o.perms PROVE FALSE
      OBVIOUS
    <3>1. <<"perm", y.id>> \in Parents(o)
      BY <2>4 DEF Parents
    <3>2. <<"perm", y.id>> \in Writes(s, x)
      BY <2>1, <2>2, <2>4
    <3> QED BY <3>1, <3>2
  <2> QED BY <1>1, <2>3, <2>4 DEF Apart
<1>2. ASSUME x.kind = "delete_employee" PROVE Apart(db, o, x)
  <2>1. <<"user", x.user>> \in Writes(s, x)
    BY <1>2 DEF Writes
  <2>2. ASSUME o.kind = "assign_users", x.user \in o.users PROVE FALSE
    <3>1. <<"user", x.user>> \in Parents(o)
      BY <2>2 DEF Parents
    <3> QED BY <2>1, <3>1
  <2>3. ASSUME o.kind \in {"set_user_roles", "update_employee"}, x.user = o.user PROVE FALSE
    <3>1. <<"user", x.user>> \in Parents(o)
      BY <2>3 DEF Parents
    <3> QED BY <2>1, <3>1
  <2> QED BY <1>2, <2>2, <2>3 DEF Apart
<1>3. ASSUME x.kind = "create_employee", o.kind = "create_employee", x.user = o.user PROVE FALSE
  <2>1. <<"user", x.user>> \in Writes(s, x) /\ <<"user", o.user>> \in Parents(o)
    BY <1>3 DEF Writes, Parents
  <2> QED BY <1>3, <2>1
<1>4. ASSUME x.kind = "delete_role" PROVE Apart(db, o, x)
  <2>1. <<"role", x.role>> \in Writes(s, x)
    BY <1>4 DEF Writes
  <2>2. ASSUME o.kind = "assign_permissions", o.role = x.role PROVE FALSE
    <3>1. <<"role", o.role>> \in Parents(o)
      BY <2>2 DEF Parents
    <3> QED BY <2>1, <2>2, <3>1
  <2>3. ASSUME o.kind \in Binding, x.role \in o.roles PROVE FALSE
    <3>1. <<"role", x.role>> \in Parents(o)
      BY <2>3 DEF Parents, Binding
    <3> QED BY <2>1, <3>1
  <2> QED BY <1>4, <2>2, <2>3 DEF Apart
<1> QED BY <1>1, <1>2, <1>3, <1>4 DEF Apart

-----------------------------------------------------------------------------
(* One request's step *)

\* The tables become e by an operation o, and p becomes r.
LEMMA Moves ==
  ASSUME RequestsInv, NEW p \in Request, NEW r \in ReqType, Becomes(p, r),
         NEW e, NEW o, db' = e, Result(db, e, o),
         RowsInv(r, db), r.op = NoOp => r.tx = "none",
         r.tx = "wrote" =>
           /\ Apart(db, r.op, o) /\ Apart(db, o, r.op)
           /\ \A q \in Request \ {p} : req[q].tx = "wrote" =>
                Apart(db, r.op, req[q].op) /\ Apart(db, req[q].op, r.op),
         \A q \in Request \ {p} : req[q].tx = "wrote" =>
           Apart(db, req[q].op, o) /\ Apart(db, o, req[q].op)
  PROVE  RequestsInv'
<1>1. req' \in [Request -> ReqType] /\ \A q \in Request : req'[q] = IF q = p THEN r ELSE req[q]
  BY DEF RequestsInv, Becomes
<1>2. Consistent(e) /\ Consistent(db)
  BY DEF Result, RequestsInv
<1>3. ASSUME NEW q \in Request
      PROVE  /\ RowsInv(req'[q], db)
             /\ req'[q].op = NoOp => req'[q].tx = "none"
             /\ req'[q].tx = "wrote" => Apart(db, req'[q].op, o) /\ Apart(db, o, req'[q].op)
  BY <1>1 DEF RequestsInv
<1>4. ASSUME NEW q \in Request, NEW x \in Request, q # x, req'[q].tx = "wrote", req'[x].tx = "wrote"
      PROVE  Apart(db, req'[q].op, req'[x].op)
  BY <1>1, <1>4 DEF RequestsInv, LocksInv
<1>5. ASSUME NEW q \in Request PROVE RowsInv(req'[q], e)
  <2> DEFINE t == req'[q]
  <2>1. RowsInv(t, db) /\ (t.op # NoOp /\ t.tx = "wrote" => Apart(db, t.op, o))
    BY <1>3
  <2> HIDE DEF t
  <2>2. /\ Refers(db, t.seen, t.op) /\ Apart(db, t.op, o) => Refers(e, t.seen, t.op)
        /\ Snapshot(db, t.seen, t.op) => Snapshot(e, t.seen, t.op)
    BY <1>2, OthersRely
  <2>3. RowsInv(t, e)
    BY <2>1, <2>2 DEF RowsInv
  <2> QED BY <2>3 DEF t
<1>6. ASSUME NEW q \in Request, NEW x \in Request, q # x, req'[q].tx = "wrote", req'[x].tx = "wrote"
      PROVE  Apart(e, req'[q].op, req'[x].op)
  <2> DEFINE t == req'[x]
             y == req'[q].op
  <2>1. Apart(db, y, t.op) /\ Apart(db, o, t.op)
    BY <1>3, <1>4, <1>6
  <2>2. RowsInv(t, db) /\ t.tx = "wrote" /\ t.op # NoOp
    BY <1>3, <1>6
  <2> HIDE DEF t, y
  <2>3. Snapshot(db, t.seen, t.op)
    BY <2>2 DEF RowsInv, Snapshot
  <2>4. Apart(e, y, t.op)
    BY <2>1, <2>3, StillApart
  <2> QED BY <2>4 DEF t, y
<1>7. LocksInv'
  BY <1>6 DEF LocksInv
<1>8. Consistent(db)'
  BY <1>2 DEF Consistent, Database, PlatformIds, PermIds, Dense, IsFiniteSet
<1>9. \A q \in Request : RowsInv(req[q], db)' /\ (req'[q].op = NoOp => req'[q].tx = "none")
  BY <1>3, <1>5
<1> QED BY <1>1, <1>7, <1>8, <1>9 DEF RequestsInv

Nothing == [kind |-> "none"]

LEMMA NothingIsApart == \A d, o : Apart(d, o, Nothing) /\ Apart(d, Nothing, o)
BY DEF Apart, Nothing, Binding

\* A step that leaves the tables alone.
LEMMA MovesAlone ==
  ASSUME RequestsInv, NEW p \in Request, NEW r \in ReqType, Becomes(p, r), KeepDb,
         RowsInv(r, db), r.op = NoOp => r.tx = "none",
         r.tx = "wrote" => \A q \in Request \ {p} : req[q].tx = "wrote" =>
           Apart(db, r.op, req[q].op) /\ Apart(db, req[q].op, r.op)
  PROVE  RequestsInv'
<1>1. Result(db, db, Nothing)
  <2>1. db \in Database /\ SameRows(db, db) /\ Consistent(db)
    BY DEF RequestsInv, Consistent, SameRows
  <2> QED BY <2>1, SameRowsResult DEF Consistent
<1>2. db' = db
  BY DEF KeepDb
<1> QED BY <1>1, <1>2, NothingIsApart, Moves

LEMMA EndedRows ==
  /\ Done \in ReqType /\ Idle \in ReqType
  /\ \A d : RowsInv(Done, d) /\ RowsInv(Idle, d)
  /\ Done.op = NoOp /\ Done.tx = "none" /\ Idle.op = NoOp /\ Idle.tx = "none"
<1>1. <<>> \in Seq(Step) /\ <<"arrive">> \in Seq(Step) /\ Admin \in User
  BY StoreAssumption DEF Step
<1>2. Done \in ReqType
  BY <1>1 DEF Done, ReqType
<1>3. Idle \in ReqType
  BY <1>1, <1>2 DEF Idle, ReqType
<1> QED BY <1>2, <1>3 DEF Done, Idle, RowsInv

LEMMA EndsRows ==
  ASSUME RequestsInv, NEW p \in Request, Ends(p), KeepDb
  PROVE  RequestsInv'
<1>1. /\ Done \in ReqType /\ RowsInv(Done, db) /\ Done.op = NoOp /\ Done.tx = "none"
  BY EndedRows
<1> QED BY <1>1, MovesAlone DEF Ends

\* p becomes r by a step that neither checks nor writes.
Goes(p, r) ==
  /\ r \in ReqType /\ GoesOnAs(req[p].todo, r.todo)
  /\ r.op = req[p].op /\ r.seen = req[p].seen /\ r.tx = req[p].tx

LEMMA GoesRows ==
  ASSUME RequestsInv, NEW p \in Request, NEW r, Goes(p, r)
  PROVE  /\ RowsInv(r, db) /\ (r.op = NoOp => r.tx = "none")
         /\ r.tx = "wrote" => \A q \in Request \ {p} : req[q].tx = "wrote" =>
              Apart(db, r.op, req[q].op) /\ Apart(db, req[q].op, r.op)
<1>1. RowsInv(req[p], db) /\ (req[p].op = NoOp => req[p].tx = "none")
  BY DEF RequestsInv
<1>2. RowsInv(r, db)
  BY <1>1 DEF RowsInv, Goes, GoesOnAs
<1>3. r.tx = "wrote" => \A q \in Request \ {p} : req[q].tx = "wrote" =>
        Apart(db, r.op, req[q].op) /\ Apart(db, req[q].op, r.op)
  BY DEF RequestsInv, LocksInv, Goes
<1> QED BY <1>1, <1>2, <1>3 DEF Goes

LEMMA GoesKeeps ==
  ASSUME RequestsInv, NEW p \in Request, NEW r, Goes(p, r), Becomes(p, r), KeepDb
  PROVE  RequestsInv'
<1>1. r \in ReqType
  BY DEF Goes
<1> QED BY <1>1, GoesRows, MovesAlone

LEMMA NextGoes ==
  ASSUME RequestsInv, NEW p \in Request, NEW k \in Step \ {"check", "write"}, At(p, k)
  PROVE  Goes(p, Next1(p)) /\ \A s \in Seq(Other) : Goes(p, Push(p, s))
<1> DEFINE t == req[p].todo
<1>1. req[p] \in ReqType /\ t \in Seq(Step) /\ t # <<>> /\ Head(t) \notin {"check", "write"}
  BY DEF RequestsInv, ReqType, At
<1>2. GoesOnAs(t, Tail(t)) /\ \A s \in Seq(Other) : GoesOnAs(t, s \o Tail(t))
  <2> HIDE DEF t
  <2> QED BY <1>1, NextFacts
<1>3. Goes(p, Next1(p))
  BY <1>1, <1>2 DEF Goes, Next1, ReqType, GoesOnAs
<1>4. ASSUME NEW s \in Seq(Other) PROVE Goes(p, Push(p, s))
  <2>1. PICK v \in Seq(Step) : v = s \o Tail(t) /\ GoesOnAs(t, v)
    BY <1>2 DEF GoesOnAs
  <2>2. Push(p, s) = [req[p] EXCEPT !.todo = v]
    BY <2>1 DEF Push
  <2> QED BY <1>1, <2>1, <2>2 DEF Goes, ReqType
<1> QED BY <1>3, <1>4

\* What a step reads into the request.
LEMMA FilledGoes ==
  ASSUME NEW p, NEW r, Goes(p, r)
  PROVE  /\ \A R \in SUBSET Role : Goes(p, [r EXCEPT !.roles = R])
         /\ \A W \in SUBSET Policy : Goes(p, [r EXCEPT !.rows = W])
BY DEF Goes, ReqType

-----------------------------------------------------------------------------
(* Every action keeps the invariant *)

LEMMA PolicyTyped == \A d \in Database : ListPolicy(d) \subseteq Policy /\ Holding(d) \subseteq User \X Role
<1> SUFFICES ASSUME NEW d \in Database
             PROVE  ListPolicy(d) \subseteq Policy /\ Holding(d) \subseteq User \X Role
  OBVIOUS
<1>1. d.grant \in SUBSET (Role \X PermId) /\ d.perm \in SUBSET SysPermission
  BY DEF Database
<1>2. ASSUME NEW x \in d.grant \X d.perm PROVE <<x[1][1], x[2].code>> \in Policy
  <2>1. x[1] \in Role \X PermId /\ x[2] \in SysPermission
    BY <1>1
  <2> QED BY <2>1 DEF Policy, SysPermission
<1>3. ListPolicy(d) \subseteq Policy
  BY <1>2 DEF ListPolicy
<1> QED BY <1>3 DEF Holding

LEMMA RestStays == RestTyped /\ KeepDb /\ Quiet /\ UNCHANGED enforcer => RestTyped'
BY DEF RestTyped, KeepDb, Quiet, enforcer

LEMMA FaultTyped ==
  ASSUME RestTyped, NEW f, CanFail(f), faults' = faults + 1
  PROVE  faults' \in 0 .. MaxFaults
<1>1. MaxFaults \in Nat /\ faults \in 0 .. MaxFaults /\ faults < MaxFaults
  BY BackendAssumption DEF RestTyped, CanFail
<1> QED BY <1>1

LEMMA ArriveRows == ASSUME TableInv, NEW p \in Request, Arrive(p) PROVE TableInv'
<1>1. PICK o \in Op :
        Becomes(p, [Done EXCEPT !.todo = Program(o[2].kind), !.who = o[1], !.op = o[2]])
  BY DEF Arrive
<1> DEFINE k == o[2].kind
           P == Program(k)
           n == [Done EXCEPT !.todo = P, !.who = o[1], !.op = o[2]]
<1>2. o[1] \in User /\ o[2] \in Input
  BY BackendAssumption
<1>3. k \in Kinds
  BY <1>2, InputKinds
<1>4. P \in Seq(Step) /\ Safe(P, k)
  <2> HIDE DEF k
  <2> QED BY <1>3, ProgramFacts, ProgramsAreSafe
<1> HIDE DEF P
<1>5. Done \in ReqType
  BY EndedRows
<1>6. n \in ReqType /\ n.todo = P /\ n.op = o[2] /\ n.tx = "none"
  BY <1>2, <1>4, <1>5 DEF ReqType, Done
<1>7. Becomes(p, n)
  BY <1>1 DEF P
<1> HIDE DEF n
<1>8. RowsInv(n, db)
  BY <1>4, <1>6 DEF RowsInv, Safe, Snapshot
<1>9. KeepDb /\ Quiet /\ UNCHANGED enforcer
  BY DEF Arrive
<1>10. RequestsInv'
  BY <1>6, <1>7, <1>8, <1>9, MovesAlone DEF TableInv
<1> QED BY <1>9, <1>10, RestStays DEF TableInv

\* A request that ends without having changed anything.
LEMMA EndRows ==
  ASSUME TableInv, NEW p \in Request, Ends(p), KeepDb, Quiet, UNCHANGED enforcer
  PROVE  TableInv'
BY EndsRows, RestStays DEF TableInv

LEMMA GoRows ==
  ASSUME TableInv, NEW p \in Request, NEW r, Goes(p, r), Becomes(p, r), KeepDb, Quiet, UNCHANGED enforcer
  PROVE  TableInv'
BY GoesKeeps, RestStays DEF TableInv

LEMMA Pushed ==
  /\ {"load", "keep", "enforce", "ensure", "decide", "read", "install", "query", "target", "keep_target",
      "spare", "invalidate", "stale", "forget", "save", "commit"} \subseteq Step \ {"check", "write"}
  /\ \A s \in {<<"keep">>, <<"keep_target">>, <<"read">>, <<"install">>, <<"stale", "read">>} :
       s \in Seq(Other)
<1>1. {"keep", "keep_target", "read", "install", "stale"} \subseteq Other
  BY DEF Other, Step, Marks
<1>2. \A a \in Other : <<a>> \in Seq(Other)
  OBVIOUS
<1>3. \A a, b \in Other : <<a, b>> \in Seq(Other)
  OBVIOUS
<1> QED BY <1>1, <1>2, <1>3 DEF Step

LEMMA LoadRows ==
  ASSUME OaInv, TableInv, NEW p \in Request, RolesCached(p) \/ ReadRoles(p) \/ KeepRoles(p)
  PROVE  TableInv'
<1> DEFINE u == Subject(p)
<1>1. /\ req[p] \in ReqType /\ RowsInv(req[p], db) /\ RequestsInv /\ RestTyped
  BY DEF TableInv, RequestsInv
<1>2. CASE RolesCached(p)
  <2>1. PICK k \in {"load", "target"} : At(p, k)
    BY <1>2 DEF RolesCached
  <2>2. u \in User
    <3>1. CASE k = "load"
      BY <1>1, <2>1, <3>1 DEF Subject, At, ReqType
    <3>2. CASE k = "target"
      <4>1. Has(req[p].todo, "target") /\ req[p].op # NoOp
        <5>1. req[p].todo \in Seq(Step) /\ req[p].todo # <<>> /\ Head(req[p].todo) = "target"
          BY <1>1, <2>1, <3>2 DEF At, ReqType
        <5>2. Has(req[p].todo, "target")
          BY <5>1, RestFacts
        <5>3. req[p].op # NoOp
          BY <5>1, Begun DEF OaInv
        <5> QED BY <5>2, <5>3
      <4>2. req[p].op \in Input /\ req[p].op.kind \in Targeting
        BY <1>1, <4>1 DEF RowsInv, ReqType
      <4>3. InputOf(req[p].op)
        BY <4>2, InputFacts
      <4>4. u = req[p].op.user
        BY <2>1, <3>2 DEF Subject, At
      <4> QED BY <4>2, <4>3, <4>4 DEF InputOf, Targeting
    <3> QED BY <3>1, <3>2
  <2>3. cache[u] \in SUBSET Role
    BY <1>1, <1>2, <2>2 DEF RestTyped, RolesCached
  <2>4. Goes(p, Next1(p))
    BY <1>1, <2>1, NextGoes, Pushed
  <2> HIDE DEF u
  <2>5. Goes(p, [Next1(p) EXCEPT !.roles = cache[u]])
    BY <2>3, <2>4, FilledGoes
  <2> QED BY <1>2, <2>5, GoRows DEF RolesCached, u
<1>3. CASE ReadRoles(p)
  <2> DEFINE R == FindRoleCodesByUserID(db, u)
             s == IF At(p, "load") THEN <<"keep">> ELSE <<"keep_target">>
  <2>1. PICK k \in {"load", "target"} : At(p, k)
    BY <1>3 DEF ReadRoles
  <2>2. R \in SUBSET Role
    BY DEF FindRoleCodesByUserID
  <2>3. s \in Seq(Other)
    BY Pushed
  <2> HIDE DEF R, s
  <2>4. Goes(p, Push(p, s))
    BY <1>1, <2>1, <2>3, NextGoes, Pushed
  <2>5. Goes(p, [Push(p, s) EXCEPT !.roles = R])
    BY <2>2, <2>4, FilledGoes
  <2>6. Becomes(p, [Push(p, s) EXCEPT !.roles = R])
    BY <1>3 DEF ReadRoles, R, s
  <2> QED BY <1>3, <2>5, <2>6, GoRows DEF ReadRoles
<1>4. CASE KeepRoles(p)
  <2>1. PICK k \in {"keep", "keep_target"} : At(p, k)
    BY <1>4 DEF KeepRoles
  <2>2. Goes(p, Next1(p))
    BY <1>1, <2>1, NextGoes, Pushed
  <2>3. Becomes(p, Next1(p)) /\ KeepDb /\ Quiet /\ UNCHANGED <<policy, fresh>>
        /\ cache' = [cache EXCEPT ![u] = req[p].roles]
    BY <1>4 DEF KeepRoles
  <2>4. RequestsInv'
    BY <1>1, <2>2, <2>3, GoesKeeps
  <2> HIDE DEF u
  <2>5. cache' \in [User -> {NoRoles} \cup SUBSET Role]
    BY <1>1, <2>3 DEF RestTyped, ReqType
  <2>6. RestTyped'
    BY <1>1, <2>3, <2>5 DEF RestTyped, KeepDb, Quiet
  <2> QED BY <2>4, <2>6 DEF TableInv
<1> QED BY <1>2, <1>3, <1>4

\* The steps that read no rows, and those that read the policy's.
LEMMA PlainRows ==
  ASSUME TableInv, NEW p \in Request,
         EnsurePolicy(p) \/ Decide(p) \/ NoRoleDenied(p) \/ Query(p) \/ SpareAdmin(p)
           \/ Unauthenticated(p) \/ Refuse(p) \/ RevokeUserSessions(p)
  PROVE  TableInv'
<1>1. KeepDb /\ Quiet /\ UNCHANGED enforcer
  BY DEF EnsurePolicy, Decide, NoRoleDenied, Query, SpareAdmin, Unauthenticated, Refuse,
     RevokeUserSessions
<1>2. CASE Ends(p)
  BY <1>1, <1>2, EndRows
<1>3. ASSUME ~Ends(p) PROVE TableInv'
  <2>1. PICK k \in {"enforce", "ensure", "decide", "query", "spare"} :
          At(p, k) /\ (Becomes(p, Next1(p)) \/ Becomes(p, Push(p, <<"read">>)))
    BY <1>3 DEF EnsurePolicy, Decide, NoRoleDenied, Query, SpareAdmin, Unauthenticated, Refuse,
       RevokeUserSessions
  <2>2. Goes(p, Next1(p)) /\ Goes(p, Push(p, <<"read">>))
    <3>1. RequestsInv /\ k \in Step \ {"check", "write"} /\ <<"read">> \in Seq(Other)
      BY Pushed DEF TableInv
    <3> QED BY <2>1, <3>1, NextGoes
  <2> QED BY <1>1, <2>1, <2>2, GoRows
<1> QED BY <1>2, <1>3

LEMMA PolicyRows ==
  ASSUME TableInv, NEW p \in Request,
         ReadPolicy(p) \/ InstallPolicy(p) \/ Invalidate(p) \/ MarkStale(p) \/ Forget(p)
  PROVE  TableInv'
<1>1. /\ req[p] \in ReqType /\ RequestsInv /\ RestTyped /\ db \in Database
  BY DEF TableInv, RequestsInv, Consistent
<1>2. CASE ReadPolicy(p)
  <2> DEFINE W == ListPolicy(db)
  <2>1. W \in SUBSET Policy
    BY <1>1, PolicyTyped
  <2>2. Goes(p, Push(p, <<"install">>))
    BY <1>1, <1>2, NextGoes, Pushed DEF ReadPolicy
  <2> HIDE DEF W
  <2>3. Goes(p, [Push(p, <<"install">>) EXCEPT !.rows = W])
    BY <2>1, <2>2, FilledGoes
  <2> QED BY <1>2, <2>3, GoRows DEF ReadPolicy, W
<1>3. CASE InstallPolicy(p)
  <2>1. Goes(p, Next1(p))
    BY <1>1, <1>3, NextGoes, Pushed DEF InstallPolicy
  <2>2. Goes(p, [Next1(p) EXCEPT !.rows = {}])
    BY <2>1, FilledGoes
  <2>3. Becomes(p, [Next1(p) EXCEPT !.rows = {}]) /\ KeepDb /\ Quiet /\ UNCHANGED cache
        /\ policy' = req[p].rows /\ fresh' = TRUE
    BY <1>3 DEF InstallPolicy
  <2>4. RequestsInv'
    BY <1>1, <2>2, <2>3, GoesKeeps
  <2>5. RestTyped'
    BY <1>1, <2>3 DEF RestTyped, ReqType, KeepDb, Quiet
  <2> QED BY <2>4, <2>5 DEF TableInv
<1>4. CASE Invalidate(p) \/ MarkStale(p) \/ Forget(p)
  <2>1. PICK k \in {"invalidate", "stale", "forget"} :
          At(p, k) /\ (Becomes(p, Next1(p)) \/ Becomes(p, Push(p, <<"stale", "read">>)))
    BY <1>4 DEF Invalidate, MarkStale, Forget
  <2>2. Goes(p, Next1(p)) /\ Goes(p, Push(p, <<"stale", "read">>))
    <3>1. k \in Step \ {"check", "write"} /\ <<"stale", "read">> \in Seq(Other)
      BY Pushed
    <3> QED BY <1>1, <2>1, <3>1, NextGoes
  <2>3. KeepDb /\ Quiet /\ policy' = policy /\ (fresh' = fresh \/ fresh' = FALSE)
    BY <1>4 DEF Invalidate, MarkStale, Forget, enforcer
  <2>4. RequestsInv'
    BY <1>1, <2>1, <2>2, <2>3, GoesKeeps
  <2>5. cache' \in [User -> {NoRoles} \cup SUBSET Role]
    <3>1. CASE UNCHANGED cache
      BY <1>1, <3>1 DEF RestTyped
    <3>2. CASE cache' = [u \in User |-> NoRoles]
      BY <3>2
    <3>3. CASE Forget(p)
      <4> DEFINE F == Forgotten(req[p].seen, req[p].op)
      <4> HIDE DEF F
      <4>1. cache' = [u \in User |-> IF u \in F THEN NoRoles ELSE cache[u]]
        BY <3>3 DEF Forget, F
      <4> QED BY <1>1, <4>1 DEF RestTyped
    <3> QED BY <1>4, <3>1, <3>2, <3>3 DEF Invalidate, MarkStale, enforcer
  <2>6. RestTyped'
    BY <1>1, <2>3, <2>5 DEF RestTyped, KeepDb, Quiet
  <2> QED BY <2>4, <2>6 DEF TableInv
<1> QED BY <1>2, <1>3, <1>4

LEMMA CheckRows == ASSUME OaInv, TableInv, NEW p \in Request, Check(p) PROVE TableInv'
<1> DEFINE t == req[p].todo
           o == req[p].op
           x == IF req[p].tx = "none" /\ InTransaction(p) THEN "open" ELSE req[p].tx
           n == [req[p] EXCEPT !.todo = Tail(t), !.seen = db, !.tx = x]
<1>1. /\ req[p] \in ReqType /\ RowsInv(req[p], db) /\ RequestsInv /\ db \in Database
      /\ KeepDb /\ Quiet /\ UNCHANGED enforcer
  BY DEF TableInv, RequestsInv, Consistent, Check
<1>2. CASE Ends(p)
  BY <1>1, <1>2, EndRows
<1>3. ASSUME ~Ends(p) PROVE TableInv'
  <2>1. At(p, "check") /\ Allowed(db, o)
        /\ Becomes(p, [Next1(p) EXCEPT !.seen = db,
                         !.tx = IF @ = "none" /\ InTransaction(p) THEN "open" ELSE @])
    BY <1>3 DEF Check
  <2>2. Becomes(p, n)
    BY <1>1, <2>1 DEF Next1, ReqType
  <2>3. t \in Seq(Step) /\ t # <<>> /\ Head(t) = "check"
    BY <1>1, <2>1 DEF At, ReqType
  <2>4. o \in Input
    BY <1>1, <2>3, Begun DEF OaInv, ReqType
  <2>5. x \in {"none", "open", "wrote"} /\ (x = "wrote" <=> req[p].tx = "wrote")
    BY <1>1 DEF ReqType
  <2>6. /\ Tail(t) \in Seq(Step)
        /\ \A a \in Marks : /\ Has(Tail(t), a) => Has(t, a)
                            /\ Has(t, a) /\ a # "check" => Has(Tail(t), a)
        /\ CheckedFirst(t) => CheckedFirst(Tail(t))
        /\ Has(t, "check")
    <3> HIDE DEF t
    <3> QED BY <2>3, RestFacts
  <2> HIDE DEF x
  <2>7. /\ n \in ReqType /\ n.todo = Tail(t) /\ n.op = o /\ n.seen = db /\ n.tx = x
    BY <1>1, <2>5, <2>6 DEF ReqType
  <2>8. x = "wrote" => o.kind = "delete_employee"
    BY <1>1, <2>4, <2>5, <2>6, BackendAssumption DEF RowsInv
  <2>9. Snapshot(db, db, o)
    BY <1>1, <2>1 DEF Snapshot, Allowed, DeletePlatformAllowed, UpdateRoleAllowed
  <2>10. x = "wrote" => Refers(db, db, o)
    BY <2>8 DEF Refers, Binding
  <2>11. RowsInv(n, db)
    <3>1. /\ o.kind # "delete_employee" => CheckedFirst(t)
          /\ Has(t, "commit") /\ ~Has(t, "write") => x = "wrote"
          /\ Has(t, "target") => o.kind \in Targeting
      BY <1>1, <2>4, <2>5, BackendAssumption DEF RowsInv
    <3>2. /\ o.kind # "delete_employee" => CheckedFirst(Tail(t))
          /\ Has(Tail(t), "commit") /\ ~Has(Tail(t), "write") => x = "wrote"
          /\ Has(Tail(t), "target") => o.kind \in Targeting
      BY <2>6, <3>1 DEF Marks
    <3> HIDE DEF n, t, o
    <3> QED BY <2>7, <2>8, <2>9, <2>10, <3>2 DEF RowsInv
  <2>12. n.op = NoOp => n.tx = "none"
    BY <2>4, <2>7, BackendAssumption
  <2>13. n.tx = "wrote" => \A q \in Request \ {p} : req[q].tx = "wrote" =>
           Apart(db, n.op, req[q].op) /\ Apart(db, req[q].op, n.op)
    BY <2>5, <2>7 DEF TableInv, RequestsInv, LocksInv
  <2> HIDE DEF n
  <2>14. RequestsInv'
    BY <1>1, <2>2, <2>7, <2>11, <2>12, <2>13, MovesAlone
  <2> QED BY <1>1, <2>14, RestStays DEF TableInv
<1> QED BY <1>2, <1>3

LEMMA WriteRowsKeeps == ASSUME OaInv, TableInv, NEW p \in Request, WriteRows(p) PROVE TableInv'
<1> DEFINE t == req[p].todo
           o == req[p].op
           s == req[p].seen
           n == [req[p] EXCEPT !.todo = Tail(t), !.tx = "wrote"]
<1>1. /\ req[p] \in ReqType /\ RowsInv(req[p], db) /\ RequestsInv
      /\ KeepDb /\ Quiet /\ UNCHANGED enforcer
  BY DEF TableInv, RequestsInv, WriteRows
<1>2. CASE Ends(p)
  BY <1>1, <1>2, EndRows
<1>3. ASSUME ~Ends(p) PROVE TableInv'
  <2>1. At(p, "write") /\ ~Blocked(p) /\ ~Refused(db, s, o) /\ Becomes(p, [Next1(p) EXCEPT !.tx = "wrote"])
    BY <1>3 DEF WriteRows
  <2>2. Becomes(p, n)
    BY <1>1, <2>1 DEF Next1, ReqType
  <2>3. t \in Seq(Step) /\ t # <<>> /\ Head(t) = "write"
    BY <1>1, <2>1 DEF At, ReqType
  <2>4. o \in Input
    BY <1>1, <2>3, Begun DEF OaInv, ReqType
  <2>5. /\ Tail(t) \in Seq(Step)
        /\ \A a \in Marks : Has(Tail(t), a) => Has(t, a)
        /\ CheckedFirst(t) => CheckedFirst(Tail(t)) /\ ~Has(t, "check")
    <3> HIDE DEF t
    <3> QED BY <2>3, RestFacts
  <2>6. /\ n \in ReqType /\ n.todo = Tail(t) /\ n.op = o /\ n.seen = s /\ n.tx = "wrote"
    BY <1>1, <2>5 DEF ReqType
  <2>7. Refers(db, s, o)
    BY <2>1, <2>4, WrittenRefers
  <2>8. RowsInv(n, db)
    <3>1. /\ o.kind # "delete_employee" => CheckedFirst(t)
          /\ ~Has(t, "check") => Snapshot(db, s, o)
          /\ Has(t, "target") => o.kind \in Targeting
      BY <1>1, <2>4, BackendAssumption DEF RowsInv
    <3>2. Snapshot(db, s, o)
      BY <2>5, <3>1 DEF Snapshot
    <3>3. o.kind # "delete_employee" => CheckedFirst(Tail(t)) /\ ~Has(Tail(t), "check")
      BY <2>5, <3>1 DEF Marks
    <3>4. Has(Tail(t), "target") => o.kind \in Targeting
      BY <2>5, <3>1 DEF Marks
    <3> HIDE DEF n, t, o, s
    <3> QED BY <2>6, <2>7, <3>2, <3>3, <3>4 DEF RowsInv
  <2>9. n.op # NoOp
    BY <2>4, <2>6, BackendAssumption
  <2>10. ASSUME NEW q \in Request \ {p}, req[q].tx = "wrote"
         PROVE  Apart(db, o, req[q].op) /\ Apart(db, req[q].op, o)
    <3>1. /\ Writes(s, o) \cap (Writes(req[q].seen, req[q].op) \cup Parents(req[q].op)) = {}
          /\ Parents(o) \cap Writes(req[q].seen, req[q].op) = {}
      BY <2>1, <2>10 DEF Blocked
    <3>2. Parents(req[q].op) \cap Writes(s, o) = {}
      BY <3>1
    <3> HIDE DEF o, s
    <3> QED BY <3>1, <3>2, LocksApart
  <2> HIDE DEF n
  <2>11. RequestsInv'
    BY <1>1, <2>2, <2>6, <2>8, <2>9, <2>10, MovesAlone
  <2> QED BY <1>1, <2>11, RestStays DEF TableInv
<1> QED BY <1>2, <1>3

\* What a commit adds to the histories is of their type.
LEMMA CommitsTyped ==
  ASSUME RestTyped, NEW d \in Database, Commits(d), Quiet, UNCHANGED enforcer
  PROVE  RestTyped'
<1>1. ListPolicy(d) \subseteq Policy /\ Holding(d) \subseteq User \X Role
  BY PolicyTyped
<1> QED BY <1>1 DEF RestTyped, Commits, Quiet, enforcer

\* Who commits has written, and what it refers to is still there.
LEMMA CommitRefers ==
  ASSUME OaInv, TableInv, NEW p \in Request, Commit(p)
  PROVE  /\ req[p].op \in Input /\ req[p].op # NoOp /\ req[p].tx = "wrote"
         /\ Snapshot(db, req[p].seen, req[p].op) /\ Refers(db, req[p].seen, req[p].op)
<1> DEFINE t == req[p].todo
           o == req[p].op
           s == req[p].seen
<1>1. /\ req[p] \in ReqType /\ RowsInv(req[p], db) /\ ReqInv(req[p], granted, held)
  BY DEF TableInv, RequestsInv, OaInv
<1>2. At(p, "commit")
  BY DEF Commit
<1>3. t \in Seq(Step) /\ t # <<>> /\ Head(t) = "commit"
  BY <1>1, <1>2 DEF At, ReqType
<1>4. o \in Input /\ o # NoOp
  BY <1>1, <1>3, Begun DEF ReqType
<1>5. Has(t, "commit") /\ ~Has(t, "write") /\ ~Has(t, "check")
  <2>1. t[1] = "commit" /\ 1 \in 1 .. Len(t)
    BY <1>3
  <2>2. Len(t) = 1
    BY <1>1, <2>1 DEF ReqInv, Ordered
  <2> QED BY <2>1, <2>2 DEF Has
<1> QED BY <1>1, <1>4, <1>5 DEF RowsInv

LEMMA CommitRows == ASSUME OaInv, TableInv, NEW p \in Request, Commit(p) PROVE TableInv'
<1> DEFINE o == req[p].op
           s == req[p].seen
           e == Effect(db, s, o)
<1>1. RequestsInv /\ RestTyped /\ Consistent(db)
  BY DEF TableInv, RequestsInv
<1>2. At(p, "commit") /\ Commits(e) /\ Ends(p) /\ Quiet /\ UNCHANGED enforcer
  BY DEF Commit
<1>3. o \in Input /\ o # NoOp
  BY CommitRefers
<1>4. req[p].tx = "wrote" /\ Snapshot(db, s, o) /\ Refers(db, s, o)
  BY CommitRefers
<1>5. Result(db, e, o)
  <2>1. BuiltinOn(db)
    BY DEF OaInv, Tables
  <2> HIDE DEF e, s, o
  <2> QED BY <1>1, <1>3, <1>4, <2>1, EffectResult DEF e
<1>6. \A q \in Request \ {p} : req[q].tx = "wrote" => Apart(db, req[q].op, o) /\ Apart(db, o, req[q].op)
  BY <1>4 DEF TableInv, RequestsInv, LocksInv
<1>7. Done \in ReqType /\ RowsInv(Done, db) /\ Done.op = NoOp /\ Done.tx = "none"
  BY EndedRows
<1>8. db' = e /\ Becomes(p, Done)
  BY <1>2 DEF Commits, Ends
<1>9. e \in Database
  BY <1>5 DEF Result, Consistent
<1> HIDE DEF e, o
<1>10. RequestsInv'
  BY <1>1, <1>5, <1>6, <1>7, <1>8, Moves
<1> QED BY <1>1, <1>2, <1>9, <1>10, CommitsTyped DEF TableInv

LEMMA SaveRows == ASSUME TableInv, NEW p \in Request, SavePassword(p) PROVE TableInv'
<1> DEFINE u == req[p].op.user
           e == ResetPassword(db, req[p].op)
<1>1. RequestsInv /\ RestTyped /\ Consistent(db) /\ db \in Database
  BY DEF TableInv, RequestsInv, Consistent
<1>2. At(p, "save") /\ Commits(e) /\ Becomes(p, Next1(p)) /\ Quiet /\ UNCHANGED enforcer
  BY DEF SavePassword
<1>3. /\ e \in Database /\ SameRows(db, e) /\ e.users = db.users /\ e.grant = db.grant
      /\ e.bind = db.bind /\ e.roles = db.roles
  <2> DEFINE x == IF u \in db.users THEN db.ver[u] + 1 ELSE db.ver[u]
             v == [db.ver EXCEPT ![u] = x]
  <2>1. v \in [User -> Nat]
    <3>1. db.ver \in [User -> Nat]
      BY <1>1 DEF Database
    <3>2. u \in User => x \in Nat
      BY <3>1
    <3> HIDE DEF u, x
    <3> QED BY <3>1, <3>2
  <2>2. e = [db EXCEPT !.ver = v]
    BY <1>1 DEF ResetPassword, Database
  <2> HIDE DEF v, e
  <2> QED BY <1>1, <2>1, <2>2 DEF Database, SameRows
<1> HIDE DEF e
<1>4. Result(db, e, Nothing)
  <2>1. RolesFound(e) /\ LiveRoles(e) = LiveRoles(db)
    BY <1>1, <1>3, RolesStayFound, SameRoles DEF Consistent
  <2> QED BY <1>1, <1>3, <2>1, SameRowsResult DEF Consistent
<1>5. Goes(p, Next1(p))
  BY <1>1, <1>2, NextGoes, Pushed
<1> DEFINE n == Next1(p)
<1> HIDE DEF n
<1>6. /\ n \in ReqType /\ RowsInv(n, db) /\ (n.op = NoOp => n.tx = "none")
      /\ n.tx = "wrote" => \A q \in Request \ {p} : req[q].tx = "wrote" =>
           Apart(db, n.op, req[q].op) /\ Apart(db, req[q].op, n.op)
  BY <1>1, <1>5, GoesRows DEF Goes, n
<1>7. db' = e /\ Becomes(p, n)
  BY <1>2 DEF Commits, n
<1>8. RequestsInv'
  BY <1>1, <1>4, <1>6, <1>7, NothingIsApart, Moves
<1> QED BY <1>1, <1>2, <1>3, <1>8, CommitsTyped DEF TableInv

LEMMA FailRows == ASSUME TableInv, NEW p \in Request, StatementFails(p) PROVE TableInv'
<1>1. RequestsInv /\ RestTyped /\ KeepDb /\ UNCHANGED <<enforcer, up>>
  BY DEF TableInv, StatementFails
<1>2. RestTyped'
  <2>1. faults' \in 0 .. MaxFaults
    BY <1>1, FaultTyped DEF StatementFails
  <2> QED BY <1>1, <2>1 DEF RestTyped, KeepDb, enforcer
<1>3. CASE Ends(p)
  BY <1>1, <1>2, <1>3, EndsRows DEF TableInv
<1>4. ASSUME ~Ends(p) PROVE TableInv'
  <2>1. At(p, "read") /\ Becomes(p, Next1(p))
    BY <1>4 DEF StatementFails
  <2>2. Goes(p, Next1(p))
    BY <1>1, <2>1, NextGoes, Pushed
  <2> QED BY <1>1, <1>2, <2>1, <2>2, GoesKeeps DEF TableInv
<1> QED BY <1>3, <1>4

\* Requests that have all ended or not begun rely on nothing.
LEMMA FreshRows == Consistent(db) /\ req \in [Request -> {Done, Idle}] => RequestsInv
<1> SUFFICES ASSUME Consistent(db), req \in [Request -> {Done, Idle}]
             PROVE  RequestsInv
  OBVIOUS
<1>1. \A p \in Request : req[p] \in {Done, Idle}
  OBVIOUS
<1>2. \A p \in Request : req[p] \in ReqType /\ RowsInv(req[p], db) /\ req[p].tx = "none"
  BY <1>1, EndedRows
<1>3. LocksInv
  BY <1>2 DEF LocksInv
<1> QED BY <1>2, <1>3 DEF RequestsInv

LEMMA RestartRows == ASSUME OaInv, TableInv, Restart PROVE TableInv'
<1>1. /\ RestTyped /\ Consistent(db) /\ BuiltinOn(db)
      /\ req' \in [Request -> {Done, Idle}]
      /\ cache' \in [User -> {NoRoles} \cup SUBSET Role]
  BY DEF TableInv, RequestsInv, OaInv, Tables, Restart
<1>2. faults' \in 0 .. MaxFaults
  BY <1>1, FaultTyped DEF Restart
<1>3. (Consistent(db) /\ req \in [Request -> {Done, Idle}] => RequestsInv)'
  BY FreshRows, PTL
<1>4. CASE InitRBACFails(db)
  <2>1. up' = FALSE /\ KeepDb /\ UNCHANGED <<policy, fresh>>
    BY <1>4 DEF Restart
  <2>2. Consistent(db)'
    BY <1>1, <2>1 DEF KeepDb, Consistent, Database, PlatformIds, PermIds, Dense, IsFiniteSet
  <2>3. RequestsInv'
    BY <1>1, <1>3, <2>2
  <2> QED BY <1>1, <1>2, <2>1, <2>3 DEF TableInv, RestTyped, KeepDb
<1>5. CASE ~InitRBACFails(db)
  <2> DEFINE e == InitRBAC(db)
  <2>1. Commits(e) /\ UNCHANGED up
        /\ (policy' = ListPolicy(db') \/ policy' = {}) /\ fresh' \in BOOLEAN
    BY <1>5 DEF Restart
  <2>2. Consistent(e)
    BY <1>1, StartResult DEF BuiltinOn, BuiltinOrNone
  <2> HIDE DEF e
  <2>3. Consistent(db)'
    BY <2>1, <2>2 DEF Commits, Consistent, Database, PlatformIds, PermIds, Dense, IsFiniteSet
  <2>4. RequestsInv'
    BY <1>1, <1>3, <2>3
  <2>5. ListPolicy(e) \subseteq Policy /\ Holding(e) \subseteq User \X Role
    BY <2>2, PolicyTyped DEF Consistent
  <2> QED BY <1>1, <1>2, <2>1, <2>4, <2>5 DEF TableInv, RestTyped, Commits
<1> QED BY <1>4, <1>5

LEMMA TimeRows ==
  ASSUME TableInv, PolicyExpires \/ (\E u \in User : RolesExpire(u)) \/ UNCHANGED vars
  PROVE  TableInv'
<1>1. /\ KeepDb /\ Quiet /\ UNCHANGED <<policy, req>> /\ (fresh' = fresh \/ fresh' = FALSE)
      /\ UNCHANGED cache \/ \E u \in User : cache' = [cache EXCEPT ![u] = NoRoles]
  BY DEF PolicyExpires, RolesExpire, vars, enforcer, KeepDb, Quiet
<1>2. RestTyped'
  BY <1>1 DEF TableInv, RestTyped, KeepDb, Quiet
<1>3. RequestsInv'
  <2>1. db' = db /\ req' = req /\ RequestsInv
    BY <1>1 DEF KeepDb, TableInv
  <2>2. Consistent(db)'
    BY <2>1 DEF RequestsInv
  <2>3. LocksInv'
    BY <2>1 DEF RequestsInv, LocksInv
  <2> QED BY <2>1, <2>2, <2>3 DEF RequestsInv
<1> QED BY <1>2, <1>3 DEF TableInv

LEMMA TablesBegin == OaInit => TableInv
<1> SUFFICES ASSUME OaInit PROVE TableInv
  OBVIOUS
<1>1. Consistent(db) /\ db \in Database
  BY BackendAssumption DEF OaInit, Consistent
<1>2. RequestsInv
  BY <1>1, FreshRows DEF OaInit
<1>3. RestTyped
  BY <1>1, PolicyTyped, BackendAssumption DEF OaInit, RestTyped
<1> QED BY <1>2, <1>3 DEF TableInv

LEMMA TablesStep == OaInv /\ TableInv /\ [OaNext]_vars => TableInv'
<1> SUFFICES ASSUME OaInv, TableInv, [OaNext]_vars PROVE TableInv'
  OBVIOUS
<1>1. ASSUME NEW p \in Request,
             Arrive(p) \/ Unauthenticated(p) \/ Continue(p) \/ Refuse(p) \/ StatementFails(p)
      PROVE  TableInv'
  <2>1. CASE Arrive(p)
    BY <2>1, ArriveRows
  <2>2. CASE Unauthenticated(p) \/ Refuse(p)
    BY <2>2, PlainRows
  <2>3. CASE StatementFails(p)
    BY <2>3, FailRows
  <2>4. CASE Continue(p)
    BY <2>4, LoadRows, PlainRows, PolicyRows, CheckRows, WriteRowsKeeps, CommitRows, SaveRows
       DEF Continue
  <2> QED BY <1>1, <2>1, <2>2, <2>3, <2>4
<1>2. CASE Restart
  BY <1>2, RestartRows
<1>3. CASE PolicyExpires \/ (\E u \in User : RolesExpire(u)) \/ UNCHANGED vars
  BY <1>3, TimeRows
<1> QED BY <1>1, <1>2, <1>3 DEF OaNext

LEMMA TablesInductive == OaSpec => [](OaInv /\ TableInv)
BY InitHolds, StepKeeps, TablesBegin, TablesStep, PTL DEF OaSpec

\* The tables are consistent at every commit, whatever requests overlap and whichever
\* statements fail, as only the locks of the rows that a row refers to keep them so
\* (the foreign keys of sys_*.gen.go; platform/service.go, role/service.go).
THEOREM TablesStayConsistent == OaSpec => []OaTypeOK
<1>1. TableInv => OaTypeOK
  BY DEF TableInv, RequestsInv, RestTyped, ReqType, OaTypeOK
<1> QED BY <1>1, TablesInductive, PTL

\* A restart that succeeds restores the administrator, the built-in permissions and the
\* defaults of built-in roles without grants, and loses none (bootstrap.go:80-98).
THEOREM RestartsRestore == OaSpec => RestartRestores
<1>1. OaInv /\ TableInv /\ Restart /\ up' =>
        /\ <<Admin, "admin">> \in db'.bind /\ Admin \in db'.users
        /\ builtinPermissions \cap Code \subseteq PermCodes(db')
        /\ \A r \in BuiltinRoles : (\A g \in db.grant : g[1] # r) =>
             {r} \X (builtinRolePermissions(r) \cap Code) \subseteq ListPolicy(db')
        /\ db.grant \subseteq db'.grant /\ db.bind \subseteq db'.bind
  <2> SUFFICES ASSUME OaInv, TableInv, Restart, up'
               PROVE  /\ <<Admin, "admin">> \in db'.bind /\ Admin \in db'.users
                      /\ builtinPermissions \cap Code \subseteq PermCodes(db')
                      /\ \A r \in BuiltinRoles : (\A g \in db.grant : g[1] # r) =>
                           {r} \X (builtinRolePermissions(r) \cap Code) \subseteq ListPolicy(db')
                      /\ db.grant \subseteq db'.grant /\ db.bind \subseteq db'.bind
    OBVIOUS
  <2>1. db' = InitRBAC(db)
    BY DEF Restart, Commits
  <2>2. Consistent(db) /\ BuiltinOn(db)
    BY DEF TableInv, RequestsInv, OaInv, Tables
  <2>3. BuiltinOrNone(db)
    BY <2>2 DEF BuiltinOn, BuiltinOrNone
  <2> QED BY <2>1, <2>2, <2>3, StartResult
<1> QED BY <1>1, TablesInductive, PTL DEF RestartRestores

-----------------------------------------------------------------------------
(* What an update of an employee writes back *)

\* A password version falls in one case only: the transaction of an update read the row
\* before the password was reset, and writes back what it read.
OnlyUpdatesUndo ==
  [][\A u \in db.users :
       db'.ver[u] < db.ver[u] =>
         \E p \in Request :
           /\ Commit(p) /\ req[p].op.kind = "update_employee" /\ req[p].op.user = u
           /\ db'.ver[u] = req[p].seen.ver[u]]_vars

SameVersions(d, e) == \A u \in d.users : u \in e.users /\ e.ver[u] = d.ver[u]

\* No other operation lowers a version.
LEMMA EffectOnVersions ==
  ASSUME NEW d, NEW s, NEW o \in Input, d \in Database, Refers(d, s, o), NEW u \in d.users,
         NEW e, e = Effect(d, s, o), e.ver[u] < d.ver[u]
  PROVE  o.kind = "update_employee" /\ o.user = u /\ e.ver[u] = s.ver[u]
<1>1. InputOf(o) /\ o.kind \in Kinds
  BY InputFacts, InputKinds
<1>2. d.ver \in [User -> Nat] /\ u \in User /\ d.ver[u] \in Nat
  BY DEF Database
<1>3. e.ver # d.ver
  BY <1>2
<1>4. CASE o.kind \in {"create_role", "update_role", "delete_role", "assign_permissions",
                       "assign_users", "set_user_roles"}
  <2>1. e.ver = d.ver
    BY <1>4 DEF Effect, Database, CreateRole, UpdateRole, DeleteRole, AssignPermissions,
       AssignUsers, SetUserRoles
  <2> QED BY <1>3, <2>1
<1>5. CASE o.kind \in {"create_platform", "update_platform", "delete_platform", "create_permission"}
  <2>1. e.ver = d.ver
    BY <1>5 DEF Effect, Database, CreatePlatform, UpdatePlatform, DeletePlatform, CreatePermission
  <2> QED BY <1>3, <2>1
<1>6. CASE o.kind = "create_employee"
  <2>1. o.user # u /\ e = CreateEmployee(d, s, o)
    BY <1>6 DEF Refers, Effect
  <2>2. e.ver[u] = d.ver[u]
    BY <1>2, <2>1 DEF CreateEmployee, Database
  <2> QED BY <1>2, <2>2
<1>7. CASE o.kind = "update_employee"
  <2>1. e = UpdateEmployee(d, s, o) /\ o.user \in User
    BY <1>1, <1>7 DEF Effect, InputOf
  <2>2. e.ver = [d.ver EXCEPT ![o.user] = IF o.user \in d.users THEN s.ver[o.user] ELSE @]
    BY <2>1 DEF UpdateEmployee, Database
  <2>3. o.user # u => e.ver[u] = d.ver[u]
    BY <1>2, <2>2
  <2>4. o.user = u => e.ver[u] = s.ver[u]
    BY <1>2, <2>2
  <2> QED BY <1>2, <1>7, <2>3, <2>4
<1>8. CASE o.kind = "delete_employee"
  <2>1. e.ver = d.ver
    BY <1>8 DEF Effect, DeleteEmployee, Database
  <2> QED BY <1>3, <2>1
<1>9. CASE o.kind = "reset_password"
  <2>1. e = ResetPassword(d, o) /\ o.user \in User
    BY <1>1, <1>9 DEF Effect, InputOf
  <2>2. e.ver = [d.ver EXCEPT ![o.user] = IF o.user \in d.users THEN @ + 1 ELSE @]
    BY <2>1 DEF ResetPassword, Database
  <2>3. e.ver[u] = d.ver[u] \/ e.ver[u] = d.ver[u] + 1
    BY <1>2, <2>2
  <2> QED BY <1>2, <2>3
<1>10. CASE o.kind \in {"me"} \cup Reads
  <2>1. e = d
    BY <1>10 DEF Effect, Reads
  <2> QED BY <1>3, <2>1
<1> QED BY <1>1, <1>4, <1>5, <1>6, <1>7, <1>8, <1>9, <1>10 DEF Kinds

\* A start gives a version to the administrator it creates, and to nobody else.
LEMMA StartOnVersions == \A d \in Database : SameVersions(d, InitRBAC(d))
<1> SUFFICES ASSUME NEW d \in Database PROVE SameVersions(d, InitRBAC(d))
  OBVIOUS
<1> DEFINE Keeps(x) == {"users", "ver"} \subseteq DOMAIN x /\ x.users = d.users /\ x.ver = d.ver
<1>1. PICK a, b, c, x : /\ a = initRootPlatform(d) /\ b = initBuiltinRoles(a)
                        /\ c = initBuiltinPermissions(b) /\ x = initRolePermissions(c)
  OBVIOUS
<1>2. Keeps(d)
  BY DEF Database
<1>3. Keeps(a)
  BY <1>1, <1>2 DEF initRootPlatform
<1>4. Keeps(b)
  BY <1>1, <1>3 DEF initBuiltinRoles
<1>5. \A y, C : Keeps(y) => Keeps(AddPermissions(y, C))
  BY DEF AddPermissions
<1>6. Keeps(c)
  BY <1>1, <1>4, <1>5 DEF initBuiltinPermissions
<1>7. Keeps(x)
  <2> DEFINE bare == {r \in BuiltinRoles : \A g \in c.grant : g[1] # r}
             y == AddPermissions(c, IF "admin" \in bare THEN {<<Wildcard, Wildcard>>} ELSE {})
             G == y.grant \cup {g \in bare \X PermIds(y) :
                    \E p \in y.perm : p.id = g[2] /\ p.code \in builtinRolePermissions(g[1]) \cap Code}
  <2>1. Keeps(y)
    BY <1>5, <1>6
  <2>2. x = [y EXCEPT !.grant = G]
    BY <1>1 DEF initRolePermissions
  <2> HIDE DEF y, G
  <2> QED BY <2>1, <2>2
<1>8. InitRBAC(d) = initAdminUser(x)
  BY <1>1 DEF InitRBAC
<1> HIDE DEF Keeps
<1>9. ASSUME NEW u \in d.users PROVE u \in InitRBAC(d).users /\ InitRBAC(d).ver[u] = d.ver[u]
  <2>1. d.ver \in [User -> Nat] /\ u \in User
    BY DEF Database
  <2> QED BY <1>7, <1>8, <2>1 DEF initAdminUser, Keeps
<1> QED BY <1>9 DEF SameVersions

\* A reset that has taken effect is undone only by the write-back of an update that read
\* the row before it (UpdateUserTx, user_repository.go:31-40; ResetStands is violated).
THEOREM UpdatesAloneUndo == OaSpec => OnlyUpdatesUndo
<1>1. ASSUME OaInv, TableInv, OaNext, NEW u \in db.users, db'.ver[u] < db.ver[u]
      PROVE  \E p \in Request :
               /\ Commit(p) /\ req[p].op.kind = "update_employee" /\ req[p].op.user = u
               /\ db'.ver[u] = req[p].seen.ver[u]
  <2>1. db \in Database /\ db.ver[u] \in Nat /\ db' # db
    BY <1>1 DEF TableInv, RequestsInv, Consistent, Database
  <2>2. ~KeepDb
    BY <2>1 DEF KeepDb
  <2>3. \/ \E p \in Request : Commit(p) \/ SavePassword(p)
        \/ Commits(InitRBAC(db))
    BY <1>1, <2>2 DEF OaNext, Continue, Arrive, Unauthenticated, Refuse, StatementFails, Restart,
       PolicyExpires, RolesExpire, RolesCached, ReadRoles, KeepRoles, NoRoleDenied, EnsurePolicy,
       Decide, ReadPolicy, InstallPolicy, Invalidate, MarkStale, Forget, Query, Check, SpareAdmin,
       WriteRows, RevokeUserSessions
  <2>4. ~Commits(InitRBAC(db))
    BY <1>1, <2>1, StartOnVersions DEF Commits, SameVersions
  <2>5. ASSUME NEW p \in Request, SavePassword(p) PROVE FALSE
    <3>1. db' = ResetPassword(db, req[p].op)
      BY <2>5 DEF SavePassword, Commits
    <3>2. u \in User /\ db.ver \in [User -> Nat]
      BY <1>1, <2>1 DEF Database
    <3>3. PICK v : v = req[p].op.user
      OBVIOUS
    <3>4. db'.ver = [db.ver EXCEPT ![v] = IF v \in db.users THEN @ + 1 ELSE @]
      BY <2>1, <3>1, <3>3 DEF ResetPassword, Database
    <3>5. db'.ver[u] = db.ver[u] \/ db'.ver[u] = db.ver[u] + 1
      BY <3>2, <3>4
    <3> QED BY <1>1, <2>1, <3>5
  <2>6. ASSUME NEW p \in Request, Commit(p)
        PROVE  /\ req[p].op.kind = "update_employee" /\ req[p].op.user = u
               /\ db'.ver[u] = req[p].seen.ver[u]
    <3>1. db' = Effect(db, req[p].seen, req[p].op)
      BY <2>6 DEF Commit, Commits
    <3>2. req[p].op \in Input /\ Refers(db, req[p].seen, req[p].op)
      BY <1>1, <2>6, CommitRefers
    <3> QED BY <1>1, <2>1, <3>1, <3>2, EffectOnVersions
  <2> QED BY <2>3, <2>4, <2>5, <2>6
<1>2. OaInv /\ TableInv /\ [OaNext]_vars =>
        [\A u \in db.users : db'.ver[u] < db.ver[u] =>
           \E p \in Request :
             /\ Commit(p) /\ req[p].op.kind = "update_employee" /\ req[p].op.user = u
             /\ db'.ver[u] = req[p].seen.ver[u]]_vars
  BY <1>1
<1> QED BY <1>2, TablesInductive, PTL DEF OaSpec, OnlyUpdatesUndo

-----------------------------------------------------------------------------
(* The pages *)

\* A set that has one row for every member is counted by its members.
LEMMA Counted ==
  ASSUME NEW S, IsFiniteSet(S), NEW T, NEW f, f \in [S -> T],
         \A a, b \in S : f[a] = f[b] => a = b, \A y \in T : \E a \in S : f[a] = y
  PROVE  /\ Cardinality(T) = Cardinality(S) /\ Cardinality(T) \in Nat
         /\ Cardinality(T) = 0 <=> S = {}
<1>1. f \in Bijection(S, T)
  BY DEF Bijection, Injection, Surjection, IsInjective
<1>2. ExistsBijection(S, T)
  BY <1>1 DEF ExistsBijection
<1>3. Cardinality(T) = Cardinality(S)
  BY <1>2, FS_Bijection
<1>4. Cardinality(S) \in Nat /\ (Cardinality(S) = 0 <=> S = {})
  BY FS_CardinalityType, FS_EmptySet
<1> QED BY <1>3, <1>4

LEMMA OwnPlatforms ==
  ASSUME NEW d \in Database, NEW u, NEW p \in d.plat, NEW rs, rs = FindRoleCodesByUserID(d, u)
  PROVE  (\E i \in platformPermissionIDs(d, p) : FindRoleCodesByPermissionIDs(d, i) \cap rs # {})
           <=> PlatformAccessCode(p.code) \in PermissionCodes(ListPolicy(d), rs)
<1> DEFINE c == PlatformAccessCode(p.code)
<1>1. d.grant \in SUBSET (Role \X PermId)
  BY DEF Database
<1>2. \A r \in rs : r \in Role /\ d.roles[r] = "on"
  BY DEF FindRoleCodesByUserID
<1> HIDE DEF c
<1>3. ASSUME NEW i \in platformPermissionIDs(d, p), FindRoleCodesByPermissionIDs(d, i) \cap rs # {}
      PROVE  c \in PermissionCodes(ListPolicy(d), rs)
  <2>1. PICK r \in rs : <<r, i>> \in d.grant
    BY <1>3 DEF FindRoleCodesByPermissionIDs, FindRoleIDsByPermissionIDs
  <2>2. PICK q \in d.perm : q.code = c /\ q.id = i
    BY DEF platformPermissionIDs, c
  <2> DEFINE g == <<r, i>>
  <2>3. g \in d.grant /\ g[2] = q.id /\ d.roles[g[1]] = "on" /\ g[1] = r
    BY <1>2, <2>1, <2>2
  <2> HIDE DEF g
  <2>4. <<g[1], q.code>> \in ListPolicy(d)
    BY <2>3, InPolicy
  <2> DEFINE h == <<r, c>>
  <2>5. h \in ListPolicy(d) /\ h[1] \in rs /\ h[2] = c
    BY <2>2, <2>3, <2>4
  <2> HIDE DEF h
  <2> QED BY <2>5 DEF PermissionCodes
<1>4. ASSUME c \in PermissionCodes(ListPolicy(d), rs)
      PROVE  \E i \in platformPermissionIDs(d, p) : FindRoleCodesByPermissionIDs(d, i) \cap rs # {}
  <2>1. PICK h \in ListPolicy(d) : h[1] \in rs /\ h[2] = c
    BY <1>4 DEF PermissionCodes
  <2>2. PICK x \in d.grant \X d.perm :
          h = <<x[1][1], x[2].code>> /\ x[1][2] = x[2].id /\ d.roles[x[1][1]] = "on"
    BY <2>1 DEF ListPolicy
  <2>3. PICK g \in d.grant, q \in d.perm : g = x[1] /\ q = x[2]
    OBVIOUS
  <2>4. g[1] \in rs /\ q.code = c /\ g[2] = q.id /\ d.roles[g[1]] = "on" /\ g \in Role \X PermId
    BY <1>1, <2>1, <2>2, <2>3
  <2>5. g = <<g[1], q.id>> /\ g[1] \in Role
    BY <2>4
  <2>6. q.id \in platformPermissionIDs(d, p)
    BY <2>4 DEF platformPermissionIDs, c
  <2>7. g[1] \in FindRoleCodesByPermissionIDs(d, q.id)
    BY <2>4, <2>5 DEF FindRoleCodesByPermissionIDs, FindRoleIDsByPermissionIDs
  <2> QED BY <2>4, <2>6, <2>7
<1> QED BY <1>3, <1>4 DEF c

\* Whoever is shown with a platform is behind its filter.
LEMMA ShownIsFound ==
  ASSUME NEW d, NEW u \in User, NEW p \in FindPlatformsByUserIDs(d, u)
  PROVE  p \in d.plat /\ u \in FindUserIDsByPlatformID(d, p)
<1>1. PICK i \in platformPermissionIDs(d, p) :
        FindRoleCodesByPermissionIDs(d, i) \cap FindRoleCodesByUserID(d, u) # {}
  BY DEF FindPlatformsByUserIDs
<1>2. PICK r \in FindRoleIDsByPermissionIDs(d, i) : <<u, r>> \in d.bind
  BY <1>1 DEF FindRoleCodesByPermissionIDs, FindRoleCodesByUserID
<1>3. u \in FindUserIDsByRoleIDs(d, FindRoleIDsByPermissionIDs(d, i))
  BY <1>2 DEF FindUserIDsByRoleIDs
<1> QED BY <1>3 DEF FindUserIDsByPlatformID, FindPlatformsByUserIDs

LEMMA RoleCounters ==
  ASSUME NEW d, Consistent(d), NEW r \in Role, RoleLives(d, r)
  PROVE  /\ CountUsersByRoleIDs(d, r) = Cardinality({u \in d.users : r \in GetUserRoles(d, u)})
         /\ CountPermissionsByRoleIDs(d, r) = Cardinality(GetPermissionIDs(d, r))
         /\ r \notin BuiltinRoles =>
              (CountUsersByRoleIDs(d, r) = 0 <=> DeleteRoleAllowed(d, [role |-> r]))
<1> DEFINE U == {u \in d.users : r \in GetUserRoles(d, u)}
           B == {b \in d.bind : b[2] = r}
           f == [u \in U |-> <<u, r>>]
           I == GetPermissionIDs(d, r)
           G == {g \in d.grant : g[1] = r}
           h == [i \in I |-> <<r, i>>]
<1>1. d \in Database
  BY DEF Consistent
<1>2. U = {u \in d.users : <<u, r>> \in d.bind}
  BY DEF GetUserRoles, FindRoleIDsByUserID
<1>3. Cardinality(B) = Cardinality(U) /\ (Cardinality(B) = 0 <=> U = {})
  <2>1. IsFiniteSet(U)
    <3>1. U \in SUBSET User
      BY <1>1 DEF Database
    <3> HIDE DEF U
    <3> QED BY <3>1, StoreAssumption, FS_Subset
  <2>2. f \in [U -> B]
    BY <1>2
  <2>3. \A a, b \in U : f[a] = f[b] => a = b
    OBVIOUS
  <2>4. \A b \in B : \E a \in U : f[a] = b
    <3> SUFFICES ASSUME NEW b \in B PROVE \E a \in U : f[a] = b
      OBVIOUS
    <3>1. b = <<b[1], r>> /\ b[1] \in d.users
      BY <1>1 DEF Consistent, Database
    <3> QED BY <1>2, <3>1
  <2> HIDE DEF U, B, f
  <2> QED BY <2>1, <2>2, <2>3, <2>4, Counted
<1>4. Cardinality(G) = Cardinality(I)
  <2>1. IsFiniteSet(I)
    <3>1. I \in SUBSET PermIds(d)
      BY DEF GetPermissionIDs
    <3> HIDE DEF I
    <3> QED BY <3>1, IdsFinite, FS_Subset
  <2>2. h \in [I -> G]
    BY DEF GetPermissionIDs
  <2>3. \A a, b \in I : h[a] = h[b] => a = b
    OBVIOUS
  <2>4. \A g \in G : \E a \in I : h[a] = g
    <3> SUFFICES ASSUME NEW g \in G PROVE \E a \in I : h[a] = g
      OBVIOUS
    <3>1. g = <<r, g[2]>> /\ g[2] \in PermIds(d)
      BY <1>1 DEF Consistent, Database
    <3>2. g[2] \in I
      BY <3>1 DEF GetPermissionIDs
    <3> QED BY <3>1, <3>2
  <2> HIDE DEF I, G, h
  <2> QED BY <2>1, <2>2, <2>3, <2>4, Counted
<1>5. U = {} <=> FindUserIDsByRoleIDs(d, {r}) = {}
  <2>1. ASSUME NEW u \in User, <<u, r>> \in d.bind PROVE u \in U
    <3>1. <<u, r>>[1] \in d.users
      BY <2>1 DEF Consistent
    <3> QED BY <1>2, <2>1, <3>1
  <2>2. d.users \subseteq User
    BY <1>1 DEF Database
  <2> HIDE DEF U
  <2> QED BY <1>2, <2>1, <2>2 DEF FindUserIDsByRoleIDs
<1>6. CountUsersByRoleIDs(d, r) = Cardinality(B) /\ CountPermissionsByRoleIDs(d, r) = Cardinality(G)
  BY DEF CountUsersByRoleIDs, CountPermissionsByRoleIDs
<1> HIDE DEF U, B, G, I
<1> QED BY <1>3, <1>4, <1>5, <1>6 DEF DeleteRoleAllowed, U, I

\* In consistent tables the pages agree.
LEMMA ConsistentAgree == ASSUME NEW d, Consistent(d) PROVE PagesAgree(d)
<1>1. d \in Database /\ d.users \subseteq User
  BY DEF Consistent, Database
<1>2. ASSUME NEW row \in EmployeePage(d, NoPlatform)
      PROVE  /\ row.user \in d.users /\ row.user \in User
             /\ row.user \notin FindUserIDsByRoleCodes(d, {"admin"})
             /\ row.platforms = FindPlatformsByUserIDs(d, row.user)
             /\ row = [user |-> row.user, roles |-> GetUserRoles(d, row.user),
                       platforms |-> FindPlatformsByUserIDs(d, row.user)]
  BY <1>1 DEF EmployeePage, FindEmployees, ListEmployees
<1>3. ASSUME NEW u \in d.users
      PROVE  LET me == Me(d, ListPolicy(d), FindRoleCodesByUserID(d, u))
             IN  /\ me.platforms = {p \in d.plat : PlatformAccessCode(p.code) \in me.codes}
                 /\ \A row \in EmployeePage(d, NoPlatform) :
                      row.user = u => row.platforms = me.platforms /\ ~me.admin
  <2> DEFINE rs == FindRoleCodesByUserID(d, u)
             me == Me(d, ListPolicy(d), rs)
  <2>1. /\ me.platforms = FindPlatformsByUserID(d, rs)
        /\ me.codes = PermissionCodes(ListPolicy(d), rs) /\ me.admin = ("admin" \in rs)
    BY DEF Me
  <2>2. FindPlatformsByUserIDs(d, u) = FindPlatformsByUserID(d, rs)
    BY DEF FindPlatformsByUserIDs, FindPlatformsByUserID
  <2>3. "admin" \in rs => u \in FindUserIDsByRoleCodes(d, {"admin"})
    BY <1>1 DEF FindRoleCodesByUserID, FindUserIDsByRoleCodes
  <2> HIDE DEF me
  <2>4. \A p \in d.plat :
          (\E i \in platformPermissionIDs(d, p) : FindRoleCodesByPermissionIDs(d, i) \cap rs # {})
            <=> PlatformAccessCode(p.code) \in PermissionCodes(ListPolicy(d), rs)
    BY <1>1, OwnPlatforms
  <2> HIDE DEF rs
  <2>5. me.platforms = {p \in d.plat : PlatformAccessCode(p.code) \in me.codes}
    BY <2>1, <2>4 DEF FindPlatformsByUserID
  <2>6. \A row \in EmployeePage(d, NoPlatform) :
          row.user = u => row.platforms = me.platforms /\ ~me.admin
    BY <1>2, <2>1, <2>2, <2>3
  <2> QED BY <2>5, <2>6 DEF me, rs
<1>4. ASSUME NEW row \in EmployeePage(d, NoPlatform), NEW p \in row.platforms
      PROVE  /\ row \in EmployeePage(d, p.id)
             /\ \E x \in ListPlatforms(d) : x.plat = p.id /\ x.users > 0
  <2> DEFINE u == row.user
  <2>1. u \in User /\ p \in FindPlatformsByUserIDs(d, u)
    BY <1>2
  <2>2. p \in d.plat /\ u \in FindUserIDsByPlatformID(d, p)
    <3> HIDE DEF u
    <3> QED BY <2>1, ShownIsFound
  <2>3. row \in EmployeePage(d, p.id)
    <3>1. CASE p.id = NoPlatform
      BY <3>1
    <3>2. CASE p.id # NoPlatform
      <4> DEFINE only == UNION {FindUserIDsByPlatformID(d, q) : q \in {z \in d.plat : z.id = p.id}}
      <4>1. u \in only
        BY <2>2
      <4>2. u \in FindEmployees(d, only)
        BY <1>2, <4>1 DEF FindEmployees, ListEmployees
      <4> HIDE DEF only
      <4>3. EmployeePage(d, p.id) =
              {[user |-> v, roles |-> GetUserRoles(d, v), platforms |-> FindPlatformsByUserIDs(d, v)] :
                 v \in FindEmployees(d, only)}
        BY <3>2 DEF EmployeePage, only
      <4> QED BY <1>2, <4>2, <4>3
    <3> QED BY <3>1, <3>2
  <2>4. CountByPlatformIDs(d, p) = Cardinality(FindUserIDsByPlatformID(d, p))
    BY DEF CountByPlatformIDs, FindUserIDsByPlatformID
  <2>5. FindUserIDsByPlatformID(d, p) \in SUBSET User
    BY DEF FindUserIDsByPlatformID, FindUserIDsByRoleIDs
  <2> HIDE DEF u
  <2>6. Cardinality(FindUserIDsByPlatformID(d, p)) > 0
    <3>1. IsFiniteSet(FindUserIDsByPlatformID(d, p))
      BY <2>5, StoreAssumption, FS_Subset
    <3>2. /\ Cardinality(FindUserIDsByPlatformID(d, p)) \in Nat
          /\ Cardinality(FindUserIDsByPlatformID(d, p)) # 0
      BY <2>2, <3>1, FS_CardinalityType, FS_EmptySet
    <3> QED BY <3>2
  <2>7. \E x \in ListPlatforms(d) : x.plat = p.id /\ x.users > 0
    <3> DEFINE n == CountByPlatformIDs(d, p)
               x == [plat |-> p.id, users |-> n]
    <3>1. n > 0
      BY <2>4, <2>6
    <3>2. x \in ListPlatforms(d)
      BY <2>2 DEF ListPlatforms
    <3> HIDE DEF n
    <3>3. x.plat = p.id /\ x.users > 0
      BY <3>1
    <3> HIDE DEF x
    <3> QED BY <3>2, <3>3
  <2> QED BY <2>3, <2>7
<1>5. ASSUME NEW x \in ListRoles(d)
      PROVE  /\ x.users = Cardinality({u \in d.users : x.role \in GetUserRoles(d, u)})
             /\ x.perms = Cardinality(GetPermissionIDs(d, x.role))
             /\ x.role \notin BuiltinRoles => (x.users = 0 <=> DeleteRoleAllowed(d, [role |-> x.role]))
  <2>1. PICK r \in Role : /\ RoleLives(d, r) /\ x.role = r /\ x.users = CountUsersByRoleIDs(d, r)
                          /\ x.perms = CountPermissionsByRoleIDs(d, r)
    BY DEF ListRoles
  <2> QED BY <2>1, RoleCounters
<1> QED BY <1>3, <1>4, <1>5 DEF PagesAgree

\* The pages of roles, platforms, employees and one's own permissions never contradict
\* each other, however requests overlap (access.go:41-169, role_handler.go:48-86).
THEOREM PagesNeverDisagree == OaSpec => []AnswersAgree
<1>1. TableInv => AnswersAgree
  <2> SUFFICES ASSUME Consistent(db) PROVE PagesAgree(db)
    BY DEF TableInv, RequestsInv, AnswersAgree
  <2> QED BY ConsistentAgree
<1> QED BY <1>1, TablesInductive, PTL

=============================================================================
