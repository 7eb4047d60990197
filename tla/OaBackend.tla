----------------------------- MODULE OaBackend -----------------------------
(***************************************************************************)
(* The OA back end: requests that run concurrently in one process, the     *)
(* Enforcer's two in-memory caches they share (the policy and the roles of *)
(* users), and the MySQL transactions they write in.  A request is the     *)
(* list of steps its middleware, handler and service still have to take;   *)
(* each step is one statement to MySQL or one critical section of the      *)
(* Enforcer.                                                               *)
(*                                                                         *)
(* Simplifications: a transaction reads the snapshot of its first SELECT,  *)
(* writes all its rows in one statement, and holds their locks until it    *)
(* ends; the SSO's answer about a token is an input (SsoAccess models it), *)
(* as is what the revocation call of ResetPassword returns; an entry past  *)
(* its deadline is dropped at once instead of when it is next looked up;   *)
(* the answers of requests that only read are not kept.                    *)
(***************************************************************************)
EXTENDS OaPages

CONSTANTS
  Request,       \* requests; each is used once
  Op,            \* who asks for what, out of User \X Input
  InitDatabases, \* what the tables may hold at first
  PoolSize,      \* max_open_conns
  Faults,        \* "fail": a failing statement, "crash"
  MaxFaults,
  NoRoles,       \* no entry in the role cache
  NoOp, NoDb

(* What each handler takes from a request.  The rows a request names need not exist. *)
CreateRoleInput        == [kind : {"create_role"}, role : Role]
UpdateRoleInput        == [kind : {"update_role"}, role : Role, status : {"keep", "on", "off"}]
DeleteRoleInput        == [kind : {"delete_role"}, role : Role]
AssignPermissionsInput == [kind : {"assign_permissions"}, role : Role, perms : SUBSET PermId]
AssignUsersInput       ==
  [kind : {"assign_users"}, users : SUBSET User \ {{}}, roles : SUBSET Role \ {{}}]
SetUserRolesInput      == [kind : {"set_user_roles"}, user : User, roles : SUBSET Role]
CreateEmployeeInput    == [kind : {"create_employee"}, user : User, roles : SUBSET Role]
UpdateEmployeeInput    == [kind : {"update_employee"}, user : User, roles : SUBSET Role]
DeleteEmployeeInput    == [kind : {"delete_employee"}, user : User]
ResetPasswordInput     == [kind : {"reset_password"}, user : User]
CreatePlatformInput    == [kind : {"create_platform"}, name : Name, code : PlatformCode]
UpdatePlatformInput    ==
  [kind : {"update_platform"}, plat : PlatformId, name : Name, code : PlatformCode]
DeletePlatformInput    == [kind : {"delete_platform"}, plat : PlatformId]
CreatePermissionInput  == [kind : {"create_permission"}, plat : PlatformId, code : Code]

Reads     == {"list_roles", "list_employees", "list_platforms", "list_permissions"}
ReadInput == [kind : Reads \cup {"me"}]

RoleInput ==
  CreateRoleInput \cup UpdateRoleInput \cup DeleteRoleInput \cup AssignPermissionsInput
    \cup AssignUsersInput \cup SetUserRolesInput
EmployeeInput ==
  CreateEmployeeInput \cup UpdateEmployeeInput \cup DeleteEmployeeInput \cup ResetPasswordInput
PlatformInput ==
  CreatePlatformInput \cup UpdatePlatformInput \cup DeletePlatformInput
    \cup CreatePermissionInput

Input == RoleInput \cup EmployeeInput \cup PlatformInput \cup ReadInput

ASSUME BackendAssumption ==
  /\ Op \subseteq User \X Input /\ NoOp \notin Input
  /\ \A d \in InitDatabases : Consistent(d) /\ \A r \in BuiltinRoles : d.roles[r] = "on"
  /\ IsFiniteSet(Request) /\ PoolSize \in Nat /\ PoolSize > Cardinality(Request)
  /\ Faults \subseteq {"fail", "crash"}
  /\ MaxFaults \in Nat

VARIABLES
  db,            \* the committed tables
  policy,        \* Enforcer: role and permission code
  fresh,         \* Enforcer: was the policy loaded less than 5 minutes ago?
  cache,         \* Enforcer: the roles of each user
  req,           \* the state of every request
  up,            \* does the service run?
  faults,        \* faults that have happened
  granted,       \* history: every <<role, code>> that was ever committed
  held           \* history: every <<user, role>> that was ever committed

enforcer == <<policy, fresh, cache>>
vars     == <<db, enforcer, req, up, faults, granted, held>>

Step == {"arrive", "load", "keep", "enforce", "ensure", "decide", "read", "install", "check",
         "query", "target", "keep_target", "spare", "write", "invalidate", "stale", "forget", "commit",
         "save", "revoke"}

Policy == Role \X Code

\* The tables, the caches and the requests have the expected form; no permission,
\* grant or binding is ever without the row that it refers to.
OaTypeOK ==
  /\ Consistent(db)
  /\ policy \subseteq Policy /\ fresh \in BOOLEAN
  /\ cache \in [User -> {NoRoles} \cup SUBSET Role]
  /\ req \in [Request -> [todo : Seq(Step), op : {NoOp} \cup Input, who : User,
                          roles : SUBSET Role, rows : SUBSET Policy,
                          seen : {NoDb} \cup Database, tx : {"none", "open", "wrote"}]]
  /\ up \in BOOLEAN /\ faults \in 0 .. MaxFaults
  /\ granted \subseteq Policy /\ held \subseteq User \X Role

Done == [todo |-> <<>>, op |-> NoOp, who |-> Admin, roles |-> {}, rows |-> {},
         seen |-> NoDb, tx |-> "none"]
Idle == [Done EXCEPT !.todo = <<"arrive">>]

Holding(d) == {b \in User \X Role : b[2] \in FindRoleCodesByUserID(d, b[1])}

OaInit ==
  /\ db \in InitDatabases
  /\ policy = ListPolicy(db) /\ fresh = TRUE
  /\ cache = [u \in User |-> NoRoles]
  /\ req = [p \in Request |-> Idle]
  /\ up = TRUE /\ faults = 0
  /\ granted = ListPolicy(db) /\ held = Holding(db)

-----------------------------------------------------------------------------
(* Requests *)

At(p, step) == up /\ req[p].todo # <<>> /\ Head(req[p].todo) = step

Next1(p)       == [req[p] EXCEPT !.todo = Tail(@)]
Push(p, steps) == [req[p] EXCEPT !.todo = steps \o Tail(@)]
Becomes(p, r)  == req' = [req EXCEPT ![p] = r]
Ends(p)        == Becomes(p, Done)

\* Changes to the tables, remembered.
Commits(d) ==
  /\ db' = d
  /\ granted' = granted \cup ListPolicy(d)
  /\ held' = held \cup Holding(d)

KeepDb == UNCHANGED <<db, granted, held>>
Quiet  == UNCHANGED <<up, faults>>

\* The permission a route declares; the object and the action of the router.
Need(kind) ==
  CASE kind = "create_role"        -> <<<<"role">>, <<"create">>>>
    [] kind = "update_role"        -> <<<<"role">>, <<"update">>>>
    [] kind = "delete_role"        -> <<<<"role">>, <<"delete">>>>
    [] kind = "assign_permissions" -> <<<<"role">>, <<"assign">>>>
    [] kind = "assign_users"       -> <<<<"user">>, <<"role", "assign">>>>
    [] kind = "set_user_roles"     -> <<<<"user">>, <<"role", "assign">>>>
    [] kind = "create_employee"    -> <<<<"employee">>, <<"create">>>>
    [] kind = "update_employee"    -> <<<<"employee">>, <<"update">>>>
    [] kind = "delete_employee"    -> <<<<"employee">>, <<"delete">>>>
    [] kind = "reset_password"     -> <<<<"employee">>, <<"reset-password">>>>
    [] kind = "create_platform"    -> <<<<"platform">>, <<"create">>>>
    [] kind = "update_platform"    -> <<<<"platform">>, <<"update">>>>
    [] kind = "delete_platform"    -> <<<<"platform">>, <<"delete">>>>
    [] kind = "create_permission"  -> <<<<"permission">>, <<"create">>>>
    [] kind = "list_roles"         -> <<<<"role">>, <<"list">>>>
    [] kind = "list_employees"     -> <<<<"employee">>, <<"list">>>>
    [] kind = "list_platforms"     -> <<<<"platform">>, <<"list">>>>
    [] kind = "list_permissions"   -> <<<<"permission">>, <<"list">>>>
    [] OTHER                       -> <<<<>>, <<>>>>

Authorise == <<"load", "enforce", "decide">>

Program(kind) ==
  CASE kind = "me" -> <<"load", "ensure", "load", "query", "load">>
    [] kind \in Reads -> Authorise \o <<"query">>
    [] kind = "create_role" -> Authorise \o <<"check", "write", "commit">>
    [] kind \in {"update_role", "delete_role", "assign_permissions", "create_platform",
                 "update_platform", "delete_platform", "create_permission"} ->
         Authorise \o <<"check", "write", "invalidate", "commit">>
    [] kind \in {"assign_users", "set_user_roles", "create_employee"} ->
         Authorise \o <<"check", "write", "forget", "commit">>
    [] kind = "update_employee" ->
         Authorise \o <<"check", "target", "spare", "write", "forget", "commit">>
    [] kind = "delete_employee" ->
         Authorise \o <<"write", "forget", "check", "target", "spare", "commit">>
    [] kind = "reset_password" ->
         Authorise \o <<"check", "target", "spare", "save", "revoke">>

\* A transaction keeps a connection; any other statement takes a free one.
Open           == {p \in Request : req[p].tx # "none"}
ConnectionFree == Cardinality(Open) < PoolSize

\* No token, the SSO rejects it or does not answer, or its user is not in the
\* local table.
Unauthenticated(p) ==
  /\ At(p, "arrive")
  /\ Ends(p)
  /\ KeepDb /\ Quiet /\ UNCHANGED enforcer

\* The SSO accepted the token, and its user is in the local table.
Arrive(p) ==
  /\ At(p, "arrive") /\ ConnectionFree
  /\ \E o \in Op :
       /\ o[1] \in db.users
       /\ Becomes(p, [Done EXCEPT !.todo = Program(o[2].kind), !.who = o[1], !.op = o[2]])
  /\ KeepDb /\ Quiet /\ UNCHANGED enforcer

-----------------------------------------------------------------------------
(* The Enforcer *)

Subject(p) == IF Head(req[p].todo) \in {"target", "keep_target"} THEN req[p].op.user ELSE req[p].who

RolesCached(p) ==
  /\ At(p, "load") \/ At(p, "target")
  /\ cache[Subject(p)] # NoRoles
  /\ Becomes(p, [Next1(p) EXCEPT !.roles = cache[Subject(p)]])
  /\ KeepDb /\ Quiet /\ UNCHANGED enforcer

\* Always from the committed tables: the Enforcer does not know of transactions.
ReadRoles(p) ==
  /\ At(p, "load") \/ At(p, "target")
  /\ cache[Subject(p)] = NoRoles /\ ConnectionFree
  /\ Becomes(p, [Push(p, IF At(p, "load") THEN <<"keep">> ELSE <<"keep_target">>)
                  EXCEPT !.roles = FindRoleCodesByUserID(db, Subject(p))])
  /\ KeepDb /\ Quiet /\ UNCHANGED enforcer

KeepRoles(p) ==
  /\ At(p, "keep") \/ At(p, "keep_target")
  /\ cache' = [cache EXCEPT ![Subject(p)] = req[p].roles]
  /\ Becomes(p, Next1(p))
  /\ KeepDb /\ Quiet /\ UNCHANGED <<policy, fresh>>

NoRoleDenied(p) ==
  /\ At(p, "enforce") /\ req[p].roles = {}
  /\ Ends(p)
  /\ KeepDb /\ Quiet /\ UNCHANGED enforcer

EnsurePolicy(p) ==
  /\ (At(p, "enforce") /\ req[p].roles # {}) \/ At(p, "ensure")
  /\ Becomes(p, IF fresh THEN Next1(p) ELSE Push(p, <<"read">>))
  /\ KeepDb /\ Quiet /\ UNCHANGED enforcer

Covered(p) ==
  \E r \in req[p].roles, c \in Code :
    <<r, c>> \in policy /\ matchPolicy(c, Need(req[p].op.kind)[1], Need(req[p].op.kind)[2])

Decide(p) ==
  /\ At(p, "decide")
  /\ IF Covered(p) THEN Becomes(p, Next1(p)) ELSE Ends(p)
  /\ KeepDb /\ Quiet /\ UNCHANGED enforcer

\* Mutant: the reload runs on the transaction's connection.
ReadPolicyInTransaction(p) ==
  /\ At(p, "read") /\ ConnectionFree
  /\ Becomes(p, [Push(p, <<"install">>) EXCEPT
       !.rows = ListPolicy(IF req[p].tx = "wrote" THEN Effect(db, req[p].seen, req[p].op) ELSE db)])
  /\ KeepDb /\ Quiet /\ UNCHANGED enforcer

ReadPolicy(p) ==
  /\ At(p, "read") /\ ConnectionFree
  /\ Becomes(p, [Push(p, <<"install">>) EXCEPT !.rows = ListPolicy(db)])
  /\ KeepDb /\ Quiet /\ UNCHANGED enforcer

InstallPolicy(p) ==
  /\ At(p, "install")
  /\ policy' = req[p].rows /\ fresh' = TRUE
  /\ Becomes(p, [Next1(p) EXCEPT !.rows = {}])
  /\ KeepDb /\ Quiet /\ UNCHANGED cache

\* A platform that keeps its code changes no permission.
Invalidate(p) ==
  /\ At(p, "invalidate")
  /\ IF req[p].op.kind = "update_platform" /\ OldCode(req[p].seen, req[p].op) = req[p].op.code
     THEN Becomes(p, Next1(p)) /\ UNCHANGED enforcer
     ELSE /\ cache' = [u \in User |-> NoRoles]
          /\ Becomes(p, Push(p, <<"stale", "read">>))
          /\ UNCHANGED <<policy, fresh>>
  /\ KeepDb /\ Quiet

MarkStale(p) ==
  /\ At(p, "stale")
  /\ fresh' = FALSE
  /\ Becomes(p, Next1(p))
  /\ KeepDb /\ Quiet /\ UNCHANGED <<policy, cache>>

\* Whose roles the operation has changed.
Forgotten(s, o) ==
  CASE o.kind = "assign_users" -> o.users
    [] o.kind = "update_employee" /\ o.roles = {} /\ FindRoleIDsByUserID(s, o.user) # {} -> {}
    [] OTHER -> {o.user}

Forget(p) ==
  /\ At(p, "forget")
  /\ cache' = [u \in User |->
                 IF u \in Forgotten(req[p].seen, req[p].op) THEN NoRoles ELSE cache[u]]
  /\ Becomes(p, Next1(p))
  /\ KeepDb /\ Quiet /\ UNCHANGED <<policy, fresh>>

-----------------------------------------------------------------------------
(* Services and their transactions *)

\* Rows an operation writes, and parent rows its new rows refer to.
Writes(s, o) ==
  CASE o.kind \in {"create_role", "update_role"} -> {<<"role", o.role>>}
    [] o.kind = "delete_role" -> {<<"role", o.role>>, <<"grant", o.role>>}
    [] o.kind = "assign_permissions" -> {<<"grant", o.role>>}
    [] o.kind = "assign_users" -> {"bind"} \X o.users
    [] o.kind = "set_user_roles" -> {<<"bind", o.user>>}
    [] o.kind \in {"create_employee", "update_employee", "delete_employee"} ->
         {<<"user", o.user>>, <<"bind", o.user>>}
    [] o.kind = "reset_password" -> {<<"user", o.user>>}
    [] o.kind = "create_platform" ->
         {<<"name", o.name>>, <<"pcode", o.code>>, <<"code", PlatformAccessCode(o.code)>>}
    [] o.kind = "update_platform" ->
         {<<"plat", o.plat>>, <<"name", o.name>>, <<"pcode", o.code>>,
          <<"code", PlatformAccessCode(o.code)>>} \cup ({"perm"} \X Renamed(s, o))
    [] o.kind = "delete_platform" ->
         {<<"plat", o.plat>>} \cup ({"perm"} \X {p.id : p \in {q \in db.perm : q.plat = o.plat}})
    [] o.kind = "create_permission" -> {<<"code", o.code>>}

Parents(o) ==
  CASE o.kind = "assign_permissions" -> {<<"role", o.role>>} \cup ({"perm"} \X o.perms)
    [] o.kind = "assign_users" -> ({"user"} \X o.users) \cup ({"role"} \X o.roles)
    [] o.kind \in {"set_user_roles", "create_employee", "update_employee"} ->
         {<<"user", o.user>>} \cup ({"role"} \X o.roles)
    [] o.kind = "create_permission" -> {<<"plat", o.plat>>}
    [] OTHER -> {}

Blocked(p) ==
  \E q \in Request \ {p} :
    /\ req[q].tx = "wrote"
    /\ LET mine   == Writes(req[p].seen, req[p].op)
           theirs == Writes(req[q].seen, req[q].op)
       IN  \/ mine \cap (theirs \cup Parents(req[q].op)) # {}
           \/ Parents(req[p].op) \cap theirs # {}

\* The pages of OaPages.
Query(p) ==
  /\ At(p, "query") /\ ConnectionFree
  /\ Becomes(p, Next1(p))
  /\ KeepDb /\ Quiet /\ UNCHANGED enforcer

InTransaction(p) == req[p].op.kind # "reset_password"

\* The reads that come before the writes, and the answers they lead to.
Check(p) ==
  /\ At(p, "check") /\ (req[p].tx # "none" \/ ConnectionFree)
  /\ IF Allowed(db, req[p].op)
     THEN Becomes(p, [Next1(p) EXCEPT !.seen = db,
                        !.tx = IF @ = "none" /\ InTransaction(p) THEN "open" ELSE @])
     ELSE Ends(p)
  /\ KeepDb /\ Quiet /\ UNCHANGED enforcer

\* A validator refuses a field of the request.
Refuse(p) ==
  /\ At(p, "check")
  /\ Ends(p)
  /\ KeepDb /\ Quiet /\ UNCHANGED enforcer

\* Administrators are out of the employee pages' reach.
SpareAdmin(p) ==
  /\ At(p, "spare")
  /\ IF "admin" \in req[p].roles THEN Ends(p) ELSE Becomes(p, Next1(p))
  /\ KeepDb /\ Quiet /\ UNCHANGED enforcer

WriteRows(p) ==
  /\ At(p, "write") /\ (req[p].tx # "none" \/ ConnectionFree)
  /\ ~Blocked(p)
  /\ IF Refused(db, req[p].seen, req[p].op)
     THEN Ends(p)
     ELSE Becomes(p, [Next1(p) EXCEPT !.tx = "wrote"])
  /\ KeepDb /\ Quiet /\ UNCHANGED enforcer

Commit(p) ==
  /\ At(p, "commit")
  /\ Commits(Effect(db, req[p].seen, req[p].op))
  /\ Ends(p)
  /\ Quiet /\ UNCHANGED enforcer

\* Outside any transaction.
SavePassword(p) ==
  /\ At(p, "save") /\ ConnectionFree /\ ~Blocked(p)
  /\ Commits(ResetPassword(db, req[p].op))
  /\ Becomes(p, Next1(p))
  /\ Quiet /\ UNCHANGED enforcer

RevokeUserSessions(p) ==
  /\ At(p, "revoke")
  /\ Ends(p)
  /\ KeepDb /\ Quiet /\ UNCHANGED enforcer

-----------------------------------------------------------------------------
(* Faults and time *)

CanFail(f) == up /\ f \in Faults /\ faults < MaxFaults

\* Mutant: the error path forgets to roll back.
StatementFailsOpen(p) ==
  /\ CanFail("fail")
  /\ \E s \in {"load", "target", "query", "read", "check", "write", "commit", "save"} : At(p, s)
  /\ IF At(p, "read") /\ req[p].tx # "none" THEN Becomes(p, Next1(p))
     ELSE Becomes(p, [req[p] EXCEPT !.todo = <<>>])
  /\ faults' = faults + 1
  /\ KeepDb /\ UNCHANGED <<enforcer, up>>

\* A statement fails: the transaction is rolled back and the request answered,
\* but the error of a reload inside a transaction is ignored.
StatementFails(p) ==
  /\ CanFail("fail")
  /\ \E s \in {"load", "target", "query", "read", "check", "write", "commit", "save"} : At(p, s)
  /\ IF At(p, "read") /\ req[p].tx # "none" THEN Becomes(p, Next1(p)) ELSE Ends(p)
  /\ faults' = faults + 1
  /\ KeepDb /\ UNCHANGED <<enforcer, up>>

\* The process ends and starts again; what it had begun is rolled back.  The
\* policy may fail to load, which is only logged.
Restart ==
  /\ CanFail("crash")
  /\ faults' = faults + 1
  /\ req' = [p \in Request |-> IF req[p] = Idle THEN Idle ELSE Done]
  /\ cache' = [u \in User |-> NoRoles]
  /\ IF InitRBACFails(db)
     THEN up' = FALSE /\ KeepDb /\ UNCHANGED <<policy, fresh>>
     ELSE /\ Commits(InitRBAC(db)) /\ UNCHANGED up
          /\ \/ policy' = ListPolicy(db') /\ fresh' = TRUE
             \/ policy' = {} /\ fresh' = FALSE

\* Mutant: a loaded policy stays.
PolicyExpiresNever == FALSE /\ UNCHANGED vars

PolicyExpires ==
  /\ fresh /\ fresh' = FALSE
  /\ KeepDb /\ Quiet /\ UNCHANGED <<policy, cache, req>>

RolesExpire(u) ==
  /\ cache[u] # NoRoles
  /\ cache' = [cache EXCEPT ![u] = NoRoles]
  /\ KeepDb /\ Quiet /\ UNCHANGED <<policy, fresh, req>>

-----------------------------------------------------------------------------

Continue(p) ==
  \/ RolesCached(p) \/ ReadRoles(p) \/ KeepRoles(p)
  \/ NoRoleDenied(p) \/ EnsurePolicy(p) \/ Decide(p)
  \/ ReadPolicy(p) \/ InstallPolicy(p)
  \/ Invalidate(p) \/ MarkStale(p) \/ Forget(p)
  \/ Query(p) \/ Check(p) \/ SpareAdmin(p) \/ WriteRows(p) \/ Commit(p)
  \/ SavePassword(p) \/ RevokeUserSessions(p)

OaNext ==
  \/ \E p \in Request : Arrive(p) \/ Unauthenticated(p) \/ Continue(p) \/ Refuse(p) \/ StatementFails(p)
  \/ Restart \/ PolicyExpires
  \/ \E u \in User : RolesExpire(u)

OaSpec == OaInit /\ [][OaNext]_vars

\* A request takes its next step, MySQL grants a lock in the end, and time passes.
FairOaSpec ==
  /\ OaSpec
  /\ \A p \in Request : WF_vars(Continue(p))
  /\ WF_vars(PolicyExpires)
  /\ \A u \in User : WF_vars(RolesExpire(u))

-----------------------------------------------------------------------------
(* Properties *)

Admitted(p) ==
  /\ req[p].op # NoOp /\ req[p].op.kind # "me"
  /\ \A i \in DOMAIN req[p].todo : req[p].todo[i] \notin {"load", "keep", "enforce", "decide"}

\* A request gets past the permission check only if its user once held, in
\* committed rows, a role that was once granted a permission for the route:
\* neither cache ever holds what a transaction wrote and rolled back
\* (enforcer.go:86-105, permission.go:28-40).
AdmittedByGrant ==
  \A p \in Request : Admitted(p) =>
    \E g \in granted :
      /\ <<req[p].who, g[1]>> \in held
      /\ matchPolicy(g[2], Need(req[p].op.kind)[1], Need(req[p].op.kind)[2])

\* No sequence of requests, faults and restarts removes or disables a
\* built-in role (role/service.go:129, :169; constant.go:29).
BuiltinStays == \A r \in BuiltinRoles : db.roles[r] = "on"

\* The lists of platforms, roles and employees, the filters on them, their
\* counters and a user's own page never contradict each other or the policy that
\* admits requests (access.go:41-169, role_handler.go:48-86).
AnswersAgree == PagesAgree(db)

\* A restart that succeeds heals a lock-out: the administrator is bound again,
\* the built-in permissions are back, and a built-in role that had lost every
\* grant has its defaults; no grant or binding is lost (bootstrap.go:80-98).
RestartRestores ==
  [][Restart /\ up' =>
       /\ <<Admin, "admin">> \in db'.bind /\ Admin \in db'.users
       /\ builtinPermissions \cap Code \subseteq PermCodes(db')
       /\ \A r \in BuiltinRoles : (\A g \in db.grant : g[1] # r) =>
            {r} \X (builtinRolePermissions(r) \cap Code) \subseteq ListPolicy(db')
       /\ db.grant \subseteq db'.grant /\ db.bind \subseteq db'.bind]_vars

\* Once the tables stop changing, what the caches answer with is what the
\* tables hold, even after an invalidation that came too early, a reload that
\* failed, and reloads that finished in the other order (enforcer.go:251-261).
CachesConverge ==
  <>[](/\ fresh => policy = ListPolicy(db)
       /\ \A u \in User : cache[u] \in {NoRoles, FindRoleCodesByUserID(db, u)})

\* Every request is answered: locks are released, and a transaction that needs
\* a second connection for the Enforcer gets one, as long as the pool is larger
\* than the number of concurrent requests (database.go:56-57).
RequestsFinish == <>[](\A p \in Request : req[p] = Idle \/ req[p].todo = <<>>)

\* user_repository.go:149 says that a reset raises the password version so that
\* old tokens lose their effect: no later request brings an old version back.
ResetStands == [][\A u \in db.users : db'.ver[u] >= db.ver[u]]_vars

=============================================================================
