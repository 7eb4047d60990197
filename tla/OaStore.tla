------------------------------ MODULE OaStore ------------------------------
(***************************************************************************)
(* The tables of the OA back end (sys_user, sys_role, sys_permission,      *)
(* sys_platform, sys_role_permission, sys_user_role), what the repositories*)
(* read from them, and what each service operation checks and writes.      *)
(* Everything here is a function of a database value; OaBackend says when  *)
(* requests read, lock and commit.                                         *)
(*                                                                         *)
(* Simplifications: a user is its account, a role its code, and neither is *)
(* created again once deleted; names other than the platforms', phones,    *)
(* departments, timestamps and operator columns are left out; every        *)
(* permission is enabled, as no operation disables one; hr and manager     *)
(* are the built-in roles they are only if Role contains them.  The schema *)
(* is that of sys_*.gen.go and of the comments on its foreign keys.        *)
(***************************************************************************)
EXTENDS Integers, FiniteSets, Sequences

CONSTANTS
  User, Admin,        \* accounts, and the configured administrator
  Role,               \* role codes
  Code,               \* permission codes, as the sequence of their segments
  PlatformCode, RootCode,
  Name, RootName      \* platform names

ASSUME StoreAssumption ==
  /\ Admin \in User
  /\ {"admin", "employee"} \subseteq Role
  /\ RootCode \in PlatformCode /\ RootName \in Name
  /\ IsFiniteSet(User) /\ IsFiniteSet(Role)

BuiltinRoles == {"admin", "hr", "manager", "employee"} \cap Role

\* A row id is the code the row was created with and a serial number.
PermId     == Code \X Nat
PlatformId == PlatformCode \X Nat

SysPermission == [id : PermId, plat : PlatformId, code : Code]
SysPlatform   == [id : PlatformId, name : Name, code : PlatformCode]

Database ==
  [users : SUBSET User, ver : [User -> Nat],
   roles : [Role -> {"none", "on", "off", "gone"}],
   perm : SUBSET SysPermission, plat : SUBSET SysPlatform,
   grant : SUBSET (Role \X PermId), bind : SUBSET (User \X Role),
   left : SUBSET User, gone : SUBSET PermId, closed : SUBSET PlatformId]

EmptyDatabase ==
  [users |-> {}, ver |-> [u \in User |-> 0], roles |-> [r \in Role |-> "none"],
   perm |-> {}, plat |-> {}, grant |-> {}, bind |-> {},
   left |-> {}, gone |-> {}, closed |-> {}]

-----------------------------------------------------------------------------
(* Permission codes *)

Wildcard == "*"

PlatformAccessCode(c) == <<"platform", c, "access">>

\* The codes that the system makes up itself.
ASSUME CodeAssumption ==
  /\ <<Wildcard, Wildcard>> \in Code
  /\ \A c \in PlatformCode : PlatformAccessCode(c) \in Code

\* The last colon separates the action from the object.
SplitPermissionCode(code) ==
  IF Len(code) = 1 THEN [object |-> code, action |-> <<>>]
  ELSE [object |-> SubSeq(code, 1, Len(code) - 1), action |-> <<code[Len(code)]>>]

matchPolicy(code, object, action) ==
  LET s == SplitPermissionCode(code)
  IN  /\ s.object \in {object, <<Wildcard>>}
      /\ s.action \in {action, <<Wildcard>>}

-----------------------------------------------------------------------------
(* Queries *)

RoleLives(d, r) == d.roles[r] \in {"on", "off"}
PermIds(d)      == {p.id : p \in d.perm}
PlatformIds(d)  == {p.id : p \in d.plat}
PermCodes(d)    == {p.code : p \in d.perm}

\* What the schema asks of the tables: a row that another refers to is there, and
\* the ids under a code are numbered in the order they were given out.
Dense(ids) == \A i \in ids : \A m \in 0 .. (i[2] - 1) : <<i[1], m>> \in ids

RolesFound(d) ==
  (\A g \in d.grant : RoleLives(d, g[1])) /\ (\A b \in d.bind : RoleLives(d, b[2]))

Consistent(d) ==
  /\ d \in Database
  /\ IsFiniteSet(d.perm) /\ IsFiniteSet(d.gone) /\ IsFiniteSet(d.plat) /\ IsFiniteSet(d.closed)
  /\ Dense(d.closed \cup PlatformIds(d))
  /\ \A p \in d.perm : p.plat \in PlatformIds(d)
  /\ \A g \in d.grant : g[2] \in PermIds(d)
  /\ \A b \in d.bind : b[1] \in d.users
  /\ RolesFound(d)

ListPolicy(d) ==
  {<<x[1][1], x[2].code>> :
     x \in {y \in d.grant \X d.perm : y[1][2] = y[2].id /\ d.roles[y[1][1]] = "on"}}

FindRoleCodesByUserID(d, u) == {r \in Role : <<u, r>> \in d.bind /\ d.roles[r] = "on"}

FindRoleIDsByUserID(d, u) == {r \in Role : <<u, r>> \in d.bind}

FindUserIDsByRoleIDs(d, rs) == {u \in User : \E r \in rs : <<u, r>> \in d.bind}

FindRoleIDsByPermissionIDs(d, i) == {r \in Role : <<r, i>> \in d.grant}

FindRoleCodesByPermissionIDs(d, i) ==
  {r \in FindRoleIDsByPermissionIDs(d, i) : d.roles[r] = "on"}

platformPermissionIDs(d, p) ==
  {q.id : q \in {r \in d.perm : r.code = PlatformAccessCode(p.code)}}

\* Mutant: disabled roles count.
FindPlatformsByAnyRole(d, u) ==
  {p \in d.plat :
     \E i \in platformPermissionIDs(d, p) :
       FindRoleIDsByPermissionIDs(d, i) \cap FindRoleIDsByUserID(d, u) # {}}

\* The platforms shown beside an employee.
FindPlatformsByUserIDs(d, u) ==
  {p \in d.plat :
     \E i \in platformPermissionIDs(d, p) :
       FindRoleCodesByPermissionIDs(d, i) \cap FindRoleCodesByUserID(d, u) # {}}

\* The employees behind a platform's filter; it does not look at role status.
FindUserIDsByPlatformID(d, p) ==
  UNION {FindUserIDsByRoleIDs(d, FindRoleIDsByPermissionIDs(d, i)) :
           i \in platformPermissionIDs(d, p)}

-----------------------------------------------------------------------------
(* Start-up: every step leaves alone what it finds. *)

builtinPermissions ==
  {<<"platform", a>> : a \in {"list", "create", "update", "delete"}}
    \cup {<<"employee", a>> : a \in {"list", "create", "update", "delete", "reset-password"}}
    \cup {<<"role", a>> : a \in {"list", "create", "update", "delete", "assign"}}
    \cup {<<"user", "role", "assign">>, <<"permission", "list">>, <<"permission", "create">>}
    \cup {<<"menu", a>> : a \in {"platform", "employee", "role"}}

builtinRolePermissions(r) ==
  CASE r = "admin"    -> {<<Wildcard, Wildcard>>}
    [] r = "hr"       -> {c \in builtinPermissions :
                            \/ c[1] \in {"platform", "employee", "menu", "user"}
                            \/ c \in {<<"role", "list">>, <<"permission", "list">>}}
    [] r = "manager"  -> {<<"platform", "list">>, <<"employee", "list">>, <<"role", "list">>,
                          <<"permission", "list">>, <<"menu", "platform">>, <<"menu", "employee">>}
    [] OTHER          -> {}

NewPerm(d, code) ==
  <<code, Cardinality({i \in d.gone \cup PermIds(d) : i[1] = code})>>

NewPlatform(d, code) ==
  <<code, Cardinality({i \in d.closed \cup PlatformIds(d) : i[1] = code})>>

Root(d) == (CHOOSE p \in d.plat : p.code = RootCode).id

initRootPlatform(d) ==
  IF \E p \in d.plat : p.code = RootCode THEN d
  ELSE [d EXCEPT !.plat = @ \cup {[id |-> NewPlatform(d, RootCode), name |-> RootName,
                                   code |-> RootCode]}]

initBuiltinRoles(d) ==
  [d EXCEPT !.roles = [r \in Role |-> IF r \in BuiltinRoles /\ @[r] = "none" THEN "on" ELSE @[r]]]

AddPermissions(d, codes) ==
  [d EXCEPT !.perm = @ \cup {[id |-> NewPerm(d, c), plat |-> Root(d), code |-> c] :
                               c \in codes \ PermCodes(d)}]

initBuiltinPermissions(d) == AddPermissions(d, builtinPermissions \cap Code)

\* Mutant: the wildcard permission is taken to exist.
initRolePermissionsFound(d) ==
  LET bare == {r \in BuiltinRoles : \A g \in d.grant : g[1] # r}
  IN  [d EXCEPT !.grant = @ \cup {g \in bare \X PermIds(d) :
         \E p \in d.perm : p.id = g[2] /\ p.code \in builtinRolePermissions(g[1]) \cap Code}]

\* The wildcard permission is created only for an admin role without grants.
initRolePermissions(d) ==
  LET bare == {r \in BuiltinRoles : \A g \in d.grant : g[1] # r}
      e    == AddPermissions(d, IF "admin" \in bare THEN {<<Wildcard, Wildcard>>} ELSE {})
  IN  [e EXCEPT !.grant = @ \cup {g \in bare \X PermIds(e) :
         \E p \in e.perm : p.id = g[2] /\ p.code \in builtinRolePermissions(g[1]) \cap Code}]

initAdminUser(d) ==
  [d EXCEPT !.users = @ \cup {Admin},
            !.ver[Admin] = IF Admin \in d.users THEN @ ELSE 1,
            !.bind = @ \cup {<<Admin, "admin">>}]

InitRBAC(d) ==
  initAdminUser(initRolePermissions(initBuiltinPermissions(initBuiltinRoles(initRootPlatform(d)))))

\* The root platform's name is unique: the transaction fails if another has it.
InitRBACFails(d) ==
  /\ \A p \in d.plat : p.code # RootCode
  /\ \E p \in d.plat : p.name = RootName

-----------------------------------------------------------------------------
(* What the services check before they write, in the transaction's snapshot *)
(* s.  "keep" is an update that does not mention the role's status.         *)

RolesLive(s, rs) == \A r \in rs : RoleLives(s, r)

CreateRoleAllowed(s, o) == s.roles[o.role] = "none"

\* Mutant: built-in roles are not exempt.
UpdateRoleAllowedAny(s, o) == RoleLives(s, o.role)

UpdateRoleAllowed(s, o) ==
  RoleLives(s, o.role) /\ ~(o.status = "off" /\ o.role \in BuiltinRoles)

DeleteRoleAllowed(s, o) ==
  /\ RoleLives(s, o.role) /\ o.role \notin BuiltinRoles
  /\ FindUserIDsByRoleIDs(s, {o.role}) = {}

AssignPermissionsAllowed(s, o) == RoleLives(s, o.role) /\ o.perms \subseteq PermIds(s)

CreateEmployeeAllowed(s, o) == o.user \notin s.users \cup s.left /\ RolesLive(s, o.roles)
UpdateEmployeeAllowed(s, o) == o.user \in s.users /\ RolesLive(s, o.roles)
EmployeeExists(s, o)        == o.user \in s.users

CreatePlatformAllowed(s, o) == \A p \in s.plat : p.name # o.name /\ p.code # o.code

UpdatePlatformAllowed(s, o) ==
  /\ o.plat \in PlatformIds(s)
  /\ \A p \in s.plat : p.id # o.plat => p.name # o.name /\ p.code # o.code

DeletePlatformAllowed(s, o) == o.plat \in PlatformIds(s)

CreatePermissionAllowed(s, o) == o.code \notin PermCodes(s)

Allowed(s, o) ==
  CASE o.kind = "create_role"        -> CreateRoleAllowed(s, o)
    [] o.kind = "update_role"        -> UpdateRoleAllowed(s, o)
    [] o.kind = "delete_role"        -> DeleteRoleAllowed(s, o)
    [] o.kind = "assign_permissions" -> AssignPermissionsAllowed(s, o)
    [] o.kind \in {"assign_users", "set_user_roles"} -> RolesLive(s, o.roles)
    [] o.kind = "create_employee"    -> CreateEmployeeAllowed(s, o)
    [] o.kind = "update_employee"    -> UpdateEmployeeAllowed(s, o)
    [] o.kind \in {"delete_employee", "reset_password"} -> EmployeeExists(s, o)
    [] o.kind = "create_platform"    -> CreatePlatformAllowed(s, o)
    [] o.kind = "update_platform"    -> UpdatePlatformAllowed(s, o)
    [] o.kind = "delete_platform"    -> DeletePlatformAllowed(s, o)
    [] o.kind = "create_permission"  -> CreatePermissionAllowed(s, o)

\* The code a platform had in the snapshot, and the row of its access
\* permission, which an update renames if the code changes.
OldCode(s, o) == (CHOOSE p \in s.plat : p.id = o.plat).code

Renamed(s, o) ==
  IF OldCode(s, o) = o.code THEN {}
  ELSE {p.id : p \in {q \in s.perm : q.code = PlatformAccessCode(OldCode(s, o))}}

-----------------------------------------------------------------------------
(* What the tables themselves refuse: unique keys, and foreign keys of rows *)
(* whose parent is gone.  d is the committed database at the time.          *)

Refused(d, s, o) ==
  CASE o.kind = "create_role" -> d.roles[o.role] # "none"
    [] o.kind = "assign_permissions" ->
         o.perms # {} /\ ~(RoleLives(d, o.role) /\ o.perms \subseteq PermIds(d))
    [] o.kind = "assign_users" ->
         ~(o.users \subseteq d.users /\ \A r \in o.roles : RoleLives(d, r))
    [] o.kind = "set_user_roles" ->
         o.roles # {} /\ ~(o.user \in d.users /\ \A r \in o.roles : RoleLives(d, r))
    [] o.kind = "create_employee" -> o.user \in d.users \/ \E r \in o.roles : ~RoleLives(d, r)
    [] o.kind = "update_employee" ->
         \/ \E r \in o.roles : ~RoleLives(d, r)
         \/ o.user \notin d.users /\ (o.roles # {} \/ FindRoleIDsByUserID(s, o.user) = {})
    [] o.kind = "create_platform" ->
         \/ \E p \in d.plat : p.name = o.name \/ p.code = o.code
         \/ PlatformAccessCode(o.code) \in PermCodes(d)
    [] o.kind = "update_platform" ->
         \/ /\ o.plat \in PlatformIds(d)
            /\ \E p \in d.plat : p.id # o.plat /\ (p.name = o.name \/ p.code = o.code)
         \/ \E p \in d.perm : /\ (Renamed(s, o) \cap PermIds(d)) \ {p.id} # {}
                              /\ p.code = PlatformAccessCode(o.code)
    [] o.kind = "create_permission" -> o.code \in PermCodes(d) \/ o.plat \notin PlatformIds(d)
    [] OTHER -> FALSE

-----------------------------------------------------------------------------
(* What an operation leaves in the tables *)

EmployeeRole(s) == IF RoleLives(s, "employee") THEN {"employee"} ELSE {}

SetRoles(d, u, rs) == {b \in d.bind : b[1] # u} \cup ({u} \X rs)

\* The roles an employee ends up with; none given means at least "employee".
EnsureEmployeeRole(d, s, o) ==
  IF o.roles # {} THEN SetRoles(d, o.user, o.roles)
  ELSE IF FindRoleIDsByUserID(s, o.user) # {} THEN d.bind
  ELSE d.bind \cup ({o.user} \X EmployeeRole(s))

CreateRole(d, o) == [d EXCEPT !.roles[o.role] = "on"]

\* The whole status column is written, from the snapshot if not from the request.
UpdateRole(d, s, o) ==
  IF RoleLives(d, o.role)
  THEN [d EXCEPT !.roles[o.role] = IF o.status = "keep" THEN s.roles[o.role] ELSE o.status]
  ELSE d

\* Mutant: nobody has the role, as the check has found, so no binding is deleted.
DeleteRoleUnbound(d, o) ==
  [d EXCEPT !.roles[o.role] = "gone", !.grant = {g \in @ : g[1] # o.role}]

DeleteRole(d, o) ==
  [d EXCEPT !.roles[o.role] = "gone",
            !.grant = {g \in @ : g[1] # o.role}, !.bind = {b \in @ : b[2] # o.role}]

AssignPermissions(d, o) ==
  [d EXCEPT !.grant = {g \in @ : g[1] # o.role} \cup ({o.role} \X o.perms)]

AssignUsers(d, o)  == [d EXCEPT !.bind = @ \cup (o.users \X o.roles)]
SetUserRoles(d, o) == [d EXCEPT !.bind = SetRoles(d, o.user, o.roles)]

CreateEmployee(d, s, o) ==
  [d EXCEPT !.users = @ \cup {o.user}, !.ver[o.user] = 1, !.bind = EnsureEmployeeRole(d, s, o)]

\* Updates(user) writes every column that was read, the password's included.
UpdateEmployee(d, s, o) ==
  [d EXCEPT !.ver[o.user] = IF o.user \in d.users THEN s.ver[o.user] ELSE @,
            !.bind = EnsureEmployeeRole(d, s, o)]

DeleteEmployee(d, o) ==
  [d EXCEPT !.users = @ \ {o.user}, !.left = @ \cup {o.user},
            !.bind = {b \in @ : b[1] # o.user}]

ResetPassword(d, o) == [d EXCEPT !.ver[o.user] = IF o.user \in d.users THEN @ + 1 ELSE @]

CreatePlatform(d, o) ==
  LET id == NewPlatform(d, o.code)
      c  == PlatformAccessCode(o.code)
  IN  [d EXCEPT !.plat = @ \cup {[id |-> id, name |-> o.name, code |-> o.code]},
                !.perm = @ \cup {[id |-> NewPerm(d, c), plat |-> id, code |-> c]}]

UpdatePlatform(d, s, o) ==
  [d EXCEPT !.plat = {IF p.id = o.plat THEN [p EXCEPT !.name = o.name, !.code = o.code] ELSE p : p \in @},
            !.perm = {IF p.id \in Renamed(s, o) THEN [p EXCEPT !.code = PlatformAccessCode(o.code)]
                      ELSE p : p \in @}]

DeletePlatform(d, o) ==
  LET lost == {p \in d.perm : p.plat = o.plat}
  IN  [d EXCEPT !.plat = {p \in @ : p.id # o.plat}, !.perm = @ \ lost,
                !.grant = {g \in @ : g[2] \notin {p.id : p \in lost}},
                !.gone = @ \cup {p.id : p \in lost},
                !.closed = @ \cup ({o.plat} \cap PlatformIds(d))]

CreatePermission(d, o) ==
  [d EXCEPT !.perm = @ \cup {[id |-> NewPerm(d, o.code), plat |-> o.plat, code |-> o.code]}]

Effect(d, s, o) ==
  CASE o.kind = "create_role"        -> CreateRole(d, o)
    [] o.kind = "update_role"        -> UpdateRole(d, s, o)
    [] o.kind = "delete_role"        -> DeleteRole(d, o)
    [] o.kind = "assign_permissions" -> AssignPermissions(d, o)
    [] o.kind = "assign_users"       -> AssignUsers(d, o)
    [] o.kind = "set_user_roles"     -> SetUserRoles(d, o)
    [] o.kind = "create_employee"    -> CreateEmployee(d, s, o)
    [] o.kind = "update_employee"    -> UpdateEmployee(d, s, o)
    [] o.kind = "delete_employee"    -> DeleteEmployee(d, o)
    [] o.kind = "reset_password"     -> ResetPassword(d, o)
    [] o.kind = "create_platform"    -> CreatePlatform(d, o)
    [] o.kind = "update_platform"    -> UpdatePlatform(d, s, o)
    [] o.kind = "delete_platform"    -> DeletePlatform(d, o)
    [] o.kind = "create_permission"  -> CreatePermission(d, o)
    [] OTHER                         -> d

=============================================================================
