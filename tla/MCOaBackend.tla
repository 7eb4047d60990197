---------------------------- MODULE MCOaBackend ----------------------------
(***************************************************************************)
(* Instances of OaBackend for TLC.  The tables start as the service leaves *)
(* them after its first start and a few earlier requests: an employee u    *)
(* with a role of their own, staff, a platform that staff may enter, and a *)
(* role guest that nobody has.                                             *)
(***************************************************************************)
EXTENDS OaBackend, TLC

CONSTANTS adm, u, n, P, Q, oa_manage, OAName, PName, QName

Access(c) == PlatformAccessCode(c)

MCCode ==
  {<<"*", "*">>, <<"role", "update">>, <<"user", "role", "assign">>} \cup {Access(c) : c \in PlatformCode}

PId == <<P, 0>>

Started  == InitRBAC(EmptyDatabase)
Staffed  == CreateRole(CreateRole(Started, [role |-> "staff"]), [role |-> "guest"])
Employed == CreateEmployee(Staffed, Staffed, [user |-> u, roles |-> {"staff"}])
Opened   == CreatePlatform(Employed, [name |-> PName, code |-> P])
Granted  == AssignPermissions(Opened, [role |-> "staff",
              perms |-> {<<Access(P), 0>>, <<<<"role", "update">>, 0>>}])

MCInitDatabases == {Granted}

(* Who asks for what.  u may update roles, and tries to be admitted elsewhere. *)
RoleOps ==
  {[kind |-> "create_role", role |-> "temp"],
   [kind |-> "update_role", role |-> "admin", status |-> "off"],
   [kind |-> "delete_role", role |-> "staff"],
   [kind |-> "delete_role", role |-> "guest"],
   [kind |-> "assign_permissions", role |-> "staff", perms |-> {<<<<"*", "*">>, 0>>}],
   [kind |-> "assign_users", users |-> {u}, roles |-> {"admin", "guest"}],
   [kind |-> "set_user_roles", user |-> u, roles |-> {}]}

EmployeeOps ==
  {[kind |-> "create_employee", user |-> n, roles |-> {}],
   [kind |-> "update_employee", user |-> u, roles |-> {"employee"}],
   [kind |-> "delete_employee", user |-> u],
   [kind |-> "reset_password", user |-> u]}

PlatformOps ==
  {[kind |-> "create_platform", name |-> QName, code |-> Q],
   [kind |-> "update_platform", plat |-> PId, name |-> PName, code |-> Q],
   [kind |-> "update_platform", plat |-> <<oa_manage, 0>>, name |-> OAName, code |-> Q],
   [kind |-> "delete_platform", plat |-> <<oa_manage, 0>>],
   [kind |-> "create_permission", plat |-> PId, code |-> Access(Q)]}

StaffOff == [kind |-> "update_role", role |-> "staff", status |-> "off"]

MCOps ==
  ({adm} \X (RoleOps \cup EmployeeOps \cup PlatformOps))
    \cup ({u} \X {StaffOff, [kind |-> "me"], [kind |-> "list_roles"]})

ResetOps == {adm} \X {o \in EmployeeOps : o.kind \in {"update_employee", "reset_password"}}

=============================================================================
