------------------------------ MODULE OaPages ------------------------------
(***************************************************************************)
(* What the reading endpoints of the OA back end answer: the role, platform*)
(* and employee pages and a user's own permissions, as functions of a      *)
(* database.  The pages combine counters, filters and rows that come from  *)
(* different queries; PagesAgree says how they must fit together.          *)
(*                                                                         *)
(* Simplifications: a page is read at one instant and whole, without       *)
(* paging, keywords and sort order; rows have the columns that depend on   *)
(* roles and permissions.                                                  *)
(***************************************************************************)
EXTENDS OaStore

(* The role pages *)

GetPermissionIDs(d, r) == {i \in PermIds(d) : <<r, i>> \in d.grant}

GetUserRoles(d, u) == {r \in FindRoleIDsByUserID(d, u) : RoleLives(d, r)}

CountUsersByRoleIDs(d, r) == Cardinality({b \in d.bind : b[2] = r})

CountPermissionsByRoleIDs(d, r) == Cardinality({g \in d.grant : g[1] = r})

ListRoles(d) ==
  {[role |-> r, users |-> CountUsersByRoleIDs(d, r), perms |-> CountPermissionsByRoleIDs(d, r)] :
     r \in {q \in Role : RoleLives(d, q)}}

(* The platform page *)

CountByPlatformIDs(d, p) ==
  Cardinality(UNION {FindUserIDsByRoleIDs(d, FindRoleIDsByPermissionIDs(d, i)) :
                       i \in platformPermissionIDs(d, p)})

ListPlatforms(d) == {[plat |-> p.id, users |-> CountByPlatformIDs(d, p)] : p \in d.plat}

(* The employee page: administrators are left out, whatever the filter; no  *)
(* filter is NoPlatform.                                                    *)

NoPlatform == "any"

FindUserIDsByRoleCodes(d, rs) == {u \in User : \E r \in rs : <<u, r>> \in d.bind}

ListEmployees(d, only, except) == (d.users \cap only) \ except

FindEmployees(d, only) == ListEmployees(d, only, FindUserIDsByRoleCodes(d, {"admin"}))

EmployeePage(d, filter) ==
  LET only == IF filter = NoPlatform THEN User
              ELSE UNION {FindUserIDsByPlatformID(d, p) : p \in {q \in d.plat : q.id = filter}}
  IN  {[user |-> u, roles |-> GetUserRoles(d, u), platforms |-> FindPlatformsByUserIDs(d, u)] :
         u \in FindEmployees(d, only)}

(* A user's own page, from the roles rs that the Enforcer answered with and *)
(* the policy it holds.                                                     *)

PermissionCodes(policy, rs) == {g[2] : g \in {h \in policy : h[1] \in rs}}

FindPlatformsByUserID(d, rs) ==
  {p \in d.plat : \E i \in platformPermissionIDs(d, p) : FindRoleCodesByPermissionIDs(d, i) \cap rs # {}}

Me(d, policy, rs) ==
  [codes |-> PermissionCodes(policy, rs), platforms |-> FindPlatformsByUserID(d, rs),
   admin |-> "admin" \in rs]

-----------------------------------------------------------------------------

\* Whoever asks, the pages agree.  A user's own page lists the platforms whose
\* access code it lists, and so does the user's row on the employee page; a row
\* that shows a platform is found by that platform's filter, and the platform's
\* counter counts it; a role that shows no users can be deleted unless it is
\* built in, and its counters count the rows of its other pages.
PagesAgree(d) ==
  /\ \A u \in d.users :
       LET me == Me(d, ListPolicy(d), FindRoleCodesByUserID(d, u))
       IN  /\ me.platforms = {p \in d.plat : PlatformAccessCode(p.code) \in me.codes}
           /\ \A row \in EmployeePage(d, NoPlatform) :
                row.user = u => row.platforms = me.platforms /\ ~me.admin
  /\ \A row \in EmployeePage(d, NoPlatform) : \A p \in row.platforms :
       /\ row \in EmployeePage(d, p.id)
       /\ \E x \in ListPlatforms(d) : x.plat = p.id /\ x.users > 0
  /\ \A x \in ListRoles(d) :
       /\ x.users = Cardinality({u \in d.users : x.role \in GetUserRoles(d, u)})
       /\ x.perms = Cardinality(GetPermissionIDs(d, x.role))
       /\ x.role \notin BuiltinRoles => (x.users = 0 <=> DeleteRoleAllowed(d, [role |-> x.role]))

=============================================================================
