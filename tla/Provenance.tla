----------------------------- MODULE Provenance -----------------------------
(***************************************************************************)
(* Who an audit row names: the writers of sys_user in the SSO and the OA,  *)
(* the columns in which they leave their operator and request id, and the  *)
(* row changes the binlog shows of them.  The SSO stamps rows in a gorm    *)
(* callback, from the context of the request; the OA's services fill the   *)
(* columns themselves.  AuditConsumer turns the changes into audit rows;   *)
(* the SSO also writes audit rows of its own, of security events.          *)
(*                                                                         *)
(* A history is what a sequence of requests, each served as a whole, makes *)
(* of an empty system.  Simplifications: a user is its e-mail and password *)
(* (name and phone are treated like the e-mail); hashes and versions are   *)
(* texts; validation of input and its messages are left out.               *)
(***************************************************************************)
EXTENDS AuditConsumer

CONSTANTS
  sys_user,                                  \* names of the table and of its columns
  id, email, password, password_version,
  auditedTables,                             \* tables with columns of provenance
  DefaultPassword

ASSUME ProvenanceAssumption ==
  /\ sys_user \in auditedTables
  /\ LET columns == <<id, email, password, password_version, created_by, updated_by, request_id>>
     IN \A i, j \in 1..7 : i # j => columns[i] # columns[j]

-----------------------------------------------------------------------------
(* Requests.  Those of the SSO concern the user of the access token.  The last field: *)
(* the revocation of the user's sessions, after the row was written, fails.           *)

Request(kind, by, user, request) ==
  [kind |-> kind, by |-> by, user |-> user, request |-> request, value |-> <<>>, fails |-> FALSE]

ChangePasswordRequest(user, request, value, fails) ==
  [Request("change_password", user, user, request) EXCEPT !.value = value, !.fails = fails]

UpdateProfileRequest(user, request, value) ==
  [Request("update_profile", user, user, request) EXCEPT !.value = value]

-----------------------------------------------------------------------------
(* The context of a request of the SSO, and what the callback makes of a write. *)

Background == [operator |-> Nil, request |-> Nil]

WithRequestID(ctx, request) == IF request = <<>> THEN ctx ELSE [ctx EXCEPT !.request = request]

WithOperatorID(ctx, operator) ==
  IF positiveUint(operator) = 0 THEN ctx ELSE [ctx EXCEPT !.operator = operator]

(* RequestIDMiddleware, then AuthMiddleware. *)
ContextOf(r) == WithOperatorID(WithRequestID(Background, r.request), r.by)

isAuditedTable(table) == table \in auditedTables

(* A row with the given columns set. *)
Over(values, row) ==
  [c \in DOMAIN values \cup DOMAIN row |-> IF c \in DOMAIN values THEN values[c] ELSE row[c]]

Stamp(values, stamps, ctx) ==
  Over([c \in stamps |-> IF c = request_id THEN ctx.request ELSE ctx.operator], values)

(* Mutant: only a row that is created gets its operator. *)
populateProvenanceOnce(values, table, ctx, creating) ==
  IF ~isAuditedTable(table) THEN values
  ELSE Stamp(values, {c \in {created_by, updated_by, request_id} :
                        IF c = request_id THEN ctx.request # Nil ELSE creating /\ ctx.operator # Nil}, ctx)

populateProvenance(values, table, ctx, creating) ==
  LET stamps == {c \in {created_by, updated_by, request_id} :
                   /\ IF c = request_id THEN ctx.request # Nil ELSE ctx.operator # Nil
                   /\ c = created_by => creating}
  IN IF isAuditedTable(table) THEN Stamp(values, stamps, ctx) ELSE values

-----------------------------------------------------------------------------
(* What each writer makes of a row. *)

(* Both password writers count the version up in the statement itself. *)
NextVersion(row) == [row[password_version] EXCEPT ![1] = @ + 1]

UpdatePassword(row, ctx, hash) ==
  Over(populateProvenance([c \in {password, password_version} |->
                             IF c = password THEN hash ELSE NextVersion(row)], sys_user, ctx, FALSE), row)

UpdateProfile(row, ctx, value) ==
  Over(populateProvenance([c \in {email} |-> IF value = <<>> THEN Nil ELSE value], sys_user, ctx, FALSE),
       row)

CreateUserTx(r) ==
  [c \in {id, email, password, password_version, created_by, updated_by, request_id} |->
     CASE c = id -> r.user                [] c = email -> r.value
       [] c = password -> DefaultPassword [] c = password_version -> <<49>>
       [] c = created_by -> r.by          [] c = updated_by -> Nil
       [] c = request_id -> r.request]

UpdateUserTx(row, r) ==
  Over([c \in {email, updated_by, request_id} |->
          CASE c = email -> r.value [] c = updated_by -> r.by [] c = request_id -> r.request], row)

(* The OA's reset leaves no trace of who made it. *)
ResetPassword(row) ==
  Over([c \in {password, password_version} |->
          IF c = password THEN DefaultPassword ELSE NextVersion(row)], row)

-----------------------------------------------------------------------------
(* Serving a request: the rows of sys_user, the changes in the binlog, and the audit *)
(* rows that the SSO writes itself.                                                  *)

Nothing == [users |-> <<>>, binlog |-> <<>>, security |-> {}]

Free(s, r) ==
  r.value = <<>> \/ \A u \in DOMAIN s.users \ {r.user} : s.users[u][email] # r.value

Admitted(s, r) ==
  CASE r.kind = "create"                        -> r.user \notin DOMAIN s.users /\ Free(s, r)
    [] r.kind \in {"update", "update_profile"} -> r.user \in DOMAIN s.users /\ Free(s, r)
    [] OTHER                                    -> r.user \in DOMAIN s.users

RowAfter(s, r) ==
  LET row == s.users[r.user]
  IN CASE r.kind = "create"          -> CreateUserTx(r)
       [] r.kind = "update"          -> UpdateUserTx(row, r)
       [] r.kind = "reset"           -> ResetPassword(row)
       [] r.kind = "delete"          -> Nil
       [] r.kind = "change_password" -> UpdatePassword(row, ContextOf(r), r.value)
       [] r.kind = "update_profile"  -> UpdateProfile(row, ContextOf(r), r.value)

(* The metadata of the request, written on a best-effort basis. *)
recordSecurityAudit(r) ==
  [operator |-> positiveUint(r.by), action |-> r.kind, request |-> nonEmptyPtr(r.request)]

SecurityAfter(s, r) ==
  IF r.kind = "update_profile" \/ (r.kind = "change_password" /\ ~r.fails)
  THEN s.security \cup {recordSecurityAudit(r)} ELSE s.security

Serve(s, r) ==
  IF ~Admitted(s, r) THEN s
  ELSE LET before == IF r.kind = "create" THEN Nil ELSE s.users[r.user]
           after  == RowAfter(s, r)
           left   == IF after = Nil THEN DOMAIN s.users \ {r.user} ELSE DOMAIN s.users \cup {r.user}
       IN [users    |-> [u \in left |-> IF u = r.user THEN after ELSE s.users[u]],
           binlog   |-> Append(s.binlog, [before |-> before, after |-> after, of |-> r]),
           security |-> SecurityAfter(s, r)]

(* The requests are served one after the other. *)
History(requests) ==
  LET after[n \in 0..Len(requests)] ==
        IF n = 0 THEN Nothing ELSE Serve(after[n - 1], requests[n])
  IN after[Len(requests)]

-----------------------------------------------------------------------------
(* Properties. *)

(* An audit row names the user who made the change and the request that did, through  *)
(* whatever editors the row had before (request_id.go:18: the id is used by all that   *)
(* a request leaves behind); a row that the SSO wrote for the same request names the   *)
(* same operator.  A reset and a deletion leave the row's last editor in place, and    *)
(* are recorded as that editor's: of them nothing is promised.                         *)
EditsAreAttributed ==
  \A s \in Slot : LET m == topic[s[1]][s[2]] IN
    \A key \in DOMAIN m.edits \cap DOMAIN audit :
      LET r == m.edits[key]
      IN /\ r.kind \notin {"reset", "delete"} =>
              audit[key].operator = positiveUint(r.by) /\ audit[key].request = r.request
         /\ \A e \in m.security :
              e.request = audit[key].request => e.operator = audit[key].operator

=============================================================================
