-------------------------- MODULE MCAuditConsumer --------------------------
(***************************************************************************)
(* Instances of AuditConsumer for TLC: messages as Canal encodes them, with *)
(* the rows of the audit table that each of them calls for, written out.   *)
(* Names are one byte long; values are what the code tells apart.          *)
(***************************************************************************)
EXTENDS Provenance

CONSTANTS p1, p2

MCId == <<105>>   MCPassword == <<112>>   MCEmail == <<101>>   MCVersion == <<118, 101>>
name == <<110>>   user_id == <<118>>   role_id == <<119>>

MCUpdatedBy == <<117>>   MCCreatedBy == <<99>>   MCRequestID == <<114>>
MCCreateTime == <<67>>   MCUpdateTime == <<85>>

user == <<1>>   user_role == <<2>>   audit_log == <<3>>
noon == <<12>>   stars == <<42>>

MCTables ==
  user :> [target |-> "user", key |-> id, actions |-> <<>>]
    @@ user_role :> [target |-> "user", key |-> user_id,
                     actions |-> [delete |-> <<"user", "unassign-role">>]]

MCAudited     == {user}
MCDefault     == <<48>>
MCMasked      == {MCPassword}
MCReplacement == stars
MCTimeText    == {noon}
MCConfigured  == [batch_size |-> 2, max_files |-> 1, max_size |-> 1]

-----------------------------------------------------------------------------
(* Canal's encoding. *)

V(n) == LET enc[m \in Nat] == IF m < 128 THEN <<m>> ELSE <<(m % 128) + 128>> \o enc[m \div 128]
        IN enc[n]

Int32(n, v)   == V(8 * n) \o V(v)
Str(n, b)     == V(8 * n + 2) \o V(Len(b)) \o b
Fixed64(n)    == V(8 * n + 1) \o <<1, 2, 3, 4, 5, 6, 7, 8>>
Fixed32(n)    == V(8 * n + 5) \o <<1, 2, 3, 4>>
Join(n, msgs) == FlattenSeq([i \in DOMAIN msgs |-> Str(n, msgs[i])])

Column(c) ==
  Int32(1, 0) \o Int32(2, 12) \o Str(3, c[1]) \o Int32(4, 0) \o Int32(5, 1)
    \o (IF c[2] = Nil THEN Int32(6, 1) ELSE Int32(6, 0) \o Str(8, c[2])) \o Str(10, <<0>>)

Columns(n, cols) == Join(n, [i \in DOMAIN cols |-> Column(cols[i])])

RowChange(event, ddl, rows) ==
  Int32(1, 300) \o Int32(2, event) \o Int32(10, ddl)
    \o Join(12, [i \in DOMAIN rows |-> Columns(1, rows[i][1]) \o Columns(2, rows[i][2])])

Header(table, pos, time) ==
  Int32(1, 1) \o Str(2, <<70>>) \o Int32(3, pos) \o Int32(6, time) \o Str(8, <<79>>)
    \o Str(9, table) \o Fixed32(14) \o Str(13, <<71>>)

EntryOf(type, header, store) == Str(1, header) \o Int32(2, type) \o Fixed64(9) \o Str(3, store)

Packet(type, compression, entries) ==
  Int32(1, 17681) \o Int32(3, type) \o Int32(4, compression)
    \o Str(5, Int32(1, 200) \o Join(2, entries))

-----------------------------------------------------------------------------
(* Entries, and the rows they call for. *)

Key(table, type, pos, i) == <<"primary", <<79>>, table, type, <<71>>, <<70>>, pos, i>>

Begin == EntryOf(1, Header(<<>>, 4, 0), <<1>>)

(* Two users are inserted; Canal reports no columns for the first. *)
Insert ==
  EntryOf(2, Header(user, 300, 0),
    RowChange(1, 0, << << <<>>, <<>> >>,
                       << <<>>, << <<id, <<55>>>>, <<password, <<1>>>>, <<MCCreatedBy, <<49, 50>>>>,
                                   <<MCUpdatedBy, Nil>>, <<MCCreateTime, noon>> >> >> >>))
InsertRows ==
  LET row == id :> <<55>> @@ password :> stars @@ MCCreatedBy :> <<49, 50>>
               @@ MCUpdatedBy :> Nil @@ MCCreateTime :> noon
  IN {[operator |-> 12, action |-> <<"user", "create">>, target |-> "user", id |-> <<55>>,
       detail |-> [after |-> row], before |-> Nil, request |-> Nil,
       key |-> Key(user, "INSERT", 300, 2), time |-> noon]}

(* An update that changes a name and a password, and an update of another row that      *)
(* changes nothing but who updated it; of the second only the changed column is reported. *)
Update ==
  EntryOf(2, Header(user, 400, 70000),
    RowChange(2, 0,
      << << << <<id, <<55>>>>, <<name, <<1>>>>, <<password, <<1>>>> >>,
            << <<id, <<55>>>>, <<name, <<2>>>>, <<password, <<2>>>>, <<MCRequestID, <<5>>>> >> >>,
         << << <<MCUpdatedBy, <<49>>>> >>, << <<id, <<56>>>>, <<MCUpdatedBy, <<57>>>> >> >> >>))
UpdateRows ==
  {[operator |-> Nil, action |-> <<"user", "update">>, target |-> "user", id |-> <<55>>,
    detail |-> [changed |-> name :> [old |-> <<1>>, new |-> <<2>>]],
    before |-> id :> <<55>> @@ name :> <<1>> @@ password :> stars @@ MCRequestID :> <<5>>,
    request |-> <<5>>, key |-> Key(user, "UPDATE", 400, 1), time |-> 70000],
   [operator |-> 9, action |-> <<"user", "update">>, target |-> "user", id |-> <<56>>,
    detail |-> [changed |-> <<>>], before |-> id :> <<56>> @@ MCUpdatedBy :> <<49>>,
    request |-> Nil, key |-> Key(user, "UPDATE", 400, 2), time |-> 70000]}

Delete ==
  EntryOf(2, Header(user_role, 500, 80000),
    RowChange(3, 0, << << << <<user_id, <<55>>>>, <<role_id, <<3>>>>, <<MCCreatedBy, <<48>>>> >>,
                          <<>> >> >>))
DeleteRows ==
  LET row == user_id :> <<55>> @@ role_id :> <<3>> @@ MCCreatedBy :> <<48>>
  IN {[operator |-> Nil, action |-> <<"user", "unassign-role">>, target |-> "user", id |-> <<55>>,
       detail |-> [before |-> row], before |-> row, request |-> Nil,
       key |-> Key(user_role, "DELETE", 500, 1), time |-> 80000]}

(* Entries nobody audits: another table, a statement marked as DDL, and one that is. *)
One      == << << <<>>, << <<id, <<55>>>> >> >> >>
Elsewhere == EntryOf(2, Header(audit_log, 600, 1), RowChange(1, 0, One))
Altered   == EntryOf(2, Header(user, 700, 1), RowChange(1, 1, One))
Query     == EntryOf(2, Header(user, 800, 1), RowChange(10, 0, <<>>))

Cut(b) == SubSeq(b, 1, Len(b) - 3)

Sound(value, rows) ==
  [value |-> value, sound |-> TRUE, rows |-> rows, edits |-> <<>>, security |-> {}]
Damaged(value)     == [Sound(value, {}) EXCEPT !.sound = FALSE]

(* The insert is delivered twice, in different company. *)
Binlog ==
  p1 :> << Sound(Packet(7, 1, <<Begin, Insert, Elsewhere, Altered, Query>>), InsertRows) >>
    @@ p2 :> << Sound(Packet(7, 0, <<Insert, Update, Delete>>),
                      InsertRows \cup UpdateRows \cup DeleteRows) >>

(* Messages that carry no entries, and messages that cannot be read. *)
Oddities ==
  {Sound(Packet(6, 9, <<>>), {}), Sound(<<>>, {}), Damaged(Packet(7, 1, <<Int32(1, 5)>>)),
   Damaged(V(8 * 2 + 3) \o <<0>>), Damaged(<<128, 128, 128, 128, 2>>)}

Alone(messages) == p1 :> messages @@ p2 :> << >>

-----------------------------------------------------------------------------
(* One message with the changes that three requests make of sys_user: administrator 1 *)
(* creates user 7, and two more requests concern that user.                           *)

Create == [Request("create", <<49>>, <<55>>, <<1>>) EXCEPT !.value = <<8>>]

Later(request) ==
  {ChangePasswordRequest(<<55>>, request, request, f) : f \in BOOLEAN}
    \cup {UpdateProfileRequest(<<55>>, request, request),
          [Request("update", <<50>>, <<55>>, request) EXCEPT !.value = request],
          Request("reset", <<50>>, <<55>>, request), Request("delete", <<50>>, <<55>>, request)}

Event(change) == IF change.before = Nil THEN 1 ELSE IF change.after = Nil THEN 3 ELSE 2

Cells(row) ==
  LET order == <<id, email, password, password_version, created_by, updated_by, request_id>>
  IN IF row = Nil THEN <<>> ELSE [i \in DOMAIN order |-> <<order[i], row[order[i]]>>]

KeyOf(change, i) == Key(user, EventName[Event(change)], 200 + i, 1)

EntryFor(change, i) ==
  EntryOf(2, Header(user, 200 + i, 5),
          RowChange(Event(change), 0, <<<<Cells(change.before), Cells(change.after)>>>>))

(* The row each change calls for: who stamped the user last, and what is to be seen of it. *)

Stamps(change) == change.of.kind \notin {"reset", "delete"}

LastStamp(binlog, i) == binlog[Max({j \in 1..i : Stamps(binlog[j])})].of

Shown(row) == IF row = Nil THEN Nil ELSE password :> stars @@ row

Difference(was, now, c) ==
  IF was[c] = now[c] THEN <<>> ELSE c :> [old |-> was[c], new |-> now[c]]

RowFor(binlog, i) ==
  LET was == Shown(binlog[i].before)
      now == Shown(binlog[i].after)
      event == Event(binlog[i])
  IN [operator |-> LastStamp(binlog, i).by[1] - 48,
      action |-> <<"user", <<"create", "update", "delete">>[event]>>, target |-> "user", id |-> <<55>>,
      detail |-> CASE event = 1 -> [after |-> now]
                   [] event = 2 -> [changed |-> Difference(was, now, email)
                                                  @@ Difference(was, now, password_version)]
                   [] event = 3 -> [before |-> was],
      before |-> was, request |-> LastStamp(binlog, i).request,
      key |-> KeyOf(binlog[i], i), time |-> 5]

Edits(binlog) == FoldLeftDomain(LAMBDA f, i : KeyOf(binlog[i], i) :> binlog[i].of @@ f, <<>>, binlog)

Edited(h) ==
  [value |-> Packet(7, 1, [i \in DOMAIN h.binlog |-> EntryFor(h.binlog[i], i)]), sound |-> TRUE,
   rows |-> {RowFor(h.binlog, i) : i \in DOMAIN h.binlog},
   edits |-> Edits(h.binlog), security |-> h.security]

Histories == {History(<<Create, r, s>>) : r \in Later(<<2>>), s \in Later(<<3>>)}

MCTopics ==
  {Alone(<<Edited(h)>>) : h \in Histories} \cup
  {Binlog,
   Alone(<<Damaged(Packet(7, 1, <<Delete, Cut(Delete)>>)), Sound(Packet(7, 1, <<Delete>>), DeleteRows)>>),
   Alone(<<Damaged(Packet(7, 2, <<Delete>>)), Damaged(Cut(Packet(7, 1, <<Delete>>)))>>)}
    \cup {Alone(<<m>>) : m \in Oddities}

=============================================================================
