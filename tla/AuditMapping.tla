---------------------------- MODULE AuditMapping ----------------------------
(***************************************************************************)
(* How the audit consumer makes rows of sys_audit_log from a flat message: *)
(* one row per changed row of a mapped table, with its secrets masked and  *)
(* a key that is the same whenever the same change is delivered again.     *)
(*                                                                         *)
(* Simplifications: the JSON of a snapshot is the value it encodes; the    *)
(* SHA-256 of the key is the tuple it hashes; the layouts of time.Parse    *)
(* are the set TimeText of texts they accept.                              *)
(***************************************************************************)
EXTENDS CanalCodec

CONSTANTS
  Tables,        \* mapping: table -> [target, key, actions]
  Masked,        \* sanitize.fields: columns whose values are secret
  Replacement,   \* sanitize.replacement
  SourceID,      \* mysql.source_id
  TimeText,      \* texts that are times
  updated_by, created_by, request_id, create_time, update_time   \* names of columns

At(row, column) == IF column \in DOMAIN row THEN row[column] ELSE Nil

Row(row) == [c \in DOMAIN row |-> IF c \in Masked THEN Replacement ELSE row[c]]

-----------------------------------------------------------------------------
(* What the row of a change shows. *)

ignoredDiffColumns == {created_by, updated_by, request_id, create_time, update_time}

oldColumnsAt(flat, i) ==
  IF i > Len(flat.old) THEN <<>> ELSE IF flat.old[i] = Nil THEN <<>> ELSE flat.old[i]

rebuildBeforeRow(current, old) ==
  [c \in DOMAIN old \cup DOMAIN current |-> IF c \in DOMAIN old THEN old[c] ELSE current[c]]

diffChangedColumns(before, after) ==
  [c \in {c \in (DOMAIN before \cup DOMAIN after) \ ignoredDiffColumns :
            c \notin DOMAIN after \/ At(before, c) # At(after, c)} |->
     IF c \in DOMAIN after THEN [old |-> At(before, c), new |-> after[c]]
     ELSE [old |-> before[c]]]

(* Mutant: only the row as it is now is masked. *)
snapshotNowMasked(flat, i, row) ==
  LET before == rebuildBeforeRow(row, oldColumnsAt(flat, i))
      now    == Row(row)
  IN CASE flat.type = "INSERT" -> [detail |-> [after |-> now], before |-> Nil]
       [] flat.type = "UPDATE" ->
            [detail |-> [changed |-> diffChangedColumns(before, now)], before |-> before]
       [] flat.type = "DELETE" -> [detail |-> [before |-> now], before |-> now]

snapshot(flat, i, row) ==
  LET before == Row(rebuildBeforeRow(row, oldColumnsAt(flat, i)))
      now    == Row(row)
  IN CASE flat.type = "INSERT" -> [detail |-> [after |-> now], before |-> Nil]
       [] flat.type = "UPDATE" ->
            [detail |-> [changed |-> diffChangedColumns(before, now)], before |-> before]
       [] flat.type = "DELETE" -> [detail |-> [before |-> now], before |-> now]

-----------------------------------------------------------------------------
(* Who did it, what it is called, and when it happened. *)

positiveUint(v) ==
  IF v = Nil \/ v = <<>> THEN 0
  ELSE LET digits == \A i \in DOMAIN v : v[i] \in 48..57
           number == FoldLeft(LAMBDA n, d : 10 * n + d - 48, 0, v)
       IN IF digits THEN (IF number < 2 ^ WordBits THEN number ELSE 0) ELSE 0

pickOperator(row) ==
  LET by == IF positiveUint(At(row, updated_by)) # 0 THEN updated_by ELSE created_by
      n  == positiveUint(At(row, by))
  IN IF n # 0 THEN n ELSE Nil

(* The configured names of events are compared without regard to case. *)
actionName(table, type) ==
  LET t     == Tables[table]
      lower == [INSERT |-> "insert", UPDATE |-> "update", DELETE |-> "delete"][type]
      verb  == [INSERT |-> "create", UPDATE |-> "update", DELETE |-> "delete"][type]
  IN IF lower \in DOMAIN t.actions THEN t.actions[lower] ELSE <<t.target, verb>>

parseRowTime(v) == IF v \in TimeText THEN v ELSE Nil

eventTimeOf(flat, row) ==
  IF flat.header.time > 0 THEN flat.header.time
  ELSE parseRowTime(At(row, IF flat.type = "INSERT" THEN create_time ELSE update_time))

nonEmptyPtr(v) == IF v = <<>> THEN Nil ELSE v

dedupKey(flat, i) ==
  LET h == flat.header
  IN <<SourceID, h.schema, h.table, flat.type, h.gtid, h.file, h.pos, i>>

-----------------------------------------------------------------------------
(* The rows of a flat message, and of a decoded Kafka message. *)

buildRowRecord(flat, i) ==
  LET row  == flat.data[i]
      t    == Tables[flat.header.table]
      shot == snapshot(flat, i, row)
      key  == At(row, t.key)
  IN [operator |-> pickOperator(row), action |-> actionName(flat.header.table, flat.type),
      target |-> t.target, id |-> IF key = Nil THEN <<>> ELSE key,
      detail |-> shot.detail, before |-> shot.before,
      request |-> nonEmptyPtr(At(row, request_id)),
      key |-> dedupKey(flat, i), time |-> eventTimeOf(flat, row)]

(* A row without columns is left out, but counts in the keys of the rows after it. *)
Build(flat) ==
  IF flat.header.table \notin DOMAIN Tables THEN <<>>
  ELSE FlattenSeq([i \in DOMAIN flat.data |->
                     IF flat.data[i] = Nil THEN <<>> ELSE <<buildRowRecord(flat, i)>>])

isAuditable(flat) == ~flat.ddl

(* The records of a Kafka message: a set of at most one sequence, as for a decoder. *)
buildMessageRecords(value) ==
  {FlattenSeq([i \in DOMAIN flats |-> IF isAuditable(flats[i]) THEN Build(flats[i]) ELSE <<>>]) :
     flats \in decodeMessage(value)}

=============================================================================
