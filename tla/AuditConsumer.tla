--------------------------- MODULE AuditConsumer ---------------------------
(***************************************************************************)
(* The audit consumers: processes of one Kafka consumer group that turn    *)
(* the binlog messages of Canal into rows of sys_audit_log, at least once  *)
(* per message, and rely on the unique dedup_key for exactly once.  A      *)
(* message that cannot be decoded goes to a dead-letter file instead.      *)
(*                                                                         *)
(* A consumer is at pc = "down", "fetch" (collecting a batch), "process"   *)
(* (building records, then inserting them) or "commit".  Each step is one  *)
(* call to Kafka or MySQL, or the handling of one message.                 *)
(*                                                                         *)
(* Simplifications: the group coordinator is external: it gives each       *)
(* partition to one running consumer, which resumes at the committed       *)
(* offset, and accepts a commit from any member; deadlines and back-offs   *)
(* only delay; a row whose event time is unknown keeps Nil for the time    *)
(* of its insertion; a dead letter is the message it names; all letters    *)
(* have the same size.                                                     *)
(***************************************************************************)
EXTENDS AuditMapping, FiniteSets

CONSTANTS
  Consumer, Partition,
  Topics,        \* what the topic may hold: partition -> sequence of [value, sound, rows]
  Configured,    \* config.yaml: [batch_size, max_files, max_size]
  MaxRowsPerStmt,
  MaxDay,        \* days the runs last
  Faults,        \* "insert", "letter", "trim", "commit": a call fails; "crash"
  MaxFaults,
  MaxRebalances, \* rebalances that nobody's absence calls for
  NoOne

applyDefaults(c) ==
  [batch_size |-> IF c.batch_size <= 0 THEN 500 ELSE c.batch_size,
   max_files  |-> IF c.max_files = 0 THEN 30 ELSE c.max_files,
   max_size   |-> IF c.max_size = 0 THEN 512 ELSE c.max_size]

Config == applyDefaults(Configured)

validate == Tables # <<>> /\ \A t \in DOMAIN Tables : Tables[t].target # "" /\ Tables[t].key # <<>>

ASSUME ConsumerAssumption ==
  /\ validate
  /\ Configured \in [batch_size : Int, max_files : Int, max_size : Int]
  /\ MaxRowsPerStmt \in Nat \ {0}
  /\ MaxDay \in Nat \ {0} /\ MaxFaults \in Nat /\ MaxRebalances \in Nat
  /\ NoOne \notin Consumer

VARIABLES
  topic,         \* the messages of each partition
  committed,     \* the group's offset of each partition: messages behind it
  owner,         \* who reads a partition
  position,      \* how many of its messages the owner has fetched
  con,           \* the state of each consumer
  audit,         \* sys_audit_log: dedup_key -> row
  files,         \* dead-letter files of each consumer: day -> letters
  day,
  faults, rebalances,
  reported       \* history: messages for which a dead letter was written

kafka == <<topic, committed, owner, position>>
vars  == <<topic, committed, owner, position, con, audit, files, day, faults, rebalances, reported>>

Day     == 1..MaxDay
Idle    == [pc |-> "fetch", batch |-> <<>>, built |-> 0, records |-> <<>>, sent |-> 0]
Down    == [Idle EXCEPT !.pc = "down"]
Running == {c \in Consumer : con[c].pc # "down"}

(* What each message of the topic is decoded to: a set of at most one sequence of records. *)
Values  == UNION {UNION {{t[p][o].value : o \in DOMAIN t[p]} : p \in Partition} : t \in Topics}
Decoded == [v \in Values |-> buildMessageRecords(v)]

RecordsOf(s) == Decoded[topic[s[1]][s[2]].value]

ASSUME TopicAssumption ==
  /\ \A t \in Topics : DOMAIN t = Partition /\ \A p \in Partition : t[p] \in Seq(Range(t[p]))
  /\ \A v \in Values : \A rs \in Decoded[v] : rs \in Seq(Range(rs))
  /\ \A v \in Values : \A flats \in decodeMessage(v) :
       /\ flats \in Seq(Range(flats))
       /\ \A f \in Range(flats) : f.type \in Range(EventName) /\ f.data \in Seq(Range(f.data))

Init ==
  /\ topic \in Topics
  /\ committed = [p \in Partition |-> 0]
  /\ owner = [p \in Partition |-> NoOne]
  /\ position = committed
  /\ con = [c \in Consumer |-> Down]
  /\ audit = <<>>
  /\ files = [c \in Consumer |-> <<>>]
  /\ day = 1
  /\ faults = 0 /\ rebalances = 0
  /\ reported = {}

Fault(kind) == kind \in Faults /\ faults < MaxFaults /\ faults' = faults + 1

-----------------------------------------------------------------------------
(* The process, and the group coordinator. *)

Start(c) ==
  /\ con[c].pc = "down"
  /\ con' = [con EXCEPT ![c] = Idle]
  /\ UNCHANGED <<kafka, audit, files, day, faults, rebalances, reported>>

(* A batch, and what was made of it, are lost with the process. *)
Crash(c) ==
  /\ con[c].pc # "down"
  /\ Fault("crash")
  /\ con' = [con EXCEPT ![c] = Down]
  /\ owner' = [p \in Partition |-> IF owner[p] = c THEN NoOne ELSE owner[p]]
  /\ UNCHANGED <<topic, committed, position, audit, files, day, rebalances, reported>>

Rebalance ==
  /\ Running # {}
  /\ IF \E p \in Partition : owner[p] = NoOne THEN UNCHANGED rebalances
     ELSE rebalances < MaxRebalances /\ rebalances' = rebalances + 1
  /\ owner' \in [Partition -> Running]
  /\ position' = committed
  /\ UNCHANGED <<topic, committed, con, audit, files, day, faults, reported>>

NextDay ==
  /\ day < MaxDay
  /\ day' = day + 1
  /\ UNCHANGED <<kafka, con, audit, files, faults, rebalances, reported>>

-----------------------------------------------------------------------------
(* fetchBatch: one message after the other, until the batch is full, the deadline *)
(* passes or a fetch fails.                                                       *)

FetchMessage(c, p) ==
  /\ con[c].pc = "fetch"
  /\ owner[p] = c
  /\ position[p] < Len(topic[p])
  /\ Len(con[c].batch) < Config.batch_size
  /\ position' = [position EXCEPT ![p] = @ + 1]
  /\ con' = [con EXCEPT ![c].batch = Append(@, <<p, position[p] + 1>>)]
  /\ UNCHANGED <<topic, committed, owner, audit, files, day, faults, rebalances, reported>>

CloseBatch(c) ==
  /\ con[c].pc = "fetch"
  /\ con[c].batch # <<>>
  /\ con' = [con EXCEPT ![c].pc = "process"]
  /\ UNCHANGED <<kafka, audit, files, day, faults, rebalances, reported>>

-----------------------------------------------------------------------------
(* Dead letters. *)

SizeOf(fs) == MapThenSumSet(LAMBDA d : Len(fs[d]), DOMAIN fs)

Fits(count, size) ==
  /\ Config.max_files <= 0 \/ count <= Config.max_files
  /\ Config.max_size <= 0 \/ size <= Config.max_size

(* Mutant: the files are visited from the newest to the oldest. *)
trimNewest(fs, stuck) ==
  LET loop[i \in 0..MaxDay] ==
        LET was == loop[i - 1]
            d   == MaxDay + 1 - i
        IN CASE i = 0 -> [left |-> DOMAIN fs, over |-> TRUE]
             [] i > 0 /\ (~was.over \/ d \notin DOMAIN fs) -> was
             [] OTHER ->
                  IF Fits(Cardinality({e \in DOMAIN fs : e <= d}), SizeOf(Restrict(fs, was.left)))
                  THEN [was EXCEPT !.over = FALSE]
                  ELSE [was EXCEPT !.left = @ \ ({d} \ ({day} \cup stuck))]
  IN Restrict(fs, loop[MaxDay].left)

(* The oldest files go until the rest fits.  Today's file stays, and so do those that *)
(* cannot be removed.  loop[d] is where the files up to day d have been visited.      *)
trim(fs, stuck) ==
  LET loop[d \in 0..MaxDay] ==
        LET was == loop[d - 1]
        IN CASE d = 0 -> [left |-> DOMAIN fs, over |-> TRUE]
             [] d > 0 /\ (~was.over \/ d \notin DOMAIN fs) -> was
             [] OTHER ->
                  IF Fits(Cardinality({e \in DOMAIN fs : e >= d}), SizeOf(Restrict(fs, was.left)))
                  THEN [was EXCEPT !.over = FALSE]
                  ELSE [was EXCEPT !.left = @ \ ({d} \ ({day} \cup stuck))]
  IN Restrict(fs, loop[MaxDay].left)

Letters(fs) == IF day \in DOMAIN fs THEN fs[day] ELSE <<>>

Opened(fs) == [d \in DOMAIN fs \cup {day} |-> IF d = day THEN Letters(fs) ELSE fs[d]]

WithLetter(fs, letter) == [Opened(fs) EXCEPT ![day] = Append(@, letter)]

-----------------------------------------------------------------------------
(* buildRecords: the next message of the batch. *)

Undecoded(c) ==
  /\ con[c].pc = "process"
  /\ con[c].built < Len(con[c].batch)
  /\ RecordsOf(con[c].batch[con[c].built + 1]) = {}

BuildMessage(c) ==
  /\ con[c].pc = "process"
  /\ con[c].built < Len(con[c].batch)
  /\ \E rs \in RecordsOf(con[c].batch[con[c].built + 1]) :
       con' = [con EXCEPT ![c].built = @ + 1, ![c].records = @ \o rs]
  /\ UNCHANGED <<kafka, audit, files, day, faults, rebalances, reported>>

WriteLetter(c) ==
  LET letter == con[c].batch[con[c].built + 1]
  IN /\ Undecoded(c)
     /\ \/ files' = [files EXCEPT ![c] = trim(WithLetter(@, letter), {})] /\ UNCHANGED faults
        \/ /\ Fault("trim")
           /\ \E d \in DOMAIN files[c] :
                files' = [files EXCEPT ![c] = trim(WithLetter(@, letter), {d})]
     /\ reported' = reported \cup {letter}
     /\ con' = [con EXCEPT ![c].built = @ + 1]
     /\ UNCHANGED <<kafka, audit, day, rebalances>>

(* Mutant: inserting resumes where it stopped. *)
AgainFromThere(c) == con' = [con EXCEPT ![c].built = 0, ![c].records = <<>>]

(* process failed: nothing is committed, and the batch is processed again from its start. *)
Again(c) == con' = [con EXCEPT ![c].built = 0, ![c].records = <<>>, ![c].sent = 0]

(* The file could not be opened, or written to, or closed after the line was in it. *)
LetterFails(c) ==
  LET letter == con[c].batch[con[c].built + 1]
  IN /\ Undecoded(c)
     /\ Fault("letter")
     /\ Again(c)
     /\ \/ UNCHANGED <<files, reported>>
        \/ files' = [files EXCEPT ![c] = Opened(@)] /\ UNCHANGED reported
        \/ /\ files' = [files EXCEPT ![c] = WithLetter(@, letter)]
           /\ reported' = reported \cup {letter}
     /\ UNCHANGED <<kafka, audit, day, rebalances>>

-----------------------------------------------------------------------------
(* BatchInsert: statements of at most MaxRowsPerStmt rows.  A row whose key is there *)
(* already changes nothing.                                                          *)

Built(c) == con[c].pc = "process" /\ con[c].built = Len(con[c].batch)

Chunk(c) ==
  SubSeq(con[c].records, con[c].sent + 1,
         IF con[c].sent + MaxRowsPerStmt < Len(con[c].records)
         THEN con[c].sent + MaxRowsPerStmt ELSE Len(con[c].records))

insertBatch(table, rows) ==
  LET First(k) == CHOOSE i \in DOMAIN rows :
                    rows[i].key = k /\ \A j \in DOMAIN rows : rows[j].key = k => i <= j
  IN [k \in DOMAIN table \cup {rows[i].key : i \in DOMAIN rows} |->
        IF k \in DOMAIN table THEN table[k] ELSE rows[First(k)]]

InsertChunk(c) ==
  /\ Built(c)
  /\ con[c].sent < Len(con[c].records)
  /\ audit' = insertBatch(audit, Chunk(c))
  /\ con' = [con EXCEPT ![c].sent = @ + Len(Chunk(c))]
  /\ UNCHANGED <<kafka, files, day, faults, rebalances, reported>>

(* Mutant: a failed statement is logged and the batch goes on. *)
InsertFailsUnnoticed(c) ==
  /\ Built(c)
  /\ con[c].sent < Len(con[c].records)
  /\ Fault("insert")
  /\ audit' \in {audit, insertBatch(audit, Chunk(c))}
  /\ con' = [con EXCEPT ![c].sent = @ + Len(Chunk(c))]
  /\ UNCHANGED <<kafka, files, day, rebalances, reported>>

(* The statement failed, or its answer was lost. *)
InsertFails(c) ==
  /\ Built(c)
  /\ con[c].sent < Len(con[c].records)
  /\ Fault("insert")
  /\ audit' \in {audit, insertBatch(audit, Chunk(c))}
  /\ Again(c)
  /\ UNCHANGED <<kafka, files, day, rebalances, reported>>

(* Mutant: a batch that made no records is not done. *)
ProcessedSome(c) ==
  /\ Built(c)
  /\ con[c].sent = Len(con[c].records) /\ con[c].sent > 0
  /\ con' = [con EXCEPT ![c].pc = "commit"]
  /\ UNCHANGED <<kafka, audit, files, day, faults, rebalances, reported>>

Processed(c) ==
  /\ Built(c)
  /\ con[c].sent = Len(con[c].records)
  /\ con' = [con EXCEPT ![c].pc = "commit"]
  /\ UNCHANGED <<kafka, audit, files, day, faults, rebalances, reported>>

(* The offset of each partition in the batch becomes that after its last message in it. *)
Offsets(c) ==
  LET batch == con[c].batch
      Of(p) == {batch[i][2] : i \in {i \in DOMAIN batch : batch[i][1] = p}}
  IN [p \in Partition |-> IF Of(p) = {} THEN committed[p] ELSE Max(Of(p))]

CommitMessages(c) ==
  /\ con[c].pc = "commit"
  /\ committed' = Offsets(c)
  /\ con' = [con EXCEPT ![c] = Idle]
  /\ UNCHANGED <<topic, owner, position, audit, files, day, faults, rebalances, reported>>

(* Only the commit is tried again. *)
CommitFails(c) ==
  /\ con[c].pc = "commit"
  /\ Fault("commit")
  /\ committed' \in {committed, Offsets(c)}
  /\ UNCHANGED <<topic, owner, position, con, audit, files, day, rebalances, reported>>

-----------------------------------------------------------------------------
Run(c) ==
  \/ Start(c)
  \/ \E p \in Partition : FetchMessage(c, p)
  \/ CloseBatch(c)
  \/ BuildMessage(c)
  \/ WriteLetter(c)
  \/ InsertChunk(c)
  \/ Processed(c)
  \/ CommitMessages(c)

Fails(c) == Crash(c) \/ LetterFails(c) \/ InsertFails(c) \/ CommitFails(c)

Next ==
  \/ \E c \in Consumer : Run(c) \/ Fails(c)
  \/ Rebalance
  \/ NextDay

Spec == Init /\ [][Next]_vars

(* A consumer's loop goes on, and the coordinator does not leave a partition unread. *)
FairSpec ==
  /\ Spec
  /\ \A c \in Consumer : WF_vars(Run(c))
  /\ WF_vars(Rebalance)

-----------------------------------------------------------------------------
(* Properties. *)

Slot == UNION {{<<p, o>> : o \in 1..Len(topic[p])} : p \in Partition}

(* A message is accounted for when a dead letter was written, or its rows are stored. *)
Accounted(s) ==
  \/ s \in reported
  \/ \E rs \in RecordsOf(s) :
       \A i \in DOMAIN rs : rs[i].key \in DOMAIN audit

(* The state of the group, of the consumers and of their files has the expected form; *)
(* a consumer is at most at the end of its batch and of its records (consumer.go:83). *)
AuditTypeOK ==
  /\ DOMAIN topic = Partition
  /\ \A p \in Partition : committed[p] \in 0..Len(topic[p]) /\ position[p] \in 0..Len(topic[p])
  /\ owner \in [Partition -> Consumer \cup {NoOne}]
  /\ \A c \in Consumer :
       /\ con[c].pc \in {"down", "fetch", "process", "commit"}
       /\ \A i \in DOMAIN con[c].batch : con[c].batch[i] \in Slot
       /\ Len(con[c].batch) <= Config.batch_size
       /\ con[c].built \in 0..Len(con[c].batch)
       /\ con[c].sent \in 0..Len(con[c].records)
       /\ DOMAIN files[c] \subseteq Day
  /\ \A k \in DOMAIN audit : audit[k].key = k
  /\ reported \subseteq Slot

(* No offset is committed past a message of which nothing was kept, whatever fails and *)
(* whoever owns the partition by then (consumer.go:163: offsets are committed only     *)
(* after the records are persisted; consumer.go:42: nor before a dead letter is).      *)
CommittedIsAccounted == \A p \in Partition : \A o \in 1..committed[p] : Accounted(<<p, o>>)

(* The consumers do what AuditTrail promises: the table shows exactly what the binlog    *)
(* changes say, each change once however often and in whatever grouping it is delivered, *)
(* and only damaged messages are set aside (consumer.go:2).                              *)
Trail == INSTANCE AuditTrail WITH
  log      <- {[id |-> s, sound |-> topic[s[1]][s[2]].sound, rows |-> topic[s[1]][s[2]].rows] :
                 s \in Slot},
  recorded <- {audit[k] : k \in DOMAIN audit},
  reported <- reported,
  acked    <- {s \in Slot : s[2] <= committed[s[1]]}

ImplementsTrail == Trail!Spec

(* The value of a secret column is not in the table, in any snapshot of any change *)
(* (sanitize.go:19, snapshot.go:15).                                               *)
Hidden(row) == row = Nil \/ \A c \in DOMAIN row \cap Masked : row[c] = Replacement

SecretsMasked ==
  \A k \in DOMAIN audit :
    LET r == audit[k]
    IN /\ Hidden(r.before)
       /\ \A part \in DOMAIN r.detail :
            IF part # "changed" THEN Hidden(r.detail[part])
            ELSE \A c \in DOMAIN r.detail.changed \cap Masked :
                   \A side \in DOMAIN r.detail.changed[c] :
                     r.detail.changed[c][side] = Replacement

(* A file is only removed when its turn comes in a directory that is over a limit even *)
(* without the older files that are gone by then; oldest first, and never today's, to  *)
(* which the letter of the moment went (deadletter.go:100-101).                        *)
OldestLettersGo ==
  [][\A c \in Consumer : \A d \in DOMAIN files[c] \ DOMAIN files'[c] :
       LET left  == DOMAIN files'[c]
           there == {e \in DOMAIN files[c] \cup left : e >= d \/ e \in left}
           dir   == [e \in there |-> IF e \in left THEN files'[c][e] ELSE files[c][e]]
       IN /\ d # day
          /\ \A e \in left : e < d => faults' > faults
          /\ ~Fits(Cardinality({e \in there : e >= d}), SizeOf(dir))
    ]_vars

(* Every message is accounted for in the end, through failures and restarts: what was *)
(* fetched is not dropped, and a damaged message holds nothing up (consumer.go:97,211). *)
EveryMessageAccounted == <>(\A s \in Slot : Accounted(s))

=============================================================================
