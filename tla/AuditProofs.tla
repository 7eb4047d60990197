---------------------------- MODULE AuditProofs ----------------------------
(***************************************************************************)
(* No offset is committed past a message of which nothing was kept, for    *)
(* any number of consumers, partitions, messages, faults and rebalances.   *)
(*                                                                         *)
(* The property says nothing of a batch in progress, which a rebalance may *)
(* have made stale: AuditInv adds that a consumer's batch reaches back, in *)
(* each partition, to what was accounted for already; that the same holds  *)
(* of what the owner of a partition has fetched; and what has become of    *)
(* the messages of a batch that were decoded and of the rows that were     *)
(* sent.  Decoding itself is not looked into: that it yields sequences is  *)
(* TopicAssumption.                                                        *)
(*                                                                         *)
(* From this the refinement of the trail follows, with what the rows show: *)
(* never a secret, and, by a second induction over the requests that made  *)
(* the changes, the request and the operator of each.                      *)
(***************************************************************************)
EXTENDS Provenance, TLAPS, WellFoundedInduction

\* The state of a consumer; S is whatever records it has built.
ConWith(S) ==
  [pc : {"down", "fetch", "process", "commit"}, batch : Seq(Partition \X Nat), built : Nat,
   records : Seq(S), sent : Nat]

Typed ==
  /\ topic \in Topics
  /\ committed \in [Partition -> Nat] /\ position \in [Partition -> Nat]
  /\ \A p \in Partition : committed[p] <= Len(topic[p]) /\ position[p] <= Len(topic[p])
  /\ DOMAIN owner = Partition
  /\ \E S : con \in [Consumer -> ConWith(S)]

Batched(c, s) == \E i \in 1 .. Len(con[c].batch) : con[c].batch[i] = s

\* The batch of c holds the message, if it is not accounted for.
Covered(c, p, o) == Accounted(<<p, o>>) \/ Batched(c, <<p, o>>)

Pending(c, k) == \E j \in 1 .. Len(con[c].records) : con[c].records[j].key = k

\* What was made of a message that was built.
Kept(c, s) ==
  \/ s \in reported
  \/ \E rs \in RecordsOf(s) : \A i \in DOMAIN rs : rs[i].key \in DOMAIN audit \/ Pending(c, rs[i].key)

\* What comes up to the message in its partition is accounted for, or in the batch.
Reached(c, s) ==
  /\ s[2] \in 1 .. Len(topic[s[1]])
  /\ \A o \in 1 .. s[2] : Covered(c, s[1], o)

BatchInv(c) ==
  /\ con[c].built <= Len(con[c].batch) /\ con[c].sent <= Len(con[c].records)
  /\ \A i \in 1 .. Len(con[c].batch) : Reached(c, con[c].batch[i])
  /\ \A i \in 1 .. con[c].built : Kept(c, con[c].batch[i])
  /\ \A j \in 1 .. con[c].sent : con[c].records[j].key \in DOMAIN audit
  /\ con[c].pc = "commit" => \A i \in 1 .. Len(con[c].batch) : Accounted(con[c].batch[i])
  /\ con[c].pc = "down" => con[c].batch = <<>>

OwnerInv ==
  \A p \in Partition : \A c \in Consumer :
    owner[p] = c => \A o \in 1 .. position[p] : Covered(c, p, o)

AuditInv == Typed /\ CommittedIsAccounted /\ OwnerInv /\ \A c \in Consumer : BatchInv(c)

-----------------------------------------------------------------------------
(* Data *)

LEMMA TopicFacts ==
  ASSUME Typed, NEW p \in Partition
  PROVE  /\ Len(topic[p]) \in Nat
         /\ \A o \in 1 .. Len(topic[p]) :
              \A rs \in RecordsOf(<<p, o>>) : rs \in Seq(Range(rs)) /\ DOMAIN rs = 1 .. Len(rs)
<1>1. topic \in Topics /\ DOMAIN topic = Partition /\ topic[p] \in Seq(Range(topic[p]))
  BY TopicAssumption DEF Typed
<1>2. Len(topic[p]) \in Nat /\ DOMAIN topic[p] = 1 .. Len(topic[p])
  BY <1>1
<1>3. ASSUME NEW o \in 1 .. Len(topic[p]), NEW rs \in RecordsOf(<<p, o>>)
      PROVE  rs \in Seq(Range(rs)) /\ DOMAIN rs = 1 .. Len(rs)
  <2>1. topic[p][o].value \in Values
    BY <1>1, <1>2 DEF Values
  <2>2. rs \in Decoded[topic[p][o].value]
    BY DEF RecordsOf
  <2>3. rs \in Seq(Range(rs))
    BY <2>1, <2>2, TopicAssumption
  <2> QED BY <2>3
<1> QED BY <1>2, <1>3

\* A set of numbers that is not empty has a least.
LEMMA Least ==
  ASSUME NEW T \in SUBSET Nat, T # {}
  PROVE  \E i \in T : \A j \in T : i <= j
<1>1. PICK i \in T : \A j \in T : ~(<<j, i>> \in OpToRel(<, Nat))
  BY WFMin, NatLessThanWellFounded
<1>2. \A j \in T : ~(j < i)
  BY <1>1 DEF OpToRel
<1> QED BY <1>2

\* A bounded set of numbers has a greatest.
LEMMA Greatest ==
  ASSUME NEW n \in Nat, NEW T \in SUBSET (0 .. n), T # {}
  PROVE  Max(T) \in T
<1> DEFINE D == {n - x : x \in T}
<1>1. \A x \in T : n - x \in Nat
  OBVIOUS
<1>2. D \in SUBSET Nat /\ D # {}
  BY <1>1
<1> HIDE DEF D
<1>3. PICK d \in D : \A e \in D : d <= e
  BY <1>2, Least
<1> USE DEF D
<1>4. PICK x \in T : d = n - x
  BY <1>3
<1>5. \A y \in T : x >= y
  <2> SUFFICES ASSUME NEW y \in T PROVE x >= y
    OBVIOUS
  <2>1. n - x <= n - y
    BY <1>3, <1>4
  <2>2. x \in Int /\ y \in Int
    OBVIOUS
  <2> QED BY <2>1, <2>2
<1> QED BY <1>5 DEF Max

-----------------------------------------------------------------------------
(* What is kept stays kept. *)

Growth == topic' = topic /\ reported \subseteq reported' /\ DOMAIN audit \subseteq DOMAIN audit'

LEMMA KeptStays == ASSUME Growth PROVE \A s : Accounted(s) => Accounted(s)'
<1> SUFFICES ASSUME NEW s, Accounted(s) PROVE Accounted(s)'
  OBVIOUS
<1>1. RecordsOf(s)' = RecordsOf(s)
  BY DEF Growth, RecordsOf
<1> QED BY <1>1 DEF Growth, Accounted

\* What was made of a message stays while the records of the batch do.
LEMMA StaysKept ==
  ASSUME Growth, NEW c, NEW s, con'[c].records = con[c].records, Kept(c, s)
  PROVE  Kept(c, s)'
<1>1. CASE s \in reported
  BY <1>1 DEF Kept, Growth
<1>2. ASSUME NEW rs \in RecordsOf(s),
             \A i \in DOMAIN rs : rs[i].key \in DOMAIN audit \/ Pending(c, rs[i].key)
      PROVE  Kept(c, s)'
  <2>1. RecordsOf(s)' = RecordsOf(s) /\ DOMAIN audit \subseteq DOMAIN audit'
    BY DEF RecordsOf, Growth
  <2>2. \A k : Pending(c, k) => Pending(c, k)'
    BY DEF Pending
  <2> QED BY <1>2, <2>1, <2>2 DEF Kept
<1> QED BY <1>1, <1>2 DEF Kept

LEMMA OthersKeep ==
  ASSUME Growth, NEW d \in Consumer, con'[d] = con[d]
  PROVE  /\ BatchInv(d) => BatchInv(d)'
         /\ \A p, o : Covered(d, p, o) => Covered(d, p, o)'
<1>1. \A p, o : Covered(d, p, o) => Covered(d, p, o)'
  BY KeptStays DEF Covered, Batched
<1>2. \A s : Kept(d, s) => Kept(d, s)'
  <2> SUFFICES ASSUME NEW s, Kept(d, s) PROVE Kept(d, s)'
    OBVIOUS
  <2>1. RecordsOf(s)' = RecordsOf(s)
    BY DEF Growth, RecordsOf
  <2>2. \A k : Pending(d, k) => Pending(d, k)'
    BY DEF Pending
  <2> QED BY <2>1, <2>2 DEF Growth, Kept
<1>3. ASSUME BatchInv(d) PROVE BatchInv(d)'
  <2>1. \A i \in 1 .. Len(con[d].batch) : Reached(d, con[d].batch[i])'
    BY <1>1, <1>3 DEF BatchInv, Growth, Reached
  <2>2. \A i \in 1 .. con[d].built : Kept(d, con[d].batch[i])'
    BY <1>2, <1>3 DEF BatchInv
  <2>3. \A j \in 1 .. con[d].sent : con[d].records[j].key \in DOMAIN audit'
    BY <1>3 DEF BatchInv, Growth
  <2>4. con[d].pc = "commit" => \A i \in 1 .. Len(con[d].batch) : Accounted(con[d].batch[i])'
    BY <1>3, KeptStays DEF BatchInv
  <2> QED BY <1>3, <2>1, <2>2, <2>3, <2>4 DEF BatchInv
<1> QED BY <1>1, <1>3

\* A step of one consumer that leaves the offsets alone.
LEMMA OwnStep ==
  ASSUME AuditInv, Typed', Growth, UNCHANGED <<committed, position>>, NEW c \in Consumer,
         \A p \in Partition : owner'[p] \in {owner[p], NoOne},
         \A d \in Consumer \ {c} : con'[d] = con[d], BatchInv(c)',
         \A p \in Partition : owner'[p] = c =>
           \A o : Covered(c, p, o) => Covered(c, p, o)'
  PROVE  AuditInv'
<1>1. CommittedIsAccounted'
  BY KeptStays DEF AuditInv, CommittedIsAccounted
<1>2. OwnerInv'
  <2> SUFFICES ASSUME NEW p \in Partition, NEW d \in Consumer, owner'[p] = d,
                      NEW o \in 1 .. position[p]
               PROVE  Covered(d, p, o)'
    BY DEF OwnerInv
  <2>1. owner[p] = d
    BY ConsumerAssumption
  <2>2. Covered(d, p, o)
    BY <2>1 DEF AuditInv, OwnerInv
  <2>3. CASE d = c
    BY <2>2, <2>3
  <2>4. CASE d # c
    BY <2>2, <2>4, OthersKeep
  <2> QED BY <2>3, <2>4
<1>3. \A d \in Consumer : BatchInv(d)'
  <2>1. \A d \in Consumer \ {c} : BatchInv(d)'
    BY OthersKeep DEF AuditInv
  <2> QED BY <2>1
<1> QED BY <1>1, <1>2, <1>3 DEF AuditInv

-----------------------------------------------------------------------------
(* Processing a batch *)

LEMMA EmptyFacts ==
  ASSUME NEW S
  PROVE  /\ Idle \in ConWith(S) /\ Down \in ConWith(S)
         /\ Idle.batch = <<>> /\ Down.batch = <<>> /\ Idle.built = 0 /\ Down.built = 0
         /\ Idle.sent = 0 /\ Down.sent = 0 /\ Idle.records = <<>> /\ Down.records = <<>>
         /\ Idle.pc = "fetch" /\ Down.pc = "down"
<1> DEFINE B == Partition \X Nat
<1>1. <<>> \in Seq(S) /\ <<>> \in Seq(B)
  OBVIOUS
<1> HIDE DEF B
<1>2. Idle \in ConWith(S)
  BY <1>1 DEF Idle, ConWith, B
<1>3. Down \in ConWith(S)
  BY <1>2 DEF Down, ConWith
<1>4. /\ Idle.batch = <<>> /\ Idle.built = 0 /\ Idle.sent = 0 /\ Idle.records = <<>>
      /\ Idle.pc = "fetch"
  BY DEF Idle
<1>5. /\ Down.batch = <<>> /\ Down.built = 0 /\ Down.sent = 0 /\ Down.records = <<>>
      /\ Down.pc = "down"
  BY <1>4 DEF Idle, Down
<1> QED BY <1>2, <1>3, <1>4, <1>5

\* A consumer that begins again has nothing that could be wrong.
LEMMA FreshBatch ==
  ASSUME NEW c \in Consumer, con'[c] = Idle \/ con'[c] = Down
  PROVE  BatchInv(c)'
BY EmptyFacts DEF BatchInv

LEMMA StartKeeps ==
  ASSUME AuditInv, NEW c \in Consumer, Start(c) \/ Crash(c)
  PROVE  AuditInv'
<1>1. /\ Growth /\ UNCHANGED <<committed, position>>
      /\ con' = [con EXCEPT ![c] = Idle] \/ con' = [con EXCEPT ![c] = Down]
      /\ owner' = owner \/ owner' = [p \in Partition |-> IF owner[p] = c THEN NoOne ELSE owner[p]]
  BY DEF Start, Crash, kafka, Growth, Fault
<1>2. PICK S : con \in [Consumer -> ConWith(S)]
  BY DEF AuditInv, Typed
<1>3. /\ Idle \in ConWith(S) /\ Down \in ConWith(S)
  BY EmptyFacts
<1>4. /\ con' \in [Consumer -> ConWith(S)]
      /\ con'[c] = Idle \/ con'[c] = Down
      /\ \A d \in Consumer \ {c} : con'[d] = con[d]
  <2>1. PICK x \in {Idle, Down} : con' = [con EXCEPT ![c] = x]
    BY <1>1
  <2>2. x \in ConWith(S)
    BY <1>3
  <2> QED BY <1>2, <2>1, <2>2
<1>5. Typed'
  BY <1>1, <1>4 DEF AuditInv, Typed, Growth
<1>6. BatchInv(c)'
  BY <1>4, FreshBatch
<1>7. \A p \in Partition : owner'[p] \in {owner[p], NoOne}
  BY <1>1 DEF AuditInv, Typed
<1>8. \A p \in Partition : owner'[p] = c => \A o : Covered(c, p, o) => Covered(c, p, o)'
  <2>1. CASE Start(c)
    <3>1. con[c].batch = <<>>
      BY <2>1 DEF Start, AuditInv, BatchInv
    <3>2. \A s : ~Batched(c, s)
      BY <3>1 DEF Batched
    <3> QED BY <1>1, <3>2, KeptStays DEF Covered
  <2>2. CASE Crash(c)
    BY <2>2, ConsumerAssumption DEF Crash
  <2> QED BY <2>1, <2>2
<1> QED BY <1>1, <1>4, <1>5, <1>6, <1>7, <1>8, OwnStep

LEMMA FetchKeeps ==
  ASSUME AuditInv, NEW c \in Consumer, NEW p \in Partition, FetchMessage(c, p)
  PROVE  AuditInv'
<1>1. PICK S : con \in [Consumer -> ConWith(S)]
  BY DEF AuditInv, Typed
<1>0. PICK s, b : s = <<p, position[p] + 1>> /\ b = con[c].batch
  OBVIOUS
<1>2. /\ position[p] \in Nat /\ position[p] < Len(topic[p]) /\ owner[p] = c
      /\ Len(topic[p]) \in Nat /\ b \in Seq(Partition \X Nat) /\ con[c].pc = "fetch"
  BY <1>0, <1>1, TopicFacts DEF AuditInv, Typed, FetchMessage, ConWith
<1>3. /\ s \in Partition \X Nat /\ s[1] = p /\ s[2] = position[p] + 1
      /\ s[2] \in 1 .. Len(topic[p])
  BY <1>0, <1>2
<1>4. /\ position' = [position EXCEPT ![p] = @ + 1]
      /\ con' = [con EXCEPT ![c].batch = Append(b, s)]
      /\ UNCHANGED <<topic, committed, owner, audit, reported>>
  BY <1>0 DEF FetchMessage
<1>5. Growth
  BY <1>4 DEF Growth
<1>6. /\ Append(b, s) \in Seq(Partition \X Nat) /\ Len(Append(b, s)) = Len(b) + 1
      /\ Len(b) \in Nat
      /\ \A i \in 1 .. Len(b) : Append(b, s)[i] = b[i]
      /\ Append(b, s)[Len(b) + 1] = s
  BY <1>2, <1>3
<1>7. /\ con' \in [Consumer -> ConWith(S)]
      /\ con'[c].batch = Append(b, s) /\ con'[c].pc = "fetch"
      /\ con'[c].built = con[c].built /\ con'[c].sent = con[c].sent
      /\ con'[c].records = con[c].records
      /\ \A d \in Consumer \ {c} : con'[d] = con[d]
  <2>1. PICK r : r = [con[c] EXCEPT !.batch = Append(b, s)]
    OBVIOUS
  <2>2. /\ r \in ConWith(S) /\ r.batch = Append(b, s) /\ r.pc = con[c].pc
        /\ r.built = con[c].built /\ r.sent = con[c].sent /\ r.records = con[c].records
    BY <1>1, <1>2, <1>6, <2>1 DEF ConWith
  <2>3. con' = [con EXCEPT ![c] = r]
    BY <1>1, <1>4, <2>1
  <2> QED BY <1>1, <1>2, <2>2, <2>3
<1>8. Typed'
  <2>1. position' \in [Partition -> Nat]
    BY <1>2, <1>4 DEF AuditInv, Typed
  <2>2. \A q \in Partition : position'[q] <= Len(topic[q])
    BY <1>2, <1>4 DEF AuditInv, Typed
  <2> QED BY <1>4, <1>7, <2>1, <2>2 DEF AuditInv, Typed
<1>9. \A x : Batched(c, x) => Batched(c, x)'
  BY <1>0, <1>6, <1>7 DEF Batched
<1>10. Batched(c, s)'
  <2>1. Len(b) + 1 \in 1 .. Len(con'[c].batch) /\ con'[c].batch[Len(b) + 1] = s
    BY <1>6, <1>7
  <2> QED BY <2>1 DEF Batched
<1>11. \A q, o : Covered(c, q, o) => Covered(c, q, o)'
  BY <1>5, <1>9, KeptStays DEF Covered
<1>12. \A o \in 1 .. s[2] : Covered(c, p, o)'
  <2>1. \A o \in 1 .. position[p] : Covered(c, p, o)'
    BY <1>2, <1>11 DEF AuditInv, OwnerInv
  <2>2. Covered(c, p, s[2])'
    <3>1. s = <<p, s[2]>>
      BY <1>0
    <3> QED BY <1>10, <3>1 DEF Covered
  <2> QED BY <1>2, <1>3, <2>1, <2>2
<1>13. BatchInv(c)'
  <2>1. BatchInv(c) /\ con[c].built \in Nat /\ con[c].sent \in Nat
    BY <1>1 DEF AuditInv, ConWith
  <2>2. ASSUME NEW i \in 1 .. Len(con'[c].batch) PROVE Reached(c, con[c].batch[i])'
    <3>1. PICK x : x = con'[c].batch[i]
      OBVIOUS
    <3>2. CASE i \in 1 .. Len(b)
      <4>1. x = con[c].batch[i] /\ i \in 1 .. Len(con[c].batch)
        BY <1>0, <1>6, <1>7, <3>1, <3>2
      <4>2. Reached(c, x)
        BY <2>1, <4>1 DEF BatchInv
      <4>3. Reached(c, x)'
        BY <1>4, <1>11, <4>2 DEF Reached
      <4> QED BY <3>1, <4>3
    <3>3. CASE i = Len(b) + 1
      <4>1. x = s
        BY <1>6, <1>7, <3>1, <3>3
      <4>2. Reached(c, x)'
        BY <1>3, <1>4, <1>12, <4>1 DEF Reached
      <4> QED BY <3>1, <4>2
    <3>4. i \in 1 .. Len(b) \/ i = Len(b) + 1
      BY <1>6, <1>7
    <3> QED BY <3>2, <3>3, <3>4
  <2>3. ASSUME NEW i \in 1 .. con'[c].built PROVE Kept(c, con[c].batch[i])'
    <3>1. PICK x : x = con'[c].batch[i]
      OBVIOUS
    <3>2. Kept(c, x)
      <4>1. i \in 1 .. con[c].built /\ con[c].built <= Len(b) /\ b = con[c].batch
        BY <1>0, <1>6, <1>7, <2>1 DEF BatchInv
      <4>2. i \in 1 .. Len(b)
        <5>1. con[c].built \in Nat
          BY <1>1 DEF ConWith
        <5> QED BY <1>6, <4>1, <5>1
      <4>3. x = con[c].batch[i]
        BY <1>6, <1>7, <3>1, <4>1, <4>2
      <4> QED BY <2>1, <4>1, <4>3 DEF BatchInv
    <3>3. Kept(c, x)'
      BY <1>5, <1>7, <3>2, StaysKept
    <3> QED BY <3>1, <3>3
  <2>4. con'[c].built <= Len(con'[c].batch)
    BY <1>0, <1>6, <1>7, <2>1 DEF BatchInv
  <2>5. con'[c].sent <= Len(con'[c].records)
        /\ \A j \in 1 .. con'[c].sent : con'[c].records[j].key \in DOMAIN audit'
    BY <1>4, <1>7, <2>1 DEF BatchInv
  <2> QED BY <1>7, <2>2, <2>3, <2>4, <2>5 DEF BatchInv
<1>14. CommittedIsAccounted'
  BY <1>4, <1>5, KeptStays DEF AuditInv, CommittedIsAccounted
<1>15. OwnerInv'
  <2> SUFFICES ASSUME NEW q \in Partition, NEW d \in Consumer, owner'[q] = d,
                      NEW o \in 1 .. position'[q]
               PROVE  Covered(d, q, o)'
    BY DEF OwnerInv
  <2>1. CASE q = p
    <3>1. d = c /\ position'[q] = s[2]
      BY <1>2, <1>3, <1>4, <2>1 DEF AuditInv, Typed
    <3> QED BY <1>12, <2>1, <3>1
  <2>2. CASE q # p
    <3>1. position'[q] = position[q] /\ owner[q] = d
      BY <1>4, <2>2 DEF AuditInv, Typed
    <3>2. Covered(d, q, o)
      BY <3>1 DEF AuditInv, OwnerInv
    <3>3. CASE d = c
      BY <1>11, <3>2, <3>3
    <3>4. CASE d # c
      BY <1>5, <1>7, <3>2, <3>4, OthersKeep
    <3> QED BY <3>3, <3>4
  <2> QED BY <2>1, <2>2
<1>16. \A d \in Consumer : BatchInv(d)'
  <2>1. \A d \in Consumer \ {c} : BatchInv(d)'
    BY <1>5, <1>7, OthersKeep DEF AuditInv
  <2> QED BY <1>13, <2>1
<1> QED BY <1>8, <1>14, <1>15, <1>16 DEF AuditInv

\* A step of a consumer on the batch it has.
LEMMA SameBatch ==
  ASSUME AuditInv, NEW c \in Consumer, NEW S, con \in [Consumer -> ConWith(S)],
         NEW r \in ConWith(S), con' = [con EXCEPT ![c] = r], NEW b, b = con[c].batch, r.batch = b,
         Growth, UNCHANGED <<committed, position, owner>>,
         r.built <= Len(b), r.sent <= Len(r.records), r.pc # "down",
         \A i \in 1 .. r.built : Kept(c, b[i])',
         \A j \in 1 .. r.sent : r.records[j].key \in DOMAIN audit',
         r.pc = "commit" => \A i \in 1 .. Len(b) : Accounted(b[i])'
  PROVE  AuditInv'
<1>1. /\ con' \in [Consumer -> ConWith(S)] /\ con'[c] = r
      /\ \A d \in Consumer \ {c} : con'[d] = con[d]
  OBVIOUS
<1>2. Typed'
  BY <1>1 DEF AuditInv, Typed, Growth
<1>3. \A p, o : Covered(c, p, o) => Covered(c, p, o)'
  BY <1>1, KeptStays DEF Covered, Batched
<1>4. BatchInv(c)'
  <2>1. ASSUME NEW i \in 1 .. Len(con'[c].batch) PROVE Reached(c, con[c].batch[i])'
    <3>1. PICK x : x = con'[c].batch[i]
      OBVIOUS
    <3>2. Reached(c, x)
      BY <1>1, <3>1 DEF AuditInv, BatchInv
    <3>3. Reached(c, x)'
      BY <1>3, <3>2 DEF Reached, Growth
    <3> QED BY <3>1, <3>3
  <2>2. ASSUME NEW i \in 1 .. con'[c].built PROVE Kept(c, con[c].batch[i])'
    BY <1>1
  <2>3. con'[c].pc = "commit" => \A i \in 1 .. Len(con'[c].batch) : Accounted(con[c].batch[i])'
    <3> SUFFICES ASSUME con'[c].pc = "commit", NEW i \in 1 .. Len(con'[c].batch)
                 PROVE  Accounted(con[c].batch[i])'
      OBVIOUS
    <3>1. PICK x : x = con'[c].batch[i]
      OBVIOUS
    <3>2. Accounted(x)'
      BY <1>1, <3>1
    <3> QED BY <3>1, <3>2
  <2> QED BY <1>1, <2>1, <2>2, <2>3 DEF BatchInv
<1>5. \A p \in Partition : owner'[p] \in {owner[p], NoOne}
  OBVIOUS
<1> QED BY <1>1, <1>2, <1>3, <1>4, <1>5, OwnStep

\* What a running consumer is known to have.
LEMMA BatchFacts ==
  ASSUME AuditInv, NEW c \in Consumer
  PROVE  \E S : /\ con \in [Consumer -> ConWith(S)]
               /\ con[c] \in ConWith(S) /\ Len(con[c].batch) \in Nat /\ Len(con[c].records) \in Nat
               /\ con[c].built \in Nat /\ con[c].sent \in Nat /\ BatchInv(c)
<1>1. PICK S : con \in [Consumer -> ConWith(S)]
  BY DEF AuditInv, Typed
<1>2. con[c] \in ConWith(S)
  BY <1>1
<1>3. /\ con[c].batch \in Seq(Partition \X Nat) /\ con[c].records \in Seq(S)
      /\ con[c].built \in Nat /\ con[c].sent \in Nat
  BY <1>2 DEF ConWith
<1>4. Len(con[c].batch) \in Nat /\ Len(con[c].records) \in Nat
  BY <1>3
<1> QED BY <1>1, <1>2, <1>3, <1>4 DEF AuditInv

LEMMA CloseKeeps ==
  ASSUME AuditInv, NEW c \in Consumer, CloseBatch(c)
  PROVE  AuditInv'
<1>1. PICK S : /\ con \in [Consumer -> ConWith(S)] /\ con[c] \in ConWith(S)
               /\ con[c].built \in Nat /\ con[c].sent \in Nat /\ BatchInv(c)
  BY BatchFacts
<1>2. PICK r, b : r = [con[c] EXCEPT !.pc = "process"] /\ b = con[c].batch
  OBVIOUS
<1>3. /\ r \in ConWith(S) /\ r.batch = b /\ r.pc = "process"
      /\ r.built = con[c].built /\ r.sent = con[c].sent /\ r.records = con[c].records
  BY <1>1, <1>2 DEF ConWith
<1>4. /\ con' = [con EXCEPT ![c] = r] /\ Growth /\ UNCHANGED <<committed, position, owner, audit>>
  BY <1>1, <1>2 DEF CloseBatch, kafka, Growth
<1>5. con'[c] = r
  BY <1>1, <1>4
<1>6. \A i \in 1 .. r.built : Kept(c, b[i])'
  <2> SUFFICES ASSUME NEW i \in 1 .. r.built PROVE Kept(c, b[i])'
    OBVIOUS
  <2>1. Kept(c, b[i])
    BY <1>1, <1>2, <1>3 DEF BatchInv
  <2>2. con'[c].records = con[c].records
    BY <1>3, <1>5
  <2> QED BY <1>4, <2>1, <2>2, StaysKept
<1> QED BY <1>1, <1>2, <1>3, <1>4, <1>6, SameBatch DEF BatchInv

LEMMA BuildKeeps ==
  ASSUME AuditInv, NEW c \in Consumer, BuildMessage(c)
  PROVE  AuditInv'
<1>1. PICK S : /\ con \in [Consumer -> ConWith(S)] /\ con[c] \in ConWith(S)
               /\ con[c].built \in Nat /\ con[c].sent \in Nat /\ BatchInv(c)
               /\ Len(con[c].batch) \in Nat
  BY BatchFacts
<1>2. PICK b, n : b = con[c].batch /\ n = con[c].built + 1
  OBVIOUS
<1>3. PICK rs \in RecordsOf(b[n]) : con' = [con EXCEPT ![c].built = n, ![c].records = @ \o rs]
  BY <1>2 DEF BuildMessage
<1>4. n \in 1 .. Len(b) /\ con[c].pc = "process"
  BY <1>1, <1>2 DEF BuildMessage
<1>5. rs \in Seq(Range(rs)) /\ DOMAIN rs = 1 .. Len(rs)
  <2>1. PICK x : x = b[n] /\ x \in Partition \X Nat
    <3>1. b \in Seq(Partition \X Nat)
      BY <1>1, <1>2 DEF ConWith
    <3> QED BY <1>4, <3>1
  <2>2. x[2] \in 1 .. Len(topic[x[1]])
    BY <1>1, <1>2, <1>4, <2>1 DEF BatchInv, Reached
  <2>3. x = <<x[1], x[2]>> /\ x[1] \in Partition
    BY <2>1
  <2> QED BY <1>3, <2>1, <2>2, <2>3, TopicFacts DEF AuditInv
<1>6. PICK T, old, all : T = S \cup Range(rs) /\ old = con[c].records /\ all = old \o rs
  OBVIOUS
<1>7. /\ all \in Seq(T) /\ Len(all) = Len(old) + Len(rs) /\ Len(old) \in Nat /\ Len(rs) \in Nat
      /\ \A j \in 1 .. Len(old) : all[j] = old[j]
      /\ \A j \in 1 .. Len(rs) : all[Len(old) + j] = rs[j]
  <2>1. old \in Seq(S)
    BY <1>1, <1>6 DEF ConWith
  <2> QED BY <1>5, <1>6, <2>1
<1>8. PICK r : r = [con[c] EXCEPT !.built = n, !.records = all]
  OBVIOUS
<1>9. \A q \in ConWith(S) : q \in ConWith(T)
  BY <1>6 DEF ConWith
<1>10. con \in [Consumer -> ConWith(T)]
  BY <1>1, <1>9
<1>11. /\ r \in ConWith(T) /\ r.batch = b /\ r.pc = "process" /\ r.built = n
       /\ r.sent = con[c].sent /\ r.records = all
  <2>1. con[c] \in ConWith(T) /\ n \in Nat
    BY <1>1, <1>2, <1>9
  <2> QED BY <1>2, <1>4, <1>7, <1>8, <2>1 DEF ConWith
<1>12. /\ con' = [con EXCEPT ![c] = r] /\ Growth
       /\ UNCHANGED <<committed, position, owner, audit, reported>>
  BY <1>1, <1>3, <1>6, <1>8 DEF BuildMessage, kafka, Growth
<1>13. con'[c].records = all
  BY <1>10, <1>11, <1>12
<1>14. \A i \in 1 .. r.built : Kept(c, b[i])'
  <2> SUFFICES ASSUME NEW i \in 1 .. n PROVE Kept(c, b[i])'
    BY <1>11
  <2>0. PICK x : x = b[i]
    OBVIOUS
  <2>1. RecordsOf(x)' = RecordsOf(x)
    BY <1>12 DEF Growth, RecordsOf
  <2>2. CASE i # n
    <3>1. Kept(c, x)
      BY <1>1, <1>2, <2>0, <2>2 DEF BatchInv
    <3>2. \A k : Pending(c, k) => Pending(c, k)'
      BY <1>6, <1>7, <1>13 DEF Pending
    <3>3. Kept(c, x)'
      BY <1>12, <2>1, <3>1, <3>2 DEF Kept
    <3> QED BY <2>0, <3>3
  <2>3. CASE i = n
    <3>1. \A j \in DOMAIN rs : Pending(c, rs[j].key)'
      <4> SUFFICES ASSUME NEW j \in 1 .. Len(rs) PROVE Pending(c, rs[j].key)'
        BY <1>5
      <4>1. j \in 1 .. Len(rs) /\ Len(rs) \in Nat /\ Len(old) \in Nat
        BY <1>7
      <4>2. PICK m \in Nat : m = Len(old) + j
        BY <4>1
      <4>3. m \in 1 .. Len(all)
        BY <1>7, <4>1, <4>2
      <4>4. all[m].key = rs[j].key
        BY <1>7, <4>2
      <4> QED BY <1>13, <4>3, <4>4 DEF Pending
    <3>2. Kept(c, x)'
      BY <1>3, <2>0, <2>1, <2>3, <3>1 DEF Kept
    <3> QED BY <2>0, <3>2
  <2> QED BY <2>2, <2>3
<1>15. \A j \in 1 .. r.sent : r.records[j].key \in DOMAIN audit'
  BY <1>1, <1>6, <1>7, <1>11, <1>12 DEF BatchInv
<1>16. r.sent <= Len(r.records) /\ r.built <= Len(b)
  BY <1>1, <1>4, <1>6, <1>7, <1>11 DEF BatchInv
<1> QED BY <1>2, <1>10, <1>11, <1>12, <1>14, <1>15, <1>16, SameBatch

LEMMA LetterKeeps ==
  ASSUME AuditInv, NEW c \in Consumer, WriteLetter(c)
  PROVE  AuditInv'
<1>1. PICK S : /\ con \in [Consumer -> ConWith(S)] /\ con[c] \in ConWith(S)
               /\ con[c].built \in Nat /\ con[c].sent \in Nat /\ BatchInv(c)
               /\ Len(con[c].batch) \in Nat
  BY BatchFacts
<1>2. PICK b, n : b = con[c].batch /\ n = con[c].built + 1
  OBVIOUS
<1>3. PICK r : r = [con[c] EXCEPT !.built = n]
  OBVIOUS
<1>4. n \in 1 .. Len(b) /\ con[c].pc = "process"
  BY <1>1, <1>2 DEF WriteLetter, Undecoded
<1>5. /\ r \in ConWith(S) /\ r.batch = b /\ r.pc = "process" /\ r.built = n
      /\ r.sent = con[c].sent /\ r.records = con[c].records
  <2>1. n \in Nat
    BY <1>1, <1>2
  <2> QED BY <1>1, <1>2, <1>3, <1>4, <2>1 DEF ConWith
<1>6. /\ con' = [con EXCEPT ![c] = r] /\ Growth
      /\ UNCHANGED <<committed, position, owner, audit>> /\ b[n] \in reported'
  BY <1>1, <1>2, <1>3 DEF WriteLetter, kafka, Growth
<1>7. con'[c].records = con[c].records
  BY <1>1, <1>5, <1>6
<1>8. \A i \in 1 .. r.built : Kept(c, b[i])'
  <2> SUFFICES ASSUME NEW i \in 1 .. n PROVE Kept(c, b[i])'
    BY <1>5
  <2>1. PICK x : x = b[i]
    OBVIOUS
  <2>2. CASE i # n
    <3>1. Kept(c, x)
      BY <1>1, <1>2, <2>1, <2>2 DEF BatchInv
    <3>2. Kept(c, x)'
      BY <1>6, <1>7, <3>1, StaysKept
    <3> QED BY <2>1, <3>2
  <2>3. CASE i = n
    <3>1. Kept(c, x)'
      BY <1>6, <2>1, <2>3 DEF Kept
    <3> QED BY <2>1, <3>1
  <2> QED BY <2>2, <2>3
<1>9. /\ r.built <= Len(b) /\ r.sent <= Len(r.records) /\ r.pc # "commit" /\ r.pc # "down"
      /\ \A j \in 1 .. r.sent : r.records[j].key \in DOMAIN audit'
  BY <1>1, <1>2, <1>4, <1>5, <1>6 DEF BatchInv
<1> QED BY <1>1, <1>2, <1>5, <1>6, <1>8, <1>9, SameBatch

\* After any failure the batch is there still, and nothing of it done.
LEMMA FailureKeeps ==
  ASSUME AuditInv, NEW c \in Consumer, LetterFails(c) \/ InsertFails(c)
  PROVE  AuditInv'
<1>1. PICK S : /\ con \in [Consumer -> ConWith(S)] /\ con[c] \in ConWith(S)
               /\ Len(con[c].batch) \in Nat
  BY BatchFacts
<1>2. PICK r, b : /\ r = [con[c] EXCEPT !.built = 0, !.records = <<>>, !.sent = 0]
                  /\ b = con[c].batch
  OBVIOUS
<1>3. /\ r \in ConWith(S) /\ r.batch = b /\ r.pc = con[c].pc /\ r.built = 0 /\ r.sent = 0
      /\ r.records = <<>>
  <2>1. <<>> \in Seq(S)
    OBVIOUS
  <2> QED BY <1>1, <1>2, <2>1 DEF ConWith
<1>4. con[c].pc = "process"
  BY DEF LetterFails, InsertFails, Undecoded, Built
<1>5. Again(c) /\ Growth /\ UNCHANGED <<committed, position, owner>>
  <2>1. CASE LetterFails(c)
    BY <2>1 DEF LetterFails, kafka, Growth
  <2>2. CASE InsertFails(c)
    <3>1. \A t, rows : DOMAIN t \subseteq DOMAIN insertBatch(t, rows)
      BY DEF insertBatch
    <3> QED BY <2>2, <3>1 DEF InsertFails, kafka, Growth
  <2> QED BY <2>1, <2>2
<1>6. con' = [con EXCEPT ![c] = r]
  BY <1>1, <1>2, <1>5 DEF Again
<1>7. /\ r.built <= Len(b) /\ r.sent <= Len(r.records) /\ r.pc # "commit" /\ r.pc # "down"
      /\ \A i \in 1 .. r.built : Kept(c, b[i])'
      /\ \A j \in 1 .. r.sent : r.records[j].key \in DOMAIN audit'
  BY <1>1, <1>2, <1>3, <1>4
<1> QED BY <1>1, <1>2, <1>3, <1>5, <1>6, <1>7, SameBatch

LEMMA InsertKeeps ==
  ASSUME AuditInv, NEW c \in Consumer, InsertChunk(c)
  PROVE  AuditInv'
<1>1. PICK S : /\ con \in [Consumer -> ConWith(S)] /\ con[c] \in ConWith(S)
               /\ con[c].built \in Nat /\ con[c].sent \in Nat /\ BatchInv(c)
               /\ Len(con[c].batch) \in Nat /\ Len(con[c].records) \in Nat
  BY BatchFacts
<1>2. PICK b, n, all, m :
        /\ b = con[c].batch /\ n = con[c].sent /\ all = con[c].records
        /\ m = (IF n + MaxRowsPerStmt < Len(all) THEN n + MaxRowsPerStmt ELSE Len(all))
  OBVIOUS
<1>3. /\ all \in Seq(S) /\ n \in Nat /\ n < Len(all) /\ m \in n + 1 .. Len(all)
      /\ con[c].pc = "process"
  BY <1>1, <1>2, ConsumerAssumption DEF ConWith, InsertChunk, Built
<1>4. /\ Chunk(c) = SubSeq(all, n + 1, m)
      /\ Len(Chunk(c)) = m - n /\ \A j \in n + 1 .. m : Chunk(c)[j - n] = all[j]
  <2>1. Chunk(c) = SubSeq(all, n + 1, m)
    BY <1>2 DEF Chunk
  <2> QED BY <1>3, <2>1
<1>5. PICK r : r = [con[c] EXCEPT !.sent = m]
  OBVIOUS
<1>6. /\ r \in ConWith(S) /\ r.batch = b /\ r.pc = "process" /\ r.built = con[c].built
      /\ r.sent = m /\ r.records = all
  <2>1. m \in Nat
    BY <1>3
  <2> QED BY <1>1, <1>2, <1>3, <1>5, <2>1 DEF ConWith
<1>7. DOMAIN audit' = DOMAIN audit \cup {Chunk(c)[i].key : i \in DOMAIN Chunk(c)}
  BY DEF InsertChunk, insertBatch
<1>8. /\ con' = [con EXCEPT ![c] = r] /\ Growth
      /\ UNCHANGED <<committed, position, owner>>
  <2>1. m = con[c].sent + Len(Chunk(c))
    BY <1>2, <1>3, <1>4
  <2>2. con' = [con EXCEPT ![c] = r]
    BY <1>1, <1>5, <2>1 DEF InsertChunk
  <2> QED BY <1>7, <2>2 DEF InsertChunk, kafka, Growth
<1>9. con'[c].records = all
  BY <1>1, <1>6, <1>8
<1>10. \A i \in 1 .. r.built : Kept(c, b[i])'
  <2> SUFFICES ASSUME NEW i \in 1 .. r.built PROVE Kept(c, b[i])'
    OBVIOUS
  <2>1. PICK x : x = b[i]
    OBVIOUS
  <2>2. Kept(c, x)
    BY <1>1, <1>2, <1>6, <2>1 DEF BatchInv
  <2>3. Kept(c, x)'
    BY <1>2, <1>8, <1>9, <2>2, StaysKept
  <2> QED BY <2>1, <2>3
<1>11. \A j \in 1 .. m : all[j].key \in DOMAIN audit'
  <2> SUFFICES ASSUME NEW j \in 1 .. m PROVE all[j].key \in DOMAIN audit'
    OBVIOUS
  <2>1. CASE j \in 1 .. n
    BY <1>1, <1>2, <1>7, <2>1 DEF BatchInv
  <2>2. CASE j \in n + 1 .. m
    <3>1. /\ DOMAIN Chunk(c) = 1 .. Len(Chunk(c)) /\ j - n \in 1 .. Len(Chunk(c))
          /\ Chunk(c)[j - n] = all[j]
      BY <1>3, <1>4, <2>2
    <3> QED BY <1>7, <3>1
  <2> QED BY <1>3, <2>1, <2>2
<1>12. r.built <= Len(b) /\ r.sent <= Len(r.records)
  BY <1>1, <1>2, <1>3, <1>6 DEF BatchInv
<1> QED BY <1>1, <1>2, <1>6, <1>8, <1>10, <1>11, <1>12, SameBatch

\* When the last row is stored, the whole batch is accounted for.
LEMMA ProcessedKeeps ==
  ASSUME AuditInv, NEW c \in Consumer, Processed(c)
  PROVE  AuditInv'
<1>1. PICK S : /\ con \in [Consumer -> ConWith(S)] /\ con[c] \in ConWith(S)
               /\ con[c].built \in Nat /\ con[c].sent \in Nat /\ BatchInv(c)
               /\ Len(con[c].batch) \in Nat /\ Len(con[c].records) \in Nat
  BY BatchFacts
<1>2. PICK r, b : r = [con[c] EXCEPT !.pc = "commit"] /\ b = con[c].batch
  OBVIOUS
<1>3. /\ r \in ConWith(S) /\ r.batch = b /\ r.pc = "commit"
      /\ r.built = con[c].built /\ r.sent = con[c].sent /\ r.records = con[c].records
      /\ con[c].built = Len(b) /\ con[c].sent = Len(con[c].records)
  BY <1>1, <1>2 DEF ConWith, Processed, Built
<1>4. /\ con' = [con EXCEPT ![c] = r] /\ Growth
      /\ UNCHANGED <<committed, position, owner, audit, topic, reported>>
  BY <1>1, <1>2 DEF Processed, kafka, Growth
<1>5. con'[c].records = con[c].records
  BY <1>1, <1>3, <1>4
<1>6. \A k : Pending(c, k) => k \in DOMAIN audit
  BY <1>1, <1>3 DEF BatchInv, Pending
<1>7. \A i \in 1 .. Len(b) : Kept(c, b[i])' /\ Accounted(b[i])'
  <2> SUFFICES ASSUME NEW i \in 1 .. Len(b) PROVE Kept(c, b[i])' /\ Accounted(b[i])'
    OBVIOUS
  <2>1. PICK x : x = b[i]
    OBVIOUS
  <2>2. Kept(c, x)
    BY <1>1, <1>2, <1>3, <2>1 DEF BatchInv
  <2>3. Kept(c, x)'
    BY <1>4, <1>5, <2>2, StaysKept
  <2>4. Accounted(x)
    BY <1>6, <2>2 DEF Kept, Accounted
  <2>5. Accounted(x)'
    BY <1>4, <2>4, KeptStays
  <2> QED BY <2>1, <2>3, <2>5
<1>8. /\ r.built <= Len(b) /\ r.sent <= Len(r.records) /\ r.pc # "down"
      /\ \A j \in 1 .. r.sent : r.records[j].key \in DOMAIN audit'
      /\ \A i \in 1 .. r.built : Kept(c, b[i])'
  BY <1>1, <1>2, <1>3, <1>4, <1>7 DEF BatchInv
<1> QED BY <1>1, <1>2, <1>3, <1>4, <1>7, <1>8, SameBatch

-----------------------------------------------------------------------------
(* Committing *)

LEMMA OffsetsAreAccounted ==
  ASSUME AuditInv, NEW c \in Consumer, con[c].pc = "commit"
  PROVE  /\ Offsets(c) \in [Partition -> Nat]
         /\ \A p \in Partition : Offsets(c)[p] <= Len(topic[p])
                               /\ \A o \in 1 .. Offsets(c)[p] : Accounted(<<p, o>>)
<1>1. PICK S : con[c] \in ConWith(S) /\ Len(con[c].batch) \in Nat /\ BatchInv(c)
  BY BatchFacts
<1>2. PICK b : b = con[c].batch
  OBVIOUS
<1>3. b \in Seq(Partition \X Nat) /\ DOMAIN b = 1 .. Len(b)
  BY <1>1, <1>2 DEF ConWith
<1> DEFINE Of(p) == {b[i][2] : i \in {i \in DOMAIN b : b[i][1] = p}}
           N(p) == IF Of(p) = {} THEN committed[p] ELSE Max(Of(p))
<1>4. Offsets(c) = [p \in Partition |-> N(p)]
  BY <1>2 DEF Offsets
<1>5. ASSUME NEW p \in Partition
      PROVE  N(p) \in Nat /\ N(p) <= Len(topic[p]) /\ \A o \in 1 .. N(p) : Accounted(<<p, o>>)
  <2>1. CASE Of(p) = {}
    BY <2>1 DEF AuditInv, Typed, CommittedIsAccounted
  <2>2. CASE Of(p) # {}
    <3>1. \A i \in DOMAIN b : Reached(c, b[i])
      BY <1>1, <1>2, <1>3 DEF BatchInv
    <3>2. Len(topic[p]) \in Nat
      BY TopicFacts DEF AuditInv
    <3>3. Of(p) \subseteq 0 .. Len(topic[p])
      BY <3>1, <3>2 DEF Reached
    <3> HIDE DEF Of
    <3>4. Max(Of(p)) \in Of(p)
      BY <2>2, <3>2, <3>3, Greatest
    <3> USE DEF Of
    <3>5. PICK i \in DOMAIN b : b[i][1] = p /\ b[i][2] = Max(Of(p))
      BY <3>4
    <3> HIDE DEF Of
    <3>6. Max(Of(p)) \in 1 .. Len(topic[p])
          /\ \A o \in 1 .. Max(Of(p)) : Covered(c, p, o)
      BY <3>1, <3>5 DEF Reached
    <3>7. \A s : Batched(c, s) => Accounted(s)
      BY <1>1 DEF BatchInv, Batched
    <3>8. \A o \in 1 .. Max(Of(p)) : Accounted(<<p, o>>)
      BY <3>6, <3>7 DEF Covered
    <3> QED BY <2>2, <3>2, <3>6, <3>8
  <2> QED BY <2>1, <2>2
<1> HIDE DEF N
<1> QED BY <1>4, <1>5

LEMMA CommitKeeps ==
  ASSUME AuditInv, NEW c \in Consumer, CommitMessages(c) \/ CommitFails(c)
  PROVE  AuditInv'
<1>1. /\ con[c].pc = "commit" /\ committed' \in {committed, Offsets(c)}
      /\ con' = con \/ con' = [con EXCEPT ![c] = Idle]
      /\ UNCHANGED <<topic, owner, position, audit, reported>>
  BY DEF CommitMessages, CommitFails
<1>2. PICK S : /\ con \in [Consumer -> ConWith(S)] /\ con[c] \in ConWith(S) /\ BatchInv(c)
  BY BatchFacts
<1>3. Idle \in ConWith(S)
  BY EmptyFacts
<1>4. /\ con' \in [Consumer -> ConWith(S)] /\ con'[c] \in {con[c], Idle}
      /\ \A d \in Consumer \ {c} : con'[d] = con[d]
  BY <1>1, <1>2, <1>3
<1>5. Growth
  BY <1>1 DEF Growth
<1>6. /\ committed' \in [Partition -> Nat]
      /\ \A p \in Partition : committed'[p] <= Len(topic[p])
                            /\ \A o \in 1 .. committed'[p] : Accounted(<<p, o>>)
  BY <1>1, OffsetsAreAccounted DEF AuditInv, Typed, CommittedIsAccounted
<1>7. Typed'
  <2>1. /\ topic' \in Topics /\ DOMAIN owner' = Partition /\ position' \in [Partition -> Nat]
        /\ \A p \in Partition : position'[p] <= Len(topic'[p])
    BY <1>1 DEF AuditInv, Typed
  <2>2. \A p \in Partition : committed'[p] <= Len(topic'[p])
    BY <1>1, <1>6
  <2> QED BY <1>4, <1>6, <2>1, <2>2 DEF Typed
<1>8. CommittedIsAccounted'
  BY <1>5, <1>6, KeptStays DEF CommittedIsAccounted
<1>9. \A d \in Consumer : BatchInv(d)'
  <2>1. CASE con'[c] = con[c]
    BY <1>4, <1>5, <2>1, OthersKeep DEF AuditInv
  <2>2. CASE con'[c] = Idle
    <3>1. BatchInv(c)'
      BY <2>2, FreshBatch
    <3>2. \A d \in Consumer \ {c} : BatchInv(d)'
      BY <1>4, <1>5, OthersKeep DEF AuditInv
    <3> QED BY <3>1, <3>2
  <2> QED BY <1>4, <2>1, <2>2
<1>10. OwnerInv'
  <2> SUFFICES ASSUME NEW p \in Partition, NEW d \in Consumer, owner'[p] = d,
                      NEW o \in 1 .. position'[p]
               PROVE  Covered(d, p, o)'
    BY DEF OwnerInv
  <2>1. Covered(d, p, o)
    BY <1>1 DEF AuditInv, OwnerInv
  <2>2. CASE d = c
    <3>1. \A s : Batched(c, s) => Accounted(s)
      BY <1>1, <1>2 DEF BatchInv, Batched
    <3>2. Accounted(<<p, o>>)
      BY <2>1, <2>2, <3>1 DEF Covered
    <3> QED BY <1>5, <3>2, KeptStays DEF Covered
  <2>3. CASE d # c
    BY <1>4, <1>5, <2>1, <2>3, OthersKeep
  <2> QED BY <2>2, <2>3
<1> QED BY <1>7, <1>8, <1>9, <1>10 DEF AuditInv

\* Whoever reads a partition now resumes where everything is accounted for; a batch of
\* the partition that another has still is as good as it was.
LEMMA RebalanceKeeps == ASSUME AuditInv, Rebalance PROVE AuditInv'
<1>1. /\ UNCHANGED <<topic, committed, con, audit, reported>>
      /\ position' = committed /\ owner' \in [Partition -> Running]
  BY DEF Rebalance
<1>2. Growth
  BY <1>1 DEF Growth
<1>3. Typed'
  BY <1>1 DEF AuditInv, Typed
<1>4. CommittedIsAccounted'
  BY <1>1, <1>2, KeptStays DEF AuditInv, CommittedIsAccounted
<1>5. OwnerInv'
  <2> SUFFICES ASSUME NEW p \in Partition, NEW d \in Consumer, NEW o \in 1 .. position'[p]
               PROVE  Covered(d, p, o)'
    BY DEF OwnerInv
  <2>1. Accounted(<<p, o>>)
    BY <1>1 DEF AuditInv, CommittedIsAccounted
  <2> QED BY <1>2, <2>1, KeptStays DEF Covered
<1>6. \A d \in Consumer : BatchInv(d)'
  BY <1>1, <1>2, OthersKeep DEF AuditInv
<1> QED BY <1>3, <1>4, <1>5, <1>6 DEF AuditInv

LEMMA StillKeeps ==
  ASSUME AuditInv, UNCHANGED <<kafka, con, audit, reported>>
  PROVE  AuditInv'
<1>1. Growth /\ UNCHANGED <<topic, committed, owner, position, con, audit, reported>>
  BY DEF Growth, kafka
<1>2. Typed'
  BY <1>1 DEF AuditInv, Typed
<1>3. CommittedIsAccounted'
  BY <1>1, KeptStays DEF AuditInv, CommittedIsAccounted
<1>4. \A d \in Consumer : BatchInv(d)' /\ \A p, o : Covered(d, p, o) => Covered(d, p, o)'
  BY <1>1, OthersKeep DEF AuditInv
<1>5. OwnerInv'
  BY <1>1, <1>4 DEF AuditInv, OwnerInv
<1> QED BY <1>2, <1>3, <1>4, <1>5 DEF AuditInv

LEMMA InitHolds == Init => AuditInv
<1> SUFFICES ASSUME Init PROVE AuditInv
  OBVIOUS
<1>1. con \in [Consumer -> ConWith({})] /\ \A c \in Consumer : con[c] = Down
  BY EmptyFacts DEF Init
<1>2. Typed
  <2>1. DOMAIN topic = Partition /\ \A p \in Partition : topic[p] \in Seq(Range(topic[p]))
    BY TopicAssumption DEF Init
  <2>2. \A p \in Partition : Len(topic[p]) \in Nat
    BY <2>1
  <2> QED BY <1>1, <2>2 DEF Init, Typed
<1>3. CommittedIsAccounted /\ OwnerInv
  BY DEF Init, CommittedIsAccounted, OwnerInv
<1>4. \A c \in Consumer : BatchInv(c)
  BY <1>1, EmptyFacts DEF BatchInv
<1> QED BY <1>2, <1>3, <1>4 DEF AuditInv

LEMMA Inductive == AuditInv /\ [Next]_vars => AuditInv'
<1> SUFFICES ASSUME AuditInv, [Next]_vars PROVE AuditInv'
  OBVIOUS
<1>1. ASSUME NEW c \in Consumer, Run(c) PROVE AuditInv'
  <2>1. CASE Start(c)
    BY <2>1, StartKeeps
  <2>2. CASE \E p \in Partition : FetchMessage(c, p)
    BY <2>2, FetchKeeps
  <2>3. CASE CloseBatch(c)
    BY <2>3, CloseKeeps
  <2>4. CASE BuildMessage(c)
    BY <2>4, BuildKeeps
  <2>5. CASE WriteLetter(c)
    BY <2>5, LetterKeeps
  <2>6. CASE InsertChunk(c)
    BY <2>6, InsertKeeps
  <2>7. CASE Processed(c)
    BY <2>7, ProcessedKeeps
  <2>8. CASE CommitMessages(c)
    BY <2>8, CommitKeeps
  <2> QED BY <1>1, <2>1, <2>2, <2>3, <2>4, <2>5, <2>6, <2>7, <2>8 DEF Run
<1>2. ASSUME NEW c \in Consumer, Fails(c) PROVE AuditInv'
  <2>1. CASE Crash(c)
    BY <2>1, StartKeeps
  <2>2. CASE LetterFails(c) \/ InsertFails(c)
    BY <2>2, FailureKeeps
  <2>3. CASE CommitFails(c)
    BY <2>3, CommitKeeps
  <2> QED BY <1>2, <2>1, <2>2, <2>3 DEF Fails
<1>3. CASE Rebalance
  BY <1>3, RebalanceKeeps
<1>4. CASE NextDay
  BY <1>4, StillKeeps DEF NextDay
<1>5. CASE UNCHANGED vars
  BY <1>5, StillKeeps DEF vars, kafka
<1> QED BY <1>1, <1>2, <1>3, <1>4, <1>5 DEF Next

LEMMA AlwaysInv == Spec => []AuditInv
BY InitHolds, Inductive, PTL DEF Spec

(* No offset is committed past a message of which nothing was kept: after a crash, a   *)
(* failure at any call or a rebalance in the middle of a batch, the group resumes at a *)
(* message that everything before it was stored or set aside for (consumer.go:83-121). *)
THEOREM CommitsAreAccounted == Spec => []CommittedIsAccounted
<1>1. AuditInv => CommittedIsAccounted
  BY DEF AuditInv
<1> QED BY <1>1, AlwaysInv, PTL

-----------------------------------------------------------------------------
(* What a row of the table, and a dead letter, come from. *)

\* The rows that the messages of the topic are decoded to.
Made == UNION {UNION {Range(rs) : rs \in RecordsOf(s)} : s \in Slot}

RowsInv ==
  /\ \A k \in DOMAIN audit : audit[k] \in Made /\ audit[k].key = k
  /\ \A c \in Consumer : \A j \in 1 .. Len(con[c].records) : con[c].records[j] \in Made
  /\ \A s \in reported : s \in Slot /\ RecordsOf(s) = {}

LEMMA BatchInSlot ==
  ASSUME AuditInv, NEW c \in Consumer, NEW i \in 1 .. Len(con[c].batch)
  PROVE  con[c].batch[i] \in Slot
<1>1. PICK S : /\ con[c] \in ConWith(S) /\ BatchInv(c)
  BY BatchFacts
<1>2. PICK x : x = con[c].batch[i] /\ x \in Partition \X Nat
  BY <1>1 DEF ConWith
<1>3. x[1] \in Partition /\ x = <<x[1], x[2]>> /\ x[2] \in 1 .. Len(topic[x[1]])
  BY <1>1, <1>2 DEF BatchInv, Reached
<1>4. x \in {<<x[1], o>> : o \in 1 .. Len(topic[x[1]])}
  BY <1>3
<1> QED BY <1>2, <1>3, <1>4 DEF Slot

LEMMA SlotFacts ==
  ASSUME Typed, NEW s \in Slot
  PROVE  /\ s[1] \in Partition /\ s[2] \in 1 .. Len(topic[s[1]]) /\ s = <<s[1], s[2]>>
         /\ s[2] \in DOMAIN topic[s[1]]
         /\ \A rs \in RecordsOf(s) : rs \in Seq(Range(rs)) /\ DOMAIN rs = 1 .. Len(rs)
<1>1. PICK p \in Partition : s \in {<<p, o>> : o \in 1 .. Len(topic[p])}
  BY DEF Slot
<1>2. s[1] = p /\ s[2] \in 1 .. Len(topic[p]) /\ s = <<p, s[2]>>
  BY <1>1
<1>3. topic[p] \in Seq(Range(topic[p]))
  BY TopicAssumption DEF Typed
<1>4. DOMAIN topic[p] = 1 .. Len(topic[p])
  BY <1>3
<1> QED BY <1>2, <1>4, TopicFacts

LEMMA MadeStays == ASSUME topic' = topic PROVE Slot' = Slot /\ Made' = Made /\ \A s : RecordsOf(s)' = RecordsOf(s)
<1>1. Slot' = Slot /\ \A s : RecordsOf(s)' = RecordsOf(s)
  BY DEF Slot, RecordsOf
<1> QED BY <1>1 DEF Made

\* A key that was there keeps its row; a new one has the row it was sent with.
LEMMA InsertedRows ==
  ASSUME NEW table, NEW S, NEW rows \in Seq(S), NEW k \in DOMAIN insertBatch(table, rows)
  PROVE  \/ k \in DOMAIN table /\ insertBatch(table, rows)[k] = table[k]
         \/ \E i \in 1 .. Len(rows) : rows[i].key = k /\ insertBatch(table, rows)[k] = rows[i]
<1> DEFINE First(q) == CHOOSE i \in DOMAIN rows :
                         rows[i].key = q /\ \A j \in DOMAIN rows : rows[j].key = q => i <= j
<1>1. insertBatch(table, rows) =
        [q \in DOMAIN table \cup {rows[i].key : i \in DOMAIN rows} |->
           IF q \in DOMAIN table THEN table[q] ELSE rows[First(q)]]
  BY DEF insertBatch
<1>2. DOMAIN rows = 1 .. Len(rows) /\ Len(rows) \in Nat
  OBVIOUS
<1>3. CASE k \in DOMAIN table
  BY <1>1, <1>3
<1>4. CASE k \notin DOMAIN table
  <2> DEFINE T == {i \in DOMAIN rows : rows[i].key = k}
  <2>1. T # {} /\ T \subseteq Nat
    BY <1>1, <1>2, <1>4
  <2>2. PICK i \in T : \A j \in T : i <= j
    BY <2>1, Least
  <2>3. First(k) \in DOMAIN rows /\ rows[First(k)].key = k
    BY <2>2
  <2> HIDE DEF First
  <2> QED BY <1>1, <1>2, <1>4, <2>3
<1> QED BY <1>3, <1>4

LEMMA ChunkFacts ==
  ASSUME AuditInv, NEW c \in Consumer, Built(c), con[c].sent < Len(con[c].records)
  PROVE  /\ \E S : Chunk(c) \in Seq(S)
         /\ \A i \in 1 .. Len(Chunk(c)) :
              \E j \in 1 .. Len(con[c].records) : Chunk(c)[i] = con[c].records[j]
<1>1. PICK S : con[c] \in ConWith(S)
  BY BatchFacts
<1>2. PICK n, all, m :
        /\ n = con[c].sent /\ all = con[c].records
        /\ m = (IF n + MaxRowsPerStmt < Len(all) THEN n + MaxRowsPerStmt ELSE Len(all))
  OBVIOUS
<1>3. all \in Seq(S) /\ n \in Nat /\ n < Len(all) /\ m \in n + 1 .. Len(all)
  BY <1>1, <1>2, ConsumerAssumption DEF ConWith
<1>4. /\ SubSeq(all, n + 1, m) \in Seq(S) /\ Len(SubSeq(all, n + 1, m)) = m - n
      /\ \A i \in 1 .. m - n : SubSeq(all, n + 1, m)[i] = all[n + i]
  BY <1>3
<1>5. \A i \in 1 .. m - n : n + i \in 1 .. Len(all)
  BY <1>3
<1>6. PICK rows : rows = SubSeq(all, n + 1, m)
  OBVIOUS
<1>7. Chunk(c) = rows
  BY <1>2, <1>6 DEF Chunk
<1>8. rows \in Seq(S)
  BY <1>4, <1>6
<1>9. \A i \in 1 .. Len(rows) : \E j \in 1 .. Len(all) : rows[i] = all[j]
  BY <1>4, <1>5, <1>6
<1> QED BY <1>2, <1>7, <1>8, <1>9

\* What a step does with records, rows and dead letters.
LEMMA StepRows ==
  ASSUME AuditInv, [Next]_vars
  PROVE  /\ topic' = topic
         /\ \/ audit' = audit
            \/ \E c \in Consumer : /\ Built(c) /\ con[c].sent < Len(con[c].records)
                                   /\ audit' = insertBatch(audit, Chunk(c))
         /\ \A c \in Consumer :
              \/ con'[c].records = con[c].records
              \/ con'[c].records = <<>>
              \/ /\ con[c].built < Len(con[c].batch)
                 /\ \E rs \in RecordsOf(con[c].batch[con[c].built + 1]) :
                      con'[c].records = con[c].records \o rs
         /\ \/ reported' = reported
            \/ \E c \in Consumer :
                 /\ Undecoded(c)
                 /\ reported' = reported \cup {con[c].batch[con[c].built + 1]}
<1> DEFINE Records(c) ==
             \/ con'[c].records = con[c].records
             \/ con'[c].records = <<>>
             \/ /\ con[c].built < Len(con[c].batch)
                /\ \E rs \in RecordsOf(con[c].batch[con[c].built + 1]) :
                     con'[c].records = con[c].records \o rs
           Rows == \/ audit' = audit
                   \/ \E c \in Consumer : /\ Built(c) /\ con[c].sent < Len(con[c].records)
                                          /\ audit' = insertBatch(audit, Chunk(c))
           Damage == \/ reported' = reported
                       \/ \E c \in Consumer :
                            /\ Undecoded(c)
                            /\ reported' = reported \cup {con[c].batch[con[c].built + 1]}
           Goal == topic' = topic /\ Rows /\ Damage /\ \A c \in Consumer : Records(c)
<1>1. PICK S : con \in [Consumer -> ConWith(S)]
  BY DEF AuditInv, Typed
<1>2. ASSUME NEW c \in Consumer, NEW r, con' = [con EXCEPT ![c] = r],
             \/ r.records = con[c].records
             \/ r.records = <<>>
             \/ /\ con[c].built < Len(con[c].batch)
                /\ \E rs \in RecordsOf(con[c].batch[con[c].built + 1]) :
                     r.records = con[c].records \o rs
      PROVE  \A d \in Consumer : Records(d)
  <2>1. con'[c] = r /\ \A d \in Consumer \ {c} : con'[d] = con[d]
    BY <1>1, <1>2
  <2> QED BY <1>2, <2>1
<1>3. con' = con => \A d \in Consumer : Records(d)
  OBVIOUS
<1> HIDE DEF Records
<1>4. ASSUME NEW c \in Consumer, Run(c) PROVE Goal
  <2>1. con[c] \in ConWith(S)
    BY <1>1
  <2>2. CASE Start(c)
    BY <1>2, <2>2, EmptyFacts DEF Start, kafka
  <2>3. CASE \E p \in Partition : FetchMessage(c, p)
    <3>1. PICK b : con' = [con EXCEPT ![c] = [con[c] EXCEPT !.batch = b]]
      BY <1>1, <2>3 DEF FetchMessage
    <3>2. [con[c] EXCEPT !.batch = b].records = con[c].records
      BY <2>1 DEF ConWith
    <3> QED BY <1>2, <2>3, <3>1, <3>2 DEF FetchMessage
  <2>4. CASE CloseBatch(c) \/ Processed(c)
    <3>1. PICK b : con' = [con EXCEPT ![c] = [con[c] EXCEPT !.pc = b]]
      BY <1>1, <2>4 DEF CloseBatch, Processed
    <3>2. [con[c] EXCEPT !.pc = b].records = con[c].records
      BY <2>1 DEF ConWith
    <3> QED BY <1>2, <2>4, <3>1, <3>2 DEF CloseBatch, Processed, kafka
  <2>5. CASE BuildMessage(c)
    <3>1. PICK rs \in RecordsOf(con[c].batch[con[c].built + 1]) :
            con' = [con EXCEPT ![c].built = @ + 1, ![c].records = @ \o rs]
      BY <2>5 DEF BuildMessage
    <3>2. PICK r : r = [con[c] EXCEPT !.built = @ + 1, !.records = @ \o rs]
      OBVIOUS
    <3>3. con' = [con EXCEPT ![c] = r] /\ r.records = con[c].records \o rs
      BY <1>1, <2>1, <3>1, <3>2 DEF ConWith
    <3>4. con[c].built < Len(con[c].batch)
      BY <2>5 DEF BuildMessage
    <3>5. \A d \in Consumer : Records(d)
      BY <1>2, <3>3, <3>4
    <3> QED BY <2>5, <3>5 DEF BuildMessage, kafka
  <2>6. CASE WriteLetter(c)
    <3>1. PICK b : con' = [con EXCEPT ![c] = [con[c] EXCEPT !.built = b]]
      BY <1>1, <2>6 DEF WriteLetter
    <3>2. [con[c] EXCEPT !.built = b].records = con[c].records
      BY <2>1 DEF ConWith
    <3>3. \A d \in Consumer : Records(d)
      BY <1>2, <3>1, <3>2
    <3> QED BY <2>6, <3>3 DEF WriteLetter, kafka
  <2>7. CASE InsertChunk(c)
    <3>1. PICK b : con' = [con EXCEPT ![c] = [con[c] EXCEPT !.sent = b]]
      BY <1>1, <2>7 DEF InsertChunk
    <3>2. [con[c] EXCEPT !.sent = b].records = con[c].records
      BY <2>1 DEF ConWith
    <3>3. \A d \in Consumer : Records(d)
      BY <1>2, <3>1, <3>2
    <3> QED BY <2>7, <3>3 DEF InsertChunk, kafka
  <2>8. CASE CommitMessages(c)
    BY <1>2, <2>8, EmptyFacts DEF CommitMessages
  <2> QED BY <1>4, <2>2, <2>3, <2>4, <2>5, <2>6, <2>7, <2>8 DEF Run
<1>5. ASSUME NEW c \in Consumer, Again(c) PROVE \A d \in Consumer : Records(d)
  <2>1. PICK r : r = [con[c] EXCEPT !.built = 0, !.records = <<>>, !.sent = 0]
    OBVIOUS
  <2>2. con[c] \in ConWith(S)
    BY <1>1
  <2>3. con' = [con EXCEPT ![c] = r] /\ r.records = <<>>
    BY <1>1, <1>5, <2>1, <2>2 DEF Again, ConWith
  <2> QED BY <1>2, <2>3
<1>6. ASSUME NEW c \in Consumer, Fails(c) PROVE Goal
  <2>1. CASE Crash(c)
    BY <1>2, <2>1, EmptyFacts DEF Crash
  <2>2. CASE LetterFails(c)
    BY <1>5, <2>2 DEF LetterFails, kafka
  <2>3. CASE InsertFails(c)
    BY <1>5, <2>3 DEF InsertFails, kafka
  <2>4. CASE CommitFails(c)
    BY <1>3, <2>4 DEF CommitFails
  <2> QED BY <1>6, <2>1, <2>2, <2>3, <2>4 DEF Fails
<1>7. ASSUME Rebalance \/ NextDay \/ UNCHANGED vars PROVE Goal
  BY <1>3, <1>7 DEF Rebalance, NextDay, vars, kafka
<1> HIDE DEF Goal
<1>8. Goal
  BY <1>4, <1>6, <1>7 DEF Next
<1> QED BY <1>8 DEF Goal, Records

LEMMA RowsInductive == AuditInv /\ RowsInv /\ [Next]_vars => RowsInv'
<1> SUFFICES ASSUME AuditInv, RowsInv, [Next]_vars PROVE RowsInv'
  OBVIOUS
<1>1. topic' = topic /\ Slot' = Slot /\ Made' = Made /\ \A s : RecordsOf(s)' = RecordsOf(s)
  BY StepRows, MadeStays
<1>2. \A k \in DOMAIN audit' : audit'[k] \in Made /\ audit'[k].key = k
  <2>1. CASE audit' = audit
    BY <2>1 DEF RowsInv
  <2>2. ASSUME NEW c \in Consumer, Built(c), con[c].sent < Len(con[c].records),
               audit' = insertBatch(audit, Chunk(c)), NEW k \in DOMAIN audit'
        PROVE  audit'[k] \in Made /\ audit'[k].key = k
    <3>1. PICK S : Chunk(c) \in Seq(S)
      BY <2>2, ChunkFacts
    <3>2. CASE k \in DOMAIN audit /\ audit'[k] = audit[k]
      BY <3>2 DEF RowsInv
    <3>3. CASE \E i \in 1 .. Len(Chunk(c)) : Chunk(c)[i].key = k /\ audit'[k] = Chunk(c)[i]
      <4>1. PICK i \in 1 .. Len(Chunk(c)) : Chunk(c)[i].key = k /\ audit'[k] = Chunk(c)[i]
        BY <3>3
      <4>2. Chunk(c)[i] \in Made
        BY <2>2, ChunkFacts DEF RowsInv
      <4> QED BY <4>1, <4>2
    <3> QED BY <2>2, <3>1, <3>2, <3>3, InsertedRows
  <2> QED BY <2>1, <2>2, StepRows
<1>3. ASSUME NEW c \in Consumer, NEW j \in 1 .. Len(con'[c].records)
      PROVE  con'[c].records[j] \in Made
  <2>1. PICK S : /\ con[c] \in ConWith(S) /\ Len(con[c].batch) \in Nat /\ con[c].built \in Nat
    BY BatchFacts
  <2>2. CASE con'[c].records = con[c].records
    BY <2>2 DEF RowsInv
  <2>3. CASE con'[c].records = <<>>
    BY <2>3
  <2>4. ASSUME con[c].built < Len(con[c].batch),
               NEW rs \in RecordsOf(con[c].batch[con[c].built + 1]),
               con'[c].records = con[c].records \o rs
        PROVE  con'[c].records[j] \in Made
    <3>1. PICK s, old : s = con[c].batch[con[c].built + 1] /\ old = con[c].records
      OBVIOUS
    <3>2. s \in Slot
      BY <2>1, <2>4, <3>1, BatchInSlot
    <3>3. rs \in Seq(Range(rs)) /\ old \in Seq(S)
      BY <2>1, <2>4, <3>1, <3>2, SlotFacts DEF AuditInv, ConWith
    <3>4. Range(rs) \subseteq Made
      BY <2>4, <3>1, <3>2 DEF Made
    <3>5. CASE j \in 1 .. Len(old)
      <4>1. con'[c].records[j] = old[j]
        BY <2>4, <3>1, <3>3, <3>5
      <4> QED BY <3>1, <3>5, <4>1 DEF RowsInv
    <3>6. CASE j \notin 1 .. Len(old)
      <4>1. j - Len(old) \in 1 .. Len(rs) /\ con'[c].records[j] = rs[j - Len(old)]
        BY <2>4, <3>1, <3>3, <3>6
      <4>2. rs[j - Len(old)] \in Range(rs)
        BY <3>3, <4>1
      <4> QED BY <3>4, <4>1, <4>2
    <3> QED BY <3>5, <3>6
  <2> QED BY <2>2, <2>3, <2>4, StepRows
<1>4. \A s \in reported' : s \in Slot /\ RecordsOf(s) = {}
  <2>1. ASSUME NEW c \in Consumer, Undecoded(c)
        PROVE  LET s == con[c].batch[con[c].built + 1] IN s \in Slot /\ RecordsOf(s) = {}
    <3>1. PICK S : /\ con[c] \in ConWith(S) /\ Len(con[c].batch) \in Nat /\ con[c].built \in Nat
      BY BatchFacts
    <3>2. con[c].built + 1 \in 1 .. Len(con[c].batch)
      BY <2>1, <3>1 DEF Undecoded
    <3> QED BY <2>1, <3>2, BatchInSlot DEF Undecoded
  <2> QED BY <2>1, StepRows DEF RowsInv
<1> QED BY <1>1, <1>2, <1>3, <1>4 DEF RowsInv

LEMMA AlwaysRows == Spec => [](AuditInv /\ RowsInv)
<1>1. Init => RowsInv
  BY EmptyFacts DEF Init, RowsInv
<1> QED BY <1>1, InitHolds, Inductive, RowsInductive, PTL DEF Spec

-----------------------------------------------------------------------------
(* What trim does, file by file. *)

\* A state that depends on the one before it can be followed to the end.
Steps(n, S) == [(1 .. n) \X S -> S]

Follows(f, n, S, b, step) ==
  /\ f \in [0 .. n -> S] /\ f[0] = b
  /\ \A i \in 1 .. n : f[i] = step[<<i, f[i - 1]>>]

LEMMA Recursion ==
  \A n, S, b, step : n \in Nat /\ b \in S /\ step \in Steps(n, S) => \E f : Follows(f, n, S, b, step)
<1> SUFFICES ASSUME NEW n \in Nat, NEW S, NEW b \in S, NEW step \in Steps(n, S)
             PROVE  \E f : Follows(f, n, S, b, step)
  OBVIOUS
<1> DEFINE Goes(f, k) == Follows(f, k, S, b, step)
           Bad == {k \in Nat : k <= n /\ ~\E f : Goes(f, k)}
<1> HIDE DEF Goes
<1>0. n \notin Bad => \E f : Goes(f, n)
  OBVIOUS
<1> HIDE DEF Bad
<1> SUFFICES ASSUME n \in Bad PROVE FALSE
  BY <1>0 DEF Goes
<1> USE DEF Bad, Goes, Follows
<1>1. PICK k \in Bad : \A i \in Bad : k <= i
  <2> Bad \in SUBSET Nat /\ Bad # {}
    BY Zenon
  <2> HIDE DEF Bad
  <2> QED BY Least
<1>2. k \in Nat /\ k <= n
  BY <1>1
<1>3. k # 0
  <2>1. PICK f : f = [i \in {0} |-> b]
    OBVIOUS
  <2>2. 0 .. 0 = {0} /\ 1 .. 0 = {}
    OBVIOUS
  <2>3. Goes(f, 0)
    BY <2>1, <2>2
  <2> QED BY <1>1, <2>3
<1>4. k - 1 \in Nat /\ k - 1 <= n /\ ~(k <= k - 1)
  BY <1>2, <1>3
<1>5. PICK f : Goes(f, k - 1)
  BY <1>1, <1>4
<1>6. f[k - 1] \in S /\ <<k, f[k - 1]>> \in (1 .. n) \X S /\ step[<<k, f[k - 1]>>] \in S
  BY <1>2, <1>4, <1>5 DEF Steps
<1>7. PICK g : g = [i \in 0 .. k |-> IF i = k THEN step[<<k, f[k - 1]>>] ELSE f[i]]
  OBVIOUS
<1>8. g \in [0 .. k -> S]
  <2>1. \A i \in 0 .. k : i # k => i \in 0 .. k - 1
    BY <1>2
  <2> QED BY <1>5, <1>6, <1>7, <2>1
<1>9. g[0] = b
  BY <1>2, <1>3, <1>5, <1>7
<1>10. ASSUME NEW i \in 1 .. k PROVE g[i] = step[<<i, g[i - 1]>>]
  <2>1. i - 1 \in 0 .. k /\ i - 1 # k /\ i \in 0 .. k /\ (i # k => i \in 1 .. k - 1)
    BY <1>2
  <2>2. g[i - 1] = f[i - 1]
    BY <1>7, <2>1
  <2> QED BY <1>5, <1>7, <2>1, <2>2
<1>11. Goes(g, k)
  BY <1>8, <1>9, <1>10
<1> QED BY <1>1, <1>11

LoopState(fs) == [left : SUBSET DOMAIN fs, over : BOOLEAN]

\* What trim does when it visits the file of a day.
Visit(fs, stuck, d, was) ==
  IF ~was.over \/ d \notin DOMAIN fs THEN was
  ELSE IF Fits(Cardinality({e \in DOMAIN fs : e >= d}), SizeOf(Restrict(fs, was.left)))
       THEN [was EXCEPT !.over = FALSE]
       ELSE [was EXCEPT !.left = @ \ ({d} \ ({day} \cup stuck))]

Visits(fs, stuck, loop) ==
  /\ loop \in [0 .. MaxDay -> LoopState(fs)]
  /\ loop[0] = [left |-> DOMAIN fs, over |-> TRUE]
  /\ \A d \in 1 .. MaxDay : loop[d] = Visit(fs, stuck, d, loop[d - 1])

LEMMA TrimVisits ==
  ASSUME NEW fs, NEW stuck
  PROVE  \E loop : Visits(fs, stuck, loop) /\ trim(fs, stuck) = Restrict(fs, loop[MaxDay].left)
<1> DEFINE At0 == [left |-> DOMAIN fs, over |-> TRUE]
           Body(f, d) ==
             LET was == f[d - 1]
             IN CASE d = 0 -> [left |-> DOMAIN fs, over |-> TRUE]
                  [] d > 0 /\ (~was.over \/ d \notin DOMAIN fs) -> was
                  [] OTHER ->
                       IF Fits(Cardinality({e \in DOMAIN fs : e >= d}), SizeOf(Restrict(fs, was.left)))
                       THEN [was EXCEPT !.over = FALSE]
                       ELSE [was EXCEPT !.left = @ \ ({d} \ ({day} \cup stuck))]
           loop == CHOOSE f : f = [d \in 0 .. MaxDay |-> Body(f, d)]
<1>1. MaxDay \in Nat
  BY ConsumerAssumption
<1>2. trim(fs, stuck) = Restrict(fs, loop[MaxDay].left)
  BY DEF trim
<1>3. ASSUME NEW d \in 1 .. MaxDay, NEW was \in LoopState(fs)
      PROVE  Visit(fs, stuck, d, was) \in LoopState(fs)
  BY DEF Visit, LoopState
<1>4. ASSUME NEW f, NEW d \in 1 .. MaxDay PROVE Body(f, d) = Visit(fs, stuck, d, f[d - 1])
  BY DEF Visit
<1>5. ASSUME NEW f PROVE Body(f, 0) = At0
  OBVIOUS
<1> HIDE DEF Body
<1>6. \E f : f = [d \in 0 .. MaxDay |-> Body(f, d)]
  <2>1. PICK step : step = [x \in (1 .. MaxDay) \X LoopState(fs) |-> Visit(fs, stuck, x[1], x[2])]
    OBVIOUS
  <2>2. step \in [(1 .. MaxDay) \X LoopState(fs) -> LoopState(fs)]
    BY <1>3, <2>1
  <2>3. At0 \in LoopState(fs)
    BY DEF LoopState
  <2>4. PICK f \in [0 .. MaxDay -> LoopState(fs)] :
          f[0] = At0 /\ \A i \in 1 .. MaxDay : f[i] = step[<<i, f[i - 1]>>]
    <3> HIDE DEF At0
    <3>1. MaxDay \in Nat /\ At0 \in LoopState(fs) /\ step \in Steps(MaxDay, LoopState(fs))
      BY <1>1, <2>2, <2>3 DEF Steps
    <3>2. \E f : Follows(f, MaxDay, LoopState(fs), At0, step)
      BY <3>1, Recursion, Zenon
    <3> QED BY <3>2 DEF Follows
  <2>5. \A d \in 1 .. MaxDay : f[d] = Body(f, d)
    <3> SUFFICES ASSUME NEW d \in 1 .. MaxDay PROVE f[d] = Body(f, d)
      OBVIOUS
    <3>1. <<d, f[d - 1]>> \in (1 .. MaxDay) \X LoopState(fs)
      BY <1>1
    <3>2. step[<<d, f[d - 1]>>] = Visit(fs, stuck, d, f[d - 1])
      BY <2>1, <3>1
    <3> QED BY <1>4, <2>4, <3>2
  <2>6. f = [d \in 0 .. MaxDay |-> Body(f, d)]
    <3>1. \A d \in 0 .. MaxDay : f[d] = Body(f, d)
      <4>1. \A d \in 0 .. MaxDay : d = 0 \/ d \in 1 .. MaxDay
        BY <1>1
      <4>2. f[0] = Body(f, 0)
        BY <1>5, <2>4
      <4> QED BY <2>5, <4>1, <4>2
    <3> QED BY <3>1
  <2> QED BY <2>6
<1>7. loop = [d \in 0 .. MaxDay |-> Body(loop, d)]
  BY <1>6
<1> HIDE DEF loop
<1>8. loop[0] = At0 /\ \A d \in 1 .. MaxDay : loop[d] = Visit(fs, stuck, d, loop[d - 1])
  BY <1>1, <1>4, <1>5, <1>7
<1>9. \A d \in 0 .. MaxDay : loop[d] \in LoopState(fs)
  <2> DEFINE Bad == {d \in Nat : d <= MaxDay /\ loop[d] \notin LoopState(fs)}
  <2> SUFFICES ASSUME Bad # {} PROVE FALSE
    BY <1>1
  <2>1. PICK d \in Bad : \A e \in Bad : d <= e
    BY Least
  <2>2. d # 0
    <3>1. At0 \in LoopState(fs)
      BY DEF LoopState
    <3> HIDE DEF At0
    <3> QED BY <1>8, <2>1, <3>1
  <2>3. d \in 1 .. MaxDay /\ d - 1 \in Nat /\ d - 1 <= MaxDay /\ ~(d <= d - 1)
    BY <1>1, <2>1, <2>2
  <2>4. loop[d - 1] \in LoopState(fs)
    BY <2>1, <2>3
  <2> QED BY <1>3, <1>8, <2>1, <2>3, <2>4
<1>10. loop \in [0 .. MaxDay -> LoopState(fs)]
  BY <1>7, <1>9
<1> QED BY <1>2, <1>8, <1>10 DEF Visits

-----------------------------------------------------------------------------
(* The form of the state. *)

SizeInv ==
  /\ owner \in [Partition -> Consumer \cup {NoOne}]
  /\ \A c \in Consumer : Len(con[c].batch) <= Config.batch_size
  /\ DOMAIN files = Consumer /\ \A c \in Consumer : DOMAIN files[c] \subseteq 1 .. day
  /\ day \in Day
  /\ faults \in Nat

LEMMA BatchSize == Config.batch_size \in Nat \ {0}
BY ConsumerAssumption DEF Config, applyDefaults

\* trim only takes files away.
LEMMA TrimmedDays == \A fs, stuck : DOMAIN trim(fs, stuck) \subseteq DOMAIN fs
<1> SUFFICES ASSUME NEW fs, NEW stuck PROVE DOMAIN trim(fs, stuck) \subseteq DOMAIN fs
  OBVIOUS
<1>1. PICK loop : Visits(fs, stuck, loop) /\ trim(fs, stuck) = Restrict(fs, loop[MaxDay].left)
  BY TrimVisits
<1>2. loop[MaxDay] \in LoopState(fs)
  BY <1>1, ConsumerAssumption DEF Visits
<1> QED BY <1>1, <1>2 DEF Restrict, LoopState

LEMMA OpenedDays ==
  \A fs : /\ DOMAIN Opened(fs) = DOMAIN fs \cup {day}
          /\ \A letter : DOMAIN WithLetter(fs, letter) = DOMAIN fs \cup {day}
BY DEF WithLetter, Opened

LEMMA SizeInductive == AuditInv /\ SizeInv /\ [Next]_vars => SizeInv'
<1> SUFFICES ASSUME AuditInv, SizeInv, [Next]_vars PROVE SizeInv'
  OBVIOUS
<1> DEFINE Batches == \A c \in Consumer : Len(con[c].batch)' <= Config.batch_size
           Files == DOMAIN files' = Consumer /\ \A c \in Consumer : DOMAIN files'[c] \subseteq 1 .. day
<1>1. PICK S : con \in [Consumer -> ConWith(S)]
  BY DEF AuditInv, Typed
<1>2. ASSUME NEW c \in Consumer, NEW r, con' = [con EXCEPT ![c] = r],
             r.batch = con[c].batch \/ r.batch = <<>>
      PROVE  Batches
  <2>1. con'[c] = r /\ \A d \in Consumer \ {c} : con'[d] = con[d]
    BY <1>1, <1>2
  <2>2. Len(<<>>) = 0
    OBVIOUS
  <2>3. \A d \in Consumer : Len(con[d].batch) <= Config.batch_size
    BY DEF SizeInv
  <2>4. Len(r.batch) <= Config.batch_size
    BY <1>2, <2>2, <2>3, BatchSize
  <2> QED BY <2>1, <2>3, <2>4
<1>3. ASSUME NEW c \in Consumer, NEW fs, files' = [files EXCEPT ![c] = fs], DOMAIN fs \subseteq 1 .. day
      PROVE  Files
  BY <1>3 DEF SizeInv
<1>4. UNCHANGED con => Batches
  BY DEF SizeInv
<1>5. UNCHANGED files => Files
  BY DEF SizeInv
<1>6. /\ owner' \in [Partition -> Consumer \cup {NoOne}]
      /\ day' \in Day /\ day <= day' /\ faults' \in Nat
  <2>1. owner' = owner \/ owner' \in [Partition -> Running]
        \/ \E c \in Consumer : owner' = [p \in Partition |-> IF owner[p] = c THEN NoOne ELSE owner[p]]
    BY DEF Next, Run, Fails, Start, FetchMessage, CloseBatch, BuildMessage, WriteLetter, InsertChunk,
           Processed, CommitMessages, Crash, LetterFails, InsertFails, CommitFails, Rebalance,
           NextDay, vars, kafka
  <2>2. day' = day \/ (day < MaxDay /\ day' = day + 1)
    BY DEF Next, Run, Fails, Start, FetchMessage, CloseBatch, BuildMessage, WriteLetter, InsertChunk,
           Processed, CommitMessages, Crash, LetterFails, InsertFails, CommitFails, Rebalance,
           NextDay, vars, kafka
  <2>3. Running \subseteq Consumer
    BY DEF Running
  <2>4. owner' \in [Partition -> Consumer \cup {NoOne}]
    BY <2>1, <2>3 DEF SizeInv
  <2>5. day' \in Day /\ day <= day'
    BY <2>2, ConsumerAssumption DEF SizeInv, Day
  <2>6. faults' = faults \/ faults' = faults + 1
    BY DEF Next, Run, Fails, Start, FetchMessage, CloseBatch, BuildMessage, WriteLetter, InsertChunk,
           Processed, CommitMessages, Crash, LetterFails, InsertFails, CommitFails, Rebalance,
           NextDay, vars, kafka, Fault
  <2> QED BY <2>4, <2>5, <2>6 DEF SizeInv
<1>7. ASSUME NEW c \in Consumer, Run(c) PROVE Batches /\ Files
  <2>1. con[c] \in ConWith(S)
    BY <1>1
  <2>2. CASE Start(c)
    BY <1>2, <1>5, <2>2, EmptyFacts DEF Start
  <2>3. CASE \E p \in Partition : FetchMessage(c, p)
    <3>1. PICK p \in Partition : FetchMessage(c, p)
      BY <2>3
    <3>2. PICK s, b : s = <<p, position[p] + 1>> /\ b = con[c].batch
      OBVIOUS
    <3>3. b \in Seq(Partition \X Nat) /\ s \in Partition \X Nat /\ Len(b) < Config.batch_size
      BY <2>1, <3>1, <3>2 DEF ConWith, FetchMessage, AuditInv, Typed
    <3>4. Len(Append(b, s)) <= Config.batch_size
      BY <3>3, BatchSize
    <3>5. con' = [con EXCEPT ![c].batch = Append(b, s)]
      BY <3>1, <3>2 DEF FetchMessage
    <3>6. con'[c].batch = Append(b, s) /\ \A d \in Consumer \ {c} : con'[d] = con[d]
      BY <1>1, <2>1, <3>5 DEF ConWith
    <3>7. Batches
      BY <3>4, <3>6 DEF SizeInv
    <3> QED BY <1>5, <3>1, <3>7 DEF FetchMessage
  <2>4. CASE CloseBatch(c) \/ Processed(c)
    <3>1. PICK b : con' = [con EXCEPT ![c] = [con[c] EXCEPT !.pc = b]]
      BY <1>1, <2>4 DEF CloseBatch, Processed
    <3>2. [con[c] EXCEPT !.pc = b].batch = con[c].batch
      BY <2>1 DEF ConWith
    <3> QED BY <1>2, <1>5, <2>4, <3>1, <3>2 DEF CloseBatch, Processed
  <2>5. CASE BuildMessage(c)
    <3>1. PICK rs : con' = [con EXCEPT ![c] = [con[c] EXCEPT !.built = @ + 1, !.records = @ \o rs]]
      BY <1>1, <2>5 DEF BuildMessage
    <3>2. [con[c] EXCEPT !.built = @ + 1, !.records = @ \o rs].batch = con[c].batch
      BY <2>1 DEF ConWith
    <3> QED BY <1>2, <1>5, <2>5, <3>1, <3>2 DEF BuildMessage
  <2>6. CASE WriteLetter(c)
    <3>1. PICK b : con' = [con EXCEPT ![c] = [con[c] EXCEPT !.built = b]]
      BY <1>1, <2>6 DEF WriteLetter
    <3>2. [con[c] EXCEPT !.built = b].batch = con[c].batch
      BY <2>1 DEF ConWith
    <3>3. Batches
      BY <1>2, <3>1, <3>2
    <3>4. PICK letter, stuck :
            files' = [files EXCEPT ![c] = trim(WithLetter(files[c], letter), stuck)]
      BY <2>6 DEF WriteLetter
    <3>5. DOMAIN trim(WithLetter(files[c], letter), stuck) \subseteq DOMAIN files[c] \cup {day}
      <4>1. DOMAIN trim(WithLetter(files[c], letter), stuck) \subseteq DOMAIN WithLetter(files[c], letter)
        BY TrimmedDays, Zenon
      <4>2. DOMAIN WithLetter(files[c], letter) = DOMAIN files[c] \cup {day}
        BY OpenedDays, Zenon
      <4> QED BY <4>1, <4>2, Zenon
    <3>6. DOMAIN trim(WithLetter(files[c], letter), stuck) \subseteq 1 .. day
      BY <3>5 DEF SizeInv, Day
    <3>7. Files
      BY <1>3, <3>4, <3>6
    <3> QED BY <3>3, <3>7
  <2>7. CASE InsertChunk(c)
    <3>1. PICK b : con' = [con EXCEPT ![c] = [con[c] EXCEPT !.sent = b]]
      BY <1>1, <2>7 DEF InsertChunk
    <3>2. [con[c] EXCEPT !.sent = b].batch = con[c].batch
      BY <2>1 DEF ConWith
    <3> QED BY <1>2, <1>5, <2>7, <3>1, <3>2 DEF InsertChunk
  <2>8. CASE CommitMessages(c)
    BY <1>2, <1>5, <2>8, EmptyFacts DEF CommitMessages
  <2> QED BY <1>7, <2>2, <2>3, <2>4, <2>5, <2>6, <2>7, <2>8 DEF Run
<1>8. ASSUME NEW c \in Consumer, Again(c) PROVE Batches
  <2>1. con[c] \in ConWith(S)
    BY <1>1
  <2>2. con' = [con EXCEPT ![c] = [con[c] EXCEPT !.built = 0, !.records = <<>>, !.sent = 0]]
    BY <1>1, <1>8 DEF Again
  <2>3. [con[c] EXCEPT !.built = 0, !.records = <<>>, !.sent = 0].batch = con[c].batch
    BY <2>1 DEF ConWith
  <2> QED BY <1>2, <2>2, <2>3
<1>9. ASSUME NEW c \in Consumer, Fails(c) PROVE Batches /\ Files
  <2>1. CASE Crash(c)
    BY <1>2, <1>5, <2>1, EmptyFacts DEF Crash
  <2>2. CASE LetterFails(c)
    <3>1. UNCHANGED files
          \/ (\E letter : files' = [files EXCEPT ![c] = WithLetter(files[c], letter)])
          \/ files' = [files EXCEPT ![c] = Opened(files[c])]
      BY <2>2 DEF LetterFails
    <3>2. DOMAIN files[c] \cup {day} \subseteq 1 .. day
      BY DEF SizeInv, Day
    <3>3. /\ DOMAIN Opened(files[c]) \subseteq 1 .. day
          /\ \A letter : DOMAIN WithLetter(files[c], letter) \subseteq 1 .. day
      BY <3>2, OpenedDays, Zenon
    <3>4. Files
      BY <1>3, <1>5, <3>1, <3>3
    <3> QED BY <1>8, <2>2, <3>4 DEF LetterFails
  <2>3. CASE InsertFails(c)
    BY <1>5, <1>8, <2>3 DEF InsertFails
  <2>4. CASE CommitFails(c)
    BY <1>4, <1>5, <2>4 DEF CommitFails
  <2> QED BY <1>9, <2>1, <2>2, <2>3, <2>4 DEF Fails
<1>10. ASSUME Rebalance \/ NextDay \/ UNCHANGED vars PROVE Batches /\ Files
  BY <1>4, <1>5, <1>10 DEF Rebalance, NextDay, vars
<1>11. Batches /\ Files
  <2> HIDE DEF Batches, Files
  <2> QED BY <1>7, <1>9, <1>10 DEF Next
<1>12. 1 .. day \subseteq 1 .. day'
  BY <1>6 DEF SizeInv, Day
<1> QED BY <1>6, <1>11, <1>12 DEF SizeInv

LEMMA AlwaysSize == Spec => []SizeInv
<1>1. Init => SizeInv
  <2> SUFFICES ASSUME Init PROVE SizeInv
    OBVIOUS
  <2>1. \A c \in Consumer : con[c] = Down /\ Len(con[c].batch) = 0
    BY EmptyFacts DEF Init
  <2>2. 1 \in Day
    BY ConsumerAssumption DEF Day
  <2> QED BY <2>1, <2>2, BatchSize DEF Init, SizeInv
<1> QED BY <1>1, AlwaysRows, SizeInductive, PTL DEF Spec

(* The state of the group, of the consumers and of their files has the expected form: a *)
(* batch holds messages of the topic and no more than the configured number, counters   *)
(* of what was built and sent stay within it, a row is stored under its own key, and    *)
(* only messages of the topic are set aside (consumer.go:83-121, repository.go:55).     *)
THEOREM AuditStateIsTyped == Spec => []AuditTypeOK
<1>1. AuditInv /\ RowsInv /\ SizeInv => AuditTypeOK
  <2> SUFFICES ASSUME AuditInv, RowsInv, SizeInv PROVE AuditTypeOK
    OBVIOUS
  <2>1. ASSUME NEW c \in Consumer
        PROVE  /\ con[c].pc \in {"down", "fetch", "process", "commit"}
               /\ \A i \in DOMAIN con[c].batch : con[c].batch[i] \in Slot
               /\ con[c].built \in 0 .. Len(con[c].batch) /\ con[c].sent \in 0 .. Len(con[c].records)
    <3>1. PICK S : /\ con[c] \in ConWith(S) /\ Len(con[c].batch) \in Nat
                   /\ Len(con[c].records) \in Nat
                   /\ con[c].built \in Nat /\ con[c].sent \in Nat /\ BatchInv(c)
      BY BatchFacts
    <3>2. DOMAIN con[c].batch = 1 .. Len(con[c].batch) /\ con[c].pc \in {"down", "fetch", "process", "commit"}
      BY <3>1 DEF ConWith
    <3> QED BY <3>1, <3>2, BatchInSlot DEF BatchInv
  <2>2. \A p \in Partition : committed[p] \in 0 .. Len(topic[p]) /\ position[p] \in 0 .. Len(topic[p])
    BY TopicFacts DEF AuditInv, Typed
  <2>3. DOMAIN topic = Partition
    BY TopicAssumption DEF AuditInv, Typed
  <2>4. \A c \in Consumer : DOMAIN files[c] \subseteq Day
    BY ConsumerAssumption DEF SizeInv, Day
  <2> QED BY <2>1, <2>2, <2>3, <2>4 DEF AuditTypeOK, RowsInv, SizeInv
<1> QED BY <1>1, AlwaysRows, AlwaysSize, PTL

-----------------------------------------------------------------------------
(* The audit trail. *)

\* What the trail takes for granted of Canal and of the decoder: of every message of the
\* topic, damaged is what the decoder refuses, its rows are what the decoder makes of it,
\* and rows with the same key, which names a position of the binlog, are the same row.
Faithful ==
  \A t \in Topics :
    LET Sent == UNION {{<<p, o>> : o \in DOMAIN t[p]} : p \in Partition}
        Of(s) == t[s[1]][s[2]]
        Rows == UNION {UNION {Range(rs) : rs \in Decoded[Of(s).value]} : s \in Sent}
    IN /\ \A s \in Sent :
            /\ Of(s).sound \in BOOLEAN
            /\ Of(s).sound <=> Decoded[Of(s).value] # {}
            /\ \A rs \in Decoded[Of(s).value] : Range(rs) = Of(s).rows
       /\ \A q, r \in Rows : q.key = r.key => q = r

Message(s) == topic[s[1]][s[2]]

LEMMA FaithfulNow ==
  ASSUME Faithful, Typed
  PROVE  /\ \A s \in Slot : /\ Message(s).sound \in BOOLEAN
                            /\ Message(s).sound <=> RecordsOf(s) # {}
                            /\ \A rs \in RecordsOf(s) : Range(rs) = Message(s).rows
         /\ \A q, r \in Made : q.key = r.key => q = r
         /\ Made = UNION {Message(s).rows : s \in {s \in Slot : Message(s).sound}}
<1> DEFINE Sent == UNION {{<<p, o>> : o \in DOMAIN topic[p]} : p \in Partition}
           Rows == UNION {UNION {Range(rs) : rs \in Decoded[Message(s).value]} : s \in Sent}
<1>1. /\ \A s \in Sent :
           /\ Message(s).sound \in BOOLEAN
           /\ Message(s).sound <=> Decoded[Message(s).value] # {}
           /\ \A rs \in Decoded[Message(s).value] : Range(rs) = Message(s).rows
      /\ \A q, r \in Rows : q.key = r.key => q = r
  BY DEF Typed, Faithful, Message
<1>2. Slot = Sent
  <2>1. \A p \in Partition : topic[p] \in Seq(Range(topic[p]))
    BY TopicAssumption DEF Typed
  <2>2. \A p \in Partition : DOMAIN topic[p] = 1 .. Len(topic[p])
    BY <2>1
  <2> QED BY <2>2 DEF Slot
<1> HIDE DEF Sent
<1>3. \A s \in Slot : RecordsOf(s) = Decoded[Message(s).value]
  BY DEF RecordsOf, Message
<1>4. Made = Rows
  BY <1>2, <1>3 DEF Made
<1>5. \A s \in Slot : /\ Message(s).sound \in BOOLEAN
                      /\ Message(s).sound <=> RecordsOf(s) # {}
                      /\ \A rs \in RecordsOf(s) : Range(rs) = Message(s).rows
  BY <1>1, <1>2, <1>3
<1>6. Made = UNION {Message(s).rows : s \in {s \in Slot : Message(s).sound}}
  <2>1. ASSUME NEW r \in Made PROVE \E s \in Slot : Message(s).sound /\ r \in Message(s).rows
    <3>1. PICK s \in Slot : \E rs \in RecordsOf(s) : r \in Range(rs)
      BY DEF Made
    <3> QED BY <1>5, <3>1
  <2>2. ASSUME NEW s \in Slot, Message(s).sound, NEW r \in Message(s).rows PROVE r \in Made
    <3>1. PICK rs \in RecordsOf(s) : r \in Range(rs)
      BY <1>5, <2>2
    <3> QED BY <3>1 DEF Made
  <2> QED BY <2>1, <2>2
<1> QED BY <1>1, <1>4, <1>5, <1>6

\* What the code counts as accounted for, the trail does.
LEMMA AccountedAsPromised ==
  ASSUME Faithful, AuditInv, RowsInv, NEW s \in Slot, Accounted(s)
  PROVE  IF Message(s).sound THEN Message(s).rows \subseteq {audit[k] : k \in DOMAIN audit}
         ELSE s \in reported
<1>1. Typed
  BY DEF AuditInv
<1>2. CASE s \in reported
  <2>1. ~Message(s).sound
    BY <1>1, <1>2, FaithfulNow DEF RowsInv
  <2> QED BY <1>2, <2>1
<1>3. ASSUME NEW rs \in RecordsOf(s), \A i \in DOMAIN rs : rs[i].key \in DOMAIN audit
      PROVE  Message(s).sound /\ Message(s).rows \subseteq {audit[k] : k \in DOMAIN audit}
  <2>1. Message(s).sound /\ Range(rs) = Message(s).rows
    BY <1>1, <1>3, FaithfulNow
  <2>2. ASSUME NEW r \in Range(rs) PROVE r \in {audit[k] : k \in DOMAIN audit}
    <3>1. r.key \in DOMAIN audit
      BY <1>3 DEF Range
    <3>2. r \in Made /\ audit[r.key] \in Made /\ audit[r.key].key = r.key
      BY <1>3, <3>1 DEF Made, RowsInv
    <3>3. audit[r.key] = r
      BY <1>1, <3>2, FaithfulNow
    <3> QED BY <3>1, <3>3
  <2> QED BY <2>1, <2>2
<1> QED BY <1>2, <1>3 DEF Accounted

\* The variables of the trail.
tLog == {[id |-> s, sound |-> topic[s[1]][s[2]].sound, rows |-> topic[s[1]][s[2]].rows] : s \in Slot}
tRecorded == {audit[k] : k \in DOMAIN audit}
tAcked == {s \in Slot : s[2] <= committed[s[1]]}

LEMMA LogFacts ==
  /\ \A m \in tLog : m.id \in Slot /\ m.sound = Message(m.id).sound /\ m.rows = Message(m.id).rows
  /\ \A s \in Slot : \E m \in tLog : m.id = s /\ m.sound = Message(s).sound /\ m.rows = Message(s).rows
<1>1. ASSUME NEW m \in tLog
      PROVE  m.id \in Slot /\ m.sound = Message(m.id).sound /\ m.rows = Message(m.id).rows
  BY DEF tLog, Message
<1>2. ASSUME NEW s \in Slot
      PROVE  \E m \in tLog : m.id = s /\ m.sound = Message(s).sound /\ m.rows = Message(s).rows
  <2>1. PICK m : m = [id |-> s, sound |-> topic[s[1]][s[2]].sound, rows |-> topic[s[1]][s[2]].rows]
    OBVIOUS
  <2>2. m \in tLog
    BY <2>1 DEF tLog
  <2> QED BY <2>1, <2>2 DEF Message
<1> QED BY <1>1, <1>2

\* Every step is one of the trail, or changes nothing of it.
LEMMA StepInTrail ==
  ASSUME Faithful, AuditInv, RowsInv, AuditInv', RowsInv', [Next]_vars
  PROVE  /\ tLog' = tLog
         /\ \/ /\ tRecorded \subseteq tRecorded'
               /\ tRecorded' \subseteq tRecorded \cup UNION {m.rows : m \in {m \in tLog : m.sound}}
               /\ UNCHANGED <<reported, tAcked>>
            \/ \E m \in tLog : /\ ~m.sound
                               /\ reported' = reported \cup {m.id}
                               /\ UNCHANGED <<tRecorded, tAcked>>
            \/ /\ tAcked' \subseteq {m.id : m \in {m \in tLog : IF m.sound THEN m.rows \subseteq tRecorded
                                                                 ELSE m.id \in reported}}
               /\ UNCHANGED <<tRecorded, reported>>
            \/ UNCHANGED <<tRecorded, reported, tAcked>>
<1>1. /\ topic' = topic /\ Slot' = Slot /\ Made' = Made
  BY StepRows, MadeStays
<1>2. tLog' = tLog
  BY <1>1 DEF tLog
<1>3. Typed /\ Typed'
  BY DEF AuditInv
<1>4. UNCHANGED committed => UNCHANGED tAcked
  BY <1>1 DEF tAcked
<1>5. \/ UNCHANGED <<audit, reported>>
      \/ UNCHANGED <<committed, reported>>
      \/ UNCHANGED <<committed, audit>>
  BY DEF Next, Run, Fails, Start, FetchMessage, CloseBatch, BuildMessage, WriteLetter, InsertChunk,
         Processed, CommitMessages, Crash, LetterFails, InsertFails, CommitFails, Rebalance,
         NextDay, vars, kafka
<1>6. CASE UNCHANGED <<audit, reported>>
  <2>1. ASSUME NEW s \in tAcked'
        PROVE  \E m \in tLog : /\ m.id = s
                               /\ IF m.sound THEN m.rows \subseteq tRecorded ELSE m.id \in reported
    <3>1. s \in Slot /\ s[2] <= committed'[s[1]]
      BY <1>1 DEF tAcked
    <3>2. s[1] \in Partition /\ s[2] \in 1 .. committed'[s[1]] /\ s = <<s[1], s[2]>>
      BY <1>3, <3>1, SlotFacts, TopicFacts DEF Typed
    <3>3. Accounted(s)'
      BY <3>2 DEF AuditInv, CommittedIsAccounted
    <3>4. Accounted(s)
      BY <1>1, <1>6, <3>3 DEF Accounted, RecordsOf
    <3>5. IF Message(s).sound THEN Message(s).rows \subseteq tRecorded ELSE s \in reported
      BY <3>1, <3>4, AccountedAsPromised DEF tRecorded
    <3>6. PICK m \in tLog : m.id = s /\ m.sound = Message(s).sound /\ m.rows = Message(s).rows
      BY <3>1, LogFacts
    <3> QED BY <3>5, <3>6
  <2>2. tAcked' \subseteq {m.id : m \in {m \in tLog : IF m.sound THEN m.rows \subseteq tRecorded
                                                       ELSE m.id \in reported}}
    BY <2>1
  <2> QED BY <1>2, <1>6, <2>2 DEF tRecorded
<1>7. CASE UNCHANGED <<committed, reported>>
  <2>1. tRecorded \subseteq tRecorded'
    <3>1. \A table, rows : \A k \in DOMAIN table :
            k \in DOMAIN insertBatch(table, rows) /\ insertBatch(table, rows)[k] = table[k]
      BY DEF insertBatch
    <3>2. \A k \in DOMAIN audit : k \in DOMAIN audit' /\ audit'[k] = audit[k]
      BY <3>1, StepRows
    <3> QED BY <3>2 DEF tRecorded
  <2>2. tRecorded' \subseteq UNION {m.rows : m \in {m \in tLog : m.sound}}
    <3>1. tRecorded' \subseteq Made
      BY <1>1 DEF tRecorded, RowsInv
    <3>2. ASSUME NEW r \in Made PROVE \E m \in tLog : m.sound /\ r \in m.rows
      <4>1. PICK s \in Slot : Message(s).sound /\ r \in Message(s).rows
        BY <1>3, FaithfulNow
      <4> QED BY <4>1, LogFacts
    <3> QED BY <3>1, <3>2
  <2> QED BY <1>2, <1>4, <1>7, <2>1, <2>2
<1>8. CASE UNCHANGED <<committed, audit>>
  <2>1. UNCHANGED tRecorded
    BY <1>8 DEF tRecorded
  <2>2. CASE reported' = reported
    BY <1>2, <1>4, <1>8, <2>1, <2>2
  <2>3. ASSUME NEW c \in Consumer, Undecoded(c),
               reported' = reported \cup {con[c].batch[con[c].built + 1]}
        PROVE  \E m \in tLog : ~m.sound /\ reported' = reported \cup {m.id}
    <3>1. PICK s : s = con[c].batch[con[c].built + 1]
      OBVIOUS
    <3>2. s \in Slot
      <4>1. con[c].built + 1 \in 1 .. Len(con[c].batch)
        BY <2>3, BatchFacts DEF Undecoded
      <4> QED BY <3>1, <4>1, BatchInSlot
    <3>3. ~Message(s).sound
      BY <1>3, <2>3, <3>1, <3>2, FaithfulNow DEF Undecoded
    <3> QED BY <2>3, <3>1, <3>2, <3>3, LogFacts
  <2> QED BY <1>2, <1>4, <1>8, <2>1, <2>2, <2>3, StepRows
<1> QED BY <1>5, <1>6, <1>7, <1>8

(* The consumers do what AuditTrail promises, however often and in whatever grouping the   *)
(* messages are delivered, and whatever fails in between: storing a chunk records rows of  *)
(* sound messages, each under the key of its change and never over another; a dead letter  *)
(* reports a damaged message; and an offset only covers what was recorded or reported      *)
(* (consumer.go:2, repository.go:55).                                                      *)
THEOREM TrailIsImplemented == Faithful => (Spec => ImplementsTrail)
<1> SUFFICES ASSUME Faithful PROVE Spec => ImplementsTrail
  OBVIOUS
<1>1. Init => Trail!Init
  <2> SUFFICES ASSUME Init PROVE Trail!Init
    OBVIOUS
  <2>1. AuditInv
    BY InitHolds
  <2>2. {audit[k] : k \in DOMAIN audit} = {} /\ reported = {}
    BY DEF Init
  <2>3. ASSUME NEW s \in Slot PROVE ~(s[2] <= committed[s[1]])
    <3>1. s[1] \in Partition /\ s[2] \in 1 .. Len(topic[s[1]])
      BY <2>1, SlotFacts DEF AuditInv
    <3>2. committed[s[1]] = 0 /\ Len(topic[s[1]]) \in Nat
      BY <2>1, <3>1, TopicFacts DEF Init, AuditInv
    <3> QED BY <3>1, <3>2
  <2> QED BY <2>2, <2>3 DEF Trail!Init
<1>2. ASSUME AuditInv, RowsInv, AuditInv', RowsInv', [Next]_vars
      PROVE  [Trail!Next]_(Trail!vars)
  <2>1. \/ /\ tLog' = tLog /\ tRecorded \subseteq tRecorded'
           /\ tRecorded' \subseteq tRecorded \cup UNION {m.rows : m \in {m \in tLog : m.sound}}
           /\ UNCHANGED <<reported, tAcked>>
        \/ \E m \in tLog : /\ ~m.sound
                           /\ reported' = reported \cup {m.id}
                           /\ UNCHANGED <<tLog, tRecorded, tAcked>>
        \/ /\ tAcked' \subseteq {m.id : m \in {m \in tLog : IF m.sound THEN m.rows \subseteq tRecorded
                                                             ELSE m.id \in reported}}
           /\ UNCHANGED <<tLog, tRecorded, reported>>
        \/ UNCHANGED <<tLog, tRecorded, reported, tAcked>>
    BY <1>2, StepInTrail
  <2> QED BY <2>1 DEF Trail!Next, Trail!vars, Trail!Record, Trail!Report, Trail!Acknowledge,
                      Trail!Accounted, tLog, tRecorded, tAcked
<1> QED BY <1>1, <1>2, AlwaysRows, PTL DEF Spec, ImplementsTrail, Trail!Spec

-----------------------------------------------------------------------------
(* What is kept of secrets. *)

LEMMA Flattened ==
  ASSUME NEW S, NEW seqs \in Seq(Seq(S))
  PROVE  FlattenSeq(seqs) \in Seq(S)
<1> DEFINE n == Len(seqs)
           IsFlat(f, k) == /\ DOMAIN f = 1 .. k
                           /\ \A i \in 1 .. k : f[i] = IF i = 1 THEN seqs[i] ELSE f[i - 1] \o seqs[i]
<1>1. n \in Nat /\ \A i \in 1 .. n : seqs[i] \in Seq(S)
  OBVIOUS
<1> HIDE DEF n
<1>2. ASSUME NEW k \in 0 .. n PROVE \E f : IsFlat(f, k)
  <2> DEFINE Bad == {j \in Nat : j <= n /\ ~\E f : IsFlat(f, j)}
  <2> SUFFICES ASSUME Bad # {} PROVE FALSE
    BY <1>1
  <2>1. PICK j \in Bad : \A i \in Bad : j <= i
    BY Least
  <2>2. j # 0
    <3>1. IsFlat([i \in 1 .. 0 |-> 0], 0)
      OBVIOUS
    <3> QED BY <2>1, <3>1
  <2>3. j \in Nat /\ j - 1 \in Nat /\ j - 1 <= n /\ j - 1 \notin Bad
    <3>1. j \in Nat /\ j <= n
      BY <2>1
    <3>2. j - 1 \in Nat /\ j - 1 <= n /\ ~(j <= j - 1)
      BY <1>1, <2>2, <3>1
    <3> HIDE DEF Bad
    <3> QED BY <2>1, <3>1, <3>2
  <2>4. PICK f : IsFlat(f, j - 1)
    BY <2>3
  <2>5. PICK g : g = [i \in 1 .. j |-> IF i = j THEN IF j = 1 THEN seqs[j] ELSE f[j - 1] \o seqs[j]
                                       ELSE f[i]]
    OBVIOUS
  <2>6. ASSUME NEW i \in 1 .. j PROVE g[i] = IF i = 1 THEN seqs[i] ELSE g[i - 1] \o seqs[i]
    <3>1. CASE i = j
      <4>1. j # 1 => j - 1 \in 1 .. j /\ j - 1 # j
        BY <2>2, <2>3
      <4> QED BY <2>5, <3>1, <4>1
    <3>2. CASE i # j
      <4>1. i \in 1 .. j - 1 /\ (i # 1 => i - 1 \in 1 .. j /\ i - 1 # j)
        BY <2>3, <3>2
      <4>2. g[i] = f[i] /\ (i # 1 => g[i - 1] = f[i - 1])
        BY <2>5, <3>2, <4>1
      <4> QED BY <2>4, <4>1, <4>2
    <3> QED BY <3>1, <3>2
  <2>7. IsFlat(g, j)
    BY <2>5, <2>6
  <2> QED BY <2>1, <2>7
<1> DEFINE flatten == CHOOSE f : f = [i \in 1 .. n |-> IF i = 1 THEN seqs[i] ELSE f[i - 1] \o seqs[i]]
<1>3. flatten = [i \in 1 .. n |-> IF i = 1 THEN seqs[i] ELSE flatten[i - 1] \o seqs[i]]
  <2>1. PICK f : IsFlat(f, n)
    BY <1>1, <1>2
  <2>2. [i \in 1 .. n |-> f[i]] = [i \in 1 .. n |-> IF i = 1 THEN seqs[i] ELSE f[i - 1] \o seqs[i]]
    BY <2>1
  <2>3. PICK g : g = [i \in 1 .. n |-> f[i]]
    OBVIOUS
  <2>4. g = [i \in 1 .. n |-> IF i = 1 THEN seqs[i] ELSE g[i - 1] \o seqs[i]]
    BY <1>1, <2>2, <2>3
  <2> QED BY <2>4
<1> HIDE DEF flatten
<1>4. ASSUME NEW k \in 1 .. n PROVE flatten[k] \in Seq(S)
  <2> DEFINE Bad == {j \in Nat : j \in 1 .. n /\ flatten[j] \notin Seq(S)}
  <2> SUFFICES ASSUME Bad # {} PROVE FALSE
    BY <1>1
  <2>1. PICK j \in Bad : \A i \in Bad : j <= i
    BY Least
  <2>2. j = 1 \/ flatten[j - 1] \in Seq(S)
    BY <1>1, <2>1
  <2>3. flatten[j] \in Seq(S)
    <3>1. CASE j = 1
      BY <1>1, <1>3, <2>1, <3>1
    <3>2. CASE j # 1
      <4>1. flatten[j] = flatten[j - 1] \o seqs[j]
        BY <1>3, <2>1, <3>2
      <4> QED BY <1>1, <2>1, <2>2, <3>2, <4>1
    <3> QED BY <3>1, <3>2
  <2> QED BY <2>1, <2>3
<1>5. CASE n = 0
  <2>1. seqs = <<>>
    BY <1>5 DEF n
  <2> QED BY <2>1 DEF FlattenSeq
<1>6. CASE n # 0
  <2>1. FlattenSeq(seqs) = flatten[n]
    BY <1>6 DEF FlattenSeq, flatten, n
  <2> QED BY <1>1, <1>4, <1>6, <2>1
<1> QED BY <1>5, <1>6

\* A row that shows nothing secret.
Clean(r) ==
  /\ Hidden(r.before)
  /\ \A part \in DOMAIN r.detail :
       IF part # "changed" THEN Hidden(r.detail[part])
       ELSE \A c \in DOMAIN r.detail.changed \cap Masked :
              \A side \in DOMAIN r.detail.changed[c] : r.detail.changed[c][side] = Replacement

LEMMA RowIsHidden == \A row : \A c \in DOMAIN Row(row) \cap Masked : Row(row)[c] = Replacement
BY DEF Row

\* What an UPDATE changed of a secret column is not to be seen: the row as it was has at
\* least the columns of the row as it is, so both sides of a difference are masked.
LEMMA DifferenceIsHidden ==
  ASSUME NEW current, NEW old, NEW c \in Masked,
         c \in DOMAIN diffChangedColumns(Row(rebuildBeforeRow(current, old)), Row(current)),
         NEW side \in DOMAIN diffChangedColumns(Row(rebuildBeforeRow(current, old)), Row(current))[c]
  PROVE  diffChangedColumns(Row(rebuildBeforeRow(current, old)), Row(current))[c][side] = Replacement
<1>1. PICK before, now : before = Row(rebuildBeforeRow(current, old)) /\ now = Row(current)
  OBVIOUS
<1>2. DOMAIN now \subseteq DOMAIN before
  BY <1>1 DEF Row, rebuildBeforeRow
<1>3. /\ c \in DOMAIN before => before[c] = Replacement
      /\ c \in DOMAIN now => now[c] = Replacement
  BY <1>1 DEF Row
<1>4. c \in (DOMAIN before \cup DOMAIN now)
  BY <1>1 DEF diffChangedColumns
<1>5. diffChangedColumns(before, now)[c] =
        IF c \in DOMAIN now THEN [old |-> At(before, c), new |-> now[c]] ELSE [old |-> before[c]]
  BY <1>1 DEF diffChangedColumns
<1>6. At(before, c) = Replacement
  BY <1>2, <1>3, <1>4 DEF At
<1>7. CASE c \in DOMAIN now
  <2>1. diffChangedColumns(before, now)[c] = [old |-> Replacement, new |-> Replacement]
    BY <1>3, <1>5, <1>6, <1>7
  <2> QED BY <1>1, <2>1
<1>8. CASE c \notin DOMAIN now
  <2>1. diffChangedColumns(before, now)[c] = [old |-> Replacement]
    BY <1>3, <1>4, <1>5, <1>8
  <2> QED BY <1>1, <2>1
<1> QED BY <1>7, <1>8

LEMMA SnapshotIsClean ==
  ASSUME NEW flat, NEW i, NEW row, flat.type \in Range(EventName), NEW r,
         r.detail = snapshot(flat, i, row).detail, r.before = snapshot(flat, i, row).before
  PROVE  Clean(r)
<1>1. PICK old : old = oldColumnsAt(flat, i)
  OBVIOUS
<1>2. PICK before, now, diff :
        before = Row(rebuildBeforeRow(row, old)) /\ now = Row(row) /\ diff = diffChangedColumns(before, now)
  OBVIOUS
<1>3. flat.type \in {"INSERT", "UPDATE", "DELETE"}
  BY DEF Range, EventName
<1>4. Hidden(before) /\ Hidden(now) /\ Hidden(Nil)
  BY <1>2, RowIsHidden DEF Hidden
<1>5. CASE flat.type = "INSERT"
  <2>1. r.detail = [after |-> now] /\ r.before = Nil
    BY <1>2, <1>5 DEF snapshot
  <2> QED BY <1>4, <2>1 DEF Clean
<1>6. CASE flat.type = "UPDATE"
  <2>1. r.detail = [changed |-> diff] /\ r.before = before
    BY <1>1, <1>2, <1>6 DEF snapshot
  <2>2. \A c \in DOMAIN diff \cap Masked : \A side \in DOMAIN diff[c] : diff[c][side] = Replacement
    BY <1>2, DifferenceIsHidden
  <2> QED BY <1>4, <2>1, <2>2 DEF Clean
<1>7. CASE flat.type = "DELETE"
  <2>1. r.detail = [before |-> now] /\ r.before = now
    BY <1>2, <1>7 DEF snapshot
  <2> QED BY <1>4, <2>1 DEF Clean
<1> QED BY <1>3, <1>5, <1>6, <1>7

\* What is made of a message is made of a row of its flat messages.
LEMMA DecodedFromRow ==
  ASSUME NEW v \in Values, NEW rs \in Decoded[v], NEW r \in Range(rs)
  PROVE  \E flats \in decodeMessage(v) : \E f \in Range(flats) : \E j \in DOMAIN f.data :
           /\ f.type \in Range(EventName) /\ f.data[j] # Nil
           /\ r = buildRowRecord(f, j)
<1>1. PICK flats \in decodeMessage(v) :
        rs = FlattenSeq([i \in DOMAIN flats |-> IF isAuditable(flats[i]) THEN Build(flats[i]) ELSE <<>>])
  BY DEF Decoded, buildMessageRecords
<1>2. /\ flats \in Seq(Range(flats))
      /\ \A f \in Range(flats) : f.type \in Range(EventName) /\ f.data \in Seq(Range(f.data))
  BY TopicAssumption
<1>3. PICK S : S = UNION {{buildRowRecord(f, j) : j \in {j \in DOMAIN f.data : f.data[j] # Nil}} :
                            f \in Range(flats)}
  OBVIOUS
<1>4. ASSUME NEW f \in Range(flats) PROVE Build(f) \in Seq(S)
  <2>1. <<>> \in Seq(S)
    OBVIOUS
  <2>2. CASE f.header.table \notin DOMAIN Tables
    BY <2>1, <2>2 DEF Build
  <2>3. CASE f.header.table \in DOMAIN Tables
    <3>1. PICK seqs :
            seqs = [i \in DOMAIN f.data |->
                      IF f.data[i] = Nil THEN <<>> ELSE <<buildRowRecord(f, i)>>]
      OBVIOUS
    <3>2. Len(f.data) \in Nat /\ DOMAIN f.data = 1 .. Len(f.data)
      BY <1>2
    <3>3. \A i \in DOMAIN f.data : f.data[i] # Nil => <<buildRowRecord(f, i)>> \in Seq(S)
      <4>1. \A i \in DOMAIN f.data : f.data[i] # Nil => buildRowRecord(f, i) \in S
        BY <1>3
      <4> QED BY <4>1
    <3>4. seqs \in [1 .. Len(f.data) -> Seq(S)]
      BY <2>1, <3>1, <3>2, <3>3
    <3>5. seqs \in Seq(Seq(S))
      BY <3>2, <3>4
    <3>6. Build(f) = FlattenSeq(seqs)
      BY <2>3, <3>1 DEF Build
    <3> QED BY <3>5, <3>6, Flattened
  <2> QED BY <2>2, <2>3
<1>5. PICK seqs : seqs = [i \in DOMAIN flats |-> IF isAuditable(flats[i]) THEN Build(flats[i]) ELSE <<>>]
  OBVIOUS
<1>6. Len(flats) \in Nat /\ DOMAIN flats = 1 .. Len(flats)
  BY <1>2
<1>7. \A i \in DOMAIN flats : Build(flats[i]) \in Seq(S)
  BY <1>4 DEF Range
<1>8. seqs \in [1 .. Len(flats) -> Seq(S)]
  <2>1. <<>> \in Seq(S)
    OBVIOUS
  <2> QED BY <1>5, <1>6, <1>7, <2>1
<1>9. seqs \in Seq(Seq(S))
  BY <1>6, <1>8
<1>10. rs \in Seq(S)
  BY <1>1, <1>5, <1>9, Flattened
<1>11. r \in S
  BY <1>10 DEF Range
<1>12. PICK f \in Range(flats) : \E j \in {j \in DOMAIN f.data : f.data[j] # Nil} : r = buildRowRecord(f, j)
  BY <1>3, <1>11
<1>13. PICK j \in DOMAIN f.data : f.data[j] # Nil /\ r = buildRowRecord(f, j)
  BY <1>12
<1> QED BY <1>2, <1>13

\* No row that is made of any message shows a secret.
LEMMA DecodedIsClean ==
  ASSUME NEW v \in Values, NEW rs \in Decoded[v], NEW r \in Range(rs)
  PROVE  Clean(r)
<1>1. PICK flats \in decodeMessage(v) : \E f \in Range(flats) : \E j \in DOMAIN f.data :
             f.type \in Range(EventName) /\ r = buildRowRecord(f, j)
  BY DecodedFromRow
<1>2. PICK f \in Range(flats) : \E j \in DOMAIN f.data :
             f.type \in Range(EventName) /\ r = buildRowRecord(f, j)
  BY <1>1
<1>3. PICK j \in DOMAIN f.data : f.type \in Range(EventName) /\ r = buildRowRecord(f, j)
  BY <1>2
<1>4. r.detail = snapshot(f, j, f.data[j]).detail /\ r.before = snapshot(f, j, f.data[j]).before
  BY <1>3 DEF buildRowRecord
<1> QED BY <1>3, <1>4, SnapshotIsClean

(* The value of a secret column is not in the table, in any snapshot of any change: a row  *)
(* of the table was made of a message, and what is made of any message of the three kinds, *)
(* whatever its rows, masks both sides of a change (sanitize.go:19, snapshot.go:15).       *)
THEOREM SecretsStayMasked == Spec => []SecretsMasked
<1>1. AuditInv /\ RowsInv => SecretsMasked
  <2> SUFFICES ASSUME AuditInv, RowsInv, NEW k \in DOMAIN audit PROVE Clean(audit[k])
    BY DEF SecretsMasked, Clean
  <2>1. PICK s \in Slot : \E rs \in RecordsOf(s) : audit[k] \in Range(rs)
    BY DEF RowsInv, Made
  <2>2. s[1] \in Partition /\ s[2] \in DOMAIN topic[s[1]] /\ topic \in Topics
    BY SlotFacts DEF AuditInv, Typed
  <2>3. topic[s[1]][s[2]].value \in Values
    BY <2>2 DEF Values
  <2> QED BY <2>1, <2>3, DecodedIsClean DEF RecordsOf
<1> QED BY <1>1, AlwaysRows, PTL

-----------------------------------------------------------------------------
(* Which files go. *)

\* One visit: at most the file of the day goes, and what fits stays so.
LEMMA OneVisit ==
  ASSUME NEW fs, NEW stuck, NEW loop, Visits(fs, stuck, loop), NEW d \in 1 .. MaxDay
  PROVE  /\ loop[d].left \subseteq loop[d - 1].left
         /\ \A e \in loop[d - 1].left : e # d => e \in loop[d].left
         /\ loop[d].over => loop[d - 1].over
         /\ loop[d - 1] \in LoopState(fs)
         /\ d \in loop[d - 1].left \ loop[d].left =>
              /\ loop[d - 1].over /\ d \notin {day} \cup stuck
              /\ ~Fits(Cardinality({e \in DOMAIN fs : e >= d}), SizeOf(Restrict(fs, loop[d - 1].left)))
         /\ d \in loop[d].left /\ loop[d].over => d \in {day} \cup stuck
<1>1. d - 1 \in 0 .. MaxDay
  BY ConsumerAssumption
<1>2. loop[d - 1] \in LoopState(fs) /\ loop[d] = Visit(fs, stuck, d, loop[d - 1])
  BY <1>1 DEF Visits
<1> QED BY <1>2 DEF Visit, LoopState

\* What becomes of the files of other days while those up to d are visited, and after.
LEMMA LaterVisits ==
  ASSUME NEW fs, NEW stuck, NEW loop, Visits(fs, stuck, loop), DOMAIN fs \subseteq 1 .. MaxDay,
         NEW d \in 0 .. MaxDay
  PROVE  /\ \A e \in DOMAIN fs : e > d => e \in loop[d].left
         /\ \A k \in d .. MaxDay :
              /\ loop[k].left \subseteq loop[d].left
              /\ loop[k].over => loop[d].over
              /\ \A e \in loop[d].left : e <= d => e \in loop[k].left
<1>1. MaxDay \in Nat
  BY ConsumerAssumption
<1>2. \A e \in DOMAIN fs : e > d => e \in loop[d].left
  <2> DEFINE Bad == {k \in Nat : k <= d /\ ~\A e \in DOMAIN fs : e > k => e \in loop[k].left}
  <2> SUFFICES ASSUME Bad # {} PROVE FALSE
    BY <1>1
  <2>1. PICK k \in Bad : \A j \in Bad : k <= j
    BY Least
  <2>2. k # 0
    <3>1. loop[0].left = DOMAIN fs
      BY DEF Visits
    <3> QED BY <2>1, <3>1
  <2>3. k \in 1 .. MaxDay /\ k - 1 \in Nat /\ k - 1 <= d /\ ~(k <= k - 1)
    BY <1>1, <2>1, <2>2
  <2>4. \A e \in DOMAIN fs : e > k - 1 => e \in loop[k - 1].left
    BY <2>1, <2>3
  <2>5. \A e \in loop[k - 1].left : e # k => e \in loop[k].left
    BY <2>3, OneVisit
  <2>6. \A e \in DOMAIN fs : e > k => e > k - 1 /\ e # k
    BY <1>1, <2>3
  <2> QED BY <2>1, <2>4, <2>5, <2>6
<1>3. ASSUME NEW n \in d .. MaxDay
      PROVE  /\ loop[n].left \subseteq loop[d].left
             /\ loop[n].over => loop[d].over
             /\ \A e \in loop[d].left : e <= d => e \in loop[n].left
  <2> DEFINE Good(k) == /\ loop[k].left \subseteq loop[d].left
                        /\ loop[k].over => loop[d].over
                        /\ \A e \in loop[d].left : e <= d => e \in loop[k].left
             Bad == {k \in Nat : d <= k /\ k <= MaxDay /\ ~Good(k)}
  <2>0. n \in Nat /\ d <= n /\ n <= MaxDay
    BY <1>1
  <2> SUFFICES ASSUME Bad # {} PROVE FALSE
    BY <2>0
  <2>1. PICK k \in Bad : \A j \in Bad : k <= j
    BY Least
  <2>2. k # d
    BY <2>1
  <2>3. k \in 1 .. MaxDay /\ k - 1 \in Nat /\ d <= k - 1 /\ k - 1 <= MaxDay /\ ~(k <= k - 1)
    BY <1>1, <2>1, <2>2
  <2>4. Good(k - 1)
    <3> HIDE DEF Good
    <3> QED BY <2>1, <2>3
  <2>5. /\ loop[k].left \subseteq loop[k - 1].left
        /\ \A e \in loop[k - 1].left : e # k => e \in loop[k].left
        /\ loop[k].over => loop[k - 1].over
    BY <2>3, OneVisit
  <2>6. \A e \in loop[d].left : e <= d => e # k
    BY <1>1, <2>3
  <2>7. Good(k)
    BY <2>4, <2>5, <2>6
  <2> QED BY <2>1, <2>7
<1> QED BY <1>2, <1>3

\* The files from day d on, and with them the older ones that are left.
From(fs, d)        == {e \in DOMAIN fs : e >= d}
There(fs, left, d) == {e \in DOMAIN fs : e >= d \/ e \in left}

LEMMA TrimmedInTurn ==
  \A fs, stuck, left : DOMAIN fs \subseteq 1 .. MaxDay /\ left = DOMAIN trim(fs, stuck) =>
    \A d \in DOMAIN fs \ left :
      /\ d \notin {day} \cup stuck
      /\ \A e \in left : e < d => e \in {day} \cup stuck
      /\ ~Fits(Cardinality(From(fs, d)), SizeOf(Restrict(fs, There(fs, left, d))))
      /\ \A e \in left : e \in DOMAIN fs /\ trim(fs, stuck)[e] = fs[e]
<1> SUFFICES ASSUME NEW fs, NEW stuck, NEW left, DOMAIN fs \subseteq 1 .. MaxDay,
                    left = DOMAIN trim(fs, stuck), NEW d \in DOMAIN fs \ left
             PROVE  /\ d \notin {day} \cup stuck
                    /\ \A e \in left : e < d => e \in {day} \cup stuck
                    /\ ~Fits(Cardinality(From(fs, d)), SizeOf(Restrict(fs, There(fs, left, d))))
                    /\ \A e \in left : e \in DOMAIN fs /\ trim(fs, stuck)[e] = fs[e]
  BY Zenon
<1>1. MaxDay \in Nat /\ d \in 1 .. MaxDay /\ d - 1 \in 0 .. MaxDay
  BY ConsumerAssumption
<1>2. PICK loop : Visits(fs, stuck, loop) /\ trim(fs, stuck) = Restrict(fs, loop[MaxDay].left)
  BY TrimVisits
<1>3. left = loop[MaxDay].left /\ \A e \in left : trim(fs, stuck)[e] = fs[e]
  BY <1>2 DEF Restrict
<1>4. loop[MaxDay] \in LoopState(fs)
  BY <1>1, <1>2 DEF Visits
<1>5. left \subseteq DOMAIN fs
  BY <1>3, <1>4 DEF LoopState
<1>6. d \in loop[d - 1].left
  <2>1. d > d - 1
    BY <1>1
  <2> QED BY <1>1, <1>2, <2>1, LaterVisits
<1>7. d \notin loop[d].left
  <2>1. d \in 0 .. MaxDay /\ MaxDay \in d .. MaxDay /\ d <= d
    BY <1>1
  <2> QED BY <1>2, <1>3, <2>1, LaterVisits
<1>8. /\ loop[d - 1].over /\ d \notin {day} \cup stuck
      /\ ~Fits(Cardinality({e \in DOMAIN fs : e >= d}), SizeOf(Restrict(fs, loop[d - 1].left)))
  BY <1>1, <1>2, <1>6, <1>7, OneVisit
<1>9. loop[d - 1].left = {e \in DOMAIN fs : e >= d \/ e \in left}
  <2>1. /\ \A e \in DOMAIN fs : e > d - 1 => e \in loop[d - 1].left
        /\ loop[MaxDay].left \subseteq loop[d - 1].left
        /\ \A e \in loop[d - 1].left : e <= d - 1 => e \in loop[MaxDay].left
    <3>1. MaxDay \in d - 1 .. MaxDay
      BY <1>1
    <3> QED BY <1>1, <1>2, <3>1, LaterVisits
  <2>2. loop[d - 1].left \subseteq DOMAIN fs
    BY <1>1, <1>2, OneVisit DEF LoopState
  <2>3. \A e \in DOMAIN fs : (e >= d <=> e > d - 1) /\ (e < d <=> e <= d - 1) /\ (e >= d <=> ~(e < d))
    BY <1>1
  <2> QED BY <1>3, <2>1, <2>2, <2>3
<1>10. ASSUME NEW e \in left, e < d PROVE e \in {day} \cup stuck
  <2>1. e \in 1 .. MaxDay /\ e \in 0 .. MaxDay /\ d - 1 \in e .. MaxDay /\ MaxDay \in e .. MaxDay
    BY <1>1, <1>5, <1>10
  <2>2. loop[e].over /\ e \in loop[e].left
    BY <1>2, <1>3, <1>8, <2>1, LaterVisits
  <2> QED BY <1>2, <2>1, <2>2, OneVisit
<1> QED BY <1>3, <1>5, <1>8, <1>9, <1>10 DEF From, There

(* A dead-letter file only goes when its turn comes in a directory that is over a limit,  *)
(* the oldest first unless it could not be removed, and never today's: for every number   *)
(* of days, every limit and any set of files that stick (deadletter.go:100-128).          *)
THEOREM LettersGoInTurn == Spec => OldestLettersGo
<1> DEFINE InTurn ==
      \A c \in Consumer : \A d \in DOMAIN files[c] \ DOMAIN files'[c] :
        LET left  == DOMAIN files'[c]
            there == {e \in DOMAIN files[c] \cup left : e >= d \/ e \in left}
            dir   == [e \in there |-> IF e \in left THEN files'[c][e] ELSE files[c][e]]
        IN /\ d # day
           /\ \A e \in left : e < d => faults' > faults
           /\ ~Fits(Cardinality({e \in there : e >= d}), SizeOf(dir))
<1>1. ASSUME SizeInv, NEW c \in Consumer, NEW letter, NEW stuck, files' = [files EXCEPT ![c] = trim(WithLetter(@, letter), stuck)],
             stuck = {} \/ faults' = faults + 1
      PROVE  InTurn
  <2>1. PICK fs, left : fs = WithLetter(files[c], letter) /\ left = DOMAIN trim(fs, stuck)
    OBVIOUS
  <2>2. files'[c] = trim(fs, stuck) /\ \A b \in Consumer \ {c} : files'[b] = files[b]
    BY <1>1, <2>1 DEF SizeInv
  <2>3. DOMAIN fs = DOMAIN files[c] \cup {day} /\ \A e \in DOMAIN files[c] : e # day => fs[e] = files[c][e]
    BY <2>1 DEF WithLetter, Opened
  <2>4. DOMAIN fs \subseteq 1 .. MaxDay /\ day \in DOMAIN fs
    BY <1>1, <2>3, ConsumerAssumption DEF SizeInv, Day
  <2>5. ASSUME NEW d \in DOMAIN files[c] \ left
        PROVE  LET there == {e \in DOMAIN files[c] \cup left : e >= d \/ e \in left}
                   dir   == [e \in there |-> IF e \in left THEN files'[c][e] ELSE files[c][e]]
               IN /\ d # day
                  /\ \A e \in left : e < d => faults' > faults
                  /\ ~Fits(Cardinality({e \in there : e >= d}), SizeOf(dir))
    <3>1. d \in DOMAIN fs \ left
      BY <2>3
    <3>2. /\ d \notin {day} \cup stuck
          /\ \A e \in left : e < d => e \in {day} \cup stuck
          /\ ~Fits(Cardinality(From(fs, d)), SizeOf(Restrict(fs, There(fs, left, d))))
          /\ \A e \in left : e \in DOMAIN fs /\ trim(fs, stuck)[e] = fs[e]
      <4>1. DOMAIN fs \subseteq 1 .. MaxDay /\ left = DOMAIN trim(fs, stuck) /\ d \in DOMAIN fs \ left
        BY <2>1, <2>4, <3>1
      <4> HIDE DEF InTurn
      <4> QED BY <4>1, TrimmedInTurn
    <3>3. day \in left
      <4>1. ASSUME day \in DOMAIN fs \ left PROVE FALSE
        <5>1. DOMAIN fs \subseteq 1 .. MaxDay /\ left = DOMAIN trim(fs, stuck)
          BY <2>1, <2>4
        <5>2. day \notin {day} \cup stuck
          <6> HIDE DEF InTurn
          <6> QED BY <4>1, <5>1, TrimmedInTurn
        <5> QED BY <5>2
      <4> QED BY <2>4, <4>1
    <3>4. DOMAIN files[c] \cup left = DOMAIN fs
      BY <2>3, <3>2, <3>3
    <3>5. PICK there, dir :
            /\ there = {e \in DOMAIN files[c] \cup left : e >= d \/ e \in left}
            /\ dir = [e \in there |-> IF e \in left THEN files'[c][e] ELSE files[c][e]]
      OBVIOUS
    <3>6. there = {e \in DOMAIN fs : e >= d \/ e \in left}
      BY <3>4, <3>5
    <3>7. {e \in there : e >= d} = {e \in DOMAIN fs : e >= d}
      BY <3>6
    <3>8. dir = Restrict(fs, there)
      <4>1. ASSUME NEW e \in there PROVE (IF e \in left THEN files'[c][e] ELSE files[c][e]) = fs[e]
        BY <2>2, <2>3, <3>2, <3>3, <3>5
      <4> QED BY <3>5, <4>1 DEF Restrict
    <3>9. ASSUME NEW e \in left, e < d PROVE faults' > faults
      <4>1. e # day
        <5>1. d <= day /\ d \in Nat /\ day \in Nat
          BY <1>1 DEF SizeInv, Day
        <5> QED BY <3>9, <5>1
      <4>2. stuck # {}
        BY <3>2, <3>9, <4>1
      <4> QED BY <1>1, <4>2 DEF SizeInv
    <3> QED BY <3>2, <3>5, <3>6, <3>7, <3>8, <3>9 DEF From, There
  <2> QED BY <2>1, <2>2, <2>5
<1>2. ASSUME \A c \in Consumer : DOMAIN files[c] \subseteq DOMAIN files'[c]
      PROVE  InTurn
  BY <1>2
<1> HIDE DEF InTurn
<1>3. SizeInv /\ [Next]_vars => InTurn
  <2> SUFFICES ASSUME SizeInv, [Next]_vars PROVE InTurn
    OBVIOUS
  <2>1. ASSUME NEW c \in Consumer, WriteLetter(c) PROVE InTurn
    <3>1. \E letter, stuck : /\ files' = [files EXCEPT ![c] = trim(WithLetter(@, letter), stuck)]
                             /\ stuck = {} \/ faults' = faults + 1
      BY <2>1 DEF WriteLetter, Fault
    <3> QED BY <1>1, <3>1
  <2>2. ASSUME NEW c \in Consumer, LetterFails(c) PROVE InTurn
    <3>1. UNCHANGED files
          \/ (\E letter : files' = [files EXCEPT ![c] = WithLetter(files[c], letter)])
          \/ files' = [files EXCEPT ![c] = Opened(files[c])]
      BY <2>2 DEF LetterFails
    <3>2. \A letter : DOMAIN files[c] \subseteq DOMAIN WithLetter(files[c], letter)
      BY DEF WithLetter, Opened
    <3>3. DOMAIN files[c] \subseteq DOMAIN Opened(files[c])
      BY DEF Opened
    <3>4. \A b \in Consumer : DOMAIN files[b] \subseteq DOMAIN files'[b]
      BY <3>1, <3>2, <3>3 DEF SizeInv
    <3> QED BY <1>2, <3>4
  <2>3. CASE UNCHANGED files
    BY <1>2, <2>3
  <2>4. \/ \E c \in Consumer : WriteLetter(c) \/ LetterFails(c)
        \/ UNCHANGED files
    BY DEF Next, Run, Fails, Start, FetchMessage, CloseBatch, BuildMessage, InsertChunk,
           Processed, CommitMessages, Crash, InsertFails, CommitFails, Rebalance, NextDay, vars
  <2> QED BY <2>1, <2>2, <2>3, <2>4
<1> USE DEF InTurn
<1> QED BY <1>3, AlwaysSize, PTL DEF OldestLettersGo, Spec

-----------------------------------------------------------------------------
(* Whom a row names. *)

\* What a row says of who made it is what this request left.
Shows(row, q) == pickOperator(row) = positiveUint(q.by) /\ At(row, request_id) = q.request

\* A request that reaches a writer: its operator is a user, its id is not empty.
Proper(q) ==
  /\ q.kind \in {"create", "update", "reset", "delete", "change_password", "update_profile"}
  /\ positiveUint(q.by) # 0
  /\ q.request \notin {<<>>, Nil}

Stamping(q) == q.kind \notin {"reset", "delete"}

\* The row that tells of a change: what it left, or what it removed.
RowOf(change) == IF change.of.kind = "delete" THEN change.before ELSE change.after

\* A state of the tables, of the binlog and of the SSO's own records that requests Q led to.
Traced(s, Q) ==
  /\ \A u \in DOMAIN s.users : \E q \in Q : Shows(s.users[u], q)
  /\ \E S : s.binlog \in Seq(S)
  /\ \A i \in 1 .. Len(s.binlog) : LET change == s.binlog[i] IN
       /\ change.of \in Q
       /\ \E q \in Q : Shows(RowOf(change), q)
       /\ Stamping(change.of) => Shows(RowOf(change), change.of)
  /\ \A e \in s.security : \E q \in Q : e.operator = positiveUint(q.by) /\ e.request = q.request

LEMMA NoOperator == positiveUint(Nil) = 0
BY DEF positiveUint

LEMMA ColumnFacts ==
  /\ sys_user \in auditedTables
  /\ updated_by # request_id /\ created_by # request_id /\ updated_by # created_by
  /\ \A c \in {created_by, updated_by, request_id} : c \notin {id, email, password, password_version}
<1> DEFINE columns == <<id, email, password, password_version, created_by, updated_by, request_id>>
<1>1. \A i, j \in 1 .. 7 : i # j => columns[i] # columns[j]
  BY ProvenanceAssumption
<1> QED BY <1>1, ProvenanceAssumption

\* A column of a row that was written is as written; another is as it was.
LEMMA WrittenColumns ==
  ASSUME NEW values, NEW row, NEW c
  PROVE  At(Over(values, row), c) = IF c \in DOMAIN values THEN values[c] ELSE At(row, c)
BY DEF Over, At

\* A row with a positive updater, or without one and with a creator, names that user.
LEMMA NamedOperator ==
  ASSUME NEW row, NEW q, positiveUint(q.by) # 0,
         \/ At(row, updated_by) = q.by
         \/ At(row, updated_by) = Nil /\ At(row, created_by) = q.by
  PROVE  pickOperator(row) = positiveUint(q.by)
BY NoOperator DEF pickOperator

\* The callback leaves the operator and the id of the request in a row of the audited table.
LEMMA Stamped ==
  ASSUME NEW q, Proper(q), NEW values, updated_by \notin DOMAIN values, request_id \notin DOMAIN values
  PROVE  LET row == populateProvenance(values, sys_user, ContextOf(q), FALSE)
         IN /\ updated_by \in DOMAIN row /\ row[updated_by] = q.by
            /\ request_id \in DOMAIN row /\ row[request_id] = q.request
<1>1. q.by # Nil /\ positiveUint(q.by) # 0 /\ q.request # <<>> /\ q.request # Nil
  BY NoOperator DEF Proper
<1>2. PICK ctx : ctx = ContextOf(q)
  OBVIOUS
<1>3. ctx.operator = q.by /\ ctx.request = q.request
  BY <1>1, <1>2 DEF ContextOf, WithOperatorID, WithRequestID, Background
<1>4. /\ sys_user \in auditedTables
      /\ updated_by # request_id /\ created_by # request_id /\ updated_by # created_by
  BY ColumnFacts
<1>5. PICK stamps : stamps = {c \in {created_by, updated_by, request_id} :
                                /\ IF c = request_id THEN ctx.request # Nil ELSE ctx.operator # Nil
                                /\ c = created_by => FALSE}
  OBVIOUS
<1>6. updated_by \in stamps /\ request_id \in stamps
  BY <1>1, <1>3, <1>4, <1>5
<1>7. populateProvenance(values, sys_user, ctx, FALSE) = Stamp(values, stamps, ctx)
  BY <1>4, <1>5 DEF populateProvenance, isAuditedTable
<1>8. PICK row : row = Stamp(values, stamps, ctx)
  OBVIOUS
<1>9. /\ updated_by \in DOMAIN row /\ row[updated_by] = ctx.operator
      /\ request_id \in DOMAIN row /\ row[request_id] = ctx.request
  BY <1>4, <1>6, <1>8 DEF Stamp, Over
<1> QED BY <1>2, <1>3, <1>7, <1>8, <1>9

\* Every writer but the reset, which leaves the columns as they were, leaves its request.
LEMMA WriterShows ==
  ASSUME NEW s, NEW q, Proper(q), q.kind # "delete"
  PROVE  /\ q.kind # "reset" => Shows(RowAfter(s, q), q)
         /\ \A p : q.kind = "reset" /\ Shows(s.users[q.user], p) => Shows(RowAfter(s, q), p)
<1> DEFINE row == s.users[q.user]
<1>1. positiveUint(q.by) # 0
  BY DEF Proper
<1>2. CASE q.kind = "create"
  <2>1. PICK new : new = CreateUserTx(q)
    OBVIOUS
  <2>2. At(new, created_by) = q.by /\ At(new, updated_by) = Nil /\ At(new, request_id) = q.request
    BY <2>1, ColumnFacts DEF CreateUserTx, At
  <2>3. RowAfter(s, q) = new
    BY <1>2, <2>1 DEF RowAfter
  <2> QED BY <1>1, <1>2, <2>2, <2>3, NamedOperator DEF Shows
<1>3. CASE q.kind = "update"
  <2>1. PICK values : values = [c \in {email, updated_by, request_id} |->
                                  CASE c = email -> q.value [] c = updated_by -> q.by
                                    [] c = request_id -> q.request]
    OBVIOUS
  <2>2. /\ updated_by \in DOMAIN values /\ values[updated_by] = q.by
        /\ request_id \in DOMAIN values /\ values[request_id] = q.request
    BY <2>1, ColumnFacts
  <2>3. RowAfter(s, q) = Over(values, row)
    BY <1>3, <2>1 DEF RowAfter, UpdateUserTx
  <2>4. PICK after : after = Over(values, row)
    OBVIOUS
  <2>5. At(after, updated_by) = q.by /\ At(after, request_id) = q.request
    BY <2>2, <2>4, WrittenColumns
  <2> QED BY <1>1, <1>3, <2>3, <2>4, <2>5, NamedOperator DEF Shows
<1>4. ASSUME NEW values, updated_by \notin DOMAIN values, request_id \notin DOMAIN values,
             RowAfter(s, q) = Over(populateProvenance(values, sys_user, ContextOf(q), FALSE), row)
      PROVE  Shows(RowAfter(s, q), q)
  <2>1. PICK stamped : stamped = populateProvenance(values, sys_user, ContextOf(q), FALSE)
    OBVIOUS
  <2>2. /\ updated_by \in DOMAIN stamped /\ stamped[updated_by] = q.by
        /\ request_id \in DOMAIN stamped /\ stamped[request_id] = q.request
    BY <1>4, <2>1, Stamped
  <2>3. PICK after : after = Over(stamped, row)
    OBVIOUS
  <2>4. At(after, updated_by) = q.by /\ At(after, request_id) = q.request
    BY <2>2, <2>3, WrittenColumns
  <2> QED BY <1>1, <1>4, <2>1, <2>3, <2>4, NamedOperator DEF Shows
<1>5. CASE q.kind = "change_password"
  <2>1. PICK values : values = [c \in {password, password_version} |->
                                  IF c = password THEN q.value ELSE NextVersion(row)]
    OBVIOUS
  <2>2. updated_by \notin DOMAIN values /\ request_id \notin DOMAIN values
    BY <2>1, ColumnFacts
  <2>3. RowAfter(s, q) = Over(populateProvenance(values, sys_user, ContextOf(q), FALSE), row)
    BY <1>5, <2>1 DEF RowAfter, UpdatePassword
  <2> QED BY <1>4, <1>5, <2>2, <2>3
<1>6. CASE q.kind = "update_profile"
  <2>1. PICK values : values = [c \in {email} |-> IF q.value = <<>> THEN Nil ELSE q.value]
    OBVIOUS
  <2>2. updated_by \notin DOMAIN values /\ request_id \notin DOMAIN values
    BY <2>1, ColumnFacts
  <2>3. RowAfter(s, q) = Over(populateProvenance(values, sys_user, ContextOf(q), FALSE), row)
    BY <1>6, <2>1 DEF RowAfter, UpdateProfile
  <2> QED BY <1>4, <1>6, <2>2, <2>3
<1>7. CASE q.kind = "reset"
  <2>1. PICK values : values = [c \in {password, password_version} |->
                                  IF c = password THEN DefaultPassword ELSE NextVersion(row)]
    OBVIOUS
  <2>2. RowAfter(s, q) = Over(values, row)
    BY <1>7, <2>1 DEF RowAfter, ResetPassword
  <2>3. DOMAIN values = {password, password_version}
    BY <2>1
  <2>4. \A c \in {created_by, updated_by, request_id} : At(RowAfter(s, q), c) = At(row, c)
    BY <2>2, <2>3, ColumnFacts, WrittenColumns
  <2>5. pickOperator(RowAfter(s, q)) = pickOperator(row)
    BY <2>4 DEF pickOperator
  <2> QED BY <1>7, <2>4, <2>5 DEF Shows
<1> QED BY <1>2, <1>3, <1>5, <1>6, <1>7 DEF Proper

LEMMA Appended ==
  ASSUME NEW S, NEW log \in Seq(S), NEW x \in S
  PROVE  /\ Append(log, x) \in Seq(S)
         /\ \A i \in 1 .. Len(Append(log, x)) :
              Append(log, x)[i] = x \/ (i \in 1 .. Len(log) /\ Append(log, x)[i] = log[i])
<1>1. PICK longer, n : longer = Append(log, x) /\ n = Len(log)
  OBVIOUS
<1>2. /\ n \in Nat /\ longer \in Seq(S) /\ Len(longer) = n + 1
      /\ longer[n + 1] = x
      /\ \A i \in 1 .. n : longer[i] = log[i]
  BY <1>1
<1>3. ASSUME NEW i \in 1 .. n + 1
      PROVE  longer[i] = x \/ (i \in 1 .. n /\ longer[i] = log[i])
  <2>1. i = n + 1 \/ i \in 1 .. n
    BY <1>2
  <2> QED BY <1>2, <2>1
<1> QED BY <1>1, <1>2, <1>3

\* Serving a request appends the change it makes, and leaves who made it.
LEMMA ServeKeeps ==
  ASSUME NEW s, NEW Q, NEW q \in Q, Proper(q), Traced(s, Q)
  PROVE  Traced(Serve(s, q), Q)
<1>1. CASE ~Admitted(s, q)
  BY <1>1 DEF Serve
<1>2. CASE Admitted(s, q)
  <2>1. PICK before, after :
          /\ before = (IF q.kind = "create" THEN Nil ELSE s.users[q.user])
          /\ after = RowAfter(s, q)
    OBVIOUS
  <2>2. PICK left, change :
          /\ left = (IF after = Nil THEN DOMAIN s.users \ {q.user} ELSE DOMAIN s.users \cup {q.user})
          /\ change = [before |-> before, after |-> after, of |-> q]
    OBVIOUS
  <2>3. PICK t : t = Serve(s, q)
    OBVIOUS
  <2>4. /\ t.users = [u \in left |-> IF u = q.user THEN after ELSE s.users[u]]
        /\ t.binlog = Append(s.binlog, change)
        /\ t.security = SecurityAfter(s, q)
    BY <1>2, <2>1, <2>2, <2>3 DEF Serve
  <2>5. q.kind # "create" => \E p \in Q : Shows(before, p)
    <3>1. q.kind # "create" => q.user \in DOMAIN s.users
      BY <1>2 DEF Admitted, Proper
    <3> QED BY <2>1, <3>1 DEF Traced
  <2>6. /\ \E p \in Q : Shows(RowOf(change), p)
        /\ Stamping(q) => Shows(RowOf(change), q)
        /\ q.kind # "delete" => \E p \in Q : Shows(after, p)
    <3>1. CASE q.kind = "delete"
      BY <2>2, <2>5, <3>1 DEF RowOf, Stamping
    <3>2. CASE q.kind = "reset"
      BY <2>1, <2>2, <2>5, <3>2, WriterShows DEF RowOf, Stamping
    <3>3. CASE q.kind \notin {"delete", "reset"}
      BY <2>1, <2>2, <3>3, WriterShows DEF RowOf
    <3> QED BY <3>1, <3>2, <3>3
  <2>7. \A u \in DOMAIN t.users : \E p \in Q : Shows(t.users[u], p)
    <3>1. q.kind = "delete" => after = Nil
      BY <2>1 DEF RowAfter
    <3>2. ASSUME NEW u \in left, u # q.user PROVE u \in DOMAIN s.users
      BY <2>2, <3>2
    <3>3. q.user \in left => after # Nil
      BY <2>2
    <3> QED BY <2>4, <2>6, <3>1, <3>2, <3>3 DEF Traced
  <2>8. /\ \E S : t.binlog \in Seq(S)
        /\ \A i \in 1 .. Len(t.binlog) :
             t.binlog[i] = change \/ (i \in 1 .. Len(s.binlog) /\ t.binlog[i] = s.binlog[i])
    <3>1. PICK S : s.binlog \in Seq(S)
      BY DEF Traced
    <3>2. PICK T : T = S \cup {change}
      OBVIOUS
    <3>3. s.binlog \in Seq(T) /\ change \in T
      BY <3>1, <3>2
    <3> QED BY <2>4, <3>3, Appended
  <2>9. ASSUME NEW e \in t.security
        PROVE  \E p \in Q : e.operator = positiveUint(p.by) /\ e.request = p.request
    <3>1. e \in s.security \/ e = recordSecurityAudit(q)
      BY <2>4 DEF SecurityAfter
    <3>2. e = recordSecurityAudit(q) => e.operator = positiveUint(q.by) /\ e.request = q.request
      BY DEF recordSecurityAudit, nonEmptyPtr, Proper
    <3> QED BY <3>1, <3>2 DEF Traced
  <2>10. \A i \in 1 .. Len(t.binlog) : LET x == t.binlog[i] IN
           /\ x.of \in Q
           /\ \E p \in Q : Shows(RowOf(x), p)
           /\ Stamping(x.of) => Shows(RowOf(x), x.of)
    <3>1. change.of = q
      BY <2>2
    <3> QED BY <2>6, <2>8, <3>1 DEF Traced
  <2>11. Traced(t, Q)
    BY <2>7, <2>8, <2>9, <2>10 DEF Traced
  <2> QED BY <2>3, <2>11
<1> QED BY <1>1, <1>2

\* The state after any number of requests is that after the one before them, served.
Serves(f, requests, k) ==
  /\ DOMAIN f = 0 .. k
  /\ \A i \in 0 .. k : f[i] = IF i = 0 THEN Nothing ELSE Serve(f[i - 1], requests[i])

LEMMA HistorySteps ==
  ASSUME NEW requests, Len(requests) \in Nat
  PROVE  \E f : Serves(f, requests, Len(requests)) /\ History(requests) = f[Len(requests)]
<1> DEFINE n == Len(requests)
<1>1. n \in Nat
  OBVIOUS
<1> HIDE DEF n
<1>2. ASSUME NEW k \in Nat, k <= n PROVE \E f : Serves(f, requests, k)
  <2> DEFINE Bad == {j \in Nat : j <= n /\ ~\E f : Serves(f, requests, j)}
  <2>0. k \notin Bad => \E f : Serves(f, requests, k)
    BY <1>2
  <2> SUFFICES ASSUME Bad # {} PROVE FALSE
    BY <2>0, Zenon
  <2>1. PICK j \in Bad : \A i \in Bad : j <= i
    BY Least
  <2>2. j # 0
    <3>1. PICK f : f = [i \in 0 .. 0 |-> Nothing]
      OBVIOUS
    <3>2. Serves(f, requests, 0)
      BY <3>1 DEF Serves
    <3> QED BY <2>1, <3>2
  <2>3. j \in Nat /\ j - 1 \in Nat /\ j - 1 <= n /\ j - 1 \notin Bad
    <3>1. j \in Nat /\ j <= n
      BY <2>1
    <3>2. j - 1 \in Nat /\ j - 1 <= n /\ ~(j <= j - 1)
      BY <1>1, <2>2, <3>1
    <3> HIDE DEF Bad
    <3> QED BY <2>1, <3>1, <3>2
  <2>4. PICK f : Serves(f, requests, j - 1)
    BY <2>3
  <2>5. PICK g : g = [i \in 0 .. j |-> IF i = j THEN Serve(f[j - 1], requests[j]) ELSE f[i]]
    OBVIOUS
  <2>6. ASSUME NEW i \in 0 .. j
        PROVE  g[i] = IF i = 0 THEN Nothing ELSE Serve(g[i - 1], requests[i])
    <3>1. CASE i = j
      <4>1. j - 1 \in 0 .. j /\ j - 1 # j
        BY <2>2, <2>3
      <4>2. g[j - 1] = f[j - 1]
        BY <2>5, <4>1
      <4> QED BY <2>2, <2>5, <3>1, <4>2
    <3>2. CASE i # j
      <4>1. i \in 0 .. j - 1 /\ (i # 0 => i - 1 \in 0 .. j /\ i - 1 # j)
        BY <2>3, <3>2
      <4>2. g[i] = f[i] /\ (i # 0 => g[i - 1] = f[i - 1])
        BY <2>5, <3>2, <4>1
      <4> QED BY <2>4, <4>1, <4>2 DEF Serves
    <3> QED BY <3>1, <3>2
  <2>7. Serves(g, requests, j)
    BY <2>5, <2>6 DEF Serves
  <2> QED BY <2>1, <2>7
<1> DEFINE after == CHOOSE f : f = [i \in 0 .. n |-> IF i = 0 THEN Nothing ELSE Serve(f[i - 1], requests[i])]
<1>3. after = [i \in 0 .. n |-> IF i = 0 THEN Nothing ELSE Serve(after[i - 1], requests[i])]
  <2>1. PICK f : Serves(f, requests, n)
    BY <1>1, <1>2
  <2>2. PICK g : g = [i \in 0 .. n |-> f[i]]
    OBVIOUS
  <2>3. ASSUME NEW i \in 0 .. n
        PROVE  g[i] = IF i = 0 THEN Nothing ELSE Serve(g[i - 1], requests[i])
    <3>1. i # 0 => i - 1 \in 0 .. n
      BY <1>1
    <3> QED BY <2>1, <2>2, <3>1 DEF Serves
  <2>4. g = [i \in 0 .. n |-> IF i = 0 THEN Nothing ELSE Serve(g[i - 1], requests[i])]
    BY <2>2, <2>3
  <2> QED BY <2>4
<1> HIDE DEF after
<1>4. Serves(after, requests, n)
  BY <1>3 DEF Serves
<1>5. History(requests) = after[n]
  BY DEF History, after, n
<1> QED BY <1>4, <1>5 DEF n

\* Whatever proper requests are served, and whichever of them are refused.
LEMMA HistoryIsTraced ==
  ASSUME NEW requests, requests \in Seq(Range(requests)), \A q \in Range(requests) : Proper(q)
  PROVE  Traced(History(requests), Range(requests))
<1>1. Len(requests) \in Nat /\ \A i \in 1 .. Len(requests) : requests[i] \in Range(requests)
  OBVIOUS
<1>2. PICK f : Serves(f, requests, Len(requests)) /\ History(requests) = f[Len(requests)]
  BY <1>1, HistorySteps
<1> DEFINE Bad == {j \in Nat : j <= Len(requests) /\ ~Traced(f[j], Range(requests))}
<1> SUFFICES ASSUME Bad # {} PROVE FALSE
  BY <1>1, <1>2
<1>3. PICK j \in Bad : \A i \in Bad : j <= i
  BY Least
<1>4. j # 0
  <2>1. f[0] = Nothing
    BY <1>1, <1>2 DEF Serves
  <2>2. Nothing.users = <<>> /\ Nothing.binlog = <<>> /\ Nothing.security = {}
    BY DEF Nothing
  <2>3. DOMAIN Nothing.users = {} /\ Nothing.binlog \in Seq({}) /\ Len(Nothing.binlog) = 0
    BY <2>2
  <2>4. Traced(Nothing, Range(requests))
    BY <2>2, <2>3 DEF Traced
  <2> QED BY <1>3, <2>1, <2>4
<1>5. j \in 1 .. Len(requests) /\ j - 1 \in Nat /\ j - 1 <= Len(requests) /\ ~(j <= j - 1)
  BY <1>1, <1>3, <1>4
<1>6. Traced(f[j - 1], Range(requests))
  BY <1>3, <1>5
<1>7. f[j] = Serve(f[j - 1], requests[j])
  BY <1>2, <1>5 DEF Serves
<1>8. requests[j] \in Range(requests) /\ Proper(requests[j])
  BY <1>1, <1>5
<1>9. Traced(f[j], Range(requests))
  BY <1>6, <1>7, <1>8, ServeKeeps
<1> QED BY <1>3, <1>9

\* What is taken for granted of Canal, of the decoder and of the requests, for every message
\* that tells of changes of sys_user: they are those of a history of proper requests, each
\* with an id of its own user; and the row that is decoded at the position of a change,
\* whichever message it is delivered in, is the row that the change left or removed.
Told(Requested) ==
  \A t \in Topics :
    LET Sent == UNION {{<<p, o>> : o \in DOMAIN t[p]} : p \in Partition}
        Of(s) == t[s[1]][s[2]]
        Flats == UNION {UNION {Range(flats) : flats \in decodeMessage(Of(s).value)} : s \in Sent}
    IN \A s \in Sent : DOMAIN Of(s).edits # {} =>
         \E requests \in Requested :
           LET history == History(requests) IN
           /\ requests \in Seq(Range(requests))
           /\ \A q \in Range(requests) : Proper(q)
           /\ \A q, r \in Range(requests) : q.request = r.request => positiveUint(q.by) = positiveUint(r.by)
           /\ Of(s).security \subseteq history.security
           /\ \A key \in DOMAIN Of(s).edits : \E i \in DOMAIN history.binlog :
                /\ Of(s).edits[key] = history.binlog[i].of
                /\ \A f \in Flats : \A n \in DOMAIN f.data :
                     f.data[n] # Nil /\ dedupKey(f, n) = key => f.data[n] = RowOf(history.binlog[i])

\* A row of the table that has the key of a change names whom the row of the change shows.
LEMMA RowOfChange ==
  ASSUME AuditInv, RowsInv, NEW key \in DOMAIN audit, NEW row,
         \A s \in Slot : \A flats \in decodeMessage(Message(s).value) : \A f \in Range(flats) :
           \A n \in DOMAIN f.data : f.data[n] # Nil /\ dedupKey(f, n) = key => f.data[n] = row
  PROVE  audit[key].operator = pickOperator(row) /\ audit[key].request = nonEmptyPtr(At(row, request_id))
<1>1. audit[key] \in Made /\ audit[key].key = key
  BY DEF RowsInv
<1>2. PICK s \in Slot : \E rs \in RecordsOf(s) : audit[key] \in Range(rs)
  BY <1>1 DEF Made
<1>3. s[1] \in Partition /\ s[2] \in DOMAIN topic[s[1]] /\ topic \in Topics
  BY SlotFacts DEF AuditInv, Typed
<1>4. Message(s).value \in Values
  BY <1>3 DEF Values, Message
<1>5. PICK rs \in Decoded[Message(s).value] : audit[key] \in Range(rs)
  BY <1>2 DEF RecordsOf, Message
<1>6. PICK flats \in decodeMessage(Message(s).value) :
        \E f \in Range(flats) : \E j \in DOMAIN f.data :
          f.data[j] # Nil /\ audit[key] = buildRowRecord(f, j)
  BY <1>4, <1>5, DecodedFromRow
<1>7. PICK f \in Range(flats) : \E j \in DOMAIN f.data :
          f.data[j] # Nil /\ audit[key] = buildRowRecord(f, j)
  BY <1>6
<1>8. PICK j \in DOMAIN f.data : f.data[j] # Nil /\ audit[key] = buildRowRecord(f, j)
  BY <1>7
<1>9. /\ audit[key].key = dedupKey(f, j) /\ audit[key].operator = pickOperator(f.data[j])
      /\ audit[key].request = nonEmptyPtr(At(f.data[j], request_id))
  BY <1>8 DEF buildRowRecord
<1>10. f.data[j] = row
  BY <1>1, <1>8, <1>9
<1> QED BY <1>9, <1>10

(* Of any sequence of requests that create, update, reset or delete users, change a        *)
(* password or a profile, an audit row names the user who made the change and the request  *)
(* that did, whatever editors the row had before; and what the SSO recorded itself for the *)
(* request that a row names, names the same operator (gorm_callbacks.go:45, metadata.go:10, *)
(* request_id.go:18).                                                                      *)
THEOREM EditsStayAttributed ==
  \A Requested : Told(Requested) => (Spec => []EditsAreAttributed)
<1> SUFFICES ASSUME NEW Requested, Told(Requested) PROVE Spec => []EditsAreAttributed
  OBVIOUS
<1>1. AuditInv /\ RowsInv => EditsAreAttributed
  <2> SUFFICES ASSUME AuditInv, RowsInv, NEW s \in Slot, NEW key \in DOMAIN Message(s).edits \cap DOMAIN audit
               PROVE  LET r == Message(s).edits[key]
                      IN /\ r.kind \notin {"reset", "delete"} =>
                              audit[key].operator = positiveUint(r.by) /\ audit[key].request = r.request
                         /\ \A e \in Message(s).security :
                              e.request = audit[key].request => e.operator = audit[key].operator
    BY DEF EditsAreAttributed, Message
  <2> DEFINE Sent == UNION {{<<p, o>> : o \in DOMAIN topic[p]} : p \in Partition}
             Flats == UNION {UNION {Range(flats) : flats \in decodeMessage(Message(x).value)} : x \in Sent}
             Tells(requests, history) ==
               /\ requests \in Seq(Range(requests))
               /\ \A q \in Range(requests) : Proper(q)
               /\ \A q, r \in Range(requests) : q.request = r.request => positiveUint(q.by) = positiveUint(r.by)
               /\ Message(s).security \subseteq history.security
               /\ \E i \in DOMAIN history.binlog :
                    /\ Message(s).edits[key] = history.binlog[i].of
                    /\ \A f \in Flats : \A n \in DOMAIN f.data :
                         f.data[n] # Nil /\ dedupKey(f, n) = key => f.data[n] = RowOf(history.binlog[i])
  <2>1. Slot = Sent
    <3>1. \A p \in Partition : topic[p] \in Seq(Range(topic[p]))
      BY TopicAssumption DEF AuditInv, Typed
    <3>2. \A p \in Partition : DOMAIN topic[p] = 1 .. Len(topic[p])
      BY <3>1
    <3> QED BY <3>2 DEF Slot
  <2>2. PICK requests : Tells(requests, History(requests))
    <3>1. topic \in Topics /\ s \in Sent /\ DOMAIN Message(s).edits # {}
      BY <2>1 DEF AuditInv, Typed
    <3> QED BY <3>1 DEF Told, Message
  <2>3. PICK history, Q : history = History(requests) /\ Q = Range(requests)
    OBVIOUS
  <2>4. PICK i \in DOMAIN history.binlog :
          /\ Message(s).edits[key] = history.binlog[i].of
          /\ \A f \in Flats : \A n \in DOMAIN f.data :
               f.data[n] # Nil /\ dedupKey(f, n) = key => f.data[n] = RowOf(history.binlog[i])
    BY <2>2, <2>3
  <2>5. /\ \A q \in Q : Proper(q)
        /\ \A q, r \in Q : q.request = r.request => positiveUint(q.by) = positiveUint(r.by)
        /\ Message(s).security \subseteq history.security
        /\ Traced(history, Q)
    BY <2>2, <2>3, HistoryIsTraced
  <2>6. PICK change : change = history.binlog[i]
    OBVIOUS
  <2>7. PICK row : row = RowOf(change)
    OBVIOUS
  <2>8. /\ audit[key].operator = pickOperator(row)
        /\ audit[key].request = nonEmptyPtr(At(row, request_id))
    <3>1. ASSUME NEW x \in Slot, NEW flats \in decodeMessage(Message(x).value), NEW f \in Range(flats)
          PROVE  f \in Flats
      BY <2>1, <3>1
    <3> HIDE DEF Flats
    <3> QED BY <2>4, <2>6, <2>7, <3>1, RowOfChange
  <2> HIDE DEF Sent, Flats, Tells
  <2>9. i \in 1 .. Len(history.binlog)
    <3>1. PICK S : history.binlog \in Seq(S)
      BY <2>5 DEF Traced
    <3> QED BY <2>4, <3>1
  <2>10. /\ change.of \in Q /\ \E q \in Q : Shows(row, q)
         /\ Stamping(change.of) => Shows(row, change.of)
    BY <2>5, <2>6, <2>7, <2>9 DEF Traced
  <2>11. ASSUME NEW q \in Q, Shows(row, q)
         PROVE  audit[key].operator = positiveUint(q.by) /\ audit[key].request = q.request
    BY <2>5, <2>8, <2>11 DEF Shows, nonEmptyPtr, Proper
  <2>12. ASSUME NEW e \in Message(s).security, e.request = audit[key].request
         PROVE  e.operator = audit[key].operator
    <3>1. PICK p \in Q : e.operator = positiveUint(p.by) /\ e.request = p.request
      BY <2>5 DEF Traced
    <3>2. PICK q \in Q : Shows(row, q)
      BY <2>10
    <3> QED BY <2>5, <2>11, <2>12, <3>1, <3>2
  <2> QED BY <2>4, <2>6, <2>10, <2>11, <2>12 DEF Stamping
<1> QED BY <1>1, AlwaysRows, PTL

=============================================================================
