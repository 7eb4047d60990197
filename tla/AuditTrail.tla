----------------------------- MODULE AuditTrail -----------------------------
(***************************************************************************)
(* What the audit consumer promises of a log of messages, some of which    *)
(* are damaged: an audit table that only ever shows changes the log tells  *)
(* of, once each; a list of the damaged messages that were met; and an     *)
(* acknowledgement that never covers a message of which nothing was kept.  *)
(***************************************************************************)
EXTENDS FiniteSets

VARIABLES
  log,           \* the messages: [id, sound, rows]
  recorded,      \* the rows of the audit table
  reported,      \* messages set aside as damaged, by id
  acked          \* messages that will not be delivered again, by id

vars == <<log, recorded, reported, acked>>

Accounted(m) == IF m.sound THEN m.rows \subseteq recorded ELSE m.id \in reported

Init == recorded = {} /\ reported = {} /\ acked = {}

Record ==
  /\ recorded \subseteq recorded'
  /\ recorded' \subseteq recorded \cup UNION {m.rows : m \in {m \in log : m.sound}}
  /\ UNCHANGED <<log, reported, acked>>

Report(m) ==
  /\ ~m.sound
  /\ reported' = reported \cup {m.id}
  /\ UNCHANGED <<log, recorded, acked>>

(* A message may be delivered again after it was acknowledged. *)
Acknowledge ==
  /\ acked' \subseteq {m.id : m \in {m \in log : Accounted(m)}}
  /\ UNCHANGED <<log, recorded, reported>>

Next == Record \/ Acknowledge \/ \E m \in log : Report(m)

Spec == Init /\ [][Next]_vars

=============================================================================
