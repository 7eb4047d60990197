---------------------------- MODULE AgentProofs ----------------------------
(***************************************************************************)
(* Proofs about AgentTask, for every number of tasks, conversations,       *)
(* slots, steps and restarts.                                              *)
(*                                                                         *)
(* A task is touched by its own actions and by the process as a whole, so  *)
(* the inductive invariant is one about each task, TaskInv: what its job   *)
(* is at says what its plan and its request to the OA can be.  The slots   *)
(* are the one thing that tasks share, and have an invariant of their own. *)
(***************************************************************************)
EXTENDS AgentTask, FiniteSetTheorems, TLAPS

StatusOK ==
  /\ up \in BOOLEAN
  /\ conv \in [Task -> Conversation \cup {NoConversation}]
  /\ task \in [Task -> {"new"} \cup Active \cup Final]
  /\ plan \in [Task -> {"none", "pending", "approved", "executing"} \cup PlanOver]
  /\ job \in [Task -> {"none", "scheduled", "done"} \cup Started]
  /\ request \in [Task -> {"none", "sent", "applied", "refused"}]
  /\ decided \in [Task -> BOOLEAN]
  /\ writes \in [Task -> Nat]

\* A plan is made before any decision, and once.
PlanOnce(t) ==
  /\ job[t] \in {"reason", "tools"} => plan[t] = "none"
  /\ job[t] \in {"scheduled", "slot"} /\ ~decided[t] => plan[t] = "none"
  /\ job[t] = "approval" /\ ~decided[t] => plan[t] = "pending"
  /\ job[t] \in {"check", "write", "verify"} => decided[t]
  /\ task[t] = "new" => job[t] = "none" /\ plan[t] = "none" /\ ~decided[t]
  /\ decided[t] => plan[t] \notin {"none", "pending"}
  /\ task[t] = "new" <=> conv[t] = NoConversation

\* Nothing is requested before the plan is carried out, and what has been
\* requested shows in the plan.
WriteInv(t) ==
  /\ plan[t] \in {"none", "pending", "approved"} => writes[t] = 0
  /\ writes[t] = 0 => request[t] = "none"
  /\ writes[t] <= 1
  /\ writes[t] = 1 \/ plan[t] = "approved" => t \in consent
  /\ job[t] = "check" => plan[t] = "approved"
  /\ job[t] = "write" => plan[t] = "executing"
  /\ job[t] = "verify" => plan[t] = "executing" /\ request[t] = "applied"
  /\ request[t] \in {"sent", "applied"} => plan[t] \in {"executing", "succeeded", "unknown"}
  /\ plan[t] = "succeeded" => request[t] = "applied"

\* A job that is under way belongs to a task that is not over.
JobInv(t) ==
  /\ job[t] \in Started \cup {"scheduled"} => task[t] \in {"queued", "running"}
  /\ job[t] = "done" => task[t] \in Final \cup {"waiting_confirmation"}
  /\ job[t] = "answer" => plan[t] \in {"none"} \cup PlanOver
  /\ task[t] \in Final => plan[t] \in {"none"} \cup PlanOver
  /\ up /\ task[t] \in {"queued", "running"} /\ job[t] = "none" => t \in cancels
  /\ ~up => job[t] = "none"

TaskInv(t) == PlanOnce(t) /\ WriteInv(t) /\ JobInv(t)

IInv == StatusOK /\ \A t \in Task : TaskInv(t)

\* The tasks that hold a slot.
Holding == {t \in Task : job[t] \in InSlot}

SlotInv == IsFiniteSet(Holding) /\ Cardinality(Holding) <= MaxSlots

-----------------------------------------------------------------------------
LEMMA InitIInv == Init => IInv
BY AgentAssumption DEF Init, IInv, StatusOK, TaskInv, PlanOnce, WriteInv, JobInv, Started, InSlot, Active,
   Final, PlanOver

\* What fail makes of a plan is a plan that is over, and a request that may be
\* on its way leaves the plan "unknown".
LEMMA FailedIsOver ==
  ASSUME NEW p \in {"none", "pending", "approved", "executing"} \cup PlanOver
  PROVE  /\ Failed(p) \in {"none"} \cup PlanOver
         /\ Failed(p) = "none" <=> p = "none"
         /\ Failed(p) = "succeeded" <=> p = "succeeded"
         /\ p \in {"executing", "succeeded", "unknown"} => Failed(p) \in {"succeeded", "unknown"}
BY DEF Failed, PlanOver

\* The handlers of requests.
LEMMA HandlerKeeps ==
  ASSUME IInv, NEW t \in Task,
         \/ \E c \in Conversation : send(t, c)
         \/ \E approved \in BOOLEAN : decision(t, approved)
         \/ cancel(t)
  PROVE  IInv'
<1> USE DEF IInv, StatusOK, TaskInv, PlanOnce, WriteInv, JobInv, Goto, tables, oa, run, past
<1>1. ASSUME NEW c \in Conversation, send(t, c) PROVE IInv'
  BY <1>1, AgentAssumption DEF send, Active, Final, PlanOver, Started, InSlot
<1>2. ASSUME NEW approved \in BOOLEAN, decision(t, approved) PROVE IInv'
  BY <1>2 DEF decision, Active, Final, PlanOver, Started, InSlot
<1>3. CASE cancel(t)
  <2>1. CASE job[t] = "none"
    BY <1>3, <2>1, FailedIsOver DEF cancel, fail, Active, Final, PlanOver, Started, InSlot
  <2>2. CASE job[t] = "scheduled"
    BY <1>3, <2>2 DEF cancel, Active, Final, PlanOver, Started, InSlot
  <2>3. CASE job[t] = "done"
    BY <1>3, <2>3 DEF cancel, Active, Final, PlanOver, Started, InSlot
  <2>4. CASE job[t] \in Started
    <3>1. job[t] \notin {"none", "scheduled", "done"}
      BY <2>4 DEF Started, InSlot
    <3>2. fail(t, "cancelled") /\ Goto(t, "done")
      BY <1>3, <2>4, <3>1 DEF cancel
    <3> QED BY <1>3, <3>1, <3>2, <2>4, FailedIsOver DEF cancel, fail, Active, Final, PlanOver, Started, InSlot
  <2> QED BY <2>1, <2>2, <2>3, <2>4
<1> QED BY <1>1, <1>2, <1>3

\* The job: up to the interrupt.
LEMMA ReasoningKeeps ==
  ASSUME IInv, NEW t \in Task,
         \/ Start(t) \/ Run(t) \/ finish(t) \/ doneCallback(t) \/ reason(t)
         \/ read_or_plan(t) \/ interrupt(t)
  PROVE  IInv'
<1> USE DEF IInv, StatusOK, TaskInv, PlanOnce, WriteInv, JobInv, Goto, tables, oa, run, past,
            Active, Final, PlanOver, Started, InSlot
<1>1. CASE Start(t) BY <1>1 DEF Start
<1>2. CASE Run(t) BY <1>2 DEF Run
<1>3. CASE finish(t) BY <1>3 DEF finish
<1>4. CASE doneCallback(t) BY <1>4 DEF doneCallback
<1>5. CASE reason(t) BY <1>5 DEF reason
<1>6. CASE read_or_plan(t) BY <1>6 DEF read_or_plan
<1>7. CASE interrupt(t) BY <1>7 DEF interrupt
<1> QED BY <1>1, <1>2, <1>3, <1>4, <1>5, <1>6, <1>7

\* The job: carrying the plan out.
LEMMA WritingKeeps ==
  ASSUME IInv, NEW t \in Task,
         \/ execute(t) \/ recheck(t) \/ accepted(t) \/ refused(t) \/ interrupted(t)
         \/ verify(t) \/ RunFails(t)
  PROVE  IInv'
<1> USE DEF IInv, StatusOK, TaskInv, PlanOnce, WriteInv, JobInv, Goto, tables, oa, run, past
<1>1. CASE execute(t)
  <2>1. CASE plan[t] \in {"rejected", "succeeded"}
    BY <1>1, <2>1 DEF execute, Active, Final, PlanOver, Started, InSlot
  <2>2. CASE plan[t] = "approved" /\ expired[t]
    <3>1. plan' = [plan EXCEPT ![t] = "expired"] /\ Goto(t, "answer") /\ UNCHANGED task
      BY <1>1, <2>2 DEF execute
    <3> QED BY <1>1, <2>2, <3>1 DEF execute, Active, Final, PlanOver, Started, InSlot
  <2>4. CASE plan[t] = "approved" /\ ~expired[t]
    <3>1. Goto(t, "check") /\ UNCHANGED <<plan, task>>
      BY <1>1, <2>4 DEF execute
    <3> QED BY <1>1, <2>4, <3>1 DEF execute, Active, Final, PlanOver, Started, InSlot
  <2>3. CASE plan[t] \notin {"rejected", "succeeded", "approved"}
    <3>1. fail(t, "failed") /\ Goto(t, "done")
      BY <1>1, <2>3 DEF execute
    <3> QED BY <1>1, <3>1, FailedIsOver DEF execute, fail, Active, Final, PlanOver, Started, InSlot
  <2> QED BY <2>1, <2>2, <2>3, <2>4
<1>2. CASE recheck(t)
  BY <1>2 DEF recheck, Active, Final, PlanOver, Started, InSlot
<1>3. CASE accepted(t)
  BY <1>3 DEF accepted, Active, Final, PlanOver, Started, InSlot
<1>4. CASE refused(t)
  BY <1>4 DEF refused, Outcome, Active, Final, PlanOver, Started, InSlot
<1>5. CASE interrupted(t)
  BY <1>5 DEF interrupted, Outcome, Active, Final, PlanOver, Started, InSlot
<1>6. CASE verify(t)
  <2>1. ASSUME Outcome(t, "succeeded") PROVE IInv'
    BY <1>6, <2>1 DEF verify, Outcome, Active, Final, PlanOver, Started, InSlot
  <2>2. ASSUME Outcome(t, "unknown") PROVE IInv'
    BY <1>6, <2>2 DEF verify, Outcome, Active, Final, PlanOver, Started, InSlot
  <2> QED BY <1>6, <2>1, <2>2 DEF verify
<1>7. CASE RunFails(t)
  BY <1>7, FailedIsOver DEF RunFails, fail, Active, Final, PlanOver, Started, InSlot
<1> QED BY <1>1, <1>2, <1>3, <1>4, <1>5, <1>6, <1>7

\* The OA, the clock and the process.
LEMMA WorldKeeps ==
  ASSUME IInv,
         \/ \E t \in Task : Apply(t) \/ Refuse(t) \/ OaChanges(t) \/ Expire(t)
         \/ Crash \/ Close \/ recover_interrupted_runs \/ UNCHANGED vars
  PROVE  IInv'
<1> USE DEF IInv, StatusOK, TaskInv, PlanOnce, WriteInv, JobInv, tables, oa, run, past
<1>1. ASSUME NEW t \in Task, Apply(t) \/ Refuse(t) PROVE IInv'
  BY <1>1 DEF Apply, Refuse
<1>2. ASSUME NEW t \in Task, OaChanges(t) \/ Expire(t) PROVE IInv'
  BY <1>2 DEF OaChanges, Expire
<1>3. CASE Crash
  <2>1. /\ UNCHANGED <<task, plan, conv, cancels, request, writes, consent, decided>>
        /\ up' = FALSE /\ \A t \in Task : job'[t] = "none"
    BY <1>3 DEF Crash
  <2>2. ASSUME NEW t \in Task PROVE TaskInv(t)'
    <3>1. PlanOnce(t)' /\ WriteInv(t)'
      BY <2>1
    <3>2. JobInv(t)'
      <4> HIDE DEF JobInv, PlanOnce, WriteInv, StatusOK
      <4>1. JobInv(t)
        OBVIOUS
      <4>2. job'[t] = "none" /\ up' = FALSE /\ task' = task /\ plan' = plan /\ cancels' = cancels
        BY <2>1
      <4> USE DEF JobInv
      <4> QED BY <4>1, <4>2 DEF Started, InSlot
    <3> QED BY <3>1, <3>2
  <2>3. StatusOK'
    BY <1>3, <2>1 DEF Crash
  <2> QED BY <2>2, <2>3
<1>4. CASE Close
  <2>1. ASSUME NEW t \in Task
        PROVE  /\ Failed(plan[t]) \in {"none"} \cup PlanOver
               /\ Failed(plan[t]) = "none" <=> plan[t] = "none"
               /\ Failed(plan[t]) = "succeeded" <=> plan[t] = "succeeded"
               /\ plan[t] \in {"executing", "succeeded", "unknown"}
                    => Failed(plan[t]) \in {"succeeded", "unknown"}
    BY FailedIsOver
  <2>2. StatusOK'
    BY <1>4, <2>1 DEF Close, Final
  <2>3. ASSUME NEW t \in Task, job[t] \in Started PROVE TaskInv(t)'
    BY <1>4, <2>1, <2>3 DEF Close, Active, Final, PlanOver, Started, InSlot
  <2>4. ASSUME NEW t \in Task, job[t] \notin Started PROVE TaskInv(t)'
    BY <1>4, <2>4 DEF Close, Active, Final, PlanOver, Started, InSlot
  <2> QED BY <2>2, <2>3, <2>4
<1>5. CASE recover_interrupted_runs
  BY <1>5 DEF recover_interrupted_runs, Active, Final, PlanOver, Started, InSlot
<1>6. CASE UNCHANGED vars
  BY <1>6 DEF vars
<1> QED BY <1>1, <1>2, <1>3, <1>4, <1>5, <1>6

LEMMA NextIInv == IInv /\ [Next]_vars => IInv'
BY HandlerKeeps, ReasoningKeeps, WritingKeeps, WorldKeeps DEF Next, Job

LEMMA SpecIInv == Spec => []IInv
BY InitIInv, NextIInv, PTL DEF Spec

-----------------------------------------------------------------------------
\* The slots.

\* A step that takes no slot.
LEMMA FewerHold ==
  ASSUME SlotInv, Holding' \subseteq Holding
  PROVE  SlotInv'
BY AgentAssumption, FS_Subset, FS_CardinalityType DEF SlotInv

LEMMA RunTakesOne ==
  ASSUME IInv, SlotInv, NEW t \in Task, Run(t)
  PROVE  SlotInv'
<1>1. Holding' = Holding \cup {t} /\ t \notin Holding
  BY DEF Run, Goto, Holding, InSlot, IInv, StatusOK
<1>2. Cardinality(Holding) < MaxSlots
  BY DEF Run, Holding
<1>3. IsFiniteSet(Holding') /\ Cardinality(Holding') = Cardinality(Holding) + 1
  BY <1>1, FS_AddElement DEF SlotInv
<1> QED BY <1>2, <1>3, AgentAssumption, FS_CardinalityType DEF SlotInv

LEMMA NextSlots == IInv /\ SlotInv /\ [Next]_vars => SlotInv'
<1> SUFFICES ASSUME IInv, SlotInv, [Next]_vars PROVE SlotInv'
  OBVIOUS
<1> USE DEF Holding, Goto, tables, oa, run, past
<1>1. ASSUME NEW t \in Task, Run(t) PROVE SlotInv'
  BY <1>1, RunTakesOne
<1>2. ASSUME NEW t \in Task,
             \/ \E c \in Conversation : send(t, c)
             \/ \E approved \in BOOLEAN : decision(t, approved)
             \/ cancel(t)
      PROVE  Holding' \subseteq Holding
  BY <1>2 DEF send, decision, cancel, IInv, StatusOK, InSlot
<1>3. ASSUME NEW t \in Task,
             \/ Start(t) \/ finish(t) \/ doneCallback(t) \/ reason(t) \/ read_or_plan(t)
             \/ interrupt(t) \/ execute(t) \/ recheck(t) \/ accepted(t) \/ refused(t)
             \/ interrupted(t) \/ verify(t) \/ RunFails(t)
      PROVE  Holding' \subseteq Holding
  BY <1>3 DEF Start, finish, doneCallback, reason, read_or_plan, interrupt, execute, recheck, accepted,
              refused, interrupted, Outcome, verify, RunFails, IInv, StatusOK, InSlot
<1>4. ASSUME NEW t \in Task, Apply(t) \/ Refuse(t) \/ OaChanges(t) \/ Expire(t)
      PROVE  Holding' \subseteq Holding
  BY <1>4 DEF Apply, Refuse, OaChanges, Expire
<1>5. ASSUME Crash \/ Close \/ recover_interrupted_runs \/ UNCHANGED vars
      PROVE  Holding' \subseteq Holding
  BY <1>5 DEF Crash, Close, recover_interrupted_runs, vars, InSlot
<1> QED BY <1>1, <1>2, <1>3, <1>4, <1>5, FewerHold DEF Next, Job

LEMMA SpecSlots == Spec => []SlotInv
<1>1. Init => SlotInv
  <2> SUFFICES ASSUME Init PROVE SlotInv
    OBVIOUS
  <2>1. Holding = {}
    BY DEF Init, Holding, InSlot
  <2> QED BY <2>1, FS_EmptySet, AgentAssumption DEF SlotInv
<1> QED BY <1>1, NextSlots, SpecIInv, PTL DEF Spec

-----------------------------------------------------------------------------
\* Every variable keeps its type, and no more jobs run than there are slots
\* (runtime.py:22), however many tasks are sent, cancelled and resumed.
THEOREM AgentTypeCorrect == Spec => []AgentTypeOK
<1>1. IInv /\ SlotInv => AgentTypeOK
  BY DEF IInv, StatusOK, TaskInv, PlanOnce, SlotInv, Holding, AgentTypeOK
<1> QED BY <1>1, SpecIInv, SpecSlots, PTL

\* The OA is asked to carry a plan out at most once, and only after its owner
\* confirmed it in time: no retry, cancellation or restart repeats the write
\* (graph.py:295-347, store.py:109-124).
THEOREM WriteIsConfirmedOnce == Spec => []WrittenOnceAsConfirmed
<1>1. IInv => WrittenOnceAsConfirmed
  BY DEF IInv, StatusOK, TaskInv, WriteInv, WrittenOnceAsConfirmed
<1> QED BY <1>1, SpecIInv, PTL

\* What a plan says of its write is what the OA did with it, whenever the
\* request arrives there (graph.py:346-374).
THEOREM OutcomeIsTold == Spec => []OutcomeIsTrue
<1>1. IInv => OutcomeIsTrue
  BY DEF IInv, TaskInv, WriteInv, OutcomeIsTrue
<1> QED BY <1>1, SpecIInv, PTL

\* A task that is over has no plan left that could be carried out
\* (runtime.py:104-110).
THEOREM TaskAndPlanSettle == Spec => []SettledTogether
<1>1. IInv => SettledTogether
  BY DEF IInv, TaskInv, JobInv, SettledTogether
<1> QED BY <1>1, SpecIInv, PTL

\* A queued or running task without a job had its cancellation asked for
\* (main.py:264): no other order of handlers, jobs and restarts strands one.
THEOREM StrandedWasCancelled == Spec => []OnlyCancelStrands
<1>1. IInv => OnlyCancelStrands
  BY DEF IInv, TaskInv, JobInv, OnlyCancelStrands
<1> QED BY <1>1, SpecIInv, PTL

=============================================================================
