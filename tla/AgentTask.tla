----------------------------- MODULE AgentTask -----------------------------
(***************************************************************************)
(* The agent server: tasks that a language model works on in asyncio jobs  *)
(* of one process, and the one write they may make, granting roles in the  *)
(* OA, which its owner has to confirm first.                               *)
(*                                                                         *)
(* A handler runs without interruption up to its next await, so a step is  *)
(* what happens between two awaits.  A job is at job[t] =                  *)
(*   "none"       no job                                                   *)
(*   "scheduled"  created, and not yet started by the event loop           *)
(*   "slot"       waiting for one of the slots                             *)
(*   "reason", "tools"   the model, and the tool it called                 *)
(*   "approval"   the interrupt, or the decision it resumes with           *)
(*   "check", "write", "verify"   carrying the plan out                    *)
(*   "answer"     the graph has ended                                      *)
(*   "done"       finished, its done callback not yet run                  *)
(*                                                                         *)
(* Simplifications: of what a plan previews only whether the OA has        *)
(* changed it since, all of it compared at once; a tool that only reads    *)
(* the OA takes a step; requests come from the owner of the conversation;  *)
(* the checkpoint of the graph is what the decision resumes from.          *)
(***************************************************************************)
EXTENDS Integers, FiniteSets

CONSTANTS
  Task, Conversation,
  MaxSlots,      \* max_concurrent_tasks
  MaxSteps,      \* max_steps
  MaxCrashes,
  NoConversation

ASSUME AgentAssumption ==
  MaxSlots \in Nat \ {0} /\ MaxSteps \in Nat \ {0} /\ MaxCrashes \in Nat
    /\ NoConversation \notin Conversation

VARIABLES
  up,            \* is the process running?
  conv,          \* the conversation of each task that was sent
  task,          \* tasks.status
  plan,          \* operation_plans.status of the task's plan
  stale,         \* has the OA changed what its payload was made from?
  expired,       \* is it past expires_at?
  job,
  steps,         \* how often it called the model
  decided,       \* was the job launched by a decision?
  request,       \* the request to the OA: "none", "sent", "applied", "refused"
  crashes,
  cancels,       \* history: tasks whose cancellation was asked for
  writes,        \* history: how many requests were sent for a task's plan
  consent        \* history: tasks whose plan was confirmed before it expired

tables == <<conv, task, plan, expired>>
oa     == <<request, stale>>
run    == <<steps, decided>>
past   == <<cancels, writes, consent>>
vars   == <<up, conv, task, plan, stale, expired, job, steps, decided, request, crashes,
            cancels, writes, consent>>

Active   == {"queued", "running", "waiting_confirmation"}
Final    == {"succeeded", "failed", "cancelled"}
PlanOver == {"rejected", "expired", "conflict", "succeeded", "failed", "unknown", "cancelled"}
InSlot   == {"reason", "tools", "approval", "check", "write", "verify", "answer"}
Started  == InSlot \cup {"slot"}

Init ==
  /\ up = TRUE
  /\ conv = [t \in Task |-> NoConversation]
  /\ task = [t \in Task |-> "new"] /\ plan = [t \in Task |-> "none"]
  /\ stale = [t \in Task |-> FALSE] /\ expired = [t \in Task |-> FALSE]
  /\ job = [t \in Task |-> "none"] /\ steps = [t \in Task |-> 0] /\ decided = [t \in Task |-> FALSE]
  /\ request = [t \in Task |-> "none"]
  /\ crashes = 0
  /\ cancels = {} /\ writes = [t \in Task |-> 0] /\ consent = {}

Goto(t, at) == job' = [job EXCEPT ![t] = at]

-----------------------------------------------------------------------------
(* Handlers. *)

send(t, c) ==
  /\ up /\ task[t] = "new"
  /\ \A o \in Task : conv[o] = c => task[o] \notin Active
  /\ conv' = [conv EXCEPT ![t] = c]
  /\ task' = [task EXCEPT ![t] = "queued"]
  /\ Goto(t, "scheduled")
  /\ UNCHANGED <<up, plan, expired, run, oa, crashes, past>>

decision(t, approved) ==
  /\ up /\ job[t] = "none"
  /\ task[t] = "waiting_confirmation" /\ plan[t] = "pending"
  /\ approved => ~expired[t]
  /\ plan' = [plan EXCEPT ![t] = IF approved THEN "approved" ELSE "rejected"]
  /\ task' = [task EXCEPT ![t] = "queued"]
  /\ Goto(t, "scheduled")
  /\ decided' = [decided EXCEPT ![t] = TRUE] /\ UNCHANGED steps
  /\ consent' = IF approved THEN consent \cup {t} ELSE consent
  /\ UNCHANGED <<up, conv, expired, oa, crashes, cancels, writes>>

(* Mutant: only what is being written is given up. *)
FailedExecuting(p) == IF p = "executing" THEN "unknown" ELSE p

(* What fail makes of a plan. *)
Failed(p) ==
  CASE p = "executing"               -> "unknown"
    [] p \in {"pending", "approved"} -> "cancelled"
    [] OTHER                         -> p

fail(t, status) ==
  /\ plan' = [plan EXCEPT ![t] = Failed(@)]
  /\ task' = [task EXCEPT ![t] = status]

(* A job that has not started ends without a trace, and so does the request that *)
(* cancelled it (only one of a decision: nobody knows the id of a task yet that  *)
(* was just sent); a job that is done is awaited for nothing.                    *)
cancel(t) ==
  /\ up /\ task[t] \in Active
  /\ CASE job[t] = "none"      -> fail(t, "cancelled") /\ UNCHANGED job
       [] job[t] = "scheduled" -> decided[t] /\ Goto(t, "none") /\ UNCHANGED <<task, plan>>
       [] job[t] = "done"      -> UNCHANGED <<task, plan, job>>
       [] job[t] \in Started   -> fail(t, "cancelled") /\ Goto(t, "done")
  /\ cancels' = cancels \cup {t}
  /\ UNCHANGED <<up, conv, expired, run, oa, crashes, writes, consent>>

-----------------------------------------------------------------------------
(* Runtime.run. *)

Start(t) ==
  /\ up /\ job[t] = "scheduled"
  /\ Goto(t, "slot")
  /\ UNCHANGED <<up, tables, run, oa, crashes, past>>

(* Mutant: no slot is waited for. *)
RunAtOnce(t) ==
  /\ up /\ job[t] = "slot"
  /\ task' = [task EXCEPT ![t] = "running"]
  /\ Goto(t, IF decided[t] THEN "approval" ELSE "reason")
  /\ UNCHANGED <<up, conv, plan, expired, run, oa, crashes, past>>

Run(t) ==
  /\ up /\ job[t] = "slot"
  /\ Cardinality({o \in Task : job[o] \in InSlot}) < MaxSlots
  /\ task' = [task EXCEPT ![t] = "running"]
  /\ Goto(t, IF decided[t] THEN "approval" ELSE "reason")
  /\ UNCHANGED <<up, conv, plan, expired, run, oa, crashes, past>>

(* An error of a service, of the model or of a table, or the time limit of the task. *)
RunFails(t) ==
  /\ up /\ job[t] \in InSlot
  /\ fail(t, "failed")
  /\ Goto(t, "done")
  /\ UNCHANGED <<up, conv, expired, run, oa, crashes, past>>

finish(t) ==
  /\ up /\ job[t] = "answer"
  /\ task' = [task EXCEPT ![t] =
       CASE plan[t] \in {"failed", "unknown", "conflict", "expired"} -> "failed"
         [] plan[t] = "rejected" -> "cancelled"
         [] OTHER -> "succeeded"]
  /\ Goto(t, "done")
  /\ UNCHANGED <<up, conv, plan, expired, run, oa, crashes, past>>

doneCallback(t) ==
  /\ up /\ job[t] = "done"
  /\ Goto(t, "none")
  /\ UNCHANGED <<up, tables, run, oa, crashes, past>>

-----------------------------------------------------------------------------
(* The graph. *)

(* Mutant: the steps are not counted. *)
reasonOn(t) ==
  /\ up /\ job[t] = "reason"
  /\ Goto(t, "tools") \/ Goto(t, "answer")
  /\ UNCHANGED <<up, tables, run, oa, crashes, past>>

reason(t) ==
  /\ up /\ job[t] = "reason"
  /\ \/ Goto(t, "answer") /\ UNCHANGED steps
     \/ steps[t] < MaxSteps /\ Goto(t, "tools") /\ steps' = [steps EXCEPT ![t] = @ + 1]
  /\ UNCHANGED <<up, tables, decided, oa, crashes, past>>

read_or_plan(t) ==
  /\ up /\ job[t] = "tools"
  /\ \/ Goto(t, "reason") /\ UNCHANGED plan
     \/ /\ plan' = [plan EXCEPT ![t] = "pending"]
        /\ Goto(t, "approval")
  /\ UNCHANGED <<up, conv, task, expired, run, oa, crashes, past>>

interrupt(t) ==
  /\ up /\ job[t] = "approval" /\ ~decided[t]
  /\ task' = [task EXCEPT ![t] = "waiting_confirmation"]
  /\ Goto(t, "done")
  /\ UNCHANGED <<up, conv, plan, expired, run, oa, crashes, past>>

(* execute, up to its first read: a plan that is neither is an error. *)
execute(t) ==
  /\ up /\ job[t] = "approval" /\ decided[t]
  /\ CASE plan[t] = "rejected" \/ plan[t] = "succeeded" -> Goto(t, "answer") /\ UNCHANGED <<plan, task>>
       [] plan[t] = "approved" /\ expired[t] ->
            plan' = [plan EXCEPT ![t] = "expired"] /\ Goto(t, "answer") /\ UNCHANGED task
       [] plan[t] = "approved" /\ ~expired[t] -> Goto(t, "check") /\ UNCHANGED <<plan, task>>
       [] OTHER -> fail(t, "failed") /\ Goto(t, "done")
  /\ UNCHANGED <<up, conv, expired, run, oa, crashes, past>>

(* The preview is compared with the OA, and the request sent if nothing has changed. *)
recheck(t) ==
  /\ up /\ job[t] = "check"
  /\ IF ~stale[t]
     THEN /\ plan' = [plan EXCEPT ![t] = "executing"]
          /\ request' = [request EXCEPT ![t] = "sent"]
          /\ writes' = [writes EXCEPT ![t] = @ + 1]
          /\ Goto(t, "write")
     ELSE plan' = [plan EXCEPT ![t] = "conflict"] /\ Goto(t, "answer") /\ UNCHANGED <<request, writes>>
  /\ UNCHANGED <<up, conv, task, expired, run, stale, crashes, cancels, consent>>

Outcome(t, status) ==
  /\ plan' = [plan EXCEPT ![t] = status]
  /\ Goto(t, "answer")
  /\ UNCHANGED <<up, conv, task, expired, run, oa, crashes, past>>

accepted(t) ==
  /\ up /\ job[t] = "write" /\ request[t] = "applied"
  /\ Goto(t, "verify")
  /\ UNCHANGED <<up, tables, run, oa, crashes, past>>

refused(t) == up /\ job[t] = "write" /\ request[t] = "refused" /\ Outcome(t, "failed")

(* Mutant: no answer is taken for a refusal. *)
interruptedFailed(t) == up /\ job[t] = "write" /\ Outcome(t, "failed")

(* The answer did not come in time, or not from the OA itself. *)
interrupted(t) == up /\ job[t] = "write" /\ Outcome(t, "unknown")

(* The roles are read back; somebody may have taken them away again, or the OA not answer. *)
verify(t) == up /\ job[t] = "verify" /\ (Outcome(t, "succeeded") \/ Outcome(t, "unknown"))

-----------------------------------------------------------------------------
(* The OA: a request may reach it at any time after it was sent, or never. *)

Apply(t) ==
  /\ request[t] = "sent"
  /\ request' = [request EXCEPT ![t] = "applied"]
  /\ UNCHANGED <<up, tables, job, run, stale, crashes, past>>

Refuse(t) ==
  /\ request[t] = "sent"
  /\ request' = [request EXCEPT ![t] = "refused"]
  /\ UNCHANGED <<up, tables, job, run, stale, crashes, past>>

(* Somebody, or the plan of another task, changes what a plan was made from. *)
OaChanges(t) ==
  /\ plan[t] \in {"pending", "approved"} /\ ~stale[t]       \* later, nothing compares it
  /\ stale' = [stale EXCEPT ![t] = TRUE]
  /\ UNCHANGED <<up, tables, job, run, request, crashes, past>>

Expire(t) ==
  /\ plan[t] \in {"pending", "approved"} /\ ~expired[t]   \* later, nothing reads it
  /\ expired' = [expired EXCEPT ![t] = TRUE]
  /\ UNCHANGED <<up, conv, task, plan, job, run, oa, crashes, past>>

-----------------------------------------------------------------------------
(* The process. *)

Crash ==
  /\ up /\ crashes < MaxCrashes
  /\ up' = FALSE
  /\ crashes' = crashes + 1
  /\ job' = [t \in Task |-> "none"]
  /\ UNCHANGED <<tables, run, oa, past>>

(* Runtime.close: the jobs are cancelled; those that had not started leave no trace. *)
Close ==
  /\ up /\ crashes < MaxCrashes
  /\ up' = FALSE
  /\ crashes' = crashes + 1
  /\ plan' = [t \in Task |-> IF job[t] \in Started THEN Failed(plan[t]) ELSE plan[t]]
  /\ task' = [t \in Task |-> IF job[t] \in Started THEN "cancelled" ELSE task[t]]
  /\ job' = [t \in Task |-> "none"]
  /\ UNCHANGED <<conv, expired, run, oa, past>>

(* Mutant: a write that was under way is put back to its owner. *)
recoverAsking ==
  /\ ~up
  /\ up' = TRUE
  /\ LET cut == {t \in Task : task[t] \in {"queued", "running"}}
     IN /\ task' = [t \in Task |->
              CASE t \in cut /\ plan[t] = "executing" -> "waiting_confirmation"
                [] t \in cut /\ plan[t] # "executing" -> "failed"
                [] OTHER -> task[t]]
        /\ plan' = [t \in Task |->
              CASE t \in cut /\ plan[t] \in {"pending", "approved"} -> "cancelled"
                [] plan[t] = "executing" -> "pending"
                [] OTHER -> plan[t]]
  /\ UNCHANGED <<conv, expired, job, run, oa, crashes, past>>

(* Mutant: only the tasks that were running are recovered. *)
recoverRunning ==
  /\ ~up
  /\ up' = TRUE
  /\ LET cut == {t \in Task : task[t] = "running"}
     IN /\ task' = [t \in Task |-> IF t \in cut THEN "failed" ELSE task[t]]
        /\ plan' = [t \in Task |->
              CASE t \in cut /\ plan[t] \in {"pending", "approved"} -> "cancelled"
                [] plan[t] = "executing" -> "unknown"
                [] OTHER -> plan[t]]
  /\ UNCHANGED <<conv, expired, job, run, oa, crashes, past>>

recover_interrupted_runs ==
  /\ ~up
  /\ up' = TRUE
  /\ LET cut == {t \in Task : task[t] \in {"queued", "running"}}
     IN /\ task' = [t \in Task |-> IF t \in cut THEN "failed" ELSE task[t]]
        /\ plan' = [t \in Task |->
              CASE t \in cut /\ plan[t] \in {"pending", "approved"} -> "cancelled"
                [] plan[t] = "executing" -> "unknown"
                [] OTHER -> plan[t]]
  /\ UNCHANGED <<conv, expired, job, run, oa, crashes, past>>

-----------------------------------------------------------------------------
Job(t) ==
  \/ Start(t) \/ Run(t) \/ finish(t) \/ doneCallback(t) \/ reason(t) \/ read_or_plan(t)
  \/ interrupt(t) \/ execute(t) \/ recheck(t) \/ accepted(t) \/ refused(t) \/ interrupted(t)
  \/ verify(t)

Next ==
  \/ \E t \in Task :
       \/ Job(t) \/ RunFails(t) \/ cancel(t) \/ Apply(t) \/ Refuse(t) \/ OaChanges(t) \/ Expire(t)
       \/ \E c \in Conversation : send(t, c)
       \/ \E approved \in BOOLEAN : decision(t, approved)
  \/ Crash \/ Close \/ recover_interrupted_runs

Spec == Init /\ [][Next]_vars

(* The event loop runs the jobs that are ready, and the service is started again. *)
FairSpec ==
  /\ Spec
  /\ \A t \in Task : WF_vars(Job(t))
  /\ WF_vars(recover_interrupted_runs)

-----------------------------------------------------------------------------
(* Properties. *)

(* Every status is one the code writes, a task has a conversation once it was sent, and *)
(* the slots are not exceeded (store.py:38, runtime.py:22).                             *)
AgentTypeOK ==
  /\ up \in BOOLEAN
  /\ task \in [Task -> {"new"} \cup Active \cup Final]
  /\ plan \in [Task -> {"none", "pending", "approved", "executing"} \cup PlanOver]
  /\ job \in [Task -> {"none", "scheduled", "done"} \cup Started]
  /\ request \in [Task -> {"none", "sent", "applied", "refused"}]
  /\ \A t \in Task : task[t] = "new" <=> conv[t] = NoConversation
  /\ Cardinality({t \in Task : job[t] \in InSlot}) <= MaxSlots

(* The roles of a plan are requested at most once, and only if its owner confirmed it in *)
(* time, through cancellations, failures and restarts (README.md:9, store.py:110).       *)
WrittenOnceAsConfirmed == \A t \in Task : writes[t] <= 1 /\ (writes[t] = 1 => t \in consent)

(* What the owner is told of a plan is true of the OA, whenever the request arrives there: *)
(* roles that were granted never hide behind a plan that says they were not, and a plan    *)
(* that says so has granted them (graph.py:363).                                           *)
OutcomeIsTrue ==
  \A t \in Task :
    /\ request[t] \in {"sent", "applied"} => plan[t] \in {"executing", "succeeded", "unknown"}
    /\ plan[t] = "succeeded" => request[t] = "applied"

(* When a task is over, so is its plan: nothing can carry it out later (runtime.py:106). *)
SettledTogether == \A t \in Task : task[t] \in Final => plan[t] \in {"none"} \cup PlanOver

(* A task that is queued or running has a job that carries it on, unless somebody asked to *)
(* cancel it just when its job had been created (main.py:264, runtime.py:37).              *)
OnlyCancelStrands ==
  \A t \in Task : up /\ task[t] \in {"queued", "running"} /\ job[t] = "none" => t \in cancels

(* A task that has been sent comes to its end or to its owner's decision, across restarts, *)
(* unless its cancellation was asked for (README.md:56).                                   *)
TaskSettles ==
  \A t \in Task :
    (task[t] = "queued") ~> (task[t] \in Final \cup {"waiting_confirmation"} \/ t \in cancels)

=============================================================================
