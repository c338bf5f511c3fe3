----------------------------- MODULE Controller -----------------------------
(***************************************************************************)
(* BoundedCognitiveController: the durable run of one task.  Runners are   *)
(* calls of start, Cancellers of cancel, Continuers of continue_run, all   *)
(* for the same task run, possibly in different processes.  They share     *)
(* nothing but the task-run stream of the event store, to which each       *)
(* appends one event at a time at the version it expects.                  *)
(* The stream is kept as what its readers make of it (ControllerRecovery-  *)
(* Service.replay and continuation_context): one record, updated event by  *)
(* event by Reduce.                                                        *)
(***************************************************************************)
EXTENDS Integers, FiniteSets

CONSTANTS
  Runners, Cancellers, Continuers,
  Steps,             \* plan steps; the number is the step's sequence
  Kind, Tool,        \* action type and tool of each step
  Plans,             \* what the planner may answer: [steps, deps]
  Budget,            \* ControllerBudget: [provider, tool, steps, repair, verifier]
  MaxIterations,     \* maximum_controller_iterations
  Criteria,          \* number of acceptance criteria of the problem
  HasArtifacts,      \* an artifact store (and clarification) is configured
  HasVerification,   \* a verification service is configured
  MaxFails,          \* bound: calls that die or raise midway
  NoStep

Procs == Runners \cup Cancellers \cup Continuers
Kinds == {"tool", "provider", "verification", "manual"}
Meters == {"provider", "tool", "steps", "repair", "verifier"}
Plan == {p \in [steps : SUBSET Steps, deps : [Steps -> SUBSET Steps]] :
           p.steps # {} /\ \A s \in p.steps : p.deps[s] \subseteq p.steps}

ASSUME ControllerAssumption ==
  /\ Runners \cap Cancellers = {} /\ Runners \cap Continuers = {}
  /\ Cancellers \cap Continuers = {}
  /\ Steps \subseteq Nat /\ Steps # {} /\ NoStep \notin Steps
  /\ Kind \in [Steps -> Kinds]
  /\ Plans \subseteq Plan
  /\ Budget \in [Meters -> Nat \ {0}]
  /\ MaxIterations \in Nat \ {0}
  /\ Criteria \in Nat
  /\ HasArtifacts \in BOOLEAN /\ HasVerification \in BOOLEAN
  /\ MaxFails \in Nat

VARIABLES
  stream,     \* the task-run stream as replay and continuation_context see it
  pc, version, view,   \* per call: next step, expected version, believed state
  work,       \* per runner: the local variables of start
  made,       \* provider and tool calls and steps really executed
  lateCalls,  \* per call: external calls it made after the run had ended
  elapsed,    \* the elapsed-seconds budget is used up
  expired,    \* the continuation token's time to live is over
  fails       \* calls that died or raised so far

callVars == <<pc, version, view>>
envVars == <<elapsed, expired, fails>>
vars == <<stream, callVars, work, made, lateCalls, envVars>>
-----------------------------------------------------------------------------
Terminal == {"completed", "failed", "cancelled", "budget_exhausted"}

(* Fault: a run that is ready to be planned cannot be cancelled.           *)
TransitionsNoCancelWhenReady ==
  [received |-> {"representing_problem", "cancelled"},
   representing_problem |-> {"waiting_for_clarification", "ready", "failed", "cancelled", "budget_exhausted"},
   waiting_for_clarification |-> {"representing_problem", "cancelled", "budget_exhausted"},
   ready |-> {"planning"},
   planning |-> {"executing", "waiting_for_clarification", "failed", "cancelled", "budget_exhausted"},
   executing |-> {"verifying", "paused", "failed", "cancelled", "budget_exhausted"},
   verifying |-> {"completed", "repairing", "waiting_for_clarification", "failed", "cancelled", "budget_exhausted"},
   repairing |-> {"executing", "failed", "cancelled", "budget_exhausted"},
   paused |-> {"executing", "verifying", "cancelled", "budget_exhausted"},
   completed |-> {}, failed |-> {}, cancelled |-> {}, budget_exhausted |-> {}]

(* TRANSITIONS                                                             *)
Transitions ==
  [received |-> {"representing_problem", "cancelled"},
   representing_problem |->
     {"waiting_for_clarification", "ready", "failed", "cancelled", "budget_exhausted"},
   waiting_for_clarification |-> {"representing_problem", "cancelled", "budget_exhausted"},
   ready |-> {"planning", "cancelled"},
   planning |->
     {"executing", "waiting_for_clarification", "failed", "cancelled", "budget_exhausted"},
   executing |-> {"verifying", "paused", "failed", "cancelled", "budget_exhausted"},
   verifying |-> {"completed", "repairing", "waiting_for_clarification", "failed",
                  "cancelled", "budget_exhausted"},
   repairing |-> {"executing", "failed", "cancelled", "budget_exhausted"},
   paused |-> {"executing", "verifying", "cancelled", "budget_exhausted"},
   completed |-> {}, failed |-> {}, cancelled |-> {}, budget_exhausted |-> {}]

States == DOMAIN Transitions

(* The state changes of start: the state each asks for, what follows it.   *)
Target ==
  [to_representing |-> "representing_problem", to_waiting |-> "waiting_for_clarification",
   to_ready |-> "ready", to_planning |-> "planning", to_executing |-> "executing",
   to_verifying |-> "verifying", to_repairing |-> "repairing", to_completed |-> "completed",
   to_failed |-> "failed", to_budget_exhausted |-> "budget_exhausted"]
Following ==
  [to_representing |-> "represent", to_waiting |-> "waiting_checkpoint",
   to_ready |-> "to_planning", to_planning |-> "create_plan", to_executing |-> "schedule",
   to_verifying |-> "verify", to_repairing |-> "revise_plan", to_completed |-> "returned",
   to_failed |-> "returned", to_budget_exhausted |-> "returned"]

RunnerPCs == DOMAIN Target \cup
  {"represent", "problem_created", "checkpoint", "request_clarification",
   "waiting_checkpoint", "issue", "create_plan", "plan_created", "create_steps",
   "schedule", "decide", "start_step", "execute", "finish_step", "verify",
   "record_acceptance", "judge", "revise_plan", "plan_revised", "raise"}
OtherPCs == {"idle", "to_cancelled", "record_cancel",
             "provide", "consume", "revise", "problem_revised", "resume", "resumed"}
Done == {"returned", "aborted"}
AfterCheckpoint == {"to_ready", "request_clarification", "raise", "to_executing", "schedule"}

Work == [plan : Plan, completed : SUBSET Steps, failed : SUBSET Steps,
         toCreate : SUBSET Steps, action : Steps \cup {NoStep}, succeeded : BOOLEAN,
         usage : [Meters -> Nat], iterations : Nat, repairing : BOOLEAN,
         accepted : BOOLEAN, refused : BOOLEAN, ret : AfterCheckpoint]
Stream == [version : Nat, state : States, replayable : BOOLEAN, trailing : Nat,
           revision : Nat, requested : BOOLEAN, token : Nat, consumed : Nat,
           decided : Steps \cup {NoStep}, starts : Nat, open : SUBSET Steps,
           done : SUBSET Steps, accepted : BOOLEAN]

TypeOK ==
  /\ stream \in Stream
  /\ pc \in [Procs -> RunnerPCs \cup OtherPCs \cup Done]
  /\ version \in [Procs -> Nat]
  /\ view \in [Procs -> States]
  /\ work \in [Runners -> Work]
  /\ made \in [provider : Nat, tool : Nat, steps : Nat]
  /\ lateCalls \in [Procs -> Nat]
  /\ elapsed \in BOOLEAN /\ expired \in BOOLEAN
  /\ fails \in Nat

NoPlan == [steps |-> Steps, deps |-> [s \in Steps |-> {}]]
NewWork == [plan |-> NoPlan, completed |-> {}, failed |-> {}, toCreate |-> {},
            action |-> NoStep, succeeded |-> FALSE, usage |-> [m \in Meters |-> 0],
            iterations |-> 0, repairing |-> FALSE, accepted |-> FALSE,
            refused |-> FALSE, ret |-> "raise"]

Init ==
  /\ stream = [version |-> 0, state |-> "received", replayable |-> TRUE, trailing |-> 0,
               revision |-> 0, requested |-> FALSE, token |-> 0, consumed |-> 0,
               decided |-> NoStep, starts |-> 0, open |-> {}, done |-> {}, accepted |-> FALSE]
  /\ pc = [p \in Procs |-> IF p \in Runners THEN "to_representing" ELSE "idle"]
  /\ version = [p \in Procs |-> 0]
  /\ view = [p \in Procs |-> "received"]
  /\ work = [r \in Runners |-> NewWork]
  /\ made = [provider |-> 0, tool |-> 0, steps |-> 0]
  /\ lateCalls = [p \in Procs |-> 0]
  /\ elapsed = FALSE /\ expired = FALSE
  /\ fails = 0
-----------------------------------------------------------------------------
(* The payloads, reduced to the fields some reader of the stream looks at. *)
Event(type) == [type |-> type]
StateChanged(previous, current) ==
  [type |-> "state_changed", previous |-> previous, current |-> current]
StepEvent(type, s) == [type |-> type, step |-> s]
ContinuationIssued(v) == [type |-> "continuation_issued", bound |-> v]
AcceptanceRecorded(a) == [type |-> "acceptance_recorded", accepted |-> a]

(* What one more event makes of the stream.                                *)
Reduce(s, e) ==
  [version |-> s.version + 1,
   state |-> IF e.type = "state_changed" THEN e.current ELSE s.state,
   replayable |-> s.replayable /\ (e.type = "state_changed" => e.previous = s.state),
   trailing |-> IF s.state \in Terminal THEN s.trailing + 1 ELSE s.trailing,
   revision |-> IF e.type \in {"problem_created", "problem_revised"}
                  THEN s.revision + 1 ELSE s.revision,
   requested |-> s.requested \/ e.type = "clarification_requested",
   token |-> IF e.type = "continuation_issued" THEN e.bound ELSE s.token,
   consumed |-> IF e.type = "continuation_consumed" THEN s.consumed + 1 ELSE s.consumed,
   decided |-> IF e.type = "decision_recorded" THEN e.step ELSE s.decided,
   starts |-> IF e.type = "step_started" THEN s.starts + 1 ELSE s.starts,
   open |-> IF e.type = "step_started" THEN s.open \cup {e.step}
            ELSE IF e.type \in {"step_completed", "step_failed"} THEN s.open \ {e.step}
            ELSE s.open,
   done |-> IF e.type = "step_completed" THEN s.done \cup {e.step} ELSE s.done,
   accepted |-> IF e.type = "acceptance_recorded" THEN e.accepted ELSE s.accepted]

(* Fault: the event is appended whatever the version of the stream.        *)
AnyVersion(p) == TRUE

(* EventStorePort.append accepts the expected version.                     *)
VersionMatches(p) == version[p] = stream.version

(* What is left of call p when an exception leaves it.                     *)
Raised(p) == IF p \in Runners THEN "aborted" ELSE "idle"

(* ControllerEventService.append: e at the version p expects, and p goes   *)
(* on at next; a conflict leaves p by EventStoreConcurrencyError.          *)
AppendBy(p, e, next) ==
  \/ /\ VersionMatches(p)
     /\ stream' = Reduce(stream, e)
     /\ version' = [version EXCEPT ![p] = stream.version + 1]
     /\ pc' = [pc EXCEPT ![p] = next]
  \/ /\ ~VersionMatches(p)
     /\ pc' = [pc EXCEPT ![p] = Raised(p)]
     /\ version' = [version EXCEPT ![p] = 0]
     /\ UNCHANGED stream

(* A call that leaves the process: a provider, a tool, a verifier.         *)
CallOut(p) ==
  lateCalls' = [lateCalls EXCEPT ![p] = IF stream.state \in Terminal THEN @ + 1 ELSE @]

Go(p, next) == pc' = [pc EXCEPT ![p] = next] /\ UNCHANGED version
Set(r, w) == work' = [work EXCEPT ![r] = w]

(* BudgetLedger.record                                                     *)
Charge(usage, meters, n) == [m \in Meters |-> IF m \in meters THEN usage[m] + n ELSE usage[m]]

(* Fault: a meter may reach its limit and still be drawn on.               *)
AllowedAtLimit(w) == ~elapsed /\ \A m \in Meters : w.usage[m] <= Budget[m]

(* BudgetLedger.evaluate                                                   *)
Allowed(w) == ~elapsed /\ \A m \in Meters : w.usage[m] < Budget[m]

(* start.transition                                                        *)
Transition(r) ==
  /\ pc[r] \in DOMAIN Target
  /\ IF Target[pc[r]] \in Transitions[view[r]]
       THEN /\ AppendBy(r, StateChanged(view[r], Target[pc[r]]), Following[pc[r]])
            /\ view' = [view EXCEPT ![r] = IF VersionMatches(r) THEN Target[pc[r]] ELSE @]
       ELSE Go(r, "aborted") /\ UNCHANGED <<stream, view>>
  /\ UNCHANGED <<work, made, lateCalls, envVars>>

(* start.create_checkpoint: without an artifact store it returns at once.  *)
Checkpoint(r) ==
  /\ pc[r] = "checkpoint"
  /\ IF HasArtifacts THEN AppendBy(r, Event("checkpoint_created"), work[r].ret)
                     ELSE Go(r, work[r].ret) /\ UNCHANGED stream
  /\ UNCHANGED <<view, work, made, lateCalls, envVars>>
-----------------------------------------------------------------------------
(* An append of start that changes none of its locals but the version.     *)
Announce(r, at, e, next) ==
  /\ pc[r] = at
  /\ AppendBy(r, e, next)
  /\ UNCHANGED <<view, work, made, lateCalls, envVars>>

(* The budget gate and the problem representation.                         *)
Represent(r) ==
  /\ pc[r] = "represent"
  /\ \/ /\ ~Allowed(work[r])
        /\ Go(r, "to_budget_exhausted")
        /\ Set(r, [work[r] EXCEPT !.refused = TRUE])
        /\ UNCHANGED <<made, lateCalls>>
     \/ /\ Allowed(work[r])
        /\ \E requiresClarification \in BOOLEAN :
             Set(r, [work[r] EXCEPT !.usage = Charge(@, {"provider"}, 1),
               !.ret = IF ~requiresClarification THEN "to_ready"
                       ELSE IF HasArtifacts THEN "request_clarification" ELSE "raise"])
        /\ made' = [made EXCEPT !.provider = @ + 1]
        /\ CallOut(r)
        /\ Go(r, "problem_created")
  /\ UNCHANGED <<stream, view, envVars>>

ProblemCreated(r) == Announce(r, "problem_created", Event("problem_created"), "checkpoint")

(* Clarification without the services it needs: RuntimeError.              *)
RaiseUnconfigured(r) ==
  /\ pc[r] = "raise"
  /\ Go(r, "aborted")
  /\ UNCHANGED <<stream, view, work, made, lateCalls, envVars>>

RequestClarification(r) ==
  Announce(r, "request_clarification", Event("clarification_requested"), "to_waiting")
WaitingCheckpoint(r) ==
  Announce(r, "waiting_checkpoint", Event("checkpoint_created"), "issue")

(* Fault: the token is bound to the version before its own event.          *)
IssueAtOldVersion(r) == Announce(r, "issue", ContinuationIssued(version[r]), "returned")

(* The token is bound to the version the stream has with its own event.    *)
Issue(r) == Announce(r, "issue", ContinuationIssued(version[r] + 1), "returned")

(* planning.create_plan: for a plan with too many steps the validation of  *)
(* PlanService raises; behind a planner that does not validate, the check  *)
(* of start ends the run.  The provider call is not put in the ledger.     *)
CreatePlan(r) ==
  /\ pc[r] = "create_plan"
  /\ \E p \in Plans :
       IF Cardinality(p.steps) > Budget["steps"]
         THEN \/ Go(r, "aborted") /\ UNCHANGED work
              \/ Go(r, "to_budget_exhausted") /\ Set(r, [work[r] EXCEPT !.refused = TRUE])
         ELSE Go(r, "plan_created") /\ Set(r, [work[r] EXCEPT !.plan = p, !.toCreate = p.steps])
  /\ made' = [made EXCEPT !.provider = @ + 1]
  /\ CallOut(r)
  /\ UNCHANGED <<stream, view, envVars>>

PlanCreated(r) == Announce(r, "plan_created", Event("plan_created"), "create_steps")

(* One execution_step.created event per step, in the order of the plan.    *)
CreateStep(r) ==
  /\ pc[r] = "create_steps" /\ work[r].toCreate # {}
  /\ \E s \in work[r].toCreate :
       /\ \A t \in work[r].toCreate : s <= t
       /\ AppendBy(r, Event("step_created"), "create_steps")
       /\ Set(r, [work[r] EXCEPT !.toCreate = @ \ {s}])
  /\ UNCHANGED <<view, made, lateCalls, envVars>>

(* All announced: a checkpoint for a new plan, none for a revised one.     *)
StepsCreated(r) ==
  /\ pc[r] = "create_steps" /\ work[r].toCreate = {}
  /\ Go(r, IF work[r].repairing THEN "to_executing" ELSE "checkpoint")
  /\ Set(r, [work[r] EXCEPT !.ret = "to_executing", !.iterations = 0])
  /\ UNCHANGED <<stream, view, made, lateCalls, envVars>>
-----------------------------------------------------------------------------
(* ready_steps; inconsistent sets raise.                                   *)
SchedulerConsistent(w) ==
  w.completed \cup w.failed \subseteq w.plan.steps /\ w.completed \cap w.failed = {}
ReadySteps(w) ==
  {s \in w.plan.steps \ (w.completed \cup w.failed) :
     w.plan.deps[s] \subseteq w.completed /\ w.plan.deps[s] \cap w.failed = {}}

Finished(w) == w.plan.steps \subseteq w.completed \cup w.failed
OutOfBudget(w) == w.iterations + 1 > MaxIterations \/ ~Allowed(w)

(* One turn of the execution loop of start, or of execute_repair_actions,  *)
(* which answers every refusal alike: the repair made no progress.         *)
Schedule(r) ==
  LET w == work[r]
      looping == [w EXCEPT !.iterations = @ + 1] IN
  /\ pc[r] = "schedule"
  /\ \/ /\ Finished(w)
        /\ Go(r, "to_verifying") /\ UNCHANGED work
     \/ /\ ~Finished(w) /\ OutOfBudget(w)
        /\ Go(r, IF w.repairing THEN "to_failed" ELSE "to_budget_exhausted")
        /\ Set(r, [looping EXCEPT !.refused = TRUE])
     \/ /\ ~Finished(w) /\ ~OutOfBudget(w) /\ ReadySteps(w) = {}
        /\ Go(r, IF SchedulerConsistent(w) THEN "to_failed" ELSE "aborted")
        /\ Set(r, looping)
     \/ /\ ~Finished(w) /\ ~OutOfBudget(w)
        /\ \E s \in ReadySteps(w) :
             /\ \A t \in ReadySteps(w) : s <= t
             /\ Set(r, [looping EXCEPT !.action = s])
        /\ Go(r, IF SchedulerConsistent(w) THEN "decide" ELSE "aborted")
  /\ UNCHANGED <<stream, view, made, lateCalls, envVars>>

(* Fault: the action is executed as soon as it is decided.                 *)
DecideAndExecute(r) ==
  Announce(r, "decide", StepEvent("decision_recorded", work[r].action), "execute")

Decide(r) ==
  Announce(r, "decide", StepEvent("decision_recorded", work[r].action), "start_step")
StartStep(r) ==
  Announce(r, "start_step", StepEvent("step_started", work[r].action), "execute")

(* SequentialActionExecutionService.execute, and the ledger after it.  A   *)
(* verification action succeeds and a manual one fails without a call.     *)
Execute(r) ==
  LET w == work[r]
      kind == Kind[w.action]
      outcomes == IF kind = "verification" THEN {TRUE}
                  ELSE IF kind = "manual" THEN {FALSE} ELSE BOOLEAN IN
  /\ pc[r] = "execute"
  /\ \E succeeded \in outcomes :
       Set(r, [w EXCEPT !.succeeded = succeeded,
                 !.completed = IF succeeded THEN @ \cup {w.action} ELSE @,
                 !.failed = IF succeeded THEN @ \ {w.action} ELSE @ \cup {w.action},
                 !.usage = Charge(@, {"steps", kind}, 1)])
  /\ made' = [m \in DOMAIN made |-> IF m = "steps" \/ m = kind THEN made[m] + 1 ELSE made[m]]
  /\ CallOut(r)
  /\ Go(r, "finish_step")
  /\ UNCHANGED <<stream, view, envVars>>

(* Fault: a step that failed is remembered by its runner only.             *)
FinishOnlyCompleted(r) ==
  /\ pc[r] = "finish_step"
  /\ IF work[r].succeeded
       THEN AppendBy(r, StepEvent("step_completed", work[r].action), "checkpoint")
       ELSE Go(r, "checkpoint") /\ UNCHANGED stream
  /\ Set(r, [work[r] EXCEPT !.ret = "schedule"])
  /\ UNCHANGED <<view, made, lateCalls, envVars>>

FinishStep(r) ==
  /\ pc[r] = "finish_step"
  /\ AppendBy(r, StepEvent(IF work[r].succeeded THEN "step_completed" ELSE "step_failed",
                           work[r].action), "checkpoint")
  /\ Set(r, [work[r] EXCEPT !.ret = "schedule"])
  /\ UNCHANGED <<view, made, lateCalls, envVars>>
-----------------------------------------------------------------------------
(* Verifier calls one verify may report: one per criterion, as far as the  *)
(* budget lasts; the minimal acceptance makes none.                        *)
CallCounts(w) ==
  IF HasVerification
    THEN {n \in 0..Criteria : n > 0 => n <= Budget["verifier"] - w.usage["verifier"]}
    ELSE {0}

(* ControllerVerificationService.verify or MinimalAcceptanceService.       *)
(* evaluate, with any decision they may reach.                             *)
Verify(r) ==
  /\ pc[r] = "verify"
  /\ \E accepted \in BOOLEAN, calls \in CallCounts(work[r]) :
       Set(r, [work[r] EXCEPT !.accepted = accepted, !.usage = Charge(@, {"verifier"}, calls)])
  /\ CallOut(r)
  /\ Go(r, IF HasVerification THEN "record_acceptance" ELSE "judge")
  /\ UNCHANGED <<stream, view, made, envVars>>

RecordAcceptance(r) ==
  Announce(r, "record_acceptance", AcceptanceRecorded(work[r].accepted), "judge")

(* Fault: a run whose repair budget is used up is completed as it is.      *)
JudgeLenient(r) ==
  LET w == work[r] IN
  /\ pc[r] = "judge"
  /\ Go(r, IF w.accepted \/ w.usage["repair"] >= Budget["repair"] THEN "to_completed"
           ELSE IF ~Allowed(w) THEN "to_budget_exhausted" ELSE "to_repairing")
  /\ UNCHANGED <<stream, view, work, made, lateCalls, envVars>>

(* Completion, another repair cycle, or the end.                           *)
Judge(r) ==
  LET w == work[r] IN
  /\ pc[r] = "judge"
  /\ \/ w.accepted /\ Go(r, "to_completed") /\ UNCHANGED work
     \/ /\ ~w.accepted /\ w.usage["repair"] >= Budget["repair"]
        /\ Go(r, "to_failed") /\ UNCHANGED work
     \/ /\ ~w.accepted /\ w.usage["repair"] < Budget["repair"] /\ ~Allowed(w)
        /\ Go(r, "to_budget_exhausted") /\ Set(r, [w EXCEPT !.refused = TRUE])
     \/ /\ ~w.accepted /\ Allowed(w)
        /\ Go(r, "to_repairing") /\ UNCHANGED work
  /\ UNCHANGED <<stream, view, made, lateCalls, envVars>>

ToolsOf(p) == {Tool[s] : s \in {t \in p.steps : Kind[t] = "tool"}}

(* The validation of a repair plan: its length, and no tool but the ones   *)
(* the current plan uses.                                                  *)
Admissible(w, p) ==
  Cardinality(p.steps) <= Budget["steps"] /\ ToolsOf(p) \subseteq ToolsOf(w.plan)

(* Fault: steps the revised plan dropped are still counted as completed.   *)
ReviseKeepingCompleted(r) ==
  LET w == work[r] IN
  /\ pc[r] = "revise_plan"
  /\ \E p \in Plans :
       IF Admissible(w, p)
         THEN /\ Set(r, [w EXCEPT !.plan = p, !.failed = {}, !.toCreate = p.steps \ w.completed,
                           !.repairing = TRUE, !.usage = Charge(@, {"repair", "provider"}, 1)])
              /\ Go(r, "plan_revised")
         ELSE Go(r, "aborted") /\ UNCHANGED work
  /\ made' = [made EXCEPT !.provider = @ + 1]
  /\ CallOut(r)
  /\ UNCHANGED <<stream, view, envVars>>

(* planning.revise_plan, and what start makes of the plan it answers.      *)
RevisePlan(r) ==
  LET w == work[r] IN
  /\ pc[r] = "revise_plan"
  /\ \E p \in Plans :
       IF Admissible(w, p)
         THEN /\ Set(r, [w EXCEPT !.plan = p, !.completed = @ \cap p.steps, !.failed = {},
                           !.toCreate = p.steps \ w.completed, !.repairing = TRUE,
                           !.usage = Charge(@, {"repair", "provider"}, 1)])
              /\ Go(r, "plan_revised")
         ELSE Go(r, "aborted") /\ UNCHANGED work
  /\ made' = [made EXCEPT !.provider = @ + 1]
  /\ CallOut(r)
  /\ UNCHANGED <<stream, view, envVars>>

PlanRevised(r) == Announce(r, "plan_revised", Event("plan_revised"), "create_steps")
-----------------------------------------------------------------------------
(* cancel replays the stream, then requires the transition.                *)
ReadForCancel(c) ==
  /\ pc[c] = "idle"
  /\ stream.version > 0 /\ stream.replayable
  /\ "cancelled" \in Transitions[stream.state]
  /\ pc' = [pc EXCEPT ![c] = "to_cancelled"]
  /\ version' = [version EXCEPT ![c] = stream.version]
  /\ view' = [view EXCEPT ![c] = stream.state]
  /\ UNCHANGED <<stream, work, made, lateCalls, envVars>>

Cancel(c) ==
  /\ pc[c] = "to_cancelled"
  /\ AppendBy(c, StateChanged(view[c], "cancelled"), "record_cancel")
  /\ view' = [view EXCEPT ![c] = IF VersionMatches(c) THEN "cancelled" ELSE @]
  /\ UNCHANGED <<work, made, lateCalls, envVars>>

RecordCancel(c) == Announce(c, "record_cancel", Event("cancelled"), "returned")
-----------------------------------------------------------------------------
(* Fault: the token is honoured at any version of the stream.              *)
TokenAcceptedAnywhere == stream.token > 0 /\ ~expired

(* ContinuationTokenService.consume                                        *)
TokenAccepted == stream.token > 0 /\ ~expired /\ stream.token = stream.version

(* continue_run up to its first append: continuation_context and consume.  *)
ReadForContinue(c) ==
  /\ pc[c] = "idle"
  /\ stream.revision > 0 /\ stream.requested
  /\ stream.consumed = 0 /\ TokenAccepted
  /\ pc' = [pc EXCEPT ![c] = "provide"]
  /\ version' = [version EXCEPT ![c] = stream.version]
  /\ UNCHANGED <<stream, view, work, made, lateCalls, envVars>>

Provide(c) == Announce(c, "provide", Event("clarification_provided"), "consume")
Consume(c) == Announce(c, "consume", Event("continuation_consumed"), "revise")

(* problem_engine.revise                                                   *)
Revise(c) ==
  /\ pc[c] = "revise"
  /\ made' = [made EXCEPT !.provider = @ + 1]
  /\ CallOut(c)
  /\ Go(c, "problem_revised")
  /\ UNCHANGED <<stream, view, work, envVars>>

ProblemRevised(c) == Announce(c, "problem_revised", Event("problem_revised"), "resume")

(* Back to representing_problem; a revision with open questions raises.    *)
Resume(c) ==
  \E next \in {"resumed", "idle"} :
    Announce(c, "resume", StateChanged("waiting_for_clarification", "representing_problem"), next)

Resumed(c) ==
  Announce(c, "resumed", StateChanged("representing_problem", "ready"), "returned")
-----------------------------------------------------------------------------
(* The process of a call dies, an acknowledgement is lost, or something    *)
(* the call awaits raises: start, cancel and continue_run catch nothing.   *)
Fail(p) ==
  /\ pc[p] \notin Done \cup {"idle"} /\ fails < MaxFails
  /\ pc' = [pc EXCEPT ![p] = Raised(p)]
  /\ version' = [version EXCEPT ![p] = 0]
  /\ fails' = fails + 1
  /\ UNCHANGED <<stream, view, work, made, lateCalls, elapsed, expired>>

TimeRunsOut ==
  /\ ~elapsed /\ elapsed' = TRUE
  /\ UNCHANGED <<stream, callVars, work, made, lateCalls, expired, fails>>
TokenExpires ==
  /\ ~expired /\ stream.token > 0 /\ expired' = TRUE
  /\ UNCHANGED <<stream, callVars, work, made, lateCalls, elapsed, fails>>

RunnerStep(r) ==
  \/ Transition(r) \/ Checkpoint(r) \/ Represent(r) \/ ProblemCreated(r)
  \/ RaiseUnconfigured(r) \/ RequestClarification(r) \/ WaitingCheckpoint(r) \/ Issue(r)
  \/ CreatePlan(r) \/ PlanCreated(r) \/ CreateStep(r) \/ StepsCreated(r)
  \/ Schedule(r) \/ Decide(r) \/ StartStep(r) \/ Execute(r) \/ FinishStep(r)
  \/ Verify(r) \/ RecordAcceptance(r) \/ Judge(r) \/ RevisePlan(r) \/ PlanRevised(r)
CancelStep(c) == ReadForCancel(c) \/ Cancel(c) \/ RecordCancel(c)
ContinueStep(c) ==
  \/ ReadForContinue(c) \/ Provide(c) \/ Consume(c) \/ Revise(c)
  \/ ProblemRevised(c) \/ Resume(c) \/ Resumed(c)

Next ==
  \/ \E r \in Runners : RunnerStep(r)
  \/ \E c \in Cancellers : CancelStep(c)
  \/ \E c \in Continuers : ContinueStep(c)
  \/ \E p \in Procs : Fail(p)
  \/ TimeRunsOut \/ TokenExpires

Spec == Init /\ [][Next]_vars

(* Calls that are running go on, and an owner who wants the run cancelled  *)
(* or continued calls again.  Nothing else is promised: time need not run  *)
(* out and no call need fail.                                              *)
FairSpec ==
  /\ Spec
  /\ \A r \in Runners : WF_vars(RunnerStep(r))
  /\ \A c \in Cancellers : WF_vars(CancelStep(c))
  /\ \A c \in Continuers : WF_vars(ContinueStep(c))
-----------------------------------------------------------------------------
(* The stream can always be replayed: however calls of start, cancel and   *)
(* continue_run interleave and fail, each state change names the state its *)
(* predecessor left, so replay never raises "invalid state sequence".      *)
ReplaySucceeds == stream.replayable

(* Every state change in the stream is an edge of TRANSITIONS and a        *)
(* terminal state is never left, whoever appends.                          *)
LegalTransitions ==
  [][stream'.state # stream.state => stream'.state \in Transitions[stream.state]]_vars

(* A run that has ended gets no more events, but for the one               *)
(* ControllerCancelled that cancel adds to its own state change.           *)
NothingAfterTheEnd ==
  /\ stream.trailing <= 1
  /\ stream.trailing = 1 => stream.state = "cancelled"

(* Of all start calls for one task run at most one gets past its first     *)
(* transition: the stream version 0 can be claimed once.                   *)
SingleDriver ==
  \A r1, r2 \in Runners :
    r1 # r2 => \/ pc[r1] \in {"to_representing", "aborted"}
               \/ pc[r2] \in {"to_representing", "aborted"}

(* "A decision and step-start event are committed before an external       *)
(* action": a runner about to execute finds exactly that step open, its    *)
(* decision the last one, and no execution goes without its own start.     *)
WriteAhead ==
  /\ made.steps <= stream.starts
  /\ \A r \in Runners : pc[r] = "execute" =>
       stream.open = {work[r].action} /\ stream.decided = work[r].action

(* Once the run has ended, by cancellation or otherwise, every other call  *)
(* makes at most one more provider, tool or verification call before the   *)
(* append that follows it meets the version conflict.                      *)
EndStopsCalls == \A p \in Procs : lateCalls[p] <= 1

(* A continuation token is consumed at most once and at most one revision  *)
(* of the problem follows, however often and concurrently it is presented. *)
TokenConsumedOnce == stream.consumed <= 1 /\ stream.revision <= 1 + stream.consumed

(* A run that ended by its own doing has no step left started but not      *)
(* finished; one that completed did so on an accepted decision.            *)
CleanEnd ==
  /\ stream.state \in {"completed", "failed", "budget_exhausted"} => stream.open = {}
  /\ stream.state = "completed" /\ HasVerification => stream.accepted

(* Tool calls and executed steps never exceed the budget, repair cycles    *)
(* included; provider calls exceed it by one at most, the plan call, which *)
(* the ledger neither checks nor records (and a continuation's revision).  *)
CallsBounded ==
  /\ made.tool <= Budget["tool"] /\ made.steps <= Budget["steps"]
  /\ made.provider <= Budget["provider"] + 1 + stream.consumed

(* ready_steps never finds its completed and failed sets inconsistent, the *)
(* steps that repair plans drop and add notwithstanding.                   *)
SchedulerNeverRaises ==
  \A r \in Runners : pc[r] = "schedule" => SchedulerConsistent(work[r])

(* A run that was started is brought to an end: by its runner, or, when    *)
(* that died or waits for a clarification, by an owner who cancels it.     *)
EveryRunEnds == stream.version > 0 ~> stream.state \in Terminal

(* An owner who presents the token in time gets the run to ready, unless   *)
(* the call fails or the revised problem still has open questions.         *)
ClarificationResumes ==
  stream.token > 0 ~> (expired \/ fails > 0 \/ stream.state \in {"representing_problem", "ready"})

(* ADR 0026: "Exhaustion is an explicit durable controller outcome": a run *)
(* that stopped because a budget refused to go on ends budget_exhausted.   *)
(* It does not hold: a refusal during a repair ends the run as failed.     *)
ExhaustionIsExplicit ==
  stream.state = "failed" => \A r \in Runners : ~work[r].refused

(* controller-planning.md: the scheduler "never reschedules completed      *)
(* steps": no step whose completion the stream records is executed again.  *)
(* It does not hold: one repair plan drops a step and the next has it.     *)
CompletedStepsStayDone ==
  [][\A r \in Runners : pc[r] = "execute" /\ pc'[r] = "finish_step"
       => work[r].action \notin stream.done]_vars
=============================================================================
