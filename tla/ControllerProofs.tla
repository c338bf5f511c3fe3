-------------------------- MODULE ControllerProofs --------------------------
(***************************************************************************)
(* Proofs about Controller for any number of calls, plans and budgets.     *)
(* The argument: what a call believes of the stream is true as long as its *)
(* expected version is the stream's version, and every other call's append *)
(* makes it false together, so a call that appends is never mistaken.      *)
(* From that a second invariant bounds the calls a run makes and ties them *)
(* to the journal.                                                         *)
(***************************************************************************)
EXTENDS Controller, TLAPS

(* The version call p expects is still the version of the stream.          *)
Current(p) == version[p] = stream.version

(* start: its view is the state of the stream while it is current; it has  *)
(* not ended before it returns; it is past its first transition only if    *)
(* the stream exists, and then it alone wrote the first problem.           *)
RunnerKnows(r) ==
  /\ pc[r] \in RunnerPCs \cup Done
  /\ Current(r) => view[r] = stream.state
  /\ pc[r] = "to_representing" => version[r] = 0 /\ view[r] = "received"
  /\ pc[r] \notin {"to_representing", "aborted"} => stream.version > 0
  /\ pc[r] \notin Done => view[r] \notin Terminal
  /\ pc[r] \in {"waiting_checkpoint", "issue"} => view[r] = "waiting_for_clarification"
  /\ pc[r] \in {"represent", "problem_created"} /\ Current(r) =>
       stream.revision = 0 /\ stream.consumed = 0

(* cancel: it has required its transition before it appends it, and its    *)
(* second event directly follows its first.                                *)
CancellerKnows(c) ==
  /\ pc[c] \in {"idle", "to_cancelled", "record_cancel", "returned"}
  /\ pc[c] # "idle" /\ Current(c) => view[c] = stream.state
  /\ pc[c] = "to_cancelled" => "cancelled" \in Transitions[view[c]]
  /\ pc[c] = "record_cancel" => view[c] = "cancelled"
  /\ pc[c] = "record_cancel" /\ Current(c) => stream.trailing = 0

(* continue_run: the run waits until it is resumed, and the token is not   *)
(* consumed before it is.                                                  *)
ContinuerKnows(c) ==
  /\ pc[c] \in {"idle", "provide", "consume", "revise", "problem_revised", "resume",
                "resumed", "returned"}
  /\ pc[c] \in {"provide", "consume", "revise", "problem_revised", "resume"} /\ Current(c)
       => stream.state = "waiting_for_clarification"
  /\ pc[c] = "resumed" /\ Current(c) => stream.state = "representing_problem"
  /\ pc[c] \in {"provide", "consume"} /\ Current(c)
       => stream.consumed = 0 /\ stream.revision <= 1
  /\ pc[c] \in {"revise", "problem_revised"} /\ Current(c)
       => stream.consumed = 1 /\ stream.revision <= 1

(* What call p knows.                                                      *)
Knows(p) ==
  /\ version[p] <= stream.version
  /\ p \in Runners => RunnerKnows(p)
  /\ p \in Cancellers => CancellerKnows(p)
  /\ p \in Continuers => ContinuerKnows(p)

(* What holds of the stream itself.                                        *)
StreamSound ==
  /\ stream.replayable
  /\ stream.version = 0 => /\ stream.state = "received" /\ stream.token = 0
                           /\ stream.revision = 0 /\ stream.consumed = 0
  /\ stream.token <= stream.version
  /\ stream.token > 0 /\ stream.token = stream.version
       => stream.state = "waiting_for_clarification"
  /\ stream.state \notin Terminal => stream.trailing = 0
  /\ NothingAfterTheEnd
  /\ TokenConsumedOnce

(* While it decides on, starts, executes and finishes an action, start has *)
(* one: the step the scheduler selected.                                   *)
Acting == {"decide", "start_step", "execute", "finish_step"}
ActionChosen == \A r \in Runners : pc[r] \in Acting => work[r].action \in Steps

(* The inductive invariant.                                                *)
Inv == TypeOK /\ ActionChosen /\ StreamSound /\ SingleDriver /\ \A p \in Procs : Knows(p)
-----------------------------------------------------------------------------
(* The sorts of events, and that the stream keeps its type under each.     *)
EventOK(e) ==
  /\ e.type = "state_changed" => e.current \in States
  /\ e.type = "continuation_issued" => e.bound \in Nat
  /\ e.type \in {"decision_recorded", "step_started", "step_completed", "step_failed"}
       => e.step \in Steps
  /\ e.type = "acceptance_recorded" => e.accepted \in BOOLEAN

(* One more event keeps the type of the stream.                            *)
LEMMA ReduceType ==
  ASSUME NEW s \in Stream, NEW e, EventOK(e)
  PROVE  Reduce(s, e) \in Stream
  BY DEF Stream, Reduce, EventOK

AllPCs == RunnerPCs \cup OtherPCs \cup Done

(* An append, refused or not, keeps the types of stream, pc and version.   *)
LEMMA AppendType ==
  ASSUME TypeOK, NEW p \in Procs, NEW e, EventOK(e), NEW next \in AllPCs, AppendBy(p, e, next)
  PROVE  /\ stream' \in Stream
         /\ pc' \in [Procs -> AllPCs]
         /\ version' \in [Procs -> Nat]
  <1>1. CASE VersionMatches(p)
    <2>1. stream' = Reduce(stream, e) /\ stream \in Stream
      BY <1>1 DEF AppendBy, TypeOK
    <2>2. stream' \in Stream
      BY <2>1, ReduceType
    <2>3. stream.version + 1 \in Nat
      BY DEF TypeOK, Stream
    <2> QED BY <1>1, <2>2, <2>3 DEF AppendBy, TypeOK, AllPCs
  <1>2. CASE ~VersionMatches(p)
    <2>1. Raised(p) \in AllPCs
      BY DEF Raised, AllPCs, OtherPCs, Done
    <2> QED BY <1>2, <2>1 DEF AppendBy, TypeOK, AllPCs
  <1> QED BY <1>1, <1>2

(* The domains of the two tables, spelt out for the provers.               *)
LEMMA Tables ==
  /\ States = {"received", "representing_problem", "waiting_for_clarification", "ready",
               "planning", "executing", "verifying", "repairing", "paused", "completed",
               "failed", "cancelled", "budget_exhausted"}
  /\ DOMAIN Target = {"to_representing", "to_waiting", "to_ready", "to_planning",
                      "to_executing", "to_verifying", "to_repairing", "to_completed",
                      "to_failed", "to_budget_exhausted"}
  BY DEF States, Transitions, Target

(* Where the transitions of start lead.                                    *)
LEMMA TransitionTargets ==
  ASSUME NEW x \in DOMAIN Target
  PROVE  /\ Target[x] \in States
         /\ Following[x] \in (RunnerPCs \cup {"returned"}) \ {"to_representing", "issue", "problem_created"}
         /\ Target[x] \in Terminal => Following[x] = "returned"
         /\ Following[x] = "waiting_checkpoint" => Target[x] = "waiting_for_clarification"
         /\ Following[x] = "represent" => x = "to_representing"
  BY Tables DEF Target, Following, RunnerPCs, Terminal

(* A step that only appends an event keeps every type.                     *)
LEMMA AnnounceType ==
  ASSUME TypeOK, NEW p \in Procs, NEW at, NEW e, EventOK(e), NEW next \in AllPCs,
         Announce(p, at, e, next)
  PROVE  TypeOK'
  <1>1. AppendBy(p, e, next) /\ UNCHANGED <<view, work, made, lateCalls, envVars>>
    BY DEF Announce
  <1>2. stream' \in Stream /\ pc' \in [Procs -> AllPCs] /\ version' \in [Procs -> Nat]
    BY <1>1, AppendType
  <1> QED BY <1>1, <1>2 DEF TypeOK, AllPCs, envVars

(* Counting a late external call keeps its type.                           *)
LEMMA CallOutType ==
  ASSUME TypeOK, NEW p \in Procs, CallOut(p)
  PROVE  lateCalls' \in [Procs -> Nat]
  BY DEF TypeOK, CallOut

(* The parts of the type invariant that a step of start must establish.    *)
LEMMA RunnerType ==
  ASSUME TypeOK, NEW r \in Runners, NEW w \in Work,
         stream' \in Stream, pc' \in [Procs -> AllPCs], version' \in [Procs -> Nat],
         view' \in [Procs -> States], Set(r, w) \/ UNCHANGED work,
         made' \in [provider : Nat, tool : Nat, steps : Nat],
         lateCalls' \in [Procs -> Nat], UNCHANGED envVars
  PROVE  TypeOK'
  BY DEF TypeOK, Set, AllPCs, envVars

(* Moving a call on keeps the type of pc.                                  *)
LEMMA GoType ==
  ASSUME TypeOK, NEW p \in Procs, NEW next \in AllPCs, Go(p, next)
  PROVE  pc' \in [Procs -> AllPCs] /\ version' \in [Procs -> Nat]
  BY DEF TypeOK, Go, AllPCs

(* Type correctness of a state change of start.                            *)
LEMMA TransitionType ==
  ASSUME TypeOK, NEW r \in Runners, Transition(r)
  PROVE  TypeOK'
  <1> DEFINE x == pc[r]
  <1>0. r \in Procs /\ x \in DOMAIN Target
    BY DEF Transition, Procs
  <1>1. Target[x] \in States /\ Following[x] \in AllPCs
    BY <1>0, TransitionTargets DEF AllPCs, Done
  <1>2. "aborted" \in AllPCs
    BY DEF AllPCs, Done
  <1>3. UNCHANGED <<work, made, lateCalls, envVars>>
    BY DEF Transition
  <1>4. CASE Target[x] \in Transitions[view[r]]
    <2>1. EventOK(StateChanged(view[r], Target[x]))
      BY <1>1 DEF EventOK, StateChanged
    <2>2. AppendBy(r, StateChanged(view[r], Target[x]), Following[x])
      BY <1>4 DEF Transition
    <2>3. stream' \in Stream /\ pc' \in [Procs -> AllPCs] /\ version' \in [Procs -> Nat]
      BY <1>0, <1>1, <2>1, <2>2, AppendType
    <2>4. view' = [view EXCEPT ![r] = IF VersionMatches(r) THEN Target[x] ELSE @]
      BY <1>4 DEF Transition
    <2>5. view' \in [Procs -> States]
      BY <1>0, <1>1, <2>4 DEF TypeOK
    <2> QED BY <1>3, <2>3, <2>5 DEF TypeOK, AllPCs, envVars
  <1>5. CASE Target[x] \notin Transitions[view[r]]
    <2>1. Go(r, "aborted") /\ UNCHANGED <<stream, view>>
      BY <1>5 DEF Transition
    <2> QED BY <1>0, <1>2, <1>3, <2>1, GoType DEF TypeOK, AllPCs, envVars
  <1> QED BY <1>4, <1>5

(* Type correctness of the checkpoint steps.                               *)
LEMMA CheckpointType ==
  ASSUME TypeOK, NEW r \in Runners, Checkpoint(r)
  PROVE  TypeOK'
  <1>1. r \in Procs /\ work[r].ret \in AllPCs
    BY DEF Procs, TypeOK, Work, AfterCheckpoint, AllPCs, RunnerPCs, Target
  <1>2. EventOK(Event("checkpoint_created"))
    BY DEF EventOK, Event
  <1>3. CASE HasArtifacts
    <2>1. AppendBy(r, Event("checkpoint_created"), work[r].ret)
      BY <1>3 DEF Checkpoint
    <2> QED BY <1>1, <1>2, <2>1, AppendType DEF Checkpoint, TypeOK, AllPCs, envVars
  <1>4. CASE ~HasArtifacts
    <2>1. Go(r, work[r].ret) /\ UNCHANGED stream
      BY <1>4 DEF Checkpoint
    <2> QED BY <1>1, <2>1, GoType DEF Checkpoint, TypeOK, AllPCs, envVars
  <1> QED BY <1>3, <1>4

(* The events that carry nothing but their type.                           *)
LEMMA PlainEventOK ==
  ASSUME NEW type \in {"problem_created", "problem_revised", "checkpoint_created",
                       "clarification_requested", "clarification_provided",
                       "continuation_consumed", "plan_created", "plan_revised",
                       "step_created", "cancelled"}
  PROVE  EventOK(Event(type))
  BY DEF EventOK, Event

(* The steps of start that only append.                                    *)
LEMMA RunnerAnnounceType ==
  ASSUME TypeOK, NEW r \in Runners,
         \/ ProblemCreated(r) \/ RequestClarification(r) \/ WaitingCheckpoint(r) \/ Issue(r)
         \/ PlanCreated(r) \/ RecordAcceptance(r) \/ PlanRevised(r)
  PROVE  TypeOK'
  <1>1. r \in Procs
    BY DEF Procs
  <1>2. {"checkpoint", "to_waiting", "issue", "returned", "create_steps", "judge"} \subseteq AllPCs
    BY DEF AllPCs, RunnerPCs, Target, Done
  <1>3. CASE ProblemCreated(r)
    BY <1>1, <1>2, <1>3, PlainEventOK, AnnounceType DEF ProblemCreated
  <1>4. CASE RequestClarification(r)
    BY <1>1, <1>2, <1>4, PlainEventOK, AnnounceType DEF RequestClarification
  <1>5. CASE WaitingCheckpoint(r)
    BY <1>1, <1>2, <1>5, PlainEventOK, AnnounceType DEF WaitingCheckpoint
  <1>6. CASE Issue(r)
    <2>1. EventOK(ContinuationIssued(version[r] + 1))
      BY <1>1 DEF EventOK, ContinuationIssued, TypeOK
    <2> QED BY <1>1, <1>2, <1>6, <2>1, AnnounceType DEF Issue
  <1>7. CASE PlanCreated(r)
    BY <1>1, <1>2, <1>7, PlainEventOK, AnnounceType DEF PlanCreated
  <1>8. CASE RecordAcceptance(r)
    <2>1. EventOK(AcceptanceRecorded(work[r].accepted))
      BY DEF EventOK, AcceptanceRecorded, TypeOK, Work
    <2> QED BY <1>1, <1>2, <1>8, <2>1, AnnounceType DEF RecordAcceptance
  <1>9. CASE PlanRevised(r)
    BY <1>1, <1>2, <1>9, PlainEventOK, AnnounceType DEF PlanRevised
  <1> QED BY <1>3, <1>4, <1>5, <1>6, <1>7, <1>8, <1>9

(* Charging a meter keeps the type of the usage.                           *)
LEMMA ChargeType ==
  ASSUME NEW w \in Work, NEW meters, NEW n \in Nat
  PROVE  /\ Charge(w.usage, meters, n) \in [Meters -> Nat]
         /\ w.iterations + 1 \in Nat
  BY DEF Work, Charge

(* Type correctness of the problem representation.                         *)
LEMMA RepresentType ==
  ASSUME TypeOK, NEW r \in Runners, Represent(r)
  PROVE  TypeOK'
  <1>1. r \in Procs /\ work[r] \in Work
    BY DEF Procs, TypeOK
  <1>2. {"to_budget_exhausted", "problem_created"} \subseteq AllPCs
    BY DEF AllPCs, RunnerPCs, Target
  <1>3. UNCHANGED <<stream, view, envVars>>
    BY DEF Represent
  <1>4. CASE ~Allowed(work[r])
    <2>1. Go(r, "to_budget_exhausted") /\ UNCHANGED <<made, lateCalls>>
      BY <1>4 DEF Represent
    <2>2. Set(r, [work[r] EXCEPT !.refused = TRUE])
      BY <1>4 DEF Represent
    <2>3. [work[r] EXCEPT !.refused = TRUE] \in Work
      BY <1>1 DEF Work
    <2> QED BY <1>1, <1>2, <1>3, <2>1, <2>2, <2>3, GoType, RunnerType DEF TypeOK
  <1>5. CASE Allowed(work[r])
    <2>1. PICK ret \in AfterCheckpoint :
            Set(r, [work[r] EXCEPT !.usage = Charge(@, {"provider"}, 1), !.ret = ret])
      BY <1>5 DEF Represent, AfterCheckpoint
    <2>2. [work[r] EXCEPT !.usage = Charge(@, {"provider"}, 1), !.ret = ret] \in Work
      BY <1>1, <2>1, ChargeType DEF Work
    <2>3. Go(r, "problem_created") /\ CallOut(r) /\ made' = [made EXCEPT !.provider = @ + 1]
      BY <1>5 DEF Represent
    <2>4. made' \in [provider : Nat, tool : Nat, steps : Nat]
      BY <2>3 DEF TypeOK
    <2> QED BY <1>1, <1>2, <1>3, <2>1, <2>2, <2>3, <2>4, GoType, CallOutType, RunnerType DEF TypeOK
  <1> QED BY <1>4, <1>5

(* Type correctness of the raise without clarification service.            *)
LEMMA RaiseUnconfiguredType ==
  ASSUME TypeOK, NEW r \in Runners, RaiseUnconfigured(r)
  PROVE  TypeOK'
  <1>1. r \in Procs /\ "aborted" \in AllPCs
    BY DEF Procs, AllPCs, Done
  <1> QED BY <1>1, GoType DEF RaiseUnconfigured, TypeOK, AllPCs, envVars

(* Type correctness of the first plan.                                     *)
LEMMA CreatePlanType ==
  ASSUME TypeOK, NEW r \in Runners, CreatePlan(r)
  PROVE  TypeOK'
  <1>1. r \in Procs /\ work[r] \in Work
    BY DEF Procs, TypeOK
  <1>2. {"aborted", "to_budget_exhausted", "plan_created"} \subseteq AllPCs
    BY DEF AllPCs, RunnerPCs, Target, Done
  <1>3. /\ UNCHANGED <<stream, view, envVars>> /\ CallOut(r)
        /\ made' = [made EXCEPT !.provider = @ + 1]
    BY DEF CreatePlan
  <1>4. made' \in [provider : Nat, tool : Nat, steps : Nat]
    BY <1>3 DEF TypeOK
  <1>5. PICK p \in Plans :
          \/ Go(r, "aborted") /\ UNCHANGED work
          \/ Go(r, "to_budget_exhausted") /\ Set(r, [work[r] EXCEPT !.refused = TRUE])
          \/ Go(r, "plan_created") /\ Set(r, [work[r] EXCEPT !.plan = p, !.toCreate = p.steps])
    BY DEF CreatePlan
  <1>6. p \in Plan /\ p.steps \subseteq Steps
    BY <1>5, ControllerAssumption DEF Plan
  <1>7. /\ [work[r] EXCEPT !.plan = p, !.toCreate = p.steps] \in Work
        /\ [work[r] EXCEPT !.refused = TRUE] \in Work
    BY <1>1, <1>6 DEF Work
  <1>8. UNCHANGED work \/ \E w \in Work : Set(r, w)
    BY <1>5, <1>7
  <1>9. pc' \in [Procs -> AllPCs] /\ version' \in [Procs -> Nat]
    BY <1>1, <1>2, <1>5, GoType
  <1> QED BY <1>1, <1>3, <1>4, <1>8, <1>9, CallOutType, RunnerType DEF TypeOK

(* Type correctness of the creation of a step.                             *)
LEMMA CreateStepType ==
  ASSUME TypeOK, NEW r \in Runners, CreateStep(r)
  PROVE  TypeOK'
  <1>1. r \in Procs /\ work[r] \in Work /\ "create_steps" \in AllPCs
    BY DEF Procs, TypeOK, AllPCs, RunnerPCs
  <1>2. PICK s \in work[r].toCreate : /\ AppendBy(r, Event("step_created"), "create_steps")
                                      /\ Set(r, [work[r] EXCEPT !.toCreate = @ \ {s}])
    BY DEF CreateStep
  <1>3. [work[r] EXCEPT !.toCreate = @ \ {s}] \in Work
    BY <1>1 DEF Work
  <1>4. stream' \in Stream /\ pc' \in [Procs -> AllPCs] /\ version' \in [Procs -> Nat]
    BY <1>1, <1>2, PlainEventOK, AppendType
  <1> QED BY <1>2, <1>3, <1>4, RunnerType DEF CreateStep, TypeOK

(* Type correctness of the end of step creation.                           *)
LEMMA StepsCreatedType ==
  ASSUME TypeOK, NEW r \in Runners, StepsCreated(r)
  PROVE  TypeOK'
  <1>1. r \in Procs /\ work[r] \in Work /\ {"to_executing", "checkpoint"} \subseteq AllPCs
    BY DEF Procs, TypeOK, AllPCs, RunnerPCs, Target
  <1>2. Go(r, "to_executing") \/ Go(r, "checkpoint")
    BY DEF StepsCreated
  <1>3. [work[r] EXCEPT !.ret = "to_executing", !.iterations = 0] \in Work
    BY <1>1 DEF Work, AfterCheckpoint
  <1> QED BY <1>1, <1>2, <1>3, GoType, RunnerType DEF StepsCreated, TypeOK

(* Type correctness of a turn of the execution loop.                       *)
LEMMA ScheduleType ==
  ASSUME TypeOK, NEW r \in Runners, Schedule(r)
  PROVE  TypeOK'
  <1> DEFINE w == work[r]
             looping == [w EXCEPT !.iterations = @ + 1]
  <1>1. r \in Procs /\ w \in Work
    BY DEF Procs, TypeOK
  <1>2. {"to_verifying", "to_failed", "to_budget_exhausted", "decide", "aborted"} \subseteq AllPCs
    BY DEF AllPCs, RunnerPCs, Target, Done
  <1>0. ASSUME NEW n \in Nat, NEW s \in Steps
        PROVE  /\ [w EXCEPT !.iterations = n] \in Work
               /\ [[w EXCEPT !.iterations = n] EXCEPT !.refused = TRUE] \in Work
               /\ [[w EXCEPT !.iterations = n] EXCEPT !.action = s] \in Work
    BY <1>1, <1>0 DEF Work
  <1>3. looping \in Work /\ [looping EXCEPT !.refused = TRUE] \in Work
    BY <1>0, <1>1, ChargeType, ControllerAssumption
  <1>4. ASSUME NEW s \in ReadySteps(w) PROVE [looping EXCEPT !.action = s] \in Work
    <2>1. s \in Steps
      BY <1>1, <1>4 DEF ReadySteps, Work, Plan
    <2> QED BY <1>0, <1>1, <2>1, ChargeType
  <1>5. UNCHANGED work \/ \E v \in Work : Set(r, v)
    BY <1>3, <1>4 DEF Schedule
  <1>6. \/ Go(r, "to_verifying") \/ Go(r, "to_failed") \/ Go(r, "to_budget_exhausted")
        \/ Go(r, "decide") \/ Go(r, "aborted")
    BY DEF Schedule
  <1>7. UNCHANGED <<stream, view, made, lateCalls, envVars>>
    BY DEF Schedule
  <1> QED BY <1>1, <1>2, <1>5, <1>6, <1>7, GoType, RunnerType DEF TypeOK

(* Type correctness of the decision and the start of a step.               *)
LEMMA StepEventsType ==
  ASSUME TypeOK, ActionChosen, NEW r \in Runners, Decide(r) \/ StartStep(r)
  PROVE  TypeOK'
  <1>1. r \in Procs /\ {"start_step", "execute"} \subseteq AllPCs
    BY DEF Procs, AllPCs, RunnerPCs
  <1>2. work[r].action \in Steps
    BY DEF ActionChosen, Acting, Decide, StartStep, Announce
  <1>3. CASE Decide(r)
    <2>1. EventOK(StepEvent("decision_recorded", work[r].action))
      BY <1>2 DEF EventOK, StepEvent
    <2> QED BY <1>1, <1>3, <2>1, AnnounceType DEF Decide
  <1>4. CASE StartStep(r)
    <2>1. EventOK(StepEvent("step_started", work[r].action))
      BY <1>2 DEF EventOK, StepEvent
    <2> QED BY <1>1, <1>4, <2>1, AnnounceType DEF StartStep
  <1> QED BY <1>3, <1>4

(* Type correctness of the execution of a step.                            *)
LEMMA ExecuteType ==
  ASSUME TypeOK, ActionChosen, NEW r \in Runners, Execute(r)
  PROVE  TypeOK'
  <1> DEFINE w == work[r]
             kind == Kind[w.action]
  <1>1. r \in Procs /\ w \in Work /\ "finish_step" \in AllPCs /\ w.action \in Steps
    BY DEF Procs, TypeOK, AllPCs, RunnerPCs, ActionChosen, Acting, Execute
  <1>2. Charge(w.usage, {"steps", kind}, 1) \in [Meters -> Nat]
    BY <1>1, ChargeType
  <1>3. PICK succeeded \in BOOLEAN :
          Set(r, [w EXCEPT !.succeeded = succeeded,
                    !.completed = IF succeeded THEN @ \cup {w.action} ELSE @,
                    !.failed = IF succeeded THEN @ \ {w.action} ELSE @ \cup {w.action},
                    !.usage = Charge(@, {"steps", kind}, 1)])
    BY DEF Execute
  <1>4. \E v \in Work : Set(r, v)
    <2>1. [w EXCEPT !.succeeded = succeeded,
                    !.completed = IF succeeded THEN @ \cup {w.action} ELSE @,
                    !.failed = IF succeeded THEN @ \ {w.action} ELSE @ \cup {w.action},
                    !.usage = Charge(@, {"steps", kind}, 1)] \in Work
      BY <1>1, <1>2, <1>3 DEF Work
    <2> QED BY <1>3, <2>1
  <1>5. made' \in [provider : Nat, tool : Nat, steps : Nat]
    BY DEF Execute, TypeOK
  <1>6. CallOut(r) /\ Go(r, "finish_step") /\ UNCHANGED <<stream, view, envVars>>
    BY DEF Execute
  <1> QED BY <1>1, <1>4, <1>5, <1>6, CallOutType, GoType, RunnerType DEF TypeOK

(* Type correctness of the terminal event of a step.                       *)
LEMMA FinishStepType ==
  ASSUME TypeOK, ActionChosen, NEW r \in Runners, FinishStep(r)
  PROVE  TypeOK'
  <1>1. r \in Procs /\ work[r] \in Work /\ "checkpoint" \in AllPCs /\ work[r].action \in Steps
    BY DEF Procs, TypeOK, AllPCs, RunnerPCs, ActionChosen, Acting, FinishStep
  <1>2. PICK type \in {"step_completed", "step_failed"} :
          AppendBy(r, StepEvent(type, work[r].action), "checkpoint")
    BY DEF FinishStep
  <1>3. EventOK(StepEvent(type, work[r].action))
    BY <1>1, <1>2 DEF EventOK, StepEvent
  <1>4. stream' \in Stream /\ pc' \in [Procs -> AllPCs] /\ version' \in [Procs -> Nat]
    BY <1>1, <1>2, <1>3, AppendType
  <1>5. [work[r] EXCEPT !.ret = "schedule"] \in Work
    BY <1>1 DEF Work, AfterCheckpoint
  <1> QED BY <1>4, <1>5, RunnerType DEF FinishStep, TypeOK

(* Type correctness of the verification.                                   *)
LEMMA VerifyType ==
  ASSUME TypeOK, NEW r \in Runners, Verify(r)
  PROVE  TypeOK'
  <1>1. r \in Procs /\ work[r] \in Work /\ {"record_acceptance", "judge"} \subseteq AllPCs
    BY DEF Procs, TypeOK, AllPCs, RunnerPCs
  <1>2. PICK accepted \in BOOLEAN, calls \in Nat :
          Set(r, [work[r] EXCEPT !.accepted = accepted, !.usage = Charge(@, {"verifier"}, calls)])
    <2>1. CallCounts(work[r]) \subseteq Nat
      BY ControllerAssumption DEF CallCounts
    <2> QED BY <2>1 DEF Verify
  <1>3. [work[r] EXCEPT !.accepted = accepted, !.usage = Charge(@, {"verifier"}, calls)] \in Work
    BY <1>1, <1>2, ChargeType DEF Work
  <1>4. Go(r, "record_acceptance") \/ Go(r, "judge")
    BY DEF Verify
  <1>5. CallOut(r) /\ UNCHANGED <<stream, view, made, envVars>>
    BY DEF Verify
  <1> QED BY <1>1, <1>2, <1>3, <1>4, <1>5, CallOutType, GoType, RunnerType DEF TypeOK

(* Type correctness of what follows the acceptance decision.               *)
LEMMA JudgeType ==
  ASSUME TypeOK, NEW r \in Runners, Judge(r)
  PROVE  TypeOK'
  <1>1. r \in Procs /\ work[r] \in Work
    BY DEF Procs, TypeOK
  <1>2. {"to_completed", "to_failed", "to_budget_exhausted", "to_repairing"} \subseteq AllPCs
    BY DEF AllPCs, RunnerPCs, Target
  <1>3. [work[r] EXCEPT !.refused = TRUE] \in Work
    BY <1>1 DEF Work
  <1>4. UNCHANGED work \/ \E v \in Work : Set(r, v)
    BY <1>3 DEF Judge
  <1>5. \/ Go(r, "to_completed") \/ Go(r, "to_failed") \/ Go(r, "to_budget_exhausted")
        \/ Go(r, "to_repairing")
    BY DEF Judge
  <1>6. UNCHANGED <<stream, view, made, lateCalls, envVars>>
    BY DEF Judge
  <1> QED BY <1>1, <1>2, <1>4, <1>5, <1>6, GoType, RunnerType DEF TypeOK

(* Type correctness of a repair plan.                                      *)
LEMMA RevisePlanType ==
  ASSUME TypeOK, NEW r \in Runners, RevisePlan(r)
  PROVE  TypeOK'
  <1> DEFINE w == work[r]
  <1>1. r \in Procs /\ w \in Work /\ {"plan_revised", "aborted"} \subseteq AllPCs
    BY DEF Procs, TypeOK, AllPCs, RunnerPCs, Done
  <1>2. PICK p \in Plans :
          \/ /\ Set(r, [w EXCEPT !.plan = p, !.completed = @ \cap p.steps, !.failed = {},
                           !.toCreate = p.steps \ w.completed, !.repairing = TRUE,
                           !.usage = Charge(@, {"repair", "provider"}, 1)])
             /\ Go(r, "plan_revised")
          \/ Go(r, "aborted") /\ UNCHANGED work
    BY DEF RevisePlan
  <1>3. p \in Plan /\ p.steps \subseteq Steps
    BY <1>2, ControllerAssumption DEF Plan
  <1>4. [w EXCEPT !.plan = p, !.completed = @ \cap p.steps, !.failed = {},
                   !.toCreate = p.steps \ w.completed, !.repairing = TRUE,
                   !.usage = Charge(@, {"repair", "provider"}, 1)] \in Work
    BY <1>1, <1>3, ChargeType DEF Work
  <1>5. UNCHANGED work \/ \E v \in Work : Set(r, v)
    BY <1>2, <1>4
  <1>6. /\ CallOut(r) /\ UNCHANGED <<stream, view, envVars>>
        /\ made' = [made EXCEPT !.provider = @ + 1]
    BY DEF RevisePlan
  <1>7. made' \in [provider : Nat, tool : Nat, steps : Nat]
    BY <1>6 DEF TypeOK
  <1>8. pc' \in [Procs -> AllPCs] /\ version' \in [Procs -> Nat]
    BY <1>1, <1>2, GoType
  <1> QED BY <1>1, <1>5, <1>6, <1>7, <1>8, CallOutType, RunnerType DEF TypeOK

(* Type correctness of cancel.                                             *)
LEMMA CancelType ==
  ASSUME TypeOK, NEW c \in Cancellers, CancelStep(c)
  PROVE  TypeOK'
  <1>1. c \in Procs /\ {"to_cancelled", "record_cancel", "returned"} \subseteq AllPCs
    BY DEF Procs, AllPCs, OtherPCs, Done
  <1>2. CASE ReadForCancel(c)
    <2>1. /\ pc' = [pc EXCEPT ![c] = "to_cancelled"]
          /\ version' = [version EXCEPT ![c] = stream.version]
          /\ view' = [view EXCEPT ![c] = stream.state]
          /\ UNCHANGED <<stream, work, made, lateCalls, envVars>>
      BY <1>2 DEF ReadForCancel
    <2>2. stream.version \in Nat /\ stream.state \in States
      BY DEF TypeOK, Stream
    <2> QED BY <1>1, <2>1, <2>2 DEF TypeOK, AllPCs, envVars
  <1>3. CASE Cancel(c)
    <2>1. /\ AppendBy(c, StateChanged(view[c], "cancelled"), "record_cancel")
          /\ view' = [view EXCEPT ![c] = IF VersionMatches(c) THEN "cancelled" ELSE @]
          /\ UNCHANGED <<work, made, lateCalls, envVars>>
      BY <1>3 DEF Cancel
    <2>2. EventOK(StateChanged(view[c], "cancelled")) /\ "cancelled" \in States
      BY Tables DEF EventOK, StateChanged
    <2>3. stream' \in Stream /\ pc' \in [Procs -> AllPCs] /\ version' \in [Procs -> Nat]
      BY <1>1, <2>1, <2>2, AppendType
    <2> QED BY <1>1, <2>1, <2>2, <2>3 DEF TypeOK, AllPCs, envVars
  <1>4. CASE RecordCancel(c)
    BY <1>1, <1>4, PlainEventOK, AnnounceType DEF RecordCancel
  <1> QED BY <1>2, <1>3, <1>4 DEF CancelStep

(* Type correctness of continue_run.                                       *)
LEMMA ContinueType ==
  ASSUME TypeOK, NEW c \in Continuers, ContinueStep(c)
  PROVE  TypeOK'
  <1>1. /\ c \in Procs
        /\ {"provide", "consume", "revise", "problem_revised", "resume", "resumed",
            "idle", "returned"} \subseteq AllPCs
    BY DEF Procs, AllPCs, OtherPCs, Done
  <1>2. CASE ReadForContinue(c)
    <2>1. stream.version \in Nat
      BY DEF TypeOK, Stream
    <2> QED BY <1>1, <1>2, <2>1 DEF ReadForContinue, TypeOK, AllPCs, envVars
  <1>3. CASE Provide(c)
    BY <1>1, <1>3, PlainEventOK, AnnounceType DEF Provide
  <1>4. CASE Consume(c)
    BY <1>1, <1>4, PlainEventOK, AnnounceType DEF Consume
  <1>5. CASE Revise(c)
    <2>1. /\ CallOut(c) /\ Go(c, "problem_revised") /\ UNCHANGED <<stream, view, work, envVars>>
          /\ made' = [made EXCEPT !.provider = @ + 1]
      BY <1>5 DEF Revise
    <2>2. made' \in [provider : Nat, tool : Nat, steps : Nat]
      BY <2>1 DEF TypeOK
    <2>3. pc' \in [Procs -> AllPCs] /\ version' \in [Procs -> Nat]
      BY <1>1, <2>1, GoType
    <2>4. lateCalls' \in [Procs -> Nat]
      BY <1>1, <2>1, CallOutType
    <2> QED BY <2>1, <2>2, <2>3, <2>4 DEF TypeOK, AllPCs, envVars
  <1>6. CASE ProblemRevised(c)
    BY <1>1, <1>6, PlainEventOK, AnnounceType DEF ProblemRevised
  <1>7. ASSUME NEW x \in {"representing_problem", "ready"}, NEW y
        PROVE  EventOK(StateChanged(y, x))
    BY Tables DEF EventOK, StateChanged
  <1>8. CASE Resume(c)
    BY <1>1, <1>7, <1>8, AnnounceType DEF Resume
  <1>9. CASE Resumed(c)
    BY <1>1, <1>7, <1>9, AnnounceType DEF Resumed
  <1> QED BY <1>2, <1>3, <1>4, <1>5, <1>6, <1>8, <1>9 DEF ContinueStep

(* Type correctness of failures and of the passing of time.                *)
LEMMA EnvironmentType ==
  ASSUME TypeOK, \/ \E p \in Procs : Fail(p)
                 \/ TimeRunsOut \/ TokenExpires \/ UNCHANGED vars
  PROVE  TypeOK'
  <1>1. CASE \E p \in Procs : Fail(p)
    <2>1. PICK p \in Procs : Fail(p)
      BY <1>1
    <2>2. Raised(p) \in AllPCs
      BY DEF Raised, AllPCs, OtherPCs, Done
    <2> QED BY <2>1, <2>2 DEF Fail, TypeOK, AllPCs
  <1>2. CASE TimeRunsOut
    BY <1>2 DEF TimeRunsOut, TypeOK, callVars
  <1>3. CASE TokenExpires
    BY <1>3 DEF TokenExpires, TypeOK, callVars
  <1>4. CASE UNCHANGED vars
    BY <1>4 DEF vars, callVars, envVars, TypeOK
  <1> QED BY <1>1, <1>2, <1>3, <1>4

(* Every step keeps TypeOK.                                                *)
LEMMA TypeStep ==
  ASSUME TypeOK, ActionChosen, [Next]_vars
  PROVE  TypeOK'
  <1>1. ASSUME NEW r \in Runners, RunnerStep(r) PROVE TypeOK'
    BY <1>1, TransitionType, CheckpointType, RepresentType, RunnerAnnounceType,
       RaiseUnconfiguredType, CreatePlanType, CreateStepType, StepsCreatedType, ScheduleType,
       StepEventsType, ExecuteType, FinishStepType, VerifyType, JudgeType, RevisePlanType
       DEF RunnerStep
  <1> QED BY <1>1, CancelType, ContinueType, EnvironmentType DEF Next
-----------------------------------------------------------------------------
(* A call that moves keeps the chosen actions of the others.               *)
LEMMA ChosenKept ==
  ASSUME TypeOK, ActionChosen, NEW p \in Procs, NEW n, pc' = [pc EXCEPT ![p] = n],
         \A q \in Runners : q # p => work'[q] = work[q],
         p \in Runners /\ n \in Acting => work'[p].action \in Steps
  PROVE  ActionChosen'
  BY DEF ActionChosen, TypeOK, Procs

(* A step of start has an action wherever it needs one.                    *)
LEMMA RunnerChosen ==
  ASSUME TypeOK, ActionChosen, NEW r \in Runners, RunnerStep(r)
  PROVE  ActionChosen'
  <1>1. r \in Procs /\ Raised(r) = "aborted" /\ work[r] \in Work
    BY DEF Procs, Raised, TypeOK
  <1>2. ASSUME NEW e, NEW next, AppendBy(r, e, next)
        PROVE  \E n \in {next, "aborted"} : pc' = [pc EXCEPT ![r] = n]
    BY <1>1, <1>2 DEF AppendBy
  <1>3. ASSUME NEW w, Set(r, w)
        PROVE  work'[r] = w /\ \A q \in Runners : q # r => work'[q] = work[q]
    BY <1>3 DEF Set, TypeOK
  <1>4. CASE Transition(r)
    <2>1. Following[pc[r]] \notin Acting /\ "aborted" \notin Acting
      BY <1>4, Tables DEF Transition, Following, Acting
    <2>2. \E n \in {Following[pc[r]], "aborted"} : pc' = [pc EXCEPT ![r] = n]
      BY <1>2, <1>4 DEF Transition, Go
    <2> QED BY <1>1, <1>4, <2>1, <2>2, ChosenKept DEF Transition
  <1>5. CASE Checkpoint(r)
    <2>1. work[r].ret \notin Acting /\ "aborted" \notin Acting
      BY <1>1 DEF Work, AfterCheckpoint, Acting
    <2>2. \E n \in {work[r].ret, "aborted"} : pc' = [pc EXCEPT ![r] = n]
      BY <1>2, <1>5 DEF Checkpoint, Go
    <2> QED BY <1>1, <1>5, <2>1, <2>2, ChosenKept DEF Checkpoint
  <1>6. CASE \/ ProblemCreated(r) \/ RequestClarification(r) \/ WaitingCheckpoint(r) \/ Issue(r)
             \/ PlanCreated(r) \/ RecordAcceptance(r) \/ PlanRevised(r)
    <2>1. /\ \E n \in {"checkpoint", "to_waiting", "issue", "returned", "create_steps", "judge",
                       "aborted"} : pc' = [pc EXCEPT ![r] = n]
          /\ UNCHANGED work
      BY <1>2, <1>6 DEF ProblemCreated, RequestClarification, WaitingCheckpoint, Issue,
         PlanCreated, RecordAcceptance, PlanRevised, Announce
    <2> QED BY <1>1, <2>1, ChosenKept DEF Acting
  <1>7. CASE Decide(r) \/ StartStep(r)
    <2>1. /\ \E n \in {"start_step", "execute", "aborted"} : pc' = [pc EXCEPT ![r] = n]
          /\ pc[r] \in Acting /\ UNCHANGED work
      BY <1>2, <1>7 DEF Decide, StartStep, Announce, Acting
    <2> QED BY <1>1, <2>1, ChosenKept DEF ActionChosen
  <1>8. CASE RaiseUnconfigured(r)
    BY <1>1, <1>8, ChosenKept DEF RaiseUnconfigured, Go, Acting
  <1>9. CASE Represent(r) \/ CreatePlan(r) \/ StepsCreated(r) \/ Verify(r) \/ RevisePlan(r)
    <2>1. \E n : n \notin Acting /\ pc' = [pc EXCEPT ![r] = n]
      BY <1>9 DEF Represent, CreatePlan, StepsCreated, Verify, RevisePlan, Go, Acting
    <2>2. UNCHANGED work \/ \E w : Set(r, w)
      BY <1>9 DEF Represent, CreatePlan, StepsCreated, Verify, RevisePlan
    <2> QED BY <1>1, <1>3, <2>1, <2>2, ChosenKept
  <1>10. CASE CreateStep(r) \/ FinishStep(r)
    <2>1. \E n \in {"create_steps", "checkpoint", "aborted"} : pc' = [pc EXCEPT ![r] = n]
      BY <1>2, <1>10 DEF CreateStep, FinishStep
    <2>2. \E w : Set(r, w)
      BY <1>10 DEF CreateStep, FinishStep
    <2> QED BY <1>1, <1>3, <2>1, <2>2, ChosenKept DEF Acting
  <1>11. CASE Judge(r)
    <2>1. \E n : n \notin Acting /\ pc' = [pc EXCEPT ![r] = n]
      BY <1>11 DEF Judge, Go, Acting
    <2>2. UNCHANGED work \/ \E w : Set(r, w)
      BY <1>11 DEF Judge
    <2> QED BY <1>1, <1>3, <2>1, <2>2, ChosenKept
  <1>12. CASE Execute(r)
    <2>1. pc' = [pc EXCEPT ![r] = "finish_step"] /\ pc[r] \in Acting
      BY <1>12 DEF Execute, Go, Acting
    <2> DEFINE w == work[r]
               kind == Kind[w.action]
               after(b) == [w EXCEPT !.succeeded = b,
                              !.completed = IF b THEN @ \cup {w.action} ELSE @,
                              !.failed = IF b THEN @ \ {w.action} ELSE @ \cup {w.action},
                              !.usage = Charge(@, {"steps", kind}, 1)]
    <2>2. PICK b \in BOOLEAN : Set(r, after(b))
      BY <1>12 DEF Execute
    <2>3. after(b).action = w.action
      BY <1>1 DEF Work
    <2>4. work'[r].action = w.action /\ \A q \in Runners : q # r => work'[q] = work[q]
      BY <1>3, <2>2, <2>3
    <2> QED BY <1>1, <2>1, <2>4, ChosenKept DEF ActionChosen
  <1>13. CASE Schedule(r)
    <2> DEFINE w == work[r]
               looping == [w EXCEPT !.iterations = @ + 1]
    <2>1. CASE \E s \in ReadySteps(w) : Set(r, [looping EXCEPT !.action = s])
      <3>1. PICK s \in ReadySteps(w) : Set(r, [looping EXCEPT !.action = s])
        BY <2>1
      <3>2. s \in Steps /\ [looping EXCEPT !.action = s].action = s
        BY <1>1, <3>1 DEF ReadySteps, Work, Plan
      <3>3. work'[r].action \in Steps /\ \A q \in Runners : q # r => work'[q] = work[q]
        BY <1>3, <3>1, <3>2
      <3>4. \E n : pc' = [pc EXCEPT ![r] = n]
        BY <1>13 DEF Schedule, Go
      <3> QED BY <1>1, <3>3, <3>4, ChosenKept
    <2>2. CASE ~ \E s \in ReadySteps(w) : Set(r, [looping EXCEPT !.action = s])
      <3>1. \E n : n \notin Acting /\ pc' = [pc EXCEPT ![r] = n]
        BY <1>13, <2>2 DEF Schedule, Go, Acting
      <3>2. UNCHANGED work \/ \E v : Set(r, v)
        BY <1>13 DEF Schedule
      <3> QED BY <1>1, <1>3, <3>1, <3>2, ChosenKept
    <2> QED BY <2>1, <2>2
  <1> QED BY <1>4, <1>5, <1>6, <1>7, <1>8, <1>9, <1>10, <1>11, <1>12, <1>13 DEF RunnerStep

(* cancel and continue_run leave the chosen actions alone.                 *)
LEMMA OtherChosen ==
  ASSUME TypeOK, ActionChosen, NEW c \in Cancellers \cup Continuers,
         (c \in Cancellers /\ CancelStep(c)) \/ (c \in Continuers /\ ContinueStep(c))
  PROVE  ActionChosen'
  <1>1. c \in Procs /\ c \notin Runners
    BY ControllerAssumption DEF Procs
  <1>2. ASSUME NEW e, NEW next, AppendBy(c, e, next)
        PROVE  \E n : pc' = [pc EXCEPT ![c] = n]
    BY <1>2 DEF AppendBy
  <1>3. (\E n : pc' = [pc EXCEPT ![c] = n]) /\ UNCHANGED work
    BY <1>2 DEF CancelStep, ReadForCancel, Cancel, RecordCancel, Announce, ContinueStep,
       ReadForContinue, Provide, Consume, Revise, ProblemRevised, Resume, Resumed, Go
  <1> QED BY <1>1, <1>3, ChosenKept

(* Every step keeps ActionChosen.                                          *)
LEMMA ChosenStep ==
  ASSUME TypeOK, ActionChosen, [Next]_vars
  PROVE  ActionChosen'
  <1>1. ASSUME NEW p \in Procs, Fail(p) PROVE ActionChosen'
    BY <1>1, ChosenKept DEF Fail, Raised, Acting
  <1>2. CASE TimeRunsOut
    BY <1>2 DEF TimeRunsOut, callVars, ActionChosen
  <1>3. CASE TokenExpires
    BY <1>3 DEF TokenExpires, callVars, ActionChosen
  <1>4. CASE UNCHANGED vars
    BY <1>4 DEF vars, callVars, ActionChosen
  <1> QED BY <1>1, <1>2, <1>3, <1>4, RunnerChosen, OtherChosen DEF Next
-----------------------------------------------------------------------------
(* What an event must be to follow stream: a legal change of its state, a  *)
(* token bound to its own version, the first consumption, a revision that  *)
(* a consumption precedes; after the end, the one event of cancel.         *)
Fits(e) ==
  /\ e.type = "state_changed" =>
       e.previous = stream.state /\ e.current \in Transitions[stream.state]
  /\ e.type = "continuation_issued" =>
       e.bound = stream.version + 1 /\ stream.state = "waiting_for_clarification"
  /\ e.type = "continuation_consumed" => stream.consumed = 0
  /\ e.type \in {"problem_created", "problem_revised"} => stream.revision <= stream.consumed
  /\ stream.state \in Terminal => stream.state = "cancelled" /\ stream.trailing = 0

(* No transition leaves a terminal state.                                  *)
LEMMA TerminalIsFinal ==
  ASSUME NEW s \in Terminal
  PROVE  s \in States /\ Transitions[s] = {}
  BY Tables DEF Terminal, Transitions

(* An event that fits the stream keeps it sound and changes state legally. *)
LEMMA FittingAppend ==
  ASSUME TypeOK, StreamSound, NEW e, EventOK(e), Fits(e), stream' = Reduce(stream, e)
  PROVE  /\ StreamSound'
         /\ stream'.version = stream.version + 1
         /\ stream'.state # stream.state => stream'.state \in Transitions[stream.state]
  <1>1. stream \in Stream /\ stream' \in Stream
    BY ReduceType DEF TypeOK
  <1>2. /\ stream'.version = stream.version + 1
        /\ stream'.state = IF e.type = "state_changed" THEN e.current ELSE stream.state
        /\ stream'.replayable =
             (stream.replayable /\ (e.type = "state_changed" => e.previous = stream.state))
        /\ stream'.trailing = IF stream.state \in Terminal THEN stream.trailing + 1
                              ELSE stream.trailing
        /\ stream'.revision = IF e.type \in {"problem_created", "problem_revised"}
                              THEN stream.revision + 1 ELSE stream.revision
        /\ stream'.token = IF e.type = "continuation_issued" THEN e.bound ELSE stream.token
        /\ stream'.consumed = IF e.type = "continuation_consumed" THEN stream.consumed + 1
                              ELSE stream.consumed
    BY DEF Reduce
  <1>3. /\ stream.version \in Nat /\ stream.token \in Nat /\ stream.trailing \in Nat
        /\ stream.revision \in Nat /\ stream.consumed \in Nat
    BY <1>1 DEF Stream
  <1>4. stream'.state # stream.state => stream'.state \in Transitions[stream.state]
    BY <1>2 DEF Fits
  <1>5. stream'.replayable
    BY <1>2 DEF Fits, StreamSound
  <1>6. /\ stream'.token <= stream'.version
        /\ stream'.token > 0 /\ stream'.token = stream'.version
             => stream'.state = "waiting_for_clarification"
    BY <1>2, <1>3 DEF Fits, StreamSound
  <1>7. /\ stream'.state \notin Terminal => stream'.trailing = 0
        /\ NothingAfterTheEnd'
    <2>1. CASE stream.state \in Terminal
      <3>1. stream.state = "cancelled" /\ stream.trailing = 0 /\ e.type # "state_changed"
        BY <2>1, TerminalIsFinal DEF Fits
      <3> QED BY <1>2, <2>1, <3>1 DEF NothingAfterTheEnd
    <2>2. CASE stream.state \notin Terminal
      BY <1>2, <2>2 DEF NothingAfterTheEnd, StreamSound
    <2> QED BY <2>1, <2>2
  <1>8. TokenConsumedOnce'
    BY <1>2, <1>3 DEF TokenConsumedOnce, Fits, StreamSound
  <1> QED BY <1>2, <1>3, <1>4, <1>5, <1>6, <1>7, <1>8 DEF StreamSound

(* A step of call q: the others' views stay, the stream grows by one event *)
(* at most.                                                                *)
Moved(q) ==
  /\ \A p \in Procs \ {q} : pc'[p] = pc[p] /\ version'[p] = version[p] /\ view'[p] = view[p]
  /\ stream' = stream \/ stream'.version = stream.version + 1

(* When call q moves, what p knows stays true: a new version frees p.      *)
LEMMA OthersKnow ==
  ASSUME Inv, NEW q \in Procs, Moved(q), NEW p \in Procs \ {q}
  PROVE  Knows(p)'
  <1>1. Knows(p) /\ pc'[p] = pc[p] /\ version'[p] = version[p] /\ view'[p] = view[p]
    BY DEF Inv, Moved
  <1>2. CASE stream' = stream
    BY <1>1, <1>2 DEF Knows, Current, RunnerKnows, CancellerKnows, ContinuerKnows
  <1>3. CASE stream'.version = stream.version + 1
    <2>1. version[p] \in Nat /\ stream.version \in Nat /\ version[p] <= stream.version
      BY <1>1 DEF Inv, TypeOK, Stream, Knows
    <2>2. ~Current(p)' /\ version'[p] <= stream'.version /\ stream'.version > 0
      BY <1>1, <1>3, <2>1 DEF Current
    <2>3. p \in Runners => RunnerKnows(p)'
      BY <1>1, <2>2 DEF Knows, RunnerKnows
    <2>4. p \in Cancellers => CancellerKnows(p)'
      BY <1>1, <2>2 DEF Knows, CancellerKnows
    <2>5. p \in Continuers => ContinuerKnows(p)'
      BY <1>1, <2>2 DEF Knows, ContinuerKnows
    <2> QED BY <2>2, <2>3, <2>4, <2>5 DEF Knows
  <1> QED BY <1>2, <1>3 DEF Moved

(* What every step must keep, types aside, and what it may do to the state.*)
Safe == StreamSound /\ SingleDriver /\ \A p \in Procs : Knows(p)
LegalStep == stream'.state # stream.state => stream'.state \in Transitions[stream.state]

(* Only a runner that claims version 0 becomes the driver.                 *)
LEMMA DriverKept ==
  ASSUME Inv, NEW q \in Procs, NEW n, pc' = [pc EXCEPT ![q] = n],
         \/ n = "aborted" \/ q \notin Runners
         \/ pc[q] \notin {"to_representing", "aborted"} \/ stream.version = 0
  PROVE  SingleDriver'
  <1>1. \A p \in Procs : p # q => pc'[p] = pc[p]
    BY DEF Inv, TypeOK
  <1>2. Runners \subseteq Procs /\ pc'[q] = n
    BY DEF Procs, Inv, TypeOK
  <1>3. CASE n = "aborted" \/ q \notin Runners \/ pc[q] \notin {"to_representing", "aborted"}
    BY <1>1, <1>2, <1>3 DEF Inv, SingleDriver
  <1>4. CASE stream.version = 0
    <2>1. \A r \in Runners : pc[r] \in {"to_representing", "aborted"}
      BY <1>2, <1>4 DEF Inv, Knows, RunnerKnows
    <2> QED BY <1>1, <1>2, <2>1 DEF SingleDriver
  <1> QED BY <1>3, <1>4

(* A step of start that appends nothing.                                   *)
LEMMA RunnerQuiet ==
  ASSUME Inv, NEW r \in Runners, NEW n \in RunnerPCs \cup {"aborted"}, Go(r, n),
         UNCHANGED <<stream, view>>,
         n \notin {"to_representing", "represent", "waiting_checkpoint", "issue"},
         n = "problem_created" => pc[r] = "represent",
         pc[r] \in RunnerPCs, pc[r] # "to_representing" \/ n = "aborted"
  PROVE  Safe' /\ LegalStep
  <1>1. r \in Procs /\ r \notin Cancellers /\ r \notin Continuers
    BY ControllerAssumption DEF Procs
  <1>2. /\ pc'[r] = n /\ pc' = [pc EXCEPT ![r] = n]
        /\ version' = version /\ view' = view /\ stream' = stream
        /\ \A p \in Procs : p # r => pc'[p] = pc[p]
    BY <1>1 DEF Go, Inv, TypeOK
  <1>3. Moved(r)
    BY <1>2 DEF Moved
  <1>4. pc[r] \notin Done /\ pc[r] # "aborted"
    BY DEF RunnerPCs, Done, Target
  <1>5. SingleDriver'
    BY <1>1, <1>2, <1>4, DriverKept
  <1>6. Knows(r) /\ RunnerKnows(r)
    BY <1>1 DEF Inv, Knows
  <1>7. RunnerKnows(r)'
    BY <1>2, <1>4, <1>6 DEF RunnerKnows, Current, Done
  <1>8. Knows(r)'
    BY <1>1, <1>2, <1>6, <1>7 DEF Knows
  <1>9. StreamSound'
    BY <1>2 DEF Inv, StreamSound, NothingAfterTheEnd, TokenConsumedOnce
  <1> QED BY <1>1, <1>2, <1>3, <1>5, <1>8, <1>9, OthersKnow DEF Safe, LegalStep

(* A step of start that appends, or meets a version conflict.              *)
LEMMA RunnerAppend ==
  ASSUME Inv, NEW r \in Runners, NEW e, EventOK(e), NEW n, AppendBy(r, e, n),
         pc[r] \in RunnerPCs, n \in RunnerPCs \cup {"returned"}, n # "to_representing",
         \A p \in Procs : p # r => view'[p] = view[p],
         ~Current(r) => view'[r] = view[r],
         Current(r) => /\ Fits(e) /\ view'[r] = stream'.state
                       /\ n # "returned" => stream'.state \notin Terminal
                       /\ n \in {"waiting_checkpoint", "issue"}
                            => stream'.state = "waiting_for_clarification"
                       /\ n \in {"represent", "problem_created"}
                            => stream'.revision = 0 /\ stream'.consumed = 0
  PROVE  Safe' /\ LegalStep
  <1>1. r \in Procs /\ r \notin Cancellers /\ r \notin Continuers /\ Raised(r) = "aborted"
    BY ControllerAssumption DEF Procs, Raised
  <1>2. Knows(r) /\ RunnerKnows(r)
    BY <1>1 DEF Inv, Knows
  <1>3. version[r] \in Nat /\ stream.version \in Nat
    BY <1>1 DEF Inv, TypeOK, Stream
  <1>4. pc[r] \notin {"returned", "aborted"} /\ n # "aborted"
    BY DEF RunnerPCs, Target
  <1>5. CASE Current(r)
    <2>1. /\ stream' = Reduce(stream, e) /\ pc' = [pc EXCEPT ![r] = n]
          /\ version' = [version EXCEPT ![r] = stream.version + 1]
      BY <1>5 DEF AppendBy, VersionMatches, Current
    <2>2. /\ pc'[r] = n /\ version'[r] = stream.version + 1
          /\ \A p \in Procs : p # r => pc'[p] = pc[p] /\ version'[p] = version[p]
      BY <1>1, <2>1 DEF Inv, TypeOK
    <2>3. StreamSound' /\ stream'.version = stream.version + 1 /\ LegalStep
      BY <1>5, <2>1, FittingAppend DEF Inv, LegalStep
    <2>4. Moved(r)
      BY <2>2, <2>3 DEF Moved
    <2>5. RunnerKnows(r)'
      BY <1>3, <1>5, <2>2, <2>3 DEF RunnerKnows, Done
    <2>6. Knows(r)'
      BY <1>1, <1>3, <2>2, <2>3, <2>5 DEF Knows
    <2>7. SingleDriver'
      BY <1>1, <1>2, <1>4, <1>5, <2>1, DriverKept DEF RunnerKnows, Current
    <2> QED BY <1>1, <2>3, <2>4, <2>6, <2>7, OthersKnow DEF Safe
  <1>6. CASE ~Current(r)
    <2>1. /\ stream' = stream /\ pc' = [pc EXCEPT ![r] = "aborted"]
          /\ version' = [version EXCEPT ![r] = 0]
      BY <1>1, <1>6 DEF AppendBy, VersionMatches, Current
    <2>2. /\ pc'[r] = "aborted" /\ version'[r] = 0
          /\ \A p \in Procs : p # r => pc'[p] = pc[p] /\ version'[p] = version[p]
      BY <1>1, <2>1 DEF Inv, TypeOK
    <2>3. stream.version > 0
      BY <1>2, <1>3, <1>4, <1>6 DEF RunnerKnows, Current
    <2>4. Moved(r)
      BY <2>1, <2>2 DEF Moved
    <2>5. RunnerKnows(r)'
      BY <1>3, <2>1, <2>2, <2>3 DEF RunnerKnows, Done, Current
    <2>6. Knows(r)'
      BY <1>1, <1>3, <2>1, <2>2, <2>5 DEF Knows
    <2>7. SingleDriver'
      BY <1>1, <2>1, DriverKept
    <2>8. StreamSound'
      BY <2>1 DEF Inv, StreamSound, NothingAfterTheEnd, TokenConsumedOnce
    <2> QED BY <1>1, <2>1, <2>4, <2>6, <2>7, <2>8, OthersKnow DEF Safe, LegalStep
  <1> QED BY <1>5, <1>6

(* The appends of start that change neither the state nor what is known of *)
(* the clarification.                                                      *)
LEMMA RunnerPlain ==
  ASSUME Inv, NEW r \in Runners, NEW e, EventOK(e), NEW n, AppendBy(r, e, n),
         e.type \notin {"state_changed", "continuation_issued", "continuation_consumed",
                       "problem_created", "problem_revised"},
         pc[r] \in RunnerPCs, UNCHANGED view,
         n \in RunnerPCs \ {"to_representing", "represent", "problem_created",
                            "waiting_checkpoint"},
         n = "issue" => pc[r] = "waiting_checkpoint"
  PROVE  Safe' /\ LegalStep
  <1>1. r \in Procs /\ RunnerKnows(r) /\ pc[r] \notin Done
    BY DEF Procs, Inv, Knows, RunnerPCs, Done, Target
  <1>2. ASSUME Current(r)
        PROVE  /\ Fits(e) /\ stream'.state = stream.state /\ view'[r] = stream'.state
               /\ stream'.state \notin Terminal
               /\ n = "issue" => stream'.state = "waiting_for_clarification"
    <2>1. stream' = Reduce(stream, e)
      BY <1>2 DEF AppendBy, VersionMatches, Current
    <2>2. stream'.state = stream.state
      BY <2>1 DEF Reduce
    <2>3. view[r] = stream.state /\ view[r] \notin Terminal
      BY <1>1, <1>2 DEF RunnerKnows
    <2>4. n = "issue" => view[r] = "waiting_for_clarification"
      BY <1>1 DEF RunnerKnows
    <2>5. Fits(e)
      BY <2>3 DEF Fits
    <2> QED BY <2>2, <2>3, <2>4, <2>5
  <1> QED BY <1>2, RunnerAppend

(* A state change of start, appended where its machine stands.             *)
LEMMA TransitionSafe ==
  ASSUME Inv, NEW r \in Runners, Transition(r)
  PROVE  Safe' /\ LegalStep
  <1> DEFINE x == pc[r]
  <1>1. r \in Procs /\ RunnerKnows(r) /\ x \in DOMAIN Target /\ x \in RunnerPCs
    BY DEF Procs, Inv, Knows, Transition, RunnerPCs
  <1>2. CASE Target[x] \notin Transitions[view[r]]
    BY <1>1, <1>2, RunnerQuiet DEF Transition
  <1>3. CASE Target[x] \in Transitions[view[r]]
    <2> DEFINE e == StateChanged(view[r], Target[x])
    <2>1. /\ AppendBy(r, e, Following[x])
          /\ view' = [view EXCEPT ![r] = IF VersionMatches(r) THEN Target[x] ELSE @]
      BY <1>3 DEF Transition
    <2>2. /\ EventOK(e) /\ e.type = "state_changed" /\ e.previous = view[r]
          /\ e.current = Target[x]
      BY <1>1, TransitionTargets DEF EventOK, StateChanged
    <2>3. /\ \A p \in Procs : p # r => view'[p] = view[p]
          /\ ~Current(r) => view'[r] = view[r]
          /\ Current(r) => view'[r] = Target[x]
      BY <1>1, <2>1 DEF Inv, TypeOK, VersionMatches, Current
    <2>4. /\ Following[x] \in RunnerPCs \cup {"returned"}
          /\ Following[x] \notin {"to_representing", "issue", "problem_created"}
      BY <1>1, TransitionTargets
    <2>5. ASSUME Current(r)
          PROVE  /\ Fits(e) /\ view'[r] = stream'.state
                 /\ Following[x] # "returned" => stream'.state \notin Terminal
                 /\ Following[x] = "waiting_checkpoint"
                      => stream'.state = "waiting_for_clarification"
                 /\ Following[x] = "represent" => stream'.revision = 0 /\ stream'.consumed = 0
      <3>1. stream' = Reduce(stream, e)
        BY <2>1, <2>5 DEF AppendBy, VersionMatches, Current
      <3>2. /\ stream'.state = Target[x] /\ stream'.revision = stream.revision
            /\ stream'.consumed = stream.consumed
        BY <2>2, <3>1 DEF Reduce
      <3>3. view[r] = stream.state /\ Target[x] \in Transitions[stream.state]
        BY <1>1, <1>3, <2>5 DEF RunnerKnows
      <3>4. stream.state \notin Terminal
        BY <3>3, TerminalIsFinal
      <3>5. Fits(e)
        BY <2>2, <3>3, <3>4 DEF Fits
      <3>6. x = "to_representing" => stream.revision = 0 /\ stream.consumed = 0
        BY <1>1, <2>5 DEF RunnerKnows, Current, Inv, StreamSound
      <3> QED BY <1>1, <2>3, <2>5, <3>2, <3>5, <3>6, TransitionTargets
    <2> HIDE DEF e
    <2> QED BY <1>1, <2>1, <2>2, <2>3, <2>4, <2>5, RunnerAppend
  <1> QED BY <1>2, <1>3

(* The first revision of the problem.                                      *)
LEMMA ProblemCreatedSafe ==
  ASSUME Inv, NEW r \in Runners, ProblemCreated(r)
  PROVE  Safe' /\ LegalStep
  <1> DEFINE e == Event("problem_created")
  <1>1. r \in Procs /\ RunnerKnows(r) /\ pc[r] = "problem_created" /\ pc[r] \in RunnerPCs
    BY DEF Procs, Inv, Knows, ProblemCreated, Announce, RunnerPCs
  <1>2. AppendBy(r, e, "checkpoint") /\ view' = view
    BY DEF ProblemCreated, Announce
  <1>3. EventOK(e) /\ e.type = "problem_created"
    BY PlainEventOK DEF Event
  <1>4. ASSUME Current(r)
        PROVE  Fits(e) /\ view'[r] = stream'.state /\ stream'.state \notin Terminal
    <2>1. stream' = Reduce(stream, e)
      BY <1>2, <1>4 DEF AppendBy, VersionMatches, Current
    <2>2. stream'.state = stream.state
      BY <1>3, <2>1 DEF Reduce
    <2>3. view[r] = stream.state /\ view[r] \notin Terminal
      BY <1>1, <1>4 DEF RunnerKnows, Done
    <2>4. stream.revision = 0 /\ stream.consumed = 0
      BY <1>1, <1>4 DEF RunnerKnows
    <2>5. Fits(e)
      BY <1>3, <2>3, <2>4 DEF Fits
    <2> QED BY <1>2, <2>2, <2>3, <2>5
  <1>5. "checkpoint" \in RunnerPCs
    BY DEF RunnerPCs
  <1> HIDE DEF e
  <1> QED BY <1>1, <1>2, <1>3, <1>4, <1>5, RunnerAppend

(* The token, bound to the version of its own event.                       *)
LEMMA IssueSafe ==
  ASSUME Inv, NEW r \in Runners, Issue(r)
  PROVE  Safe' /\ LegalStep
  <1> DEFINE e == ContinuationIssued(version[r] + 1)
  <1>1. r \in Procs /\ RunnerKnows(r) /\ pc[r] = "issue" /\ pc[r] \in RunnerPCs
    BY DEF Procs, Inv, Knows, Issue, Announce, RunnerPCs
  <1>2. AppendBy(r, e, "returned") /\ view' = view
    BY DEF Issue, Announce
  <1>3. EventOK(e) /\ e.type = "continuation_issued" /\ e.bound = version[r] + 1
    BY <1>1 DEF EventOK, ContinuationIssued, Inv, TypeOK
  <1>4. ASSUME Current(r) PROVE Fits(e) /\ view'[r] = stream'.state
    <2>1. stream' = Reduce(stream, e)
      BY <1>2, <1>4 DEF AppendBy, VersionMatches, Current
    <2>2. stream'.state = stream.state
      BY <1>3, <2>1 DEF Reduce
    <2>3. view[r] = stream.state /\ view[r] = "waiting_for_clarification"
      BY <1>1, <1>4 DEF RunnerKnows
    <2>4. Fits(e)
      BY <1>3, <1>4, <2>3 DEF Fits, Current, Terminal
    <2> QED BY <1>2, <2>2, <2>3, <2>4
  <1> HIDE DEF e
  <1> QED BY <1>1, <1>2, <1>3, <1>4, RunnerAppend

(* Every step of start is safe and legal.                                  *)
LEMMA RunnerSafe ==
  ASSUME Inv, NEW r \in Runners, RunnerStep(r)
  PROVE  Safe' /\ LegalStep
  <1>0. TypeOK /\ ActionChosen /\ work[r] \in Work
    BY DEF Inv, TypeOK
  <1>1. CASE Checkpoint(r)
    <2>1. /\ work[r].ret \in RunnerPCs
          /\ work[r].ret \notin {"to_representing", "represent", "problem_created",
                               "waiting_checkpoint", "issue"}
      BY <1>0 DEF Work, AfterCheckpoint, RunnerPCs, Target
    <2>2. pc[r] \in RunnerPCs /\ pc[r] # "to_representing" /\ UNCHANGED view
      BY <1>1 DEF Checkpoint, RunnerPCs
    <2>3. EventOK(Event("checkpoint_created")) /\ Event("checkpoint_created").type = "checkpoint_created"
      BY PlainEventOK DEF Event
    <2>4. CASE HasArtifacts
      BY <1>1, <2>1, <2>2, <2>3, <2>4, RunnerPlain DEF Checkpoint
    <2>5. CASE ~HasArtifacts
      BY <1>1, <2>1, <2>2, <2>5, RunnerQuiet DEF Checkpoint
    <2> QED BY <2>4, <2>5
  <1>2. CASE \/ RequestClarification(r) \/ WaitingCheckpoint(r) \/ PlanCreated(r)
             \/ PlanRevised(r) \/ CreateStep(r)
    <2>1. PICK type \in {"clarification_requested", "checkpoint_created", "plan_created",
                        "plan_revised", "step_created"},
               n \in {"to_waiting", "issue", "create_steps"} :
            /\ AppendBy(r, Event(type), n) /\ UNCHANGED view
            /\ pc[r] \in {"request_clarification", "waiting_checkpoint", "plan_created",
                          "plan_revised", "create_steps"}
            /\ n = "issue" => pc[r] = "waiting_checkpoint"
      BY <1>2 DEF RequestClarification, WaitingCheckpoint, PlanCreated, PlanRevised,
         CreateStep, Announce
    <2>2. EventOK(Event(type)) /\ Event(type).type = type
      BY <2>1, PlainEventOK DEF Event
    <2>3. pc[r] \in RunnerPCs /\ n \in RunnerPCs
      BY <2>1 DEF RunnerPCs, Target
    <2> QED BY <2>1, <2>2, <2>3, RunnerPlain
  <1>3. CASE Decide(r) \/ StartStep(r) \/ FinishStep(r)
    <2>1. PICK type \in {"decision_recorded", "step_started", "step_completed", "step_failed"},
               n \in {"start_step", "execute", "checkpoint"} :
            /\ AppendBy(r, StepEvent(type, work[r].action), n) /\ UNCHANGED view
            /\ pc[r] \in Acting
      BY <1>3 DEF Decide, StartStep, FinishStep, Announce, Acting
    <2>2. work[r].action \in Steps
      BY <1>0, <2>1 DEF ActionChosen
    <2>3. /\ EventOK(StepEvent(type, work[r].action))
          /\ StepEvent(type, work[r].action).type = type
      BY <2>1, <2>2 DEF EventOK, StepEvent
    <2>4. pc[r] \in RunnerPCs /\ n \in RunnerPCs
      BY <2>1 DEF RunnerPCs, Acting
    <2> QED BY <2>1, <2>3, <2>4, RunnerPlain
  <1>4. CASE RecordAcceptance(r)
    <2> DEFINE e == AcceptanceRecorded(work[r].accepted)
    <2>1. EventOK(e) /\ e.type = "acceptance_recorded"
      BY <1>0 DEF EventOK, AcceptanceRecorded, Work
    <2>2. AppendBy(r, e, "judge") /\ UNCHANGED view /\ pc[r] = "record_acceptance"
      BY <1>4 DEF RecordAcceptance, Announce
    <2>3. pc[r] \in RunnerPCs /\ "judge" \in RunnerPCs
      BY <2>2 DEF RunnerPCs
    <2> HIDE DEF e
    <2> QED BY <2>1, <2>2, <2>3, RunnerPlain
  <1>5. CASE \/ Represent(r) \/ RaiseUnconfigured(r) \/ CreatePlan(r) \/ StepsCreated(r)
             \/ Schedule(r) \/ Execute(r) \/ Verify(r) \/ Judge(r) \/ RevisePlan(r)
    <2>1. PICK n \in {"to_budget_exhausted", "problem_created", "aborted", "plan_created",
                     "to_executing", "checkpoint", "to_verifying", "to_failed", "decide",
                     "finish_step", "record_acceptance", "judge", "to_completed",
                     "to_repairing", "plan_revised"} :
            Go(r, n) /\ (n = "problem_created" => pc[r] = "represent")
      BY <1>5 DEF Represent, RaiseUnconfigured, CreatePlan, StepsCreated, Schedule, Execute,
         Verify, Judge, RevisePlan
    <2>2. UNCHANGED <<stream, view>>
      BY <1>5 DEF Represent, RaiseUnconfigured, CreatePlan, StepsCreated, Schedule, Execute,
         Verify, Judge, RevisePlan
    <2>3. /\ pc[r] \in {"represent", "raise", "create_plan", "create_steps", "schedule",
                        "execute", "verify", "judge", "revise_plan"}
      BY <1>5 DEF Represent, RaiseUnconfigured, CreatePlan, StepsCreated, Schedule, Execute,
         Verify, Judge, RevisePlan
    <2>4. n \in RunnerPCs \cup {"aborted"} /\ pc[r] \in RunnerPCs
      BY <2>1, <2>3 DEF RunnerPCs, Target
    <2> QED BY <2>1, <2>2, <2>3, <2>4, RunnerQuiet
  <1> QED BY <1>1, <1>2, <1>3, <1>4, <1>5, TransitionSafe, ProblemCreatedSafe, IssueSafe
         DEF RunnerStep

(* A step of cancel or continue_run that appends nothing.                  *)
LEMMA OtherQuiet ==
  ASSUME Inv, NEW c \in Cancellers \cup Continuers, NEW n,
         pc' = [pc EXCEPT ![c] = n], UNCHANGED stream,
         \A p \in Procs : p # c => version'[p] = version[p] /\ view'[p] = view[p],
         version'[c] <= stream.version,
         c \in Cancellers => CancellerKnows(c)', c \in Continuers => ContinuerKnows(c)'
  PROVE  Safe' /\ LegalStep
  <1>1. c \in Procs /\ c \notin Runners
    BY ControllerAssumption DEF Procs
  <1>2. \A p \in Procs : p # c => pc'[p] = pc[p]
    BY DEF Inv, TypeOK
  <1>3. Moved(c)
    BY <1>2 DEF Moved
  <1>4. SingleDriver'
    BY <1>1, DriverKept
  <1>5. StreamSound'
    BY DEF Inv, StreamSound, NothingAfterTheEnd, TokenConsumedOnce
  <1>6. Knows(c)'
    BY <1>1 DEF Knows
  <1> QED BY <1>1, <1>3, <1>4, <1>5, <1>6, OthersKnow DEF Safe, LegalStep

(* A step of cancel or continue_run that appends, or meets a conflict.     *)
LEMMA OtherAppend ==
  ASSUME Inv, NEW c \in Cancellers \cup Continuers, NEW e, EventOK(e), NEW n,
         AppendBy(c, e, n), \A p \in Procs : p # c => view'[p] = view[p],
         Current(c) => Fits(e),
         Current(c) /\ Current(c)' /\ stream' = Reduce(stream, e) /\ pc'[c] = n =>
           /\ c \in Cancellers => CancellerKnows(c)'
           /\ c \in Continuers => ContinuerKnows(c)'
  PROVE  Safe' /\ LegalStep
  <1>1. c \in Procs /\ c \notin Runners /\ Raised(c) = "idle"
    BY ControllerAssumption DEF Procs, Raised
  <1>2. version[c] \in Nat /\ stream.version \in Nat
    BY <1>1 DEF Inv, TypeOK, Stream
  <1>3. CASE Current(c)
    <2>1. /\ stream' = Reduce(stream, e) /\ pc' = [pc EXCEPT ![c] = n]
          /\ version' = [version EXCEPT ![c] = stream.version + 1]
      BY <1>3 DEF AppendBy, VersionMatches, Current
    <2>2. /\ pc'[c] = n /\ version'[c] = stream.version + 1
          /\ \A p \in Procs : p # c => pc'[p] = pc[p] /\ version'[p] = version[p]
      BY <1>1, <2>1 DEF Inv, TypeOK
    <2>3. StreamSound' /\ stream'.version = stream.version + 1 /\ LegalStep
      BY <1>3, <2>1, FittingAppend DEF Inv, LegalStep
    <2>4. Moved(c)
      BY <2>2, <2>3 DEF Moved
    <2>5. Current(c)'
      BY <2>2, <2>3 DEF Current
    <2>6. Knows(c)'
      BY <1>1, <1>2, <1>3, <2>1, <2>2, <2>3, <2>5 DEF Knows
    <2>7. SingleDriver'
      BY <1>1, <2>1, DriverKept
    <2> QED BY <1>1, <2>3, <2>4, <2>6, <2>7, OthersKnow DEF Safe
  <1>4. CASE ~Current(c)
    <2>1. /\ stream' = stream /\ pc' = [pc EXCEPT ![c] = "idle"]
          /\ version' = [version EXCEPT ![c] = 0]
      BY <1>1, <1>4 DEF AppendBy, VersionMatches, Current
    <2>2. /\ pc'[c] = "idle" /\ version'[c] = 0
          /\ \A p \in Procs : p # c => version'[p] = version[p]
      BY <1>1, <2>1 DEF Inv, TypeOK
    <2>3. CancellerKnows(c)' /\ ContinuerKnows(c)'
      BY <2>2 DEF CancellerKnows, ContinuerKnows
    <2>4. version'[c] <= stream.version
      BY <1>2, <2>2
    <2> QED BY <1>2, <2>1, <2>2, <2>3, <2>4, OtherQuiet
  <1> QED BY <1>3, <1>4

(* Every step of cancel is safe and legal.                                 *)
LEMMA CancelSafe ==
  ASSUME Inv, NEW c \in Cancellers, CancelStep(c)
  PROVE  Safe' /\ LegalStep
  <1>1. c \in Procs /\ c \notin Continuers /\ CancellerKnows(c)
    BY ControllerAssumption DEF Procs, Inv, Knows
  <1>2. CASE ReadForCancel(c)
    <2>1. /\ pc'[c] = "to_cancelled" /\ version'[c] = stream.version /\ view'[c] = stream.state
          /\ stream' = stream /\ pc' = [pc EXCEPT ![c] = "to_cancelled"]
          /\ \A p \in Procs : p # c => version'[p] = version[p] /\ view'[p] = view[p]
          /\ "cancelled" \in Transitions[stream.state]
      BY <1>1, <1>2 DEF ReadForCancel, Inv, TypeOK
    <2>2. CancellerKnows(c)'
      BY <2>1 DEF CancellerKnows
    <2>3. stream.version \in Nat
      BY DEF Inv, TypeOK, Stream
    <2>4. version'[c] <= stream.version
      BY <2>1, <2>3
    <2> QED BY <1>1, <2>1, <2>2, <2>3, <2>4, OtherQuiet
  <1>3. CASE Cancel(c)
    <2> DEFINE e == StateChanged(view[c], "cancelled")
    <2>1. /\ pc[c] = "to_cancelled" /\ AppendBy(c, e, "record_cancel")
          /\ view' = [view EXCEPT ![c] = IF VersionMatches(c) THEN "cancelled" ELSE @]
      BY <1>3 DEF Cancel
    <2>2. /\ EventOK(e) /\ e.type = "state_changed" /\ e.previous = view[c]
          /\ e.current = "cancelled"
      BY Tables DEF EventOK, StateChanged
    <2>3. /\ \A p \in Procs : p # c => view'[p] = view[p]
          /\ Current(c) => view'[c] = "cancelled"
      BY <1>1, <2>1 DEF Inv, TypeOK, VersionMatches, Current
    <2>4. Current(c) => /\ stream.state = view[c] /\ stream.state \notin Terminal
                        /\ "cancelled" \in Transitions[stream.state] /\ stream.trailing = 0
      BY <1>1, <2>1, TerminalIsFinal DEF CancellerKnows, Inv, StreamSound
    <2>5. Current(c) => Fits(e)
      BY <2>2, <2>4 DEF Fits
    <2>6. ASSUME Current(c), Current(c)', stream' = Reduce(stream, e), pc'[c] = "record_cancel"
          PROVE  CancellerKnows(c)'
      <3>1. stream'.state = "cancelled" /\ stream'.trailing = 0
        BY <2>2, <2>4, <2>6 DEF Reduce
      <3> QED BY <2>3, <2>6, <3>1 DEF CancellerKnows
    <2> HIDE DEF e
    <2> QED BY <1>1, <2>1, <2>2, <2>3, <2>5, <2>6, OtherAppend
  <1>4. CASE RecordCancel(c)
    <2> DEFINE e == Event("cancelled")
    <2>1. pc[c] = "record_cancel" /\ AppendBy(c, e, "returned") /\ view' = view
      BY <1>4 DEF RecordCancel, Announce
    <2>2. EventOK(e) /\ e.type = "cancelled"
      BY PlainEventOK DEF Event
    <2>3. Current(c) => stream.state = view[c] /\ view[c] = "cancelled" /\ stream.trailing = 0
      BY <1>1, <2>1 DEF CancellerKnows
    <2>4. Current(c) => Fits(e)
      BY <2>2, <2>3 DEF Fits
    <2>5. ASSUME Current(c), stream' = Reduce(stream, e), pc'[c] = "returned"
          PROVE  CancellerKnows(c)'
      <3>1. stream'.state = stream.state
        BY <2>2, <2>5 DEF Reduce
      <3> QED BY <2>1, <2>3, <2>5, <3>1 DEF CancellerKnows
    <2> HIDE DEF e
    <2> QED BY <1>1, <2>1, <2>2, <2>4, <2>5, OtherAppend
  <1> QED BY <1>2, <1>3, <1>4 DEF CancelStep

(* Every step of continue_run is safe and legal.                           *)
LEMMA ContinueSafe ==
  ASSUME Inv, NEW c \in Continuers, ContinueStep(c)
  PROVE  Safe' /\ LegalStep
  <1>1. c \in Procs /\ c \notin Cancellers /\ ContinuerKnows(c)
    BY ControllerAssumption DEF Procs, Inv, Knows
  <1>2. /\ stream.version \in Nat /\ stream.revision \in Nat /\ stream.consumed \in Nat
        /\ stream.token \in Nat /\ version[c] \in Nat
    BY <1>1 DEF Inv, TypeOK, Stream
  <1>3. CASE ReadForContinue(c)
    <2>1. /\ pc'[c] = "provide" /\ version'[c] = stream.version
          /\ stream' = stream /\ pc' = [pc EXCEPT ![c] = "provide"] /\ view' = view
          /\ \A p \in Procs : p # c => version'[p] = version[p]
          /\ stream.consumed = 0 /\ TokenAccepted
      BY <1>1, <1>3 DEF ReadForContinue, Inv, TypeOK
    <2>2. stream.state = "waiting_for_clarification" /\ stream.revision <= 1
      BY <1>2, <2>1 DEF TokenAccepted, Inv, StreamSound, TokenConsumedOnce
    <2>3. ContinuerKnows(c)'
      BY <2>1, <2>2 DEF ContinuerKnows
    <2>4. version'[c] <= stream.version
      BY <1>2, <2>1
    <2> QED BY <1>1, <1>2, <2>1, <2>3, <2>4, OtherQuiet
  <1>4. CASE Revise(c)
    <2>1. /\ pc[c] = "revise" /\ pc'[c] = "problem_revised" /\ version' = version
          /\ stream' = stream /\ pc' = [pc EXCEPT ![c] = "problem_revised"] /\ view' = view
      BY <1>1, <1>4 DEF Revise, Go, Inv, TypeOK
    <2>2. ContinuerKnows(c)'
      BY <1>1, <2>1 DEF ContinuerKnows, Current
    <2>3. version[c] <= stream.version
      BY <1>1 DEF Inv, Knows
    <2> QED BY <1>1, <2>1, <2>2, <2>3, OtherQuiet
  <1>5. CASE Provide(c) \/ Consume(c) \/ ProblemRevised(c)
    <2>1. PICK type \in {"clarification_provided", "continuation_consumed", "problem_revised"},
               n \in {"consume", "revise", "resume"} :
            /\ AppendBy(c, Event(type), n) /\ view' = view
            /\ \/ pc[c] = "provide" /\ type = "clarification_provided" /\ n = "consume"
               \/ pc[c] = "consume" /\ type = "continuation_consumed" /\ n = "revise"
               \/ pc[c] = "problem_revised" /\ type = "problem_revised" /\ n = "resume"
      BY <1>5 DEF Provide, Consume, ProblemRevised, Announce
    <2> DEFINE e == Event(type)
    <2>2. EventOK(e) /\ e.type = type
      BY <2>1, PlainEventOK DEF Event
    <2>3. Current(c) =>
            /\ stream.state = "waiting_for_clarification" /\ stream.revision <= 1
            /\ type # "problem_revised" => stream.consumed = 0
            /\ type = "problem_revised" => stream.consumed = 1
      BY <1>1, <2>1 DEF ContinuerKnows
    <2>4. Current(c) => Fits(e)
      BY <1>2, <2>1, <2>2, <2>3 DEF Fits, Terminal
    <2>5. ASSUME Current(c), stream' = Reduce(stream, e), pc'[c] = n
          PROVE  ContinuerKnows(c)'
      <3>1. /\ stream'.state = stream.state
            /\ stream'.consumed = IF type = "continuation_consumed" THEN stream.consumed + 1
                                  ELSE stream.consumed
            /\ type # "problem_revised" => stream'.revision = stream.revision
        BY <2>1, <2>2, <2>5 DEF Reduce
      <3> QED BY <1>2, <2>1, <2>3, <2>5, <3>1 DEF ContinuerKnows
    <2> HIDE DEF e
    <2>6. AppendBy(c, e, n)
      BY <2>1 DEF e
    <2> QED BY <1>1, <2>1, <2>2, <2>4, <2>5, <2>6, OtherAppend
  <1>6. CASE Resume(c) \/ Resumed(c)
    <2>1. PICK from \in {"waiting_for_clarification", "representing_problem"},
               to \in {"representing_problem", "ready"}, n \in {"resumed", "idle", "returned"} :
            /\ AppendBy(c, StateChanged(from, to), n) /\ view' = view
            /\ \/ /\ pc[c] = "resume" /\ from = "waiting_for_clarification"
                  /\ to = "representing_problem" /\ n \in {"resumed", "idle"}
               \/ /\ pc[c] = "resumed" /\ from = "representing_problem"
                  /\ to = "ready" /\ n = "returned"
      BY <1>6 DEF Resume, Resumed, Announce
    <2> DEFINE e == StateChanged(from, to)
    <2>2. /\ EventOK(e) /\ e.type = "state_changed" /\ e.previous = from /\ e.current = to
          /\ to \in Transitions[from]
      BY <2>1, Tables DEF EventOK, StateChanged, Transitions
    <2>3. Current(c) => stream.state = from
      BY <1>1, <2>1 DEF ContinuerKnows
    <2>4. Current(c) => Fits(e)
      BY <2>1, <2>2, <2>3 DEF Fits, Terminal
    <2>5. ASSUME Current(c), stream' = Reduce(stream, e), pc'[c] = n
          PROVE  ContinuerKnows(c)'
      <3>1. stream'.state = to
        BY <2>2, <2>5 DEF Reduce
      <3> QED BY <2>1, <2>5, <3>1 DEF ContinuerKnows
    <2> HIDE DEF e
    <2>6. AppendBy(c, e, n)
      BY <2>1 DEF e
    <2> QED BY <1>1, <2>1, <2>2, <2>4, <2>5, <2>6, OtherAppend
  <1> QED BY <1>3, <1>4, <1>5, <1>6 DEF ContinueStep

(* A call that dies forgets what it knew.                                  *)
LEMMA FailSafe ==
  ASSUME Inv, NEW p \in Procs, Fail(p)
  PROVE  Safe' /\ LegalStep
  <1>1. /\ pc'[p] = Raised(p) /\ pc' = [pc EXCEPT ![p] = Raised(p)] /\ version'[p] = 0
        /\ stream' = stream /\ view' = view
        /\ \A q \in Procs : q # p => pc'[q] = pc[q] /\ version'[q] = version[q]
    BY DEF Fail, Inv, TypeOK
  <1>2. stream.version \in Nat
    BY DEF Inv, TypeOK, Stream
  <1>3. CASE p \in Runners
    <2>1. pc'[p] = "aborted" /\ p \notin Cancellers /\ p \notin Continuers
      BY <1>1, <1>3, ControllerAssumption DEF Raised
    <2>2. RunnerKnows(p) /\ pc[p] \notin Done
      BY <1>3 DEF Inv, Knows, Fail
    <2>3. Current(p)' => Current(p)
      BY <1>1, <1>2, <2>2 DEF Current, RunnerKnows, Done
    <2>4. RunnerKnows(p)'
      BY <1>1, <2>1, <2>2, <2>3 DEF RunnerKnows, Done
    <2>5. Knows(p)'
      BY <1>1, <1>2, <2>1, <2>4 DEF Knows
    <2>6. Moved(p)
      BY <1>1 DEF Moved
    <2>7. SingleDriver'
      BY <1>1, <2>1, DriverKept
    <2>8. StreamSound'
      BY <1>1 DEF Inv, StreamSound, NothingAfterTheEnd, TokenConsumedOnce
    <2> QED BY <1>1, <2>5, <2>6, <2>7, <2>8, OthersKnow DEF Safe, LegalStep
  <1>4. CASE p \notin Runners
    <2>1. pc'[p] = "idle" /\ p \in Cancellers \cup Continuers
      BY <1>1, <1>4 DEF Raised, Procs
    <2>2. CancellerKnows(p)' /\ ContinuerKnows(p)'
      BY <2>1 DEF CancellerKnows, ContinuerKnows
    <2>3. version'[p] <= stream.version
      BY <1>1, <1>2
    <2> QED BY <1>1, <1>2, <2>1, <2>2, <2>3, OtherQuiet
  <1> QED BY <1>3, <1>4

(* Every step is safe and legal.                                           *)
LEMMA SafeStep ==
  ASSUME Inv, [Next]_vars
  PROVE  Safe' /\ LegalStep
  <1>1. CASE TimeRunsOut \/ TokenExpires \/ UNCHANGED vars
    <2>1. stream' = stream /\ pc' = pc /\ version' = version /\ view' = view
      BY <1>1 DEF TimeRunsOut, TokenExpires, vars, callVars
    <2>2. StreamSound' /\ SingleDriver' /\ LegalStep
      BY <2>1 DEF Inv, StreamSound, NothingAfterTheEnd, TokenConsumedOnce, SingleDriver, LegalStep
    <2>3. \A p \in Procs : Knows(p)'
      BY <2>1 DEF Inv, Knows, RunnerKnows, CancellerKnows, ContinuerKnows, Current
    <2> QED BY <2>2, <2>3 DEF Safe
  <1> QED BY <1>1, RunnerSafe, CancelSafe, ContinueSafe, FailSafe DEF Next
-----------------------------------------------------------------------------
(* The invariant holds initially.                                          *)
LEMMA InvInit ==
  ASSUME Init PROVE Inv
  <1>1. NewWork \in Work
    <2>1. NoPlan \in Plan
      BY ControllerAssumption DEF NoPlan, Plan
    <2> QED BY <2>1 DEF NewWork, Work, AfterCheckpoint
  <1>2. "received" \in States /\ "to_representing" \in RunnerPCs
    BY Tables DEF RunnerPCs
  <1>3. stream \in Stream
    BY <1>2 DEF Init, Stream
  <1>4. TypeOK
    BY <1>1, <1>2, <1>3 DEF Init, TypeOK, OtherPCs
  <1>5. ActionChosen
    BY DEF Init, ActionChosen, Acting, Procs
  <1>6. StreamSound
    BY DEF Init, StreamSound, NothingAfterTheEnd, TokenConsumedOnce, Terminal
  <1>7. SingleDriver
    BY DEF Init, SingleDriver, Procs
  <1>8. ASSUME NEW p \in Procs PROVE Knows(p)
    BY <1>2, ControllerAssumption
       DEF Init, Knows, RunnerKnows, CancellerKnows, ContinuerKnows, Current, Procs, Terminal, Done
  <1> QED BY <1>4, <1>5, <1>6, <1>7, <1>8 DEF Inv

(* Every step keeps the invariant.                                         *)
LEMMA InvStep ==
  ASSUME Inv, [Next]_vars PROVE Inv' /\ LegalStep
  <1>1. TypeOK' /\ ActionChosen'
    BY TypeStep, ChosenStep DEF Inv
  <1> QED BY <1>1, SafeStep DEF Inv, Safe

(* The inductive invariant holds in every reachable state.                 *)
THEOREM Invariance == Spec => []Inv
  <1>1. Init => Inv
    BY InvInit
  <1>2. Inv /\ [Next]_vars => Inv'
    BY InvStep
  <1> QED BY <1>1, <1>2, PTL DEF Spec

(* Every variable keeps its type, through every interleaving of start,     *)
(* cancel and continue_run.                                                *)
THEOREM TypeCorrect == Spec => []TypeOK
  <1>1. Inv => TypeOK
    BY DEF Inv
  <1> QED BY <1>1, Invariance, PTL

(* ControllerRecoveryService.replay never meets a state sequence that does *)
(* not fit, however many calls interleave and fail.                        *)
THEOREM ReplayAlwaysSucceeds == Spec => []ReplaySucceeds
  <1>1. Inv => ReplaySucceeds
    BY DEF Inv, StreamSound, ReplaySucceeds
  <1> QED BY <1>1, Invariance, PTL

(* After a terminal state change nothing is appended but the one event     *)
(* cancel adds to its own.                                                 *)
THEOREM NothingFollowsTheEnd == Spec => []NothingAfterTheEnd
  <1>1. Inv => NothingAfterTheEnd
    BY DEF Inv, StreamSound
  <1> QED BY <1>1, Invariance, PTL

(* At most one of any number of start calls gets past its first append.    *)
THEOREM OneDriver == Spec => []SingleDriver
  <1>1. Inv => SingleDriver
    BY DEF Inv
  <1> QED BY <1>1, Invariance, PTL

(* A continuation token is consumed at most once by any number of          *)
(* concurrent calls of continue_run, and buys one revision of the problem. *)
THEOREM TokenOnce == Spec => []TokenConsumedOnce
  <1>1. Inv => TokenConsumedOnce
    BY DEF Inv, StreamSound
  <1> QED BY <1>1, Invariance, PTL

(* Every state change any call appends, the unchecked literal ones of      *)
(* continue_run included, is an edge of TRANSITIONS.                       *)
THEOREM LegalChanges == Spec => LegalTransitions
  <1>1. Inv /\ [Next]_vars =>
          [stream'.state # stream.state => stream'.state \in Transitions[stream.state]]_vars
    BY InvStep DEF LegalStep
  <1> QED BY <1>1, Invariance, PTL DEF Spec, LegalTransitions
-----------------------------------------------------------------------------
(* What the calls cost and what the stream says of them: a second          *)
(* invariant, inductive given the first.  Because one start call at most   *)
(* drives the run, its ledger and its place in its code can be related to  *)
(* the stream and to the calls really made.                                *)

(* A start call that has claimed the run and has not been thrown out.      *)
Driving(r) == pc[r] \notin {"to_representing", "aborted"}

(* Where start stands before it has called the planner.                    *)
BeforePlan(at, w) ==
  \/ at \in {"to_representing", "represent", "problem_created", "request_clarification",
             "raise", "to_waiting", "waiting_checkpoint", "issue", "to_ready", "to_planning",
             "create_plan"}
  \/ at = "checkpoint" /\ w.ret \in {"to_ready", "request_clarification", "raise"}

(* Where an action is chosen and not done, and where the ledger was asked  *)
(* and what it allowed is not yet spent.                                   *)
Choosing == {"decide", "start_step", "execute"}
Spending == Choosing \cup {"to_repairing", "revise_plan"}

(* The locals of start at one place of its code.                           *)
Sound(at, w) ==
  /\ SchedulerConsistent(w)
  /\ BeforePlan(at, w) => w.completed = {} /\ w.failed = {}
  /\ at \in Choosing => w.action \in w.plan.steps \ (w.completed \cup w.failed)
  /\ \A m \in Meters : w.usage[m] <= Budget[m]
  /\ at \in Spending => \A m \in Meters : w.usage[m] < Budget[m]
  /\ at = "to_representing" => w.usage = [m \in Meters |-> 0]

(* What the driver finds in the stream: the step it executes and no other  *)
(* is open, announced by its decision and its start; the acceptance it     *)
(* judges by is the one recorded.                                          *)
Journalled(r) ==
  /\ stream.open = IF pc[r] \in {"execute", "finish_step"} THEN {work[r].action} ELSE {}
  /\ pc[r] \in {"start_step", "execute"} => stream.decided = work[r].action
  /\ pc[r] = "execute" => made.steps < stream.starts
  /\ HasVerification /\ pc[r] = "judge" => stream.accepted = work[r].accepted
  /\ HasVerification /\ pc[r] = "to_completed" => stream.accepted

(* A continuation that has consumed the token and not yet called.          *)
Revising == \E c \in Continuers : pc[c] = "revise"

(* No more than n provider calls, but for the ones continuations make.     *)
Within(n) == /\ made.provider <= n + stream.consumed
             /\ Revising => made.provider < n + stream.consumed

(* The driver's ledger against the calls really made: it misses the plan   *)
(* call only.                                                              *)
Metered(r) ==
  /\ made.tool = work[r].usage["tool"] /\ made.steps = work[r].usage["steps"]
  /\ Within(work[r].usage["provider"] + IF BeforePlan(pc[r], work[r]) THEN 0 ELSE 1)

(* The counts whoever drives or has driven the run.                        *)
Counted ==
  /\ stream.version = 0 =>
       stream.open = {} /\ made = [provider |-> 0, tool |-> 0, steps |-> 0]
  /\ made.steps <= stream.starts
  /\ made.tool <= Budget["tool"] /\ made.steps <= Budget["steps"]
  /\ Within(Budget["provider"] + 1)

(* A continuation calls the provider once it has consumed the token, and   *)
(* only one has.                                                           *)
RevisionPaid ==
  /\ Revising => stream.consumed >= 1
  /\ \A c, d \in Continuers : pc[c] = "revise" /\ pc[d] = "revise" => c = d

(* Between an external call and the append that follows it.                *)
AfterCall ==
  {"problem_created", "plan_created", "to_budget_exhausted", "finish_step",
   "record_acceptance", "judge", "to_completed", "to_failed", "to_repairing", "plan_revised",
   "problem_revised", "idle"} \cup Done

(* A call made after the end was the last of its call of start or          *)
(* continue_run.                                                           *)
LateOnce(p) ==
  \/ lateCalls[p] = 0
  \/ /\ lateCalls[p] = 1 /\ p \notin Cancellers
     /\ pc[p] \in AfterCall /\ stream.state \in Terminal

(* The second inductive invariant, relative to the first.                  *)
CallsInv ==
  /\ \A r \in Runners : Sound(pc[r], work[r])
  /\ \A r \in Runners : Driving(r) => Journalled(r) /\ Metered(r)
  /\ Counted /\ CleanEnd /\ RevisionPaid
  /\ \A p \in Procs : LateOnce(p)
-----------------------------------------------------------------------------
(* Every meter has a limit.                                                *)
LEMMA Limits ==
  \A m \in Meters : Budget[m] \in Nat /\ Budget[m] > 0
  BY ControllerAssumption DEF Meters

(* Locals that stay sound where start only moves on.                       *)
LEMMA SoundMove ==
  ASSUME NEW at, NEW n, NEW w, Sound(at, w), BeforePlan(n, w) => BeforePlan(at, w),
         n \in Choosing => at \in Choosing, n \in Spending => at \in Spending,
         n # "to_representing"
  PROVE  Sound(n, w)
  BY DEF Sound

(* Locals that stay sound where only ret, iterations, refused or toCreate  *)
(* are assigned.                                                           *)
LEMMA SoundMinor ==
  ASSUME NEW at, NEW n, NEW w \in Work, NEW v \in Work, Sound(at, w),
         v.plan = w.plan, v.completed = w.completed, v.failed = w.failed, v.usage = w.usage,
         BeforePlan(n, v) => BeforePlan(at, w),
         n \notin Spending, n # "to_representing"
  PROVE  Sound(n, v)
  BY DEF Sound, SchedulerConsistent, Spending

(* Where a call of start that raises stands, nothing more is asked.        *)
LEMMA SoundAborted ==
  ASSUME NEW at, NEW w, Sound(at, w)
  PROVE  Sound("aborted", w)
  <1>1. "aborted" \notin Spending /\ ~BeforePlan("aborted", w) /\ "aborted" \notin Choosing
    BY DEF Spending, Choosing, BeforePlan
  <1> QED BY <1>1, SoundMove

(* What an append comes to.                                                *)
LEMMA AppendOutcome ==
  ASSUME TypeOK, NEW p \in Procs, NEW e, NEW n, AppendBy(p, e, n)
  PROVE  \/ Current(p) /\ stream' = Reduce(stream, e) /\ pc'[p] = n
         \/ ~Current(p) /\ stream' = stream /\ pc'[p] = Raised(p)
  BY DEF AppendBy, VersionMatches, Current, TypeOK

(* Assigning the locals of one call of start.                              *)
LEMMA SetWork ==
  ASSUME TypeOK, NEW r \in Runners, NEW w, Set(r, w)
  PROVE  work'[r] = w /\ \A q \in Runners : q # r => work'[q] = work[q]
  BY DEF Set, TypeOK

(* Moving a call on.                                                       *)
LEMMA GoPc ==
  ASSUME TypeOK, NEW p \in Procs, NEW n, Go(p, n)
  PROVE  pc'[p] = n
  BY DEF Go, TypeOK
-----------------------------------------------------------------------------
(* The steps of start that append and leave its locals alone.              *)
LEMMA AnnounceSound ==
  ASSUME TypeOK, NEW r \in Runners, Sound(pc[r], work[r]),
         \/ ProblemCreated(r) \/ RequestClarification(r) \/ WaitingCheckpoint(r) \/ Issue(r)
         \/ PlanCreated(r) \/ Decide(r) \/ StartStep(r) \/ RecordAcceptance(r)
         \/ PlanRevised(r)
  PROVE  Sound(pc'[r], work'[r])
  <1>1. r \in Procs /\ Raised(r) = "aborted"
    BY DEF Procs, Raised
  <1>2. PICK at, e, n : /\ pc[r] = at /\ AppendBy(r, e, n) /\ work' = work
                        /\ \/ at = "problem_created" /\ n = "checkpoint"
                           \/ at = "request_clarification" /\ n = "to_waiting"
                           \/ at = "waiting_checkpoint" /\ n = "issue"
                           \/ at = "issue" /\ n = "returned"
                           \/ at \in {"plan_created", "plan_revised"} /\ n = "create_steps"
                           \/ at = "decide" /\ n = "start_step"
                           \/ at = "start_step" /\ n = "execute"
                           \/ at = "record_acceptance" /\ n = "judge"
    BY DEF ProblemCreated, RequestClarification, WaitingCheckpoint, Issue, PlanCreated,
       Decide, StartStep, RecordAcceptance, PlanRevised, Announce
  <1>3. /\ BeforePlan(n, work[r]) => BeforePlan(at, work[r])
        /\ n \in Choosing => at \in Choosing
        /\ n \in Spending => at \in Spending
        /\ n # "to_representing"
    BY <1>2 DEF BeforePlan, Choosing, Spending
  <1>4. Sound(n, work[r]) /\ Sound("aborted", work[r])
    BY <1>2, <1>3, SoundMove, SoundAborted
  <1>5. pc'[r] \in {n, "aborted"}
    BY <1>1, <1>2, AppendOutcome
  <1> QED BY <1>2, <1>4, <1>5

(* A state change, a checkpoint, the raise of a missing service.           *)
LEMMA TransitionSound ==
  ASSUME TypeOK, NEW r \in Runners, Sound(pc[r], work[r]),
         Transition(r) \/ Checkpoint(r) \/ RaiseUnconfigured(r)
  PROVE  Sound(pc'[r], work'[r])
  <1>1. r \in Procs /\ Raised(r) = "aborted" /\ work[r] \in Work
    BY DEF Procs, Raised, TypeOK
  <1>2. work' = work /\ Sound("aborted", work[r])
    BY SoundAborted DEF Transition, Checkpoint, RaiseUnconfigured
  <1>3. CASE Transition(r)
    <2>1. pc[r] \in DOMAIN Target
      BY <1>3 DEF Transition
    <2>2. /\ BeforePlan(Following[pc[r]], work[r]) => BeforePlan(pc[r], work[r])
          /\ Following[pc[r]] \notin Choosing
          /\ Following[pc[r]] \in Spending => pc[r] \in Spending
          /\ Following[pc[r]] # "to_representing"
      BY <2>1, Tables DEF Following, BeforePlan, Choosing, Spending
    <2>3. Sound(Following[pc[r]], work[r])
      BY <2>2, SoundMove
    <2>4. pc'[r] \in {Following[pc[r]], "aborted"}
      BY <1>1, <1>3, AppendOutcome, GoPc DEF Transition
    <2> QED BY <1>2, <2>3, <2>4
  <1>4. CASE Checkpoint(r)
    <2>1. pc[r] = "checkpoint" /\ work[r].ret \in AfterCheckpoint
      BY <1>1, <1>4 DEF Checkpoint, Work
    <2>2. /\ BeforePlan(work[r].ret, work[r]) => BeforePlan(pc[r], work[r])
          /\ work[r].ret \notin Choosing /\ work[r].ret \notin Spending
          /\ work[r].ret # "to_representing"
      BY <2>1 DEF AfterCheckpoint, BeforePlan, Choosing, Spending
    <2>3. Sound(work[r].ret, work[r])
      BY <2>2, SoundMove
    <2>4. pc'[r] \in {work[r].ret, "aborted"}
      BY <1>1, <1>4, AppendOutcome, GoPc DEF Checkpoint
    <2> QED BY <1>2, <2>3, <2>4
  <1>5. CASE RaiseUnconfigured(r)
    BY <1>1, <1>2, <1>5, GoPc DEF RaiseUnconfigured
  <1> QED BY <1>3, <1>4, <1>5

(* The problem representation spends what the ledger allowed.              *)
LEMMA RepresentSound ==
  ASSUME TypeOK, NEW r \in Runners, Sound(pc[r], work[r]), Represent(r)
  PROVE  Sound(pc'[r], work'[r])
  <1> DEFINE w == work[r]
  <1>1. r \in Procs /\ w \in Work /\ pc[r] = "represent"
    BY DEF Procs, TypeOK, Represent
  <1>2. CASE ~Allowed(w)
    <2> DEFINE v == [w EXCEPT !.refused = TRUE]
    <2>1. pc'[r] = "to_budget_exhausted" /\ work'[r] = v
      BY <1>1, <1>2, GoPc, SetWork DEF Represent
    <2>2. /\ v \in Work /\ v.plan = w.plan /\ v.completed = w.completed
          /\ v.failed = w.failed /\ v.usage = w.usage
      BY <1>1 DEF Work
    <2> HIDE DEF v
    <2>3. ~BeforePlan("to_budget_exhausted", v) /\ "to_budget_exhausted" \notin Spending
      BY DEF BeforePlan, Spending, Choosing
    <2> QED BY <1>1, <2>1, <2>2, <2>3, SoundMinor
  <1>3. CASE Allowed(w)
    <2>1. PICK x \in AfterCheckpoint :
            Set(r, [w EXCEPT !.usage = Charge(@, {"provider"}, 1), !.ret = x])
      BY <1>3 DEF Represent, AfterCheckpoint
    <2> DEFINE v == [w EXCEPT !.usage = Charge(@, {"provider"}, 1), !.ret = x]
    <2>2. pc'[r] = "problem_created" /\ work'[r] = v
      BY <1>1, <1>3, <2>1, GoPc, SetWork DEF Represent
    <2>3. /\ v.plan = w.plan /\ v.completed = w.completed /\ v.failed = w.failed
          /\ v.usage = Charge(w.usage, {"provider"}, 1) /\ w.usage \in [Meters -> Nat]
      BY <1>1 DEF Work
    <2> HIDE DEF v
    <2>4. \A m \in Meters : v.usage[m] <= Budget[m]
      BY <1>3, <2>3, Limits DEF Allowed, Charge
    <2>5. SchedulerConsistent(v) /\ v.completed = {} /\ v.failed = {}
      BY <1>1, <2>3 DEF Sound, SchedulerConsistent, BeforePlan
    <2> QED BY <2>2, <2>4, <2>5 DEF Sound, Spending, Choosing
  <1> QED BY <1>2, <1>3

(* The first plan finds nothing completed or failed.                       *)
LEMMA CreatePlanSound ==
  ASSUME TypeOK, NEW r \in Runners, Sound(pc[r], work[r]), CreatePlan(r)
  PROVE  Sound(pc'[r], work'[r])
  <1> DEFINE w == work[r]
  <1>1. r \in Procs /\ w \in Work /\ pc[r] = "create_plan"
    BY DEF Procs, TypeOK, CreatePlan
  <1>2. PICK p \in Plans :
          \/ Go(r, "aborted") /\ UNCHANGED work
          \/ Go(r, "to_budget_exhausted") /\ Set(r, [w EXCEPT !.refused = TRUE])
          \/ Go(r, "plan_created") /\ Set(r, [w EXCEPT !.plan = p, !.toCreate = p.steps])
    BY DEF CreatePlan
  <1>3. w.completed = {} /\ w.failed = {} /\ \A m \in Meters : w.usage[m] <= Budget[m]
    BY <1>1 DEF Sound, BeforePlan
  <1>4. CASE Go(r, "aborted") /\ UNCHANGED work
    BY <1>1, <1>4, GoPc, SoundAborted
  <1>5. CASE Go(r, "to_budget_exhausted") /\ Set(r, [w EXCEPT !.refused = TRUE])
    <2> DEFINE v == [w EXCEPT !.refused = TRUE]
    <2>1. pc'[r] = "to_budget_exhausted" /\ work'[r] = v
      BY <1>1, <1>5, GoPc, SetWork
    <2>2. v.completed = w.completed /\ v.failed = w.failed /\ v.usage = w.usage
      BY <1>1 DEF Work
    <2> HIDE DEF v
    <2> QED BY <1>3, <2>1, <2>2 DEF Sound, SchedulerConsistent, Spending, Choosing
  <1>6. CASE Go(r, "plan_created") /\ Set(r, [w EXCEPT !.plan = p, !.toCreate = p.steps])
    <2> DEFINE v == [w EXCEPT !.plan = p, !.toCreate = p.steps]
    <2>1. pc'[r] = "plan_created" /\ work'[r] = v
      BY <1>1, <1>6, GoPc, SetWork
    <2>2. v.completed = w.completed /\ v.failed = w.failed /\ v.usage = w.usage
      BY <1>1 DEF Work
    <2> HIDE DEF v
    <2> QED BY <1>3, <2>1, <2>2 DEF Sound, SchedulerConsistent, Spending, Choosing
  <1> QED BY <1>2, <1>4, <1>5, <1>6

(* Creating the steps and finishing one change nothing the scheduler and   *)
(* the ledger look at.                                                     *)
LEMMA MinorSound ==
  ASSUME TypeOK, NEW r \in Runners, Sound(pc[r], work[r]),
         CreateStep(r) \/ StepsCreated(r) \/ FinishStep(r)
  PROVE  Sound(pc'[r], work'[r])
  <1> DEFINE w == work[r]
  <1>1. r \in Procs /\ w \in Work /\ Raised(r) = "aborted"
    BY DEF Procs, TypeOK, Raised
  <1>2. CASE CreateStep(r)
    <2>1. PICK s \in w.toCreate : /\ AppendBy(r, Event("step_created"), "create_steps")
                                  /\ Set(r, [w EXCEPT !.toCreate = @ \ {s}])
      BY <1>2 DEF CreateStep
    <2> DEFINE v == [w EXCEPT !.toCreate = @ \ {s}]
    <2>2. pc'[r] \in {"create_steps", "aborted"} /\ work'[r] = v
      BY <1>1, <2>1, AppendOutcome, SetWork
    <2>3. /\ v \in Work /\ v.plan = w.plan /\ v.completed = w.completed
          /\ v.failed = w.failed /\ v.usage = w.usage
      BY <1>1 DEF Work
    <2> HIDE DEF v
    <2>4. ~BeforePlan(pc'[r], v) /\ pc'[r] \notin Spending /\ pc'[r] # "to_representing"
      BY <2>2 DEF BeforePlan, Spending, Choosing
    <2> QED BY <1>1, <2>2, <2>3, <2>4, SoundMinor
  <1>3. CASE StepsCreated(r)
    <2> DEFINE v == [w EXCEPT !.ret = "to_executing", !.iterations = 0]
    <2>2. pc'[r] \in {"to_executing", "checkpoint"} /\ work'[r] = v
      BY <1>1, <1>3, GoPc, SetWork DEF StepsCreated
    <2>3. /\ v \in Work /\ v.plan = w.plan /\ v.completed = w.completed
          /\ v.failed = w.failed /\ v.usage = w.usage /\ v.ret = "to_executing"
      BY <1>1 DEF Work, AfterCheckpoint
    <2> HIDE DEF v
    <2>4. ~BeforePlan(pc'[r], v) /\ pc'[r] \notin Spending /\ pc'[r] # "to_representing"
      BY <2>2, <2>3 DEF BeforePlan, Spending, Choosing
    <2> QED BY <1>1, <2>2, <2>3, <2>4, SoundMinor
  <1>4. CASE FinishStep(r)
    <2> DEFINE v == [w EXCEPT !.ret = "schedule"]
    <2>2. pc'[r] \in {"checkpoint", "aborted"} /\ work'[r] = v
      BY <1>1, <1>4, AppendOutcome, SetWork DEF FinishStep
    <2>3. /\ v \in Work /\ v.plan = w.plan /\ v.completed = w.completed
          /\ v.failed = w.failed /\ v.usage = w.usage /\ v.ret = "schedule"
      BY <1>1 DEF Work, AfterCheckpoint
    <2> HIDE DEF v
    <2>4. ~BeforePlan(pc'[r], v) /\ pc'[r] \notin Spending /\ pc'[r] # "to_representing"
      BY <2>2, <2>3 DEF BeforePlan, Spending, Choosing
    <2> QED BY <1>1, <2>2, <2>3, <2>4, SoundMinor
  <1> QED BY <1>2, <1>3, <1>4

(* A turn of the execution loop: the step it selects is neither completed  *)
(* nor failed, and the ledger allowed it.                                  *)
LEMMA ScheduleSound ==
  ASSUME TypeOK, NEW r \in Runners, Sound(pc[r], work[r]), Schedule(r)
  PROVE  Sound(pc'[r], work'[r])
  <1> DEFINE w == work[r]
             looping == [w EXCEPT !.iterations = @ + 1]
  <1>1. r \in Procs /\ w \in Work /\ pc[r] = "schedule" /\ SchedulerConsistent(w)
    BY DEF Procs, TypeOK, Schedule, Sound
  <1>2. CASE Finished(w) /\ Go(r, "to_verifying") /\ UNCHANGED work
    <2>1. pc'[r] = "to_verifying" /\ work'[r] = w
      BY <1>1, <1>2, GoPc
    <2>2. ~BeforePlan("to_verifying", w) /\ "to_verifying" \notin Spending
      BY DEF BeforePlan, Spending, Choosing
    <2> QED BY <2>1, <2>2, SoundMove DEF Spending
  <1>3. CASE /\ pc'[r] \in {"to_failed", "to_budget_exhausted"}
             /\ Set(r, looping) \/ Set(r, [looping EXCEPT !.refused = TRUE])
    <2>1. PICK v : work'[r] = v /\ v \in {looping, [looping EXCEPT !.refused = TRUE]}
      BY <1>3, SetWork
    <2>2. w.iterations + 1 \in Nat
      BY <1>1, ChargeType
    <2>3. /\ v \in Work /\ v.plan = w.plan /\ v.completed = w.completed
          /\ v.failed = w.failed /\ v.usage = w.usage
      BY <1>1, <2>1, <2>2, ZenonT(60) DEF Work
    <2>4. ~BeforePlan(pc'[r], v) /\ pc'[r] \notin Spending /\ pc'[r] # "to_representing"
      BY <1>3 DEF BeforePlan, Spending, Choosing
    <2> QED BY <1>1, <2>1, <2>3, <2>4, SoundMinor
  <1>4. CASE \E s \in ReadySteps(w) : /\ Set(r, [looping EXCEPT !.action = s])
                                      /\ Go(r, "decide") /\ Allowed(w)
    <2>1. PICK s \in ReadySteps(w) : /\ Set(r, [looping EXCEPT !.action = s])
                                     /\ Go(r, "decide") /\ Allowed(w)
      BY <1>4
    <2> DEFINE v == [looping EXCEPT !.action = s]
    <2>2. pc'[r] = "decide" /\ work'[r] = v
      BY <1>1, <2>1, GoPc, SetWork
    <2>3. /\ v.plan = w.plan /\ v.completed = w.completed /\ v.failed = w.failed
          /\ v.usage = w.usage /\ v.action = s /\ w.usage \in [Meters -> Nat]
      BY <1>1 DEF Work
    <2> HIDE DEF v
    <2>4. v.action \in v.plan.steps \ (v.completed \cup v.failed)
      BY <2>1, <2>3 DEF ReadySteps
    <2>5. \A m \in Meters : v.usage[m] < Budget[m] /\ v.usage[m] <= Budget[m]
      BY <2>1, <2>3, Limits DEF Allowed
    <2>6. SchedulerConsistent(v) /\ ~BeforePlan("decide", v)
      BY <1>1, <2>3 DEF SchedulerConsistent, BeforePlan
    <2> QED BY <2>2, <2>4, <2>5, <2>6 DEF Sound
  <1>5. \/ Finished(w) /\ Go(r, "to_verifying") /\ UNCHANGED work
        \/ /\ \E n \in {"to_failed", "to_budget_exhausted"} : Go(r, n)
           /\ Set(r, looping) \/ Set(r, [looping EXCEPT !.refused = TRUE])
        \/ \E s \in ReadySteps(w) : /\ Set(r, [looping EXCEPT !.action = s])
                                    /\ Go(r, "decide") /\ Allowed(w)
    BY <1>1 DEF Schedule, OutOfBudget
  <1>6. ASSUME NEW n, Go(r, n) PROVE pc'[r] = n
    BY <1>1, <1>6, GoPc
  <1> QED BY <1>2, <1>3, <1>4, <1>5, <1>6

(* What execute makes of the locals of start.                              *)
Executed(w, succeeded) ==
  [w EXCEPT !.succeeded = succeeded,
            !.completed = IF succeeded THEN @ \cup {w.action} ELSE @,
            !.failed = IF succeeded THEN @ \ {w.action} ELSE @ \cup {w.action},
            !.usage = Charge(@, {"steps", Kind[w.action]}, 1)]

(* The fields execute touches.                                             *)
LEMMA ExecutedFields ==
  ASSUME NEW w \in Work, NEW b \in BOOLEAN
  PROVE  LET v == Executed(w, b) IN
         /\ v.plan = w.plan /\ v.action = w.action /\ v.accepted = w.accepted
         /\ v.completed = IF b THEN w.completed \cup {w.action} ELSE w.completed
         /\ v.failed = IF b THEN w.failed \ {w.action} ELSE w.failed \cup {w.action}
         /\ v.usage = Charge(w.usage, {"steps", Kind[w.action]}, 1)
  BY DEF Executed, Work

(* A step that is executed joins the completed or the failed ones, and     *)
(* spends what the ledger allowed.                                         *)
LEMMA ExecuteSound ==
  ASSUME TypeOK, NEW r \in Runners, Sound(pc[r], work[r]), Execute(r)
  PROVE  Sound(pc'[r], work'[r])
  <1> DEFINE w == work[r]
  <1>1. r \in Procs /\ w \in Work /\ pc[r] = "execute"
    BY DEF Procs, TypeOK, Execute
  <1>2. PICK b \in BOOLEAN : Set(r, Executed(w, b)) /\ Go(r, "finish_step")
    BY DEF Execute, Executed
  <1> DEFINE v == Executed(w, b)
  <1>3. pc'[r] = "finish_step" /\ work'[r] = v
    BY <1>1, <1>2, GoPc, SetWork
  <1>4. /\ v.plan = w.plan
        /\ v.completed = IF b THEN w.completed \cup {w.action} ELSE w.completed
        /\ v.failed = IF b THEN w.failed \ {w.action} ELSE w.failed \cup {w.action}
        /\ v.usage = Charge(w.usage, {"steps", Kind[w.action]}, 1)
    BY <1>1, <1>2, ExecutedFields
  <1> HIDE DEF v
  <1>5. /\ w.action \in w.plan.steps \ (w.completed \cup w.failed) /\ SchedulerConsistent(w)
        /\ \A m \in Meters : w.usage[m] < Budget[m]
        /\ w.usage \in [Meters -> Nat]
    BY <1>1 DEF Sound, Choosing, Spending, Work
  <1>6. SchedulerConsistent(v)
    BY <1>4, <1>5 DEF SchedulerConsistent
  <1>7. \A m \in Meters : v.usage[m] <= Budget[m]
    BY <1>4, <1>5, Limits DEF Charge
  <1>8. ~BeforePlan("finish_step", v) /\ "finish_step" \notin Spending
    BY DEF BeforePlan, Spending, Choosing
  <1> QED BY <1>3, <1>6, <1>7, <1>8 DEF Sound, Spending

(* The verifier calls stay within the budget.                              *)
LEMMA VerifySound ==
  ASSUME TypeOK, NEW r \in Runners, Sound(pc[r], work[r]), Verify(r)
  PROVE  Sound(pc'[r], work'[r])
  <1> DEFINE w == work[r]
  <1>1. /\ r \in Procs /\ w \in Work /\ w.usage \in [Meters -> Nat]
        /\ SchedulerConsistent(w) /\ \A m \in Meters : w.usage[m] <= Budget[m]
    BY DEF Procs, TypeOK, Work, Sound
  <1>2. PICK b \in BOOLEAN, calls \in CallCounts(w) :
          Set(r, [w EXCEPT !.accepted = b, !.usage = Charge(@, {"verifier"}, calls)])
    BY DEF Verify
  <1> DEFINE v == [w EXCEPT !.accepted = b, !.usage = Charge(@, {"verifier"}, calls)]
  <1>3. pc'[r] \in {"record_acceptance", "judge"} /\ work'[r] = v
    BY <1>1, <1>2, GoPc, SetWork DEF Verify
  <1>4. /\ v.plan = w.plan /\ v.completed = w.completed /\ v.failed = w.failed
        /\ v.usage = Charge(w.usage, {"verifier"}, calls)
    BY <1>1 DEF Work
  <1> HIDE DEF v
  <1>5. "verifier" \in Meters
    BY DEF Meters
  <1>6. calls \in Nat /\ w.usage["verifier"] + calls <= Budget["verifier"]
    <2>1. calls = 0 \/ (calls \in Nat /\ calls <= Budget["verifier"] - w.usage["verifier"])
      BY <1>2, ControllerAssumption DEF CallCounts
    <2> QED BY <1>1, <1>5, <2>1, Limits
  <1>7. \A m \in Meters : v.usage[m] <= Budget[m]
    BY <1>1, <1>4, <1>5, <1>6, Limits DEF Charge
  <1>8. ~BeforePlan(pc'[r], v) /\ pc'[r] \notin Spending /\ SchedulerConsistent(v)
    BY <1>1, <1>3, <1>4 DEF BeforePlan, Spending, Choosing, SchedulerConsistent
  <1> QED BY <1>3, <1>7, <1>8 DEF Sound, Spending

(* A repair is begun only where the ledger allows it.                      *)
LEMMA JudgeSound ==
  ASSUME TypeOK, NEW r \in Runners, Sound(pc[r], work[r]), Judge(r)
  PROVE  Sound(pc'[r], work'[r])
  <1> DEFINE w == work[r]
             v == [w EXCEPT !.refused = TRUE]
  <1>1. /\ r \in Procs /\ w \in Work /\ SchedulerConsistent(w)
        /\ \A m \in Meters : w.usage[m] <= Budget[m]
    BY DEF Procs, TypeOK, Sound
  <1>2. \/ pc'[r] \in {"to_completed", "to_failed"} /\ work'[r] = w
        \/ pc'[r] = "to_budget_exhausted" /\ work'[r] = v
        \/ pc'[r] = "to_repairing" /\ work'[r] = w /\ Allowed(w)
    BY <1>1, GoPc, SetWork DEF Judge
  <1>3. CASE pc'[r] \in {"to_completed", "to_failed"} /\ work'[r] = w
    BY <1>1, <1>3 DEF Sound, BeforePlan, Spending, Choosing
  <1>4. CASE pc'[r] = "to_budget_exhausted" /\ work'[r] = v
    <2>1. v.plan = w.plan /\ v.completed = w.completed /\ v.failed = w.failed /\ v.usage = w.usage
      BY <1>1 DEF Work
    <2> HIDE DEF v
    <2> QED BY <1>1, <1>4, <2>1 DEF Sound, BeforePlan, Spending, Choosing, SchedulerConsistent
  <1>5. CASE pc'[r] = "to_repairing" /\ work'[r] = w /\ Allowed(w)
    BY <1>1, <1>5 DEF Sound, BeforePlan, Choosing, Allowed
  <1> QED BY <1>2, <1>3, <1>4, <1>5

(* A repair plan keeps of the completed steps the ones it has, forgets the *)
(* failed ones, and spends what the ledger allowed.                        *)
LEMMA RevisePlanSound ==
  ASSUME TypeOK, NEW r \in Runners, Sound(pc[r], work[r]), RevisePlan(r)
  PROVE  Sound(pc'[r], work'[r])
  <1> DEFINE w == work[r]
  <1>1. /\ r \in Procs /\ w \in Work /\ w.usage \in [Meters -> Nat] /\ pc[r] = "revise_plan"
    BY DEF Procs, TypeOK, Work, RevisePlan
  <1>2. PICK p \in Plans :
          \/ /\ Set(r, [w EXCEPT !.plan = p, !.completed = @ \cap p.steps, !.failed = {},
                           !.toCreate = p.steps \ w.completed, !.repairing = TRUE,
                           !.usage = Charge(@, {"repair", "provider"}, 1)])
             /\ Go(r, "plan_revised")
          \/ Go(r, "aborted") /\ UNCHANGED work
    BY DEF RevisePlan
  <1> DEFINE v == [w EXCEPT !.plan = p, !.completed = @ \cap p.steps, !.failed = {},
                            !.toCreate = p.steps \ w.completed, !.repairing = TRUE,
                            !.usage = Charge(@, {"repair", "provider"}, 1)]
  <1>3. CASE Set(r, v) /\ Go(r, "plan_revised")
    <2>1. pc'[r] = "plan_revised" /\ work'[r] = v
      BY <1>1, <1>3, GoPc, SetWork
    <2>2. /\ v.plan = p /\ v.completed = w.completed \cap p.steps /\ v.failed = {}
          /\ v.usage = Charge(w.usage, {"repair", "provider"}, 1)
      BY <1>1 DEF Work
    <2> HIDE DEF v
    <2>3. SchedulerConsistent(v)
      BY <2>2 DEF SchedulerConsistent
    <2>4. \A m \in Meters : w.usage[m] < Budget[m]
      BY <1>1 DEF Sound, Spending
    <2>5. \A m \in Meters : v.usage[m] <= Budget[m]
      BY <1>1, <2>2, <2>4, Limits DEF Charge
    <2> QED BY <2>1, <2>3, <2>5 DEF Sound, BeforePlan, Spending, Choosing
  <1>4. CASE Go(r, "aborted") /\ UNCHANGED work
    BY <1>1, <1>4, GoPc, SoundAborted
  <1> QED BY <1>2, <1>3, <1>4

(* Every step of start leaves its locals sound.                            *)
LEMMA RunnerSound ==
  ASSUME TypeOK, NEW r \in Runners, Sound(pc[r], work[r]), RunnerStep(r)
  PROVE  Sound(pc'[r], work'[r])
  BY AnnounceSound, TransitionSound, RepresentSound, CreatePlanSound, MinorSound,
     ScheduleSound, ExecuteSound, VerifySound, JudgeSound, RevisePlanSound DEF RunnerStep
-----------------------------------------------------------------------------
(* A step of start touches the locals and the place of its own call only.  *)
LEMMA RunnerFrame ==
  ASSUME TypeOK, NEW r \in Runners, RunnerStep(r)
  PROVE  /\ \A q \in Procs : q # r => pc'[q] = pc[q] /\ lateCalls'[q] = lateCalls[q]
         /\ \A q \in Runners : q # r => work'[q] = work[q]
         /\ pc[r] \in RunnerPCs
  <1>1. \E n : pc' = [pc EXCEPT ![r] = n]
    <2>1. ASSUME NEW e, NEW n, AppendBy(r, e, n) PROVE \E m : pc' = [pc EXCEPT ![r] = m]
      BY <2>1 DEF AppendBy
    <2> QED BY <2>1 DEF RunnerStep, Transition, Checkpoint, Represent, ProblemCreated,
          RaiseUnconfigured, RequestClarification, WaitingCheckpoint, Issue, CreatePlan,
          PlanCreated, CreateStep, StepsCreated, Schedule, Decide, StartStep, Execute,
          FinishStep, Verify, RecordAcceptance, Judge, RevisePlan, PlanRevised, Announce, Go
  <1>2. lateCalls' = lateCalls \/ CallOut(r)
    BY DEF RunnerStep, Transition, Checkpoint, Represent, ProblemCreated,
       RaiseUnconfigured, RequestClarification, WaitingCheckpoint, Issue, CreatePlan,
       PlanCreated, CreateStep, StepsCreated, Schedule, Decide, StartStep, Execute,
       FinishStep, Verify, RecordAcceptance, Judge, RevisePlan, PlanRevised, Announce
  <1>3. work' = work \/ \E w : Set(r, w)
    BY DEF RunnerStep, Transition, Checkpoint, Represent, ProblemCreated,
       RaiseUnconfigured, RequestClarification, WaitingCheckpoint, Issue, CreatePlan,
       PlanCreated, CreateStep, StepsCreated, Schedule, Decide, StartStep, Execute,
       FinishStep, Verify, RecordAcceptance, Judge, RevisePlan, PlanRevised, Announce
  <1>4. pc[r] \in RunnerPCs
    BY DEF RunnerStep, Transition, Checkpoint, Represent, ProblemCreated,
       RaiseUnconfigured, RequestClarification, WaitingCheckpoint, Issue, CreatePlan,
       PlanCreated, CreateStep, StepsCreated, Schedule, Decide, StartStep, Execute,
       FinishStep, Verify, RecordAcceptance, Judge, RevisePlan, PlanRevised, Announce, RunnerPCs
  <1>5. \A q \in Procs : q # r => pc'[q] = pc[q]
    BY <1>1 DEF TypeOK
  <1>6. \A q \in Procs : q # r => lateCalls'[q] = lateCalls[q]
    BY <1>2 DEF TypeOK, CallOut
  <1>7. \A q \in Runners : q # r => work'[q] = work[q]
    BY <1>3, SetWork
  <1> QED BY <1>4, <1>5, <1>6, <1>7

(* Nothing of what the journal of steps, decisions and acceptance says and *)
(* no consumption of the token was added to the stream.                    *)
SameRecord ==
  /\ stream'.open = stream.open /\ stream'.decided = stream.decided
  /\ stream'.starts = stream.starts /\ stream'.accepted = stream.accepted
  /\ stream'.consumed = stream.consumed
  /\ stream'.version \in {stream.version, stream.version + 1}

(* Events of the other types leave that record alone.                      *)
Recording == {"decision_recorded", "step_started", "step_completed", "step_failed",
              "acceptance_recorded", "continuation_consumed"}
LEMMA PlainRecord ==
  ASSUME TypeOK, NEW p \in Procs, NEW e, e.type \notin Recording, NEW n, AppendBy(p, e, n)
  PROVE  /\ SameRecord /\ pc'[p] \in {n, Raised(p)}
         /\ stream'.state # stream.state => e.type = "state_changed" /\ stream'.state = e.current
  <1>1. CASE stream' = Reduce(stream, e) /\ pc'[p] = n
    BY <1>1 DEF Reduce, SameRecord, Recording
  <1>2. CASE stream' = stream /\ pc'[p] = Raised(p)
    BY <1>2 DEF SameRecord
  <1> QED BY <1>1, <1>2, AppendOutcome

(* The provider calls the ledger accounts for: the ones it has recorded,   *)
(* and the plan call.                                                      *)
Allowance(at, w) == w.usage["provider"] + IF BeforePlan(at, w) THEN 0 ELSE 1

(* A provider call is within the allowance after it; a repair plan that is *)
(* refused has been called for and ends the call of start.                 *)
Paid(r) ==
  \E d \in {0, 1} :
    /\ made'.provider = made.provider + d
    /\ \/ Allowance(pc'[r], work'[r]) >= Allowance(pc[r], work[r]) + d
       \/ pc[r] = "revise_plan" /\ pc'[r] = "aborted" /\ work'[r] = work[r]

(* Only its state changes change the state of the run.                     *)
ChangesState(r) ==
  stream'.state # stream.state => pc[r] \in DOMAIN Target /\ stream'.state = Target[pc[r]]

(* A step of start that neither decides on, starts, executes nor finishes  *)
(* a step, nor records an acceptance.                                      *)
Tame(r) ==
  /\ SameRecord /\ ChangesState(r)
  /\ made'.tool = made.tool /\ made'.steps = made.steps
  /\ work'[r].usage["tool"] = work[r].usage["tool"]
  /\ work'[r].usage["steps"] = work[r].usage["steps"]
  /\ pc'[r] \notin {"start_step", "execute", "finish_step"}
  /\ HasVerification => pc'[r] # "judge"
  /\ pc'[r] = "to_completed" => pc[r] = "judge" /\ work[r].accepted
  /\ Paid(r)

(* Paid where nothing was called for.                                      *)
LEMMA PaidForFree ==
  ASSUME NEW r \in Runners, work[r] \in Work, made \in [provider : Nat, tool : Nat, steps : Nat],
         made' = made, work'[r].usage = work[r].usage,
         BeforePlan(pc'[r], work'[r]) => BeforePlan(pc[r], work[r])
  PROVE  Paid(r)
  <1>1. work[r].usage["provider"] \in Nat /\ made.provider \in Nat
    BY DEF Work, Meters
  <1>2. Allowance(pc'[r], work'[r]) >= Allowance(pc[r], work[r]) + 0
    BY <1>1 DEF Allowance
  <1>3. made'.provider = made.provider + 0
    BY <1>1
  <1> QED BY <1>2, <1>3 DEF Paid

(* The appends of start that carry no record, and its raise.               *)
LEMMA TameAppends ==
  ASSUME TypeOK, NEW r \in Runners,
         \/ ProblemCreated(r) \/ RequestClarification(r) \/ WaitingCheckpoint(r) \/ Issue(r)
         \/ PlanCreated(r) \/ PlanRevised(r) \/ Transition(r) \/ Checkpoint(r)
         \/ RaiseUnconfigured(r)
  PROVE  Tame(r)
  <1>1. /\ r \in Procs /\ Raised(r) = "aborted" /\ work[r] \in Work
        /\ made \in [provider : Nat, tool : Nat, steps : Nat]
    BY DEF Procs, Raised, TypeOK
  <1>2. work' = work /\ made' = made
    BY DEF ProblemCreated, RequestClarification, WaitingCheckpoint, Issue, PlanCreated,
       PlanRevised, Transition, Checkpoint, RaiseUnconfigured, Announce
  <1>3. SUFFICES /\ SameRecord /\ ChangesState(r)
                 /\ pc'[r] \notin {"start_step", "execute", "finish_step", "judge", "to_completed"}
                 /\ BeforePlan(pc'[r], work[r]) => BeforePlan(pc[r], work[r])
    BY <1>1, <1>2, PaidForFree DEF Tame
  <1>4. CASE \/ ProblemCreated(r) \/ RequestClarification(r) \/ WaitingCheckpoint(r)
             \/ PlanCreated(r) \/ PlanRevised(r) \/ Issue(r)
    <2>1. PICK at, e, n : /\ pc[r] = at /\ AppendBy(r, e, n)
                          /\ e.type \in {"problem_created", "clarification_requested",
                               "checkpoint_created", "plan_created", "plan_revised",
                               "continuation_issued"}
                          /\ \/ at = "problem_created" /\ n = "checkpoint"
                             \/ at = "request_clarification" /\ n = "to_waiting"
                             \/ at = "waiting_checkpoint" /\ n = "issue"
                             \/ at = "issue" /\ n = "returned"
                             \/ at \in {"plan_created", "plan_revised"} /\ n = "create_steps"
      BY <1>4 DEF ProblemCreated, RequestClarification, WaitingCheckpoint, Issue, PlanCreated,
         PlanRevised, Announce, Event, ContinuationIssued
    <2>2. SameRecord /\ ChangesState(r) /\ pc'[r] \in {n, "aborted"}
      BY <1>1, <2>1, PlainRecord DEF Recording, ChangesState
    <2> QED BY <2>1, <2>2 DEF BeforePlan
  <1>5. CASE Transition(r)
    <2>1. pc[r] \in DOMAIN Target
      BY <1>5 DEF Transition
    <2> DEFINE e == StateChanged(view[r], Target[pc[r]])
    <2>2. e.type \notin Recording /\ e.current = Target[pc[r]]
      BY DEF StateChanged, Recording
    <2>3. SameRecord /\ ChangesState(r) /\ pc'[r] \in {Following[pc[r]], "aborted"}
      <3>1. CASE AppendBy(r, e, Following[pc[r]])
        <4> HIDE DEF e
        <4> QED BY <1>1, <2>1, <2>2, <3>1, PlainRecord DEF ChangesState
      <3>2. CASE Go(r, "aborted") /\ stream' = stream
        BY <1>1, <3>2, GoPc DEF SameRecord, ChangesState
      <3> QED BY <1>5, <3>1, <3>2 DEF Transition
    <2>4. /\ Following[pc[r]] \notin {"start_step", "execute", "finish_step", "judge", "to_completed"}
          /\ BeforePlan(Following[pc[r]], work[r]) => BeforePlan(pc[r], work[r])
      BY <2>1, Tables DEF Following, BeforePlan
    <2> QED BY <2>3, <2>4 DEF BeforePlan
  <1>6. CASE Checkpoint(r)
    <2>1. pc[r] = "checkpoint" /\ work[r].ret \in AfterCheckpoint
      BY <1>1, <1>6 DEF Checkpoint, Work
    <2>2. /\ Event("checkpoint_created").type \notin Recording
          /\ Event("checkpoint_created").type # "state_changed"
      BY DEF Event, Recording
    <2>3. SameRecord /\ ChangesState(r) /\ pc'[r] \in {work[r].ret, "aborted"}
      BY <1>1, <1>6, <2>2, PlainRecord, GoPc DEF Checkpoint, SameRecord, ChangesState
    <2> QED BY <2>1, <2>3 DEF BeforePlan, AfterCheckpoint
  <1>7. CASE RaiseUnconfigured(r)
    BY <1>1, <1>7, GoPc DEF RaiseUnconfigured, SameRecord, ChangesState, BeforePlan
  <1> QED BY <1>4, <1>5, <1>6, <1>7

(* The steps of start that work on its locals and call no provider.        *)
LEMMA TameLocals ==
  ASSUME TypeOK, NEW r \in Runners,
         CreateStep(r) \/ StepsCreated(r) \/ Schedule(r) \/ Verify(r) \/ Judge(r)
  PROVE  Tame(r)
  <1> DEFINE w == work[r]
  <1>1. /\ r \in Procs /\ Raised(r) = "aborted" /\ w \in Work
        /\ made \in [provider : Nat, tool : Nat, steps : Nat]
    BY DEF Procs, Raised, TypeOK
  <1>2. made' = made
    BY DEF CreateStep, StepsCreated, Schedule, Verify, Judge
  <1>3. SUFFICES /\ SameRecord /\ ChangesState(r)
                 /\ work'[r].usage["tool"] = w.usage["tool"]
                 /\ work'[r].usage["steps"] = w.usage["steps"]
                 /\ pc'[r] \notin {"start_step", "execute", "finish_step"}
                 /\ HasVerification => pc'[r] # "judge"
                 /\ pc'[r] = "to_completed" => pc[r] = "judge" /\ w.accepted
                 /\ ~BeforePlan(pc'[r], work'[r])
                 /\ work'[r].usage["provider"] = w.usage["provider"]
    <2>1. ASSUME ~BeforePlan(pc'[r], work'[r]), work'[r].usage["provider"] = w.usage["provider"]
          PROVE  Paid(r)
      <3>1. w.usage["provider"] \in Nat /\ made.provider \in Nat
        BY <1>1 DEF Work, Meters
      <3>2. Allowance(pc'[r], work'[r]) >= Allowance(pc[r], w) + 0
        BY <2>1, <3>1 DEF Allowance
      <3>3. made'.provider = made.provider + 0
        BY <1>2, <3>1
      <3> QED BY <3>2, <3>3 DEF Paid
    <2> QED BY <1>2, <2>1 DEF Tame
  <1>4. CASE CreateStep(r)
    <2>1. PICK s \in w.toCreate : /\ AppendBy(r, Event("step_created"), "create_steps")
                                  /\ Set(r, [w EXCEPT !.toCreate = @ \ {s}])
      BY <1>4 DEF CreateStep
    <2>2. /\ Event("step_created").type \notin Recording
          /\ Event("step_created").type # "state_changed"
      BY DEF Event, Recording
    <2>3. SameRecord /\ ChangesState(r) /\ pc'[r] \in {"create_steps", "aborted"}
      BY <1>1, <2>1, <2>2, PlainRecord DEF ChangesState
    <2>4. work'[r].usage = w.usage
      BY <1>1, <2>1, SetWork DEF Work
    <2> QED BY <2>3, <2>4 DEF BeforePlan
  <1>5. CASE StepsCreated(r)
    <2>1. work'[r] = [w EXCEPT !.ret = "to_executing", !.iterations = 0]
      BY <1>5, SetWork DEF StepsCreated
    <2>2. work'[r].usage = w.usage /\ work'[r].ret = "to_executing"
      BY <1>1, <2>1 DEF Work
    <2>3. pc'[r] \in {"to_executing", "checkpoint"} /\ SameRecord /\ ChangesState(r)
      BY <1>1, <1>5, GoPc DEF StepsCreated, SameRecord, ChangesState
    <2> QED BY <2>2, <2>3 DEF BeforePlan
  <1>6. CASE Schedule(r)
    <2> DEFINE looping == [w EXCEPT !.iterations = @ + 1]
    <2>1. \/ work'[r] = w \/ work'[r] = looping \/ work'[r] = [looping EXCEPT !.refused = TRUE]
          \/ \E s : work'[r] = [looping EXCEPT !.action = s]
      BY <1>6, SetWork DEF Schedule
    <2>2. work'[r].usage = w.usage
      BY <1>1, <2>1 DEF Work
    <2>3. /\ pc'[r] \in {"to_verifying", "to_failed", "to_budget_exhausted", "decide", "aborted"}
          /\ SameRecord /\ ChangesState(r)
      <3>1. \E n \in {"to_verifying", "to_failed", "to_budget_exhausted", "decide", "aborted"} :
               Go(r, n)
        BY <1>6 DEF Schedule
      <3> QED BY <1>1, <1>6, <3>1, GoPc DEF Schedule, SameRecord, ChangesState
    <2> QED BY <2>2, <2>3 DEF BeforePlan
  <1>7. CASE Verify(r)
    <2>1. PICK b, calls : work'[r] = [w EXCEPT !.accepted = b,
                                               !.usage = Charge(@, {"verifier"}, calls)]
      BY <1>7, SetWork, ZenonT(60) DEF Verify
    <2>2. /\ work'[r].usage = Charge(w.usage, {"verifier"}, calls)
      BY <1>1, <2>1 DEF Work
    <2>3. \A m \in {"tool", "steps", "provider"} : work'[r].usage[m] = w.usage[m]
      BY <2>2 DEF Charge, Meters
    <2>4. /\ pc'[r] = (IF HasVerification THEN "record_acceptance" ELSE "judge")
          /\ SameRecord /\ ChangesState(r)
      BY <1>1, <1>7, GoPc DEF Verify, SameRecord, ChangesState
    <2> QED BY <2>3, <2>4 DEF BeforePlan
  <1>8. CASE Judge(r)
    <2>1. work'[r] = w \/ work'[r] = [w EXCEPT !.refused = TRUE]
      BY <1>8, SetWork DEF Judge
    <2>2. work'[r].usage = w.usage
      BY <1>1, <2>1 DEF Work
    <2>3. /\ \/ pc'[r] = "to_completed" /\ w.accepted
             \/ pc'[r] \in {"to_failed", "to_budget_exhausted", "to_repairing"}
          /\ SameRecord /\ ChangesState(r) /\ pc[r] = "judge"
      BY <1>1, <1>8, GoPc DEF Judge, SameRecord, ChangesState
    <2> QED BY <2>2, <2>3 DEF BeforePlan
  <1> QED BY <1>4, <1>5, <1>6, <1>7, <1>8

(* The problem representation, the plan and the repair plan.               *)
LEMMA TameCalls ==
  ASSUME TypeOK, NEW r \in Runners, Represent(r) \/ CreatePlan(r) \/ RevisePlan(r)
  PROVE  Tame(r)
  <1> DEFINE w == work[r]
  <1>1. /\ r \in Procs /\ w \in Work /\ made \in [provider : Nat, tool : Nat, steps : Nat]
        /\ w.usage \in [Meters -> Nat]
    BY DEF Procs, TypeOK, Work
  <1>2. SameRecord /\ ChangesState(r)
    BY DEF Represent, CreatePlan, RevisePlan, SameRecord, ChangesState
  <1>3. made' = made \/ made' = [made EXCEPT !.provider = @ + 1]
    BY DEF Represent, CreatePlan, RevisePlan
  <1>4. made'.tool = made.tool /\ made'.steps = made.steps
    BY <1>1, <1>3
  <1>5. w.usage["provider"] \in Nat /\ made.provider \in Nat /\ "provider" \in Meters
    BY <1>1 DEF Meters
  <1>6. CASE Represent(r) /\ ~Allowed(w)
    <2>1. /\ work'[r] = [w EXCEPT !.refused = TRUE] /\ made' = made
          /\ pc'[r] = "to_budget_exhausted"
      BY <1>1, <1>6, GoPc, SetWork DEF Represent
    <2>2. work'[r].usage = w.usage
      BY <1>1, <2>1 DEF Work
    <2>3. ~BeforePlan(pc'[r], work'[r])
      BY <2>1 DEF BeforePlan
    <2>4. Paid(r)
      BY <1>1, <2>1, <2>2, <2>3, PaidForFree
    <2> QED BY <1>2, <1>4, <2>1, <2>2, <2>4 DEF Tame
  <1>7. CASE Represent(r) /\ Allowed(w)
    <2>1. PICK x : work'[r] = [w EXCEPT !.usage = Charge(@, {"provider"}, 1), !.ret = x]
      BY <1>7, SetWork DEF Represent
    <2>2. work'[r].usage = Charge(w.usage, {"provider"}, 1)
      BY <1>1, <2>1 DEF Work
    <2>3. /\ work'[r].usage["provider"] = w.usage["provider"] + 1
          /\ work'[r].usage["tool"] = w.usage["tool"]
          /\ work'[r].usage["steps"] = w.usage["steps"]
      BY <2>2 DEF Charge, Meters
    <2>4. /\ pc[r] = "represent" /\ pc'[r] = "problem_created"
          /\ made' = [made EXCEPT !.provider = @ + 1]
      BY <1>1, <1>7, GoPc DEF Represent
    <2>5. BeforePlan(pc[r], w) /\ BeforePlan(pc'[r], work'[r])
      BY <2>4 DEF BeforePlan
    <2>6. Allowance(pc'[r], work'[r]) >= Allowance(pc[r], w) + 1
      BY <1>5, <2>3, <2>5 DEF Allowance
    <2>7. made'.provider = made.provider + 1
      BY <1>1, <2>4
    <2> QED BY <1>2, <1>4, <2>3, <2>4, <2>6, <2>7 DEF Tame, Paid
  <1>8. CASE CreatePlan(r)
    <2>1. \/ work'[r] = w \/ work'[r] = [w EXCEPT !.refused = TRUE]
          \/ \E p : work'[r] = [w EXCEPT !.plan = p, !.toCreate = p.steps]
      BY <1>8, SetWork DEF CreatePlan
    <2>2. work'[r].usage = w.usage
      BY <1>1, <2>1 DEF Work
    <2>3. /\ pc[r] = "create_plan" /\ made' = [made EXCEPT !.provider = @ + 1]
          /\ pc'[r] \in {"aborted", "to_budget_exhausted", "plan_created"}
      <3>1. \E n \in {"aborted", "to_budget_exhausted", "plan_created"} : Go(r, n)
        BY <1>8 DEF CreatePlan
      <3> QED BY <1>1, <1>8, <3>1, GoPc DEF CreatePlan
    <2>4. BeforePlan(pc[r], w) /\ ~BeforePlan(pc'[r], work'[r])
      BY <2>3 DEF BeforePlan
    <2>5. Allowance(pc'[r], work'[r]) >= Allowance(pc[r], w) + 1
      BY <1>5, <2>2, <2>4 DEF Allowance
    <2>6. made'.provider = made.provider + 1
      BY <1>1, <2>3
    <2> QED BY <1>2, <1>4, <2>2, <2>3, <2>5, <2>6 DEF Tame, Paid
  <1>9. CASE RevisePlan(r)
    <2>1. PICK p \in Plans :
            \/ /\ Set(r, [w EXCEPT !.plan = p, !.completed = @ \cap p.steps, !.failed = {},
                             !.toCreate = p.steps \ w.completed, !.repairing = TRUE,
                             !.usage = Charge(@, {"repair", "provider"}, 1)])
               /\ Go(r, "plan_revised")
            \/ Go(r, "aborted") /\ UNCHANGED work
      BY <1>9 DEF RevisePlan
    <2>2. pc[r] = "revise_plan" /\ made' = [made EXCEPT !.provider = @ + 1]
      BY <1>9 DEF RevisePlan
    <2>3. made'.provider = made.provider + 1
      BY <1>1, <2>2
    <2>4. CASE Go(r, "aborted") /\ UNCHANGED work
      <3>1. pc'[r] = "aborted" /\ work'[r] = w
        BY <1>1, <2>4, GoPc
      <3> QED BY <1>2, <1>4, <2>2, <2>3, <3>1 DEF Tame, Paid
    <2>5. CASE /\ Set(r, [w EXCEPT !.plan = p, !.completed = @ \cap p.steps, !.failed = {},
                             !.toCreate = p.steps \ w.completed, !.repairing = TRUE,
                             !.usage = Charge(@, {"repair", "provider"}, 1)])
               /\ Go(r, "plan_revised")
      <3>1. /\ pc'[r] = "plan_revised"
            /\ work'[r] = [w EXCEPT !.plan = p, !.completed = @ \cap p.steps, !.failed = {},
                             !.toCreate = p.steps \ w.completed, !.repairing = TRUE,
                             !.usage = Charge(@, {"repair", "provider"}, 1)]
        BY <1>1, <2>5, GoPc, SetWork
      <3>2. work'[r].usage = Charge(w.usage, {"repair", "provider"}, 1)
        BY <1>1, <3>1 DEF Work
      <3>3. /\ work'[r].usage["provider"] = w.usage["provider"] + 1
            /\ work'[r].usage["tool"] = w.usage["tool"]
            /\ work'[r].usage["steps"] = w.usage["steps"]
        BY <3>2 DEF Charge, Meters
      <3>4. ~BeforePlan(pc[r], w) /\ ~BeforePlan(pc'[r], work'[r])
        BY <2>2, <3>1 DEF BeforePlan
      <3>5. Allowance(pc'[r], work'[r]) >= Allowance(pc[r], w) + 1
        BY <1>5, <3>3, <3>4 DEF Allowance
      <3> QED BY <1>2, <1>4, <2>3, <3>1, <3>3, <3>5 DEF Tame, Paid
    <2> QED BY <2>1, <2>4, <2>5
  <1> QED BY <1>6, <1>7, <1>8, <1>9

(* Every step of start outside the journalled ones is tame.                *)
JournalledPCs == {"decide", "start_step", "execute", "finish_step", "record_acceptance"}
LEMMA TameStep ==
  ASSUME TypeOK, NEW r \in Runners, RunnerStep(r), pc[r] \notin JournalledPCs
  PROVE  Tame(r)
  <1>1. ~Decide(r) /\ ~StartStep(r) /\ ~Execute(r) /\ ~FinishStep(r) /\ ~RecordAcceptance(r)
    BY DEF JournalledPCs, Decide, StartStep, Execute, FinishStep, RecordAcceptance, Announce
  <1> QED BY <1>1, TameAppends, TameLocals, TameCalls DEF RunnerStep

(* And the others are journalled ones.                                     *)
LEMMA JournalledStep ==
  ASSUME NEW r \in Runners, RunnerStep(r), pc[r] \in JournalledPCs
  PROVE  Decide(r) \/ StartStep(r) \/ FinishStep(r) \/ RecordAcceptance(r) \/ Execute(r)
  BY Tables DEF JournalledPCs, RunnerStep, Transition, Checkpoint, Represent, ProblemCreated,
     RaiseUnconfigured, RequestClarification, WaitingCheckpoint, Issue, CreatePlan,
     PlanCreated, CreateStep, StepsCreated, Schedule, Verify, Judge, RevisePlan,
     PlanRevised, Announce
-----------------------------------------------------------------------------
(* A start call that is current and has not returned drives a live run.    *)
LEMMA LiveRunner ==
  ASSUME Inv, NEW r \in Runners, pc[r] \in RunnerPCs, Current(r)
  PROVE  stream.state \notin Terminal
  <1>1. RunnerKnows(r) /\ pc[r] \notin Done
    BY DEF Inv, Knows, Procs, RunnerPCs, Target, Done
  <1> QED BY <1>1 DEF RunnerKnows

(* The run of a driver exists.                                             *)
LEMMA DrivenRun ==
  ASSUME Inv, NEW r \in Runners, Driving(r)
  PROVE  stream.version > 0
  BY DEF Inv, Knows, Procs, RunnerKnows, Driving

(* The counters are natural numbers.                                       *)
LEMMA Numbers ==
  ASSUME TypeOK
  PROVE  /\ stream.version \in Nat /\ stream.starts \in Nat /\ stream.consumed \in Nat
         /\ made.provider \in Nat /\ made.tool \in Nat /\ made.steps \in Nat
         /\ \A r \in Runners, m \in Meters : work[r].usage[m] \in Nat
  BY DEF TypeOK, Stream, Work

(* A budget that grows with the calls holds on.                            *)
LEMMA WithinGrows ==
  ASSUME TypeOK, NEW n \in Nat, NEW m \in Nat, NEW d \in Nat, Within(n),
         made'.provider = made.provider + d, stream'.consumed = stream.consumed,
         Revising' => Revising, m >= n + d
  PROVE  Within(m)'
  <1>1. stream.consumed \in Nat /\ made.provider \in Nat
    BY Numbers
  <1> QED BY <1>1 DEF Within

(* A tame step of the driver.                                              *)
LEMMA TameDriver ==
  ASSUME Inv, CallsInv, NEW r \in Runners, Driving(r), RunnerStep(r), Tame(r),
         pc[r] \notin JournalledPCs, Sound(pc'[r], work'[r])
  PROVE  /\ Driving(r)' => Journalled(r)' /\ Metered(r)'
         /\ Counted' /\ CleanEnd'
  <1>0. TypeOK /\ TypeOK' /\ Journalled(r) /\ Metered(r) /\ Sound(pc[r], work[r])
    BY InvStep DEF Inv, CallsInv, Next
  <1>1. /\ stream.version \in Nat /\ stream'.version \in Nat /\ stream.version > 0
        /\ stream.starts \in Nat /\ made.steps \in Nat /\ made.provider \in Nat
        /\ stream.consumed \in Nat
    BY <1>0, Numbers, DrivenRun DEF TypeOK, Stream
  <1>2. stream.open = {}
    BY <1>0 DEF Journalled, JournalledPCs
  <1>3. Journalled(r)'
    <2>1. /\ stream'.open = {} /\ stream'.accepted = stream.accepted
          /\ pc'[r] \notin {"start_step", "execute", "finish_step"}
          /\ HasVerification => pc'[r] # "judge"
          /\ pc'[r] = "to_completed" => pc[r] = "judge" /\ work[r].accepted
      BY <1>2 DEF Tame, SameRecord
    <2> QED BY <1>0, <2>1 DEF Journalled
  <1>4. Revising' => Revising
    BY <1>0, RunnerFrame, ControllerAssumption DEF Revising, Procs
  <1>5. /\ work[r].usage["provider"] \in Nat /\ work'[r].usage["provider"] \in Nat
        /\ work'[r].usage["provider"] <= Budget["provider"] /\ Budget["provider"] \in Nat
        /\ "provider" \in Meters
    BY <1>0, Limits DEF TypeOK, Work, Sound, Meters
  <1>6. Allowance(pc[r], work[r]) \in Nat /\ Allowance(pc'[r], work'[r]) \in Nat
    BY <1>5 DEF Allowance
  <1>7. PICK d \in {0, 1} :
          /\ made'.provider = made.provider + d
          /\ \/ Allowance(pc'[r], work'[r]) >= Allowance(pc[r], work[r]) + d
             \/ pc[r] = "revise_plan" /\ pc'[r] = "aborted" /\ work'[r] = work[r]
    BY DEF Tame, Paid
  <1>8. stream'.consumed = stream.consumed /\ Within(Allowance(pc[r], work[r]))
    BY <1>0 DEF Tame, SameRecord, Metered, Allowance
  <1>9. ASSUME Driving(r)' PROVE Metered(r)'
    <2>1. Allowance(pc'[r], work'[r]) >= Allowance(pc[r], work[r]) + d
      BY <1>7, <1>9 DEF Driving
    <2>2. d \in Nat
      BY <1>7
    <2>3. PICK m \in Nat : m = Allowance(pc'[r], work'[r])
      BY <1>6
    <2>4. PICK n \in Nat : n = Allowance(pc[r], work[r])
      BY <1>6
    <2>5. Within(m)'
      BY <1>0, <1>4, <1>7, <1>8, <2>1, <2>2, <2>3, <2>4, WithinGrows
    <2> QED BY <1>0, <2>3, <2>5 DEF Metered, Tame, Allowance, Within
  <1>10. Within(Budget["provider"] + 1)'
    <2>1. PICK n \in Nat : n = Allowance(pc[r], work[r])
      BY <1>6
    <2>2. n + d <= Budget["provider"] + 1 /\ d \in Nat
      <3>1. CASE Allowance(pc'[r], work'[r]) >= Allowance(pc[r], work[r]) + d
        <4>1. Allowance(pc'[r], work'[r]) <= Budget["provider"] + 1
          BY <1>5 DEF Allowance
        <4> QED BY <1>5, <1>6, <1>7, <2>1, <3>1, <4>1
      <3>2. CASE pc[r] = "revise_plan"
        <4>1. work[r].usage["provider"] < Budget["provider"]
          BY <1>0, <1>5, <3>2 DEF Sound, Spending
        <4>2. n = work[r].usage["provider"] + 1
          BY <2>1, <3>2 DEF Allowance, BeforePlan
        <4> QED BY <1>5, <1>7, <4>1, <4>2
      <3> QED BY <1>7, <3>1, <3>2
    <2>3. PICK m \in Nat : m = Budget["provider"] + 1
      BY <1>5
    <2>4. Within(m)'
      BY <1>0, <1>4, <1>7, <1>8, <2>1, <2>2, <2>3, WithinGrows
    <2> QED BY <2>3, <2>4 DEF Within
  <1>11. Counted'
    <2>1. stream'.version # 0
      BY <1>1 DEF Tame, SameRecord
    <2> QED BY <1>10, <2>1 DEF CallsInv, Counted, Tame, SameRecord
  <1>12. CleanEnd'
    <2>1. stream'.open = {} /\ stream'.accepted = stream.accepted
      BY <1>2 DEF Tame, SameRecord
    <2>2. CASE stream'.state = stream.state
      BY <2>1, <2>2 DEF CallsInv, CleanEnd
    <2>3. CASE stream'.state # stream.state
      <3>1. pc[r] \in DOMAIN Target /\ stream'.state = Target[pc[r]]
        BY <2>3 DEF Tame, ChangesState
      <3>2. stream'.state = "completed" => pc[r] = "to_completed"
        BY <3>1, Tables DEF Target
      <3> QED BY <1>0, <2>1, <3>2 DEF CleanEnd, Journalled
    <2> QED BY <2>2, <2>3
  <1> QED BY <1>3, <1>9, <1>11, <1>12

(* The counts hold where nothing was called or started.                    *)
LEMMA CountedKept ==
  ASSUME TypeOK, Counted, made' = made, stream'.starts >= stream.starts,
         stream'.starts \in Nat, stream'.consumed = stream.consumed, Revising' => Revising,
         \/ stream'.open = stream.open /\ stream'.version = stream.version
         \/ stream'.version # 0
  PROVE  Counted'
  <1>1. /\ stream.starts \in Nat /\ made.steps \in Nat /\ stream.consumed \in Nat
        /\ made.provider \in Nat
    BY Numbers
  <1>2. made'.steps <= stream'.starts
    BY <1>1 DEF Counted
  <1>3. Within(Budget["provider"] + 1)'
    BY DEF Counted, Within
  <1> QED BY <1>2, <1>3 DEF Counted

(* The driver decides on a step, starts it, finishes it, or records an     *)
(* acceptance.                                                             *)
LEMMA JournalDriver ==
  ASSUME Inv, CallsInv, NEW r \in Runners,
         Decide(r) \/ StartStep(r) \/ FinishStep(r) \/ RecordAcceptance(r)
  PROVE  /\ Driving(r)' => Journalled(r)' /\ Metered(r)'
         /\ Counted' /\ CleanEnd'
  <1> DEFINE w == work[r]
  <1>0. TypeOK /\ r \in Procs /\ w \in Work /\ Raised(r) = "aborted" /\ RunnerStep(r)
    BY DEF Inv, TypeOK, Procs, Raised, RunnerStep
  <1>1. pc[r] \in {"decide", "start_step", "finish_step", "record_acceptance"}
    BY DEF Decide, StartStep, FinishStep, RecordAcceptance, Announce
  <1>2. Driving(r) /\ Journalled(r) /\ Metered(r) /\ pc[r] \in RunnerPCs
    BY <1>1 DEF CallsInv, Driving, RunnerPCs
  <1>3. PICK e, n :
          /\ AppendBy(r, e, n) /\ made' = made
          /\ \/ /\ pc[r] = "decide" /\ n = "start_step" /\ work' = work
                /\ e.type = "decision_recorded" /\ e.step = w.action
             \/ /\ pc[r] = "start_step" /\ n = "execute" /\ work' = work
                /\ e.type = "step_started" /\ e.step = w.action
             \/ /\ pc[r] = "finish_step" /\ n = "checkpoint"
                /\ Set(r, [w EXCEPT !.ret = "schedule"])
                /\ e.type \in {"step_completed", "step_failed"} /\ e.step = w.action
             \/ /\ pc[r] = "record_acceptance" /\ n = "judge" /\ work' = work
                /\ e.type = "acceptance_recorded" /\ e.accepted = w.accepted
    BY DEF Decide, StartStep, FinishStep, RecordAcceptance, Announce, StepEvent,
       AcceptanceRecorded
  <1>4. Revising' => Revising
    BY <1>0, RunnerFrame, ControllerAssumption DEF Revising, Procs
  <1>5. /\ stream.version \in Nat /\ stream.version > 0 /\ stream.starts \in Nat
        /\ made.steps \in Nat /\ Counted /\ CleanEnd
    BY <1>0, <1>2, Numbers, DrivenRun DEF CallsInv
  <1>6. CASE ~Current(r)
    <2>1. stream' = stream /\ pc'[r] = "aborted"
      BY <1>0, <1>3, <1>6, AppendOutcome
    <2>2. Counted'
      BY <1>0, <1>3, <1>4, <1>5, <2>1, CountedKept
    <2> QED BY <1>5, <2>1, <2>2 DEF Driving, CleanEnd
  <1>7. CASE Current(r)
    <2>1. stream' = Reduce(stream, e) /\ pc'[r] = n
      BY <1>0, <1>3, <1>7, AppendOutcome
    <2>2. /\ stream'.version = stream.version + 1 /\ stream'.consumed = stream.consumed
          /\ stream'.state = stream.state
          /\ stream'.starts = IF e.type = "step_started" THEN stream.starts + 1 ELSE stream.starts
          /\ stream'.decided = IF e.type = "decision_recorded" THEN e.step ELSE stream.decided
          /\ stream'.open = IF e.type = "step_started" THEN stream.open \cup {e.step}
                            ELSE IF e.type \in {"step_completed", "step_failed"}
                            THEN stream.open \ {e.step} ELSE stream.open
          /\ stream'.accepted = IF e.type = "acceptance_recorded" THEN e.accepted
                                ELSE stream.accepted
      BY <1>3, <2>1 DEF Reduce
    <2>3. Counted'
      BY <1>0, <1>3, <1>4, <1>5, <2>2, CountedKept
    <2>4. CleanEnd'
      BY <1>0, <1>2, <1>7, <2>2, LiveRunner DEF CleanEnd, Terminal, Inv
    <2>5. /\ work'[r].usage = w.usage /\ work'[r].action = w.action
          /\ work'[r].accepted = w.accepted
          /\ pc[r] = "finish_step" => work'[r].ret = "schedule"
      BY <1>0, <1>3, SetWork DEF Work
    <2>6. Journalled(r)'
      <3>1. stream'.open = IF pc'[r] \in {"execute", "finish_step"} THEN {work'[r].action} ELSE {}
        <4>1. stream.open = IF pc[r] = "finish_step" THEN {w.action} ELSE {}
          BY <1>1, <1>2 DEF Journalled
        <4>2. CASE pc[r] = "start_step"
          BY <1>3, <2>1, <2>2, <2>5, <4>1, <4>2
        <4>3. CASE pc[r] = "finish_step"
          BY <1>3, <2>1, <2>2, <2>5, <4>1, <4>3
        <4>4. CASE pc[r] \in {"decide", "record_acceptance"}
          BY <1>3, <2>1, <2>2, <2>5, <4>1, <4>4
        <4> QED BY <1>1, <4>2, <4>3, <4>4
      <3>2. pc'[r] \in {"start_step", "execute"} => stream'.decided = work'[r].action
        BY <1>2, <1>3, <2>1, <2>2, <2>5 DEF Journalled
      <3>3. pc'[r] = "execute" => made'.steps < stream'.starts
        BY <1>3, <1>5, <2>1, <2>2 DEF Counted
      <3>4. /\ pc'[r] = "judge" => stream'.accepted = work'[r].accepted
            /\ pc'[r] # "to_completed"
        BY <1>3, <2>1, <2>2, <2>5
      <3> QED BY <3>1, <3>2, <3>3, <3>4 DEF Journalled
    <2>7. ~BeforePlan(pc[r], w) /\ ~BeforePlan(pc'[r], work'[r])
      BY <1>3, <2>1, <2>5 DEF BeforePlan
    <2>8. Metered(r)'
      BY <1>2, <1>3, <1>4, <2>2, <2>5, <2>7 DEF Metered, Within
    <2> QED BY <2>3, <2>4, <2>6, <2>8
  <1> QED BY <1>6, <1>7

(* The driver executes a step.                                             *)
LEMMA ExecuteDriver ==
  ASSUME Inv, CallsInv, NEW r \in Runners, Execute(r), Sound(pc'[r], work'[r])
  PROVE  /\ Driving(r)' => Journalled(r)' /\ Metered(r)'
         /\ Counted' /\ CleanEnd'
  <1> DEFINE w == work[r]
             kind == Kind[w.action]
  <1>0. /\ TypeOK /\ r \in Procs /\ w \in Work /\ RunnerStep(r) /\ pc[r] = "execute"
        /\ w.action \in Steps
    BY DEF Inv, TypeOK, Procs, RunnerStep, Execute, ActionChosen, Acting
  <1>1. Driving(r) /\ Journalled(r) /\ Metered(r)
    BY <1>0 DEF CallsInv, Driving
  <1>2. PICK b \in BOOLEAN : Set(r, Executed(w, b))
    BY DEF Execute, Executed
  <1>3. /\ work'[r] = Executed(w, b) /\ pc'[r] = "finish_step" /\ stream' = stream
        /\ made' = [m \in DOMAIN made |-> IF m = "steps" \/ m = kind THEN made[m] + 1 ELSE made[m]]
    BY <1>0, <1>2, GoPc, SetWork DEF Execute
  <1>4. work'[r].action = w.action /\ work'[r].usage = Charge(w.usage, {"steps", kind}, 1)
    <2>1. /\ Executed(w, b).action = w.action
          /\ Executed(w, b).usage = Charge(w.usage, {"steps", kind}, 1)
      BY <1>0, <1>2, ExecutedFields
    <2> QED BY <1>3, <2>1
  <1>5. kind \in Kinds
    BY <1>0, ControllerAssumption
  <1>6. /\ work'[r].usage["steps"] = w.usage["steps"] + 1
        /\ work'[r].usage["tool"] = IF kind = "tool" THEN w.usage["tool"] + 1 ELSE w.usage["tool"]
        /\ work'[r].usage["provider"] = IF kind = "provider" THEN w.usage["provider"] + 1
                                        ELSE w.usage["provider"]
    BY <1>4, <1>5 DEF Charge, Meters, Kinds
  <1>7. /\ made'.steps = made.steps + 1
        /\ made'.tool = IF kind = "tool" THEN made.tool + 1 ELSE made.tool
        /\ made'.provider = IF kind = "provider" THEN made.provider + 1 ELSE made.provider
    <2>1. made \in [provider : Nat, tool : Nat, steps : Nat]
      BY <1>0 DEF TypeOK
    <2>2. DOMAIN made = {"provider", "tool", "steps"}
      BY <2>1
    <2> QED BY <1>3, <1>5, <2>2 DEF Kinds
  <1>8. Revising' => Revising
    BY <1>0, RunnerFrame, ControllerAssumption DEF Revising, Procs
  <1>9. /\ stream.version > 0 /\ stream.starts \in Nat /\ stream.consumed \in Nat
        /\ made.steps \in Nat /\ made.tool \in Nat /\ made.provider \in Nat
        /\ w.usage["provider"] \in Nat /\ w.usage["tool"] \in Nat /\ w.usage["steps"] \in Nat
    BY <1>0, <1>1, Numbers, DrivenRun DEF Meters
  <1>10. Journalled(r)'
    BY <1>0, <1>1, <1>3, <1>4 DEF Journalled
  <1>11. ~BeforePlan(pc[r], w) /\ ~BeforePlan(pc'[r], work'[r])
    BY <1>0, <1>3 DEF BeforePlan
  <1> PICK n : n = work'[r].usage["provider"]
    OBVIOUS
  <1>12. n \in Nat /\ Within(n + 1)'
    <2>1. Within(w.usage["provider"] + 1)
      BY <1>1, <1>11 DEF Metered
    <2> QED BY <1>3, <1>6, <1>7, <1>8, <1>9, <2>1 DEF Within
  <1>13. Metered(r)'
    <2>1. made'.tool = work'[r].usage["tool"] /\ made'.steps = work'[r].usage["steps"]
      BY <1>1, <1>6, <1>7 DEF Metered
    <2> QED BY <1>11, <1>12, <2>1 DEF Metered, Within
  <1>14. \A m \in {"tool", "steps", "provider"} :
           work'[r].usage[m] <= Budget[m] /\ Budget[m] \in Nat
    BY Limits DEF Sound, Meters
  <1>15. Counted'
    <2>1. made'.steps <= stream'.starts
      BY <1>0, <1>1, <1>3, <1>7, <1>9 DEF Journalled
    <2>2. made'.tool <= Budget["tool"] /\ made'.steps <= Budget["steps"]
      BY <1>13, <1>14 DEF Metered
    <2>3. Within(Budget["provider"] + 1)'
      <3>1. n <= Budget["provider"] /\ Budget["provider"] \in Nat
        BY <1>14
      <3>2. made'.provider \in Nat /\ stream'.consumed \in Nat
        BY <1>3, <1>7, <1>9
      <3> QED BY <1>12, <3>1, <3>2 DEF Within
    <2> QED BY <1>3, <1>9, <2>1, <2>2, <2>3 DEF Counted
  <1>16. CleanEnd'
    BY <1>3 DEF CallsInv, CleanEnd
  <1> QED BY <1>10, <1>13, <1>15, <1>16

(* The first state change of start claims an empty stream, or meets a      *)
(* conflict.                                                               *)
LEMMA ClaimStep ==
  ASSUME Inv, CallsInv, NEW r \in Runners, ~Driving(r), RunnerStep(r)
  PROVE  /\ work' = work /\ made' = made
         /\ stream'.consumed = stream.consumed
         /\ \/ pc'[r] = "aborted" /\ stream' = stream
            \/ pc'[r] = "represent" /\ stream.version = 0
         /\ Driving(r)' => Journalled(r)' /\ Metered(r)'
         /\ Counted' /\ CleanEnd'
  <1>1. /\ TypeOK /\ r \in Procs /\ Raised(r) = "aborted" /\ work[r] \in Work
        /\ Sound(pc[r], work[r]) /\ Counted /\ CleanEnd
    BY DEF Inv, TypeOK, Procs, Raised, CallsInv
  <1>2. pc[r] = "to_representing"
    BY <1>1, RunnerFrame DEF Driving, RunnerPCs, Target
  <1>3. Tame(r) /\ Transition(r)
    <2>1. pc[r] \notin JournalledPCs
      BY <1>2 DEF JournalledPCs
    <2>2. Transition(r)
      BY <1>2 DEF RunnerStep, Checkpoint, Represent, ProblemCreated,
         RaiseUnconfigured, RequestClarification, WaitingCheckpoint, Issue, CreatePlan,
         PlanCreated, CreateStep, StepsCreated, Schedule, Decide, StartStep, Execute,
         FinishStep, Verify, RecordAcceptance, Judge, RevisePlan, PlanRevised, Announce
    <2> QED BY <1>1, <2>1, <2>2, TameStep
  <1>4. work' = work /\ made' = made /\ SameRecord /\ ChangesState(r)
    BY <1>3 DEF Transition, Tame
  <1>5. Revising' => Revising
    BY <1>1, RunnerFrame, ControllerAssumption DEF Revising, Procs
  <1>6. \/ pc'[r] = "aborted" /\ stream' = stream
        \/ pc'[r] = "represent" /\ Current(r) /\ stream'.version = stream.version + 1
    <2>1. CASE Target[pc[r]] \in Transitions[view[r]]
      <3>1. AppendBy(r, StateChanged(view[r], Target[pc[r]]), Following[pc[r]])
        BY <1>3, <2>1 DEF Transition
      <3>2. Following[pc[r]] = "represent"
        BY <1>2 DEF Following
      <3> QED BY <1>1, <3>1, <3>2, AppendOutcome DEF Reduce
    <2>2. CASE Target[pc[r]] \notin Transitions[view[r]]
      BY <1>1, <1>3, <2>2, GoPc DEF Transition
    <2> QED BY <2>1, <2>2
  <1>7. /\ stream.version \in Nat /\ stream.starts \in Nat
    BY <1>1, Numbers
  <1>8. CASE pc'[r] = "aborted" /\ stream' = stream
    <2>1. Counted'
      BY <1>1, <1>4, <1>5, <1>7, <1>8, CountedKept
    <2> QED BY <1>1, <1>4, <1>8, <2>1 DEF CleanEnd, Driving
  <1>9. CASE pc'[r] = "represent" /\ Current(r) /\ stream'.version = stream.version + 1
    <2>1. stream.version = 0 /\ stream.consumed = 0 /\ stream.state = "received"
      BY <1>1, <1>2, <1>9 DEF Current, Inv, Knows, RunnerKnows, StreamSound
    <2>2. stream'.open = {} /\ stream'.consumed = 0 /\ stream'.starts = stream.starts
      BY <1>1, <1>4, <2>1 DEF Counted, SameRecord
    <2>3. made = [provider |-> 0, tool |-> 0, steps |-> 0]
      BY <1>1, <2>1 DEF Counted
    <2>4. ~Revising
      BY <2>1 DEF CallsInv, RevisionPaid
    <2>5. Counted'
      <3>1. stream'.version # 0
        BY <1>7, <1>9
      <3> QED BY <1>1, <1>4, <1>5, <1>7, <2>1, <2>2, <3>1, CountedKept
    <2>6. stream'.state \in {"received", "representing_problem"}
      BY <1>2, <1>4, <2>1 DEF ChangesState, Target
    <2>7. CleanEnd'
      BY <2>6 DEF CleanEnd
    <2>8. Journalled(r)'
      BY <1>9, <2>2 DEF Journalled
    <2>9. \A m \in {"tool", "steps", "provider"} : work'[r].usage[m] = 0
      BY <1>1, <1>2, <1>4 DEF Sound, Meters
    <2>10. Metered(r)'
      <3>1. BeforePlan(pc'[r], work'[r])
        BY <1>9 DEF BeforePlan
      <3>2. made'.provider = 0 /\ made'.tool = 0 /\ made'.steps = 0
        BY <1>4, <2>3
      <3> QED BY <1>5, <2>2, <2>4, <2>9, <3>1, <3>2 DEF Metered, Within
    <2> QED BY <1>4, <1>9, <2>1, <2>2, <2>5, <2>7, <2>8, <2>10
  <1> QED BY <1>6, <1>8, <1>9

(* No step of start consumes a token.                                      *)
LEMMA ConsumedKept ==
  ASSUME TypeOK, NEW r \in Runners, RunnerStep(r)
  PROVE  stream'.consumed = stream.consumed
  <1>1. CASE pc[r] \notin JournalledPCs
    BY <1>1, TameStep DEF Tame, SameRecord
  <1>2. CASE Execute(r)
    BY <1>2 DEF Execute
  <1>3. CASE Decide(r) \/ StartStep(r) \/ FinishStep(r) \/ RecordAcceptance(r)
    <2>1. PICK e, n : AppendBy(r, e, n) /\ e.type # "continuation_consumed"
      BY <1>3 DEF Decide, StartStep, FinishStep, RecordAcceptance, Announce, StepEvent,
         AcceptanceRecorded
    <2> QED BY <2>1, AppendOutcome DEF Procs, Reduce
  <1> QED BY <1>1, <1>2, <1>3, JournalledStep

(* What a step of start does to the books of all calls of start.           *)
LEMMA RunnerBooks ==
  ASSUME Inv, CallsInv, NEW r \in Runners, RunnerStep(r)
  PROVE  /\ \A q \in Runners : Sound(pc'[q], work'[q])
         /\ \A q \in Runners : Driving(q)' => Journalled(q)' /\ Metered(q)'
         /\ Counted' /\ CleanEnd' /\ RevisionPaid'
  <1>0. TypeOK /\ Runners \subseteq Procs
    BY DEF Inv, Procs
  <1>1. Sound(pc'[r], work'[r])
    BY <1>0, RunnerSound DEF CallsInv
  <1>2. \A q \in Runners : Sound(pc'[q], work'[q])
    BY <1>0, <1>1, RunnerFrame DEF CallsInv
  <1>3. RevisionPaid'
    BY <1>0, RunnerFrame, ConsumedKept, ControllerAssumption
       DEF CallsInv, RevisionPaid, Revising, Procs
  <1>4. /\ Driving(r)' => Journalled(r)' /\ Metered(r)'
        /\ Counted' /\ CleanEnd'
    <2>1. CASE ~Driving(r)
      BY <2>1, ClaimStep
    <2>2. CASE Driving(r) /\ pc[r] \notin JournalledPCs
      BY <1>0, <1>1, <2>2, TameStep, TameDriver
    <2>3. CASE pc[r] \in JournalledPCs
      BY <1>1, <2>3, JournalledStep, JournalDriver, ExecuteDriver
    <2> QED BY <2>1, <2>2, <2>3
  <1>5. ASSUME NEW q \in Runners, q # r, Driving(q)'
        PROVE  Journalled(q)' /\ Metered(q)'
    <2>1. pc'[q] = pc[q] /\ work'[q] = work[q] /\ Driving(q)
      BY <1>0, <1>5, RunnerFrame DEF Driving
    <2>2. ~Driving(r) /\ stream.version > 0
      BY <1>5, <2>1, DrivenRun DEF Inv, SingleDriver, Driving
    <2>3. stream' = stream /\ made' = made /\ work' = work
      BY <1>0, <2>2, ClaimStep, Numbers
    <2>4. Revising' => Revising
      BY <1>0, RunnerFrame, ControllerAssumption DEF Revising, Procs
    <2>5. Journalled(q) /\ Metered(q)
      BY <2>1 DEF CallsInv
    <2> QED BY <2>1, <2>3, <2>4, <2>5 DEF Journalled, Metered, Within
  <1> QED BY <1>2, <1>3, <1>4, <1>5
-----------------------------------------------------------------------------
(* A run that has ended stays in its state.                                *)
LEMMA EndStays ==
  ASSUME Inv, [Next]_vars, stream.state \in Terminal
  PROVE  stream'.state = stream.state
  BY InvStep, TerminalIsFinal DEF LegalStep

(* A call of start: what it does about late calls.                         *)
RunnerOut(r) ==
  \/ /\ lateCalls'[r] = lateCalls[r]
     /\ \/ pc[r] \notin AfterCall
        \/ Current(r)
        \/ pc'[r] \in AfterCall
  \/ CallOut(r) /\ stream' = stream /\ pc[r] \notin AfterCall /\ pc'[r] \in AfterCall

(* Every external call of start is followed by an append or by its end.    *)
LEMMA RunnerOutStep ==
  ASSUME TypeOK, NEW r \in Runners, RunnerStep(r)
  PROVE  RunnerOut(r)
  <1>1. r \in Procs /\ Raised(r) = "aborted" /\ "aborted" \in AfterCall
    BY DEF Procs, Raised, AfterCall, Done
  <1>2. ASSUME NEW e, NEW n, AppendBy(r, e, n) PROVE Current(r) \/ pc'[r] \in AfterCall
    BY <1>1, <1>2, AppendOutcome
  <1>3. CASE \/ ProblemCreated(r) \/ RequestClarification(r) \/ WaitingCheckpoint(r) \/ Issue(r)
             \/ PlanCreated(r) \/ PlanRevised(r) \/ Decide(r) \/ StartStep(r) \/ FinishStep(r)
             \/ RecordAcceptance(r) \/ CreateStep(r)
    BY <1>2, <1>3 DEF ProblemCreated, RequestClarification, WaitingCheckpoint, Issue,
       PlanCreated, PlanRevised, Decide, StartStep, FinishStep, RecordAcceptance, CreateStep,
       Announce, RunnerOut
  <1>4. CASE Transition(r)
    BY <1>1, <1>2, <1>4, GoPc DEF Transition, RunnerOut
  <1>5. CASE Checkpoint(r) \/ RaiseUnconfigured(r) \/ StepsCreated(r) \/ Schedule(r)
    <2>1. lateCalls' = lateCalls /\ pc[r] \in {"checkpoint", "raise", "create_steps", "schedule"}
      BY <1>5 DEF Checkpoint, RaiseUnconfigured, StepsCreated, Schedule
    <2> QED BY <2>1 DEF RunnerOut, AfterCall, Done
  <1>6. CASE Judge(r)
    <2>1. /\ lateCalls' = lateCalls
          /\ \E n \in {"to_completed", "to_failed", "to_budget_exhausted", "to_repairing"} : Go(r, n)
      BY <1>6 DEF Judge
    <2>2. pc'[r] \in {"to_completed", "to_failed", "to_budget_exhausted", "to_repairing"}
      BY <1>1, <2>1, GoPc
    <2> QED BY <2>1, <2>2 DEF RunnerOut, AfterCall
  <1>7. CASE Represent(r) \/ CreatePlan(r) \/ Execute(r) \/ Verify(r) \/ RevisePlan(r)
    <2>1. /\ pc[r] \in {"represent", "create_plan", "execute", "verify", "revise_plan"}
          /\ stream' = stream /\ (lateCalls' = lateCalls \/ CallOut(r))
      BY <1>7 DEF Represent, CreatePlan, Execute, Verify, RevisePlan
    <2>2. \E n \in {"to_budget_exhausted", "problem_created", "aborted", "plan_created",
                    "finish_step", "record_acceptance", "judge", "plan_revised"} : Go(r, n)
      BY <1>7 DEF Represent, CreatePlan, Execute, Verify, RevisePlan
    <2>3. pc'[r] \in {"to_budget_exhausted", "problem_created", "aborted", "plan_created",
                      "finish_step", "record_acceptance", "judge", "plan_revised"}
      BY <1>1, <2>2, GoPc
    <2> QED BY <2>1, <2>3 DEF RunnerOut, AfterCall, Done
  <1> QED BY <1>3, <1>4, <1>5, <1>6, <1>7 DEF RunnerStep

(* A call counted as late is the first one late.                           *)
LEMMA CountOnce ==
  ASSUME TypeOK, NEW p \in Procs, CallOut(p), LateOnce(p), pc[p] \notin AfterCall,
         p \notin Cancellers, pc'[p] \in AfterCall, stream' = stream
  PROVE  LateOnce(p)'
  <1>1. lateCalls[p] = 0
    BY DEF LateOnce
  <1>2. lateCalls'[p] = IF stream.state \in Terminal THEN lateCalls[p] + 1 ELSE lateCalls[p]
    BY DEF CallOut, TypeOK
  <1> QED BY <1>1, <1>2 DEF LateOnce

(* A call that does not move is as late as before.                         *)
LEMMA LateKept ==
  ASSUME Inv, [Next]_vars, NEW p \in Procs, LateOnce(p),
         lateCalls'[p] = lateCalls[p], pc'[p] = pc[p] \/ pc'[p] \in AfterCall
  PROVE  LateOnce(p)'
  BY EndStays DEF LateOnce

(* A step of start.                                                        *)
LEMMA RunnerLate ==
  ASSUME Inv, CallsInv, NEW r \in Runners, RunnerStep(r)
  PROVE  \A p \in Procs : LateOnce(p)'
  <1>1. TypeOK /\ r \in Procs /\ r \notin Cancellers /\ LateOnce(r) /\ [Next]_vars
    BY ControllerAssumption DEF Inv, Procs, CallsInv, Next
  <1>2. ASSUME NEW p \in Procs, p # r PROVE LateOnce(p)'
    BY <1>1, <1>2, RunnerFrame, LateKept DEF CallsInv
  <1>3. LateOnce(r)'
    <2>1. CASE CallOut(r) /\ stream' = stream /\ pc[r] \notin AfterCall /\ pc'[r] \in AfterCall
      BY <1>1, <2>1, CountOnce
    <2>2. CASE lateCalls'[r] = lateCalls[r] /\ pc'[r] \in AfterCall
      BY <1>1, <2>2, LateKept
    <2>3. CASE lateCalls'[r] = lateCalls[r] /\ lateCalls[r] = 0
      BY <2>3 DEF LateOnce
    <2>4. CASE lateCalls'[r] = lateCalls[r] /\ lateCalls[r] # 0 /\ pc'[r] \notin AfterCall
      <3>1. pc[r] \in AfterCall /\ stream.state \in Terminal
        BY <1>1, <2>4 DEF LateOnce
      <3>2. Current(r)
        <4>1. RunnerOut(r)
          BY <1>1, RunnerOutStep
        <4> QED BY <2>4, <3>1, <4>1 DEF RunnerOut
      <3>3. ~Current(r)
        BY <1>1, <3>1, RunnerFrame, LiveRunner
      <3> QED BY <3>2, <3>3
    <2> QED BY <1>1, <2>1, <2>2, <2>3, <2>4, RunnerOutStep DEF RunnerOut
  <1> QED BY <1>2, <1>3
-----------------------------------------------------------------------------
(* The books hold where no start call moves but to its end, no step or     *)
(* acceptance is recorded and nothing is called.                           *)
LEMMA BooksKept ==
  ASSUME Inv, CallsInv, work' = work, made' = made, SameRecord,
         stream'.state # stream.state =>
           stream'.state \notin {"completed", "failed", "budget_exhausted"},
         \A q \in Runners : pc'[q] = pc[q] \/ pc'[q] = "aborted",
         \A c \in Continuers : pc'[c] = "revise" => pc[c] = "revise"
  PROVE  /\ \A q \in Runners : Sound(pc'[q], work'[q])
         /\ \A q \in Runners : Driving(q)' => Journalled(q)' /\ Metered(q)'
         /\ Counted' /\ CleanEnd' /\ RevisionPaid'
  <1>0. TypeOK /\ stream.version \in Nat /\ stream.starts \in Nat
    BY Numbers DEF Inv
  <1>1. Revising' => Revising
    BY DEF Revising
  <1>2. \A q \in Runners : Sound(pc'[q], work'[q])
    BY SoundAborted DEF CallsInv
  <1>3. ASSUME NEW q \in Runners, Driving(q)' PROVE Journalled(q)' /\ Metered(q)'
    <2>1. pc'[q] = pc[q] /\ Journalled(q) /\ Metered(q)
      BY <1>3 DEF Driving, CallsInv
    <2> QED BY <1>1, <2>1 DEF Journalled, Metered, Within, SameRecord
  <1>4. Counted'
    BY <1>0, <1>1, CountedKept DEF CallsInv, SameRecord
  <1>5. CleanEnd'
    BY DEF CallsInv, CleanEnd, SameRecord
  <1>6. RevisionPaid'
    BY <1>1 DEF CallsInv, RevisionPaid, SameRecord
  <1> QED BY <1>2, <1>3, <1>4, <1>5, <1>6

(* A step of cancel.                                                       *)
LEMMA CancelCalls ==
  ASSUME Inv, CallsInv, NEW c \in Cancellers, CancelStep(c)
  PROVE  CallsInv'
  <1>1. /\ TypeOK /\ c \in Procs /\ c \notin Runners /\ c \notin Continuers
        /\ Raised(c) = "idle" /\ [Next]_vars
    BY ControllerAssumption DEF Inv, Procs, Raised, Next
  <1>2. work' = work /\ made' = made /\ lateCalls' = lateCalls
    BY DEF CancelStep, ReadForCancel, Cancel, RecordCancel, Announce
  <1>3. \E n : pc' = [pc EXCEPT ![c] = n]
    <2>1. ASSUME NEW e, NEW n, AppendBy(c, e, n) PROVE \E m : pc' = [pc EXCEPT ![c] = m]
      BY <2>1 DEF AppendBy
    <2> QED BY <2>1 DEF CancelStep, ReadForCancel, Cancel, RecordCancel, Announce
  <1>4. \A p \in Procs : p # c => pc'[p] = pc[p]
    BY <1>3 DEF Inv, TypeOK
  <1>5. SameRecord /\ (stream'.state # stream.state => stream'.state = "cancelled")
    <2>1. CASE ReadForCancel(c)
      BY <2>1 DEF ReadForCancel, SameRecord
    <2>2. CASE Cancel(c) \/ RecordCancel(c)
      <3>1. PICK e, n : /\ AppendBy(c, e, n)
                        /\ \/ e.type = "state_changed" /\ e.current = "cancelled"
                           \/ e.type = "cancelled"
        BY <2>2 DEF Cancel, RecordCancel, Announce, StateChanged, Event
      <3> QED BY <1>1, <3>1, PlainRecord DEF Recording
    <2> QED BY <2>1, <2>2 DEF CancelStep
  <1>6. \A q \in Runners \cup Continuers : pc'[q] = pc[q]
    BY <1>1, <1>4 DEF Procs
  <1>7. \A p \in Procs : LateOnce(p)'
    <2>1. ASSUME NEW p \in Procs, p # c PROVE LateOnce(p)'
      BY <1>1, <1>2, <1>4, <2>1, LateKept DEF CallsInv
    <2>2. LateOnce(c)'
      BY <1>1, <1>2 DEF CallsInv, LateOnce
    <2> QED BY <2>1, <2>2
  <1>8. /\ \A q \in Runners : Sound(pc'[q], work'[q])
        /\ \A q \in Runners : Driving(q)' => Journalled(q)' /\ Metered(q)'
        /\ Counted' /\ CleanEnd' /\ RevisionPaid'
    BY <1>2, <1>5, <1>6, BooksKept
  <1> QED BY <1>7, <1>8 DEF CallsInv

(* A step of start.                                                        *)
LEMMA RunnerCalls ==
  ASSUME Inv, CallsInv, NEW r \in Runners, RunnerStep(r)
  PROVE  CallsInv'
  BY RunnerBooks, RunnerLate DEF CallsInv

(* A call that dies makes no more calls, and time passing makes none.      *)
LEMMA EnvironmentCalls ==
  ASSUME Inv, CallsInv, (\E p \in Procs : Fail(p)) \/ TimeRunsOut \/ TokenExpires \/ UNCHANGED vars
  PROVE  CallsInv'
  <1>1. TypeOK /\ [Next]_vars /\ Runners \subseteq Procs /\ Continuers \subseteq Procs
    BY DEF Inv, Next, Procs
  <1>2. stream' = stream /\ work' = work /\ made' = made /\ lateCalls' = lateCalls
    BY DEF Fail, TimeRunsOut, TokenExpires, vars, callVars
  <1>3. \A q \in Procs : pc'[q] = pc[q] \/ pc'[q] = Raised(q)
    BY <1>1 DEF Fail, TimeRunsOut, TokenExpires, vars, callVars, TypeOK
  <1>4. /\ \A q \in Runners : pc'[q] = pc[q] \/ pc'[q] = "aborted"
        /\ \A c \in Continuers : pc'[c] = "revise" => pc[c] = "revise"
    BY <1>1, <1>3, ControllerAssumption DEF Raised
  <1>5. SameRecord
    BY <1>2 DEF SameRecord
  <1>6. ASSUME NEW p \in Procs PROVE LateOnce(p)'
    <2>1. pc'[p] = pc[p] \/ pc'[p] \in AfterCall
      BY <1>3 DEF Raised, AfterCall, Done
    <2> QED BY <1>1, <1>2, <2>1, LateKept DEF CallsInv
  <1>7. /\ \A q \in Runners : Sound(pc'[q], work'[q])
        /\ \A q \in Runners : Driving(q)' => Journalled(q)' /\ Metered(q)'
        /\ Counted' /\ CleanEnd' /\ RevisionPaid'
    BY <1>2, <1>4, <1>5, BooksKept
  <1> QED BY <1>6, <1>7 DEF CallsInv

(* A step of continue_run touches the place of its own call only.          *)
LEMMA ContinueFrame ==
  ASSUME TypeOK, NEW c \in Continuers, ContinueStep(c)
  PROVE  /\ \A p \in Procs : p # c => pc'[p] = pc[p] /\ lateCalls'[p] = lateCalls[p]
         /\ work' = work
  <1>1. \E n : pc' = [pc EXCEPT ![c] = n]
    <2>1. ASSUME NEW e, NEW n, AppendBy(c, e, n) PROVE \E m : pc' = [pc EXCEPT ![c] = m]
      BY <2>1 DEF AppendBy
    <2> QED BY <2>1 DEF ContinueStep, ReadForContinue, Provide, Consume, Revise, ProblemRevised,
          Resume, Resumed, Announce, Go
  <1>2. work' = work /\ (lateCalls' = lateCalls \/ CallOut(c))
    BY DEF ContinueStep, ReadForContinue, Provide, Consume, Revise, ProblemRevised,
       Resume, Resumed, Announce
  <1> QED BY <1>1, <1>2 DEF TypeOK, CallOut

(* The steps of continue_run that neither consume the token nor call.      *)
LEMMA ContinueQuiet ==
  ASSUME Inv, CallsInv, NEW c \in Continuers,
         \/ ReadForContinue(c) \/ Provide(c) \/ ProblemRevised(c) \/ Resume(c) \/ Resumed(c)
         \/ Consume(c) /\ ~Current(c)
  PROVE  CallsInv'
  <1>1. /\ TypeOK /\ c \in Procs /\ c \notin Runners /\ c \notin Cancellers
        /\ Raised(c) = "idle" /\ [Next]_vars /\ ContinueStep(c) /\ ContinuerKnows(c)
    BY ControllerAssumption DEF Inv, Procs, Raised, Next, ContinueStep, Knows
  <1>2. /\ \A p \in Procs : p # c => pc'[p] = pc[p] /\ lateCalls'[p] = lateCalls[p]
        /\ work' = work
    BY <1>1, ContinueFrame
  <1>3. made' = made /\ lateCalls' = lateCalls
    BY DEF ReadForContinue, Provide, ProblemRevised, Resume, Resumed, Consume, Announce
  <1>4. /\ SameRecord /\ pc'[c] # "revise"
        /\ stream'.state # stream.state => stream'.state \in {"representing_problem", "ready"}
        /\ \/ pc'[c] \in AfterCall
           \/ pc[c] \notin AfterCall
           \/ stream.state = "waiting_for_clarification"
    <2>1. CASE ReadForContinue(c)
      <3>1. stream' = stream /\ pc'[c] = "provide"
        BY <1>1, <2>1 DEF ReadForContinue, TypeOK
      <3>2. stream.state = "waiting_for_clarification"
        BY <2>1 DEF ReadForContinue, TokenAccepted, Inv, StreamSound
      <3> QED BY <3>1, <3>2 DEF SameRecord
    <2>2. CASE Provide(c) \/ ProblemRevised(c) \/ Resume(c) \/ Resumed(c)
      <3>1. PICK e, n :
              /\ AppendBy(c, e, n) /\ n \in {"consume", "resume", "resumed", "idle", "returned"}
              /\ \/ e.type \in {"clarification_provided", "problem_revised"}
                 \/ e.type = "state_changed" /\ e.current \in {"representing_problem", "ready"}
        BY <2>2 DEF Provide, ProblemRevised, Resume, Resumed, Announce, Event, StateChanged
      <3>2. pc[c] \in {"provide", "problem_revised", "resume", "resumed"}
        BY <2>2 DEF Provide, ProblemRevised, Resume, Resumed, Announce
      <3>3. SameRecord /\ pc'[c] \in {n, "idle"}
        BY <1>1, <3>1, PlainRecord DEF Recording
      <3>4. stream'.state # stream.state => stream'.state \in {"representing_problem", "ready"}
        BY <1>1, <3>1, PlainRecord DEF Recording
      <3>5. \/ pc'[c] \in AfterCall
            \/ pc[c] \notin AfterCall
            \/ stream.state = "waiting_for_clarification"
        <4>1. Current(c) \/ pc'[c] = "idle"
          BY <1>1, <3>1, AppendOutcome
        <4> QED BY <1>1, <3>2, <4>1 DEF ContinuerKnows, AfterCall, Done
      <3> QED BY <3>1, <3>3, <3>4, <3>5
    <2>3. CASE Consume(c) /\ ~Current(c)
      <3>1. stream' = stream /\ pc'[c] = "idle"
        BY <1>1, <2>3, AppendOutcome DEF Consume, Announce
      <3> QED BY <3>1 DEF SameRecord, AfterCall
    <2> QED BY <2>1, <2>2, <2>3
  <1>5. /\ \A q \in Runners : pc'[q] = pc[q]
        /\ \A d \in Continuers : pc'[d] = "revise" => pc[d] = "revise"
    BY <1>1, <1>2, <1>4 DEF Procs
  <1>6. ASSUME NEW p \in Procs PROVE LateOnce(p)'
    <2>1. CASE p # c
      BY <1>1, <1>2, <2>1, LateKept DEF CallsInv
    <2>2. CASE p = c
      <3>1. LateOnce(c)
        BY <1>1 DEF CallsInv
      <3>2. CASE lateCalls[c] = 0
        BY <1>3, <2>2, <3>2 DEF LateOnce
      <3>3. CASE lateCalls[c] # 0
        <4>1. pc'[c] \in AfterCall
          BY <1>4, <3>1, <3>3 DEF LateOnce, Terminal
        <4> QED BY <1>1, <1>3, <2>2, <3>1, <4>1, LateKept
      <3> QED BY <3>2, <3>3
    <2> QED BY <2>1, <2>2
  <1>7. /\ \A q \in Runners : Sound(pc'[q], work'[q])
        /\ \A q \in Runners : Driving(q)' => Journalled(q)' /\ Metered(q)'
        /\ Counted' /\ CleanEnd' /\ RevisionPaid'
    BY <1>2, <1>3, <1>4, <1>5, BooksKept
  <1> QED BY <1>6, <1>7 DEF CallsInv

(* continue_run consumes the token: nobody has yet, so the one provider    *)
(* call it may make now is accounted for.                                  *)
LEMMA ConsumeCalls ==
  ASSUME Inv, CallsInv, NEW c \in Continuers, Consume(c), Current(c)
  PROVE  CallsInv'
  <1>1. /\ TypeOK /\ c \in Procs /\ c \notin Runners
        /\ [Next]_vars /\ ContinueStep(c) /\ ContinuerKnows(c)
    BY ControllerAssumption DEF Inv, Procs, Next, ContinueStep, Knows
  <1>2. /\ \A p \in Procs : p # c => pc'[p] = pc[p] /\ lateCalls'[p] = lateCalls[p]
        /\ work' = work /\ made' = made /\ lateCalls' = lateCalls
    BY <1>1, ContinueFrame DEF Consume, Announce
  <1>3. stream' = Reduce(stream, Event("continuation_consumed")) /\ pc'[c] = "revise"
    BY <1>1, AppendOutcome DEF Consume, Announce
  <1>4. stream.consumed = 0 /\ stream.state = "waiting_for_clarification"
    BY <1>1 DEF ContinuerKnows, Consume, Announce
  <1>5. /\ stream'.consumed = 1 /\ stream'.open = stream.open
        /\ stream'.decided = stream.decided /\ stream'.starts = stream.starts
        /\ stream'.accepted = stream.accepted /\ stream'.state = stream.state
        /\ stream'.version = stream.version + 1
    BY <1>3, <1>4 DEF Reduce, Event
  <1>6. stream.version \in Nat /\ made.provider \in Nat
    BY <1>1, Numbers
  <1>7. ~Revising /\ Counted /\ CleanEnd
    BY <1>4 DEF CallsInv, RevisionPaid
  <1>8. ASSUME NEW n \in Nat, Within(n) PROVE Within(n)'
    BY <1>2, <1>4, <1>5, <1>6, <1>8 DEF Within
  <1>9. \A q \in Runners : pc'[q] = pc[q]
    BY <1>1, <1>2 DEF Procs
  <1>10. \A q \in Runners : Sound(pc'[q], work'[q])
    BY <1>2, <1>9 DEF CallsInv
  <1>11. ASSUME NEW q \in Runners, Driving(q)' PROVE Journalled(q)' /\ Metered(q)'
    <2>1. pc'[q] = pc[q] /\ Journalled(q) /\ Metered(q)
      BY <1>9, <1>11 DEF Driving, CallsInv
    <2>2. work[q].usage["provider"] \in Nat
      BY <1>1, Numbers DEF Meters
    <2>3. PICK n \in Nat :
            n = work[q].usage["provider"] + IF BeforePlan(pc[q], work[q]) THEN 0 ELSE 1
      BY <2>2
    <2>4. Within(n)'
      BY <1>8, <2>1, <2>3 DEF Metered
    <2>5. Metered(q)'
      BY <1>2, <2>1, <2>3, <2>4 DEF Metered, Within
    <2> QED BY <1>2, <1>5, <2>1, <2>5 DEF Journalled
  <1>12. Counted'
    <2>1. PICK n \in Nat : n = Budget["provider"] + 1
      BY Limits DEF Meters
    <2>2. Within(n)'
      BY <1>7, <1>8, <2>1 DEF Counted
    <2>3. Within(Budget["provider"] + 1)'
      BY <2>1, <2>2 DEF Within
    <2> QED BY <1>2, <1>5, <1>6, <1>7, <2>3 DEF Counted
  <1>13. CleanEnd'
    BY <1>5, <1>7 DEF CleanEnd
  <1>14. RevisionPaid'
    <2>1. \A d \in Continuers : pc'[d] = "revise" => d = c
      BY <1>1, <1>2, <1>7 DEF Revising, Procs
    <2> QED BY <1>5, <2>1 DEF RevisionPaid
  <1>15. ASSUME NEW p \in Procs PROVE LateOnce(p)'
    <2>1. CASE p # c
      BY <1>1, <1>2, <2>1, LateKept DEF CallsInv
    <2>2. CASE p = c
      BY <1>2, <1>4, <2>2 DEF CallsInv, LateOnce, Terminal
    <2> QED BY <2>1, <2>2
  <1> QED BY <1>10, <1>11, <1>12, <1>13, <1>14, <1>15 DEF CallsInv

(* The one provider call of the one continuation that has consumed.        *)
LEMMA ReviseCalls ==
  ASSUME Inv, CallsInv, NEW c \in Continuers, Revise(c)
  PROVE  CallsInv'
  <1>1. /\ TypeOK /\ c \in Procs /\ c \notin Runners /\ c \notin Cancellers
        /\ [Next]_vars /\ ContinueStep(c)
    BY ControllerAssumption DEF Inv, Procs, Next, ContinueStep
  <1>2. /\ \A p \in Procs : p # c => pc'[p] = pc[p] /\ lateCalls'[p] = lateCalls[p]
        /\ work' = work
    BY <1>1, ContinueFrame
  <1>3. /\ pc[c] = "revise" /\ pc'[c] = "problem_revised" /\ CallOut(c) /\ stream' = stream
        /\ made' = [made EXCEPT !.provider = @ + 1]
    BY <1>1, GoPc DEF Revise
  <1>4. /\ made'.provider = made.provider + 1 /\ made'.tool = made.tool
        /\ made'.steps = made.steps
    BY <1>1, <1>3 DEF TypeOK
  <1>5. made.provider \in Nat /\ stream.consumed \in Nat
    BY <1>1, Numbers
  <1>6. Revising /\ ~Revising'
    <2>1. \A d \in Continuers : pc[d] = "revise" => d = c
      BY <1>3 DEF CallsInv, RevisionPaid
    <2>2. \A d \in Continuers : d # c => pc'[d] = pc[d]
      BY <1>2 DEF Procs
    <2>3. \A d \in Continuers : pc'[d] # "revise"
      BY <1>3, <2>1, <2>2
    <2> QED BY <1>3, <2>3 DEF Revising
  <1>7. stream.consumed >= 1 /\ stream.version # 0 /\ Counted /\ CleanEnd
    BY <1>6 DEF CallsInv, RevisionPaid, Inv, StreamSound
  <1>8. ASSUME NEW n \in Nat, Within(n) PROVE Within(n)'
    BY <1>3, <1>4, <1>5, <1>6, <1>8 DEF Within
  <1>9. \A q \in Runners : pc'[q] = pc[q]
    BY <1>1, <1>2 DEF Procs
  <1>10. \A q \in Runners : Sound(pc'[q], work'[q])
    BY <1>2, <1>9 DEF CallsInv
  <1>11. ASSUME NEW q \in Runners, Driving(q)' PROVE Journalled(q)' /\ Metered(q)'
    <2>1. pc'[q] = pc[q] /\ Journalled(q) /\ Metered(q)
      BY <1>9, <1>11 DEF Driving, CallsInv
    <2>2. work[q].usage["provider"] \in Nat
      BY <1>1, Numbers DEF Meters
    <2>3. PICK n \in Nat :
            n = work[q].usage["provider"] + IF BeforePlan(pc[q], work[q]) THEN 0 ELSE 1
      BY <2>2
    <2>4. Within(n)'
      BY <1>8, <2>1, <2>3 DEF Metered
    <2>5. Metered(q)'
      BY <1>2, <1>4, <2>1, <2>3, <2>4 DEF Metered, Within
    <2> QED BY <1>2, <1>3, <1>4, <2>1, <2>5 DEF Journalled
  <1>12. Counted'
    <2>1. PICK n \in Nat : n = Budget["provider"] + 1
      BY Limits DEF Meters
    <2>2. Within(n)'
      BY <1>7, <1>8, <2>1 DEF Counted
    <2>3. Within(Budget["provider"] + 1)'
      BY <2>1, <2>2 DEF Within
    <2> QED BY <1>3, <1>4, <1>7, <2>3 DEF Counted
  <1>13. CleanEnd' /\ RevisionPaid'
    BY <1>3, <1>6, <1>7 DEF CleanEnd, RevisionPaid, Revising
  <1>14. ASSUME NEW p \in Procs PROVE LateOnce(p)'
    <2>1. CASE p # c
      BY <1>1, <1>2, <2>1, LateKept DEF CallsInv
    <2>2. CASE p = c
      <3>1. pc[c] \notin AfterCall /\ pc'[c] \in AfterCall /\ LateOnce(c)
        BY <1>1, <1>3 DEF AfterCall, Done, CallsInv
      <3> QED BY <1>1, <1>3, <2>2, <3>1, CountOnce
    <2> QED BY <2>1, <2>2
  <1> QED BY <1>10, <1>11, <1>12, <1>13, <1>14 DEF CallsInv
-----------------------------------------------------------------------------
(* The second invariant holds initially.                                   *)
LEMMA CallsInit ==
  ASSUME Init PROVE CallsInv
  <1>1. \A r \in Runners : pc[r] = "to_representing" /\ work[r] = NewWork
    BY DEF Init, Procs
  <1>2. Sound("to_representing", NewWork)
    BY Limits DEF Sound, NewWork, NoPlan, SchedulerConsistent, Choosing, Spending
  <1>3. \A r \in Runners : Sound(pc[r], work[r]) /\ ~Driving(r)
    BY <1>1, <1>2 DEF Driving
  <1>4. ~Revising
    BY ControllerAssumption DEF Init, Revising, Procs
  <1>5. Counted
    <2>1. /\ stream.open = {} /\ stream.starts = 0 /\ stream.consumed = 0
          /\ made = [provider |-> 0, tool |-> 0, steps |-> 0]
      BY DEF Init
    <2>2. made.provider = 0 /\ made.tool = 0 /\ made.steps = 0
      BY <2>1
    <2>3. \A m \in {"tool", "steps", "provider"} : Budget[m] \in Nat
      BY Limits DEF Meters
    <2> QED BY <1>4, <2>1, <2>2, <2>3 DEF Counted, Within
  <1>6. CleanEnd
    BY DEF Init, CleanEnd
  <1>7. RevisionPaid
    BY <1>4 DEF RevisionPaid, Revising
  <1>8. \A p \in Procs : LateOnce(p)
    BY DEF Init, LateOnce
  <1> QED BY <1>3, <1>5, <1>6, <1>7, <1>8 DEF CallsInv

(* Every step keeps the second invariant.                                  *)
LEMMA CallsStep ==
  ASSUME Inv, CallsInv, [Next]_vars
  PROVE  CallsInv'
  <1>1. ASSUME NEW c \in Continuers, ContinueStep(c) PROVE CallsInv'
    BY <1>1, ContinueQuiet, ConsumeCalls, ReviseCalls DEF ContinueStep
  <1> QED BY <1>1, RunnerCalls, CancelCalls, EnvironmentCalls DEF Next

(* The second invariant holds in every reachable state.                    *)
THEOREM CallsInvariance == Spec => []CallsInv
  <1>1. Init => CallsInv
    BY CallsInit
  <1>2. Inv /\ CallsInv /\ [Next]_vars => CallsInv'
    BY CallsStep
  <1> QED BY <1>1, <1>2, Invariance, PTL DEF Spec

(* No tool or provider call of a step is made before its decision and its  *)
(* start are in the stream, whatever calls race and die.                   *)
THEOREM DecidedBeforeExecuted == Spec => []WriteAhead
  <1>1. CallsInv => WriteAhead
    BY DEF CallsInv, Counted, Journalled, Driving, WriteAhead
  <1> QED BY <1>1, CallsInvariance, PTL

(* A run that has ended, a cancelled one above all, gets at most one more  *)
(* external call out of each call of start or continue_run.                *)
THEOREM LateCallsBounded == Spec => []EndStopsCalls
  <1>1. CallsInv => EndStopsCalls
    BY DEF CallsInv, LateOnce, EndStopsCalls
  <1> QED BY <1>1, CallsInvariance, PTL

(* A run ends by itself with no step open, and completes on an accepted    *)
(* decision only.                                                          *)
THEOREM EndsClean == Spec => []CleanEnd
  <1>1. CallsInv => CleanEnd
    BY DEF CallsInv
  <1> QED BY <1>1, CallsInvariance, PTL

(* Tool calls and steps stay within the budget for every budget and every  *)
(* planner; provider calls exceed it by the plan call and the revision     *)
(* of a continuation at most.                                              *)
THEOREM BudgetHolds == Spec => []CallsBounded
  <1>1. Inv /\ CallsInv => CallsBounded
    BY DEF CallsInv, Counted, Within, CallsBounded
  <1> QED BY <1>1, Invariance, CallsInvariance, PTL

(* The scheduler is never handed inconsistent sets, for any sequence of    *)
(* repair plans.                                                           *)
THEOREM SchedulerSafe == Spec => []SchedulerNeverRaises
  <1>1. CallsInv => SchedulerNeverRaises
    BY DEF CallsInv, Sound, SchedulerNeverRaises
  <1> QED BY <1>1, CallsInvariance, PTL
=============================================================================
