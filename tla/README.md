# Cognitive OS in TLA+

Cognitive OS runs bounded, audited agent tasks. A controller takes a task through
problem representation, planning, execution, verification and repair; it calls model
providers, tools and verifiers; and every plane records what it does as events in
append-only streams of one PostgreSQL event store. There is no other coordination: two
processes that work on the same thing meet only in the version check of an append. This
directory holds TLA+ models of that core, the TLC runs that check them on small instances
and TLAPS proofs of what matters most for every value of the constants.

Paths below are relative to `src/src/cognitive_os/` unless they start with `docs/`.

## 1. Inventory

| Component | State it keeps | Operations | What is hard | What makes it correct |
|---|---|---|---|---|
| Event store `infrastructure/postgres/event_store.py` | tables `event_streams` (type, current version) and `events` (global position, stream, version, id) | `append`, `read_stream`, `read_all`, `get_stream_version` | concurrent appends, lost sessions and acknowledgements, deadlock, positions drawn before the commit, paged reads during appends | contiguous versions, whole batches, unique ids, races told as version conflicts, readers without gaps |
| Controller `application/services/cognitive_controller.py`, `controller/` | the task-run stream; in a call its expected version, machine, budget ledger, plan, step sets | `start`, `cancel`, `continue_run` | rival calls, cancellation during an await, crash between any two appends, budgets at their limit, repair plans that change under a step set | replayable stream, legal and final states, write-ahead of side effects, bounded calls, no step left open, an end |
| Recovery and continuation `controller_recovery.py`, `controller/checkpoint.py` | nothing of its own: reads streams; the token record is in the stream | `replay`, `continuation_context`, token `issue`/`consume`, `classify_child_call` | a token presented twice, late or at another version | one consumption, one revision, resumption; a call classified as not made was not made |
| Planning, problem representation `plan_service.py`, `problem_representation.py` | none (each call is a provider call) | `create_plan`, `revise_plan`, `represent`, `revise` | a revision that drops or adds steps | plans admissible for the budget and the allowed tools |
| Verification `controller_verification.py`, `verification_service.py`, `acceptance_service.py` | a stream per verifier execution, the results of a pass | `verify`, `execute`, `evaluate` | verifiers that time out, raise or share an id; a verdict whose event is lost | no acceptance over bad evidence, no verdict that is not journalled |
| Model execution `model_execution.py`, `providers/retry.py`, `events/provider_event_service.py` | a `model_call` stream; attempt, error and emitted flag of a call | `execute`, `stream` | retries against partial output, cancellation at any await, lost terminal events | attempts announced and bounded, a true terminal event, no repeated call, nothing heard twice |
| Tool plane `tool_execution.py`, `tools/policy.py`, `events/tool_event_service.py` | a `tool_call` stream per call | `execute` | side effects between two events, timeouts, cancellation, lost events | nothing runs without authority, a terminal event is true of what the tool did |
| Approvals `approval_service.py` | the decisions of a provider, shared by calls | `get_existing_task_approval`, `request_approval`, `record_decision` | concurrent calls of one task, expiry | single use of `allow_once`, scope of `allow_for_task` |
| Artifact store `infrastructure/artifacts/` | content-addressed files, temporary files, artifact events | `put`, `get`, `verify` | two writers of one content, a crash before the rename | content equals its hash, no partial artifact |
| Memory `application/services/memory_service.py`, `memory/`, `infrastructure/memory/` | items with immutable revisions, embeddings, access rows; a stream per item | `create`, `ingest`, `promote`, `supersede`, `retract`, `expire`, `embeddings.create`, `retrieve` | the row and its event are two transactions, two ingestions of one trajectory, a status judged before the transaction, an audit that fails | legal lifecycles, a stream that tells the rows in order, a lag that is never silent, nothing disclosed unaudited, every item journalled |
| Semantic memory `semantic_memory/`, `infrastructure/semantic_memory/` | claims, contradictions, observations, relations, promotion decisions, Wiki pages; a stream each | `record_observation`, `create_claim`, `decide`, `transition_claim`, `detect_contradictions`, `add_claim_relation`, `transition_contradiction`, `render_wiki` | every check is made outside the transaction that relies on it; two promotions of rival claims; two renderers | no two claims supported that contradicted each other when judged, streams the reducers accept, a page of the present that never goes back |
| Improvement proposals `proposals/` | proposals with revisions, reviews, a queue; a stream each | `create_from_weakness`, `transition`, `record_review`, `enqueue` | two reviewers of one revision, death between review and revision, stale writers | an approval that was given by its reviewer for exactly this revision |
| Controlled changes `changes/` | experiments with revisions, isolations, candidates, promotion reviews, bundles, receipts | `request_experiment`, `transition`, `prepare_isolation`, `capture_candidate`, `approve_promotion`, `promote_governed_revision`, `record_rollback` | the intake against racing reviewers, objects passed by callers and never looked up, the destination changed before the receipt is recorded | experiments only on approved revisions, receipts that are true of the destination |
| Experience, weakness mining `experience/`, `weakness/` | graphs, findings and their states | compile, mine | compilation of a stream that grows | findings rest on the streams they cite |
| Routing, skills, strategies `routing/`, `skills/`, `strategies/` | versions, health and circuit states | route, publish, execute | a stale route, publication during execution | only published versions run, circuit states are legal |
| Learned components `learned_*.py`, `learning/` | evidence ledgers, quarantine, promotion | record, quarantine, promote | promotion on stale or quarantined evidence | promotion only on sealed evidence |
| Coding vertical `coding/` | workspaces and patches; mostly task data | run, patch, roll back | failure between patch and verification | a workspace is verified or restored |

The components interact as follows. The controller calls planning, model execution, the
tool plane and verification directly and waits for each; it shares no memory with them.
Each appends to streams of its own (`model_call`, `tool_call`, verification) and the
controller to the `task_run` stream, all through `EventStorePort.append` with an expected
version. An approval provider is the one in-memory object that concurrent tool calls
share. Recovery reads the streams afterwards and decides from their events alone what
happened. The governed planes (memory, semantic memory, proposals, changes) keep their
authoritative rows in tables of their own, changed by SQL functions that compare a
revision, and announce each change in a stream afterwards; proposals feed the controlled
changes through the recorded reviews, and a promotion appends to a destination behind a
port. `PROJECT.json` lists all components, the ones that are not modelled too, and the
hazards, each at its line.

## 2. Modules

| Module | Models | Role |
|---|---|---|
| `EventStore` | `EventStorePort` | abstract: what an event store promises |
| `PostgresEventStore` | the adapter, statement by statement | detailed; implements `EventStore` |
| `Controller` | `start`, `cancel`, `continue_run`, ledger, scheduler, token | detailed |
| `ControllerVerification` | one pass of `verify` with its journal and the acceptance policy | detailed |
| `ChildCall` | what `classify_child_call` lets recovery conclude | abstract |
| `ModelExecution` | one model call, `execute` or `stream` | detailed; implements `ChildCall` |
| `ToolExecution` | concurrent tool calls and the approval providers | detailed; implements `ChildCall` |
| `GovernedAggregate` | what every governed plane promises: a history of legal revisions and a journal that tells it in order and may lag | abstract |
| `MemoryPlane` | the memory plane | detailed; implements `GovernedAggregate` |
| `SemanticMemory` | claims, contradictions, observations, relations and the Wiki page | detailed; implements `GovernedAggregate` |
| `Proposals` | the lifecycle and the reviews of harness proposals | detailed |
| `Changes` | the controlled changes, composed with `Proposals` (EXTENDS) | composition |
| `MC...` | constants of the runs | |
| `...Proofs` | inductive invariants, lemmas, theorems | TLAPS |

Definitions whose comment starts with "Fault:" are wrong variants of the definition that
follows them. No specification uses them; they document which mistake a property excludes.

### PostgresEventStore

A writer is a caller of `append` with its session. `BeginAppend` is the validation of the
batch and BEGIN; `InsertStream` is INSERT ... ON CONFLICT DO NOTHING on `event_streams`;
`Claim` the conditional UPDATE of the stream row; `InsertEvent` one INSERT of an event,
which draws a `global_position`; `Commit`, `Rollback` and `LoseSession` end the
transaction, the last with the commit done or not. Row locks and unique keys block as READ
COMMITTED does (`VisibleRow`, `InsertBlockedBy`; PostgreSQL itself is external), and
`DetectDeadlock` is its deadlock detection. `ReplayNext` and `ReadAllNext` are a reader of
one stream and of the whole log whose pages interleave with all that. Hashing, the event
catalog and JSON are left out: they are functions of one event.

### Controller

Each call of `start`, `cancel` and `continue_run` is a process. Its `pc` names the line
group it is at, `version` the version it will pass to the next append, `view` the state of
its state machine, `work` the local variables of `start`. The task-run stream is kept as
what its readers fold it to, one record that `Reduce` updates per event: the state and
whether `replay` accepts the sequence, the counts of revisions, tokens and consumptions,
the steps decided, open and done. `AppendBy` is the append at the expected version: it
adds the event, or the call dies of the version conflict. Calls to the outside
(`Represent`, `CreatePlan`, `Execute`, `Verify`, `RevisePlan`, `Revise`) are steps of their
own, so everything may happen while they wait, and may answer anything their contract
admits. `Fail` is a process that dies, a lost acknowledgement or an exception, at any
step; none of the three operations catches anything.

The token and cost meters of the ledger are left out because nothing records them, the
clarification meter because one clarification is all `continue_run` allows, and the
elapsed and verification seconds are one flag, `elapsed`, that may be raised at any time.

### ControllerVerification

One pass over the criteria: `Require`, `Start`, `Run`, the completion or failure of the
journal and, with any append lost, committed or not, what the caller makes of it; then the
classification and decision of `AcceptancePolicyService`. In `Controller` the same pass is
the single step `Verify`, which may decide anything: what holds of the controller holds
whatever the verifiers say. Scores and weights of optional requirements are left out, and
so is the refusal of two results with one id: ids are drawn afresh for each execution.

### ModelExecution and ToolExecution

Both follow their service await by await. An append is acknowledged or raises, with its
event committed or not; cancellation may arrive at every await, and what it leads to
depends on which handler encloses that await; `Die` is a process that stops, an exception
outside the service's hierarchy, or the consumer of a stream who abandons it. In
`ModelExecution` the provider answers, fails in a retryable or permanent way or runs into
its timeout. In `ToolExecution` any number of calls share one approval provider of each
of the three kinds; `Evaluate` is the policy engine; an approval may expire at any time.
A tool raises, is late or returns a result, whose own status may be completed or failed
(`Results`): `ToolEventService.completed` journals both as `completed`, so the event means
that the tool returned, and `TerminalEventsTrue` says no more than that.
Tool id and version are one value, as are arguments and their hash. The configurations
without an event service are left out: they leave no stream to say anything about.

`ChildCall` is what the two have in common for recovery: the class of a stream only moves
forward, and the outside is touched only while the class is `uncertain`. So a call that is
`not_started` or `safe_to_reevaluate` has not been made, and a `terminal` one is never
made again, however its process ended.

### MemoryPlane

A worker is a caller of a service. `ingest` begins a batch of creates; `create_lookup`,
`create_insert`, `probe_stream` and `announce_creation` are the statements of one create:
the lookup of the idempotency key, the insert, the question to the stream and the append of
`memory.item_created`. `lifecycle_request`, `check_source`, `read_current`,
`append_revision` and `journal_transition` are the four lifecycle operations; the
compare-and-set is on the revision the caller quoted, the status was judged before. `embed`
is one step because revisions are immutable; `retrieve` reads a page, `record_access` hands
it out. A crashed ingestion is run again (`resume`), other crashed requests are lost.
Contents, scopes and ranking are left out, as are requests a write policy refuses, which
leave no trace. Callers quote revisions they have read.

### SemanticMemory

Claims, contradictions and observations share `history` and `streams`. Each reading of
`transition_claim` and `transition_contradiction` (`read`, `successor`, `critical`,
`conflict`) is a step, then the transaction (`append`) and the event (`append_event`). The
promotion gate is `promote`, `snapshot`, `decide`. Each revision has a content of its own,
which stands for object, interval and evidence; a transition may state another one than the
revision before it. Which contents contradict each other or state the same are constant
relations. `detect_contradictions` judges the stored revision and not the one that is to be
written, as the code does. The Wiki is one page, a sequence of the claim revisions it cites:
a render shows the claims as they are now (`now`), or as of an earlier time, and then cites
any revisions they had. Callers quote revisions that exist. Extraction from text,
re-evaluation of evidence and the access rows of queries are left out.

### Proposals and Changes

`Proposals` follows `create_from_weakness`, `transition` and `record_review` from one
transaction to the next; a reading is merged with the check it serves when nothing the
call does lies between them. Every call has its own `created_at`, so repeating a
record under the same id is a conflict, as the SQL functions have it. An event append may
fail (`emit`), a caller may die (`crash`). `Changes` adds engineers to the same state: they
resolve approved revisions, move experiments, record candidates and promotion reviews, and
promote. The service compares the candidates, reviews and receipts it is given with each
other and looks none of them up, so callers may pass any; the database refuses the receipt
of an unrecorded review, and a promotion review, a bundle or a rollback of an experiment
that does not exist. The destination behind `GovernedDestinationPort` is external: it
appends and returns the revision it had and the one it has, or refuses. That it compares the
expected revision is not assumed. The review queue, manifests, access records, the evaluation matrix and the
contents of events are left out; a Tier 3 assessment is never eligible, any other may be.

## 3. Runs

| Run | Question | Bounds |
|---|---|---|
| `store_races` | Do concurrent appends, failures and readers keep the promises of the store, does the adapter implement the port, and does every append end, deadlocks included? | 2 writers, 2 streams, 4 event ids, batches of 1 and 2 (some with crossing ids, some malformed), expected versions 0 and 1, 3 appends |
| `controller_races` | What do two starts, a cancel and two continuations do to one run? | 3 plans of up to 3 steps, 2 repairs, one failing call |
| `controller_repair` | Is a run through repair cycles clean and within its budget, and does presenting the token resume one that waits? | 1 runner, 2 holders of the token, 3 repairs, plans that drop and add steps, one failure |
| `controller_ends` | Does a started run end, its runner dead or not? | 1 runner, 1 owner who cancels, one failure |
| `verification` | Does acceptance rest on evidence in the journal? | 4 criteria on 3 verifiers, 3 calls |
| `model_calls` | Is the journal of a model call true, and is a call never repeated? | 3 attempts, the default |
| `tool_calls` | Does nothing run without authority, and may recovery trust the stream? | 3 calls, 2 tasks, each approval provider, 3 preconfigured decisions |
| `memory` | Do rows and streams stay in step when workers race and die, and is every item journalled? | 2 memories created together or alone, 2 workers, 3 requests, 3 revisions, 1 crash |
| `memory_replay` | finding, below | 1 memory, 2 workers, 2 requests |
| `semantic` | Do checks made outside the transaction suffice? | 2 claims, one of which may be stated so that it contradicts the other or not, 1 critical contradiction, 1 observation, 1 page, 2 workers, 3 requests, 1 crash |
| `pipeline` | Do approvals and experiments rest on the exact record before them, and are receipts true of the destination? | 1 proposal, 2 operators, 2 engineers, 2 approvers, 2 calls of operators and 3 of engineers, 1 crash |
| `pipeline_approvals` | finding, below | as above, 1 call of an engineer |

Why the bounds are enough. Every conflict in this system is between two appends to one
stream, so two writers of each kind reach it, and a third append shows what follows. Two
streams are needed for the deadlock and for a global order that differs from the order in
a stream. Three steps are the least for a plan that drops one completed step, keeps
another and adds a third; two repairs bring a dropped step back. One failing call is enough
because a call that died has no effect but its absence, which the other calls also see when
it merely waits. Three attempts have a first, a middle and a last one. Three tool calls are
two that compete for one approval and one that the policy denies although approved. In the
governed planes two requests race and a third shows what follows; two claims are the least
that can contradict each other; three calls of engineers are enough for a second review and
two promotions that race, and so for two receipts, because a start state may already hold an
evaluated experiment with a candidate and one promotion review. Workers,
operators, engineers and approvers are interchangeable where a run declares symmetry; runs
with liveness properties declare none. All
bounds are constants or guards (`MaxAppends`, `MaxVersion`, `MaxFails`, `MaxIterations`,
`Budget`, `MaxAttempts`, `MaxRequests`, `MaxCrashes`, `MaxRevisions`, `MaxChanges`,
`MaxStages`), and the theorems hold for all of their values.

`CHECK_DEADLOCK FALSE` is in the configurations because calls return: a state in which all
have returned is the normal end. That nothing hangs before that is what the liveness
properties say.

Fairness. `store_races` assumes that a session which can take its next statement takes
it, and that PostgreSQL breaks deadlocks. `FairSpec` of the controller assumes that running
calls go on and that an owner who wants to cancel or continue calls again; nothing says
that time runs out or that a call fails. `model_calls` assumes that the event loop goes on
with the call; the wait for a provider ends because `asyncio.timeout` encloses it. `memory`
assumes that a worker which has begun goes on and that a crashed ingestion is run again,
which is what `ensure_item_created` says the repair depends on.

### Where code and documents disagree

Two runs end in a violation. Each is the shortest history that shows it.

- `memory_replay`: a create that died before its event and is run again after the memory
  has moved on announces revision one together with the record as it is by then.
  `MemoryStreamReducer` of the same package refuses that stream ("memory stream creation
  must contain revision one"), although `_creation_revision` means to prevent exactly this.
- `pipeline_approvals`: two reviewers approve one staged revision; both reviews are
  recorded, one revision is approved, and `ApprovedProposalIntake.resolve` refuses it for
  ever ("proposal requires one exact immutable experiment approval").

Nine more are stated as properties in their modules, with the history that breaks them in
the comment, and are in no run:

- `Controller!ExhaustionIsExplicit`: a budget that refuses to go on during a repair ends the
  run as `failed`, not `budget_exhausted` (docs/adr/0026: "Exhaustion is an explicit durable
  controller outcome").
- `Controller!CompletedStepsStayDone`: a step that was completed, dropped by one repair plan
  and brought back by the next is executed again (docs/architecture/controller-planning.md:
  the scheduler "never reschedules completed steps").
- `ControllerVerification!RequiredCriteriaResolved`: results are matched by verifier, so a
  required criterion without a result of its own passes on another's
  (docs/sprints/sprint-07/report.md).
- `ControllerVerification!VerifierCallsWithinBudget`: an execution whose verifier raised is
  not counted as a call (same report).
- `ToolExecution!OneTerminalEvent`: `completed` committed without acknowledgement is
  followed by `failed` in the same stream (docs/architecture/tool-event-persistence.md: "one
  terminal event"). `TerminalEventsTrue` and `ImplementsChildCall` hold nevertheless: the
  tool did return, and the caller, who got an exception, was given no result.
- `SemanticMemory!WikiStreamReplays`: the event of a page is appended at whatever version
  its stream has, so a lost or late one leaves a stream `SemanticWikiStreamReducer` refuses.
- `SemanticMemory!NoConflictingSupport`: the conflict check judges the stored revision, so a
  support that restates its claim may contradict a supported one
  (docs/architecture/temporal-semantic-memory.md: "no deterministic unresolved conflict").
- `Changes!DestinationIsReviewed`: a promotion under a review that was never recorded
  changes the destination before the database refuses its receipt (docs/adr/0071: "after
  exact, separate promotion approval").
- `Changes!RollbacksArePromotions`: `record_rollback` takes the revision it says it restored
  from a receipt nobody looks up (docs/architecture/controlled-change-management.md:
  "Rollback returns the exact predecessor").

One more is visible in a property that holds: `CallsBounded` allows one provider call more
than the budget, because the ledger neither checks nor records the call of `create_plan`.

## 4. Proofs

All theorems are of the form `Spec => []P`, `Spec => [][A]_vars` or `Spec => Abstract!Spec`
and hold for every value of the constants that satisfies the named assumption.

| Module | Assumption | Theorems |
|---|---|---|
| `PostgresEventStoreProofs` | `StoreAssumption`: batches are sequences of envelopes, and the null values are no values | `TypeCorrect`, `Contiguity`, `IdsStoredOnce`, `NoVersionCollision`, `PositionOrder`, `ReplayGapFree`, `CursorOrder`, `Refinement` |
| `ControllerProofs` | `ControllerAssumption`: plans are closed under dependencies, budgets are positive, call sets disjoint | `TypeCorrect`, `ReplayAlwaysSucceeds`, `NothingFollowsTheEnd`, `OneDriver`, `TokenOnce`, `LegalChanges`; `DecidedBeforeExecuted`, `LateCallsBounded`, `EndsClean`, `BudgetHolds`, `SchedulerSafe` |
| `ControllerVerificationProofs` | `VerificationAssumption` | `TypeCorrect`, `VerdictsJournalled`, `Evidenced` |
| `ModelExecutionProofs` | `RetryAssumption`: at least one attempt | `TypeCorrect`, `AttemptsAnnounced`, `TerminalTruth`, `HeardOnce`, `NoRepeat`, `Refinement` |
| `ToolExecutionProofs` | `ToolAssumption`: preconfigured decisions have ids of their own | `TypeCorrect`, `Authority`, `SingleUse`, `TerminalTruth`, `Refinement` |
| `MemoryPlaneProofs` | `MemoryAssumption`: batches are not empty, the null value is no memory | `TypeCorrect`, `RevisionsNumbered`, `LagReported`, `Audited`, `Refinement` |
| `SemanticMemoryProofs` | `SemanticAssumption`: contradicting is symmetric, what is no claim has one content, items start in a status their record admits | `TypeCorrect`, `RivalsApart`, `StreamsReplay`, `WikiMonotone`, `Refinement` |
| `ChangesProofs` | `ProposalsAssumption`, `ChangesAssumption`, `NoExperimentAssumption`: tiers are 0 to 3, the null values are no values, the bound on stages admits a whole lifecycle | `TypeCorrect`, `ApprovalsReviewed`, `ExperimentsApproved`, `ReceiptsMatch`, `LifecyclesLegal` |

The arguments.

*Event store.* No property is inductive alone: between `Claim` and `Commit` the new version
and the events exist only in a transaction. The invariant ties them to the row lock. Who
has claimed a stream holds its row; nobody else has an uncommitted row of that stream; the
holder's uncommitted events are the versions right after the committed ones, at positions
above all committed positions of the stream. Commit then extends a contiguous stream, and
every other way to end leaves it alone. The last part of it also gives the readers their
order although positions are drawn before the commit.

*Controller.* A call believes things about the stream (that the run is in the state `view`,
that no token was consumed, that no other runner started) which other calls make false at
any time. The invariant says that each belief is true *while the version the call expects
is the stream's version*. An append either happens at that version, when the belief is true
and the event fits, or makes the call die. A step of another call advances the version, so
it never has to preserve anybody's belief. This one idea yields replay, the legal
transitions, the single driver, the end and the token.

*Controller, the second invariant* (`CallsInv`, inductive given the first). Since only one
start call gets past its first append, the place it has reached in its code and its ledger
can be tied to the stream. Exactly the step it executes is open, and its decision is the
last one (`Journalled`): hence `WriteAhead` and `CleanEnd`. Its ledger equals the calls
made, except that it misses the plan call (`Metered`); the ledger was asked before each
unit is spent and nothing else spends in between (`Sound`), and the provider call of a
continuation is paid for by the consumption it follows (`Within`, `RevisionPaid`): hence
`CallsBounded`. When the driver dies the counts stay bounded by the budget (`Counted`). A
call made after the end leaves its caller at a place from which it can only append, and
what it expects is no longer the version of the stream (`LateOnce`): hence `EndStopsCalls`.
`SchedulerNeverRaises` needs only the locals, but at every place and not just where the
scheduler is called, because a repair plan changes them elsewhere (`Sound`).

*Verification.* The journal of the criteria not reached yet is empty and a result that
counts has a completed stream (`Fresh`); the decision then follows by the classification.

*Model call.* The position in the attempt loop, the attempt number and the numbers of
`started`, `retried` and provider calls advance together (`AttemptsInStep`); an answer or a
cancellation leaves only the positions from which no call is made (`EndsInStep`); an
attempt that is repeated has emitted nothing (`Unheard`).

*Tool calls.* Every call's position, stream and approval are in step (`InStep`), and the
decision it acts on fits it and is its own unless it was made for the task
(`ApprovalFits`). What the tool answered decides where a call may be and which events its
stream may end with, also when an append committed without being acknowledged. A step of one call touches no other call's part (`LocalStep`), so the
proof is about one call, although the decisions are shared.

*Memory plane.* A worker that is about to append has quoted a revision not newer than the
one whose status it checked (`JobFits`: `expected <= read`). The compare-and-set succeeds
only if `expected` is current, so the status was judged on the current revision although it
was read outside the transaction. Streams tell a prefix of the rows (`TellsPrefix`).
`LagIsReported` asks for one worker who still has an event to append, which is not
inductive: that worker may finish and leave a second untold revision behind. `LagOwned` says
that every untold revision has a worker of its own, unless somebody was told.

*Semantic memory.* `JudgedSupportsAgree` looks at committed rows, but the decision falls
before: a worker that has passed the conflict check will support its claim unless that claim
changes first. `Won` covers both: the claim is supported with the content that was judged,
or about to be. No two that have won contradict each other (`OneWinner`). The check of the
second sees the first because a rival blocks from the moment it is active, not only when it
is supported; a claim that is restated in the revision that supports it never counts as
having won. Streams tell a prefix of the rows, each event with the status
before it; the citations of a renderer of the present are not older than those of the page
it read (`JobFits`, `WikiCites`), and its compare-and-set fails if the page has changed since.

*Proposals and changes.* A status has its place in a history (`Positions`), so a lifecycle
has a last revision. An operator about to append an approval has its review recorded for
exactly the revision it quotes (`OperatorFits`), and histories and reviews only grow, so a
race or a death can leave a review without a revision and never the reverse. An engineer
about to insert an experiment has resolved an approved revision, and revisions do not
change. An engineer about to write a receipt owns the revision of the destination it names:
its review is there, no receipt names it yet, and no two engineers have the same one
(`EngineerFits`, `PendingDistinct`). Without the last part two receipts could be written for
one revision. That the review is recorded is asked by the database at the receipt itself,
and reviews are never removed.

TLC checked each of these invariants on the instances of the runs before it was proved.

*Refinements.* The initial states map to initial states, and each step is a step of the
abstract specification or leaves its variables alone; `ClassStep` says what an append may
do to the class of a stream.

Only model-checked: the liveness properties (`AppendsTerminate`, `EveryRunEnds`,
`ClarificationResumes`, `EveryCallEnds`, `EveryItemJournalled`), since the proof system does
not reason about fairness; and the two runs that end in a violation, whose histories TLC
exhibits. Every invariant, action property and refinement of a passing run is a theorem.

## 5. What is not modelled, and the plan

Not modelled because there is nothing for a model checker in it: event schemas and their
migrations, provider adapters, context assembly and ranking, the corpus factory,
benchmarks and campaigns, telemetry and configuration, scientific solvers and the vendored
LightAgent. By far the largest part of the source is of this kind: task specifications of
the coding campaigns (`coding/reality_task_specs*.py`), scripts and reports, which are data
and sequential I/O. The hazards without a property have their reason in `PROJECT.json`.

Reading the code showed more gaps about which no document promises anything; they are
stated here and have no property. The ledger's token and cost budgets are never charged. A
caller of a memory transition who quotes a revision it has not read yet, one above the
current, may pass the compare-and-set with a status and a content read one revision
earlier. A memory cited as evidence may be retracted between the check and the promotion.
Two claim relations, each acyclic when checked, may close a cycle together; the promotion
gate looks again. A claim or an observation whose creation event is lost never gets one,
because a repeat returns what it finds. Two proposals of one weakness may pass the limit
check together; a proposal whose caller dies after the insert stays `generated`, because a
repeat returns it. A queue entry keeps the status its proposal had when it was enqueued.

Proofs left: the safety halves of the liveness properties, that is, what each step of the
argument for them keeps (a measure that no step raises: the attempts left of a model call,
the budget left of a run), so that only the appeal to fairness stays with TLC.

Left to model, in this order: the artifact store (content-addressed writes over temporary
files and rename), routing, skills and strategies (circuit states, publication against
execution in progress), the learned components' evidence and quarantine, the restoration
of coding workspaces, and the composition of the controller with `ModelExecution` and
`ToolExecution` over one store. Most of them are governed aggregates again and would
instantiate `GovernedAggregate`.
