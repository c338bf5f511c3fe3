--------------------------- MODULE ToolExecution ----------------------------
(***************************************************************************)
(* ToolExecutionService.execute: any number of tool calls, each with its   *)
(* own tool_call stream, that share an approval provider.  Policy, the     *)
(* approval protocol, the audit events and the tool run itself are steps   *)
(* between which the calls interleave.  An append may fail with its event  *)
(* committed or not, a call may be cancelled at any await, the process may *)
(* die and an approval may expire.                                         *)
(***************************************************************************)
EXTENDS Integers

CONSTANTS
  Calls,                \* tool calls; also the id of the approval each asks for
  Tasks, Tools, Args,
  Task, Tool, Arg,      \* task run, tool and arguments of each call
  InScope,              \* calls whose path argument is absent or inside a root
  Enabled,              \* tools the policy engine has enabled
  Sandboxed,            \* tools that run in the sandbox
  Risk,                 \* risk level of each tool
  Preconfigured,        \* decisions an approval provider may start with
  AnyArgs, NoApproval

Providers == {"deny_all", "preconfigured", "console"}
DecisionTypes == {"allow_once", "allow_for_task", "deny", "deny_and_block_rule"}
PreconfiguredIds == {d.id : d \in Preconfigured}

(* An ApprovalDecision.                                                    *)
Decision == [id : Calls \cup PreconfiguredIds, decision : DecisionTypes, task : Tasks,
             tool : Tools, args : Args \cup {AnyArgs}, expires : BOOLEAN]

ASSUME ToolAssumption ==
  /\ Task \in [Calls -> Tasks] /\ Tool \in [Calls -> Tools] /\ Arg \in [Calls -> Args]
  /\ Risk \in [Tools -> {"R0", "R1", "R2", "R3"}]
  /\ Preconfigured \subseteq Decision
  /\ PreconfiguredIds \cap Calls = {}
  /\ \A d, e \in Preconfigured : d.id = e.id => d = e
  /\ AnyArgs \notin Args
  /\ NoApproval \notin Decision

VARIABLES
  provider,    \* which approval provider is configured
  decisions,   \* PreconfiguredApprovalProvider._decisions, by approval_id
  pc,
  journal,     \* per call: its tool_call stream as readers see it
  approval,    \* per call: the decision it acts on
  runs,        \* per call: how often the tool was invoked
  answer,      \* per call: what became of tool.execute
  expired      \* the decisions that expire have expired

vars == <<provider, decisions, pc, journal, approval, runs, answer, expired>>

TerminalEvents == {"completed", "failed", "timed_out", "denied"}
EventTypes == {"none", "requested", "authorized", "started"} \cup TerminalEvents
Journal == [last : EventTypes, authorized : BOOLEAN, started : BOOLEAN,
            completed : BOOLEAN, terminals : Nat]

(* The status of the result a tool returned; a sandboxed program that      *)
(* exits with an error is a result too, a failed one.                      *)
Results == {"completed", "failed"}
ToolAnswers == Results \cup {"none", "error", "late"}
Ended == {"returned", "refused", "raised"}
PCs == {"begin", "request", "deny", "lookup", "ask", "record", "authorize", "start",
        "run", "wait", "complete", "fail", "time_out"} \cup Ended

TypeOK ==
  /\ provider \in Providers
  /\ decisions \subseteq Decision
  /\ pc \in [Calls -> PCs]
  /\ journal \in [Calls -> Journal]
  /\ approval \in [Calls -> Decision \cup {NoApproval}]
  /\ runs \in [Calls -> Nat]
  /\ answer \in [Calls -> ToolAnswers]
  /\ expired \in BOOLEAN

Init ==
  /\ provider \in Providers
  /\ decisions = IF provider = "deny_all" THEN {} ELSE Preconfigured
  /\ pc = [c \in Calls |-> "begin"]
  /\ journal = [c \in Calls |->
       [last |-> "none", authorized |-> FALSE, started |-> FALSE,
        completed |-> FALSE, terminals |-> 0]]
  /\ approval = [c \in Calls |-> NoApproval]
  /\ runs = [c \in Calls |-> 0]
  /\ answer = [c \in Calls |-> "none"]
  /\ expired = FALSE
-----------------------------------------------------------------------------
(* ToolPolicyEngine.evaluate, in the order of its rules.                   *)
Evaluate(c) ==
  LET t == Tool[c] IN
  IF \/ t \notin Enabled
     \/ Risk[t] = "R3"
     \/ Risk[t] = "R1" /\ t \notin Sandboxed
     \/ c \notin InScope
    THEN "deny"
  ELSE IF Risk[t] = "R2" THEN "require_approval" ELSE "allow"

Go(c, next) == pc' = [pc EXCEPT ![c] = next]

(* ToolEventService._append for call c: one more event ...                 *)
Reduce(j, e) ==
  [last |-> e, authorized |-> j.authorized \/ e = "authorized",
   started |-> j.started \/ e = "started",
   completed |-> j.completed \/ e = "completed",
   terminals |-> IF e \in TerminalEvents THEN j.terminals + 1 ELSE j.terminals]
Appended(c, e) == journal' = [journal EXCEPT ![c] = Reduce(@, e)]

(* ... and the call goes on at next, or ToolPersistenceError takes it to   *)
(* handler, with the event committed or not.                               *)
Append(c, e, next, handler) ==
  \/ Appended(c, e) /\ Go(c, next)
  \/ (Appended(c, e) \/ UNCHANGED journal) /\ Go(c, handler)

Quiet == UNCHANGED <<provider, decisions, approval, runs, answer, expired>>

(* registry.require and validate_value may raise before anything is        *)
(* recorded.                                                               *)
Begin(c) ==
  /\ pc[c] = "begin"
  /\ \E next \in {"request", "raised"} : Go(c, next)
  /\ Quiet /\ UNCHANGED journal

Request(c) ==
  /\ pc[c] = "request"
  /\ Append(c, "requested",
            CASE Evaluate(c) = "deny" -> "deny"
              [] Evaluate(c) = "require_approval" -> "lookup"
              [] OTHER -> "authorize", "raised")
  /\ Quiet

(* Fault: an approval for one task run serves another.                     *)
ReusableInAnyTask(d, c) ==
  /\ d.decision = "allow_for_task" /\ d.tool = Tool[c]
  /\ d.args \in {AnyArgs, Arg[c]} /\ ~(d.expires /\ expired)

(* Fault: any decision that allowed the tool is reused.                    *)
ReusableOnce(d, c) ==
  /\ d.decision \in {"allow_once", "allow_for_task"} /\ d.task = Task[c] /\ d.tool = Tool[c]
  /\ d.args \in {AnyArgs, Arg[c]} /\ ~(d.expires /\ expired)

(* The filter of get_existing_task_approval.                               *)
Reusable(d, c) ==
  /\ d.decision = "allow_for_task" /\ d.task = Task[c] /\ d.tool = Tool[c]
  /\ d.args \in {AnyArgs, Arg[c]} /\ ~(d.expires /\ expired)

Lookup(c) ==
  /\ pc[c] = "lookup"
  /\ \/ \E d \in decisions : /\ Reusable(d, c)
                             /\ approval' = [approval EXCEPT ![c] = d]
                             /\ Go(c, "record")
     \/ /\ \A d \in decisions : ~Reusable(d, c)
        /\ Go(c, "ask") /\ UNCHANGED approval
  /\ UNCHANGED <<provider, decisions, journal, runs, answer, expired>>

(* request_approval: the id is fresh, so no preconfigured decision is      *)
(* found under it; only the console asks somebody.                         *)
Answers == IF provider = "console" THEN {"allow_once", "deny"} ELSE {"deny"}

Ask(c) ==
  /\ pc[c] = "ask"
  /\ \E reply \in Answers :
       approval' = [approval EXCEPT ![c] =
         [id |-> c, decision |-> reply, task |-> Task[c], tool |-> Tool[c],
          args |-> AnyArgs, expires |-> FALSE]]
  /\ Go(c, "record")
  /\ UNCHANGED <<provider, decisions, journal, runs, answer, expired>>

(* record_decision, and the branch on the decision.                        *)
Record(c) ==
  /\ pc[c] = "record"
  /\ decisions' = IF provider = "deny_all" THEN decisions
                  ELSE {d \in decisions : d.id # approval[c].id} \cup {approval[c]}
  /\ Go(c, IF approval[c].decision \in {"allow_once", "allow_for_task"}
             THEN "authorize" ELSE "deny")
  /\ UNCHANGED <<provider, journal, approval, runs, answer, expired>>

(* The policy's denial is a result, a refused approval an exception.       *)
Deny(c) ==
  /\ pc[c] = "deny"
  /\ Append(c, "denied", IF Evaluate(c) = "deny" THEN "refused" ELSE "raised", "raised")
  /\ Quiet

Authorize(c) ==
  /\ pc[c] = "authorize"
  /\ Append(c, "authorized", "start", "raised")
  /\ Quiet

(* Fault: the tool runs although started was not persisted.                *)
StartAnyway(c) ==
  /\ pc[c] = "start"
  /\ Append(c, "started", "run", "run")
  /\ Quiet

Start(c) ==
  /\ pc[c] = "start"
  /\ Append(c, "started", "run", "raised")
  /\ Quiet

(* tool.execute, under its timeout.                                        *)
Run(c) ==
  /\ pc[c] = "run"
  /\ runs' = [runs EXCEPT ![c] = @ + 1]
  /\ Go(c, "wait")
  /\ UNCHANGED <<provider, decisions, journal, approval, answer, expired>>

(* It returns a result of either status, raises a ToolPlaneError (so does  *)
(* validate_value of a bad result), or exceeds its time.                   *)
Answer(c) ==
  /\ pc[c] = "wait"
  /\ \E a \in ToolAnswers \ {"none"} :
       /\ answer' = [answer EXCEPT ![c] = a]
       /\ Go(c, CASE a \in Results -> "complete" [] a = "late" -> "time_out"
                  [] OTHER -> "fail")
  /\ UNCHANGED <<provider, decisions, journal, approval, runs, expired>>

(* Fault: the result is returned whether or not its event was persisted.   *)
CompleteAnyway(c) ==
  /\ pc[c] = "complete"
  /\ Append(c, "completed", "returned", "returned")
  /\ Quiet

(* completed is appended whatever the status of the result, and inside the *)
(* try: when that raises, the handler appends failed, at the version the   *)
(* stream then has.                                                        *)
Complete(c) ==
  /\ pc[c] = "complete"
  /\ Append(c, "completed", "returned", "fail")
  /\ Quiet

Fail(c) ==
  /\ pc[c] = "fail"
  /\ Append(c, "failed", "raised", "raised")
  /\ Quiet

TimeOut(c) ==
  /\ pc[c] = "time_out"
  /\ Append(c, "timed_out", "raised", "raised")
  /\ Quiet

(* The event being appended where the call stands, if any.                 *)
Pending(c) ==
  CASE pc[c] = "request" -> {"requested"} [] pc[c] = "deny" -> {"denied"}
    [] pc[c] = "authorize" -> {"authorized"} [] pc[c] = "start" -> {"started"}
    [] pc[c] = "complete" -> {"completed"} [] pc[c] = "fail" -> {"failed"}
    [] pc[c] = "time_out" -> {"timed_out"} [] OTHER -> {}

(* asyncio.CancelledError at an await: only the run and its completion     *)
(* have a handler, which appends failed.                                   *)
Cancel(c) ==
  /\ pc[c] \notin Ended \cup {"run"}
  /\ (\E e \in Pending(c) : Appended(c, e)) \/ UNCHANGED journal
  /\ Go(c, IF pc[c] \in {"wait", "complete"} THEN "fail" ELSE "raised")
  /\ Quiet

(* The process dies, or the tool raises what no handler expects.           *)
Die(c) ==
  /\ pc[c] \notin Ended
  /\ Go(c, "raised")
  /\ Quiet /\ UNCHANGED journal

Expire ==
  /\ ~expired /\ expired' = TRUE
  /\ UNCHANGED <<provider, decisions, pc, journal, approval, runs, answer>>

Next ==
  \/ \E c \in Calls :
       \/ Begin(c) \/ Request(c) \/ Lookup(c) \/ Ask(c) \/ Record(c) \/ Deny(c)
       \/ Authorize(c) \/ Start(c) \/ Run(c) \/ Answer(c) \/ Complete(c) \/ Fail(c)
       \/ TimeOut(c) \/ Cancel(c) \/ Die(c)
  \/ Expire

Spec == Init /\ [][Next]_vars
-----------------------------------------------------------------------------
(* classify_child_call                                                     *)
Class(c) ==
  IF journal[c].terminals > 0 THEN "terminal"
  ELSE IF journal[c].started THEN "uncertain"
  ELSE IF journal[c].last # "none" THEN "safe_to_reevaluate" ELSE "not_started"

Child == INSTANCE ChildCall WITH class <- [c \in Calls |-> Class(c)]

(* Recovery may rely on the class of a tool call's stream: a call it would *)
(* evaluate again has not run, and none that is terminal will.             *)
ImplementsChildCall == Child!Spec

(* A tool that ran was authorized in its stream; no approval overrode a    *)
(* denial of the policy; and one that needed an approval had one for this  *)
(* task run, tool and arguments.                                           *)
AuthorityRespected ==
  \A c \in Calls : runs[c] > 0 =>
    /\ journal[c].authorized /\ Evaluate(c) # "deny"
    /\ Evaluate(c) = "require_approval" =>
         /\ approval[c] # NoApproval
         /\ approval[c].decision \in {"allow_once", "allow_for_task"}
         /\ approval[c].task = Task[c] /\ approval[c].tool = Tool[c]
         /\ approval[c].args \in {AnyArgs, Arg[c]}

(* approval-model.md: "allow_once is single-use", also when calls of one   *)
(* task run wait for the operator at the same time.                        *)
AllowOnceIsSingleUse ==
  \A c, d \in Calls :
    c # d /\ approval[c] # NoApproval /\ approval[c] = approval[d]
      => approval[c].decision = "allow_for_task"

EndIsTrue(c) ==
  /\ journal[c].completed => answer[c] \in Results
  /\ journal[c].last = "timed_out" => answer[c] = "late"
  /\ journal[c].last = "denied" => runs[c] = 0
  /\ journal[c].last = "failed" => runs[c] = 1 /\ answer[c] # "late"
  /\ pc[c] = "returned" => journal[c].last = "completed" /\ journal[c].terminals = 1
  /\ pc[c] = "refused" => journal[c].last = "denied"
  /\ journal[c].terminals > 1 =>
       journal[c].last = "failed" /\ journal[c].completed /\ pc[c] = "raised"

(* The terminal events of a call tell what its tool did: completed that it *)
(* returned a valid result, of either status and also where failed follows *)
(* it, timed_out that it was late, denied that it never ran.  A caller     *)
(* holds a result only if completed is all the stream says; the one way to *)
(* two terminal events, completed then failed, is a caller that got an     *)
(* exception for a tool that had answered.                                 *)
TerminalEventsTrue == \A c \in Calls : EndIsTrue(c)

(* tool-event-persistence.md: "Requested, authorized or denied, started,   *)
(* and one terminal event are appended".  It does not hold: when the       *)
(* append of completed is committed but not acknowledged, the handler of   *)
(* the same try appends failed after it (TerminalEventsTrue says that this *)
(* is the only case).                                                      *)
OneTerminalEvent == \A c \in Calls : journal[c].terminals <= 1
=============================================================================
