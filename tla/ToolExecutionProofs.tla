------------------------ MODULE ToolExecutionProofs -------------------------
(***************************************************************************)
(* For any number of concurrent tool calls, tools, tasks and approvals: no *)
(* tool runs without authority, an allow_once decision serves one call,    *)
(* terminal events tell what the tool did, and recovery may classify a     *)
(* call by its stream.                                                     *)
(***************************************************************************)
EXTENDS ToolExecution, TLAPS

Allowed(c) ==
  /\ Evaluate(c) # "deny"
  /\ Evaluate(c) = "require_approval" =>
       /\ approval[c] # NoApproval
       /\ approval[c].decision \in {"allow_once", "allow_for_task"}

(* The decision a call acts on fits it, and one that is not for the whole  *)
(* task is the answer to its own request.                                  *)
ApprovalFits(c) ==
  approval[c] # NoApproval =>
    /\ approval[c].task = Task[c] /\ approval[c].tool = Tool[c]
    /\ approval[c].args \in {AnyArgs, Arg[c]}
    /\ approval[c].decision = "allow_for_task" \/ approval[c].id = c

(* Where a call stands and what its stream says advance together.          *)
Unrecorded == {"begin", "request"}
Undecided == {"lookup", "ask", "record", "deny", "authorize"}
Authorized == {"start", "run", "wait", "complete", "fail", "time_out"}
InStep(c) ==
  /\ pc[c] \in Unrecorded => journal[c].last = "none" /\ ~journal[c].started
  /\ pc[c] \in Undecided \cup Authorized => journal[c].last # "none"
  /\ journal[c].started => journal[c].last # "none"
  /\ pc[c] \notin Ended \cup {"fail"} =>
       /\ journal[c].terminals = 0 /\ ~journal[c].completed
       /\ journal[c].last \notin TerminalEvents
  /\ pc[c] \in Unrecorded \cup Undecided \cup {"start", "run", "refused"} => runs[c] = 0
  /\ pc[c] = "record" => approval[c] # NoApproval
  /\ pc[c] \in {"lookup", "ask", "record"} => Evaluate(c) = "require_approval"
  /\ pc[c] \in Authorized \cup {"authorize"} => Allowed(c)
  /\ pc[c] \in Authorized => journal[c].authorized
  /\ pc[c] = "run" => journal[c].started
  /\ pc[c] \in {"wait", "complete", "fail", "time_out"} => runs[c] = 1
  /\ pc[c] = "complete" => answer[c] \in Results
  /\ pc[c] = "time_out" => answer[c] = "late"
  /\ pc[c] = "wait" => answer[c] = "none"
  /\ pc[c] \in Unrecorded \cup Undecided \cup {"start", "run"} => answer[c] = "none"
  /\ pc[c] = "fail" =>
       /\ answer[c] # "late" /\ journal[c].last \notin TerminalEvents \ {"completed"}
       /\ journal[c].terminals <= 1
       /\ journal[c].terminals = 1 => journal[c].completed
  /\ EndIsTrue(c)
  /\ runs[c] > 0 => Allowed(c) /\ journal[c].authorized

(* The inductive invariant.                                                *)
Inv == TypeOK /\ \A c \in Calls : ApprovalFits(c) /\ InStep(c)
-----------------------------------------------------------------------------
(* One more event keeps the type of a stream.                              *)
LEMMA ReduceType ==
  ASSUME NEW j \in Journal, NEW e \in EventTypes
  PROVE  /\ Reduce(j, e) \in Journal
         /\ Reduce(j, e).last = e
         /\ Reduce(j, e).authorized = (j.authorized \/ e = "authorized")
         /\ Reduce(j, e).started = (j.started \/ e = "started")
         /\ Reduce(j, e).completed = (j.completed \/ e = "completed")
         /\ e \in TerminalEvents => Reduce(j, e).terminals = j.terminals + 1
         /\ e \notin TerminalEvents => Reduce(j, e).terminals = j.terminals
  <1>1. (IF e \in TerminalEvents THEN j.terminals + 1 ELSE j.terminals) \in Nat
    BY DEF Journal
  <1>2. /\ (j.authorized \/ e = "authorized") \in BOOLEAN
        /\ (j.started \/ e = "started") \in BOOLEAN
        /\ (j.completed \/ e = "completed") \in BOOLEAN
    BY Zenon
  <1> QED BY <1>1, <1>2 DEF Journal, Reduce

(* A step of call c leaves the other calls and what they know alone.       *)
LEMMA OthersKept ==
  ASSUME Inv, NEW c \in Calls, NEW d \in Calls \ {c},
         pc'[d] = pc[d], journal'[d] = journal[d], approval'[d] = approval[d], runs'[d] = runs[d],
         answer'[d] = answer[d]
  PROVE  ApprovalFits(d)' /\ InStep(d)'
  BY DEF Inv, ApprovalFits, InStep, EndIsTrue, Allowed, Evaluate

(* The step of call c keeps the invariant if it keeps c's own part.        *)
LEMMA LocalStep ==
  ASSUME Inv, NEW c \in Calls, TypeOK', ApprovalFits(c)', InStep(c)',
         \A d \in Calls \ {c} : pc'[d] = pc[d] /\ journal'[d] = journal[d],
         \A d \in Calls \ {c} : approval'[d] = approval[d] /\ runs'[d] = runs[d],
         \A d \in Calls \ {c} : answer'[d] = answer[d]
  PROVE  Inv'
  BY OthersKept DEF Inv

(* What every append of a call comes to.                                   *)
LEMMA AppendFacts ==
  ASSUME Inv, NEW c \in Calls, NEW e \in EventTypes, NEW next \in PCs, NEW handler \in PCs,
         Append(c, e, next, handler), Quiet
  PROVE  /\ TypeOK' /\ ApprovalFits(c)'
         /\ \A d \in Calls \ {c} : pc'[d] = pc[d] /\ journal'[d] = journal[d]
         /\ \A d \in Calls \ {c} : approval'[d] = approval[d] /\ runs'[d] = runs[d]
         /\ \A d \in Calls \ {c} : answer'[d] = answer[d]
         /\ \/ pc'[c] = next /\ journal'[c] = Reduce(journal[c], e)
            \/ pc'[c] = handler /\ journal'[c] = Reduce(journal[c], e)
            \/ pc'[c] = handler /\ journal'[c] = journal[c]
  <1>0. TypeOK /\ ApprovalFits(c)
    BY DEF Inv
  <1>1. Reduce(journal[c], e) \in Journal
    BY <1>0, ReduceType DEF TypeOK
  <1>2. journal' \in [Calls -> Journal] /\ pc' \in [Calls -> PCs]
    BY <1>0, <1>1 DEF TypeOK, Append, Appended, Go
  <1>3. TypeOK' /\ ApprovalFits(c)'
    BY <1>0, <1>2 DEF TypeOK, Quiet, ApprovalFits
  <1>4. \A d \in Calls \ {c} : pc'[d] = pc[d] /\ journal'[d] = journal[d]
    BY <1>0 DEF TypeOK, Append, Appended, Go
  <1>5. \/ pc'[c] = next /\ journal'[c] = Reduce(journal[c], e)
        \/ pc'[c] = handler /\ journal'[c] = Reduce(journal[c], e)
        \/ pc'[c] = handler /\ journal'[c] = journal[c]
    BY <1>0 DEF TypeOK, Append, Appended, Go
  <1> QED BY <1>3, <1>4, <1>5 DEF Quiet

(* What the stream of c says after an append.                              *)
LEMMA AfterAppend ==
  ASSUME Inv, NEW c \in Calls, NEW e \in EventTypes
  PROVE  /\ journal[c] \in Journal /\ journal[c].terminals \in Nat
         /\ Reduce(journal[c], e).last = e
         /\ Reduce(journal[c], e).authorized <=> (journal[c].authorized \/ e = "authorized")
         /\ Reduce(journal[c], e).started <=> (journal[c].started \/ e = "started")
         /\ Reduce(journal[c], e).completed <=> (journal[c].completed \/ e = "completed")
         /\ e \in TerminalEvents => Reduce(journal[c], e).terminals = journal[c].terminals + 1
         /\ e \notin TerminalEvents => Reduce(journal[c], e).terminals = journal[c].terminals
  BY ReduceType DEF Inv, TypeOK, Journal
-----------------------------------------------------------------------------
(* The invariant holds initially.                                          *)
LEMMA InvInit == Init => Inv
  <1> SUFFICES ASSUME Init PROVE Inv
    OBVIOUS
  <1>1. [last |-> "none", authorized |-> FALSE, started |-> FALSE,
         completed |-> FALSE, terminals |-> 0] \in Journal
    BY DEF Journal, EventTypes
  <1>2. expired \in BOOLEAN
    BY Zenon DEF Init
  <1>3. TypeOK
    BY <1>1, <1>2, ToolAssumption DEF Init, TypeOK, PCs, ToolAnswers
  <1>4. ASSUME NEW c \in Calls PROVE ApprovalFits(c) /\ InStep(c)
    BY <1>4 DEF Init, ApprovalFits, InStep, EndIsTrue, Unrecorded, Undecided, Authorized, Ended,
                TerminalEvents
  <1> QED BY <1>3, <1>4 DEF Inv

(* The steps of a call that append an event.                               *)
Appends(c) ==
  Request(c) \/ Deny(c) \/ Authorize(c) \/ Start(c) \/ Complete(c) \/ Fail(c) \/ TimeOut(c)

(* Every step of a call that appends keeps the invariant.                  *)
LEMMA AppendsKeepInv ==
  ASSUME Inv, NEW c \in Calls, Appends(c)
  PROVE  Inv'
  <1>0. InStep(c) /\ UNCHANGED <<approval, runs, answer>>
    BY DEF Inv, Appends, Request, Deny, Authorize, Start, Complete, Fail, TimeOut, Quiet
  <1>e. Evaluate(c)' = Evaluate(c) /\ (Allowed(c)' <=> Allowed(c))
    BY <1>0 DEF Evaluate, Allowed
  <1> USE DEF InStep, EndIsTrue, Unrecorded, Undecided, Authorized, Ended, TerminalEvents, Results
  <1>1. CASE Request(c)
    <2> DEFINE next == CASE Evaluate(c) = "deny" -> "deny"
                         [] Evaluate(c) = "require_approval" -> "lookup"
                         [] OTHER -> "authorize"
    <2>1. next \in PCs /\ "raised" \in PCs /\ "requested" \in EventTypes
      BY DEF PCs, EventTypes
    <2>2. Append(c, "requested", next, "raised") /\ Quiet
      BY <1>1 DEF Request
    <2>3. \/ pc'[c] = next /\ journal'[c] = Reduce(journal[c], "requested")
          \/ pc'[c] = "raised" /\ journal'[c] \in {journal[c], Reduce(journal[c], "requested")}
      BY <2>1, <2>2, AppendFacts
    <2>4. InStep(c)'
      BY <1>0, <1>e, <1>1, <2>1, <2>3, AfterAppend DEF Request, Allowed
    <2> QED BY <2>1, <2>2, <2>4, AppendFacts, LocalStep
  <1>2. CASE Deny(c)
    <2> DEFINE next == IF Evaluate(c) = "deny" THEN "refused" ELSE "raised"
    <2>1. next \in PCs /\ "raised" \in PCs /\ "denied" \in EventTypes
      BY DEF PCs, EventTypes
    <2>2. Append(c, "denied", next, "raised") /\ Quiet
      BY <1>2 DEF Deny
    <2>3. \/ pc'[c] = next /\ journal'[c] = Reduce(journal[c], "denied")
          \/ pc'[c] = "raised" /\ journal'[c] \in {journal[c], Reduce(journal[c], "denied")}
      BY <2>1, <2>2, AppendFacts
    <2>4. InStep(c)'
      BY <1>0, <1>e, <1>2, <2>1, <2>3, AfterAppend DEF Deny
    <2> QED BY <2>1, <2>2, <2>4, AppendFacts, LocalStep
  <1>3. CASE Authorize(c)
    <2>1. "start" \in PCs /\ "raised" \in PCs /\ "authorized" \in EventTypes
      BY DEF PCs, EventTypes
    <2>2. Append(c, "authorized", "start", "raised") /\ Quiet
      BY <1>3 DEF Authorize
    <2>3. \/ pc'[c] = "start" /\ journal'[c] = Reduce(journal[c], "authorized")
          \/ pc'[c] = "raised" /\ journal'[c] \in {journal[c], Reduce(journal[c], "authorized")}
      BY <2>1, <2>2, AppendFacts
    <2>4. InStep(c)'
      BY <1>0, <1>e, <1>3, <2>1, <2>3, AfterAppend DEF Authorize
    <2> QED BY <2>1, <2>2, <2>4, AppendFacts, LocalStep
  <1>4. CASE Start(c)
    <2>1. "run" \in PCs /\ "raised" \in PCs /\ "started" \in EventTypes
      BY DEF PCs, EventTypes
    <2>2. Append(c, "started", "run", "raised") /\ Quiet
      BY <1>4 DEF Start
    <2>3. \/ pc'[c] = "run" /\ journal'[c] = Reduce(journal[c], "started")
          \/ pc'[c] = "raised" /\ journal'[c] \in {journal[c], Reduce(journal[c], "started")}
      BY <2>1, <2>2, AppendFacts
    <2>4. InStep(c)'
      BY <1>0, <1>e, <1>4, <2>1, <2>3, AfterAppend DEF Start
    <2> QED BY <2>1, <2>2, <2>4, AppendFacts, LocalStep
  <1>5. CASE Complete(c)
    <2>1. "returned" \in PCs /\ "fail" \in PCs /\ "completed" \in EventTypes
      BY DEF PCs, EventTypes
    <2>2. Append(c, "completed", "returned", "fail") /\ Quiet
      BY <1>5 DEF Complete
    <2>3. \/ pc'[c] = "returned" /\ journal'[c] = Reduce(journal[c], "completed")
          \/ pc'[c] = "fail" /\ journal'[c] \in {journal[c], Reduce(journal[c], "completed")}
      BY <2>1, <2>2, AppendFacts
    <2>4. InStep(c)'
      BY <1>0, <1>e, <1>5, <2>1, <2>3, AfterAppend DEF Complete
    <2> QED BY <2>1, <2>2, <2>4, AppendFacts, LocalStep
  <1>6. CASE Fail(c)
    <2>1. "raised" \in PCs /\ "failed" \in EventTypes
      BY DEF PCs, EventTypes
    <2>2. Append(c, "failed", "raised", "raised") /\ Quiet
      BY <1>6 DEF Fail
    <2>3. \/ pc'[c] = "raised" /\ journal'[c] = Reduce(journal[c], "failed")
          \/ pc'[c] = "raised" /\ journal'[c] \in {journal[c], Reduce(journal[c], "failed")}
      BY <2>1, <2>2, AppendFacts
    <2>4. InStep(c)'
      BY <1>0, <1>e, <1>6, <2>1, <2>3, AfterAppend DEF Fail
    <2> QED BY <2>1, <2>2, <2>4, AppendFacts, LocalStep
  <1>7. CASE TimeOut(c)
    <2>1. "raised" \in PCs /\ "timed_out" \in EventTypes
      BY DEF PCs, EventTypes
    <2>2. Append(c, "timed_out", "raised", "raised") /\ Quiet
      BY <1>7 DEF TimeOut
    <2>3. \/ pc'[c] = "raised" /\ journal'[c] = Reduce(journal[c], "timed_out")
          \/ pc'[c] = "raised" /\ journal'[c] \in {journal[c], Reduce(journal[c], "timed_out")}
      BY <2>1, <2>2, AppendFacts
    <2>4. InStep(c)'
      BY <1>0, <1>e, <1>7, <2>1, <2>3, AfterAppend DEF TimeOut
    <2> QED BY <2>1, <2>2, <2>4, AppendFacts, LocalStep
  <1> QED BY <1>1, <1>2, <1>3, <1>4, <1>5, <1>6, <1>7 DEF Appends

(* What a decision that the provider holds is.                             *)
LEMMA RecordType ==
  ASSUME TypeOK, NEW c \in Calls, NEW a \in {"allow_once", "deny"}
  PROVE  [id |-> c, decision |-> a, task |-> Task[c], tool |-> Tool[c],
          args |-> AnyArgs, expires |-> FALSE] \in Decision
  <1>1. FALSE \in BOOLEAN
    BY Zenon
  <1> QED BY <1>1, ToolAssumption DEF Decision, DecisionTypes

(* The steps of a call that append nothing, but for the tool run.          *)
LEMMA SilentStepsKeepInv ==
  ASSUME Inv, NEW c \in Calls,
         Begin(c) \/ Lookup(c) \/ Ask(c) \/ Record(c) \/ Run(c) \/ Answer(c) \/ Die(c)
  PROVE  Inv'
  <1>0. /\ TypeOK /\ InStep(c) /\ ApprovalFits(c) /\ journal' = journal
        /\ runs[c] \in Nat /\ answer[c] \in ToolAnswers
        /\ (Evaluate(c)' = Evaluate(c))
    BY DEF Inv, TypeOK, Begin, Lookup, Ask, Record, Run, Answer, Die, Quiet, Evaluate
  <1>f. \A d \in Calls \ {c} : pc'[d] = pc[d] /\ journal'[d] = journal[d]
    BY <1>0 DEF TypeOK, Begin, Lookup, Ask, Record, Run, Answer, Die, Go
  <1>g. /\ \A d \in Calls \ {c} : approval'[d] = approval[d] /\ runs'[d] = runs[d]
        /\ \A d \in Calls \ {c} : answer'[d] = answer[d]
    BY <1>0 DEF TypeOK, Begin, Lookup, Ask, Record, Run, Answer, Die, Quiet
  <1> SUFFICES TypeOK' /\ ApprovalFits(c)' /\ InStep(c)'
    BY <1>f, <1>g, LocalStep
  <1> USE DEF InStep, EndIsTrue, Unrecorded, Undecided, Authorized, Ended, ApprovalFits, Allowed,
              TerminalEvents, Results
  <1>1. CASE Begin(c)
    BY <1>0, <1>1 DEF Begin, Go, Quiet, TypeOK, PCs
  <1>2. CASE Lookup(c)
    <2>1. CASE UNCHANGED approval /\ Go(c, "ask")
      <3>1. pc[c] = "lookup" /\ pc'[c] = "ask" /\ runs' = runs /\ answer' = answer
        BY <1>0, <1>2, <2>1 DEF Lookup, Go, TypeOK
      <3>2. TypeOK'
        BY <1>0, <1>2, <2>1 DEF Lookup, Go, TypeOK, PCs
      <3>3. InStep(c)'
        BY <1>0, <2>1, <3>1
      <3> QED BY <1>0, <2>1, <3>2, <3>3
    <2>2. CASE \E d \in decisions : /\ Reusable(d, c)
                                   /\ approval' = [approval EXCEPT ![c] = d]
                                   /\ Go(c, "record")
      <3>1. PICK d \in decisions : /\ Reusable(d, c)
                                   /\ approval' = [approval EXCEPT ![c] = d]
                                   /\ Go(c, "record")
        BY <2>2
      <3>2. /\ d \in Decision /\ d # NoApproval /\ approval'[c] = d /\ pc'[c] = "record"
        BY <1>0, <3>1, ToolAssumption DEF TypeOK, Go
      <3>3. TypeOK'
        BY <1>0, <1>2, <3>1, <3>2 DEF Lookup, Go, TypeOK, PCs
      <3>4. ApprovalFits(c)'
        BY <3>1, <3>2 DEF Reusable
      <3>5. InStep(c)'
        BY <1>0, <1>2, <3>1, <3>2 DEF Lookup
      <3> QED BY <3>3, <3>4, <3>5
    <2> QED BY <1>2, <2>1, <2>2 DEF Lookup
  <1>3. CASE Ask(c)
    <2>1. PICK a \in {"allow_once", "deny"} :
            approval' = [approval EXCEPT ![c] =
              [id |-> c, decision |-> a, task |-> Task[c], tool |-> Tool[c],
               args |-> AnyArgs, expires |-> FALSE]]
      BY <1>3 DEF Ask, Answers
    <2>2. /\ approval'[c] \in Decision /\ approval' \in [Calls -> Decision \cup {NoApproval}]
          /\ approval'[c].task = Task[c] /\ approval'[c].tool = Tool[c]
          /\ approval'[c].args = AnyArgs /\ approval'[c].id = c
      BY <1>0, <2>1, RecordType DEF TypeOK
    <2>3. TypeOK'
      BY <1>0, <1>3, <2>2 DEF Ask, Go, TypeOK, PCs
    <2>4. pc[c] = "ask" /\ pc'[c] = "record" /\ runs' = runs /\ answer' = answer
      BY <1>0, <1>3 DEF Ask, Go, TypeOK
    <2>a. approval'[c] # NoApproval
      BY <2>2, ToolAssumption
    <2>5. InStep(c)'
      BY <1>0, <2>4, <2>a
    <2> QED BY <2>2, <2>3, <2>5
  <1>4. CASE Record(c)
    <2>1. approval[c] \in Decision
      BY <1>0, <1>4 DEF Record, TypeOK
    <2>2. decisions' \subseteq Decision
      BY <1>0, <1>4, <2>1 DEF Record, TypeOK
    <2>3. TypeOK'
      BY <1>0, <1>4, <2>2 DEF Record, Go, TypeOK, PCs
    <2>4. pc'[c] = "deny" \/ (/\ pc'[c] = "authorize"
                              /\ approval[c].decision \in {"allow_once", "allow_for_task"})
      BY <1>0, <1>4 DEF Record, Go, TypeOK
    <2> QED BY <1>0, <1>4, <2>3, <2>4 DEF Record
  <1>5. CASE Run(c)
    BY <1>0, <1>5 DEF Run, Go, TypeOK, PCs
  <1>6. CASE Answer(c)
    <2>1. PICK a \in ToolAnswers \ {"none"} :
            /\ answer' = [answer EXCEPT ![c] = a]
            /\ Go(c, CASE a \in Results -> "complete" [] a = "late" -> "time_out"
                       [] OTHER -> "fail")
      BY <1>6 DEF Answer
    <2>2. answer'[c] = a /\ pc[c] = "wait" /\ runs' = runs /\ approval' = approval
      BY <1>0, <1>6, <2>1 DEF Answer, TypeOK
    <2>3. \/ a \in Results /\ pc'[c] = "complete"
          \/ a = "late" /\ pc'[c] = "time_out"
          \/ a = "error" /\ pc'[c] = "fail"
      BY <1>0, <2>1 DEF Go, TypeOK, ToolAnswers
    <2>4. TypeOK'
      BY <1>0, <1>6, <2>1 DEF Answer, Go, TypeOK, PCs
    <2>5. InStep(c)' /\ ApprovalFits(c)'
      BY <1>0, <2>2, <2>3
    <2> QED BY <2>4, <2>5
  <1>7. CASE Die(c)
    BY <1>0, <1>7 DEF Die, Go, Quiet, TypeOK, PCs
  <1> QED BY <1>1, <1>2, <1>3, <1>4, <1>5, <1>6, <1>7

(* A cancelled call has appended the event it was appending, or has not.   *)
LEMMA CancelKeepsInv ==
  ASSUME Inv, NEW c \in Calls, Cancel(c)
  PROVE  Inv'
  <1>0. TypeOK /\ InStep(c) /\ Quiet
    BY DEF Inv, Cancel
  <1> DEFINE handler == IF pc[c] \in {"wait", "complete"} THEN "fail" ELSE "raised"
  <1>1. handler \in PCs /\ Go(c, handler)
    BY DEF Cancel, PCs, Ended
  <1>e. Evaluate(c)' = Evaluate(c) /\ (Allowed(c)' <=> Allowed(c)) /\ runs' = runs
        /\ answer' = answer
    BY <1>0 DEF Evaluate, Allowed, Quiet
  <1>2. CASE UNCHANGED journal
    <2>1. TypeOK' /\ ApprovalFits(c)'
      BY <1>0, <1>1, <1>2 DEF TypeOK, Go, Quiet, Inv, ApprovalFits
    <2>2. /\ \A d \in Calls \ {c} : pc'[d] = pc[d] /\ journal'[d] = journal[d]
          /\ \A d \in Calls \ {c} : approval'[d] = approval[d] /\ runs'[d] = runs[d]
          /\ \A d \in Calls \ {c} : answer'[d] = answer[d]
      BY <1>0, <1>1, <1>2 DEF TypeOK, Go, Quiet
    <2>3. pc'[c] = handler
      BY <1>0, <1>1 DEF TypeOK, Go
    <2>4. InStep(c)'
      BY <1>0, <1>e, <1>2, <2>3
      DEF Cancel, InStep, EndIsTrue, Unrecorded, Undecided, Authorized, Ended, TerminalEvents,
          Results
    <2> QED BY <2>1, <2>2, <2>4, LocalStep
  <1>3. CASE \E e \in Pending(c) : Appended(c, e)
    <2>1. PICK e \in Pending(c) : Appended(c, e)
      BY <1>3
    <2>2. e \in EventTypes
      BY <2>1 DEF Pending, EventTypes, TerminalEvents
    <2>3. Append(c, e, handler, handler)
      BY <1>1, <2>1 DEF Append
    <2>4. pc'[c] = handler /\ journal'[c] = Reduce(journal[c], e)
      BY <1>0, <1>1, <2>1 DEF TypeOK, Go, Appended
    <2>5. InStep(c)'
      BY <1>0, <1>e, <2>1, <2>2, <2>4, AfterAppend
      DEF Cancel, Pending, InStep, EndIsTrue, Unrecorded, Undecided, Authorized, Ended,
          TerminalEvents, Results
    <2> QED BY <1>0, <1>1, <2>2, <2>3, <2>5, AppendFacts, LocalStep
  <1> QED BY <1>2, <1>3 DEF Cancel

(* Every step keeps the invariant.                                         *)
LEMMA InvStep ==
  ASSUME Inv, [Next]_vars
  PROVE  Inv'
  <1>1. CASE UNCHANGED vars
    BY <1>1 DEF vars, Inv, TypeOK, ApprovalFits, InStep, EndIsTrue, Allowed, Evaluate
  <1>2. CASE Expire
    <2>1. expired' \in BOOLEAN
      BY <1>2, Zenon DEF Expire
    <2> QED BY <1>2, <2>1 DEF Expire, Inv, TypeOK, ApprovalFits, InStep, EndIsTrue, Allowed, Evaluate
  <1>3. ASSUME NEW c \in Calls,
               \/ Begin(c) \/ Request(c) \/ Lookup(c) \/ Ask(c) \/ Record(c) \/ Deny(c)
               \/ Authorize(c) \/ Start(c) \/ Run(c) \/ Answer(c) \/ Complete(c) \/ Fail(c)
               \/ TimeOut(c) \/ Cancel(c) \/ Die(c)
        PROVE  Inv'
    BY <1>3, AppendsKeepInv, SilentStepsKeepInv, CancelKeepsInv DEF Appends
  <1> QED BY <1>1, <1>2, <1>3 DEF Next

(* The invariant holds of every behaviour of the calls.                    *)
THEOREM Invariance == Spec => []Inv
  BY InvInit, InvStep, PTL DEF Spec

(* Journals, decisions and approvals keep their types.                     *)
THEOREM TypeCorrect == Spec => []TypeOK
  <1>1. Inv => TypeOK
    BY DEF Inv
  <1> QED BY <1>1, Invariance, PTL

(* No tool runs without authority: the policy, an approval that fits where *)
(* one is needed, and an authorized event.                                 *)
THEOREM Authority == Spec => []AuthorityRespected
  <1>1. Inv => AuthorityRespected
    BY DEF Inv, InStep, Allowed, ApprovalFits, AuthorityRespected
  <1> QED BY <1>1, Invariance, PTL

(* Two calls share a decision only if it was made for the whole task.      *)
THEOREM SingleUse == Spec => []AllowOnceIsSingleUse
  <1>1. Inv => AllowOnceIsSingleUse
    BY DEF Inv, ApprovalFits, AllowOnceIsSingleUse
  <1> QED BY <1>1, Invariance, PTL

(* A terminal event tells what the tool did, also where two were written   *)
(* because the acknowledgement of completed was lost.                      *)
THEOREM TerminalTruth == Spec => []TerminalEventsTrue
  <1>1. Inv => TerminalEventsTrue
    BY DEF Inv, InStep, TerminalEventsTrue
  <1> QED BY <1>1, Invariance, PTL
-----------------------------------------------------------------------------
(* What a step of call c may do to the class of its stream.                *)
Advances(c) ==
  \/ Class(c)' = Class(c)
  \/ Class(c) = "not_started" /\ Class(c)' = "safe_to_reevaluate"
  \/ Class(c) = "safe_to_reevaluate" /\ Class(c)' = "uncertain"
  \/ Class(c) \in {"safe_to_reevaluate", "uncertain"} /\ Class(c)' = "terminal"

(* While a call is open its class only advances.                           *)
LEMMA ClassStep ==
  ASSUME Inv, NEW c \in Calls, pc[c] \notin Ended,
         \/ journal'[c] = journal[c]
         \/ \E e \in Pending(c) : journal'[c] = Reduce(journal[c], e)
  PROVE  Advances(c)
  <1>0. /\ InStep(c) /\ journal[c].terminals \in Nat
        /\ journal[c].started => journal[c].last # "none"
    BY DEF Inv, TypeOK, Journal, InStep
  <1>1. CASE journal'[c] = journal[c]
    BY <1>1 DEF Class, Advances
  <1>2. CASE \E e \in Pending(c) : journal'[c] = Reduce(journal[c], e)
    <2>1. PICK e \in Pending(c) : journal'[c] = Reduce(journal[c], e)
      BY <1>2
    <2>2. e \in EventTypes
      BY <2>1 DEF Pending, EventTypes, TerminalEvents
    <2>3. /\ journal'[c].last = e
          /\ journal'[c].started <=> (journal[c].started \/ e = "started")
          /\ e \in TerminalEvents => journal'[c].terminals = journal[c].terminals + 1
          /\ e \notin TerminalEvents => journal'[c].terminals = journal[c].terminals
      BY <2>1, <2>2, AfterAppend
    <2>4. CASE pc[c] = "request"
      BY <1>0, <2>1, <2>3, <2>4
      DEF Pending, Class, TerminalEvents, InStep, Unrecorded, Ended, Advances
    <2>5. CASE pc[c] \in {"authorize", "start"}
      BY <1>0, <2>1, <2>3, <2>5
      DEF Pending, Class, TerminalEvents, InStep, Undecided, Authorized, Ended, Advances
    <2>6. CASE pc[c] \in {"deny", "complete", "fail", "time_out"}
      <3>1. e \in TerminalEvents /\ journal[c].last # "none"
        BY <1>0, <2>1, <2>6 DEF Pending, TerminalEvents, InStep, Undecided, Authorized
      <3>2. Class(c)' = "terminal"
        BY <1>0, <2>3, <3>1 DEF Class
      <3>3. Class(c) # "not_started"
        BY <3>1 DEF Class
      <3>4. Class(c) \in {"safe_to_reevaluate", "uncertain", "terminal"}
        BY <3>3 DEF Class
      <3> QED BY <3>2, <3>4 DEF Advances
    <2>7. pc[c] \in {"request", "authorize", "start", "deny", "complete", "fail", "time_out"}
      BY <2>1 DEF Pending
    <2> QED BY <2>4, <2>5, <2>6, <2>7
  <1> QED BY <1>1, <1>2

(* Every step of a call but the run is of that kind, and touches no other. *)
LEMMA StepOfCall ==
  ASSUME Inv, NEW c \in Calls,
         \/ Begin(c) \/ Request(c) \/ Lookup(c) \/ Ask(c) \/ Record(c) \/ Deny(c)
         \/ Authorize(c) \/ Start(c) \/ Answer(c) \/ Complete(c) \/ Fail(c)
         \/ TimeOut(c) \/ Cancel(c) \/ Die(c)
  PROVE  /\ runs' = runs /\ Advances(c)
         /\ \A d \in Calls \ {c} : Class(d)' = Class(d)
  <1>0. journal \in [Calls -> Journal]
    BY DEF Inv, TypeOK
  <1>1. pc[c] \notin Ended /\ runs' = runs
    BY DEF Begin, Request, Lookup, Ask, Record, Deny, Authorize, Start, Answer, Complete,
           Fail, TimeOut, Cancel, Die, Ended, Quiet
  <1>2. \/ journal' = journal
        \/ \E e \in Pending(c) : Appended(c, e)
    BY DEF Begin, Request, Lookup, Ask, Record, Deny, Authorize, Start, Answer, Complete,
           Fail, TimeOut, Cancel, Die, Append, Pending
  <1>3. \/ journal'[c] = journal[c]
        \/ \E e \in Pending(c) : journal'[c] = Reduce(journal[c], e)
    BY <1>0, <1>2 DEF Appended
  <1>4. \A d \in Calls \ {c} : journal'[d] = journal[d]
    BY <1>0, <1>2 DEF Appended
  <1> QED BY <1>1, <1>3, <1>4, ClassStep DEF Class

(* Every step of the calls is a step of ChildCall, or none.                *)
LEMMA NextImplementsChildCall ==
  ASSUME Inv, [Next]_vars
  PROVE  [Child!Next]_(Child!vars)
  <1> DEFINE class == [c \in Calls |-> Class(c)]
  <1> USE DEF Child!Next, Child!vars, Child!Request, Child!Start, Child!Conclude,
              Child!Classify, Child!Run
  <1>1. CASE UNCHANGED vars \/ Expire
    <2>1. journal' = journal /\ runs' = runs
      BY <1>1 DEF vars, Expire
    <2>2. \A c \in Calls : Class(c)' = Class(c)
      BY <2>1 DEF Class
    <2>3. class' = class
      BY <2>2
    <2> QED BY <2>1, <2>3
  <1>2. ASSUME NEW c \in Calls, Run(c)
        PROVE  [Child!Next]_(Child!vars)
    <2>1. /\ journal' = journal /\ runs' = [runs EXCEPT ![c] = @ + 1]
          /\ journal[c].started /\ journal[c].terminals = 0
      BY <1>2 DEF Run, Inv, InStep, Ended
    <2>2. \A d \in Calls : Class(d)' = Class(d)
      BY <2>1 DEF Class
    <2>3. class' = class /\ class[c] = "uncertain"
      BY <2>1, <2>2 DEF Class
    <2> QED BY <2>1, <2>3
  <1>3. ASSUME NEW c \in Calls,
               \/ Begin(c) \/ Request(c) \/ Lookup(c) \/ Ask(c) \/ Record(c) \/ Deny(c)
               \/ Authorize(c) \/ Start(c) \/ Answer(c) \/ Complete(c) \/ Fail(c)
               \/ TimeOut(c) \/ Cancel(c) \/ Die(c)
        PROVE  [Child!Next]_(Child!vars)
    <2>1. /\ runs' = runs /\ Advances(c)
          /\ \A d \in Calls \ {c} : Class(d)' = Class(d)
      BY <1>3, StepOfCall
    <2>2. class' = [class EXCEPT ![c] = Class(c)']
      BY <2>1
    <2>3. CASE Class(c)' = Class(c)
      <3>1. class' = class
        BY <2>1, <2>3
      <3> QED BY <2>1, <3>1
    <2>4. CASE Class(c)' # Class(c)
      <3>1. class[c] = Class(c)
        OBVIOUS
      <3> QED BY <2>1, <2>2, <2>4, <3>1 DEF Advances
    <2> QED BY <2>3, <2>4
  <1> QED BY <1>1, <1>2, <1>3 DEF Next

(* Every tool call keeps the promise recovery relies on.                   *)
THEOREM Refinement == Spec => ImplementsChildCall
  <1>1. ASSUME Init PROVE Child!Init
    <2>0. \A c \in Calls : /\ journal[c].terminals = 0 /\ ~journal[c].started
                           /\ journal[c].last = "none"
      BY <1>1 DEF Init
    <2>1. ASSUME NEW c \in Calls PROVE Class(c) = "not_started"
      <3>1. ~(journal[c].terminals > 0)
        BY <2>0
      <3> QED BY <2>0, <3>1, Zenon DEF Class
    <2> QED BY <1>1, <2>1 DEF Init, Child!Init
  <1> QED
    BY <1>1, NextImplementsChildCall, Invariance, PTL DEF Spec, ImplementsChildCall, Child!Spec
=============================================================================
