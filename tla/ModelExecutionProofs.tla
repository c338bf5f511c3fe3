------------------------ MODULE ModelExecutionProofs ------------------------
(***************************************************************************)
(* For every number of attempts: what the journal of a model call says is  *)
(* what happened, and recovery may classify the call by it.                *)
(***************************************************************************)
EXTENDS ModelExecution, TLAPS

(* Nothing is journalled before the request, one event always after it.    *)
JournalBegun ==
  /\ pc \in {"validate", "request"} =>
       journal.last = "none" /\ journal.started = 0 /\ journal.retried = 0 /\ calls = 0
  /\ pc \notin {"validate", "request"} \cup Ended => journal.last # "none"
  /\ journal.started > 0 => journal.last # "none"

(* The attempts, their number and their events advance together.           *)
AttemptsInStep ==
  /\ pc \in {"start", "call", "wait", "judge", "retry"} => journal.retried = attempt - 1
  /\ pc \in {"start", "call", "backoff"} => calls <= journal.retried
  /\ pc = "call" => calls < journal.started
  /\ pc = "backoff" => journal.retried = attempt
  /\ pc = "retry" => attempt < MaxAttempts
  /\ pc \in {"validate", "request"} => attempt = 1

(* The terminal event is the last thing a call does, and the answer and    *)
(* the cancellation leave only their own way out.                          *)
EndsInStep ==
  /\ pc \notin Ended => journal.terminals = 0
  /\ journal.last \in TerminalEvents <=> journal.terminals > 0
  /\ answered => pc \in {"store", "complete"} \cup Ended
  /\ pc \in {"store", "complete"} => answered
  /\ cancelled => pc \in {"give_up"} \cup Ended

(* Only an attempt that has yielded nothing is repeated.                   *)
Unheard ==
  /\ ~emitted => heard = 0
  /\ pc \in {"retry", "backoff"} => ~emitted

(* The inductive invariant.                                                *)
Inv ==
  /\ TypeOK /\ JournalBegun /\ AttemptsInStep /\ EndsInStep /\ Unheard
  /\ AttemptsJournalled /\ TerminalEventTrue /\ NothingHeardTwice
-----------------------------------------------------------------------------
(* One more event keeps the type of the journal.                           *)
LEMMA ReduceType ==
  ASSUME journal \in Journal, NEW e \in EventTypes
  PROVE  Reduce(e) \in Journal
  <1>1. journal.started \in Nat /\ journal.retried \in Nat /\ journal.terminals \in Nat
    BY DEF Journal
  <1>2. /\ (IF e = "started" THEN journal.started + 1 ELSE journal.started) \in Nat
        /\ (IF e = "retried" THEN journal.retried + 1 ELSE journal.retried) \in Nat
        /\ (IF e \in TerminalEvents THEN journal.terminals + 1 ELSE journal.terminals) \in Nat
    BY <1>1
  <1> QED BY <1>2 DEF Journal, Reduce

(* The invariant holds initially.                                          *)
LEMMA InvInit == Init => Inv
  <1>1. Init => emitted \in BOOLEAN /\ answered \in BOOLEAN /\ cancelled \in BOOLEAN
    BY Zenon DEF Init
  <1>2. Init => journal \in Journal
    BY DEF Init, Journal, EventTypes
  <1> QED
    BY <1>1, <1>2, RetryAssumption
    DEF Init, Inv, TypeOK, PCs, EventTypes, TerminalEvents, Failures, JournalBegun,
        AttemptsInStep, EndsInStep, Unheard, AttemptsJournalled, TerminalEventTrue,
        NothingHeardTwice, Ended

(* Every step keeps the invariant.                                         *)
LEMMA InvStep ==
  ASSUME Inv, [Next]_vars
  PROVE  Inv'
  <1> USE RetryAssumption
      DEF Inv, TypeOK, JournalBegun, AttemptsInStep, EndsInStep, Unheard, AttemptsJournalled,
          TerminalEventTrue, NothingHeardTwice, Ended, local, observed, TerminalEvents,
          EventTypes, PCs, Failures, Retryable
  <1>0. /\ journal.started \in Nat /\ journal.retried \in Nat /\ journal.terminals \in Nat
        /\ journal.last \in EventTypes
    BY DEF Journal
  <1>1. CASE Validate
    BY <1>1 DEF Validate
  <1>2. CASE Request
    BY <1>0, <1>2, ReduceType DEF Request, Appended, Unacknowledged, Leave, Reduce
  <1>3. CASE Start
    BY <1>0, <1>3, ReduceType
    DEF Start, Appended, Unacknowledged, GiveUpOrLeave, GiveUp, Leave, Reduce
  <1>4. CASE Call
    BY <1>0, <1>4 DEF Call
  <1>5. CASE Emit
    BY <1>5 DEF Emit
  <1>6. CASE Answer
    BY <1>0, <1>6 DEF Answer
  <1>7. CASE Err
    BY <1>0, <1>7 DEF Err
  <1>8. CASE Judge
    BY <1>8 DEF Judge, CanRetry
  <1>9. CASE Retry
    BY <1>0, <1>9, ReduceType
    DEF Retry, Appended, Unacknowledged, GiveUpOrLeave, GiveUp, Leave, Reduce
  <1>10. CASE Backoff
    <2>1. ~emitted /\ heard = 0 /\ ~cancelled /\ ~answered /\ attempt < MaxAttempts
      BY <1>0, <1>10 DEF Backoff
    <2>2. emitted' \in BOOLEAN
      BY <1>10, Zenon DEF Backoff
    <2> QED BY <1>0, <1>10, <2>1, <2>2 DEF Backoff
  <1>11. CASE Fail
    BY <1>0, <1>11, ReduceType DEF Fail, FailureEvent, Unacknowledged, Leave, Reduce
  <1>12. CASE Store
    BY <1>12 DEF Store
  <1>13. CASE Complete
    BY <1>0, <1>13, ReduceType DEF Complete, Appended, Unacknowledged, Leave, Reduce
  <1>14. CASE Cancel
    <2>1. CASE pc \in {"validate", "wait", "backoff", "store"}
      BY <1>0, <1>14, <2>1 DEF Cancel, Pending, GiveUpOrLeave, GiveUp, Leave
    <2>2. CASE pc = "request"
      BY <1>0, <1>14, <2>2, ReduceType DEF Cancel, Pending, Leave, Reduce
    <2>3. CASE pc = "start"
      BY <1>0, <1>14, <2>3, ReduceType DEF Cancel, Pending, GiveUpOrLeave, GiveUp, Leave, Reduce
    <2>4. CASE pc = "retry"
      BY <1>0, <1>14, <2>4, ReduceType DEF Cancel, Pending, Leave, Reduce
    <2>5. CASE pc = "give_up"
      BY <1>0, <1>14, <2>5, ReduceType DEF Cancel, Pending, FailureEvent, Leave, Reduce
    <2>6. CASE pc = "complete"
      BY <1>0, <1>14, <2>6, ReduceType DEF Cancel, Pending, Leave, Reduce
    <2> QED BY <1>14, <2>1, <2>2, <2>3, <2>4, <2>5, <2>6 DEF Cancel
  <1>15. CASE Die
    BY <1>0, <1>15 DEF Die, Leave
  <1>16. CASE UNCHANGED vars
    BY <1>0, <1>16 DEF vars
  <1> QED
    BY <1>1, <1>2, <1>3, <1>4, <1>5, <1>6, <1>7, <1>8, <1>9, <1>10, <1>11, <1>12, <1>13,
       <1>14, <1>15, <1>16 DEF Next, Step

(* The invariant holds of every behaviour of a model call.                 *)
THEOREM Invariance == Spec => []Inv
  BY InvInit, InvStep, PTL DEF Spec

(* The stream, the local state and the counters of a call keep their types. *)
THEOREM TypeCorrect == Spec => []TypeOK
  <1>1. Inv => TypeOK
    BY DEF Inv
  <1> QED BY <1>1, Invariance, PTL

(* No attempt reaches the provider that the stream does not announce, and  *)
(* there are at most maximum_attempts of them.                             *)
THEOREM AttemptsAnnounced == Spec => []AttemptsJournalled
  <1>1. Inv => AttemptsJournalled
    BY DEF Inv
  <1> QED BY <1>1, Invariance, PTL

(* A model call's stream has one terminal event at most and it is true.    *)
THEOREM TerminalTruth == Spec => []TerminalEventTrue
  <1>1. Inv => TerminalEventTrue
    BY DEF Inv
  <1> QED BY <1>1, Invariance, PTL

(* The consumer of a stream sees the payload of one attempt at most.       *)
THEOREM HeardOnce == Spec => []NothingHeardTwice
  <1>1. Inv => NothingHeardTwice
    BY DEF Inv
  <1> QED BY <1>1, Invariance, PTL

(* Neither an answered nor a cancelled call reaches the provider again.    *)
THEOREM NoRepeat == Spec => NoCallAfterTheEnd
  <1>1. ASSUME Inv, [Next]_vars
        PROVE  [answered \/ cancelled => calls' = calls]_vars
    <2>1. pc = "call" => ~answered /\ ~cancelled
      BY <1>1 DEF Inv, EndsInStep, Ended
    <2>2. CASE Call
      BY <2>1, <2>2 DEF Call
    <2>3. CASE ~Call
      BY <1>1, <2>3
      DEF Next, Step, Validate, Request, Start, Emit, Answer, Err, Judge, Retry, Backoff,
          Fail, Store, Complete, Cancel, Die, observed, vars
    <2> QED BY <2>2, <2>3
  <1> QED BY <1>1, Invariance, PTL DEF Spec, NoCallAfterTheEnd
-----------------------------------------------------------------------------
(* What an append may do to the class of the stream while it is open.      *)
LEMMA ClassStep ==
  ASSUME Inv, pc \notin Ended, calls' = calls,
         \/ journal' = journal
         \/ \E e \in Pending : journal' = Reduce(e)
  PROVE  \/ Class' = Class
         \/ Class = "not_started" /\ Class' = "safe_to_reevaluate"
         \/ Class = "safe_to_reevaluate" /\ Class' = "uncertain"
         \/ Class \in {"safe_to_reevaluate", "uncertain"} /\ Class' = "terminal"
  <1>0. /\ journal.started \in Nat /\ journal.terminals = 0 /\ journal.last \in EventTypes
        /\ journal.started > 0 => journal.last # "none"
        /\ pc # "request" /\ Pending # {} => journal.last # "none"
        /\ pc = "request" => journal.started = 0 /\ journal.last = "none"
    BY DEF Inv, TypeOK, Journal, JournalBegun, EndsInStep, Pending
  <1>1. CASE journal' = journal
    BY <1>1 DEF Class
  <1>2. CASE \E e \in Pending : journal' = Reduce(e)
    <2>1. PICK e \in Pending : journal' = Reduce(e)
      BY <1>2
    <2>2. /\ journal'.last = e
          /\ e = "started" => journal'.started = journal.started + 1
          /\ e # "started" => journal'.started = journal.started
          /\ e \in TerminalEvents => journal'.terminals = 1
          /\ e \notin TerminalEvents => journal'.terminals = 0
      BY <1>0, <2>1 DEF Reduce
    <2>3. CASE pc = "request"
      BY <1>0, <2>1, <2>2, <2>3 DEF Pending, Class, TerminalEvents
    <2>4. CASE pc = "start"
      BY <1>0, <2>1, <2>2, <2>4 DEF Pending, Class, TerminalEvents
    <2>5. CASE pc = "retry"
      BY <1>0, <2>1, <2>2, <2>5 DEF Pending, Class, TerminalEvents
    <2>6. CASE pc \in {"give_up", "complete"}
      <3>1. e \in TerminalEvents /\ journal.last # "none"
        BY <1>0, <2>1, <2>6 DEF Pending, TerminalEvents, FailureEvent
      <3>2. Class' = "terminal"
        BY <3>1, <2>2 DEF Class
      <3>3. Class \in {"safe_to_reevaluate", "uncertain"}
        BY <3>1, <1>0 DEF Class
      <3> QED BY <3>2, <3>3
    <2>7. pc \in {"request", "start", "retry", "give_up", "complete"}
      BY <2>1 DEF Pending
    <2> QED BY <2>3, <2>4, <2>5, <2>6, <2>7
  <1> QED BY <1>1, <1>2

(* Every step of a model call is a step of ChildCall, or none.             *)
LEMMA NextImplementsChildCall ==
  ASSUME Inv, [Next]_vars
  PROVE  [Child!Next]_(Child!vars)
  <1> DEFINE class == [c \in {"call"} |-> Class]
             runs == [c \in {"call"} |-> calls]
  <1> USE DEF Child!Next, Child!vars, Child!Request, Child!Start, Child!Conclude,
              Child!Classify, Child!Run
  <1>1. CASE Call
    <2>0. journal.terminals = 0 /\ journal.started > 0
      BY <1>1 DEF Call, Inv, TypeOK, Journal, AttemptsInStep, EndsInStep, Ended
    <2>1. Class = "uncertain" /\ journal' = journal /\ calls' = calls + 1
      BY <1>1, <2>0 DEF Call, Class
    <2>2. Class' = Class
      BY <2>1 DEF Class
    <2> QED BY <2>1, <2>2
  <1>2. CASE UNCHANGED vars
    <2>1. journal' = journal /\ calls' = calls
      BY <1>2 DEF vars, observed
    <2>2. Class' = Class
      BY <2>1 DEF Class
    <2> QED BY <2>1, <2>2
  <1>3. CASE Next /\ ~Call
    <2>1. /\ pc \notin Ended /\ calls' = calls
          /\ journal' = journal \/ \E e \in Pending : journal' = Reduce(e)
      BY <1>3
      DEF Next, Step, Validate, Request, Start, Emit, Answer, Err, Judge, Retry, Backoff,
          Fail, Store, Complete, Cancel, Die, observed, Pending, Appended, Unacknowledged,
          Ended
    <2> QED BY <2>1, ClassStep
  <1> QED BY <1>1, <1>2, <1>3

(* A model call keeps the promise recovery relies on.                      *)
THEOREM Refinement == Spec => ImplementsChildCall
  <1>1. ASSUME Init PROVE Child!Init
    <2>1. Class = "not_started" /\ calls = 0
      BY <1>1 DEF Init, Class
    <2> QED BY <2>1 DEF Child!Init
  <1> QED
    BY <1>1, NextImplementsChildCall, Invariance, PTL DEF Spec, ImplementsChildCall, Child!Spec
=============================================================================
