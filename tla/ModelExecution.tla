--------------------------- MODULE ModelExecution ---------------------------
(***************************************************************************)
(* ModelExecutionService: one logical model call, by execute or by stream, *)
(* with its bounded retries and its journal, the model_call stream.  An    *)
(* append may fail with its event committed or not, the provider may fail  *)
(* in every way the retry policy tells apart, the caller may cancel at any *)
(* await, and the process may die.                                         *)
(***************************************************************************)
EXTENDS Integers

CONSTANT MaxAttempts   \* RetryPolicy.maximum_attempts

ASSUME RetryAssumption == MaxAttempts \in Nat \ {0}

VARIABLES
  mode,      \* which operation runs: "execute" or "stream"
  pc,
  journal,   \* the model_call stream as its readers see it
  attempt,   \* number of the current attempt
  failure,   \* the error at hand
  emitted,   \* this attempt has yielded payload to the consumer of a stream
  calls,     \* attempts that reached the provider
  heard,     \* attempts whose payload the consumer has seen
  answered,  \* the provider has answered successfully
  cancelled  \* the caller has cancelled

local == <<mode, attempt, failure, emitted>>
observed == <<calls, heard, answered, cancelled>>
vars == <<pc, journal, local, observed>>

TerminalEvents == {"completed", "failed", "timed_out"}
EventTypes == {"none", "requested", "started", "retried"} \cup TerminalEvents
Retryable == {"timeout", "temporary"}
Failures == {"none", "permanent", "cancelled"} \cup Retryable
Journal == [last : EventTypes, started : Nat, retried : Nat, terminals : Nat]
Ended == {"returned", "raised"}
PCs == {"validate", "request", "start", "call", "wait", "judge", "retry", "backoff",
        "give_up", "store", "complete"} \cup Ended

TypeOK ==
  /\ mode \in {"execute", "stream"}
  /\ pc \in PCs
  /\ journal \in Journal
  /\ attempt \in 1..MaxAttempts
  /\ failure \in Failures
  /\ calls \in Nat /\ heard \in Nat
  /\ emitted \in BOOLEAN /\ answered \in BOOLEAN /\ cancelled \in BOOLEAN

Init ==
  /\ mode \in {"execute", "stream"}
  /\ pc = "validate"
  /\ journal = [last |-> "none", started |-> 0, retried |-> 0, terminals |-> 0]
  /\ attempt = 1 /\ failure = "none" /\ emitted = FALSE
  /\ calls = 0 /\ heard = 0 /\ answered = FALSE /\ cancelled = FALSE
-----------------------------------------------------------------------------
(* What one more event makes of the stream.                                *)
Reduce(e) ==
  [last |-> e,
   started |-> IF e = "started" THEN journal.started + 1 ELSE journal.started,
   retried |-> IF e = "retried" THEN journal.retried + 1 ELSE journal.retried,
   terminals |-> IF e \in TerminalEvents THEN journal.terminals + 1 ELSE journal.terminals]

(* An exception that nothing in the call turns into an event.              *)
Leave == pc' = "raised" /\ UNCHANGED local

(* An exception that ends in the handler which appends the terminal event. *)
GiveUp(f) == pc' = "give_up" /\ failure' = f /\ UNCHANGED <<mode, attempt, emitted>>

(* In execute the retry loop has a handler for f, in stream nothing has.   *)
GiveUpOrLeave(f) == IF mode = "execute" THEN GiveUp(f) ELSE Leave

(* ProviderEventService._append acknowledged ...                           *)
Appended(e, next) == journal' = Reduce(e) /\ pc' = next /\ UNCHANGED local

(* ... or left by ProviderPersistenceError, the event committed or not.    *)
Unacknowledged(e) == journal' \in {journal, Reduce(e)}

(* _validate_context_reference, select_provider, _validate_capabilities    *)
(* and store_request: what they raise leaves no event.                     *)
Validate ==
  /\ pc = "validate"
  /\ pc' \in {"request", "raised"}
  /\ UNCHANGED <<journal, local, observed>>

Request ==
  /\ pc = "request"
  /\ Appended("requested", "start") \/ (Unacknowledged("requested") /\ Leave)
  /\ UNCHANGED observed

(* Fault: the provider is called although started was not persisted.       *)
StartAnyway ==
  /\ pc = "start"
  /\ Unacknowledged("started") /\ pc' = "call"
  /\ UNCHANGED <<local, observed>>

(* Each attempt persists started first.                                    *)
Start ==
  /\ pc = "start"
  /\ \/ Appended("started", "call")
     \/ Unacknowledged("started") /\ GiveUpOrLeave("permanent")
  /\ UNCHANGED observed

(* provider.complete or provider.stream is awaited, under its timeout.     *)
Call ==
  /\ pc = "call"
  /\ calls' = calls + 1
  /\ pc' = "wait"
  /\ UNCHANGED <<journal, local, heard, answered, cancelled>>

(* stream yields the first text or tool-call delta of this attempt.        *)
Emit ==
  /\ pc = "wait" /\ mode = "stream" /\ ~emitted
  /\ emitted' = TRUE
  /\ heard' = heard + 1
  /\ UNCHANGED <<pc, journal, mode, attempt, failure, calls, answered, cancelled>>

Answer ==
  /\ pc = "wait"
  /\ answered' = TRUE
  /\ pc' = "store"
  /\ UNCHANGED <<journal, local, calls, heard, cancelled>>

(* A ProviderError, or the timeout turned into one.                        *)
Err ==
  /\ pc = "wait"
  /\ failure' \in Retryable \cup {"permanent"}
  /\ pc' = "judge"
  /\ UNCHANGED <<journal, mode, attempt, emitted, observed>>

(* Fault: an attempt is repeated although its text was handed on.          *)
CanRetryEmitted == attempt < MaxAttempts /\ failure \in Retryable

(* RetryPolicy.is_retryable, the attempts left, and nothing yielded yet.   *)
CanRetry == attempt < MaxAttempts /\ failure \in Retryable /\ ~emitted

Judge ==
  /\ pc = "judge"
  /\ pc' = IF CanRetry THEN "retry" ELSE "give_up"
  /\ UNCHANGED <<journal, local, observed>>

(* on_retry, and the same in stream.                                       *)
Retry ==
  /\ pc = "retry"
  /\ \/ Appended("retried", "backoff")
     \/ Unacknowledged("retried") /\ GiveUpOrLeave("permanent")
  /\ UNCHANGED observed

Backoff ==
  /\ pc = "backoff"
  /\ attempt' = attempt + 1 /\ failure' = "none" /\ emitted' = FALSE
  /\ pc' = "start"
  /\ UNCHANGED <<journal, mode, observed>>

(* The handlers after the loop: timed_out or failed, then raise.           *)
FailureEvent == IF failure = "timeout" THEN "timed_out" ELSE "failed"

(* Fault: as long as the failure cannot be recorded it is judged again.    *)
FailAgain ==
  /\ pc = "give_up"
  /\ \/ journal' = Reduce(FailureEvent) /\ Leave
     \/ pc' = "judge" /\ UNCHANGED <<journal, local>>
  /\ UNCHANGED observed

Fail ==
  /\ pc = "give_up"
  /\ Unacknowledged(FailureEvent)
  /\ Leave
  /\ UNCHANGED observed

(* store_response                                                          *)
Store ==
  /\ pc = "store"
  /\ pc' \in {"complete", "raised"}
  /\ UNCHANGED <<journal, local, observed>>

(* Fault: the completion is recorded inside the handlers of the loop.      *)
CompleteGuarded ==
  /\ pc = "complete"
  /\ Appended("completed", "returned") \/ (Unacknowledged("completed") /\ GiveUp("permanent"))
  /\ UNCHANGED observed

(* Fault: a completion that was not acknowledged is tried again.           *)
CompleteRetried ==
  /\ pc = "complete"
  /\ \/ Appended("completed", "returned")
     \/ Unacknowledged("completed") /\ pc' = "start" /\ UNCHANGED local
  /\ UNCHANGED observed

(* completed is recorded outside every handler: a failure is just raised.  *)
Complete ==
  /\ pc = "complete"
  /\ Appended("completed", "returned") \/ (Unacknowledged("completed") /\ Leave)
  /\ UNCHANGED observed

(* The event being appended where the call stands, if any.                 *)
Pending ==
  CASE pc = "request" -> {"requested"} [] pc = "start" -> {"started"}
    [] pc = "retry" -> {"retried"} [] pc = "give_up" -> {FailureEvent}
    [] pc = "complete" -> {"completed"} [] OTHER -> {}

(* asyncio.CancelledError at an await.  The provider call has a handler in *)
(* both operations, started and the backoff in execute only.               *)
Cancel ==
  /\ pc \notin Ended \cup {"call", "judge"}
  /\ cancelled' = TRUE
  /\ journal' \in {journal} \cup {Reduce(e) : e \in Pending}
  /\ CASE pc = "wait" -> GiveUp("cancelled")
       [] pc \in {"start", "backoff"} -> GiveUpOrLeave("cancelled")
       [] OTHER -> Leave
  /\ UNCHANGED <<calls, heard, answered>>

(* The process dies, something raises that is no ProviderError, or the     *)
(* consumer of a stream abandons the generator.                            *)
Die ==
  /\ pc \notin Ended
  /\ Leave
  /\ UNCHANGED <<journal, observed>>

Step ==
  \/ Validate \/ Request \/ Start \/ Call \/ Emit \/ Answer \/ Err \/ Judge
  \/ Retry \/ Backoff \/ Fail \/ Store \/ Complete

Next == Step \/ Cancel \/ Die

Spec == Init /\ [][Next]_vars

(* The event loop goes on with the call; asyncio.timeout bounds its wait   *)
(* for the provider.  Nobody need cancel.                                  *)
FairSpec == Spec /\ WF_vars(Step)
-----------------------------------------------------------------------------
(* classify_child_call                                                     *)
Class ==
  IF journal.terminals > 0 THEN "terminal"
  ELSE IF journal.started > 0 THEN "uncertain"
  ELSE IF journal.last # "none" THEN "safe_to_reevaluate" ELSE "not_started"

Child == INSTANCE ChildCall WITH Calls <- {"call"}, class <- [c \in {"call"} |-> Class],
                                 runs <- [c \in {"call"} |-> calls]

(* Recovery may rely on the class of the stream: a call it would evaluate  *)
(* again has not reached the provider, and none that is terminal will.     *)
ImplementsChildCall == Child!Spec

(* "Each actual attempt receives a distinct lifecycle event sequence": no  *)
(* attempt reaches the provider without a started of its own and, after    *)
(* the first, a retried; so the attempts are bounded by the policy.        *)
AttemptsJournalled ==
  /\ calls <= journal.started /\ calls <= journal.retried + 1
  /\ journal.retried < MaxAttempts

(* One terminal event at most, and it tells the truth: the provider        *)
(* answered if it is completed, and did not if it is failed or timed_out.  *)
TerminalEventTrue ==
  /\ journal.terminals <= 1
  /\ journal.last = "completed" => answered
  /\ journal.last \in {"failed", "timed_out"} => ~answered

(* A retried stream never repeats itself: the consumer sees the payload of *)
(* one attempt at most.                                                    *)
NothingHeardTwice == heard <= 1

(* A successful call is never repeated, whatever becomes of its terminal   *)
(* event, and a cancelled one is never retried.                            *)
NoCallAfterTheEnd == [][answered \/ cancelled => calls' = calls]_vars

(* A caller gets its answer or an exception in the end.                    *)
EveryCallEnds == <>(pc \in Ended)
=============================================================================
