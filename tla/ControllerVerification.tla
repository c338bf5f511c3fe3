----------------------- MODULE ControllerVerification -----------------------
(***************************************************************************)
(* ControllerVerificationService.verify: the acceptance criteria of a      *)
(* problem are verified one after the other, each execution journalled in  *)
(* a stream of its own by VerificationService, and AcceptancePolicyService *)
(* decides from the results.  An append to the journal may fail, committed *)
(* or not, a verifier may time out or raise, the process may die.          *)
(***************************************************************************)
EXTENDS Integers, FiniteSets

CONSTANTS
  N,           \* number of acceptance criteria
  Verifiers,   \* verifier ids
  VerifierOf,  \* the verifier each criterion requires
  Required,    \* the criteria that are required
  Available,   \* the verifiers the registry can provide
  MaxCalls     \* what is left of maximum_verifier_calls

Criteria == 1..N

ASSUME VerificationAssumption ==
  /\ N \in Nat \ {0}
  /\ VerifierOf \in [Criteria -> Verifiers]
  /\ Required \subseteq Criteria
  /\ Available \subseteq Verifiers
  /\ MaxCalls \in Nat

VARIABLES
  pc, at,      \* where verify is, and at which criterion
  journal,     \* per criterion: the last event of its verification stream
  outcome,     \* what the verifier that runs has answered
  results,     \* per criterion: the status of its result, "none" without one
  runs,        \* verifier executions so far
  decision

vars == <<pc, at, journal, outcome, results, runs, decision>>

Status == {"passed", "failed", "partial", "unverifiable", "error"}
Outcomes == Status \cup {"timeout", "exception"}
Decisions == {"none", "accepted", "rejected", "needs_repair", "needs_clarification",
              "unverifiable", "verification_error"}

TypeOK ==
  /\ pc \in {"next", "start", "run", "finish", "decide", "done", "raised"}
  /\ at \in 1..(N + 1)
  /\ journal \in [Criteria -> {"none", "started", "completed", "failed"}]
  /\ outcome \in Outcomes
  /\ results \in [Criteria -> Status \cup {"none"}]
  /\ runs \in Nat
  /\ decision \in Decisions

Init ==
  /\ pc = "next" /\ at = 1
  /\ journal = [c \in Criteria |-> "none"]
  /\ outcome = "error"
  /\ results = [c \in Criteria |-> "none"]
  /\ runs = 0
  /\ decision = "none"
-----------------------------------------------------------------------------
Calls == Cardinality({c \in Criteria : results[c] # "none"})

(* The loop over the criteria ends after the last or with the calls left.  *)
LoopEnds == at > N \/ Calls >= MaxCalls

StopLoop ==
  /\ pc = "next" /\ LoopEnds
  /\ pc' = "decide"
  /\ UNCHANGED <<at, journal, outcome, results, runs, decision>>

(* The result of the criterion at hand, and on to the next one.            *)
Conclude(status) ==
  /\ results' = [results EXCEPT ![at] = status]
  /\ at' = at + 1
  /\ pc' = "next"

(* VerifierRegistry.require: unknown or unavailable is a VerificationError. *)
Unavailable ==
  /\ pc = "next" /\ ~LoopEnds /\ VerifierOf[at] \notin Available
  /\ Conclude("unverifiable")
  /\ UNCHANGED <<journal, outcome, runs, decision>>

Require ==
  /\ pc = "next" /\ ~LoopEnds /\ VerifierOf[at] \in Available
  /\ pc' = "start"
  /\ UNCHANGED <<at, journal, outcome, results, runs, decision>>

(* verifier.started is persisted before the verifier runs ...              *)
Start ==
  /\ pc = "start"
  /\ journal' = [journal EXCEPT ![at] = "started"]
  /\ pc' = "run"
  /\ UNCHANGED <<at, outcome, results, runs, decision>>

(* ... and a failure to persist it, committed or not, is unverifiable.     *)
StartLost ==
  /\ pc = "start"
  /\ journal' \in {journal, [journal EXCEPT ![at] = "started"]}
  /\ Conclude("unverifiable")
  /\ UNCHANGED <<outcome, runs, decision>>

(* verifier.verify under its timeout.                                      *)
Run ==
  /\ pc = "run"
  /\ outcome' \in Outcomes
  /\ runs' = runs + 1
  /\ pc' = "finish"
  /\ UNCHANGED <<at, journal, results, decision>>

TerminalEvent == IF outcome \in Status THEN "completed" ELSE "failed"

(* A timeout is an error result; a verifier that raised leaves none.       *)
ResultOf == IF outcome \in Status THEN outcome
            ELSE IF outcome = "timeout" THEN "error" ELSE "none"

Finish ==
  /\ pc = "finish"
  /\ journal' = [journal EXCEPT ![at] = TerminalEvent]
  /\ Conclude(ResultOf)
  /\ UNCHANGED <<outcome, runs, decision>>

(* Fault: the result is kept although its event was not persisted.         *)
FinishLostKeepsResult ==
  /\ pc = "finish"
  /\ journal' \in {journal, [journal EXCEPT ![at] = TerminalEvent]}
  /\ Conclude(ResultOf)
  /\ UNCHANGED <<outcome, runs, decision>>

(* VerificationPersistenceError: the outcome is dropped, never retried.    *)
FinishLost ==
  /\ pc = "finish"
  /\ journal' \in {journal, [journal EXCEPT ![at] = TerminalEvent]}
  /\ Conclude("unverifiable")
  /\ UNCHANGED <<outcome, runs, decision>>

(* The subject is too large, its configuration invalid, or the process     *)
(* dies: nothing in verify catches it.                                     *)
Raise ==
  /\ pc \notin {"done", "raised"}
  /\ pc' = "raised"
  /\ UNCHANGED <<at, journal, outcome, results, runs, decision>>
-----------------------------------------------------------------------------
(* The results an evaluation looks at: all those of the required verifier, *)
(* whichever criterion they were obtained for.                             *)
Matching(c) ==
  {results[d] : d \in {e \in Criteria : VerifierOf[e] = VerifierOf[c] /\ results[e] # "none"}}

(* Fault: one passing result outweighs the failures of the same verifier.  *)
ClassifyAny(c) ==
  IF Matching(c) = {} THEN "unverifiable"
  ELSE IF "error" \in Matching(c) THEN "error"
  ELSE IF "unverifiable" \in Matching(c) THEN "unverifiable"
  ELSE IF "passed" \in Matching(c) THEN "passed" ELSE "failed"

(* AcceptancePolicyService._classify.  A pass with too low a score is      *)
(* "partial" here: both are failures of the requirement.                   *)
Classify(c) ==
  IF Matching(c) = {} THEN "unverifiable"
  ELSE IF "error" \in Matching(c) THEN "error"
  ELSE IF "unverifiable" \in Matching(c) THEN "unverifiable"
  ELSE IF Matching(c) = {"passed"} THEN "passed" ELSE "failed"

RequiredOutcomes == {Classify(c) : c \in Required}

(* The decisions the outcomes of the required criteria allow; which        *)
(* findings call for a repair or a clarification is up to the verifiers.   *)
DecisionsFor(outcomes) ==
  IF "error" \in outcomes THEN {"verification_error"}
  ELSE IF "unverifiable" \in outcomes THEN {"needs_clarification", "unverifiable"}
  ELSE IF "failed" \in outcomes THEN {"needs_repair", "rejected"} ELSE {"accepted"}

(* AcceptancePolicyService.evaluate                                        *)
Decide ==
  /\ pc = "decide"
  /\ decision' \in DecisionsFor(RequiredOutcomes)
  /\ pc' = "done"
  /\ UNCHANGED <<at, journal, outcome, results, runs>>

Next ==
  \/ StopLoop \/ Unavailable \/ Require \/ Start \/ StartLost \/ Run
  \/ Finish \/ FinishLost \/ Raise \/ Decide

Spec == Init /\ [][Next]_vars
-----------------------------------------------------------------------------
(* An accepted decision never passes over bad evidence: of every required  *)
(* criterion the own result passed or is missing, and where no other       *)
(* criterion shares its verifier it passed, its completion in the journal. *)
AcceptanceIsEvidenced ==
  decision = "accepted" => \A c \in Required :
    /\ results[c] \in {"passed", "none"}
    /\ (\A d \in Criteria \ {c} : VerifierOf[d] # VerifierOf[c])
         => results[c] = "passed" /\ journal[c] = "completed"

(* What a verifier said of its subject counts only once verifier.completed *)
(* is persisted: no verdict without its event survives a lost append.      *)
VerdictsAreJournalled ==
  \A c \in Criteria : results[c] \in {"passed", "failed", "partial"} => journal[c] = "completed"

(* Sprint 7 report: the controller "cannot complete while a required       *)
(* criterion is unresolved": acceptance needs a result of each of them.    *)
(* It does not hold: the result of a shared verifier for one criterion     *)
(* counts for the other, whose own verification raised.                    *)
RequiredCriteriaResolved ==
  decision = "accepted" => \A c \in Required : results[c] = "passed"

(* Sprint 7 report: "VerificationService enforces verifier-call ...        *)
(* budgets": no more verifiers run than the budget leaves.  It does not    *)
(* hold: a verifier that raises has run but is not counted.                *)
VerifierCallsWithinBudget == runs <= MaxCalls
=============================================================================
