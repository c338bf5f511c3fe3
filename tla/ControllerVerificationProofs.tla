-------------------- MODULE ControllerVerificationProofs --------------------
(***************************************************************************)
(* For every set of criteria, verifiers and every call budget: the results *)
(* verify counts are journalled, and an accepted decision passes over no   *)
(* bad evidence.                                                           *)
(***************************************************************************)
EXTENDS ControllerVerification, TLAPS

(* The criteria from the current one on have no result yet, and nothing is *)
(* decided before the end.                                                 *)
Fresh ==
  /\ pc \in {"start", "run", "finish"} => at <= N
  /\ pc \in {"next", "start", "run", "finish"} =>
       \A c \in Criteria : c >= at => results[c] = "none"
  /\ pc # "done" => decision = "none"

(* The inductive invariant.                                                *)
Inv == TypeOK /\ Fresh /\ VerdictsAreJournalled /\ AcceptanceIsEvidenced

(* What a required criterion must look like to be classified as passed:    *)
(* all results of its verifier passed, and there is one.                   *)
LEMMA ClassifiedPassed ==
  ASSUME TypeOK, NEW c \in Criteria,
         Classify(c) \notin {"error", "unverifiable", "failed"}
  PROVE  Matching(c) = {"passed"}
  BY DEF Classify

(* Init establishes the invariant, and every step of verify keeps it.      *)
LEMMA InvInit == Init => Inv
  BY VerificationAssumption
  DEF Init, Inv, TypeOK, Fresh, VerdictsAreJournalled, AcceptanceIsEvidenced, Criteria,
      Status, Outcomes, Decisions

(* Every step keeps the invariant.                                         *)
LEMMA InvStep ==
  ASSUME Inv, [Next]_vars
  PROVE  Inv'
  <1> USE VerificationAssumption
      DEF Inv, TypeOK, Fresh, VerdictsAreJournalled, AcceptanceIsEvidenced, Criteria
  <1>1. CASE StopLoop
    BY <1>1 DEF StopLoop
  <1>2. CASE Unavailable
    BY <1>2 DEF Unavailable, Conclude, LoopEnds, Status
  <1>3. CASE Require
    BY <1>3 DEF Require, LoopEnds
  <1>4. CASE Start
    BY <1>4 DEF Start
  <1>5. CASE StartLost
    BY <1>5 DEF StartLost, Conclude, Status
  <1>6. CASE Run
    BY <1>6 DEF Run
  <1>7. CASE Finish
    BY <1>7 DEF Finish, Conclude, ResultOf, TerminalEvent, Status
  <1>8. CASE FinishLost
    BY <1>8 DEF FinishLost, Conclude, TerminalEvent, Status
  <1>9. CASE Raise
    BY <1>9 DEF Raise
  <1>10. CASE Decide
    <2>1. ASSUME decision' = "accepted", NEW c \in Required
          PROVE  /\ results[c] \in {"passed", "none"}
                 /\ (\A d \in Criteria \ {c} : VerifierOf[d] # VerifierOf[c])
                      => results[c] = "passed"
      <3>1. RequiredOutcomes \cap {"error", "unverifiable", "failed"} = {}
        BY <1>10, <2>1 DEF Decide, DecisionsFor
      <3>2. Classify(c) \in RequiredOutcomes
        BY <2>1, Zenon DEF RequiredOutcomes
      <3>3. Classify(c) \notin {"error", "unverifiable", "failed"}
        BY <3>1, <3>2
      <3>4. Matching(c) = {"passed"}
        BY <3>3, <2>1, ClassifiedPassed
      <3>5. ASSUME results[c] # "none" PROVE results[c] = "passed"
        BY <3>4, <3>5, <2>1 DEF Matching
      <3>6. PICK d \in Criteria : VerifierOf[d] = VerifierOf[c] /\ results[d] = "passed"
        BY <3>4 DEF Matching
      <3> QED BY <3>5, <3>6, <2>1
    <2>2. decision' \in Decisions
      BY <1>10 DEF Decide, DecisionsFor, Decisions
    <2>3. pc' = "done" /\ UNCHANGED <<at, journal, outcome, results, runs>>
      BY <1>10 DEF Decide
    <2> QED BY <2>1, <2>2, <2>3
  <1>11. CASE UNCHANGED vars
    BY <1>11 DEF vars
  <1> QED
    BY <1>1, <1>2, <1>3, <1>4, <1>5, <1>6, <1>7, <1>8, <1>9, <1>10, <1>11 DEF Next

(* The invariant holds of every behaviour of verify.                       *)
THEOREM Invariance == Spec => []Inv
  BY InvInit, InvStep, PTL DEF Spec

(* The journal, the results and the decision keep their types.             *)
THEOREM TypeCorrect == Spec => []TypeOK
  <1>1. Inv => TypeOK
    BY DEF Inv
  <1> QED BY <1>1, Invariance, PTL

(* No verdict counts whose verifier.completed event was not persisted.     *)
THEOREM VerdictsJournalled == Spec => []VerdictsAreJournalled
  <1>1. Inv => VerdictsAreJournalled
    BY DEF Inv
  <1> QED BY <1>1, Invariance, PTL

(* Acceptance over a failed, partial, erroneous or unverifiable required   *)
(* criterion is impossible; a criterion with a verifier of its own passed. *)
THEOREM Evidenced == Spec => []AcceptanceIsEvidenced
  <1>1. Inv => AcceptanceIsEvidenced
    BY DEF Inv
  <1> QED BY <1>1, Invariance, PTL
=============================================================================
