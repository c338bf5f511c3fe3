------------------------------ MODULE Changes ------------------------------
(***************************************************************************)
(* ControlledChangeService over the PostgreSQL change repository, composed *)
(* with the proposals it takes up: the intake resolves an approved         *)
(* revision, an experiment on it goes through its lifecycle, a candidate   *)
(* is captured and approved for promotion, and a Tier 1 promotion appends  *)
(* to a governed destination and records a receipt.  Engineers call the    *)
(* service concurrently with the operators of the proposals.               *)
(*                                                                         *)
(* The experiment's id is derived from the approved revision and the       *)
(* baseline; there is one baseline, and a proposal is approved at most     *)
(* once, so experiments are indexed by proposals.  As in Proposals every   *)
(* call has its own created_at.  The service compares the candidates,      *)
(* assessments, reviews and receipts a caller passes with each other and   *)
(* looks none of them up: a caller may pass what was never recorded, and   *)
(* only the database refuses some of it, later.  The events a call emits   *)
(* after its writes are not told apart: one that fails ends the call, as   *)
(* the death of the caller does.                                           *)
(***************************************************************************)
EXTENDS Proposals

CONSTANTS
  Engineers,
  People,      \* who approves isolation and promotion
  Patches,
  Tier,        \* Tier[p]: the tier the registry gives to p's surface
  NoExperiment,
  MaxChanges,  \* bound on the calls of the service
  MaxStages    \* bound on the revisions of an experiment

ASSUME ChangesAssumption ==
  /\ Tier \in [Proposals -> 0 .. 3]
  /\ MaxChanges \in Nat /\ MaxStages \in Nat /\ MaxStages >= 7

Stages == {"requested", "approved_for_isolation", "preparing", "implementing",
           "implemented", "evaluating", "eligible", "approved_for_promotion",
           "promoted", "rolled_back", "rejected", "failed", "cancelled", "superseded"}

(* LEGAL_TRANSITIONS                                                       *)
LegalStages ==
  {"requested"} \X {"approved_for_isolation", "cancelled", "rejected"}
  \cup {"approved_for_isolation"} \X {"preparing", "cancelled"}
  \cup {"preparing"} \X {"implementing", "failed", "cancelled"}
  \cup {"implementing"} \X {"implemented", "failed", "cancelled"}
  \cup {"implemented"} \X {"evaluating", "superseded", "cancelled"}
  \cup {"evaluating"} \X {"eligible", "rejected", "failed", "cancelled"}
  \cup {"eligible"} \X {"approved_for_promotion", "rejected", "superseded"}
  \cup {"approved_for_promotion"} \X {"promoted", "failed", "cancelled"}
  \cup {"promoted"} \X {"rolled_back"}

can_transition(source, target) == <<source, target>> \in LegalStages

Experiment == [approved : Numbers, approval : Review, isolation : People,
               revision : 1 .. MaxStages, stage : Stages]
ASSUME NoExperimentAssumption == NoExperiment \notin Experiment

Candidate == Proposals \X Patches
PromotionReview == [candidate : Candidate, approver : People]
Receipt == [review : PromotionReview, pre : Nat, post : Nat]

VARIABLES
  experiments,  \* experiments[p]: the experiment on p, if there is one
  isolations,   \* the experiments that have an isolation manifest
  candidates,
  promotions,   \* the recorded promotion reviews
  bundles,      \* the reviews a repository bundle was made for
  destination,  \* the destination's revisions: the review each came with
  receipts, rollbacks,
  step, task,   \* per engineer: the next step, and the call
  changes       \* calls so far

records == <<experiments, isolations, candidates, promotions, bundles,
             destination, receipts, rollbacks>>
changeVars == <<records, step, task, changes>>
vars == <<proposalVars, changeVars>>

NoTask == [proposal |-> NoProposal, revision |-> 0, what |-> <<>>]
Steps == {"idle", "create", "append", "record_review", "adapter", "receipt", "rollback"}

ChangesTypeOK ==
  /\ TypeOK
  /\ experiments \in [Proposals -> Experiment \cup {NoExperiment}]
  /\ isolations \subseteq Proposals /\ candidates \subseteq Candidate
  /\ promotions \subseteq PromotionReview /\ bundles \subseteq PromotionReview
  /\ destination \in Seq(PromotionReview)
  /\ receipts \subseteq Receipt /\ rollbacks \subseteq Receipt
  /\ step \in [Engineers -> Steps]
  /\ \A e \in Engineers : task[e].proposal \in Proposals \cup {NoProposal}
  /\ changes \in 0 .. MaxChanges

(* We start to look before there is an experiment, or when an approved     *)
(* proposal has one with a candidate, after its evaluation and after one   *)
(* reviewer approved the promotion.                                        *)
Approved(o) == Append(Staged(o), [status |-> "approved", by |-> o])
approval_by(p, o) == [proposal |-> p, revision |-> 3, reviewer |-> o, decision |-> "approve"]

ChangesInit ==
  /\ \/ /\ Init
        /\ experiments = [p \in Proposals |-> NoExperiment]
        /\ isolations = {} /\ candidates = {} /\ promotions = {}
     \/ \E o \in Operators, a, b \in People, patch \in Patches :
          /\ a # b
          /\ history = [p \in Proposals |-> Approved(o)]
          /\ reviews = {approval_by(p, o) : p \in Proposals}
          /\ experiments = [p \in Proposals |->
               [approved |-> 4, approval |-> approval_by(p, o), isolation |-> a,
                revision |-> 7, stage |-> "eligible"]]
          /\ isolations = Proposals /\ candidates = Proposals \X {patch}
          /\ promotions = {[candidate |-> <<p, patch>>, approver |-> b] :
                            p \in {q \in Proposals : Tier[q] # 3}}
          /\ Quiet
  /\ bundles = {}
  /\ destination = <<>> /\ receipts = {} /\ rollbacks = {}
  /\ step = [e \in Engineers |-> "idle"] /\ task = [e \in Engineers |-> NoTask]
  /\ changes = 0

requested(p) == experiments[p] # NoExperiment
Continue(e, next, call) == step' = [step EXCEPT ![e] = next]
                           /\ task' = [task EXCEPT ![e] = call]
Return(e) == Continue(e, "idle", NoTask)
Call(e, next, p, revision, what) ==
  /\ step[e] = "idle" /\ changes < MaxChanges
  /\ changes' = changes + 1
  /\ Continue(e, next, [proposal |-> p, revision |-> revision, what |-> what])
  /\ UNCHANGED records

-----------------------------------------------------------------------------
(* Fault: the approval of the predecessor is taken for the approval.       *)
ResolveByReview(p, n, approval) ==
  /\ n \in DOMAIN history[p]
  /\ approvals(p, n - 1) = {approval}

(* ApprovedProposalIntake.resolve: revision n is approved, and its         *)
(* predecessor has one approval.  Whether the proposal has since been      *)
(* retracted or superseded is not asked.                                   *)
resolve(p, n, approval) ==
  /\ n \in DOMAIN history[p]
  /\ history[p][n].status = "approved"
  /\ approvals(p, n - 1) = {approval}

request_experiment(e, p) ==
  \E n \in DOMAIN history[p] : \E approval \in reviews, approver \in People :
     /\ resolve(p, n, approval)
     /\ Call(e, "create", p, n, [approval |-> approval, isolation |-> approver])

(* create_change_experiment                                                *)
create(e) ==
  LET t == task[e] p == t.proposal IN
  /\ step[e] = "create"
  /\ experiments' =
       IF requested(p) THEN experiments
       ELSE [experiments EXCEPT ![p] = [approved |-> t.revision, approval |-> t.what.approval,
                                        isolation |-> t.what.isolation,
                                        revision |-> 1, stage |-> "requested"]]
  /\ Return(e)
  /\ UNCHANGED <<isolations, candidates, promotions, bundles, destination, receipts,
                 rollbacks, changes>>

change_transition(e, p, target) ==
  /\ requested(p) /\ experiments[p].revision < MaxStages
  /\ can_transition(experiments[p].stage, target)
  /\ Call(e, "append", p, experiments[p].revision, target)

(* append_change_experiment_revision: compare-and-set on the revision.     *)
append_revision(e) ==
  LET t == task[e] x == experiments[t.proposal] IN
  /\ step[e] = "append"
  /\ experiments' =
       IF x.revision = t.revision /\ can_transition(x.stage, t.what)
       THEN [experiments EXCEPT ![t.proposal].revision = @ + 1,
                                ![t.proposal].stage = t.what]
       ELSE experiments
  /\ Return(e)
  /\ UNCHANGED <<isolations, candidates, promotions, bundles, destination, receipts,
                 rollbacks, changes>>

(* A manifest and a candidate are one insert each, of an experiment that   *)
(* exists; a repeated one is kept as it was and reported as recorded.      *)
prepare_isolation(e, p) ==
  /\ step[e] = "idle" /\ changes < MaxChanges
  /\ requested(p)
  /\ isolations' = isolations \cup {p}
  /\ changes' = changes + 1
  /\ UNCHANGED <<experiments, candidates, promotions, bundles, destination, receipts,
                 rollbacks, step, task>>

capture_candidate(e, p, patch) ==
  /\ step[e] = "idle" /\ changes < MaxChanges
  /\ requested(p)
  /\ candidates' = candidates \cup {<<p, patch>>}
  /\ changes' = changes + 1
  /\ UNCHANGED <<experiments, isolations, promotions, bundles, destination, receipts,
                 rollbacks, step, task>>

(* approve_promotion of an eligible assessment: a Tier 3 one never is.     *)
(* The experiment it is given says who approved it.                        *)
approve_promotion(e, r, approved_by) ==
  /\ Tier[r.candidate[1]] # 3
  /\ r.approver # approved_by
  /\ Call(e, "record_review", r.candidate[1], 0, r)

(* record_change_promotion of a review refers to an experiment that exists.*)
record_promotion_review(e) ==
  /\ step[e] = "record_review"
  /\ promotions' = IF requested(task[e].proposal) THEN promotions \cup {task[e].what}
                   ELSE promotions
  /\ Return(e)
  /\ UNCHANGED <<experiments, isolations, candidates, bundles, destination, receipts,
                 rollbacks, changes>>

(* _verify_promotion_evidence compares what the caller passes: r may be    *)
(* any review.  The bundle, too, refers to an experiment that exists.      *)
create_repository_bundle(e, r) ==
  /\ step[e] = "idle" /\ changes < MaxChanges
  /\ Tier[r.candidate[1]] # 3 /\ requested(r.candidate[1])
  /\ bundles' = bundles \cup {r}
  /\ changes' = changes + 1
  /\ UNCHANGED <<experiments, isolations, candidates, promotions, destination, receipts,
                 rollbacks, step, task>>

(* The same comparison, and no reading of the experiment's stage.          *)
promote_governed_revision(e, r) ==
  /\ Tier[r.candidate[1]] = 1
  /\ Call(e, "adapter", r.candidate[1], 0, r)

(* The destination (external) appends, and returns the revision it had and *)
(* the one it has now, or refuses.  Nothing is assumed of what it makes of *)
(* the expected revision it is told.                                       *)
append_verified_revision(e) ==
  LET t == task[e] IN
  /\ step[e] = "adapter"
  /\ \/ /\ destination' = Append(destination, t.what)
        /\ Continue(e, "receipt", [proposal |-> t.proposal, revision |-> Len(destination),
                                    what |-> t.what])
     \/ Return(e) /\ UNCHANGED destination
  /\ UNCHANGED <<experiments, isolations, candidates, promotions, bundles, receipts,
                 rollbacks, changes>>

(* Fault: the receipt names the revision the destination has by now.       *)
RecordLatest(e) ==
  LET t == task[e]
      r == [review |-> t.what, pre |-> Len(destination) - 1, post |-> Len(destination)]
  IN
  /\ step[e] = "receipt"
  /\ receipts' = IF t.what \in promotions /\ \A s \in receipts : s.review # t.what
                 THEN receipts \cup {r} ELSE receipts
  /\ Return(e)
  /\ UNCHANGED <<experiments, isolations, candidates, promotions, bundles, destination,
                 rollbacks, changes>>

(* record_change_promotion refuses a receipt whose review is not recorded; *)
(* the receipt's id is the review's, so a second receipt of a review is a  *)
(* conflict.  The destination has changed by then.                         *)
record_promotion(e) ==
  LET t == task[e]
      r == [review |-> t.what, pre |-> t.revision, post |-> t.revision + 1]
  IN
  /\ step[e] = "receipt"
  /\ receipts' = IF t.what \in promotions /\ \A s \in receipts : s.review # t.what
                 THEN receipts \cup {r} ELSE receipts
  /\ Return(e)
  /\ UNCHANGED <<experiments, isolations, candidates, promotions, bundles, destination,
                 rollbacks, changes>>

(* record_rollback emits, records and emits again; it restores nothing.    *)
(* Any receipt will do whose hash the manifest names.                      *)
record_rollback(e, r) == Call(e, "rollback", r.review.candidate[1], 0, r)

(* record_change_component asks for the experiment alone.                  *)
record(e) ==
  /\ step[e] = "rollback"
  /\ rollbacks' = IF requested(task[e].proposal) THEN rollbacks \cup {task[e].what}
                  ELSE rollbacks
  /\ Return(e)
  /\ UNCHANGED <<experiments, isolations, candidates, promotions, bundles, destination,
                 receipts, changes>>

(* A failed event append or the death of the caller ends a call early.     *)
abandon(e) == /\ step[e] # "idle"
              /\ Return(e)
              /\ UNCHANGED <<records, changes>>

ChangeNext ==
  \E e \in Engineers :
     \/ \E p \in Proposals :
          \/ request_experiment(e, p)
          \/ \E target \in Stages : change_transition(e, p, target)
          \/ prepare_isolation(e, p)
          \/ \E patch \in Patches : capture_candidate(e, p, patch)
     \/ \E r \in PromotionReview :
          \/ \E a \in People : approve_promotion(e, r, a)
          \/ create_repository_bundle(e, r)
          \/ promote_governed_revision(e, r)
          \/ \E n \in 0 .. Len(destination) :
               record_rollback(e, [review |-> r, pre |-> n, post |-> n + 1])
     \/ create(e) \/ append_revision(e) \/ record_promotion_review(e)
     \/ append_verified_revision(e) \/ record_promotion(e) \/ record(e)
     \/ abandon(e)

Next == \/ ProposalNext /\ UNCHANGED changeVars
        \/ ChangeNext /\ UNCHANGED proposalVars

Spec == ChangesInit /\ [][Next]_vars

-----------------------------------------------------------------------------
(***************************************************************************)
(* Reviewers, operators and engineers race, yet an experiment exists only  *)
(* on a revision that was approved, and the approval it refers to is a     *)
(* recorded approval of the exact staged predecessor: never that of a      *)
(* reviewer whose approval lost the race against a rejection               *)
(* (ApprovedProposalIntake.resolve).                                       *)
(***************************************************************************)
ExperimentIsApproved ==
  \A p \in Proposals : requested(p) =>
     LET x == experiments[p] IN
     /\ history[p][x.approved].status = "approved"
     /\ x.approval \in approvals(p, x.approved - 1)

(***************************************************************************)
(* Whatever callers pass and however promotions race, a recorded receipt   *)
(* is true: its review is recorded, the destination's revision it names is *)
(* the one this review brought, right after the predecessor it names, and  *)
(* no two receipts claim the same review or the same revision              *)
(* (promote_governed_revision, record_change_promotion).                   *)
(***************************************************************************)
ReceiptsMatchDestination ==
  \A r \in receipts :
    /\ r.review \in promotions
    /\ r.post = r.pre + 1 /\ r.post \in DOMAIN destination
    /\ destination[r.post] = r.review
    /\ \A s \in receipts : r.review = s.review \/ r.post = s.post => r = s

(* adr/0071: a promotion calls the destination "after exact, separate      *)
(* promotion approval".  It does not hold: the destination is called with  *)
(* whatever review the caller passes, and the database looks for the       *)
(* review only when the receipt is recorded.                               *)
DestinationIsReviewed == \A n \in DOMAIN destination : destination[n] \in promotions

(* controlled-change-management.md: "Rollback returns the exact            *)
(* predecessor".  It does not hold: record_rollback takes the predecessor  *)
(* from the receipt it is given, and nobody looks that receipt up.         *)
RollbacksArePromotions == rollbacks \subseteq receipts

(***************************************************************************)
(* Proposals and experiments move by one legal transition at a time, from  *)
(* the status they really have: a writer that read an older revision       *)
(* changes nothing (the compare-and-set of both append functions).         *)
(***************************************************************************)
LegalLifecycles ==
  [][\A p \in Proposals :
       /\ history'[p] # history[p] =>
            /\ \/ history[p] = <<>> /\ status(p)' = "generated"
               \/ <<status(p), status(p)'>> \in Legal
            /\ SubSeq(history'[p], 1, Len(history[p])) = history[p]
       /\ experiments'[p] # experiments[p] =>
            \/ ~requested(p) /\ experiments'[p].stage = "requested"
            \/ can_transition(experiments[p].stage, experiments'[p].stage)
    ]_vars
=============================================================================
