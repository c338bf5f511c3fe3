----------------------------- MODULE Proposals -----------------------------
(***************************************************************************)
(* HarnessProposalService over the PostgreSQL proposal repository: a       *)
(* proposal is generated from a weakness, validated, staged, reviewed and  *)
(* approved for an experiment.  A call reads the current revision, then    *)
(* records a review, appends the next revision and emits its events, each  *)
(* in a transaction of its own: operators interleave between them, an      *)
(* event append may fail and a caller may die.                             *)
(*                                                                         *)
(* A revision is identified by its proposal and its number, so a review    *)
(* that names them names its content.  Every call has its own created_at,  *)
(* hence its own content hashes: repeating a record under the same id is a *)
(* conflict.  All the proposals here are of one weakness.                  *)
(***************************************************************************)
EXTENDS Naturals, Sequences, FiniteSets

CONSTANTS
  Proposals, Operators,
  MaxPerWeakness,  \* generation.max_proposals_per_weakness
  NoProposal,
  MaxRequests, MaxCrashes

ASSUME ProposalsAssumption ==
  /\ NoProposal \notin Proposals
  /\ MaxPerWeakness \in Nat /\ MaxRequests \in Nat /\ MaxCrashes \in Nat

Statuses == {"generated", "validated", "staged", "approved",
             "rejected", "superseded", "retracted"}
Terminal == {"rejected", "superseded", "retracted"}

(* _LEGAL_TRANSITIONS, without the drafts nothing creates.                 *)
Legal == {"generated"} \X ({"validated"} \cup Terminal)
         \cup {"validated"} \X ({"staged"} \cup Terminal)
         \cup {"staged"} \X ({"approved"} \cup Terminal)
         \cup {"approved"} \X {"superseded", "retracted"}

Decisions == {"approve", "reject", "abstain"}
Numbers == 1 .. 5
Revision == [status : Statuses, by : Operators]
Review == [proposal : Proposals, revision : Numbers, reviewer : Operators,
           decision : Decisions]
Types == Statuses \cup {"created", "revision"}
Event == [stream : Proposals, type : Types, revision : Numbers]

VARIABLES
  history,  \* history[p]: the revisions of p; the last one is current
  reviews,  \* the recorded reviews
  told,     \* the events that reached the event store
  pc, job,  \* per operator: its next step, and the call it is in
  requests, crashes

tables == <<history, reviews, told>>
counters == <<requests, crashes>>
proposalVars == <<tables, pc, job, counters>>

Idle == [proposal |-> NoProposal, expected |-> 1, to |-> "none", decision |-> "abstain",
         tell |-> <<>>, then |-> "idle"]
PCs == {"idle", "insert", "append", "review", "emit"}
Job == [proposal : Proposals \cup {NoProposal}, expected : Numbers,
        to : Statuses \cup {"none"}, decision : Decisions,
        tell : Seq(Types), then : PCs]

TypeOK ==
  /\ history \in [Proposals -> Seq(Revision)]
  /\ reviews \subseteq Review
  /\ told \subseteq Event
  /\ pc \in [Operators -> PCs] /\ job \in [Operators -> Job]
  /\ requests \in 0 .. MaxRequests /\ crashes \in 0 .. MaxCrashes

(* A proposal may have been staged before we start to look.                *)
Staged(o) == [n \in 1 .. 3 |-> [status |-> <<"generated", "validated", "staged">>[n],
                                by |-> o]]

Quiet == /\ told = {}
         /\ pc = [o \in Operators |-> "idle"] /\ job = [o \in Operators |-> Idle]
         /\ requests = 0 /\ crashes = 0

Init == /\ \E o \in Operators : history \in [Proposals -> {<<>>, Staged(o)}]
        /\ reviews = {}
        /\ Quiet

current(p) == history[p][Len(history[p])]
status(p) == IF history[p] = <<>> THEN "none" ELSE current(p).status
active(p) == status(p) \in Statuses \ Terminal

Goto(o, step, call) == pc' = [pc EXCEPT ![o] = step] /\ job' = [job EXCEPT ![o] = call]
Finish(o) == Goto(o, "idle", Idle)
Start(o, step, call) ==
  /\ pc[o] = "idle" /\ requests < MaxRequests
  /\ requests' = requests + 1
  /\ Goto(o, step, call)
  /\ UNCHANGED <<tables, crashes>>

-----------------------------------------------------------------------------
(* An active proposal of the same signature is returned as it is, and a    *)
(* weakness with enough active proposals is refused: both end the call.    *)
create_from_weakness(o, p) ==
  /\ ~active(p)
  /\ Cardinality({q \in Proposals : active(q)}) < MaxPerWeakness
  /\ Start(o, "insert", [Idle EXCEPT !.proposal = p])

(* create_harness_proposal; on success the verifier bundle is next, and    *)
(* the append of the validated revision when it passes.                    *)
insert(o) ==
  LET p == job[o].proposal IN
  /\ pc[o] = "insert"
  /\ \/ /\ history[p] = <<>>
        /\ history' = [history EXCEPT ![p] = <<[status |-> "generated", by |-> o]>>]
        /\ \E passed \in BOOLEAN :
             Goto(o, "emit", [job[o] EXCEPT !.tell = <<"created">>, !.to = "validated",
                                            !.then = IF passed THEN "append" ELSE "idle"])
     \/ /\ history[p] # <<>>
        /\ Finish(o) /\ UNCHANGED history
  /\ UNCHANGED <<reviews, told, counters>>

(* transition: an operator moves the revision he quotes, which must be the *)
(* current one.  Approval needs a review, and validated and staged a       *)
(* verifier bundle, which only create_from_weakness supplies.              *)
transition(o, p, to) ==
  /\ <<status(p), to>> \in Legal
  /\ to \notin {"approved", "validated"}
  /\ Start(o, "append", [Idle EXCEPT !.proposal = p, !.expected = Len(history[p]),
                                     !.to = to])

(* Fault: the revision is advanced before the review is recorded.          *)
ApproveFirst(o, p, decision) ==
  /\ status(p) = "staged"
  /\ Start(o, IF decision = "approve" THEN "append" ELSE "review",
           [Idle EXCEPT !.proposal = p, !.expected = Len(history[p]), !.to = "approved",
                        !.decision = decision])

(* record_review, up to its first await.                                   *)
record_review(o, p, decision) ==
  /\ status(p) = "staged"
  /\ Start(o, "review", [Idle EXCEPT !.proposal = p, !.expected = Len(history[p]),
                                     !.decision = decision])

(* record_harness_proposal_review wants the reviewed revision staged, not  *)
(* current.  A rejection goes through transition, whose second reading of  *)
(* the current revision the append repeats.                                *)
Outcome == [approve |-> "approved", reject |-> "rejected"]
review(o) ==
  LET j == job[o]
      r == [proposal |-> j.proposal, revision |-> j.expected, reviewer |-> o,
            decision |-> j.decision]
  IN
  /\ pc[o] = "review"
  /\ \/ /\ r \notin reviews
        /\ reviews' = reviews \cup {r}
        /\ IF j.decision = "abstain" THEN Finish(o)
           ELSE Goto(o, "append", [j EXCEPT !.to = Outcome[j.decision]])
     \/ /\ r \in reviews
        /\ Finish(o) /\ UNCHANGED reviews
  /\ UNCHANGED <<history, told, counters>>

(* Fault: the database trusts the check the service made when it read.     *)
AppendUnlocked(o) ==
  LET j == job[o] p == j.proposal IN
  /\ pc[o] = "append"
  /\ history' = [history EXCEPT ![p] = Append(@, [status |-> j.to, by |-> o])]
  /\ Goto(o, "emit", [j EXCEPT !.expected = @ + 1, !.tell = <<"revision", j.to>>,
                               !.then = "idle"])
  /\ UNCHANGED <<reviews, told, counters>>

(* append_harness_proposal_revision: compare-and-set on the revision.      *)
append(o) ==
  LET j == job[o] p == j.proposal IN
  /\ pc[o] = "append"
  /\ \/ /\ j.expected = Len(history[p])
        /\ <<status(p), j.to>> \in Legal
        /\ history' = [history EXCEPT ![p] = Append(@, [status |-> j.to, by |-> o])]
        /\ Goto(o, "emit", [j EXCEPT !.expected = @ + 1, !.tell = <<"revision", j.to>>,
                                     !.then = "idle"])
     \/ /\ j.expected # Len(history[p])
        /\ Finish(o) /\ UNCHANGED history
  /\ UNCHANGED <<reviews, told, counters>>

(* _emit: the stream version is read and the event appended under it; when *)
(* another writer took the version the append raises, and the call ends.   *)
emit(o) ==
  LET j == job[o] IN
  /\ pc[o] = "emit"
  /\ \/ /\ told' = told \cup {[stream |-> j.proposal, type |-> Head(j.tell),
                               revision |-> j.expected]}
        /\ IF Len(j.tell) > 1 THEN Goto(o, "emit", [j EXCEPT !.tell = Tail(@)])
           ELSE IF j.then = "idle" THEN Finish(o)
           ELSE Goto(o, j.then, [j EXCEPT !.tell = <<>>])
     \/ Finish(o) /\ UNCHANGED told
  /\ UNCHANGED <<history, reviews, counters>>

crash(o) == /\ pc[o] # "idle" /\ crashes < MaxCrashes
            /\ crashes' = crashes + 1
            /\ Finish(o)
            /\ UNCHANGED <<tables, requests>>

ProposalNext ==
  \E o \in Operators :
     \/ \E p \in Proposals :
          \/ create_from_weakness(o, p)
          \/ \E to \in Statuses : transition(o, p, to)
          \/ \E d \in Decisions : record_review(o, p, d)
     \/ insert(o) \/ review(o) \/ append(o) \/ emit(o) \/ crash(o)

-----------------------------------------------------------------------------
(* The reviews of revision n of p that approve it.                         *)
approvals(p, n) == {r \in reviews : r.proposal = p /\ r.revision = n
                                    /\ r.decision = "approve"}

(***************************************************************************)
(* Whatever reviewers race and whoever dies, an approved revision carries  *)
(* the approval of the very reviewer who wrote it, of the staged revision  *)
(* before it, and no approval is announced that was not given              *)
(* (record_review records the review before it appends).                   *)
(***************************************************************************)
ApprovalIsReviewed ==
  \A p \in Proposals :
     /\ \A n \in DOMAIN history[p] :
          history[p][n].status = "approved" =>
             /\ history[p][n - 1].status = "staged"
             /\ \E r \in approvals(p, n - 1) : r.reviewer = history[p][n].by
     /\ \A e \in told : e.stream = p /\ e.type = "approved" =>
                           history[p][e.revision].status = "approved"

(***************************************************************************)
(* "proposal requires one exact immutable experiment approval": the intake *)
(* of the controlled changes refuses an approved revision with none or     *)
(* several, so each must have exactly one.                                 *)
(***************************************************************************)
ApprovalIsSingle ==
  \A p \in Proposals : \A n \in DOMAIN history[p] :
     history[p][n].status = "approved" => Cardinality(approvals(p, n - 1)) = 1
=============================================================================
