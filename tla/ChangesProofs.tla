--------------------------- MODULE ChangesProofs ---------------------------
(***************************************************************************)
(* What the runs check of Proposals and Changes on small instances, proved *)
(* for any number of proposals, operators, engineers, people and patches   *)
(* and for all bounds: approvals are reviewed, experiments are approved,   *)
(* receipts match the destination, and lifecycles are legal.               *)
(***************************************************************************)
EXTENDS Changes, SequenceTheorems, TLAPS

-----------------------------------------------------------------------------
(* The inductive invariant, the part of the proposals.  A status has its   *)
(* place in a history, which bounds its length: Numbers is large enough.   *)
Positions == [n \in Numbers |->
                IF n = 1 THEN {"generated"}
                ELSE IF n = 2 THEN {"validated"} \cup Terminal
                ELSE IF n = 3 THEN {"staged"} \cup Terminal
                ELSE IF n = 4 THEN {"approved"} \cup Terminal
                ELSE {"superseded", "retracted"}]

HistoriesLegal ==
  \A p \in Proposals : \A n \in DOMAIN history[p] :
    /\ n \in Numbers /\ history[p][n].status \in Positions[n]
    /\ n > 1 => <<history[p][n - 1].status, history[p][n].status>> \in Legal

Recorded(p, n, o) ==
  [proposal |-> p, revision |-> n, reviewer |-> o, decision |-> "approve"] \in reviews

(* What an operator carries from step to step: the revision it quotes      *)
(* exists, the transition it makes is legal from that revision, and its    *)
(* review is recorded before it approves.                                  *)
OperatorFits(o) ==
  LET j == job[o]
      p == job[o].proposal
      n == job[o].expected
  IN
  /\ pc[o] # "idle" => p \in Proposals
  /\ pc[o] = "insert" => n = 1
  /\ pc[o] \in {"review", "append", "emit"} => n \in DOMAIN history[p]
  /\ pc[o] = "review" => history[p][n].status = "staged"
  /\ pc[o] = "append" =>
       /\ <<history[p][n].status, j.to>> \in Legal
       /\ j.to = "approved" => Recorded(p, n, o)
  /\ pc[o] = "emit" =>
       /\ j.tell # <<>>
       /\ \A i \in DOMAIN j.tell :
            j.tell[i] = "approved" => history[p][n].status = "approved"
       /\ j.then \in {"idle", "append"}
       /\ j.then = "append" => history[p][n].status = "generated" /\ j.to = "validated"

OperatorsFit == \A o \in Operators : OperatorFits(o)

ApprovalsRecorded ==
  \A p \in Proposals : \A n \in DOMAIN history[p] :
    history[p][n].status = "approved" => Recorded(p, n - 1, history[p][n].by)

ToldTruly ==
  \A e \in told :
    /\ e.revision \in DOMAIN history[e.stream]
    /\ e.type = "approved" => history[e.stream][e.revision].status = "approved"

ProposalInv == TypeOK /\ HistoriesLegal /\ OperatorsFit /\ ApprovalsRecorded /\ ToldTruly

(* Revisions are immutable, and neither they nor reviews are removed.      *)
Grows ==
  /\ \A p \in Proposals : /\ Len(history[p]) <= Len(history'[p])
                          /\ \A n \in DOMAIN history[p] : history'[p][n] = history[p][n]
  /\ reviews \subseteq reviews'

OthersKeep(o) ==
  \A v \in Operators \ {o} : pc'[v] = pc[v] /\ job'[v] = job[v]

-----------------------------------------------------------------------------
(* An idle job is a job.                                                   *)
LEMMA IdleType == Idle \in Job
BY DEF Idle, Job, Numbers, Decisions, PCs

(* What Goto leaves behind.                                                *)
LEMMA GotoType ==
  ASSUME TypeOK, NEW o \in Operators, NEW l \in PCs, NEW j \in Job, Goto(o, l, j)
  PROVE  /\ pc' \in [Operators -> PCs] /\ job' \in [Operators -> Job]
         /\ pc'[o] = l /\ job'[o] = j /\ OthersKeep(o)
BY DEF TypeOK, Goto, OthersKeep

(* A call that is over leaves an idle operator, of whom nothing is asked.  *)
LEMMA FinishType ==
  ASSUME TypeOK, NEW o \in Operators, Finish(o)
  PROVE  /\ pc' \in [Operators -> PCs] /\ job' \in [Operators -> Job]
         /\ OthersKeep(o) /\ OperatorFits(o)'
<1>1. /\ pc' \in [Operators -> PCs] /\ job' \in [Operators -> Job]
      /\ pc'[o] = "idle" /\ OthersKeep(o)
  BY IdleType, GotoType DEF Finish, PCs
<1> QED BY <1>1 DEF OperatorFits

(* Sequences of revisions, in the terms the other proofs use.              *)
LEMMA HistoryFacts ==
  ASSUME TypeOK, NEW p \in Proposals
  PROVE  /\ history[p] \in Seq(Revision) /\ Len(history[p]) \in Nat
         /\ DOMAIN history[p] = 1 .. Len(history[p])
         /\ \A n \in DOMAIN history[p] : history[p][n] \in Revision
BY DEF TypeOK

(* What an operator knows stays true while others work.                    *)
LEMMA FitsStable ==
  ASSUME TypeOK, TypeOK', OperatorsFit, Grows, NEW o \in Operators, OthersKeep(o),
         OperatorFits(o)'
  PROVE  OperatorsFit'
<1> SUFFICES ASSUME NEW v \in Operators \ {o} PROVE OperatorFits(v)'
  BY DEF OperatorsFit
<1>1. OperatorFits(v) /\ pc'[v] = pc[v] /\ job'[v] = job[v]
  BY DEF OperatorsFit, OthersKeep
<1>2. \A p \in Proposals : \A n \in DOMAIN history[p] :
        n \in DOMAIN history'[p] /\ history'[p][n] = history[p][n]
  BY DEF Grows, TypeOK
<1>3. \A p, n : Recorded(p, n, v) => Recorded(p, n, v)'
  BY DEF Recorded, Grows
<1>4. pc[v] # "idle" => job[v].proposal \in Proposals
  BY <1>1 DEF OperatorFits
<1>5. pc[v] \in PCs
  BY DEF TypeOK
<1> QED BY <1>1, <1>2, <1>3, <1>4, <1>5 DEF OperatorFits, PCs

(* A step that keeps the histories and adds no event.                      *)
LEMMA QuietStep ==
  ASSUME ProposalInv, TypeOK', NEW o \in Operators, OthersKeep(o), OperatorFits(o)',
         UNCHANGED <<history, told>>, reviews \subseteq reviews'
  PROVE  ProposalInv' /\ Grows
<1>1. Grows
  BY DEF Grows, ProposalInv, TypeOK
<1>2. OperatorsFit'
  BY <1>1, FitsStable DEF ProposalInv
<1>3. ApprovalsRecorded'
  BY DEF ProposalInv, ApprovalsRecorded, Recorded
<1>4. HistoriesLegal' /\ ToldTruly'
  BY DEF ProposalInv, HistoriesLegal, ToldTruly
<1> QED BY <1>1, <1>2, <1>3, <1>4 DEF ProposalInv

(* A call begins.                                                          *)
LEMMA StartStep ==
  ASSUME ProposalInv, NEW o \in Operators, NEW l \in PCs, NEW j \in Job, Start(o, l, j),
         (pc'[o] = l /\ job'[o] = j /\ UNCHANGED tables) => OperatorFits(o)'
  PROVE  ProposalInv' /\ Grows /\ UNCHANGED history
<1>1. /\ pc' \in [Operators -> PCs] /\ job' \in [Operators -> Job]
      /\ pc'[o] = l /\ job'[o] = j /\ OthersKeep(o)
  BY GotoType DEF Start, ProposalInv
<1>2. TypeOK'
  BY <1>1, ProposalsAssumption DEF ProposalInv, TypeOK, Start, tables
<1>3. UNCHANGED <<history, told, reviews>> /\ OperatorFits(o)'
  BY <1>1 DEF Start, tables
<1> QED BY <1>1, <1>2, <1>3, QuietStep

(* The status of a proposal that has one.                                  *)
LEMMA StatusFacts ==
  ASSUME TypeOK, NEW p \in Proposals, status(p) \in Statuses
  PROVE  /\ Len(history[p]) \in DOMAIN history[p]
         /\ status(p) = history[p][Len(history[p])].status
<1>1. history[p] # <<>>
  BY DEF status, Statuses
<1> QED BY <1>1, HistoryFacts DEF status, current

(* The calls of the service begin with what they have read.                *)
LEMMA CallStep ==
  ASSUME ProposalInv, NEW o \in Operators, NEW p \in Proposals,
         \/ create_from_weakness(o, p)
         \/ \E to \in Statuses : transition(o, p, to)
         \/ \E d \in Decisions : record_review(o, p, d)
  PROVE  ProposalInv' /\ Grows /\ UNCHANGED history
<1>0. TypeOK
  BY DEF ProposalInv
<1>1. CASE create_from_weakness(o, p)
  <2> DEFINE j == [Idle EXCEPT !.proposal = p]
  <2>1. j \in Job /\ j.proposal = p /\ j.expected = 1 /\ "insert" \in PCs
    BY IdleType DEF Job, Idle, PCs
  <2>2. Start(o, "insert", j)
    BY <1>1 DEF create_from_weakness
  <2> HIDE DEF j
  <2>3. (pc'[o] = "insert" /\ job'[o] = j) => OperatorFits(o)'
    BY <2>1 DEF OperatorFits
  <2> QED BY <2>1, <2>2, <2>3, StartStep
<1>2. ASSUME NEW to \in Statuses, transition(o, p, to)
      PROVE  ProposalInv' /\ Grows /\ UNCHANGED history
  <2>1. <<status(p), to>> \in Legal /\ to # "approved"
    BY <1>2 DEF transition
  <2>2. status(p) \in Statuses
    BY <2>1 DEF Legal, Statuses, Terminal
  <2>3. PICK n \in Numbers : /\ n = Len(history[p]) /\ n \in DOMAIN history[p]
                             /\ status(p) = history[p][n].status
    BY <1>0, <2>2, StatusFacts DEF ProposalInv, HistoriesLegal
  <2> DEFINE j == [Idle EXCEPT !.proposal = p, !.expected = n, !.to = to]
  <2>4. j \in Job /\ j.proposal = p /\ j.expected = n /\ j.to = to /\ "append" \in PCs
    BY IdleType DEF Job, PCs
  <2>5. Start(o, "append", j)
    BY <1>2, <2>3 DEF transition
  <2> HIDE DEF j
  <2>6. (pc'[o] = "append" /\ job'[o] = j /\ UNCHANGED tables) => OperatorFits(o)'
    BY <2>1, <2>3, <2>4 DEF OperatorFits, tables
  <2> QED BY <2>4, <2>5, <2>6, StartStep
<1>3. ASSUME NEW d \in Decisions, record_review(o, p, d)
      PROVE  ProposalInv' /\ Grows /\ UNCHANGED history
  <2>1. status(p) = "staged" /\ status(p) \in Statuses
    BY <1>3 DEF record_review, Statuses
  <2>2. PICK n \in Numbers : /\ n = Len(history[p]) /\ n \in DOMAIN history[p]
                             /\ history[p][n].status = "staged"
    BY <1>0, <2>1, StatusFacts DEF ProposalInv, HistoriesLegal
  <2> DEFINE j == [Idle EXCEPT !.proposal = p, !.expected = n, !.decision = d]
  <2>3. j \in Job /\ j.proposal = p /\ j.expected = n /\ "review" \in PCs
    BY IdleType DEF Job, PCs
  <2>4. Start(o, "review", j)
    BY <1>3, <2>2 DEF record_review
  <2> HIDE DEF j
  <2>5. (pc'[o] = "review" /\ job'[o] = j /\ UNCHANGED tables) => OperatorFits(o)'
    BY <2>2, <2>3 DEF OperatorFits, tables
  <2> QED BY <2>3, <2>4, <2>5, StartStep
<1> QED BY <1>1, <1>2, <1>3

-----------------------------------------------------------------------------
(* No status has more than five revisions behind it: a legal transition    *)
(* leads to the next place.                                                *)
LEMMA NextPosition ==
  ASSUME NEW n \in Numbers, NEW s \in Positions[n], NEW t, <<s, t>> \in Legal
  PROVE  n + 1 \in Numbers /\ t \in Positions[n + 1]
<1>1. /\ n = 1 => s = "generated"
      /\ n = 2 => s \in {"validated"} \cup Terminal
      /\ n = 3 => s \in {"staged"} \cup Terminal
      /\ n = 4 => s \in {"approved"} \cup Terminal
      /\ n = 5 => s \in {"superseded", "retracted"}
      /\ n \in 1 .. 5
  BY DEF Positions, Numbers
<1>2. /\ s = "generated" => t \in {"validated"} \cup Terminal
      /\ s = "validated" => t \in {"staged"} \cup Terminal
      /\ s = "staged" => t \in {"approved"} \cup Terminal
      /\ s = "approved" => t \in {"superseded", "retracted"}
      /\ s \notin Terminal
  BY DEF Legal, Terminal
<1>3. n \in 1 .. 4
  BY <1>1, <1>2 DEF Terminal
<1> QED BY <1>1, <1>2, <1>3 DEF Positions, Numbers

(* A revision r is added to p by operator o, who moves on to emit.         *)
LEMMA AddStep ==
  ASSUME ProposalInv, NEW o \in Operators, NEW p \in Proposals, NEW r \in Revision,
         NEW n \in Nat, n = Len(history[p]),
         history' = [history EXCEPT ![p] = Append(@, r)],
         UNCHANGED <<reviews, told, counters>>,
         n + 1 \in Numbers, r.status \in Positions[n + 1],
         n > 0 => <<history[p][n].status, r.status>> \in Legal,
         r.status = "approved" => Recorded(p, n, r.by),
         pc' \in [Operators -> PCs], job' \in [Operators -> Job], OthersKeep(o),
         (/\ DOMAIN history'[p] = 1 .. (n + 1) /\ history'[p][n + 1] = r
          /\ history' \in [Proposals -> Seq(Revision)]) => OperatorFits(o)'
  PROVE  ProposalInv' /\ Grows
<1>0. TypeOK /\ history[p] \in Seq(Revision) /\ DOMAIN history[p] = 1 .. n
  BY HistoryFacts DEF ProposalInv
<1>1. /\ history'[p] = Append(history[p], r) /\ history'[p] \in Seq(Revision)
      /\ \A q \in Proposals \ {p} : history'[q] = history[q]
      /\ history' \in [Proposals -> Seq(Revision)]
  BY <1>0 DEF TypeOK
<1>2. /\ DOMAIN history'[p] = 1 .. (n + 1) /\ Len(history'[p]) = n + 1
      /\ history'[p][n + 1] = r
      /\ \A k \in 1 .. n : history'[p][k] = history[p][k]
      /\ \A k \in DOMAIN history'[p] : k = n + 1 \/ k \in DOMAIN history[p]
  BY <1>0, <1>1
<1>3. TypeOK'
  BY <1>0, <1>1 DEF TypeOK, counters
<1>4. Grows
  <2>1. \A q \in Proposals : Len(history[q]) \in Nat
    BY <1>0, HistoryFacts
  <2>2. \A q \in Proposals \ {p} : Len(history[q]) <= Len(history'[q])
    BY <1>1, <2>1
  <2>3. Len(history[p]) <= Len(history'[p])
    BY <1>2
  <2> QED BY <1>0, <1>1, <1>2, <2>2, <2>3 DEF Grows
<1>5. OperatorsFit'
  BY <1>0, <1>1, <1>2, <1>3, <1>4, FitsStable DEF ProposalInv
<1>6. HistoriesLegal'
  <2>1. \A k \in DOMAIN history[p] :
          /\ k \in Numbers /\ history'[p][k].status \in Positions[k]
          /\ k > 1 => <<history'[p][k - 1].status, history'[p][k].status>> \in Legal
    <3> SUFFICES ASSUME NEW k \in DOMAIN history[p]
                 PROVE  /\ k \in Numbers /\ history'[p][k].status \in Positions[k]
                        /\ k > 1 => <<history'[p][k - 1].status, history'[p][k].status>> \in Legal
      OBVIOUS
    <3>1. /\ k \in Numbers /\ history[p][k].status \in Positions[k]
          /\ k > 1 => <<history[p][k - 1].status, history[p][k].status>> \in Legal
      BY DEF ProposalInv, HistoriesLegal
    <3>2. k \in 1 .. n /\ (k > 1 => k - 1 \in 1 .. n)
      BY <1>0
    <3> QED BY <1>2, <3>1, <3>2
  <2>2. n + 1 > 1 => <<history'[p][(n + 1) - 1].status, history'[p][n + 1].status>> \in Legal
    <3>1. (n + 1) - 1 = n /\ (n + 1 > 1 => n > 0 /\ n \in 1 .. n)
      OBVIOUS
    <3> QED BY <1>2, <3>1
  <2>3. \A k \in DOMAIN history'[p] :
          /\ k \in Numbers /\ history'[p][k].status \in Positions[k]
          /\ k > 1 => <<history'[p][k - 1].status, history'[p][k].status>> \in Legal
    BY <1>2, <2>1, <2>2
  <2> QED BY <1>1, <2>3 DEF ProposalInv, HistoriesLegal
<1>7. ApprovalsRecorded'
  <2>1. \A k \in DOMAIN history[p] :
          history'[p][k].status = "approved" => Recorded(p, k - 1, history'[p][k].by)
    BY <1>0, <1>2 DEF ProposalInv, ApprovalsRecorded
  <2>2. r.status = "approved" => Recorded(p, (n + 1) - 1, r.by)
    <3>1. (n + 1) - 1 = n
      OBVIOUS
    <3> QED BY <3>1
  <2>3. \A q \in Proposals \ {p} : \A k \in DOMAIN history'[q] :
          history'[q][k].status = "approved" => Recorded(q, k - 1, history'[q][k].by)
    BY <1>1 DEF ProposalInv, ApprovalsRecorded
  <2>4. \A k \in DOMAIN history'[p] :
          history'[p][k].status = "approved" => Recorded(p, k - 1, history'[p][k].by)
    BY <1>2, <2>1, <2>2
  <2> QED BY <2>3, <2>4 DEF ApprovalsRecorded, Recorded
<1>8. ToldTruly'
  <2>1. \A q \in Proposals : \A k \in DOMAIN history[q] :
          k \in DOMAIN history'[q] /\ history'[q][k] = history[q][k]
    BY <1>0, <1>1, <1>2
  <2>2. \A e \in told : e.stream \in Proposals
    BY <1>0 DEF TypeOK, Event
  <2> QED BY <2>1, <2>2 DEF ProposalInv, ToldTruly
<1> QED BY <1>3, <1>4, <1>5, <1>6, <1>7, <1>8 DEF ProposalInv

(* A call ends without a trace.                                            *)
LEMMA FinishStep ==
  ASSUME ProposalInv, NEW o \in Operators, Finish(o), UNCHANGED tables,
         requests' \in 0 .. MaxRequests, crashes' \in 0 .. MaxCrashes
  PROVE  ProposalInv' /\ Grows
<1>1. /\ pc' \in [Operators -> PCs] /\ job' \in [Operators -> Job]
      /\ OthersKeep(o) /\ OperatorFits(o)'
  BY FinishType DEF ProposalInv
<1>2. TypeOK'
  BY <1>1 DEF ProposalInv, TypeOK, tables
<1> QED BY <1>1, <1>2, QuietStep DEF tables

(* insert starts a history.                                                *)
LEMMA InsertStep ==
  ASSUME ProposalInv, NEW o \in Operators, insert(o)
  PROVE  /\ ProposalInv' /\ Grows
         /\ \/ UNCHANGED history
            \/ \E p \in Proposals, r \in Revision :
                 /\ history[p] = <<>> /\ r.status = "generated"
                 /\ history' = [history EXCEPT ![p] = Append(@, r)]
<1>0. TypeOK /\ OperatorFits(o) /\ pc[o] = "insert" /\ UNCHANGED <<reviews, told, counters>>
  BY DEF ProposalInv, OperatorsFit, insert
<1>1. job[o].proposal \in Proposals /\ job[o] \in Job /\ job[o].expected = 1
  BY <1>0 DEF OperatorFits, TypeOK
<1> PICK p \in Proposals : p = job[o].proposal
  BY <1>1
<1> DEFINE r == [status |-> "generated", by |-> o]
<1>2. ASSUME history[p] = <<>>, history' = [history EXCEPT ![p] = <<r>>],
             NEW passed \in BOOLEAN,
             Goto(o, "emit", [job[o] EXCEPT !.tell = <<"created">>, !.to = "validated",
                                            !.then = IF passed THEN "append" ELSE "idle"])
      PROVE  /\ ProposalInv' /\ Grows
             /\ \E q \in Proposals, s \in Revision :
                  /\ history[q] = <<>> /\ s.status = "generated"
                  /\ history' = [history EXCEPT ![q] = Append(@, s)]
  <2>1. PICK th \in {"append", "idle"} : th = IF passed THEN "append" ELSE "idle"
    OBVIOUS
  <2> DEFINE j == [job[o] EXCEPT !.tell = <<"created">>, !.to = "validated", !.then = th]
  <2>2. /\ j \in Job /\ j.proposal = p /\ j.expected = 1 /\ j.tell = <<"created">>
        /\ j.to = "validated" /\ j.then = th
    <3>1. <<"created">> \in Seq(Types) /\ "validated" \in Statuses /\ th \in PCs
      BY DEF Types, Statuses, PCs
    <3> QED BY <1>1, <3>1 DEF Job
  <2>3. Goto(o, "emit", j) /\ "emit" \in PCs
    BY <1>2, <2>1 DEF PCs
  <2> HIDE DEF j
  <2>4. /\ pc' \in [Operators -> PCs] /\ job' \in [Operators -> Job]
        /\ pc'[o] = "emit" /\ job'[o] = j /\ OthersKeep(o)
    BY <1>0, <2>2, <2>3, GotoType
  <2>5. r \in Revision /\ r.status = "generated" /\ r.by = o
    BY DEF Revision, Statuses
  <2> PICK n \in Nat : n = 0
    OBVIOUS
  <2>6. <<r>> = Append(history[p], r) /\ Len(history[p]) = n
    BY <1>2
  <2>7. history' = [history EXCEPT ![p] = Append(@, r)]
    BY <1>2, <2>6
  <2>8. r.status \in Positions[n + 1] /\ n + 1 \in Numbers
    BY <2>5 DEF Positions, Numbers
  <2> HIDE DEF r
  <2>9. ASSUME DOMAIN history'[p] = 1 .. (n + 1), history'[p][n + 1] = r
        PROVE  OperatorFits(o)'
    <3>1. 1 \in DOMAIN history'[p] /\ history'[p][1].status = "generated"
      BY <2>5, <2>9
    <3>2. \A i \in DOMAIN j.tell : j.tell[i] # "approved"
      BY <2>2
    <3>3. j.tell # <<>>
      BY <2>2
    <3> QED BY <2>2, <2>4, <3>1, <3>2, <3>3 DEF OperatorFits
  <2>10. ~(n > 0) /\ r.status # "approved"
    BY <2>5
  <2>11. ProposalInv' /\ Grows
    BY <1>0, <2>4, <2>5, <2>6, <2>7, <2>8, <2>9, <2>10, AddStep
  <2> QED BY <1>2, <2>5, <2>7, <2>11, Zenon
<1>3. CASE Finish(o) /\ UNCHANGED history
  <2>1. requests' \in 0 .. MaxRequests /\ crashes' \in 0 .. MaxCrashes
    BY <1>0 DEF TypeOK, counters
  <2> QED BY <1>0, <1>3, <2>1, FinishStep DEF tables
<1> QED BY <1>2, <1>3 DEF insert

(* review records the decision on the staged revision, before anything is  *)
(* appended.                                                               *)
LEMMA ReviewStep ==
  ASSUME ProposalInv, NEW o \in Operators, review(o)
  PROVE  ProposalInv' /\ Grows /\ UNCHANGED history
<1>0. TypeOK /\ OperatorFits(o) /\ pc[o] = "review" /\ UNCHANGED <<history, told, counters>>
  BY DEF ProposalInv, OperatorsFit, review
<1>1. /\ job[o].proposal \in Proposals /\ job[o] \in Job /\ job[o].expected \in Numbers
      /\ job[o].expected \in DOMAIN history[job[o].proposal]
      /\ history[job[o].proposal][job[o].expected].status = "staged"
      /\ job[o].decision \in Decisions
  BY <1>0 DEF OperatorFits, TypeOK, Job
<1> PICK p \in Proposals, n \in Numbers, d \in Decisions :
          p = job[o].proposal /\ n = job[o].expected /\ d = job[o].decision
  BY <1>1
<1> DEFINE r == [proposal |-> p, revision |-> n, reviewer |-> o, decision |-> d]
<1>2. r \in Review
  BY DEF Review
<1>3. CASE reviews' = reviews \cup {r} /\ Finish(o)
  <2>1. /\ pc' \in [Operators -> PCs] /\ job' \in [Operators -> Job]
        /\ OthersKeep(o) /\ OperatorFits(o)'
    BY <1>0, <1>3, FinishType
  <2>2. TypeOK'
    BY <1>0, <1>2, <1>3, <2>1 DEF TypeOK, counters
  <2> QED BY <1>0, <1>3, <2>1, <2>2, QuietStep
<1>4. CASE /\ reviews' = reviews \cup {r} /\ d # "abstain"
           /\ Goto(o, "append", [job[o] EXCEPT !.to = Outcome[d]])
  <2>1. PICK t \in Statuses : /\ t = Outcome[d] /\ <<"staged", t>> \in Legal
                              /\ t = "approved" => d = "approve"
    BY <1>4 DEF Outcome, Decisions, Statuses, Legal, Terminal
  <2> DEFINE j == [job[o] EXCEPT !.to = t]
  <2>2. j \in Job /\ j.proposal = p /\ j.expected = n /\ j.to = t
    BY <1>1 DEF Job
  <2>3. Goto(o, "append", j) /\ "append" \in PCs
    BY <1>4, <2>1 DEF PCs
  <2> HIDE DEF j
  <2>4. /\ pc' \in [Operators -> PCs] /\ job' \in [Operators -> Job]
        /\ pc'[o] = "append" /\ job'[o] = j /\ OthersKeep(o)
    BY <1>0, <2>2, <2>3, GotoType
  <2>5. TypeOK'
    BY <1>0, <1>2, <1>4, <2>4 DEF TypeOK, counters
  <2>6. OperatorFits(o)'
    BY <1>0, <1>1, <1>4, <2>1, <2>2, <2>4 DEF OperatorFits, Recorded
  <2> QED BY <1>0, <1>4, <2>4, <2>5, <2>6, QuietStep
<1>5. CASE Finish(o) /\ UNCHANGED reviews
  <2>1. requests' \in 0 .. MaxRequests /\ crashes' \in 0 .. MaxCrashes
    BY <1>0 DEF TypeOK, counters
  <2> QED BY <1>0, <1>5, <2>1, FinishStep DEF tables
<1> QED BY <1>3, <1>4, <1>5 DEF review

(* append: the compare-and-set makes the status that was checked when the  *)
(* call began the status that changes.                                     *)
LEMMA AppendStep ==
  ASSUME ProposalInv, NEW o \in Operators, append(o)
  PROVE  /\ ProposalInv' /\ Grows
         /\ \/ UNCHANGED history
            \/ \E p \in Proposals, r \in Revision :
                 /\ <<status(p), r.status>> \in Legal
                 /\ history' = [history EXCEPT ![p] = Append(@, r)]
<1>0. TypeOK /\ OperatorFits(o) /\ pc[o] = "append" /\ UNCHANGED <<reviews, told, counters>>
  BY DEF ProposalInv, OperatorsFit, append
<1>1. /\ job[o].proposal \in Proposals /\ job[o] \in Job /\ job[o].expected \in Numbers
      /\ job[o].expected \in DOMAIN history[job[o].proposal]
      /\ <<history[job[o].proposal][job[o].expected].status, job[o].to>> \in Legal
      /\ job[o].to = "approved" => Recorded(job[o].proposal, job[o].expected, o)
  BY <1>0 DEF OperatorFits, TypeOK, Job
<1>2. job[o].to \in Statuses
  BY <1>1 DEF Legal, Statuses, Terminal
<1> PICK p \in Proposals, n \in Numbers, t \in Statuses :
          p = job[o].proposal /\ n = job[o].expected /\ t = job[o].to
  BY <1>1, <1>2
<1> DEFINE r == [status |-> t, by |-> o]
<1>3. ASSUME n = Len(history[p]), <<status(p), t>> \in Legal,
             history' = [history EXCEPT ![p] = Append(@, r)],
             Goto(o, "emit", [job[o] EXCEPT !.expected = n + 1, !.tell = <<"revision", t>>,
                                            !.then = "idle"])
      PROVE  /\ ProposalInv' /\ Grows
             /\ \E q \in Proposals, s \in Revision :
                  /\ <<status(q), s.status>> \in Legal
                  /\ history' = [history EXCEPT ![q] = Append(@, s)]
  <2>1. r \in Revision /\ r.status = t /\ r.by = o
    BY DEF Revision
  <2>2. /\ n \in DOMAIN history[p] /\ <<history[p][n].status, t>> \in Legal
        /\ n \in Nat /\ n > 0
    BY <1>1 DEF Numbers
  <2>3. n + 1 \in Numbers /\ t \in Positions[n + 1]
    BY <2>2, NextPosition DEF ProposalInv, HistoriesLegal
  <2> DEFINE j == [job[o] EXCEPT !.expected = n + 1, !.tell = <<"revision", t>>,
                                 !.then = "idle"]
  <2>4. /\ j \in Job /\ j.proposal = p /\ j.expected = n + 1 /\ j.tell = <<"revision", t>>
        /\ j.then = "idle"
    <3>1. <<"revision", t>> \in Seq(Types) /\ "idle" \in PCs
      BY DEF Types, PCs
    <3> QED BY <1>1, <2>3, <3>1 DEF Job
  <2>5. Goto(o, "emit", j) /\ "emit" \in PCs
    BY <1>3 DEF PCs
  <2> HIDE DEF j, r
  <2>6. /\ pc' \in [Operators -> PCs] /\ job' \in [Operators -> Job]
        /\ pc'[o] = "emit" /\ job'[o] = j /\ OthersKeep(o)
    BY <1>0, <2>4, <2>5, GotoType
  <2>7. ASSUME DOMAIN history'[p] = 1 .. (n + 1), history'[p][n + 1] = r
        PROVE  OperatorFits(o)'
    <3>1. n + 1 \in DOMAIN history'[p] /\ history'[p][n + 1].status = t
      BY <2>1, <2>2, <2>7
    <3>2. j.tell # <<>> /\ \A i \in DOMAIN j.tell : j.tell[i] = "approved" => t = "approved"
      BY <2>4
    <3> QED BY <2>4, <2>6, <3>1, <3>2 DEF OperatorFits
  <2>8. r.status = "approved" => Recorded(p, n, r.by)
    BY <1>1, <2>1
  <2>9. ProposalInv' /\ Grows
    BY <1>0, <1>3, <2>1, <2>2, <2>3, <2>6, <2>7, <2>8, AddStep
  <2> QED BY <1>3, <2>1, <2>9, Zenon
<1>4. CASE Finish(o) /\ UNCHANGED history
  <2>1. requests' \in 0 .. MaxRequests /\ crashes' \in 0 .. MaxCrashes
    BY <1>0 DEF TypeOK, counters
  <2> QED BY <1>0, <1>4, <2>1, FinishStep DEF tables
<1> QED BY <1>3, <1>4 DEF append

(* emit announces what the histories hold.                                 *)
LEMMA EmitStep ==
  ASSUME ProposalInv, NEW o \in Operators, emit(o)
  PROVE  ProposalInv' /\ Grows /\ UNCHANGED history
<1>0. TypeOK /\ OperatorFits(o) /\ pc[o] = "emit" /\ UNCHANGED <<history, reviews, counters>>
  BY DEF ProposalInv, OperatorsFit, emit
<1>1. /\ job[o].proposal \in Proposals /\ job[o] \in Job /\ job[o].expected \in Numbers
      /\ job[o].tell \in Seq(Types) /\ job[o].tell # <<>> /\ job[o].then \in {"idle", "append"}
      /\ job[o].expected \in DOMAIN history[job[o].proposal]
      /\ \A i \in DOMAIN job[o].tell : job[o].tell[i] = "approved" =>
           history[job[o].proposal][job[o].expected].status = "approved"
      /\ job[o].then = "append" =>
           /\ history[job[o].proposal][job[o].expected].status = "generated"
           /\ job[o].to = "validated"
  BY <1>0 DEF OperatorFits, TypeOK, Job
<1> PICK p \in Proposals, n \in Numbers, tell \in Seq(Types), then \in {"idle", "append"} :
          /\ p = job[o].proposal /\ n = job[o].expected /\ tell = job[o].tell
          /\ then = job[o].then
  BY <1>1
<1>2. Head(tell) \in Types /\ (Head(tell) = "approved" => history[p][n].status = "approved")
  BY <1>1
<1>3. ASSUME told' = told \cup {[stream |-> p, type |-> Head(tell), revision |-> n]},
             pc' \in [Operators -> PCs], job' \in [Operators -> Job], OthersKeep(o),
             OperatorFits(o)'
      PROVE  ProposalInv' /\ Grows
  <2> PICK h \in Types : h = Head(tell)
    BY <1>2
  <2> DEFINE ev == [stream |-> p, type |-> h, revision |-> n]
  <2>1. /\ ev \in Event /\ ev.stream = p /\ ev.type = h /\ ev.revision = n
        /\ told' = told \cup {ev}
    BY <1>3 DEF Event
  <2> HIDE DEF ev
  <2>2. TypeOK'
    BY <1>0, <1>3, <2>1 DEF TypeOK, counters
  <2>3. Grows
    BY <1>0 DEF Grows, TypeOK
  <2>4. OperatorsFit'
    BY <1>0, <1>3, <2>2, <2>3, FitsStable DEF ProposalInv
  <2>5. ToldTruly'
    <3>1. \A e \in told' : e \in told \/ e = ev
      BY <2>1
    <3> QED BY <1>0, <1>1, <1>2, <2>1, <3>1 DEF ProposalInv, ToldTruly
  <2>6. HistoriesLegal' /\ ApprovalsRecorded'
    BY <1>0 DEF ProposalInv, HistoriesLegal, ApprovalsRecorded, Recorded
  <2> QED BY <2>2, <2>3, <2>4, <2>5, <2>6 DEF ProposalInv
<1>4. CASE Finish(o)
  <2>1. /\ pc' \in [Operators -> PCs] /\ job' \in [Operators -> Job]
        /\ OthersKeep(o) /\ OperatorFits(o)'
    BY <1>0, <1>4, FinishType
  <2>2. CASE UNCHANGED told
    <3>1. requests' \in 0 .. MaxRequests /\ crashes' \in 0 .. MaxCrashes
      BY <1>0 DEF TypeOK, counters
    <3> QED BY <1>0, <1>4, <2>2, <3>1, FinishStep DEF tables
  <2>3. CASE told' = told \cup {[stream |-> p, type |-> Head(tell), revision |-> n]}
    BY <1>0, <1>3, <2>1, <2>3
  <2> QED BY <2>2, <2>3 DEF emit
<1>5. CASE /\ told' = told \cup {[stream |-> p, type |-> Head(tell), revision |-> n]}
           /\ Len(tell) > 1 /\ Goto(o, "emit", [job[o] EXCEPT !.tell = Tail(tell)])
  <2>1. /\ Tail(tell) \in Seq(Types) /\ Tail(tell) # <<>>
        /\ \A i \in DOMAIN Tail(tell) : \E k \in DOMAIN tell : Tail(tell)[i] = tell[k]
    <3>1. /\ Tail(tell) \in Seq(Types) /\ DOMAIN Tail(tell) = 1 .. (Len(tell) - 1)
          /\ \A i \in 1 .. (Len(tell) - 1) : Tail(tell)[i] = tell[i + 1]
          /\ DOMAIN tell = 1 .. Len(tell) /\ Len(tell) \in Nat /\ Len(tell) > 1
      BY <1>5
    <3>2. \A i \in 1 .. (Len(tell) - 1) : i + 1 \in 1 .. Len(tell)
      BY <3>1
    <3>3. Len(Tail(tell)) # Len(<<>>)
      <4>1. Len(Tail(tell)) = Len(tell) - 1
        BY <1>1, HeadTailProperties
      <4>2. \A k \in Nat : k > 1 => k - 1 # 0
        OBVIOUS
      <4>3. Len(<<>>) = 0
        OBVIOUS
      <4> QED BY <3>1, <4>1, <4>2, <4>3, Zenon
    <3>4. Tail(tell) # <<>>
      BY <3>3, Zenon
    <3> QED BY <3>1, <3>2, <3>4
  <2> PICK rest \in Seq(Types) : rest = Tail(tell)
    BY <2>1
  <2> DEFINE j == [job[o] EXCEPT !.tell = rest]
  <2>2. /\ j \in Job /\ j.proposal = p /\ j.expected = n /\ j.tell = rest
        /\ j.then = then /\ j.to = job[o].to
    BY <1>1 DEF Job
  <2>3. Goto(o, "emit", j) /\ "emit" \in PCs
    BY <1>5 DEF PCs
  <2> HIDE DEF j
  <2>4. /\ pc' \in [Operators -> PCs] /\ job' \in [Operators -> Job]
        /\ pc'[o] = "emit" /\ job'[o] = j /\ OthersKeep(o)
    BY <1>0, <2>2, <2>3, GotoType
  <2>5. rest # <<>> /\ \A i \in DOMAIN rest :
                           rest[i] = "approved" => history[p][n].status = "approved"
    BY <1>1, <2>1
  <2>6. OperatorFits(o)'
    BY <1>0, <1>1, <2>2, <2>4, <2>5 DEF OperatorFits
  <2> QED BY <1>0, <1>3, <1>5, <2>4, <2>6
<1>6. CASE /\ told' = told \cup {[stream |-> p, type |-> Head(tell), revision |-> n]}
           /\ then # "idle" /\ Goto(o, then, [job[o] EXCEPT !.tell = <<>>])
  <2>0. <<>> \in Seq(Types)
    OBVIOUS
  <2> PICK none \in Seq(Types) : none = <<>>
    BY <2>0, Zenon
  <2> DEFINE j == [job[o] EXCEPT !.tell = none]
  <2>1. then = "append" /\ "append" \in PCs
    BY <1>6 DEF PCs
  <2>2. j \in Job /\ j.proposal = p /\ j.expected = n /\ j.to = job[o].to
    BY <1>1 DEF Job
  <2>3. Goto(o, "append", j)
    BY <1>6, <2>1
  <2> HIDE DEF j
  <2>4. /\ pc' \in [Operators -> PCs] /\ job' \in [Operators -> Job]
        /\ pc'[o] = "append" /\ job'[o] = j /\ OthersKeep(o)
    BY <1>0, <2>1, <2>2, <2>3, GotoType
  <2>5. <<"generated", "validated">> \in Legal
    BY DEF Legal
  <2>6. OperatorFits(o)'
    BY <1>0, <1>1, <2>1, <2>2, <2>4, <2>5 DEF OperatorFits
  <2> QED BY <1>0, <1>3, <1>6, <2>4, <2>6
<1> QED BY <1>0, <1>4, <1>5, <1>6 DEF emit

(* The death of a caller.                                                  *)
LEMMA CrashStep ==
  ASSUME ProposalInv, NEW o \in Operators, crash(o)
  PROVE  ProposalInv' /\ Grows /\ UNCHANGED history
<1>1. /\ Finish(o) /\ UNCHANGED tables
      /\ requests' \in 0 .. MaxRequests /\ crashes' \in 0 .. MaxCrashes
  BY ProposalsAssumption DEF crash, ProposalInv, TypeOK
<1> QED BY <1>1, FinishStep DEF tables

(* A step of the proposals preserves their invariant; a history changes    *)
(* only by one revision, the first one or a legal successor.               *)
LEMMA ProposalStep ==
  ASSUME ProposalInv, ProposalNext
  PROVE  /\ ProposalInv' /\ Grows
         /\ \/ UNCHANGED history
            \/ \E p \in Proposals, r \in Revision :
                 /\ \/ history[p] = <<>> /\ r.status = "generated"
                    \/ <<status(p), r.status>> \in Legal
                 /\ history' = [history EXCEPT ![p] = Append(@, r)]
<1>1. PICK o \in Operators :
        \/ \E p \in Proposals :
             \/ create_from_weakness(o, p)
             \/ \E to \in Statuses : transition(o, p, to)
             \/ \E d \in Decisions : record_review(o, p, d)
        \/ insert(o) \/ review(o) \/ append(o) \/ emit(o) \/ crash(o)
  BY DEF ProposalNext
<1>2. CASE insert(o)
  BY <1>2, InsertStep
<1>3. CASE append(o)
  BY <1>3, AppendStep
<1>4. CASE review(o) \/ emit(o) \/ crash(o)
  BY <1>4, ReviewStep, EmitStep, CrashStep
<1> QED BY <1>1, <1>2, <1>3, <1>4, CallStep

-----------------------------------------------------------------------------
(* The part of the controlled changes.  What an engineer carries from step *)
(* to step: the approval that was resolved, the experiment that is moved,  *)
(* the review it was given, the place in the destination.                  *)
EngineerFits(e) ==
  LET t == task[e]
      p == task[e].proposal
  IN
  /\ step[e] = "create" =>
       /\ p \in Proposals /\ t.revision \in DOMAIN history[p]
       /\ history[p][t.revision].status = "approved"
       /\ t.what.approval \in approvals(p, t.revision - 1) /\ t.what.isolation \in People
  /\ step[e] = "append" =>
       p \in Proposals /\ requested(p) /\ t.revision < MaxStages /\ t.what \in Stages
  /\ step[e] \in {"record_review", "adapter", "receipt"} => t.what \in PromotionReview
  /\ step[e] = "receipt" =>
       /\ t.revision \in Nat /\ t.revision + 1 \in DOMAIN destination
       /\ destination[t.revision + 1] = t.what
       /\ \A r \in receipts : r.post # t.revision + 1
  /\ step[e] = "rollback" => t.what \in Receipt

EngineersFit == \A e \in Engineers : EngineerFits(e)

(* Two promotions that wait for their receipts have appended at different  *)
(* revisions.                                                              *)
PendingDistinct ==
  \A e, f \in Engineers :
    /\ step[e] = "receipt" /\ step[f] = "receipt"
    /\ task[e].revision = task[f].revision
    => e = f

(* The revision an experiment was approved on exists.                      *)
ExperimentsKnown ==
  \A p \in Proposals : requested(p) => experiments[p].approved \in DOMAIN history[p]

ChangeInv ==
  /\ ChangesTypeOK /\ DOMAIN task = Engineers
  /\ EngineersFit /\ PendingDistinct
  /\ ExperimentsKnown /\ ExperimentIsApproved /\ ReceiptsMatchDestination

Inv == ProposalInv /\ ChangeInv

(* The tables of the changes only grow, and an experiment stays.           *)
RecordsGrow ==
  /\ \A p \in Proposals : requested(p) => requested(p)'
  /\ promotions \subseteq promotions' /\ receipts \subseteq receipts'
  /\ Len(destination) <= Len(destination')
  /\ \A n \in DOMAIN destination : destination'[n] = destination[n]

EngineersKeep(e) ==
  \A f \in Engineers \ {e} : step'[f] = step[f] /\ task'[f] = task[f]

(* What Continue leaves behind.                                            *)
LEMMA ContinueFacts ==
  ASSUME ChangeInv, NEW e \in Engineers, NEW l \in Steps, NEW t, Continue(e, l, t)
  PROVE  /\ step' \in [Engineers -> Steps] /\ DOMAIN task' = Engineers
         /\ step'[e] = l /\ task'[e] = t /\ EngineersKeep(e)
BY DEF ChangeInv, ChangesTypeOK, Continue, EngineersKeep

(* A call that is over leaves an idle engineer, of whom nothing is asked.  *)
LEMMA ReturnFacts ==
  ASSUME ChangeInv, NEW e \in Engineers, Return(e)
  PROVE  /\ step' \in [Engineers -> Steps] /\ DOMAIN task' = Engineers
         /\ step'[e] = "idle" /\ task'[e].proposal \in Proposals \cup {NoProposal}
         /\ EngineersKeep(e) /\ EngineerFits(e)'
<1>1. /\ step' \in [Engineers -> Steps] /\ DOMAIN task' = Engineers
      /\ step'[e] = "idle" /\ task'[e] = NoTask /\ EngineersKeep(e)
  BY ContinueFacts DEF Return, Steps
<1> QED BY <1>1 DEF EngineerFits, NoTask

(* Approvals are only added.                                               *)
LEMMA ApprovalsGrow ==
  ASSUME reviews \subseteq reviews', NEW p, NEW n
  PROVE  approvals(p, n) \subseteq approvals(p, n)'
BY DEF approvals

(* What an engineer knows stays true while others work, if no new receipt  *)
(* claims the revision it has appended.                                    *)
LEMMA EngineersStable ==
  ASSUME TypeOK, TypeOK', Grows, RecordsGrow, EngineersFit,
         destination \in Seq(PromotionReview), destination' \in Seq(PromotionReview),
         NEW K \in SUBSET Engineers,
         \A f \in K : step'[f] = step[f] /\ task'[f] = task[f],
         \A f \in K : step[f] = "receipt" =>
           \A r \in receipts' \ receipts : r.post # task[f].revision + 1
  PROVE  \A f \in K : EngineerFits(f)'
<1> SUFFICES ASSUME NEW f \in K PROVE EngineerFits(f)'
  OBVIOUS
<1>1. EngineerFits(f) /\ step'[f] = step[f] /\ task'[f] = task[f]
  BY DEF EngineersFit
<1>2. \A p \in Proposals : \A n \in DOMAIN history[p] :
        n \in DOMAIN history'[p] /\ history'[p][n] = history[p][n]
  BY DEF Grows, TypeOK
<1>3. /\ Len(destination) \in Nat /\ Len(destination') \in Nat
      /\ \A n \in DOMAIN destination : n \in DOMAIN destination' /\ destination'[n] = destination[n]
  BY DEF RecordsGrow
<1>4. CASE step[f] = "create"
  <2>1. \A p, n : approvals(p, n) \subseteq approvals(p, n)'
    BY ApprovalsGrow DEF Grows
  <2> QED BY <1>1, <1>2, <1>4, <2>1 DEF EngineerFits
<1>5. CASE step[f] = "append"
  BY <1>1, <1>5 DEF EngineerFits, RecordsGrow
<1>6. CASE step[f] \in {"record_review", "adapter"}
  BY <1>1, <1>6 DEF EngineerFits
<1>7. CASE step[f] = "rollback"
  BY <1>1, <1>7 DEF EngineerFits
<1>8. CASE step[f] = "receipt"
  <2>1. \A r \in receipts' : r.post # task[f].revision + 1
    BY <1>1, <1>8 DEF EngineerFits
  <2> QED BY <1>1, <1>3, <1>8, <2>1 DEF EngineerFits
<1>9. CASE step[f] \notin {"create", "append", "record_review", "adapter", "receipt", "rollback"}
  BY <1>1, <1>9 DEF EngineerFits
<1> QED BY <1>4, <1>5, <1>6, <1>7, <1>8, <1>9

(* Experiments keep their approval while histories and reviews grow.       *)
LEMMA ExperimentsStable ==
  ASSUME TypeOK, TypeOK', Grows, NEW p \in Proposals, NEW x,
         x.approved \in DOMAIN history[p], history[p][x.approved].status = "approved",
         x.approval \in approvals(p, x.approved - 1)
  PROVE  /\ x.approved \in DOMAIN history'[p]
         /\ history'[p][x.approved].status = "approved"
         /\ x.approval \in approvals(p, x.approved - 1)'
<1>1. \A n \in DOMAIN history[p] : n \in DOMAIN history'[p] /\ history'[p][n] = history[p][n]
  BY DEF Grows, TypeOK
<1>2. approvals(p, x.approved - 1) \subseteq approvals(p, x.approved - 1)'
  BY ApprovalsGrow DEF Grows
<1> QED BY <1>1, <1>2

-----------------------------------------------------------------------------
(* A step of the proposals keeps what is known of the changes.             *)
LEMMA ChangesKept ==
  ASSUME Inv, ProposalInv', Grows, UNCHANGED changeVars
  PROVE  ChangeInv'
<1>0. /\ TypeOK /\ TypeOK'
      /\ UNCHANGED <<experiments, isolations, candidates, promotions, bundles, destination,
                     receipts, rollbacks, step, task, changes>>
  BY DEF Inv, ProposalInv, changeVars, records
<1>1. ChangesTypeOK' /\ DOMAIN task' = Engineers
  BY <1>0 DEF Inv, ChangeInv, ChangesTypeOK
<1>2. RecordsGrow
  BY <1>0 DEF RecordsGrow, requested, Inv, ChangeInv, ChangesTypeOK
<1>3. EngineersFit'
  BY <1>0, <1>2, EngineersStable DEF Inv, ChangeInv, ChangesTypeOK, EngineersFit
<1>4. PendingDistinct' /\ ReceiptsMatchDestination'
  BY <1>0 DEF Inv, ChangeInv, PendingDistinct, ReceiptsMatchDestination
<1>5. ExperimentsKnown' /\ ExperimentIsApproved'
  <2> SUFFICES ASSUME NEW p \in Proposals, requested(p)
               PROVE  /\ experiments[p].approved \in DOMAIN history'[p]
                      /\ history'[p][experiments[p].approved].status = "approved"
                      /\ experiments[p].approval \in approvals(p, experiments[p].approved - 1)'
    BY <1>0 DEF ExperimentsKnown, ExperimentIsApproved, requested
  <2>1. PICK x : x = experiments[p]
    OBVIOUS
  <2>2. /\ x.approved \in DOMAIN history[p] /\ history[p][x.approved].status = "approved"
        /\ x.approval \in approvals(p, x.approved - 1)
    BY <2>1 DEF Inv, ChangeInv, ExperimentsKnown, ExperimentIsApproved
  <2>3. /\ x.approved \in DOMAIN history'[p] /\ history'[p][x.approved].status = "approved"
        /\ x.approval \in approvals(p, x.approved - 1)'
    BY <1>0, <2>2, ExperimentsStable
  <2> QED BY <1>0, <2>1, <2>3
<1> QED BY <1>1, <1>3, <1>4, <1>5 DEF ChangeInv

(* A step of engineer e that touches no proposal and no promotion: the     *)
(* receipts, the destination and the experiments' approvals are kept.      *)
LEMMA EngineerStep ==
  ASSUME Inv, NEW e \in Engineers, UNCHANGED <<proposalVars, destination, receipts, rollbacks>>,
         step' \in [Engineers -> Steps], DOMAIN task' = Engineers,
         task'[e].proposal \in Proposals \cup {NoProposal},
         EngineersKeep(e), EngineerFits(e)', step'[e] # "receipt",
         isolations' \subseteq Proposals, candidates' \subseteq Candidate,
         promotions' \subseteq PromotionReview, bundles' \subseteq PromotionReview,
         promotions \subseteq promotions', changes' \in 0 .. MaxChanges,
         experiments' \in [Proposals -> Experiment \cup {NoExperiment}],
         \A p \in Proposals : requested(p) => requested(p)',
         \A p \in Proposals : requested(p)' =>
           /\ experiments'[p].approved \in DOMAIN history[p]
           /\ history[p][experiments'[p].approved].status = "approved"
           /\ experiments'[p].approval \in approvals(p, experiments'[p].approved - 1)
  PROVE  Inv'
<1>0. /\ TypeOK /\ UNCHANGED <<history, reviews, told, pc, job, requests, crashes>>
      /\ destination \in Seq(PromotionReview) /\ destination' = destination
      /\ receipts' = receipts /\ rollbacks' = rollbacks
  BY DEF Inv, ProposalInv, ChangeInv, ChangesTypeOK, proposalVars, tables, counters
<1>1. ProposalInv' /\ TypeOK'
  BY <1>0 DEF Inv, ProposalInv, TypeOK, HistoriesLegal, OperatorsFit, OperatorFits,
              ApprovalsRecorded, Recorded, ToldTruly
<1>2. Grows
  BY <1>0 DEF Grows, TypeOK
<1>3. RecordsGrow
  BY <1>0 DEF RecordsGrow
<1>4. \A f \in Engineers : task'[f].proposal \in Proposals \cup {NoProposal}
  BY DEF Inv, ChangeInv, ChangesTypeOK, EngineersKeep
<1>5. ChangesTypeOK'
  BY <1>0, <1>1, <1>4 DEF Inv, ChangeInv, ChangesTypeOK
<1>6. EngineersFit'
  <2>1. PICK K \in SUBSET Engineers : K = Engineers \ {e}
    OBVIOUS
  <2>2. \A f \in K : EngineerFits(f)'
    BY <1>0, <1>1, <1>2, <1>3, <2>1, EngineersStable DEF Inv, ChangeInv, EngineersKeep
  <2> QED BY <2>1, <2>2 DEF EngineersFit
<1>7. PendingDistinct'
  BY DEF Inv, ChangeInv, PendingDistinct, EngineersKeep
<1>8. ExperimentsKnown' /\ ExperimentIsApproved'
  BY <1>0 DEF ExperimentsKnown, ExperimentIsApproved, approvals
<1>9. ReceiptsMatchDestination'
  BY <1>0 DEF Inv, ChangeInv, ReceiptsMatchDestination
<1> QED BY <1>1, <1>5, <1>6, <1>7, <1>8, <1>9 DEF Inv, ChangeInv

(* When e leaves the experiments alone, they are as approved as before.    *)
LEMMA SameExperiments ==
  ASSUME Inv, UNCHANGED experiments
  PROVE  /\ experiments' \in [Proposals -> Experiment \cup {NoExperiment}]
         /\ \A p \in Proposals : requested(p) => requested(p)'
         /\ \A p \in Proposals : requested(p)' =>
              /\ experiments'[p].approved \in DOMAIN history[p]
              /\ history[p][experiments'[p].approved].status = "approved"
              /\ experiments'[p].approval \in approvals(p, experiments'[p].approved - 1)
BY DEF Inv, ChangeInv, ChangesTypeOK, ExperimentsKnown, ExperimentIsApproved, requested

(* A call begins.                                                          *)
LEMMA CallBegins ==
  ASSUME Inv, NEW e \in Engineers, NEW l \in Steps, l # "receipt", NEW p \in Proposals,
         NEW n, NEW what, Call(e, l, p, n, what), UNCHANGED proposalVars,
         (step'[e] = l /\ task'[e] = [proposal |-> p, revision |-> n, what |-> what]
            /\ UNCHANGED <<proposalVars, records>>)
           => EngineerFits(e)'
  PROVE  Inv'
<1> DEFINE t == [proposal |-> p, revision |-> n, what |-> what]
<1>1. /\ Continue(e, l, t) /\ UNCHANGED records /\ changes' \in 0 .. MaxChanges
  BY ChangesAssumption DEF Call, Inv, ChangeInv, ChangesTypeOK
<1>2. t.proposal = p
  OBVIOUS
<1> HIDE DEF t
<1>3. /\ step' \in [Engineers -> Steps] /\ DOMAIN task' = Engineers
      /\ step'[e] = l /\ task'[e] = t /\ EngineersKeep(e)
  BY <1>1, ContinueFacts DEF Inv
<1>4. EngineerFits(e)'
  BY <1>1, <1>3 DEF t
<1>5. /\ UNCHANGED <<experiments, destination, receipts, rollbacks>>
      /\ isolations' \subseteq Proposals /\ candidates' \subseteq Candidate
      /\ promotions' \subseteq PromotionReview /\ bundles' \subseteq PromotionReview
      /\ promotions \subseteq promotions'
  BY <1>1 DEF records, Inv, ChangeInv, ChangesTypeOK
<1> QED BY <1>1, <1>2, <1>3, <1>4, <1>5, SameExperiments, EngineerStep

(* request_experiment resolves one exact approval of an approved revision. *)
LEMMA RequestStep ==
  ASSUME Inv, NEW e \in Engineers, NEW p \in Proposals, request_experiment(e, p),
         UNCHANGED proposalVars
  PROVE  Inv'
<1>1. PICK n \in DOMAIN history[p] : \E approval \in reviews, approver \in People :
        /\ resolve(p, n, approval)
        /\ Call(e, "create", p, n, [approval |-> approval, isolation |-> approver])
  BY DEF request_experiment
<1>2. PICK approval \in reviews, approver \in People :
        /\ resolve(p, n, approval)
        /\ Call(e, "create", p, n, [approval |-> approval, isolation |-> approver])
  BY <1>1
<1> DEFINE what == [approval |-> approval, isolation |-> approver]
<1>3. what.approval = approval /\ what.isolation = approver
  OBVIOUS
<1>4. history[p][n].status = "approved" /\ approval \in approvals(p, n - 1)
  BY <1>2 DEF resolve
<1>5. Call(e, "create", p, n, what) /\ "create" \in Steps
  BY <1>2 DEF Steps
<1> HIDE DEF what
<1>6. ASSUME step'[e] = "create",
             task'[e] = [proposal |-> p, revision |-> n, what |-> what]
      PROVE  EngineerFits(e)'
  <2>1. task'[e].proposal = p /\ task'[e].revision = n /\ task'[e].what = what
    BY <1>6
  <2>2. UNCHANGED <<history, reviews>>
    BY DEF proposalVars, tables
  <2>3. what.approval \in approvals(p, n - 1)'
    BY <1>3, <1>4, <2>2 DEF approvals
  <2> QED BY <1>3, <1>4, <1>6, <2>1, <2>2, <2>3 DEF EngineerFits
<1> QED BY <1>5, <1>6, CallBegins

(* change_transition checks the stage it reads.                            *)
LEMMA TransitionStep ==
  ASSUME Inv, NEW e \in Engineers, NEW p \in Proposals, NEW target \in Stages,
         change_transition(e, p, target), UNCHANGED proposalVars
  PROVE  Inv'
<1>1. PICK n : /\ n = experiments[p].revision /\ n < MaxStages /\ requested(p)
               /\ Call(e, "append", p, n, target) /\ "append" \in Steps
  BY DEF change_transition, Steps
<1>2. ASSUME step'[e] = "append",
             task'[e] = [proposal |-> p, revision |-> n, what |-> target],
             UNCHANGED records
      PROVE  EngineerFits(e)'
  BY <1>1, <1>2 DEF EngineerFits, requested, records
<1> QED BY <1>1, <1>2, CallBegins

(* A review names a proposal.                                              *)
LEMMA ReviewFacts ==
  ASSUME NEW r \in PromotionReview
  PROVE  r.candidate[1] \in Proposals
BY DEF PromotionReview, Candidate

(* approve_promotion and promote_governed_revision, of any review.         *)
LEMMA ReviewCallStep ==
  ASSUME Inv, NEW e \in Engineers, NEW r \in PromotionReview, UNCHANGED proposalVars,
         (\E a \in People : approve_promotion(e, r, a)) \/ promote_governed_revision(e, r)
  PROVE  Inv'
<1> PICK p \in Proposals : p = r.candidate[1]
  BY ReviewFacts
<1>1. PICK l \in {"record_review", "adapter"} : Call(e, l, p, 0, r)
  BY DEF approve_promotion, promote_governed_revision
<1>2. l \in Steps /\ l # "receipt"
  BY DEF Steps
<1> PICK x \in PromotionReview : x = r
  OBVIOUS
<1>3. ASSUME step'[e] = l, task'[e] = [proposal |-> p, revision |-> 0, what |-> x]
      PROVE  EngineerFits(e)'
  BY <1>3 DEF EngineerFits
<1> QED BY <1>1, <1>2, <1>3, CallBegins

(* record_rollback, of any receipt.                                        *)
LEMMA RollbackStep ==
  ASSUME Inv, NEW e \in Engineers, NEW r \in Receipt, record_rollback(e, r),
         UNCHANGED proposalVars
  PROVE  Inv'
<1>1. r.review.candidate[1] \in Proposals
  BY ReviewFacts DEF Receipt
<1> PICK p \in Proposals : p = r.review.candidate[1]
  BY <1>1
<1>2. Call(e, "rollback", p, 0, r) /\ "rollback" \in Steps
  BY DEF record_rollback, Steps
<1>3. ASSUME step'[e] = "rollback", task'[e] = [proposal |-> p, revision |-> 0, what |-> r]
      PROVE  EngineerFits(e)'
  BY <1>3 DEF EngineerFits
<1> QED BY <1>2, <1>3, CallBegins

-----------------------------------------------------------------------------
(* create_change_experiment writes the approval that was resolved, unless  *)
(* the experiment is there.                                                *)
LEMMA CreateStep ==
  ASSUME Inv, NEW e \in Engineers, create(e), UNCHANGED proposalVars
  PROVE  /\ Inv'
         /\ \A p \in Proposals : experiments'[p] # experiments[p] =>
              ~requested(p) /\ experiments'[p].stage = "requested"
<1>0. /\ EngineerFits(e) /\ step[e] = "create" /\ Return(e)
      /\ UNCHANGED <<isolations, candidates, promotions, bundles, destination, receipts,
                     rollbacks, changes>>
  BY DEF create, Inv, ChangeInv, EngineersFit
<1>1. /\ task[e].proposal \in Proposals
      /\ task[e].revision \in DOMAIN history[task[e].proposal]
      /\ history[task[e].proposal][task[e].revision].status = "approved"
      /\ task[e].what.approval \in approvals(task[e].proposal, task[e].revision - 1)
      /\ task[e].what.isolation \in People
  BY <1>0 DEF EngineerFits
<1> PICK p \in Proposals : p = task[e].proposal
  BY <1>1
<1> PICK n : n = task[e].revision
  OBVIOUS
<1> PICK a : a = task[e].what.approval
  OBVIOUS
<1> PICK i : i = task[e].what.isolation
  OBVIOUS
<1> DEFINE x == [approved |-> n, approval |-> a, isolation |-> i,
                 revision |-> 1, stage |-> "requested"]
<1>2. x \in Experiment
  <2>1. n \in Numbers
    BY <1>1 DEF Inv, ProposalInv, HistoriesLegal
  <2>2. a \in Review
    BY <1>1 DEF approvals, Inv, ProposalInv, TypeOK
  <2>3. 1 \in 1 .. MaxStages
    BY ChangesAssumption
  <2> QED BY <1>1, <2>1, <2>2, <2>3 DEF Experiment, Stages
<1>3. /\ x # NoExperiment /\ x.approved = n /\ x.approval = a /\ x.stage = "requested"
  BY <1>2, NoExperimentAssumption
<1> HIDE DEF x
<1>4. experiments' = IF requested(p) THEN experiments ELSE [experiments EXCEPT ![p] = x]
  BY DEF create, x
<1>5. /\ experiments' \in [Proposals -> Experiment \cup {NoExperiment}]
      /\ \A q \in Proposals : \/ experiments'[q] = experiments[q]
                              \/ q = p /\ ~requested(p) /\ experiments'[q] = x
  BY <1>2, <1>4 DEF Inv, ChangeInv, ChangesTypeOK
<1>6. \A q \in Proposals : requested(q) => requested(q)'
  BY <1>3, <1>5 DEF requested
<1>7. ASSUME NEW q \in Proposals, requested(q)'
      PROVE  /\ experiments'[q].approved \in DOMAIN history[q]
             /\ history[q][experiments'[q].approved].status = "approved"
             /\ experiments'[q].approval \in approvals(q, experiments'[q].approved - 1)
  <2>1. CASE experiments'[q] = experiments[q]
    BY <1>7, <2>1 DEF requested, Inv, ChangeInv, ExperimentsKnown, ExperimentIsApproved
  <2>2. CASE q = p /\ experiments'[q] = x
    BY <1>1, <1>3, <2>2
  <2> QED BY <1>5, <2>1, <2>2
<1>8. /\ step' \in [Engineers -> Steps] /\ DOMAIN task' = Engineers
      /\ step'[e] = "idle" /\ task'[e].proposal \in Proposals \cup {NoProposal}
      /\ EngineersKeep(e) /\ EngineerFits(e)'
  BY <1>0, ReturnFacts DEF Inv
<1>9. /\ isolations' \subseteq Proposals /\ candidates' \subseteq Candidate
      /\ promotions' \subseteq PromotionReview /\ bundles' \subseteq PromotionReview
      /\ promotions \subseteq promotions' /\ changes' \in 0 .. MaxChanges
  BY <1>0 DEF Inv, ChangeInv, ChangesTypeOK
<1>10. Inv'
  BY <1>0, <1>5, <1>6, <1>7, <1>8, <1>9, EngineerStep
<1> QED BY <1>3, <1>5, <1>10

(* append_change_experiment_revision moves the stage that was checked, and *)
(* keeps the approval.                                                     *)
LEMMA AppendRevisionStep ==
  ASSUME Inv, NEW e \in Engineers, append_revision(e), UNCHANGED proposalVars
  PROVE  /\ Inv'
         /\ \A p \in Proposals : experiments'[p] # experiments[p] =>
              can_transition(experiments[p].stage, experiments'[p].stage)
<1>0. /\ EngineerFits(e) /\ step[e] = "append" /\ Return(e)
      /\ UNCHANGED <<isolations, candidates, promotions, bundles, destination, receipts,
                     rollbacks, changes>>
  BY DEF append_revision, Inv, ChangeInv, EngineersFit
<1>1. /\ task[e].proposal \in Proposals /\ requested(task[e].proposal)
      /\ task[e].revision < MaxStages /\ task[e].what \in Stages
  BY <1>0 DEF EngineerFits
<1> PICK p \in Proposals, s \in Stages : p = task[e].proposal /\ s = task[e].what
  BY <1>1
<1>2. experiments[p] \in Experiment
  BY <1>1 DEF requested, Inv, ChangeInv, ChangesTypeOK
<1> DEFINE y == [experiments[p] EXCEPT !.revision = @ + 1, !.stage = s]
<1>3. CASE experiments' = experiments
  <2>1. /\ step' \in [Engineers -> Steps] /\ DOMAIN task' = Engineers
        /\ step'[e] = "idle" /\ task'[e].proposal \in Proposals \cup {NoProposal}
        /\ EngineersKeep(e) /\ EngineerFits(e)'
    BY <1>0, ReturnFacts DEF Inv
  <2>2. /\ isolations' \subseteq Proposals /\ candidates' \subseteq Candidate
        /\ promotions' \subseteq PromotionReview /\ bundles' \subseteq PromotionReview
        /\ promotions \subseteq promotions' /\ changes' \in 0 .. MaxChanges
    BY <1>0 DEF Inv, ChangeInv, ChangesTypeOK
  <2>3. Inv'
    BY <1>0, <1>3, <2>1, <2>2, SameExperiments, EngineerStep
  <2> QED BY <1>3, <2>3
<1>4. CASE /\ experiments[p].revision = task[e].revision
           /\ can_transition(experiments[p].stage, s)
           /\ experiments' = [experiments EXCEPT ![p].revision = @ + 1, ![p].stage = s]
  <2>1. /\ experiments \in [Proposals -> Experiment \cup {NoExperiment}]
        /\ experiments' = [experiments EXCEPT ![p] = y]
    BY <1>4 DEF Inv, ChangeInv, ChangesTypeOK
  <2>2. /\ y \in Experiment /\ y.approved = experiments[p].approved
        /\ y.approval = experiments[p].approval /\ y.stage = s
    <3>1. experiments[p].revision + 1 \in 1 .. MaxStages
      BY <1>1, <1>2, <1>4, ChangesAssumption DEF Experiment
    <3> QED BY <1>2, <3>1 DEF Experiment
  <2>3. y # NoExperiment
    BY <2>2, NoExperimentAssumption
  <2> HIDE DEF y
  <2>4. /\ experiments' \in [Proposals -> Experiment \cup {NoExperiment}]
        /\ \A q \in Proposals : \/ experiments'[q] = experiments[q]
                                \/ q = p /\ experiments'[q] = y
    BY <2>1, <2>2
  <2>5. \A q \in Proposals : requested(q) => requested(q)'
    BY <2>3, <2>4 DEF requested
  <2>6. ASSUME NEW q \in Proposals, requested(q)'
        PROVE  /\ experiments'[q].approved \in DOMAIN history[q]
               /\ history[q][experiments'[q].approved].status = "approved"
               /\ experiments'[q].approval \in approvals(q, experiments'[q].approved - 1)
    <3>1. CASE experiments'[q] = experiments[q]
      BY <2>6, <3>1 DEF requested, Inv, ChangeInv, ExperimentsKnown, ExperimentIsApproved
    <3>2. CASE q = p /\ experiments'[q] = y
      BY <1>1, <2>2, <3>2 DEF Inv, ChangeInv, ExperimentsKnown, ExperimentIsApproved
    <3> QED BY <2>4, <3>1, <3>2
  <2>7. /\ step' \in [Engineers -> Steps] /\ DOMAIN task' = Engineers
        /\ step'[e] = "idle" /\ task'[e].proposal \in Proposals \cup {NoProposal}
        /\ EngineersKeep(e) /\ EngineerFits(e)'
    BY <1>0, ReturnFacts DEF Inv
  <2>8. /\ isolations' \subseteq Proposals /\ candidates' \subseteq Candidate
        /\ promotions' \subseteq PromotionReview /\ bundles' \subseteq PromotionReview
        /\ promotions \subseteq promotions' /\ changes' \in 0 .. MaxChanges
    BY <1>0 DEF Inv, ChangeInv, ChangesTypeOK
  <2>9. Inv'
    BY <1>0, <2>4, <2>5, <2>6, <2>7, <2>8, EngineerStep
  <2> QED BY <1>4, <2>2, <2>4, <2>9
<1> QED BY <1>3, <1>4 DEF append_revision

(* Manifests, candidates and bundles: single inserts.                      *)
LEMMA InsertsStep ==
  ASSUME Inv, NEW e \in Engineers, UNCHANGED proposalVars,
         \/ \E p \in Proposals : \/ prepare_isolation(e, p)
                                 \/ \E patch \in Patches : capture_candidate(e, p, patch)
         \/ \E r \in PromotionReview : create_repository_bundle(e, r)
  PROVE  Inv' /\ UNCHANGED experiments
<1>1. /\ UNCHANGED <<experiments, promotions, destination, receipts, rollbacks, step, task>>
      /\ step[e] = "idle" /\ changes < MaxChanges /\ changes' = changes + 1
  BY DEF prepare_isolation, capture_candidate, create_repository_bundle
<1>2. isolations' \subseteq Proposals
  BY DEF prepare_isolation, capture_candidate, create_repository_bundle,
         Inv, ChangeInv, ChangesTypeOK
<1>3. candidates' \subseteq Candidate
  BY DEF prepare_isolation, capture_candidate, create_repository_bundle,
         Inv, ChangeInv, ChangesTypeOK, Candidate
<1>4. bundles' \subseteq PromotionReview
  BY DEF prepare_isolation, capture_candidate, create_repository_bundle,
         Inv, ChangeInv, ChangesTypeOK
<1>5. /\ step' \in [Engineers -> Steps] /\ DOMAIN task' = Engineers
      /\ task'[e].proposal \in Proposals \cup {NoProposal} /\ changes' \in 0 .. MaxChanges
      /\ promotions' \subseteq PromotionReview /\ promotions \subseteq promotions'
      /\ step'[e] = "idle"
  BY <1>1, ChangesAssumption DEF Inv, ChangeInv, ChangesTypeOK
<1>6. EngineersKeep(e) /\ EngineerFits(e)'
  BY <1>1 DEF EngineersKeep, EngineerFits
<1> QED BY <1>1, <1>2, <1>3, <1>4, <1>5, <1>6, SameExperiments, EngineerStep

(* record_change_promotion_review, and a call that ends early.             *)
LEMMA ReviewRecordedStep ==
  ASSUME Inv, NEW e \in Engineers, record_promotion_review(e) \/ abandon(e),
         UNCHANGED proposalVars
  PROVE  Inv' /\ UNCHANGED experiments
<1>1. /\ UNCHANGED <<experiments, isolations, candidates, bundles, destination, receipts,
                     rollbacks, changes>>
      /\ Return(e)
  BY DEF record_promotion_review, abandon, records
<1>2. promotions' \subseteq PromotionReview /\ promotions \subseteq promotions'
  <2>1. EngineerFits(e) /\ promotions \subseteq PromotionReview
    BY DEF Inv, ChangeInv, ChangesTypeOK, EngineersFit
  <2> QED BY <2>1 DEF record_promotion_review, abandon, records, EngineerFits
<1>3. /\ isolations' \subseteq Proposals /\ candidates' \subseteq Candidate
      /\ bundles' \subseteq PromotionReview /\ changes' \in 0 .. MaxChanges
  BY <1>1 DEF Inv, ChangeInv, ChangesTypeOK
<1>4. /\ step' \in [Engineers -> Steps] /\ DOMAIN task' = Engineers
      /\ step'[e] = "idle" /\ task'[e].proposal \in Proposals \cup {NoProposal}
      /\ EngineersKeep(e) /\ EngineerFits(e)'
  BY <1>1, ReturnFacts DEF Inv
<1> QED BY <1>1, <1>2, <1>3, <1>4, SameExperiments, EngineerStep

-----------------------------------------------------------------------------
(* A step of engineer e on the destination, the receipts or the rollbacks. *)
LEMMA PromotionStep ==
  ASSUME Inv, NEW e \in Engineers, UNCHANGED proposalVars,
         UNCHANGED <<experiments, isolations, candidates, promotions, bundles, changes>>,
         step' \in [Engineers -> Steps], DOMAIN task' = Engineers,
         task'[e].proposal \in Proposals \cup {NoProposal},
         EngineersKeep(e), EngineerFits(e)',
         destination' \in Seq(PromotionReview), Len(destination) <= Len(destination'),
         \A n \in DOMAIN destination : destination'[n] = destination[n],
         receipts' \subseteq Receipt, receipts \subseteq receipts', rollbacks' \subseteq Receipt,
         \A f \in Engineers \ {e} : step[f] = "receipt" =>
           \A r \in receipts' \ receipts : r.post # task[f].revision + 1,
         PendingDistinct', ReceiptsMatchDestination'
  PROVE  Inv'
<1>0. /\ TypeOK /\ UNCHANGED <<history, reviews, told, pc, job, requests, crashes>>
      /\ destination \in Seq(PromotionReview)
  BY DEF Inv, ProposalInv, ChangeInv, ChangesTypeOK, proposalVars, tables, counters
<1>1. ProposalInv' /\ TypeOK'
  BY <1>0 DEF Inv, ProposalInv, TypeOK, HistoriesLegal, OperatorsFit, OperatorFits,
              ApprovalsRecorded, Recorded, ToldTruly
<1>2. Grows
  BY <1>0 DEF Grows, TypeOK
<1>3. RecordsGrow
  BY <1>0 DEF RecordsGrow, requested
<1>4. \A f \in Engineers : task'[f].proposal \in Proposals \cup {NoProposal}
  BY DEF Inv, ChangeInv, ChangesTypeOK, EngineersKeep
<1>5. ChangesTypeOK'
  BY <1>0, <1>1, <1>4 DEF Inv, ChangeInv, ChangesTypeOK
<1>6. EngineersFit'
  <2>1. PICK K \in SUBSET Engineers : K = Engineers \ {e}
    OBVIOUS
  <2>2. \A f \in K : EngineerFits(f)'
    BY <1>0, <1>1, <1>2, <1>3, <2>1, EngineersStable DEF Inv, ChangeInv, EngineersKeep
  <2> QED BY <2>1, <2>2 DEF EngineersFit
<1>7. ExperimentsKnown' /\ ExperimentIsApproved'
  BY <1>0 DEF Inv, ChangeInv, ExperimentsKnown, ExperimentIsApproved, approvals, requested
<1> QED BY <1>1, <1>5, <1>6, <1>7 DEF Inv, ChangeInv

(* The destination appends the review it is given; the engineer is then    *)
(* the only one with a receipt due for that revision.                      *)
LEMMA DestinationStep ==
  ASSUME Inv, NEW e \in Engineers, append_verified_revision(e), UNCHANGED proposalVars
  PROVE  Inv' /\ UNCHANGED experiments
<1>0. /\ EngineerFits(e) /\ step[e] = "adapter"
      /\ UNCHANGED <<experiments, isolations, candidates, promotions, bundles, receipts,
                     rollbacks, changes>>
      /\ destination \in Seq(PromotionReview)
      /\ receipts \subseteq Receipt /\ rollbacks \subseteq Receipt
      /\ task[e].proposal \in Proposals \cup {NoProposal}
      /\ ReceiptsMatchDestination /\ PendingDistinct /\ EngineersFit
  BY DEF append_verified_revision, Inv, ChangeInv, ChangesTypeOK, EngineersFit
<1>1. task[e].what \in PromotionReview
  BY <1>0 DEF EngineerFits
<1>2. CASE /\ destination' = Append(destination, task[e].what)
           /\ Continue(e, "receipt", [proposal |-> task[e].proposal,
                                     revision |-> Len(destination), what |-> task[e].what])
  <2> PICK n \in Nat, x \in PromotionReview : n = Len(destination) /\ x = task[e].what
    BY <1>0, <1>1
  <2> PICK t : t = [proposal |-> task[e].proposal, revision |-> Len(destination),
                    what |-> task[e].what]
    OBVIOUS
  <2>0. t.proposal \in Proposals \cup {NoProposal} /\ t.revision = n /\ t.what = x
    BY <1>0
  <2>1. /\ step' \in [Engineers -> Steps] /\ DOMAIN task' = Engineers
        /\ step'[e] = "receipt" /\ task'[e] = t /\ EngineersKeep(e)
    BY <1>2, ContinueFacts DEF Inv, Steps
  <2>2. /\ destination' \in Seq(PromotionReview) /\ Len(destination') = n + 1
        /\ DOMAIN destination = 1 .. n /\ DOMAIN destination' = 1 .. (n + 1)
        /\ \A k \in DOMAIN destination : destination'[k] = destination[k]
        /\ destination'[n + 1] = x
    BY <1>0, <1>2
  <2>3. \A r \in receipts : r.post \in DOMAIN destination /\ r.post # n + 1
    BY <1>0, <2>2 DEF ReceiptsMatchDestination
  <2>4. EngineerFits(e)'
    <3>1. t.revision + 1 \in DOMAIN destination'
      BY <2>0, <2>2
    <3> QED BY <1>0, <2>0, <2>1, <2>2, <2>3, <3>1 DEF EngineerFits
  <2>5. \A f \in Engineers \ {e} : step[f] = "receipt" => task[f].revision # n
    <3>1. \A f \in Engineers \ {e} : step[f] = "receipt" =>
            task[f].revision \in Nat /\ task[f].revision + 1 \in 1 .. n
      BY <1>0, <2>2 DEF EngineersFit, EngineerFits
    <3> QED BY <3>1
  <2>6. PendingDistinct'
    <3>1. task'[e].revision = n
      BY <2>0, <2>1
    <3> QED BY <1>0, <2>1, <2>5, <3>1 DEF PendingDistinct, EngineersKeep
  <2>7. ReceiptsMatchDestination'
    <3>1. \A k \in DOMAIN destination : k \in DOMAIN destination'
      BY <2>2
    <3> QED BY <1>0, <2>2, <3>1 DEF ReceiptsMatchDestination
  <2>8. Len(destination) <= Len(destination')
    BY <2>2
  <2> QED BY <1>0, <2>0, <2>1, <2>2, <2>4, <2>6, <2>7, <2>8, PromotionStep
<1>3. CASE Return(e) /\ UNCHANGED destination
  <2>1. /\ step' \in [Engineers -> Steps] /\ DOMAIN task' = Engineers
        /\ step'[e] = "idle" /\ task'[e].proposal \in Proposals \cup {NoProposal}
        /\ EngineersKeep(e) /\ EngineerFits(e)'
    BY <1>3, ReturnFacts DEF Inv
  <2>2. /\ isolations' \subseteq Proposals /\ candidates' \subseteq Candidate
        /\ promotions' \subseteq PromotionReview /\ bundles' \subseteq PromotionReview
        /\ promotions \subseteq promotions' /\ changes' \in 0 .. MaxChanges
    BY <1>0 DEF Inv, ChangeInv, ChangesTypeOK
  <2> QED BY <1>0, <1>3, <2>1, <2>2, SameExperiments, EngineerStep
<1> QED BY <1>2, <1>3 DEF append_verified_revision

(* The receipt of an appended revision is refused unless its review is     *)
(* recorded and has none yet.                                              *)
LEMMA ReceiptStep ==
  ASSUME Inv, NEW e \in Engineers, record_promotion(e), UNCHANGED proposalVars
  PROVE  Inv' /\ UNCHANGED experiments
<1>0. /\ EngineerFits(e) /\ step[e] = "receipt" /\ Return(e)
      /\ UNCHANGED <<experiments, isolations, candidates, promotions, bundles, destination,
                     rollbacks, changes>>
      /\ destination \in Seq(PromotionReview) /\ promotions \subseteq PromotionReview
      /\ receipts \subseteq Receipt /\ rollbacks \subseteq Receipt
      /\ ReceiptsMatchDestination /\ PendingDistinct /\ EngineersFit
  BY DEF record_promotion, Inv, ChangeInv, ChangesTypeOK, EngineersFit
<1>1. /\ task[e].what \in PromotionReview /\ task[e].revision \in Nat
      /\ task[e].revision + 1 \in DOMAIN destination
      /\ destination[task[e].revision + 1] = task[e].what
      /\ \A s \in receipts : s.post # task[e].revision + 1
  BY <1>0 DEF EngineerFits
<1> PICK n \in Nat, x \in PromotionReview : n = task[e].revision /\ x = task[e].what
  BY <1>0, <1>1
<1> DEFINE r == [review |-> x, pre |-> n, post |-> n + 1]
<1>2. r \in Receipt /\ r.review = x /\ r.pre = n /\ r.post = n + 1
  BY DEF Receipt
<1> HIDE DEF r
<1>3. /\ step' \in [Engineers -> Steps] /\ DOMAIN task' = Engineers
      /\ step'[e] = "idle" /\ task'[e].proposal \in Proposals \cup {NoProposal}
      /\ EngineersKeep(e) /\ EngineerFits(e)'
  BY <1>0, ReturnFacts DEF Inv
<1>4. \/ receipts' = receipts
      \/ receipts' = receipts \cup {r} /\ x \in promotions /\ \A s \in receipts : s.review # x
  BY DEF record_promotion, r
<1>5. PendingDistinct'
  BY <1>0, <1>3 DEF PendingDistinct, EngineersKeep
<1>6. \A f \in Engineers \ {e} : step[f] = "receipt" =>
        \A s \in receipts' \ receipts : s.post # task[f].revision + 1
  <2> SUFFICES ASSUME NEW f \in Engineers \ {e}, step[f] = "receipt"
               PROVE  n + 1 # task[f].revision + 1
    BY <1>2, <1>4
  <2>1. task[f].revision # n /\ task[f].revision \in Nat
    BY <1>0 DEF PendingDistinct, EngineersFit, EngineerFits
  <2> QED BY <2>1
<1>7. ReceiptsMatchDestination'
  <2>1. CASE receipts' = receipts
    BY <1>0, <2>1 DEF ReceiptsMatchDestination
  <2>2. CASE /\ receipts' = receipts \cup {r}
             /\ x \in promotions /\ \A s \in receipts : s.review # x
    <3>1. \A s \in receipts' : s \in receipts \/ s = r
      BY <2>2
    <3>2. \A s \in receipts : s.review # r.review /\ s.post # r.post
      BY <1>1, <1>2, <2>2
    <3>3. /\ r.review \in promotions
          /\ r.post = r.pre + 1 /\ r.post \in DOMAIN destination /\ destination[r.post] = r.review
      BY <1>1, <1>2, <2>2
    <3>4. \A s \in receipts' : /\ s.review \in promotions
                               /\ s.post = s.pre + 1 /\ s.post \in DOMAIN destination
                               /\ destination[s.post] = s.review
      BY <1>0, <3>1, <3>3 DEF ReceiptsMatchDestination
    <3>5. \A s, u \in receipts' : s.review = u.review \/ s.post = u.post => s = u
      BY <1>0, <3>1, <3>2 DEF ReceiptsMatchDestination
    <3> QED BY <1>0, <3>4, <3>5 DEF ReceiptsMatchDestination
  <2> QED BY <1>4, <2>1, <2>2
<1>8. /\ receipts' \subseteq Receipt /\ receipts \subseteq receipts' /\ rollbacks' \subseteq Receipt
      /\ destination' \in Seq(PromotionReview) /\ Len(destination) <= Len(destination')
      /\ \A k \in DOMAIN destination : destination'[k] = destination[k]
  BY <1>0, <1>2, <1>4
<1> QED BY <1>0, <1>3, <1>5, <1>6, <1>7, <1>8, PromotionStep

(* The row of a rollback touches no receipt.                               *)
LEMMA RollbackRecordedStep ==
  ASSUME Inv, NEW e \in Engineers, record(e), UNCHANGED proposalVars
  PROVE  Inv' /\ UNCHANGED experiments
<1>0. /\ EngineerFits(e) /\ step[e] = "rollback" /\ Return(e)
      /\ rollbacks' = rollbacks \/ rollbacks' = rollbacks \cup {task[e].what}
      /\ UNCHANGED <<experiments, isolations, candidates, promotions, bundles, destination,
                     receipts, changes>>
      /\ destination \in Seq(PromotionReview) /\ receipts \subseteq Receipt
      /\ rollbacks \subseteq Receipt /\ ReceiptsMatchDestination /\ PendingDistinct
  BY DEF record, Inv, ChangeInv, ChangesTypeOK, EngineersFit
<1>1. task[e].what \in Receipt
  BY <1>0 DEF EngineerFits
<1>2. /\ step' \in [Engineers -> Steps] /\ DOMAIN task' = Engineers
      /\ step'[e] = "idle" /\ task'[e].proposal \in Proposals \cup {NoProposal}
      /\ EngineersKeep(e) /\ EngineerFits(e)'
  BY <1>0, ReturnFacts DEF Inv
<1>3. PendingDistinct'
  BY <1>0, <1>2 DEF PendingDistinct, EngineersKeep
<1>4. ReceiptsMatchDestination' /\ rollbacks' \subseteq Receipt
  BY <1>0, <1>1 DEF ReceiptsMatchDestination
<1>5. /\ destination' \in Seq(PromotionReview) /\ Len(destination) <= Len(destination')
      /\ \A k \in DOMAIN destination : destination'[k] = destination[k]
  BY <1>0
<1> QED BY <1>0, <1>2, <1>3, <1>4, <1>5, PromotionStep

-----------------------------------------------------------------------------
(* A history one longer is the history followed by the new revision.       *)
LEMMA PrefixKept ==
  ASSUME NEW S, NEW s \in Seq(S), NEW r \in S
  PROVE  SubSeq(Append(s, r), 1, Len(s)) = s
<1> DEFINE t == SubSeq(Append(s, r), 1, Len(s))
<1>1. Append(s, r) \in Seq(S) /\ Len(Append(s, r)) = Len(s) + 1 /\ Len(s) \in Nat
  OBVIOUS
<1>2. \A i \in 1 .. Len(s) : Append(s, r)[i] = s[i] /\ Append(s, r)[i] \in S
  OBVIOUS
<1>3. /\ t \in Seq(S) /\ Len(t) = (IF 1 <= Len(s) THEN Len(s) - 1 + 1 ELSE 0)
      /\ \A i \in 1 .. (Len(s) - 1 + 1) : t[i] = Append(s, r)[1 + i - 1]
  BY <1>1, <1>2, SubSeqProperties
<1>4. Len(t) = Len(s) /\ \A i \in 1 .. Len(s) : t[i] = s[i]
  <2>1. Len(s) - 1 + 1 = Len(s) /\ \A i \in 1 .. Len(s) : 1 + i - 1 = i
    BY <1>1
  <2>2. Len(t) = Len(s)
    BY <1>1, <1>3
  <2> HIDE DEF t
  <2> QED BY <1>2, <1>3, <2>1, <2>2
<1> HIDE DEF t
<1> QED BY <1>3, <1>4, SeqEqual DEF t

(* A step of an engineer preserves the invariant, and an experiment moves  *)
(* by one legal transition.                                                *)
LEMMA ChangeStep ==
  ASSUME Inv, ChangeNext, UNCHANGED proposalVars
  PROVE  /\ Inv'
         /\ \A p \in Proposals : experiments'[p] # experiments[p] =>
              \/ ~requested(p) /\ experiments'[p].stage = "requested"
              \/ can_transition(experiments[p].stage, experiments'[p].stage)
<1>1. PICK e \in Engineers :
        \/ \E p \in Proposals :
             \/ request_experiment(e, p)
             \/ \E target \in Stages : change_transition(e, p, target)
             \/ prepare_isolation(e, p)
             \/ \E patch \in Patches : capture_candidate(e, p, patch)
        \/ \E r \in PromotionReview :
             \/ \E a \in People : approve_promotion(e, r, a)
             \/ create_repository_bundle(e, r)
             \/ promote_governed_revision(e, r)
             \/ \E n \in 0 .. Len(destination) :
                  record_rollback(e, [review |-> r, pre |-> n, post |-> n + 1])
        \/ create(e) \/ append_revision(e) \/ record_promotion_review(e)
        \/ append_verified_revision(e) \/ record_promotion(e) \/ record(e)
        \/ abandon(e)
  BY DEF ChangeNext
<1>2. CASE \/ \E p \in Proposals : \/ request_experiment(e, p)
                                   \/ \E target \in Stages : change_transition(e, p, target)
           \/ \E r \in PromotionReview :
                \/ \E a \in People : approve_promotion(e, r, a)
                \/ promote_governed_revision(e, r)
           \/ \E r \in Receipt : record_rollback(e, r)
  <2>1. Inv'
    BY <1>2, RequestStep, TransitionStep, ReviewCallStep, RollbackStep
  <2>2. UNCHANGED experiments
    BY <1>2 DEF request_experiment, change_transition, approve_promotion,
                promote_governed_revision, record_rollback, Call, records
  <2> QED BY <2>1, <2>2
<1>3. CASE \/ \E p \in Proposals : \/ prepare_isolation(e, p)
                                   \/ \E patch \in Patches : capture_candidate(e, p, patch)
           \/ \E r \in PromotionReview : create_repository_bundle(e, r)
  BY <1>3, InsertsStep
<1>4. CASE create(e) \/ append_revision(e)
  BY <1>4, CreateStep, AppendRevisionStep
<1>5. CASE \/ record_promotion_review(e) \/ abandon(e) \/ append_verified_revision(e)
           \/ record_promotion(e) \/ record(e)
  BY <1>5, ReviewRecordedStep, DestinationStep, ReceiptStep, RollbackRecordedStep
<1>6. \A r \in PromotionReview, n \in 0 .. Len(destination) :
        [review |-> r, pre |-> n, post |-> n + 1] \in Receipt
  BY DEF Receipt
<1> QED BY <1>1, <1>2, <1>3, <1>4, <1>5, <1>6

(* Every step of the composition preserves the invariant.                  *)
LEMMA InvNext == Inv /\ [Next]_vars => Inv'
<1> SUFFICES ASSUME Inv, [Next]_vars PROVE Inv'
  OBVIOUS
<1>1. CASE ProposalNext /\ UNCHANGED changeVars
  BY <1>1, ProposalStep, ChangesKept DEF Inv
<1>2. CASE ChangeNext /\ UNCHANGED proposalVars
  BY <1>2, ChangeStep
<1>3. CASE UNCHANGED vars
  <2>1. UNCHANGED <<history, reviews, told, pc, job, requests, crashes>> /\ UNCHANGED changeVars
    BY <1>3 DEF vars, proposalVars, tables, counters
  <2>2. ProposalInv'
    BY <2>1 DEF Inv, ProposalInv, TypeOK, HistoriesLegal, OperatorsFit, OperatorFits,
                ApprovalsRecorded, Recorded, ToldTruly
  <2>3. Grows
    BY <2>1 DEF Inv, ProposalInv, TypeOK, Grows
  <2> QED BY <2>1, <2>2, <2>3, ChangesKept DEF Inv
<1> QED BY <1>1, <1>2, <1>3 DEF Next

-----------------------------------------------------------------------------
(* The histories we may start from.                                        *)
LEMMA StagedFacts ==
  ASSUME NEW o \in Operators
  PROVE  /\ Staged(o) \in Seq(Revision) /\ Len(Staged(o)) = 3 /\ DOMAIN Staged(o) = 1 .. 3
         /\ Staged(o)[1].status = "generated" /\ Staged(o)[2].status = "validated"
         /\ Staged(o)[3].status = "staged"
<1>1. \A n \in 1 .. 3 : <<"generated", "validated", "staged">>[n] \in Statuses
  BY DEF Statuses
<1>2. Staged(o) \in [1 .. 3 -> Revision]
  BY <1>1 DEF Staged, Revision
<1>3. Staged(o) \in Seq(Revision) /\ Len(Staged(o)) = 3 /\ DOMAIN Staged(o) = 1 .. 3
  BY <1>2
<1>4. /\ Staged(o)[1].status = "generated" /\ Staged(o)[2].status = "validated"
      /\ Staged(o)[3].status = "staged"
  BY DEF Staged
<1> QED BY <1>3, <1>4

(* The history of an approved proposal.                                    *)
LEMMA ApprovedFacts ==
  ASSUME NEW o \in Operators
  PROVE  /\ Approved(o) \in Seq(Revision) /\ DOMAIN Approved(o) = 1 .. 4
         /\ Approved(o)[1].status = "generated" /\ Approved(o)[2].status = "validated"
         /\ Approved(o)[3].status = "staged"
         /\ Approved(o)[4].status = "approved" /\ Approved(o)[4].by = o
<1> DEFINE r == [status |-> "approved", by |-> o]
           s == Staged(o)
<1>1. r \in Revision /\ r.status = "approved" /\ r.by = o
  BY DEF Revision, Statuses
<1>2. s \in Seq(Revision) /\ Len(s) = 3 /\ Approved(o) = Append(s, r)
  BY StagedFacts DEF Approved
<1> HIDE DEF r, s
<1>3. /\ Approved(o) \in Seq(Revision) /\ DOMAIN Approved(o) = 1 .. 4
      /\ Approved(o)[1] = s[1] /\ Approved(o)[2] = s[2] /\ Approved(o)[3] = s[3]
      /\ Approved(o)[4] = r
  <2>1. /\ Append(s, r) \in Seq(Revision) /\ Len(Append(s, r)) = 4
        /\ Append(s, r)[4] = r
        /\ \A n \in 1 .. 3 : Append(s, r)[n] = s[n]
    <3>1. /\ Append(s, r) \in Seq(Revision) /\ Len(Append(s, r)) = Len(s) + 1
          /\ Append(s, r)[Len(s) + 1] = r
          /\ \A n \in 1 .. Len(s) : Append(s, r)[n] = s[n]
      <4>1. r \in Revision /\ s \in Seq(Revision)
        BY <1>1, <1>2
      <4> QED BY <4>1, SMT
    <3>2. Len(s) + 1 = 4 /\ Len(s) = 3
      BY <1>2
    <3> QED BY <3>1, <3>2, Zenon
  <2>2. DOMAIN Append(s, r) = 1 .. 4
    BY <2>1
  <2>3. 1 \in 1 .. 3 /\ 2 \in 1 .. 3 /\ 3 \in 1 .. 3
    OBVIOUS
  <2> QED BY <1>2, <2>1, <2>2, <2>3
<1> QED BY <1>1, <1>3, StagedFacts DEF s

(* A history that begins as it should is legal and, when it is approved,   *)
(* was approved by a recorded review.                                      *)
LEMMA StartLegal ==
  ASSUME NEW h,
         \/ h = <<>>
         \/ \E o \in Operators : h = Staged(o) \/ h = Approved(o)
  PROVE  /\ h \in Seq(Revision)
         /\ \A n \in DOMAIN h :
              /\ n \in Numbers /\ h[n].status \in Positions[n]
              /\ n > 1 => <<h[n - 1].status, h[n].status>> \in Legal
<1>1. CASE h = <<>>
  BY <1>1
<1>2. ASSUME NEW o \in Operators, h = Staged(o) \/ h = Approved(o)
      PROVE  /\ h \in Seq(Revision)
             /\ \A n \in DOMAIN h :
                  /\ n \in Numbers /\ h[n].status \in Positions[n]
                  /\ n > 1 => <<h[n - 1].status, h[n].status>> \in Legal
  <2>1. /\ h \in Seq(Revision) /\ DOMAIN h \subseteq 1 .. 4
        /\ h[1].status = "generated" /\ h[2].status = "validated" /\ h[3].status = "staged"
        /\ 4 \in DOMAIN h => h[4].status = "approved"
    <3>1. 1 .. 3 \subseteq 1 .. 4 /\ ~(4 \in 1 .. 3)
      OBVIOUS
    <3>2. CASE h = Staged(o)
      BY <3>1, <3>2, StagedFacts
    <3>3. CASE h = Approved(o)
      BY <3>3, ApprovedFacts
    <3> QED BY <1>2, <3>2, <3>3
  <2>2. /\ <<"generated", "validated">> \in Legal /\ <<"validated", "staged">> \in Legal
        /\ <<"staged", "approved">> \in Legal
    BY DEF Legal
  <2>3. /\ "generated" \in Positions[1] /\ "validated" \in Positions[2]
        /\ "staged" \in Positions[3] /\ "approved" \in Positions[4]
    BY DEF Positions, Numbers
  <2>4. \A n \in DOMAIN h : n = 1 \/ n = 2 \/ n = 3 \/ n = 4
    BY <2>1
  <2>5. 2 - 1 = 1 /\ 3 - 1 = 2 /\ 4 - 1 = 3 /\ ~(1 > 1)
    OBVIOUS
  <2>6. 1 .. 4 \subseteq Numbers
    BY DEF Numbers
  <2> QED BY <2>1, <2>2, <2>3, <2>4, <2>5, <2>6
<1> QED BY <1>1, <1>2

(* Nobody works at the start.                                              *)
LEMMA QuietFacts ==
  ASSUME Quiet
  PROVE  /\ pc \in [Operators -> PCs] /\ job \in [Operators -> Job] /\ told \subseteq Event
         /\ requests \in 0 .. MaxRequests /\ crashes \in 0 .. MaxCrashes
         /\ OperatorsFit /\ ToldTruly
<1>1. \A o \in Operators : pc[o] = "idle"
  BY DEF Quiet
<1> QED
  BY <1>1, IdleType, ProposalsAssumption DEF Quiet, PCs, OperatorsFit, OperatorFits, ToldTruly

(* The invariant holds initially.                                          *)
LEMMA InvInit == ChangesInit => Inv
<1> SUFFICES ASSUME ChangesInit PROVE Inv
  OBVIOUS
<1>0. /\ bundles = {} /\ destination = <<>> /\ receipts = {}
      /\ rollbacks = {} /\ step = [e \in Engineers |-> "idle"]
      /\ task = [e \in Engineers |-> NoTask] /\ changes = 0 /\ Quiet
  BY DEF ChangesInit, Init
<1>1. ASSUME TypeOK, HistoriesLegal, ApprovalsRecorded, OperatorsFit, ToldTruly,
             experiments \in [Proposals -> Experiment \cup {NoExperiment}],
             isolations \subseteq Proposals, candidates \subseteq Candidate,
             promotions \subseteq PromotionReview, ExperimentsKnown, ExperimentIsApproved
      PROVE  Inv
  <2>1. \A e \in Engineers : step[e] = "idle" /\ task[e].proposal = NoProposal
    BY <1>0 DEF NoTask
  <2>2. DOMAIN task = Engineers /\ step \in [Engineers -> Steps]
    BY <1>0 DEF Steps
  <2>3. /\ bundles \subseteq PromotionReview
        /\ destination \in Seq(PromotionReview) /\ receipts \subseteq Receipt
        /\ rollbacks \subseteq Receipt /\ changes \in 0 .. MaxChanges
    BY <1>0, ChangesAssumption
  <2>4. ChangesTypeOK
    BY <1>1, <2>1, <2>2, <2>3 DEF ChangesTypeOK
  <2>5. EngineersFit /\ PendingDistinct
    BY <2>1 DEF EngineersFit, EngineerFits, PendingDistinct
  <2>6. ReceiptsMatchDestination
    BY <1>0 DEF ReceiptsMatchDestination
  <2> QED BY <1>1, <2>2, <2>4, <2>5, <2>6 DEF Inv, ProposalInv, ChangeInv
<1>2. CASE /\ Init /\ experiments = [p \in Proposals |-> NoExperiment]
           /\ isolations = {} /\ candidates = {} /\ promotions = {}
  <2>1. PICK o \in Operators : history \in [Proposals -> {<<>>, Staged(o)}]
    BY <1>2 DEF Init
  <2>2. \A p \in Proposals : history[p] = <<>> \/ history[p] = Staged(o)
    BY <2>1
  <2>3. HistoriesLegal /\ history \in [Proposals -> Seq(Revision)]
    BY <2>1, <2>2, StartLegal DEF HistoriesLegal
  <2>4. TypeOK
    BY <1>0, <1>2, <2>3, QuietFacts DEF Init, TypeOK
  <2>5. ApprovalsRecorded
    <3>1. \A p \in Proposals : \A n \in DOMAIN history[p] : history[p][n].status # "approved"
      <4>1. \A n \in DOMAIN Staged(o) : n = 1 \/ n = 2 \/ n = 3
        BY StagedFacts
      <4> QED BY <2>2, <4>1, StagedFacts
    <3> QED BY <3>1 DEF ApprovalsRecorded
  <2>6. ExperimentsKnown /\ ExperimentIsApproved
    BY <1>2 DEF ExperimentsKnown, ExperimentIsApproved, requested
  <2> QED BY <1>0, <1>1, <1>2, <2>3, <2>4, <2>5, <2>6, QuietFacts
<1>3. ASSUME NEW o \in Operators, NEW a \in People, NEW b \in People, NEW patch \in Patches,
             history = [p \in Proposals |-> Approved(o)],
             reviews = {approval_by(p, o) : p \in Proposals},
             experiments = [p \in Proposals |->
               [approved |-> 4, approval |-> approval_by(p, o), isolation |-> a,
                revision |-> 7, stage |-> "eligible"]],
             isolations = Proposals, candidates = Proposals \X {patch},
             promotions = {[candidate |-> <<p, patch>>, approver |-> b] :
                             p \in {q \in Proposals : Tier[q] # 3}}
      PROVE  Inv
  <2>1. \A p \in Proposals : history[p] = Approved(o)
    BY <1>3
  <2>2. HistoriesLegal /\ history \in [Proposals -> Seq(Revision)]
    BY <1>3, <2>1, StartLegal DEF HistoriesLegal
  <2>3. \A p \in Proposals : approval_by(p, o) \in Review /\ approval_by(p, o) \in reviews
    BY <1>3 DEF approval_by, Review, Numbers, Decisions
  <2>4. TypeOK
    BY <1>0, <1>3, <2>2, <2>3, QuietFacts DEF TypeOK
  <2>5. ApprovalsRecorded
    <3>1. \A n \in DOMAIN Approved(o) : n = 1 \/ n = 2 \/ n = 3 \/ n = 4
      BY ApprovedFacts
    <3>2. \A n \in DOMAIN Approved(o) :
            Approved(o)[n].status = "approved" => n - 1 = 3 /\ Approved(o)[n].by = o
      BY <3>1, ApprovedFacts
    <3>3. \A p \in Proposals : Recorded(p, 3, o)
      BY <2>3 DEF Recorded, approval_by
    <3> QED BY <2>1, <3>2, <3>3 DEF ApprovalsRecorded
  <2>6. 7 \in 1 .. MaxStages /\ "eligible" \in Stages
    BY ChangesAssumption DEF Stages
  <2>7. \A p \in Proposals : /\ experiments[p] \in Experiment
                             /\ experiments[p].approved = 4
                             /\ experiments[p].approval = approval_by(p, o)
    BY <1>3, <2>3, <2>6 DEF Experiment, Numbers
  <2>8. experiments \in [Proposals -> Experiment \cup {NoExperiment}]
    BY <1>3, <2>7
  <2>9. \A p \in Proposals : approval_by(p, o) \in approvals(p, 4 - 1)
    BY <2>3 DEF approvals, approval_by
  <2>10. ExperimentsKnown /\ ExperimentIsApproved
    BY <2>1, <2>7, <2>9, ApprovedFacts DEF ExperimentsKnown, ExperimentIsApproved
  <2>11. isolations \subseteq Proposals /\ candidates \subseteq Candidate
    BY <1>3 DEF Candidate
  <2>12. promotions \subseteq PromotionReview
    <3>1. \A p \in Proposals :
            [candidate |-> <<p, patch>>, approver |-> b] \in PromotionReview
      BY DEF PromotionReview, Candidate
    <3> QED BY <1>3, <3>1
  <2> QED BY <1>0, <1>1, <2>2, <2>4, <2>5, <2>8, <2>10, <2>11, <2>12, QuietFacts
<1> QED BY <1>2, <1>3 DEF ChangesInit

(* The inductive invariant is an invariant of the composition.             *)
LEMMA Invariance == Spec => []Inv
BY InvInit, InvNext, PTL DEF Spec

(* Type correctness of the proposals and the changes.  In particular a     *)
(* proposal never has more than five revisions, without a guard that says  *)
(* so: _LEGAL_TRANSITIONS has no longer path.                              *)
THEOREM TypeCorrect == Spec => []ChangesTypeOK
<1>1. Inv => ChangesTypeOK
  BY DEF Inv, ChangeInv
<1> QED BY <1>1, Invariance, PTL

(* An approved revision carries the approval of the reviewer who wrote it, *)
(* of the staged revision before it, and no approval is announced that was *)
(* not given.                                                              *)
THEOREM ApprovalsReviewed == Spec => []ApprovalIsReviewed
<1>1. ASSUME Inv PROVE ApprovalIsReviewed
  <2> SUFFICES ASSUME NEW p \in Proposals
               PROVE  /\ \A n \in DOMAIN history[p] :
                           history[p][n].status = "approved" =>
                             /\ history[p][n - 1].status = "staged"
                             /\ \E r \in approvals(p, n - 1) : r.reviewer = history[p][n].by
                      /\ \A e \in told : e.stream = p /\ e.type = "approved" =>
                                            history[p][e.revision].status = "approved"
    BY DEF ApprovalIsReviewed
  <2>1. ASSUME NEW n \in DOMAIN history[p], history[p][n].status = "approved"
        PROVE  /\ history[p][n - 1].status = "staged"
               /\ \E r \in approvals(p, n - 1) : r.reviewer = history[p][n].by
    <3>1. n \in Numbers /\ "approved" \in Positions[n] /\ Recorded(p, n - 1, history[p][n].by)
          /\ (n > 1 => <<history[p][n - 1].status, "approved">> \in Legal)
      BY <1>1, <2>1 DEF Inv, ProposalInv, HistoriesLegal, ApprovalsRecorded
    <3>2. n > 1
      BY <3>1 DEF Positions, Numbers
    <3>3. history[p][n - 1].status = "staged"
      BY <3>1, <3>2 DEF Legal, Terminal
    <3> DEFINE r == [proposal |-> p, revision |-> n - 1, reviewer |-> history[p][n].by,
                     decision |-> "approve"]
    <3>4. r \in approvals(p, n - 1) /\ r.reviewer = history[p][n].by
      BY <3>1 DEF Recorded, approvals
    <3> QED BY <3>3, <3>4
  <2> QED BY <1>1, <2>1 DEF Inv, ProposalInv, ToldTruly
<1> QED BY <1>1, Invariance, PTL

(* An experiment exists only on an approved revision, with a recorded      *)
(* approval of its staged predecessor.                                     *)
THEOREM ExperimentsApproved == Spec => []ExperimentIsApproved
<1>1. Inv => ExperimentIsApproved
  BY DEF Inv, ChangeInv
<1> QED BY <1>1, Invariance, PTL

(* Whatever reviews callers pass, a recorded receipt names a recorded      *)
(* review and the revision of the destination which that review brought,   *)
(* and no two receipts share either.                                       *)
THEOREM ReceiptsMatch == Spec => []ReceiptsMatchDestination
<1>1. Inv => ReceiptsMatchDestination
  BY DEF Inv, ChangeInv
<1> QED BY <1>1, Invariance, PTL

(* Proposals and experiments move by one legal transition at a time, and a *)
(* history is only extended.                                               *)
THEOREM LifecyclesLegal == Spec => LegalLifecycles
<1> DEFINE A == \A p \in Proposals :
             /\ history'[p] # history[p] =>
                  /\ \/ history[p] = <<>> /\ status(p)' = "generated"
                     \/ <<status(p), status(p)'>> \in Legal
                  /\ SubSeq(history'[p], 1, Len(history[p])) = history[p]
             /\ experiments'[p] # experiments[p] =>
                  \/ ~requested(p) /\ experiments'[p].stage = "requested"
                  \/ can_transition(experiments[p].stage, experiments'[p].stage)
<1>1. ASSUME Inv, [Next]_vars PROVE [A]_vars
  <2>1. CASE ProposalNext /\ UNCHANGED changeVars
    <3>1. UNCHANGED experiments
      BY <2>1 DEF changeVars, records
    <3>2. CASE UNCHANGED history
      BY <3>1, <3>2
    <3>3. CASE ~UNCHANGED history
      <4>1. PICK p \in Proposals, r \in Revision :
              /\ \/ history[p] = <<>> /\ r.status = "generated"
                 \/ <<status(p), r.status>> \in Legal
              /\ history' = [history EXCEPT ![p] = Append(@, r)]
        BY <1>1, <2>1, <3>3, ProposalStep DEF Inv
      <4>2. /\ history[p] \in Seq(Revision) /\ history'[p] = Append(history[p], r)
            /\ \A q \in Proposals \ {p} : history'[q] = history[q]
        BY <1>1, <4>1 DEF Inv, ProposalInv, TypeOK
      <4>3. SubSeq(history'[p], 1, Len(history[p])) = history[p]
        BY <4>2, PrefixKept
      <4>4. status(p)' = r.status
        <5>1. /\ history'[p] # <<>> /\ history'[p][Len(history'[p])] = r
          BY <4>2
        <5> QED BY <5>1 DEF status, current
      <4> QED BY <3>1, <4>1, <4>2, <4>3, <4>4
    <3> QED BY <3>2, <3>3
  <2>2. CASE ChangeNext /\ UNCHANGED proposalVars
    <3>1. UNCHANGED history
      BY <2>2 DEF proposalVars, tables
    <3> QED BY <1>1, <2>2, <3>1, ChangeStep
  <2> HIDE DEF A
  <2> QED BY <1>1, <2>1, <2>2 DEF Next
<1>2. LegalLifecycles <=> [][A]_vars
  BY DEF LegalLifecycles
<1> HIDE DEF A
<1> QED BY <1>1, <1>2, Invariance, PTL DEF Spec
=============================================================================
