------------------------ MODULE SemanticMemoryProofs ------------------------
(***************************************************************************)
(* What SemanticMemory checks on small instances, proved for any claims,   *)
(* contradictions, observations and workers, any contents and conflicts    *)
(* between them and any bound on revisions, requests and crashes: types,   *)
(* that two claims supported as judged never conflict, that claim streams  *)
(* replay, that a current Wiki page never goes back, and that semantic     *)
(* memory implements GovernedAggregate.                                    *)
(***************************************************************************)
EXTENDS SemanticMemory, TLAPS

-----------------------------------------------------------------------------
(* The inductive invariant.  A worker in the checks of a transition, after *)
(* it read the status of the item.                                         *)
Judging == {"successor", "critical", "conflict", "append"}

(* What a worker carries between two steps is related to the rows: the     *)
(* revision it quotes exists, and the status it judged is the status of a  *)
(* revision not older than that one.                                       *)
JobFits(w) ==
  LET j == job[w] IN
  /\ pc[w] \in {"lookup", "find", "insert"} => j.item \in Items /\ j.expected = 0
  /\ pc[w] \in {"snapshot", "decide"} => j.item \in Claims /\ j.target = "supported"
  /\ pc[w] \in {"snapshot", "decide", "read"} \cup Judging =>
       /\ j.item \in Claims \cup Contradictions
       /\ j.expected \in DOMAIN history[j.item]
  /\ pc[w] \in {"lookup", "find", "insert", "snapshot", "decide", "read"} \cup Judging =>
       j.content \in Contents
  /\ pc[w] \in Judging =>
       /\ j.expected < MaxRevisions /\ <<j.status, j.target>> \in Legal
       /\ \E r \in DOMAIN history[j.item] :
            j.expected <= r /\ j.status = history[j.item][r].status
  /\ pc[w] = "successor" => j.target # "supported"
  /\ pc[w] = "journal" =>
       /\ j.item \in Items /\ j.expected + 1 \in DOMAIN history[j.item]
       /\ j.expected > 0 => j.status = history[j.item][j.expected].status
  /\ pc[w] = "relate" => j.edge \in Reference \X Reference
  /\ pc[w] \in {"query", "render"} => j.expected <= Len(wiki)
  /\ pc[w] = "render" =>
       /\ j.cites \in [Claims -> Nat]
       /\ \A c \in Claims :
            /\ j.cites[c] <= Len(history[c])
            /\ j.now => \A k \in 1 .. j.expected :
                          j.cites[c] = 0 \/ wiki[k].cites[c] <= j.cites[c]

JobsFit == \A w \in Workers : JobFits(w)

(* The revisions of an item are numbered from one, without a hole.         *)
Numbered == \A i \in Items : \A k \in DOMAIN history[i] : history[i][k].number = k

(* A stream tells a prefix of the revisions, each with the status before.  *)
TellsPrefix ==
  \A i \in Items :
    /\ version(i) <= current(i)
    /\ \A k \in DOMAIN streams[i] :
         /\ streams[i][k].revision = history[i][k]
         /\ k > 1 => streams[i][k].previous = history[i][k - 1].status

(* Worker w will commit the support of c, with the content that was        *)
(* judged, unless somebody changes c first.                                *)
AboutToSupport(w, c) ==
  /\ pc[w] = "append" /\ job[w].item = c /\ job[w].target = "supported"
  /\ job[w].expected = current(c) /\ job[w].content = content(c)

(* c is supported as judged, or nothing that concerns other claims can     *)
(* prevent it.                                                             *)
Won(c) == SupportedAsJudged(c) \/ \E w \in Workers : AboutToSupport(w, c)

(* Two claims that have won do not conflict: stronger than                 *)
(* JudgedSupportsAgree, which looks only at committed rows.                *)
OneWinner ==
  \A c, d \in Claims :
    c # d /\ Won(c) /\ Won(d) => <<content(c), content(d)>> \notin Conflicts

(* The page cites revisions that exist.                                    *)
WikiCites == \A k \in DOMAIN wiki : \A c \in Claims : wiki[k].cites[c] <= Len(history[c])

IInv == /\ TypeOK /\ JobsFit /\ Numbered /\ TellsPrefix /\ OneWinner
        /\ WikiCites /\ WikiNeverGoesBack

-----------------------------------------------------------------------------
(* Revisions and pages are immutable and are never removed.                *)
Grows ==
  /\ \A i \in Items :
       /\ Len(history[i]) <= Len(history'[i])
       /\ \A k \in DOMAIN history[i] : history'[i][k] = history[i][k]
  /\ Len(wiki) <= Len(wiki')
  /\ \A k \in DOMAIN wiki : wiki'[k] = wiki[k]

(* The jobs of all workers but w are as they were.                         *)
OthersKeep(w) ==
  \A v \in Workers \ {w} : pc'[v] = pc[v] /\ job'[v] = job[v]

(* Rows, streams and pages are as they were.                               *)
Kept == UNCHANGED <<history, streams, wiki>>

(* Idle is a job.                                                          *)
LEMMA IdleType == Idle \in Job
BY DEF Idle, Job, Statuses

(* Rows and streams are sequences.                                         *)
LEMMA RowFacts ==
  ASSUME TypeOK, NEW i \in Items
  PROVE  /\ history[i] \in Seq(Revision) /\ streams[i] \in Seq(Event)
         /\ current(i) \in Nat /\ version(i) \in Nat
         /\ DOMAIN history[i] = 1 .. current(i) /\ DOMAIN streams[i] = 1 .. version(i)
         /\ Len(history[i]) = current(i)
         /\ history[i] # <<>> <=> current(i) > 0
         /\ \A k \in DOMAIN history[i] : history[i][k] \in Revision
<1>1. history[i] \in Seq(Revision) /\ streams[i] \in Seq(Event)
  BY DEF TypeOK
<1> QED BY <1>1 DEF current, version

(* The number of revisions is bounded, as they are numbered.               *)
LEMMA RevisionBound ==
  ASSUME IInv, NEW i \in Items
  PROVE  DOMAIN history[i] \subseteq Numbers
<1>1. \A k \in DOMAIN history[i] : history[i][k] \in Revision
  BY RowFacts DEF IInv
<1> QED BY <1>1 DEF IInv, Numbered, Revision

(* A request begins with a well-typed job.                                 *)
LEMMA StartType ==
  ASSUME TypeOK, NEW w \in Workers, NEW l \in PCs, NEW j \in Job, Start(w, l, j)
  PROVE  TypeOK' /\ pc'[w] = l /\ job'[w] = j /\ OthersKeep(w) /\ Kept
<1>1. /\ requests' \in 0 .. MaxRequests /\ UNCHANGED <<history, streams, graph, wikis, crashes>>
  BY SemanticAssumption DEF TypeOK, Start
<1>2. /\ pc' = [pc EXCEPT ![w] = l] /\ job' = [job EXCEPT ![w] = j]
      /\ pc \in [Workers -> PCs] /\ job \in [Workers -> Job]
  BY DEF Start, Goto, TypeOK
<1>3. /\ pc' \in [Workers -> PCs] /\ job' \in [Workers -> Job]
      /\ pc'[w] = l /\ job'[w] = j /\ OthersKeep(w)
  BY <1>2 DEF OthersKeep
<1> QED BY <1>1, <1>3 DEF TypeOK, Kept, graph, wikis

(* A request that is over leaves an idle worker.                           *)
LEMMA FinishType ==
  ASSUME TypeOK, NEW w \in Workers, Finish(w)
  PROVE  /\ pc' \in [Workers -> PCs] /\ job' \in [Workers -> Job]
         /\ pc'[w] = "idle" /\ OthersKeep(w)
BY IdleType DEF TypeOK, Finish, Goto, OthersKeep, PCs

(* A step that only moves w on.                                            *)
LEMMA GotoType ==
  ASSUME TypeOK, NEW w \in Workers, NEW l \in PCs, Goto(w, l), UNCHANGED job
  PROVE  /\ pc' \in [Workers -> PCs] /\ job' \in [Workers -> Job]
         /\ pc'[w] = l /\ job'[w] = job[w] /\ OthersKeep(w)
BY DEF TypeOK, Goto, OthersKeep

(* A step that only changes the job of w.                                  *)
LEMMA JobType ==
  ASSUME TypeOK, NEW w \in Workers, NEW l \in PCs, NEW j \in Job, Goto(w, l),
         job' = [job EXCEPT ![w] = j]
  PROVE  /\ pc' \in [Workers -> PCs] /\ job' \in [Workers -> Job]
         /\ pc'[w] = l /\ job'[w] = j /\ OthersKeep(w)
BY DEF TypeOK, Goto, OthersKeep

(* Reads changes nothing but the worker.                                   *)
LEMMA ReadsType ==
  ASSUME TypeOK, Reads, pc' \in [Workers -> PCs], job' \in [Workers -> Job]
  PROVE  TypeOK' /\ Kept
BY DEF TypeOK, Reads, Kept, graph, wikis, counters

-----------------------------------------------------------------------------
(* What a worker knows stays true while others work: rows and pages only   *)
(* grow.                                                                   *)
LEMMA FitsStable ==
  ASSUME TypeOK, TypeOK', JobsFit, Grows, NEW w \in Workers, OthersKeep(w), JobFits(w)'
  PROVE  JobsFit'
<1> SUFFICES ASSUME NEW v \in Workers \ {w} PROVE JobFits(v)'
  BY DEF JobsFit
<1>1. JobFits(v) /\ pc'[v] = pc[v] /\ job'[v] = job[v] /\ job[v] \in Job
  BY DEF JobsFit, OthersKeep, TypeOK
<1>2. \A i \in Items : /\ DOMAIN history[i] = 1 .. Len(history[i]) /\ Len(history[i]) \in Nat
                       /\ DOMAIN history'[i] = 1 .. Len(history'[i]) /\ Len(history'[i]) \in Nat
                       /\ Len(history[i]) <= Len(history'[i])
  BY DEF TypeOK, Grows
<1>3. \A i \in Items : \A k \in DOMAIN history[i] :
        k \in DOMAIN history'[i] /\ history'[i][k] = history[i][k]
  BY <1>2 DEF Grows
<1>4. /\ Len(wiki) \in Nat /\ Len(wiki') \in Nat /\ Len(wiki) <= Len(wiki')
      /\ \A k \in 1 .. Len(wiki) : wiki'[k] = wiki[k]
  BY DEF TypeOK, Grows
<1>5. Claims \cup Contradictions \subseteq Items
  BY DEF Items
<1> DEFINE j == job[v]
<1>6. j.expected \in Nat
  BY <1>1 DEF Job
<1>7. /\ pc[v] \in {"query", "render"} => j.expected <= Len(wiki')
      /\ pc[v] = "render" =>
           /\ j.cites \in [Claims -> Nat]
           /\ \A c \in Claims :
                /\ j.cites[c] <= Len(history'[c])
                /\ j.now => \A k \in 1 .. j.expected :
                              j.cites[c] = 0 \/ wiki'[k].cites[c] <= j.cites[c]
  <2>1. ASSUME pc[v] \in {"query", "render"}
        PROVE  j.expected <= Len(wiki) /\ j.expected <= Len(wiki')
    BY <1>1, <1>4, <1>6, <2>1 DEF JobFits
  <2>2. ASSUME pc[v] = "render", NEW c \in Claims
        PROVE  /\ j.cites[c] <= Len(history'[c])
               /\ j.now => \A k \in 1 .. j.expected :
                             j.cites[c] = 0 \/ wiki'[k].cites[c] <= j.cites[c]
    <3>1. /\ j.cites[c] \in Nat /\ j.cites[c] <= Len(history[c])
          /\ j.now => \A k \in 1 .. j.expected :
                        j.cites[c] = 0 \/ wiki[k].cites[c] <= j.cites[c]
      BY <1>1, <2>2 DEF JobFits
    <3>2. c \in Items /\ j.expected <= Len(wiki)
      BY <1>5, <2>1, <2>2
    <3>3. \A k \in 1 .. j.expected : wiki'[k] = wiki[k]
      BY <1>4, <1>6, <3>2
    <3>4. j.cites[c] <= Len(history'[c])
      BY <1>2, <3>1, <3>2
    <3> QED BY <3>1, <3>3, <3>4
  <2>3. pc[v] = "render" => j.cites \in [Claims -> Nat]
    BY <1>1 DEF JobFits
  <2> QED BY <2>1, <2>2, <2>3
<1>8. /\ pc[v] \in {"snapshot", "decide", "read"} \cup Judging =>
           j.expected \in DOMAIN history'[j.item]
      /\ pc[v] \in Judging =>
           \E r \in DOMAIN history'[j.item] :
             j.expected <= r /\ j.status = history'[j.item][r].status
      /\ pc[v] = "journal" =>
           /\ j.expected + 1 \in DOMAIN history'[j.item]
           /\ j.expected > 0 => j.status = history'[j.item][j.expected].status
  <2>1. pc[v] \in {"snapshot", "decide", "read"} \cup Judging =>
          j.expected \in DOMAIN history'[j.item]
    BY <1>1, <1>3, <1>5 DEF JobFits
  <2>2. ASSUME pc[v] \in Judging
        PROVE  \E r \in DOMAIN history'[j.item] :
                 j.expected <= r /\ j.status = history'[j.item][r].status
    BY <1>1, <1>3, <1>5, <2>2 DEF JobFits
  <2>3. ASSUME pc[v] = "journal"
        PROVE  /\ j.expected + 1 \in DOMAIN history'[j.item]
               /\ j.expected > 0 => j.status = history'[j.item][j.expected].status
    <3>1. /\ j.item \in Items /\ j.expected + 1 \in DOMAIN history[j.item]
          /\ j.expected > 0 => j.status = history[j.item][j.expected].status
      BY <1>1, <2>3 DEF JobFits
    <3>2. j.expected > 0 => j.expected \in DOMAIN history[j.item]
      BY <1>2, <1>6, <3>1
    <3> QED BY <1>3, <3>1, <3>2
  <2> QED BY <2>1, <2>2, <2>3
<1> QED BY <1>1, <1>7, <1>8 DEF JobFits

(* A step that keeps rows, streams and pages keeps what is said of them    *)
(* alone.                                                                  *)
LEMMA KeptFacts ==
  ASSUME IInv, Kept
  PROVE  Grows /\ Numbered' /\ TellsPrefix' /\ WikiCites' /\ WikiNeverGoesBack'
<1>1. Len(wiki) \in Nat /\ \A i \in Items : Len(history[i]) \in Nat
  BY DEF IInv, TypeOK
<1>2. Grows
  BY <1>1 DEF Grows, Kept
<1>3. Numbered' /\ TellsPrefix'
  BY DEF IInv, Kept, Numbered, TellsPrefix, version, current
<1>4. WikiCites' /\ WikiNeverGoesBack'
  BY DEF IInv, Kept, WikiCites, WikiNeverGoesBack
<1> QED BY <1>2, <1>3, <1>4

(* A step of w that keeps rows, streams and pages preserves the invariant  *)
(* when w's own job fits and no second winner appears.                     *)
LEMMA QuietBase ==
  ASSUME IInv, TypeOK', NEW w \in Workers, OthersKeep(w), JobFits(w)', Kept, OneWinner'
  PROVE  IInv'
<1>1. Grows /\ Numbered' /\ TellsPrefix' /\ WikiCites' /\ WikiNeverGoesBack'
  BY KeptFacts
<1>2. JobsFit'
  BY <1>1, FitsStable DEF IInv
<1> QED BY <1>1, <1>2 DEF IInv

(* Nobody wins in a step that keeps the rows and does not send w to the    *)
(* transaction of a support.                                               *)
LEMMA NoNewWinner ==
  ASSUME OneWinner, NEW w \in Workers, OthersKeep(w), UNCHANGED history,
         pc'[w] = "append" => job'[w].target # "supported"
  PROVE  OneWinner'
<1>1. ASSUME NEW c, Won(c)' PROVE Won(c)
  BY <1>1 DEF Won, SupportedAsJudged, AboutToSupport, OthersKeep, status, content, current
<1>2. \A c : content(c)' = content(c)
  BY DEF content, current
<1> QED BY <1>1, <1>2 DEF OneWinner

(* Both together.                                                          *)
LEMMA QuietStep ==
  ASSUME IInv, TypeOK', NEW w \in Workers, OthersKeep(w), JobFits(w)', Kept,
         pc'[w] = "append" => job'[w].target # "supported"
  PROVE  IInv'
<1>1. OneWinner'
  BY NoNewWinner DEF IInv, Kept
<1> QED BY <1>1, QuietBase

(* A step of w that ends its request.                                      *)
LEMMA QuietFinish ==
  ASSUME IInv, NEW w \in Workers, Finish(w), Kept, TypeOK'
  PROVE  IInv'
<1>1. pc'[w] = "idle" /\ OthersKeep(w)
  BY FinishType DEF IInv
<1>2. JobFits(w)'
  BY <1>1 DEF JobFits, Judging
<1> QED BY <1>1, <1>2, QuietStep

(* A check that fails ends the request.                                    *)
LEMMA GivesUp ==
  ASSUME IInv, NEW w \in Workers, Finish(w), Reads
  PROVE  IInv'
<1>1. TypeOK' /\ Kept
  BY FinishType, ReadsType DEF IInv
<1> QED BY <1>1, QuietFinish

-----------------------------------------------------------------------------
(* A new request whose job fits preserves the invariant.                   *)
LEMMA Begins ==
  ASSUME IInv, NEW w \in Workers, NEW l \in PCs, l # "append", NEW j \in Job,
         Start(w, l, j), JobFits(w)'
  PROVE  IInv'
<1>1. TypeOK' /\ OthersKeep(w) /\ Kept /\ pc'[w] = l
  BY StartType DEF IInv
<1> QED BY <1>1, QuietStep

(* create                                                                  *)
LEMMA CreateStep ==
  ASSUME IInv, NEW w \in Workers, create(w)
  PROVE  IInv'
<1>1. PICK i \in Items : \E x \in Says[i] :
        Start(w, "lookup", [Idle EXCEPT !.item = i, !.target = StartStatus[i],
                                        !.status = StartStatus[i], !.content = x])
  BY DEF create
<1>0. PICK x \in Contents :
        Start(w, "lookup", [Idle EXCEPT !.item = i, !.target = StartStatus[i],
                                        !.status = StartStatus[i], !.content = x])
  BY <1>1, SemanticAssumption
<1> DEFINE j == [Idle EXCEPT !.item = i, !.target = StartStatus[i],
                             !.status = StartStatus[i], !.content = x]
<1>2. StartStatus[i] \in Statuses
  <2>1. StartStatus[i] \in Starts
    BY SemanticAssumption
  <2> QED BY <2>1 DEF Starts, Statuses, BeliefStatuses, ContradictionStatuses
<1>3. j \in Job /\ j.item = i /\ j.expected = 0 /\ j.content = x
  BY <1>2 DEF Idle, Job, Statuses
<1> HIDE DEF j
<1>4. Start(w, "lookup", j) /\ "lookup" \in PCs
  BY <1>0 DEF j, PCs
<1>5. pc'[w] = "lookup" /\ job'[w] = j
  BY <1>3, <1>4, StartType DEF IInv
<1>6. JobFits(w)'
  BY <1>3, <1>5 DEF JobFits, Judging
<1> QED BY <1>3, <1>4, <1>6, Begins

(* promote and transition quote a revision that exists.                    *)
LEMMA TransitionStep ==
  ASSUME IInv, NEW w \in Workers, promote(w) \/ transition(w)
  PROVE  IInv'
<1>1. ASSUME NEW i \in Claims \cup Contradictions, NEW t \in Statuses, NEW e \in 1 .. current(i),
             NEW x \in Says[i], NEW v \in BOOLEAN, NEW l \in {"snapshot", "read"},
             l = "snapshot" => i \in Claims /\ t = "supported",
             Start(w, l, [Idle EXCEPT !.item = i, !.target = t, !.expected = e,
                                      !.content = x, !.evidence = v])
      PROVE  IInv'
  <2> DEFINE j == [Idle EXCEPT !.item = i, !.target = t, !.expected = e,
                               !.content = x, !.evidence = v]
  <2>1. i \in Items /\ e \in Nat /\ e \in DOMAIN history[i]
    <3>1. i \in Items
      BY DEF Items
    <3> QED BY <3>1, RowFacts DEF IInv
  <2>0. x \in Contents
    BY <2>1, SemanticAssumption
  <2>2. j \in Job /\ j.item = i /\ j.target = t /\ j.expected = e /\ j.content = x
    BY <2>0, <2>1, IdleType DEF Job
  <2> HIDE DEF j
  <2>3. Start(w, l, j) /\ l \in PCs /\ l # "append"
    BY <1>1 DEF j, PCs
  <2>4. pc'[w] = l /\ job'[w] = j /\ history' = history
    BY <2>2, <2>3, StartType DEF IInv, Kept
  <2>5. JobFits(w)'
    BY <1>1, <2>0, <2>1, <2>2, <2>4 DEF JobFits, Judging
  <2> QED BY <2>2, <2>3, <2>5, Begins
<1>2. CASE promote(w)
  <2>1. PICK c \in Claims : \E e \in 1 .. current(c), x \in Says[c] :
          Start(w, "snapshot", [Idle EXCEPT !.item = c, !.target = "supported",
                                  !.expected = e, !.content = x, !.evidence = TRUE])
    BY <1>2 DEF promote
  <2>2. PICK e \in 1 .. current(c), x \in Says[c] :
          Start(w, "snapshot", [Idle EXCEPT !.item = c, !.target = "supported",
                                  !.expected = e, !.content = x, !.evidence = TRUE])
    BY <2>1
  <2>3. "supported" \in Statuses
    BY DEF Statuses, BeliefStatuses
  <2> QED BY <1>1, <2>2, <2>3
<1>3. CASE transition(w)
  <2>1. PICK i \in Claims \cup Contradictions :
          \E t \in Targets(i), e \in 1 .. current(i), x \in Says[i] :
            \E evidence \in IF i \in Claims THEN BOOLEAN ELSE {FALSE} :
              Start(w, "read", [Idle EXCEPT !.item = i, !.target = t, !.expected = e,
                                            !.content = x, !.evidence = evidence])
    BY <1>3 DEF transition
  <2>2. PICK t \in Targets(i), e \in 1 .. current(i), x \in Says[i] :
          \E evidence \in IF i \in Claims THEN BOOLEAN ELSE {FALSE} :
            Start(w, "read", [Idle EXCEPT !.item = i, !.target = t, !.expected = e,
                                          !.content = x, !.evidence = evidence])
    BY <2>1
  <2>3. PICK v \in BOOLEAN :
          Start(w, "read", [Idle EXCEPT !.item = i, !.target = t, !.expected = e,
                                        !.content = x, !.evidence = v])
    BY <2>2
  <2>4. t \in Statuses
    BY DEF Targets, Statuses, BeliefStatuses, ContradictionStatuses
  <2> QED BY <1>1, <2>3, <2>4
<1> QED BY <1>2, <1>3

(* relate: the endpoints of the edge exist.                                *)
LEMMA RelateStep ==
  ASSUME IInv, NEW w \in Workers, relate(w)
  PROVE  IInv'
<1>1. PICK a \in Claims, b \in Claims :
        \E r \in 1 .. current(a), s \in 1 .. current(b) :
          Start(w, "relate", [Idle EXCEPT !.edge = <<<<a, r>>, <<b, s>>>>])
  BY DEF relate
<1>2. PICK r \in 1 .. current(a), s \in 1 .. current(b) :
        Start(w, "relate", [Idle EXCEPT !.edge = <<<<a, r>>, <<b, s>>>>])
  BY <1>1
<1>3. r \in Numbers /\ s \in Numbers
  <2>1. a \in Items /\ b \in Items
    BY DEF Items
  <2> QED BY <2>1, RowFacts, RevisionBound DEF IInv
<1> DEFINE g == <<<<a, r>>, <<b, s>>>>
           j == [Idle EXCEPT !.edge = g]
<1>4. g \in Reference \X Reference
  BY <1>3 DEF Reference
<1> HIDE DEF g
<1>5. j \in Job /\ j.edge = g
  BY <1>4, IdleType DEF Job
<1> HIDE DEF j
<1>6. Start(w, "relate", j) /\ "relate" \in PCs
  BY <1>2 DEF j, g, PCs
<1>7. pc'[w] = "relate" /\ job'[w] = j
  BY <1>5, <1>6, StartType DEF IInv
<1>8. JobFits(w)'
  BY <1>4, <1>5, <1>7 DEF JobFits, Judging
<1> QED BY <1>5, <1>6, <1>8, Begins

(* render_wiki                                                             *)
LEMMA RenderWikiStep ==
  ASSUME IInv, NEW w \in Workers, render_wiki(w)
  PROVE  IInv'
<1>1. PICK e \in 0 .. Len(wiki), now \in BOOLEAN :
        Start(w, "page", [Idle EXCEPT !.expected = e, !.now = now])
  BY DEF render_wiki
<1> DEFINE j == [Idle EXCEPT !.expected = e, !.now = now]
<1>2. e \in Nat
  BY DEF IInv, TypeOK
<1>3. j \in Job
  BY <1>2, IdleType DEF Job
<1> HIDE DEF j
<1>4. Start(w, "page", j) /\ "page" \in PCs
  BY <1>1 DEF j, PCs
<1>5. pc'[w] = "page"
  BY <1>3, <1>4, StartType DEF IInv
<1>6. JobFits(w)'
  BY <1>5 DEF JobFits, Judging
<1> QED BY <1>3, <1>4, <1>6, Begins

-----------------------------------------------------------------------------
(* A step that moves w on without touching anything else preserves the     *)
(* invariant when the job fits the new place.                              *)
LEMMA MovesOn ==
  ASSUME IInv, NEW w \in Workers, NEW l \in PCs, Goto(w, l), UNCHANGED job, Reads,
         l = "append" => job[w].target # "supported",
         pc'[w] = l /\ job'[w] = job[w] /\ Kept => JobFits(w)'
  PROVE  IInv'
<1>1. /\ pc' \in [Workers -> PCs] /\ job' \in [Workers -> Job]
      /\ pc'[w] = l /\ job'[w] = job[w] /\ OthersKeep(w)
  BY GotoType DEF IInv
<1>2. TypeOK' /\ Kept
  BY <1>1, ReadsType DEF IInv
<1> QED BY <1>1, <1>2, QuietStep

(* lookup                                                                  *)
LEMMA LookupStep ==
  ASSUME IInv, NEW w \in Workers, lookup(w)
  PROVE  IInv'
<1>0. TypeOK /\ JobFits(w) /\ pc[w] = "lookup" /\ Reads
  BY DEF IInv, JobsFit, lookup
<1>1. ASSUME NEW l \in {"insert", "find"}, Goto(w, l), UNCHANGED job
      PROVE  IInv'
  <2>1. l \in PCs /\ l # "append"
    BY DEF PCs
  <2>2. pc'[w] = l /\ job'[w] = job[w] => JobFits(w)'
    BY <1>0 DEF JobFits, Judging
  <2> QED BY <1>0, <1>1, <2>1, <2>2, MovesOn
<1>2. \/ \E l \in {"insert", "find"} : Goto(w, l) /\ UNCHANGED job
      \/ Finish(w)
  BY DEF lookup, Check
<1> QED BY <1>0, <1>1, <1>2, GivesUp

(* find: a row that is there has a first revision.                         *)
LEMMA FindStep ==
  ASSUME IInv, NEW w \in Workers, find(w)
  PROVE  IInv'
<1>0. TypeOK /\ JobFits(w) /\ pc[w] = "find" /\ Reads
  BY DEF IInv, JobsFit, find
<1>1. job[w].item \in Items /\ job[w].expected = 0 /\ job[w].content \in Contents
  BY <1>0 DEF JobFits
<1>2. CASE history[job[w].item] = <<>>
  <2>1. Goto(w, "insert") /\ "insert" \in PCs /\ UNCHANGED job
    BY <1>2 DEF find, PCs
  <2>2. pc'[w] = "insert" /\ job'[w] = job[w] => JobFits(w)'
    BY <1>1 DEF JobFits, Judging
  <2> QED BY <1>0, <2>1, <2>2, MovesOn
<1>3. CASE history[job[w].item] # <<>>
  <2>1. (Goto(w, "journal") /\ UNCHANGED job) \/ Finish(w)
    BY <1>3 DEF find, Check
  <2>0. "journal" \in PCs
    BY DEF PCs
  <2>2. 0 + 1 \in DOMAIN history[job[w].item] /\ ~(0 > 0)
    BY <1>0, <1>1, <1>3, RowFacts
  <2>3. pc'[w] = "journal" /\ job'[w] = job[w] /\ Kept => JobFits(w)'
    BY <1>1, <2>2 DEF JobFits, Judging, Kept
  <2> QED BY <1>0, <2>0, <2>1, <2>3, MovesOn, GivesUp
<1> QED BY <1>2, <1>3

(* snapshot                                                                *)
LEMMA SnapshotStep ==
  ASSUME IInv, NEW w \in Workers, snapshot(w)
  PROVE  IInv'
<1>0. TypeOK /\ JobFits(w) /\ pc[w] = "snapshot" /\ Reads
  BY DEF IInv, JobsFit, snapshot
<1>1. CASE Goto(w, "decide") /\ UNCHANGED job
  <2>1. pc'[w] = "decide" /\ job'[w] = job[w] /\ Kept => JobFits(w)'
    BY <1>0 DEF JobFits, Judging, Kept
  <2>2. "decide" \in PCs
    BY DEF PCs
  <2> QED BY <1>0, <1>1, <2>1, <2>2, MovesOn
<1>2. CASE Finish(w)
  BY <1>0, <1>2, GivesUp
<1> QED BY <1>1, <1>2 DEF snapshot

(* decide: the decision is about a revision that exists.                   *)
LEMMA DecideStep ==
  ASSUME IInv, NEW w \in Workers, decide(w)
  PROVE  IInv'
<1>0. /\ TypeOK /\ JobFits(w) /\ pc[w] = "decide" /\ Goto(w, "read") /\ UNCHANGED job
      /\ decisions' = decisions \cup {<<job[w].item, job[w].expected>>}
      /\ UNCHANGED <<history, streams, relations, wikis, counters>>
  BY DEF IInv, JobsFit, decide
<1>1. /\ job[w].item \in Claims /\ job[w].item \in Items
      /\ job[w].expected \in DOMAIN history[job[w].item]
      /\ job[w].content \in Contents
  BY <1>0 DEF JobFits, Items
<1>2. decisions' \subseteq Reference
  BY <1>0, <1>1, RevisionBound DEF Reference, TypeOK
<1>3. /\ pc' \in [Workers -> PCs] /\ job' \in [Workers -> Job]
      /\ pc'[w] = "read" /\ job'[w] = job[w] /\ OthersKeep(w)
  BY <1>0, GotoType DEF PCs
<1>4. TypeOK' /\ Kept
  BY <1>0, <1>2, <1>3 DEF TypeOK, wikis, counters, Kept
<1>5. JobFits(w)'
  BY <1>0, <1>1, <1>3 DEF JobFits, Judging
<1> QED BY <1>3, <1>4, <1>5, QuietStep

(* read: the status that is judged is the status of the current revision,  *)
(* which is not older than the quoted one.                                 *)
LEMMA ReadStep ==
  ASSUME IInv, NEW w \in Workers, read(w)
  PROVE  IInv'
<1> DEFINE i == job[w].item
           t == job[w].target
<1>0. TypeOK /\ JobFits(w) /\ pc[w] = "read" /\ Reads /\ job[w] \in Job
  BY DEF IInv, JobsFit, read, TypeOK
<1>1. /\ i \in Claims \cup Contradictions /\ i \in Items
      /\ job[w].expected \in DOMAIN history[i] /\ job[w].content \in Contents
  BY <1>0 DEF JobFits, Items
<1>2. /\ current(i) \in DOMAIN history[i] /\ job[w].expected <= current(i)
      /\ status(i) \in Statuses
  <2>1. current(i) \in DOMAIN history[i] /\ job[w].expected <= current(i)
    BY <1>0, <1>1, RowFacts
  <2>2. history[i][current(i)] \in Revision
    BY <1>0, <1>1, <2>1, RowFacts
  <2> QED BY <2>1, <2>2 DEF status, Revision
<1>3. ASSUME NEW l \in Judging, Goto(w, l), job' = [job EXCEPT ![w].status = status(i)],
             <<status(i), t>> \in Legal, job[w].expected < MaxRevisions,
             l \in {"append", "successor"} => t # "supported"
      PROVE  IInv'
  <2> DEFINE j == [job[w] EXCEPT !.status = status(i)]
  <2>1. /\ j \in Job /\ j.status = status(i) /\ j.item = i /\ j.target = t
        /\ j.expected = job[w].expected /\ j.content = job[w].content
    BY <1>0, <1>2 DEF Job
  <2>2. job' = [job EXCEPT ![w] = j]
    BY <1>3
  <2> HIDE DEF j
  <2>3. l \in PCs
    BY DEF Judging, PCs
  <2>4. /\ pc' \in [Workers -> PCs] /\ job' \in [Workers -> Job]
        /\ pc'[w] = l /\ job'[w] = j /\ OthersKeep(w)
    BY <1>0, <1>3, <2>1, <2>2, <2>3, JobType
  <2>5. TypeOK' /\ Kept
    BY <1>0, <2>4, ReadsType
  <2>6. JobFits(w)'
    <3>1. \E r \in DOMAIN history[i] :
            job[w].expected <= r /\ status(i) = history[i][r].status
      BY <1>2 DEF status
    <3>2. l \notin {"lookup", "find", "insert", "snapshot", "decide", "read", "journal",
                    "relate", "query", "render"}
      BY DEF Judging
    <3>3. history' = history
      BY <2>5 DEF Kept
    <3> QED BY <1>1, <1>3, <2>1, <2>4, <3>1, <3>2, <3>3 DEF JobFits
  <2> QED BY <1>3, <2>1, <2>4, <2>5, <2>6, QuietStep
<1>4. \/ /\ <<status(i), t>> \in Legal /\ job[w].expected < MaxRevisions
         /\ job' = [job EXCEPT ![w].status = status(i)]
         /\ Goto(w, CASE t = "supported" -> "critical"
                      [] t = "disputed" /\ ~job[w].evidence -> "conflict"
                      [] t = "superseded" -> "successor"
                      [] OTHER -> "append")
      \/ Finish(w)
  BY DEF read
<1>5. PICK l : l = CASE t = "supported" -> "critical"
                     [] t = "disputed" /\ ~job[w].evidence -> "conflict"
                     [] t = "superseded" -> "successor"
                     [] OTHER -> "append"
  OBVIOUS
<1>6. l \in Judging /\ (l \in {"append", "successor"} => t # "supported")
  BY <1>5 DEF Judging
<1> QED BY <1>0, <1>3, <1>4, <1>5, <1>6, GivesUp

(* successor and critical pass the job on as it is.                        *)
LEMMA CheckedStep ==
  ASSUME IInv, NEW w \in Workers, successor(w) \/ critical(w)
  PROVE  IInv'
<1>0. TypeOK /\ JobFits(w) /\ Reads
  BY DEF IInv, JobsFit, successor, critical
<1>1. CASE pc[w] = "successor" /\ Goto(w, "append") /\ UNCHANGED job
  <2>1. pc'[w] = "append" /\ job'[w] = job[w] /\ Kept => JobFits(w)'
    BY <1>0, <1>1 DEF JobFits, Judging, Kept
  <2>2. "append" \in PCs /\ job[w].target # "supported"
    BY <1>0, <1>1 DEF PCs, JobFits
  <2> QED BY <1>0, <1>1, <2>1, <2>2, MovesOn
<1>2. CASE pc[w] = "critical" /\ Goto(w, "conflict") /\ UNCHANGED job
  <2>1. pc'[w] = "conflict" /\ job'[w] = job[w] /\ Kept => JobFits(w)'
    BY <1>0, <1>2 DEF JobFits, Judging, Kept
  <2>2. "conflict" \in PCs
    BY DEF PCs
  <2> QED BY <1>0, <1>2, <2>1, <2>2, MovesOn
<1>3. CASE Finish(w)
  BY <1>0, <1>3, GivesUp
<1> QED BY <1>1, <1>2, <1>3 DEF successor, critical, Check

(* A claim about to be supported is active: the status that was judged is  *)
(* still the current one, and support is legal from an active status only. *)
LEMMA JudgedLive ==
  ASSUME IInv, NEW w \in Workers, NEW c \in Items, pc[w] \in Judging, job[w].item = c,
         job[w].target = "supported", job[w].expected = current(c)
  PROVE  live(c)
<1>1. PICK r \in DOMAIN history[c] : current(c) <= r /\ job[w].status = history[c][r].status
  BY DEF IInv, JobsFit, JobFits
<1>2. r = current(c) /\ history[c] # <<>>
  BY <1>1, RowFacts DEF IInv
<1>3. <<status(c), "supported">> \in Legal
  BY <1>1, <1>2 DEF IInv, JobsFit, JobFits, status
<1>4. status(c) \in {"proposed", "disputed"}
  BY <1>3 DEF Legal
<1> QED BY <1>2, <1>4 DEF live

(* conflict.  The check counts every active rival, not only the supported  *)
(* ones: a rival that has won is active, so it was seen, and a rival that  *)
(* comes later will see this claim.                                        *)
LEMMA ConflictStep ==
  ASSUME IInv, NEW w \in Workers, conflict(w)
  PROVE  IInv'
<1>0. TypeOK /\ JobFits(w) /\ Reads /\ pc[w] = "conflict"
  BY DEF IInv, JobsFit, conflict
<1>1. job[w].item \in Items
  BY <1>0 DEF JobFits, Judging, Items
<1> PICK c \in Items : c = job[w].item
  BY <1>1
<1>2. CASE /\ detect_contradictions(c) <=> job[w].target = "disputed"
           /\ Goto(w, "append") /\ UNCHANGED job
  <2>1. pc'[w] = "append" /\ job'[w] = job[w] /\ Kept => JobFits(w)'
    BY <1>0 DEF JobFits, Judging, Kept
  <2>2. "append" \in PCs
    BY DEF PCs
  <2>3. CASE job[w].target # "supported"
    BY <1>0, <1>2, <2>1, <2>2, <2>3, MovesOn
  <2>4. CASE job[w].target = "supported"
    <3>1. /\ pc' \in [Workers -> PCs] /\ job' \in [Workers -> Job]
          /\ pc'[w] = "append" /\ job'[w] = job[w] /\ OthersKeep(w)
      BY <1>0, <1>2, <2>2, GotoType
    <3>2. TypeOK' /\ Kept
      BY <1>0, <3>1, ReadsType
    <3>3. ~detect_contradictions(c)
      BY <1>2, <2>4
    <3>0. history' = history /\ \A d : content(d)' = content(d)
      BY <3>2 DEF Kept, content, current
    <3>4. ASSUME NEW d \in Claims, d # c, Won(d)'
          PROVE  /\ Won(d) /\ <<content(c), content(d)>> \notin Conflicts
                 /\ <<content(d), content(c)>> \notin Conflicts
      <4>0. d \in Items
        BY DEF Items
      <4>1. Won(d)
        BY <3>0, <3>1, <3>4 DEF Won, SupportedAsJudged, AboutToSupport, OthersKeep,
                                status, content, current
      <4>2. live(d)
        <5>1. CASE SupportedAsJudged(d)
          BY <5>1 DEF SupportedAsJudged, live
        <5>2. ASSUME NEW v \in Workers, AboutToSupport(v, d) PROVE live(d)
          BY <4>0, <5>2, JudgedLive DEF AboutToSupport, Judging
        <5> QED BY <4>1, <5>1, <5>2 DEF Won
      <4>3. <<content(c), content(d)>> \notin Conflicts
        BY <3>3, <3>4, <4>2 DEF detect_contradictions
      <4>4. <<content(d), content(c)>> \notin Conflicts
        BY <4>3, SemanticAssumption
      <4> QED BY <4>1, <4>3, <4>4
    <3>6. OneWinner'
      BY <3>0, <3>4 DEF IInv, OneWinner
    <3> QED BY <2>1, <3>1, <3>2, <3>6, QuietBase
  <2> QED BY <2>3, <2>4
<1>3. CASE Finish(w)
  BY <1>0, <1>3, GivesUp
<1> QED BY <1>2, <1>3 DEF conflict, Check

-----------------------------------------------------------------------------
(* insert_relation adds an edge between revisions that exist.              *)
LEMMA InsertRelationStep ==
  ASSUME IInv, NEW w \in Workers, insert_relation(w)
  PROVE  IInv'
<1>0. /\ TypeOK /\ JobFits(w) /\ pc[w] = "relate" /\ Finish(w)
      /\ relations' = relations \cup {job[w].edge}
      /\ UNCHANGED <<history, streams, decisions, wikis, counters>>
  BY DEF IInv, JobsFit, insert_relation
<1>1. relations' \subseteq Reference \X Reference
  BY <1>0 DEF JobFits, TypeOK
<1>2. TypeOK' /\ Kept
  BY <1>0, <1>1, FinishType DEF TypeOK, wikis, counters, Kept
<1> QED BY <1>0, <1>2, QuietFinish

(* page                                                                    *)
LEMMA PageStep ==
  ASSUME IInv, NEW w \in Workers, page(w)
  PROVE  IInv'
<1>0. TypeOK /\ pc[w] = "page" /\ Reads
  BY DEF IInv, page
<1>1. CASE Len(wiki) = job[w].expected /\ Goto(w, "query") /\ UNCHANGED job
  <2>0. Len(wiki) \in Nat /\ "query" \in PCs
    BY <1>0 DEF TypeOK, PCs
  <2>1. pc'[w] = "query" /\ job'[w] = job[w] /\ Kept => JobFits(w)'
    BY <1>1, <2>0 DEF JobFits, Judging, Kept
  <2> QED BY <1>0, <1>1, <2>0, <2>1, MovesOn
<1>2. CASE Finish(w)
  BY <1>0, <1>2, GivesUp
<1> QED BY <1>1, <1>2 DEF page, Check

(* query: the claims are read as they are now, when every page up to the   *)
(* expected one is there: none of them cites a newer revision.             *)
LEMMA QueryStep ==
  ASSUME IInv, NEW w \in Workers, query(w)
  PROVE  IInv'
<1>0. TypeOK /\ JobFits(w) /\ pc[w] = "query" /\ Reads /\ job[w] \in Job
  BY DEF IInv, JobsFit, query, TypeOK
<1>1. ASSUME NEW cs \in [Claims -> 0 .. MaxRevisions],
             \A c \in Claims : IF job[w].now THEN cs[c] \in {0, current(c)}
                               ELSE cs[c] <= current(c),
             job' = [job EXCEPT ![w].cites = cs], Goto(w, "render")
      PROVE  IInv'
  <2> DEFINE j == [job[w] EXCEPT !.cites = cs]
  <2>1. \A c \in Claims : c \in Items /\ current(c) \in Nat /\ current(c) = Len(history[c])
    BY <1>0, RowFacts DEF Items
  <2>2. /\ cs \in [Claims -> Nat]
        /\ \A c \in Claims : /\ cs[c] <= Len(history[c])
                             /\ job[w].now => cs[c] = 0 \/ cs[c] = Len(history[c])
    <3>1. cs \in [Claims -> Nat]
      BY SemanticAssumption
    <3> QED BY <1>1, <2>1, <3>1
  <2>3. j \in Job /\ j.cites = cs /\ j.expected = job[w].expected /\ (j.now <=> job[w].now)
    BY <1>0, <2>2 DEF Job
  <2>4. job' = [job EXCEPT ![w] = j]
    BY <1>1
  <2> HIDE DEF j
  <2>5. /\ pc' \in [Workers -> PCs] /\ job' \in [Workers -> Job]
        /\ pc'[w] = "render" /\ job'[w] = j /\ OthersKeep(w)
    BY <1>0, <1>1, <2>3, <2>4, JobType DEF PCs
  <2>6. TypeOK' /\ Kept
    BY <1>0, <2>5, ReadsType
  <2>7. j.expected \in Nat /\ j.expected <= Len(wiki) /\ Len(wiki) \in Nat
    BY <1>0, <2>3 DEF JobFits, Job, TypeOK
  <2>8. ASSUME j.now
        PROVE  \A c \in Claims : \A k \in 1 .. j.expected :
                 cs[c] = 0 \/ wiki[k].cites[c] <= cs[c]
    <3>0. DOMAIN wiki = 1 .. Len(wiki)
      BY DEF IInv, TypeOK
    <3>1. 1 .. j.expected \subseteq DOMAIN wiki
      BY <2>7, <3>0
    <3>2. \A k \in 1 .. j.expected : \A c \in Claims : wiki[k].cites[c] <= Len(history[c])
      BY <3>1 DEF IInv, WikiCites
    <3>3. \A c \in Claims : cs[c] = 0 \/ cs[c] = Len(history[c])
      BY <2>2, <2>3, <2>8
    <3> QED BY <3>2, <3>3
  <2>9. JobFits(w)'
    BY <2>2, <2>3, <2>5, <2>6, <2>7, <2>8 DEF JobFits, Judging, Kept
  <2> QED BY <2>5, <2>6, <2>9, QuietStep
<1>2. CASE Finish(w)
  BY <1>0, <1>2, GivesUp
<1> QED BY <1>1, <1>2 DEF query

(* read_version                                                            *)
LEMMA ReadVersionStep ==
  ASSUME IInv, NEW w \in Workers, read_version(w)
  PROVE  IInv'
<1>0. /\ TypeOK /\ job[w] \in Job /\ Goto(w, "announce") /\ Reads
      /\ job' = [job EXCEPT ![w].version = Len(wikiStream)]
  BY DEF IInv, TypeOK, read_version
<1> DEFINE j == [job[w] EXCEPT !.version = Len(wikiStream)]
<1>1. Len(wikiStream) \in Nat
  BY <1>0 DEF TypeOK
<1>2. j \in Job
  BY <1>0, <1>1 DEF Job
<1>3. job' = [job EXCEPT ![w] = j]
  BY <1>0
<1> HIDE DEF j
<1>4. /\ pc' \in [Workers -> PCs] /\ job' \in [Workers -> Job]
      /\ pc'[w] = "announce" /\ OthersKeep(w)
  BY <1>0, <1>2, <1>3, JobType DEF PCs
<1>5. TypeOK' /\ Kept
  BY <1>0, <1>4, ReadsType
<1>6. JobFits(w)'
  BY <1>4 DEF JobFits, Judging
<1> QED BY <1>4, <1>5, <1>6, QuietStep

(* announce touches the stream of the page alone.                          *)
LEMMA AnnounceStep ==
  ASSUME IInv, NEW w \in Workers, announce(w)
  PROVE  IInv'
<1>0. /\ TypeOK /\ Finish(w) /\ UNCHANGED <<history, streams, graph, wiki, counters>>
      /\ job[w].fresh \in BOOLEAN /\ job[w].expected \in Nat
  BY DEF IInv, TypeOK, announce, Job
<1> DEFINE ev == [identical |-> ~job[w].fresh, revision |-> job[w].expected]
<1>1. ev \in WikiEvent
  <2>1. (~job[w].fresh) \in BOOLEAN
    OBVIOUS
  <2> QED BY <1>0, <2>1 DEF WikiEvent
<1>2. wikiStream' = Append(wikiStream, ev) \/ wikiStream' = wikiStream
  BY DEF announce
<1> HIDE DEF ev
<1>3. wikiStream' \in Seq(WikiEvent)
  <2>1. wikiStream \in Seq(WikiEvent)
    BY <1>0 DEF TypeOK
  <2> QED BY <1>1, <1>2, <2>1
<1>4. TypeOK' /\ Kept
  BY <1>0, <1>3, FinishType DEF TypeOK, graph, counters, Kept
<1> QED BY <1>0, <1>4, QuietFinish

(* crash                                                                   *)
LEMMA CrashStep ==
  ASSUME IInv, NEW w \in Workers, crash(w)
  PROVE  IInv'
<1>0. /\ TypeOK /\ Finish(w) /\ UNCHANGED <<history, streams, graph, wikis, requests>>
      /\ crashes < MaxCrashes /\ crashes' = crashes + 1
  BY DEF IInv, crash
<1>1. crashes' \in 0 .. MaxCrashes
  BY <1>0, SemanticAssumption DEF TypeOK
<1>2. TypeOK' /\ Kept
  BY <1>0, <1>1, FinishType DEF TypeOK, graph, wikis, Kept
<1> QED BY <1>0, <1>2, QuietFinish

-----------------------------------------------------------------------------
(* A revision r is added to item i: by insert or by append.                *)
Adds(i, r) ==
  /\ history' = [history EXCEPT ![i] = Append(@, r)]
  /\ UNCHANGED <<streams, graph, wikis, counters>>

(* Adding the next revision keeps rows numbered, immutable and told as a   *)
(* prefix; whoever adds a support had won already, and the workers that    *)
(* would still support the item quote an older revision.                   *)
LEMMA AddStep ==
  ASSUME IInv, NEW w \in Workers, NEW i \in Items, NEW r \in Revision,
         NEW n \in Nat, n = current(i), r.number = n + 1, Adds(i, r),
         r.status = "supported" => n > 0 /\ (r.content = content(i) => Won(i)),
         pc' \in [Workers -> PCs], job' \in [Workers -> Job], OthersKeep(w),
         pc'[w] = "journal", JobFits(w)'
  PROVE  IInv'
<1>0. TypeOK /\ history[i] \in Seq(Revision)
  BY RowFacts DEF IInv
<1>1. /\ history'[i] = Append(history[i], r) /\ history'[i] \in Seq(Revision)
      /\ \A x \in Items \ {i} : history'[x] = history[x]
      /\ history' \in [Items -> Seq(Revision)]
  BY <1>0 DEF TypeOK, Adds
<1>2. TypeOK'
  BY <1>0, <1>1 DEF TypeOK, Adds, graph, wikis, counters
<1>3. /\ DOMAIN history[i] = 1 .. n /\ DOMAIN history'[i] = 1 .. (n + 1)
      /\ history'[i][n + 1] = r /\ Len(history'[i]) = n + 1
      /\ \A k \in 1 .. n : history'[i][k] = history[i][k]
  BY <1>0, <1>1 DEF current
<1>4. Grows
  <2>1. Len(history[i]) <= Len(history'[i])
    BY <1>0, <1>1 DEF current
  <2>2. Len(wiki) \in Nat /\ \A x \in Items : Len(history[x]) \in Nat
    BY <1>0 DEF TypeOK
  <2>3. \A x \in Items \ {i} : /\ Len(history[x]) <= Len(history'[x])
                               /\ \A k \in DOMAIN history[x] : history'[x][k] = history[x][k]
    BY <1>1, <2>2
  <2>4. Len(wiki) <= Len(wiki') /\ \A k \in DOMAIN wiki : wiki'[k] = wiki[k]
    BY <2>2 DEF Adds, wikis
  <2> QED BY <1>3, <2>1, <2>3, <2>4 DEF Grows
<1>5. Numbered'
  <2>1. \A k \in 1 .. n : history'[i][k].number = k
    BY <1>3 DEF IInv, Numbered
  <2>2. \A k \in DOMAIN history'[i] : k = n + 1 \/ k \in 1 .. n
    BY <1>3
  <2>3. \A k \in DOMAIN history'[i] : history'[i][k].number = k
    BY <1>3, <2>1, <2>2
  <2> QED BY <1>1, <2>3 DEF IInv, Numbered
<1>6. TellsPrefix'
  <2> SUFFICES ASSUME NEW x \in Items
               PROVE  /\ version(x) <= current(x)'
                      /\ \A k \in DOMAIN streams[x] :
                           /\ streams[x][k].revision = history'[x][k]
                           /\ k > 1 => streams[x][k].previous = history'[x][k - 1].status
    BY DEF TellsPrefix, version, Adds
  <2>1. /\ version(x) <= current(x) /\ version(x) \in Nat /\ current(x) \in Nat
        /\ DOMAIN streams[x] = 1 .. version(x) /\ DOMAIN history[x] = 1 .. current(x)
        /\ \A k \in DOMAIN streams[x] :
             /\ streams[x][k].revision = history[x][k]
             /\ k > 1 => streams[x][k].previous = history[x][k - 1].status
    BY RowFacts DEF IInv, TellsPrefix
  <2>2. current(x)' \in Nat /\ current(x) <= current(x)'
    BY <1>2, <1>4 DEF TypeOK, Grows, current
  <2>3. \A k \in 1 .. current(x) : history'[x][k] = history[x][k]
    BY <2>1, <1>4 DEF Grows
  <2>4. \A k \in 1 .. version(x) : /\ k \in 1 .. current(x)
                                   /\ k > 1 => k - 1 \in 1 .. current(x)
    BY <2>1
  <2>5. version(x) <= current(x)'
    BY <2>1, <2>2
  <2> QED BY <2>1, <2>3, <2>4, <2>5
<1>7. JobsFit'
  BY <1>2, <1>4, FitsStable DEF IInv
<1>8. OneWinner'
  <2>1. ASSUME NEW x \in Claims, Won(x)' PROVE Won(x) /\ content(x)' = content(x)
    <3>1. CASE x # i
      <4>1. x \in Items /\ history'[x] = history[x]
        BY <1>1, <3>1 DEF Items
      <4> QED BY <2>1, <4>1 DEF Won, SupportedAsJudged, AboutToSupport, OthersKeep,
                                status, content, current
    <3>2. CASE x = i
      <4>1. /\ current(i)' = n + 1 /\ status(i)' = r.status /\ content(i)' = r.content
        BY <1>3 DEF status, content, current
      <4>2. ASSUME NEW v \in Workers, AboutToSupport(v, i)' PROVE FALSE
        <5>1. /\ v # w /\ pc[v] = "append" /\ job[v].item = i
              /\ job[v].expected = n + 1
          BY <4>1, <4>2 DEF AboutToSupport, OthersKeep
        <5>2. job[v].expected \in DOMAIN history[i]
          BY <5>1 DEF IInv, JobsFit, JobFits, Judging
        <5> QED BY <1>3, <5>1, <5>2
      <4>3. SupportedAsJudged(i)'
        BY <2>1, <3>2, <4>2 DEF Won
      <4>4. r.status = "supported" /\ n \in 1 .. n /\ r.content = history'[i][n].content
        BY <4>1, <4>3 DEF SupportedAsJudged
      <4>5. r.content = content(i)
        BY <1>3, <4>4 DEF content
      <4> QED BY <3>2, <4>1, <4>4, <4>5
    <3> QED BY <3>1, <3>2
  <2> QED BY <2>1 DEF IInv, OneWinner
<1>9. WikiCites' /\ WikiNeverGoesBack'
  <2>1. wiki' = wiki
    BY DEF Adds, wikis
  <2>2. WikiNeverGoesBack'
    BY <2>1 DEF IInv, WikiNeverGoesBack
  <2>3. ASSUME NEW k \in DOMAIN wiki, NEW c \in Claims
        PROVE  wiki[k].cites[c] <= Len(history'[c])
    <3>0. wiki[k] \in Page
      BY <1>0 DEF TypeOK
    <3>1. wiki[k].cites[c] \in Nat /\ wiki[k].cites[c] <= Len(history[c]) /\ c \in Items
      BY <3>0 DEF IInv, WikiCites, Page, Items
    <3>2. Len(history[c]) \in Nat /\ Len(history'[c]) \in Nat
          /\ Len(history[c]) <= Len(history'[c])
      <4>1. history[c] \in Seq(Revision) /\ history'[c] \in Seq(Revision)
        BY <1>0, <1>1, <3>1 DEF TypeOK
      <4>2. Len(history[c]) <= Len(history'[c])
        BY <1>4, <3>1 DEF Grows
      <4> QED BY <4>1, <4>2
    <3> QED BY <3>1, <3>2
  <2> QED BY <2>1, <2>2, <2>3 DEF WikiCites
<1> QED BY <1>2, <1>5, <1>6, <1>7, <1>8, <1>9 DEF IInv

(* A row is created in its first status.                                   *)
Creates(i, r) ==
  history[i] = <<>> /\ r.status \in Starts /\ history' = [history EXCEPT ![i] = <<r>>]

(* A row advances along a legal transition.                                *)
Advances(i, r) ==
  /\ history[i] # <<>> /\ <<status(i), r.status>> \in Legal
  /\ history' = [history EXCEPT ![i] = Append(@, r)]

(* insert adds revision one, or finds an item that is there.               *)
LEMMA InsertStep ==
  ASSUME IInv, NEW w \in Workers, insert(w)
  PROVE  /\ IInv' /\ UNCHANGED streams
         /\ UNCHANGED history \/ \E i \in Items, r \in Revision : Creates(i, r)
<1>0. /\ TypeOK /\ JobFits(w) /\ pc[w] = "insert"
      /\ UNCHANGED <<streams, graph, wikis, counters>>
  BY DEF IInv, JobsFit, insert
<1>1. job[w].item \in Items /\ job[w].expected = 0 /\ job[w].content \in Contents
  BY <1>0 DEF JobFits
<1> PICK i \in Items, x \in Contents : i = job[w].item /\ x = job[w].content
  BY <1>1
<1> DEFINE r == First(i, x)
<1>2. CASE /\ history[i] = <<>> /\ history' = [history EXCEPT ![i] = <<r>>]
           /\ Goto(w, "journal") /\ UNCHANGED job
  <2>1. r \in Revision /\ r.number = 1 /\ r.status \in Starts /\ r.status # "supported"
    <3>1. StartStatus[i] \in Starts
      BY SemanticAssumption
    <3>2. \A s \in Starts : s \in Statuses /\ s # "supported"
      BY DEF Starts, Statuses, BeliefStatuses, ContradictionStatuses
    <3>3. 1 \in Numbers
      BY SemanticAssumption DEF Numbers
    <3> QED BY <3>1, <3>2, <3>3 DEF First, Revision
  <2>2. PICK q \in Revision : q = r
    BY <2>1
  <2> HIDE DEF r
  <2>3. current(i) = 0 /\ <<q>> = Append(history[i], q)
    BY <1>2 DEF current
  <2>4. Adds(i, q)
    BY <1>0, <1>2, <2>2, <2>3 DEF Adds
  <2>5. /\ pc' \in [Workers -> PCs] /\ job' \in [Workers -> Job]
        /\ pc'[w] = "journal" /\ job'[w] = job[w] /\ OthersKeep(w)
    BY <1>0, <1>2, GotoType DEF PCs
  <2>6. history'[i] = <<q>> /\ 0 + 1 \in DOMAIN history'[i] /\ ~(0 > 0)
    BY <1>0, <1>2, <2>2 DEF TypeOK
  <2>7. JobFits(w)'
    BY <1>1, <2>5, <2>6 DEF JobFits, Judging
  <2>8. IInv'
    BY <2>1, <2>2, <2>3, <2>4, <2>5, <2>7, AddStep
  <2>9. Creates(i, q)
    BY <1>2, <2>1, <2>2 DEF Creates
  <2> QED BY <1>0, <2>8, <2>9
<1>3. CASE /\ history[i] # <<>> /\ UNCHANGED history
           /\ Goto(w, "journal") /\ UNCHANGED job
  <2>1. /\ pc' \in [Workers -> PCs] /\ job' \in [Workers -> Job]
        /\ pc'[w] = "journal" /\ job'[w] = job[w] /\ OthersKeep(w)
    BY <1>0, <1>3, GotoType DEF PCs
  <2>2. TypeOK' /\ Kept
    BY <1>0, <1>3, <2>1 DEF TypeOK, graph, wikis, counters, Kept
  <2>3. 0 + 1 \in DOMAIN history[i] /\ ~(0 > 0)
    BY <1>0, <1>3, RowFacts
  <2>4. JobFits(w)'
    BY <1>1, <1>3, <2>1, <2>3 DEF JobFits, Judging
  <2> QED BY <1>0, <1>3, <2>1, <2>2, <2>4, QuietStep
<1>4. CASE Finish(w) /\ UNCHANGED history
  <2>1. TypeOK' /\ Kept
    BY <1>0, <1>4, FinishType DEF TypeOK, graph, wikis, counters, Kept
  <2> QED BY <1>0, <1>4, <2>1, QuietFinish
<1> QED BY <1>2, <1>3, <1>4 DEF insert, Check

(* append adds the revision after the quoted one.  The status was judged   *)
(* before and outside the transaction, which compares only revisions; when *)
(* it succeeds, the revision judged was the quoted one and still is the    *)
(* current one.                                                            *)
LEMMA AppendStep ==
  ASSUME IInv, NEW w \in Workers, append(w)
  PROVE  /\ IInv' /\ UNCHANGED streams
         /\ UNCHANGED history \/ \E i \in Items, r \in Revision : Advances(i, r)
<1>0. /\ TypeOK /\ JobFits(w) /\ pc[w] = "append"
      /\ UNCHANGED <<streams, graph, wikis, counters>>
  BY DEF IInv, JobsFit, append
<1>1. /\ job[w].item \in Items /\ job[w].expected \in Nat /\ job[w].target \in Statuses
      /\ job[w].content \in Contents
  BY <1>0 DEF JobFits, TypeOK, Job, Judging, Items
<1> PICK i \in Items, e \in Nat, t \in Statuses, x \in Contents :
          i = job[w].item /\ e = job[w].expected /\ t = job[w].target /\ x = job[w].content
  BY <1>1
<1> DEFINE r == [number |-> e + 1, status |-> t, content |-> x]
<1>2. CASE /\ current(i) = e /\ history' = [history EXCEPT ![i] = Append(@, r)]
           /\ Goto(w, "journal") /\ UNCHANGED job
  <2>1. /\ e < MaxRevisions /\ <<job[w].status, t>> \in Legal /\ e \in DOMAIN history[i]
        /\ \E k \in DOMAIN history[i] : e <= k /\ job[w].status = history[i][k].status
    BY <1>0 DEF JobFits, Judging
  <2>2. PICK k \in DOMAIN history[i] : e <= k /\ job[w].status = history[i][k].status
    BY <2>1
  <2>3. k = e /\ history[i] # <<>> /\ e > 0 /\ DOMAIN history[i] = 1 .. e
    BY <1>0, <1>2, <2>1, <2>2, RowFacts
  <2>4. <<status(i), t>> \in Legal /\ job[w].status = history[i][e].status
    BY <1>2, <2>1, <2>2, <2>3 DEF status
  <2>5. r \in Revision /\ r.number = e + 1 /\ r.status = t /\ r.content = x
    BY <2>1, SemanticAssumption DEF Revision, Numbers
  <2>6. PICK q \in Revision : q = r
    BY <2>5
  <2> HIDE DEF r
  <2>7. Adds(i, q)
    BY <1>0, <1>2, <2>6 DEF Adds
  <2>8. /\ pc' \in [Workers -> PCs] /\ job' \in [Workers -> Job]
        /\ pc'[w] = "journal" /\ job'[w] = job[w] /\ OthersKeep(w)
    BY <1>0, <1>2, GotoType DEF PCs
  <2>9. DOMAIN history'[i] = 1 .. (e + 1) /\ \A m \in 1 .. e : history'[i][m] = history[i][m]
    <3>1. history'[i] = Append(history[i], q) /\ history[i] \in Seq(Revision)
          /\ Len(history[i]) = e
      BY <1>0, <1>2, <2>6 DEF TypeOK, current
    <3> QED BY <3>1
  <2>10. JobFits(w)'
    <3>1. e + 1 \in DOMAIN history'[i] /\ history'[i][e] = history[i][e]
      BY <2>3, <2>9
    <3> QED BY <2>4, <2>8, <3>1 DEF JobFits, Judging
  <2>11. q.status = "supported" => e > 0 /\ (q.content = content(i) => Won(i))
    BY <1>0, <1>2, <2>3, <2>5, <2>6 DEF Won, AboutToSupport
  <2>12. IInv'
    BY <1>2, <2>5, <2>6, <2>7, <2>8, <2>10, <2>11, AddStep
  <2>13. Advances(i, q)
    BY <1>2, <2>3, <2>4, <2>5, <2>6 DEF Advances
  <2> QED BY <1>0, <2>12, <2>13
<1>3. CASE Finish(w) /\ UNCHANGED history
  <2>1. TypeOK' /\ Kept
    BY <1>0, <1>3, FinishType DEF TypeOK, graph, wikis, counters, Kept
  <2> QED BY <1>0, <1>3, <2>1, QuietFinish
<1> QED BY <1>2, <1>3 DEF append, Wanted

-----------------------------------------------------------------------------
(* The event ev announces the revision of i after the last announced one.  *)
Tells(i, ev) ==
  /\ version(i) < current(i) /\ ev.revision = history[i][version(i) + 1]
  /\ streams' = [streams EXCEPT ![i] = Append(@, ev)]

(* append_event tells the revision the worker committed, or found, when    *)
(* the stream is exactly there; the status it carries is the status of the *)
(* revision before.                                                        *)
LEMMA AppendEventStep ==
  ASSUME IInv, NEW w \in Workers, append_event(w)
  PROVE  /\ IInv' /\ UNCHANGED history
         /\ UNCHANGED streams \/ \E i \in Items, ev \in Event : Tells(i, ev)
<1>0. /\ TypeOK /\ JobFits(w) /\ pc[w] = "journal" /\ Finish(w)
      /\ UNCHANGED <<history, graph, wikis, counters>>
  BY DEF IInv, JobsFit, append_event
<1>1. /\ job[w].item \in Items /\ job[w].expected \in Nat /\ job[w].status \in Statuses
      /\ job[w].expected + 1 \in DOMAIN history[job[w].item]
      /\ job[w].expected > 0 => job[w].status = history[job[w].item][job[w].expected].status
  BY <1>0 DEF JobFits, TypeOK, Job
<1> PICK i \in Items, e \in Nat, s \in Statuses :
          i = job[w].item /\ e = job[w].expected /\ s = job[w].status
  BY <1>1
<1>2. /\ e < current(i) /\ history[i][e + 1] \in Revision
      /\ streams[i] \in Seq(Event) /\ DOMAIN streams[i] = 1 .. version(i)
      /\ version(i) \in Nat /\ current(i) \in Nat
  BY <1>0, <1>1, RowFacts
<1>3. /\ pc' \in [Workers -> PCs] /\ job' \in [Workers -> Job]
      /\ pc'[w] = "idle" /\ OthersKeep(w)
  BY <1>0, FinishType
<1>4. CASE version(i) = e
  <2> DEFINE d == [revision |-> history[i][e + 1], previous |-> s]
  <2>1. d \in Event /\ d.revision = history[i][e + 1] /\ d.previous = s
    BY <1>2 DEF Event
  <2>2. PICK ev \in Event : ev = d
    BY <2>1
  <2>3. streams' = [streams EXCEPT ![i] = Append(@, ev)]
    BY <1>4, <2>2 DEF append_event
  <2> HIDE DEF d
  <2>4. /\ streams'[i] = Append(streams[i], ev) /\ streams'[i] \in Seq(Event)
        /\ \A x \in Items \ {i} : streams'[x] = streams[x]
        /\ streams' \in [Items -> Seq(Event)]
    BY <1>0, <1>2, <2>3, SMTT(30) DEF TypeOK
  <2>5. /\ DOMAIN streams'[i] = 1 .. (e + 1) /\ version(i)' = e + 1
        /\ streams'[i][e + 1] = ev
        /\ \A k \in 1 .. e : streams'[i][k] = streams[i][k]
    BY <1>2, <1>4, <2>4 DEF version
  <2>6. TypeOK'
    BY <1>0, <1>3, <2>4 DEF TypeOK, graph, wikis, counters
  <2>7. JobFits(w)'
    BY <1>3 DEF JobFits, Judging
  <2>8. Grows
    <3>1. Len(wiki) \in Nat /\ \A x \in Items : Len(history[x]) \in Nat
      BY <1>0 DEF TypeOK
    <3> QED BY <1>0, <3>1 DEF Grows, wikis
  <2>9. JobsFit'
    BY <1>3, <2>6, <2>7, <2>8, FitsStable DEF IInv
  <2>10. OneWinner'
    BY <1>0, <1>3, NoNewWinner DEF IInv
  <2>11. TellsPrefix'
    <3>1. ASSUME NEW k \in DOMAIN streams'[i]
          PROVE  /\ streams'[i][k].revision = history[i][k]
                 /\ k > 1 => streams'[i][k].previous = history[i][k - 1].status
      <4>1. CASE k = e + 1
        <5>1. k > 1 => e > 0 /\ k - 1 = e
          BY <4>1
        <5>2. streams'[i][k].revision = history[i][k] /\ streams'[i][k].previous = s
          BY <2>1, <2>2, <2>5, <4>1
        <5>3. k > 1 => s = history[i][k - 1].status
          BY <1>1, <5>1
        <5> QED BY <5>2, <5>3
      <4>2. CASE k # e + 1
        <5>1. k \in 1 .. e
          BY <2>5, <4>2
        <5>2. k \in DOMAIN streams[i] /\ streams'[i][k] = streams[i][k]
          BY <1>2, <1>4, <2>5, <5>1
        <5> QED BY <5>2 DEF IInv, TellsPrefix
      <4> QED BY <4>1, <4>2
    <3>2. version(i)' <= current(i)
      BY <1>2, <2>5
    <3>3. \A x \in Items \ {i} : version(x)' = version(x)
      BY <2>4 DEF version
    <3>4. ASSUME NEW x \in Items
          PROVE  /\ version(x)' <= current(x)
                 /\ \A k \in DOMAIN streams'[x] :
                      /\ streams'[x][k].revision = history[x][k]
                      /\ k > 1 => streams'[x][k].previous = history[x][k - 1].status
      <4>1. CASE x = i
        BY <3>1, <3>2, <4>1
      <4>2. CASE x # i
        BY <2>4, <3>3, <4>2 DEF IInv, TellsPrefix
      <4> QED BY <4>1, <4>2
    <3> QED BY <1>0, <3>4 DEF TellsPrefix, current
  <2>12. Numbered' /\ WikiCites' /\ WikiNeverGoesBack'
    BY <1>0 DEF IInv, Numbered, WikiCites, WikiNeverGoesBack, wikis
  <2>13. IInv'
    BY <2>6, <2>9, <2>10, <2>11, <2>12 DEF IInv
  <2>14. Tells(i, ev)
    BY <1>2, <1>4, <2>1, <2>2, <2>3 DEF Tells
  <2> QED BY <1>0, <2>13, <2>14
<1>5. CASE version(i) # e
  <2>1. streams' = streams
    BY <1>5 DEF append_event
  <2>2. TypeOK' /\ Kept
    BY <1>0, <1>3, <2>1 DEF TypeOK, graph, wikis, counters, Kept
  <2> QED BY <1>0, <2>1, <2>2, QuietFinish
<1> QED BY <1>4, <1>5

(* render: the page advances only from the revision that was there before  *)
(* the claims were read, so every page it follows cites what was then      *)
(* current or older.                                                       *)
LEMMA RenderStep ==
  ASSUME IInv, NEW w \in Workers, render(w)
  PROVE  IInv' /\ UNCHANGED <<history, streams>>
<1>0. /\ TypeOK /\ JobFits(w) /\ pc[w] = "render" /\ job[w] \in Job
      /\ UNCHANGED <<history, streams, graph, wikiStream, counters>>
  BY DEF IInv, JobsFit, render, TypeOK
<1>1. CASE Goto(w, "version") /\ UNCHANGED <<wiki, job>>
  <2>1. Reads /\ "version" \in PCs
    BY <1>0, <1>1 DEF Reads, wikis, PCs
  <2>2. pc'[w] = "version" => JobFits(w)'
    BY DEF JobFits, Judging
  <2> QED BY <1>0, <1>1, <2>1, <2>2, MovesOn
<1>2. CASE Finish(w) /\ UNCHANGED wiki
  <2>1. Reads
    BY <1>0, <1>2 DEF Reads, wikis
  <2> QED BY <1>0, <1>2, <2>1, GivesUp
<1>3. CASE /\ Len(wiki) = job[w].expected /\ wiki' = Append(wiki, Rendered(w))
           /\ job' = [job EXCEPT ![w].expected = job[w].expected + 1, ![w].fresh = TRUE]
           /\ Goto(w, "version")
  <2>1. /\ wiki \in Seq(Page) /\ job[w].cites \in [Claims -> Nat]
        /\ job[w].expected \in Nat /\ job[w].now \in BOOLEAN
    BY <1>0 DEF TypeOK, JobFits, Job
  <2>0. /\ Rendered(w) \in Page /\ Rendered(w).cites = job[w].cites
        /\ Rendered(w).now = job[w].now
    BY <2>1 DEF Rendered, Page
  <2> PICK pg \in Page, n \in Nat : pg = Rendered(w) /\ n = job[w].expected
    BY <2>0, <2>1
  <2>2. \A c \in Claims :
          /\ pg.cites[c] <= Len(history[c])
          /\ pg.now => \A k \in 1 .. n : pg.cites[c] = 0 \/ wiki[k].cites[c] <= pg.cites[c]
    BY <1>0, <2>0 DEF JobFits
  <2>3. /\ wiki' \in Seq(Page) /\ DOMAIN wiki = 1 .. n
        /\ DOMAIN wiki' = 1 .. (n + 1) /\ wiki'[n + 1] = pg
        /\ \A k \in 1 .. n : wiki'[k] = wiki[k]
        /\ Len(wiki) = n /\ Len(wiki') = n + 1
    BY <1>3, <2>1
  <2> DEFINE j == [job[w] EXCEPT !.expected = job[w].expected + 1, !.fresh = TRUE]
  <2>4. j \in Job
    <3>1. n + 1 \in Nat /\ TRUE \in BOOLEAN
      OBVIOUS
    <3>2. \A x \in Nat, b \in BOOLEAN : [job[w] EXCEPT !.expected = x, !.fresh = b] \in Job
      BY <1>0 DEF Job
    <3> QED BY <3>1, <3>2
  <2>5. job' = [job EXCEPT ![w] = j]
    BY <1>0, <1>3 DEF TypeOK
  <2> HIDE DEF j
  <2>6. /\ pc' \in [Workers -> PCs] /\ job' \in [Workers -> Job]
        /\ pc'[w] = "version" /\ OthersKeep(w)
    BY <1>0, <1>3, <2>4, <2>5, JobType DEF PCs
  <2>7. TypeOK'
    BY <1>0, <2>3, <2>6 DEF TypeOK, graph, counters
  <2>8. Grows
    <3>1. \A x \in Items : Len(history[x]) \in Nat
      BY <1>0 DEF TypeOK
    <3>2. Len(wiki) <= Len(wiki')
      BY <2>3
    <3> QED BY <1>0, <2>3, <3>1, <3>2 DEF Grows
  <2>9. JobFits(w)'
    BY <2>6 DEF JobFits, Judging
  <2>10. JobsFit'
    BY <1>0, <2>6, <2>7, <2>8, <2>9, FitsStable DEF IInv
  <2>11. OneWinner'
    BY <1>0, <2>6, NoNewWinner DEF IInv
  <2>12. Numbered' /\ TellsPrefix'
    BY <1>0 DEF IInv, Numbered, TellsPrefix, version, current
  <2>13. \A k \in DOMAIN wiki' : k = n + 1 \/ k \in 1 .. n
    BY <2>3
  <2>14. WikiCites'
    <3>1. ASSUME NEW k \in DOMAIN wiki', NEW c \in Claims
          PROVE  wiki'[k].cites[c] <= Len(history[c])
      <4>1. CASE k = n + 1
        BY <2>2, <2>3, <4>1
      <4>2. CASE k \in 1 .. n
        BY <2>3, <4>2 DEF IInv, WikiCites
      <4> QED BY <2>13, <4>1, <4>2
    <3> QED BY <1>0, <3>1 DEF WikiCites
  <2>15. WikiNeverGoesBack'
    <3> SUFFICES ASSUME NEW k \in DOMAIN wiki', wiki'[k].now,
                        NEW m \in 1 .. k - 1, NEW c \in Claims
                 PROVE  wiki'[k].cites[c] = 0 \/ wiki'[m].cites[c] <= wiki'[k].cites[c]
      BY DEF WikiNeverGoesBack
    <3>1. m \in 1 .. n
      BY <2>3
    <3>2. CASE k = n + 1
      BY <2>2, <2>3, <3>1, <3>2
    <3>3. CASE k \in 1 .. n
      BY <2>3, <3>1, <3>3 DEF IInv, WikiNeverGoesBack
    <3> QED BY <2>13, <3>2, <3>3
  <2> QED BY <1>0, <2>7, <2>10, <2>11, <2>12, <2>14, <2>15 DEF IInv
<1> QED BY <1>1, <1>2, <1>3 DEF render

-----------------------------------------------------------------------------
(* The invariant holds initially: what exists is announced, nobody works.  *)
LEMMA InvInit == Init => IInv
<1> SUFFICES ASSUME Init PROVE IInv
  OBVIOUS
<1>1. PICK said \in [Items -> Contents] :
        /\ history = [i \in Items |->
             IF i \in Existing THEN <<First(i, said[i])>> ELSE <<>>]
        /\ streams = [i \in Items |->
             IF i \in Existing
             THEN <<[revision |-> First(i, said[i]), previous |-> StartStatus[i]]>> ELSE <<>>]
  BY DEF Init
<1>2. /\ decisions = {} /\ relations = {} /\ wiki = <<>> /\ wikiStream = <<>>
      /\ pc = [v \in Workers |-> "idle"] /\ job = [v \in Workers |-> Idle]
      /\ requests = 0 /\ crashes = 0
  BY DEF Init
<1>3. ASSUME NEW i \in Items
      PROVE  /\ First(i, said[i]) \in Revision /\ First(i, said[i]).number = 1
             /\ First(i, said[i]).status # "supported" /\ StartStatus[i] \in Statuses
  <2>1. StartStatus[i] \in Starts
    BY SemanticAssumption
  <2>2. \A s \in Starts : s \in Statuses /\ s # "supported"
    BY DEF Starts, Statuses, BeliefStatuses, ContradictionStatuses
  <2>3. 1 \in Numbers
    BY SemanticAssumption DEF Numbers
  <2> QED BY <2>1, <2>2, <2>3 DEF First, Revision
<1>4. ASSUME NEW i \in Items
      PROVE  /\ history[i] \in Seq(Revision) /\ streams[i] \in Seq(Event)
             /\ version(i) <= current(i)
             /\ \A k \in DOMAIN history[i] : k = 1 /\ history[i][k] = First(i, said[i])
             /\ \A k \in DOMAIN streams[i] :
                  k = 1 /\ history[i][k] = First(i, said[i]) /\ streams[i][k].revision = First(i, said[i])
  <2>1. CASE i \in Existing
    <3> DEFINE f == First(i, said[i])
               ev == [revision |-> f, previous |-> StartStatus[i]]
    <3>1. f \in Revision /\ ev \in Event /\ ev.revision = f
      BY <1>3 DEF Event
    <3>2. history[i] = <<f>> /\ streams[i] = <<ev>>
      BY <1>1, <2>1
    <3> HIDE DEF f, ev
    <3>3. /\ history[i] \in Seq(Revision) /\ streams[i] \in Seq(Event)
          /\ Len(history[i]) = 1 /\ Len(streams[i]) = 1
          /\ \A k \in DOMAIN history[i] : k = 1 /\ history[i][k] = f
          /\ \A k \in DOMAIN streams[i] :
               k = 1 /\ history[i][k] = f /\ streams[i][k].revision = f
      <4>1. DOMAIN history[i] = {1} /\ DOMAIN streams[i] = {1}
        BY <3>2
      <4>2. history[i][1] = f /\ streams[i][1] = ev
        BY <3>2
      <4>3. history[i] \in Seq(Revision) /\ streams[i] \in Seq(Event)
        BY <3>1, <3>2
      <4>4. Len(history[i]) = 1 /\ Len(streams[i]) = 1
        BY <3>2
      <4> QED BY <3>1, <4>1, <4>2, <4>3, <4>4
    <3> QED BY <3>3 DEF f, version, current
  <2>2. CASE i \notin Existing
    BY <1>1, <2>2 DEF version, current
  <2> QED BY <2>1, <2>2
<1>5. TypeOK
  <2>1. history \in [Items -> Seq(Revision)] /\ streams \in [Items -> Seq(Event)]
    BY <1>1, <1>4
  <2>2. pc \in [Workers -> PCs] /\ job \in [Workers -> Job]
    BY <1>2, IdleType DEF PCs
  <2>3. wiki \in Seq(Page) /\ wikiStream \in Seq(WikiEvent)
    BY <1>2
  <2>4. requests \in 0 .. MaxRequests /\ crashes \in 0 .. MaxCrashes
    BY <1>2, SemanticAssumption
  <2> QED BY <1>2, <2>1, <2>2, <2>3, <2>4 DEF TypeOK
<1>6. \A v \in Workers : pc[v] = "idle"
  BY <1>2
<1>7. JobsFit
  BY <1>6 DEF JobsFit, JobFits, Judging
<1>8. Numbered
  BY <1>3, <1>4 DEF Numbered
<1>9. TellsPrefix
  <2>1. ~(1 > 1)
    OBVIOUS
  <2> QED BY <1>4, <2>1 DEF TellsPrefix
<1>10. OneWinner
  <2>1. ASSUME NEW c \in Claims PROVE ~Won(c)
    <3>1. c \in Items
      BY DEF Items
    <3>2. history[c] # <<>> => status(c) # "supported"
      <4>1. history[c] # <<>> => current(c) \in DOMAIN history[c]
        BY <1>5, <3>1, RowFacts
      <4> QED BY <1>3, <1>4, <3>1, <4>1 DEF status
    <3> QED BY <1>6, <3>2 DEF Won, SupportedAsJudged, AboutToSupport
  <2> QED BY <2>1 DEF OneWinner
<1>11. WikiCites /\ WikiNeverGoesBack
  BY <1>2 DEF WikiCites, WikiNeverGoesBack
<1> QED BY <1>5, <1>7, <1>8, <1>9, <1>10, <1>11 DEF IInv

(* The steps that add no revision and append no event.                     *)
QuietNext(w) ==
  \/ create(w) \/ promote(w) \/ transition(w) \/ relate(w) \/ render_wiki(w)
  \/ lookup(w) \/ find(w) \/ snapshot(w) \/ decide(w) \/ read(w)
  \/ successor(w) \/ critical(w) \/ conflict(w) \/ insert_relation(w)
  \/ page(w) \/ query(w) \/ render(w) \/ read_version(w) \/ announce(w) \/ crash(w)

(* A step is quiet, adds a revision or appends an event.                   *)
LEMMA NextCases ==
  ASSUME [Next]_vars
  PROVE  \/ UNCHANGED vars
         \/ \E w \in Workers : QuietNext(w) \/ insert(w) \/ append(w) \/ append_event(w)
BY DEF Next, QuietNext

(* Quiet steps keep rows and streams.                                      *)
LEMMA QuietFacts ==
  ASSUME NEW w \in Workers, QuietNext(w)
  PROVE  UNCHANGED <<history, streams>>
<1>1. CASE create(w) \/ promote(w) \/ transition(w) \/ relate(w) \/ render_wiki(w)
  BY <1>1 DEF create, promote, transition, relate, render_wiki, Start
<1>2. CASE \/ lookup(w) \/ find(w) \/ snapshot(w) \/ read(w) \/ successor(w)
           \/ critical(w) \/ conflict(w) \/ page(w) \/ query(w) \/ read_version(w)
  BY <1>2 DEF lookup, find, snapshot, read, successor, critical, conflict, page, query,
              read_version, Reads
<1>3. CASE decide(w) \/ insert_relation(w) \/ render(w) \/ announce(w) \/ crash(w)
  BY <1>3 DEF decide, insert_relation, render, announce, crash
<1> QED BY <1>1, <1>2, <1>3 DEF QuietNext

(* Every step preserves the invariant.                                     *)
LEMMA InvNext == IInv /\ [Next]_vars => IInv'
<1> SUFFICES ASSUME IInv, [Next]_vars PROVE IInv'
  OBVIOUS
<1>1. ASSUME NEW w \in Workers, QuietNext(w) PROVE IInv'
  BY <1>1, CreateStep, TransitionStep, RelateStep, RenderWikiStep, LookupStep, FindStep,
     SnapshotStep, DecideStep, ReadStep, CheckedStep, ConflictStep, InsertRelationStep,
     PageStep, QueryStep, RenderStep, ReadVersionStep, AnnounceStep, CrashStep DEF QuietNext
<1>2. CASE UNCHANGED vars
  <2>1. Kept /\ UNCHANGED <<decisions, relations, wikiStream, pc, job, requests, crashes>>
    BY <1>2 DEF vars, graph, wikis, counters, Kept
  <2>2. TypeOK' /\ JobsFit'
    BY <2>1 DEF IInv, Kept, TypeOK, JobsFit, JobFits
  <2>3. OneWinner'
    BY <2>1 DEF IInv, Kept, OneWinner, Won, SupportedAsJudged, AboutToSupport,
                status, content, current
  <2> QED BY <2>1, <2>2, <2>3, KeptFacts DEF IInv
<1> QED BY <1>1, <1>2, NextCases, InsertStep, AppendStep, AppendEventStep

(* The inductive invariant is an invariant of semantic memory.             *)
LEMMA Invariance == Spec => []IInv
BY InvInit, InvNext, PTL DEF Spec

(* Type correctness, for every number of items, workers and revisions: in  *)
(* particular decisions, relations and pages refer to revisions in range.  *)
THEOREM TypeCorrect == Spec => []TypeOK
<1>1. IInv => TypeOK
  BY DEF IInv
<1> QED BY <1>1, Invariance, PTL

(* Two claims that were both supported with the content that was judged    *)
(* never contradict each other, whoever races and whatever a rival stated  *)
(* in between: no lock is held between detect_contradictions and the       *)
(* append.                                                                 *)
THEOREM RivalsApart == Spec => []JudgedSupportsAgree
<1>1. ASSUME IInv PROVE JudgedSupportsAgree
  BY <1>1 DEF IInv, OneWinner, Won, JudgedSupportsAgree
<1> QED BY <1>1, Invariance, PTL

(* The stream reducer of claims accepts every claim stream.                *)
THEOREM StreamsReplay == Spec => []ClaimStreamsReplay
<1>1. ASSUME IInv PROVE ClaimStreamsReplay
  <2> SUFFICES ASSUME NEW c \in Claims, NEW k \in 2 .. version(c)
               PROVE  streams[c][k].previous = streams[c][k - 1].revision.status
    BY DEF ClaimStreamsReplay
  <2>1. c \in Items /\ version(c) \in Nat /\ DOMAIN streams[c] = 1 .. version(c)
    BY <1>1, RowFacts DEF IInv, Items
  <2>2. k \in DOMAIN streams[c] /\ k - 1 \in DOMAIN streams[c] /\ k > 1
    BY <2>1
  <2> QED BY <1>1, <2>1, <2>2 DEF IInv, TellsPrefix
<1> QED BY <1>1, Invariance, PTL

(* A page that shows the claims as they are now never cites an older       *)
(* revision of a claim than a page before it, whichever renderers race,    *)
(* pages as of earlier times among them.                                   *)
THEOREM WikiMonotone == Spec => []WikiNeverGoesBack
<1>1. IInv => WikiNeverGoesBack
  BY DEF IInv
<1> QED BY <1>1, Invariance, PTL

-----------------------------------------------------------------------------
(* The refinement: rows are the abstract history, the revisions that the   *)
(* streams announce are the abstract journal.  An added revision is a      *)
(* Create or an Advance.                                                   *)
LEMMA RowsImplement ==
  ASSUME NEW i \in Items, NEW r \in Revision, UNCHANGED streams,
         Creates(i, r) \/ Advances(i, r)
  PROVE  Aggregate!Next
<1>1. UNCHANGED Told
  BY DEF Told
<1>2. Aggregate!Create(i, r) \/ Aggregate!Advance(i, r)
  BY <1>1 DEF Aggregate!Create, Aggregate!Advance, Creates, Advances, status, current
<1> QED BY <1>2 DEF Aggregate!Next

(* An event that announces the next revision is a Tell.                    *)
LEMMA EventsImplement ==
  ASSUME IInv, NEW i \in Items, NEW ev \in Event, UNCHANGED history, Tells(i, ev)
  PROVE  Aggregate!Next
<1> DEFINE n == version(i)
<1>1. /\ streams[i] \in Seq(Event) /\ n = Len(streams[i]) /\ n \in Nat
      /\ streams'[i] = Append(streams[i], ev)
      /\ \A x \in Items \ {i} : streams'[x] = streams[x]
      /\ n < current(i) /\ current(i) \in Nat /\ ev.revision = history[i][n + 1]
  BY RowFacts DEF IInv, TypeOK, version, Tells
<1>2. /\ DOMAIN streams[i] = 1 .. n /\ DOMAIN streams'[i] = 1 .. (n + 1)
      /\ streams'[i][n + 1] = ev /\ \A k \in 1 .. n : streams'[i][k] = streams[i][k]
  BY <1>1
<1>3. /\ Told[i] = [k \in 1 .. n |-> streams[i][k].revision]
      /\ Told'[i] = [k \in 1 .. (n + 1) |-> streams'[i][k].revision]
      /\ \A x \in Items \ {i} : Told'[x] = Told[x]
  BY <1>1, <1>2 DEF Told
<1>4. Told[i] \in Seq(Revision) /\ Len(Told[i]) = n
  <2>0. \A k \in 1 .. n : streams[i][k] \in Event
    BY <1>1
  <2>1. \A k \in 1 .. n : streams[i][k].revision \in Revision
    BY <2>0 DEF Event
  <2> HIDE DEF n
  <2> QED BY <1>1, <1>3, <2>1
<1>5. Told'[i] = Append(Told[i], history[i][n + 1])
  <2> DEFINE a == Append(Told[i], history[i][n + 1])
  <2>1. history[i][n + 1] \in Revision
    BY <1>1, RowFacts DEF IInv
  <2>2. /\ a = [k \in 1 .. (n + 1) |-> a[k]] /\ a[n + 1] = history[i][n + 1]
        /\ \A k \in 1 .. n : a[k] = Told[i][k]
    BY <1>1, <1>4, <2>1
  <2> HIDE DEF n, a
  <2>3. \A k \in 1 .. (n + 1) : a[k] = streams'[i][k].revision
    <3>0. \A k \in 1 .. n : Told[i][k] = streams[i][k].revision
      BY <1>3
    <3>1. \A k \in 1 .. n : a[k] = streams'[i][k].revision
      BY <1>2, <2>2, <3>0
    <3>2. a[n + 1] = streams'[i][n + 1].revision
      BY <1>1, <1>2, <2>2
    <3>3. \A k \in 1 .. (n + 1) : k = n + 1 \/ k \in 1 .. n
      BY <1>1
    <3> QED BY <3>1, <3>2, <3>3
  <2>4. a = Told'[i]
    BY <1>3, <2>2, <2>3
  <2> QED BY <2>4 DEF a
<1>6. Told' = [Told EXCEPT ![i] = Append(@, history[i][Len(@) + 1])]
  <2>1. Told' = [x \in Items |-> Told'[x]] /\ DOMAIN Told = Items
    BY DEF Told
  <2> HIDE DEF n
  <2> QED BY <1>3, <1>4, <1>5, <2>1
<1>7. Aggregate!Tell(i)
  BY <1>1, <1>4, <1>6 DEF Aggregate!Tell, current
<1> QED BY <1>7 DEF Aggregate!Next

(* Every step of semantic memory is a step of the aggregate, or leaves     *)
(* rows and streams alone.                                                 *)
LEMMA NextImplements == IInv /\ [Next]_vars => [Aggregate!Next]_(Aggregate!vars)
<1> SUFFICES ASSUME IInv, [Next]_vars PROVE [Aggregate!Next]_(Aggregate!vars)
  OBVIOUS
<1>0. ASSUME UNCHANGED <<history, streams>>
      PROVE  UNCHANGED Aggregate!vars
  BY <1>0 DEF Aggregate!vars, Told
<1>1. ASSUME NEW w \in Workers, insert(w) \/ append(w)
      PROVE  [Aggregate!Next]_(Aggregate!vars)
  <2>1. /\ UNCHANGED streams
        /\ UNCHANGED history \/ \E i \in Items, r \in Revision : Creates(i, r) \/ Advances(i, r)
    BY <1>1, InsertStep, AppendStep
  <2> QED BY <1>0, <2>1, RowsImplement
<1>2. ASSUME NEW w \in Workers, append_event(w)
      PROVE  [Aggregate!Next]_(Aggregate!vars)
  BY <1>0, <1>2, AppendEventStep, EventsImplement
<1>3. CASE UNCHANGED vars
  BY <1>0, <1>3 DEF vars
<1>4. ASSUME NEW w \in Workers, QuietNext(w)
      PROVE  UNCHANGED Aggregate!vars
  BY <1>0, <1>4, QuietFacts
<1> QED BY <1>1, <1>2, <1>3, <1>4, NextCases

(* Semantic memory implements the governed aggregate.                      *)
THEOREM Refinement == Spec => ImplementsAggregate
<1>1. Init => Aggregate!Init
  <2> SUFFICES ASSUME Init PROVE Aggregate!Init
    OBVIOUS
  <2>1. PICK said \in [Items -> Contents] :
          /\ history = [i \in Items |->
               IF i \in Existing THEN <<First(i, said[i])>> ELSE <<>>]
          /\ streams = [i \in Items |->
               IF i \in Existing
               THEN <<[revision |-> First(i, said[i]), previous |-> StartStatus[i]]>> ELSE <<>>]
    BY DEF Init
  <2>2. ASSUME NEW i \in Items
        PROVE  /\ First(i, said[i]) \in Revision /\ First(i, said[i]).status \in Starts
    <3>1. StartStatus[i] \in Starts
      BY SemanticAssumption
    <3>2. StartStatus[i] \in Statuses
      BY <3>1 DEF Starts, Statuses, BeliefStatuses, ContradictionStatuses
    <3>3. 1 \in Numbers
      BY SemanticAssumption DEF Numbers
    <3> QED BY <3>1, <3>2, <3>3 DEF First, Revision
  <2>3. ASSUME NEW i \in Items
        PROVE  [k \in DOMAIN streams[i] |-> streams[i][k].revision] = history[i]
    <3>1. CASE i \in Existing
      <4> DEFINE f == First(i, said[i])
                 ev == [revision |-> f, previous |-> StartStatus[i]]
      <4>1. history[i] = <<f>> /\ streams[i] = <<ev>> /\ ev.revision = f
        BY <2>1, <3>1
      <4> HIDE DEF f, ev
      <4>2. DOMAIN streams[i] = {1} /\ streams[i][1] = ev
        BY <4>1
      <4>3. [k \in {1} |-> streams[i][k].revision] = <<f>>
        BY <4>1, <4>2
      <4> QED BY <4>1, <4>2, <4>3
    <3>2. CASE i \notin Existing
      <4>1. history[i] = <<>> /\ DOMAIN streams[i] = {}
        BY <2>1, <3>2
      <4>2. [k \in {} |-> streams[i][k].revision] = <<>>
        OBVIOUS
      <4> QED BY <4>1, <4>2
    <3> QED BY <3>1, <3>2
  <2>4. Told = history
    BY <2>1, <2>3 DEF Told
  <2>5. history \in [Items -> {<<>>} \cup
                        {<<r>> : r \in {x \in Revision : x.status \in Starts}}]
    <3>1. ASSUME NEW i \in Items
          PROVE  history[i] \in {<<>>} \cup
                        {<<r>> : r \in {x \in Revision : x.status \in Starts}}
      BY <2>1, <2>2
    <3> QED BY <2>1, <3>1
  <2> QED BY <2>4, <2>5 DEF Aggregate!Init
<1> QED
  BY <1>1, Invariance, NextImplements, PTL DEF Spec, ImplementsAggregate, Aggregate!Spec
=============================================================================
