------------------------- MODULE MemoryPlaneProofs -------------------------
(***************************************************************************)
(* What MemoryPlane checks on small instances, proved for any number of    *)
(* memories and workers, any batches, any bound on revisions, requests and *)
(* crashes: types, the numbering of revisions, that a lagging stream is    *)
(* never silent, that disclosures are audited, and that the memory plane   *)
(* implements GovernedAggregate.                                           *)
(***************************************************************************)
EXTENDS MemoryPlane, TLAPS

-----------------------------------------------------------------------------
(* The inductive invariant.  What a worker carries between two steps is    *)
(* related to the rows: the revision it quotes exists, and the status it   *)
(* checked is the status of the revision it read.                          *)
JobFits(w) ==
  LET j == job[w] IN
  /\ pc[w] \in {"lookup", "insert", "probe", "announce", "crashed"} =>
       /\ j.op = "create" /\ j.memory \in Memories /\ j.batch # <<>>
       /\ j.status \in {"candidate", "verified"}
  /\ pc[w] \in {"probe", "announce"} => j.read \in DOMAIN items[j.memory]
  /\ pc[w] \in {"source", "read", "append", "journal"} =>
       /\ j.op \in Operations /\ j.memory \in Memories
       /\ j.expected \in DOMAIN items[j.memory]
  /\ pc[w] = "source" => j.source \in Memories
  /\ pc[w] = "append" =>
       /\ j.expected < MaxRevisions /\ j.expected <= j.read
       /\ j.read \in DOMAIN items[j.memory]
       /\ j.status = items[j.memory][j.read].status
       /\ can_transition_memory(j.status, Target[j.op])
  /\ pc[w] = "journal" => j.expected + 1 \in DOMAIN items[j.memory]
  /\ pc[w] = "audit" => j.op = "retrieve"

JobsFit == \A w \in Workers : JobFits(w)

(* The revisions of a memory are numbered from one, without a hole.        *)
Numbered == \A m \in Memories : \A k \in DOMAIN items[m] : items[m][k].number = k

(* A stream tells a prefix of the revisions.                               *)
TellsPrefix ==
  \A m \in Memories :
    /\ version(m) <= current(m)
    /\ \A k \in DOMAIN streams[m] : streams[m][k].revision = items[m][k]

(* The worker still has the event of revision k of m to append.            *)
Owns(w, m, k) ==
  /\ job[w].memory = m
  /\ \/ pc[w] = "journal" /\ job[w].expected + 1 = k
     \/ pc[w] \in {"probe", "announce"} /\ k = 1

(* Each revision that is not announced has its own worker, unless somebody *)
(* was told: stronger than LagIsReported, which asks for one worker.       *)
LagOwned ==
  \A m \in Memories :
    \/ m \in reported
    \/ \A k \in DOMAIN items[m] :
         k > version(m) => \E w \in Workers : Owns(w, m, k)

IInv == TypeOK /\ JobsFit /\ Numbered /\ TellsPrefix /\ LagOwned

-----------------------------------------------------------------------------
(* Revisions are immutable and are never removed.                          *)
Grows ==
  \A m \in Memories :
    /\ Len(items[m]) <= Len(items'[m])
    /\ \A k \in DOMAIN items[m] : items'[m][k] = items[m][k]

(* The jobs of all workers but w are as they were.                         *)
OthersKeep(w) ==
  \A v \in Workers \ {w} : pc'[v] = pc[v] /\ job'[v] = job[v]

(* Idle is a job, and the constants are what they are assumed to be.       *)
LEMMA IdleType == Idle \in Job
BY DEF Idle, Job, Statuses

(* A request begins with a well-typed job.                                 *)
LEMMA StartType ==
  ASSUME TypeOK, NEW w \in Workers, NEW l \in PCs, NEW j \in Job, Start(w, l, j)
  PROVE  /\ TypeOK' /\ pc'[w] = l /\ job'[w] = j
         /\ OthersKeep(w) /\ UNCHANGED <<items, streams, reported>>
BY MemoryAssumption DEF TypeOK, Start, Goto, tables, OthersKeep

(* A request that is over leaves an idle worker.                           *)
LEMMA FinishType ==
  ASSUME TypeOK, NEW w \in Workers, Finish(w)
  PROVE  /\ pc' \in [Workers -> PCs] /\ job' \in [Workers -> Job]
         /\ pc'[w] = "idle" /\ OthersKeep(w)
BY IdleType DEF TypeOK, Finish, Goto, OthersKeep, PCs

(* The loop of ingest goes on, or is over.                                 *)
LEMMA NextCreateType ==
  ASSUME TypeOK, NEW w \in Workers, job[w].batch # <<>>, NextCreate(w)
  PROVE  /\ pc' \in [Workers -> PCs] /\ job' \in [Workers -> Job]
         /\ OthersKeep(w)
         /\ \/ pc'[w] = "idle"
            \/ /\ pc'[w] = "lookup" /\ job'[w].op = job[w].op
               /\ job'[w].memory \in Memories /\ job'[w].batch # <<>>
               /\ job'[w].status = job[w].status
<1>1. CASE Tail(job[w].batch) = <<>>
  BY <1>1, FinishType DEF NextCreate
<1>2. CASE Tail(job[w].batch) # <<>>
  <2> DEFINE rest == Tail(job[w].batch)
  <2>1. job[w] \in Job /\ job[w].batch \in Seq(Memories)
    BY DEF TypeOK, Job
  <2>2. rest \in Seq(Memories) /\ rest # <<>> /\ rest[1] \in Memories
    BY <1>2, <2>1
  <2> HIDE DEF rest
  <2>3. /\ job' = [job EXCEPT ![w].batch = rest, ![w].memory = rest[1]]
        /\ Goto(w, "lookup")
    BY <1>2 DEF NextCreate, rest
  <2>4. [job[w] EXCEPT !.batch = rest, !.memory = rest[1]] \in Job
    BY <2>1, <2>2 DEF Job
  <2>5. job' = [job EXCEPT ![w] = [job[w] EXCEPT !.batch = rest, !.memory = rest[1]]]
    BY <2>3 DEF TypeOK
  <2>6. job'[w] = [job[w] EXCEPT !.batch = rest, !.memory = rest[1]]
    BY <2>5 DEF TypeOK
  <2>7. /\ job'[w].op = job[w].op /\ job'[w].memory = rest[1] /\ job'[w].batch = rest
        /\ job'[w].status = job[w].status
    BY <2>1, <2>6 DEF Job
  <2> QED BY <2>2, <2>3, <2>4, <2>5, <2>7 DEF TypeOK, Goto, PCs, OthersKeep
<1> QED BY <1>1, <1>2

-----------------------------------------------------------------------------
(* What a worker knows stays true while others work: rows only grow.       *)
LEMMA FitsStable ==
  ASSUME TypeOK, TypeOK', JobsFit, Grows, NEW w \in Workers, OthersKeep(w), JobFits(w)'
  PROVE  JobsFit'
<1> SUFFICES ASSUME NEW v \in Workers \ {w} PROVE JobFits(v)'
  BY DEF JobsFit
<1>1. JobFits(v) /\ pc'[v] = pc[v] /\ job'[v] = job[v]
  BY DEF JobsFit, OthersKeep
<1>2. \A m \in Memories : /\ DOMAIN items[m] = 1 .. Len(items[m]) /\ Len(items[m]) \in Nat
                          /\ DOMAIN items'[m] = 1 .. Len(items'[m]) /\ Len(items'[m]) \in Nat
  BY DEF TypeOK
<1>3. \A m \in Memories : \A k \in DOMAIN items[m] :
        k \in DOMAIN items'[m] /\ items'[m][k] = items[m][k]
  BY <1>2 DEF Grows
<1> QED BY <1>1, <1>3 DEF JobFits

(* A step that keeps the rows keeps what is said of rows alone.            *)
LEMMA RowsKept ==
  ASSUME TypeOK, UNCHANGED items
  PROVE  Grows /\ (Numbered => Numbered')
BY DEF TypeOK, Grows, Numbered

(* A step that keeps rows and streams keeps the prefix.                    *)
LEMMA PrefixKept ==
  ASSUME TellsPrefix, UNCHANGED <<items, streams>>
  PROVE  TellsPrefix'
BY DEF TellsPrefix, version, current

(* The lag stays owned when w keeps what it owes, announces it or reports  *)
(* it, and owns what it adds.                                              *)
LEMMA LagStep ==
  ASSUME TypeOK, TypeOK', LagOwned, NEW w \in Workers, OthersKeep(w),
         reported \subseteq reported',
         \A m \in Memories : version(m) <= version(m)',
         \A m \in Memories : \A k \in DOMAIN items[m] :
           Owns(w, m, k) => m \in reported' \/ k <= version(m)' \/ Owns(w, m, k)',
         \A m \in Memories : \A k \in DOMAIN items'[m] \ DOMAIN items[m] : Owns(w, m, k)'
  PROVE  LagOwned'
<1> SUFFICES ASSUME NEW m \in Memories, m \notin reported', NEW k \in DOMAIN items'[m],
                    k > version(m)'
             PROVE  \E v \in Workers : Owns(v, m, k)'
  BY DEF LagOwned, version
<1>0. version(m) \in Nat /\ version(m)' \in Nat /\ DOMAIN items'[m] \subseteq Nat
  BY DEF TypeOK, version
<1>1. CASE k \in DOMAIN items[m]
  <2>1. k > version(m)
    BY <1>0
  <2>2. PICK v \in Workers : Owns(v, m, k)
    BY <1>1, <2>1 DEF LagOwned
  <2>3. CASE v = w
    <3>1. ~(k <= version(m)')
      BY <1>0
    <3> QED BY <1>1, <2>2, <2>3, <3>1
  <2>4. CASE v # w
    BY <2>2, <2>4 DEF OthersKeep, Owns
  <2> QED BY <2>3, <2>4
<1>2. CASE k \notin DOMAIN items[m]
  BY <1>2
<1> QED BY <1>1, <1>2

(* A step of w that leaves rows and streams alone preserves the invariant  *)
(* when w's own job still fits and w does not forget an event it owes.     *)
LEMMA QuietStep ==
  ASSUME IInv, TypeOK', NEW w \in Workers, OthersKeep(w), JobFits(w)',
         UNCHANGED <<items, streams>>, reported \subseteq reported',
         \A m \in Memories : \A k \in DOMAIN items[m] :
           Owns(w, m, k) => m \in reported' \/ k <= version(m) \/ Owns(w, m, k)'
  PROVE  IInv'
<1>1. Grows /\ Numbered' /\ TellsPrefix'
  BY RowsKept, PrefixKept DEF IInv
<1>2. JobsFit'
  BY <1>1, FitsStable DEF IInv
<1>3. \A m \in Memories : version(m) \in Nat /\ version(m)' = version(m)
  BY DEF IInv, TypeOK, version
<1>4. LagOwned'
  BY <1>3, LagStep DEF IInv
<1> QED BY <1>1, <1>2, <1>4 DEF IInv

(* Requests: the job of a new request fits.                                *)
LEMMA RequestStep ==
  ASSUME IInv, NEW w \in Workers, ingest(w) \/ lifecycle_request(w) \/ retrieve(w)
  PROVE  IInv'
<1>0. TypeOK /\ pc[w] = "idle"
  BY DEF IInv, ingest, lifecycle_request, retrieve, Start
<1>1. ASSUME NEW l \in PCs, NEW j \in Job, Start(w, l, j), JobFits(w)'
      PROVE  IInv'
  <2>1. TypeOK' /\ OthersKeep(w) /\ UNCHANGED <<items, streams, reported>>
    BY <1>0, <1>1, StartType
  <2> QED BY <1>0, <1>1, <2>1, QuietStep DEF Owns
<1>2. CASE ingest(w)
  <2>1. PICK b \in Batches, s \in {"candidate", "verified"} :
          Start(w, "lookup", [Idle EXCEPT !.op = "create", !.batch = b,
                                          !.memory = b[1], !.status = s])
    BY <1>2 DEF ingest
  <2>2. b \in Seq(Memories) /\ b # <<>> /\ b[1] \in Memories
    BY MemoryAssumption
  <2> DEFINE j == [Idle EXCEPT !.op = "create", !.batch = b, !.memory = b[1], !.status = s]
  <2>3. j \in Job /\ j.op = "create" /\ j.batch = b /\ j.memory = b[1] /\ j.status = s
    BY <2>2 DEF Idle, Job, Statuses
  <2> HIDE DEF j
  <2>4. Start(w, "lookup", j) /\ "lookup" \in PCs
    BY <2>1 DEF j, PCs
  <2>5. JobFits(w)'
    <3>1. pc'[w] = "lookup" /\ job'[w] = j
      BY <1>0, <2>3, <2>4, StartType
    <3> QED BY <2>2, <2>3, <3>1 DEF JobFits
  <2> QED BY <1>1, <2>3, <2>4, <2>5
<1>3. CASE lifecycle_request(w)
  <2>1. PICK o \in Operations, m \in Memories, s \in Memories \cup {NoMemory} :
          \E e \in 1 .. current(m) :
            Start(w, IF s = NoMemory THEN "read" ELSE "source",
                  [Idle EXCEPT !.op = o, !.memory = m, !.source = s, !.expected = e])
    BY <1>3 DEF lifecycle_request
  <2>2. PICK e \in 1 .. current(m) :
          Start(w, IF s = NoMemory THEN "read" ELSE "source",
                [Idle EXCEPT !.op = o, !.memory = m, !.source = s, !.expected = e])
    BY <2>1
  <2> DEFINE j == [Idle EXCEPT !.op = o, !.memory = m, !.source = s, !.expected = e]
             l == IF s = NoMemory THEN "read" ELSE "source"
  <2>3. e \in Nat /\ e \in DOMAIN items[m]
    BY <1>0 DEF TypeOK, current
  <2>4. j \in Job /\ j.op = o /\ j.memory = m /\ j.source = s /\ j.expected = e
    BY <2>3, IdleType DEF Job
  <2>5. l \in PCs /\ l \in {"read", "source"} /\ (l = "source" => s \in Memories)
    BY DEF PCs
  <2> HIDE DEF j, l
  <2>6. Start(w, l, j)
    BY <2>2 DEF l, j
  <2>7. JobFits(w)'
    <3>1. pc'[w] = l /\ job'[w] = j /\ items' = items
      BY <1>0, <2>4, <2>5, <2>6, StartType
    <3> QED BY <2>3, <2>4, <2>5, <3>1 DEF JobFits
  <2> QED BY <1>1, <2>4, <2>5, <2>6, <2>7
<1>4. CASE retrieve(w)
  <2>1. PICK statuses \in QueryStatuses, vector \in BOOLEAN :
          Start(w, "audit", [Idle EXCEPT !.op = "retrieve", !.read = requests,
                                         !.page = Matches(statuses, vector)])
    BY <1>4 DEF retrieve
  <2> DEFINE j == [Idle EXCEPT !.op = "retrieve", !.read = requests,
                               !.page = Matches(statuses, vector)]
  <2>2. Matches(statuses, vector) \subseteq Memories \X Numbers /\ requests \in Nat
    BY <1>0, MemoryAssumption DEF Matches, TypeOK
  <2>3. j \in Job /\ j.op = "retrieve"
    BY <2>2, IdleType DEF Job
  <2> HIDE DEF j
  <2>4. Start(w, "audit", j) /\ "audit" \in PCs
    BY <2>1 DEF j, PCs
  <2>5. JobFits(w)'
    BY <1>0, <2>3, <2>4, StartType DEF JobFits
  <2> QED BY <1>1, <2>3, <2>4, <2>5
<1> QED BY <1>2, <1>3, <1>4

-----------------------------------------------------------------------------
(* The number of revisions is bounded, as they are numbered.               *)
LEMMA RevisionBound ==
  ASSUME IInv, NEW m \in Memories
  PROVE  /\ items[m] \in Seq(Revision) /\ current(m) \in Nat /\ version(m) \in Nat
         /\ DOMAIN items[m] = 1 .. current(m) /\ DOMAIN items[m] \subseteq Numbers
         /\ DOMAIN streams[m] = 1 .. version(m)
         /\ \A k \in DOMAIN items[m] : items[m][k] \in Revision
<1>1. items[m] \in Seq(Revision) /\ streams[m] \in Seq(Event)
  BY DEF IInv, TypeOK
<1>2. \A k \in DOMAIN items[m] : items[m][k] \in Revision
  BY <1>1
<1>3. \A k \in DOMAIN items[m] : k \in Numbers
  BY <1>2 DEF IInv, Numbered, Revision
<1> QED BY <1>1, <1>2, <1>3 DEF current, version

(* A step of w that ends its request, owing no event.                      *)
LEMMA QuietFinish ==
  ASSUME IInv, NEW w \in Workers, Finish(w), UNCHANGED <<items, streams>>,
         TypeOK', reported \subseteq reported',
         pc[w] \notin Unannounced \/ job[w].memory \in reported'
  PROVE  IInv'
<1>1. pc'[w] = "idle" /\ OthersKeep(w)
  BY FinishType DEF IInv
<1>2. JobFits(w)'
  BY <1>1 DEF JobFits
<1> QED BY <1>1, <1>2, QuietStep DEF Owns, Unannounced

(* create_lookup: a found item is read as it is now.                       *)
LEMMA CreateLookupStep ==
  ASSUME IInv, NEW w \in Workers, create_lookup(w)
  PROVE  IInv'
<1> DEFINE m == job[w].memory
<1>0. TypeOK /\ JobFits(w) /\ pc[w] = "lookup" /\ UNCHANGED <<tables, counters>>
  BY DEF IInv, JobsFit, create_lookup
<1>1. m \in Memories /\ job[w] \in Job
  BY <1>0 DEF JobFits, TypeOK
<1>2. CASE Goto(w, "insert") /\ UNCHANGED job
  <2>1. TypeOK' /\ pc'[w] = "insert" /\ OthersKeep(w)
    BY <1>0, <1>2 DEF TypeOK, Goto, tables, counters, PCs, OthersKeep
  <2>2. JobFits(w)'
    BY <1>0, <1>2, <2>1 DEF JobFits
  <2> QED BY <1>0, <2>1, <2>2, QuietStep DEF Owns, tables
<1>3. CASE /\ items[m] # <<>>
           /\ Goto(w, "probe") /\ job' = [job EXCEPT ![w].read = current(m)]
  <2>1. current(m) \in Nat /\ current(m) \in DOMAIN items[m]
    BY <1>1, <1>3, RevisionBound DEF current
  <2>2. [job[w] EXCEPT !.read = current(m)] \in Job
    BY <1>1, <2>1 DEF Job
  <2>3. /\ job' = [job EXCEPT ![w] = [job[w] EXCEPT !.read = current(m)]]
        /\ job'[w] = [job[w] EXCEPT !.read = current(m)]
    BY <1>0, <1>3 DEF TypeOK
  <2>4. TypeOK' /\ pc'[w] = "probe" /\ OthersKeep(w)
    BY <1>0, <1>3, <2>2, <2>3 DEF TypeOK, Goto, tables, counters, PCs, OthersKeep
  <2>5. /\ job'[w].op = job[w].op /\ job'[w].memory = m /\ job'[w].batch = job[w].batch
        /\ job'[w].status = job[w].status /\ job'[w].read = current(m)
    BY <1>1, <2>3 DEF Job
  <2>6. JobFits(w)'
    BY <1>0, <2>1, <2>4, <2>5 DEF JobFits, tables
  <2> QED BY <1>0, <2>4, <2>6, QuietStep DEF Owns, tables
<1> QED BY <1>2, <1>3 DEF create_lookup

(* probe_stream: the worker lets go of a memory only when its creation is  *)
(* announced.                                                              *)
LEMMA ProbeStep ==
  ASSUME IInv, NEW w \in Workers, probe_stream(w)
  PROVE  IInv'
<1> DEFINE m == job[w].memory
<1>0. TypeOK /\ JobFits(w) /\ pc[w] = "probe" /\ UNCHANGED <<tables, counters>>
  BY DEF IInv, JobsFit, probe_stream
<1>1. m \in Memories /\ version(m) \in Nat /\ job[w].batch # <<>>
  BY <1>0, RevisionBound DEF JobFits
<1>2. CASE version(m) > 0 /\ NextCreate(w)
  <2>1. TypeOK'
    BY <1>0, <1>1, <1>2, NextCreateType DEF TypeOK, tables, counters
  <2>2. OthersKeep(w) /\ JobFits(w)'
    <3>1. OthersKeep(w) /\ pc'[w] = "idle" => JobFits(w)'
      BY DEF JobFits
    <3> QED BY <1>0, <1>1, <1>2, <3>1, NextCreateType DEF JobFits
  <2>3. \A x \in Memories : \A k \in DOMAIN items[x] : Owns(w, x, k) => k <= version(x)
    BY <1>0, <1>1, <1>2 DEF Owns
  <2> QED BY <1>0, <2>1, <2>2, <2>3, QuietStep DEF tables
<1>3. CASE Goto(w, "announce") /\ UNCHANGED job
  <2>1. TypeOK' /\ pc'[w] = "announce" /\ OthersKeep(w)
    BY <1>0, <1>3 DEF TypeOK, Goto, tables, counters, PCs, OthersKeep
  <2>2. JobFits(w)'
    BY <1>0, <1>3, <2>1 DEF JobFits, tables
  <2> QED BY <1>0, <1>3, <2>1, <2>2, QuietStep DEF Owns, tables
<1> QED BY <1>2, <1>3 DEF probe_stream

(* check_source: the evidence or the successor is looked up.               *)
LEMMA CheckSourceStep ==
  ASSUME IInv, NEW w \in Workers, check_source(w)
  PROVE  IInv'
<1>0. TypeOK /\ JobFits(w) /\ pc[w] = "source" /\ UNCHANGED <<tables, counters>>
  BY DEF IInv, JobsFit, check_source
<1>1. CASE Goto(w, "read") /\ UNCHANGED job
  <2>1. TypeOK' /\ pc'[w] = "read" /\ OthersKeep(w)
    BY <1>0, <1>1 DEF TypeOK, Goto, tables, counters, PCs, OthersKeep
  <2>2. JobFits(w)'
    BY <1>0, <1>1, <2>1 DEF JobFits, tables
  <2> QED BY <1>0, <1>1, <2>1, <2>2, QuietStep DEF Owns, tables
<1>2. CASE Finish(w)
  <2>1. TypeOK'
    BY <1>0, <1>2, FinishType DEF TypeOK, tables, counters
  <2> QED BY <1>0, <1>2, <2>1, QuietFinish DEF tables, Unannounced
<1> QED BY <1>1, <1>2 DEF check_source

(* read_current: the status that is checked is the status of the revision  *)
(* that is read, which is not older than the one the caller quoted.        *)
LEMMA ReadCurrentStep ==
  ASSUME IInv, NEW w \in Workers, read_current(w)
  PROVE  IInv'
<1> DEFINE m == job[w].memory
           r == [job[w] EXCEPT !.read = current(m), !.status = status(m)]
<1>0. TypeOK /\ JobFits(w) /\ pc[w] = "read" /\ UNCHANGED <<tables, counters>>
  BY DEF IInv, JobsFit, read_current
<1>1. m \in Memories /\ job[w] \in Job /\ job[w].expected \in DOMAIN items[m]
      /\ job[w].op \in Operations
  BY <1>0 DEF JobFits, TypeOK
<1>2. /\ current(m) \in Nat /\ current(m) \in DOMAIN items[m]
      /\ job[w].expected <= current(m) /\ status(m) \in Statuses
  <2>1. current(m) \in Nat /\ current(m) \in DOMAIN items[m] /\ job[w].expected <= current(m)
    BY <1>1, RevisionBound
  <2>2. items[m][current(m)] \in Revision
    BY <1>1, <2>1, RevisionBound
  <2> QED BY <2>1, <2>2 DEF status, Revision
<1>3. CASE /\ can_transition_memory(status(m), Target[job[w].op])
           /\ job[w].expected < MaxRevisions
           /\ Goto(w, "append")
           /\ job' = [job EXCEPT ![w].read = current(m), ![w].status = status(m)]
  <2>1. r \in Job
    BY <1>1, <1>2 DEF Job
  <2>2. job' = [job EXCEPT ![w] = r] /\ job'[w] = r
    BY <1>0, <1>3 DEF TypeOK
  <2>3. /\ r.op = job[w].op /\ r.memory = m /\ r.expected = job[w].expected
        /\ r.read = current(m) /\ r.status = status(m)
    BY <1>1 DEF Job
  <2> HIDE DEF r
  <2>4. TypeOK' /\ pc'[w] = "append" /\ OthersKeep(w)
    BY <1>0, <1>3, <2>1, <2>2 DEF TypeOK, Goto, tables, counters, PCs, OthersKeep
  <2>5. JobFits(w)'
    BY <1>0, <1>1, <1>2, <1>3, <2>2, <2>3, <2>4 DEF JobFits, tables, status
  <2> QED BY <1>0, <2>4, <2>5, QuietStep DEF Owns, tables
<1>4. CASE Finish(w)
  <2>1. TypeOK'
    BY <1>0, <1>4, FinishType DEF TypeOK, tables, counters
  <2> QED BY <1>0, <1>4, <2>1, QuietFinish DEF tables, Unannounced
<1> QED BY <1>3, <1>4 DEF read_current

(* The access rows of a page are well typed.                               *)
LEMMA RowsType ==
  ASSUME TypeOK, NEW w \in Workers
  PROVE  Rows(w) \subseteq Nat \X Memories \X Numbers
<1>1. job[w].read \in Nat /\ job[w].page \subseteq Memories \X Numbers
  BY DEF TypeOK, Job
<1> QED BY <1>1 DEF Rows

(* record_access touches the audit alone.                                  *)
LEMMA RecordAccessStep ==
  ASSUME IInv, NEW w \in Workers, record_access(w)
  PROVE  IInv'
<1>0. /\ TypeOK /\ pc[w] = "audit" /\ Finish(w)
      /\ UNCHANGED <<items, streams, embeddings, reported, counters>>
  BY DEF IInv, record_access
<1>1. accesses' \subseteq Nat \X Memories \X Numbers
      /\ disclosed' \subseteq Nat \X Memories \X Numbers
  BY <1>0, RowsType DEF record_access, TypeOK
<1>2. TypeOK'
  BY <1>0, <1>1, FinishType DEF TypeOK, counters
<1> QED BY <1>0, <1>2, QuietFinish DEF Unannounced

(* A worker that dies is reported when it owed an event.                   *)
LEMMA CrashStep ==
  ASSUME IInv, NEW w \in Workers, crash(w)
  PROVE  IInv'
<1>0. /\ TypeOK /\ JobFits(w) /\ pc[w] \notin {"idle", "crashed"}
      /\ UNCHANGED <<items, streams, embeddings, accesses, disclosed, requests>>
      /\ crashes < MaxCrashes /\ crashes' = crashes + 1
      /\ reported' = reported \cup
                     (IF pc[w] \in Unannounced THEN {job[w].memory} ELSE {})
  BY DEF IInv, JobsFit, crash
<1>1. /\ reported' \subseteq Memories /\ reported \subseteq reported'
      /\ pc[w] \in Unannounced => job[w].memory \in reported'
      /\ crashes' \in 0 .. MaxCrashes
  BY <1>0, MemoryAssumption DEF TypeOK, JobFits, Unannounced
<1>2. CASE job[w].op = "create" /\ Goto(w, "crashed") /\ UNCHANGED job
  <2>1. TypeOK' /\ pc'[w] = "crashed" /\ OthersKeep(w)
    BY <1>0, <1>1, <1>2 DEF TypeOK, Goto, PCs, OthersKeep
  <2>2. pc[w] \in {"lookup", "insert", "probe", "announce"}
    <3>1. job[w].op \notin Operations
      BY <1>2 DEF Operations
    <3> QED BY <1>0, <1>2, <3>1 DEF JobFits, TypeOK, PCs
  <2>3. JobFits(w)'
    BY <1>0, <1>2, <2>1, <2>2 DEF JobFits
  <2> QED BY <1>0, <1>1, <2>1, <2>3, QuietStep DEF Owns, Unannounced
<1>3. CASE Finish(w)
  <2>1. TypeOK'
    BY <1>0, <1>1, <1>3, FinishType DEF TypeOK
  <2> QED BY <1>0, <1>1, <1>3, <2>1, QuietFinish
<1> QED BY <1>2, <1>3 DEF crash

(* resume runs the rest of the batch again.                                *)
LEMMA ResumeStep ==
  ASSUME IInv, NEW w \in Workers, resume(w)
  PROVE  IInv'
<1>0. TypeOK /\ JobFits(w) /\ pc[w] = "crashed" /\ UNCHANGED <<tables, job, counters>>
  BY DEF IInv, JobsFit, resume
<1>1. TypeOK' /\ pc'[w] = "lookup" /\ OthersKeep(w)
  BY <1>0 DEF TypeOK, Goto, tables, counters, PCs, OthersKeep, resume
<1>2. JobFits(w)'
  BY <1>0, <1>1 DEF JobFits
<1> QED BY <1>0, <1>1, <1>2, QuietStep DEF Owns, tables

-----------------------------------------------------------------------------
(* A revision r is added to m by worker w: by create_insert or by          *)
(* append_revision.                                                        *)
Adds(w, m, r) ==
  /\ items' = [items EXCEPT ![m] = Append(@, r)]
  /\ UNCHANGED <<streams, embeddings, accesses, disclosed, reported, counters>>

(* Adding the next revision keeps rows numbered, immutable and told as a   *)
(* prefix; the worker that adds it owns its event.                         *)
LEMMA AddStep ==
  ASSUME IInv, NEW w \in Workers, NEW m \in Memories, NEW r \in Revision,
         NEW n \in Nat, n = current(m), r.number = n + 1, Adds(w, m, r),
         pc' \in [Workers -> PCs], job' \in [Workers -> Job], OthersKeep(w),
         pc[w] \notin Unannounced, JobFits(w)', Owns(w, m, n + 1)'
  PROVE  IInv'
<1>0. TypeOK /\ items[m] \in Seq(Revision)
  BY RevisionBound DEF IInv
<1>1. /\ items'[m] = Append(items[m], r) /\ items'[m] \in Seq(Revision)
      /\ \A x \in Memories \ {m} : items'[x] = items[x]
      /\ items' \in [Memories -> Seq(Revision)]
  BY <1>0 DEF TypeOK, Adds
<1>2. TypeOK'
  BY <1>0, <1>1 DEF TypeOK, Adds, counters
<1>3. /\ DOMAIN items[m] = 1 .. n /\ DOMAIN items'[m] = 1 .. (n + 1)
      /\ items'[m][n + 1] = r
      /\ \A k \in 1 .. n : items'[m][k] = items[m][k]
  BY <1>0, <1>1 DEF current
<1>4. Grows
  <2>1. Len(items[m]) <= Len(items'[m])
    BY <1>0, <1>1 DEF current
  <2>2. \A x \in Memories : Len(items[x]) \in Nat
    BY <1>0 DEF TypeOK
  <2>3. \A x \in Memories \ {m} : /\ Len(items[x]) <= Len(items'[x])
                                 /\ \A k \in DOMAIN items[x] : items'[x][k] = items[x][k]
    BY <1>1, <2>2
  <2> QED BY <1>3, <2>1, <2>3 DEF Grows
<1>5. Numbered'
  <2>1. \A k \in 1 .. n : items'[m][k].number = k
    BY <1>3 DEF IInv, Numbered
  <2>2. \A k \in DOMAIN items'[m] : k = n + 1 \/ k \in 1 .. n
    BY <1>3
  <2>3. \A k \in DOMAIN items'[m] : items'[m][k].number = k
    BY <1>3, <2>1, <2>2
  <2> QED BY <1>1, <2>3 DEF IInv, Numbered
<1>6. TellsPrefix'
  <2> SUFFICES ASSUME NEW x \in Memories
               PROVE  /\ version(x) <= current(x)'
                      /\ \A k \in DOMAIN streams[x] : streams[x][k].revision = items'[x][k]
    BY DEF TellsPrefix, version, Adds
  <2>1. /\ version(x) <= current(x) /\ version(x) \in Nat /\ current(x) \in Nat
        /\ DOMAIN streams[x] = 1 .. version(x) /\ DOMAIN items[x] = 1 .. current(x)
        /\ \A k \in DOMAIN streams[x] : streams[x][k].revision = items[x][k]
    BY RevisionBound DEF IInv, TellsPrefix
  <2>2. current(x)' \in Nat /\ current(x) <= current(x)'
    BY <1>2, <1>4 DEF TypeOK, Grows, current
  <2>3. \A k \in 1 .. current(x) : items'[x][k] = items[x][k]
    BY <2>1, <1>4 DEF Grows
  <2> QED BY <2>1, <2>2, <2>3
<1>7. JobsFit'
  BY <1>2, <1>4, FitsStable DEF IInv
<1>8. LagOwned'
  <2>1. \A x \in Memories : \A k \in DOMAIN items'[x] \ DOMAIN items[x] :
          x = m /\ k = n + 1
    BY <1>0, <1>1, <1>3
  <2>2. \A x \in Memories : version(x) <= version(x)'
    BY <1>0, <1>2 DEF TypeOK, version, Adds
  <2>3. \A x \in Memories : \A k \in DOMAIN items[x] : ~Owns(w, x, k)
    BY DEF Owns, Unannounced
  <2>4. reported \subseteq reported'
    BY DEF Adds
  <2> QED BY <1>0, <1>2, <2>1, <2>2, <2>3, <2>4, LagStep DEF IInv
<1> QED BY <1>2, <1>5, <1>6, <1>7, <1>8 DEF IInv

(* create_insert adds revision one, whose event the worker will probe for. *)
LEMMA CreateInsertStep ==
  ASSUME IInv, NEW w \in Workers, create_insert(w)
  PROVE  /\ IInv'
         /\ \/ UNCHANGED items
            \/ \E m \in Memories, r \in Revision :
                 /\ items[m] = <<>> /\ r.status \in {"candidate", "verified"}
                 /\ items' = [items EXCEPT ![m] = <<r>>]
<1>0. /\ TypeOK /\ JobFits(w) /\ pc[w] = "insert"
      /\ UNCHANGED <<streams, embeddings, accesses, disclosed, reported, counters>>
  BY DEF IInv, JobsFit, create_insert
<1>1. job[w].memory \in Memories /\ job[w] \in Job
      /\ job[w].status \in {"candidate", "verified"}
  BY <1>0 DEF JobFits, TypeOK
<1> PICK m \in Memories, s \in {"candidate", "verified"} :
          m = job[w].memory /\ s = job[w].status
  BY <1>1
<1> DEFINE r == [number |-> 1, status |-> s, by |-> w]
<1>2. CASE /\ items[m] = <<>> /\ items' = [items EXCEPT ![m] = <<r>>]
           /\ Goto(w, "probe") /\ job' = [job EXCEPT ![w].read = 1]
  <2>1. r \in Revision /\ r.number = 1 /\ r.status = s
    BY MemoryAssumption DEF Revision, Numbers, Statuses
  <2> HIDE DEF r
  <2>2. current(m) = 0 /\ <<r>> = Append(items[m], r)
    BY <1>2 DEF current
  <2>3. [job[w] EXCEPT !.read = 1] \in Job
    BY <1>1 DEF Job
  <2>4. /\ job' = [job EXCEPT ![w] = [job[w] EXCEPT !.read = 1]]
        /\ job'[w] = [job[w] EXCEPT !.read = 1]
    BY <1>0, <1>2 DEF TypeOK
  <2>5. /\ job'[w].op = job[w].op /\ job'[w].memory = m /\ job'[w].batch = job[w].batch
        /\ job'[w].status = job[w].status /\ job'[w].read = 1
    BY <1>1, <2>4 DEF Job
  <2>6. /\ pc' \in [Workers -> PCs] /\ job' \in [Workers -> Job]
        /\ pc'[w] = "probe" /\ OthersKeep(w)
    BY <1>0, <1>2, <2>3, <2>4 DEF TypeOK, Goto, PCs, OthersKeep
  <2>7. items'[m] = <<r>> /\ 1 \in DOMAIN items'[m]
    BY <1>0, <1>1, <1>2 DEF TypeOK
  <2>8. JobFits(w)'
    BY <1>0, <1>1, <2>5, <2>6, <2>7 DEF JobFits
  <2>9. Owns(w, m, 0 + 1)'
    BY <2>5, <2>6 DEF Owns
  <2>10. Adds(w, m, r)
    BY <1>0, <1>2, <2>2 DEF Adds, r
  <2>11. IInv'
    BY <1>0, <2>1, <2>2, <2>6, <2>8, <2>9, <2>10, AddStep DEF Unannounced
  <2>12. items' = [items EXCEPT ![m] = <<r>>]
    BY <1>2 DEF r
  <2> QED BY <1>2, <2>1, <2>11, <2>12
<1>3. CASE Finish(w) /\ UNCHANGED items
  <2>1. TypeOK'
    BY <1>0, <1>3, FinishType DEF TypeOK, counters
  <2> QED BY <1>0, <1>3, <2>1, QuietFinish DEF Unannounced
<1> QED BY <1>2, <1>3 DEF create_insert

(* append_revision adds the revision after the one the caller quoted.      *)
(* _transition does not compare the revision it read with the quoted one,  *)
(* but the transaction does: when it succeeds the revision read was the    *)
(* quoted one and is still current, so the status checked is the status    *)
(* that changes.                                                           *)
LEMMA AppendRevisionStep ==
  ASSUME IInv, NEW w \in Workers, append_revision(w)
  PROVE  /\ IInv'
         /\ \/ UNCHANGED items
            \/ \E m \in Memories, r \in Revision :
                 /\ items[m] # <<>> /\ <<status(m), r.status>> \in Legal
                 /\ items' = [items EXCEPT ![m] = Append(@, r)]
<1>0. /\ TypeOK /\ JobFits(w) /\ pc[w] = "append"
      /\ UNCHANGED <<streams, embeddings, accesses, disclosed, reported, counters>>
  BY DEF IInv, JobsFit, append_revision
<1>1. /\ job[w].memory \in Memories /\ job[w].op \in Operations /\ job[w].expected \in Nat
      /\ Target[job[w].op] \in Statuses
  BY <1>0 DEF JobFits, TypeOK, Job, Target, Operations, Statuses
<1> PICK m \in Memories, e \in Nat, t \in Statuses :
          m = job[w].memory /\ e = job[w].expected /\ t = Target[job[w].op]
  BY <1>1
<1> DEFINE r == [number |-> e + 1, status |-> t, by |-> w]
<1>2. CASE /\ current(m) = e /\ items' = [items EXCEPT ![m] = Append(@, r)]
           /\ Goto(w, "journal") /\ UNCHANGED job
  <2>1. /\ e < MaxRevisions /\ e <= job[w].read /\ job[w].read \in DOMAIN items[m]
        /\ job[w].status = items[m][job[w].read].status
        /\ can_transition_memory(job[w].status, t)
    BY <1>0 DEF JobFits
  <2>2. job[w].read = e /\ e \in DOMAIN items[m] /\ items[m] # <<>>
    BY <1>2, <2>1, RevisionBound
  <2>3. r \in Revision /\ r.number = e + 1 /\ r.status = t
    BY <2>1, MemoryAssumption DEF Revision, Numbers
  <2>4. <<status(m), t>> \in Legal
    BY <1>2, <2>1, <2>2 DEF can_transition_memory, status
  <2> HIDE DEF r
  <2>5. Adds(w, m, r)
    BY <1>0, <1>2 DEF Adds
  <2>6. /\ pc' \in [Workers -> PCs] /\ job' \in [Workers -> Job]
        /\ pc'[w] = "journal" /\ job'[w] = job[w] /\ OthersKeep(w)
    BY <1>0, <1>2 DEF TypeOK, Goto, PCs, OthersKeep
  <2>7. DOMAIN items'[m] = 1 .. (e + 1)
    <3>1. items'[m] = Append(items[m], r) /\ items[m] \in Seq(Revision) /\ Len(items[m]) = e
      BY <1>0, <1>2 DEF TypeOK, current
    <3> QED BY <2>3, <3>1
  <2>8. JobFits(w)'
    BY <1>0, <2>2, <2>6, <2>7, RevisionBound DEF JobFits
  <2>9. Owns(w, m, e + 1)'
    BY <2>6 DEF Owns
  <2>10. IInv'
    BY <1>0, <1>2, <2>3, <2>5, <2>6, <2>8, <2>9, AddStep DEF Unannounced
  <2> QED BY <1>2, <2>2, <2>3, <2>4, <2>10
<1>3. CASE Finish(w) /\ UNCHANGED items
  <2>1. TypeOK'
    BY <1>0, <1>3, FinishType DEF TypeOK, counters
  <2> QED BY <1>0, <1>3, <2>1, QuietFinish DEF Unannounced
<1> QED BY <1>2, <1>3 DEF append_revision

-----------------------------------------------------------------------------
(* Worker w appends the event ev to the stream of m.                       *)
Tells(m, ev) ==
  /\ streams' = [streams EXCEPT ![m] = Append(@, ev)]
  /\ UNCHANGED <<items, embeddings, accesses, disclosed, counters>>

(* Announcing the revision after the last announced one keeps the prefix,  *)
(* and the worker owes nothing more.                                       *)
LEMMA TellStep ==
  ASSUME IInv, NEW w \in Workers, NEW m \in Memories, NEW ev \in Event,
         NEW n \in Nat, n = version(m), n < current(m), ev.revision = items[m][n + 1],
         Tells(m, ev), UNCHANGED reported,
         pc' \in [Workers -> PCs], job' \in [Workers -> Job], OthersKeep(w), JobFits(w)',
         \A x \in Memories : \A k \in DOMAIN items[x] : Owns(w, x, k) => x = m /\ k = n + 1
  PROVE  IInv'
<1>0. TypeOK /\ streams[m] \in Seq(Event)
  BY DEF IInv, TypeOK
<1>1. /\ streams'[m] = Append(streams[m], ev) /\ streams'[m] \in Seq(Event)
      /\ \A x \in Memories \ {m} : streams'[x] = streams[x]
      /\ streams' \in [Memories -> Seq(Event)]
  BY <1>0 DEF TypeOK, Tells
<1>2. TypeOK'
  BY <1>0, <1>1 DEF TypeOK, Tells, counters
<1>3. /\ DOMAIN streams[m] = 1 .. n /\ DOMAIN streams'[m] = 1 .. (n + 1)
      /\ version(m)' = n + 1 /\ streams'[m][n + 1] = ev
      /\ \A k \in 1 .. n : streams'[m][k] = streams[m][k]
  BY <1>0, <1>1 DEF version
<1>4. Grows /\ Numbered'
  BY <1>0, RowsKept DEF Tells, IInv
<1>5. TellsPrefix'
  <2>1. \A k \in DOMAIN streams'[m] : k = n + 1 \/ k \in DOMAIN streams[m]
    BY <1>3
  <2>2. \A k \in DOMAIN streams'[m] : streams'[m][k].revision = items[m][k]
    BY <1>3, <2>1 DEF IInv, TellsPrefix
  <2>3. version(m)' <= current(m)
    BY <1>3, RevisionBound
  <2>4. \A x \in Memories \ {m} : version(x)' = version(x)
    BY <1>1 DEF version
  <2> QED BY <1>1, <2>2, <2>3, <2>4 DEF IInv, TellsPrefix, Tells, current
<1>6. JobsFit'
  BY <1>2, <1>4, FitsStable DEF IInv
<1>7. LagOwned'
  <2>1. \A x \in Memories : version(x) <= version(x)'
    <3>1. \A x \in Memories \ {m} : version(x) \in Nat /\ version(x)' = version(x)
      BY <1>1, RevisionBound DEF version
    <3> QED BY <1>3, <3>1
  <2>2. \A x \in Memories : \A k \in DOMAIN items[x] : Owns(w, x, k) => k <= version(x)'
    BY <1>3
  <2> QED BY <1>2, <2>1, <2>2, LagStep DEF IInv, Tells
<1> QED BY <1>2, <1>4, <1>5, <1>6, <1>7 DEF IInv

(* announce_creation tells revision one, or finds it told.                 *)
LEMMA AnnounceStep ==
  ASSUME IInv, NEW w \in Workers, announce_creation(w)
  PROVE  /\ IInv'
         /\ \/ UNCHANGED streams
            \/ \E m \in Memories, ev \in Event :
                 /\ version(m) < current(m) /\ ev.revision = items[m][version(m) + 1]
                 /\ streams' = [streams EXCEPT ![m] = Append(@, ev)]
<1>0. /\ TypeOK /\ JobFits(w) /\ pc[w] = "announce" /\ NextCreate(w)
      /\ UNCHANGED <<items, embeddings, accesses, disclosed, reported, counters>>
  BY DEF IInv, JobsFit, announce_creation
<1>1. job[w].memory \in Memories /\ job[w].batch # <<>> /\ job[w].op = "create"
      /\ job[w].status \in {"candidate", "verified"}
      /\ job[w].read \in DOMAIN items[job[w].memory]
  BY <1>0 DEF JobFits
<1> PICK m \in Memories : m = job[w].memory
  BY <1>1
<1>2. PICK k \in Numbers : k = job[w].read /\ 1 \in DOMAIN items[m] /\ items[m][1] \in Revision
  BY <1>1, RevisionBound
<1>3. /\ pc' \in [Workers -> PCs] /\ job' \in [Workers -> Job]
      /\ OthersKeep(w) /\ JobFits(w)'
  <2>1. pc'[w] = "idle" => JobFits(w)'
    BY DEF JobFits
  <2> QED BY <1>0, <1>1, <2>1, NextCreateType DEF JobFits
<1>4. CASE version(m) = 0
  <2> DEFINE ev == [type |-> "create", revision |-> items[m][1], record |-> k]
  <2>1. ev \in Event /\ ev.revision = items[m][1]
    BY <1>2 DEF Event
  <2>2. streams' = [streams EXCEPT ![m] = <<ev>>]
    BY <1>2, <1>4 DEF announce_creation
  <2>3. streams[m] = <<>>
    BY <1>0, <1>4 DEF TypeOK, version
  <2>4. PICK ec \in Event : ec = ev
    BY <2>1
  <2> HIDE DEF ev
  <2>5. Append(streams[m], ec) = <<ec>>
    BY <2>3
  <2>6. streams' = [streams EXCEPT ![m] = Append(@, ec)]
    BY <2>2, <2>4, <2>5
  <2>7. Tells(m, ec)
    BY <1>0, <2>6 DEF Tells
  <2>8. \A x \in Memories : \A i \in DOMAIN items[x] : Owns(w, x, i) => x = m /\ i = 0 + 1
    BY <1>0 DEF Owns
  <2>9. 0 < current(m)
    BY <1>2, RevisionBound
  <2>10. IInv'
    BY <1>0, <1>3, <1>4, <2>1, <2>4, <2>7, <2>8, <2>9, TellStep
  <2>11. version(m) < current(m) /\ ec.revision = items[m][version(m) + 1]
    BY <1>4, <2>1, <2>4, <2>9
  <2> QED BY <2>6, <2>10, <2>11, Zenon
<1>5. CASE version(m) # 0
  <2>1. streams' = streams
    BY <1>5 DEF announce_creation
  <2>2. TypeOK'
    BY <1>0, <1>3, <2>1 DEF TypeOK, counters
  <2>3. \A x \in Memories : \A i \in DOMAIN items[x] : Owns(w, x, i) => i <= version(x)
    BY <1>0, <1>5, RevisionBound DEF Owns
  <2> QED BY <1>0, <1>3, <2>1, <2>2, <2>3, QuietStep
<1> QED BY <1>4, <1>5

(* journal_transition tells the revision the worker committed when the     *)
(* stream is exactly there, and reports it otherwise.                      *)
LEMMA JournalStep ==
  ASSUME IInv, NEW w \in Workers, journal_transition(w)
  PROVE  /\ IInv'
         /\ \/ UNCHANGED streams
            \/ \E m \in Memories, ev \in Event :
                 /\ version(m) < current(m) /\ ev.revision = items[m][version(m) + 1]
                 /\ streams' = [streams EXCEPT ![m] = Append(@, ev)]
<1>0. /\ TypeOK /\ JobFits(w) /\ pc[w] = "journal" /\ Finish(w)
      /\ UNCHANGED <<items, embeddings, accesses, disclosed, counters>>
  BY DEF IInv, JobsFit, journal_transition
<1>1. /\ job[w].memory \in Memories /\ job[w].op \in Operations /\ job[w].expected \in Nat
      /\ job[w].expected + 1 \in DOMAIN items[job[w].memory]
  BY <1>0 DEF JobFits, TypeOK, Job
<1> PICK m \in Memories, e \in Nat, o \in Operations :
          m = job[w].memory /\ e = job[w].expected /\ o = job[w].op
  BY <1>1
<1>2. e + 1 \in Numbers /\ e < current(m) /\ items[m][e + 1] \in Revision
  BY <1>1, RevisionBound
<1>3. /\ pc' \in [Workers -> PCs] /\ job' \in [Workers -> Job]
      /\ pc'[w] = "idle" /\ OthersKeep(w) /\ JobFits(w)'
  BY <1>0, FinishType DEF JobFits
<1>4. CASE version(m) = e /\ UNCHANGED reported
           /\ streams' = [streams EXCEPT ![m] = Append(@,
                [type |-> o, revision |-> items[m][e + 1], record |-> e + 1])]
  <2>1. [type |-> o, revision |-> items[m][e + 1], record |-> e + 1] \in Event
    BY <1>2 DEF Event
  <2>2. PICK ev \in Event :
          ev = [type |-> o, revision |-> items[m][e + 1], record |-> e + 1]
    BY <2>1
  <2>3. Tells(m, ev) /\ ev.revision = items[m][e + 1]
    BY <1>0, <1>4, <2>2 DEF Tells
  <2>4. \A x \in Memories : \A k \in DOMAIN items[x] : Owns(w, x, k) => x = m /\ k = e + 1
    BY <1>0 DEF Owns
  <2>5. IInv'
    BY <1>2, <1>3, <1>4, <2>3, <2>4, TellStep
  <2>6. version(m) < current(m) /\ ev.revision = items[m][version(m) + 1]
    BY <1>2, <1>4, <2>3
  <2>7. streams' = [streams EXCEPT ![m] = Append(@, ev)]
    BY <2>3 DEF Tells
  <2> QED BY <2>5, <2>6, <2>7, Zenon
<1>5. CASE reported' = reported \cup {m} /\ UNCHANGED streams
  <2>1. TypeOK'
    BY <1>0, <1>3, <1>5 DEF TypeOK, counters
  <2> QED BY <1>0, <1>5, <2>1, QuietFinish
<1> QED BY <1>4, <1>5 DEF journal_transition

-----------------------------------------------------------------------------
(* embed touches no revision, no stream and no worker.                     *)
LEMMA EmbedStep ==
  ASSUME IInv, NEW m \in Memories, embed(m)
  PROVE  IInv'
<1>1. PICK r \in 1 .. current(m) :
        /\ requests < MaxRequests /\ requests' = requests + 1
        /\ embeddings' = embeddings \cup {<<m, r>>}
        /\ UNCHANGED <<items, streams, accesses, disclosed, reported, pc, job, crashes>>
  BY DEF embed
<1>2. r \in Numbers
  BY RevisionBound
<1>3. TypeOK'
  BY <1>1, <1>2, MemoryAssumption DEF IInv, TypeOK
<1> QED
  BY <1>1, <1>3 DEF IInv, JobsFit, JobFits, Numbered, TellsPrefix, LagOwned, Owns,
                    version, current

(* The invariant holds initially.                                          *)
LEMMA InvInit == Init => IInv
<1> SUFFICES ASSUME Init PROVE IInv
  OBVIOUS
<1>1. TypeOK
  BY MemoryAssumption, IdleType DEF Init, TypeOK, PCs
<1>2. \A w \in Workers : pc[w] = "idle"
  BY DEF Init
<1>3. \A m \in Memories : items[m] = <<>> /\ streams[m] = <<>>
  BY DEF Init
<1> QED
  BY <1>1, <1>2, <1>3 DEF IInv, JobsFit, JobFits, Numbered, TellsPrefix, LagOwned, version, current

(* Every step preserves the invariant.                                     *)
LEMMA InvNext == IInv /\ [Next]_vars => IInv'
<1> SUFFICES ASSUME IInv, [Next]_vars PROVE IInv'
  OBVIOUS
<1>1. ASSUME NEW w \in Workers, Step(w)
      PROVE  IInv'
  BY <1>1, CreateLookupStep, CreateInsertStep, ProbeStep, AnnounceStep, CheckSourceStep,
     ReadCurrentStep, AppendRevisionStep, JournalStep, RecordAccessStep, ResumeStep DEF Step
<1>2. CASE UNCHANGED vars
  BY <1>2 DEF vars, tables, counters, IInv, TypeOK, JobsFit, JobFits, Numbered, TellsPrefix,
              LagOwned, Owns, version, current
<1> QED BY <1>1, <1>2, RequestStep, CrashStep, EmbedStep DEF Next

(* The inductive invariant is an invariant of the memory plane.            *)
LEMMA Invariance == Spec => []IInv
BY InvInit, InvNext, PTL DEF Spec

(* Type correctness of the memory plane, for every number of memories,     *)
(* workers, revisions, requests and crashes: in particular the record of a *)
(* creation event and every row stay within MemoryRevision.revision.       *)
THEOREM TypeCorrect == Spec => []TypeOK
<1>1. IInv => TypeOK
  BY DEF IInv
<1> QED BY <1>1, Invariance, PTL

(* The revisions of every memory are numbered 1, 2, ... without a hole     *)
(* (append_revision compares only the current revision, and it suffices).  *)
THEOREM RevisionsNumbered == Spec => []Numbered
<1>1. IInv => Numbered
  BY DEF IInv
<1> QED BY <1>1, Invariance, PTL

(* A stream that lags behind its memory is never silent: a worker still    *)
(* has the event to append, or a caller saw the append fail, or a worker   *)
(* died.                                                                   *)
THEOREM LagReported == Spec => []LagIsReported
<1>1. ASSUME IInv PROVE LagIsReported
  <2> SUFFICES ASSUME NEW m \in Memories, version(m) < current(m), m \notin reported
               PROVE  \E w \in Workers : job[w].memory = m /\ pc[w] \in Unannounced
    BY DEF LagIsReported
  <2>1. current(m) \in DOMAIN items[m] /\ current(m) > version(m)
    BY <1>1, RevisionBound
  <2>2. PICK w \in Workers : Owns(w, m, current(m))
    BY <1>1, <2>1 DEF IInv, LagOwned
  <2> QED BY <2>2 DEF Owns, Unannounced
<1> QED BY <1>1, Invariance, PTL

(* The steps that add no revision and append no event.                     *)
QuietNext ==
  \/ \E w \in Workers : \/ ingest(w) \/ lifecycle_request(w) \/ retrieve(w)
                         \/ create_lookup(w) \/ probe_stream(w) \/ check_source(w)
                         \/ read_current(w) \/ record_access(w) \/ resume(w) \/ crash(w)
  \/ \E m \in Memories : embed(m)
  \/ UNCHANGED vars

(* A step adds a revision, appends an event or does neither.               *)
LEMMA NextCases ==
  ASSUME [Next]_vars
  PROVE  \/ QuietNext
         \/ \E w \in Workers : create_insert(w) \/ append_revision(w)
                               \/ announce_creation(w) \/ journal_transition(w)
BY DEF Next, Step, QuietNext

(* What the quiet steps leave alone.                                       *)
LEMMA QuietFacts ==
  ASSUME QuietNext
  PROVE  /\ UNCHANGED <<items, streams>>
         /\ UNCHANGED <<accesses, disclosed>> \/ \E w \in Workers : record_access(w)
<1>1. ASSUME NEW w \in Workers, ingest(w) \/ lifecycle_request(w) \/ retrieve(w)
      PROVE  UNCHANGED <<items, streams, accesses, disclosed>>
  BY <1>1 DEF ingest, lifecycle_request, retrieve, Start, tables
<1>2. ASSUME NEW w \in Workers, \/ create_lookup(w) \/ probe_stream(w) \/ check_source(w)
                                \/ read_current(w) \/ resume(w)
      PROVE  UNCHANGED <<items, streams, accesses, disclosed>>
  BY <1>2 DEF create_lookup, probe_stream, check_source, read_current, resume, tables
<1>3. ASSUME NEW w \in Workers, record_access(w)
      PROVE  UNCHANGED <<items, streams>>
  BY <1>3 DEF record_access
<1>4. ASSUME NEW w \in Workers, crash(w)
      PROVE  UNCHANGED <<items, streams, accesses, disclosed>>
  BY <1>4 DEF crash
<1>5. ASSUME NEW m \in Memories, embed(m)
      PROVE  UNCHANGED <<items, streams, accesses, disclosed>>
  BY <1>5 DEF embed
<1>6. CASE UNCHANGED vars
  BY <1>6 DEF vars, tables
<1> QED BY <1>1, <1>2, <1>3, <1>4, <1>5, <1>6 DEF QuietNext

(* Nothing is disclosed without its access rows: record_access commits     *)
(* both or neither.                                                        *)
THEOREM Audited == Spec => []DisclosuresAudited
<1>1. Init => DisclosuresAudited
  BY DEF Init, DisclosuresAudited
<1>2. DisclosuresAudited /\ [Next]_vars => DisclosuresAudited'
  <2> SUFFICES ASSUME DisclosuresAudited, [Next]_vars PROVE DisclosuresAudited'
    OBVIOUS
  <2>1. ASSUME NEW w \in Workers, record_access(w)
        PROVE  DisclosuresAudited'
    BY <2>1 DEF record_access, DisclosuresAudited
  <2>2. ASSUME UNCHANGED <<accesses, disclosed>>
        PROVE  DisclosuresAudited'
    BY <2>2 DEF DisclosuresAudited
  <2>3. ASSUME NEW w \in Workers, create_insert(w) \/ append_revision(w)
                                  \/ announce_creation(w) \/ journal_transition(w)
        PROVE  UNCHANGED <<accesses, disclosed>>
    BY <2>3 DEF create_insert, append_revision, announce_creation, journal_transition
  <2>4. ASSUME QuietNext
        PROVE  UNCHANGED <<accesses, disclosed>> \/ \E w \in Workers : record_access(w)
    BY <2>4, QuietFacts
  <2> QED BY <2>1, <2>2, <2>3, <2>4, NextCases
<1> QED BY <1>1, <1>2, PTL DEF Spec

-----------------------------------------------------------------------------
(* The refinement: rows are the abstract history, the revisions that the   *)
(* streams announce are the abstract journal.  An added revision is a      *)
(* Create or an Advance.                                                   *)
LEMMA RowsImplement ==
  ASSUME NEW m \in Memories, NEW r \in Revision, UNCHANGED streams,
         \/ /\ items[m] = <<>> /\ r.status \in {"candidate", "verified"}
            /\ items' = [items EXCEPT ![m] = <<r>>]
         \/ /\ items[m] # <<>> /\ <<status(m), r.status>> \in Legal
            /\ items' = [items EXCEPT ![m] = Append(@, r)]
  PROVE  Aggregate!Next
<1>1. UNCHANGED Told
  BY DEF Told
<1>2. Aggregate!Create(m, r) \/ Aggregate!Advance(m, r)
  BY <1>1 DEF Aggregate!Create, Aggregate!Advance, status, current
<1> QED BY <1>2 DEF Aggregate!Next

(* An event that announces the next revision is a Tell.                    *)
LEMMA EventsImplement ==
  ASSUME IInv, NEW m \in Memories, NEW ev \in Event, UNCHANGED items,
         version(m) < current(m), ev.revision = items[m][version(m) + 1],
         streams' = [streams EXCEPT ![m] = Append(@, ev)]
  PROVE  Aggregate!Next
<1> DEFINE n == version(m)
<1>1. /\ streams[m] \in Seq(Event) /\ n = Len(streams[m]) /\ n \in Nat
      /\ streams'[m] = Append(streams[m], ev)
      /\ \A x \in Memories \ {m} : streams'[x] = streams[x]
  BY DEF IInv, TypeOK, version
<1>2. /\ DOMAIN streams[m] = 1 .. n /\ DOMAIN streams'[m] = 1 .. (n + 1)
      /\ streams'[m][n + 1] = ev /\ \A k \in 1 .. n : streams'[m][k] = streams[m][k]
  BY <1>1
<1>3. /\ Told[m] = [k \in 1 .. n |-> streams[m][k].revision]
      /\ Told'[m] = [k \in 1 .. (n + 1) |-> streams'[m][k].revision]
      /\ \A x \in Memories \ {m} : Told'[x] = Told[x]
  BY <1>1, <1>2 DEF Told
<1>4. Told[m] \in Seq(Revision) /\ Len(Told[m]) = n
  <2>0. \A k \in 1 .. n : streams[m][k] \in Event
    BY <1>1
  <2>1. \A k \in 1 .. n : streams[m][k].revision \in Revision
    BY <2>0 DEF Event
  <2> HIDE DEF n
  <2> QED BY <1>1, <1>3, <2>1
<1>5. Told'[m] = Append(Told[m], items[m][n + 1])
  <2> DEFINE a == Append(Told[m], items[m][n + 1])
  <2>1. items[m][n + 1] \in Revision
    BY <1>1, RevisionBound
  <2>2. /\ a = [k \in 1 .. (n + 1) |-> a[k]] /\ a[n + 1] = items[m][n + 1]
        /\ \A k \in 1 .. n : a[k] = Told[m][k]
    BY <1>1, <1>4, <2>1
  <2> HIDE DEF n, a
  <2>3. \A k \in 1 .. (n + 1) : a[k] = streams'[m][k].revision
    <3>0. \A k \in 1 .. n : Told[m][k] = streams[m][k].revision
      BY <1>3
    <3>1. \A k \in 1 .. n : a[k] = streams'[m][k].revision
      BY <1>2, <2>2, <3>0
    <3>2. a[n + 1] = streams'[m][n + 1].revision
      BY <1>2, <2>2 DEF n
    <3>3. \A k \in 1 .. (n + 1) : k = n + 1 \/ k \in 1 .. n
      BY <1>1
    <3> QED BY <3>1, <3>2, <3>3
  <2>4. a = Told'[m]
    BY <1>3, <2>2, <2>3
  <2> QED BY <2>4 DEF a
<1>6. Told' = [Told EXCEPT ![m] = Append(@, items[m][Len(@) + 1])]
  <2>1. Told' = [x \in Memories |-> Told'[x]] /\ DOMAIN Told = Memories
    BY DEF Told
  <2> HIDE DEF n
  <2> QED BY <1>3, <1>4, <1>5, <2>1
<1>7. Aggregate!Tell(m)
  BY <1>4, <1>6 DEF Aggregate!Tell, current
<1> QED BY <1>7 DEF Aggregate!Next

(* Every step of the memory plane is a step of the aggregate, or leaves    *)
(* rows and streams alone.                                                 *)
LEMMA NextImplements == IInv /\ [Next]_vars => [Aggregate!Next]_(Aggregate!vars)
<1> SUFFICES ASSUME IInv, [Next]_vars PROVE [Aggregate!Next]_(Aggregate!vars)
  OBVIOUS
<1>1. ASSUME NEW w \in Workers, create_insert(w) \/ append_revision(w)
      PROVE  [Aggregate!Next]_(Aggregate!vars)
  <2>1. UNCHANGED streams
    BY <1>1 DEF create_insert, append_revision
  <2>2. CASE UNCHANGED items
    BY <2>1, <2>2 DEF Aggregate!vars, Told
  <2>3. CASE ~UNCHANGED items
    BY <1>1, <2>1, <2>3, CreateInsertStep, AppendRevisionStep, RowsImplement
  <2> QED BY <2>2, <2>3
<1>2. ASSUME NEW w \in Workers, announce_creation(w) \/ journal_transition(w)
      PROVE  [Aggregate!Next]_(Aggregate!vars)
  <2>1. UNCHANGED items
    BY <1>2 DEF announce_creation, journal_transition
  <2>2. CASE UNCHANGED streams
    BY <2>1, <2>2 DEF Aggregate!vars, Told
  <2>3. CASE ~UNCHANGED streams
    BY <1>2, <2>1, <2>3, AnnounceStep, JournalStep, EventsImplement
  <2> QED BY <2>2, <2>3
<1>3. ASSUME UNCHANGED <<items, streams>>
      PROVE  UNCHANGED Aggregate!vars
  BY <1>3 DEF Aggregate!vars, Told
<1> QED BY <1>1, <1>2, <1>3, NextCases, QuietFacts

(* The memory plane implements the governed aggregate.                     *)
THEOREM Refinement == Spec => ImplementsAggregate
<1>1. Init => Aggregate!Init
  <2> SUFFICES ASSUME Init PROVE Aggregate!Init
    OBVIOUS
  <2>1. items = [m \in Memories |-> <<>>] /\ \A m \in Memories : DOMAIN streams[m] = {}
    BY DEF Init
  <2>2. Told = [m \in Memories |-> [k \in {} |-> streams[m][k].revision]]
    BY <2>1 DEF Told
  <2>3. \A m \in Memories : [k \in {} |-> streams[m][k].revision] = <<>>
    OBVIOUS
  <2>4. Told = items
    BY <2>1, <2>2, <2>3
  <2> QED BY <2>1, <2>4 DEF Aggregate!Init
<1> QED
  BY <1>1, Invariance, NextImplements, PTL DEF Spec, ImplementsAggregate, Aggregate!Spec
=============================================================================
