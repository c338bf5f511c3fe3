---------------------------- MODULE MemoryPlane ----------------------------
(***************************************************************************)
(* The governed memory plane: MemoryService.create and the trajectory      *)
(* ingestion that calls it in a loop, MemoryLifecycleService, the          *)
(* embedding and the retrieval services, over the PostgreSQL memory        *)
(* repository and the memory streams of the event store.  The row of a     *)
(* revision and the event that announces it are separate transactions:     *)
(* several workers interleave between them, an append may lose a race and  *)
(* a worker may die.  An ingestion that dies is run again.                 *)
(***************************************************************************)
EXTENDS Naturals, Sequences

CONSTANTS
  Memories, Workers,
  Batches,        \* sequences of memories one ingestion creates
  QueryStatuses,  \* sets of statuses a query may filter by
  NoMemory,
  MaxRevisions,   \* bound of MemoryRevision.revision (1000 in the code)
  MaxRequests, MaxCrashes

ASSUME MemoryAssumption ==
  /\ Batches \subseteq Seq(Memories) \ {<<>>}
  /\ NoMemory \notin Memories
  /\ MaxRevisions \in Nat \ {0} /\ MaxRequests \in Nat /\ MaxCrashes \in Nat

Statuses == {"candidate", "verified", "superseded", "retracted", "expired"}
Retired == {"retracted", "superseded", "expired"}

(* _LEGAL_TRANSITIONS                                                      *)
Legal == {"candidate"} \X {"candidate", "verified", "retracted", "expired"}
         \cup {"verified"} \X {"verified", "superseded", "retracted", "expired"}

can_transition_memory(current, target) == <<current, target>> \in Legal

Operations == {"promote", "supersede", "retract", "expire"}
Target == [promote |-> "verified", supersede |-> "superseded",
           retract |-> "retracted", expire |-> "expired"]

Numbers == 1 .. MaxRevisions
Revision == [number : Numbers, status : Statuses, by : Workers]

(* An event carries the revision it announces; memory.item_created also    *)
(* carries the record, of which current_revision matters to a replay.      *)
Event == [type : Operations \cup {"create"}, revision : Revision, record : Numbers]

VARIABLES
  items,       \* items[m]: the revisions of m; the last one is current
  streams,     \* streams[m]: the stream of m in the event store
  embeddings,  \* the revisions that have an embedding
  accesses,    \* access audit rows <<query, memory, revision>>
  disclosed,   \* what queries returned to their callers
  reported,    \* memories whose caller saw an event append fail, or died
  pc, job,     \* per worker: its next step, and the request it works on
  requests, crashes

tables == <<items, streams, embeddings, accesses, disclosed, reported>>
counters == <<requests, crashes>>
vars == <<tables, pc, job, counters>>

Idle == [op |-> "none", batch |-> <<>>, memory |-> NoMemory, source |-> NoMemory,
         expected |-> 0, read |-> 0, status |-> "candidate", page |-> {}]

Job == [op : Operations \cup {"none", "create", "retrieve"}, batch : Seq(Memories),
        memory : Memories \cup {NoMemory}, source : Memories \cup {NoMemory},
        expected : Nat, read : Nat, status : Statuses,
        page : SUBSET (Memories \X Numbers)]

PCs == {"idle", "crashed", "lookup", "insert", "probe", "announce",
        "source", "read", "append", "journal", "audit"}

TypeOK ==
  /\ items \in [Memories -> Seq(Revision)]
  /\ streams \in [Memories -> Seq(Event)]
  /\ embeddings \subseteq Memories \X Numbers
  /\ accesses \subseteq Nat \X Memories \X Numbers
  /\ disclosed \subseteq Nat \X Memories \X Numbers
  /\ reported \subseteq Memories
  /\ pc \in [Workers -> PCs] /\ job \in [Workers -> Job]
  /\ requests \in 0 .. MaxRequests /\ crashes \in 0 .. MaxCrashes

Init ==
  /\ items = [m \in Memories |-> <<>>]
  /\ streams = [m \in Memories |-> <<>>]
  /\ embeddings = {} /\ accesses = {} /\ disclosed = {} /\ reported = {}
  /\ pc = [w \in Workers |-> "idle"]
  /\ job = [w \in Workers |-> Idle]
  /\ requests = 0 /\ crashes = 0

current(m) == Len(items[m])
status(m) == items[m][current(m)].status
version(m) == Len(streams[m])

Goto(w, l) == pc' = [pc EXCEPT ![w] = l]

(* The request of w is over, by a return or by an exception.               *)
Finish(w) == Goto(w, "idle") /\ job' = [job EXCEPT ![w] = Idle]

Start(w, l, j) ==
  /\ pc[w] = "idle" /\ requests < MaxRequests
  /\ requests' = requests + 1
  /\ Goto(w, l) /\ job' = [job EXCEPT ![w] = j]
  /\ UNCHANGED <<tables, crashes>>

-----------------------------------------------------------------------------
(* CodingTrajectoryIngestionService.ingest; MemoryService.create alone is  *)
(* a batch of one.  The ids and idempotency keys are derived from the      *)
(* trajectory, so two ingestions of one trajectory ask for the same items. *)
(* A request the write policy denies leaves no trace and is not modelled.  *)
ingest(w) ==
  \E b \in Batches, s \in {"candidate", "verified"} :
    Start(w, "lookup", [Idle EXCEPT !.op = "create", !.batch = b,
                                    !.memory = b[1], !.status = s])

(* Fault: a create that finds its item is taken for a repeat that has      *)
(* nothing left to do.                                                     *)
LookupOnly(w) ==
  /\ pc[w] = "lookup"
  /\ IF items[job[w].memory] = <<>> THEN Goto(w, "insert") /\ UNCHANGED job
                                    ELSE Finish(w)
  /\ UNCHANGED <<tables, counters>>

(* create_memory: the lookup of the idempotency key; a found item is       *)
(* returned as it is now.                                                  *)
create_lookup(w) ==
  LET m == job[w].memory IN
  /\ pc[w] = "lookup"
  /\ \/ /\ items[m] = <<>>
        /\ Goto(w, "insert") /\ UNCHANGED job
     \/ /\ items[m] # <<>>
        /\ Goto(w, "probe")
        /\ job' = [job EXCEPT ![w].read = current(m)]
  /\ UNCHANGED <<tables, counters>>

(* create_memory: the insert.  A key or an identity that another worker    *)
(* has inserted since is a MemoryConcurrencyError, which ends the batch.   *)
create_insert(w) ==
  LET m == job[w].memory IN
  /\ pc[w] = "insert"
  /\ \/ /\ items[m] = <<>>
        /\ items' = [items EXCEPT ![m] =
                       <<[number |-> 1, status |-> job[w].status, by |-> w]>>]
        /\ Goto(w, "probe")
        /\ job' = [job EXCEPT ![w].read = 1]
     \/ items[m] # <<>> /\ Finish(w) /\ UNCHANGED items
  /\ UNCHANGED <<streams, embeddings, accesses, disclosed, reported, counters>>

(* The loop of ingest goes on with the next memory of its batch.           *)
NextCreate(w) ==
  LET rest == Tail(job[w].batch) IN
  IF rest = <<>> THEN Finish(w)
  ELSE /\ Goto(w, "lookup")
       /\ job' = [job EXCEPT ![w].batch = rest, ![w].memory = rest[1]]

(* ensure_item_created: the stream is asked, not the record.               *)
probe_stream(w) ==
  /\ pc[w] = "probe"
  /\ \/ version(job[w].memory) > 0 /\ NextCreate(w)
     \/ version(job[w].memory) = 0 /\ Goto(w, "announce") /\ UNCHANGED job
  /\ UNCHANGED <<tables, counters>>

(* ensure_item_created: the append at version 0.  The event carries        *)
(* revision one (_creation_revision) and the record the create returned.   *)
(* A worker that loses the race takes the other's event for its own.       *)
announce_creation(w) ==
  LET m == job[w].memory IN
  /\ pc[w] = "announce"
  /\ streams' = IF version(m) = 0
                THEN [streams EXCEPT ![m] =
                        <<[type |-> "create", revision |-> items[m][1],
                           record |-> job[w].read]>>]
                ELSE streams
  /\ NextCreate(w)
  /\ UNCHANGED <<items, embeddings, accesses, disclosed, reported, counters>>

-----------------------------------------------------------------------------
(* promote, supersede, retract, expire.  The caller quotes a revision it   *)
(* has read.  Promotion evidence may cite a memory, a supersession names   *)
(* the successor.                                                          *)
lifecycle_request(w) ==
  \E o \in Operations, m \in Memories, s \in Memories \cup {NoMemory} :
    \E e \in 1 .. current(m) :
      /\ o = "supersede" => s # NoMemory
      /\ o \in {"retract", "expire"} => s = NoMemory
      /\ Start(w, IF s = NoMemory THEN "read" ELSE "source",
               [Idle EXCEPT !.op = o, !.memory = m, !.source = s, !.expected = e])

(* The successor must exist; cited evidence must exist and not be retired. *)
check_source(w) ==
  LET s == job[w].source
      usable == /\ items[s] # <<>>
                /\ job[w].op = "promote" => status(s) \notin Retired
  IN
  /\ pc[w] = "source"
  /\ \/ usable /\ Goto(w, "read") /\ UNCHANGED job
     \/ ~usable /\ Finish(w)
  /\ UNCHANGED <<tables, counters>>

(* _transition reads the current revision and checks the status it finds   *)
(* there.  The revision it read is not compared with the expected one.     *)
read_current(w) ==
  LET m == job[w].memory
      legal == /\ can_transition_memory(status(m), Target[job[w].op])
               /\ job[w].expected < MaxRevisions
  IN
  /\ pc[w] = "read"
  /\ \/ /\ legal /\ Goto(w, "append")
        /\ job' = [job EXCEPT ![w].read = current(m), ![w].status = status(m)]
     \/ ~legal /\ Finish(w)
  /\ UNCHANGED <<tables, counters>>

(* Fault: the projection advances to the next revision, whichever revision *)
(* the request expected.                                                   *)
AppendUnchecked(w) ==
  LET m == job[w].memory IN
  /\ pc[w] = "append"
  /\ items' = [items EXCEPT ![m] = Append(@,
       [number |-> job[w].expected + 1, status |-> Target[job[w].op], by |-> w])]
  /\ Goto(w, "journal") /\ UNCHANGED job
  /\ UNCHANGED <<streams, embeddings, accesses, disclosed, reported, counters>>

(* append_revision and advance_memory_item: one transaction that compares  *)
(* only the current revision; otherwise MemoryConcurrencyError.            *)
append_revision(w) ==
  LET m == job[w].memory
      e == job[w].expected
  IN
  /\ pc[w] = "append"
  /\ \/ /\ current(m) = e
        /\ items' = [items EXCEPT ![m] = Append(@,
             [number |-> e + 1, status |-> Target[job[w].op], by |-> w])]
        /\ Goto(w, "journal") /\ UNCHANGED job
     \/ current(m) # e /\ Finish(w) /\ UNCHANGED items
  /\ UNCHANGED <<streams, embeddings, accesses, disclosed, reported, counters>>

(* Fault: a lost race is taken for success, as in ensure_item_created.     *)
JournalForgiving(w) ==
  LET m == job[w].memory
      e == job[w].expected
  IN
  /\ pc[w] = "journal"
  /\ streams' = IF version(m) = e
                THEN [streams EXCEPT ![m] = Append(@,
                        [type |-> job[w].op, revision |-> items[m][e + 1],
                         record |-> e + 1])]
                ELSE streams
  /\ Finish(w)
  /\ UNCHANGED <<items, embeddings, accesses, disclosed, reported, counters>>

(* MemoryEventService.append at the expected revision, a transaction of    *)
(* its own: a stream that is not there raises WrongExpectedVersionError    *)
(* although the revision is committed.                                     *)
journal_transition(w) ==
  LET m == job[w].memory
      e == job[w].expected
  IN
  /\ pc[w] = "journal"
  /\ \/ /\ version(m) = e
        /\ streams' = [streams EXCEPT ![m] = Append(@,
             [type |-> job[w].op, revision |-> items[m][e + 1], record |-> e + 1])]
        /\ UNCHANGED reported
     \/ /\ version(m) # e
        /\ reported' = reported \cup {m}
        /\ UNCHANGED streams
  /\ Finish(w)
  /\ UNCHANGED <<items, embeddings, accesses, disclosed, counters>>

-----------------------------------------------------------------------------
(* MemoryEmbeddingService.create: revisions are immutable, so the hash     *)
(* read before the provider call still holds when the row is inserted.     *)
embed(m) ==
  \E r \in 1 .. current(m) :
    /\ requests < MaxRequests /\ requests' = requests + 1
    /\ embeddings' = embeddings \cup {<<m, r>>}
    /\ UNCHANGED <<items, streams, accesses, disclosed, reported, pc, job, crashes>>

(* search: the current revisions with a status asked for; a vector query   *)
(* joins the embedding of exactly that revision.                           *)
Matches(statuses, vector) ==
  {x \in Memories \X Numbers :
     /\ items[x[1]] # <<>> /\ x[2] = current(x[1]) /\ status(x[1]) \in statuses
     /\ vector => x \in embeddings}

retrieve(w) ==
  \E statuses \in QueryStatuses, vector \in BOOLEAN :
    Start(w, "audit", [Idle EXCEPT !.op = "retrieve", !.read = requests,
                                   !.page = Matches(statuses, vector)])

Rows(w) == {<<job[w].read, x[1], x[2]>> : x \in job[w].page}

(* Fault: the page is returned although the audit failed.                  *)
AuditBestEffort(w) ==
  /\ pc[w] = "audit"
  /\ accesses' \in {accesses, accesses \cup Rows(w)}
  /\ disclosed' = disclosed \cup Rows(w)
  /\ Finish(w)
  /\ UNCHANGED <<items, streams, embeddings, reported, counters>>

(* record_access: the page is returned once its rows are committed; a      *)
(* failed insert raises MemoryAuditError (fail_closed_on_audit_error).     *)
record_access(w) ==
  /\ pc[w] = "audit"
  /\ \/ /\ accesses' = accesses \cup Rows(w)
        /\ disclosed' = disclosed \cup Rows(w)
     \/ UNCHANGED <<accesses, disclosed>>
  /\ Finish(w)
  /\ UNCHANGED <<items, streams, embeddings, reported, counters>>

-----------------------------------------------------------------------------
(* Where the worker holds a committed revision without its event.          *)
Unannounced == {"probe", "announce", "journal"}

(* The process dies.  An ingestion will be run again, other requests are   *)
(* lost.                                                                   *)
crash(w) ==
  /\ pc[w] \notin {"idle", "crashed"} /\ crashes < MaxCrashes
  /\ crashes' = crashes + 1
  /\ \/ job[w].op = "create" /\ Goto(w, "crashed") /\ UNCHANGED job
     \/ job[w].op # "create" /\ Finish(w)
  /\ reported' = reported \cup
                 (IF pc[w] \in Unannounced THEN {job[w].memory} ELSE {})
  /\ UNCHANGED <<items, streams, embeddings, accesses, disclosed, requests>>

(* The batch is run again; what it did before it died is found by key.     *)
resume(w) ==
  /\ pc[w] = "crashed"
  /\ Goto(w, "lookup")
  /\ UNCHANGED <<tables, job, counters>>

Step(w) == \/ create_lookup(w) \/ create_insert(w) \/ probe_stream(w)
           \/ announce_creation(w) \/ check_source(w) \/ read_current(w)
           \/ append_revision(w) \/ journal_transition(w) \/ record_access(w)
           \/ resume(w)

Next == \/ \E w \in Workers : \/ ingest(w) \/ lifecycle_request(w) \/ retrieve(w)
                              \/ Step(w) \/ crash(w)
        \/ \E m \in Memories : embed(m)

Spec == Init /\ [][Next]_vars

(* A worker that has begun goes on, and one that died is started again.    *)
FairSpec == Spec /\ \A w \in Workers : WF_vars(Step(w))

-----------------------------------------------------------------------------
Told == [m \in Memories |-> [k \in DOMAIN streams[m] |-> streams[m][k].revision]]

Aggregate == INSTANCE GovernedAggregate
               WITH Ids <- Memories, Revisions <- Revision,
                    Starts <- {"candidate", "verified"},
                    history <- items, journal <- Told

(* The memory plane implements the governed aggregate: whichever workers   *)
(* race, and wherever one dies between append_revision and the event, a    *)
(* memory moves only along _LEGAL_TRANSITIONS (although _transition checks *)
(* a status it read before the transaction) and its stream announces       *)
(* committed revisions, in order, without a hole.                          *)
ImplementsAggregate == Aggregate!Spec

(* A stream that lags behind its memory is never silent: the worker that   *)
(* committed the revision still has its event to append, or a caller saw   *)
(* WrongExpectedVersionError, or a worker died.  In particular losing the  *)
(* race in ensure_item_created is rightly taken for success.               *)
LagIsReported ==
  \A m \in Memories :
    version(m) < current(m) =>
      \/ m \in reported
      \/ \E w \in Workers : job[w].memory = m /\ pc[w] \in Unannounced

(* Nothing is disclosed without its access rows: retrieve returns a page   *)
(* only after record_access committed one row for each result.             *)
DisclosuresAudited == disclosed \subseteq accesses

(* Every memory gets its creation event: a create that dies between the    *)
(* row and the event is repaired when the ingestion is run again, whatever *)
(* the other workers do meanwhile (ensure_item_created).                   *)
EveryItemJournalled ==
  \A m \in Memories : items[m] # <<>> ~> streams[m] # <<>>

(* MemoryStreamReducer.reduce accepts the stream.                          *)
ReducerAccepts(stream) ==
  /\ stream[1].type = "create"
  /\ stream[1].record = 1 /\ stream[1].revision.number = 1
  /\ \A k \in 2 .. Len(stream) :
       LET r == stream[k].revision
       IN  /\ stream[k].type # "create"
           /\ r.number = k
           /\ r.status = Target[stream[k].type]
           /\ can_transition_memory(stream[k - 1].revision.status, r.status)

(* Every stream the services write can be replayed by the reducer of the   *)
(* same package.  It cannot: a create that is run again after the memory   *)
(* has moved on announces revision one together with the record as it is   *)
(* now, which reduce refuses (current_revision must be one).               *)
StreamsReplay == \A m \in Memories : streams[m] # <<>> => ReducerAccepts(streams[m])
=============================================================================
