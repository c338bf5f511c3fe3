------------------------- MODULE PostgresEventStore -------------------------
(***************************************************************************)
(* The PostgreSQL adapter of the event store: any number of application    *)
(* processes call PostgresEventStore.append, each in a transaction of its  *)
(* own at READ COMMITTED.  The actions are the statements of append (insert *)
(* the stream row, claim the expected version, insert the events, commit)  *)
(* and what PostgreSQL does around them: row locks, uniqueness waits, the  *)
(* identity sequence that is never rolled back, a commit whose             *)
(* acknowledgement is lost, a session that dies, a deadlock victim.        *)
(* Two readers page through the committed rows while this goes on:         *)
(* StreamReplayer over one stream, a read_all cursor over all of them.     *)
(***************************************************************************)
EXTENDS Integers, Sequences

CONSTANTS
  Writers,        \* callers of append
  Streams, StreamTypes, EventIds,
  Batches,        \* the batches a caller may hand in, well formed or not
  MaxBatch,       \* maximum_batch_size
  MaxVersion,     \* bound: the largest expected_version a caller names
  MaxAppends,     \* bound: how many times append is called
  NoType, NoWriter

(* An EventEnvelope, reduced to what the store looks at.                   *)
Envelope == [stream : Streams, type : StreamTypes, id : EventIds, version : Nat \ {0}]

ASSUME StoreAssumption ==
  /\ Batches \subseteq Seq(Envelope)
  /\ MaxBatch \in Nat \ {0}
  /\ MaxVersion \in Nat
  /\ MaxAppends \in Nat
  /\ NoType \notin StreamTypes
  /\ NoWriter \notin Writers

VARIABLES
  streamRow,      \* event_streams, committed: [type, version]; NoRow if absent
  events,         \* events, committed: [position, stream, version, id]
  sequence,       \* the last value the global_position identity handed out
  holder,         \* holder[s]: the transaction that wrote the row of s
  pc, batch, expected,   \* per caller: where append is, and its arguments
  ownRow,         \* per caller: its uncommitted row of event_streams
  positions,      \* per caller: positions of the events it has inserted so far
  result,         \* per caller: how its last append ended
  appends,        \* number of appends called
  replayed,       \* replayed[s]: the version StreamReplayer has reduced
  cursor, lastSeen    \* read_all cursor; version it last saw of each stream

rowVars == <<streamRow, events>>
txVars == <<holder, ownRow, positions>>
callVars == <<batch, expected, appends>>
readVars == <<replayed, cursor, lastSeen>>
vars == <<rowVars, sequence, txVars, pc, result, callVars, readVars>>

StreamRow == [type : StreamTypes \cup {NoType}, version : Nat]
NoRow == [type |-> NoType, version |-> 0]
EventRow == [position : Nat \ {0}, stream : Streams, version : Nat, id : EventIds]
InTransaction == {"insert_stream", "claim", "insert_events", "rollback"}
PCs == InTransaction \cup {"idle"}
Results == {"none", "appended", "invalid", "wrong_version", "type_mismatch",
            "duplicate_event", "integrity_error", "unavailable"}

Stream(w) == batch[w][1].stream
Type(w) == batch[w][1].type

(* validate_event_batch                                                    *)
ValidBatch(b, expectedVersion) ==
  /\ Len(b) \in 1..MaxBatch
  /\ \A i \in DOMAIN b : b[i].stream = b[1].stream /\ b[i].type = b[1].type
  /\ \A i, j \in DOMAIN b : b[i].id = b[j].id => i = j
  /\ \A i \in DOMAIN b : b[i].version = expectedVersion + i

TypeOK ==
  /\ streamRow \in [Streams -> StreamRow]
  /\ events \subseteq EventRow
  /\ sequence \in Nat
  /\ holder \in [Streams -> Writers \cup {NoWriter}]
  /\ pc \in [Writers -> PCs]
  /\ batch \in [Writers -> Seq(Envelope)]
  /\ expected \in [Writers -> Nat]
  /\ ownRow \in [Writers -> StreamRow]
  /\ positions \in [Writers -> Seq(Nat \ {0})]
  /\ result \in [Writers -> Results]
  /\ appends \in Nat
  /\ replayed \in [Streams -> Nat]
  /\ cursor \in Nat
  /\ lastSeen \in [Streams -> Nat]

Init ==
  /\ streamRow = [s \in Streams |-> NoRow]
  /\ events = {}
  /\ sequence = 0
  /\ holder = [s \in Streams |-> NoWriter]
  /\ pc = [w \in Writers |-> "idle"]
  /\ batch = [w \in Writers |-> <<>>]
  /\ expected = [w \in Writers |-> 0]
  /\ ownRow = [w \in Writers |-> NoRow]
  /\ positions = [w \in Writers |-> <<>>]
  /\ result = [w \in Writers |-> "none"]
  /\ appends = 0
  /\ replayed = [s \in Streams |-> 0]
  /\ cursor = 0
  /\ lastSeen = [s \in Streams |-> 0]
-----------------------------------------------------------------------------
(* append is called: the batch is validated before any transaction opens.  *)
BeginAppend(w, b, expectedVersion) ==
  /\ pc[w] = "idle" /\ appends < MaxAppends
  /\ appends' = appends + 1
  /\ IF ValidBatch(b, expectedVersion)
       THEN /\ pc' = [pc EXCEPT ![w] = "insert_stream"]
            /\ batch' = [batch EXCEPT ![w] = b]
            /\ expected' = [expected EXCEPT ![w] = expectedVersion]
            /\ result' = [result EXCEPT ![w] = "none"]
       ELSE /\ result' = [result EXCEPT ![w] = "invalid"]
            /\ UNCHANGED <<pc, batch, expected>>
  /\ UNCHANGED <<rowVars, sequence, txVars, readVars>>

(* INSERT INTO event_streams ... ON CONFLICT DO NOTHING.  A committed row  *)
(* makes it a no-op; another transaction's uncommitted row makes it wait.  *)
InsertStream(w) ==
  /\ pc[w] = "insert_stream"
  /\ \/ /\ streamRow[Stream(w)] # NoRow
        /\ UNCHANGED <<holder, ownRow>>
     \/ /\ streamRow[Stream(w)] = NoRow /\ holder[Stream(w)] = NoWriter
        /\ holder' = [holder EXCEPT ![Stream(w)] = w]
        /\ ownRow' = [ownRow EXCEPT ![w] = [type |-> Type(w), version |-> 0]]
  /\ pc' = [pc EXCEPT ![w] = "claim"]
  /\ UNCHANGED <<rowVars, sequence, positions, result, callVars, readVars>>

(* The row as transaction w sees it: its own version, else the committed.  *)
VisibleRow(w) == IF holder[Stream(w)] = w THEN ownRow[w] ELSE streamRow[Stream(w)]

(* Fault: the UPDATE is not conditional on the expected version.           *)
ClaimIgnoresVersion(w) == VisibleRow(w).type = Type(w)

(* The WHERE clause of the conditional UPDATE.                             *)
ClaimMatches(w) == VisibleRow(w) = [type |-> Type(w), version |-> expected[w]]

(* UPDATE event_streams ... RETURNING.  It waits for the row lock and then *)
(* re-evaluates its WHERE clause on the row it finds.                      *)
Claim(w) ==
  /\ pc[w] = "claim"
  /\ holder[Stream(w)] \in {w, NoWriter}
  /\ IF ClaimMatches(w)
       THEN /\ holder' = [holder EXCEPT ![Stream(w)] = w]
            /\ ownRow' = [ownRow EXCEPT ![w] =
                 [type |-> Type(w), version |-> batch[w][Len(batch[w])].version]]
            /\ pc' = [pc EXCEPT ![w] = "insert_events"]
            /\ UNCHANGED result
       ELSE /\ result' = [result EXCEPT ![w] =
                 IF VisibleRow(w).type # Type(w) THEN "type_mismatch" ELSE "wrong_version"]
            /\ pc' = [pc EXCEPT ![w] = "rollback"]
            /\ UNCHANGED <<holder, ownRow>>
  /\ UNCHANGED <<rowVars, sequence, positions, callVars, readVars>>

(* The rows of events that transaction w has inserted and not committed.   *)
Row(e, position) ==
  [position |-> position, stream |-> e.stream, version |-> e.version, id |-> e.id]
Inserted(w) == {Row(batch[w][i], positions[w][i]) : i \in DOMAIN positions[w]}

(* The next envelope of w's batch, and the rows that would collide with it *)
(* on a unique column: events_event_id_key and uq_events_stream_version.   *)
NextEnvelope(w) == batch[w][Len(positions[w]) + 1]
SameId(r, e) == r.id = e.id
SameVersion(r, e) == r.stream = e.stream /\ r.version = e.version
Collides(r, e) == SameId(r, e) \/ SameVersion(r, e)

(* A uniqueness check against another session's uncommitted row waits for  *)
(* that session to finish.                                                 *)
InsertBlockedBy(w) ==
  {v \in Writers \ {w} : \E r \in Inserted(v) : Collides(r, NextEnvelope(w))}

(* INSERT INTO events ... RETURNING global_position, one statement per     *)
(* event of the batch.  The identity column draws a value from its         *)
(* sequence even when the row is then refused.                             *)
Insert(w, position) ==
  /\ pc[w] = "insert_events"
  /\ Len(positions[w]) < Len(batch[w])
  /\ InsertBlockedBy(w) = {}
  /\ sequence' = sequence + 1
  /\ LET e == NextEnvelope(w) IN
     IF \E r \in events \cup Inserted(w) : Collides(r, e)
       THEN /\ result' = [result EXCEPT ![w] =
                 IF \E r \in events \cup Inserted(w) : SameVersion(r, e)
                   THEN "integrity_error" ELSE "duplicate_event"]
            /\ pc' = [pc EXCEPT ![w] = "rollback"]
            /\ UNCHANGED positions
       ELSE /\ positions' = [positions EXCEPT ![w] = Append(@, position)]
            /\ UNCHANGED <<pc, result>>
  /\ UNCHANGED <<rowVars, holder, ownRow, callVars, readVars>>

InsertEvent(w) == Insert(w, sequence + 1)

(* Fault: the row lock outlives the transaction.                           *)
EndWithoutUnlock(w) ==
  /\ pc' = [pc EXCEPT ![w] = "idle"]
  /\ ownRow' = [ownRow EXCEPT ![w] = NoRow]
  /\ positions' = [positions EXCEPT ![w] = <<>>]
  /\ UNCHANGED <<holder, sequence, callVars, readVars>>

(* The end of a transaction: its locks and its uncommitted rows are gone.  *)
EndTransaction(w) ==
  /\ pc' = [pc EXCEPT ![w] = "idle"]
  /\ holder' = [s \in Streams |-> IF holder[s] = w THEN NoWriter ELSE holder[s]]
  /\ ownRow' = [ownRow EXCEPT ![w] = NoRow]
  /\ positions' = [positions EXCEPT ![w] = <<>>]
  /\ UNCHANGED <<sequence, callVars, readVars>>

(* engine.begin() commits when the block is left.  The server has committed *)
(* even when the client never hears of it and reports "unavailable".       *)
Commit(w) ==
  /\ pc[w] = "insert_events"
  /\ Len(positions[w]) = Len(batch[w])
  /\ streamRow' = [streamRow EXCEPT ![Stream(w)] = ownRow[w]]
  /\ events' = events \cup Inserted(w)
  /\ \E r \in {"appended", "unavailable"} : result' = [result EXCEPT ![w] = r]
  /\ EndTransaction(w)

(* An exception leaves the block: engine.begin() rolls back.               *)
Rollback(w) ==
  /\ pc[w] = "rollback"
  /\ EndTransaction(w)
  /\ UNCHANGED <<rowVars, result>>

(* Fault: the events inserted so far survive the session, autocommitted.   *)
LoseSessionAutocommit(w) ==
  /\ pc[w] \in InTransaction
  /\ result' = [result EXCEPT ![w] = "unavailable"]
  /\ EndTransaction(w)
  /\ events' = events \cup Inserted(w)
  /\ UNCHANGED streamRow

(* The session dies (server restart, lost connection, killed process).     *)
LoseSession(w) ==
  /\ pc[w] \in InTransaction
  /\ result' = [result EXCEPT ![w] = "unavailable"]
  /\ EndTransaction(w)
  /\ UNCHANGED rowVars

(* Whom a transaction waits for, and PostgreSQL's deadlock detector: a     *)
(* transaction in a cycle of waits is aborted.                             *)
WaitsFor(w) ==
  CASE pc[w] = "insert_stream" /\ streamRow[Stream(w)] = NoRow ->
         {holder[Stream(w)]} \cap Writers
    [] pc[w] = "claim" -> ({holder[Stream(w)]} \cap Writers) \ {w}
    [] pc[w] = "insert_events" /\ Len(positions[w]) < Len(batch[w]) ->
         InsertBlockedBy(w)
    [] OTHER -> {}

DetectDeadlock(w) ==
  /\ \E S \in SUBSET Writers : w \in S /\ \A v \in S : WaitsFor(v) \cap S # {}
  /\ result' = [result EXCEPT ![w] = "unavailable"]
  /\ EndTransaction(w)
  /\ UNCHANGED rowVars
-----------------------------------------------------------------------------
(* read_stream: the committed events of s from a version on, in order.     *)
StreamEvents(s, fromVersion) == {r \in events : r.stream = s /\ r.version >= fromVersion}

(* StreamReplayer.replay_stream reduces the next event of stream s.  A page *)
(* is one snapshot; a page of k events is k of these steps with no other    *)
(* step between them.                                                      *)
ReplayNext(s) ==
  /\ \E r \in StreamEvents(s, replayed[s] + 1) :
       /\ \A q \in StreamEvents(s, replayed[s] + 1) : r.version <= q.version
       /\ replayed' = [replayed EXCEPT ![s] = r.version]
  /\ UNCHANGED <<rowVars, sequence, txVars, pc, result, callVars, cursor, lastSeen>>

(* read_all(after_global_position = cursor): the next row by position.     *)
ReadAllNext ==
  /\ \E r \in {x \in events : x.position > cursor} :
       /\ \A q \in events : q.position > cursor => r.position <= q.position
       /\ cursor' = r.position
       /\ lastSeen' = [lastSeen EXCEPT ![r.stream] = r.version]
  /\ UNCHANGED <<rowVars, sequence, txVars, pc, result, callVars, replayed>>
-----------------------------------------------------------------------------
Step(w) ==
  \/ InsertStream(w) \/ Claim(w) \/ InsertEvent(w) \/ Commit(w) \/ Rollback(w)
  \/ DetectDeadlock(w)

Next ==
  \/ \E w \in Writers :
       \/ \E b \in Batches, v \in 0..MaxVersion : BeginAppend(w, b, v)
       \/ Step(w)
       \/ LoseSession(w)
  \/ \E s \in Streams : ReplayNext(s)
  \/ ReadAllNext

Spec == Init /\ [][Next]_vars

(* A transaction's statements are executed in the end, and PostgreSQL's    *)
(* deadlock detector runs; nothing forces a caller to append.              *)
FairSpec == Spec /\ \A w \in Writers : WF_vars(Step(w))
-----------------------------------------------------------------------------
(* Committed events of a stream are numbered 1..current_version without a  *)
(* gap or a duplicate, whoever raced on the stream and wherever a          *)
(* transaction died.                                                       *)
StreamsContiguous ==
  \A s \in Streams :
    /\ {r.version : r \in {e \in events : e.stream = s}} = 1..streamRow[s].version
    /\ \A r, q \in events : r.stream = s /\ SameVersion(r, q) => r = q

(* No event id is stored twice, although a caller whose acknowledgement    *)
(* was lost may hand the same envelopes in again.                          *)
EventIdsUnique == \A r, q \in events : r.id = q.id => r = q

(* The claim, not the unique constraint, settles a race: a caller that     *)
(* loses it is told wrong_version and never sees the raw IntegrityError    *)
(* that append re-raises.                                                  *)
RaceLosersGetWrongVersion == \A w \in Writers : result[w] # "integrity_error"

(* Global positions are handed out before the commit and never returned,   *)
(* yet inside one stream they follow the versions (AppendResult insists).  *)
PositionsFollowVersions ==
  \A r, q \in events : r.stream = q.stream /\ r.version < q.version
                         => r.position < q.position

(* StreamReplayer never raises StreamGapError while appends are committing:*)
(* each step moves to the very next version.                               *)
ReplayNeverSeesGap ==
  [][\A s \in Streams : replayed'[s] \in {replayed[s], replayed[s] + 1}]_vars

(* A cursor over read_all never sees a stream run backwards.               *)
CursorSeesVersionsInOrder ==
  [][\A s \in Streams : lastSeen'[s] >= lastSeen[s]]_vars

(* Every append that opened a transaction ends it: no lock is held, and no *)
(* caller waits, for ever.                                                 *)
AppendsTerminate == \A w \in Writers : pc[w] # "idle" ~> pc[w] = "idle"

(* The contract of the port: the committed rows are an EventStore.         *)
Port == INSTANCE EventStore WITH
  stored <- {[stream |-> r.stream, version |-> r.version, id |-> r.id] : r \in events},
  version <- [s \in Streams |-> streamRow[s].version],
  streamType <- [s \in Streams |-> streamRow[s].type]

(* Every step of every transaction, commit or abort, is one atomic append  *)
(* to the abstract store or leaves it alone.                               *)
ImplementsPort == Port!Spec
=============================================================================
