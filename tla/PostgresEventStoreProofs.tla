---------------------- MODULE PostgresEventStoreProofs ----------------------
(***************************************************************************)
(* Proofs about PostgresEventStore for every set of callers, streams, ids  *)
(* and batches.  The inductive invariant says what the row lock protects:  *)
(* while a transaction holds the row of its stream nobody else can change  *)
(* the committed row, so the version it claimed stays the last one until   *)
(* it commits, and the positions it draws lie above every committed one.   *)
(***************************************************************************)
EXTENDS PostgresEventStore, TLAPS

(* A transaction works on a batch that passed validation.                  *)
BatchesValid == \A w \in Writers : pc[w] # "idle" => ValidBatch(batch[w], expected[w])

(* A row lock belongs to a transaction on that stream past its first       *)
(* statement; a row version of its own exists only under the lock.         *)
LocksOwned ==
  \A s \in Streams, w \in Writers :
    holder[s] = w => /\ pc[w] \in {"claim", "insert_events", "rollback"}
                     /\ Stream(w) = s

(* What the row lock protects.                                             *)
ClaimsHold ==
  \A w \in Writers :
    /\ pc[w] = "claim" /\ holder[Stream(w)] = w =>
         ownRow[w] = [type |-> Type(w), version |-> 0] /\ streamRow[Stream(w)] = NoRow
    /\ pc[w] = "insert_events" \/ positions[w] # <<>> =>
         /\ pc[w] \in {"insert_events", "rollback"}
         /\ holder[Stream(w)] = w
         /\ streamRow[Stream(w)].version = expected[w]
         /\ streamRow[Stream(w)].type \in {NoType, Type(w)}
         /\ ownRow[w] = [type |-> Type(w), version |-> expected[w] + Len(batch[w])]

(* The rows a transaction has inserted so far: as many as its batch has at *)
(* most, at increasing positions above every committed event of the stream.*)
PositionsHold ==
  \A w \in Writers :
    /\ Len(positions[w]) <= Len(batch[w])
    /\ \A i \in DOMAIN positions[w] :
         /\ positions[w][i] <= sequence
         /\ \A j \in DOMAIN positions[w] : i < j => positions[w][i] < positions[w][j]
         /\ \A r \in events : r.stream = Stream(w) => r.position < positions[w][i]

(* An uncommitted id is nowhere else: not committed, not in another        *)
(* transaction.                                                            *)
UncommittedIdsNew ==
  \A w \in Writers : \A i \in DOMAIN positions[w] :
    /\ \A r \in events : r.id # batch[w][i].id
    /\ \A v \in Writers \ {w} : \A j \in DOMAIN positions[v] :
         batch[v][j].id # batch[w][i].id

(* A committed row of event_streams exists once something was appended.    *)
RowsTyped == \A s \in Streams : streamRow[s].version = 0 <=> streamRow[s].type = NoType

CommittedPositions == \A r \in events : r.position <= sequence

(* The readers are never ahead of what is committed.                       *)
ReadersBehind ==
  \A s \in Streams :
    /\ replayed[s] <= streamRow[s].version
    /\ lastSeen[s] # 0 => \E r \in events : /\ r.stream = s
                                            /\ r.version = lastSeen[s]
                                            /\ r.position <= cursor

IInv ==
  /\ TypeOK /\ BatchesValid /\ LocksOwned /\ ClaimsHold /\ PositionsHold
  /\ UncommittedIdsNew /\ RowsTyped /\ CommittedPositions /\ ReadersBehind
  /\ StreamsContiguous /\ EventIdsUnique /\ RaceLosersGetWrongVersion
  /\ PositionsFollowVersions
-----------------------------------------------------------------------------
(* A validated batch names one stream and one type of the store.           *)
LEMMA ValidBatchFacts ==
  ASSUME NEW b \in Seq(Envelope), NEW v \in Nat, ValidBatch(b, v)
  PROVE  /\ Len(b) \in Nat \ {0} /\ Len(b) \in 1..MaxBatch /\ DOMAIN b = 1..Len(b)
         /\ b[1].stream \in Streams /\ b[1].type \in StreamTypes
         /\ \A i \in 1..Len(b) : /\ b[i] \in Envelope /\ b[i].stream = b[1].stream
                                 /\ b[i].version = v + i /\ b[i].id \in EventIds
         /\ b[Len(b)].version = v + Len(b)
<1>1. Len(b) \in Nat /\ DOMAIN b = 1..Len(b) /\ \A i \in 1..Len(b) : b[i] \in Envelope
  OBVIOUS
<1>2. MaxBatch \in Nat
  BY StoreAssumption
<1> QED
  BY <1>1, <1>2, SMTT(30) DEF ValidBatch, Envelope

(* What the type of a transaction's batch gives.                           *)
LEMMA TransactionFacts ==
  ASSUME TypeOK, BatchesValid, NEW w \in Writers, pc[w] # "idle"
  PROVE  /\ Stream(w) \in Streams /\ Type(w) \in StreamTypes /\ expected[w] \in Nat
         /\ batch[w] \in Seq(Envelope) /\ Len(batch[w]) \in Nat \ {0}
         /\ Len(batch[w]) \in 1..MaxBatch
         /\ \A i \in 1..Len(batch[w]) :
              /\ batch[w][i].stream = Stream(w) /\ batch[w][i].id \in EventIds
              /\ batch[w][i].version = expected[w] + i
         /\ batch[w][Len(batch[w])].version = expected[w] + Len(batch[w])
  BY ValidBatchFacts DEF TypeOK, BatchesValid, Stream, Type

(* Every variable keeps its type.                                          *)
LEMMA TypeStep ==
  ASSUME TypeOK, BatchesValid, [Next]_vars
  PROVE  TypeOK'
<1> USE DEF TypeOK, rowVars, txVars, callVars, readVars
<1>a. {"idle", "insert_stream", "claim", "insert_events", "rollback"} \subseteq PCs
  BY DEF PCs, InTransaction
<1>b. {"none", "appended", "invalid", "wrong_version", "type_mismatch",
       "duplicate_event", "integrity_error", "unavailable"} \subseteq Results
  BY DEF Results
<1>c. NoRow \in StreamRow
  BY DEF NoRow, StreamRow
<1>d. ASSUME NEW type \in StreamTypes, NEW n \in Nat
      PROVE  [type |-> type, version |-> n] \in StreamRow
  BY DEF StreamRow
<1>1. ASSUME NEW w \in Writers, NEW b \in Batches, NEW v \in 0..MaxVersion,
             BeginAppend(w, b, v)
      PROVE  TypeOK'
  <2>1. b \in Seq(Envelope) /\ v \in Nat
    BY StoreAssumption
  <2>a. /\ batch' = [batch EXCEPT ![w] = b] \/ batch' = batch
        /\ expected' = [expected EXCEPT ![w] = v] \/ expected' = expected
    BY <1>1, Zenon DEF BeginAppend
  <2>2. batch' \in [Writers -> Seq(Envelope)] /\ expected' \in [Writers -> Nat]
    BY <2>1, <2>a
  <2>3. pc' \in [Writers -> PCs] /\ result' \in [Writers -> Results]
    BY <1>1, <1>a, <1>b DEF BeginAppend
  <2> QED BY <1>1, <2>2, <2>3 DEF BeginAppend
<1>3. ASSUME NEW w \in Writers, InsertStream(w)
      PROVE  TypeOK'
  <2>1. Stream(w) \in Streams /\ [type |-> Type(w), version |-> 0] \in StreamRow
    BY <1>3, <1>d, TransactionFacts DEF InsertStream
  <2> QED BY <1>3, <2>1, <1>a DEF InsertStream
<1>4. ASSUME NEW w \in Writers, Claim(w)
      PROVE  TypeOK'
  <2> DEFINE new == [type |-> Type(w), version |-> batch[w][Len(batch[w])].version]
  <2>1. Stream(w) \in Streams /\ new \in StreamRow
    <3>1. Stream(w) \in Streams /\ Type(w) \in StreamTypes
          /\ batch[w][Len(batch[w])].version \in Nat
      BY <1>4, TransactionFacts DEF Claim
    <3> QED BY <3>1, <1>d
  <2> HIDE DEF new
  <2>2. holder' \in [Streams -> Writers \cup {NoWriter}]
    BY <1>4, <2>1 DEF Claim
  <2>4. ownRow' \in [Writers -> StreamRow]
    <3>1. ownRow' = [ownRow EXCEPT ![w] = new] \/ ownRow' = ownRow
      BY <1>4 DEF Claim, new
    <3> QED BY <3>1, <2>1
  <2>3. pc' \in [Writers -> PCs] /\ result' \in [Writers -> Results]
    BY <1>4, <1>a, <1>b DEF Claim
  <2> QED BY <1>4, <2>2, <2>3, <2>4 DEF Claim
<1>5. ASSUME NEW w \in Writers, InsertEvent(w)
      PROVE  TypeOK'
  <2>1. Append(positions[w], sequence + 1) \in Seq(Nat \ {0})
    OBVIOUS
  <2>2. positions' \in [Writers -> Seq(Nat \ {0})]
    BY <1>5, <2>1 DEF InsertEvent, Insert
  <2>3. pc' \in [Writers -> PCs] /\ result' \in [Writers -> Results]
    BY <1>5, <1>a, <1>b DEF InsertEvent, Insert
  <2> QED BY <1>5, <2>2, <2>3 DEF InsertEvent, Insert
<1>6. ASSUME NEW w \in Writers, EndTransaction(w), UNCHANGED rowVars,
             \/ UNCHANGED result
             \/ result' = [result EXCEPT ![w] = "unavailable"]
      PROVE  TypeOK'
  <2>1. holder' \in [Streams -> Writers \cup {NoWriter}]
    BY <1>6 DEF EndTransaction
  <2>2. pc' \in [Writers -> PCs] /\ result' \in [Writers -> Results]
    BY <1>6, <1>a, <1>b DEF EndTransaction
  <2>3. ownRow' \in [Writers -> StreamRow] /\ positions' \in [Writers -> Seq(Nat \ {0})]
    BY <1>6, <1>c DEF EndTransaction
  <2> QED BY <1>6, <2>1, <2>2, <2>3 DEF EndTransaction
<1>7. ASSUME NEW w \in Writers, Commit(w)
      PROVE  TypeOK'
  <2>1. Inserted(w) \subseteq EventRow
    <3> SUFFICES ASSUME NEW i \in DOMAIN positions[w]
                 PROVE  Row(batch[w][i], positions[w][i]) \in EventRow
      BY DEF Inserted
    <3>1. i \in 1..Len(batch[w]) /\ positions[w][i] \in Nat \ {0}
      BY <1>7 DEF Commit
    <3>2. /\ batch[w][i].stream \in Streams /\ batch[w][i].id \in EventIds
          /\ batch[w][i].version \in Nat
      BY <1>7, <3>1, TransactionFacts DEF Commit
    <3> QED BY <3>1, <3>2 DEF Row, EventRow
  <2>2. streamRow' \in [Streams -> StreamRow]
    BY <1>7, TransactionFacts DEF Commit
  <2>3. result' \in [Writers -> Results]
    BY <1>7, <1>b DEF Commit
  <2> QED BY <1>7, <2>1, <2>2, <2>3, <1>a, <1>c DEF Commit, EndTransaction
<1>8. ASSUME NEW s \in Streams, ReplayNext(s)
      PROVE  TypeOK'
  BY <1>8 DEF ReplayNext, StreamEvents, EventRow
<1>9. ASSUME ReadAllNext
      PROVE  TypeOK'
  BY <1>9 DEF ReadAllNext, EventRow
<1>10. ASSUME UNCHANGED vars
       PROVE  TypeOK'
  BY <1>10 DEF vars
<1> QED
  BY <1>1, <1>3, <1>4, <1>5, <1>6, <1>7, <1>8, <1>9, <1>10
     DEF Next, Step, Rollback, LoseSession, DetectDeadlock
-----------------------------------------------------------------------------
(* An idle caller holds no lock and has inserted nothing.                  *)
LEMMA IdleFacts ==
  ASSUME IInv, NEW w \in Writers, pc[w] \in {"idle", "insert_stream"}
  PROVE  positions[w] = <<>> /\ \A s \in Streams : holder[s] # w
  BY DEF IInv, ClaimsHold, LocksOwned

(* append validates and opens a transaction: nothing shared changes.       *)
LEMMA BeginAppendStep ==
  ASSUME IInv, TypeOK', NEW w \in Writers, NEW b \in Batches, NEW v \in 0..MaxVersion,
         BeginAppend(w, b, v)
  PROVE  IInv'
<1> USE DEF TypeOK, rowVars, txVars, callVars, readVars
<1>0. TypeOK /\ pc[w] = "idle" /\ UNCHANGED <<rowVars, sequence, txVars, readVars>>
  BY DEF IInv, BeginAppend
<1>1. positions[w] = <<>> /\ \A s \in Streams : holder[s] # w
  BY <1>0, IdleFacts
<1>2. ASSUME NEW u \in Writers, u # w
      PROVE  /\ pc'[u] = pc[u] /\ batch'[u] = batch[u] /\ expected'[u] = expected[u]
             /\ result'[u] = result[u] /\ Stream(u)' = Stream(u) /\ Type(u)' = Type(u)
  BY <1>0, <1>2 DEF BeginAppend, Stream, Type
<1>3. BatchesValid'
  <2>1. pc'[w] # "idle" => ValidBatch(batch'[w], expected'[w])
    BY <1>0 DEF BeginAppend
  <2>2. \A u \in Writers : u # w => (pc'[u] # "idle" => ValidBatch(batch'[u], expected'[u]))
    BY <1>2 DEF IInv, BatchesValid
  <2>3. \A u \in Writers : pc'[u] # "idle" => ValidBatch(batch'[u], expected'[u])
    BY <2>1, <2>2
  <2> QED BY <2>3 DEF BatchesValid, ValidBatch
<1>4. LocksOwned'
  BY <1>0, <1>1, <1>2 DEF IInv, LocksOwned
<1>5. ClaimsHold'
  <2>1. pc'[w] \in {"idle", "insert_stream"} /\ positions'[w] = <<>>
    BY <1>0, <1>1 DEF BeginAppend
  <2> SUFFICES ASSUME NEW u \in Writers
               PROVE  ClaimsHold!(u)'
    BY DEF ClaimsHold
  <2>2. CASE u = w
    BY <2>1, <2>2
  <2>3. CASE u # w
    <3>1. ClaimsHold!(u)
      BY DEF IInv, ClaimsHold
    <3> QED BY <1>0, <1>2, <2>3, <3>1
  <2> QED BY <2>2, <2>3
<1>6. PositionsHold' /\ UncommittedIdsNew'
  <2>1. DOMAIN positions'[w] = {} /\ Len(positions'[w]) <= Len(batch'[w])
    BY <1>0, <1>1
  <2>2. ASSUME NEW u \in Writers
        PROVE  PositionsHold!(u)'
    <3>1. PositionsHold!(u)
      BY DEF IInv, PositionsHold
    <3>2. CASE u = w
      BY <2>1, <3>2
    <3>3. CASE u # w
      BY <1>0, <1>2, <3>1, <3>3
    <3> QED BY <3>2, <3>3
  <2>3. ASSUME NEW u \in Writers, NEW i \in DOMAIN positions'[u]
        PROVE  UncommittedIdsNew!(u)!(i)'
    <3>1. u # w /\ UncommittedIdsNew!(u)!(i) /\ batch'[u] = batch[u]
      BY <1>0, <1>2, <2>1 DEF IInv, UncommittedIdsNew
    <3>2. ASSUME NEW x \in Writers \ {u}, NEW j \in DOMAIN positions'[x]
          PROVE  batch'[x][j].id # batch'[u][i].id
      <4>1. x # w /\ batch'[x] = batch[x] /\ positions' = positions
        BY <1>0, <1>2, <2>1
      <4> QED BY <3>1, <4>1
    <3> QED BY <1>0, <3>1, <3>2
  <2> QED BY <2>2, <2>3 DEF PositionsHold, UncommittedIdsNew
<1>7. RaceLosersGetWrongVersion'
  BY <1>0, <1>2 DEF IInv, RaceLosersGetWrongVersion, BeginAppend
<1> QED
  BY <1>0, <1>3, <1>4, <1>5, <1>6, <1>7
     DEF IInv, RowsTyped, CommittedPositions, ReadersBehind, StreamsContiguous,
         EventIdsUnique, PositionsFollowVersions, SameVersion

(* What the other transactions know is not touched by a step of w that     *)
(* leaves the committed rows alone.                                        *)
LEMMA InsertStreamStep ==
  ASSUME IInv, TypeOK', NEW w \in Writers, InsertStream(w)
  PROVE  IInv'
<1> USE DEF TypeOK, rowVars, txVars, callVars, readVars
<1>0. /\ TypeOK /\ pc[w] = "insert_stream" /\ pc' = [pc EXCEPT ![w] = "claim"]
      /\ UNCHANGED <<rowVars, sequence, positions, result, callVars, readVars>>
  BY DEF IInv, InsertStream
<1>1. /\ positions[w] = <<>> /\ \A s \in Streams : holder[s] # w
      /\ Stream(w) \in Streams
  BY <1>0, IdleFacts, TransactionFacts DEF IInv
<1>2. \A u \in Writers : Stream(u)' = Stream(u) /\ Type(u)' = Type(u)
  BY <1>0 DEF Stream, Type
<1>3. BatchesValid'
  BY <1>0 DEF IInv, BatchesValid, ValidBatch
<1>h. /\ holder'[Stream(w)] \in {w, holder[Stream(w)]}
      /\ \A s \in Streams : s # Stream(w) => holder'[s] = holder[s]
      /\ holder[Stream(w)] # NoWriter => holder'[Stream(w)] = holder[Stream(w)]
  BY <1>0, <1>1 DEF InsertStream
<1>4. LocksOwned'
  <2> SUFFICES ASSUME NEW s \in Streams, NEW u \in Writers, holder'[s] = u
               PROVE  /\ pc'[u] \in {"claim", "insert_events", "rollback"}
                      /\ Stream(u)' = s
    BY DEF LocksOwned
  <2>1. CASE u = w
    BY <1>0, <1>1, <1>2, <1>h, <2>1
  <2>2. CASE u # w
    <3>1. holder[s] = u
      BY <1>h, <2>2
    <3> QED BY <1>0, <1>2, <2>2, <3>1 DEF IInv, LocksOwned
  <2> QED BY <2>1, <2>2
<1>5. ClaimsHold'
  <2> SUFFICES ASSUME NEW u \in Writers
               PROVE  ClaimsHold!(u)'
    BY DEF ClaimsHold
  <2>1. CASE u # w
    <3>1. pc'[u] = pc[u] /\ ownRow'[u] = ownRow[u]
      BY <1>0, <2>1 DEF InsertStream
    <3>2. \A s \in Streams : holder'[s] = u <=> holder[s] = u
      BY <1>1, <1>h, <2>1, StoreAssumption
    <3>3. pc[u] # "idle" => Stream(u) \in Streams
      BY TransactionFacts, <1>0 DEF IInv
    <3> QED BY <1>0, <1>2, <3>1, <3>2, <3>3 DEF IInv, ClaimsHold
  <2>2. CASE u = w
    <3>1. \/ holder'[Stream(w)] # w
          \/ /\ streamRow[Stream(w)] = NoRow
             /\ ownRow'[w] = [type |-> Type(w), version |-> 0]
      BY <1>0, <1>1 DEF InsertStream
    <3> QED BY <1>0, <1>1, <1>2, <2>2, <3>1
  <2> QED BY <2>1, <2>2
<1>6. PositionsHold' /\ UncommittedIdsNew'
  BY <1>0, <1>2, SMTT(30) DEF IInv, PositionsHold, UncommittedIdsNew
<1> QED
  BY <1>0, <1>3, <1>4, <1>5, <1>6
     DEF IInv, RowsTyped, CommittedPositions, ReadersBehind, StreamsContiguous,
         EventIdsUnique, PositionsFollowVersions, RaceLosersGetWrongVersion, SameVersion

(* The conditional UPDATE: w takes the row lock, or is sent to roll back.  *)
LEMMA ClaimStep ==
  ASSUME IInv, TypeOK', NEW w \in Writers, Claim(w)
  PROVE  IInv'
<1> USE DEF TypeOK, rowVars, txVars, callVars, readVars
<1>0. /\ TypeOK /\ pc[w] = "claim" /\ holder[Stream(w)] \in {w, NoWriter}
      /\ pc' = [pc EXCEPT ![w] = pc'[w]]
      /\ UNCHANGED <<rowVars, sequence, positions, callVars, readVars>>
  BY DEF IInv, Claim
<1>1. /\ Stream(w) \in Streams /\ expected[w] \in Nat /\ Type(w) \in StreamTypes
      /\ batch[w][Len(batch[w])].version = expected[w] + Len(batch[w])
      /\ Len(batch[w]) \in Nat
  BY <1>0, TransactionFacts DEF IInv
<1>2. \A u \in Writers : Stream(u)' = Stream(u) /\ Type(u)' = Type(u)
  BY <1>0 DEF Stream, Type
<1>3. positions[w] = <<>> /\ pc'[w] \in {"insert_events", "rollback"}
  <2>1. positions[w] = <<>>
    BY <1>0 DEF IInv, ClaimsHold
  <2>2. pc'[w] \in {"insert_events", "rollback"}
    BY <1>0 DEF Claim
  <2> QED BY <2>1, <2>2
<1>h. /\ holder'[Stream(w)] \in {w, holder[Stream(w)]}
      /\ \A s \in Streams : s # Stream(w) => holder'[s] = holder[s]
      /\ \A u \in Writers : u # w => ownRow'[u] = ownRow[u]
  BY <1>0, <1>1 DEF Claim
<1>4. BatchesValid'
  BY <1>0 DEF IInv, BatchesValid, ValidBatch
<1>5. LocksOwned'
  <2> SUFFICES ASSUME NEW s \in Streams, NEW u \in Writers, holder'[s] = u
               PROVE  /\ pc'[u] \in {"claim", "insert_events", "rollback"}
                      /\ Stream(u)' = s
    BY DEF LocksOwned
  <2>1. CASE u = w
    <3>1. s = Stream(w)
      BY <1>0, <1>h, <2>1 DEF IInv, LocksOwned
    <3> QED BY <1>2, <1>3, <2>1, <3>1
  <2>2. CASE u # w
    <3>1. holder[s] = u
      BY <1>0, <1>h, <2>2, StoreAssumption
    <3> QED BY <1>0, <1>2, <2>2, <3>1 DEF IInv, LocksOwned
  <2> QED BY <2>1, <2>2
<1>6. ClaimsHold'
  <2> SUFFICES ASSUME NEW u \in Writers
               PROVE  ClaimsHold!(u)'
    BY DEF ClaimsHold
  <2>1. CASE u # w
    <3>1. pc'[u] = pc[u] /\ ownRow'[u] = ownRow[u]
      BY <1>0, <1>h, <2>1
    <3>2. \A s \in Streams : holder'[s] = u <=> holder[s] = u
      BY <1>0, <1>1, <1>h, <2>1, StoreAssumption
    <3>3. pc[u] # "idle" => Stream(u) \in Streams
      BY TransactionFacts, <1>0 DEF IInv
    <3> QED BY <1>0, <1>2, <3>1, <3>2, <3>3 DEF IInv, ClaimsHold
  <2>2. CASE u = w /\ pc'[w] = "insert_events"
    <3>1. /\ holder'[Stream(w)] = w /\ ClaimMatches(w)
          /\ ownRow'[w] = [type |-> Type(w), version |-> expected[w] + Len(batch[w])]
      BY <1>0, <1>1, <2>2 DEF Claim
    <3>2. CASE holder[Stream(w)] = w
      <4>1. ownRow[w] = [type |-> Type(w), version |-> 0] /\ streamRow[Stream(w)] = NoRow
        BY <1>0, <3>2 DEF IInv, ClaimsHold
      <4>2. ownRow[w] = [type |-> Type(w), version |-> expected[w]]
        BY <3>1, <3>2 DEF ClaimMatches, VisibleRow
      <4>3. /\ streamRow[Stream(w)].version = expected[w]
            /\ streamRow[Stream(w)].type = NoType
        BY <4>1, <4>2 DEF NoRow
      <4> QED BY <1>0, <1>2, <2>2, <3>1, <4>3
    <3>3. CASE holder[Stream(w)] = NoWriter
      <4>1. streamRow[Stream(w)] = [type |-> Type(w), version |-> expected[w]]
        BY <3>1, <3>3, StoreAssumption DEF ClaimMatches, VisibleRow
      <4> QED BY <1>0, <1>2, <2>2, <3>1, <4>1
    <3> QED BY <1>0, <3>2, <3>3
  <2>3. CASE u = w /\ pc'[w] = "rollback"
    BY <1>0, <1>3, <2>3
  <2> QED BY <1>3, <2>1, <2>2, <2>3
<1>7. PositionsHold' /\ UncommittedIdsNew'
  BY <1>0, <1>2 DEF IInv, PositionsHold, UncommittedIdsNew
<1>8. RaceLosersGetWrongVersion'
  BY DEF IInv, RaceLosersGetWrongVersion, Claim
<1> QED
  BY <1>0, <1>4, <1>5, <1>6, <1>7, <1>8
     DEF IInv, RowsTyped, CommittedPositions, ReadersBehind, StreamsContiguous,
         EventIdsUnique, PositionsFollowVersions, SameVersion

(* One row of events is inserted, at a fresh position and with a fresh id, *)
(* or the id was taken and the transaction is sent to roll back.           *)
LEMMA InsertEventStep ==
  ASSUME IInv, TypeOK', NEW w \in Writers, InsertEvent(w)
  PROVE  IInv'
<1> USE DEF TypeOK, rowVars, txVars, callVars, readVars
<1> DEFINE n == Len(positions[w]) + 1
           e == NextEnvelope(w)
<1>0. /\ TypeOK /\ pc[w] = "insert_events" /\ Len(positions[w]) < Len(batch[w])
      /\ InsertBlockedBy(w) = {} /\ sequence' = sequence + 1
      /\ UNCHANGED <<rowVars, holder, ownRow, callVars, readVars>>
  BY DEF IInv, InsertEvent, Insert
<1>1. /\ Stream(w) \in Streams /\ expected[w] \in Nat /\ Len(batch[w]) \in Nat
      /\ \A i \in 1..Len(batch[w]) : /\ batch[w][i].stream = Stream(w)
                                      /\ batch[w][i].version = expected[w] + i
  BY <1>0, TransactionFacts DEF IInv
<1>2. \A u \in Writers : Stream(u)' = Stream(u) /\ Type(u)' = Type(u)
  BY <1>0 DEF Stream, Type
<1>n. /\ n \in 1..Len(batch[w]) /\ n \in Nat \ {0} /\ e = batch[w][n]
      /\ DOMAIN positions[w] = 1..(n - 1) /\ Len(positions[w]) + 1 = n
  BY <1>0, <1>1 DEF NextEnvelope
<1>e. \A u \in Writers : positions[u] \in Seq(Nat \ {0})
  BY <1>0
<1> HIDE DEF n
<1>c. /\ holder[Stream(w)] = w /\ streamRow[Stream(w)].version = expected[w]
  BY <1>0 DEF IInv, ClaimsHold
<1>v. \A r \in events \cup Inserted(w) : ~SameVersion(r, e)
  <2>1. ASSUME NEW r \in events, SameVersion(r, e)
        PROVE  FALSE
    <3>1. r.stream = Stream(w) /\ r.version = expected[w] + n
      BY <1>1, <1>n, <2>1 DEF SameVersion
    <3>2. r.version \in 1..streamRow[Stream(w)].version
      BY <1>1, <3>1 DEF IInv, StreamsContiguous
    <3> QED BY <1>1, <1>n, <1>c, <3>1, <3>2
  <2>2. ASSUME NEW i \in DOMAIN positions[w], SameVersion(Row(batch[w][i], positions[w][i]), e)
        PROVE  FALSE
    <3>1. i \in 1..Len(batch[w]) /\ i < n
      BY <1>0, <1>n
    <3>2. batch[w][i].version = batch[w][n].version
      BY <1>n, <2>2 DEF SameVersion, Row
    <3>3. expected[w] + i = expected[w] + n
      BY <1>1, <1>n, <3>1, <3>2
    <3>4. i \in Nat /\ n \in Nat /\ expected[w] \in Nat
      BY <1>1, <1>n, <3>1
    <3> QED BY <3>1, <3>3, <3>4
  <2> QED BY <2>1, <2>2 DEF Inserted
<1>p. /\ pc'[w] \in {"insert_events", "rollback"}
      /\ \A u \in Writers : u # w => pc'[u] = pc[u] /\ positions'[u] = positions[u]
      /\ RaceLosersGetWrongVersion'
  <2>1. pc' = [pc EXCEPT ![w] = "rollback"] \/ pc' = pc
    BY DEF InsertEvent, Insert
  <2>2. \A u \in Writers : u # w => positions'[u] = positions[u]
    BY <1>0 DEF InsertEvent, Insert
  <2>3. RaceLosersGetWrongVersion'
    <3>1. result' = [result EXCEPT ![w] = "duplicate_event"] \/ result' = result
      BY <1>v DEF InsertEvent, Insert
    <3> QED BY <3>1 DEF IInv, RaceLosersGetWrongVersion
  <2> QED BY <1>0, <2>1, <2>2, <2>3
<1>q. \/ positions'[w] = positions[w]
      \/ /\ positions'[w] = Append(positions[w], sequence + 1)
         /\ \A r \in events \cup Inserted(w) : ~Collides(r, e)
  BY <1>0 DEF InsertEvent, Insert
<1>3. BatchesValid'
  BY <1>0, <1>p DEF IInv, BatchesValid, ValidBatch
<1>4. LocksOwned'
  BY <1>0, <1>2, <1>p DEF IInv, LocksOwned
<1>5. ClaimsHold'
  <2> SUFFICES ASSUME NEW u \in Writers
               PROVE  ClaimsHold!(u)'
    BY DEF ClaimsHold
  <2>1. ClaimsHold!(u)
    BY DEF IInv, ClaimsHold
  <2>2. CASE u # w
    BY <1>0, <1>2, <1>p, <2>1, <2>2
  <2>3. CASE u = w
    BY <1>0, <1>2, <1>p, <2>1, <2>3
  <2> QED BY <2>2, <2>3
<1>6. PositionsHold'
  <2> SUFFICES ASSUME NEW u \in Writers
               PROVE  PositionsHold!(u)'
    BY DEF PositionsHold
  <2>1. PositionsHold!(u) /\ CommittedPositions
    BY DEF IInv, PositionsHold
  <2>2. CASE positions'[u] = positions[u]
    BY <1>0, <1>2, <2>1, <2>2
  <2>3. CASE u = w /\ positions'[w] = Append(positions[w], sequence + 1)
    <3>1. /\ DOMAIN positions'[w] = 1..n /\ Len(positions'[w]) = n
          /\ positions'[w][n] = sequence + 1
          /\ \A i \in 1..(n - 1) : positions'[w][i] = positions[w][i]
      BY <1>0, <1>n, <2>3
    <3>2. \A i \in 1..(n - 1) : positions[w][i] <= sequence /\ positions[w][i] \in Nat
      <4>1. \A i \in DOMAIN positions[w] : positions[w][i] <= sequence
        BY <2>1, <2>3
      <4>2. \A i \in DOMAIN positions[w] : positions[w][i] \in Nat
        BY <1>e
      <4> QED BY <1>n, <4>1, <4>2
    <3>3. \A r \in events : r.position \in Nat /\ r.position <= sequence
      BY <1>0, <2>1 DEF CommittedPositions, EventRow
    <3>4. ASSUME NEW i \in 1..n
          PROVE  /\ positions'[w][i] <= sequence'
                 /\ \A j \in 1..n : i < j => positions'[w][i] < positions'[w][j]
                 /\ \A r \in events : r.stream = Stream(w) => r.position < positions'[w][i]
      <4>1. CASE i = n
        BY <1>0, <1>n, <3>1, <3>3, <4>1
      <4>2. CASE i \in 1..(n - 1)
        <5>1. ASSUME NEW j \in 1..n, i < j
              PROVE  positions'[w][i] < positions'[w][j]
          <6>1. CASE j = n
            <7>1. positions'[w][i] = positions[w][i] /\ positions[w][i] \in Nat
                  /\ positions[w][i] <= sequence
              BY <3>1, <3>2, <4>2
            <7>2. positions'[w][j] = sequence + 1 /\ sequence \in Nat
              BY <1>0, <3>1, <6>1
            <7> QED BY <7>1, <7>2, SMTT(30)
          <6>2. CASE j \in 1..(n - 1)
            BY <1>n, <2>1, <2>3, <3>1, <4>2, <5>1, <6>2
          <6> QED BY <1>n, <6>1, <6>2
        <5>2. \A r \in events : r.stream = Stream(w) => r.position < positions'[w][i]
          BY <1>n, <2>1, <2>3, <3>1, <4>2
        <5> QED BY <1>0, <3>1, <3>2, <4>2, <5>1, <5>2
      <4>3. i = n \/ i \in 1..(n - 1)
        BY <1>n
      <4> QED BY <4>1, <4>2, <4>3
    <3>5. PositionsHold!(w)'
      BY <1>0, <1>1, <1>2, <1>n, <3>1, <3>4, SMTT(30)
    <3> QED BY <2>3, <3>5
  <2> QED BY <1>p, <1>q, <2>2, <2>3
<1>7. UncommittedIdsNew'
  <2>1. UncommittedIdsNew
    BY DEF IInv
  <2>2. CASE positions'[w] = positions[w]
    <3>1. positions' = positions
      BY <1>0, <1>p, <2>2
    <3> QED BY <1>0, <2>1, <3>1 DEF UncommittedIdsNew
  <2>3. CASE /\ positions'[w] = Append(positions[w], sequence + 1)
             /\ \A r \in events \cup Inserted(w) : ~Collides(r, e)
    <3>1. DOMAIN positions'[w] = 1..n
      BY <1>0, <1>n, <2>3
    <3>2. \A r \in events : r.id # batch[w][n].id
      BY <1>n, <2>3 DEF Collides, SameId
    <3>3. ASSUME NEW v \in Writers \ {w}, NEW j \in DOMAIN positions[v]
          PROVE  batch[v][j].id # batch[w][n].id
      <4>1. ~Collides(Row(batch[v][j], positions[v][j]), e)
        BY <1>0 DEF InsertBlockedBy, Inserted
      <4> QED BY <1>n, <4>1 DEF Collides, SameId, Row
    <3> SUFFICES ASSUME NEW u \in Writers, NEW i \in DOMAIN positions'[u]
                 PROVE  /\ \A r \in events : r.id # batch[u][i].id
                        /\ \A v \in Writers \ {u} : \A j \in DOMAIN positions'[v] :
                             batch[v][j].id # batch[u][i].id
      BY <1>0 DEF UncommittedIdsNew
    <3>4. \A x \in Writers : \A k \in DOMAIN positions'[x] :
             k \in DOMAIN positions[x] \/ (x = w /\ k = n)
      <4>1. \A k \in 1..n : k \in 1..(n - 1) \/ k = n
        BY <1>n
      <4> QED BY <1>n, <1>p, <3>1, <4>1
    <3>5. \A r \in events : r.id # batch[u][i].id
      BY <2>1, <3>2, <3>4 DEF UncommittedIdsNew
    <3>6. ASSUME NEW v \in Writers \ {u}, NEW j \in DOMAIN positions'[v]
          PROVE  batch[v][j].id # batch[u][i].id
      <4>1. CASE u = w /\ i = n
        <5>1. v # w /\ j \in DOMAIN positions[v]
          BY <3>4, <4>1
        <5> QED BY <3>3, <4>1, <5>1
      <4>2. CASE v = w /\ j = n
        <5>1. u # w /\ i \in DOMAIN positions[u]
          BY <3>4, <4>2
        <5> QED BY <3>3, <4>2, <5>1
      <4>3. CASE i \in DOMAIN positions[u] /\ j \in DOMAIN positions[v]
        BY <2>1, <4>3 DEF UncommittedIdsNew
      <4> QED BY <3>4, <4>1, <4>2, <4>3
    <3> QED BY <3>5, <3>6
  <2> QED BY <1>q, <2>2, <2>3
<1>8. CommittedPositions'
  BY <1>0 DEF IInv, CommittedPositions, EventRow
<1> QED
  BY <1>0, <1>p, <1>3, <1>4, <1>5, <1>6, <1>7, <1>8
     DEF IInv, RowsTyped, ReadersBehind, StreamsContiguous,
         EventIdsUnique, PositionsFollowVersions, SameVersion

(* What the end of a transaction of w, committed or not, leaves of it.     *)
LEMMA EndTransactionFacts ==
  ASSUME IInv, TypeOK', NEW w \in Writers, EndTransaction(w)
  PROVE  /\ TypeOK /\ pc'[w] = "idle" /\ positions'[w] = <<>>
         /\ \A s \in Streams : holder'[s] # w
         /\ UNCHANGED <<sequence, batch, expected, appends, replayed, cursor, lastSeen>>
         /\ \A u \in Writers : Stream(u)' = Stream(u) /\ Type(u)' = Type(u)
         /\ \A u \in Writers : u # w => /\ pc'[u] = pc[u] /\ ownRow'[u] = ownRow[u]
                                       /\ positions'[u] = positions[u]
         /\ \A s \in Streams, u \in Writers : holder'[s] = u <=> holder[s] = u /\ u # w
<1> USE DEF TypeOK, callVars, readVars
<1>1. /\ TypeOK /\ UNCHANGED <<sequence, batch, expected, appends, replayed, cursor, lastSeen>>
      /\ pc'[w] = "idle" /\ positions'[w] = <<>>
  BY DEF IInv, EndTransaction
<1>2. \A u \in Writers : Stream(u)' = Stream(u) /\ Type(u)' = Type(u)
  BY <1>1 DEF Stream, Type
<1>3. \A u \in Writers : u # w => /\ pc'[u] = pc[u] /\ ownRow'[u] = ownRow[u]
                                 /\ positions'[u] = positions[u]
  BY <1>1 DEF EndTransaction
<1>4. \A s \in Streams, u \in Writers : holder'[s] = u <=> holder[s] = u /\ u # w
  BY <1>1, StoreAssumption DEF EndTransaction
<1> QED BY <1>1, <1>2, <1>3, <1>4

(* Rolled back, died or chosen as deadlock victim: its rows never existed. *)
LEMMA AbortStep ==
  ASSUME IInv, TypeOK', NEW w \in Writers, EndTransaction(w), UNCHANGED rowVars,
         UNCHANGED result \/ result' = [result EXCEPT ![w] = "unavailable"]
  PROVE  IInv'
<1>f. /\ TypeOK /\ pc'[w] = "idle" /\ positions'[w] = <<>>
      /\ \A u \in Writers : Stream(u)' = Stream(u) /\ Type(u)' = Type(u)
      /\ \A u \in Writers : u # w => /\ pc'[u] = pc[u] /\ ownRow'[u] = ownRow[u]
                                    /\ positions'[u] = positions[u]
      /\ \A s \in Streams, u \in Writers : holder'[s] = u <=> holder[s] = u /\ u # w
  BY EndTransactionFacts
<1>0. TypeOK /\ UNCHANGED <<streamRow, events, sequence, batch, expected, replayed, cursor, lastSeen>>
  BY EndTransactionFacts DEF rowVars
<1> USE DEF TypeOK
<1>3. BatchesValid'
  <2>1. \A u \in Writers : pc'[u] # "idle" => pc[u] # "idle"
    BY <1>f
  <2> QED BY <1>0, <2>1 DEF IInv, BatchesValid, ValidBatch
<1>4. LocksOwned'
  BY <1>0, <1>f DEF IInv, LocksOwned
<1>5. ClaimsHold'
  <2> SUFFICES ASSUME NEW u \in Writers
               PROVE  ClaimsHold!(u)'
    BY DEF ClaimsHold
  <2>1. ClaimsHold!(u)
    BY DEF IInv, ClaimsHold
  <2>2. CASE u # w
    <3>1. pc[u] # "idle" => Stream(u) \in Streams
      BY TransactionFacts, <1>0 DEF IInv
    <3> QED BY <1>0, <1>f, <2>1, <2>2, <3>1, SMTT(30)
  <2>3. CASE u = w
    BY <1>f, <2>3
  <2> QED BY <2>2, <2>3
<1>6. PositionsHold'
  <2> SUFFICES ASSUME NEW u \in Writers
               PROVE  PositionsHold!(u)'
    BY DEF PositionsHold
  <2>1. PositionsHold!(u)
    BY DEF IInv, PositionsHold
  <2>2. CASE u # w
    BY <1>0, <1>f, <2>1, <2>2
  <2>3. CASE u = w
    BY <1>0, <1>f, <2>3
  <2> QED BY <2>2, <2>3
<1>7. UncommittedIdsNew'
  <2>1. \A u \in Writers : DOMAIN positions'[u] \subseteq DOMAIN positions[u]
    <3>1. DOMAIN positions'[w] = {}
      BY <1>f
    <3> QED BY <1>f, <3>1, SMTT(30)
  <2> QED BY <1>0, <2>1 DEF IInv, UncommittedIdsNew
<1>8. RaceLosersGetWrongVersion'
  BY <1>0 DEF IInv, RaceLosersGetWrongVersion
<1> QED
  BY <1>0, <1>3, <1>4, <1>5, <1>6, <1>7, <1>8
     DEF IInv, RowsTyped, CommittedPositions, ReadersBehind, StreamsContiguous,
         EventIdsUnique, PositionsFollowVersions, SameVersion

(* What becomes readable when w commits: the versions expected + 1 ..      *)
(* expected + Len(batch) of its stream, above everything of that stream.   *)
LEMMA CommitFacts ==
  ASSUME IInv, TypeOK', NEW w \in Writers, Commit(w)
  PROVE  /\ Stream(w) \in Streams /\ expected[w] \in Nat /\ Len(batch[w]) \in Nat \ {0}
         /\ streamRow[Stream(w)].version = expected[w]
         /\ streamRow[Stream(w)].type \in {NoType, Type(w)} /\ Type(w) \in StreamTypes
         /\ streamRow'[Stream(w)] = [type |-> Type(w), version |-> expected[w] + Len(batch[w])]
         /\ \A s \in Streams : s # Stream(w) => streamRow'[s] = streamRow[s]
         /\ holder[Stream(w)] = w
         /\ DOMAIN positions[w] = 1..Len(batch[w])
         /\ events' = events \cup Inserted(w)
         /\ \A i \in 1..Len(batch[w]) :
              /\ Row(batch[w][i], positions[w][i]).stream = Stream(w)
              /\ Row(batch[w][i], positions[w][i]).version = expected[w] + i
              /\ Row(batch[w][i], positions[w][i]).id = batch[w][i].id
              /\ Row(batch[w][i], positions[w][i]).position = positions[w][i]
<1> USE DEF TypeOK
<1>1. TypeOK /\ pc[w] = "insert_events" /\ Len(positions[w]) = Len(batch[w])
      /\ positions[w] \in Seq(Nat \ {0})
  BY DEF IInv, Commit
<1>2. /\ Stream(w) \in Streams /\ Type(w) \in StreamTypes /\ expected[w] \in Nat
      /\ Len(batch[w]) \in Nat \ {0}
      /\ \A i \in 1..Len(batch[w]) : /\ batch[w][i].stream = Stream(w)
                                      /\ batch[w][i].version = expected[w] + i
  BY <1>1, TransactionFacts DEF IInv
<1>3. /\ holder[Stream(w)] = w
      /\ streamRow[Stream(w)].version = expected[w]
      /\ streamRow[Stream(w)].type \in {NoType, Type(w)}
      /\ ownRow[w] = [type |-> Type(w), version |-> expected[w] + Len(batch[w])]
  BY <1>1 DEF IInv, ClaimsHold
<1>4. streamRow' = [streamRow EXCEPT ![Stream(w)] = ownRow[w]] /\ events' = events \cup Inserted(w)
  BY DEF Commit
<1>5. DOMAIN positions[w] = 1..Len(batch[w])
  BY <1>1
<1>6. \A i \in 1..Len(batch[w]) :
        /\ Row(batch[w][i], positions[w][i]).stream = Stream(w)
        /\ Row(batch[w][i], positions[w][i]).version = expected[w] + i
        /\ Row(batch[w][i], positions[w][i]).id = batch[w][i].id
        /\ Row(batch[w][i], positions[w][i]).position = positions[w][i]
  BY <1>2 DEF Row
<1> QED BY <1>1, <1>2, <1>3, <1>4, <1>5, <1>6

(* A commit makes the whole batch readable at once and keeps everything    *)
(* the other transactions rely on.                                         *)
LEMMA CommitStep ==
  ASSUME IInv, TypeOK', NEW w \in Writers, Commit(w)
  PROVE  IInv'
<1> DEFINE s0 == Stream(w)
           n == Len(batch[w])
           R(i) == Row(batch[w][i], positions[w][i])
<1>0. /\ EndTransaction(w) /\ pc[w] = "insert_events"
      /\ \E r \in {"appended", "unavailable"} : result' = [result EXCEPT ![w] = r]
  BY DEF Commit
<1>f. /\ TypeOK /\ pc'[w] = "idle" /\ positions'[w] = <<>>
      /\ \A u \in Writers : Stream(u)' = Stream(u) /\ Type(u)' = Type(u)
      /\ \A u \in Writers : u # w => /\ pc'[u] = pc[u] /\ ownRow'[u] = ownRow[u]
                                    /\ positions'[u] = positions[u]
      /\ \A s \in Streams, u \in Writers : holder'[s] = u <=> holder[s] = u /\ u # w
      /\ UNCHANGED <<sequence, batch, expected, replayed, cursor, lastSeen>>
  BY <1>0, EndTransactionFacts
<1>g. /\ s0 \in Streams /\ expected[w] \in Nat /\ n \in Nat \ {0}
      /\ streamRow[s0].version = expected[w]
      /\ streamRow'[s0] = [type |-> Type(w), version |-> expected[w] + n]
      /\ Type(w) \in StreamTypes
      /\ \A s \in Streams : s # s0 => streamRow'[s] = streamRow[s]
      /\ holder[s0] = w /\ DOMAIN positions[w] = 1..n
      /\ events' = events \cup Inserted(w)
  BY CommitFacts
<1>r. \A i \in 1..n : /\ R(i).stream = s0 /\ R(i).version = expected[w] + i
                      /\ R(i).id = batch[w][i].id /\ R(i).position = positions[w][i]
  <2>1. \A i \in 1..Len(batch[w]) : /\ batch[w][i].stream = Stream(w)
                                    /\ batch[w][i].version = expected[w] + i
    BY <1>0, <1>f, TransactionFacts DEF IInv
  <2> QED BY <2>1 DEF Row
<1>i. Inserted(w) = {R(i) : i \in 1..n}
  BY <1>g DEF Inserted
<1>e. \A r \in events' : r \in events \/ \E i \in 1..n : r = R(i)
  BY <1>g, <1>i
<1>m. /\ \A r \in events : r \in events'
      /\ \A i \in 1..n : R(i) \in events'
  BY <1>g, <1>i
<1>p. /\ \A i \in 1..n : /\ positions[w][i] \in Nat /\ positions[w][i] <= sequence
                         /\ \A r \in events : r.stream = s0 => r.position < positions[w][i]
      /\ \A i, j \in 1..n : i < j => positions[w][i] < positions[w][j]
  <2>1. PositionsHold!(w)
    BY DEF IInv, PositionsHold
  <2>2. positions[w] \in Seq(Nat \ {0})
    BY <1>f DEF TypeOK
  <2>3. \A i \in DOMAIN positions[w] : positions[w][i] \in Nat
    BY <2>2
  <2> QED BY <1>g, <2>1, <2>3
<1>o. ASSUME NEW r \in events
      PROVE  /\ r.stream \in Streams /\ r.version \in Nat /\ r.position \in Nat
             /\ r.version >= 1 /\ r.version <= streamRow[r.stream].version
  <2>1. r.stream \in Streams /\ r.version \in Nat /\ r.position \in Nat
    BY <1>f DEF TypeOK, EventRow
  <2>2. r.version \in 1..streamRow[r.stream].version
    BY <2>1 DEF IInv, StreamsContiguous
  <2>3. streamRow[r.stream].version \in Nat
    BY <1>f, <2>1 DEF TypeOK, StreamRow
  <2> QED BY <2>1, <2>2, <2>3
<1> HIDE DEF s0, n, R
<1>v. \A i, j \in 1..n : R(i).version = R(j).version => i = j
  <2> SUFFICES ASSUME NEW i \in 1..n, NEW j \in 1..n, R(i).version = R(j).version
               PROVE  i = j
    OBVIOUS
  <2>1. expected[w] + i = expected[w] + j
    BY <1>r
  <2>2. i \in Nat /\ j \in Nat
    BY <1>g
  <2> QED BY <1>g, <2>1, <2>2
<1>3. BatchesValid'
  <2>1. \A u \in Writers : pc'[u] # "idle" => pc[u] # "idle"
    BY <1>f
  <2> QED BY <1>f, <2>1 DEF IInv, BatchesValid, ValidBatch
<1>4. LocksOwned'
  BY <1>f DEF IInv, LocksOwned
<1>x. ASSUME NEW u \in Writers, u # w, pc[u] # "idle", holder[Stream(u)] = u
      PROVE  Stream(u) \in Streams /\ Stream(u) # s0
             /\ streamRow'[Stream(u)] = streamRow[Stream(u)]
  <2>1. Stream(u) \in Streams
    BY <1>f, <1>x, TransactionFacts DEF IInv
  <2> QED BY <1>g, <1>x, <2>1
<1>5. ClaimsHold'
  <2> SUFFICES ASSUME NEW u \in Writers
               PROVE  ClaimsHold!(u)'
    BY DEF ClaimsHold
  <2>1. ClaimsHold!(u)
    BY DEF IInv, ClaimsHold
  <2>2. CASE u # w
    <3>1. pc[u] # "idle" => Stream(u) \in Streams
      BY <1>f, TransactionFacts DEF IInv
    <3> QED BY <1>f, <1>x, <2>1, <2>2, <3>1
  <2>3. CASE u = w
    BY <1>f, <2>3
  <2> QED BY <2>2, <2>3
<1>6. PositionsHold'
  <2> SUFFICES ASSUME NEW u \in Writers
               PROVE  PositionsHold!(u)'
    BY DEF PositionsHold
  <2>1. PositionsHold!(u) /\ ClaimsHold!(u)
    BY DEF IInv, PositionsHold, ClaimsHold
  <2>2. CASE u # w /\ positions[u] # <<>>
    <3>1. Stream(u) # s0 /\ pc[u] # "idle"
      BY <1>x, <2>1, <2>2
    <3>2. \A r \in events' : r.stream = Stream(u) => r \in events
      BY <1>e, <1>r, <3>1
    <3> QED BY <1>f, <2>1, <2>2, <3>2
  <2>3. CASE positions'[u] = <<>>
    <3>1. batch'[u] \in Seq(Envelope)
      BY DEF TypeOK
    <3> QED BY <2>3, <3>1
  <2> QED BY <1>f, <2>2, <2>3
<1>7. UncommittedIdsNew'
  <2>1. \A u \in Writers : DOMAIN positions'[u] \subseteq DOMAIN positions[u]
    <3>1. DOMAIN positions'[w] = {}
      BY <1>f
    <3> QED BY <1>f, <3>1
  <2>2. ASSUME NEW u \in Writers, NEW i \in DOMAIN positions'[u], NEW r \in events'
        PROVE  r.id # batch'[u][i].id
    <3>1. u # w /\ i \in DOMAIN positions[u] /\ batch' = batch
      BY <1>f, <2>1
    <3>2. CASE r \in events
      BY <3>1, <3>2 DEF IInv, UncommittedIdsNew
    <3>3. ASSUME NEW k \in 1..n, r = R(k)
          PROVE  r.id # batch'[u][i].id
      <4>1. r.id = batch[w][k].id /\ k \in DOMAIN positions[w]
        BY <1>r, <1>g, <3>3
      <4> QED BY <3>1, <4>1 DEF IInv, UncommittedIdsNew
    <3> QED BY <1>e, <3>2, <3>3
  <2>3. ASSUME NEW u \in Writers, NEW i \in DOMAIN positions'[u],
               NEW x \in Writers \ {u}, NEW j \in DOMAIN positions'[x]
        PROVE  batch'[x][j].id # batch'[u][i].id
    BY <1>f, <2>1 DEF IInv, UncommittedIdsNew
  <2> QED BY <2>2, <2>3 DEF UncommittedIdsNew
<1>8. RowsTyped'
  <2> SUFFICES ASSUME NEW s \in Streams
               PROVE  (streamRow[s].version = 0 <=> streamRow[s].type = NoType)'
    BY DEF RowsTyped
  <2>1. CASE s = s0
    <3>1. streamRow'[s].version = expected[w] + n /\ streamRow'[s].type = Type(w)
      BY <1>g, <2>1
    <3>2. expected[w] + n # 0 /\ Type(w) # NoType
      BY <1>g, StoreAssumption
    <3> QED BY <3>1, <3>2
  <2>2. CASE s # s0
    BY <1>g, <2>2 DEF IInv, RowsTyped
  <2> QED BY <2>1, <2>2
<1>9. CommittedPositions'
  <2> SUFFICES ASSUME NEW r \in events'
               PROVE  r.position <= sequence
    BY <1>f DEF CommittedPositions
  <2>1. CASE r \in events
    BY <2>1 DEF IInv, CommittedPositions
  <2>2. ASSUME NEW i \in 1..n, r = R(i)
        PROVE  r.position <= sequence
    BY <1>r, <1>p, <1>g, <2>2
  <2> QED BY <1>e, <2>1, <2>2
<1>10. ReadersBehind'
  <2> SUFFICES ASSUME NEW s \in Streams
               PROVE  ReadersBehind!(s)'
    BY DEF ReadersBehind
  <2>1. ReadersBehind!(s)
    BY DEF IInv, ReadersBehind
  <2>2. replayed[s] <= streamRow'[s].version
    <3>1. CASE s = s0
      <4>1. streamRow'[s].version = expected[w] + n /\ replayed[s] <= expected[w]
            /\ replayed[s] \in Nat
        BY <1>f, <1>g, <2>1, <3>1 DEF TypeOK
      <4> QED BY <1>g, <4>1
    <3>2. CASE s # s0
      BY <1>g, <2>1, <3>2
    <3> QED BY <3>1, <3>2
  <2> QED BY <1>f, <1>m, <2>1, <2>2
<1>11. StreamsContiguous'
  <2> SUFFICES ASSUME NEW s \in Streams
               PROVE  StreamsContiguous!(s)'
    BY DEF StreamsContiguous
  <2>1. StreamsContiguous!(s)
    BY DEF IInv, StreamsContiguous
  <2>2. {r.version : r \in {x \in events' : x.stream = s}} = 1..streamRow'[s].version
    <3>1. CASE s # s0
      <4>1. {x \in events' : x.stream = s} = {x \in events : x.stream = s}
        BY <1>e, <1>m, <1>r, <3>1
      <4> QED BY <1>g, <2>1, <3>1, <4>1
    <3>2. CASE s = s0
      <4>1. streamRow'[s].version = expected[w] + n
        BY <1>g, <3>2
      <4>2. ASSUME NEW r \in events', r.stream = s
            PROVE  r.version \in 1..(expected[w] + n)
        <5>1. CASE r \in events
          BY <1>g, <1>o, <4>2, <3>2, <5>1
        <5>2. ASSUME NEW i \in 1..n, r = R(i)
              PROVE  r.version \in 1..(expected[w] + n)
          BY <1>g, <1>r, <5>2
        <5> QED BY <1>e, <5>1, <5>2
      <4>3. ASSUME NEW v \in 1..(expected[w] + n)
            PROVE  \E r \in events' : r.stream = s /\ r.version = v
        <5>1. CASE v \in 1..expected[w]
          <6>1. v \in 1..streamRow[s].version
            BY <1>g, <3>2, <5>1
          <6> QED BY <1>m, <2>1, <6>1
        <5>2. CASE v \in (expected[w] + 1)..(expected[w] + n)
          <6>1. v - expected[w] \in 1..n /\ expected[w] + (v - expected[w]) = v
            BY <1>g, <5>2
          <6>2. PICK i \in 1..n : expected[w] + i = v
            BY <6>1
          <6> QED BY <1>m, <1>r, <3>2, <6>2
        <5> QED BY <1>g, <5>1, <5>2
      <4> QED BY <4>1, <4>2, <4>3
    <3> QED BY <3>1, <3>2
  <2>3. ASSUME NEW r \in events', NEW q \in events', r.stream = s, SameVersion(r, q)
        PROVE  r = q
    <3>1. CASE r \in events /\ q \in events
      BY <2>1, <2>3, <3>1
    <3>2. ASSUME NEW x \in events, NEW i \in 1..n, SameVersion(x, R(i))
          PROVE  FALSE
      <4>1. x.stream = s0 /\ x.version = expected[w] + i
        BY <1>r, <3>2 DEF SameVersion
      <4> QED BY <1>o, <1>g, <4>1
    <3>3. ASSUME NEW i \in 1..n, NEW j \in 1..n, SameVersion(R(i), R(j))
          PROVE  R(i) = R(j)
      BY <1>v, <3>3 DEF SameVersion
    <3>4. SameVersion(q, r)
      BY <2>3 DEF SameVersion
    <3> QED BY <1>e, <2>3, <3>1, <3>2, <3>3, <3>4
  <2> QED BY <2>2, <2>3 DEF SameVersion
<1>12. EventIdsUnique'
  <2> SUFFICES ASSUME NEW r \in events', NEW q \in events', r.id = q.id
               PROVE  r = q
    BY DEF EventIdsUnique
  <2>1. CASE r \in events /\ q \in events
    BY <2>1 DEF IInv, EventIdsUnique
  <2>2. ASSUME NEW x \in events, NEW i \in 1..n, x.id = R(i).id
        PROVE  FALSE
    BY <1>g, <1>r, <2>2, SMTT(30) DEF IInv, UncommittedIdsNew
  <2>3. ASSUME NEW i \in 1..n, NEW j \in 1..n, R(i).id = R(j).id
        PROVE  R(i) = R(j)
    <3>1. i \in DOMAIN batch[w] /\ j \in DOMAIN batch[w]
      BY <1>f, <1>g DEF TypeOK, n
    <3>2. ValidBatch(batch[w], expected[w])
      BY <1>0 DEF IInv, BatchesValid
    <3>3. i = j
      BY <1>r, <2>3, <3>1, <3>2 DEF ValidBatch
    <3> QED BY <3>3
  <2> QED BY <1>e, <2>1, <2>2, <2>3
<1>13. RaceLosersGetWrongVersion'
  BY <1>0, <1>f DEF IInv, RaceLosersGetWrongVersion, TypeOK
<1>14. PositionsFollowVersions'
  <2> SUFFICES ASSUME NEW r \in events', NEW q \in events',
                      r.stream = q.stream, r.version < q.version
               PROVE  r.position < q.position
    BY DEF PositionsFollowVersions
  <2>1. CASE r \in events /\ q \in events
    BY <2>1 DEF IInv, PositionsFollowVersions
  <2>2. ASSUME r \in events, NEW i \in 1..n, q = R(i)
        PROVE  r.position < q.position
    BY <1>p, <1>r, <2>2
  <2>3. ASSUME NEW i \in 1..n, r = R(i), q \in events
        PROVE  FALSE
    <3>1. q.stream = s0 /\ expected[w] + i < q.version
      BY <1>r, <2>3
    <3> QED BY <1>g, <1>o, <2>3, <3>1
  <2>4. ASSUME NEW i \in 1..n, NEW j \in 1..n, r = R(i), q = R(j)
        PROVE  r.position < q.position
    <3>1. i \in Nat /\ j \in Nat /\ expected[w] + i < expected[w] + j
      BY <1>g, <1>r, <2>4
    <3>2. i < j
      BY <1>g, <3>1
    <3> QED BY <1>g, <1>p, <1>r, <2>4, <3>2
  <2> QED BY <1>e, <2>1, <2>2, <2>3, <2>4
<1> QED
  BY <1>3, <1>4, <1>5, <1>6, <1>7, <1>8, <1>9, <1>10, <1>11, <1>12, <1>13, <1>14 DEF IInv

(* The replayer finds exactly the next version: versions are contiguous.   *)
LEMMA ReplayNextStep ==
  ASSUME IInv, TypeOK', NEW s \in Streams, ReplayNext(s)
  PROVE  IInv' /\ replayed'[s] = replayed[s] + 1
               /\ \A x \in Streams : x # s => replayed'[x] = replayed[x]
<1> USE DEF rowVars, txVars, callVars
<1>0. TypeOK /\ UNCHANGED <<rowVars, sequence, txVars, pc, result, callVars, cursor, lastSeen>>
  BY DEF IInv, ReplayNext
<1>1. PICK r \in StreamEvents(s, replayed[s] + 1) :
        /\ \A q \in StreamEvents(s, replayed[s] + 1) : r.version <= q.version
        /\ replayed' = [replayed EXCEPT ![s] = r.version]
  BY DEF ReplayNext
<1>2. /\ r \in events /\ r.stream = s /\ r.version >= replayed[s] + 1
      /\ r.version \in 1..streamRow[s].version
  BY <1>1 DEF StreamEvents, IInv, StreamsContiguous
<1>3. replayed[s] \in Nat /\ streamRow[s].version \in Nat /\ r.version \in Nat
  BY <1>0, <1>2 DEF TypeOK, StreamRow, EventRow
<1>4. replayed[s] + 1 \in 1..streamRow[s].version
  BY <1>2, <1>3
<1>5. PICK q \in events : q.stream = s /\ q.version = replayed[s] + 1
  BY <1>4 DEF IInv, StreamsContiguous
<1>6. r.version = replayed[s] + 1
  <2>1. q \in StreamEvents(s, replayed[s] + 1)
    BY <1>3, <1>5 DEF StreamEvents
  <2> QED BY <1>1, <1>2, <1>3, <1>5, <2>1
<1>7. replayed'[s] = replayed[s] + 1 /\ \A x \in Streams : x # s => replayed'[x] = replayed[x]
  BY <1>0, <1>1, <1>6 DEF TypeOK
<1>8. ReadersBehind'
  <2>1. \A x \in Streams : replayed'[x] <= streamRow[x].version
    BY <1>2, <1>6, <1>7, <1>3 DEF IInv, ReadersBehind
  <2> QED BY <1>0, <2>1 DEF IInv, ReadersBehind
<1> QED
  BY <1>0, <1>7, <1>8
     DEF IInv, BatchesValid, ValidBatch, LocksOwned, ClaimsHold, PositionsHold, UncommittedIdsNew,
         RowsTyped, CommittedPositions, StreamsContiguous, EventIdsUnique, Stream, Type,
         RaceLosersGetWrongVersion, PositionsFollowVersions, SameVersion

(* The cursor's next row of a stream has a larger version than the last.   *)
LEMMA ReadAllNextStep ==
  ASSUME IInv, TypeOK', ReadAllNext
  PROVE  IInv' /\ \A s \in Streams : lastSeen'[s] >= lastSeen[s]
<1> USE DEF rowVars, txVars, callVars
<1>0. TypeOK /\ UNCHANGED <<rowVars, sequence, txVars, pc, result, callVars, replayed>>
  BY DEF IInv, ReadAllNext
<1>1. PICK r \in events : /\ r.position > cursor /\ cursor' = r.position
                          /\ lastSeen' = [lastSeen EXCEPT ![r.stream] = r.version]
  BY DEF ReadAllNext
<1>2. /\ r.stream \in Streams /\ r.version \in Nat /\ r.position \in Nat /\ cursor \in Nat
      /\ \A x \in events : x.version \in Nat /\ x.position \in Nat
      /\ lastSeen \in [Streams -> Nat]
  BY <1>0 DEF TypeOK, EventRow
<1>3. lastSeen'[r.stream] = r.version
      /\ \A s \in Streams : s # r.stream => lastSeen'[s] = lastSeen[s]
  BY <1>1, <1>2
<1>4. lastSeen[r.stream] <= r.version
  <2>1. CASE lastSeen[r.stream] = 0
    BY <1>2, <2>1
  <2>2. CASE lastSeen[r.stream] # 0
    <3>1. PICK x \in events : /\ x.stream = r.stream /\ x.version = lastSeen[r.stream]
                              /\ x.position <= cursor
      BY <1>2, <2>2 DEF IInv, ReadersBehind
    <3>2. ~(r.version < x.version)
      BY <1>1, <1>2, <3>1 DEF IInv, PositionsFollowVersions
    <3> QED BY <1>2, <3>1, <3>2
  <2> QED BY <2>1, <2>2
<1>5. ReadersBehind'
  <2> SUFFICES ASSUME NEW s \in Streams, lastSeen'[s] # 0
               PROVE  \E x \in events : x.stream = s /\ x.version = lastSeen'[s] /\ x.position <= cursor'
    BY <1>0 DEF IInv, ReadersBehind
  <2>1. CASE s = r.stream
    BY <1>1, <1>2, <1>3, <2>1
  <2>2. CASE s # r.stream
    <3>1. PICK x \in events : x.stream = s /\ x.version = lastSeen[s] /\ x.position <= cursor
      BY <1>3, <2>2 DEF IInv, ReadersBehind
    <3>2. x.position <= cursor'
      BY <1>1, <1>2, <3>1
    <3> QED BY <1>3, <2>2, <3>1, <3>2
  <2> QED BY <2>1, <2>2
<1>6. \A s \in Streams : lastSeen'[s] >= lastSeen[s]
  BY <1>2, <1>3, <1>4
<1> QED
  BY <1>0, <1>5, <1>6
     DEF IInv, BatchesValid, ValidBatch, LocksOwned, ClaimsHold, PositionsHold, UncommittedIdsNew,
         RowsTyped, CommittedPositions, StreamsContiguous, EventIdsUnique, Stream, Type,
         RaceLosersGetWrongVersion, PositionsFollowVersions, SameVersion

(* Nothing happens to the store.                                           *)
LEMMA StutterStep ==
  ASSUME IInv, UNCHANGED vars
  PROVE  IInv'
  BY DEF vars, rowVars, txVars, callVars, readVars, TypeOK,
         IInv, BatchesValid, ValidBatch, LocksOwned, ClaimsHold, PositionsHold, UncommittedIdsNew,
         RowsTyped, CommittedPositions, ReadersBehind, StreamsContiguous, EventIdsUnique,
         Stream, Type, RaceLosersGetWrongVersion, PositionsFollowVersions, SameVersion

(* The invariant holds initially.                                          *)
LEMMA InvInit == Init => IInv
<1> SUFFICES ASSUME Init PROVE IInv
  OBVIOUS
<1>1. TypeOK
  BY DEF Init, TypeOK, NoRow, StreamRow, PCs, InTransaction, Results
<1>2. BatchesValid /\ LocksOwned /\ ClaimsHold /\ RowsTyped /\ UncommittedIdsNew
  BY StoreAssumption DEF Init, BatchesValid, LocksOwned, ClaimsHold, RowsTyped,
                         UncommittedIdsNew, NoRow
<1>3. PositionsHold /\ CommittedPositions /\ ReadersBehind
  BY DEF Init, PositionsHold, CommittedPositions, ReadersBehind, NoRow
<1>4. StreamsContiguous
  <2>1. \A s \in Streams : streamRow[s].version = 0 /\ events = {}
    BY DEF Init, NoRow
  <2> QED BY <2>1 DEF StreamsContiguous
<1>5. EventIdsUnique /\ RaceLosersGetWrongVersion /\ PositionsFollowVersions
  BY DEF Init, EventIdsUnique, RaceLosersGetWrongVersion, PositionsFollowVersions
<1> QED BY <1>1, <1>2, <1>3, <1>4, <1>5 DEF IInv

(* Every step keeps the invariant.                                         *)
LEMMA InvNext == IInv /\ [Next]_vars => IInv'
<1> SUFFICES ASSUME IInv, [Next]_vars PROVE IInv'
  OBVIOUS
<1>1. TypeOK'
  BY TypeStep DEF IInv
<1>2. CASE UNCHANGED vars
  BY <1>2, StutterStep
<1>3. ASSUME NEW w \in Writers, Step(w) \/ LoseSession(w)
      PROVE  IInv'
  BY <1>1, <1>3, InsertStreamStep, ClaimStep, InsertEventStep, CommitStep, AbortStep
     DEF Step, Rollback, LoseSession, DetectDeadlock
<1> QED
  BY <1>1, <1>2, <1>3, BeginAppendStep, ReplayNextStep, ReadAllNextStep DEF Next

(* The inductive invariant holds in every reachable state.                 *)
THEOREM Invariance == Spec => []IInv
  BY InvInit, InvNext, PTL DEF Spec

(* TypeOK, of every variable of the store.                                 *)
THEOREM TypeCorrect == Spec => []TypeOK
  BY Invariance, PTL DEF IInv

(* Committed versions of a stream are 1..current_version, each once.       *)
THEOREM Contiguity == Spec => []StreamsContiguous
  BY Invariance, PTL DEF IInv

(* No event id is stored twice, whatever is submitted again.               *)
THEOREM IdsStoredOnce == Spec => []EventIdsUnique
  BY Invariance, PTL DEF IInv

(* A caller that loses a race is told wrong_version, never the raw error   *)
(* of uq_events_stream_version.                                            *)
THEOREM NoVersionCollision == Spec => []RaceLosersGetWrongVersion
  BY Invariance, PTL DEF IInv

(* Within a stream positions follow versions.                              *)
THEOREM PositionOrder == Spec => []PositionsFollowVersions
  BY Invariance, PTL DEF IInv

(* StreamReplayer never meets a gap.                                       *)
THEOREM ReplayGapFree == Spec => ReplayNeverSeesGap
<1>1. ASSUME IInv, [Next]_vars
      PROVE  [\A s \in Streams : replayed'[s] \in {replayed[s], replayed[s] + 1}]_vars
  <2>1. TypeOK'
    BY <1>1, TypeStep DEF IInv
  <2>2. CASE \E s \in Streams : ReplayNext(s)
    BY <1>1, <2>1, <2>2, ReplayNextStep
  <2>3. CASE UNCHANGED replayed
    BY <2>3
  <2> QED
    BY <1>1, <2>2, <2>3
       DEF Next, Step, BeginAppend, InsertStream, Claim, InsertEvent, Insert, Commit, Rollback,
           LoseSession, DetectDeadlock, EndTransaction, ReadAllNext, readVars, vars
<1> QED BY <1>1, Invariance, PTL DEF Spec, ReplayNeverSeesGap

(* A read_all cursor sees the versions of a stream in order.               *)
THEOREM CursorOrder == Spec => CursorSeesVersionsInOrder
<1>1. ASSUME IInv, [Next]_vars
      PROVE  [\A s \in Streams : lastSeen'[s] >= lastSeen[s]]_vars
  <2>1. TypeOK'
    BY <1>1, TypeStep DEF IInv
  <2>2. CASE ReadAllNext
    BY <1>1, <2>1, <2>2, ReadAllNextStep
  <2>3. CASE UNCHANGED lastSeen
    BY <1>1, <2>3 DEF IInv, TypeOK
  <2> QED
    BY <1>1, <2>2, <2>3
       DEF Next, Step, BeginAppend, InsertStream, Claim, InsertEvent, Insert, Commit, Rollback,
           LoseSession, DetectDeadlock, EndTransaction, ReplayNext, readVars, vars
<1> QED BY <1>1, Invariance, PTL DEF Spec, CursorSeesVersionsInOrder
-----------------------------------------------------------------------------
(* The refinement mapping: the committed rows without their positions.     *)
Image(r) == [stream |-> r.stream, version |-> r.version, id |-> r.id]
Stored == {[stream |-> r.stream, version |-> r.version, id |-> r.id] : r \in events}
Versions == [s \in Streams |-> streamRow[s].version]
Types == [s \in Streams |-> streamRow[s].type]

(* A commit is one Append of the abstract store.                           *)
LEMMA CommitImplementsAppend ==
  ASSUME IInv, TypeOK', NEW w \in Writers, Commit(w)
  PROVE  Port!Next
<1> DEFINE s0 == Stream(w)
           n == Len(batch[w])
           R(i) == Row(batch[w][i], positions[w][i])
           ids == [i \in 1..n |-> batch[w][i].id]
<1>0. TypeOK /\ pc[w] = "insert_events"
  BY DEF IInv, Commit
<1>1. /\ s0 \in Streams /\ expected[w] \in Nat /\ n \in Nat \ {0}
      /\ streamRow[s0].version = expected[w]
      /\ streamRow[s0].type \in {NoType, Type(w)} /\ Type(w) \in StreamTypes
      /\ streamRow'[s0] = [type |-> Type(w), version |-> expected[w] + n]
      /\ \A s \in Streams : s # s0 => streamRow'[s] = streamRow[s]
      /\ DOMAIN positions[w] = 1..n
      /\ events' = events \cup Inserted(w)
  BY CommitFacts
<1>2. n \in 1..MaxBatch /\ ids \in [1..n -> EventIds]
      /\ \A i \in 1..n : batch[w][i].stream = s0 /\ batch[w][i].version = expected[w] + i
  BY <1>0, TransactionFacts DEF IInv
<1>3. \A i, j \in DOMAIN ids : ids[i] = ids[j] => i = j
  <2>1. ValidBatch(batch[w], expected[w]) /\ DOMAIN batch[w] = 1..n
    BY <1>0 DEF IInv, BatchesValid, TypeOK
  <2> QED BY <2>1 DEF ValidBatch
<1>4. \A i \in DOMAIN ids, r \in Stored : r.id # ids[i]
  <2>1. \A i \in 1..n, r \in events : r.id # batch[w][i].id
    BY <1>1 DEF IInv, UncommittedIdsNew
  <2> QED BY <2>1 DEF Stored
<1>5. Stored' = Stored \cup {[stream |-> s0, version |-> Versions[s0] + i, id |-> ids[i]]
                               : i \in DOMAIN ids}
  <2>1. Inserted(w) = {R(i) : i \in 1..n} /\ Versions[s0] = expected[w]
    BY <1>1 DEF Inserted, Versions
  <2>2. \A i \in 1..n : Image(R(i)) = [stream |-> s0, version |-> Versions[s0] + i, id |-> ids[i]]
    BY <1>2, <2>1 DEF Image, Row
  <2>3. Stored' = {Image(r) : r \in events'} /\ Stored = {Image(r) : r \in events}
    BY DEF Stored, Image
  <2>4. Stored' = Stored \cup {Image(R(i)) : i \in 1..n}
    BY <1>1, <2>1, <2>3
  <2> HIDE DEF R
  <2>5. {Image(R(i)) : i \in 1..n}
          = {[stream |-> s0, version |-> Versions[s0] + i, id |-> ids[i]] : i \in 1..n}
    BY <2>2
  <2> QED BY <2>4, <2>5
<1>6. Versions' = [Versions EXCEPT ![s0] = @ + n]
  <2>1. \A s \in Streams : Versions'[s] = IF s = s0 THEN expected[w] + n ELSE Versions[s]
    BY <1>1 DEF Versions
  <2>2. Versions[s0] = expected[w]
    BY <1>1 DEF Versions
  <2>3. DOMAIN Versions' = Streams /\ DOMAIN Versions = Streams
        /\ Versions' = [s \in Streams |-> Versions'[s]]
    BY DEF Versions
  <2> HIDE DEF s0, n
  <2> QED BY <2>1, <2>2, <2>3
<1>7. Types' = [Types EXCEPT ![s0] = Type(w)] /\ Types[s0] \in {NoType, Type(w)}
  <2>1. \A s \in Streams : Types'[s] = IF s = s0 THEN Type(w) ELSE Types[s]
    BY <1>1 DEF Types
  <2>2. Types[s0] \in {NoType, Type(w)}
    BY <1>1 DEF Types
  <2>3. DOMAIN Types' = Streams /\ DOMAIN Types = Streams
        /\ Types' = [s \in Streams |-> Types'[s]]
    BY DEF Types
  <2> HIDE DEF s0, n
  <2> QED BY <2>1, <2>2, <2>3
<1>8. Port!Append(s0, Type(w), ids)
  <2>1. DOMAIN ids = 1..n
    OBVIOUS
  <2> HIDE DEF ids, n, s0
  <2> QED
    BY <1>2, <1>3, <1>4, <1>5, <1>6, <1>7, <2>1 DEF Port!Append, Stored, Versions, Types
<1> QED
  <2> HIDE DEF ids, n, s0
  <2>1. \E f \in [1..n -> EventIds] : Port!Append(s0, Type(w), f)
    BY <1>2, <1>8 DEF Port!Append
  <2>2. \E k \in 1..MaxBatch : \E f \in [1..k -> EventIds] : Port!Append(s0, Type(w), f)
    BY <1>2, <2>1 DEF Port!Append
  <2> QED BY <1>1, <2>2 DEF Port!Next, Port!Append

(* Every other step leaves the abstract store as it is.                    *)
LEMMA NextImplementsPort == IInv /\ [Next]_vars => [Port!Next]_(Port!vars)
<1> SUFFICES ASSUME IInv, [Next]_vars PROVE [Port!Next]_(Port!vars)
  OBVIOUS
<1>1. TypeOK'
  BY TypeStep DEF IInv
<1>2. ASSUME NEW w \in Writers, Commit(w)
      PROVE  Port!Next
  BY <1>1, <1>2, CommitImplementsAppend
<1>3. ASSUME UNCHANGED rowVars
      PROVE  UNCHANGED Port!vars
  BY <1>3 DEF Port!vars, rowVars
<1>4. UNCHANGED rowVars \/ \E w \in Writers : Commit(w)
  BY DEF Next, Step, BeginAppend, InsertStream, Claim, InsertEvent, Insert, Rollback, LoseSession,
         DetectDeadlock, ReadAllNext, ReplayNext, vars
<1> QED BY <1>2, <1>3, <1>4

(* The PostgreSQL adapter implements the contract of EventStorePort: its   *)
(* interleaved transactions, aborts and lost acknowledgements are a        *)
(* sequence of atomic appends.                                             *)
THEOREM Refinement == Spec => ImplementsPort
<1>1. Init => Port!Init
  BY DEF Init, Port!Init, NoRow
<1> QED BY <1>1, Invariance, NextImplementsPort, PTL DEF Spec, ImplementsPort, Port!Spec
=============================================================================
