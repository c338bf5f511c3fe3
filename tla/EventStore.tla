----------------------------- MODULE EventStore -----------------------------
(***************************************************************************)
(* What EventStorePort promises the rest of Cognitive OS: every stream is  *)
(* an append-only log, a batch is added whole or not at all and directly   *)
(* after the stream's last version, a stream never changes its type, and   *)
(* no event id is stored twice.  Every durable plane of the runtime rests  *)
(* on this contract; PostgresEventStore is shown to implement it.          *)
(***************************************************************************)
EXTENDS Integers

CONSTANTS Streams, StreamTypes, EventIds, MaxBatch, NoType

VARIABLES stored,       \* the events that can be read: [stream, version, id]
          version,      \* version[s]: the version of the last event of s
          streamType    \* streamType[s]: NoType before the first append

vars == <<stored, version, streamType>>

Init ==
  /\ stored = {}
  /\ version = [s \in Streams |-> 0]
  /\ streamType = [s \in Streams |-> NoType]

(* One successful append of the ids ids[1], ids[2], ... to stream s.       *)
Append(s, type, ids) ==
  /\ streamType[s] \in {NoType, type}
  /\ \A i, j \in DOMAIN ids : ids[i] = ids[j] => i = j
  /\ \A i \in DOMAIN ids, r \in stored : r.id # ids[i]
  /\ stored' = stored \cup {[stream |-> s, version |-> version[s] + i, id |-> ids[i]]
                              : i \in DOMAIN ids}
  /\ \E n \in 1..MaxBatch : /\ DOMAIN ids = 1..n
                            /\ version' = [version EXCEPT ![s] = @ + n]
  /\ streamType' = [streamType EXCEPT ![s] = type]

Next ==
  \E s \in Streams, type \in StreamTypes :
    \E n \in 1..MaxBatch : \E ids \in [1..n -> EventIds] : Append(s, type, ids)

Spec == Init /\ [][Next]_vars
=============================================================================
