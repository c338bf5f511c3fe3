------------------------ MODULE MCPostgresEventStore ------------------------
(* Two callers that race on two streams, with batches of one and           *)
(* two events, repeated ids, a wrong type and versions that do not fit.    *)
EXTENDS PostgresEventStore

CONSTANTS w1, w2, s1, s2, e1, e2, e3, e4

E(s, t, i, v) == [stream |-> s, type |-> t, id |-> i, version |-> v]

(* Races: one and two event batches at versions 1 and 2, each id usable on *)
(* either stream, so that claims, id collisions and deadlocks all occur.   *)
RaceBatches ==
  {<<E(s1, "run", e1, 1)>>, <<E(s1, "run", e2, 2)>>,
   <<E(s1, "run", e1, 1), E(s1, "run", e2, 2)>>,
   <<E(s2, "run", e2, 1), E(s2, "run", e1, 2)>>,
   <<E(s2, "run", e3, 1)>>,
   <<E(s1, "tool", e4, 1)>>}

(* The shapes validate_event_batch refuses.                                *)
MalformedBatches ==
  {<<>>, <<E(s1, "run", e1, 1), E(s2, "run", e2, 2)>>,
   <<E(s1, "run", e1, 1), E(s1, "run", e1, 2)>>,
   <<E(s1, "run", e1, 1), E(s1, "tool", e2, 2)>>,
   <<E(s1, "run", e1, 1), E(s1, "run", e2, 3)>>,
   <<E(s1, "run", e1, 1), E(s1, "run", e2, 2), E(s1, "run", e3, 3)>>}

AllBatches == RaceBatches \cup MalformedBatches
=============================================================================
