------------------------- MODULE GovernedAggregate -------------------------
(***************************************************************************)
(* What every governed aggregate of the system promises, whatever its      *)
(* service and its tables are: each item has a history of immutable        *)
(* revisions that only grows, by one legal status transition at a time,    *)
(* and a journal (its stream in the event store) that tells this history   *)
(* in its order, never ahead of it, never with a revision that was not     *)
(* committed and never with a hole.  History and journal are written by    *)
(* separate transactions, so the journal may lag.                          *)
(* MemoryPlane (memories) and SemanticMemory (claims) implement it.        *)
(***************************************************************************)
EXTENDS Naturals, Sequences

CONSTANTS Ids,       \* the items
          Revisions, \* what a revision may be: records with a field status
          Starts,    \* the statuses an item may be created in
          Legal      \* the legal transitions, a set of pairs of statuses

VARIABLES history, journal

vars == <<history, journal>>

(* Items may be there, created and journalled, before we start to look.    *)
Init == /\ history \in [Ids -> {<<>>} \cup
                              {<<r>> : r \in {x \in Revisions : x.status \in Starts}}]
        /\ journal = history

Create(i, r) == /\ history[i] = <<>>
                /\ r.status \in Starts
                /\ history' = [history EXCEPT ![i] = <<r>>]
                /\ UNCHANGED journal

Advance(i, r) == /\ history[i] # <<>>
                 /\ <<history[i][Len(history[i])].status, r.status>> \in Legal
                 /\ history' = [history EXCEPT ![i] = Append(@, r)]
                 /\ UNCHANGED journal

Tell(i) == /\ Len(journal[i]) < Len(history[i])
           /\ journal' = [journal EXCEPT
                            ![i] = Append(@, history[i][Len(@) + 1])]
           /\ UNCHANGED history

Next == \E i \in Ids : \/ \E r \in Revisions : Create(i, r) \/ Advance(i, r)
                       \/ Tell(i)

Spec == Init /\ [][Next]_vars
=============================================================================
