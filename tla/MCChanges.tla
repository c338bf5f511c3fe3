----------------------------- MODULE MCChanges -----------------------------
(* One proposal of a Tier 1 surface, two operators and two engineers.      *)
EXTENDS Changes, TLC

CONSTANTS p1, o1, o2, e1, e2, a1, a2

TierOne == [x \in {p1} |-> 1]
Anyone == Permutations({o1, o2}) \cup Permutations({e1, e2})
          \cup Permutations({a1, a2})
=============================================================================
