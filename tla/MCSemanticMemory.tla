------------------------- MODULE MCSemanticMemory --------------------------
(* Two claims, of which one is there already and the other may be stated   *)
(* so that it contradicts the first or not, a critical contradiction about *)
(* the first and an observation; two workers.                              *)
EXTENDS SemanticMemory, TLC

CONSTANTS a, b, k, o, w1, w2, x, y, z

Stated == [i \in {a, b, k, o} |-> CASE i = a -> {x} [] i = b -> {y, z} [] OTHER -> {x}]
Apart == {<<x, z>>, <<z, x>>}
Equal == {<<x, x>>, <<y, y>>, <<z, z>>}
AnyWorker == Permutations({w1, w2})
AboutA == [i \in {k} |-> {a}]
StartOf == [i \in {a, b, k, o} |->
              CASE i = k -> "candidate" [] i = o -> "recorded" [] OTHER -> "proposed"]
=============================================================================
