--------------------------- MODULE MCMemoryPlane ---------------------------
(* Two memories, created together or alone, and two workers.               *)
EXTENDS MemoryPlane, TLC

CONSTANTS m1, m2, w1, w2

TwoBatches == {<<m1, m2>>, <<m2>>}
TwoQueries == {{"verified"}, {"candidate", "verified"}}
OneBatch == {<<m1>>}
=============================================================================
