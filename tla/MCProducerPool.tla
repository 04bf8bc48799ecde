--------------------------- MODULE MCProducerPool ---------------------------
(* Model-checking instances of ProducerPool.                               *)
EXTENDS ProducerPool, TLC

Symmetry == Permutations(Requests) \cup Permutations(Topics)

============================================================================
