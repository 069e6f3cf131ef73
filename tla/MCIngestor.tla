------------------------------ MODULE MCIngestor ------------------------------
(* Instances of the ingestor small enough for TLC. *)
EXTENDS Ingestor, TLC

CONSTANTS m, w1, w2, g1, g2, p1, u1, q1

TwoWorkers == Permutations({w1, w2})
==============================================================================
