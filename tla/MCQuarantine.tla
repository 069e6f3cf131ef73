----------------------------- MODULE MCQuarantine -----------------------------
(* Three images; a and a2 differ in sectors that are not active. *)
EXTENDS Quarantine, TLC

CONSTANTS a, a2, b

Actives == a :> 1 @@ a2 :> 1 @@ b :> 2

Symmetry == Permutations(Paths) \cup Permutations({a, a2})
==============================================================================
