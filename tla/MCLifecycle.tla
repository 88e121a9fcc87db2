----------------------------- MODULE MCLifecycle -----------------------------
(* Small instances of Lifecycle for TLC: the goroutines of one process, or *)
(* one goroutine in each of two.                                           *)
EXTENDS LifecycleProperties, TLC

CONSTANTS r1, r2, w1, w2

OneHost == [w \in Workers |-> r1]
TwoHosts == w1 :> r1 @@ w2 :> r2

(* Users, sandboxes and the goroutines of one process are interchangeable: *)
(* no operator singles one out.  Used by runs without liveness only.       *)
Symmetry == Permutations(Sandboxes) \cup Permutations(Users) \cup Permutations(Workers)
===============================================================================
