-------------------------------- MODULE MCAcp --------------------------------
(* Small instances of AcpServer for TLC. *)
EXTENDS AcpProperties, TLC

(* Goroutines are interchangeable; processes are taken in an order, and    *)
(* session keys and configurations differ.  Used without liveness only.    *)
Symmetry == Permutations(Callers)
===============================================================================
