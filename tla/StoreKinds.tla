------------------------------ MODULE StoreKinds ------------------------------
(***************************************************************************)
(* The two implementations of db.Store (cmd/admin/main.go, -store): what a *)
(* restart of the control plane leaves of a table.  Calls of the store are *)
(* atomic in both, and here they always answer.                            *)
(***************************************************************************)
CONSTANT StoreKind   \* "memory" (db.Memory) or "postgres" (db.Postgres)

ASSUME StoreAssumption == StoreKind \in {"memory", "postgres"}

AfterRestart(table, empty) == IF StoreKind = "memory" THEN empty ELSE table
===============================================================================
