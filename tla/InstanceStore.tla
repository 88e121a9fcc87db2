---------------------------- MODULE InstanceStore ----------------------------
(***************************************************************************)
(* The instance table behind db.Store: db.Memory, a map under a RWMutex,   *)
(* or db.Postgres, one SQL statement per call.  Each call is atomic in     *)
(* either; they differ in what CreateInstance does to an existing row and  *)
(* in what a restart of the control plane loses.                           *)
(***************************************************************************)
EXTENDS ControlPlane

VARIABLE record      \* [Users -> Instance], status "none" when there is no row

(* db.InstanceStatus; "none" is the absence of a row. *)
Status == {"none", "running", "suspended", "failed"}

(* db.Instance, reduced to the fields some operation reads back. *)
Instance == [status : Status, endpoint : SandboxOrNone, sandboxID : SandboxOrNone]

NoInstance == [status |-> "none", endpoint |-> NoSandbox, sandboxID |-> NoSandbox]

StoreInit == record = [u \in Users |-> NoInstance]

Exists(u) == record[u].status # "none"

(* Mutant: both stores refuse to overwrite a row. *)
InsertRefusedByAnyStore(u) == Exists(u)

(* Memory.CreateInstance overwrites; Postgres.CreateInstance is an INSERT  *)
(* that violates the primary key when the row is there.                    *)
InsertRefused(u) == StoreKind = "postgres" /\ Exists(u)

CreateInstance(u, inst) ==
    /\ ~InsertRefused(u)
    /\ record' = [record EXCEPT ![u] = inst]

(* Both implementations answer ErrNotFound when there is no row. *)
UpdateInstance(u, inst) ==
    /\ Exists(u)
    /\ record' = [record EXCEPT ![u] = inst]

DeleteInstance(u) == record' = [record EXCEPT ![u] = NoInstance]

(* What a new control-plane process finds: db.Memory starts empty. *)
StoreAfterRestart ==
    record' = IF StoreKind = "memory" THEN [u \in Users |-> NoInstance] ELSE record
===============================================================================
