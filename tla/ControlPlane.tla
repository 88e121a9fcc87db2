----------------------------- MODULE ControlPlane -----------------------------
(***************************************************************************)
(* The vocabulary shared by the modules of the control plane: who asks     *)
(* (Users), where a request runs (a goroutine of Workers on a replica of   *)
(* Replicas), what is provisioned (Sandboxes), which store is configured   *)
(* (cmd/admin/main.go, -store) and which faults the environment may inject.*)
(* An endpoint returned by the E2B provider is a function of the sandbox   *)
(* id, so the sandbox itself stands for its endpoint.                      *)
(***************************************************************************)

CONSTANTS
    Users,       \* user ids that passed ValidateUserID
    Sandboxes,   \* sandbox ids (bound: how many may exist at one time)
    Replicas,    \* control-plane processes
    Workers,     \* goroutines serving lifecycle requests
    Host,        \* [Workers -> Replicas]: the process a goroutine runs in
    StoreKind,   \* "memory" (db.Memory) or "postgres" (db.Postgres)
    Faults,      \* the failures the environment may inject
    NoUser, NoSandbox, NoWorker

(* Failures of one remote call.  A "lost" fault took effect although the   *)
(* caller saw an error.                                                    *)
CallFaults == {"read", "write", "lostWrite",            \* PostgreSQL
               "create", "lostCreate", "notReady",      \* sandbox-manager
               "connect", "pause", "kill",
               "register", "unregister", "inject"}      \* cloud-gateway

(* Failures that strike between two calls. *)
Events == {"crash", "gatewayRestart", "sandboxDies", "disconnect", "expire"}

ASSUME ConstantsAssumption ==
    /\ StoreKind \in {"memory", "postgres"}
    /\ Faults \subseteq CallFaults \cup Events
    /\ Host \in [Workers -> Replicas]
    /\ StoreKind = "memory" => \A r1, r2 \in Replicas : r1 = r2
    /\ NoUser \notin Users
    /\ NoSandbox \notin Sandboxes
    /\ NoWorker \notin Workers

SandboxOrNone == Sandboxes \cup {NoSandbox}
UserOrNone == Users \cup {NoUser}
===============================================================================
