------------------------- MODULE LifecycleProperties -------------------------
(***************************************************************************)
(* What must be true of Lifecycle.  The properties that hold whatever the  *)
(* environment does, or under the faults a run enables, come first; then   *)
(* the statements of the repository that the code does not keep.           *)
(***************************************************************************)
EXTENDS Lifecycle

(* Every variable has its type. *)
TypeOK ==
    /\ record \in [Users -> Instance]
    /\ route \in [Users -> SandboxOrNone]
    /\ sandbox \in [Sandboxes -> {"absent", "running", "paused"}]
    /\ owner \in [Sandboxes -> UserOrNone]
    /\ model \in [Sandboxes -> Models]
    /\ sbxs \in [Replicas -> [Users -> SandboxOrNone]]
    /\ cache \in [Replicas -> SUBSET Users]
    /\ lock \in [Replicas -> Workers \cup {NoWorker}]
    /\ pc \in [Workers -> Labels]
    /\ job \in [Workers -> Job]

(* No request about u is under way. *)
Quiet(u) == \A w \in Workers : pc[w] \in Locked => job[w].user # u

(* An override, and with it the user's credentials, is held only while the *)
(* store says the instance runs: whatever the interleaving and wherever an *)
(* operation fails, Suspend and Delete have dropped it before they change  *)
(* the record (manager.go:133-137, 197-198).                               *)
OverrideOnlyWhileRunning ==
    \A r \in Replicas : \A u \in cache[r] : record[u].status = "running"

(* The provider's map knows every living sandbox, so Stop and Delete reach *)
(* it: no failing or retried Create, Wake or Delete orphans a sandbox.     *)
NoSandboxLeaked ==
    \A s \in Sandboxes :
        Live(s) => \E r \in Replicas : \E u \in Users : sbxs[r][u] = s /\ owner[s] = u

(* Between requests the record agrees with the sandboxes: a suspended user *)
(* has none running (it would go on costing), and the sandbox of a running *)
(* record is the one Stop would stop, running unless it died by itself.    *)
StatusMatchesSandbox ==
    \A u \in Users : Quiet(u) =>
        /\ record[u].status = "suspended" =>
              \A s \in Sandboxes : owner[s] = u => sandbox[s] # "running"
        /\ record[u].status = "running" =>
              /\ sandbox[record[u].endpoint] # "paused"
              /\ \E r \in Replicas : sbxs[r][u] = record[u].endpoint

(* The hot cache never claims a model the agent does not run: when an      *)
(* override is cached, the agent of the recorded sandbox has received it.  *)
CachedOverrideReachedAgent ==
    \A r \in Replicas : \A u \in cache[r] :
        Live(record[u].endpoint) => model[record[u].endpoint] = "override"

(* A running instance the provider knows is reachable: once no request of  *)
(* its user is under way, the gateway routes it to the recorded endpoint,  *)
(* whatever write failed, was lost or was cut off by a crash or by the     *)
(* client's disconnection.                                                 *)
RunningIsRouted ==
    \A u \in Users : \A r \in Replicas :
        Quiet(u) /\ record[u].status = "running" /\ sbxs[r][u] = record[u].endpoint
            => route[u] = record[u].endpoint

(* A Create, or a Wake of a suspended instance, fails only because a call  *)
(* it made failed: no state that earlier requests, failures and restarts   *)
(* leave behind makes it fail by itself.                                   *)
FailsOnlyByFault ==
    \A w \in Workers :
        pc[w] = "reply" /\ (job[w].op = "create" \/ (job[w].op = "wake" /\ job[w].from = "suspended"))
            => job[w].res # "error"

(* When Delete answers that it is done, nothing of the user is left alive: *)
(* no sandbox, no record, no credentials, no route to a living agent.      *)
DeleteLeavesNothing ==
    [][\A w \in Workers :
         pc[w] \in Locked /\ job[w].op = "delete" /\ job'[w].res = "ok" =>
             LET u == job[w].user
             IN /\ \A s \in Sandboxes : owner'[s] # u
                /\ record'[u].status = "none"
                /\ \A r \in Replicas : u \notin cache'[r]
                /\ route'[u] \notin {s \in Sandboxes : sandbox'[s] # "absent"}]_vars

(* The Manager implements the abstract lifecycle. *)
Abstract == INSTANCE InstanceLifecycle WITH
    status <- [u \in Users |-> record[u].status],
    override <- UNION {cache[r] : r \in Replicas}

ImplementsLifecycle == Abstract!Spec

(* The mutex of every replica is always free again for the next request:  *)
(* every path through every operation returns and unlocks, also when calls *)
(* fail and clients go away.                                               *)
MutexAlwaysFreed == \A r \in Replicas : []<>(lock[r] = NoWorker)

-------------------------------------------------------------------------------
(* Statements of the repository that the code does not keep. *)

(* docs/architecture.md:94 and :154: Create of a failed instance cleans up *)
(* and rebuilds it; the failure can be retried.                            *)
FailedCanBeRecreated ==
    \A w \in Workers :
        pc[w] = "reply" /\ job[w].op = "create" /\ job[w].from = "failed"
            => job[w].res # "error"

(* cmd/admin/main.go:120: a restarted control plane recovers which sandbox *)
(* belongs to which user, so a suspended instance can still be woken.      *)
SuspendedCanBeWoken ==
    \A w \in Workers :
        pc[w] = "reply" /\ job[w].op = "wake" /\ job[w].from = "suspended"
            => job[w].res # "error"

(* docs/architecture.md:154: a failing Create or Wake cleans up after      *)
(* itself before the instance is recorded as failed.                       *)
FailedIsCleanedUp ==
    \A u \in Users : Quiet(u) /\ record[u].status = "failed" =>
        \A s \in Sandboxes : owner[s] = u => sandbox[s] # "running"

(* README.md:277 of cloud-backend: with shared stores the control plane is *)
(* ready for several replicas, so it does not matter which one a request   *)
(* reaches: an instance that is suspended has no running sandbox.          *)
AnyReplicaCanSuspend ==
    \A u \in Users : Quiet(u) /\ record[u].status = "suspended" =>
        \A s \in Sandboxes : owner[s] = u => sandbox[s] # "running"
===============================================================================
