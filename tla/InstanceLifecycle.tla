-------------------------- MODULE InstanceLifecycle --------------------------
(***************************************************************************)
(* What the lifecycle of an instance promises (docs/architecture.md,       *)
(* section 2, and the comment of db.InstanceStatus), as a specification of *)
(* its own: the status machine, and the user's model override, which lives *)
(* only while the instance runs and is gone before it is suspended or      *)
(* removed.                                                                *)
(***************************************************************************)
CONSTANT Users

VARIABLES
    status,      \* [Users -> {"none", "running", "suspended", "failed"}]
    override     \* SUBSET Users: a model override with its credentials is held

vars == <<status, override>>

Init ==
    /\ status = [u \in Users |-> "none"]
    /\ override = {}

Become(u, s) == status' = [status EXCEPT ![u] = s]

(* None -> Running, and the rebuilding of a failed instance. *)
Provision(u) ==
    /\ status[u] \in {"none", "failed"}
    /\ Become(u, "running")
    /\ UNCHANGED override

(* Running -> Suspended, once the override has been dropped. *)
Suspend(u) ==
    /\ status[u] = "running" /\ u \notin override
    /\ Become(u, "suspended")
    /\ UNCHANGED override

Wake(u) ==
    /\ status[u] \in {"suspended", "failed"}
    /\ Become(u, "running")
    /\ UNCHANGED override

(* A failing creation or wake-up; a running instance never turns failed. *)
Fail(u) ==
    /\ status[u] # "running"
    /\ Become(u, "failed")
    /\ UNCHANGED override

Remove(u) ==
    /\ u \notin override
    /\ Become(u, "none")
    /\ UNCHANGED override

(* The user switches the model of a running instance. *)
Override(u) ==
    /\ status[u] = "running"
    /\ override' = override \cup {u}
    /\ UNCHANGED status

(* Suspended, removed or expired: the override is dropped. *)
Drop(u) ==
    /\ override' = override \ {u}
    /\ UNCHANGED status

(* A restart loses every override, and the table too if it was in memory. *)
Restart ==
    /\ override' = {}
    /\ status' \in {status, [u \in Users |-> "none"]}

Next ==
    \/ \E u \in Users : \/ Provision(u) \/ Suspend(u) \/ Wake(u) \/ Fail(u)
                        \/ Remove(u) \/ Override(u) \/ Drop(u)
    \/ Restart

Spec == Init /\ [][Next]_vars
===============================================================================
