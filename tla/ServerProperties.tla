--------------------------- MODULE ServerProperties ---------------------------
(***************************************************************************)
(* What must be true of ControlServer.                                     *)
(***************************************************************************)
EXTENDS ControlServer

(* Every variable has its type. *)
TypeOK ==
    /\ status \in [Users -> {"none", "running", "suspended", "failed"}]
    /\ activity \in [Users -> Row]
    /\ sess \in [Conns -> Session]
    /\ wsManager \in [Users -> Nat]
    /\ review \in [Reviews -> Review]
    /\ task \in [Reviews -> Tasks]
    /\ chatting \subseteq Users
    /\ reaper \in [pc : {"wait", "scan", "suspend"}, todo : SUBSET Users, user : SUBSET Users]

(* The sessions whose handler runs between addWS(1) and addWS(-1). *)
Counted(u) == {c \in Conns : Owner[c] = u /\ sess[c].admin \in {"read", "wait"}}

(* The count of the process is the number of its sessions, and so is the   *)
(* one in the store from this process's first report to the row: Delete    *)
(* drops the row under open sessions, a crash leaves the count of sessions *)
(* that are gone, and the next session that opens or closes puts it right  *)
(* (server.go:377-385).                                                    *)
CountIsExact ==
    \A u \in Users :
        /\ wsManager[u] = Cardinality(Counted(u))
        /\ activity[u].set => activity[u].conns = Cardinality(Counted(u))

(* The reaper makes up its mind to suspend a user only if no session of    *)
(* his is open and he has done nothing for the timeout, unless the row was *)
(* dropped under the session.  (Between this and the suspension he may     *)
(* come back: nothing in the code prevents that.)                          *)
CondemnsOnlyTheIdle ==
    [][\A u \in Users : reaper'.user = {u} /\ reaper.user = {} =>
          /\ activity[u].age = IdleTimeout
          /\ activity[u].set => Counted(u) = {}]_vars

(* The output of an agent that works for a client who has gone is not      *)
(* waited for, but a handler never outlives its client for ever, wherever  *)
(* in the chain of three processes the session is: the close message makes *)
(* its way down and the closing of the connections its way up.             *)
SessionEnds ==
    \A c \in Conns : sess[c].admin # "none" /\ ~sess[c].client ~> sess[c].admin = "none"

(* A used instance that everybody has left does not run for ever           *)
(* (docs/architecture.md:155), also when sessions were cut off on the way, *)
(* when the gateway restarted or the row was dropped in between.  What     *)
(* keeps it alive is an administrator who sets its model again and again,  *)
(* a process that crashes again and again before its reaper comes round,   *)
(* and the count that a crashed process has left in PostgreSQL.            *)
Abandoned(u) ==
    /\ activity[u].conns > 0 => activity[u].set
    /\ status[u] = "running" /\ activity[u].present /\ u \notin chatting
    /\ \A c \in Conns : Owner[c] = u => ~sess[c].client

AbandonedIsSuspended ==
    \A u \in Users :
        \/ []<>~Abandoned(u)
        \/ []<><<activity'[u].age < activity[u].age>>_vars
        \/ []<><<Crash>>_vars

(* A review that was accepted comes to a verdict, unless its task is lost: *)
(* with its process, or to its time-out if the store is PostgreSQL; the    *)
(* review then stays pending or running for ever (reviews.go:71).          *)
ReviewEnds ==
    \A v \in Reviews : review[v].status \in {"pending", "running"} ~>
        review[v].status \in {"completed", "failed", "none"} \/ task[v] = "lost"
===============================================================================
