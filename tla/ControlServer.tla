---------------------------- MODULE ControlServer ----------------------------
(***************************************************************************)
(* The control-plane process as controlplane.Server.Run and the handlers   *)
(* make it, over a db.Store: the idle reaper, the WebSocket sessions, the   *)
(* REST chats and the reviews run concurrently with the lifecycle          *)
(* requests of administrators.  A lifecycle operation of the Manager is    *)
(* one step of InstanceLifecycle, which Lifecycle implements: it holds     *)
(* Manager.mu from beginning to end, and no one here looks inside.         *)
(***************************************************************************)
EXTENDS SessionRelay, ReviewWorker

VARIABLES
    chatting,        \* SUBSET Users: a REST chat of the user is at the agent
    reaper           \* [pc, todo, user]: Reaper.Run

vars == <<status, activity, sess, wsManager, review, task, chatting, reaper>>

(* The overrides are dropped inside the operations and not seen from here. *)
Manager == INSTANCE InstanceLifecycle WITH override <- {}

NoScan == [pc |-> "wait", todo |-> {}, user |-> {}]

Init ==
    /\ Manager!Init
    /\ ActivityInit /\ RelayInit /\ ReviewInit
    /\ chatting = {}
    /\ reaper = NoScan

-------------------------------------------------------------------------------
(* The requests of administrators. *)

(* Create, Wake and Suspend; a Create or Wake may fail. *)
Administer(u) == Manager!Provision(u) \/ Manager!Wake(u) \/ Manager!Suspend(u) \/ Manager!Fail(u)

(* DeleteInstance deletes the activity row as well. *)
Delete(u) == Manager!Remove(u) /\ DeleteActivity(u)

(* SetModelConfig of a running instance. *)
SetModelConfig(u) == status[u] = "running" /\ TouchActivity(u)

(* Manager.Chat checks the status, then waits for the agent. *)
ChatBegin(u) ==
    /\ status[u] = "running" /\ u \notin chatting
    /\ chatting' = chatting \cup {u}

(* Only the end of a chat counts as activity, and only if it succeeded. *)
ChatEnd(u) ==
    /\ u \in chatting
    /\ chatting' = chatting \ {u}
    /\ TouchActivity(u) \/ UNCHANGED activity

-------------------------------------------------------------------------------
(* Reaper.Run.  The scan reads without Manager.mu, so anything may happen  *)
(* between its steps.  List is sorted by user; the order does not matter.  *)

Scan(pc, todo, user) == reaper' = [pc |-> pc, todo |-> todo, user |-> user]

List ==
    /\ reaper.pc = "wait"
    /\ Scan("scan", {u \in Users : status[u] = "running"}, {})

(* Mutant: the sessions of the user are not looked at. *)
MaySuspendByAge(act) == act.age >= IdleTimeout

MaySuspend(act) == act.conns <= 0 /\ act.age >= IdleTimeout

Inspect(u) ==
    /\ reaper.pc = "scan" /\ u \in reaper.todo
    /\ IF MaySuspend(GetActivity(u))
       THEN Scan("suspend", reaper.todo \ {u}, {u})
       ELSE Scan("scan", reaper.todo \ {u}, {})

(* Mutant: the reaper returns on the first Suspend that fails. *)
ReapReturns(u) ==
    /\ reaper.pc = "suspend" /\ u \in reaper.user
    /\ \/ Manager!Suspend(u) /\ Scan("scan", reaper.todo, {})
       \/ status[u] # "running" /\ UNCHANGED status /\ Scan("returned", {}, {})

(* Suspend refuses an instance that does not run any more. *)
Reap(u) ==
    /\ reaper.pc = "suspend" /\ u \in reaper.user
    /\ Manager!Suspend(u) \/ (status[u] # "running" /\ UNCHANGED status)
    /\ Scan("scan", reaper.todo, {})

EndScan ==
    /\ reaper.pc = "scan" /\ reaper.todo = {}
    /\ Scan("wait", {}, {})

Reaping ==
    \/ List \/ EndScan
    \/ \E u \in Users : Inspect(u)

-------------------------------------------------------------------------------
(* The process dies: its connections break, its goroutines are gone, and   *)
(* the store if it is db.Memory.                                           *)
Crash ==
    /\ status' = [u \in Users |-> AfterRestart(status[u], "none")]
    /\ ActivityAfterRestart
    /\ wsManager' = [u \in Users |-> 0]
    /\ sess' = [c \in Conns |-> [sess[c] EXCEPT !.client = FALSE, !.admin = "none",
                                                !.adminPump = FALSE]]
    /\ LoseReviews
    /\ chatting' = {}
    /\ reaper' = NoScan

ReviewNext == \E v \in Reviews : Submit(v) \/ Work(v) \/ TimeOut(v)

Next ==
    \/ RelayNext /\ UNCHANGED <<status, review, task, chatting, reaper>>
    \/ ReviewNext /\ UNCHANGED <<status, activity, sess, wsManager, chatting, reaper>>
    \/ \E u \in Users :
         \/ Administer(u) /\ UNCHANGED <<activity, sess, wsManager, review, task, chatting, reaper>>
         \/ Delete(u) /\ UNCHANGED <<sess, wsManager, review, task, chatting, reaper>>
         \/ SetModelConfig(u) /\ UNCHANGED <<status, sess, wsManager, review, task, chatting, reaper>>
         \/ ChatBegin(u) /\ UNCHANGED <<status, activity, sess, wsManager, review, task, reaper>>
         \/ ChatEnd(u) /\ UNCHANGED <<status, sess, wsManager, review, task, reaper>>
         \/ Reap(u) /\ UNCHANGED <<activity, sess, wsManager, review, task, chatting>>
    \/ Reaping /\ UNCHANGED <<status, activity, sess, wsManager, review, task, chatting>>
    \/ Tick /\ UNCHANGED <<status, sess, wsManager, review, task, chatting, reaper>>
    \/ Crash

Spec == Init /\ [][Next]_vars

(* Goroutines are scheduled, the ticker of the reaper fires, time passes,  *)
(* and the agent answers what it is asked.  Clients, administrators and    *)
(* faults need never act.                                                  *)
Fairness ==
    /\ \A c \in Conns : WF_vars(Advance(c) /\ UNCHANGED <<status, review, task, chatting, reaper>>)
    /\ \A v \in Reviews :
         WF_vars(Work(v) /\ UNCHANGED <<status, activity, sess, wsManager, chatting, reaper>>)
    /\ WF_vars(\/ Reaping /\ UNCHANGED <<status, activity, sess, wsManager, review, task, chatting>>
               \/ \E u \in Users :
                    Reap(u) /\ UNCHANGED <<activity, sess, wsManager, review, task, chatting>>)
    /\ WF_vars(Tick /\ UNCHANGED <<status, sess, wsManager, review, task, chatting, reaper>>)

LiveSpec == Spec /\ Fairness
===============================================================================
