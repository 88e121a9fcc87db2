---------------------------- MODULE ActivityTable ----------------------------
(***************************************************************************)
(* The activity rows of db.Store: when a user was last active and how many *)
(* WebSocket sessions the control plane reports for him.  A row comes into *)
(* being with the first write.  Time is counted in ticks, of which         *)
(* IdleTimeout make the idle timeout; what is older is just idle.          *)
(***************************************************************************)
EXTENDS StoreKinds, Integers

CONSTANTS
    Users,
    IdleTimeout      \* --idle-timeout, in ticks

ASSUME TimeoutAssumption == IdleTimeout \in Nat \ {0}   \* 0 switches the reaper off

VARIABLE activity    \* [Users -> Row]

(* set: the row holds a count that this process has reported, and neither  *)
(* the default nor what an earlier process left.  Only properties read it. *)
Row == [present : BOOLEAN, age : 0..IdleTimeout, conns : Nat, set : BOOLEAN]

NoRow == [present |-> FALSE, age |-> 0, conns |-> 0, set |-> FALSE]

ActivityInit == activity = [u \in Users |-> NoRow]

TouchActivity(u) ==
    activity' = [activity EXCEPT ![u].present = TRUE, ![u].age = 0]

SetWSConnections(u, n) ==
    activity' = [activity EXCEPT ![u] = [present |-> TRUE, age |-> 0, conns |-> n, set |-> TRUE]]

(* A missing row reads as active right now with no session: NoRow itself.  *)
GetActivity(u) == activity[u]

DeleteActivity(u) == activity' = [activity EXCEPT ![u] = NoRow]

(* PostgreSQL keeps the count of sessions that have ended with the process.*)
ActivityAfterRestart ==
    activity' = [u \in Users |-> AfterRestart([activity[u] EXCEPT !.set = FALSE], NoRow)]

(* time.Since grows, for the rows that are there. *)
Tick ==
    activity' = [u \in Users |->
        IF activity[u].present /\ activity[u].age < IdleTimeout
        THEN [activity[u] EXCEPT !.age = @ + 1] ELSE activity[u]]
===============================================================================
