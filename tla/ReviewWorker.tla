----------------------------- MODULE ReviewWorker -----------------------------
(***************************************************************************)
(* services.ReviewWorker over the review table of db.Store: Submit stores  *)
(* a pending review and starts a goroutine, the task, that scans a local   *)
(* directory.  What the scan finds is a single value here.                 *)
(***************************************************************************)
EXTENDS StoreKinds

CONSTANT Reviews     \* review ids (bound: how many are submitted)

VARIABLES
    review,          \* [Reviews -> Review], status "none" when there is no row
    task             \* [Reviews -> Tasks]: the goroutine that runs the review

reviewVars == <<review, task>>

Review == [status : {"none", "pending", "running", "completed", "failed"}, findings : BOOLEAN]

(* lost: the goroutine ended with its process, or could write no more; only *)
(* properties tell this from off.                                          *)
Tasks == {"off", "start", "stat", "scan", "found", "refused", "lost"}

NoReview == [status |-> "none", findings |-> FALSE]

ReviewInit ==
    /\ review = [v \in Reviews |-> NoReview]
    /\ task = [v \in Reviews |-> "off"]

(* A failing model lookup only leaves the model's name unknown. *)
Submit(v) ==
    /\ review[v] = NoReview /\ task[v] = "off"
    /\ review' = [review EXCEPT ![v].status = "pending"]
    /\ task' = [task EXCEPT ![v] = "start"]

(* set: the row is read and written back, if it is still there. *)
Set(v, status, findings) ==
    review' = IF review[v] = NoReview THEN review
              ELSE [review EXCEPT ![v] = [status |-> status, findings |-> findings]]

Run(v, from, to) ==
    /\ task[v] = from
    /\ task' = [task EXCEPT ![v] = to]

MarkRunning(v) == Run(v, "start", "stat") /\ Set(v, "running", FALSE)

(* Only a directory of the local disk can be reviewed. *)
Stat(v) == \E to \in {"scan", "refused"} : Run(v, "stat", to) /\ UNCHANGED review

(* Files that cannot be read are skipped; Walk itself may still fail. *)
ScanRepo(v) == \E to \in {"found", "refused"} : Run(v, "scan", to) /\ UNCHANGED review

(* Mutant: an unusable path ends the task without a word. *)
RefuseSilently(v) == Run(v, "refused", "off") /\ UNCHANGED review

Refuse(v) == Run(v, "refused", "off") /\ Set(v, "failed", FALSE)

Complete(v) == Run(v, "found", "off") /\ Set(v, "completed", TRUE)

(* The two minutes of the task's context are over before the verdict:      *)
(* PostgreSQL refuses it, and its error is ignored.  db.Memory knows no    *)
(* deadline.                                                               *)
TimeOut(v) ==
    /\ StoreKind = "postgres"
    /\ \E from \in {"found", "refused"} : Run(v, from, "lost")
    /\ UNCHANGED review

Work(v) == MarkRunning(v) \/ Stat(v) \/ ScanRepo(v) \/ Refuse(v) \/ Complete(v)

(* The process ends with its goroutines. *)
LoseReviews ==
    /\ review' = [v \in Reviews |-> AfterRestart(review[v], NoReview)]
    /\ task' = [v \in Reviews |->
                  IF task[v] = "off" \/ StoreKind = "memory" THEN "off" ELSE "lost"]
===============================================================================
