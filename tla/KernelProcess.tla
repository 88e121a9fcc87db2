---------------------------- MODULE KernelProcess ----------------------------
(***************************************************************************)
(* The qwenpaw acp child processes and their pipes, as pkg/agentengine/    *)
(* qwenpaw/acp.go uses them: lines of JSON-RPC written to stdin, lines     *)
(* read from stdout in order by the readLoop of that process.  The kernel  *)
(* itself is external: it answers each request once, in any order, may     *)
(* first ask for a permission, and may die at any time.                    *)
(***************************************************************************)
EXTENDS Naturals, Sequences

CONSTANTS
    Procs,       \* child processes (bound: how many can ever be spawned)
    NoProc,
    Callers,     \* goroutines of agent-runtime that serve a request
    NoSid,
    Events       \* what the environment may do: see AcpServer

VARIABLES
    child,       \* [Procs -> {"unborn", "running", "dead", "reaped"}]
    inbox,       \* [Procs -> SUBSET Request]: written, not yet answered
    stdout,      \* [Procs -> Seq(Message)]: answered, not yet dispatched
    closed,      \* SUBSET Sid: sessions the kernel has closed
    greeted      \* SUBSET Procs: processes that have answered initialize

processVars == <<child, inbox, stdout, closed, greeted>>

Method == {"init", "new", "mode", "prompt", "close"}

(* The kernel names a session; the name tells which process made it. *)
Sid == [proc : Procs, n : Nat]

Request == [id : Nat, by : Callers, method : Method, sid : Sid \cup {NoSid},
            stage : {"sent", "asking", "told"}]

(* id is the id on the wire; by, which the kernel does not send, remembers *)
(* who asked.                                                              *)
Message == [kind : {"answer", "error", "gone", "update", "permission"},
            id : Nat, by : Callers, sid : Sid \cup {NoSid}]

ProcessInit ==
    /\ child = [p \in Procs |-> "unborn"]
    /\ inbox = [p \in Procs |-> {}]
    /\ stdout = [p \in Procs |-> <<>>]
    /\ closed = {}
    /\ greeted = {}

Running(p) == p \in Procs /\ child[p] = "running"

(* spawnACPProcess *)
Launch(p) ==
    /\ child[p] = "unborn"
    /\ child' = [child EXCEPT ![p] = "running"]
    /\ UNCHANGED <<inbox, stdout, closed, greeted>>

(* proc.stdin.Write: a write to a process that has exited is EPIPE.        *)
Deliver(p, r) ==
    /\ Running(p)
    /\ inbox' = [inbox EXCEPT ![p] = @ \cup {r}]
    /\ UNCHANGED <<child, stdout, closed, greeted>>

(* What is still in the pipe when it is closed is lost, except for the     *)
(* lines the reader's buffer already holds.                                *)
Truncate(p) == \E n \in 0 .. Len(stdout[p]) :
                   stdout' = [stdout EXCEPT ![p] = SubSeq(@, 1, n)]

(* The process is interrupted, waited for and its pipes are closed. *)
Terminate(p) ==
    /\ child' = [child EXCEPT ![p] = "reaped"]
    /\ inbox' = [inbox EXCEPT ![p] = {}]
    /\ Truncate(p)
    /\ UNCHANGED <<closed, greeted>>

(* A session is known to the process that made it until it is closed. *)
KnownSession(p, sid) == sid # NoSid /\ sid.proc = p /\ sid \notin closed

Write(p, messages) == stdout' = [stdout EXCEPT ![p] = @ \o messages]

Say(kind, r, sid) == [kind |-> kind, id |-> r.id, by |-> r.by, sid |-> sid]

(* The answers of the kernel. *)
AnswerPlain(p, r) ==
    /\ r.method \in {"init", "mode"}
    /\ Write(p, <<Say("answer", r, NoSid)>>)
    /\ greeted' = IF r.method = "init" THEN greeted \cup {p} ELSE greeted
    /\ UNCHANGED closed

AnswerNew(p, r) ==
    /\ r.method = "new"
    /\ Write(p, <<Say("answer", r, [proc |-> p, n |-> r.id])>>)
    /\ UNCHANGED <<closed, greeted>>

AnswerClose(p, r) ==
    /\ r.method = "close"
    /\ closed' = closed \cup {r.sid}
    /\ Write(p, <<Say("answer", r, NoSid)>>)
    /\ UNCHANGED greeted

(* A prompt yields at least one session/update, then its answer. *)
AnswerPrompt(p, r) ==
    /\ r.method = "prompt" /\ r.stage # "asking"
    /\ Write(p, IF KnownSession(p, r.sid)
                THEN <<Say("update", r, r.sid), Say("answer", r, NoSid)>>
                ELSE <<Say("error", r, NoSid)>>)
    /\ UNCHANGED <<closed, greeted>>

Answer(p, r) ==
    /\ Running(p) /\ r \in inbox[p]
    /\ inbox' = [inbox EXCEPT ![p] = @ \ {r}]
    /\ AnswerPlain(p, r) \/ AnswerNew(p, r) \/ AnswerClose(p, r) \/ AnswerPrompt(p, r)
    /\ UNCHANGED child

(* session/request_permission: the prompt waits for the outcome. *)
AskPermission(p, r) ==
    /\ "permission" \in Events
    /\ Running(p) /\ r \in inbox[p]
    /\ r.method = "prompt" /\ r.stage = "sent" /\ KnownSession(p, r.sid)
    /\ inbox' = [inbox EXCEPT ![p] = (@ \ {r}) \cup {[r EXCEPT !.stage = "asking"]}]
    /\ Write(p, <<Say("permission", r, r.sid)>>)
    /\ UNCHANGED <<child, closed, greeted>>

(* The outcome of a permission request reaches the process that reads it.  *)
Tell(p, id) ==
    inbox' = [inbox EXCEPT ![p] =
                 {r \in @ : ~(r.id = id /\ r.stage = "asking")}
                   \cup {[r EXCEPT !.stage = "told"] : r \in {q \in @ : q.id = id /\ q.stage = "asking"}}]

Die(p) ==
    /\ "die" \in Events
    /\ Running(p)
    /\ child' = [child EXCEPT ![p] = "dead"]
    /\ inbox' = [inbox EXCEPT ![p] = {}]
    /\ UNCHANGED <<stdout, closed, greeted>>
===============================================================================
