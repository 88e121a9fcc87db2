------------------------------ MODULE AcpServer ------------------------------
(***************************************************************************)
(* pkg/agentengine/qwenpaw/acp.go with engine.go and the prompt mutex of   *)
(* agentruntime/session.go: the goroutines that prompt, open sessions and  *)
(* hot-switch the model over one kernel process, the readLoop and the      *)
(* watchProc of each process, and the process itself.                      *)
(*                                                                         *)
(* One step is one critical section of ACPServer.mu, or one wait for an    *)
(* answer; between two sections any other goroutine may run.               *)
(***************************************************************************)
EXTENDS KernelProcess

CONSTANTS
    Keys,        \* session keys of the runtime; DefaultKey is the first
    DefaultKey,
    Configs,     \* model configurations
    Mock,        \* the one whose base_url is mock://
    Bypass,      \* SUBSET Configs: tool_guard_mode is "bypass"
    NoConfig, NoCaller,
    Ops,         \* the requests that are made: "prompt", "newsession", "sync"
    MaxOps       \* bound: how many requests are made

(* Events: "die" and "permission" of the kernel, "timeout" of a request    *)
(* that has a deadline, "cancel" by the client, "spawn" fails, "stop".     *)
ASSUME AcpAssumption ==
    /\ NoProc \notin Procs /\ NoConfig \notin Configs /\ NoCaller \notin Callers
    /\ NoSid \notin Sid
    /\ DefaultKey \in Keys /\ Bypass \subseteq Configs
    /\ Ops \subseteq {"prompt", "newsession", "sync"}
    /\ Events \subseteq {"die", "permission", "timeout", "cancel", "spawn", "stop"}
    /\ MaxOps \in Nat

VARIABLES
    proc, connected, nextID, pending, handlers, sessions, spawnedCfg,  \* ACPServer
    cfg,         \* ConfigManager.cfg
    activeSess,  \* Engine.activeSess
    promptMu,    \* Session.promptMu: its holder or NoCaller
    pc, loc,     \* each goroutine: where it is, its local variables
    mail,        \* each goroutine: the channel of its request
    reply,       \* each goroutine: the updates its handler has seen
    made         \* how many requests have been made

serverVars == <<proc, connected, nextID, pending, handlers, sessions, spawnedCfg>>
callerVars == <<pc, loc, mail, reply>>
runtimeVars == <<cfg, activeSess, promptMu, made>>
vars == <<processVars, serverVars, callerVars, runtimeVars>>

Labels == Method \cup {"idle", "lock", "ensure", "lookup", "spawn", "connect", "undo", "store",
                       "handle", "wait", "cancel", "unhandle", "failed",
                       "restart", "swap", "forget", "compare", "finish", "halted"}

(* from: the key that was active before.  old: its session.                *)
(* then: where a successful start goes on.  err: the error carried along,  *)
(* "gone" when it wraps errACPTransport.                                   *)
Local == [op : Ops \cup {"none"}, key : Keys, from : Keys, sid : Sid \cup {NoSid}, old : Sid \cup {NoSid},
          method : Method \cup {"none"}, id : Nat, attempt : {1, 2},
          cfg : Configs \cup {NoConfig}, then : {"lookup", "ensure", "finish"},
          err : {"none", "gone", "other"}]

NoLocal == [op |-> "none", key |-> DefaultKey, from |-> DefaultKey, sid |-> NoSid, old |-> NoSid, method |-> "none",
            id |-> 0, attempt |-> 1, cfg |-> NoConfig, then |-> "lookup", err |-> "none"]

NoMail == [kind |-> "none"]
GoneMail == [kind |-> "gone"]

Init ==
    /\ ProcessInit
    /\ proc = NoProc /\ connected = FALSE /\ nextID = 0
    /\ pending = {} /\ handlers = {}
    /\ sessions = [k \in Keys |-> NoSid]
    /\ spawnedCfg = NoConfig
    /\ cfg \in Configs
    /\ activeSess = DefaultKey /\ promptMu = NoCaller
    /\ pc = [c \in Callers |-> "idle"]
    /\ loc = [c \in Callers |-> NoLocal]
    /\ mail = [c \in Callers |-> NoMail]
    /\ reply = [c \in Callers |-> {}]
    /\ made = 0

-------------------------------------------------------------------------------
At(c, label) == pc[c] = label

Goto(c, label) == pc' = [pc EXCEPT ![c] = label]

Move(c, label) == Goto(c, label) /\ UNCHANGED <<loc, mail, reply>>

MoveWith(c, label, l) ==
    /\ Goto(c, label)
    /\ loc' = [loc EXCEPT ![c] = l]
    /\ UNCHANGED <<mail, reply>>

Fail(c, err) == MoveWith(c, "failed", [loc[c] EXCEPT !.err = err])

NoSessions == [k \in Keys |-> NoSid]

(* Mutant: the ids start again with each process. *)
KillLockedResetIds ==
    IF proc = NoProc THEN UNCHANGED <<processVars, serverVars>>
    ELSE /\ Terminate(proc)
         /\ proc' = NoProc /\ connected' = FALSE /\ nextID' = 0
         /\ sessions' = NoSessions /\ handlers' = {}
         /\ UNCHANGED <<pending, spawnedCfg>>

(* killLocked under mu: the current process is forgotten with all that     *)
(* belongs to it, except the pending requests.                             *)
KillLocked ==
    IF proc = NoProc THEN UNCHANGED <<processVars, serverVars>>
    ELSE /\ Terminate(proc)
         /\ proc' = NoProc /\ connected' = FALSE
         /\ sessions' = NoSessions /\ handlers' = {}
         /\ UNCHANGED <<nextID, pending, spawnedCfg>>

-------------------------------------------------------------------------------
(* Requests that reach the runtime. *)

(* Session.Chat: the key is the client's or the active one.  The engine is *)
(* Ready only with a real configuration; the mock engine serves otherwise. *)
BeginPrompt(c, k) ==
    /\ "prompt" \in Ops /\ made < MaxOps
    /\ cfg # Mock
    /\ At(c, "idle")
    /\ made' = made + 1
    /\ Goto(c, "lock")
    /\ loc' = [loc EXCEPT ![c] = [NoLocal EXCEPT !.op = "prompt", !.key = k]]
    /\ reply' = [reply EXCEPT ![c] = {}]
    /\ UNCHANGED <<processVars, serverVars, mail, cfg, activeSess, promptMu>>

(* Mutant: prompts are not serialised. *)
LockShared(c) ==
    /\ At(c, "lock")
    /\ promptMu' = c
    /\ Move(c, "ensure")
    /\ UNCHANGED <<processVars, serverVars, cfg, activeSess, made>>

Lock(c) ==
    /\ At(c, "lock") /\ promptMu = NoCaller
    /\ promptMu' = c
    /\ Move(c, "ensure")
    /\ UNCHANGED <<processVars, serverVars, cfg, activeSess, made>>

(* A new key: time.Now().UnixNano() never names an older session. *)
FreshKey(k) == k # activeSess /\ sessions[k] = NoSid /\ \A c \in Callers : loc[c].key # k

(* Engine.NewSession replaces the active key and closes the old session.   *)
BeginNewSession(c, k) ==
    /\ "newsession" \in Ops /\ made < MaxOps
    /\ At(c, "idle") /\ FreshKey(k)
    /\ made' = made + 1
    /\ activeSess' = k
    /\ MoveWith(c, "swap", [NoLocal EXCEPT !.op = "newsession", !.key = k, !.from = activeSess])
    /\ UNCHANGED <<processVars, serverVars, cfg, promptMu>>

(* Daemon.SetConfig: Apply, then SyncConfig in a goroutine of its own. *)
BeginSync(c, v) ==
    /\ "sync" \in Ops /\ made < MaxOps
    /\ At(c, "idle")
    /\ made' = made + 1
    /\ cfg' = v
    /\ MoveWith(c, "compare", [NoLocal EXCEPT !.op = "sync", !.then = "finish"])
    /\ UNCHANGED <<processVars, serverVars, activeSess, promptMu>>

Finish(c) ==
    /\ At(c, "finish")
    /\ promptMu' = IF promptMu = c THEN NoCaller ELSE promptMu
    /\ MoveWith(c, "idle", NoLocal)
    /\ UNCHANGED <<processVars, serverVars, cfg, activeSess, made>>

-------------------------------------------------------------------------------
(* start and ensureStarted. *)

EnsureStarted(c) ==
    /\ At(c, "ensure")
    /\ IF proc # NoProc /\ connected
       THEN Move(c, "lookup")
       ELSE MoveWith(c, "spawn", [loc[c] EXCEPT !.then = "lookup"])
    /\ UNCHANGED <<processVars, serverVars, runtimeVars>>

(* The configuration is read, the process launched, and a.proc set.  Which *)
(* of the unborn processes it is makes no difference.                      *)
Spawn(c) ==
    /\ At(c, "spawn") /\ cfg # Mock
    /\ \E p \in Procs : child[p] = "unborn"
    /\ LET p == CHOOSE q \in Procs : child[q] = "unborn" IN Launch(p) /\ proc' = p
    /\ connected' = FALSE
    /\ MoveWith(c, "init", [loc[c] EXCEPT !.cfg = cfg])
    /\ UNCHANGED <<nextID, pending, handlers, sessions, spawnedCfg, runtimeVars>>

SpawnFails(c) ==
    /\ At(c, "spawn")
    /\ cfg = Mock \/ "spawn" \in Events \/ \A p \in Procs : child[p] # "unborn"
    /\ Fail(c, "other")
    /\ UNCHANGED <<processVars, serverVars, runtimeVars>>

(* initialize was answered. *)
Connect(c) ==
    /\ At(c, "connect")
    /\ connected' = TRUE /\ spawnedCfg' = loc[c].cfg
    /\ Move(c, loc[c].then)
    /\ UNCHANGED <<processVars, proc, nextID, pending, handlers, sessions, runtimeVars>>

(* Mutant: a process that did not answer initialize is left alone. *)
UndoStartKeepProcess(c) ==
    /\ At(c, "undo")
    /\ Move(c, "failed")
    /\ UNCHANGED <<processVars, serverVars, runtimeVars>>

(* initialize failed: killLocked, this time without the mutex, so it may   *)
(* hit the process another goroutine has just started.                     *)
UndoStart(c) ==
    /\ At(c, "undo")
    /\ KillLocked
    /\ Move(c, "failed")
    /\ UNCHANGED runtimeVars

-------------------------------------------------------------------------------
(* request: write a line, then wait for the answer.  A goroutine at a      *)
(* label of Method is about to make that request.                          *)

(* SessionID returns to promptOnce or to NewSession. *)
Opened(c) == IF loc[c].op = "prompt" THEN "handle" ELSE "finish"

OnAnswer(c)  == [init |-> "connect", new |-> "store",  mode |-> Opened(c),
                 prompt |-> "unhandle", close |-> "forget"]
(* Mutants: a failing initialize, or session/new, is only logged. *)
OnErrorIgnoreInit(c) == [init |-> "connect", new |-> "failed", mode |-> Opened(c),
                         prompt |-> "unhandle", close |-> "forget"]
OnErrorIgnoreNew(c)  == [init |-> "undo", new |-> Opened(c), mode |-> Opened(c),
                         prompt |-> "unhandle", close |-> "forget"]

OnError(c)   == [init |-> "undo",    new |-> "failed", mode |-> Opened(c),
                 prompt |-> "unhandle", close |-> "forget"]
OnTimeout(c) == [OnError(c) EXCEPT !.prompt = "cancel"]

(* The error of mode and close is ignored. *)
ErrorOf(m, err) == IF m \in {"mode", "close"} THEN "none" ELSE err

SidOf(c) == IF pc[c] = "close" THEN loc[c].old
            ELSE IF pc[c] \in {"mode", "prompt"} THEN loc[c].sid ELSE NoSid

RequestSent(c) ==
    /\ pc[c] \in Method /\ Running(proc)
    /\ nextID' = nextID + 1
    /\ Deliver(proc, [id |-> nextID + 1, by |-> c, method |-> pc[c], sid |-> SidOf(c), stage |-> "sent"])
    /\ pending' = {q \in pending : q.id # nextID + 1} \cup {[id |-> nextID + 1, by |-> c]}
    /\ MoveWith(c, "wait", [loc[c] EXCEPT !.method = pc[c], !.id = nextID + 1])
    /\ UNCHANGED <<proc, connected, handlers, sessions, spawnedCfg, runtimeVars>>

(* No process: the error wraps errACPTransport. *)
RequestUnsent(c) ==
    /\ pc[c] \in Method /\ proc = NoProc
    /\ MoveWith(c, OnError(c)[pc[c]], [loc[c] EXCEPT !.err = ErrorOf(pc[c], "gone")])
    /\ UNCHANGED <<processVars, serverVars, runtimeVars>>

(* The write fails: the process has exited and watchProc has not noticed.  *)
(* The error does not wrap errACPTransport.                                *)
RequestBroken(c) ==
    /\ pc[c] \in Method /\ proc # NoProc /\ ~Running(proc)
    /\ nextID' = nextID + 1
    /\ connected' = FALSE
    /\ MoveWith(c, OnError(c)[pc[c]], [loc[c] EXCEPT !.err = ErrorOf(pc[c], "other")])
    /\ UNCHANGED <<processVars, proc, pending, handlers, sessions, spawnedCfg, runtimeVars>>

(* Leave the wait. *)
Resume(c, label, err, sid) ==
    /\ Goto(c, label)
    /\ loc' = [loc EXCEPT ![c] = [loc[c] EXCEPT !.method = "none", !.id = 0, !.err = err,
                                     !.sid = IF sid = NoSid THEN loc[c].sid ELSE sid]]
    /\ mail' = [mail EXCEPT ![c] = NoMail]
    /\ UNCHANGED reply

Receive(c) ==
    /\ At(c, "wait") /\ mail[c] # NoMail
    /\ LET m == loc[c].method
       IN CASE mail[c].kind = "answer" -> Resume(c, OnAnswer(c)[m], "none", mail[c].sid)
            [] mail[c].kind = "error"  -> Resume(c, OnError(c)[m], ErrorOf(m, "other"), NoSid)
            [] mail[c].kind = "gone"   -> Resume(c, OnError(c)[m], ErrorOf(m, "gone"), NoSid)
    /\ UNCHANGED <<processVars, serverVars, runtimeVars>>

(* Mutant: the entry stays in the table when the wait is abandoned. *)
AbandonKeepPending(c) ==
    /\ At(c, "wait")
    /\ Resume(c, OnTimeout(c)[loc[c].method], ErrorOf(loc[c].method, "other"), NoSid)
    /\ UNCHANGED <<processVars, serverVars, runtimeVars>>

(* The context of the wait ends. *)
Abandon(c) ==
    /\ At(c, "wait")
    /\ pending' = {q \in pending : q.id # loc[c].id}
    /\ Resume(c, OnTimeout(c)[loc[c].method], ErrorOf(loc[c].method, "other"), NoSid)
    /\ UNCHANGED <<processVars, proc, connected, nextID, handlers, sessions, spawnedCfg, runtimeVars>>

(* initialize, session/new and session/close have a deadline. *)
Deadline(c) == "timeout" \in Events /\ loc[c].method \in {"init", "new", "close"} /\ Abandon(c)

(* The client of a chat or of a new session goes away; the context of a    *)
(* session/close is its own.                                               *)
ClientLeaves(c) ==
    /\ "cancel" \in Events
    /\ loc[c].op \in {"prompt", "newsession"} /\ loc[c].method # "close"
    /\ Abandon(c)

-------------------------------------------------------------------------------
(* SessionID *)

Lookup(c) ==
    /\ At(c, "lookup")
    /\ IF sessions[loc[c].key] # NoSid
       THEN MoveWith(c, Opened(c), [loc[c] EXCEPT !.sid = sessions[loc[c].key]])
       ELSE MoveWith(c, "new", [loc[c] EXCEPT !.sid = NoSid])
    /\ UNCHANGED <<processVars, serverVars, runtimeVars>>

(* The session is stored; in bypass mode one more request follows. *)
Store(c) ==
    /\ At(c, "store")
    /\ sessions' = [sessions EXCEPT ![loc[c].key] = loc[c].sid]
    /\ Move(c, IF cfg \in Bypass THEN "mode" ELSE Opened(c))
    /\ UNCHANGED <<processVars, proc, connected, nextID, pending, handlers, spawnedCfg, runtimeVars>>

-------------------------------------------------------------------------------
(* promptOnce and Prompt *)

Handle(c) ==
    /\ At(c, "handle")
    /\ handlers' = {h \in handlers : h.sid # loc[c].sid} \cup {[sid |-> loc[c].sid, by |-> c]}
    /\ Move(c, "prompt")
    /\ UNCHANGED <<processVars, proc, connected, nextID, pending, sessions, spawnedCfg, runtimeVars>>

(* session/cancel; a failing write marks the process as disconnected. *)
Cancel(c) ==
    /\ At(c, "cancel")
    /\ connected' = (connected /\ (proc = NoProc \/ Running(proc)))
    /\ Move(c, "unhandle")
    /\ UNCHANGED <<processVars, proc, nextID, pending, handlers, sessions, spawnedCfg, runtimeVars>>

(* Mutant: the handler is removed on success only. *)
UnhandleOnSuccess(c) ==
    /\ At(c, "unhandle")
    /\ handlers' = {h \in handlers : loc[c].err = "none" => h.sid # loc[c].sid}
    /\ Move(c, IF loc[c].err = "none" THEN "finish" ELSE "failed")
    /\ UNCHANGED <<processVars, proc, connected, nextID, pending, sessions, spawnedCfg, runtimeVars>>

(* The deferred delete, whoever has registered for the session since. *)
Unhandle(c) ==
    /\ At(c, "unhandle")
    /\ handlers' = {h \in handlers : h.sid # loc[c].sid}
    /\ Move(c, IF loc[c].err = "none" THEN "finish" ELSE "failed")
    /\ UNCHANGED <<processVars, proc, connected, nextID, pending, sessions, spawnedCfg, runtimeVars>>

(* A transport failure of the first attempt is retried; nothing else is. *)
Failed(c) ==
    /\ At(c, "failed")
    /\ IF loc[c].op = "prompt" /\ loc[c].err = "gone" /\ loc[c].attempt = 1
       THEN MoveWith(c, "restart", [loc[c] EXCEPT !.attempt = 2, !.err = "none", !.then = "ensure"])
       ELSE Move(c, "finish")
    /\ UNCHANGED <<processVars, serverVars, runtimeVars>>

-------------------------------------------------------------------------------
(* Restart: kill, pause, start. *)
Restart(c) ==
    /\ At(c, "restart")
    /\ KillLocked
    /\ \/ Move(c, "spawn")
       \/ "cancel" \in Events /\ loc[c].op = "prompt" /\ Fail(c, "other")
    /\ UNCHANGED runtimeVars

(* SyncConfig: only a process that has once been connected is compared.    *)
Compare(c) ==
    /\ At(c, "compare")
    /\ Move(c, IF proc # NoProc /\ spawnedCfg \notin {NoConfig, cfg} THEN "restart" ELSE "finish")
    /\ UNCHANGED <<processVars, serverVars, runtimeVars>>

-------------------------------------------------------------------------------
(* CloseSessionLocal of the session that was active. *)
Swap(c) ==
    /\ At(c, "swap")
    /\ MoveWith(c, IF sessions[loc[c].from] = NoSid THEN "ensure" ELSE "close",
                [loc[c] EXCEPT !.old = sessions[loc[c].from]])
    /\ UNCHANGED <<processVars, serverVars, runtimeVars>>

Forget(c) ==
    /\ At(c, "forget")
    /\ sessions' = [k \in Keys |-> IF sessions[k] = loc[c].old THEN NoSid ELSE sessions[k]]
    /\ handlers' = {h \in handlers : h.sid # loc[c].old}
    /\ Move(c, "ensure")
    /\ UNCHANGED <<processVars, proc, connected, nextID, pending, spawnedCfg, runtimeVars>>

-------------------------------------------------------------------------------
(* The goroutines of a process. *)

(* dispatch: an answer goes to the channel registered for its id, an       *)
(* update to the handler of its session, a permission request is refused.  *)
DispatchAnswer(m) ==
    /\ m.kind \in {"answer", "error"}
    /\ pending' = {q \in pending : q.id # m.id}
    /\ mail' = [c \in Callers |-> IF [id |-> m.id, by |-> c] \in pending THEN m ELSE mail[c]]
    /\ UNCHANGED <<connected, reply, inbox>>

DispatchUpdate(m) ==
    /\ m.kind = "update"
    /\ reply' = [c \in Callers |-> IF [sid |-> m.sid, by |-> c] \in handlers
                                   THEN reply[c] \cup {m.id} ELSE reply[c]]
    /\ UNCHANGED <<connected, pending, mail, inbox>>

DispatchPermission(m) ==
    /\ m.kind = "permission"
    /\ IF Running(proc) THEN Tell(proc, m.id) ELSE UNCHANGED inbox
    /\ connected' = (connected /\ (proc = NoProc \/ Running(proc)))
    /\ UNCHANGED <<pending, mail, reply>>

ReadLoop(p) ==
    /\ stdout[p] # <<>>
    /\ stdout' = [stdout EXCEPT ![p] = Tail(@)]
    /\ DispatchAnswer(Head(stdout[p])) \/ DispatchUpdate(Head(stdout[p]))
          \/ DispatchPermission(Head(stdout[p]))
    /\ UNCHANGED <<child, closed, greeted, proc, nextID, handlers, sessions, spawnedCfg, pc, loc, runtimeVars>>

(* Mutant: the pending requests are forgotten without an answer. *)
WatchProcDropPending(p) ==
    /\ child[p] = "dead"
    /\ Terminate(p)
    /\ IF proc = p
       THEN /\ proc' = NoProc /\ connected' = FALSE
            /\ sessions' = NoSessions /\ handlers' = {} /\ pending' = {}
       ELSE UNCHANGED <<proc, connected, sessions, handlers, pending>>
    /\ UNCHANGED <<nextID, spawnedCfg, pc, loc, mail, reply, runtimeVars>>

(* Mutant: the watcher does not ask whether its process is still the one.  *)
WatchProcAnyProcess(p) ==
    /\ child[p] = "dead"
    /\ Terminate(p)
    /\ proc' = NoProc /\ connected' = FALSE
    /\ sessions' = NoSessions /\ handlers' = {} /\ pending' = {}
    /\ mail' = [c \in Callers |->
                  IF mail[c] = NoMail /\ \E q \in pending : q.by = c /\ q.id = loc[c].id
                  THEN GoneMail ELSE mail[c]]
    /\ UNCHANGED <<nextID, spawnedCfg, pc, loc, reply, runtimeVars>>

(* watchProc: Wait returns, and if the process is still the current one    *)
(* the server is emptied and every pending request is answered "gone".     *)
WatchProc(p) ==
    /\ child[p] = "dead"
    /\ Terminate(p)
    /\ IF proc = p
       THEN /\ proc' = NoProc /\ connected' = FALSE
            /\ sessions' = NoSessions /\ handlers' = {} /\ pending' = {}
            /\ mail' = [c \in Callers |->
                          IF mail[c] = NoMail /\ \E q \in pending : q.by = c /\ q.id = loc[c].id
                          THEN GoneMail ELSE mail[c]]
       ELSE UNCHANGED <<proc, connected, sessions, handlers, pending, mail>>
    /\ UNCHANGED <<nextID, spawnedCfg, pc, loc, reply, runtimeVars>>

-------------------------------------------------------------------------------
(* Daemon.Close: the engine is stopped and the runtime exits. *)
Stop ==
    /\ "stop" \in Events /\ \E c \in Callers : ~At(c, "halted")
    /\ KillLocked
    /\ pc' = [c \in Callers |-> "halted"]
    /\ UNCHANGED <<loc, mail, reply, runtimeVars>>

Begin(c) ==
    \/ \E k \in Keys : BeginPrompt(c, k) \/ BeginNewSession(c, k)
    \/ \E v \in Configs : BeginSync(c, v)

StartStep(c) == EnsureStarted(c) \/ Spawn(c) \/ SpawnFails(c) \/ Connect(c) \/ UndoStart(c)
RequestStep(c) == RequestSent(c) \/ RequestUnsent(c) \/ RequestBroken(c) \/ Receive(c)
SessionStep(c) == Lookup(c) \/ Store(c) \/ Swap(c) \/ Forget(c)
PromptStep(c) == Lock(c) \/ Handle(c) \/ Cancel(c) \/ Unhandle(c) \/ Failed(c) \/ Finish(c)
SwitchStep(c) == Restart(c) \/ Compare(c)

(* The next step of a request under way. *)
Advance(c) == StartStep(c) \/ RequestStep(c) \/ SessionStep(c) \/ PromptStep(c) \/ SwitchStep(c)

Kernel(p) == (\E r \in inbox[p] : Answer(p, r) \/ AskPermission(p, r)) \/ Die(p)

Next ==
    \/ \E c \in Callers : Begin(c) \/ Advance(c) \/ Deadline(c) \/ ClientLeaves(c)
    \/ \E p \in Procs : ReadLoop(p) \/ WatchProc(p)
    \/ \E p \in Procs : Kernel(p) /\ UNCHANGED <<serverVars, callerVars, runtimeVars>>
    \/ Stop

Spec == Init /\ [][Next]_vars

(* Every goroutine that can run is scheduled, deadlines pass, and the      *)
(* kernel answers what it is asked unless it dies.                         *)
Fairness ==
    /\ \A c \in Callers : WF_vars(Advance(c)) /\ WF_vars(Deadline(c))
    /\ \A p \in Procs : /\ WF_vars(ReadLoop(p)) /\ WF_vars(WatchProc(p))
                        /\ WF_vars((\E r \in inbox[p] : Answer(p, r))
                                      /\ UNCHANGED <<serverVars, callerVars, runtimeVars>>)

LiveSpec == Spec /\ Fairness
===============================================================================
