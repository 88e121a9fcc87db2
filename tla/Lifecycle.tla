------------------------------ MODULE Lifecycle ------------------------------
(***************************************************************************)
(* pkg/sandboxruntime/manager.go: the orchestration of every lifecycle     *)
(* request (Create, Suspend, Wake, Delete, SetModelConfig) over the store, *)
(* the E2B provider, the gateway's routing table and the model cache.      *)
(*                                                                         *)
(* One step is one call the Manager makes to another component, with its   *)
(* outcome; between two steps other goroutines, other replicas, crashes,   *)
(* restarts and the client's disconnection may strike.  A goroutine holds  *)
(* its replica's m.mu from the first step of a request to the return.      *)
(***************************************************************************)
EXTENDS InstanceStore, GatewayRegistry, E2BProvider

VARIABLES
    cache,       \* [Replicas -> SUBSET Users]: users with an override in db.MemoryCache
    lock,        \* [Replicas -> Workers \cup {NoWorker}]: Manager.mu
    pc,          \* [Workers -> Labels]: the call the goroutine makes next
    job          \* [Workers -> Job]: the request and its local variables

managerVars == <<cache, lock, pc, job>>
vars == <<record, route, sandbox, owner, model, sbxs, cache, lock, pc, job>>

Ops == {"create", "suspend", "wake", "delete", "setmodel"}

CreateLabels == {"c_read", "c_clean", "c_new", "c_register", "c_inject", "c_insert", "c_undo"}
WakeLabels == {"k_read", "w_start", "w_register", "w_inject", "w_update"}
FailLabels == {"f_read", "f_update", "f_insert"}
SuspendLabels == {"s_read", "s_stop", "s_uncache", "s_update"}
DeleteLabels == {"d_backend", "d_unregister", "d_uncache", "d_store"}
ModelLabels == {"m_read", "m_inject", "m_cache"}

(* The labels under m.mu. *)
Locked == CreateLabels \cup WakeLabels \cup FailLabels \cup SuspendLabels
             \cup DeleteLabels \cup ModelLabels
Labels == Locked \cup {"idle", "reply"}

(* alive: the request's context is not cancelled.  hit: a call whose error *)
(* the code does not ignore was struck by a fault.  from: the status read  *)
(* when the request began.                                                 *)
Job == [op : Ops \cup {"none"}, user : UserOrNone, from : Status, inst : Instance,
        alive : BOOLEAN, hit : BOOLEAN, res : {"none", "ok", "refused", "error", "faulted"}]

NoJob == [op |-> "none", user |-> NoUser, from |-> "none", inst |-> NoInstance,
          alive |-> TRUE, hit |-> FALSE, res |-> "none"]

Init ==
    /\ StoreInit
    /\ GatewayInit
    /\ ProviderInit
    /\ cache = [r \in Replicas |-> {}]
    /\ lock = [r \in Replicas |-> NoWorker]
    /\ pc = [w \in Workers |-> "idle"]
    /\ job = [w \in Workers |-> NoJob]

-------------------------------------------------------------------------------
(* Outcomes of a call.  Every call takes the request's context: once it is *)
(* cancelled a remote call is refused before it is sent.  (A cancellation  *)
(* while the call is under way is a call fault followed by a Disconnect.)  *)

Outcomes(w, refused, others) ==
    IF job[w].alive THEN {"ok"} \cup (({refused} \cup others) \cap Faults) ELSE {refused}

(* db.Memory ignores the context and never fails. *)
ReadOutcomes(w) == IF StoreKind = "memory" THEN {"ok"} ELSE Outcomes(w, "read", {})
WriteOutcomes(w) == IF StoreKind = "memory" THEN {"ok"} ELSE Outcomes(w, "write", {"lostWrite"})

Goto(w, label) == pc' = [pc EXCEPT ![w] = label]

SetJob(w, j) == job' = [job EXCEPT ![w] = j]

Continue(w, label) == Goto(w, label) /\ UNCHANGED <<lock, job>>

(* Go on with the error of a call that failed with outcome f. *)
ContinueWithError(w, label, f) ==
    /\ Goto(w, label)
    /\ SetJob(w, [job[w] EXCEPT !.hit = @ \/ f # "ok"])
    /\ UNCHANGED lock

(* Mutant: without the defer, a refused request keeps m.mu. *)
ReturnLocked(w, res) ==
    /\ Goto(w, "reply")
    /\ lock' = [lock EXCEPT ![Host[w]] = IF res = "refused" THEN @ ELSE NoWorker]
    /\ SetJob(w, [NoJob EXCEPT !.op = job[w].op, !.user = job[w].user,
                               !.from = job[w].from, !.res = res])

(* The deferred m.mu.Unlock and the answer to the client. *)
Return(w, res) ==
    /\ Goto(w, "reply")
    /\ lock' = [lock EXCEPT ![Host[w]] = NoWorker]
    /\ SetJob(w, [NoJob EXCEPT !.op = job[w].op, !.user = job[w].user,
                               !.from = job[w].from, !.res = res])

ErrorOf(w, f) == IF job[w].hit \/ f # "ok" THEN "faulted" ELSE "error"

(* A write of the store with outcome f: refused writes change nothing,     *)
(* lost ones do.                                                           *)
WriteTakes(f) == f \in {"ok", "lostWrite"}

-------------------------------------------------------------------------------
(* A request takes m.mu before it reads anything. *)
Entry == [create |-> "c_read", suspend |-> "s_read", wake |-> "k_read",
          delete |-> "d_backend", setmodel |-> "m_read"]

Begin(w, op, u) ==
    /\ pc[w] = "idle"
    /\ lock[Host[w]] = NoWorker
    /\ lock' = [lock EXCEPT ![Host[w]] = w]
    /\ Goto(w, Entry[op])
    /\ SetJob(w, [NoJob EXCEPT !.op = op, !.user = u])
    /\ UNCHANGED <<record, route, sandbox, owner, model, sbxs, cache>>

(* The answer reaches the client; the goroutine is free for another one. *)
Reply(w) ==
    /\ pc[w] = "reply"
    /\ Goto(w, "idle")
    /\ SetJob(w, NoJob)
    /\ UNCHANGED <<record, route, sandbox, owner, model, sbxs, cache, lock>>

(* Take the row just read as the local instance and go on. *)
Load(w, label) ==
    /\ Goto(w, label)
    /\ SetJob(w, [job[w] EXCEPT !.inst = record[job[w].user],
                                !.from = record[job[w].user].status])
    /\ UNCHANGED lock

(* The row Create is going to store. *)
NewInstance == [NoInstance EXCEPT !.status = "running"]

WithEndpoint(inst, s) == [inst EXCEPT !.endpoint = s]
WithStatus(inst, status) == [inst EXCEPT !.status = status]

(* Create, lines 72-91: any error of GetInstance means "no instance". *)
CreateRead(w) ==
    /\ pc[w] = "c_read"
    /\ \E f \in ReadOutcomes(w) :
         \/ /\ f = "ok" /\ record[job[w].user].status = "running"
            /\ Return(w, "ok")
         \/ /\ f = "ok" /\ record[job[w].user].status = "suspended"
            /\ Load(w, "w_start")
         \/ /\ f = "ok" /\ record[job[w].user].status = "failed"
            /\ Goto(w, "c_clean")
            /\ SetJob(w, [job[w] EXCEPT !.inst = NewInstance, !.from = "failed"])
            /\ UNCHANGED lock
         \/ /\ f = "read" \/ record[job[w].user].status = "none"
            /\ Goto(w, "c_new")
            /\ SetJob(w, [job[w] EXCEPT !.inst = NewInstance])
            /\ UNCHANGED lock
    /\ UNCHANGED <<record, route, sandbox, owner, model, sbxs, cache>>

(* _ = m.backend.Delete: the leftovers of a failed instance, or the sandbox *)
(* of a Create that cannot finish; the error is ignored.                   *)
CleanUp(w) ==
    /\ pc[w] \in {"c_clean", "c_undo"}
    /\ \E f \in Outcomes(w, "connect", {"kill"}) :
         ProviderDelete(Host[w], job[w].user, f)
    /\ Continue(w, IF pc[w] = "c_clean" THEN "c_new" ELSE "f_read")
    /\ UNCHANGED <<record, route, cache>>

(* A sandbox nothing refers to: a new id, or an old one that nothing can   *)
(* tell from a new one.                                                    *)
Fresh(s) ==
    /\ ~Live(s)
    /\ \A u \in Users :
         /\ route[u] # s /\ record[u].endpoint # s /\ record[u].sandboxID # s
         /\ \A r \in Replicas : sbxs[r][u] # s
    /\ \A w \in Workers : job[w].inst.endpoint # s

(* backend.Create; WaitHealth lets an E2B endpoint pass unchecked.  With   *)
(* no sandbox left the pool refuses, as it does on a remote failure.       *)
CreateSandbox(w) ==
    /\ pc[w] = "c_new"
    /\ \/ \E s \in Sandboxes : \E f \in Outcomes(w, "create", {"lostCreate", "notReady"}) \ {"create"} :
            /\ Fresh(s)
            /\ ProviderCreate(Host[w], job[w].user, s, f)
            /\ \/ /\ f = "ok"
                  /\ Goto(w, "c_register")
                  /\ SetJob(w, [job[w] EXCEPT !.inst = WithEndpoint(@, s)])
                  /\ UNCHANGED lock
               \/ /\ f # "ok"
                  /\ ContinueWithError(w, "f_read", f)
       \/ /\ "create" \in Outcomes(w, "create", {}) \/ \A s \in Sandboxes : ~Fresh(s)
          /\ UNCHANGED providerVars
          /\ ContinueWithError(w, "f_read", "create")
    /\ UNCHANGED <<record, route, cache>>

(* registerGateway: a failure is logged and ignored. *)
RegisterGateway(w) ==
    /\ pc[w] \in {"c_register", "w_register"}
    /\ \E f \in Outcomes(w, "register", {}) :
         \/ f = "ok" /\ Register(job[w].user, job[w].inst.endpoint)
         \/ f # "ok" /\ UNCHANGED route
    /\ Continue(w, IF pc[w] = "c_register" THEN "c_inject" ELSE "w_inject")
    /\ UNCHANGED <<record, sandbox, owner, model, sbxs, cache>>

(* resolveConfig: the override in this replica's cache, else the seat.     *)
(* MockSeatService, the only seat service there is, never fails.           *)
Resolved(w) == IF job[w].user \in cache[Host[w]] THEN "override" ELSE "seat"

(* setConfigViaGateway reaches the agent behind the user's route. *)
SetConfig(u, m) == Registered(u) /\ Configure(route[u], m)

CanSetConfig(u) == Registered(u) /\ sandbox[route[u]] = "running"

(* Create and wake resolve the configuration and inject it, ignoring the   *)
(* failure of the injection.                                               *)
InjectConfig(w) ==
    /\ pc[w] \in {"c_inject", "w_inject"}
    /\ \E f \in Outcomes(w, "inject", {}) :
         \/ f = "ok" /\ SetConfig(job[w].user, Resolved(w))
         \/ (f # "ok" \/ ~CanSetConfig(job[w].user)) /\ UNCHANGED model
    /\ Continue(w, IF pc[w] = "c_inject" THEN "c_insert" ELSE "w_update")
    /\ UNCHANGED <<record, route, sandbox, owner, sbxs, cache>>

(* store.CreateInstance, the last call of Create. *)
CreateInsert(w) ==
    /\ pc[w] = "c_insert"
    /\ \E f \in WriteOutcomes(w) :
         \/ /\ f = "ok"
            /\ CreateInstance(job[w].user, job[w].inst)
            /\ Return(w, "ok")
         \/ /\ f = "lostWrite"
            /\ CreateInstance(job[w].user, job[w].inst)
            /\ ContinueWithError(w, "c_undo", f)
         \/ /\ f = "write" \/ InsertRefused(job[w].user)
            /\ UNCHANGED record
            /\ ContinueWithError(w, "c_undo", f)
    /\ UNCHANGED <<route, sandbox, owner, model, sbxs, cache>>

-------------------------------------------------------------------------------
(* failInstance: look whether there is a row, then update or create it;    *)
(* errors of the store are ignored and the caller's error is returned.     *)

FailRead(w) ==
    /\ pc[w] = "f_read"
    /\ SetJob(w, [job[w] EXCEPT !.inst = WithStatus(@, "failed")])
    /\ \E f \in ReadOutcomes(w) :
         \/ f = "ok" /\ Exists(job[w].user) /\ Goto(w, "f_update")
         \/ (f # "ok" \/ ~Exists(job[w].user)) /\ Goto(w, "f_insert")
    /\ UNCHANGED <<record, route, sandbox, owner, model, sbxs, cache, lock>>

FailUpdate(w) ==
    /\ pc[w] = "f_update"
    /\ \E f \in WriteOutcomes(w) :
         \/ WriteTakes(f) /\ UpdateInstance(job[w].user, job[w].inst)
         \/ (f = "write" \/ ~Exists(job[w].user)) /\ UNCHANGED record
    /\ Return(w, ErrorOf(w, "ok"))
    /\ UNCHANGED <<route, sandbox, owner, model, sbxs, cache>>

FailInsert(w) ==
    /\ pc[w] = "f_insert"
    /\ \E f \in WriteOutcomes(w) :
         \/ WriteTakes(f) /\ CreateInstance(job[w].user, job[w].inst)
         \/ (f = "write" \/ InsertRefused(job[w].user)) /\ UNCHANGED record
    /\ Return(w, ErrorOf(w, "ok"))
    /\ UNCHANGED <<route, sandbox, owner, model, sbxs, cache>>

-------------------------------------------------------------------------------
(* Wake, lines 145-153: every status but running is started. *)
WakeRead(w) ==
    /\ pc[w] = "k_read"
    /\ \E f \in ReadOutcomes(w) :
         \/ f # "ok" /\ Return(w, "faulted")
         \/ f = "ok" /\ ~Exists(job[w].user) /\ Return(w, "refused")
         \/ f = "ok" /\ record[job[w].user].status = "running" /\ Return(w, "ok")
         \/ /\ f = "ok" /\ record[job[w].user].status \in {"suspended", "failed"}
            /\ Load(w, "w_start")
    /\ UNCHANGED <<record, route, sandbox, owner, model, sbxs, cache>>

(* backend.Start.  A sandbox that died under its user is a fault. *)
WakeStart(w) ==
    /\ pc[w] = "w_start"
    /\ \E f \in Outcomes(w, "connect", {"notReady"}) :
         /\ ProviderStart(Host[w], job[w].user, f)
         /\ \/ /\ CanStart(Host[w], job[w].user, f)
               /\ Goto(w, "w_register")
               /\ SetJob(w, [job[w] EXCEPT !.inst = WithEndpoint(@, sbxs[Host[w]][job[w].user])])
               /\ UNCHANGED lock
            \/ /\ ~CanStart(Host[w], job[w].user, f)
               /\ ContinueWithError(w, "f_read",
                      IF Known(Host[w], job[w].user) /\ ~Live(sbxs[Host[w]][job[w].user])
                      THEN "connect" ELSE f)
    /\ UNCHANGED <<record, route, cache>>

(* Write the local instance with a new status; the answer is the store's. *)
Save(w, status) ==
    \E f \in WriteOutcomes(w) :
      \/ /\ WriteTakes(f)
         /\ UpdateInstance(job[w].user, WithStatus(job[w].inst, status))
         /\ Return(w, IF f = "ok" THEN "ok" ELSE "faulted")
      \/ /\ f = "write" \/ ~Exists(job[w].user)
         /\ UNCHANGED record
         /\ Return(w, ErrorOf(w, f))

WakeSave(w) ==
    /\ pc[w] = "w_update"
    /\ Save(w, "running")
    /\ UNCHANGED <<route, sandbox, owner, model, sbxs, cache>>

-------------------------------------------------------------------------------
(* Mutant: any instance can be suspended. *)
SuspendReadAnyStatus(w) ==
    /\ pc[w] = "s_read"
    /\ \E f \in ReadOutcomes(w) :
         \/ f # "ok" /\ Return(w, "faulted")
         \/ f = "ok" /\ ~Exists(job[w].user) /\ Return(w, "refused")
         \/ f = "ok" /\ Exists(job[w].user) /\ Load(w, "s_stop")
    /\ UNCHANGED <<record, route, sandbox, owner, model, sbxs, cache>>

(* Suspend, lines 120-142. *)
SuspendRead(w) ==
    /\ pc[w] = "s_read"
    /\ \E f \in ReadOutcomes(w) :
         \/ f # "ok" /\ Return(w, "faulted")
         \/ f = "ok" /\ record[job[w].user].status # "running" /\ Return(w, "refused")
         \/ f = "ok" /\ record[job[w].user].status = "running" /\ Load(w, "s_stop")
    /\ UNCHANGED <<record, route, sandbox, owner, model, sbxs, cache>>

(* Mutant: Suspend keeps the override in the cache. *)
SuspendStopKeepConfig(w) ==
    /\ pc[w] = "s_stop"
    /\ \E f \in Outcomes(w, "connect", {"pause"}) :
         /\ ProviderStop(Host[w], job[w].user, f)
         /\ \/ CanStop(Host[w], job[w].user, f) /\ Continue(w, "s_update")
            \/ ~CanStop(Host[w], job[w].user, f) /\ Return(w, "faulted")
    /\ UNCHANGED <<record, route, cache>>

SuspendStop(w) ==
    /\ pc[w] = "s_stop"
    /\ \E f \in Outcomes(w, "connect", {"pause"}) :
         /\ ProviderStop(Host[w], job[w].user, f)
         /\ \/ CanStop(Host[w], job[w].user, f) /\ Continue(w, "s_uncache")
            \/ ~CanStop(Host[w], job[w].user, f) /\ Return(w, "faulted")
    /\ UNCHANGED <<record, route, cache>>

(* cache.Delete, on the way of Suspend (line 134) and of Delete (197). *)
DropConfig(w) ==
    /\ pc[w] \in {"s_uncache", "d_uncache"}
    /\ cache' = [cache EXCEPT ![Host[w]] = @ \ {job[w].user}]
    /\ Continue(w, IF pc[w] = "s_uncache" THEN "s_update" ELSE "d_store")
    /\ UNCHANGED <<record, route, sandbox, owner, model, sbxs>>

(* Mutant: the sandbox's word for it is stored instead of the status. *)
SuspendSavePaused(w) ==
    /\ pc[w] = "s_update"
    /\ Save(w, "paused")
    /\ UNCHANGED <<route, sandbox, owner, model, sbxs, cache>>

SuspendSave(w) ==
    /\ pc[w] = "s_update"
    /\ Save(w, "suspended")
    /\ UNCHANGED <<route, sandbox, owner, model, sbxs, cache>>

-------------------------------------------------------------------------------
(* Delete, lines 188-203: it reads no record. *)
DeleteSandbox(w) ==
    /\ pc[w] = "d_backend"
    /\ \E f \in Outcomes(w, "connect", {"kill"}) :
         /\ ProviderDelete(Host[w], job[w].user, f)
         /\ \/ CanDelete(Host[w], job[w].user, f) /\ Continue(w, "d_unregister")
            \/ ~CanDelete(Host[w], job[w].user, f) /\ Return(w, "faulted")
    /\ UNCHANGED <<record, route, cache>>

(* Mutant: Delete forgets the cache. *)
DeleteRouteKeepConfig(w) ==
    /\ pc[w] = "d_unregister"
    /\ \E f \in Outcomes(w, "unregister", {}) :
         \/ f = "ok" /\ Unregister(job[w].user)
         \/ f # "ok" /\ UNCHANGED route
    /\ Continue(w, "d_store")
    /\ UNCHANGED <<record, sandbox, owner, model, sbxs, cache>>

(* gateway.Unregister; the error is ignored. *)
DeleteRoute(w) ==
    /\ pc[w] = "d_unregister"
    /\ \E f \in Outcomes(w, "unregister", {}) :
         \/ f = "ok" /\ Unregister(job[w].user)
         \/ f # "ok" /\ UNCHANGED route
    /\ Continue(w, "d_uncache")
    /\ UNCHANGED <<record, sandbox, owner, model, sbxs, cache>>

DeleteRecord(w) ==
    /\ pc[w] = "d_store"
    /\ \E f \in WriteOutcomes(w) :
         /\ \/ WriteTakes(f) /\ DeleteInstance(job[w].user)
            \/ ~WriteTakes(f) /\ UNCHANGED record
         /\ Return(w, IF f = "ok" THEN "ok" ELSE "faulted")
    /\ UNCHANGED <<route, sandbox, owner, model, sbxs, cache>>

-------------------------------------------------------------------------------
(* SetModelConfig, lines 246-263 (TouchActivity belongs to the reaper).    *)
ModelRead(w) ==
    /\ pc[w] = "m_read"
    /\ \E f \in ReadOutcomes(w) :
         \/ f # "ok" /\ Return(w, "faulted")
         \/ f = "ok" /\ record[job[w].user].status # "running" /\ Return(w, "refused")
         \/ f = "ok" /\ record[job[w].user].status = "running" /\ Load(w, "m_inject")
    /\ UNCHANGED <<record, route, sandbox, owner, model, sbxs, cache>>

(* Mutant: the injection's failure is ignored, as in Create and Wake. *)
ModelInjectIgnoreError(w) ==
    /\ pc[w] = "m_inject"
    /\ \E f \in Outcomes(w, "inject", {}) :
         \/ f = "ok" /\ SetConfig(job[w].user, "override")
         \/ (f # "ok" \/ ~CanSetConfig(job[w].user)) /\ UNCHANGED model
    /\ Continue(w, "m_cache")
    /\ UNCHANGED <<record, route, sandbox, owner, sbxs, cache>>

ModelInject(w) ==
    /\ pc[w] = "m_inject"
    /\ \E f \in Outcomes(w, "inject", {}) :
         \/ f = "ok" /\ SetConfig(job[w].user, "override") /\ Continue(w, "m_cache")
         \/ /\ f # "ok" \/ ~CanSetConfig(job[w].user)
            /\ UNCHANGED model
            /\ Return(w, ErrorOf(w, f))
    /\ UNCHANGED <<record, route, sandbox, owner, sbxs, cache>>

ModelCache(w) ==
    /\ pc[w] = "m_cache"
    /\ cache' = [cache EXCEPT ![Host[w]] = @ \cup {job[w].user}]
    /\ Return(w, "ok")
    /\ UNCHANGED <<record, route, sandbox, owner, model, sbxs>>

-------------------------------------------------------------------------------
(* The environment. *)

(* The TTL of an override in db.MemoryCache passes. *)
ExpireConfig(r, u) ==
    /\ "expire" \in Faults
    /\ u \in cache[r]
    /\ cache' = [cache EXCEPT ![r] = @ \ {u}]
    /\ UNCHANGED <<record, route, sandbox, owner, model, sbxs, lock, pc, job>>

(* The client goes away: net/http cancels the request's context. *)
Disconnect(w) ==
    /\ "disconnect" \in Faults
    /\ pc[w] \in Locked /\ job[w].alive
    /\ SetJob(w, [job[w] EXCEPT !.alive = FALSE])
    /\ UNCHANGED <<record, route, sandbox, owner, model, sbxs, cache, lock, pc>>

(* A sandbox is destroyed behind the control plane's back. *)
SandboxDies(s) ==
    /\ "sandboxDies" \in Faults
    /\ Live(s)
    /\ Destroy(s)
    /\ UNCHANGED <<record, route, sbxs, cache, lock, pc, job>>

(* The gateway restarts with an empty routing table. *)
RestartGateway ==
    /\ "gatewayRestart" \in Faults
    /\ GatewayAfterRestart
    /\ UNCHANGED <<record, sandbox, owner, model, sbxs, cache, lock, pc, job>>

(* A control-plane process dies and a new one starts: cmd/admin/main.go    *)
(* lists the store and seeds the provider with the recorded sandbox ids.   *)
Crash(r) ==
    /\ "crash" \in Faults
    /\ StoreAfterRestart
    /\ Seed(r, [u \in Users |-> record'[u].sandboxID])
    /\ cache' = [cache EXCEPT ![r] = {}]
    /\ lock' = [lock EXCEPT ![r] = NoWorker]
    /\ pc' = [w \in Workers |-> IF Host[w] = r THEN "idle" ELSE pc[w]]
    /\ job' = [w \in Workers |-> IF Host[w] = r THEN NoJob ELSE job[w]]
    /\ UNCHANGED <<route, sandbox, owner, model>>

-------------------------------------------------------------------------------
CreateStep(w) == CreateRead(w) \/ CleanUp(w) \/ CreateSandbox(w) \/ CreateInsert(w)
ResumeStep(w) == RegisterGateway(w) \/ InjectConfig(w)
FailStep(w) == FailRead(w) \/ FailUpdate(w) \/ FailInsert(w)
WakeStep(w) == WakeRead(w) \/ WakeStart(w) \/ WakeSave(w)
SuspendStep(w) == SuspendRead(w) \/ SuspendStop(w) \/ DropConfig(w) \/ SuspendSave(w)
DeleteStep(w) == DeleteSandbox(w) \/ DeleteRoute(w) \/ DeleteRecord(w)
ModelStep(w) == ModelRead(w) \/ ModelInject(w) \/ ModelCache(w)

(* The next step of a request under way. *)
Serve(w) == CreateStep(w) \/ ResumeStep(w) \/ FailStep(w) \/ WakeStep(w)
               \/ SuspendStep(w) \/ DeleteStep(w) \/ ModelStep(w) \/ Reply(w)

Environment ==
    \/ \E r \in Replicas, u \in Users : ExpireConfig(r, u)
    \/ \E w \in Workers : Disconnect(w)
    \/ \E s \in Sandboxes : SandboxDies(s)
    \/ RestartGateway
    \/ \E r \in Replicas : Crash(r)

Next ==
    \/ \E w \in Workers, op \in Ops, u \in Users : Begin(w, op, u)
    \/ \E w \in Workers : Serve(w)
    \/ Environment

Spec == Init /\ [][Next]_vars

(* A goroutine that has begun a request is scheduled, and every call it    *)
(* makes returns: the gateway client has a timeout and the others end with *)
(* the request's context.                                                  *)
Fairness == \A w \in Workers : WF_vars(Serve(w))

LiveSpec == Spec /\ Fairness
===============================================================================
