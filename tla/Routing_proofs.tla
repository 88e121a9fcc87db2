---------------------------- MODULE Routing_proofs ----------------------------
(***************************************************************************)
(* A running instance is routed, for one control-plane process with any    *)
(* number of users, sandboxes and goroutines.  The first part describes    *)
(* what one step of a request may touch at all.                            *)
(***************************************************************************)
EXTENDS Lifecycle_proofs

(* m.mu belongs to the goroutine inside a request. *)
HoldsLock(w) == pc[w] \in Locked => lock[Host[w]] = w

(* A step of a request moves one goroutine: inside the request, out of it  *)
(* with the lock given back, or from the answer to the next request.       *)
Moves(w) ==
    /\ \A v \in Workers \ {w} : pc'[v] = pc[v] /\ job'[v] = job[v]
    /\ \/ pc[w] \in Locked /\ pc'[w] \in Locked /\ UNCHANGED lock
       \/ pc[w] \in Locked /\ pc'[w] = "reply" /\ lock' = [lock EXCEPT ![Host[w]] = NoWorker]
       \/ pc[w] = "reply" /\ pc'[w] = "idle" /\ UNCHANGED lock

LEMMA InsideMoves ==
    ASSUME TypeInv, NEW w \in Workers, pc[w] \in Locked, NEW label \in Locked, Goto(w, label),
           UNCHANGED lock, UNCHANGED job \/ \E j : SetJob(w, j)
    PROVE  Moves(w)
  BY DEF Moves, Goto, SetJob, TypeInv, TypeOK

LEMMA ReturnMoves ==
    ASSUME TypeInv, NEW w \in Workers, pc[w] \in Locked, NEW res, Return(w, res)
    PROVE  Moves(w)
  BY DEF Moves, Return, Goto, SetJob, TypeInv, TypeOK

LEMMA CallMoves ==
    ASSUME TypeInv, NEW w \in Workers, pc[w] \in Locked, NEW label \in Locked, NEW f,
           Continue(w, label) \/ ContinueWithError(w, label, f) \/ Load(w, label)
    PROVE  Moves(w)
<1>1. Goto(w, label) /\ UNCHANGED lock /\ (UNCHANGED job \/ \E j : SetJob(w, j))
  BY DEF Continue, ContinueWithError, Load
<1> QED
  BY <1>1, InsideMoves

LEMMA ServeMoves ==
    ASSUME TypeInv, NEW w \in Workers, Serve(w)
    PROVE  Moves(w)
<1> USE LabelTypes, ReturnMoves, CallMoves
<1>1. CASE CreateStep(w)
  <2>1. CASE CreateRead(w)
    BY <2>1, InsideMoves DEF CreateRead
  <2>2. CASE CleanUp(w)
    BY <2>2 DEF CleanUp
  <2>3. CASE CreateSandbox(w)
    BY <2>3, InsideMoves DEF CreateSandbox
  <2>4. CASE CreateInsert(w)
    BY <2>4 DEF CreateInsert
  <2> QED
    BY <1>1, <2>1, <2>2, <2>3, <2>4 DEF CreateStep
<1>2. CASE ResumeStep(w)
  BY <1>2 DEF ResumeStep, RegisterGateway, InjectConfig
<1>3. CASE FailStep(w)
  BY <1>3, InsideMoves DEF FailStep, FailRead, FailUpdate, FailInsert
<1>4. CASE WakeStep(w)
  BY <1>4, InsideMoves DEF WakeStep, WakeRead, WakeStart, WakeSave, Save
<1>5. CASE SuspendStep(w)
  BY <1>5 DEF SuspendStep, SuspendRead, SuspendStop, DropConfig, SuspendSave, Save
<1>6. CASE DeleteStep(w)
  BY <1>6 DEF DeleteStep, DeleteSandbox, DeleteRoute, DeleteRecord
<1>7. CASE ModelStep(w)
  BY <1>7 DEF ModelStep, ModelRead, ModelInject, ModelCache
<1>8. CASE Reply(w)
  BY <1>8 DEF Reply, Goto, SetJob, Moves, TypeInv, TypeOK
<1> QED
  BY <1>1, <1>2, <1>3, <1>4, <1>5, <1>6, <1>7, <1>8 DEF Serve

(* An entry of the provider's maps is overwritten, and no other. *)
LEMMA MapEntry ==
    ASSUME sbxs \in [Replicas -> [Users -> SandboxOrNone]],
           NEW r \in Replicas, NEW u \in Users, NEW s, sbxs' = [sbxs EXCEPT ![r][u] = s]
    PROVE  \A q \in Replicas, x \in Users :
              sbxs'[q][x] = IF q = r /\ x = u THEN s ELSE sbxs[q][x]
<1>1. sbxs' = [sbxs EXCEPT ![r] = [sbxs[r] EXCEPT ![u] = s]]
  OBVIOUS
<1> DEFINE row == [sbxs[r] EXCEPT ![u] = s]
<1>2. \A x \in Users : row[x] = IF x = u THEN s ELSE sbxs[r][x]
  OBVIOUS
<1>3. \A q \in Replicas : sbxs'[q] = IF q = r THEN row ELSE sbxs[q]
  <2> HIDE DEF row
  <2>1. sbxs' = [sbxs EXCEPT ![r] = row]
    BY <1>1 DEF row
  <2> QED BY <2>1
<1> HIDE DEF row
<1> QED
  BY <1>2, <1>3

(* The calls of a request are about its own user. *)
LEMMA ServeFrame ==
    ASSUME TypeInv, NEW w \in Workers, Serve(w), NEW u \in Users, u # job[w].user
    PROVE  /\ record'[u] = record[u]
           /\ route'[u] = route[u]
           /\ \A r \in Replicas : sbxs'[r][u] = sbxs[r][u] /\ (u \in cache'[r] <=> u \in cache[r])
<1> USE DEF TypeInv, TypeOK
<1>1. CASE UNCHANGED <<record, route, sbxs, cache>>
  BY <1>1
<1>2. CASE /\ UNCHANGED <<route, sbxs, cache>>
           /\ \E i : record' = [record EXCEPT ![job[w].user] = i]
  BY <1>2
<1>3. CASE /\ UNCHANGED <<record, sbxs, cache>>
           /\ \E s : route' = [route EXCEPT ![job[w].user] = s]
  BY <1>3
<1>4. CASE /\ UNCHANGED <<record, route, cache>>
           /\ \E s : sbxs' = [sbxs EXCEPT ![Host[w]][job[w].user] = s]
  <2>1. pc[w] # "idle"
    BY LabelTypes, ServeMoves DEF Moves
  <2>2. job[w].user \in Users /\ Host[w] \in Replicas
    BY <2>1, WorkerTypes
  <2>3. PICK s : sbxs' = [sbxs EXCEPT ![Host[w]][job[w].user] = s]
    BY <1>4
  <2>4. \A q \in Replicas : sbxs'[q][u] = sbxs[q][u]
    <3>1. sbxs \in [Replicas -> [Users -> SandboxOrNone]]
      OBVIOUS
    <3> HIDE DEF TypeInv, TypeOK
    <3>2. \A q \in Replicas, x \in Users :
             sbxs'[q][x] = IF q = Host[w] /\ x = job[w].user THEN s ELSE sbxs[q][x]
      BY <2>2, <2>3, <3>1, MapEntry
    <3> QED
      BY <3>2
  <2> QED
    BY <1>4, <2>4
<1>5. CASE /\ UNCHANGED <<record, route, sbxs>>
           /\ \/ cache' = [cache EXCEPT ![Host[w]] = @ \ {job[w].user}]
              \/ cache' = [cache EXCEPT ![Host[w]] = @ \cup {job[w].user}]
  <2>1. \A r \in Replicas : \/ cache'[r] = cache[r]
                            \/ cache'[r] = cache[r] \ {job[w].user}
                            \/ cache'[r] = cache[r] \cup {job[w].user}
    BY <1>5
  <2>2. \A r \in Replicas : u \in cache'[r] <=> u \in cache[r]
    BY <2>1
  <2> QED
    BY <1>5, <2>2
<1>6. CASE CreateStep(w) \/ ResumeStep(w) \/ FailStep(w)
  <2>1. CASE CreateRead(w) \/ InjectConfig(w) \/ FailRead(w)
    BY <1>1, <2>1 DEF CreateRead, InjectConfig, FailRead
  <2>2. CASE CleanUp(w) \/ CreateSandbox(w)
    <3>1. UNCHANGED sbxs \/ \E s : sbxs' = [sbxs EXCEPT ![Host[w]][job[w].user] = s]
      BY <2>2 DEF CleanUp, CreateSandbox, ProviderCreate, ProviderDelete, Remember, Forget, providerVars
    <3> QED
      BY <1>1, <1>4, <2>2, <3>1 DEF CleanUp, CreateSandbox
  <2>3. CASE CreateInsert(w) \/ FailUpdate(w) \/ FailInsert(w)
    BY <1>1, <1>2, <2>3 DEF CreateInsert, FailUpdate, FailInsert, CreateInstance, UpdateInstance
  <2>4. CASE RegisterGateway(w)
    BY <1>1, <1>3, <2>4 DEF RegisterGateway, Register
  <2> QED
    BY <1>6, <2>1, <2>2, <2>3, <2>4 DEF CreateStep, ResumeStep, FailStep
<1>7. CASE WakeStep(w) \/ SuspendStep(w)
  <2>1. CASE WakeRead(w) \/ SuspendRead(w)
    BY <1>1, <2>1 DEF WakeRead, SuspendRead
  <2>2. CASE WakeStart(w) \/ SuspendStop(w)
    <3>1. UNCHANGED sbxs
      BY <2>2 DEF WakeStart, SuspendStop, ProviderStart, ProviderStop, providerVars
    <3> QED
      BY <1>1, <2>2, <3>1 DEF WakeStart, SuspendStop
  <2>3. CASE WakeSave(w) \/ SuspendSave(w)
    BY <1>1, <1>2, <2>3 DEF WakeSave, SuspendSave, Save, UpdateInstance
  <2>4. CASE DropConfig(w)
    BY <1>5, <2>4 DEF DropConfig
  <2> QED
    BY <1>7, <2>1, <2>2, <2>3, <2>4 DEF WakeStep, SuspendStep
<1>8. CASE DeleteStep(w) \/ ModelStep(w) \/ Reply(w)
  <2>1. CASE DeleteSandbox(w)
    <3>1. UNCHANGED sbxs \/ \E s : sbxs' = [sbxs EXCEPT ![Host[w]][job[w].user] = s]
      BY <2>1 DEF DeleteSandbox, ProviderDelete, Forget, providerVars
    <3> QED
      BY <1>1, <1>4, <2>1, <3>1 DEF DeleteSandbox
  <2>2. CASE DeleteRoute(w)
    BY <1>1, <1>3, <2>2 DEF DeleteRoute, Unregister
  <2>3. CASE DeleteRecord(w)
    BY <1>1, <1>2, <2>3 DEF DeleteRecord, DeleteInstance
  <2>4. CASE ModelRead(w) \/ ModelInject(w) \/ Reply(w)
    BY <1>1, <2>4 DEF ModelRead, ModelInject, Reply
  <2>5. CASE ModelCache(w)
    BY <1>5, <2>5 DEF ModelCache
  <2> QED
    BY <1>8, <2>1, <2>2, <2>3, <2>4, <2>5 DEF DeleteStep, ModelStep
<1> QED
  BY <1>6, <1>7, <1>8 DEF Serve

-------------------------------------------------------------------------------
(* The fields of the goroutine's job after each kind of move. *)

LEMMA GotoFields ==
    ASSUME TypeInv, NEW w \in Workers, NEW label, Goto(w, label)
    PROVE  pc'[w] = label
  BY DEF Goto, TypeInv, TypeOK

SameRequest(w) ==
    /\ job'[w].op = job[w].op /\ job'[w].user = job[w].user
    /\ job'[w].alive = job[w].alive /\ job'[w].res = job[w].res

LEMMA ReturnFields ==
    ASSUME TypeInv, NEW w \in Workers, NEW res, Return(w, res)
    PROVE  /\ pc'[w] = "reply"
           /\ job'[w].op = job[w].op /\ job'[w].user = job[w].user /\ job'[w].from = job[w].from
           /\ job'[w].inst = NoInstance /\ job'[w].alive = TRUE /\ job'[w].res = res
<1>1. pc \in [Workers -> Labels] /\ job \in [Workers -> Job]
  BY DEF TypeInv, TypeOK
<1>2. pc'[w] = "reply" /\ job'[w] = [NoJob EXCEPT !.op = job[w].op, !.user = job[w].user,
                                                 !.from = job[w].from, !.res = res]
  BY <1>1 DEF Return, Goto, SetJob
<1> QED
  BY <1>2 DEF NoJob

LEMMA ContinueFields ==
    ASSUME TypeInv, NEW w \in Workers, NEW label, Continue(w, label)
    PROVE  pc'[w] = label /\ job'[w] = job[w] /\ SameRequest(w)
  BY DEF Continue, Goto, SameRequest, TypeInv, TypeOK

LEMMA ErrorFields ==
    ASSUME TypeInv, NEW w \in Workers, NEW label, NEW f, ContinueWithError(w, label, f)
    PROVE  /\ pc'[w] = label /\ SameRequest(w)
           /\ job'[w].inst = job[w].inst /\ job'[w].from = job[w].from
           /\ f # "ok" \/ job[w].hit => job'[w].hit
<1>1. pc \in [Workers -> Labels] /\ job \in [Workers -> Job]
  BY DEF TypeInv, TypeOK
<1>2. pc'[w] = label
  BY <1>1 DEF ContinueWithError, Goto
<1>3. job'[w] = [job[w] EXCEPT !.hit = job[w].hit \/ f # "ok"]
  BY <1>1 DEF ContinueWithError, SetJob
<1>4. /\ job'[w].op = job[w].op /\ job'[w].user = job[w].user
      /\ job'[w].alive = job[w].alive /\ job'[w].res = job[w].res
      /\ job'[w].inst = job[w].inst /\ job'[w].from = job[w].from
  BY <1>1, <1>3 DEF Job
<1>5. job'[w].hit = (job[w].hit \/ f # "ok")
  BY <1>1, <1>3 DEF Job
<1> QED
  BY <1>2, <1>4, <1>5 DEF SameRequest

LEMMA LoadFields ==
    ASSUME TypeInv, NEW w \in Workers, NEW label, Load(w, label)
    PROVE  /\ pc'[w] = label /\ SameRequest(w) /\ job'[w].hit = job[w].hit
           /\ job'[w].inst = record[job[w].user] /\ job'[w].from = record[job[w].user].status
  BY DEF Load, Goto, SetJob, SameRequest, TypeInv, TypeOK, Job

(* The row in the goroutine's hands is replaced. *)
LEMMA NewFields ==
    ASSUME TypeInv, NEW w \in Workers, NEW label, Goto(w, label),
           \/ SetJob(w, [job[w] EXCEPT !.inst = NewInstance])
           \/ SetJob(w, [job[w] EXCEPT !.inst = NewInstance, !.from = "failed"])
    PROVE  pc'[w] = label /\ SameRequest(w) /\ job'[w].inst = NewInstance
<1>1. job \in [Workers -> Job] /\ pc \in [Workers -> Labels]
  BY DEF TypeInv, TypeOK
<1>2. CASE SetJob(w, [job[w] EXCEPT !.inst = NewInstance])
  BY <1>1, <1>2 DEF Goto, SetJob, SameRequest, Job
<1>3. CASE SetJob(w, [job[w] EXCEPT !.inst = NewInstance, !.from = "failed"])
  BY <1>1, <1>3 DEF Goto, SetJob, SameRequest, Job
<1> QED
  BY <1>2, <1>3

LEMMA EndpointFields ==
    ASSUME TypeInv, NEW w \in Workers, NEW label, NEW s,
           Goto(w, label), SetJob(w, [job[w] EXCEPT !.inst = WithEndpoint(@, s)])
    PROVE  /\ pc'[w] = label /\ SameRequest(w) /\ job'[w].hit = job[w].hit
           /\ job'[w].inst = WithEndpoint(job[w].inst, s) /\ job'[w].from = job[w].from
  BY DEF Goto, SetJob, SameRequest, TypeInv, TypeOK, Job

LEMMA FailedFields ==
    ASSUME TypeInv, NEW w \in Workers, NEW label, Goto(w, label),
           SetJob(w, [job[w] EXCEPT !.inst = WithStatus(@, "failed")])
    PROVE  /\ pc'[w] = label /\ SameRequest(w) /\ job'[w].hit = job[w].hit
           /\ job'[w].inst = WithStatus(job[w].inst, "failed") /\ job'[w].from = job[w].from
           /\ job'[w].inst.status = "failed"
<1>1. /\ pc'[w] = label /\ SameRequest(w) /\ job'[w].hit = job[w].hit
      /\ job'[w].inst = WithStatus(job[w].inst, "failed") /\ job'[w].from = job[w].from
  BY DEF Goto, SetJob, SameRequest, TypeInv, TypeOK, Job
<1>2. job[w].inst \in Instance
  BY DEF TypeInv, TypeOK, Job
<1>3. WithStatus(job[w].inst, "failed").status = "failed"
  BY <1>2 DEF WithStatus, Instance
<1> QED
  BY <1>1, <1>3

(* A context, once cancelled, stays so until the answer; and every row a   *)
(* goroutine holds was read, is new, or was derived from the one it held.  *)
LEMMA ServeJob ==
    ASSUME TypeInv, NEW w \in Workers, Serve(w)
    PROVE  /\ job'[w].alive \in {job[w].alive, TRUE}
           /\ \/ job'[w].inst \in {job[w].inst, record[job[w].user], NewInstance, NoInstance}
              \/ \E s : job'[w].inst = WithEndpoint(job[w].inst, s)
              \/ \E st : job'[w].inst = WithStatus(job[w].inst, st)
           /\ pc'[w] # "idle" => job'[w].op = job[w].op /\ job'[w].user = job[w].user
           /\ pc'[w] \in Locked => job'[w].res = job[w].res
<1> USE LabelTypes, ReturnFields, ContinueFields, ErrorFields, LoadFields DEF SameRequest
<1>1. CASE CreateStep(w)
  <2>1. CASE CreateRead(w)
    <3>1. \/ Return(w, "ok")
          \/ Load(w, "w_start")
          \/ Goto(w, "c_clean") /\ SetJob(w, [job[w] EXCEPT !.inst = NewInstance, !.from = "failed"])
          \/ Goto(w, "c_new") /\ SetJob(w, [job[w] EXCEPT !.inst = NewInstance])
      BY <2>1 DEF CreateRead
    <3>2. ASSUME NEW label, Goto(w, label),
                 \/ SetJob(w, [job[w] EXCEPT !.inst = NewInstance])
                 \/ SetJob(w, [job[w] EXCEPT !.inst = NewInstance, !.from = "failed"])
          PROVE  job'[w].inst = NewInstance /\ SameRequest(w)
      <4> HIDE DEF SameRequest
      <4> QED BY <3>2, NewFields
    <3> QED
      BY <3>1, <3>2
  <2>2. CASE CleanUp(w)
    BY <2>2 DEF CleanUp
  <2>3. CASE CreateSandbox(w)
    <3>1. \/ \E f : ContinueWithError(w, "f_read", f)
          \/ \E s : Goto(w, "c_register") /\ SetJob(w, [job[w] EXCEPT !.inst = WithEndpoint(@, s)])
      BY <2>3 DEF CreateSandbox
    <3>2. ASSUME NEW label, NEW s, Goto(w, label), SetJob(w, [job[w] EXCEPT !.inst = WithEndpoint(@, s)])
          PROVE  job'[w].inst = WithEndpoint(job[w].inst, s) /\ SameRequest(w)
      <4> HIDE DEF SameRequest
      <4> QED BY <3>2, EndpointFields
    <3>3. CASE \E f : ContinueWithError(w, "f_read", f)
      BY <3>3
    <3>4. CASE \E s : Goto(w, "c_register") /\ SetJob(w, [job[w] EXCEPT !.inst = WithEndpoint(@, s)])
      <4>1. PICK s : Goto(w, "c_register") /\ SetJob(w, [job[w] EXCEPT !.inst = WithEndpoint(@, s)])
        BY <3>4
      <4>2. job'[w].inst = WithEndpoint(job[w].inst, s) /\ SameRequest(w)
        BY <3>2, <4>1
      <4> QED
        BY <4>2
    <3> QED
      BY <3>1, <3>3, <3>4
  <2>4. CASE CreateInsert(w)
    BY <2>4 DEF CreateInsert
  <2> QED
    BY <1>1, <2>1, <2>2, <2>3, <2>4 DEF CreateStep
<1>2. CASE ResumeStep(w)
  BY <1>2 DEF ResumeStep, RegisterGateway, InjectConfig
<1>3. CASE FailStep(w)
  <2>1. CASE FailRead(w)
    <3>1. /\ SetJob(w, [job[w] EXCEPT !.inst = WithStatus(@, "failed")])
          /\ \E label : Goto(w, label)
      BY <2>1 DEF FailRead
    <3>2. job'[w].inst = WithStatus(job[w].inst, "failed") /\ SameRequest(w)
      <4> HIDE DEF SameRequest
      <4> QED BY <3>1, FailedFields
    <3> QED
      BY <3>2
  <2> QED
    BY <1>3, <2>1 DEF FailStep, FailUpdate, FailInsert
<1>4. CASE WakeStep(w)
  <2>1. CASE WakeStart(w)
    <3>1. \/ \E f : ContinueWithError(w, "f_read", f)
          \/ \E s : Goto(w, "w_register") /\ SetJob(w, [job[w] EXCEPT !.inst = WithEndpoint(@, s)])
      BY <2>1 DEF WakeStart
    <3>2. ASSUME NEW label, NEW s, Goto(w, label), SetJob(w, [job[w] EXCEPT !.inst = WithEndpoint(@, s)])
          PROVE  job'[w].inst = WithEndpoint(job[w].inst, s) /\ SameRequest(w)
      <4> HIDE DEF SameRequest
      <4> QED BY <3>2, EndpointFields
    <3>3. CASE \E f : ContinueWithError(w, "f_read", f)
      BY <3>3
    <3>4. CASE \E s : Goto(w, "w_register") /\ SetJob(w, [job[w] EXCEPT !.inst = WithEndpoint(@, s)])
      <4>1. PICK s : Goto(w, "w_register") /\ SetJob(w, [job[w] EXCEPT !.inst = WithEndpoint(@, s)])
        BY <3>4
      <4>2. job'[w].inst = WithEndpoint(job[w].inst, s) /\ SameRequest(w)
        BY <3>2, <4>1
      <4> QED
        BY <4>2
    <3> QED
      BY <3>1, <3>3, <3>4
  <2> QED
    BY <1>4, <2>1 DEF WakeStep, WakeRead, WakeSave, Save
<1>5. CASE SuspendStep(w)
  BY <1>5 DEF SuspendStep, SuspendRead, SuspendStop, DropConfig, SuspendSave, Save
<1>6. CASE DeleteStep(w)
  BY <1>6 DEF DeleteStep, DeleteSandbox, DeleteRoute, DeleteRecord
<1>7. CASE ModelStep(w)
  BY <1>7 DEF ModelStep, ModelRead, ModelInject, ModelCache
<1>8. CASE Reply(w)
  BY <1>8 DEF Reply, Goto, SetJob, NoJob, TypeInv, TypeOK
<1> QED
  BY <1>1, <1>2, <1>3, <1>4, <1>5, <1>6, <1>7, <1>8 DEF Serve

(* What a request writes into the store. *)
LEMMA ServeRow ==
    ASSUME TypeInv, NEW w \in Workers, Serve(w)
    PROVE  \/ UNCHANGED record
           \/ record' = [record EXCEPT ![job[w].user] = job[w].inst]
           \/ record' = [record EXCEPT ![job[w].user] = NoInstance]
           \/ \E st : record' = [record EXCEPT ![job[w].user] = WithStatus(job[w].inst, st)]
<1>1. CASE CreateStep(w) \/ ResumeStep(w) \/ FailStep(w)
  BY <1>1 DEF CreateStep, ResumeStep, FailStep, CreateRead, CleanUp, CreateSandbox, CreateInsert,
     RegisterGateway, InjectConfig, FailRead, FailUpdate, FailInsert, CreateInstance, UpdateInstance
<1>2. CASE WakeStep(w) \/ SuspendStep(w)
  BY <1>2 DEF WakeStep, SuspendStep, WakeRead, WakeStart, WakeSave, SuspendRead, SuspendStop,
     DropConfig, SuspendSave, Save, UpdateInstance
<1>3. CASE DeleteStep(w) \/ ModelStep(w) \/ Reply(w)
  BY <1>3 DEF DeleteStep, ModelStep, DeleteSandbox, DeleteRoute, DeleteRecord, DeleteInstance,
     ModelRead, ModelInject, ModelCache, Reply
<1> QED
  BY <1>1, <1>2, <1>3 DEF Serve

-------------------------------------------------------------------------------
(* A running instance is routed.                                           *)
(*                                                                         *)
(* The route is the gateway's and the map the process's own, so the        *)
(* property needs one process and a gateway that takes every registration  *)
(* and keeps it; and where the store takes a write of a request whose      *)
(* client has gone (db.Memory does), it needs clients that stay.           *)

GatewayAnswers == Faults \cap {"register", "gatewayRestart"} = {}
DeadRequestsWriteNothing == StoreKind = "postgres" \/ "disconnect" \notin Faults

(* No row has a sandbox id: the store never learns it. *)
NoIdStored ==
    /\ \A u \in Users : record[u].sandboxID = NoSandbox
    /\ \A w \in Workers : job[w].inst.sandboxID = NoSandbox

Routes(u) ==
    record[u].status = "running" =>
        /\ record[u].endpoint # NoSandbox
        /\ \A r \in Replicas : sbxs[r][u] = record[u].endpoint => route[u] = record[u].endpoint

Registering == {"c_register", "w_register"}
Resumed == {"c_inject", "w_inject", "c_insert", "w_update"}
Forgotten == {"d_unregister", "d_uncache", "d_store"}

(* What a goroutine under m.mu knows of its user's sandbox and route. *)
KnowsRoute(w) ==
    /\ pc[w] \in Registering \cup Resumed => job[w].inst.endpoint # NoSandbox
    /\ pc[w] \in Registering => sbxs[Host[w]][job[w].user] = job[w].inst.endpoint
    /\ pc[w] \in Resumed => route[job[w].user] = job[w].inst.endpoint \/ CannotWrite(w)
    /\ pc[w] \in Forgotten => ~Known(Host[w], job[w].user)
    /\ pc[w] \in {"f_update", "f_insert"} => job[w].inst.status = "failed"

(* The inductive invariant. *)
RoutingInv ==
    /\ TypeInv
    /\ NoIdStored
    /\ \A u \in Users : Routes(u)
    /\ \A w \in Workers : /\ HoldsLock(w)
                          /\ StoreKind = "memory" => job[w].alive
                          /\ KnowsRoute(w)

LEMMA RouteLabels ==
    Registering \cup Resumed \cup Forgotten \cup {"f_update", "f_insert"} \subseteq Locked
  BY LabelTypes DEF Registering, Resumed, Forgotten

LEMMA NoIdStep ==
    ASSUME TypeInv, TypeInv', NoIdStored, NEW w \in Workers, Serve(w)
    PROVE  NoIdStored'
<1>1. /\ NoInstance.sandboxID = NoSandbox /\ NewInstance.sandboxID = NoSandbox
      /\ \A i \in Instance : \A s : WithEndpoint(i, s).sandboxID = i.sandboxID
      /\ \A i \in Instance : \A st : WithStatus(i, st).sandboxID = i.sandboxID
  BY DEF NoInstance, NewInstance, WithEndpoint, WithStatus, Instance
<1>2. pc[w] # "idle" /\ \A v \in Workers \ {w} : job'[v] = job[v]
  BY ServeMoves, LabelTypes DEF Moves
<1>3. job[w].user \in Users /\ job[w].inst \in Instance
  BY <1>2, WorkerTypes
<1>4. job[w].inst.sandboxID = NoSandbox /\ record[job[w].user].sandboxID = NoSandbox
  BY <1>3 DEF NoIdStored
<1>5. job'[w].inst.sandboxID = NoSandbox
  <2>1. \/ job'[w].inst \in {job[w].inst, record[job[w].user], NewInstance, NoInstance}
        \/ \E s : job'[w].inst = WithEndpoint(job[w].inst, s)
        \/ \E st : job'[w].inst = WithStatus(job[w].inst, st)
    BY ServeJob
  <2> QED
    BY <1>1, <1>3, <1>4, <2>1
<1>6. \A u \in Users : record'[u].sandboxID = NoSandbox
  <2> SUFFICES ASSUME NEW u \in Users PROVE record'[u].sandboxID = NoSandbox
    OBVIOUS
  <2>1. CASE u # job[w].user
    BY <2>1, ServeFrame DEF NoIdStored
  <2>2. record'[job[w].user].sandboxID = NoSandbox
    <3>1. record \in [Users -> Instance]
      BY DEF TypeInv, TypeOK
    <3>2. record' = record \/ \E i : record' = [record EXCEPT ![job[w].user] = i] /\ i.sandboxID = NoSandbox
      BY <1>1, <1>3, <1>4, ServeRow
    <3> QED
      BY <1>3, <1>4, <3>1, <3>2
  <2> QED
    BY <2>1, <2>2
<1> QED
  BY <1>2, <1>5, <1>6 DEF NoIdStored

(* The lock is exclusive in a process, and with one process everywhere. *)
LEMMA NobodyElse ==
    ASSUME OneReplica, \A v \in Workers : HoldsLock(v), NEW w \in Workers, pc[w] \in Locked,
           NEW v \in Workers, v # w
    PROVE  pc[v] \notin Locked
<1>1. Host[v] = Host[w]
  BY ConstantsAssumption DEF OneReplica
<1> QED
  BY <1>1 DEF HoldsLock

LEMMA FreeLock ==
    ASSUME OneReplica, \A v \in Workers : HoldsLock(v), NEW w \in Workers,
           lock[Host[w]] = NoWorker, NEW v \in Workers
    PROVE  pc[v] \notin Locked
<1>1. Host[v] = Host[w]
  BY ConstantsAssumption DEF OneReplica
<1> QED
  BY <1>1, ConstantsAssumption DEF HoldsLock

LEMMA LockStep ==
    ASSUME OneReplica, TypeInv, \A v \in Workers : HoldsLock(v), NEW w \in Workers, Serve(w)
    PROVE  \A v \in Workers : HoldsLock(v)'
<1>1. Moves(w)
  BY ServeMoves
<1>2. CASE pc[w] \in Locked
  <2>1. \A v \in Workers \ {w} : pc'[v] \notin Locked
    BY <1>1, <1>2, NobodyElse DEF Moves
  <2>2. HoldsLock(w)'
    BY <1>1, <1>2, LabelTypes DEF Moves, HoldsLock
  <2> QED
    BY <2>1, <2>2 DEF HoldsLock
<1>3. CASE pc'[w] = "idle" /\ UNCHANGED lock
  BY <1>1, <1>3, LabelTypes DEF Moves, HoldsLock
<1> QED
  BY <1>1, <1>2, <1>3 DEF Moves

(* A step under m.mu only has to show what it does to its own user. *)
LEMMA RoutingStep ==
    ASSUME OneReplica, RoutingInv, TypeInv', NEW w \in Workers, Serve(w), pc[w] \in Locked,
           KnowsRoute(w)', \A u \in Users : u = job[w].user => Routes(u)'
    PROVE  RoutingInv'
<1>1. Moves(w)
  BY ServeMoves DEF RoutingInv
<1>2. ASSUME NEW u \in Users PROVE Routes(u)'
  <2>1. CASE u = job[w].user
    BY <2>1
  <2>2. CASE u # job[w].user
    <3>1. /\ record'[u] = record[u] /\ route'[u] = route[u]
          /\ \A r \in Replicas : sbxs'[r][u] = sbxs[r][u]
      BY <2>2, ServeFrame DEF RoutingInv
    <3> QED
      BY <3>1 DEF Routes, RoutingInv
  <2> QED
    BY <2>1, <2>2
<1>3. ASSUME NEW v \in Workers, v # w PROVE KnowsRoute(v)'
  <2>1. pc'[v] \notin Locked
    BY <1>1, <1>3, NobodyElse DEF Moves, RoutingInv
  <2> QED
    BY <2>1, RouteLabels DEF KnowsRoute
<1>4. ASSUME NEW v \in Workers, StoreKind = "memory" PROVE job'[v].alive
  <2>1. CASE v = w
    BY <1>4, <2>1, ServeJob DEF RoutingInv
  <2>2. CASE v # w
    BY <1>1, <1>4, <2>2 DEF RoutingInv, Moves
  <2> QED
    BY <2>1, <2>2
<1>5. (\A v \in Workers : HoldsLock(v))' /\ NoIdStored'
  BY LockStep, NoIdStep DEF RoutingInv
<1> QED
  BY <1>2, <1>3, <1>4, <1>5 DEF RoutingInv

(* Nothing has to be known at the other labels. *)
LEMMA PlainRoutingStep ==
    ASSUME OneReplica, RoutingInv, TypeInv', NEW w \in Workers, Serve(w), pc[w] \in Locked,
           pc'[w] \notin Registering \cup Resumed \cup Forgotten \cup {"f_update", "f_insert"},
           \A u \in Users : u = job[w].user => Routes(u)'
    PROVE  RoutingInv'
<1>1. KnowsRoute(w)'
  BY DEF KnowsRoute
<1> QED
  BY <1>1, RoutingStep

LEMMA RoutesKept ==
    ASSUME RoutingInv, UNCHANGED <<record, route, sbxs>>
    PROVE  \A u \in Users : Routes(u)'
  BY DEF RoutingInv, Routes

(* The user's entry of the map is dropped: the row of a running instance   *)
(* has an endpoint, which is not "none".                                   *)
LEMMA RoutesForget ==
    ASSUME OneReplica, RoutingInv, NEW w \in Workers, pc[w] # "idle", UNCHANGED <<record, route>>,
           sbxs' = sbxs \/ sbxs'[Host[w]][job[w].user] = NoSandbox
    PROVE  \A u \in Users : u = job[w].user => Routes(u)'
<1>1. Host[w] \in Replicas /\ \A r \in Replicas : r = Host[w]
  BY WorkerTypes DEF RoutingInv, OneReplica
<1> QED
  BY <1>1 DEF RoutingInv, Routes

LEMMA RoutesWritten ==
    ASSUME RoutingInv, NEW w \in Workers, pc[w] # "idle", UNCHANGED <<route, sbxs>>,
           NEW i, record' = [record EXCEPT ![job[w].user] = i],
           i.status = "running" => i.endpoint # NoSandbox /\ route[job[w].user] = i.endpoint
    PROVE  \A u \in Users : u = job[w].user => Routes(u)'
<1>1. job[w].user \in Users /\ record \in [Users -> Instance]
  BY WorkerTypes DEF RoutingInv, TypeInv, TypeOK
<1>2. record'[job[w].user] = i
  BY <1>1
<1> QED
  BY <1>2 DEF Routes

(* What Delete of the provider does to its map. *)
LEMMA DeleteForgets ==
    ASSUME sbxs \in [Replicas -> [Users -> SandboxOrNone]], NEW r \in Replicas, NEW u \in Users,
           NEW f, ProviderDelete(r, u, f)
    PROVE  /\ sbxs' = sbxs \/ sbxs'[r][u] = NoSandbox
           /\ CanDelete(r, u, f) => sbxs'[r][u] = NoSandbox
<1>1. Forget(r, u) => sbxs'[r][u] = NoSandbox
  BY MapEntry DEF Forget
<1> QED
  BY <1>1 DEF ProviderDelete, CanDelete, Known, providerVars

(* Create: the steps that only read, and those of the provider. *)
LEMMA CreateKeepsRouting ==
    ASSUME OneReplica, RoutingInv, TypeInv', NEW w \in Workers, CreateStep(w)
    PROVE  RoutingInv'
<1>0. TypeInv /\ Serve(w) /\ KnowsRoute(w)
  BY DEF RoutingInv, Serve
<1>1. CASE CreateRead(w)
  <2>1. pc[w] \in Locked /\ UNCHANGED <<record, route, sbxs>>
    BY <1>1, LabelTypes DEF CreateRead
  <2>2. pc'[w] \in {"reply", "w_start", "c_clean", "c_new"}
    <3>1. \E label \in {"reply", "w_start", "c_clean", "c_new"} : Goto(w, label)
      BY <1>1 DEF CreateRead, Return, Load
    <3> QED
      BY <1>0, <3>1, GotoFields
  <2> QED
    BY <1>0, <2>1, <2>2, RoutesKept, PlainRoutingStep DEF Registering, Resumed, Forgotten
<1>2. CASE CleanUp(w)
  <2>1. pc[w] \in Locked /\ UNCHANGED <<record, route>>
    BY <1>2, LabelTypes DEF CleanUp
  <2>2. pc'[w] \in {"c_new", "f_read"}
    BY <1>0, <1>2, ContinueFields DEF CleanUp
  <2>3. \A u \in Users : u = job[w].user => Routes(u)'
    <3>1. job[w].user \in Users /\ Host[w] \in Replicas
      BY <1>0, <2>1, LabelTypes, WorkerTypes
    <3>2. sbxs' = sbxs \/ sbxs'[Host[w]][job[w].user] = NoSandbox
      BY <1>0, <1>2, <3>1, DeleteForgets DEF CleanUp, TypeInv, TypeOK
    <3> QED
      BY <2>1, <3>2, LabelTypes, RoutesForget
  <2> QED
    BY <1>0, <2>1, <2>2, <2>3, PlainRoutingStep DEF Registering, Resumed, Forgotten
<1>3. CASE CreateSandbox(w)
  <2>1. pc[w] \in Locked /\ UNCHANGED <<record, route>>
    BY <1>3, LabelTypes DEF CreateSandbox
  <2>2. job[w].user \in Users /\ Host[w] \in Replicas /\ \A r \in Replicas : r = Host[w]
    BY <1>0, <2>1, LabelTypes, WorkerTypes DEF OneReplica
  <2>3. ASSUME NEW s \in Sandboxes, NEW f, Fresh(s), ProviderCreate(Host[w], job[w].user, s, f)
        PROVE  /\ \A u \in Users : u = job[w].user => Routes(u)'
               /\ f = "ok" => sbxs'[Host[w]][job[w].user] = s
    <3>1. \/ sbxs' = sbxs /\ f # "ok"
          \/ sbxs'[Host[w]][job[w].user] = s
      <4>1. Remember(Host[w], job[w].user, s) => sbxs'[Host[w]][job[w].user] = s
        BY <1>0, <2>2, MapEntry DEF Remember, TypeInv, TypeOK
      <4> QED
        BY <2>3, <4>1 DEF ProviderCreate, providerVars
    <3>2. record[job[w].user].endpoint # s
      BY <2>2, <2>3 DEF Fresh
    <3> QED
      BY <2>1, <2>2, <3>1, <3>2 DEF RoutingInv, Routes
  <2>4. ASSUME NEW s \in Sandboxes, NEW f, Fresh(s), ProviderCreate(Host[w], job[w].user, s, f),
               f = "ok", Goto(w, "c_register"), SetJob(w, [job[w] EXCEPT !.inst = WithEndpoint(@, s)])
        PROVE  RoutingInv'
    <3>1. pc'[w] = "c_register" /\ job'[w].user = job[w].user /\ job'[w].inst = WithEndpoint(job[w].inst, s)
      BY <1>0, <2>4, EndpointFields DEF SameRequest
    <3>2. job'[w].inst.endpoint = s /\ s # NoSandbox
      BY <1>0, <2>1, <3>1, LabelTypes, WorkerTypes, ConstantsAssumption DEF WithEndpoint, Instance
    <3>3. KnowsRoute(w)'
      BY <2>3, <2>4, <3>1, <3>2 DEF KnowsRoute, Registering, Resumed, Forgotten
    <3> QED
      BY <1>0, <2>1, <2>3, <2>4, <3>3, RoutingStep
  <2>5. ASSUME NEW f, ContinueWithError(w, "f_read", f), \A u \in Users : u = job[w].user => Routes(u)'
        PROVE  RoutingInv'
    BY <1>0, <2>1, <2>5, ErrorFields, PlainRoutingStep DEF Registering, Resumed, Forgotten
  <2>6. UNCHANGED providerVars => \A u \in Users : u = job[w].user => Routes(u)'
    BY <2>1, RoutesKept DEF providerVars
  <2> QED
    BY <1>3, <2>3, <2>4, <2>5, <2>6 DEF CreateSandbox
<1>4. CASE CreateInsert(w)
  <2>1. pc[w] \in Locked /\ UNCHANGED <<route, sbxs>>
    BY <1>4, LabelTypes DEF CreateInsert
  <2>2. pc'[w] \in {"reply", "c_undo"}
    BY <1>0, <1>4, ReturnFields, ErrorFields DEF CreateInsert
  <2>3. CASE UNCHANGED record
    BY <1>0, <2>1, <2>2, <2>3, RoutesKept, PlainRoutingStep DEF Registering, Resumed, Forgotten
  <2>4. ASSUME NEW f \in WriteOutcomes(w), WriteTakes(f), CreateInstance(job[w].user, job[w].inst)
        PROVE  RoutingInv'
    <3>1. route[job[w].user] = job[w].inst.endpoint /\ job[w].inst.endpoint # NoSandbox
      BY <1>0, <1>4, <2>4, DeadWrites DEF CreateInsert, KnowsRoute, Resumed
    <3>2. \A u \in Users : u = job[w].user => Routes(u)'
      BY <2>1, <2>4, <3>1, LabelTypes, RoutesWritten DEF CreateInstance
    <3> QED
      BY <1>0, <2>1, <2>2, <3>2, PlainRoutingStep DEF Registering, Resumed, Forgotten
  <2> QED
    BY <1>4, <2>3, <2>4 DEF CreateInsert, WriteTakes
<1> QED
  BY <1>1, <1>2, <1>3, <1>4 DEF CreateStep
(* Registration and injection. *)
LEMMA ResumeKeepsRouting ==
    ASSUME OneReplica, GatewayAnswers, RoutingInv, TypeInv', NEW w \in Workers, ResumeStep(w)
    PROVE  RoutingInv'
<1>0. TypeInv /\ Serve(w) /\ KnowsRoute(w) /\ (StoreKind = "memory" => job[w].alive)
  BY DEF RoutingInv, Serve
<1>1. pc[w] \in Locked
  BY LabelTypes DEF ResumeStep, RegisterGateway, InjectConfig
<1>2. job[w].user \in Users /\ Host[w] \in Replicas /\ \A r \in Replicas : r = Host[w]
  BY <1>0, <1>1, LabelTypes, WorkerTypes DEF OneReplica
<1>3. CASE RegisterGateway(w)
  <2>1. PICK label \in {"c_inject", "w_inject"} : Continue(w, label)
    BY <1>3 DEF RegisterGateway
  <2>2. pc'[w] = label /\ job'[w] = job[w] /\ UNCHANGED <<record, sbxs>>
    BY <1>0, <1>3, <2>1, ContinueFields DEF RegisterGateway
  <2>3. /\ job[w].inst.endpoint # NoSandbox
        /\ sbxs[Host[w]][job[w].user] = job[w].inst.endpoint
    BY <1>0, <1>3 DEF RegisterGateway, KnowsRoute, Registering
  <2>4. route' = [route EXCEPT ![job[w].user] = job[w].inst.endpoint] \/ (UNCHANGED route /\ CannotWrite(w))
    <3>1. PICK f \in Outcomes(w, "register", {}) :
             Register(job[w].user, job[w].inst.endpoint) \/ (f # "ok" /\ UNCHANGED route)
      BY <1>3 DEF RegisterGateway
    <3>2. f # "ok" => ~job[w].alive
      BY DEF Outcomes, GatewayAnswers
    <3> QED
      BY <1>0, <3>1, <3>2, ConstantsAssumption DEF Register, CannotWrite
  <2>5. route'[job[w].user] = job[w].inst.endpoint \/ (UNCHANGED route /\ CannotWrite(w))
    BY <1>0, <1>2, <2>4 DEF TypeInv, TypeOK
  <2>6. \A u \in Users : u = job[w].user => Routes(u)'
    BY <1>2, <2>2, <2>3, <2>5 DEF RoutingInv, Routes
  <2>7. KnowsRoute(w)'
    BY <2>2, <2>3, <2>5 DEF KnowsRoute, Registering, Resumed, Forgotten, CannotWrite
  <2> QED
    BY <1>0, <1>1, <2>6, <2>7, RoutingStep
<1>4. CASE InjectConfig(w)
  <2>1. PICK label \in {"c_insert", "w_update"} : Continue(w, label)
    BY <1>4 DEF InjectConfig
  <2>2. pc'[w] = label /\ job'[w] = job[w] /\ UNCHANGED <<record, sbxs, route>>
    BY <1>0, <1>4, <2>1, ContinueFields DEF InjectConfig
  <2>3. KnowsRoute(w)'
    BY <1>0, <1>4, <2>2 DEF InjectConfig, KnowsRoute, Registering, Resumed, Forgotten, CannotWrite
  <2> QED
    BY <1>0, <1>1, <2>2, <2>3, RoutesKept, RoutingStep
<1> QED
  BY <1>3, <1>4 DEF ResumeStep

(* failInstance writes a row that is not running. *)
LEMMA FailKeepsRouting ==
    ASSUME OneReplica, RoutingInv, TypeInv', NEW w \in Workers, FailStep(w)
    PROVE  RoutingInv'
<1>0. TypeInv /\ Serve(w) /\ KnowsRoute(w)
  BY DEF RoutingInv, Serve
<1>1. pc[w] \in Locked
  BY LabelTypes DEF FailStep, FailRead, FailUpdate, FailInsert
<1>2. CASE FailRead(w)
  <2>1. UNCHANGED <<record, sbxs, route>> /\ job'[w].inst.status = "failed"
        /\ pc'[w] \in {"f_update", "f_insert"}
    <3>1. /\ SetJob(w, [job[w] EXCEPT !.inst = WithStatus(@, "failed")])
          /\ \E label \in {"f_update", "f_insert"} : Goto(w, label)
          /\ UNCHANGED <<record, sbxs, route>>
      BY <1>2 DEF FailRead
    <3> QED
      BY <1>0, <3>1, FailedFields
  <2>2. KnowsRoute(w)'
    BY <2>1 DEF KnowsRoute, Registering, Resumed, Forgotten
  <2> QED
    BY <1>0, <1>1, <2>1, <2>2, RoutesKept, RoutingStep
<1>3. CASE FailUpdate(w) \/ FailInsert(w)
  <2>1. UNCHANGED <<sbxs, route>> /\ pc'[w] = "reply" /\ job[w].inst.status = "failed"
    BY <1>0, <1>3, ReturnFields DEF FailUpdate, FailInsert, KnowsRoute
  <2>2. UNCHANGED record \/ record' = [record EXCEPT ![job[w].user] = job[w].inst]
    BY <1>3 DEF FailUpdate, FailInsert, UpdateInstance, CreateInstance
  <2>3. \A u \in Users : u = job[w].user => Routes(u)'
    BY <1>1, <2>1, <2>2, LabelTypes, RoutesKept, RoutesWritten
  <2> QED
    BY <1>0, <1>1, <2>1, <2>3, PlainRoutingStep DEF Registering, Resumed, Forgotten
<1> QED
  BY <1>2, <1>3 DEF FailStep
LEMMA WakeKeepsRouting ==
    ASSUME OneReplica, RoutingInv, TypeInv', NEW w \in Workers, WakeStep(w)
    PROVE  RoutingInv'
<1>0. TypeInv /\ Serve(w) /\ KnowsRoute(w)
  BY DEF RoutingInv, Serve
<1>1. pc[w] \in Locked
  BY LabelTypes DEF WakeStep, WakeRead, WakeStart, WakeSave
<1>2. job[w].user \in Users /\ Host[w] \in Replicas /\ job[w].inst \in Instance
  BY <1>0, <1>1, LabelTypes, WorkerTypes
<1>3. CASE WakeRead(w)
  <2>1. UNCHANGED <<record, route, sbxs>> /\ pc'[w] \in {"reply", "w_start"}
    BY <1>0, <1>3, ReturnFields, LoadFields DEF WakeRead
  <2> QED
    BY <1>0, <1>1, <2>1, RoutesKept, PlainRoutingStep DEF Registering, Resumed, Forgotten
<1>4. CASE WakeStart(w)
  <2>1. UNCHANGED <<record, route, sbxs>>
    BY <1>4 DEF WakeStart, ProviderStart, providerVars
  <2>2. CASE \E f : ContinueWithError(w, "f_read", f)
    BY <1>0, <1>1, <2>1, <2>2, ErrorFields, RoutesKept, PlainRoutingStep
    DEF Registering, Resumed, Forgotten
  <2>3. CASE /\ Known(Host[w], job[w].user)
             /\ Goto(w, "w_register")
             /\ SetJob(w, [job[w] EXCEPT !.inst = WithEndpoint(@, sbxs[Host[w]][job[w].user])])
    <3>1. /\ pc'[w] = "w_register" /\ job'[w].user = job[w].user
          /\ job'[w].inst = WithEndpoint(job[w].inst, sbxs[Host[w]][job[w].user])
      BY <1>0, <2>3, EndpointFields DEF SameRequest
    <3>2. job'[w].inst.endpoint = sbxs[Host[w]][job[w].user]
      BY <1>2, <3>1 DEF WithEndpoint, Instance
    <3>3. KnowsRoute(w)'
      BY <2>1, <2>3, <3>1, <3>2 DEF KnowsRoute, Registering, Resumed, Forgotten, Known
    <3> QED
      BY <1>0, <1>1, <2>1, <3>3, RoutesKept, RoutingStep
  <2> QED
    BY <1>4, <2>2, <2>3 DEF WakeStart, CanStart
<1>5. CASE WakeSave(w)
  <2>1. UNCHANGED <<sbxs, route>> /\ pc'[w] = "reply"
    BY <1>0, <1>5, ReturnFields DEF WakeSave, Save
  <2>2. CASE UNCHANGED record
    BY <1>0, <1>1, <2>1, <2>2, RoutesKept, PlainRoutingStep DEF Registering, Resumed, Forgotten
  <2>3. ASSUME NEW f \in WriteOutcomes(w), WriteTakes(f),
               UpdateInstance(job[w].user, WithStatus(job[w].inst, "running"))
        PROVE  RoutingInv'
    <3>1. route[job[w].user] = job[w].inst.endpoint /\ job[w].inst.endpoint # NoSandbox
      BY <1>0, <1>5, <2>3, DeadWrites DEF WakeSave, KnowsRoute, Resumed
    <3>2. WithStatus(job[w].inst, "running").endpoint = job[w].inst.endpoint
      BY <1>2 DEF WithStatus, Instance
    <3>3. \A u \in Users : u = job[w].user => Routes(u)'
      BY <1>1, <2>1, <2>3, <3>1, <3>2, LabelTypes, RoutesWritten DEF UpdateInstance
    <3> QED
      BY <1>0, <1>1, <2>1, <3>3, PlainRoutingStep DEF Registering, Resumed, Forgotten
  <2> QED
    BY <1>5, <2>2, <2>3 DEF WakeSave, Save
<1> QED
  BY <1>3, <1>4, <1>5 DEF WakeStep

LEMMA SuspendKeepsRouting ==
    ASSUME OneReplica, RoutingInv, TypeInv', NEW w \in Workers, SuspendStep(w)
    PROVE  RoutingInv'
<1>0. TypeInv /\ Serve(w) /\ KnowsRoute(w)
  BY DEF RoutingInv, Serve
<1>1. pc[w] \in Locked
  BY LabelTypes DEF SuspendStep, SuspendRead, SuspendStop, DropConfig, SuspendSave
<1>2. CASE SuspendRead(w)
  <2>1. UNCHANGED <<record, route, sbxs>> /\ pc'[w] \in {"reply", "s_stop"}
    BY <1>0, <1>2, ReturnFields, LoadFields DEF SuspendRead
  <2> QED
    BY <1>0, <1>1, <2>1, RoutesKept, PlainRoutingStep DEF Registering, Resumed, Forgotten
<1>3. CASE SuspendStop(w)
  <2>1. UNCHANGED <<record, route, sbxs>>
    BY <1>3 DEF SuspendStop, ProviderStop, providerVars
  <2>2. pc'[w] \in {"reply", "s_uncache"}
    BY <1>0, <1>3, ReturnFields, ContinueFields DEF SuspendStop
  <2> QED
    BY <1>0, <1>1, <2>1, <2>2, RoutesKept, PlainRoutingStep DEF Registering, Resumed, Forgotten
<1>4. CASE DropConfig(w)
  <2>1. PICK label : Continue(w, label) /\ label = IF pc[w] = "s_uncache" THEN "s_update" ELSE "d_store"
    BY <1>4 DEF DropConfig
  <2>2. pc'[w] = label /\ job'[w] = job[w] /\ UNCHANGED <<record, route, sbxs>>
    BY <1>0, <1>4, <2>1, ContinueFields DEF DropConfig
  <2>3. KnowsRoute(w)'
    BY <1>0, <1>4, <2>1, <2>2 DEF DropConfig, KnowsRoute, Registering, Resumed, Forgotten, Known
  <2> QED
    BY <1>0, <1>1, <2>2, <2>3, RoutesKept, RoutingStep
<1>5. CASE SuspendSave(w)
  <2>1. UNCHANGED <<sbxs, route>> /\ pc'[w] = "reply"
    BY <1>0, <1>5, ReturnFields DEF SuspendSave, Save
  <2>2. UNCHANGED record
        \/ record' = [record EXCEPT ![job[w].user] = WithStatus(job[w].inst, "suspended")]
    BY <1>5 DEF SuspendSave, Save, UpdateInstance
  <2>3. WithStatus(job[w].inst, "suspended").status = "suspended"
    BY <1>0, <1>1, LabelTypes, WorkerTypes DEF WithStatus, Instance
  <2>4. \A u \in Users : u = job[w].user => Routes(u)'
    BY <1>1, <2>1, <2>2, <2>3, LabelTypes, RoutesKept, RoutesWritten
  <2> QED
    BY <1>0, <1>1, <2>1, <2>4, PlainRoutingStep DEF Registering, Resumed, Forgotten
<1> QED
  BY <1>2, <1>3, <1>4, <1>5 DEF SuspendStep

LEMMA DeleteKeepsRouting ==
    ASSUME OneReplica, RoutingInv, TypeInv', NEW w \in Workers, DeleteStep(w)
    PROVE  RoutingInv'
<1>0. TypeInv /\ Serve(w) /\ KnowsRoute(w)
  BY DEF RoutingInv, Serve
<1>1. pc[w] \in Locked
  BY LabelTypes DEF DeleteStep, DeleteSandbox, DeleteRoute, DeleteRecord
<1>2. job[w].user \in Users /\ Host[w] \in Replicas /\ \A r \in Replicas : r = Host[w]
  BY <1>0, <1>1, LabelTypes, WorkerTypes DEF OneReplica
<1>3. CASE DeleteSandbox(w)
  <2>1. UNCHANGED <<record, route>>
    BY <1>3 DEF DeleteSandbox
  <2>2. PICK f : /\ ProviderDelete(Host[w], job[w].user, f)
                 /\ \/ CanDelete(Host[w], job[w].user, f) /\ Continue(w, "d_unregister")
                    \/ Return(w, "faulted")
    BY <1>3 DEF DeleteSandbox
  <2>3. /\ sbxs' = sbxs \/ sbxs'[Host[w]][job[w].user] = NoSandbox
        /\ CanDelete(Host[w], job[w].user, f) => sbxs'[Host[w]][job[w].user] = NoSandbox
    BY <1>0, <1>2, <2>2, DeleteForgets DEF TypeInv, TypeOK
  <2>4. \A u \in Users : u = job[w].user => Routes(u)'
    BY <1>1, <2>1, <2>3, LabelTypes, RoutesForget
  <2>5. CASE Return(w, "faulted")
    BY <1>0, <1>1, <2>4, <2>5, ReturnFields, PlainRoutingStep DEF Registering, Resumed, Forgotten
  <2>6. CASE CanDelete(Host[w], job[w].user, f) /\ Continue(w, "d_unregister")
    <3>1. pc'[w] = "d_unregister" /\ job'[w] = job[w]
      BY <1>0, <2>6, ContinueFields
    <3>2. KnowsRoute(w)'
      BY <2>3, <2>6, <3>1 DEF KnowsRoute, Registering, Resumed, Forgotten, Known
    <3> QED
      BY <1>0, <1>1, <2>4, <3>2, RoutingStep
  <2> QED
    BY <2>2, <2>5, <2>6
<1>4. CASE DeleteRoute(w)
  <2>1. Continue(w, "d_uncache") /\ UNCHANGED <<record, sbxs>>
    BY <1>4 DEF DeleteRoute
  <2>2. pc'[w] = "d_uncache" /\ job'[w] = job[w] /\ ~Known(Host[w], job[w].user)
    BY <1>0, <1>4, <2>1, ContinueFields DEF DeleteRoute, KnowsRoute, Forgotten
  <2>3. KnowsRoute(w)'
    BY <2>1, <2>2 DEF KnowsRoute, Registering, Resumed, Forgotten, Known
  <2>4. \A u \in Users : u = job[w].user => Routes(u)'
    BY <1>2, <2>1, <2>2 DEF RoutingInv, Routes, Known
  <2> QED
    BY <1>0, <1>1, <2>3, <2>4, RoutingStep
<1>5. CASE DeleteRecord(w)
  <2>1. UNCHANGED <<sbxs, route>> /\ pc'[w] = "reply"
    BY <1>0, <1>5, ReturnFields DEF DeleteRecord
  <2>2. UNCHANGED record \/ record' = [record EXCEPT ![job[w].user] = NoInstance]
    BY <1>5 DEF DeleteRecord, DeleteInstance
  <2>3. \A u \in Users : u = job[w].user => Routes(u)'
    BY <1>1, <2>1, <2>2, LabelTypes, RoutesKept, RoutesWritten DEF NoInstance
  <2> QED
    BY <1>0, <1>1, <2>1, <2>3, PlainRoutingStep DEF Registering, Resumed, Forgotten
<1> QED
  BY <1>3, <1>4, <1>5 DEF DeleteStep

LEMMA ModelKeepsRouting ==
    ASSUME OneReplica, RoutingInv, TypeInv', NEW w \in Workers, ModelStep(w)
    PROVE  RoutingInv'
<1>0. TypeInv /\ Serve(w)
  BY DEF RoutingInv, Serve
<1>1. pc[w] \in Locked /\ UNCHANGED <<record, route, sbxs>>
  BY LabelTypes DEF ModelStep, ModelRead, ModelInject, ModelCache
<1>2. \E label \in {"reply", "m_inject", "m_cache"} : Goto(w, label)
  BY DEF ModelStep, ModelRead, ModelInject, ModelCache, Return, Continue, Load
<1>3. pc'[w] \in {"reply", "m_inject", "m_cache"}
  BY <1>0, <1>2, GotoFields
<1> QED
  BY <1>0, <1>1, <1>3, RoutesKept, PlainRoutingStep DEF Registering, Resumed, Forgotten

(* The environment, and the beginning and the end of a request. *)
LEMMA OutsideKeepsRouting ==
    ASSUME OneReplica, GatewayAnswers, DeadRequestsWriteNothing, RoutingInv, TypeInv',
           \/ Environment
           \/ \E w \in Workers : Reply(w) \/ \E op \in Ops, u \in Users : Begin(w, op, u)
    PROVE  RoutingInv'
<1>0. TypeInv
  BY DEF RoutingInv
<1>1. ASSUME UNCHANGED <<record, route, sbxs, lock, pc, job>> PROVE RoutingInv'
  BY <1>1 DEF RoutingInv, Routes, NoIdStored, HoldsLock, KnowsRoute, CannotWrite, Known
<1>2. ASSUME NEW r \in Replicas, NEW u \in Users, ExpireConfig(r, u) PROVE RoutingInv'
  BY <1>1, <1>2 DEF ExpireConfig
<1>3. ASSUME NEW s \in Sandboxes, SandboxDies(s) PROVE RoutingInv'
  BY <1>1, <1>3 DEF SandboxDies
<1>4. ASSUME NEW w \in Workers, Disconnect(w) PROVE RoutingInv'
  <2>1. /\ StoreKind = "postgres" /\ UNCHANGED <<record, route, sbxs, lock, pc>>
        /\ \A v \in Workers : /\ job'[v].user = job[v].user /\ job'[v].inst = job[v].inst
                              /\ ~job[v].alive => ~job'[v].alive
    BY <1>0, <1>4 DEF Disconnect, DeadRequestsWriteNothing, SetJob, TypeInv, TypeOK, Job
  <2> QED
    BY <2>1 DEF RoutingInv, Routes, NoIdStored, HoldsLock, KnowsRoute, CannotWrite, Known
<1>5. ASSUME NEW r \in Replicas, Crash(r) PROVE RoutingInv'
  <2>1. \A w \in Workers : pc'[w] = "idle" /\ job'[w] = NoJob
    BY <1>5, ConstantsAssumption DEF Crash, OneReplica
  <2>2. \A u \in Users : record'[u] \in {record[u], NoInstance}
    BY <1>5 DEF Crash, StoreAfterRestart
  <2>3. NoIdStored'
    BY <2>1, <2>2 DEF RoutingInv, NoIdStored, NoInstance, NoJob
  <2>4. \A q \in Replicas, u \in Users : sbxs'[q][u] = NoSandbox
    BY <1>0, <1>5, <2>3 DEF Crash, Seed, OneReplica, NoIdStored, TypeInv, TypeOK
  <2>5. \A u \in Users : Routes(u)'
    BY <2>2, <2>4 DEF RoutingInv, Routes, NoInstance
  <2> QED
    BY <2>1, <2>3, <2>5, RouteLabels, LabelTypes DEF RoutingInv, HoldsLock, KnowsRoute, NoJob
<1>6. ASSUME NEW w \in Workers, Reply(w) PROVE RoutingInv'
  <2>1. /\ pc'[w] = "idle" /\ job'[w] = NoJob
        /\ \A v \in Workers \ {w} : pc'[v] = pc[v] /\ job'[v] = job[v]
        /\ UNCHANGED <<record, route, sbxs, lock>>
    BY <1>0, <1>6 DEF Reply, Goto, SetJob, TypeInv, TypeOK
  <2> QED
    BY <2>1, RouteLabels, LabelTypes
    DEF RoutingInv, Routes, NoIdStored, HoldsLock, KnowsRoute, CannotWrite, Known, NoJob, NoInstance
<1>7. ASSUME NEW w \in Workers, NEW op \in Ops, NEW u \in Users, Begin(w, op, u) PROVE RoutingInv'
  <2>1. /\ pc'[w] = Entry[op] /\ lock'[Host[w]] = w
        /\ job'[w].inst = NoInstance /\ job'[w].alive = TRUE
        /\ \A v \in Workers \ {w} : pc'[v] = pc[v] /\ job'[v] = job[v]
        /\ UNCHANGED <<record, route, sbxs>>
    <3>1. job'[w] = [NoJob EXCEPT !.op = op, !.user = u] /\ \A v \in Workers \ {w} : job'[v] = job[v]
      BY <1>0, <1>7 DEF Begin, SetJob, TypeInv, TypeOK
    <3>2. job'[w].inst = NoInstance /\ job'[w].alive = TRUE
      BY <3>1 DEF NoJob
    <3>3. pc'[w] = Entry[op] /\ \A v \in Workers \ {w} : pc'[v] = pc[v]
      BY <1>0, <1>7 DEF Begin, Goto, TypeInv, TypeOK
    <3>4. lock'[Host[w]] = w
      BY <1>0, <1>7, ConstantsAssumption DEF Begin, TypeInv, TypeOK
    <3> QED
      BY <1>7, <3>1, <3>2, <3>3, <3>4 DEF Begin
  <2>2. Entry[op] \notin Registering \cup Resumed \cup Forgotten \cup {"f_update", "f_insert"}
    BY DEF Entry, Ops, Registering, Resumed, Forgotten
  <2>3. ASSUME NEW v \in Workers \ {w} PROVE pc[v] \notin Locked
    BY <1>7, FreeLock DEF Begin, RoutingInv
  <2>4. \A v \in Workers : HoldsLock(v)' /\ KnowsRoute(v)'
    <3>1. HoldsLock(w)' /\ KnowsRoute(w)'
      BY <2>1, <2>2 DEF HoldsLock, KnowsRoute
    <3>2. ASSUME NEW v \in Workers \ {w} PROVE HoldsLock(v)' /\ KnowsRoute(v)'
      <4>1. pc'[v] \notin Locked
        BY <2>1, <2>3
      <4> QED
        BY <4>1, RouteLabels DEF HoldsLock, KnowsRoute
    <3> QED
      BY <3>1, <3>2
  <2>5. NoIdStored'
    BY <2>1 DEF NoIdStored, RoutingInv, NoInstance
  <2> QED
    BY <2>1, <2>4, <2>5 DEF RoutingInv, Routes
<1> QED
  BY <1>2, <1>3, <1>4, <1>5, <1>6, <1>7 DEF Environment, RestartGateway, GatewayAnswers

(* With one control-plane process, and a gateway that takes and keeps every *)
(* registration, the gateway routes a running instance the provider knows  *)
(* to its recorded endpoint, whatever other call fails, is lost or is cut  *)
(* off by a crash or by the client's disconnection.                        *)
THEOREM RunningRouted ==
    ASSUME OneReplica, GatewayAnswers, DeadRequestsWriteNothing
    PROVE  Spec => []RunningIsRouted
<1>1. Init => RoutingInv
  <2> SUFFICES ASSUME Init PROVE RoutingInv
    OBVIOUS
  <2>1. \A w \in Workers : pc[w] = "idle" /\ job[w] = NoJob
    BY DEF Init
  <2>2. \A u \in Users : record[u] = NoInstance
    BY DEF Init, StoreInit
  <2> QED
    BY <2>1, <2>2, InitTyped, RouteLabels, LabelTypes
    DEF RoutingInv, Routes, NoIdStored, HoldsLock, KnowsRoute, NoJob, NoInstance
<1>2. RoutingInv /\ [Next]_vars => RoutingInv'
  <2> SUFFICES ASSUME RoutingInv, [Next]_vars PROVE RoutingInv'
    OBVIOUS
  <2>1. TypeInv'
    BY NextTyped DEF RoutingInv
  <2>2. CASE UNCHANGED vars
    BY <2>2 DEF vars, RoutingInv, TypeInv, TypeOK, BusyServesUser, Routes, NoIdStored, HoldsLock,
       KnowsRoute, CannotWrite, Known
  <2>3. CASE Next
    BY <2>1, <2>3, CreateKeepsRouting, ResumeKeepsRouting, FailKeepsRouting, WakeKeepsRouting,
       SuspendKeepsRouting, DeleteKeepsRouting, ModelKeepsRouting, OutsideKeepsRouting
    DEF Next, Serve
  <2> QED
    BY <2>2, <2>3
<1>3. RoutingInv => RunningIsRouted
  BY DEF RoutingInv, Routes, RunningIsRouted
<1> QED
  BY <1>1, <1>2, <1>3, PTL DEF Spec
===============================================================================
