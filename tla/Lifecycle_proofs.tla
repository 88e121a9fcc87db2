-------------------------- MODULE Lifecycle_proofs --------------------------
(***************************************************************************)
(* Proofs about Lifecycle, for any number of users, sandboxes, goroutines  *)
(* and replicas, and any set of faults.                                    *)
(***************************************************************************)
EXTENDS LifecycleProperties, TLAPS

(* The instances and jobs the steps build are well typed. *)
LEMMA InstanceTypes ==
    /\ NoInstance \in Instance
    /\ NewInstance \in Instance
    /\ \A inst \in Instance, s \in SandboxOrNone : WithEndpoint(inst, s) \in Instance
    /\ \A inst \in Instance, st \in Status : WithStatus(inst, st) \in Instance
    /\ \A inst \in Instance : inst.status \in Status
  BY DEF NoInstance, NewInstance, WithEndpoint, WithStatus, Instance, Status, SandboxOrNone

LEMMA JobTypes ==
    /\ NoJob \in Job
    /\ \A op \in Ops, u \in Users : [NoJob EXCEPT !.op = op, !.user = u] \in Job
    /\ \A j \in Job, res \in {"none", "ok", "refused", "error", "faulted"} :
          [NoJob EXCEPT !.op = j.op, !.user = j.user, !.from = j.from, !.res = res] \in Job
    /\ \A j \in Job, i \in Instance, st \in Status : [j EXCEPT !.inst = i, !.from = st] \in Job
    /\ \A j \in Job, i \in Instance : [j EXCEPT !.inst = i] \in Job
    /\ \A j \in Job, b \in BOOLEAN : [j EXCEPT !.hit = b] \in Job
    /\ \A j \in Job : [j EXCEPT !.alive = FALSE] \in Job
    /\ \A j \in Job : j.inst \in Instance /\ j.user \in UserOrNone /\ j.from \in Status
  BY InstanceTypes DEF NoJob, Job, UserOrNone, Status

LEMMA LabelTypes ==
    /\ Locked \subseteq Labels /\ "idle" \in Labels /\ "reply" \in Labels
    /\ "idle" \notin Locked /\ "reply" \notin Locked
    /\ \A op \in Ops : Entry[op] \in Locked
    /\ {"c_read", "c_clean", "c_new", "c_register", "c_inject", "c_insert", "c_undo",
        "k_read", "w_start", "w_register", "w_inject", "w_update",
        "f_read", "f_update", "f_insert", "s_read", "s_stop", "s_uncache", "s_update",
        "d_backend", "d_unregister", "d_uncache", "d_store",
        "m_read", "m_inject", "m_cache"} = Locked
  BY DEF Labels, Locked, CreateLabels, WakeLabels, FailLabels, SuspendLabels, DeleteLabels,
         ModelLabels, Entry, Ops

(* A goroutine that is not idle serves a user. *)
BusyServesUser == \A w \in Workers : pc[w] # "idle" => job[w].user \in Users

TypeInv == TypeOK /\ BusyServesUser

(* The part of the type invariant that is about the goroutines. *)
WorkersTyped ==
    /\ lock \in [Replicas -> Workers \cup {NoWorker}]
    /\ pc \in [Workers -> Labels]
    /\ job \in [Workers -> Job]
    /\ BusyServesUser

LEMMA ReturnTyped ==
    ASSUME TypeInv, NEW w \in Workers, pc[w] # "idle",
           NEW res \in {"none", "ok", "refused", "error", "faulted"}, Return(w, res)
    PROVE  WorkersTyped'
<1> DEFINE j == [NoJob EXCEPT !.op = job[w].op, !.user = job[w].user, !.from = job[w].from, !.res = res]
<1>1. job[w] \in Job /\ job[w].user \in Users
  BY DEF TypeInv, TypeOK, BusyServesUser
<1>2. j \in Job
  BY <1>1, JobTypes
<1>3. j.user = job[w].user
  BY DEF NoJob
<1>4. job' = [job EXCEPT ![w] = j] /\ pc' = [pc EXCEPT ![w] = "reply"]
      /\ lock' = [lock EXCEPT ![Host[w]] = NoWorker]
  BY DEF Return, SetJob, Goto
<1> QED
  BY <1>1, <1>2, <1>3, <1>4, LabelTypes, ConstantsAssumption DEF TypeInv, TypeOK, WorkersTyped, BusyServesUser

LEMMA StepTyped ==
    ASSUME TypeInv, NEW w \in Workers, pc[w] # "idle", NEW label \in Labels, Goto(w, label),
           NEW j \in Job, j.user = job[w].user, SetJob(w, j) \/ UNCHANGED job, UNCHANGED lock
    PROVE  WorkersTyped'
  BY DEF TypeInv, TypeOK, WorkersTyped, BusyServesUser, SetJob, Goto

LEMMA ContinueTyped ==
    ASSUME TypeInv, NEW w \in Workers, pc[w] # "idle", NEW label \in Labels, Continue(w, label)
    PROVE  WorkersTyped'
  BY DEF TypeInv, TypeOK, WorkersTyped, BusyServesUser, Continue, Goto

LEMMA ContinueWithErrorTyped ==
    ASSUME TypeInv, NEW w \in Workers, pc[w] # "idle", NEW label \in Labels, NEW f,
           ContinueWithError(w, label, f)
    PROVE  WorkersTyped'
<1> DEFINE h == job[w].hit \/ f # "ok"
           j == [job[w] EXCEPT !.hit = h]
<1>1. job[w] \in Job
  BY DEF TypeInv, TypeOK
<1>2. h \in BOOLEAN
  OBVIOUS
<1>3. j \in Job /\ j.user = job[w].user
  <2> HIDE DEF h
  <2>1. j \in Job
    BY <1>1, <1>2, JobTypes
  <2>2. j.user = job[w].user
    BY <1>1 DEF Job
  <2> QED BY <2>1, <2>2
<1> QED
  BY <1>3, StepTyped DEF ContinueWithError

LEMMA LoadTyped ==
    ASSUME TypeInv, NEW w \in Workers, pc[w] # "idle", NEW label \in Labels, Load(w, label)
    PROVE  WorkersTyped'
<1> DEFINE j == [job[w] EXCEPT !.inst = record[job[w].user], !.from = record[job[w].user].status]
<1>1. job[w] \in Job /\ record[job[w].user] \in Instance
  BY DEF TypeInv, TypeOK, BusyServesUser
<1>2. j \in Job
  BY <1>1, JobTypes, InstanceTypes
<1>3. j.user = job[w].user
  BY <1>1 DEF Job
<1> QED
  BY <1>2, <1>3, StepTyped DEF Load

ProviderTyped ==
    /\ sandbox \in [Sandboxes -> {"absent", "running", "paused"}]
    /\ owner \in [Sandboxes -> UserOrNone]
    /\ model \in [Sandboxes -> Models]
    /\ sbxs \in [Replicas -> [Users -> SandboxOrNone]]

LEMMA MapTyped ==
    ASSUME sbxs \in [Replicas -> [Users -> SandboxOrNone]],
           NEW r \in Replicas, NEW u \in Users, NEW v \in SandboxOrNone
    PROVE  [sbxs EXCEPT ![r][u] = v] \in [Replicas -> [Users -> SandboxOrNone]]
<1>1. [sbxs[r] EXCEPT ![u] = v] \in [Users -> SandboxOrNone]
  OBVIOUS
<1> QED
  BY <1>1

LEMMA ProviderCallsTyped ==
    ASSUME TypeInv, NEW r \in Replicas, NEW u \in Users, NEW f,
           \/ \E s \in Sandboxes : ProviderCreate(r, u, s, f)
           \/ ProviderStart(r, u, f)
           \/ ProviderStop(r, u, f)
           \/ ProviderDelete(r, u, f)
    PROVE  ProviderTyped'
<1>1. ASSUME NEW s \in Sandboxes, ProviderCreate(r, u, s, f) PROVE ProviderTyped'
  <2>1. sbxs' \in [Replicas -> [Users -> SandboxOrNone]]
    <3>1. sbxs' = sbxs \/ sbxs' = [sbxs EXCEPT ![r][u] = s]
      BY <1>1 DEF ProviderCreate, Remember, providerVars
    <3>2. s \in SandboxOrNone /\ sbxs \in [Replicas -> [Users -> SandboxOrNone]]
      BY DEF SandboxOrNone, TypeInv, TypeOK
    <3> QED BY <3>1, <3>2, MapTyped
  <2> QED
    BY <1>1, <2>1 DEF ProviderCreate, Claim, Models, providerVars, TypeInv, TypeOK, ProviderTyped, UserOrNone
<1>2. ASSUME ProviderStart(r, u, f) PROVE ProviderTyped'
  BY <1>2 DEF ProviderStart, Known, Live, providerVars, TypeInv, TypeOK, ProviderTyped
<1>3. ASSUME ProviderStop(r, u, f) PROVE ProviderTyped'
  BY <1>3 DEF ProviderStop, Known, Live, providerVars, TypeInv, TypeOK, ProviderTyped
<1>4. ASSUME ProviderDelete(r, u, f) PROVE ProviderTyped'
  <2>1. sbxs' \in [Replicas -> [Users -> SandboxOrNone]]
    <3>1. sbxs' = sbxs \/ sbxs' = [sbxs EXCEPT ![r][u] = NoSandbox]
      BY <1>4 DEF ProviderDelete, Forget, providerVars
    <3>2. NoSandbox \in SandboxOrNone /\ sbxs \in [Replicas -> [Users -> SandboxOrNone]]
      BY DEF SandboxOrNone, TypeInv, TypeOK
    <3> QED BY <3>1, <3>2, MapTyped
  <2> QED
    BY <1>4, <2>1 DEF ProviderDelete, Destroy, Models, providerVars, TypeInv, TypeOK, ProviderTyped, UserOrNone
<1> QED
  BY <1>1, <1>2, <1>3, <1>4

(* The host of a goroutine and the user it serves. *)
LEMMA WorkerTypes ==
    ASSUME TypeInv, NEW w \in Workers, pc[w] # "idle"
    PROVE  /\ Host[w] \in Replicas
           /\ job[w] \in Job
           /\ job[w].user \in Users
           /\ job[w].inst \in Instance
  BY ConstantsAssumption, JobTypes DEF TypeInv, TypeOK, BusyServesUser

LEMMA SaveTyped ==
    ASSUME TypeInv, NEW w \in Workers, pc[w] # "idle", NEW st \in Status, Save(w, st)
    PROVE  WorkersTyped' /\ record' \in [Users -> Instance]
<1>1. WithStatus(job[w].inst, st) \in Instance
  BY WorkerTypes, InstanceTypes
<1>2. record' \in [Users -> Instance]
  BY <1>1 DEF TypeInv, TypeOK, Save, UpdateInstance
<1>3. PICK res \in {"ok", "faulted", "error"} : Return(w, res)
  BY DEF Save, ErrorOf
<1> QED
  BY <1>2, <1>3, ReturnTyped

(* The steps of Create, and of failInstance. *)
LEMMA CreateStepsTyped ==
    ASSUME TypeInv, NEW w \in Workers, CreateStep(w) \/ FailStep(w) \/ ResumeStep(w)
    PROVE  TypeInv'
<1> USE LabelTypes, WorkerTypes
<1>1. CASE CreateRead(w)
  <2>1. pc[w] # "idle"
    BY <1>1 DEF CreateRead
  <2>2. CASE Return(w, "ok")
    BY <1>1, <2>1, <2>2, ReturnTyped DEF CreateRead, TypeInv, TypeOK, WorkersTyped, BusyServesUser
  <2>3. CASE Load(w, "w_start")
    BY <1>1, <2>1, <2>3, LoadTyped DEF CreateRead, TypeInv, TypeOK, WorkersTyped, BusyServesUser
  <2>4. ASSUME Goto(w, "c_clean"), UNCHANGED lock,
               SetJob(w, [job[w] EXCEPT !.inst = NewInstance, !.from = "failed"])
        PROVE  TypeInv'
    <3> DEFINE j == [job[w] EXCEPT !.inst = NewInstance, !.from = "failed"]
    <3>1. j \in Job
      BY <2>1, JobTypes, InstanceTypes DEF Status
    <3>2. j.user = job[w].user
      BY <2>1 DEF Job
    <3>3. WorkersTyped'
      BY <2>1, <2>4, <3>1, <3>2, StepTyped
    <3> QED
      BY <1>1, <3>3 DEF CreateRead, TypeInv, TypeOK, WorkersTyped, BusyServesUser
  <2>5. ASSUME Goto(w, "c_new"), UNCHANGED lock, SetJob(w, [job[w] EXCEPT !.inst = NewInstance])
        PROVE  TypeInv'
    <3> DEFINE j == [job[w] EXCEPT !.inst = NewInstance]
    <3>1. j \in Job
      BY <2>1, JobTypes, InstanceTypes
    <3>2. j.user = job[w].user
      BY <2>1 DEF Job
    <3>3. WorkersTyped'
      BY <2>1, <2>5, <3>1, <3>2, StepTyped
    <3> QED
      BY <1>1, <3>3 DEF CreateRead, TypeInv, TypeOK, WorkersTyped, BusyServesUser
  <2> QED
    BY <1>1, <2>2, <2>3, <2>4, <2>5 DEF CreateRead
<1>2. CASE CleanUp(w)
  <2>1. pc[w] # "idle" /\ WorkersTyped'
    BY <1>2, ContinueTyped DEF CleanUp
  <2>2. ProviderTyped'
    BY <1>2, <2>1, ProviderCallsTyped DEF CleanUp
  <2> QED
    BY <1>2, <2>1, <2>2 DEF CleanUp, TypeInv, TypeOK, WorkersTyped, BusyServesUser, ProviderTyped
<1>3. CASE CreateSandbox(w)
  <2>1. pc[w] # "idle"
    BY <1>3 DEF CreateSandbox
  <2>2. ProviderTyped'
    BY <1>3, <2>1, ProviderCallsTyped DEF CreateSandbox, ProviderTyped, TypeInv, TypeOK, providerVars
  <2>3. ASSUME NEW s \in Sandboxes, Goto(w, "c_register"), UNCHANGED lock,
               SetJob(w, [job[w] EXCEPT !.inst = WithEndpoint(@, s)])
        PROVE  WorkersTyped'
    <3> DEFINE i == WithEndpoint(job[w].inst, s)
               j == [job[w] EXCEPT !.inst = i]
    <3>1. i \in Instance
      BY <2>1, InstanceTypes DEF SandboxOrNone
    <3>2. j \in Job
      <4> HIDE DEF i
      <4> QED BY <2>1, <3>1, JobTypes
    <3>3. j.user = job[w].user
      BY <2>1 DEF Job
    <3> QED
      BY <2>1, <2>3, <3>2, <3>3, StepTyped
  <2>4. ASSUME NEW f, ContinueWithError(w, "f_read", f) PROVE WorkersTyped'
    BY <2>1, <2>4, ContinueWithErrorTyped
  <2>5. WorkersTyped'
    BY <1>3, <2>3, <2>4 DEF CreateSandbox
  <2> QED
    BY <1>3, <2>2, <2>5 DEF CreateSandbox, TypeInv, TypeOK, WorkersTyped, BusyServesUser, ProviderTyped
<1>4. CASE CreateInsert(w)
  <2>1. pc[w] # "idle"
    BY <1>4 DEF CreateInsert
  <2>2. record' \in [Users -> Instance]
    BY <1>4, <2>1 DEF CreateInsert, CreateInstance, TypeInv, TypeOK
  <2>3. WorkersTyped'
    BY <1>4, <2>1, ReturnTyped, ContinueWithErrorTyped DEF CreateInsert
  <2> QED
    BY <1>4, <2>2, <2>3 DEF CreateInsert, TypeInv, TypeOK, WorkersTyped, BusyServesUser
<1>5. CASE FailRead(w)
  <2>1. pc[w] # "idle"
    BY <1>5 DEF FailRead
  <2> DEFINE i == WithStatus(job[w].inst, "failed")
             j == [job[w] EXCEPT !.inst = i]
  <2>2. i \in Instance
    BY <2>1, InstanceTypes DEF Status
  <2>3. j \in Job
    <3> HIDE DEF i
    <3> QED BY <2>1, <2>2, JobTypes
  <2>4. j.user = job[w].user
    BY <2>1 DEF Job
  <2>5. PICK label \in {"f_update", "f_insert"} : Goto(w, label)
    BY <1>5 DEF FailRead
  <2>6. WorkersTyped'
    BY <1>5, <2>1, <2>3, <2>4, <2>5, StepTyped DEF FailRead
  <2> QED
    BY <1>5, <2>6 DEF FailRead, TypeInv, TypeOK, WorkersTyped, BusyServesUser
<1>6. CASE FailUpdate(w) \/ FailInsert(w)
  <2>1. pc[w] # "idle"
    BY <1>6 DEF FailUpdate, FailInsert
  <2>2. record' \in [Users -> Instance]
    BY <1>6, <2>1 DEF FailUpdate, FailInsert, UpdateInstance, CreateInstance, TypeInv, TypeOK
  <2>3. WorkersTyped'
    BY <1>6, <2>1, ReturnTyped DEF FailUpdate, FailInsert, ErrorOf
  <2> QED
    BY <1>6, <2>2, <2>3 DEF FailUpdate, FailInsert, TypeInv, TypeOK, WorkersTyped, BusyServesUser
<1>7. CASE RegisterGateway(w)
  <2>1. pc[w] # "idle" /\ WorkersTyped'
    BY <1>7, ContinueTyped DEF RegisterGateway
  <2>2. route' \in [Users -> SandboxOrNone]
    BY <1>7, <2>1 DEF RegisterGateway, Register, TypeInv, TypeOK, Instance
  <2> QED
    BY <1>7, <2>1, <2>2 DEF RegisterGateway, TypeInv, TypeOK, WorkersTyped, BusyServesUser
<1>8. CASE InjectConfig(w)
  <2>1. pc[w] # "idle" /\ WorkersTyped'
    BY <1>8, ContinueTyped DEF InjectConfig
  <2>2. model' \in [Sandboxes -> Models]
    BY <1>8 DEF InjectConfig, SetConfig, Configure, Resolved, TypeInv, TypeOK, Models
  <2> QED
    BY <1>8, <2>1, <2>2 DEF InjectConfig, TypeInv, TypeOK, WorkersTyped, BusyServesUser
<1> QED
  BY <1>1, <1>2, <1>3, <1>4, <1>5, <1>6, <1>7, <1>8 DEF CreateStep, FailStep, ResumeStep

(* The steps of Wake, Suspend, Delete and SetModelConfig. *)
LEMMA OtherStepsTyped ==
    ASSUME TypeInv, NEW w \in Workers,
           WakeStep(w) \/ SuspendStep(w) \/ DeleteStep(w) \/ ModelStep(w)
    PROVE  TypeInv'
<1> USE LabelTypes, WorkerTypes
<1>1. CASE WakeRead(w) \/ SuspendRead(w) \/ ModelRead(w)
  <2>1. pc[w] # "idle" /\ UNCHANGED <<record, route, sandbox, owner, model, sbxs, cache>>
    BY <1>1 DEF WakeRead, SuspendRead, ModelRead
  <2>2. \/ \E res \in {"ok", "refused", "faulted"} : Return(w, res)
        \/ \E label \in {"w_start", "s_stop", "m_inject"} : Load(w, label)
    BY <1>1 DEF WakeRead, SuspendRead, ModelRead
  <2>3. WorkersTyped'
    BY <2>1, <2>2, ReturnTyped, LoadTyped
  <2> QED
    BY <2>1, <2>3 DEF TypeInv, TypeOK, WorkersTyped, BusyServesUser
<1>2. CASE WakeStart(w)
  <2>1. pc[w] # "idle" /\ UNCHANGED <<record, route, cache>>
    BY <1>2 DEF WakeStart
  <2>2. ProviderTyped'
    BY <1>2, <2>1, ProviderCallsTyped DEF WakeStart
  <2> DEFINE i == WithEndpoint(job[w].inst, sbxs[Host[w]][job[w].user])
             j == [job[w] EXCEPT !.inst = i]
  <2>3. sbxs[Host[w]][job[w].user] \in SandboxOrNone
    BY <2>1 DEF TypeInv, TypeOK
  <2>4. i \in Instance
    BY <2>1, <2>3, InstanceTypes
  <2>5. j \in Job
    <3> HIDE DEF i
    <3> QED BY <2>1, <2>4, JobTypes
  <2>6. j.user = job[w].user
    BY <2>1 DEF Job
  <2>7. \/ Goto(w, "w_register") /\ SetJob(w, j) /\ UNCHANGED lock
        \/ \E f : ContinueWithError(w, "f_read", f)
    BY <1>2 DEF WakeStart
  <2>8. WorkersTyped'
    <3> HIDE DEF j
    <3> QED BY <2>1, <2>5, <2>6, <2>7, StepTyped, ContinueWithErrorTyped
  <2> QED
    BY <2>1, <2>2, <2>8 DEF TypeInv, TypeOK, WorkersTyped, BusyServesUser, ProviderTyped
<1>3. CASE WakeSave(w) \/ SuspendSave(w)
  <2>1. pc[w] # "idle" /\ UNCHANGED <<route, sandbox, owner, model, sbxs, cache>>
    BY <1>3 DEF WakeSave, SuspendSave
  <2>2. Save(w, "running") \/ Save(w, "suspended")
    BY <1>3 DEF WakeSave, SuspendSave
  <2>3. WorkersTyped' /\ record' \in [Users -> Instance]
    BY <2>1, <2>2, SaveTyped DEF Status
  <2> QED
    BY <2>1, <2>3 DEF TypeInv, TypeOK, WorkersTyped, BusyServesUser
<1>4. CASE SuspendStop(w) \/ DeleteSandbox(w)
  <2>1. pc[w] # "idle" /\ UNCHANGED <<record, route, cache>>
    BY <1>4 DEF SuspendStop, DeleteSandbox
  <2>2. ProviderTyped'
    BY <1>4, <2>1, ProviderCallsTyped DEF SuspendStop, DeleteSandbox
  <2>3. \/ Return(w, "faulted")
        \/ \E label \in {"s_uncache", "d_unregister"} : Continue(w, label)
    BY <1>4 DEF SuspendStop, DeleteSandbox
  <2>4. WorkersTyped'
    BY <2>1, <2>3, ReturnTyped, ContinueTyped
  <2> QED
    BY <2>1, <2>2, <2>4 DEF TypeInv, TypeOK, WorkersTyped, BusyServesUser, ProviderTyped
<1>5. CASE DropConfig(w)
  <2>1. pc[w] # "idle" /\ WorkersTyped'
    BY <1>5, ContinueTyped DEF DropConfig
  <2> QED
    BY <1>5, <2>1 DEF DropConfig, TypeInv, TypeOK, WorkersTyped, BusyServesUser
<1>6. CASE DeleteRoute(w)
  <2>1. pc[w] # "idle" /\ WorkersTyped'
    BY <1>6, ContinueTyped DEF DeleteRoute
  <2> QED
    BY <1>6, <2>1 DEF DeleteRoute, Unregister, SandboxOrNone, TypeInv, TypeOK, WorkersTyped, BusyServesUser
<1>7. CASE DeleteRecord(w)
  <2>1. pc[w] # "idle"
    BY <1>7 DEF DeleteRecord
  <2>2. record' \in [Users -> Instance]
    BY <1>7, InstanceTypes DEF DeleteRecord, DeleteInstance, TypeInv, TypeOK
  <2>3. \E res \in {"ok", "faulted"} : Return(w, res)
    BY <1>7 DEF DeleteRecord
  <2>4. WorkersTyped'
    BY <2>1, <2>3, ReturnTyped
  <2> QED
    BY <1>7, <2>2, <2>4 DEF DeleteRecord, TypeInv, TypeOK, WorkersTyped, BusyServesUser
<1>8. CASE ModelInject(w)
  <2>1. pc[w] # "idle"
    BY <1>8 DEF ModelInject
  <2>2. model' \in [Sandboxes -> Models]
    BY <1>8 DEF ModelInject, SetConfig, Configure, TypeInv, TypeOK, Models
  <2>3. WorkersTyped'
    BY <1>8, <2>1, ReturnTyped, ContinueTyped DEF ModelInject, ErrorOf
  <2> QED
    BY <1>8, <2>2, <2>3 DEF ModelInject, TypeInv, TypeOK, WorkersTyped, BusyServesUser
<1>9. CASE ModelCache(w)
  <2>1. pc[w] # "idle" /\ WorkersTyped'
    BY <1>9, ReturnTyped DEF ModelCache
  <2> QED
    BY <1>9, <2>1 DEF ModelCache, TypeInv, TypeOK, WorkersTyped, BusyServesUser
<1> QED
  BY <1>1, <1>2, <1>3, <1>4, <1>5, <1>6, <1>7, <1>8, <1>9
  DEF WakeStep, SuspendStep, DeleteStep, ModelStep

LEMMA EnvironmentTyped == TypeInv /\ Environment => TypeInv'
<1> SUFFICES ASSUME TypeInv, Environment PROVE TypeInv'
  OBVIOUS
<1> USE DEF TypeInv, TypeOK, BusyServesUser
<1>1. ASSUME NEW r \in Replicas, NEW u \in Users, ExpireConfig(r, u) PROVE TypeInv'
  BY <1>1 DEF ExpireConfig
<1>2. ASSUME NEW w \in Workers, Disconnect(w) PROVE TypeInv'
  <2> DEFINE j == [job[w] EXCEPT !.alive = FALSE]
  <2>1. job[w] \in Job /\ j \in Job
    BY JobTypes
  <2>2. j.user = job[w].user
    BY <2>1 DEF Job
  <2> HIDE DEF j
  <2>3. SetJob(w, j)
    BY <1>2 DEF Disconnect, j
  <2> QED
    BY <1>2, <2>1, <2>2, <2>3 DEF Disconnect, SetJob
<1>3. ASSUME NEW s \in Sandboxes, SandboxDies(s) PROVE TypeInv'
  BY <1>3 DEF SandboxDies, Destroy, UserOrNone, Models
<1>4. CASE RestartGateway
  BY <1>4 DEF RestartGateway, GatewayAfterRestart, SandboxOrNone
<1>5. ASSUME NEW r \in Replicas, Crash(r) PROVE TypeInv'
  <2>1. record' \in [Users -> Instance]
    BY <1>5, InstanceTypes DEF Crash, StoreAfterRestart
  <2>2. [u \in Users |-> record'[u].sandboxID] \in [Users -> SandboxOrNone]
    BY <2>1 DEF Instance
  <2>3. sbxs' \in [Replicas -> [Users -> SandboxOrNone]]
    BY <1>5, <2>2 DEF Crash, Seed
  <2>4. pc' \in [Workers -> Labels] /\ job' \in [Workers -> Job] /\ BusyServesUser'
    BY <1>5, LabelTypes, JobTypes DEF Crash
  <2> QED
    BY <1>5, <2>1, <2>3, <2>4 DEF Crash
<1> QED
  BY <1>1, <1>2, <1>3, <1>4, <1>5 DEF Environment

LEMMA InitTyped == Init => TypeInv
<1> SUFFICES ASSUME Init PROVE TypeInv
  OBVIOUS
<1>1. record \in [Users -> Instance]
  BY InstanceTypes DEF Init, StoreInit
<1>2. route \in [Users -> SandboxOrNone]
  BY DEF Init, GatewayInit, SandboxOrNone
<1>3. ProviderTyped
  BY DEF Init, ProviderInit, ProviderTyped, SandboxOrNone, UserOrNone, Models
<1>4. cache \in [Replicas -> SUBSET Users]
  BY DEF Init
<1>5. lock \in [Replicas -> Workers \cup {NoWorker}]
  BY DEF Init
<1>6. pc \in [Workers -> Labels] /\ job \in [Workers -> Job] /\ BusyServesUser
  BY JobTypes, LabelTypes DEF Init, BusyServesUser
<1> QED
  BY <1>1, <1>2, <1>3, <1>4, <1>5, <1>6 DEF TypeInv, TypeOK, ProviderTyped

LEMMA NextTyped == TypeInv /\ [Next]_vars => TypeInv'
<1> SUFFICES ASSUME TypeInv, [Next]_vars PROVE TypeInv'
  OBVIOUS
<1>1. ASSUME NEW w \in Workers, NEW op \in Ops, NEW u \in Users, Begin(w, op, u) PROVE TypeInv'
  <2> DEFINE j == [NoJob EXCEPT !.op = op, !.user = u]
  <2>1. j \in Job
    BY JobTypes
  <2>2. j.user = u
    BY DEF NoJob
  <2> HIDE DEF j
  <2>3. SetJob(w, j)
    BY <1>1 DEF Begin, j
  <2>4. Entry[op] \in Labels
    BY LabelTypes
  <2>5. lock' \in [Replicas -> Workers \cup {NoWorker}]
    BY <1>1 DEF Begin, TypeInv, TypeOK
  <2>6. pc' \in [Workers -> Labels]
    BY <1>1, <2>4 DEF Begin, Goto, TypeInv, TypeOK
  <2>7. job' \in [Workers -> Job]
    BY <2>1, <2>3 DEF SetJob, TypeInv, TypeOK
  <2>8. BusyServesUser'
    BY <1>1, <2>2, <2>3 DEF Begin, Goto, SetJob, TypeInv, TypeOK, BusyServesUser
  <2> QED
    BY <1>1, <2>5, <2>6, <2>7, <2>8 DEF Begin, TypeInv, TypeOK
<1>2. ASSUME NEW w \in Workers, Reply(w) PROVE TypeInv'
  BY <1>2, JobTypes, LabelTypes DEF Reply, SetJob, Goto, TypeInv, TypeOK, BusyServesUser
<1>3. ASSUME NEW w \in Workers, Serve(w) PROVE TypeInv'
  BY <1>2, <1>3, CreateStepsTyped, OtherStepsTyped DEF Serve
<1>4. CASE Environment
  BY <1>4, EnvironmentTyped
<1>5. CASE UNCHANGED vars
  BY <1>5 DEF vars, TypeInv, TypeOK, BusyServesUser
<1> QED
  BY <1>1, <1>3, <1>4, <1>5 DEF Next

(* Every variable always has its type. *)
THEOREM TypeCorrect == Spec => []TypeOK
<1>1. Spec => []TypeInv
  BY InitTyped, NextTyped, PTL DEF Spec
<1> QED
  BY <1>1, PTL DEF TypeInv

-------------------------------------------------------------------------------
(* Credentials are only cached for running instances.                      *)
(*                                                                         *)
(* The cache belongs to one process and the store to all, so the property  *)
(* needs one replica; and a read that fails lets Create overwrite the      *)
(* record of a running instance, so it needs reads that answer, which      *)
(* those of db.Memory always do.                                           *)

OneReplica == \A a, b \in Replicas : a = b
ReadsAnswer == StoreKind = "memory" \/ "read" \notin Faults

(* Where a request is about to write, or may write later, a status that is *)
(* not running.                                                            *)
Provisioning == {"c_clean", "c_new", "c_register", "c_inject", "c_insert", "c_undo",
                 "w_start", "f_read", "f_update", "f_insert"}

Uncached(w) == job[w].user \notin cache[Host[w]]

(* No write of a goroutine whose context is dead reaches PostgreSQL. *)
CannotWrite(w) == StoreKind = "postgres" /\ ~job[w].alive

(* What a goroutine under m.mu knows of its user. *)
Knows(w) ==
    /\ pc[w] \in Locked => lock[Host[w]] = w
    /\ pc[w] \in {"m_inject", "m_cache"} => record[job[w].user].status = "running"
    /\ pc[w] \in {"s_update", "d_store"} => Uncached(w)
    /\ pc[w] \in Provisioning => Uncached(w) \/ CannotWrite(w)

(* The inductive invariant. *)
CacheInv == TypeInv /\ OverrideOnlyWhileRunning /\ \A w \in Workers : Knows(w)

LEMMA SpecialLabels ==
    /\ Provisioning \subseteq Locked
    /\ {"m_inject", "m_cache", "s_update", "d_store"} \subseteq Locked
    /\ {"m_inject", "m_cache", "s_update", "d_store"} \cap Provisioning = {}
  BY LabelTypes DEF Provisioning

(* m.mu: no other goroutine is inside a request. *)
LEMMA Alone ==
    ASSUME OneReplica, CacheInv, NEW w \in Workers, pc[w] \in Locked,
           NEW v \in Workers, v # w
    PROVE  pc[v] \notin Locked
<1>1. Host[v] = Host[w]
  BY ConstantsAssumption DEF OneReplica
<1> QED
  BY <1>1 DEF CacheInv, Knows

(* So a step under m.mu only has to re-establish what its goroutine knows. *)
LEMMA StepUnderLock ==
    ASSUME OneReplica, CacheInv, TypeInv', NEW w \in Workers, pc[w] \in Locked,
           NEW label, Goto(w, label), OverrideOnlyWhileRunning', Knows(w)'
    PROVE  CacheInv'
<1>1. ASSUME NEW v \in Workers, v # w PROVE Knows(v)'
  <2>1. pc'[v] = pc[v]
    BY <1>1 DEF Goto, CacheInv, TypeInv, TypeOK
  <2>2. pc'[v] \notin Locked
    BY <1>1, <2>1, Alone
  <2> QED
    BY <2>2, SpecialLabels DEF Knows
<1> QED
  BY <1>1 DEF CacheInv

LEMMA ReturnKnows ==
    ASSUME TypeInv, NEW w \in Workers, NEW res, Return(w, res)
    PROVE  Knows(w)' /\ Goto(w, "reply")
<1>1. pc'[w] = "reply" /\ Goto(w, "reply")
  BY DEF Return, Goto, TypeInv, TypeOK
<1> QED
  BY <1>1, LabelTypes, SpecialLabels DEF Knows

(* The moves that keep the request also keep its user and its context. *)
KeepsRequest(w) == job'[w].user = job[w].user /\ job'[w].alive = job[w].alive

LEMMA MovesKeepRequest ==
    ASSUME TypeInv, NEW w \in Workers, NEW label, NEW f,
           Continue(w, label) \/ ContinueWithError(w, label, f) \/ Load(w, label)
    PROVE  KeepsRequest(w) /\ Goto(w, label) /\ UNCHANGED lock
<1>1. job \in [Workers -> Job]
  BY DEF TypeInv, TypeOK
<1>2. CASE Continue(w, label)
  BY <1>2 DEF Continue, KeepsRequest
<1>3. CASE ContinueWithError(w, label, f)
  BY <1>1, <1>3 DEF ContinueWithError, SetJob, KeepsRequest, Job
<1>4. CASE Load(w, label)
  BY <1>1, <1>4 DEF Load, SetJob, KeepsRequest, Job
<1> QED
  BY <1>2, <1>3, <1>4

(* Going on with the provisioning, or starting it, without an override. *)
LEMMA ProvisionKnows ==
    ASSUME CacheInv, NEW w \in Workers, pc[w] \in Locked, NEW label \in Provisioning,
           Goto(w, label), UNCHANGED <<lock, cache>>, KeepsRequest(w),
           Uncached(w) \/ CannotWrite(w)
    PROVE  Knows(w)'
<1>1. pc'[w] = label
  BY DEF Goto, CacheInv, TypeInv, TypeOK
<1>2. lock[Host[w]] = w
  BY DEF CacheInv, Knows
<1>3. (Uncached(w) \/ CannotWrite(w))'
  BY DEF Uncached, CannotWrite, KeepsRequest
<1> QED
  BY <1>1, <1>2, <1>3, SpecialLabels DEF Knows

(* Going on with anything else. *)
LEMMA PlainKnows ==
    ASSUME CacheInv, NEW w \in Workers, pc[w] \in Locked, NEW label,
           label \notin Provisioning \cup {"m_inject", "m_cache", "s_update", "d_store"},
           Goto(w, label), UNCHANGED lock
    PROVE  Knows(w)'
<1>1. pc'[w] = label
  BY DEF Goto, CacheInv, TypeInv, TypeOK
<1>2. lock[Host[w]] = w
  BY DEF CacheInv, Knows
<1> QED
  BY <1>1, <1>2 DEF Knows

(* The three ways a step may touch the record. *)
LEMMA RecordKept ==
    ASSUME OverrideOnlyWhileRunning, UNCHANGED <<record, cache>>
    PROVE  OverrideOnlyWhileRunning'
  BY DEF OverrideOnlyWhileRunning

LEMMA WriteUncached ==
    ASSUME OneReplica, CacheInv, NEW w \in Workers, pc[w] # "idle", Uncached(w), NEW i,
           record' = [record EXCEPT ![job[w].user] = i], UNCHANGED cache
    PROVE  OverrideOnlyWhileRunning'
<1> SUFFICES ASSUME NEW r \in Replicas, NEW u \in cache[r]
             PROVE  record'[u].status = "running"
  BY DEF OverrideOnlyWhileRunning
<1>1. u # job[w].user
  BY WorkerTypes DEF CacheInv, OneReplica, Uncached
<1>2. u \in Users /\ record[u].status = "running"
  BY DEF CacheInv, TypeInv, TypeOK, OverrideOnlyWhileRunning
<1> QED
  BY <1>1, <1>2 DEF CacheInv, TypeInv, TypeOK

LEMMA WriteRunning ==
    ASSUME CacheInv, NEW w \in Workers, NEW i, i.status = "running",
           record' = [record EXCEPT ![job[w].user] = i], UNCHANGED cache
    PROVE  OverrideOnlyWhileRunning'
<1> SUFFICES ASSUME NEW r \in Replicas, NEW u \in cache[r]
             PROVE  record'[u].status = "running"
  BY DEF OverrideOnlyWhileRunning
<1>1. u \in Users /\ record[u].status = "running"
  BY DEF CacheInv, TypeInv, TypeOK, OverrideOnlyWhileRunning
<1> QED
  BY <1>1 DEF CacheInv, TypeInv, TypeOK

LEMMA DeadWrites ==
    ASSUME NEW w \in Workers, CannotWrite(w), NEW f \in WriteOutcomes(w)
    PROVE  f = "write" /\ ~WriteTakes(f)
  BY DEF CannotWrite, WriteOutcomes, Outcomes, WriteTakes

(* A read fails only with the request's context. *)
LEMMA FailedRead ==
    ASSUME ReadsAnswer, NEW w \in Workers, "read" \in ReadOutcomes(w), TypeInv
    PROVE  CannotWrite(w)
<1>1. StoreKind = "postgres"
  BY ConstantsAssumption DEF ReadOutcomes
<1>2. job[w].alive \in BOOLEAN
  BY DEF TypeInv, TypeOK, Job
<1> QED
  BY <1>1, <1>2 DEF ReadOutcomes, Outcomes, CannotWrite, ReadsAnswer

LEMMA NotRunningUncached ==
    ASSUME CacheInv, NEW w \in Workers, pc[w] # "idle",
           record[job[w].user].status # "running"
    PROVE  Uncached(w)
  BY WorkerTypes DEF CacheInv, Uncached, OverrideOnlyWhileRunning

(* The steps of Create, and of failInstance. *)
LEMMA CreateKeepsCacheInv ==
    ASSUME OneReplica, ReadsAnswer, CacheInv, TypeInv', NEW w \in Workers,
           CreateStep(w) \/ ResumeStep(w) \/ FailStep(w)
    PROVE  CacheInv'
<1>0. TypeInv /\ OverrideOnlyWhileRunning
  BY DEF CacheInv
<1>1. CASE CreateRead(w)
  <2>1. pc[w] \in Locked /\ pc[w] # "idle"
    BY <1>1, LabelTypes DEF CreateRead
  <2>2. OverrideOnlyWhileRunning'
    BY <1>0, <1>1, RecordKept DEF CreateRead
  <2>3. CASE Return(w, "ok")
    BY <1>0, <2>1, <2>2, <2>3, ReturnKnows, StepUnderLock
  <2>4. CASE /\ "read" \in ReadOutcomes(w) \/ record[job[w].user].status # "running"
             /\ \E label \in {"w_start", "c_clean", "c_new"} :
                   Goto(w, label) /\ UNCHANGED lock /\ KeepsRequest(w)
    <3>1. Uncached(w) \/ CannotWrite(w)
      BY <1>0, <2>1, <2>4, FailedRead, NotRunningUncached
    <3>2. UNCHANGED cache
      BY <1>1 DEF CreateRead
    <3> QED
      BY <2>1, <2>2, <2>4, <3>1, <3>2, ProvisionKnows, StepUnderLock DEF Provisioning
  <2>5. ASSUME SetJob(w, [job[w] EXCEPT !.inst = NewInstance, !.from = "failed"])
               \/ SetJob(w, [job[w] EXCEPT !.inst = NewInstance])
        PROVE  KeepsRequest(w)
    BY <1>0, <2>5 DEF SetJob, KeepsRequest, TypeInv, TypeOK, Job
  <2> QED
    BY <1>0, <1>1, <2>3, <2>4, <2>5, MovesKeepRequest DEF CreateRead
<1>2. CASE CleanUp(w)
  <2>1. pc[w] \in Locked /\ (Uncached(w) \/ CannotWrite(w))
    BY <1>2, SpecialLabels DEF CleanUp, CacheInv, Knows, Provisioning
  <2>2. OverrideOnlyWhileRunning'
    BY <1>0, <1>2, RecordKept DEF CleanUp
  <2>3. PICK label \in {"c_new", "f_read"} : Continue(w, label)
    BY <1>2 DEF CleanUp
  <2>4. UNCHANGED cache
    BY <1>2 DEF CleanUp
  <2> QED
    BY <1>0, <2>1, <2>2, <2>3, <2>4, MovesKeepRequest, ProvisionKnows, StepUnderLock
    DEF Provisioning
<1>3. CASE CreateSandbox(w)
  <2>1. pc[w] \in Locked /\ (Uncached(w) \/ CannotWrite(w))
    BY <1>3, SpecialLabels DEF CreateSandbox, CacheInv, Knows, Provisioning
  <2>2. OverrideOnlyWhileRunning' /\ UNCHANGED cache
    BY <1>0, <1>3, RecordKept DEF CreateSandbox
  <2>3. \E label \in {"c_register", "f_read"} :
           Goto(w, label) /\ UNCHANGED lock /\ KeepsRequest(w)
    <3>1. ASSUME NEW s, SetJob(w, [job[w] EXCEPT !.inst = WithEndpoint(@, s)])
          PROVE  KeepsRequest(w)
      BY <1>0, <3>1 DEF SetJob, KeepsRequest, TypeInv, TypeOK, Job
    <3> QED
      BY <1>0, <1>3, <3>1, MovesKeepRequest DEF CreateSandbox
  <2> QED
    BY <2>1, <2>2, <2>3, ProvisionKnows, StepUnderLock DEF Provisioning
<1>4. CASE CreateInsert(w)
  <2>1. pc[w] \in Locked /\ pc[w] # "idle" /\ (Uncached(w) \/ CannotWrite(w))
    BY <1>4, SpecialLabels DEF CreateInsert, CacheInv, Knows, Provisioning
  <2>2. UNCHANGED cache
    BY <1>4 DEF CreateInsert
  <2>3. OverrideOnlyWhileRunning'
    <3>1. CASE UNCHANGED record
      BY <1>0, <2>2, <3>1, RecordKept
    <3>2. CASE CreateInstance(job[w].user, job[w].inst) /\ Uncached(w)
      BY <2>1, <2>2, <3>2, WriteUncached DEF CreateInstance
    <3> QED
      BY <1>4, <2>1, <3>1, <3>2, DeadWrites DEF CreateInsert
  <2>4. Return(w, "ok") \/ \E f : ContinueWithError(w, "c_undo", f)
    BY <1>4 DEF CreateInsert
  <2>5. CASE Return(w, "ok")
    BY <1>0, <2>1, <2>3, <2>5, ReturnKnows, StepUnderLock
  <2>6. CASE \E f : ContinueWithError(w, "c_undo", f)
    BY <1>0, <2>1, <2>2, <2>3, <2>6, MovesKeepRequest, ProvisionKnows, StepUnderLock
    DEF Provisioning
  <2> QED
    BY <2>4, <2>5, <2>6
<1>5. CASE RegisterGateway(w) \/ InjectConfig(w)
  <2>1. pc[w] \in Locked
    BY <1>5, LabelTypes DEF RegisterGateway, InjectConfig
  <2>2. OverrideOnlyWhileRunning' /\ UNCHANGED cache
    BY <1>0, <1>5, RecordKept DEF RegisterGateway, InjectConfig
  <2>3. CASE pc[w] \in {"c_register", "c_inject"}
    <3>1. Uncached(w) \/ CannotWrite(w)
      BY <2>3 DEF CacheInv, Knows, Provisioning
    <3>2. PICK label \in {"c_inject", "c_insert"} : Continue(w, label)
      BY <1>5, <2>3 DEF RegisterGateway, InjectConfig
    <3> QED
      BY <1>0, <2>1, <2>2, <3>1, <3>2, MovesKeepRequest, ProvisionKnows, StepUnderLock
      DEF Provisioning
  <2>4. CASE pc[w] \in {"w_register", "w_inject"}
    <3>1. PICK label \in {"w_inject", "w_update"} : Continue(w, label)
      BY <1>5, <2>4 DEF RegisterGateway, InjectConfig
    <3> QED
      BY <1>0, <2>1, <2>2, <3>1, MovesKeepRequest, PlainKnows, StepUnderLock
      DEF Provisioning
  <2> QED
    BY <1>5, <2>3, <2>4 DEF RegisterGateway, InjectConfig
<1>6. CASE FailRead(w)
  <2>1. pc[w] \in Locked /\ (Uncached(w) \/ CannotWrite(w))
    BY <1>6, SpecialLabels DEF FailRead, CacheInv, Knows, Provisioning
  <2>2. OverrideOnlyWhileRunning' /\ UNCHANGED <<lock, cache>>
    BY <1>0, <1>6, RecordKept DEF FailRead
  <2>3. PICK label \in {"f_update", "f_insert"} : Goto(w, label)
    BY <1>6 DEF FailRead
  <2>4. KeepsRequest(w)
    BY <1>0, <1>6 DEF FailRead, SetJob, KeepsRequest, TypeInv, TypeOK, Job
  <2> QED
    BY <2>1, <2>2, <2>3, <2>4, ProvisionKnows, StepUnderLock DEF Provisioning
<1>7. CASE FailUpdate(w) \/ FailInsert(w)
  <2>1. pc[w] \in Locked /\ pc[w] # "idle" /\ (Uncached(w) \/ CannotWrite(w))
    BY <1>7, SpecialLabels DEF FailUpdate, FailInsert, CacheInv, Knows, Provisioning
  <2>2. OverrideOnlyWhileRunning'
    <3>1. UNCHANGED cache
      BY <1>7 DEF FailUpdate, FailInsert
    <3>2. CASE UNCHANGED record
      BY <1>0, <3>1, <3>2, RecordKept
    <3>3. CASE Uncached(w) /\ record' = [record EXCEPT ![job[w].user] = job[w].inst]
      BY <2>1, <3>1, <3>3, WriteUncached
    <3> QED
      BY <1>7, <2>1, <3>2, <3>3, DeadWrites
      DEF FailUpdate, FailInsert, UpdateInstance, CreateInstance
  <2>3. PICK res : Return(w, res)
    BY <1>7 DEF FailUpdate, FailInsert
  <2> QED
    BY <1>0, <2>1, <2>2, <2>3, ReturnKnows, StepUnderLock
<1> QED
  BY <1>1, <1>2, <1>3, <1>4, <1>5, <1>6, <1>7 DEF CreateStep, ResumeStep, FailStep

(* The steps of Wake, Suspend, Delete and SetModelConfig. *)
LEMMA OthersKeepCacheInv ==
    ASSUME OneReplica, CacheInv, TypeInv', NEW w \in Workers,
           WakeStep(w) \/ SuspendStep(w) \/ DeleteStep(w) \/ ModelStep(w)
    PROVE  CacheInv'
<1>0. TypeInv /\ OverrideOnlyWhileRunning
  BY DEF CacheInv
<1>1. CASE WakeRead(w)
  <2>1. pc[w] \in Locked /\ pc[w] # "idle"
    BY <1>1, LabelTypes DEF WakeRead
  <2>2. OverrideOnlyWhileRunning' /\ UNCHANGED cache
    BY <1>0, <1>1, RecordKept DEF WakeRead
  <2>3. ASSUME NEW res, Return(w, res) PROVE CacheInv'
    BY <1>0, <2>1, <2>2, <2>3, ReturnKnows, StepUnderLock
  <2>4. CASE record[job[w].user].status # "running" /\ Load(w, "w_start")
    BY <1>0, <2>1, <2>2, <2>4, NotRunningUncached, MovesKeepRequest, ProvisionKnows, StepUnderLock
    DEF Provisioning
  <2> QED
    BY <1>1, <2>3, <2>4 DEF WakeRead
<1>2. CASE WakeStart(w)
  <2>1. pc[w] \in Locked /\ (Uncached(w) \/ CannotWrite(w))
    BY <1>2, SpecialLabels DEF WakeStart, CacheInv, Knows, Provisioning
  <2>2. OverrideOnlyWhileRunning' /\ UNCHANGED cache
    BY <1>0, <1>2, RecordKept DEF WakeStart
  <2>3. CASE Goto(w, "w_register") /\ UNCHANGED lock
    BY <2>1, <2>2, <2>3, PlainKnows, StepUnderLock DEF Provisioning
  <2>4. ASSUME NEW f, ContinueWithError(w, "f_read", f) PROVE CacheInv'
    BY <1>0, <2>1, <2>2, <2>4, MovesKeepRequest, ProvisionKnows, StepUnderLock DEF Provisioning
  <2> QED
    BY <1>2, <2>3, <2>4 DEF WakeStart
<1>3. CASE WakeSave(w)
  <2>1. pc[w] \in Locked /\ UNCHANGED cache
    BY <1>3, LabelTypes DEF WakeSave
  <2>2. WithStatus(job[w].inst, "running").status = "running"
    BY <1>0, <1>3, WorkerTypes DEF WakeSave, WithStatus, Instance
  <2>3. OverrideOnlyWhileRunning'
    BY <1>0, <1>3, <2>1, <2>2, WriteRunning, RecordKept DEF WakeSave, Save, UpdateInstance
  <2>4. PICK res : Return(w, res)
    BY <1>3 DEF WakeSave, Save
  <2> QED
    BY <1>0, <2>1, <2>3, <2>4, ReturnKnows, StepUnderLock
<1>4. CASE SuspendRead(w)
  <2>1. pc[w] \in Locked
    BY <1>4, LabelTypes DEF SuspendRead
  <2>2. OverrideOnlyWhileRunning'
    BY <1>0, <1>4, RecordKept DEF SuspendRead
  <2>3. ASSUME NEW res, Return(w, res) PROVE CacheInv'
    BY <1>0, <2>1, <2>2, <2>3, ReturnKnows, StepUnderLock
  <2>4. CASE Load(w, "s_stop")
    BY <1>0, <2>1, <2>2, <2>4, MovesKeepRequest, PlainKnows, StepUnderLock DEF Provisioning
  <2> QED
    BY <1>4, <2>3, <2>4 DEF SuspendRead
<1>5. CASE SuspendStop(w) \/ DeleteSandbox(w) \/ DeleteRoute(w)
  <2>1. pc[w] \in Locked
    BY <1>5, LabelTypes DEF SuspendStop, DeleteSandbox, DeleteRoute
  <2>2. OverrideOnlyWhileRunning'
    BY <1>0, <1>5, RecordKept DEF SuspendStop, DeleteSandbox, DeleteRoute
  <2>3. CASE Return(w, "faulted")
    BY <1>0, <2>1, <2>2, <2>3, ReturnKnows, StepUnderLock
  <2>4. ASSUME NEW label \in {"s_uncache", "d_unregister", "d_uncache"}, Continue(w, label)
        PROVE  CacheInv'
    BY <1>0, <2>1, <2>2, <2>4, MovesKeepRequest, PlainKnows, StepUnderLock DEF Provisioning
  <2> QED
    BY <1>5, <2>3, <2>4 DEF SuspendStop, DeleteSandbox, DeleteRoute
<1>6. CASE DropConfig(w)
  <2>1. pc[w] \in Locked /\ pc[w] # "idle"
    BY <1>6, LabelTypes DEF DropConfig
  <2>2. PICK label \in {"s_update", "d_store"} : Continue(w, label)
    BY <1>6 DEF DropConfig
  <2>3. OverrideOnlyWhileRunning'
    BY <1>0, <1>6, <2>1, WorkerTypes DEF DropConfig, OverrideOnlyWhileRunning, TypeInv, TypeOK
  <2>4. pc'[w] = label /\ UNCHANGED <<lock, job>> /\ Goto(w, label)
    BY <1>0, <2>2 DEF Continue, Goto, TypeInv, TypeOK
  <2>5. Uncached(w)'
    BY <1>0, <1>6, <2>1, <2>4, WorkerTypes DEF DropConfig, Uncached, TypeInv, TypeOK
  <2>6. Knows(w)'
    BY <2>1, <2>4, <2>5, SpecialLabels DEF Knows, CacheInv
  <2> QED
    BY <2>1, <2>3, <2>4, <2>6, StepUnderLock
<1>7. CASE SuspendSave(w)
  <2>1. pc[w] \in Locked /\ pc[w] # "idle" /\ Uncached(w) /\ UNCHANGED cache
    BY <1>7, LabelTypes DEF SuspendSave, CacheInv, Knows
  <2>2. OverrideOnlyWhileRunning'
    BY <1>0, <1>7, <2>1, WriteUncached, RecordKept DEF SuspendSave, Save, UpdateInstance
  <2>3. PICK res : Return(w, res)
    BY <1>7 DEF SuspendSave, Save
  <2> QED
    BY <1>0, <2>1, <2>2, <2>3, ReturnKnows, StepUnderLock
<1>8. CASE DeleteRecord(w)
  <2>1. pc[w] \in Locked /\ pc[w] # "idle" /\ Uncached(w) /\ UNCHANGED cache
    BY <1>8, LabelTypes DEF DeleteRecord, CacheInv, Knows
  <2>2. OverrideOnlyWhileRunning'
    BY <1>0, <1>8, <2>1, WriteUncached, RecordKept DEF DeleteRecord, DeleteInstance
  <2>3. PICK res : Return(w, res)
    BY <1>8 DEF DeleteRecord
  <2> QED
    BY <1>0, <2>1, <2>2, <2>3, ReturnKnows, StepUnderLock
<1>9. CASE ModelRead(w)
  <2>1. pc[w] \in Locked /\ pc[w] # "idle"
    BY <1>9, LabelTypes DEF ModelRead
  <2>2. OverrideOnlyWhileRunning' /\ UNCHANGED <<cache, record>>
    BY <1>0, <1>9, RecordKept DEF ModelRead
  <2>3. ASSUME NEW res, Return(w, res) PROVE CacheInv'
    BY <1>0, <2>1, <2>2, <2>3, ReturnKnows, StepUnderLock
  <2>4. CASE record[job[w].user].status = "running" /\ Load(w, "m_inject")
    <3>1. KeepsRequest(w) /\ Goto(w, "m_inject") /\ UNCHANGED lock
      BY <1>0, <2>4, MovesKeepRequest
    <3>2. pc'[w] = "m_inject" /\ record'[job'[w].user].status = "running"
      BY <1>0, <2>2, <2>4, <3>1 DEF Goto, KeepsRequest, TypeInv, TypeOK
    <3>3. Knows(w)'
      BY <2>1, <3>1, <3>2, SpecialLabels DEF Knows, CacheInv
    <3> QED
      BY <2>1, <2>2, <3>1, <3>3, StepUnderLock
  <2> QED
    BY <1>9, <2>3, <2>4 DEF ModelRead
<1>10. CASE ModelInject(w)
  <2>1. pc[w] \in Locked /\ record[job[w].user].status = "running"
    BY <1>10, LabelTypes DEF ModelInject, CacheInv, Knows
  <2>2. OverrideOnlyWhileRunning' /\ UNCHANGED <<cache, record>>
    BY <1>0, <1>10, RecordKept DEF ModelInject
  <2>3. ASSUME NEW res, Return(w, res) PROVE CacheInv'
    BY <1>0, <2>1, <2>2, <2>3, ReturnKnows, StepUnderLock
  <2>4. CASE Continue(w, "m_cache")
    <3>1. KeepsRequest(w) /\ Goto(w, "m_cache") /\ UNCHANGED lock
      BY <1>0, <2>4, MovesKeepRequest
    <3>2. pc'[w] = "m_cache" /\ record'[job'[w].user].status = "running"
      BY <1>0, <2>1, <2>2, <3>1 DEF Goto, KeepsRequest, TypeInv, TypeOK
    <3>3. Knows(w)'
      BY <2>1, <3>1, <3>2, SpecialLabels DEF Knows, CacheInv
    <3> QED
      BY <2>1, <2>2, <3>1, <3>3, StepUnderLock
  <2> QED
    BY <1>10, <2>3, <2>4 DEF ModelInject
<1>11. CASE ModelCache(w)
  <2>1. pc[w] \in Locked /\ record[job[w].user].status = "running"
    BY <1>11, LabelTypes DEF ModelCache, CacheInv, Knows
  <2>2. OverrideOnlyWhileRunning'
    BY <1>0, <1>11, <2>1 DEF ModelCache, OverrideOnlyWhileRunning, TypeInv, TypeOK
  <2> QED
    BY <1>0, <1>11, <2>1, <2>2, ReturnKnows, StepUnderLock DEF ModelCache
<1> QED
  BY <1>1, <1>2, <1>3, <1>4, <1>5, <1>6, <1>7, <1>8, <1>9, <1>10, <1>11
  DEF WakeStep, SuspendStep, DeleteStep, ModelStep

(* The environment, and the beginning and the end of a request. *)
LEMMA EnvironmentKeepsCacheInv ==
    ASSUME OneReplica, CacheInv, TypeInv', Environment
    PROVE  CacheInv'
<1>0. TypeInv /\ OverrideOnlyWhileRunning
  BY DEF CacheInv
<1>1. ASSUME NEW r \in Replicas, NEW u \in Users, ExpireConfig(r, u) PROVE CacheInv'
  <2>1. \A w \in Workers : cache'[Host[w]] \subseteq cache[Host[w]]
    BY <1>0, <1>1, ConstantsAssumption DEF ExpireConfig, TypeInv, TypeOK
  <2>2. \A w \in Workers : Knows(w)'
    BY <1>1, <2>1 DEF ExpireConfig, CacheInv, Knows, Uncached, CannotWrite
  <2>3. OverrideOnlyWhileRunning'
    BY <1>0, <1>1 DEF ExpireConfig, OverrideOnlyWhileRunning, TypeInv, TypeOK
  <2> QED
    BY <2>2, <2>3 DEF CacheInv
<1>2. ASSUME NEW v \in Workers, Disconnect(v) PROVE CacheInv'
  <2>1. \A w \in Workers : job'[w].user = job[w].user /\ (~job[w].alive => ~job'[w].alive)
    BY <1>0, <1>2 DEF Disconnect, SetJob, TypeInv, TypeOK, Job
  <2>2. \A w \in Workers : Knows(w)'
    BY <1>2, <2>1 DEF Disconnect, CacheInv, Knows, Uncached, CannotWrite
  <2> QED
    BY <1>0, <1>2, <2>2, RecordKept DEF Disconnect, CacheInv
<1>3. ASSUME UNCHANGED <<record, cache, lock, pc, job>> PROVE CacheInv'
  BY <1>0, <1>3, RecordKept DEF CacheInv, Knows, Uncached, CannotWrite
<1>4. ASSUME NEW r \in Replicas, Crash(r) PROVE CacheInv'
  <2>1. \A w \in Workers : pc'[w] = "idle"
    BY <1>4, ConstantsAssumption DEF Crash, OneReplica
  <2>2. \A q \in Replicas : cache'[q] = {}
    BY <1>0, <1>4 DEF Crash, OneReplica, TypeInv, TypeOK
  <2> QED
    BY <2>1, <2>2, LabelTypes, SpecialLabels DEF CacheInv, Knows, OverrideOnlyWhileRunning
<1> QED
  BY <1>1, <1>2, <1>3, <1>4 DEF Environment, SandboxDies, RestartGateway

LEMMA BeginAndReplyKeepCacheInv ==
    ASSUME OneReplica, CacheInv, TypeInv', NEW w \in Workers,
           Reply(w) \/ \E op \in Ops, u \in Users : Begin(w, op, u)
    PROVE  CacheInv'
<1>0. TypeInv /\ OverrideOnlyWhileRunning
  BY DEF CacheInv
<1>1. CASE Reply(w)
  <2>1. \A v \in Workers : v # w => pc'[v] = pc[v] /\ job'[v] = job[v]
    BY <1>0, <1>1 DEF Reply, Goto, SetJob, TypeInv, TypeOK
  <2>2. pc'[w] = "idle"
    BY <1>0, <1>1 DEF Reply, Goto, TypeInv, TypeOK
  <2>3. \A v \in Workers : Knows(v)'
    BY <1>1, <2>1, <2>2, LabelTypes, SpecialLabels DEF Reply, CacheInv, Knows, Uncached, CannotWrite
  <2> QED
    BY <1>0, <1>1, <2>3, RecordKept DEF Reply, CacheInv
<1>2. ASSUME NEW op \in Ops, NEW u \in Users, Begin(w, op, u) PROVE CacheInv'
  <2>1. lock[Host[w]] = NoWorker /\ lock'[Host[w]] = w /\ pc'[w] = Entry[op]
    BY <1>0, <1>2, ConstantsAssumption DEF Begin, Goto, TypeInv, TypeOK
  <2>2. Entry[op] \notin Provisioning \cup {"m_inject", "m_cache", "s_update", "d_store"}
    BY DEF Entry, Ops, Provisioning
  <2>3. ASSUME NEW v \in Workers, v # w PROVE Knows(v)'
    <3>1. pc[v] \notin Locked
      BY <2>1, ConstantsAssumption DEF CacheInv, Knows, OneReplica
    <3>2. pc'[v] = pc[v]
      BY <1>0, <1>2, <2>3 DEF Begin, Goto, TypeInv, TypeOK
    <3> QED
      BY <3>1, <3>2, SpecialLabels DEF Knows
  <2>4. Knows(w)'
    BY <2>1, <2>2 DEF Knows
  <2> QED
    BY <1>0, <1>2, <2>3, <2>4, RecordKept DEF Begin, CacheInv
<1> QED
  BY <1>1, <1>2

(* The invariant holds initially, and every step keeps it. *)
LEMMA InitCached == Init => CacheInv
  BY InitTyped, LabelTypes, SpecialLabels DEF Init, CacheInv, OverrideOnlyWhileRunning, Knows

LEMMA CacheInvStep ==
    ASSUME OneReplica, ReadsAnswer, CacheInv, [Next]_vars
    PROVE  CacheInv'
<1>1. TypeInv'
  BY NextTyped DEF CacheInv
<1>2. CASE UNCHANGED vars
  BY <1>1, <1>2, RecordKept DEF vars, CacheInv, Knows, Uncached, CannotWrite
<1>3. CASE Next
  BY <1>1, <1>3, CreateKeepsCacheInv, OthersKeepCacheInv, EnvironmentKeepsCacheInv,
     BeginAndReplyKeepCacheInv
  DEF Next, Serve
<1> QED
  BY <1>2, <1>3

(* With one replica, and a store whose reads answer, an override and its   *)
(* credentials are never held for a user whose record does not say         *)
(* running, wherever an operation fails, is cut off or is killed.          *)
THEOREM CredentialsOnlyWhileRunning ==
    ASSUME OneReplica, ReadsAnswer
    PROVE  Spec => []OverrideOnlyWhileRunning
<1>1. Init => CacheInv
  BY InitCached
<1>2. CacheInv /\ [Next]_vars => CacheInv'
  BY CacheInvStep
<1>3. CacheInv => OverrideOnlyWhileRunning
  BY DEF CacheInv
<1> QED
  BY <1>1, <1>2, <1>3, PTL DEF Spec
===============================================================================
