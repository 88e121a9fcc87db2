-------------------------- MODULE Refinement_proofs --------------------------
(***************************************************************************)
(* Lifecycle implements InstanceLifecycle, for one control-plane process   *)
(* with any number of users, sandboxes and goroutines.                     *)
(***************************************************************************)
EXTENDS Lifecycle_proofs

(* The abstract state. *)
StatusOf == [u \in Users |-> record[u].status]
Overrides == UNION {cache[r] : r \in Replicas}

(* A write that was refused must not have been taken: a Create whose       *)
(* INSERT took effect although it was answered with an error would turn a  *)
(* running record into a failed one.                                       *)
WritesAnswer == StoreKind = "memory" \/ "lostWrite" \notin Faults

Waking == {"w_register", "w_inject", "w_update"}
Creating == {"c_clean", "c_new", "c_register", "c_inject", "c_insert"}
Suspending == {"s_stop", "s_uncache", "s_update"}

(* What a goroutine under m.mu knows of its user's record, and of the row  *)
(* it is going to write.                                                   *)
KnowsStatus(w) ==
    /\ pc[w] \in Provisioning \cup Waking =>
          record[job[w].user].status # "running" \/ CannotWrite(w)
    /\ pc[w] \in Creating => job[w].inst.status = "running"
    /\ pc[w] \in {"f_update", "f_insert"} => job[w].inst.status = "failed"
    /\ pc[w] \in Suspending => record[job[w].user].status = "running"

(* The inductive invariant under which every step is an abstract one. *)
StatusInv == CacheInv /\ \A w \in Workers : KnowsStatus(w)

LEMMA StatusLabels ==
    Waking \cup Creating \cup Suspending \cup {"f_update", "f_insert"} \subseteq Locked
  BY LabelTypes DEF Waking, Creating, Suspending

LEMMA StatusStep ==
    ASSUME OneReplica, StatusInv, CacheInv', NEW w \in Workers, pc[w] \in Locked,
           NEW label, Goto(w, label), KnowsStatus(w)'
    PROVE  StatusInv'
<1>1. ASSUME NEW v \in Workers, v # w PROVE KnowsStatus(v)'
  <2>1. pc'[v] = pc[v]
    BY <1>1 DEF Goto, StatusInv, CacheInv, TypeInv, TypeOK
  <2>2. pc'[v] \notin Locked
    BY <1>1, <2>1, Alone DEF StatusInv
  <2> QED
    BY <2>2, StatusLabels, SpecialLabels DEF KnowsStatus
<1> QED
  BY <1>1 DEF StatusInv

(* A goroutine that leaves the request, or goes to a label about which     *)
(* nothing has to be known, has nothing to show.                           *)
LEMMA PlainStatusStep ==
    ASSUME OneReplica, StatusInv, CacheInv', NEW w \in Workers, pc[w] \in Locked,
           NEW label, Goto(w, label),
           label \notin Provisioning \cup Waking \cup Creating \cup Suspending
    PROVE  StatusInv'
<1>1. pc'[w] = label
  BY DEF Goto, StatusInv, CacheInv, TypeInv, TypeOK
<1>2. KnowsStatus(w)'
  BY <1>1 DEF KnowsStatus, Provisioning
<1> QED
  BY <1>2, StatusStep

LEMMA ReturnStatusStep ==
    ASSUME OneReplica, StatusInv, CacheInv', NEW w \in Workers, pc[w] \in Locked,
           NEW res, Return(w, res)
    PROVE  StatusInv'
<1>1. Goto(w, "reply")
  BY DEF Return
<1> QED
  BY <1>1, PlainStatusStep DEF Provisioning, Waking, Creating, Suspending

LEMMA MovesKeepInstance ==
    ASSUME TypeInv, NEW w \in Workers, NEW label, NEW f,
           Continue(w, label) \/ ContinueWithError(w, label, f)
    PROVE  job'[w].inst = job[w].inst
  BY DEF Continue, ContinueWithError, SetJob, TypeInv, TypeOK, Job

(* From one label of Provisioning or Waking to another, the record as it   *)
(* is: nothing more than the row has to be known.                          *)
LEMMA ProvisionStatusStep ==
    ASSUME OneReplica, StatusInv, CacheInv', NEW w \in Workers, pc[w] \in Locked,
           NEW label, Goto(w, label),
           KeepsRequest(w), UNCHANGED record,
           record[job[w].user].status # "running" \/ CannotWrite(w),
           label \in Creating => job'[w].inst.status = "running",
           label \in {"f_update", "f_insert"} => job'[w].inst.status = "failed",
           label \notin Suspending
    PROVE  StatusInv'
<1>1. pc'[w] = label
  BY DEF Goto, StatusInv, CacheInv, TypeInv, TypeOK
<1>2. KnowsStatus(w)'
  BY <1>1 DEF KnowsStatus, KeepsRequest, CannotWrite
<1> QED
  BY <1>2, StatusStep

LEMMA NoLostWrite ==
    ASSUME WritesAnswer, NEW w \in Workers, NEW f \in WriteOutcomes(w)
    PROVE  f \in {"ok", "write"}
  BY ConstantsAssumption DEF WritesAnswer, WriteOutcomes, Outcomes

(* The steps of Create, and of failInstance. *)
LEMMA CreateKeepsStatusInv ==
    ASSUME OneReplica, ReadsAnswer, WritesAnswer, StatusInv, CacheInv', NEW w \in Workers,
           CreateStep(w) \/ ResumeStep(w) \/ FailStep(w)
    PROVE  StatusInv'
<1>0. TypeInv /\ CacheInv /\ KnowsStatus(w) /\ job \in [Workers -> Job]
  BY DEF StatusInv, CacheInv, TypeInv, TypeOK
<1>1. CASE CreateRead(w)
  <2>1. pc[w] \in Locked /\ UNCHANGED record
    BY <1>1, LabelTypes DEF CreateRead
  <2>2. CASE Return(w, "ok")
    BY <2>1, <2>2, ReturnStatusStep
  <2>3. CASE record[job[w].user].status = "suspended" /\ Load(w, "w_start")
    BY <1>0, <2>1, <2>3, MovesKeepRequest, ProvisionStatusStep DEF Creating, Suspending
  <2>4. ASSUME NEW label \in {"c_clean", "c_new"}, Goto(w, label), NEW from,
               SetJob(w, [job[w] EXCEPT !.inst = NewInstance, !.from = from])
               \/ SetJob(w, [job[w] EXCEPT !.inst = NewInstance]),
               record[job[w].user].status # "running" \/ CannotWrite(w)
        PROVE  StatusInv'
    <3>1. KeepsRequest(w) /\ job'[w].inst = NewInstance
      <4>1. job[w] \in Job
        BY <1>0
      <4>2. CASE SetJob(w, [job[w] EXCEPT !.inst = NewInstance, !.from = from])
        BY <1>0, <4>1, <4>2 DEF SetJob, KeepsRequest, Job
      <4>3. CASE SetJob(w, [job[w] EXCEPT !.inst = NewInstance])
        BY <1>0, <4>1, <4>3 DEF SetJob, KeepsRequest, Job
      <4> QED BY <2>4, <4>2, <4>3
    <3>2. NewInstance.status = "running"
      BY DEF NewInstance, NoInstance
    <3> QED
      BY <2>1, <2>4, <3>1, <3>2, ProvisionStatusStep DEF Creating, Suspending
  <2> QED
    BY <1>0, <1>1, <2>2, <2>3, <2>4, FailedRead DEF CreateRead
<1>2. CASE CleanUp(w)
  <2>1. pc[w] \in Locked /\ UNCHANGED record
    BY <1>2, LabelTypes DEF CleanUp
  <2>2. record[job[w].user].status # "running" \/ CannotWrite(w)
    BY <1>0, <1>2 DEF CleanUp, KnowsStatus, Provisioning
  <2>3. \/ pc[w] = "c_clean" /\ Continue(w, "c_new")
        \/ Continue(w, "f_read")
    BY <1>2 DEF CleanUp
  <2>4. pc[w] = "c_clean" => job[w].inst.status = "running"
    BY <1>0 DEF KnowsStatus, Creating
  <2> QED
    BY <1>0, <2>1, <2>2, <2>3, <2>4, MovesKeepRequest, MovesKeepInstance, ProvisionStatusStep
    DEF Creating, Suspending
<1>3. CASE CreateSandbox(w)
  <2>1. pc[w] \in Locked /\ UNCHANGED record
    BY <1>3, LabelTypes DEF CreateSandbox
  <2>2. /\ record[job[w].user].status # "running" \/ CannotWrite(w)
        /\ job[w].inst.status = "running"
    BY <1>0, <1>3 DEF CreateSandbox, KnowsStatus, Provisioning, Creating
  <2>3. ASSUME NEW s, Goto(w, "c_register"), SetJob(w, [job[w] EXCEPT !.inst = WithEndpoint(@, s)])
        PROVE  StatusInv'
    <3>1. KeepsRequest(w) /\ job'[w].inst.status = job[w].inst.status
      BY <1>0, <2>3 DEF SetJob, KeepsRequest, WithEndpoint, Job, Instance
    <3> QED
      BY <2>1, <2>2, <2>3, <3>1, ProvisionStatusStep DEF Creating, Suspending
  <2>4. ASSUME NEW f, ContinueWithError(w, "f_read", f) PROVE StatusInv'
    BY <1>0, <2>1, <2>2, <2>4, MovesKeepRequest, ProvisionStatusStep DEF Creating, Suspending
  <2> QED
    BY <1>3, <2>3, <2>4 DEF CreateSandbox
<1>4. CASE CreateInsert(w)
  <2>1. pc[w] \in Locked
    BY <1>4, LabelTypes DEF CreateInsert
  <2>2. record[job[w].user].status # "running" \/ CannotWrite(w)
    BY <1>0, <1>4 DEF CreateInsert, KnowsStatus, Provisioning
  <2>3. CASE Return(w, "ok")
    BY <2>1, <2>3, ReturnStatusStep
  <2>4. ASSUME NEW f, UNCHANGED record, ContinueWithError(w, "c_undo", f) PROVE StatusInv'
    BY <1>0, <2>1, <2>2, <2>4, MovesKeepRequest, ProvisionStatusStep DEF Creating, Suspending
  <2> QED
    BY <1>4, <2>3, <2>4, NoLostWrite DEF CreateInsert
<1>5. CASE RegisterGateway(w) \/ InjectConfig(w)
  <2>1. pc[w] \in Locked /\ UNCHANGED record
    BY <1>5, LabelTypes DEF RegisterGateway, InjectConfig
  <2>2. /\ record[job[w].user].status # "running" \/ CannotWrite(w)
        /\ pc[w] \in {"c_register", "c_inject"} => job[w].inst.status = "running"
    BY <1>0, <1>5
    DEF RegisterGateway, InjectConfig, KnowsStatus, Provisioning, Creating, Waking
  <2>3. \/ pc[w] \in {"c_register", "c_inject"} /\ \E label \in {"c_inject", "c_insert"} : Continue(w, label)
        \/ \E label \in {"w_inject", "w_update"} : Continue(w, label)
    BY <1>5 DEF RegisterGateway, InjectConfig
  <2>4. ASSUME NEW label \in {"w_inject", "w_update"}, Continue(w, label) PROVE StatusInv'
    BY <1>0, <2>1, <2>2, <2>4, MovesKeepRequest, ProvisionStatusStep DEF Creating, Suspending
  <2>5. ASSUME pc[w] \in {"c_register", "c_inject"}, NEW label \in {"c_inject", "c_insert"}, Continue(w, label)
        PROVE  StatusInv'
    BY <1>0, <2>1, <2>2, <2>5, MovesKeepRequest, MovesKeepInstance, ProvisionStatusStep
    DEF Creating, Suspending
  <2> QED
    BY <2>3, <2>4, <2>5
<1>6. CASE FailRead(w)
  <2>1. pc[w] \in Locked /\ UNCHANGED record
    BY <1>6, LabelTypes DEF FailRead
  <2>2. record[job[w].user].status # "running" \/ CannotWrite(w)
    BY <1>0, <1>6 DEF FailRead, KnowsStatus, Provisioning
  <2>3. KeepsRequest(w) /\ job'[w].inst.status = "failed"
    BY <1>0, <1>6 DEF FailRead, SetJob, KeepsRequest, WithStatus, Job, Instance
  <2>4. PICK label \in {"f_update", "f_insert"} : Goto(w, label)
    BY <1>6 DEF FailRead
  <2> QED
    BY <2>1, <2>2, <2>3, <2>4, ProvisionStatusStep DEF Creating, Suspending
<1>7. CASE FailUpdate(w) \/ FailInsert(w)
  <2>1. pc[w] \in Locked /\ \E res : Return(w, res)
    BY <1>7, LabelTypes DEF FailUpdate, FailInsert
  <2> QED
    BY <2>1, ReturnStatusStep
<1> QED
  BY <1>1, <1>2, <1>3, <1>4, <1>5, <1>6, <1>7 DEF CreateStep, ResumeStep, FailStep

(* The steps of Wake, Suspend, Delete and SetModelConfig. *)
LEMMA OthersKeepStatusInv ==
    ASSUME OneReplica, StatusInv, CacheInv', NEW w \in Workers,
           WakeStep(w) \/ SuspendStep(w) \/ DeleteStep(w) \/ ModelStep(w)
    PROVE  StatusInv'
<1>0. TypeInv /\ CacheInv /\ KnowsStatus(w) /\ job \in [Workers -> Job]
  BY DEF StatusInv, CacheInv, TypeInv, TypeOK
<1>1. CASE WakeRead(w)
  <2>1. pc[w] \in Locked /\ UNCHANGED record
    BY <1>1, LabelTypes DEF WakeRead
  <2>2. CASE record[job[w].user].status # "running" /\ Load(w, "w_start")
    BY <1>0, <2>1, <2>2, MovesKeepRequest, ProvisionStatusStep DEF Creating, Suspending
  <2> QED
    BY <1>1, <2>1, <2>2, ReturnStatusStep DEF WakeRead
<1>2. CASE WakeStart(w)
  <2>1. pc[w] \in Locked /\ UNCHANGED record
    BY <1>2, LabelTypes DEF WakeStart
  <2>2. record[job[w].user].status # "running" \/ CannotWrite(w)
    BY <1>0, <1>2 DEF WakeStart, KnowsStatus, Provisioning
  <2>3. ASSUME NEW s, Goto(w, "w_register"), SetJob(w, [job[w] EXCEPT !.inst = WithEndpoint(@, s)])
        PROVE  StatusInv'
    <3>1. KeepsRequest(w)
      BY <1>0, <2>3 DEF SetJob, KeepsRequest, Job
    <3> QED
      BY <2>1, <2>2, <2>3, <3>1, ProvisionStatusStep DEF Creating, Suspending
  <2>4. ASSUME NEW f, ContinueWithError(w, "f_read", f) PROVE StatusInv'
    BY <1>0, <2>1, <2>2, <2>4, MovesKeepRequest, ProvisionStatusStep DEF Creating, Suspending
  <2> QED
    BY <1>2, <2>3, <2>4 DEF WakeStart
<1>3. CASE WakeSave(w) \/ SuspendSave(w) \/ DeleteRecord(w) \/ ModelCache(w)
  <2>1. pc[w] \in Locked /\ \E res : Return(w, res)
    BY <1>3, LabelTypes DEF WakeSave, SuspendSave, Save, DeleteRecord, ModelCache
  <2> QED
    BY <2>1, ReturnStatusStep
<1>4. CASE SuspendRead(w)
  <2>1. pc[w] \in Locked /\ UNCHANGED record
    BY <1>4, LabelTypes DEF SuspendRead
  <2>2. CASE record[job[w].user].status = "running" /\ Load(w, "s_stop")
    <3>1. KeepsRequest(w) /\ Goto(w, "s_stop")
      BY <1>0, <2>2, MovesKeepRequest
    <3>2. pc'[w] = "s_stop" /\ record'[job'[w].user].status = "running"
      BY <1>0, <2>1, <2>2, <3>1 DEF Goto, KeepsRequest, TypeInv, TypeOK
    <3> QED
      BY <2>1, <3>1, <3>2, StatusStep DEF KnowsStatus, Provisioning, Waking, Creating
  <2> QED
    BY <1>4, <2>1, <2>2, ReturnStatusStep DEF SuspendRead
<1>5. CASE SuspendStop(w) \/ DropConfig(w)
  <2>1. pc[w] \in Locked /\ UNCHANGED record
    BY <1>5, LabelTypes DEF SuspendStop, DropConfig
  <2>2. CASE pc[w] \in Suspending /\ \E label \in {"s_uncache", "s_update"} : Continue(w, label)
    <3>1. PICK label \in {"s_uncache", "s_update"} : Continue(w, label)
      BY <2>2
    <3>2. Goto(w, label) /\ KeepsRequest(w)
      BY <1>0, <3>1, MovesKeepRequest
    <3>3. pc'[w] = label
      BY <1>0, <3>2 DEF Goto, TypeInv, TypeOK
    <3>4. record'[job'[w].user].status = "running"
      BY <1>0, <2>1, <2>2, <3>2 DEF KnowsStatus, KeepsRequest
    <3> QED
      BY <2>1, <3>2, <3>3, <3>4, StatusStep DEF KnowsStatus, Provisioning, Waking, Creating
  <2>3. CASE Return(w, "faulted")
    BY <2>1, <2>3, ReturnStatusStep
  <2>4. CASE Continue(w, "d_store")
    BY <1>0, <2>1, <2>4, MovesKeepRequest, PlainStatusStep
    DEF Provisioning, Waking, Creating, Suspending
  <2> QED
    BY <1>5, <2>2, <2>3, <2>4 DEF SuspendStop, DropConfig, Suspending
<1>6. CASE DeleteSandbox(w) \/ DeleteRoute(w) \/ ModelRead(w) \/ ModelInject(w)
  <2>1. pc[w] \in Locked
    BY <1>6, LabelTypes DEF DeleteSandbox, DeleteRoute, ModelRead, ModelInject
  <2>2. \/ \E res : Return(w, res)
        \/ \E label \in {"d_unregister", "d_uncache", "m_cache"} : Continue(w, label)
        \/ Load(w, "m_inject")
    BY <1>6 DEF DeleteSandbox, DeleteRoute, ModelRead, ModelInject
  <2>3. ASSUME NEW label \in {"d_unregister", "d_uncache", "m_cache", "m_inject"}, Goto(w, label)
        PROVE  StatusInv'
    BY <2>1, <2>3, PlainStatusStep DEF Provisioning, Waking, Creating, Suspending
  <2> QED
    BY <1>0, <2>1, <2>2, <2>3, MovesKeepRequest, ReturnStatusStep
<1> QED
  BY <1>1, <1>2, <1>3, <1>4, <1>5, <1>6 DEF WakeStep, SuspendStep, DeleteStep, ModelStep

(* The environment, and the beginning and the end of a request. *)
LEMMA EnvironmentKeepsStatusInv ==
    ASSUME OneReplica, StatusInv, CacheInv', Environment
    PROVE  StatusInv'
<1>0. CacheInv /\ TypeInv
  BY DEF StatusInv, CacheInv
<1>1. ASSUME NEW v \in Workers, Disconnect(v) PROVE StatusInv'
  <2>1. \A w \in Workers : /\ job'[w].user = job[w].user /\ job'[w].inst = job[w].inst
                           /\ ~job[w].alive => ~job'[w].alive
    BY <1>0, <1>1 DEF Disconnect, SetJob, TypeInv, TypeOK, Job
  <2>2. \A w \in Workers : KnowsStatus(w)'
    BY <1>1, <2>1 DEF Disconnect, StatusInv, KnowsStatus, CannotWrite
  <2> QED
    BY <2>2 DEF StatusInv
<1>2. ASSUME UNCHANGED <<record, pc, job>> PROVE StatusInv'
  BY <1>2 DEF StatusInv, KnowsStatus, CannotWrite
<1>3. ASSUME NEW r \in Replicas, Crash(r) PROVE StatusInv'
  <2>1. \A w \in Workers : pc'[w] = "idle"
    BY <1>3, ConstantsAssumption DEF Crash, OneReplica
  <2> QED
    BY <2>1, LabelTypes, SpecialLabels, StatusLabels DEF StatusInv, KnowsStatus
<1> QED
  BY <1>1, <1>2, <1>3 DEF Environment, ExpireConfig, SandboxDies, RestartGateway

LEMMA BeginAndReplyKeepStatusInv ==
    ASSUME OneReplica, StatusInv, CacheInv', NEW w \in Workers,
           Reply(w) \/ \E op \in Ops, u \in Users : Begin(w, op, u)
    PROVE  StatusInv'
<1>0. CacheInv /\ TypeInv
  BY DEF StatusInv, CacheInv
<1>1. \A v \in Workers : v # w => pc'[v] = pc[v] /\ job'[v] = job[v]
  <2>1. ASSUME NEW label, Goto(w, label), NEW j, SetJob(w, j), NEW v \in Workers, v # w
        PROVE  pc'[v] = pc[v] /\ job'[v] = job[v]
    BY <1>0, <2>1 DEF Goto, SetJob, TypeInv, TypeOK
  <2> QED
    BY <2>1 DEF Reply, Begin
<1>2. pc'[w] = "idle" \/ pc'[w] \in {"c_read", "s_read", "k_read", "d_backend", "m_read"}
  <2>1. \A op \in Ops : Entry[op] \in {"c_read", "s_read", "k_read", "d_backend", "m_read"}
    BY DEF Entry, Ops
  <2>2. ASSUME NEW label, Goto(w, label) PROVE pc'[w] = label
    BY <1>0, <2>2 DEF Goto, TypeInv, TypeOK
  <2> QED
    BY <2>1, <2>2 DEF Reply, Begin
<1>3. UNCHANGED record
  BY DEF Reply, Begin
<1>4. KnowsStatus(w)'
  BY <1>2 DEF KnowsStatus, Provisioning, Waking, Creating, Suspending
<1>5. \A v \in Workers : v # w => KnowsStatus(v)'
  BY <1>1, <1>3 DEF StatusInv, KnowsStatus, CannotWrite
<1> QED
  BY <1>4, <1>5 DEF StatusInv

-------------------------------------------------------------------------------
(* What a step does to the abstract state. *)

LEMMA AbstractTypes ==
    ASSUME TypeInv
    PROVE  \A u \in Users : StatusOf[u] = record[u].status
  BY DEF StatusOf

LEMMA RecordWritten ==
    ASSUME TypeInv, NEW u \in Users, NEW i, record' = [record EXCEPT ![u] = i]
    PROVE  StatusOf' = [StatusOf EXCEPT ![u] = i.status]
  BY DEF StatusOf, TypeInv, TypeOK

LEMMA Stutter ==
    ASSUME UNCHANGED <<record, cache>>
    PROVE  UNCHANGED Abstract!vars
  BY DEF Abstract!vars

(* A row of a user whose record is not running may turn running or failed. *)
LEMMA WriteAbstract ==
    ASSUME TypeInv, NEW u \in Users, record[u].status # "running",
           NEW i, i.status = "running" \/ i.status = "failed",
           record' = [record EXCEPT ![u] = i], UNCHANGED cache
    PROVE  Abstract!Next
<1>1. StatusOf' = [StatusOf EXCEPT ![u] = i.status] /\ StatusOf[u] = record[u].status
  BY RecordWritten, AbstractTypes
<1>2. record[u].status \in Status
  BY InstanceTypes DEF TypeInv, TypeOK
<1>3. Overrides' = Overrides
  BY DEF Overrides
<1>4. Abstract!Provision(u) \/ Abstract!Wake(u) \/ Abstract!Fail(u)
  BY <1>1, <1>2, <1>3 DEF Abstract!Provision, Abstract!Wake, Abstract!Fail, Abstract!Become,
     StatusOf, Overrides, Status
<1> QED
  BY <1>4 DEF Abstract!Next

(* A row of a user without an override may go, and be suspended if it runs. *)
LEMMA DropAbstract ==
    ASSUME OneReplica, TypeInv, NEW r \in Replicas, NEW u \in Users, u \notin cache[r],
           NEW i, i.status = "none" \/ (i.status = "suspended" /\ record[u].status = "running"),
           record' = [record EXCEPT ![u] = i], UNCHANGED cache
    PROVE  Abstract!Next
<1>1. StatusOf' = [StatusOf EXCEPT ![u] = i.status] /\ StatusOf[u] = record[u].status
  BY RecordWritten, AbstractTypes
<1>2. Overrides' = Overrides /\ u \notin Overrides
  BY DEF Overrides, OneReplica
<1>3. Abstract!Suspend(u) \/ Abstract!Remove(u)
  BY <1>1, <1>2 DEF Abstract!Suspend, Abstract!Remove, Abstract!Become, StatusOf, Overrides
<1> QED
  BY <1>3 DEF Abstract!Next

LEMMA OverridesOfOne ==
    ASSUME OneReplica, NEW r \in Replicas
    PROVE  Overrides = cache[r] /\ Overrides' = cache'[r]
  BY DEF Overrides, OneReplica

LEMMA CacheAbstract ==
    ASSUME OneReplica, TypeInv, NEW r \in Replicas, NEW u \in Users, UNCHANGED record,
           \/ cache' = [cache EXCEPT ![r] = @ \ {u}]
           \/ cache' = [cache EXCEPT ![r] = @ \cup {u}] /\ record[u].status = "running"
    PROVE  Abstract!Next
<1>1. StatusOf' = StatusOf /\ StatusOf[u] = record[u].status
  BY AbstractTypes DEF StatusOf
<1>2. Overrides' = Overrides \ {u} \/ (Overrides' = Overrides \cup {u} /\ record[u].status = "running")
  BY OverridesOfOne DEF TypeInv, TypeOK
<1>3. Abstract!Drop(u) \/ Abstract!Override(u)
  BY <1>1, <1>2 DEF Abstract!Drop, Abstract!Override, StatusOf, Overrides
<1> QED
  BY <1>3 DEF Abstract!Next
(* Save: the row was read, and the goroutine knows its status. *)
LEMMA SaveAbstract ==
    ASSUME OneReplica, StatusInv, NEW w \in Workers, WakeSave(w) \/ SuspendSave(w)
    PROVE  [Abstract!Next]_Abstract!vars
<1>0. TypeInv /\ KnowsStatus(w) /\ Knows(w)
  BY DEF StatusInv, CacheInv
<1>1. pc[w] # "idle" /\ UNCHANGED cache
  BY LabelTypes DEF WakeSave, SuspendSave
<1>2. job[w].user \in Users /\ Host[w] \in Replicas /\ job[w].inst \in Instance
  BY <1>0, <1>1, WorkerTypes
<1>3. CASE UNCHANGED record
  BY <1>1, <1>3, Stutter
<1>4. ASSUME pc[w] = "w_update", NEW f \in WriteOutcomes(w), WriteTakes(f),
             UpdateInstance(job[w].user, WithStatus(job[w].inst, "running"))
      PROVE  Abstract!Next
  <2>1. record[job[w].user].status # "running"
    BY <1>0, <1>4, DeadWrites DEF KnowsStatus, Waking
  <2>2. WithStatus(job[w].inst, "running").status = "running"
    BY <1>2 DEF WithStatus, Instance
  <2> QED
    BY <1>0, <1>1, <1>2, <1>4, <2>1, <2>2, WriteAbstract DEF UpdateInstance
<1>5. ASSUME pc[w] = "s_update", UpdateInstance(job[w].user, WithStatus(job[w].inst, "suspended"))
      PROVE  Abstract!Next
  <2>1. record[job[w].user].status = "running" /\ job[w].user \notin cache[Host[w]]
    BY <1>0, <1>5 DEF KnowsStatus, Suspending, Knows, Uncached
  <2>2. WithStatus(job[w].inst, "suspended").status = "suspended"
    BY <1>2 DEF WithStatus, Instance
  <2> QED
    BY <1>0, <1>1, <1>2, <1>5, <2>1, <2>2, DropAbstract DEF UpdateInstance
<1> QED
  BY <1>3, <1>4, <1>5 DEF WakeSave, SuspendSave, Save

(* The writes of Create and of failInstance. *)
LEMMA ProvisionAbstract ==
    ASSUME OneReplica, WritesAnswer, StatusInv, NEW w \in Workers,
           CreateInsert(w) \/ FailUpdate(w) \/ FailInsert(w)
    PROVE  [Abstract!Next]_Abstract!vars
<1>0. TypeInv /\ KnowsStatus(w)
  BY DEF StatusInv, CacheInv
<1>1. pc[w] # "idle" /\ UNCHANGED cache
  BY LabelTypes DEF CreateInsert, FailUpdate, FailInsert
<1>2. job[w].user \in Users
  BY <1>0, <1>1, WorkerTypes
<1>3. CASE UNCHANGED record
  BY <1>1, <1>3, Stutter
<1>4. CASE /\ record' = [record EXCEPT ![job[w].user] = job[w].inst]
           /\ \E f \in WriteOutcomes(w) : WriteTakes(f)
  <2>1. record[job[w].user].status # "running"
    BY <1>0, <1>4, DeadWrites
    DEF CreateInsert, FailUpdate, FailInsert, KnowsStatus, Provisioning
  <2>2. job[w].inst.status = "running" \/ job[w].inst.status = "failed"
    BY <1>0 DEF CreateInsert, FailUpdate, FailInsert, KnowsStatus, Creating
  <2> QED
    BY <1>0, <1>1, <1>2, <1>4, <2>1, <2>2, WriteAbstract
<1> QED
  BY <1>3, <1>4 DEF CreateInsert, FailUpdate, FailInsert, CreateInstance, UpdateInstance, WriteTakes

(* Every step is an abstract step or leaves the abstract state alone. *)
LEMMA StepImplements ==
    ASSUME OneReplica, WritesAnswer, StatusInv, Next
    PROVE  [Abstract!Next]_Abstract!vars
<1>0. TypeInv
  BY DEF StatusInv, CacheInv
<1>1. CASE UNCHANGED <<record, cache>>
  BY <1>1, Stutter
<1>2. ASSUME NEW w \in Workers, Serve(w) PROVE [Abstract!Next]_Abstract!vars
  <2>1. CASE CreateInsert(w) \/ FailUpdate(w) \/ FailInsert(w)
    BY <2>1, ProvisionAbstract
  <2>2. CASE WakeSave(w) \/ SuspendSave(w)
    BY <2>2, SaveAbstract
  <2>3. CASE DropConfig(w) \/ ModelCache(w)
    <3>1. pc[w] # "idle" /\ UNCHANGED record
      BY <2>3 DEF DropConfig, ModelCache
    <3>2. ModelCache(w) => record[job[w].user].status = "running"
      BY DEF ModelCache, StatusInv, CacheInv, Knows
    <3> QED
      BY <1>0, <2>3, <3>1, <3>2, WorkerTypes, CacheAbstract DEF DropConfig, ModelCache
  <2>4. CASE DeleteRecord(w)
    <3>1. pc[w] # "idle" /\ job[w].user \notin cache[Host[w]] /\ UNCHANGED cache
      BY <2>4 DEF DeleteRecord, StatusInv, CacheInv, Knows, Uncached
    <3>2. UNCHANGED record \/ record' = [record EXCEPT ![job[w].user] = NoInstance]
      BY <2>4 DEF DeleteRecord, DeleteInstance
    <3> QED
      BY <1>0, <1>1, <3>1, <3>2, WorkerTypes, DropAbstract DEF NoInstance
  <2>5. CASE \/ CreateRead(w) \/ CleanUp(w) \/ CreateSandbox(w) \/ ResumeStep(w) \/ FailRead(w)
             \/ WakeRead(w) \/ WakeStart(w) \/ SuspendRead(w) \/ SuspendStop(w)
             \/ DeleteSandbox(w) \/ DeleteRoute(w) \/ ModelRead(w) \/ ModelInject(w) \/ Reply(w)
    <3>1. UNCHANGED <<record, cache>>
      BY <2>5 DEF CreateRead, CleanUp, CreateSandbox, ResumeStep, RegisterGateway, InjectConfig,
         FailRead, WakeRead, WakeStart, SuspendRead, SuspendStop, DeleteSandbox, DeleteRoute,
         ModelRead, ModelInject, Reply
    <3> QED
      BY <1>1, <3>1
  <2> QED
    BY <1>2, <2>1, <2>2, <2>3, <2>4, <2>5
    DEF Serve, CreateStep, FailStep, WakeStep, SuspendStep, DeleteStep, ModelStep
<1>3. ASSUME NEW r \in Replicas, NEW u \in Users, ExpireConfig(r, u)
      PROVE  [Abstract!Next]_Abstract!vars
  BY <1>0, <1>3, CacheAbstract DEF ExpireConfig
<1>4. ASSUME NEW r \in Replicas, Crash(r) PROVE [Abstract!Next]_Abstract!vars
  <2>1. Overrides' = {}
    BY <1>0, <1>4, OverridesOfOne DEF Crash, TypeInv, TypeOK
  <2>2. StatusOf' \in {StatusOf, [u \in Users |-> "none"]}
    BY <1>4 DEF Crash, StoreAfterRestart, StatusOf, NoInstance
  <2>3. Abstract!Restart
    BY <2>1, <2>2 DEF Abstract!Restart, StatusOf, Overrides
  <2> QED
    BY <2>3 DEF Abstract!Next
<1> QED
  BY <1>1, <1>2, <1>3, <1>4
  DEF Next, Begin, Environment, Disconnect, SandboxDies, RestartGateway

(* The Manager implements the abstract lifecycle: with one control-plane   *)
(* process, and a store that reports neither a failed read nor a failure   *)
(* of a write it has taken, every execution of Create, Suspend, Wake,      *)
(* Delete and SetModelConfig, with the client gone or the process killed   *)
(* between any two calls, is an execution of InstanceLifecycle.            *)
THEOREM LifecycleImplements ==
    ASSUME OneReplica, ReadsAnswer, WritesAnswer
    PROVE  Spec => ImplementsLifecycle
<1>1. Init => StatusInv
  <2> SUFFICES ASSUME Init PROVE StatusInv
    OBVIOUS
  <2>1. \A w \in Workers : pc[w] = "idle"
    BY DEF Init
  <2>2. CacheInv
    BY InitCached
  <2> QED
    BY <2>1, <2>2, LabelTypes, SpecialLabels, StatusLabels DEF StatusInv, KnowsStatus
<1>2. StatusInv /\ [Next]_vars => StatusInv'
  <2> SUFFICES ASSUME StatusInv, [Next]_vars PROVE StatusInv'
    OBVIOUS
  <2>1. CacheInv'
    BY CacheInvStep DEF StatusInv
  <2>2. CASE UNCHANGED vars
    BY <2>1, <2>2 DEF vars, StatusInv, KnowsStatus, CannotWrite
  <2>3. CASE Next
    BY <2>1, <2>3, CreateKeepsStatusInv, OthersKeepStatusInv, EnvironmentKeepsStatusInv,
       BeginAndReplyKeepStatusInv
    DEF Next, Serve
  <2> QED
    BY <2>2, <2>3
<1>3. Init => Abstract!Init
  <2> SUFFICES ASSUME Init PROVE Abstract!Init
    OBVIOUS
  <2>1. StatusOf = [u \in Users |-> "none"] /\ Overrides = {}
    BY DEF Init, StoreInit, StatusOf, NoInstance, Overrides
  <2> QED
    BY <2>1 DEF Abstract!Init, StatusOf, Overrides
<1>4. StatusInv /\ [Next]_vars => [Abstract!Next]_Abstract!vars
  <2> SUFFICES ASSUME StatusInv, [Next]_vars PROVE [Abstract!Next]_Abstract!vars
    OBVIOUS
  <2>1. CASE UNCHANGED vars
    BY <2>1, Stutter DEF vars
  <2> QED
    BY <2>1, StepImplements
<1> QED
  BY <1>1, <1>2, <1>3, <1>4, PTL DEF Spec, ImplementsLifecycle, Abstract!Spec
===============================================================================
