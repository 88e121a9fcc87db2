---------------------------- MODULE Sandbox_proofs ----------------------------
(***************************************************************************)
(* No sandbox is lost, between requests every record agrees with the       *)
(* sandboxes, and a Delete that says it is done has left nothing: for one  *)
(* control-plane process with any number of users, sandboxes and           *)
(* goroutines, under the faults the Manager can undo.                      *)
(* Over db.Memory no request fails but by a fault, whatever the faults.    *)
(***************************************************************************)
EXTENDS Routing_proofs

(* The faults that leave the process knowing every sandbox it claimed: no  *)
(* answer of the sandbox-manager is lost, a sandbox that lives can be      *)
(* reached and killed, the store answers, and neither the process nor a    *)
(* client goes away within a request.  Each of the others loses a sandbox: *)
(* the provider forgets what it could not reach, a restart forgets all.    *)
Calm ==
    /\ Faults \cap {"lostCreate", "connect", "kill", "crash", "disconnect"} = {}
    /\ StoreKind = "memory" \/ Faults \cap {"read", "write"} = {}

(* The state of the sandbox the process r remembers for the user u. *)
StateOf(r, u) == IF Live(sbxs[r][u]) THEN sandbox[sbxs[r][u]] ELSE "absent"

(* Every living sandbox is somebody's, who remembers it; and what somebody *)
(* remembers, or is routed to, and lives is his own.                       *)
Owned ==
    /\ \A s \in Sandboxes :
          IF Live(s) THEN owner[s] \in Users /\ \E r \in Replicas : sbxs[r][owner[s]] = s
                     ELSE owner[s] = NoUser
    /\ \A r \in Replicas, u \in Users : Live(sbxs[r][u]) => owner[sbxs[r][u]] = u
RouteOwned == \A u \in Users : Live(route[u]) => owner[route[u]] = u

(* The record of u agrees with the sandbox the process remembers for u. *)
Settled(u) ==
    \A r \in Replicas :
        /\ record[u].status = "none" => StateOf(r, u) = "absent"
        /\ record[u].status = "suspended" => Known(r, u) /\ StateOf(r, u) # "running"
        /\ record[u].status = "running" =>
              Known(r, u) /\ sbxs[r][u] = record[u].endpoint /\ StateOf(r, u) # "paused"

(* The agent of the recorded sandbox runs the override. *)
Reached(u) == Live(record[u].endpoint) => model[record[u].endpoint] = "override"

(* The labels at which a request has not changed anything yet, ... *)
Undisturbed == {"c_read", "k_read", "s_read", "d_backend", "m_read", "w_start", "s_stop",
                "m_inject", "m_cache"}
(* ... has a new sandbox that is not recorded yet, or wakes one. *)
Creating == {"c_clean", "c_new", "c_register", "c_inject", "c_insert"}
Waking == {"w_start", "w_register", "w_inject", "w_update"}
Resuming == Registering \cup Resumed

(* What a goroutine at the label l, under the m.mu of the process r, knows *)
(* of its user u, with the row i in its hands.                             *)
KnownAt(l, r, u, i) ==
    /\ l \in Undisturbed => Settled(u)
    /\ l \in Creating => record[u].status \in {"none", "failed"} /\ i.status = "running"
    /\ l = "c_new" => StateOf(r, u) = "absent"
    /\ l \in Resuming => Known(r, u) /\ sbxs[r][u] = i.endpoint /\ StateOf(r, u) # "paused"
    /\ l \in Waking => record[u].status \in {"suspended", "failed"}
    /\ l \in {"f_update", "f_insert"} => i.status = "failed"
    /\ l = "f_update" => Exists(u)
    /\ l = "f_insert" => ~Exists(u)
    /\ l \in {"s_stop", "s_uncache", "s_update", "m_inject", "m_cache"} =>
          record[u].status = "running"
    /\ l \in {"s_uncache", "s_update"} => Known(r, u) /\ StateOf(r, u) # "running"
    /\ l \in Forgotten => ~Known(r, u)
    /\ l = "m_cache" => Reached(u)

KnowsSandbox(w) == KnownAt(pc[w], Host[w], job[w].user, job[w].inst)

(* The inductive invariant. *)
SandboxInv ==
    /\ CacheInv
    /\ Owned
    /\ RouteOwned
    /\ CachedOverrideReachedAgent
    /\ \A u \in Users : Quiet(u) => Settled(u)
    /\ \A w \in Workers : job[w].alive /\ KnowsSandbox(w)

-------------------------------------------------------------------------------
(* The provider's calls, without the faults that are not calm. *)

LEMMA CalmCalls ==
    ASSUME Calm, NEW w \in Workers, job[w].alive
    PROVE  /\ \A f \in Outcomes(w, "connect", {"kill"}) : f = "ok"
           /\ \A f \in Outcomes(w, "connect", {"pause"}) : f \in {"ok", "pause"}
           /\ \A f \in Outcomes(w, "connect", {"notReady"}) : f \in {"ok", "notReady"}
           /\ \A f \in Outcomes(w, "create", {"lostCreate", "notReady"}) \ {"create"} :
                 f \in {"ok", "notReady"}
           /\ \A f \in ReadOutcomes(w) : f = "ok"
           /\ \A f \in WriteOutcomes(w) : WriteTakes(f)
  BY ConstantsAssumption DEF Calm, Outcomes, ReadOutcomes, WriteOutcomes, WriteTakes

LEMMA NoneIsNotLive == ~Live(NoSandbox)
  BY ConstantsAssumption DEF Live

(* A sandbox that lives changes its state and nothing else. *)
LEMMA OwnedState ==
    ASSUME Owned, TypeInv, NEW s \in Sandboxes, Live(s), NEW st \in {"running", "paused"},
           sandbox' = [sandbox EXCEPT ![s] = st], UNCHANGED <<owner, sbxs>>
    PROVE  Owned' /\ \A x : Live(x)' <=> Live(x)
<1>1. \A x : Live(x)' <=> Live(x)
  BY DEF Live, TypeInv, TypeOK
<1> QED
  BY <1>1 DEF Owned

(* A sandbox is destroyed. *)
LEMMA OwnedDestroy ==
    ASSUME Owned, TypeInv, NEW s \in Sandboxes, Destroy(s), UNCHANGED sbxs
    PROVE  Owned' /\ \A x : Live(x)' <=> (Live(x) /\ x # s)
<1>1. \A x : Live(x)' <=> (Live(x) /\ x # s)
  BY DEF Destroy, Live, TypeInv, TypeOK
<1>2. owner'[s] = NoUser /\ \A x \in Sandboxes \ {s} : owner'[x] = owner[x]
  BY DEF Destroy, TypeInv, TypeOK
<1>3. \A x \in Sandboxes : Live(x)' => x # s /\ owner'[x] = owner[x]
  BY <1>1, <1>2
<1>4. \A x \in Sandboxes : ~Live(x)' => owner'[x] = NoUser
  BY <1>1, <1>2 DEF Owned
<1>5. \A r \in Replicas, u \in Users : Live(sbxs[r][u])' => owner'[sbxs[r][u]] = u
  BY <1>1, <1>3 DEF Owned, Live
<1> QED
  BY <1>1, <1>3, <1>4, <1>5 DEF Owned

(* Delete of the provider: the entry is gone, and with it its sandbox. *)
LEMMA OwnedDelete ==
    ASSUME OneReplica, Owned, TypeInv, NEW r \in Replicas, NEW u \in Users,
           ProviderDelete(r, u, "ok")
    PROVE  /\ Owned'
           /\ sbxs'[r][u] = NoSandbox
           /\ \A x : Live(x)' <=> (Live(x) /\ x # sbxs[r][u])
           /\ \A x \in Sandboxes : x # sbxs[r][u] =>
                 sandbox'[x] = sandbox[x] /\ owner'[x] = owner[x] /\ model'[x] = model[x]
<1>0. sbxs \in [Replicas -> [Users -> SandboxOrNone]] /\ \A q \in Replicas : q = r
  BY DEF TypeInv, TypeOK, OneReplica
<1>1. sbxs'[r][u] = NoSandbox /\ \A x \in Users : x # u => sbxs'[r][x] = sbxs[r][x]
  <2>1. CASE UNCHANGED sbxs /\ ~Known(r, u)
    BY <2>1 DEF Known
  <2>2. CASE Forget(r, u)
    BY <1>0, <2>2, MapEntry DEF Forget
  <2> QED
    BY <2>1, <2>2 DEF ProviderDelete, providerVars
<1>2. CASE ~Live(sbxs[r][u]) /\ UNCHANGED <<sandbox, owner, model>>
  <2>1. \A x : Live(x)' <=> Live(x)
    BY <1>2 DEF Live
  <2>2. \A x \in Sandboxes : Live(x) => sbxs'[r][owner[x]] = x
    BY <1>0, <1>1, <1>2 DEF Owned
  <2>3. \A x \in Users : Live(sbxs'[r][x]) => Live(sbxs[r][x]) /\ sbxs'[r][x] = sbxs[r][x]
    BY <1>1, NoneIsNotLive
  <2>4. \A x \in Sandboxes :
           IF Live(x)' THEN owner'[x] \in Users /\ \E q \in Replicas : sbxs'[q][owner'[x]] = x
                       ELSE owner'[x] = NoUser
    BY <1>0, <1>2, <2>1, <2>2 DEF Owned
  <2>5. \A q \in Replicas, x \in Users : Live(sbxs[q][x])' => owner'[sbxs'[q][x]] = x
    <3> SUFFICES ASSUME NEW q \in Replicas, NEW x \in Users, Live(sbxs[q][x])'
                 PROVE  owner'[sbxs'[q][x]] = x
      OBVIOUS
    <3>1. q = r /\ Live(sbxs'[r][x])
      BY <1>0, <1>2 DEF Live
    <3> QED
      BY <1>2, <2>3, <3>1 DEF Owned
  <2>6. Owned'
    BY <2>4, <2>5 DEF Owned, Live
  <2> QED
    BY <1>1, <1>2, <2>1, <2>6
<1>3. CASE Live(sbxs[r][u]) /\ Destroy(sbxs[r][u])
  <2> DEFINE s == sbxs[r][u]
  <2>1. s \in Sandboxes
    BY <1>3 DEF Live
  <2>2. \A x : Live(x)' <=> (Live(x) /\ x # s)
    BY <1>3, <2>1 DEF Destroy, Live, TypeInv, TypeOK
  <2>3. /\ owner'[s] = NoUser
        /\ \A x \in Sandboxes : x # s => sandbox'[x] = sandbox[x] /\ owner'[x] = owner[x] /\ model'[x] = model[x]
    BY <1>3, <2>1 DEF Destroy, TypeInv, TypeOK
  <2>4. \A x \in Sandboxes : Live(x) /\ x # s => owner[x] \in Users /\ owner[x] # u /\ sbxs'[r][owner[x]] = x
    BY <1>0, <1>1 DEF Owned
  <2>5. \A x \in Users : Live(sbxs[r][x])' =>
           /\ Live(sbxs[r][x]) /\ sbxs'[r][x] = sbxs[r][x] /\ sbxs[r][x] # s /\ sbxs[r][x] \in Sandboxes
    <3> SUFFICES ASSUME NEW x \in Users, Live(sbxs[r][x])'
                 PROVE  /\ Live(sbxs[r][x]) /\ sbxs'[r][x] = sbxs[r][x]
                        /\ sbxs[r][x] # s /\ sbxs[r][x] \in Sandboxes
      OBVIOUS
    <3> HIDE DEF s
    <3>1. Live(sbxs'[r][x]) /\ sbxs'[r][x] # s /\ sbxs'[r][x] \in Sandboxes
      BY <1>3, <2>1 DEF Destroy, Live, TypeInv, TypeOK, s
    <3>2. x # u
      BY <1>1, <3>1, NoneIsNotLive
    <3> QED
      BY <1>1, <3>1, <3>2
  <2>6. Owned'
    <3> HIDE DEF s
    <3>1. \A x \in Sandboxes :
             IF Live(x)' THEN owner'[x] \in Users /\ \E q \in Replicas : sbxs'[q][owner'[x]] = x
                         ELSE owner'[x] = NoUser
      BY <1>0, <2>2, <2>3, <2>4 DEF Owned
    <3>2. \A q \in Replicas, x \in Users : Live(sbxs[q][x])' => owner'[sbxs'[q][x]] = x
      BY <1>0, <2>3, <2>5 DEF Owned, Live
    <3> QED
      BY <3>1, <3>2 DEF Owned, Live
  <2> QED
    BY <1>1, <2>2, <2>3, <2>6
<1> QED
  BY <1>2, <1>3, NoneIsNotLive DEF ProviderDelete, Known, providerVars

(* Create of the provider: a fresh sandbox becomes the user's. *)
LEMMA OwnedCreate ==
    ASSUME OneReplica, Owned, TypeInv, NEW r \in Replicas, NEW u \in Users,
           NEW s \in Sandboxes, Fresh(s), ~Live(sbxs[r][u]), Claim(u, s), Remember(r, u, s)
    PROVE  /\ Owned'
           /\ sbxs'[r][u] = s
           /\ sandbox'[s] = "running" /\ owner'[s] = u
           /\ \A x \in Sandboxes : x # s =>
                 sandbox'[x] = sandbox[x] /\ owner'[x] = owner[x] /\ model'[x] = model[x]
<1>0. /\ sbxs \in [Replicas -> [Users -> SandboxOrNone]] /\ \A q \in Replicas : q = r
      /\ ~Live(s) /\ \A q \in Replicas, x \in Users : sbxs[q][x] # s
  BY DEF TypeInv, TypeOK, OneReplica, Fresh
<1>1. sbxs'[r][u] = s /\ \A x \in Users : x # u => sbxs'[r][x] = sbxs[r][x]
  BY <1>0, MapEntry DEF Remember
<1>2. /\ sandbox'[s] = "running" /\ owner'[s] = u
      /\ \A x \in Sandboxes : x # s =>
            sandbox'[x] = sandbox[x] /\ owner'[x] = owner[x] /\ model'[x] = model[x]
  BY DEF Claim, TypeInv, TypeOK
<1>3. \A x \in Sandboxes : x # s /\ Live(x) => sbxs'[r][owner[x]] = x /\ owner[x] \in Users
  BY <1>0, <1>1 DEF Owned
<1>4. \A x \in Sandboxes :
         IF Live(x)' THEN owner'[x] \in Users /\ \E q \in Replicas : sbxs'[q][owner'[x]] = x
                     ELSE owner'[x] = NoUser
  <2> SUFFICES ASSUME NEW x \in Sandboxes
               PROVE  IF Live(x)' THEN owner'[x] \in Users /\ \E q \in Replicas : sbxs'[q][owner'[x]] = x
                                  ELSE owner'[x] = NoUser
    OBVIOUS
  <2>1. CASE x = s
    BY <1>1, <1>2, <2>1 DEF Live
  <2>2. CASE x # s
    <3>1. Live(x)' <=> Live(x)
      BY <1>2, <2>2 DEF Live
    <3> QED
      BY <1>2, <1>3, <2>2, <3>1 DEF Owned
  <2> QED
    BY <2>1, <2>2
<1>5. \A q \in Replicas, x \in Users : Live(sbxs[q][x])' => owner'[sbxs'[q][x]] = x
  <2> SUFFICES ASSUME NEW x \in Users, Live(sbxs[r][x])'
               PROVE  owner'[sbxs'[r][x]] = x
    BY <1>0
  <2>1. CASE x = u
    BY <1>1, <1>2, <2>1
  <2>2. CASE x # u
    <3>1. sbxs'[r][x] = sbxs[r][x] /\ sbxs[r][x] # s
      BY <1>0, <1>1, <2>2
    <3>2. Live(sbxs[r][x])
      BY <1>2, <3>1 DEF Live
    <3> QED
      BY <1>2, <3>1, <3>2 DEF Owned, Live
  <2> QED
    BY <2>1, <2>2
<1> QED
  BY <1>1, <1>2, <1>4, <1>5 DEF Owned

(* Nothing of the provider's world changes. *)
LEMMA OwnedKept ==
    ASSUME Owned, UNCHANGED <<sandbox, owner, sbxs>>
    PROVE  Owned'
  BY DEF Owned, Live

LEMMA RouteOwnedKept ==
    ASSUME RouteOwned, UNCHANGED route,
           \A x \in Sandboxes : Live(x)' => Live(x) /\ owner'[x] = owner[x]
    PROVE  RouteOwned'
<1> SUFFICES ASSUME NEW u \in Users, Live(route[u])'
             PROVE  owner'[route'[u]] = u
  BY DEF RouteOwned
<1>1. route[u] \in Sandboxes /\ Live(route[u]) /\ owner'[route[u]] = owner[route[u]]
  BY DEF Live
<1> QED
  BY <1>1 DEF RouteOwned

-------------------------------------------------------------------------------
(* One step of a request changes at most one sandbox, and that one is or   *)
(* becomes its user's. *)
LEMMA ServeSandbox ==
    ASSUME NEW w \in Workers, Serve(w)
    PROVE  \/ UNCHANGED <<sandbox, owner, model>>
           \/ /\ Live(sbxs[Host[w]][job[w].user])
              /\ \E st : sandbox' = [sandbox EXCEPT ![sbxs[Host[w]][job[w].user]] = st]
              /\ UNCHANGED <<owner, model>>
           \/ Live(sbxs[Host[w]][job[w].user]) /\ Destroy(sbxs[Host[w]][job[w].user])
           \/ \E s \in Sandboxes : Fresh(s) /\ Claim(job[w].user, s)
           \/ /\ Live(route[job[w].user]) /\ UNCHANGED <<sandbox, owner>>
              /\ \E m : model' = [model EXCEPT ![route[job[w].user]] = m]
<1>1. CASE CreateStep(w)
  <2>1. CASE CreateRead(w) \/ CreateInsert(w)
    BY <2>1 DEF CreateRead, CreateInsert
  <2>2. CASE CleanUp(w)
    BY <2>2 DEF CleanUp, ProviderDelete, providerVars
  <2>3. CASE CreateSandbox(w)
    BY <2>3 DEF CreateSandbox, ProviderCreate, providerVars
  <2> QED
    BY <1>1, <2>1, <2>2, <2>3 DEF CreateStep
<1>2. CASE ResumeStep(w)
  BY <1>2 DEF ResumeStep, RegisterGateway, InjectConfig, SetConfig, Configure, Live
<1>3. CASE FailStep(w)
  BY <1>3 DEF FailStep, FailRead, FailUpdate, FailInsert
<1>4. CASE WakeStep(w)
  BY <1>4 DEF WakeStep, WakeRead, WakeStart, WakeSave, ProviderStart, providerVars
<1>5. CASE SuspendStep(w)
  BY <1>5 DEF SuspendStep, SuspendRead, SuspendStop, DropConfig, SuspendSave, ProviderStop, providerVars
<1>6. CASE DeleteStep(w)
  BY <1>6 DEF DeleteStep, DeleteSandbox, DeleteRoute, DeleteRecord, ProviderDelete, providerVars
<1>7. CASE ModelStep(w) \/ Reply(w)
  BY <1>7 DEF ModelStep, ModelRead, ModelInject, ModelCache, SetConfig, Configure, Live, Reply
<1> QED
  BY <1>1, <1>2, <1>3, <1>4, <1>5, <1>6, <1>7 DEF Serve

(* So the sandboxes of the other users stay as they are. *)
LEMMA OthersSandbox ==
    ASSUME Owned, RouteOwned, TypeInv, NEW w \in Workers, Serve(w), pc[w] \in Locked,
           NEW u \in Users, u # job[w].user, NEW r \in Replicas
    PROVE  /\ StateOf(r, u)' = StateOf(r, u)
           /\ sbxs'[r][u] = sbxs[r][u]
           /\ Live(sbxs[r][u])' => Live(sbxs[r][u]) /\ model'[sbxs[r][u]] = model[sbxs[r][u]]
<1> DEFINE mine == sbxs[Host[w]][job[w].user]
           s == sbxs[r][u]
<1>0. sbxs'[r][u] = sbxs[r][u]
  BY ServeFrame
<1>1. Host[w] \in Replicas /\ job[w].user \in Users
  BY LabelTypes, WorkerTypes
<1>2. Live(s) => owner[s] = u
  BY DEF Owned
<1>3. /\ Live(mine) => owner[mine] = job[w].user
      /\ Live(route[job[w].user]) => owner[route[job[w].user]] = job[w].user
  BY <1>1 DEF Owned, RouteOwned
<1>4. /\ sandbox \in [Sandboxes -> {"absent", "running", "paused"}]
      /\ owner \in [Sandboxes -> UserOrNone] /\ model \in [Sandboxes -> Models]
  BY DEF TypeInv, TypeOK
<1>5. s \in Sandboxes => sandbox'[s] = sandbox[s] /\ (Live(s) => model'[s] = model[s])
  <2> HIDE DEF s, mine
  <2>1. CASE UNCHANGED <<sandbox, owner, model>>
    BY <2>1
  <2>2. ASSUME Live(mine), NEW st, sandbox' = [sandbox EXCEPT ![mine] = st],
               UNCHANGED <<owner, model>>
        PROVE  s \in Sandboxes => sandbox'[s] = sandbox[s] /\ (Live(s) => model'[s] = model[s])
    <3>1. s # mine
      BY <1>2, <1>3, <2>2
    <3> QED
      BY <1>4, <2>2, <3>1
  <2>3. CASE Live(mine) /\ Destroy(mine)
    <3>1. s # mine
      BY <1>2, <1>3, <2>3
    <3> QED
      BY <1>4, <2>3, <3>1 DEF Destroy
  <2>4. ASSUME NEW x \in Sandboxes, Fresh(x), Claim(job[w].user, x)
        PROVE  s \in Sandboxes => sandbox'[s] = sandbox[s] /\ (Live(s) => model'[s] = model[s])
    <3>1. s # x
      BY <2>4 DEF Fresh, s
    <3> QED
      BY <1>4, <2>4, <3>1 DEF Claim
  <2>5. ASSUME Live(route[job[w].user]), UNCHANGED <<sandbox, owner>>,
               NEW m, model' = [model EXCEPT ![route[job[w].user]] = m]
        PROVE  s \in Sandboxes => sandbox'[s] = sandbox[s] /\ (Live(s) => model'[s] = model[s])
    <3>1. Live(s) => s # route[job[w].user]
      BY <1>2, <1>3, <2>5
    <3> QED
      BY <1>4, <2>5, <3>1 DEF Live
  <2> QED
    BY <2>1, <2>2, <2>3, <2>4, <2>5, ServeSandbox DEF mine
<1> QED
  BY <1>0, <1>5 DEF StateOf, Live

-------------------------------------------------------------------------------
(* What holds inside a request. *)
LEMMA Inside ==
    ASSUME OneReplica, SandboxInv, NEW w \in Workers, pc[w] \in Locked,
           NEW r, r = Host[w], NEW u, u = job[w].user
    PROVE  /\ TypeInv /\ Owned /\ RouteOwned
           /\ r \in Replicas /\ u \in Users /\ \A q \in Replicas : q = r
           /\ job[w].alive /\ KnownAt(pc[w], r, u, job[w].inst)
           /\ job[w].inst \in Instance /\ record[u] \in Instance
           /\ \A v \in Workers : HoldsLock(v)
           /\ record[u].status # "running" => \A q \in Replicas : u \notin cache[q]
           /\ pc[w] \in Provisioning \cup {"s_update", "d_store"} => \A q \in Replicas : u \notin cache[q]
<1>1. TypeInv /\ Owned /\ RouteOwned /\ job[w].alive /\ Knows(w)
  BY DEF SandboxInv, CacheInv
<1>2. r \in Replicas /\ u \in Users /\ (\A q \in Replicas : q = r) /\ job[w].inst \in Instance
  BY <1>1, WorkerTypes, LabelTypes DEF OneReplica
<1>3. record[u] \in Instance
  BY <1>1, <1>2 DEF TypeInv, TypeOK
<1>4. KnownAt(pc[w], r, u, job[w].inst)
  BY DEF SandboxInv, KnowsSandbox
<1>5. \A v \in Workers : HoldsLock(v)
  BY DEF SandboxInv, CacheInv, Knows, HoldsLock
<1>6. record[u].status # "running" => \A q \in Replicas : u \notin cache[q]
  BY DEF SandboxInv, CacheInv, OverrideOnlyWhileRunning
<1>7. pc[w] \in Provisioning \cup {"s_update", "d_store"} => \A q \in Replicas : u \notin cache[q]
  <2>1. ~CannotWrite(w)
    BY <1>1 DEF CannotWrite
  <2> QED
    BY <1>1, <1>2, <2>1 DEF Knows, Uncached
<1> QED
  BY <1>1, <1>2, <1>3, <1>4, <1>5, <1>6, <1>7

LEMMA SandboxLabels ==
    Undisturbed \cup Creating \cup Waking \cup Resuming \cup Forgotten
      \cup {"f_update", "f_insert", "s_uncache", "s_update"} \subseteq Locked
  BY LabelTypes DEF Undisturbed, Creating, Waking, Resuming, Registering, Resumed, Forgotten

LEMMA KnowsIntro ==
    ASSUME NEW w \in Workers, NEW l, NEW u, NEW i, pc'[w] = l,
           job'[w].user = u, job'[w].inst = i, KnownAt(l, Host[w], u, i)'
    PROVE  KnowsSandbox(w)'
  BY DEF KnowsSandbox, KnownAt, Settled, StateOf, Known, Live, Exists, Reached

LEMMA KnowsNothing ==
    ASSUME NEW w \in Workers, pc'[w] \notin Locked
    PROVE  KnowsSandbox(w)'
  BY SandboxLabels DEF KnowsSandbox, KnownAt, Undisturbed, Creating, Waking

(* A step under m.mu only has to show what it does to its own user. *)
LEMMA SandboxStep ==
    ASSUME OneReplica, SandboxInv, CacheInv', NEW w \in Workers, Serve(w), pc[w] \in Locked,
           NEW r, r = Host[w], NEW u, u = job[w].user, NEW l, pc'[w] = l, NEW i,
           Owned', RouteOwned',
           l \in Locked => job'[w].inst = i /\ KnownAt(l, r, u, i)',
           l \notin Locked => Settled(u)',
           \A q \in Replicas : u \in cache'[q] => Reached(u)'
    PROVE  SandboxInv'
<1>0. TypeInv /\ Owned /\ RouteOwned /\ \A v \in Workers : HoldsLock(v)
  BY Inside
<1>1. Moves(w)
  BY <1>0, ServeMoves
<1>2. \A v \in Workers \ {w} : pc'[v] \notin Locked /\ pc[v] \notin Locked /\ job'[v] = job[v]
  BY <1>0, <1>1, NobodyElse DEF Moves
<1>3. \A v \in Workers : job'[v].alive
  <2>1. job[w].alive /\ job'[w].alive \in {job[w].alive, TRUE}
    BY <1>0, ServeJob DEF SandboxInv
  <2>2. \A v \in Workers \ {w} : job'[v] = job[v] /\ job[v].alive
    BY <1>2 DEF SandboxInv
  <2> QED
    BY <2>1, <2>2
<1>4. ASSUME NEW v \in Workers PROVE KnowsSandbox(v)'
  <2>1. CASE pc'[v] \notin Locked
    BY <2>1, KnowsNothing
  <2>2. CASE pc'[v] \in Locked
    <3>1. v = w /\ l \in Locked
      BY <1>2, <2>2
    <3>2. job'[w].user = u
      BY <1>0, <2>2, <3>1, ServeJob, LabelTypes
    <3> QED
      BY <3>1, <3>2, KnowsIntro
  <2> QED
    BY <2>1, <2>2
<1>5. ASSUME NEW x \in Users, x # u, NEW q \in Replicas
      PROVE  /\ StateOf(q, x)' = StateOf(q, x) /\ sbxs'[q][x] = sbxs[q][x]
             /\ record'[x] = record[x] /\ (x \in cache'[q] <=> x \in cache[q])
             /\ Live(sbxs[q][x])' => Live(sbxs[q][x]) /\ model'[sbxs[q][x]] = model[sbxs[q][x]]
  BY <1>0, <1>5, OthersSandbox, ServeFrame
<1>6. ASSUME NEW x \in Users, x # u PROVE Settled(x) /\ Settled(x)'
  <2>1. Quiet(x)
    BY <1>2, <1>6 DEF Quiet
  <2>2. Settled(x)
    BY <2>1 DEF SandboxInv
  <2> QED
    BY <1>5, <1>6, <2>2 DEF Settled, Known
<1>7. ASSUME NEW x \in Users, Quiet(x)' PROVE Settled(x)'
  <2>1. CASE x # u
    BY <1>6, <2>1
  <2>2. CASE x = u
    <3>1. l \in Locked => job'[w].user = u
      BY <1>0, ServeJob, LabelTypes
    <3>2. l \notin Locked
      BY <1>7, <2>2, <3>1 DEF Quiet
    <3> QED
      BY <2>2, <3>2
  <2> QED
    BY <2>1, <2>2
<1>8. CachedOverrideReachedAgent'
  <2> SUFFICES ASSUME NEW q \in Replicas, NEW x \in cache'[q]
               PROVE  Reached(x)'
    BY DEF CachedOverrideReachedAgent, Reached
  <2>1. CASE x = u
    BY <2>1
  <2>2. CASE x # u
    <3>1. x \in Users
      BY DEF CacheInv, TypeInv, TypeOK
    <3>2. x \in cache[q] /\ record[x].status = "running" /\ record'[x] = record[x]
      BY <1>5, <2>2, <3>1 DEF SandboxInv, CacheInv, OverrideOnlyWhileRunning
    <3>3. Reached(x)
      BY <3>2 DEF SandboxInv, CachedOverrideReachedAgent, Reached
    <3>4. sbxs[q][x] = record[x].endpoint
      BY <1>6, <2>2, <3>1, <3>2 DEF Settled
    <3> QED
      BY <1>5, <2>2, <3>1, <3>2, <3>3, <3>4 DEF Reached, Live
  <2> QED
    BY <2>1, <2>2
<1> QED
  BY <1>3, <1>4, <1>7, <1>8 DEF SandboxInv

(* As long as record and sandboxes stay, what is known stays known. *)
LEMMA KeptStep ==
    ASSUME OneReplica, SandboxInv, CacheInv', NEW w \in Workers, Serve(w), pc[w] \in Locked,
           NEW r, r = Host[w], NEW u, u = job[w].user, NEW l, pc'[w] = l, NEW i,
           UNCHANGED <<record, route, sandbox, owner, model, sbxs>>,
           l \in Locked => job'[w].inst = i /\ KnownAt(l, r, u, i),
           l \notin Locked => Settled(u),
           \A q \in Replicas : u \in cache'[q] => u \in cache[q] \/ Reached(u)
    PROVE  SandboxInv'
<1>1. Owned' /\ RouteOwned'
  BY OwnedKept DEF SandboxInv, RouteOwned, Live
<1>2. Settled(u) => Settled(u)'
  BY DEF Settled, StateOf, Live, Known
<1>3. Reached(u) => Reached(u)'
  BY DEF Reached, Live
<1>4. KnownAt(l, r, u, i) => KnownAt(l, r, u, i)'
  BY DEF KnownAt, Settled, StateOf, Live, Known, Reached, Exists
<1>5. \A q \in Replicas : u \in cache[q] => Reached(u)
  BY DEF SandboxInv, CachedOverrideReachedAgent, Reached
<1> QED
  BY <1>1, <1>2, <1>3, <1>4, <1>5, SandboxStep

-------------------------------------------------------------------------------
(* The reads: they decide what to do by a row that matches the sandboxes.  *)
LEMMA ReadsKeepSandboxes ==
    ASSUME OneReplica, Calm, SandboxInv, CacheInv', NEW w \in Workers,
           CreateRead(w) \/ WakeRead(w) \/ SuspendRead(w) \/ ModelRead(w) \/ FailRead(w)
    PROVE  SandboxInv'
<1> DEFINE r == Host[w]
           u == job[w].user
           i == job'[w].inst
<1>1. pc[w] \in Locked /\ Serve(w) /\ UNCHANGED <<record, route, sandbox, owner, model, sbxs, cache>>
  BY LabelTypes DEF Serve, CreateStep, WakeStep, SuspendStep, ModelStep, FailStep,
     CreateRead, WakeRead, SuspendRead, ModelRead, FailRead
<1>2. /\ TypeInv /\ KnownAt(pc[w], r, u, job[w].inst) /\ job[w].alive
      /\ u \in Users /\ r \in Replicas /\ record[u] \in Instance
  BY <1>1, Inside
<1>3. \A f \in ReadOutcomes(w) : f = "ok"
  BY <1>2, CalmCalls
<1>4. ASSUME NEW l, pc'[w] = l, l \in Locked => KnownAt(l, r, u, i), l \notin Locked => Settled(u)
      PROVE  SandboxInv'
  <2> HIDE DEF r, u, i
  <2> QED
    BY <1>1, <1>4, KeptStep DEF r, u, i
<1>5. ASSUME NEW res, Return(w, res), Settled(u) PROVE SandboxInv'
  <2>1. pc'[w] = "reply"
    BY <1>2, <1>5, ReturnFields
  <2> QED
    BY <1>4, <1>5, <2>1, LabelTypes
<1>6. CASE CreateRead(w)
  <2>1. Settled(u)
    BY <1>2, <1>6 DEF CreateRead, KnownAt, Undisturbed
  <2>2. CASE Return(w, "ok")
    BY <1>5, <2>1, <2>2
  <2>3. CASE record[u].status = "suspended" /\ Load(w, "w_start")
    <3>1. pc'[w] = "w_start"
      BY <1>2, <2>3, LoadFields
    <3>2. KnownAt("w_start", r, u, i)
      <4> HIDE DEF r, u, i
      <4> QED BY <2>1, <2>3 DEF KnownAt, Creating, Resuming, Registering, Resumed, Forgotten, Waking
    <3> QED
      BY <1>4, <3>1, <3>2, LabelTypes
  <2>4. CASE /\ record[u].status = "failed" /\ Goto(w, "c_clean")
             /\ SetJob(w, [job[w] EXCEPT !.inst = NewInstance, !.from = "failed"])
    <3>1. pc'[w] = "c_clean" /\ i = NewInstance
      BY <1>2, <2>4, NewFields
    <3>2. i.status = "running"
      BY <3>1 DEF NewInstance, NoInstance
    <3>3. KnownAt("c_clean", r, u, i)
      <4> HIDE DEF r, u, i
      <4> QED BY <2>4, <3>2 DEF KnownAt, Undisturbed, Resuming, Registering, Resumed, Forgotten, Waking
    <3> QED
      BY <1>4, <3>1, <3>3, LabelTypes
  <2>5. CASE /\ record[u].status = "none" /\ Goto(w, "c_new")
             /\ SetJob(w, [job[w] EXCEPT !.inst = NewInstance])
    <3>1. pc'[w] = "c_new" /\ i = NewInstance
      BY <1>2, <2>5, NewFields
    <3>2. i.status = "running"
      BY <3>1 DEF NewInstance, NoInstance
    <3>3. StateOf(r, u) = "absent"
      BY <1>2, <2>1, <2>5 DEF Settled
    <3>4. KnownAt("c_new", r, u, i)
      <4> HIDE DEF r, u, i
      <4> QED BY <2>5, <3>2, <3>3 DEF KnownAt, Undisturbed, Resuming, Registering, Resumed, Forgotten, Waking
    <3> QED
      BY <1>4, <3>1, <3>4, LabelTypes
  <2> QED
    BY <1>3, <1>6, <2>2, <2>3, <2>4, <2>5 DEF CreateRead
<1>7. CASE WakeRead(w)
  <2>1. Settled(u)
    BY <1>2, <1>7 DEF WakeRead, KnownAt, Undisturbed
  <2>2. CASE record[u].status \in {"suspended", "failed"} /\ Load(w, "w_start")
    <3>1. pc'[w] = "w_start"
      BY <1>2, <2>2, LoadFields
    <3>2. KnownAt("w_start", r, u, i)
      <4> HIDE DEF r, u, i
      <4> QED BY <2>1, <2>2 DEF KnownAt, Creating, Resuming, Registering, Resumed, Forgotten, Waking
    <3> QED
      BY <1>4, <3>1, <3>2, LabelTypes
  <2> QED
    BY <1>5, <1>7, <2>1, <2>2 DEF WakeRead
<1>8. CASE SuspendRead(w) \/ ModelRead(w)
  <2>1. Settled(u)
    BY <1>2, <1>8 DEF SuspendRead, ModelRead, KnownAt, Undisturbed
  <2>2. ASSUME NEW l \in {"s_stop", "m_inject"}, record[u].status = "running", Load(w, l)
        PROVE  SandboxInv'
    <3>1. pc'[w] = l
      BY <1>2, <2>2, LoadFields
    <3>2. KnownAt(l, r, u, i)
      <4> HIDE DEF r, u, i
      <4> QED BY <2>1, <2>2 DEF KnownAt, Creating, Resuming, Registering, Resumed, Forgotten, Waking
    <3> QED
      BY <1>4, <3>1, <3>2, LabelTypes
  <2> QED
    BY <1>5, <1>8, <2>1, <2>2 DEF SuspendRead, ModelRead
<1>9. CASE FailRead(w)
  <2>1. \/ Exists(u) /\ Goto(w, "f_update")
        \/ ~Exists(u) /\ Goto(w, "f_insert")
    BY <1>3, <1>9 DEF FailRead
  <2>2. PICK l \in {"f_update", "f_insert"} : Goto(w, l) /\ (l = "f_update" <=> Exists(u))
    BY <2>1
  <2>3. pc'[w] = l /\ i.status = "failed"
    BY <1>2, <1>9, <2>2, FailedFields DEF FailRead
  <2>4. KnownAt(l, r, u, i)
    <3> HIDE DEF r, u, i
    <3> QED BY <2>2, <2>3 DEF KnownAt, Undisturbed, Creating, Resuming, Registering, Resumed, Forgotten, Waking
  <2> QED
    BY <1>4, <2>3, <2>4, LabelTypes
<1> QED
  BY <1>6, <1>7, <1>8, <1>9

(* Create cleans up behind itself, and claims a sandbox when it has none.  *)
LEMMA CleanUpKeepsSandboxes ==
    ASSUME OneReplica, Calm, SandboxInv, CacheInv', NEW w \in Workers, CleanUp(w),
           NEW r, r = Host[w], NEW u, u = job[w].user
    PROVE  SandboxInv'
<1>1. pc[w] \in Locked /\ Serve(w) /\ UNCHANGED <<record, route, cache>>
      /\ pc[w] \in {"c_clean", "c_undo"}
  BY LabelTypes DEF Serve, CreateStep, CleanUp
<1>2. /\ TypeInv /\ Owned /\ RouteOwned /\ KnownAt(pc[w], r, u, job[w].inst) /\ job[w].alive
      /\ u \in Users /\ r \in Replicas /\ (\A q \in Replicas : u \notin cache[q])
      /\ \A q \in Replicas : q = r
  BY <1>1, Inside DEF Provisioning
<1>3. ProviderDelete(r, u, "ok")
  <2>1. \A f \in Outcomes(w, "connect", {"kill"}) : f = "ok"
    BY <1>2, CalmCalls
  <2> QED
    BY <2>1 DEF CleanUp
<1>4. /\ Owned' /\ sbxs'[r][u] = NoSandbox
      /\ \A x : Live(x)' <=> (Live(x) /\ x # sbxs[r][u])
      /\ \A x \in Sandboxes : x # sbxs[r][u] =>
            sandbox'[x] = sandbox[x] /\ owner'[x] = owner[x] /\ model'[x] = model[x]
  BY <1>2, <1>3, OwnedDelete
<1>5. RouteOwned'
  BY <1>1, <1>2, <1>4, RouteOwnedKept
<1>6. PICK l \in {"c_new", "f_read"} :
         pc'[w] = l /\ (l = "c_new" => pc[w] = "c_clean") /\ job'[w] = job[w]
  BY <1>1, <1>2, ContinueFields DEF CleanUp
<1>7. PICK i : i = job[w].inst
  OBVIOUS
<1>8. KnownAt(l, r, u, i)'
  <2>1. StateOf(r, u)' = "absent"
    BY <1>4, NoneIsNotLive DEF StateOf, Live
  <2>2. l = "c_new" => record'[u].status \in {"none", "failed"} /\ i.status = "running"
    BY <1>1, <1>2, <1>6, <1>7 DEF KnownAt, Creating
  <2> QED
    BY <2>1, <2>2 DEF KnownAt, Undisturbed, Creating, Resuming, Registering, Resumed, Forgotten, Waking
<1> QED
  BY <1>1, <1>2, <1>4, <1>5, <1>6, <1>7, <1>8, LabelTypes, SandboxStep

LEMMA CreateKeepsSandboxes ==
    ASSUME OneReplica, Calm, SandboxInv, CacheInv', NEW w \in Workers, CreateSandbox(w),
           NEW r, r = Host[w], NEW u, u = job[w].user
    PROVE  SandboxInv'
<1>1. pc[w] \in Locked /\ Serve(w) /\ UNCHANGED <<record, route, cache>> /\ pc[w] = "c_new"
  BY LabelTypes DEF Serve, CreateStep, CreateSandbox
<1>2. /\ TypeInv /\ Owned /\ RouteOwned /\ KnownAt("c_new", r, u, job[w].inst) /\ job[w].alive
      /\ u \in Users /\ r \in Replicas /\ (\A q \in Replicas : u \notin cache'[q])
      /\ job[w].inst \in Instance
  BY <1>1, Inside DEF Provisioning
<1>3. /\ record[u].status \in {"none", "failed"} /\ job[w].inst.status = "running"
      /\ StateOf(r, u) = "absent"
  BY <1>2 DEF KnownAt, Creating
<1>4. ~Live(sbxs[r][u])
  BY <1>3 DEF StateOf, Live
<1>5. PICK i : i = job'[w].inst
  OBVIOUS
<1>6. ASSUME Owned', RouteOwned', pc'[w] = "f_read" PROVE SandboxInv'
  <2>1. KnownAt("f_read", r, u, i)'
    BY DEF KnownAt, Undisturbed, Creating, Resuming, Registering, Resumed, Forgotten, Waking
  <2> QED
    BY <1>1, <1>2, <1>5, <1>6, <2>1, LabelTypes, SandboxStep
<1>7. ASSUME NEW s \in Sandboxes, NEW f \in {"ok", "notReady"}, Fresh(s), ProviderCreate(r, u, s, f),
             IF f = "ok" THEN /\ Goto(w, "c_register")
                              /\ SetJob(w, [job[w] EXCEPT !.inst = WithEndpoint(@, s)])
                         ELSE ContinueWithError(w, "f_read", f)
      PROVE  SandboxInv'
  <2>1. Claim(u, s) /\ Remember(r, u, s)
    BY <1>7 DEF ProviderCreate
  <2>2. /\ Owned' /\ sbxs'[r][u] = s /\ sandbox'[s] = "running" /\ owner'[s] = u
        /\ \A x \in Sandboxes : x # s =>
              sandbox'[x] = sandbox[x] /\ owner'[x] = owner[x] /\ model'[x] = model[x]
    BY <1>2, <1>4, <1>7, <2>1, OwnedCreate
  <2>3. RouteOwned'
    <3> SUFFICES ASSUME NEW x \in Users, Live(route[x])' PROVE owner'[route'[x]] = x
      BY DEF RouteOwned
    <3>1. route'[x] = route[x] /\ route[x] # s
      BY <1>1, <1>7 DEF Fresh
    <3>2. Live(route[x]) /\ owner'[route[x]] = owner[route[x]]
      BY <2>2, <3>1 DEF Live
    <3> QED
      BY <1>2, <3>1, <3>2 DEF RouteOwned
  <2>4. CASE f = "ok"
    <3>1. Goto(w, "c_register") /\ SetJob(w, [job[w] EXCEPT !.inst = WithEndpoint(@, s)])
      BY <1>7, <2>4
    <3>2. pc'[w] = "c_register" /\ i = WithEndpoint(job[w].inst, s)
      BY <1>2, <1>5, <3>1, EndpointFields
    <3>3. i.status = "running" /\ i.endpoint = s
      BY <1>2, <1>3, <3>2 DEF WithEndpoint, Instance
    <3>4. Known(r, u)' /\ StateOf(r, u)' = "running"
      BY <2>2, ConstantsAssumption DEF Known, StateOf, Live
    <3>5. KnownAt("c_register", r, u, i)'
      BY <1>1, <1>3, <2>2, <3>3, <3>4
      DEF KnownAt, Undisturbed, Creating, Resuming, Registering, Resumed, Forgotten, Waking
    <3> QED
      BY <1>1, <1>2, <1>5, <2>2, <2>3, <3>2, <3>5, LabelTypes, SandboxStep
  <2>5. CASE f # "ok"
    <3>1. pc'[w] = "f_read"
      BY <1>2, <1>7, <2>5, ErrorFields
    <3> QED
      BY <1>6, <2>2, <2>3, <3>1
  <2> QED
    BY <2>4, <2>5
<1>8. CASE UNCHANGED providerVars /\ ContinueWithError(w, "f_read", "create")
  <2>1. Owned' /\ RouteOwned'
    BY <1>1, <1>2, <1>8, OwnedKept DEF providerVars, RouteOwned, Live
  <2>2. pc'[w] = "f_read"
    BY <1>2, <1>8, ErrorFields
  <2> QED
    BY <1>6, <2>1, <2>2
<1>9. \A f \in Outcomes(w, "create", {"lostCreate", "notReady"}) \ {"create"} : f \in {"ok", "notReady"}
  BY <1>2, CalmCalls
<1> QED
  BY <1>7, <1>8, <1>9 DEF CreateSandbox

(* The row of the new instance, or of the failure, is written. *)
LEMMA CreateWritesKeepSandboxes ==
    ASSUME OneReplica, Calm, SandboxInv, CacheInv', NEW w \in Workers,
           CreateInsert(w) \/ FailUpdate(w) \/ FailInsert(w),
           NEW r, r = Host[w], NEW u, u = job[w].user
    PROVE  SandboxInv'
<1>1. pc[w] \in Locked /\ Serve(w) /\ UNCHANGED <<route, sandbox, owner, model, sbxs, cache>>
      /\ pc[w] \in {"c_insert", "f_update", "f_insert"}
  BY LabelTypes DEF Serve, CreateStep, FailStep, CreateInsert, FailUpdate, FailInsert
<1>2. /\ TypeInv /\ Owned /\ RouteOwned /\ KnownAt(pc[w], r, u, job[w].inst) /\ job[w].alive
      /\ u \in Users /\ r \in Replicas /\ (\A q \in Replicas : u \notin cache'[q])
      /\ \A q \in Replicas : q = r
  BY <1>1, Inside DEF Provisioning
<1>3. Owned' /\ RouteOwned'
  BY <1>1, <1>2, OwnedKept DEF RouteOwned, Live
<1>4. \A f \in WriteOutcomes(w) : WriteTakes(f) /\ f # "write"
  <2>1. \A f \in WriteOutcomes(w) : WriteTakes(f)
    BY <1>2, CalmCalls
  <2> QED
    BY <2>1 DEF WriteTakes
<1>5. ASSUME NEW res, Return(w, res), record' = [record EXCEPT ![u] = job[w].inst]
      PROVE  SandboxInv'
  <2>1. pc'[w] = "reply"
    BY <1>2, <1>5, ReturnFields
  <2>2. record'[u] = job[w].inst
    BY <1>2, <1>5 DEF TypeInv, TypeOK
  <2>3. Settled(u)'
    <3>1. CASE pc[w] = "c_insert"
      <4>1. /\ job[w].inst.status = "running" /\ Known(r, u) /\ sbxs[r][u] = job[w].inst.endpoint
            /\ StateOf(r, u) # "paused"
        BY <1>2, <3>1 DEF KnownAt, Creating, Resuming, Resumed
      <4> QED
        BY <1>1, <1>2, <2>2, <4>1 DEF Settled, Known, StateOf, Live
    <3>2. CASE pc[w] \in {"f_update", "f_insert"}
      <4>1. job[w].inst.status = "failed"
        BY <1>2, <3>2 DEF KnownAt
      <4> QED
        BY <2>2, <4>1 DEF Settled
    <3> QED
      BY <1>1, <3>1, <3>2
  <2> QED
    BY <1>1, <1>2, <1>3, <2>1, <2>3, LabelTypes, SandboxStep
<1>6. ASSUME NEW f, ContinueWithError(w, "c_undo", f) PROVE SandboxInv'
  <2>1. PICK i : i = job'[w].inst
    OBVIOUS
  <2>2. pc'[w] = "c_undo"
    BY <1>2, <1>6, ErrorFields
  <2>3. KnownAt("c_undo", r, u, i)'
    BY DEF KnownAt, Undisturbed, Creating, Resuming, Registering, Resumed, Forgotten, Waking
  <2> QED
    BY <1>1, <1>2, <1>3, <2>1, <2>2, <2>3, LabelTypes, SandboxStep
<1>7. CASE CreateInsert(w)
  BY <1>5, <1>6, <1>7 DEF CreateInsert, CreateInstance
<1>8. CASE FailUpdate(w)
  <2>1. Exists(u)
    BY <1>2, <1>8 DEF KnownAt, FailUpdate
  <2> QED
    BY <1>4, <1>5, <1>8, <2>1 DEF FailUpdate, UpdateInstance
<1>9. CASE FailInsert(w)
  <2>1. ~Exists(u)
    BY <1>2, <1>9 DEF KnownAt, FailInsert
  <2> QED
    BY <1>4, <1>5, <1>9, <2>1 DEF FailInsert, CreateInstance, InsertRefused
<1> QED
  BY <1>7, <1>8, <1>9

(* The endpoint is registered and the configuration injected: the gateway  *)
(* learns the sandbox of the user, and the agent in it a model.            *)
LEMMA ResumeKeepsSandboxes ==
    ASSUME OneReplica, Calm, SandboxInv, CacheInv', NEW w \in Workers, ResumeStep(w),
           NEW r, r = Host[w], NEW u, u = job[w].user
    PROVE  SandboxInv'
<1>1. /\ pc[w] \in Locked /\ Serve(w) /\ UNCHANGED <<record, sandbox, owner, sbxs, cache>>
      /\ pc[w] \in {"c_register", "c_inject", "w_register", "w_inject"}
  BY LabelTypes DEF Serve, ResumeStep, RegisterGateway, InjectConfig
<1>2. /\ TypeInv /\ Owned /\ RouteOwned /\ KnownAt(pc[w], r, u, job[w].inst) /\ job[w].alive
      /\ u \in Users /\ r \in Replicas
      /\ record[u].status # "running" => \A q \in Replicas : u \notin cache[q]
  BY <1>1, Inside
<1>3. Owned'
  BY <1>1, <1>2, OwnedKept
<1>4. /\ record[u].status # "running" /\ \A q \in Replicas : u \notin cache'[q]
      /\ Known(r, u) /\ sbxs[r][u] = job[w].inst.endpoint /\ StateOf(r, u) # "paused"
  BY <1>1, <1>2 DEF KnownAt, Creating, Waking, Resuming, Registering, Resumed
<1>5. RouteOwned'
  <2>1. CASE UNCHANGED route
    BY <1>1, <1>2, <2>1 DEF RouteOwned, Live
  <2>2. CASE Register(u, job[w].inst.endpoint)
    <3> SUFFICES ASSUME NEW x \in Users, Live(route[x])' PROVE owner'[route'[x]] = x
      BY DEF RouteOwned
    <3>1. route' = [route EXCEPT ![u] = sbxs[r][u]] /\ route \in [Users -> SandboxOrNone]
      BY <1>2, <1>4, <2>2 DEF Register, TypeInv, TypeOK
    <3>2. CASE x = u
      <4>1. route'[x] = sbxs[r][u]
        BY <3>1, <3>2
      <4> QED
        BY <1>1, <1>2, <3>2, <4>1 DEF Owned, Live
    <3>3. CASE x # u
      <4>1. route'[x] = route[x]
        BY <3>1, <3>3
      <4> QED
        BY <1>1, <1>2, <4>1 DEF RouteOwned, Live
    <3> QED
      BY <3>2, <3>3
  <2> QED
    BY <2>1, <2>2 DEF ResumeStep, RegisterGateway, InjectConfig
<1>6. PICK l \in {"c_inject", "c_insert", "w_inject", "w_update"} :
         pc'[w] = l /\ job'[w] = job[w] /\ (l \in Creating <=> pc[w] \in Creating)
  <2>1. \/ pc[w] = "c_register" /\ Continue(w, "c_inject")
        \/ pc[w] = "c_inject" /\ Continue(w, "c_insert")
        \/ pc[w] = "w_register" /\ Continue(w, "w_inject")
        \/ pc[w] = "w_inject" /\ Continue(w, "w_update")
    BY DEF ResumeStep, RegisterGateway, InjectConfig
  <2> QED
    BY <1>2, <2>1, ContinueFields DEF Creating
<1>7. PICK i : i = job[w].inst
  OBVIOUS
<1>8. Known(r, u)' /\ sbxs'[r][u] = i.endpoint /\ StateOf(r, u)' # "paused"
  BY <1>1, <1>4, <1>7 DEF Known, StateOf, Live
<1>9. KnownAt(l, r, u, i)'
  <2>1. l \in Creating => record'[u].status \in {"none", "failed"} /\ i.status = "running"
    BY <1>1, <1>2, <1>6, <1>7 DEF KnownAt
  <2>2. l \in Waking => record'[u].status \in {"suspended", "failed"}
    BY <1>1, <1>2, <1>6 DEF KnownAt, Creating, Waking
  <2> QED
    BY <1>6, <1>8, <2>1, <2>2 DEF KnownAt, Undisturbed, Forgotten
<1> QED
  BY <1>1, <1>3, <1>4, <1>5, <1>6, <1>7, <1>9, LabelTypes, SandboxStep

(* Wake: the sandbox runs before the row says so. *)
LEMMA WakeKeepsSandboxes ==
    ASSUME OneReplica, Calm, SandboxInv, CacheInv', NEW w \in Workers,
           WakeStart(w) \/ WakeSave(w), NEW r, r = Host[w], NEW u, u = job[w].user
    PROVE  SandboxInv'
<1>1. /\ pc[w] \in Locked /\ Serve(w) /\ UNCHANGED <<route, owner, model, sbxs, cache>>
      /\ pc[w] \in {"w_start", "w_update"}
  BY LabelTypes DEF Serve, WakeStep, WakeStart, WakeSave, ProviderStart, providerVars
<1>2. /\ TypeInv /\ Owned /\ RouteOwned /\ KnownAt(pc[w], r, u, job[w].inst) /\ job[w].alive
      /\ u \in Users /\ r \in Replicas /\ job[w].inst \in Instance
      /\ record[u].status # "running" => \A q \in Replicas : u \notin cache[q]
      /\ \A q \in Replicas : q = r
  BY <1>1, Inside
<1>3. record[u].status \in {"suspended", "failed"} /\ \A q \in Replicas : u \notin cache'[q]
  BY <1>1, <1>2 DEF KnownAt, Waking
<1>4. CASE WakeStart(w)
  <2>1. UNCHANGED record
    BY <1>4 DEF WakeStart
  <2>2. PICK i : i = job'[w].inst
    OBVIOUS
  <2>3. ASSUME Owned', RouteOwned', pc'[w] = "f_read" PROVE SandboxInv'
    <3>1. KnownAt("f_read", r, u, i)'
      BY DEF KnownAt, Undisturbed, Creating, Resuming, Registering, Resumed, Forgotten, Waking
    <3> QED
      BY <1>1, <1>3, <2>2, <2>3, <3>1, LabelTypes, SandboxStep
  <2>4. PICK f \in {"ok", "notReady"} :
           /\ ProviderStart(r, u, f)
           /\ \/ /\ CanStart(r, u, f)
                 /\ Goto(w, "w_register")
                 /\ SetJob(w, [job[w] EXCEPT !.inst = WithEndpoint(@, sbxs[r][u])])
              \/ \E g : ContinueWithError(w, "f_read", g)
    BY <1>2, <1>4, CalmCalls DEF WakeStart
  <2>5. CASE UNCHANGED sandbox /\ ~CanStart(r, u, f)
    <3>1. Owned' /\ RouteOwned'
      BY <1>1, <1>2, <2>5, OwnedKept DEF RouteOwned, Live
    <3>2. pc'[w] = "f_read"
      BY <1>2, <2>4, <2>5, ErrorFields
    <3> QED
      BY <2>3, <3>1, <3>2
  <2>6. CASE /\ Known(r, u) /\ Live(sbxs[r][u])
             /\ sandbox' = [sandbox EXCEPT ![sbxs[r][u]] = "running"]
    <3>1. sbxs[r][u] \in Sandboxes
      BY <2>6 DEF Live
    <3>2. Owned' /\ \A x : Live(x)' <=> Live(x)
      BY <1>1, <1>2, <2>6, <3>1, OwnedState
    <3>3. RouteOwned'
      BY <1>1, <1>2, <3>2, RouteOwnedKept
    <3>4. CASE /\ Goto(w, "w_register")
               /\ SetJob(w, [job[w] EXCEPT !.inst = WithEndpoint(@, sbxs[r][u])])
      <4>1. pc'[w] = "w_register" /\ i = WithEndpoint(job[w].inst, sbxs[r][u])
        BY <1>2, <2>2, <3>4, EndpointFields
      <4>2. i.endpoint = sbxs[r][u]
        BY <1>2, <4>1 DEF WithEndpoint, Instance
      <4>3. sandbox'[sbxs[r][u]] = "running" /\ sbxs'[r][u] = sbxs[r][u]
        BY <1>1, <1>2, <2>6, <3>1 DEF TypeInv, TypeOK
      <4>4. Known(r, u)' /\ StateOf(r, u)' = "running"
        BY <2>6, <3>1, <4>3 DEF Known, StateOf, Live
      <4>5. KnownAt("w_register", r, u, i)'
        BY <1>3, <2>1, <4>2, <4>3, <4>4
        DEF KnownAt, Undisturbed, Creating, Resuming, Registering, Resumed, Forgotten, Waking
      <4> QED
        BY <1>1, <1>3, <2>2, <3>2, <3>3, <4>1, <4>5, LabelTypes, SandboxStep
    <3>5. CASE \E g : ContinueWithError(w, "f_read", g)
      <4>1. pc'[w] = "f_read"
        BY <1>2, <3>5, ErrorFields
      <4> QED
        BY <2>3, <3>2, <3>3, <4>1
    <3> QED
      BY <2>4, <3>4, <3>5
  <2> QED
    BY <2>4, <2>5, <2>6 DEF ProviderStart, CanStart, providerVars
<1>5. CASE WakeSave(w)
  <2>1. UNCHANGED sandbox /\ Known(r, u) /\ sbxs[r][u] = job[w].inst.endpoint /\ StateOf(r, u) # "paused"
    BY <1>2, <1>5 DEF WakeSave, KnownAt, Resuming, Resumed
  <2>2. Owned' /\ RouteOwned'
    BY <1>1, <1>2, <2>1, OwnedKept DEF RouteOwned, Live
  <2>3. /\ record' = [record EXCEPT ![u] = WithStatus(job[w].inst, "running")]
        /\ \E res : Return(w, res)
    <3>1. \A f \in WriteOutcomes(w) : WriteTakes(f) /\ f # "write"
      <4>1. \A f \in WriteOutcomes(w) : WriteTakes(f)
        BY <1>2, CalmCalls
      <4> QED
        BY <4>1 DEF WriteTakes
    <3> QED
      BY <1>3, <1>5, <3>1 DEF WakeSave, Save, UpdateInstance, Exists
  <2>4. pc'[w] = "reply"
    BY <1>2, <2>3, ReturnFields
  <2>5. record'[u].status = "running" /\ record'[u].endpoint = sbxs[r][u]
    BY <1>2, <2>1, <2>3 DEF TypeInv, TypeOK, WithStatus, Instance
  <2>6. Settled(u)'
    BY <1>1, <1>2, <2>1, <2>5 DEF Settled, Known, StateOf, Live
  <2> QED
    BY <1>1, <1>3, <2>2, <2>4, <2>6, LabelTypes, SandboxStep
<1> QED
  BY <1>4, <1>5

(* Suspend: the sandbox is paused, or gone, before the row says so. *)
LEMMA SuspendKeepsSandboxes ==
    ASSUME OneReplica, Calm, SandboxInv, CacheInv', NEW w \in Workers,
           SuspendStop(w) \/ SuspendSave(w), NEW r, r = Host[w], NEW u, u = job[w].user
    PROVE  SandboxInv'
<1>1. /\ pc[w] \in Locked /\ Serve(w) /\ UNCHANGED <<route, owner, model, sbxs, cache>>
      /\ pc[w] \in {"s_stop", "s_update"}
  BY LabelTypes DEF Serve, SuspendStep, SuspendStop, SuspendSave, ProviderStop, providerVars
<1>2. /\ TypeInv /\ Owned /\ RouteOwned /\ KnownAt(pc[w], r, u, job[w].inst) /\ job[w].alive
      /\ u \in Users /\ r \in Replicas /\ job[w].inst \in Instance /\ \A q \in Replicas : q = r
  BY <1>1, Inside
<1>3. record[u].status = "running"
  BY <1>1, <1>2 DEF KnownAt
<1>4. CASE SuspendStop(w)
  <2>1. UNCHANGED record /\ pc[w] = "s_stop"
    BY <1>4 DEF SuspendStop
  <2>2. Known(r, u) /\ StateOf(r, u) # "paused" /\ sbxs[r][u] = record[u].endpoint
    BY <1>2, <1>3, <2>1 DEF KnownAt, Undisturbed, Settled
  <2>3. PICK f \in {"ok", "pause"} :
           /\ ProviderStop(r, u, f)
           /\ IF CanStop(r, u, f) THEN Continue(w, "s_uncache") ELSE Return(w, "faulted")
    BY <1>2, <1>4, CalmCalls DEF SuspendStop
  <2>4. PICK i : i = job[w].inst
    OBVIOUS
  <2>5. ASSUME Owned', \A x : Live(x)' <=> Live(x),
               IF CanStop(r, u, f) THEN StateOf(r, u)' # "running" ELSE StateOf(r, u)' # "paused"
        PROVE  SandboxInv'
    <3>1. RouteOwned'
      BY <1>1, <1>2, <2>5, RouteOwnedKept
    <3>2. Known(r, u)' /\ sbxs'[r][u] = record'[u].endpoint /\ record'[u].status = "running"
      BY <1>1, <1>3, <2>1, <2>2 DEF Known
    <3>3. \A q \in Replicas : u \in cache'[q] => Reached(u)'
      BY <1>1, <2>1, <2>5 DEF Reached, SandboxInv, CachedOverrideReachedAgent
    <3>4. CASE CanStop(r, u, f)
      <4>1. pc'[w] = "s_uncache" /\ job'[w].inst = i
        BY <1>2, <2>3, <2>4, <3>4, ContinueFields
      <4>2. KnownAt("s_uncache", r, u, i)'
        BY <2>5, <3>2, <3>4
        DEF KnownAt, Undisturbed, Creating, Resuming, Registering, Resumed, Forgotten, Waking
      <4> QED
        BY <1>1, <2>5, <3>1, <3>3, <4>1, <4>2, LabelTypes, SandboxStep
    <3>5. CASE ~CanStop(r, u, f)
      <4>1. pc'[w] = "reply"
        BY <1>2, <2>3, <3>5, ReturnFields
      <4>2. Settled(u)'
        BY <1>2, <2>5, <3>2, <3>5 DEF Settled
      <4> QED
        BY <1>1, <2>5, <3>1, <3>3, <4>1, <4>2, LabelTypes, SandboxStep
    <3> QED
      BY <3>4, <3>5
  <2>6. CASE UNCHANGED sandbox /\ ~Live(sbxs[r][u])
    <3>1. Owned' /\ (\A x : Live(x)' <=> Live(x)) /\ StateOf(r, u)' = "absent"
      BY <1>1, <1>2, <2>6, OwnedKept DEF StateOf, Live
    <3> QED
      BY <2>5, <3>1
  <2>7. CASE Live(sbxs[r][u])
             /\ sandbox' = [sandbox EXCEPT ![sbxs[r][u]] = IF f = "ok" THEN "paused" ELSE "running"]
    <3>1. sbxs[r][u] \in Sandboxes
      BY <2>7 DEF Live
    <3>2. PICK st \in {"paused", "running"} :
             /\ sandbox' = [sandbox EXCEPT ![sbxs[r][u]] = st]
             /\ st = "paused" <=> f = "ok"
      BY <2>7
    <3>3. Owned' /\ \A x : Live(x)' <=> Live(x)
      BY <1>1, <1>2, <2>7, <3>1, <3>2, OwnedState
    <3>4. sandbox'[sbxs[r][u]] = st /\ sbxs'[r][u] = sbxs[r][u]
      BY <1>1, <1>2, <3>1, <3>2 DEF TypeInv, TypeOK
    <3>5. StateOf(r, u)' = st
      BY <3>1, <3>4 DEF StateOf, Live
    <3>6. CanStop(r, u, f) <=> f = "ok"
      BY <2>2, <2>7 DEF CanStop
    <3> QED
      BY <2>5, <3>2, <3>3, <3>5, <3>6
  <2> QED
    BY <2>2, <2>3, <2>6, <2>7 DEF ProviderStop, providerVars
<1>5. CASE SuspendSave(w)
  <2>1. /\ UNCHANGED sandbox /\ Known(r, u) /\ StateOf(r, u) # "running"
        /\ \A q \in Replicas : u \notin cache'[q]
    BY <1>1, <1>2, <1>5, Inside DEF SuspendSave, KnownAt
  <2>2. Owned' /\ RouteOwned'
    BY <1>1, <1>2, <2>1, OwnedKept DEF RouteOwned, Live
  <2>3. /\ record' = [record EXCEPT ![u] = WithStatus(job[w].inst, "suspended")]
        /\ \E res : Return(w, res)
    <3>1. \A f \in WriteOutcomes(w) : WriteTakes(f) /\ f # "write"
      <4>1. \A f \in WriteOutcomes(w) : WriteTakes(f)
        BY <1>2, CalmCalls
      <4> QED
        BY <4>1 DEF WriteTakes
    <3> QED
      BY <1>3, <1>5, <3>1 DEF SuspendSave, Save, UpdateInstance, Exists
  <2>4. pc'[w] = "reply"
    BY <1>2, <2>3, ReturnFields
  <2>5. record'[u].status = "suspended"
    BY <1>2, <2>3 DEF TypeInv, TypeOK, WithStatus, Instance
  <2>6. Settled(u)'
    BY <1>1, <1>2, <2>1, <2>5 DEF Settled, Known, StateOf, Live
  <2> QED
    BY <1>1, <2>1, <2>2, <2>4, <2>6, LabelTypes, SandboxStep
<1> QED
  BY <1>4, <1>5

(* Delete: the sandbox, the route, the override and the row, in that order. *)
LEMMA DeleteKeepsSandboxes ==
    ASSUME OneReplica, Calm, SandboxInv, CacheInv', NEW w \in Workers, DeleteStep(w),
           NEW r, r = Host[w], NEW u, u = job[w].user
    PROVE  SandboxInv'
<1>1. /\ pc[w] \in Locked /\ Serve(w) /\ UNCHANGED cache
      /\ pc[w] \in {"d_backend", "d_unregister", "d_store"}
  BY LabelTypes DEF Serve, DeleteStep, DeleteSandbox, DeleteRoute, DeleteRecord
<1>2. /\ TypeInv /\ Owned /\ RouteOwned /\ KnownAt(pc[w], r, u, job[w].inst) /\ job[w].alive
      /\ u \in Users /\ r \in Replicas /\ \A q \in Replicas : q = r
  BY <1>1, Inside
<1>3. PICK i : i = job[w].inst
  OBVIOUS
<1>4. ASSUME NEW l \in Forgotten, ~Known(r, u)' PROVE KnownAt(l, r, u, i)'
  BY <1>4 DEF KnownAt, Undisturbed, Creating, Resuming, Registering, Resumed, Forgotten, Waking
<1>5. CASE DeleteSandbox(w)
  <2>1. UNCHANGED <<record, route>>
    BY <1>5 DEF DeleteSandbox
  <2>2. ProviderDelete(r, u, "ok") /\ Continue(w, "d_unregister")
    <3>1. \A f \in Outcomes(w, "connect", {"kill"}) : f = "ok"
      BY <1>2, CalmCalls
    <3> QED
      BY <1>5, <3>1 DEF DeleteSandbox, CanDelete
  <2>3. /\ Owned' /\ sbxs'[r][u] = NoSandbox
        /\ \A x : Live(x)' <=> (Live(x) /\ x # sbxs[r][u])
        /\ \A x \in Sandboxes : x # sbxs[r][u] =>
              sandbox'[x] = sandbox[x] /\ owner'[x] = owner[x] /\ model'[x] = model[x]
    BY <1>2, <2>2, OwnedDelete
  <2>4. RouteOwned'
    BY <1>2, <2>1, <2>3, RouteOwnedKept
  <2>5. pc'[w] = "d_unregister" /\ job'[w].inst = i
    BY <1>2, <1>3, <2>2, ContinueFields
  <2>6. KnownAt("d_unregister", r, u, i)'
    BY <1>4, <2>3 DEF Forgotten, Known
  <2>7. \A q \in Replicas : u \in cache'[q] => Reached(u)'
    <3> SUFFICES ASSUME NEW q \in Replicas, u \in cache[q], Live(record[u].endpoint)'
                 PROVE  model'[record'[u].endpoint] = "override"
      BY <1>1 DEF Reached
    <3>1. Live(record[u].endpoint) /\ record[u].endpoint # sbxs[r][u]
      BY <2>1, <2>3 DEF Live
    <3>2. model[record[u].endpoint] = "override"
      BY <3>1 DEF SandboxInv, CachedOverrideReachedAgent
    <3> QED
      BY <2>1, <2>3, <3>1, <3>2 DEF Live
  <2> QED
    BY <1>1, <2>3, <2>4, <2>5, <2>6, <2>7, LabelTypes, SandboxStep
<1>6. CASE DeleteRoute(w)
  <2>1. UNCHANGED <<record, sandbox, owner, model, sbxs>> /\ ~Known(r, u)
    BY <1>2, <1>6 DEF DeleteRoute, KnownAt, Forgotten
  <2>2. Owned'
    BY <1>2, <2>1, OwnedKept
  <2>3. RouteOwned'
    <3> SUFFICES ASSUME NEW x \in Users, Live(route[x])' PROVE owner'[route'[x]] = x
      BY DEF RouteOwned
    <3>1. UNCHANGED route \/ Unregister(u)
      BY <1>6 DEF DeleteRoute
    <3>2. route'[x] = route[x] \/ route'[x] = NoSandbox
      BY <1>2, <3>1 DEF Unregister, TypeInv, TypeOK
    <3>3. Live(route[x]) /\ route'[x] = route[x]
      BY <2>1, <3>2, NoneIsNotLive DEF Live
    <3> QED
      BY <1>2, <2>1, <3>3 DEF RouteOwned
  <2>4. pc'[w] = "d_uncache" /\ job'[w].inst = i
    BY <1>2, <1>3, <1>6, ContinueFields DEF DeleteRoute
  <2>5. KnownAt("d_uncache", r, u, i)'
    BY <1>4, <2>1 DEF Forgotten, Known
  <2>6. \A q \in Replicas : u \in cache'[q] => Reached(u)'
    BY <1>1, <2>1 DEF Reached, Live, SandboxInv, CachedOverrideReachedAgent
  <2> QED
    BY <1>1, <2>2, <2>3, <2>4, <2>5, <2>6, LabelTypes, SandboxStep
<1>7. CASE DeleteRecord(w)
  <2>1. /\ UNCHANGED <<route, sandbox, owner, model, sbxs>> /\ ~Known(r, u)
        /\ \A q \in Replicas : u \notin cache'[q]
    BY <1>1, <1>2, <1>7, Inside DEF DeleteRecord, KnownAt, Forgotten
  <2>2. Owned' /\ RouteOwned'
    BY <1>2, <2>1, OwnedKept DEF RouteOwned, Live
  <2>3. DeleteInstance(u) /\ \E res : Return(w, res)
    <3>1. \A f \in WriteOutcomes(w) : WriteTakes(f)
      BY <1>2, CalmCalls
    <3> QED
      BY <1>7, <3>1 DEF DeleteRecord
  <2>4. pc'[w] = "reply"
    BY <1>2, <2>3, ReturnFields
  <2>5. record'[u].status = "none"
    BY <1>2, <2>3 DEF DeleteInstance, NoInstance, TypeInv, TypeOK
  <2>6. Settled(u)'
    BY <1>2, <2>1, <2>5, NoneIsNotLive DEF Settled, Known, StateOf, Live
  <2> QED
    BY <1>1, <2>1, <2>2, <2>4, <2>6, LabelTypes, SandboxStep
<1> QED
  BY <1>5, <1>6, <1>7 DEF DeleteStep

(* cache.Delete takes an override away, whoever calls it. *)
LEMMA DropKeepsSandboxes ==
    ASSUME OneReplica, Calm, SandboxInv, CacheInv', NEW w \in Workers, DropConfig(w),
           NEW r, r = Host[w], NEW u, u = job[w].user
    PROVE  SandboxInv'
<1>1. /\ pc[w] \in Locked /\ Serve(w) /\ UNCHANGED <<record, route, sandbox, owner, model, sbxs>>
      /\ pc[w] \in {"s_uncache", "d_uncache"}
  BY LabelTypes DEF Serve, SuspendStep, DropConfig
<1>2. TypeInv /\ KnownAt(pc[w], r, u, job[w].inst)
  BY <1>1, Inside
<1>3. PICK i : i = job[w].inst
  OBVIOUS
<1>4. PICK l \in {"s_update", "d_store"} :
         pc'[w] = l /\ job'[w].inst = i /\ (l = "s_update" <=> pc[w] = "s_uncache")
  BY <1>1, <1>2, <1>3, ContinueFields DEF DropConfig
<1>5. KnownAt(l, r, u, i)
  BY <1>1, <1>2, <1>3, <1>4
  DEF KnownAt, Undisturbed, Creating, Resuming, Registering, Resumed, Forgotten, Waking
<1>6. \A q \in Replicas : cache'[q] \subseteq cache[q]
  BY <1>2 DEF DropConfig, TypeInv, TypeOK
<1> QED
  BY <1>1, <1>4, <1>5, <1>6, LabelTypes, KeptStep

(* SetModelConfig: the override is cached once the agent of the recorded   *)
(* sandbox has it, for that is the one living sandbox of the user.         *)
LEMMA ModelKeepsSandboxes ==
    ASSUME OneReplica, Calm, SandboxInv, CacheInv', NEW w \in Workers,
           ModelInject(w) \/ ModelCache(w), NEW r, r = Host[w], NEW u, u = job[w].user
    PROVE  SandboxInv'
<1>1. /\ pc[w] \in Locked /\ Serve(w) /\ UNCHANGED <<record, route, sandbox, owner, sbxs>>
      /\ pc[w] \in {"m_inject", "m_cache"}
  BY LabelTypes DEF Serve, ModelStep, ModelInject, ModelCache
<1>2. /\ TypeInv /\ Owned /\ RouteOwned /\ KnownAt(pc[w], r, u, job[w].inst) /\ job[w].alive
      /\ u \in Users /\ r \in Replicas /\ \A q \in Replicas : q = r
  BY <1>1, Inside
<1>3. Settled(u) /\ record[u].status = "running"
  BY <1>1, <1>2 DEF KnownAt, Undisturbed
<1>4. PICK i : i = job[w].inst
  OBVIOUS
<1>5. CASE ModelInject(w)
  <2>1. Owned' /\ RouteOwned' /\ Settled(u)' /\ UNCHANGED cache
    BY <1>1, <1>2, <1>3, <1>5, OwnedKept DEF ModelInject, RouteOwned, Live, Settled, Known, StateOf
  <2>2. CASE SetConfig(u, "override") /\ Continue(w, "m_cache")
    <3>1. Live(route[u]) /\ owner[route[u]] = u
      BY <1>2, <2>2 DEF SetConfig, Configure, Live, RouteOwned
    <3>2. route[u] = record[u].endpoint
      <4>1. sbxs[r][u] = route[u]
        BY <1>2, <3>1 DEF Owned, Live
      <4> QED
        BY <1>2, <1>3, <4>1 DEF Settled
    <3>3. Reached(u)'
      BY <1>1, <1>2, <2>2, <3>1, <3>2 DEF SetConfig, Configure, Reached, Live, TypeInv, TypeOK
    <3>4. pc'[w] = "m_cache" /\ job'[w].inst = i
      BY <1>2, <1>4, <2>2, ContinueFields
    <3>5. KnownAt("m_cache", r, u, i)'
      BY <1>1, <1>3, <2>1, <3>3
      DEF KnownAt, Undisturbed, Creating, Resuming, Registering, Resumed, Forgotten, Waking
    <3> QED
      BY <1>1, <2>1, <3>3, <3>4, <3>5, LabelTypes, SandboxStep
  <2>3. ASSUME UNCHANGED model, NEW res, Return(w, res) PROVE SandboxInv'
    <3>1. pc'[w] = "reply"
      BY <1>2, <2>3, ReturnFields
    <3> QED
      BY <1>1, <1>3, <2>1, <2>3, <3>1, LabelTypes, KeptStep
  <2> QED
    BY <1>5, <2>2, <2>3 DEF ModelInject
<1>6. CASE ModelCache(w)
  <2>1. Reached(u) /\ UNCHANGED model
    BY <1>2, <1>6 DEF ModelCache, KnownAt
  <2>2. pc'[w] = "reply"
    BY <1>2, <1>6, ReturnFields DEF ModelCache
  <2> QED
    BY <1>1, <1>3, <2>1, <2>2, LabelTypes, KeptStep
<1> QED
  BY <1>5, <1>6

(* A request begins over a record that matches, and ends with one. *)
LEMMA BeginAndReplyKeepSandboxes ==
    ASSUME OneReplica, SandboxInv, CacheInv', NEW w \in Workers,
           Reply(w) \/ \E op \in Ops, u \in Users : Begin(w, op, u)
    PROVE  SandboxInv'
<1>1. UNCHANGED <<record, route, sandbox, owner, model, sbxs, cache>>
  BY DEF Reply, Begin
<1>2. TypeInv /\ \A v \in Workers : HoldsLock(v)
  BY DEF SandboxInv, CacheInv, Knows, HoldsLock
<1>3. Owned' /\ RouteOwned' /\ CachedOverrideReachedAgent'
  BY <1>1, OwnedKept DEF SandboxInv, RouteOwned, Live, CachedOverrideReachedAgent
<1>4. \A u \in Users : Settled(u)' <=> Settled(u)
  BY <1>1 DEF Settled, StateOf, Live, Known
<1>5. \A v \in Workers \ {w} : pc'[v] = pc[v] /\ job'[v] = job[v]
  BY <1>2 DEF Reply, Begin, Goto, SetJob, TypeInv, TypeOK
<1>6. ASSUME NEW v \in Workers, v # w PROVE KnowsSandbox(v)'
  BY <1>1, <1>5, <1>6 DEF SandboxInv, KnowsSandbox, KnownAt, Settled, StateOf, Live, Known, Reached, Exists
<1>7. CASE Reply(w)
  <2>1. pc[w] = "reply" /\ pc'[w] = "idle" /\ job'[w].alive
    BY <1>2, <1>7 DEF Reply, Goto, SetJob, NoJob, TypeInv, TypeOK
  <2>2. KnowsSandbox(w)'
    BY <2>1, LabelTypes, KnowsNothing
  <2>3. \A v \in Workers : job'[v].alive
    BY <1>5, <2>1 DEF SandboxInv
  <2>4. \A u \in Users : Quiet(u)' => Quiet(u)
    BY <1>5, <2>1, LabelTypes DEF Quiet
  <2> QED
    BY <1>3, <1>4, <1>6, <2>2, <2>3, <2>4 DEF SandboxInv
<1>8. ASSUME NEW op \in Ops, NEW u \in Users, Begin(w, op, u) PROVE SandboxInv'
  <2>1. \A v \in Workers : pc[v] \notin Locked
    BY <1>2, <1>8, FreeLock DEF Begin
  <2>2. \A x \in Users : Settled(x) /\ Settled(x)'
    BY <1>4, <2>1 DEF SandboxInv, Quiet
  <2>3. pc'[w] = Entry[op] /\ job'[w].alive /\ job'[w].user = u
    BY <1>2, <1>8 DEF Begin, Goto, SetJob, NoJob, TypeInv, TypeOK
  <2>4. PICK i : i = job'[w].inst
    OBVIOUS
  <2>5. PICK l \in {"c_read", "k_read", "s_read", "d_backend", "m_read"} : l = Entry[op]
    BY DEF Entry, Ops
  <2>6. KnownAt(l, Host[w], u, i)'
    BY <2>2 DEF KnownAt, Undisturbed, Creating, Resuming, Registering, Resumed, Forgotten, Waking
  <2>7. KnowsSandbox(w)'
    BY <2>3, <2>4, <2>5, <2>6, KnowsIntro
  <2>8. \A v \in Workers : job'[v].alive
    BY <1>5, <2>3 DEF SandboxInv
  <2> QED
    BY <1>3, <1>6, <2>2, <2>7, <2>8 DEF SandboxInv
<1> QED
  BY <1>7, <1>8

(* An override expires, a sandbox dies, the gateway restarts. *)
LEMMA EnvironmentKeepsSandboxes ==
    ASSUME OneReplica, Calm, SandboxInv, CacheInv', Environment
    PROVE  SandboxInv'
<1>1. TypeInv /\ Owned /\ RouteOwned
  BY DEF SandboxInv, CacheInv
<1>2. UNCHANGED <<record, sbxs, pc, job>> /\ \A r \in Replicas : cache'[r] \subseteq cache[r]
  <2>1. ASSUME NEW r \in Replicas, NEW u \in Users, ExpireConfig(r, u)
        PROVE  \A q \in Replicas : cache'[q] \subseteq cache[q]
    BY <1>1, <2>1 DEF ExpireConfig, TypeInv, TypeOK
  <2> QED
    BY <2>1 DEF Environment, ExpireConfig, Disconnect, SandboxDies, RestartGateway, Crash, Calm
<1>3. /\ Owned'
      /\ \A x \in Sandboxes : Live(x)' => /\ Live(x) /\ sandbox'[x] = sandbox[x]
                                         /\ owner'[x] = owner[x] /\ model'[x] = model[x]
  <2>1. CASE UNCHANGED <<sandbox, owner, model>>
    BY <1>1, <1>2, <2>1, OwnedKept DEF Live
  <2>2. ASSUME NEW s \in Sandboxes, Live(s), Destroy(s)
        PROVE  /\ Owned'
               /\ \A x \in Sandboxes : Live(x)' => /\ Live(x) /\ sandbox'[x] = sandbox[x]
                                                  /\ owner'[x] = owner[x] /\ model'[x] = model[x]
    <3>1. Owned' /\ \A x : Live(x)' <=> (Live(x) /\ x # s)
      BY <1>1, <1>2, <2>2, OwnedDestroy
    <3>2. \A x \in Sandboxes : x # s =>
             sandbox'[x] = sandbox[x] /\ owner'[x] = owner[x] /\ model'[x] = model[x]
      BY <1>1, <2>2 DEF Destroy, TypeInv, TypeOK
    <3> QED
      BY <3>1, <3>2
  <2> QED
    BY <2>1, <2>2 DEF Environment, ExpireConfig, Disconnect, SandboxDies, RestartGateway, Crash
<1>4. RouteOwned'
  <2>1. CASE UNCHANGED route
    BY <1>1, <1>3, <2>1, RouteOwnedKept
  <2>2. CASE GatewayAfterRestart
    BY <2>2, ConstantsAssumption DEF GatewayAfterRestart, RouteOwned, Live
  <2> QED
    BY <2>1, <2>2 DEF Environment, ExpireConfig, Disconnect, SandboxDies, RestartGateway, Crash
<1>5. CachedOverrideReachedAgent'
  <2> SUFFICES ASSUME NEW r \in Replicas, NEW u \in cache'[r], Live(record[u].endpoint)'
               PROVE  model'[record'[u].endpoint] = "override"
    BY DEF CachedOverrideReachedAgent
  <2>1. u \in cache[r] /\ record'[u].endpoint = record[u].endpoint /\ record[u].endpoint \in Sandboxes
    BY <1>2 DEF Live
  <2> QED
    BY <1>2, <1>3, <2>1 DEF SandboxInv, CachedOverrideReachedAgent, Live
<1>6. ASSUME NEW r, NEW u PROVE StateOf(r, u)' \in {StateOf(r, u), "absent"}
  BY <1>2, <1>3 DEF StateOf, Live
<1>7. ASSUME NEW u, Settled(u) PROVE Settled(u)'
  BY <1>2, <1>6, <1>7 DEF Settled, Known
<1>8. ASSUME NEW u, Reached(u) PROVE Reached(u)'
  <2>1. CASE Live(record[u].endpoint)'
    BY <1>2, <1>3, <1>8, <2>1 DEF Reached, Live
  <2> QED
    BY <2>1 DEF Reached
<1>9. ASSUME NEW v \in Workers PROVE KnowsSandbox(v)'
  <2>1. PICK l, r, u, i : l = pc[v] /\ r = Host[v] /\ u = job[v].user /\ i = job[v].inst
    OBVIOUS
  <2>2. KnownAt(l, r, u, i)
    BY <2>1 DEF SandboxInv, KnowsSandbox
  <2>3. KnownAt(l, r, u, i)'
    BY <1>2, <1>6, <1>7, <1>8, <2>2 DEF KnownAt, Known, Exists
  <2> QED
    BY <1>2, <2>1, <2>3, KnowsIntro
<1>10. \A u \in Users : Quiet(u)' => Settled(u)'
  BY <1>2, <1>7 DEF SandboxInv, Quiet
<1> QED
  BY <1>2, <1>3, <1>4, <1>5, <1>9, <1>10 DEF SandboxInv

(* The invariant holds initially, and every step keeps it. *)
LEMMA InitSandboxes == Init => SandboxInv
<1> SUFFICES ASSUME Init PROVE SandboxInv
  OBVIOUS
<1>1. /\ CacheInv
      /\ \A u \in Users : record[u] = NoInstance /\ route[u] = NoSandbox
      /\ \A s \in Sandboxes : ~Live(s) /\ owner[s] = NoUser
      /\ \A r \in Replicas : cache[r] = {} /\ \A u \in Users : sbxs[r][u] = NoSandbox
      /\ \A w \in Workers : pc[w] = "idle" /\ job[w].alive
  BY InitCached DEF Init, StoreInit, GatewayInit, ProviderInit, Live, NoJob
<1>2. Owned /\ RouteOwned /\ CachedOverrideReachedAgent
  BY <1>1, NoneIsNotLive DEF Owned, RouteOwned, CachedOverrideReachedAgent
<1>3. \A u \in Users : Settled(u)
  BY <1>1, NoneIsNotLive DEF Settled, StateOf, NoInstance
<1>4. \A w \in Workers : KnowsSandbox(w)
  BY <1>1, LabelTypes, SandboxLabels DEF KnowsSandbox, KnownAt, Undisturbed, Creating, Waking
<1> QED
  BY <1>1, <1>2, <1>3, <1>4 DEF SandboxInv

LEMMA SandboxInvStep ==
    ASSUME OneReplica, Calm, SandboxInv, [Next]_vars
    PROVE  SandboxInv'
<1>1. CacheInv'
  BY CacheInvStep DEF SandboxInv, Calm, ReadsAnswer
<1>2. CASE UNCHANGED vars
  BY <1>1, <1>2 DEF vars, SandboxInv, Owned, RouteOwned, CachedOverrideReachedAgent, Quiet,
     KnowsSandbox, KnownAt, Settled, StateOf, Live, Known, Exists, Reached
<1>3. ASSUME NEW w \in Workers, Serve(w) PROVE SandboxInv'
  BY <1>1, <1>3, ReadsKeepSandboxes, CleanUpKeepsSandboxes, CreateKeepsSandboxes,
     CreateWritesKeepSandboxes, ResumeKeepsSandboxes, WakeKeepsSandboxes, SuspendKeepsSandboxes,
     DeleteKeepsSandboxes, DropKeepsSandboxes, ModelKeepsSandboxes, BeginAndReplyKeepSandboxes
  DEF Serve, CreateStep, FailStep, WakeStep, SuspendStep, ModelStep
<1>4. CASE Environment
  BY <1>1, <1>4, EnvironmentKeepsSandboxes
<1> QED
  BY <1>1, <1>2, <1>3, <1>4, BeginAndReplyKeepSandboxes DEF Next

(* Under calm faults the provider's map knows every living sandbox: no     *)
(* failing, retried or refused Create, Wake or Delete orphans one.         *)
THEOREM NoSandboxIsLost ==
    ASSUME OneReplica, Calm
    PROVE  Spec => []NoSandboxLeaked
<1>1. Init => SandboxInv
  BY InitSandboxes
<1>2. SandboxInv /\ [Next]_vars => SandboxInv'
  BY SandboxInvStep
<1>3. SandboxInv => NoSandboxLeaked
  BY DEF SandboxInv, Owned, NoSandboxLeaked
<1> QED
  BY <1>1, <1>2, <1>3, PTL DEF Spec

(* Between requests a suspended user has no running sandbox, and a running *)
(* record names the sandbox that Stop would stop.                          *)
THEOREM RecordMatchesSandbox ==
    ASSUME OneReplica, Replicas # {}, Calm
    PROVE  Spec => []StatusMatchesSandbox
<1>1. Init => SandboxInv
  BY InitSandboxes
<1>2. SandboxInv /\ [Next]_vars => SandboxInv'
  BY SandboxInvStep
<1>3. ASSUME SandboxInv PROVE StatusMatchesSandbox
  <2> SUFFICES ASSUME NEW u \in Users, Quiet(u)
               PROVE  /\ record[u].status = "suspended" =>
                            \A s \in Sandboxes : owner[s] = u => sandbox[s] # "running"
                      /\ record[u].status = "running" =>
                            /\ sandbox[record[u].endpoint] # "paused"
                            /\ \E r \in Replicas : sbxs[r][u] = record[u].endpoint
    BY DEF StatusMatchesSandbox
  <2>1. Settled(u) /\ Owned /\ TypeInv
    BY <1>3 DEF SandboxInv, CacheInv
  <2>2. PICK r \in Replicas : TRUE
    OBVIOUS
  <2>3. ASSUME record[u].status = "suspended", NEW s \in Sandboxes, owner[s] = u
        PROVE  sandbox[s] # "running"
    <3>1. CASE Live(s)
      <4>1. PICK q \in Replicas : sbxs[q][u] = s
        BY <2>1, <2>3, <3>1 DEF Owned
      <4> QED
        BY <2>1, <2>3, <3>1, <4>1 DEF Settled, StateOf
    <3> QED
      BY <3>1 DEF Live
  <2>4. ASSUME record[u].status = "running"
        PROVE  sandbox[record[u].endpoint] # "paused" /\ sbxs[r][u] = record[u].endpoint
    <3>1. Known(r, u) /\ sbxs[r][u] = record[u].endpoint /\ StateOf(r, u) # "paused"
      BY <2>1, <2>4 DEF Settled
    <3>2. sbxs[r][u] \in Sandboxes
      BY <2>1, <3>1 DEF Known, TypeInv, TypeOK, SandboxOrNone
    <3> QED
      BY <3>1, <3>2 DEF StateOf, Live
  <2> QED
    BY <2>3, <2>4
<1> QED
  BY <1>1, <1>2, <1>3, PTL DEF Spec

(* While an override is cached the agent of the recorded sandbox runs it. *)
THEOREM CacheTellsTheTruth ==
    ASSUME OneReplica, Calm
    PROVE  Spec => []CachedOverrideReachedAgent
<1>1. Init => SandboxInv
  BY InitSandboxes
<1>2. SandboxInv /\ [Next]_vars => SandboxInv'
  BY SandboxInvStep
<1>3. SandboxInv => CachedOverrideReachedAgent
  BY DEF SandboxInv
<1> QED
  BY <1>1, <1>2, <1>3, PTL DEF Spec

-------------------------------------------------------------------------------
(* Which calls belong to which request, whatever the faults. *)
Belongs(l, op) ==
    /\ op = "create" => l \in CreateLabels \cup (WakeLabels \ {"k_read"}) \cup FailLabels
    /\ op = "wake" => l \in WakeLabels \cup FailLabels
    /\ op = "suspend" => l \in SuspendLabels
    /\ op = "delete" => l \in DeleteLabels
    /\ op = "setmodel" => l \in ModelLabels

RequestInv ==
    \A w \in Workers :
        pc[w] \in Locked => job[w].op \in Ops /\ job[w].res = "none" /\ Belongs(pc[w], job[w].op)

(* The call a step of a request goes on with. *)
LEMMA ServeFollows ==
    ASSUME TypeInv, NEW w \in Workers, Serve(w), pc'[w] \in Locked, NEW op \in Ops, Belongs(pc[w], op)
    PROVE  Belongs(pc'[w], op)
<1> DEFINE Follows(l, S) == pc[w] = l /\ pc'[w] \in S \cup {"reply", "idle"}
<1>0. /\ \A res : Return(w, res) => pc'[w] = "reply"
      /\ \A l : Continue(w, l) \/ Load(w, l) \/ Goto(w, l) => pc'[w] = l
      /\ \A l, f : ContinueWithError(w, l, f) => pc'[w] = l
  BY ReturnFields, ContinueFields, ErrorFields, LoadFields, GotoFields
<1>1. CASE CreateStep(w)
  <2>1. \/ Follows("c_read", {"w_start", "c_clean", "c_new"})
        \/ Follows("c_clean", {"c_new"})
        \/ Follows("c_undo", {"f_read"})
        \/ Follows("c_new", {"c_register", "f_read"})
        \/ Follows("c_insert", {"c_undo"})
    BY <1>0, <1>1 DEF CreateStep, CreateRead, CleanUp, CreateSandbox, CreateInsert
  <2> QED
    BY <2>1, LabelTypes DEF Belongs, Ops, CreateLabels, WakeLabels, FailLabels, SuspendLabels,
       DeleteLabels, ModelLabels
<1>2. CASE ResumeStep(w) \/ FailStep(w) \/ WakeStep(w)
  <2>1. \/ Follows("c_register", {"c_inject"})
        \/ Follows("c_inject", {"c_insert"})
        \/ Follows("w_register", {"w_inject"})
        \/ Follows("w_inject", {"w_update"})
        \/ Follows("f_read", {"f_update", "f_insert"})
        \/ Follows("f_update", {})
        \/ Follows("f_insert", {})
        \/ Follows("k_read", {"w_start"})
        \/ Follows("w_start", {"w_register", "f_read"})
        \/ Follows("w_update", {})
    BY <1>0, <1>2 DEF ResumeStep, RegisterGateway, InjectConfig, FailStep, FailRead, FailUpdate,
       FailInsert, WakeStep, WakeRead, WakeStart, WakeSave, Save
  <2> QED
    BY <2>1, LabelTypes DEF Belongs, Ops, CreateLabels, WakeLabels, FailLabels, SuspendLabels,
       DeleteLabels, ModelLabels
<1>3. CASE SuspendStep(w) \/ DeleteStep(w) \/ ModelStep(w)
  <2>1. \/ Follows("s_read", {"s_stop"})
        \/ Follows("s_stop", {"s_uncache"})
        \/ Follows("s_uncache", {"s_update"})
        \/ Follows("s_update", {})
        \/ Follows("d_backend", {"d_unregister"})
        \/ Follows("d_unregister", {"d_uncache"})
        \/ Follows("d_uncache", {"d_store"})
        \/ Follows("d_store", {})
        \/ Follows("m_read", {"m_inject"})
        \/ Follows("m_inject", {"m_cache"})
        \/ Follows("m_cache", {})
    BY <1>0, <1>3 DEF SuspendStep, SuspendRead, SuspendStop, DropConfig, SuspendSave, Save, DeleteStep,
       DeleteSandbox, DeleteRoute, DeleteRecord, ModelStep, ModelRead, ModelInject, ModelCache
  <2> QED
    BY <2>1, LabelTypes DEF Belongs, Ops, CreateLabels, WakeLabels, FailLabels, SuspendLabels,
       DeleteLabels, ModelLabels
<1>4. CASE Reply(w)
  BY <1>4, LabelTypes, ServeMoves DEF Moves, Reply
<1> QED
  BY <1>1, <1>2, <1>3, <1>4 DEF Serve

LEMMA RequestInvStep ==
    ASSUME TypeInv, RequestInv, [Next]_vars
    PROVE  RequestInv'
<1>1. CASE UNCHANGED vars
  BY <1>1 DEF vars, RequestInv
<1>2. ASSUME NEW w \in Workers, Serve(w) PROVE RequestInv'
  <2>1. Moves(w)
    BY <1>2, ServeMoves
  <2>2. ASSUME pc'[w] \in Locked
        PROVE  job'[w].op \in Ops /\ job'[w].res = "none" /\ Belongs(pc'[w], job'[w].op)
    <3>1. pc[w] \in Locked /\ pc'[w] # "idle"
      BY <2>1, <2>2, LabelTypes DEF Moves
    <3>2. job'[w].op = job[w].op /\ job'[w].res = job[w].res
      BY <1>2, <2>2, <3>1, ServeJob
    <3> QED
      BY <1>2, <2>2, <3>1, <3>2, ServeFollows DEF RequestInv
  <2> QED
    BY <2>1, <2>2 DEF Moves, RequestInv, Belongs
<1>3. ASSUME NEW w \in Workers, NEW op \in Ops, NEW u \in Users, Begin(w, op, u) PROVE RequestInv'
  <2>1. \A v \in Workers \ {w} : pc'[v] = pc[v] /\ job'[v] = job[v]
    BY <1>3 DEF Begin, Goto, SetJob, TypeInv, TypeOK
  <2>2. pc'[w] = Entry[op] /\ job'[w].op = op /\ job'[w].res = "none"
    BY <1>3 DEF Begin, Goto, SetJob, NoJob, TypeInv, TypeOK
  <2>3. Belongs(Entry[op], op)
    BY DEF Entry, Belongs, Ops, CreateLabels, WakeLabels, SuspendLabels, DeleteLabels, ModelLabels
  <2> QED
    BY <2>1, <2>2, <2>3 DEF RequestInv, Belongs
<1>4. CASE Environment
  <2>1. ASSUME NEW v \in Workers PROVE \/ pc'[v] = "idle"
                                      \/ /\ pc'[v] = pc[v] /\ job'[v].op = job[v].op
                                         /\ job'[v].res = job[v].res
    <3>1. ASSUME NEW w \in Workers, Disconnect(w)
          PROVE  pc'[v] = pc[v] /\ job'[v].op = job[v].op /\ job'[v].res = job[v].res
      BY <3>1 DEF Disconnect, SetJob, TypeInv, TypeOK, Job
    <3>2. ASSUME NEW r \in Replicas, Crash(r)
          PROVE  \/ pc'[v] = "idle"
                 \/ pc'[v] = pc[v] /\ job'[v] = job[v]
      BY <3>2 DEF Crash
    <3> QED
      BY <1>4, <3>1, <3>2 DEF Environment, ExpireConfig, SandboxDies, RestartGateway
  <2> QED
    BY <2>1, LabelTypes DEF RequestInv, Belongs
<1> QED
  BY <1>1, <1>2, <1>3, <1>4 DEF Next

LEMMA InitRequests == Init => RequestInv
  BY LabelTypes DEF Init, RequestInv

(* Only the last call of Delete says that it is done. *)
LEMMA DeleteAnswers ==
    ASSUME TypeInv, RequestInv, [Next]_vars, NEW w \in Workers,
           pc[w] \in Locked, job[w].op = "delete", job'[w].res = "ok"
    PROVE  \E f \in WriteOutcomes(w) :
              /\ pc[w] = "d_store" /\ f = "ok" /\ DeleteInstance(job[w].user)
              /\ UNCHANGED <<route, sandbox, owner, model, sbxs, cache>>
<1>1. job[w].res = "none" /\ pc[w] \in DeleteLabels
  BY DEF RequestInv, Belongs
<1>2. pc'[w] \notin Locked
  <2>1. ~UNCHANGED vars
    BY <1>1 DEF vars
  <2> QED
    BY <1>1, <2>1, RequestInvStep DEF RequestInv
<1>3. Serve(w)
  <2>1. job'[w] # job[w]
    BY <1>1
  <2>2. ASSUME NEW v \in Workers, Serve(v), v # w PROVE FALSE
    BY <2>1, <2>2, ServeMoves DEF Moves
  <2>3. ASSUME NEW v \in Workers, NEW op \in Ops, NEW u \in Users, Begin(v, op, u) PROVE FALSE
    <3>1. v # w
      BY <2>3, LabelTypes DEF Begin
    <3> QED
      BY <2>1, <2>3, <3>1 DEF Begin, SetJob, TypeInv, TypeOK
  <2>4. CASE Environment
    <3>1. ASSUME NEW v \in Workers, Disconnect(v) PROVE FALSE
      BY <1>1, <3>1 DEF Disconnect, SetJob, TypeInv, TypeOK, Job
    <3>2. ASSUME NEW r \in Replicas, Crash(r) PROVE FALSE
      BY <1>1, <3>2 DEF Crash, NoJob
    <3> QED
      BY <2>1, <2>4, <3>1, <3>2 DEF Environment, ExpireConfig, SandboxDies, RestartGateway
  <2> QED
    BY <2>1, <2>2, <2>3, <2>4 DEF Next, vars
<1>4. pc[w] \in {"d_backend", "d_unregister", "d_uncache", "d_store"}
  BY <1>1 DEF DeleteLabels
<1>5. DeleteSandbox(w) \/ DeleteRoute(w) \/ DropConfig(w) \/ DeleteRecord(w)
  BY <1>3, <1>4 DEF Serve, CreateStep, CreateRead, CleanUp, CreateSandbox, CreateInsert,
     ResumeStep, RegisterGateway, InjectConfig, FailStep, FailRead, FailUpdate, FailInsert,
     WakeStep, WakeRead, WakeStart, WakeSave, SuspendStep, SuspendRead, SuspendStop, SuspendSave,
     DeleteStep, ModelStep, ModelRead, ModelInject, ModelCache, Reply
<1>6. CASE DeleteSandbox(w) \/ DeleteRoute(w) \/ DropConfig(w)
  <2>1. \/ Return(w, "faulted")
        \/ \E l \in {"d_unregister", "d_uncache", "s_update", "d_store"} : Continue(w, l)
    BY <1>6 DEF DeleteSandbox, DeleteRoute, DropConfig
  <2>2. Return(w, "faulted") => job'[w].res = "faulted"
    BY ReturnFields
  <2>3. \A l : Continue(w, l) => pc'[w] = l
    BY ContinueFields
  <2> QED
    BY <1>2, <2>1, <2>2, <2>3, LabelTypes
<1>7. CASE DeleteRecord(w)
  <2>1. PICK f \in WriteOutcomes(w) :
           /\ \/ WriteTakes(f) /\ DeleteInstance(job[w].user)
              \/ ~WriteTakes(f) /\ UNCHANGED record
           /\ Return(w, IF f = "ok" THEN "ok" ELSE "faulted")
    BY <1>7 DEF DeleteRecord
  <2>2. f = "ok"
    <3>1. Return(w, "faulted") => job'[w].res = "faulted"
      BY ReturnFields
    <3> QED
      BY <2>1, <3>1
  <2> QED
    BY <1>7, <2>1, <2>2 DEF DeleteRecord, WriteTakes
<1> QED
  BY <1>5, <1>6, <1>7

(* When Delete answers that it is done, nothing of the user is left alive: *)
(* his sandbox was the one the process remembered, and his route, if the   *)
(* gateway could not be told, leads to no living agent.                    *)
THEOREM DeleteIsComplete ==
    ASSUME OneReplica, Calm
    PROVE  Spec => DeleteLeavesNothing
<1>1. Init => SandboxInv /\ RequestInv
  BY InitSandboxes, InitRequests
<1>2. SandboxInv /\ RequestInv /\ [Next]_vars => SandboxInv' /\ RequestInv'
  BY SandboxInvStep, RequestInvStep DEF SandboxInv, CacheInv
<1> DEFINE Complete ==
      \A w \in Workers :
         pc[w] \in Locked /\ job[w].op = "delete" /\ job'[w].res = "ok" =>
             LET u == job[w].user
             IN /\ \A s \in Sandboxes : owner'[s] # u
                /\ record'[u].status = "none"
                /\ \A r \in Replicas : u \notin cache'[r]
                /\ route'[u] \notin {s \in Sandboxes : sandbox'[s] # "absent"}
<1>3. ASSUME SandboxInv, RequestInv, [Next]_vars PROVE Complete
  <2> SUFFICES ASSUME NEW w \in Workers,
                      pc[w] \in Locked, job[w].op = "delete", job'[w].res = "ok",
                      NEW u, u = job[w].user, NEW r, r = Host[w]
               PROVE  /\ \A s \in Sandboxes : owner'[s] # u
                      /\ record'[u].status = "none"
                      /\ \A q \in Replicas : u \notin cache'[q]
                      /\ route'[u] \notin {s \in Sandboxes : sandbox'[s] # "absent"}
    OBVIOUS
  <2>1. TypeInv
    BY <1>3 DEF SandboxInv, CacheInv
  <2>2. /\ pc[w] = "d_store" /\ DeleteInstance(u)
        /\ UNCHANGED <<route, sandbox, owner, model, sbxs, cache>>
    BY <1>3, <2>1, DeleteAnswers
  <2>3. /\ Owned /\ RouteOwned /\ u \in Users /\ r \in Replicas /\ ~Known(r, u)
        /\ \A q \in Replicas : q = r /\ u \notin cache[q]
    BY <1>3, <2>2, Inside DEF KnownAt, Forgotten
  <2>4. \A s \in Sandboxes : owner[s] # u
    <3> SUFFICES ASSUME NEW s \in Sandboxes, owner[s] = u PROVE FALSE
      OBVIOUS
    <3>1. Live(s)
      BY <2>3, ConstantsAssumption DEF Owned
    <3>2. sbxs[r][u] = s
      BY <2>3, <3>1 DEF Owned
    <3> QED
      BY <2>3, <3>1, <3>2, ConstantsAssumption DEF Known
  <2>5. record'[u].status = "none"
    BY <2>1, <2>2, <2>3 DEF DeleteInstance, NoInstance, TypeInv, TypeOK
  <2>6. ~Live(route[u])
    BY <2>3, <2>4 DEF RouteOwned, Live
  <2> QED
    BY <2>2, <2>3, <2>4, <2>5, <2>6 DEF Live
<1>4. SandboxInv /\ RequestInv /\ [Next]_vars => [Complete]_vars
  BY <1>3
<1> QED
  BY <1>1, <1>2, <1>4, PTL DEF Spec, DeleteLeavesNothing

-------------------------------------------------------------------------------
(* Over db.Memory the process remembers a sandbox for every row that is    *)
(* running or suspended, whatever the faults: a crash loses both at once,  *)
(* and Delete, which forgets the sandbox first, always removes the row.    *)

Remembered(u) ==
    record[u].status \in {"running", "suspended"} => \A r \in Replicas : Known(r, u)

(* What a goroutine at the label l knows of its user u, with the row i in  *)
(* its hands.                                                              *)
RemembersAt(l, u, i) ==
    /\ l # "c_undo"
    /\ l \notin Forgotten => Remembered(u)
    /\ l \in Creating => record[u].status \in {"none", "failed"}
    /\ l \in Waking => record[u].status \in {"suspended", "failed"}
    /\ l \in {"s_stop", "s_uncache", "s_update"} => record[u].status = "running"
    /\ l \in Resuming => \A r \in Replicas : Known(r, u)
    /\ l \in {"f_update", "f_insert"} => i.status = "failed"

RememberInv ==
    /\ CacheInv
    /\ \A u \in Users : Quiet(u) => Remembered(u)
    /\ \A w \in Workers : pc[w] \in Locked => RemembersAt(pc[w], job[w].user, job[w].inst)

LEMMA MemoryIsOneProcess ==
    ASSUME StoreKind = "memory"
    PROVE  OneReplica /\ ReadsAnswer
  BY ConstantsAssumption DEF OneReplica, ReadsAnswer

(* Over db.Memory every call of the store answers. *)
LEMMA MemoryAnswers ==
    ASSUME StoreKind = "memory", NEW w \in Workers
    PROVE  /\ ReadOutcomes(w) = {"ok"} /\ WriteOutcomes(w) = {"ok"} /\ WriteTakes("ok")
           /\ \A u : ~InsertRefused(u)
  BY ConstantsAssumption DEF ReadOutcomes, WriteOutcomes, WriteTakes, InsertRefused

LEMMA InsideRemembers ==
    ASSUME StoreKind = "memory", RememberInv, NEW w \in Workers, pc[w] \in Locked,
           NEW u, u = job[w].user
    PROVE  /\ TypeInv /\ (\A v \in Workers : HoldsLock(v))
           /\ u \in Users /\ Host[w] \in Replicas /\ \A q \in Replicas : q = Host[w]
           /\ job[w].inst \in Instance /\ record[u] \in Instance
           /\ RemembersAt(pc[w], u, job[w].inst)
<1>1. TypeInv /\ (\A v \in Workers : HoldsLock(v)) /\ RemembersAt(pc[w], u, job[w].inst)
  BY DEF RememberInv, CacheInv, Knows, HoldsLock
<1>2. u \in Users /\ Host[w] \in Replicas /\ job[w].inst \in Instance
  BY <1>1, WorkerTypes, LabelTypes
<1>3. record[u] \in Instance
  BY <1>1, <1>2 DEF TypeInv, TypeOK
<1> QED
  BY <1>1, <1>2, <1>3, MemoryIsOneProcess DEF OneReplica

(* A step under m.mu only has to show what it does to its own user. *)
LEMMA RememberStep ==
    ASSUME StoreKind = "memory", RememberInv, CacheInv', NEW w \in Workers, Serve(w),
           pc[w] \in Locked, NEW u, u = job[w].user, NEW l, pc'[w] = l, NEW i,
           l \in Locked => job'[w].inst = i /\ RemembersAt(l, u, i)',
           l \notin Locked => Remembered(u)'
    PROVE  RememberInv'
<1>1. TypeInv /\ (\A v \in Workers : HoldsLock(v)) /\ OneReplica
  BY InsideRemembers, MemoryIsOneProcess
<1>2. Moves(w)
  BY <1>1, ServeMoves
<1>3. \A v \in Workers \ {w} : pc'[v] \notin Locked /\ pc[v] \notin Locked
  BY <1>1, <1>2, NobodyElse DEF Moves
<1>4. l \in Locked => job'[w].user = u
  BY <1>1, ServeJob, LabelTypes
<1>5. ASSUME NEW x \in Users, Quiet(x)' PROVE Remembered(x)'
  <2>1. CASE x = u
    BY <1>4, <1>5, <2>1 DEF Quiet
  <2>2. CASE x # u
    <3>1. Remembered(x)
      BY <1>3, <2>2 DEF Quiet, RememberInv
    <3>2. record'[x] = record[x] /\ \A r \in Replicas : sbxs'[r][x] = sbxs[r][x]
      BY <1>1, <2>2, ServeFrame
    <3> QED
      BY <3>1, <3>2 DEF Remembered, Known
  <2> QED
    BY <2>1, <2>2
<1>6. ASSUME NEW v \in Workers, pc'[v] \in Locked
      PROVE  RemembersAt(pc[v], job[v].user, job[v].inst)'
  <2>1. v = w
    BY <1>3, <1>6
  <2> QED
    BY <1>4, <1>6, <2>1 DEF RemembersAt, Remembered, Known
<1> QED
  BY <1>5, <1>6 DEF RememberInv

(* A step that leaves the rows and the process's map alone. *)
LEMMA RememberKept ==
    ASSUME StoreKind = "memory", RememberInv, CacheInv', NEW w \in Workers, Serve(w),
           pc[w] \in Locked, UNCHANGED <<record, sbxs>>, NEW u, u = job[w].user,
           NEW l, pc'[w] = l, NEW i, i = job'[w].inst,
           l \in Locked => RemembersAt(l, u, i), l \notin Locked => Remembered(u)
    PROVE  RememberInv'
<1>1. Remembered(u) => Remembered(u)'
  BY DEF Remembered, Known
<1>2. RemembersAt(l, u, i) => RemembersAt(l, u, i)'
  BY DEF RemembersAt, Remembered, Known
<1> QED
  BY <1>1, <1>2, RememberStep

(* An answer, with the rows and the map as they were. *)
LEMMA RememberReturn ==
    ASSUME StoreKind = "memory", RememberInv, CacheInv', NEW w \in Workers, Serve(w),
           pc[w] \in Locked \ Forgotten, UNCHANGED <<record, sbxs>>, NEW res, Return(w, res)
    PROVE  RememberInv'
<1>1. TypeInv /\ Remembered(job[w].user)
  BY InsideRemembers DEF RemembersAt
<1>2. pc'[w] = "reply"
  BY <1>1, ReturnFields
<1> QED
  BY <1>1, <1>2, LabelTypes, RememberKept

LEMMA ReadsRemember ==
    ASSUME StoreKind = "memory", RememberInv, CacheInv', NEW w \in Workers,
           CreateRead(w) \/ WakeRead(w) \/ SuspendRead(w) \/ ModelRead(w) \/ FailRead(w)
    PROVE  RememberInv'
<1>0. PICK u : u = job[w].user
  OBVIOUS
<1>1. pc[w] \in Locked \ Forgotten /\ Serve(w) /\ UNCHANGED <<record, sbxs>>
  BY LabelTypes DEF Serve, CreateStep, WakeStep, SuspendStep, ModelStep, FailStep,
     CreateRead, WakeRead, SuspendRead, ModelRead, FailRead, Forgotten
<1>2. TypeInv /\ Remembered(u)
  BY <1>0, <1>1, InsideRemembers DEF RemembersAt
<1>3. ASSUME NEW res, Return(w, res) PROVE RememberInv'
  BY <1>0, <1>1, <1>3, RememberReturn
<1>4. ASSUME NEW l \in Locked, pc'[w] = l, RemembersAt(l, u, job'[w].inst) PROVE RememberInv'
  <2> QED
    BY <1>0, <1>1, <1>4, RememberKept
<1>5. ASSUME NEW l \in {"s_stop", "m_inject", "w_start"}, Load(w, l),
             l = "s_stop" => record[u].status = "running",
             l = "w_start" => record[u].status \in {"suspended", "failed"}
      PROVE  RememberInv'
  <2>1. pc'[w] = l /\ l \in Locked
    BY <1>2, <1>5, LoadFields, LabelTypes
  <2>2. RemembersAt(l, u, job'[w].inst)
    BY <1>2, <1>5 DEF RemembersAt, Creating, Waking, Resuming, Registering, Resumed, Forgotten
  <2> QED
    BY <1>4, <2>1, <2>2
<1>6. ASSUME NEW l \in {"c_clean", "c_new"}, Goto(w, l), record[u].status \in {"none", "failed"}
      PROVE  RememberInv'
  <2>1. pc'[w] = l /\ l \in Locked
    BY <1>2, <1>6, GotoFields, LabelTypes
  <2>2. RemembersAt(l, u, job'[w].inst)
    BY <1>2, <1>6 DEF RemembersAt, Creating, Waking, Resuming, Registering, Resumed, Forgotten
  <2> QED
    BY <1>4, <2>1, <2>2
<1>7. CASE CreateRead(w)
  <2>1. \/ Return(w, "ok")
        \/ record[u].status = "suspended" /\ Load(w, "w_start")
        \/ record[u].status = "failed" /\ Goto(w, "c_clean")
        \/ record[u].status = "none" /\ Goto(w, "c_new")
    BY <1>0, <1>7, MemoryAnswers DEF CreateRead
  <2> QED
    BY <1>3, <1>5, <1>6, <2>1
<1>8. CASE WakeRead(w) \/ SuspendRead(w) \/ ModelRead(w)
  <2>1. \/ \E res : Return(w, res)
        \/ record[u].status \in {"suspended", "failed"} /\ Load(w, "w_start")
        \/ record[u].status = "running" /\ Load(w, "s_stop")
        \/ record[u].status = "running" /\ Load(w, "m_inject")
    BY <1>0, <1>8 DEF WakeRead, SuspendRead, ModelRead
  <2> QED
    BY <1>3, <1>5, <2>1
<1>9. CASE FailRead(w)
  <2>1. PICK l \in {"f_update", "f_insert"} : Goto(w, l)
    BY <1>9 DEF FailRead
  <2>2. pc'[w] = l /\ job'[w].inst.status = "failed" /\ l \in Locked
    BY <1>2, <1>9, <2>1, FailedFields, LabelTypes DEF FailRead
  <2>3. RemembersAt(l, u, job'[w].inst)
    BY <1>2, <2>2 DEF RemembersAt, Creating, Waking, Resuming, Registering, Resumed, Forgotten
  <2> QED
    BY <1>4, <2>2, <2>3
<1> QED
  BY <1>7, <1>8, <1>9

(* Create: until its last call there is no row to remember a sandbox for. *)
LEMMA CreateRemembers ==
    ASSUME StoreKind = "memory", RememberInv, CacheInv', NEW w \in Workers,
           CleanUp(w) \/ CreateSandbox(w) \/ CreateInsert(w)
    PROVE  RememberInv'
<1>0. PICK u : u = job[w].user
  OBVIOUS
<1>1. pc[w] \in Locked /\ Serve(w)
  BY LabelTypes DEF Serve, CreateStep, CleanUp, CreateSandbox, CreateInsert
<1>2. /\ TypeInv /\ u \in Users /\ Host[w] \in Replicas /\ \A q \in Replicas : q = Host[w]
      /\ RemembersAt(pc[w], u, job[w].inst)
  BY <1>0, <1>1, InsideRemembers
<1>3. pc[w] \in Creating
  BY <1>2 DEF CleanUp, CreateSandbox, CreateInsert, Creating, RemembersAt
<1>4. record[u].status \in {"none", "failed"}
  BY <1>2, <1>3 DEF RemembersAt
<1>5. ASSUME UNCHANGED record, NEW l, pc'[w] = l,
             l \in {"c_new", "f_read", "c_register"},
             l = "c_register" => \A q \in Replicas : Known(q, u)'
      PROVE  RememberInv'
  <2>1. PICK i : i = job'[w].inst
    OBVIOUS
  <2>2. RemembersAt(l, u, i)'
    <3>1. record'[u].status \in {"none", "failed"}
      BY <1>4, <1>5
    <3> QED
      BY <1>5, <3>1 DEF RemembersAt, Remembered, Creating, Waking, Resuming, Registering, Resumed,
         Forgotten
  <2>3. l \in Locked
    BY <1>5, LabelTypes
  <2> QED
    BY <1>0, <1>1, <1>5, <2>1, <2>2, <2>3, RememberStep
<1>6. CASE CleanUp(w)
  <2>1. Continue(w, "c_new") /\ UNCHANGED record
    BY <1>3, <1>6 DEF CleanUp, Creating
  <2>2. pc'[w] = "c_new"
    BY <1>2, <2>1, ContinueFields
  <2> QED
    BY <1>5, <2>1, <2>2
<1>7. CASE CreateSandbox(w)
  <2>1. CASE \E f : ContinueWithError(w, "f_read", f)
    <3>1. pc'[w] = "f_read"
      BY <1>2, <2>1, ErrorFields
    <3> QED
      BY <1>5, <1>7, <3>1 DEF CreateSandbox
  <2>2. CASE Goto(w, "c_register") /\ \E s \in Sandboxes : ProviderCreate(Host[w], u, s, "ok")
    <3>1. PICK s \in Sandboxes : Remember(Host[w], u, s)
      BY <2>2 DEF ProviderCreate
    <3>2. sbxs \in [Replicas -> [Users -> SandboxOrNone]]
      BY <1>2 DEF TypeInv, TypeOK
    <3>3. \A q \in Replicas : sbxs'[q][u] = s
      <4> QED BY <1>2, <3>1, <3>2, MapEntry DEF Remember
    <3>4. \A q \in Replicas : Known(q, u)'
      BY <3>3, ConstantsAssumption DEF Known
    <3>5. pc'[w] = "c_register"
      BY <1>2, <2>2, GotoFields
    <3> QED
      BY <1>5, <1>7, <3>4, <3>5 DEF CreateSandbox
  <2> QED
    BY <1>0, <1>7, <2>1, <2>2 DEF CreateSandbox
<1>8. CASE CreateInsert(w)
  <2>1. Return(w, "ok") /\ UNCHANGED sbxs /\ \A q \in Replicas : Known(q, u)
    BY <1>2, <1>8, MemoryAnswers DEF CreateInsert, RemembersAt, Resuming, Resumed
  <2>2. pc'[w] = "reply"
    BY <1>2, <2>1, ReturnFields
  <2>3. Remembered(u)'
    BY <2>1 DEF Remembered, Known
  <2> QED
    BY <1>0, <1>1, <2>2, <2>3, LabelTypes, RememberStep
<1> QED
  BY <1>6, <1>7, <1>8

(* Wake and the calls Create shares with it. *)
LEMMA ResumeRemembers ==
    ASSUME StoreKind = "memory", RememberInv, CacheInv', NEW w \in Workers,
           ResumeStep(w) \/ WakeStart(w) \/ WakeSave(w)
    PROVE  RememberInv'
<1>0. PICK u : u = job[w].user
  OBVIOUS
<1>1. pc[w] \in Locked \ Forgotten /\ Serve(w)
  BY LabelTypes DEF Serve, WakeStep, ResumeStep, RegisterGateway, InjectConfig, WakeStart, WakeSave,
     Forgotten
<1>2. /\ TypeInv /\ u \in Users /\ Host[w] \in Replicas /\ \A q \in Replicas : q = Host[w]
      /\ RemembersAt(pc[w], u, job[w].inst)
  BY <1>0, <1>1, InsideRemembers
<1>3. ASSUME NEW l \in Locked, pc'[w] = l, RemembersAt(l, u, job'[w].inst), UNCHANGED <<record, sbxs>>
      PROVE  RememberInv'
  <2> QED
    BY <1>0, <1>1, <1>3, RememberKept
<1>4. CASE ResumeStep(w)
  <2>1. /\ UNCHANGED <<record, sbxs>>
        /\ \/ pc[w] = "c_register" /\ Continue(w, "c_inject")
           \/ pc[w] = "w_register" /\ Continue(w, "w_inject")
           \/ pc[w] = "c_inject" /\ Continue(w, "c_insert")
           \/ pc[w] = "w_inject" /\ Continue(w, "w_update")
    BY <1>4 DEF ResumeStep, RegisterGateway, InjectConfig
  <2>2. PICK l \in {"c_inject", "w_inject", "c_insert", "w_update"} :
           pc'[w] = l /\ RemembersAt(l, u, job'[w].inst)
    <3>1. \A l : Continue(w, l) => pc'[w] = l
      BY <1>2, ContinueFields
    <3> QED
      BY <1>2, <2>1, <3>1 DEF RemembersAt, Creating, Waking, Resuming, Registering, Resumed, Forgotten
  <2> QED
    BY <1>3, <2>1, <2>2, LabelTypes
<1>5. CASE WakeStart(w)
  <2>1. /\ UNCHANGED <<record, sbxs>> /\ pc[w] = "w_start"
        /\ \/ Goto(w, "w_register") /\ Known(Host[w], u)
           \/ \E f : ContinueWithError(w, "f_read", f)
    BY <1>0, <1>5 DEF WakeStart, ProviderStart, CanStart, providerVars
  <2>2. PICK l \in {"w_register", "f_read"} : pc'[w] = l /\ (l = "w_register" => Known(Host[w], u))
    <3>1. \A l, f : ContinueWithError(w, l, f) => pc'[w] = l
      BY <1>2, ErrorFields
    <3> QED
      BY <1>2, <2>1, <3>1, GotoFields
  <2>3. RemembersAt(l, u, job'[w].inst)
    BY <1>2, <2>1, <2>2 DEF RemembersAt, Creating, Waking, Resuming, Registering, Resumed, Forgotten
  <2> QED
    BY <1>3, <2>1, <2>2, <2>3, LabelTypes
<1>6. CASE WakeSave(w)
  <2>1. /\ \A q \in Replicas : Known(q, u)
        /\ UNCHANGED sbxs /\ \E res : Return(w, res)
    BY <1>2, <1>6 DEF WakeSave, Save, RemembersAt, Resuming, Resumed
  <2>2. pc'[w] = "reply" /\ Remembered(u)'
    BY <1>2, <2>1, ReturnFields DEF Remembered, Known
  <2> QED
    BY <1>0, <1>1, <2>2, LabelTypes, RememberStep
<1> QED
  BY <1>4, <1>5, <1>6

(* failInstance writes a failed row. *)
LEMMA FailRemembers ==
    ASSUME StoreKind = "memory", RememberInv, CacheInv', NEW w \in Workers,
           FailUpdate(w) \/ FailInsert(w)
    PROVE  RememberInv'
<1>0. PICK u : u = job[w].user
  OBVIOUS
<1>1. pc[w] \in {"f_update", "f_insert"} /\ pc[w] \in Locked \ Forgotten /\ Serve(w)
  BY LabelTypes DEF Serve, FailStep, FailUpdate, FailInsert, Forgotten
<1>2. TypeInv /\ u \in Users /\ Remembered(u) /\ job[w].inst.status = "failed"
  BY <1>0, <1>1, InsideRemembers DEF RemembersAt
<1>3. /\ UNCHANGED sbxs /\ \E res : Return(w, res)
      /\ UNCHANGED record \/ record' = [record EXCEPT ![u] = job[w].inst]
  BY <1>0 DEF FailUpdate, FailInsert, UpdateInstance, CreateInstance
<1>4. Remembered(u)'
  BY <1>2, <1>3 DEF Remembered, Known, TypeInv, TypeOK
<1>5. pc'[w] = "reply"
  BY <1>2, <1>3, ReturnFields
<1> QED
  BY <1>0, <1>1, <1>4, <1>5, LabelTypes, RememberStep

(* Suspend keeps the entry, SetModelConfig touches neither. *)
LEMMA SuspendRemembers ==
    ASSUME StoreKind = "memory", RememberInv, CacheInv', NEW w \in Workers,
           SuspendStop(w) \/ DropConfig(w) \/ SuspendSave(w) \/ ModelInject(w) \/ ModelCache(w)
    PROVE  RememberInv'
<1>0. PICK u : u = job[w].user
  OBVIOUS
<1>1. pc[w] \in Locked /\ Serve(w)
  BY LabelTypes DEF Serve, SuspendStep, ModelStep, SuspendStop, DropConfig, SuspendSave, ModelInject,
     ModelCache
<1>2. TypeInv /\ u \in Users /\ RemembersAt(pc[w], u, job[w].inst)
  BY <1>0, <1>1, InsideRemembers
<1>3. ASSUME pc[w] \notin Forgotten, UNCHANGED <<record, sbxs>>, NEW res, Return(w, res)
      PROVE  RememberInv'
  BY <1>0, <1>1, <1>3, RememberReturn
<1>4. ASSUME NEW l \in {"s_uncache", "s_update", "m_cache", "d_store"}, Continue(w, l),
             UNCHANGED <<record, sbxs>>, l = "d_store" \/ Remembered(u),
             l \in {"s_uncache", "s_update"} => record[u].status = "running"
      PROVE  RememberInv'
  <2>1. pc'[w] = l /\ l \in Locked
    BY <1>2, <1>4, ContinueFields, LabelTypes
  <2>2. RemembersAt(l, u, job'[w].inst)
    BY <1>4 DEF RemembersAt, Creating, Waking, Resuming, Registering, Resumed, Forgotten
  <2> QED
    BY <1>0, <1>1, <1>4, <2>1, <2>2, RememberKept
<1>5. CASE SuspendStop(w)
  <2>1. /\ pc[w] = "s_stop" /\ UNCHANGED <<record, sbxs>>
        /\ Continue(w, "s_uncache") \/ Return(w, "faulted")
    BY <1>5 DEF SuspendStop, ProviderStop, providerVars
  <2>2. Remembered(u) /\ record[u].status = "running"
    BY <1>2, <2>1 DEF RemembersAt, Forgotten
  <2> QED
    BY <1>3, <1>4, <2>1, <2>2 DEF Forgotten
<1>6. CASE DropConfig(w)
  <2>1. /\ UNCHANGED <<record, sbxs>>
        /\ \/ pc[w] = "s_uncache" /\ Continue(w, "s_update")
           \/ pc[w] = "d_uncache" /\ Continue(w, "d_store")
    BY <1>6 DEF DropConfig
  <2>2. pc[w] = "s_uncache" => Remembered(u) /\ record[u].status = "running"
    BY <1>2 DEF RemembersAt, Forgotten
  <2> QED
    BY <1>4, <2>1, <2>2
<1>7. CASE SuspendSave(w)
  <2>1. /\ pc[w] = "s_update" /\ UNCHANGED sbxs /\ \E res : Return(w, res)
    BY <1>7 DEF SuspendSave, Save
  <2>2. pc'[w] = "reply" /\ \A q \in Replicas : Known(q, u)
    BY <1>2, <2>1, ReturnFields DEF RemembersAt, Forgotten, Remembered
  <2>3. Remembered(u)'
    BY <2>1, <2>2 DEF Remembered, Known
  <2> QED
    BY <1>0, <1>1, <2>2, <2>3, LabelTypes, RememberStep
<1>8. CASE ModelInject(w) \/ ModelCache(w)
  <2>1. /\ pc[w] \in {"m_inject", "m_cache"} /\ UNCHANGED <<record, sbxs>>
        /\ Continue(w, "m_cache") \/ \E res : Return(w, res)
    BY <1>8 DEF ModelInject, ModelCache
  <2>2. Remembered(u)
    BY <1>2, <2>1 DEF RemembersAt, Forgotten
  <2> QED
    BY <1>3, <1>4, <2>1, <2>2 DEF Forgotten
<1> QED
  BY <1>5, <1>6, <1>7, <1>8

(* Delete forgets the sandbox first and goes on to the row, always. *)
LEMMA DeleteRemembers ==
    ASSUME StoreKind = "memory", RememberInv, CacheInv', NEW w \in Workers,
           DeleteSandbox(w) \/ DeleteRoute(w) \/ DeleteRecord(w)
    PROVE  RememberInv'
<1>0. PICK u : u = job[w].user
  OBVIOUS
<1>1. pc[w] \in Locked /\ Serve(w)
  BY LabelTypes DEF Serve, DeleteStep, DeleteSandbox, DeleteRoute, DeleteRecord
<1>2. TypeInv /\ u \in Users
  BY <1>0, <1>1, InsideRemembers
<1>3. ASSUME NEW l \in {"d_unregister", "d_uncache"}, Continue(w, l)
      PROVE  RememberInv'
  <2>1. pc'[w] = l /\ l \in Locked
    BY <1>2, <1>3, ContinueFields, LabelTypes
  <2>2. PICK i : i = job'[w].inst
    OBVIOUS
  <2>3. RemembersAt(l, u, i)'
    BY <1>3 DEF RemembersAt, Creating, Waking, Resuming, Registering, Resumed, Forgotten
  <2> QED
    BY <1>0, <1>1, <2>1, <2>2, <2>3, RememberStep
<1>4. CASE DeleteSandbox(w)
  <2>1. \/ Continue(w, "d_unregister")
        \/ Return(w, "faulted") /\ UNCHANGED <<record, sbxs>> /\ pc[w] = "d_backend"
    BY <1>4 DEF DeleteSandbox, ProviderDelete, CanDelete, providerVars
  <2> QED
    BY <1>0, <1>1, <1>3, <2>1, RememberReturn DEF Forgotten
<1>5. CASE DeleteRoute(w)
  BY <1>3, <1>5 DEF DeleteRoute
<1>6. CASE DeleteRecord(w)
  <2>1. DeleteInstance(u) /\ \E res : Return(w, res)
    BY <1>0, <1>6, MemoryAnswers DEF DeleteRecord
  <2>2. pc'[w] = "reply"
    BY <1>2, <2>1, ReturnFields
  <2>3. Remembered(u)'
    BY <1>2, <2>1 DEF DeleteInstance, NoInstance, Remembered, TypeInv, TypeOK
  <2> QED
    BY <1>0, <1>1, <2>2, <2>3, LabelTypes, RememberStep
<1> QED
  BY <1>4, <1>5, <1>6

LEMMA InitRemembers == Init => RememberInv
<1> SUFFICES ASSUME Init PROVE RememberInv
  OBVIOUS
<1>1. CacheInv /\ \A u \in Users : Remembered(u)
  BY InitCached DEF Init, StoreInit, NoInstance, Remembered
<1>2. \A w \in Workers : pc[w] \notin Locked
  BY LabelTypes DEF Init
<1> QED
  BY <1>1, <1>2 DEF RememberInv

LEMMA RememberInvStep ==
    ASSUME StoreKind = "memory", RememberInv, [Next]_vars
    PROVE  RememberInv'
<1>0. CacheInv' /\ TypeInv /\ OneReplica /\ \A v \in Workers : HoldsLock(v)
  BY CacheInvStep, MemoryIsOneProcess DEF RememberInv, CacheInv, Knows, HoldsLock
<1>1. ASSUME UNCHANGED <<record, sbxs>>,
             \A v \in Workers : pc'[v] \in Locked =>
                /\ pc[v] = pc'[v] /\ job'[v].user = job[v].user /\ job'[v].inst = job[v].inst,
             \A v \in Workers : pc[v] \in Locked => pc'[v] \in Locked
      PROVE  RememberInv'
  <2>1. \A u \in Users : Quiet(u)' => Remembered(u)'
    BY <1>1 DEF RememberInv, Quiet, Remembered, Known
  <2>2. \A v \in Workers : pc'[v] \in Locked => RemembersAt(pc[v], job[v].user, job[v].inst)'
    BY <1>1 DEF RememberInv, RemembersAt, Remembered, Known
  <2> QED
    BY <1>0, <2>1, <2>2 DEF RememberInv
<1>2. CASE UNCHANGED vars
  BY <1>1, <1>2 DEF vars
<1>3. ASSUME NEW w \in Workers, Serve(w) PROVE RememberInv'
  <2>1. CASE Reply(w)
    <3>1. \A v \in Workers : \/ pc'[v] = pc[v] /\ job'[v] = job[v]
                             \/ pc[v] = "reply" /\ pc'[v] = "idle"
      BY <1>0, <2>1 DEF Reply, Goto, SetJob, TypeInv, TypeOK
    <3>2. UNCHANGED <<record, sbxs>>
      BY <2>1 DEF Reply
    <3> QED
      BY <1>1, <3>1, <3>2, LabelTypes
  <2> QED
    BY <1>0, <1>3, <2>1, ReadsRemember, CreateRemembers, ResumeRemembers, FailRemembers,
       SuspendRemembers, DeleteRemembers
    DEF Serve, CreateStep, FailStep, WakeStep, SuspendStep, DeleteStep, ModelStep
<1>4. ASSUME NEW w \in Workers, NEW op \in Ops, NEW u \in Users, Begin(w, op, u) PROVE RememberInv'
  <2>1. \A v \in Workers : pc[v] \notin Locked
    BY <1>0, <1>4, FreeLock DEF Begin
  <2>2. /\ pc'[w] = Entry[op] /\ job'[w].user = u /\ UNCHANGED <<record, sbxs>>
        /\ \A v \in Workers \ {w} : pc'[v] = pc[v]
    BY <1>0, <1>4 DEF Begin, Goto, SetJob, NoJob, TypeInv, TypeOK
  <2>3. \A x \in Users : Remembered(x) /\ Remembered(x)'
    BY <2>1, <2>2 DEF RememberInv, Quiet, Remembered, Known
  <2>4. RemembersAt(pc[w], job[w].user, job[w].inst)'
    BY <2>2, <2>3 DEF Entry, Ops, RemembersAt, Creating, Waking, Resuming, Registering, Resumed,
       Forgotten
  <2> QED
    BY <1>0, <2>1, <2>2, <2>3, <2>4 DEF RememberInv
<1>5. ASSUME NEW r \in Replicas, Crash(r) PROVE RememberInv'
  <2>1. /\ \A u \in Users : record'[u].status = "none"
        /\ \A v \in Workers : pc'[v] = "idle"
    BY <1>5, ConstantsAssumption DEF Crash, StoreAfterRestart, NoInstance
  <2> QED
    BY <1>0, <2>1, LabelTypes DEF RememberInv, Remembered
<1>6. ASSUME NEW w \in Workers, Disconnect(w) PROVE RememberInv'
  <2>1. \A v \in Workers : job'[v].user = job[v].user /\ job'[v].inst = job[v].inst
    BY <1>0, <1>6 DEF Disconnect, SetJob, TypeInv, TypeOK, Job
  <2> QED
    BY <1>1, <1>6, <2>1 DEF Disconnect
<1>7. CASE Environment
  BY <1>1, <1>5, <1>6, <1>7 DEF Environment, ExpireConfig, SandboxDies, RestartGateway
<1> QED
  BY <1>2, <1>3, <1>4, <1>7 DEF Next

-------------------------------------------------------------------------------
(* Who is to blame when a Create or a Wake fails.  Over db.Memory a row is *)
(* never refused, so failInstance is reached by a call that failed, or by  *)
(* a Wake of a failed instance that has no sandbox.                        *)

Blamed(w) == job[w].hit \/ (job[w].op = "wake" /\ job[w].from = "failed")

Excused(w) ==
    /\ pc[w] # "c_undo"
    /\ pc[w] = "w_start" => /\ job[w].from = record[job[w].user].status
                            /\ job[w].from = "failed" => job[w].op = "wake"
    /\ pc[w] \in FailLabels => Blamed(w)
    /\ pc[w] = "reply" =>
          (job[w].op = "create" \/ (job[w].op = "wake" /\ job[w].from = "suspended")
              => job[w].res # "error")

ExcusedInv == \A w \in Workers : Excused(w)

(* A step that leaves the goroutine at another label, or answers something *)
(* else than "error", has nothing to excuse.                               *)
LEMMA ExcusedElsewhere ==
    ASSUME NEW w \in Workers, pc'[w] \notin {"c_undo", "w_start", "reply"} \cup FailLabels
    PROVE  Excused(w)'
  BY DEF Excused

LEMMA ExcusedAnswer ==
    ASSUME TypeInv, NEW w \in Workers, NEW res, Return(w, res),
           res # "error" \/ job[w].op \notin {"create", "wake"}
    PROVE  Excused(w)'
<1>1. pc'[w] = "reply" /\ job'[w].op = job[w].op /\ job'[w].res = res
  BY ReturnFields
<1> QED
  BY <1>1 DEF Excused, FailLabels

LEMMA ExcusedLoad ==
    ASSUME TypeInv, NEW w \in Workers, pc[w] \in Locked, Load(w, "w_start"), UNCHANGED record,
           record[job[w].user].status = "failed" => job[w].op = "wake"
    PROVE  Excused(w)'
<1>1. /\ pc'[w] = "w_start" /\ job'[w].op = job[w].op /\ job'[w].user = job[w].user
      /\ job'[w].from = record[job[w].user].status
  BY LoadFields DEF SameRequest
<1> QED
  BY <1>1 DEF Excused, FailLabels

LEMMA ExcusedError ==
    ASSUME TypeInv, NEW w \in Workers, NEW f, ContinueWithError(w, "f_read", f),
           f # "ok" \/ Blamed(w)
    PROVE  Excused(w)'
<1>1. /\ pc'[w] = "f_read" /\ job'[w].op = job[w].op /\ job'[w].from = job[w].from
      /\ f # "ok" \/ job[w].hit => job'[w].hit
  BY ErrorFields DEF SameRequest
<1> QED
  BY <1>1 DEF Excused, Blamed

LEMMA ServeExcused ==
    ASSUME StoreKind = "memory", RememberInv, RequestInv, NEW w \in Workers, Excused(w), Serve(w)
    PROVE  Excused(w)'
<1> DEFINE u == job[w].user
<1>0. TypeInv
  BY DEF RememberInv, CacheInv
<1>1. ReadOutcomes(w) = {"ok"} /\ WriteOutcomes(w) = {"ok"}
  BY MemoryAnswers
<1>2. /\ \A l : Continue(w, l) \/ Load(w, l) \/ Goto(w, l) => pc'[w] = l
      /\ pc[w] \in Locked => RemembersAt(pc[w], u, job[w].inst)
  BY <1>0, ContinueFields, LoadFields, GotoFields DEF RememberInv
<1>3. CASE CreateRead(w)
  <2>1. \/ Return(w, "ok")
        \/ record[u].status = "suspended" /\ Load(w, "w_start")
        \/ Goto(w, "c_clean")
        \/ Goto(w, "c_new")
    BY <1>3 DEF CreateRead
  <2>2. pc[w] \in Locked /\ UNCHANGED record
    BY <1>3, LabelTypes DEF CreateRead
  <2>3. CASE record[u].status = "suspended" /\ Load(w, "w_start")
    BY <1>0, <2>2, <2>3, ExcusedLoad
  <2> QED
    BY <1>0, <1>2, <2>1, <2>3, ExcusedAnswer, ExcusedElsewhere DEF FailLabels
<1>4. CASE CleanUp(w)
  <2>1. Continue(w, "c_new")
    BY <1>4 DEF CleanUp, Excused
  <2> QED
    BY <1>2, <2>1, ExcusedElsewhere DEF FailLabels
<1>5. CASE CreateSandbox(w)
  <2>1. \/ Goto(w, "c_register")
        \/ \E f : f # "ok" /\ ContinueWithError(w, "f_read", f)
    BY <1>5 DEF CreateSandbox
  <2> QED
    BY <1>0, <1>2, <2>1, ExcusedElsewhere, ExcusedError DEF FailLabels
<1>6. CASE CreateInsert(w)
  <2>1. Return(w, "ok")
    BY <1>1, <1>6, ConstantsAssumption DEF CreateInsert, InsertRefused
  <2> QED
    BY <1>0, <2>1, ExcusedAnswer
<1>7. CASE ResumeStep(w)
  <2>1. \E l \in {"c_inject", "c_insert", "w_inject", "w_update"} : Continue(w, l)
    BY <1>7 DEF ResumeStep, RegisterGateway, InjectConfig
  <2> QED
    BY <1>2, <2>1, ExcusedElsewhere DEF FailLabels
<1>8. CASE FailRead(w)
  <2>1. Blamed(w)
    BY <1>8 DEF FailRead, Excused, FailLabels
  <2>2. PICK l \in {"f_update", "f_insert"} : Goto(w, l)
    BY <1>8 DEF FailRead
  <2>3. /\ pc'[w] = l /\ job'[w].op = job[w].op /\ job'[w].from = job[w].from
        /\ job'[w].hit = job[w].hit
    BY <1>0, <1>8, <2>2, FailedFields DEF FailRead, SameRequest
  <2> QED
    BY <2>1, <2>3 DEF Excused, Blamed
<1>9. CASE FailUpdate(w) \/ FailInsert(w)
  <2>1. Blamed(w)
    BY <1>9 DEF FailUpdate, FailInsert, Excused, FailLabels
  <2>2. Return(w, ErrorOf(w, "ok"))
    BY <1>9 DEF FailUpdate, FailInsert
  <2>3. CASE job[w].hit
    <3>1. ErrorOf(w, "ok") # "error"
      BY <2>3 DEF ErrorOf
    <3> QED
      BY <1>0, <2>2, <3>1, ExcusedAnswer
  <2>4. CASE job[w].op = "wake" /\ job[w].from = "failed"
    <3>1. pc'[w] = "reply" /\ job'[w].op = "wake" /\ job'[w].from = "failed"
      BY <1>0, <2>2, <2>4, ReturnFields
    <3> QED
      BY <3>1 DEF Excused, FailLabels
  <2> QED
    BY <2>1, <2>3, <2>4 DEF Blamed
<1>10. CASE WakeRead(w)
  <2>1. pc[w] = "k_read" /\ UNCHANGED record
        /\ (Load(w, "w_start") \/ \E res \in {"ok", "refused", "faulted"} : Return(w, res))
    BY <1>10 DEF WakeRead
  <2>2. job[w].op = "wake"
    BY <2>1, LabelTypes DEF RequestInv, Belongs, Ops, WakeLabels, CreateLabels, FailLabels,
       SuspendLabels, DeleteLabels, ModelLabels
  <2> QED
    BY <1>0, <2>1, <2>2, LabelTypes, ExcusedLoad, ExcusedAnswer
<1>11. CASE WakeStart(w)
  <2>1. /\ pc[w] = "w_start" /\ job[w].from = record[u].status
        /\ job[w].from = "failed" => job[w].op = "wake"
    BY <1>11 DEF WakeStart, Excused
  <2>2. Remembered(u) /\ record[u].status \in {"suspended", "failed"}
    BY <1>2, <2>1, LabelTypes DEF RemembersAt, Forgotten, Waking
  <2>3. CASE Goto(w, "w_register")
    BY <1>2, <2>3, ExcusedElsewhere DEF FailLabels
  <2>4. CASE \E f : /\ ~CanStart(Host[w], u, f)
                    /\ ContinueWithError(w, "f_read",
                          IF Known(Host[w], u) /\ ~Live(sbxs[Host[w]][u]) THEN "connect" ELSE f)
    <3>1. PICK f : /\ ~CanStart(Host[w], u, f)
                   /\ ContinueWithError(w, "f_read",
                          IF Known(Host[w], u) /\ ~Live(sbxs[Host[w]][u]) THEN "connect" ELSE f)
      BY <2>4
    <3>2. PICK g : /\ ContinueWithError(w, "f_read", g)
                   /\ g = IF Known(Host[w], u) /\ ~Live(sbxs[Host[w]][u]) THEN "connect" ELSE f
      BY <3>1
    <3>3. g # "ok" \/ ~Known(Host[w], u)
      BY <3>1, <3>2 DEF CanStart
    <3>4. ~Known(Host[w], u) => Blamed(w)
      <4>1. Host[w] \in Replicas
        BY ConstantsAssumption
      <4>2. ~Known(Host[w], u) => record[u].status = "failed"
        BY <2>2, <4>1 DEF Remembered
      <4> QED
        BY <2>1, <4>2 DEF Blamed
    <3> QED
      BY <1>0, <3>2, <3>3, <3>4, ExcusedError
  <2> QED
    BY <1>11, <2>3, <2>4 DEF WakeStart
<1>12. CASE WakeSave(w)
  <2>1. Exists(u)
    BY <1>2, <1>12, LabelTypes DEF WakeSave, RemembersAt, Waking, Exists
  <2>2. Return(w, "ok")
    BY <1>1, <1>12, <2>1 DEF WakeSave, Save
  <2> QED
    BY <1>0, <2>2, ExcusedAnswer
<1>13. CASE SuspendStep(w) \/ DeleteStep(w) \/ ModelStep(w)
  <2>1. pc[w] \in SuspendLabels \cup DeleteLabels \cup ModelLabels
    BY <1>13 DEF SuspendStep, SuspendRead, SuspendStop, DropConfig, SuspendSave, DeleteStep,
       DeleteSandbox, DeleteRoute, DeleteRecord, ModelStep, ModelRead, ModelInject, ModelCache,
       SuspendLabels, DeleteLabels, ModelLabels
  <2>2. job[w].op \notin {"create", "wake"}
    BY <2>1, LabelTypes DEF RequestInv, Belongs, Locked, WakeLabels, CreateLabels, FailLabels,
       SuspendLabels, DeleteLabels, ModelLabels
  <2>3. \/ \E res : Return(w, res)
        \/ \E l \in {"s_stop", "s_uncache", "s_update", "d_unregister", "d_uncache", "d_store",
                     "m_inject", "m_cache"} : Continue(w, l) \/ Load(w, l)
    BY <1>13 DEF SuspendStep, SuspendRead, SuspendStop, DropConfig, SuspendSave, Save, DeleteStep,
       DeleteSandbox, DeleteRoute, DeleteRecord, ModelStep, ModelRead, ModelInject, ModelCache
  <2> QED
    BY <1>0, <1>2, <2>2, <2>3, ExcusedAnswer, ExcusedElsewhere DEF FailLabels
<1>14. CASE Reply(w)
  <2>1. pc'[w] = "idle"
    BY <1>0, <1>14, GotoFields DEF Reply
  <2> QED
    BY <2>1, ExcusedElsewhere DEF FailLabels
<1> QED
  BY <1>3, <1>4, <1>5, <1>6, <1>7, <1>8, <1>9, <1>10, <1>11, <1>12, <1>13, <1>14
  DEF Serve, CreateStep, FailStep, WakeStep

LEMMA ExcusedInvStep ==
    ASSUME StoreKind = "memory", RememberInv, RequestInv, ExcusedInv, [Next]_vars
    PROVE  ExcusedInv'
<1>0. TypeInv /\ OneReplica /\ \A v \in Workers : HoldsLock(v)
  BY MemoryIsOneProcess DEF RememberInv, CacheInv, Knows, HoldsLock
<1>1. CASE UNCHANGED vars
  BY <1>1 DEF vars, ExcusedInv, Excused, Blamed
<1>2. ASSUME NEW w \in Workers, Serve(w) PROVE ExcusedInv'
  <2>1. Moves(w)
    BY <1>0, <1>2, ServeMoves
  <2>2. ASSUME NEW v \in Workers, v # w PROVE Excused(v)'
    <3>1. pc'[v] = pc[v] /\ job'[v] = job[v] /\ Excused(v)
      BY <2>1, <2>2 DEF Moves, ExcusedInv
    <3>2. CASE pc[w] \in Locked
      <4>1. pc[v] \notin Locked
        BY <1>0, <2>2, <3>2, NobodyElse
      <4> QED
        BY <3>1, <4>1, LabelTypes DEF Excused, Blamed
    <3>3. CASE pc[w] = "reply"
      <4>1. UNCHANGED record
        BY <1>2, <3>3 DEF Serve, CreateStep, CreateRead, CleanUp, CreateSandbox, CreateInsert,
           ResumeStep, RegisterGateway, InjectConfig, FailStep, FailRead, FailUpdate, FailInsert,
           WakeStep, WakeRead, WakeStart, WakeSave, SuspendStep, SuspendRead, SuspendStop,
           DropConfig, SuspendSave, DeleteStep, DeleteSandbox, DeleteRoute, DeleteRecord,
           ModelStep, ModelRead, ModelInject, ModelCache, Reply
      <4> QED
        BY <3>1, <4>1 DEF Excused, Blamed
    <3> QED
      BY <2>1, <3>2, <3>3 DEF Moves
  <2> QED
    BY <1>2, <2>2, ServeExcused DEF ExcusedInv
<1>3. ASSUME NEW w \in Workers, NEW op \in Ops, NEW u \in Users, Begin(w, op, u) PROVE ExcusedInv'
  <2>1. \A v \in Workers \ {w} : pc'[v] = pc[v] /\ job'[v] = job[v]
    BY <1>0, <1>3 DEF Begin, Goto, SetJob, TypeInv, TypeOK
  <2>2. pc'[w] = Entry[op]
    BY <1>0, <1>3, GotoFields DEF Begin
  <2>3. Excused(w)'
    BY <2>2, ExcusedElsewhere DEF Entry, Ops, FailLabels
  <2>4. \A v \in Workers \ {w} : Excused(v)'
    BY <1>3, <2>1 DEF Begin, ExcusedInv, Excused, Blamed
  <2> QED
    BY <2>3, <2>4 DEF ExcusedInv
<1>4. ASSUME NEW r \in Replicas, Crash(r) PROVE ExcusedInv'
  <2>1. \A v \in Workers : pc'[v] = "idle"
    BY <1>0, <1>4, ConstantsAssumption DEF Crash, OneReplica
  <2> QED
    BY <2>1, ExcusedElsewhere DEF ExcusedInv, FailLabels
<1>5. ASSUME NEW w \in Workers, Disconnect(w) PROVE ExcusedInv'
  <2>1. UNCHANGED <<record, pc>>
    BY <1>5 DEF Disconnect
  <2>2. \A v \in Workers : /\ job'[v].op = job[v].op /\ job'[v].user = job[v].user
                           /\ job'[v].from = job[v].from /\ job'[v].hit = job[v].hit
                           /\ job'[v].res = job[v].res
    BY <1>0, <1>5 DEF Disconnect, SetJob, TypeInv, TypeOK, Job
  <2> QED
    BY <2>1, <2>2 DEF ExcusedInv, Excused, Blamed
<1>6. CASE Environment
  BY <1>4, <1>5, <1>6 DEF Environment, ExpireConfig, SandboxDies, RestartGateway, ExcusedInv,
     Excused, Blamed
<1> QED
  BY <1>1, <1>2, <1>3, <1>6 DEF Next

(* Over db.Memory, whatever the faults, the crashes and the disconnections *)
(* before it: a Create, or a Wake of a suspended instance, that fails was  *)
(* struck by the fault of a call of its own.                               *)
THEOREM OnlyFaultsFail ==
    ASSUME StoreKind = "memory"
    PROVE  Spec => []FailsOnlyByFault
<1> DEFINE Inv == RememberInv /\ RequestInv /\ ExcusedInv
<1>1. Init => Inv
  <2>1. Init => ExcusedInv
    BY DEF Init, ExcusedInv, Excused, FailLabels
  <2> QED
    BY <2>1, InitRemembers, InitRequests
<1>2. Inv /\ [Next]_vars => Inv'
  BY RememberInvStep, RequestInvStep, ExcusedInvStep DEF RememberInv, CacheInv
<1>3. Inv => FailsOnlyByFault
  BY DEF ExcusedInv, Excused, FailsOnlyByFault
<1> QED
  BY <1>1, <1>2, <1>3, PTL DEF Spec
===============================================================================
