-------------------------- MODULE ControlServer_proofs --------------------------
(***************************************************************************)
(* Proofs about ControlServer, for any number of users, sessions and       *)
(* reviews, any idle timeout and both stores.                              *)
(***************************************************************************)
EXTENDS ServerProperties, FiniteSetTheorems, TLAPS

CountInv == TypeOK /\ CountIsExact

LEMMA RowTypes ==
    /\ NoRow \in Row
    /\ \A r \in Row, n \in Nat :
          /\ [r EXCEPT !.present = TRUE, !.age = 0] \in Row
          /\ [r EXCEPT !.set = FALSE] \in Row
          /\ [present |-> TRUE, age |-> 0, conns |-> n, set |-> TRUE] \in Row
    /\ \A r \in Row : r.age < IdleTimeout => [r EXCEPT !.age = r.age + 1] \in Row
<1>1. NoRow \in Row
  BY TimeoutAssumption DEF Row, NoRow
<1>2. ASSUME NEW r \in Row, NEW n \in Nat
      PROVE  /\ [r EXCEPT !.present = TRUE, !.age = 0] \in Row
             /\ [r EXCEPT !.set = FALSE] \in Row
             /\ [present |-> TRUE, age |-> 0, conns |-> n, set |-> TRUE] \in Row
  <2>1. [r EXCEPT !.present = TRUE, !.age = 0] \in Row
    <3>1. 0 \in 0..IdleTimeout
      BY TimeoutAssumption
    <3> QED  BY <3>1 DEF Row
  <2>2. [r EXCEPT !.set = FALSE] \in Row
    BY TimeoutAssumption DEF Row
  <2>3. [present |-> TRUE, age |-> 0, conns |-> n, set |-> TRUE] \in Row
    BY TimeoutAssumption DEF Row
  <2> QED  BY <2>1, <2>2, <2>3
<1>3. ASSUME NEW r \in Row, r.age < IdleTimeout
      PROVE  [r EXCEPT !.age = r.age + 1] \in Row
  BY <1>3, TimeoutAssumption DEF Row
<1> QED  BY <1>1, <1>2, <1>3

LEMMA SessionTypes == NoSession \in Session
  BY DEF Session, NoSession, Labels

(* Only finitely many sessions are counted. *)
LEMMA CountedFinite ==
    \A u : IsFiniteSet(Counted(u)) /\ Cardinality(Counted(u)) \in Nat
<1> TAKE u
<1>1. Counted(u) \in SUBSET Conns
  BY DEF Counted
<1> QED  BY <1>1, OwnerAssumption, FS_Subset, FS_CardinalityType

-------------------------------------------------------------------------------
(* The operations of the activity table. *)

(* The counts in the table stay the same, or go with their rows. *)
CountsKept ==
    \A u \in Users : activity'[u].set => activity[u].set /\ activity'[u].conns = activity[u].conns

LEMMA ActivitySteps ==
    ASSUME activity \in [Users -> Row], NEW u \in Users
    PROVE  /\ TouchActivity(u) => activity' \in [Users -> Row] /\ CountsKept
           /\ DeleteActivity(u) => activity' \in [Users -> Row] /\ CountsKept
<1>1. ASSUME TouchActivity(u) PROVE activity' \in [Users -> Row] /\ CountsKept
  <2> DEFINE r == [activity[u] EXCEPT !.present = TRUE, !.age = 0]
  <2>1. activity' = [activity EXCEPT ![u] = r]
    BY <1>1 DEF TouchActivity
  <2>2. r \in Row /\ r.set = activity[u].set /\ r.conns = activity[u].conns
    BY RowTypes DEF Row
  <2> QED  BY <2>1, <2>2 DEF CountsKept
<1>2. ASSUME DeleteActivity(u) PROVE activity' \in [Users -> Row] /\ CountsKept
  <2>1. activity' = [activity EXCEPT ![u] = NoRow]
    BY <1>2 DEF DeleteActivity
  <2>2. NoRow \in Row /\ ~NoRow.set
    BY RowTypes DEF NoRow
  <2> QED  BY <2>1, <2>2 DEF CountsKept
<1> QED  BY <1>1, <1>2

LEMMA TickStep ==
    ASSUME activity \in [Users -> Row], Tick
    PROVE  activity' \in [Users -> Row] /\ CountsKept
<1>1. ASSUME NEW u \in Users
      PROVE  /\ activity'[u] \in Row
             /\ activity'[u].set = activity[u].set /\ activity'[u].conns = activity[u].conns
  <2>1. CASE activity[u].present /\ activity[u].age < IdleTimeout
    <3> DEFINE r == [activity[u] EXCEPT !.age = activity[u].age + 1]
    <3>1. activity'[u] = r
      BY <2>1 DEF Tick
    <3>2. r \in Row /\ r.set = activity[u].set /\ r.conns = activity[u].conns
      BY <2>1, RowTypes DEF Row
    <3> QED  BY <3>1, <3>2
  <2>2. CASE ~(activity[u].present /\ activity[u].age < IdleTimeout)
    <3>1. activity'[u] = activity[u]
      BY <2>2 DEF Tick
    <3> QED  BY <3>1
  <2> QED  BY <2>1, <2>2
<1>2. activity' = [u \in Users |-> activity'[u]]
  BY DEF Tick
<1> QED  BY <1>1, <1>2 DEF CountsKept

-------------------------------------------------------------------------------
(* A step of a session, by what it does to the count. *)

InLoop(label) == label \in {"read", "wait"}

LEMMA CountedAfter ==
    ASSUME sess \in [Conns -> Session], NEW c \in Conns, NEW s \in Session, Become(c, s)
    PROVE  /\ sess' \in [Conns -> Session]
           /\ \A u \in Users \ {Owner[c]} : Counted(u)' = Counted(u)
           /\ InLoop(s.admin) => Counted(Owner[c])' = Counted(Owner[c]) \cup {c}
           /\ ~InLoop(s.admin) => Counted(Owner[c])' = Counted(Owner[c]) \ {c}
<1>1. \A d \in Conns : sess'[d] = IF d = c THEN s ELSE sess[d]
  BY DEF Become
<1>2. sess' \in [Conns -> Session]
  BY DEF Become
<1>3. \A u : Counted(u)' = {d \in Conns : Owner[d] = u /\ InLoop(IF d = c THEN s.admin ELSE sess[d].admin)}
  BY <1>1 DEF Counted, InLoop
<1>4. \A u : Counted(u) = {d \in Conns : Owner[d] = u /\ InLoop(sess[d].admin)}
  BY DEF Counted, InLoop
<1> QED  BY <1>2, <1>3, <1>4

LEMMA MoveStep ==
    ASSUME CountInv, NEW c \in Conns, NEW s \in Session, Become(c, s),
           InLoop(s.admin) <=> InLoop(sess[c].admin),
           activity' \in [Users -> Row], CountsKept, wsManager' = wsManager
    PROVE  sess' \in [Conns -> Session] /\ wsManager' \in [Users -> Nat] /\ CountIsExact'
<1>1. sess \in [Conns -> Session] /\ wsManager \in [Users -> Nat] /\ Owner[c] \in Users
  BY OwnerAssumption DEF CountInv, TypeOK
<1>2. c \in Counted(Owner[c]) <=> InLoop(sess[c].admin)
  BY DEF Counted, InLoop
<1>3. /\ sess' \in [Conns -> Session]
      /\ \A u \in Users \ {Owner[c]} : Counted(u)' = Counted(u)
      /\ InLoop(s.admin) => Counted(Owner[c])' = Counted(Owner[c]) \cup {c}
      /\ ~InLoop(s.admin) => Counted(Owner[c])' = Counted(Owner[c]) \ {c}
  BY <1>1, CountedAfter
<1>4. Counted(Owner[c])' = Counted(Owner[c])
  BY <1>2, <1>3
<1>5. \A u \in Users : Counted(u)' = Counted(u)
  BY <1>3, <1>4
<1>6. CountIsExact'
  BY <1>5 DEF CountInv, CountIsExact, CountsKept
<1> QED  BY <1>1, <1>3, <1>6

(* addWS counts a session that begins or ends exactly once. *)
LEMMA AddStep ==
    ASSUME CountInv, NEW c \in Conns, NEW s \in Session, Become(c, s),
           NEW delta \in {1, -1}, AddWS(Owner[c], delta),
           InLoop(s.admin) <=> delta = 1,
           InLoop(sess[c].admin) <=> delta = -1
    PROVE  /\ sess' \in [Conns -> Session] /\ wsManager' \in [Users -> Nat]
           /\ activity' \in [Users -> Row] /\ CountIsExact'
<1> DEFINE u == Owner[c]
           n == IF wsManager[u] + delta <= 0 THEN 0 ELSE wsManager[u] + delta
           row == [present |-> TRUE, age |-> 0, conns |-> n, set |-> TRUE]
<1>1. /\ sess \in [Conns -> Session] /\ wsManager \in [Users -> Nat]
      /\ activity \in [Users -> Row] /\ u \in Users
  BY OwnerAssumption DEF CountInv, TypeOK
<1>2. n \in Nat /\ row \in Row
  <2>1. n \in Nat
    BY <1>1
  <2> QED  BY <2>1, RowTypes
<1>3. wsManager' = [wsManager EXCEPT ![u] = n] /\ activity' = [activity EXCEPT ![u] = row]
  BY DEF AddWS, SetWSConnections
<1>4. wsManager[u] = Cardinality(Counted(u))
  BY <1>1 DEF CountInv, CountIsExact
<1>5. c \in Counted(u) <=> InLoop(sess[c].admin)
  BY DEF Counted, InLoop
<1>a. /\ sess' \in [Conns -> Session]
      /\ \A v \in Users \ {u} : Counted(v)' = Counted(v)
      /\ InLoop(s.admin) => Counted(u)' = Counted(u) \cup {c}
      /\ ~InLoop(s.admin) => Counted(u)' = Counted(u) \ {c}
  BY <1>1, CountedAfter
<1>6. Cardinality(Counted(u)') = n
  <2>1. CASE delta = 1
    <3>1. Counted(u)' = Counted(u) \cup {c} /\ c \notin Counted(u)
      BY <1>5, <1>a, <2>1
    <3>2. Cardinality(Counted(u)') = Cardinality(Counted(u)) + 1
      BY <3>1, CountedFinite, FS_AddElement
    <3> QED  BY <1>4, <2>1, <3>2, CountedFinite
  <2>2. CASE delta = -1
    <3>1. Counted(u)' = Counted(u) \ {c} /\ c \in Counted(u)
      BY <1>5, <1>a, <2>2
    <3>2. Cardinality(Counted(u)') = Cardinality(Counted(u)) - 1
      BY <3>1, CountedFinite, FS_RemoveElement
    <3>3. IsFiniteSet(Counted(u) \ {c})
      BY CountedFinite, FS_RemoveElement
    <3>4. Cardinality(Counted(u)') \in Nat
      BY <3>1, <3>3, FS_CardinalityType
    <3> QED  BY <1>4, <2>2, <3>2, <3>4, CountedFinite
  <2> QED  BY <2>1, <2>2
<1>8. /\ wsManager'[u] = n /\ activity'[u].conns = n
      /\ \A v \in Users \ {u} : wsManager'[v] = wsManager[v] /\ activity'[v] = activity[v]
  BY <1>1, <1>3
<1> HIDE DEF n, row, u
<1>9. CountIsExact'
  BY <1>6, <1>8, <1>a DEF CountInv, CountIsExact
<1> QED  BY <1>1, <1>2, <1>3, <1>9, <1>a

(* A step of the relays. *)
LEMMA RelayStep ==
    ASSUME CountInv, RelayNext
    PROVE  /\ sess' \in [Conns -> Session] /\ wsManager' \in [Users -> Nat]
           /\ activity' \in [Users -> Row] /\ CountIsExact'
<1> DEFINE Goal == /\ sess' \in [Conns -> Session] /\ wsManager' \in [Users -> Nat]
                   /\ activity' \in [Users -> Row] /\ CountIsExact'
<1>1. /\ sess \in [Conns -> Session] /\ wsManager \in [Users -> Nat]
      /\ activity \in [Users -> Row] /\ Owner \in [Conns -> Users]
  BY OwnerAssumption DEF CountInv, TypeOK
<1>2. ASSUME NEW c \in Conns, NEW s \in Session, Move(c, s),
             InLoop(s.admin) <=> InLoop(sess[c].admin)
      PROVE  Goal
  <2>1. Become(c, s) /\ activity' = activity /\ wsManager' = wsManager
    BY <1>2 DEF Move
  <2>2. activity' \in [Users -> Row] /\ CountsKept
    BY <1>1, <2>1 DEF CountsKept
  <2> QED  BY <1>2, <2>1, <2>2, MoveStep
<1>3. ASSUME NEW c \in Conns, Connect(c) \/ AdminDialFails(c)
      PROVE  Goal
  <2>1. PICK s \in {NoSession, [NoSession EXCEPT !.client = TRUE, !.admin = "dial"]} : Move(c, s)
    BY <1>3 DEF Connect, AdminDialFails
  <2>2. s \in Session /\ ~InLoop(s.admin)
    <3>1. NoSession.admin = "none"
      BY DEF NoSession
    <3> DEFINE d == [NoSession EXCEPT !.client = TRUE, !.admin = "dial"]
    <3>2. d \in Session /\ d.admin = "dial"
      BY SessionTypes DEF Session, Labels
    <3> QED  BY <2>1, <3>1, <3>2, SessionTypes DEF InLoop
  <2>3. sess[c].admin \in {"none", "dial"}
    BY <1>3 DEF Connect, AdminDialFails, NoSession
  <2>4. ~InLoop(sess[c].admin)
    BY <2>3 DEF InLoop
  <2> QED  BY <1>2, <2>1, <2>2, <2>4
<1>4. ASSUME NEW c \in Conns, AdminDial(c)
      PROVE  Goal
  <2> DEFINE s == [sess[c] EXCEPT !.admin = "read", !.adminPump = TRUE, !.gateway = "dial"]
  <2>1. /\ s \in Session /\ InLoop(s.admin) /\ ~InLoop(sess[c].admin)
        /\ Become(c, s) /\ AddWS(Owner[c], 1)
    BY <1>1, <1>4 DEF AdminDial, InLoop, Session, Labels
  <2> HIDE DEF s
  <2>2. (InLoop(s.admin) <=> 1 = 1) /\ (InLoop(sess[c].admin) <=> 1 = -1)
    BY <2>1
  <2> QED  BY <2>1, <2>2, AddStep
<1>5. ASSUME NEW c \in Conns, AdminReturn(c)
      PROVE  Goal
  <2> DEFINE s == [sess[c] EXCEPT !.admin = "none", !.client = FALSE]
  <2>1. /\ s \in Session /\ ~InLoop(s.admin) /\ InLoop(sess[c].admin)
        /\ Become(c, s) /\ AddWS(Owner[c], -1)
    BY <1>1, <1>5 DEF AdminReturn, InLoop, Session, Labels
  <2> HIDE DEF s
  <2>2. (InLoop(s.admin) <=> -1 = 1) /\ (InLoop(sess[c].admin) <=> -1 = -1)
    BY <2>1
  <2> QED  BY <2>1, <2>2, AddStep
<1>6. ASSUME NEW c \in Conns, AdminForward(c)
      PROVE  Goal
  <2>1. PICK s \in {[sess[c] EXCEPT !.toGateway = sess[c].gateway # "none"],
                    [sess[c] EXCEPT !.admin = "wait"]} : Become(c, s)
    BY <1>6 DEF AdminForward
  <2>2. s \in Session /\ InLoop(s.admin) /\ InLoop(sess[c].admin)
    BY <1>1, <1>6 DEF AdminForward, InLoop, Session, Labels
  <2>3. activity' \in [Users -> Row] /\ CountsKept /\ wsManager' = wsManager
    BY <1>1, <1>6, ActivitySteps DEF AdminForward
  <2> QED  BY <2>1, <2>2, <2>3, MoveStep
<1>7. ASSUME NEW c \in Conns, AdminReadFails(c) \/ AdminPumpEnds(c)
      PROVE  Goal
  <2>1. PICK s \in {[sess[c] EXCEPT !.admin = "wait"], [sess[c] EXCEPT !.adminPump = FALSE]} :
            Move(c, s) /\ (s.admin = sess[c].admin \/ (s.admin = "wait" /\ sess[c].admin = "read"))
    BY <1>1, <1>7 DEF AdminReadFails, AdminPumpEnds, Session
  <2>2. s \in Session /\ (InLoop(s.admin) <=> InLoop(sess[c].admin))
    BY <1>1, <2>1 DEF InLoop, Session, Labels
  <2> QED  BY <1>2, <2>1, <2>2
<1>8. ASSUME NEW c \in Conns,
             \/ GatewayDial(c) \/ GatewayDialFails(c) \/ GatewayForward(c) \/ GatewayReadFails(c)
             \/ GatewayPumpEnds(c) \/ GatewayReturn(c) \/ AgentAnswer(c) \/ AgentReadFails(c)
             \/ ClientLeaves(c) \/ AgentDies(c)
      PROVE  Goal
  <2>1. PICK s \in {[sess[c] EXCEPT !.gateway = "read", !.gatewayPump = TRUE, !.agent = "reading"],
                    [sess[c] EXCEPT !.gateway = "none", !.toGateway = FALSE],
                    [sess[c] EXCEPT !.toGateway = FALSE, !.agent = "working"],
                    [sess[c] EXCEPT !.toGateway = FALSE, !.gateway = "read"],
                    [sess[c] EXCEPT !.toGateway = FALSE, !.gateway = "wait"],
                    [sess[c] EXCEPT !.gateway = "wait"],
                    [sess[c] EXCEPT !.gatewayPump = FALSE],
                    [sess[c] EXCEPT !.agent = "reading"],
                    [sess[c] EXCEPT !.agent = "none"],
                    [sess[c] EXCEPT !.client = FALSE]} : Move(c, s)
    BY <1>8 DEF GatewayDial, GatewayDialFails, GatewayForward, GatewayReadFails,
                GatewayPumpEnds, GatewayReturn, AgentAnswer, AgentReadFails,
                ClientLeaves, AgentDies
  <2>2. sess[c] \in Session
    BY <1>1
  <2>3. s \in Session /\ s.admin = sess[c].admin
    BY <2>1, <2>2 DEF Session, Labels
  <2> QED  BY <1>2, <2>1, <2>3
<1>9. ASSUME GatewayDies
      PROVE  Goal
  <2>1. \A c \in Conns : sess'[c] \in Session /\ sess'[c].admin = sess[c].admin
    BY <1>1, <1>9 DEF GatewayDies, Session, Labels
  <2>2. sess' \in [Conns -> Session] /\ activity' = activity /\ wsManager' = wsManager
    BY <1>9, <2>1 DEF GatewayDies
  <2>3. \A u \in Users : Counted(u)' = Counted(u)
    BY <2>1 DEF Counted
  <2> QED  BY <1>1, <2>2, <2>3 DEF CountInv, CountIsExact
<1> QED  BY <1>3, <1>4, <1>5, <1>6, <1>7, <1>8, <1>9 DEF RelayNext, Advance

-------------------------------------------------------------------------------
(* Reviews, the status table and the reaper keep their types. *)
LEMMA ReviewStep ==
    ASSUME review \in [Reviews -> Review], task \in [Reviews -> Tasks], ReviewNext
    PROVE  review' \in [Reviews -> Review] /\ task' \in [Reviews -> Tasks]
<1>1. ASSUME NEW v \in Reviews, NEW st \in {"running", "completed", "failed"},
             NEW findings \in BOOLEAN, Set(v, st, findings)
      PROVE  review' \in [Reviews -> Review]
  BY <1>1 DEF Set, Review
<1>2. ASSUME NEW v \in Reviews, NEW from, NEW to \in Tasks, Run(v, from, to)
      PROVE  task' \in [Reviews -> Tasks]
  BY <1>2 DEF Run
<1>3. ASSUME NEW v \in Reviews, Submit(v)
      PROVE  review' \in [Reviews -> Review] /\ task' \in [Reviews -> Tasks]
  <2>1. [review[v] EXCEPT !.status = "pending"] \in Review
    BY DEF Review
  <2>2. review' = [review EXCEPT ![v] = [review[v] EXCEPT !.status = "pending"]]
    BY <1>3 DEF Submit
  <2> QED  BY <1>3, <2>1, <2>2 DEF Submit, Tasks
<1>4. ASSUME NEW v \in Reviews, MarkRunning(v) \/ Refuse(v) \/ Complete(v)
      PROVE  review' \in [Reviews -> Review] /\ task' \in [Reviews -> Tasks]
  BY <1>1, <1>2, <1>4 DEF MarkRunning, Refuse, Complete, Tasks
<1>5. ASSUME NEW v \in Reviews, Stat(v) \/ ScanRepo(v) \/ TimeOut(v)
      PROVE  review' \in [Reviews -> Review] /\ task' \in [Reviews -> Tasks]
  BY <1>2, <1>5 DEF Stat, ScanRepo, TimeOut, Tasks
<1> QED  BY <1>3, <1>4, <1>5 DEF ReviewNext, Work

LEMMA CountInit == Init => CountInv
<1> SUFFICES ASSUME Init PROVE CountInv
  OBVIOUS
<1> USE DEF Init
<1>1. status \in [Users -> {"none", "running", "suspended", "failed"}]
  BY DEF Manager!Init
<1>2. activity \in [Users -> Row] /\ \A u \in Users : ~activity[u].set
  BY RowTypes DEF ActivityInit, NoRow
<1>3. sess \in [Conns -> Session] /\ wsManager \in [Users -> Nat]
  BY SessionTypes DEF RelayInit
<1>4. review \in [Reviews -> Review] /\ task \in [Reviews -> Tasks]
  BY DEF ReviewInit, NoReview, Review, Tasks
<1>5. reaper \in [pc : {"wait", "scan", "suspend"}, todo : SUBSET Users, user : SUBSET Users]
  BY DEF NoScan
<1>6. \A u \in Users : wsManager[u] = Cardinality(Counted(u))
  <2>1. \A u \in Users : Counted(u) = {} /\ wsManager[u] = 0
    BY DEF RelayInit, Counted, NoSession
  <2> QED  BY <2>1, FS_EmptySet
<1>7. chatting \subseteq Users
  OBVIOUS
<1> HIDE DEF Init
<1> QED  BY <1>1, <1>2, <1>3, <1>4, <1>5, <1>6, <1>7 DEF CountInv, TypeOK, CountIsExact

LEMMA StatusStep ==
    ASSUME status \in [Users -> {"none", "running", "suspended", "failed"}], NEW u \in Users,
           Administer(u) \/ Manager!Remove(u)
    PROVE  status' \in [Users -> {"none", "running", "suspended", "failed"}]
  BY DEF Administer, Manager!Provision, Manager!Wake, Manager!Suspend, Manager!Fail,
         Manager!Remove, Manager!Become

(* The end of the process ends its counts and its sessions alike. *)
LEMMA CrashStep == CountInv /\ Crash => CountInv'
<1> SUFFICES ASSUME CountInv, Crash PROVE CountInv'
  OBVIOUS
<1> USE DEF CountInv, TypeOK, Crash
<1>1. status' \in [Users -> {"none", "running", "suspended", "failed"}]
  BY DEF AfterRestart
<1>2. activity' \in [Users -> Row] /\ \A u \in Users : ~activity'[u].set
  <2>1. \A u \in Users : LET r == [activity[u] EXCEPT !.set = FALSE] IN r \in Row /\ ~r.set
    BY RowTypes DEF Row
  <2>2. NoRow \in Row /\ ~NoRow.set
    BY RowTypes DEF NoRow
  <2>3. activity' = [u \in Users |-> AfterRestart([activity[u] EXCEPT !.set = FALSE], NoRow)]
    BY DEF ActivityAfterRestart
  <2>4. \A u \in Users : activity'[u] \in Row /\ ~activity'[u].set
    BY <2>1, <2>2, <2>3 DEF AfterRestart
  <2> QED  BY <2>3, <2>4
<1>3. sess' \in [Conns -> Session] /\ \A u \in Users : Counted(u)' = {}
  <2>1. \A c \in Conns : sess'[c] \in Session /\ sess'[c].admin = "none"
    BY DEF Session, Labels
  <2>2. sess' \in [Conns -> Session]
    BY <2>1
  <2> QED  BY <2>1, <2>2 DEF Counted
<1>4. wsManager' \in [Users -> Nat] /\ \A u \in Users : wsManager'[u] = 0
  OBVIOUS
<1>5. review' \in [Reviews -> Review] /\ task' \in [Reviews -> Tasks]
  BY DEF LoseReviews, AfterRestart, NoReview, Review, Tasks
<1>6. /\ chatting' \subseteq Users
      /\ reaper' \in [pc : {"wait", "scan", "suspend"}, todo : SUBSET Users, user : SUBSET Users]
  BY DEF NoScan
<1> HIDE DEF Crash
<1>7. CountIsExact'
  BY <1>2, <1>3, <1>4, FS_EmptySet DEF CountIsExact
<1> QED  BY <1>1, <1>2, <1>3, <1>4, <1>5, <1>6, <1>7

LEMMA ReaperStep ==
    ASSUME reaper \in [pc : {"wait", "scan", "suspend"}, todo : SUBSET Users, user : SUBSET Users],
           Reaping \/ \E u \in Users : Reap(u)
    PROVE  reaper' \in [pc : {"wait", "scan", "suspend"}, todo : SUBSET Users, user : SUBSET Users]
<1>1. reaper.todo \subseteq Users
  OBVIOUS
<1>2. PICK pc \in {"wait", "scan", "suspend"}, todo \in SUBSET Users, user \in SUBSET Users :
          Scan(pc, todo, user)
  BY <1>1 DEF Reaping, List, EndScan, Inspect, Reap
<1> QED  BY <1>2 DEF Scan

LEMMA CountStep == CountInv /\ [Next]_vars => CountInv'
<1> SUFFICES ASSUME CountInv, [Next]_vars PROVE CountInv'
  OBVIOUS
<1>1. CASE RelayNext /\ UNCHANGED <<status, review, task, chatting, reaper>>
  <2>1. /\ sess' \in [Conns -> Session] /\ wsManager' \in [Users -> Nat]
        /\ activity' \in [Users -> Row] /\ CountIsExact'
    BY <1>1, RelayStep
  <2> QED  BY <1>1, <2>1 DEF CountInv, TypeOK
<1>2. CASE ReviewNext /\ UNCHANGED <<status, activity, sess, wsManager, chatting, reaper>>
  <2>1. review' \in [Reviews -> Review] /\ task' \in [Reviews -> Tasks]
    BY <1>2, ReviewStep DEF CountInv, TypeOK
  <2>2. CountIsExact'
    BY <1>2 DEF CountInv, CountIsExact, Counted
  <2> QED  BY <1>2, <2>1, <2>2 DEF CountInv, TypeOK
(* Steps that leave the sessions alone, and at most drop counts. *)
<1>3. ASSUME UNCHANGED <<sess, wsManager, review, task>>,
             activity' \in [Users -> Row], CountsKept,
             status' \in [Users -> {"none", "running", "suspended", "failed"}],
             chatting' \subseteq Users,
             reaper' \in [pc : {"wait", "scan", "suspend"}, todo : SUBSET Users, user : SUBSET Users]
      PROVE  CountInv'
  <2>1. CountIsExact'
    BY <1>3 DEF CountInv, CountIsExact, CountsKept, Counted
  <2> QED  BY <1>3, <2>1 DEF CountInv, TypeOK
<1>4. /\ activity \in [Users -> Row]
      /\ activity' = activity => activity' \in [Users -> Row] /\ CountsKept
      /\ status \in [Users -> {"none", "running", "suspended", "failed"}]
      /\ chatting \subseteq Users
      /\ reaper \in [pc : {"wait", "scan", "suspend"}, todo : SUBSET Users, user : SUBSET Users]
  BY DEF CountInv, TypeOK, CountsKept
<1>5. ASSUME NEW u \in Users,
             Administer(u) /\ UNCHANGED <<activity, sess, wsManager, review, task, chatting, reaper>>
      PROVE  CountInv'
  BY <1>3, <1>4, <1>5, StatusStep
<1>6. ASSUME NEW u \in Users,
             Delete(u) /\ UNCHANGED <<sess, wsManager, review, task, chatting, reaper>>
      PROVE  CountInv'
  BY <1>3, <1>4, <1>6, StatusStep, ActivitySteps DEF Delete
<1>7. ASSUME NEW u \in Users,
             SetModelConfig(u) /\ UNCHANGED <<status, sess, wsManager, review, task, chatting, reaper>>
      PROVE  CountInv'
  BY <1>3, <1>4, <1>7, ActivitySteps DEF SetModelConfig
<1>8. ASSUME NEW u \in Users,
             ChatBegin(u) /\ UNCHANGED <<status, activity, sess, wsManager, review, task, reaper>>
      PROVE  CountInv'
  BY <1>3, <1>4, <1>8 DEF ChatBegin
<1>9. ASSUME NEW u \in Users,
             ChatEnd(u) /\ UNCHANGED <<status, sess, wsManager, review, task, reaper>>
      PROVE  CountInv'
  BY <1>3, <1>4, <1>9, ActivitySteps DEF ChatEnd
<1>10. ASSUME NEW u \in Users,
              Reap(u) /\ UNCHANGED <<activity, sess, wsManager, review, task, chatting>>
       PROVE  CountInv'
  <2>1. status' \in [Users -> {"none", "running", "suspended", "failed"}]
    BY <1>4, <1>10 DEF Reap, Manager!Suspend, Manager!Become
  <2> QED  BY <1>3, <1>4, <1>10, <2>1, ReaperStep
<1>11. CASE Reaping /\ UNCHANGED <<status, activity, sess, wsManager, review, task, chatting>>
  BY <1>3, <1>4, <1>11, ReaperStep
<1>12. CASE Tick /\ UNCHANGED <<status, sess, wsManager, review, task, chatting, reaper>>
  BY <1>3, <1>4, <1>12, TickStep
<1>13. CASE Crash
  BY <1>13, CrashStep
<1>14. CASE UNCHANGED vars
  BY <1>3, <1>4, <1>14 DEF vars
<1> QED  BY <1>1, <1>2, <1>5, <1>6, <1>7, <1>8, <1>9, <1>10, <1>11, <1>12, <1>13, <1>14 DEF Next

LEMMA CountInvHolds == Spec => []CountInv
  BY CountInit, CountStep, PTL DEF Spec

(* Every variable keeps its type, for any users, sessions and reviews. *)
THEOREM ServerTypeCorrect == Spec => []TypeOK
  BY CountInvHolds, PTL DEF CountInv

(* However many sessions open, end and are cut off at once, the count of   *)
(* the process is exact, and so is the one it has written.                 *)
THEOREM CountExact == Spec => []CountIsExact
  BY CountInvHolds, PTL DEF CountInv

(* The reaper condemns nobody who has a session or was active lately, with *)
(* any number of users and sessions.                                       *)
THEOREM ReaperSparesTheActive == Spec => CondemnsOnlyTheIdle
<1>1. CountInv /\ [Next]_vars =>
        [\A u \in Users : reaper'.user = {u} /\ reaper.user = {} =>
          /\ activity[u].age = IdleTimeout
          /\ activity[u].set => Counted(u) = {}]_vars
  <2> SUFFICES ASSUME CountInv, Next, NEW u \in Users, reaper'.user = {u}, reaper.user = {}
               PROVE  activity[u].age = IdleTimeout /\ (activity[u].set => Counted(u) = {})
    OBVIOUS
  <2>1. PICK v \in Users : Inspect(v)
    <3>0. reaper'.user = {u} /\ {u} # {}
      OBVIOUS
    <3>1. reaper' # reaper /\ reaper'.user # {}
      <4>1. reaper'.user # {}
        BY <3>0
      <4>2. reaper'.user # reaper.user
        BY <4>1
      <4> QED  BY <4>1, <4>2
    <3>2. ~Crash
      <4>1. NoScan.user = {}
        BY DEF NoScan
      <4>2. Crash => reaper' = NoScan
        BY DEF Crash
      <4> QED  BY <3>1, <4>1, <4>2
    <3>3. ~List /\ ~EndScan /\ \A v \in Users : ~Reap(v)
      BY <3>1 DEF List, EndScan, Reap, Scan
    <3> QED  BY <3>1, <3>2, <3>3 DEF Next, Reaping
  <2>2. v = u /\ MaySuspend(activity[u])
    BY <2>1 DEF Inspect, Scan, GetActivity
  <2>3. activity[u] \in Row
    BY DEF CountInv, TypeOK
  <2>4. activity[u].age = IdleTimeout /\ activity[u].conns = 0
    BY <2>2, <2>3, TimeoutAssumption DEF MaySuspend, Row
  <2>5. activity[u].set => Cardinality(Counted(u)) = 0
    BY <2>4 DEF CountInv, CountIsExact
  <2> QED  BY <2>4, <2>5, CountedFinite, FS_EmptySet
<1> QED  BY <1>1, CountInvHolds, PTL DEF Spec, CondemnsOnlyTheIdle
===============================================================================
