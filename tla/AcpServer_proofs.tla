-------------------------- MODULE AcpServer_proofs --------------------------
(***************************************************************************)
(* Proofs about AcpServer, for any number of goroutines, processes,        *)
(* sessions and configurations.                                            *)
(***************************************************************************)
EXTENDS AcpProperties, TLAPS

SidOrNone == Sid \cup {NoSid}
Mail == {m \in Message : m.kind \in {"answer", "error"}} \cup {NoMail, GoneMail}

(* The types that the ownership of request ids rests on: those of TypeOK,  *)
(* without the claim that a prompted or closed session is never NoSid.     *)
KernelTyped ==
    /\ child \in [Procs -> {"unborn", "running", "dead", "reaped"}]
    /\ inbox \in [Procs -> SUBSET Request]
    /\ stdout \in [Procs -> Seq(Message)]

ServerTyped ==
    /\ proc \in Procs \cup {NoProc} /\ nextID \in Nat
    /\ pending \subseteq [id : Nat, by : Callers]
    /\ sessions \in [Keys -> SidOrNone]

RuntimeTyped ==
    /\ spawnedCfg \in Configs \cup {NoConfig} /\ cfg \in Configs
    /\ activeSess \in Keys

CallersTyped ==
    /\ pc \in [Callers -> Labels]
    /\ loc \in [Callers -> Local]
    /\ mail \in [Callers -> Mail]
    /\ \A c \in Callers : pc[c] = "wait" => loc[c].method \in Method

TypeInv == KernelTyped /\ ServerTyped /\ RuntimeTyped /\ CallersTyped

-------------------------------------------------------------------------------
(* The local variables the steps build are well typed. *)
LEMMA LocalTypes ==
    ASSUME AcpAssumption
    PROVE  /\ NoLocal \in Local
           /\ \A op \in Ops, k \in Keys : [NoLocal EXCEPT !.op = op, !.key = k] \in Local
           /\ \A op \in Ops, k, f \in Keys : [NoLocal EXCEPT !.op = op, !.key = k, !.from = f] \in Local
           /\ \A op \in Ops : [NoLocal EXCEPT !.op = op, !.then = "finish"] \in Local
  BY DEF NoLocal, Local, AcpAssumption

LEMMA LocalUpdates ==
    ASSUME NEW l \in Local
    PROVE  /\ \A e \in {"none", "gone", "other"} : [l EXCEPT !.err = e] \in Local
           /\ \A t \in {"lookup", "ensure", "finish"} : [l EXCEPT !.then = t] \in Local
           /\ \A v \in Configs : [l EXCEPT !.cfg = v] \in Local
           /\ \A s \in SidOrNone : [l EXCEPT !.sid = s] \in Local
           /\ \A s \in SidOrNone : [l EXCEPT !.old = s] \in Local
           /\ \A m \in Method, i \in Nat : [l EXCEPT !.method = m, !.id = i] \in Local
           /\ [l EXCEPT !.attempt = 2, !.err = "none", !.then = "ensure"] \in Local
  BY DEF Local, SidOrNone

LEMMA ResumedTypes ==
    ASSUME NEW l \in Local, NEW e \in {"none", "gone", "other"}, NEW s \in SidOrNone
    PROVE  [l EXCEPT !.method = "none", !.id = 0, !.err = e, !.sid = s] \in Local
  BY DEF Local, SidOrNone

LEMMA LocalFields ==
    ASSUME NEW l \in Local
    PROVE  /\ l.key \in Keys /\ l.from \in Keys
           /\ l.sid \in SidOrNone /\ l.old \in SidOrNone
           /\ l.method \in Method \cup {"none"} /\ l.id \in Nat
           /\ l.cfg \in Configs \cup {NoConfig}
           /\ l.then \in {"lookup", "ensure", "finish"}
           /\ l.err \in {"none", "gone", "other"}
  BY DEF Local, SidOrNone

(* Where an answer, an error or a timeout leads. *)
LEMMA LabelTypes ==
    ASSUME NEW c \in Callers, NEW m \in Method
    PROVE  /\ Opened(c) \in Labels \ {"wait", "halted"}
           /\ OnAnswer(c)[m] \in Labels \ {"wait", "halted"}
           /\ OnError(c)[m] \in Labels \ {"wait", "halted"}
           /\ OnTimeout(c)[m] \in Labels \ {"wait", "halted"}
           /\ \A e \in {"none", "gone", "other"} : ErrorOf(m, e) \in {"none", "gone", "other"}
<1>1. Opened(c) \in Labels \ {"wait", "halted"}
  BY DEF Opened, Labels, Method
<1>2. CASE m = "init"
  BY <1>1, <1>2 DEF OnAnswer, OnError, OnTimeout, ErrorOf, Labels, Method
<1>3. CASE m = "new"
  BY <1>1, <1>3 DEF OnAnswer, OnError, OnTimeout, ErrorOf, Labels, Method
<1>4. CASE m = "mode"
  BY <1>1, <1>4 DEF OnAnswer, OnError, OnTimeout, ErrorOf, Labels, Method
<1>5. CASE m = "prompt"
  BY <1>1, <1>5 DEF OnAnswer, OnError, OnTimeout, ErrorOf, Labels, Method
<1>6. CASE m = "close"
  BY <1>1, <1>6 DEF OnAnswer, OnError, OnTimeout, ErrorOf, Labels, Method
<1> QED
  BY <1>2, <1>3, <1>4, <1>5, <1>6 DEF Method

-------------------------------------------------------------------------------
(* A goroutine that moves on keeps the types of the goroutines. *)
LEMMA MoveTyped ==
    ASSUME CallersTyped, NEW c \in Callers, NEW label \in Labels \ {"wait"}, Move(c, label)
    PROVE  CallersTyped'
  BY DEF CallersTyped, Move, Goto

LEMMA MoveWithTyped ==
    ASSUME CallersTyped, NEW c \in Callers, NEW label \in Labels, NEW l \in Local,
           label = "wait" => l.method \in Method,
           Goto(c, label), loc' = [loc EXCEPT ![c] = l], mail' = mail
    PROVE  CallersTyped'
  BY DEF CallersTyped, Goto

LEMMA FailTyped ==
    ASSUME CallersTyped, NEW c \in Callers, NEW e \in {"none", "gone", "other"}, Fail(c, e)
    PROVE  CallersTyped'
<1>1. [loc[c] EXCEPT !.err = e] \in Local
  BY LocalUpdates DEF CallersTyped
<1>2. "failed" \in Labels /\ "failed" # "wait"
  BY DEF Labels
<1> QED
  BY <1>1, <1>2, MoveWithTyped DEF Fail, MoveWith

LEMMA ResumeTyped ==
    ASSUME CallersTyped, NEW c \in Callers, NEW label \in Labels \ {"wait"},
           NEW e \in {"none", "gone", "other"}, NEW s \in SidOrNone, Resume(c, label, e, s)
    PROVE  CallersTyped'
<1> DEFINE sid == IF s = NoSid THEN loc[c].sid ELSE s
<1> DEFINE l == [loc[c] EXCEPT !.method = "none", !.id = 0, !.err = e, !.sid = sid]
<1>1. loc[c] \in Local /\ sid \in SidOrNone
  BY LocalFields DEF CallersTyped
<1>2. l \in Local
  BY <1>1, ResumedTypes
<1>3. loc' = [loc EXCEPT ![c] = l]
  BY DEF Resume, CallersTyped
<1>4. pc' = [pc EXCEPT ![c] = label] /\ mail' = [mail EXCEPT ![c] = NoMail]
  BY DEF Resume, Goto
<1> HIDE DEF l
<1> QED
  BY <1>2, <1>3, <1>4 DEF CallersTyped, Mail

-------------------------------------------------------------------------------
(* What the environment of the goroutines does keeps the types. *)
LEMMA TruncateTyped ==
    ASSUME NEW p \in Procs, stdout \in [Procs -> Seq(Message)], Truncate(p)
    PROVE  stdout' \in [Procs -> Seq(Message)]
<1>1. PICK n \in 0 .. Len(stdout[p]) : stdout' = [stdout EXCEPT ![p] = SubSeq(stdout[p], 1, n)]
  BY DEF Truncate
<1>2. SubSeq(stdout[p], 1, n) \in Seq(Message)
  OBVIOUS
<1> QED
  BY <1>1, <1>2

LEMMA TerminateTyped ==
    ASSUME NEW p \in Procs, KernelTyped, Terminate(p)
    PROVE  KernelTyped'
<1>1. stdout' \in [Procs -> Seq(Message)]
  BY TruncateTyped DEF KernelTyped, Terminate
<1> QED
  BY <1>1 DEF KernelTyped, Terminate

LEMMA KillLockedTyped ==
    ASSUME KernelTyped, ServerTyped, KillLocked
    PROVE  KernelTyped' /\ ServerTyped' /\ spawnedCfg' = spawnedCfg
<1>1. CASE proc = NoProc
  BY <1>1 DEF KillLocked, KernelTyped, ServerTyped, processVars, serverVars
<1>2. CASE proc # NoProc
  <2>1. proc \in Procs /\ Terminate(proc)
    BY <1>2 DEF KillLocked, ServerTyped
  <2>2. KernelTyped'
    BY <2>1, TerminateTyped
  <2>3. UNCHANGED <<nextID, pending, spawnedCfg>> /\ sessions' = NoSessions /\ proc' = NoProc
    BY <1>2 DEF KillLocked
  <2> QED
    BY <2>2, <2>3 DEF ServerTyped, NoSessions, SidOrNone
<1> QED
  BY <1>1, <1>2

LEMMA LaunchTyped ==
    ASSUME NEW p \in Procs, KernelTyped, Launch(p)
    PROVE  KernelTyped'
  BY DEF KernelTyped, Launch

(* A line the kernel writes. *)
LEMMA SayTyped ==
    ASSUME NEW r \in Request, NEW kind \in {"answer", "error", "gone", "update", "permission"},
           NEW s \in SidOrNone
    PROVE  Say(kind, r, s) \in Message
  BY DEF Say, Message, Request, SidOrNone

LEMMA WriteTyped ==
    ASSUME NEW p \in Procs, NEW s \in Seq(Message), stdout \in [Procs -> Seq(Message)], Write(p, s)
    PROVE  stdout' \in [Procs -> Seq(Message)]
<1>1. stdout[p] \o s \in Seq(Message)
  OBVIOUS
<1> QED
  BY <1>1 DEF Write

LEMMA AnswerTyped ==
    ASSUME NEW p \in Procs, NEW r \in inbox[p], KernelTyped, Answer(p, r)
    PROVE  KernelTyped'
<1>1. r \in Request /\ r.id \in Nat /\ r.sid \in SidOrNone
  BY DEF KernelTyped, Request, SidOrNone
<1>2. child' = child /\ inbox' = [inbox EXCEPT ![p] = inbox[p] \ {r}]
  BY DEF Answer
<1>3. ASSUME NEW s \in Seq(Message), Write(p, s) PROVE KernelTyped'
  BY <1>2, <1>3, WriteTyped DEF KernelTyped
<1>4. CASE AnswerPlain(p, r)
  <2>1. Say("answer", r, NoSid) \in Message
    BY <1>1, SayTyped DEF SidOrNone
  <2>2. <<Say("answer", r, NoSid)>> \in Seq(Message) /\ Write(p, <<Say("answer", r, NoSid)>>)
    BY <1>4, <2>1 DEF AnswerPlain
  <2> QED
    BY <1>3, <2>2
<1>5. CASE AnswerNew(p, r)
  <2> DEFINE m == Say("answer", r, [proc |-> p, n |-> r.id])
  <2>1. m \in Message
    BY <1>1, SayTyped DEF SidOrNone, Sid
  <2>2. <<m>> \in Seq(Message) /\ Write(p, <<m>>)
    BY <1>5, <2>1 DEF AnswerNew
  <2> QED
    BY <1>3, <2>2
<1>6. CASE AnswerClose(p, r)
  <2>1. Say("answer", r, NoSid) \in Message
    BY <1>1, SayTyped DEF SidOrNone
  <2>2. <<Say("answer", r, NoSid)>> \in Seq(Message) /\ Write(p, <<Say("answer", r, NoSid)>>)
    BY <1>6, <2>1 DEF AnswerClose
  <2> QED
    BY <1>3, <2>2
<1>7. CASE AnswerPrompt(p, r)
  <2>1. /\ Say("update", r, r.sid) \in Message
        /\ Say("answer", r, NoSid) \in Message /\ Say("error", r, NoSid) \in Message
    BY <1>1, SayTyped DEF SidOrNone
  <2> DEFINE s == IF KnownSession(p, r.sid) THEN <<Say("update", r, r.sid), Say("answer", r, NoSid)>>
                  ELSE <<Say("error", r, NoSid)>>
  <2>2. s \in Seq(Message)
    BY <2>1
  <2>3. Write(p, s)
    BY <1>7 DEF AnswerPrompt
  <2> QED
    BY <1>3, <2>2, <2>3
<1> QED
  BY <1>4, <1>5, <1>6, <1>7 DEF Answer

LEMMA AskPermissionTyped ==
    ASSUME NEW p \in Procs, NEW r \in inbox[p], KernelTyped, AskPermission(p, r)
    PROVE  KernelTyped'
<1>1. r \in Request /\ r.sid \in SidOrNone /\ [r EXCEPT !.stage = "asking"] \in Request
  BY DEF KernelTyped, Request, SidOrNone
<1>2. Say("permission", r, r.sid) \in Message
  BY <1>1, SayTyped
<1> DEFINE s == <<Say("permission", r, r.sid)>>
<1>3. s \in Seq(Message) /\ Write(p, s) /\ stdout \in [Procs -> Seq(Message)]
  BY <1>2 DEF AskPermission, KernelTyped
<1>4. inbox' = [inbox EXCEPT ![p] = (inbox[p] \ {r}) \cup {[r EXCEPT !.stage = "asking"]}] /\ child' = child
  BY DEF AskPermission
<1>5. (inbox[p] \ {r}) \cup {[r EXCEPT !.stage = "asking"]} \in SUBSET Request
  BY <1>1 DEF KernelTyped
<1>6. stdout' \in [Procs -> Seq(Message)]
  BY <1>3, WriteTyped
<1> QED
  BY <1>4, <1>5, <1>6 DEF KernelTyped

LEMMA TellTyped ==
    ASSUME NEW p \in Procs, NEW id \in Nat, inbox \in [Procs -> SUBSET Request], Tell(p, id)
    PROVE  inbox' \in [Procs -> SUBSET Request]
<1>1. \A r \in inbox[p] : [r EXCEPT !.stage = "told"] \in Request
  BY DEF Request
<1> QED
  BY <1>1 DEF Tell

-------------------------------------------------------------------------------
(* Every step of a goroutine keeps the types. *)
LEMMA BeginTyped ==
    ASSUME AcpAssumption, TypeInv, NEW c \in Callers, Begin(c)
    PROVE  TypeInv'
<1>1. ASSUME NEW k \in Keys, BeginPrompt(c, k) PROVE TypeInv'
  <2> DEFINE l == [NoLocal EXCEPT !.op = "prompt", !.key = k]
  <2>1. l \in Local /\ "lock" \in Labels
    BY <1>1, LocalTypes DEF BeginPrompt, Labels
  <2>2. CallersTyped'
    BY <1>1, <2>1, MoveWithTyped DEF BeginPrompt, TypeInv
  <2> QED
    BY <1>1, <2>2 DEF BeginPrompt, TypeInv, KernelTyped, ServerTyped, RuntimeTyped, processVars, serverVars
<1>2. ASSUME NEW k \in Keys, BeginNewSession(c, k) PROVE TypeInv'
  <2> DEFINE l == [NoLocal EXCEPT !.op = "newsession", !.key = k, !.from = activeSess]
  <2>1. l \in Local /\ "swap" \in Labels
    BY <1>2, LocalTypes DEF BeginNewSession, Labels, TypeInv, RuntimeTyped
  <2>2. CallersTyped'
    BY <1>2, <2>1, MoveWithTyped DEF BeginNewSession, MoveWith, TypeInv
  <2> QED
    BY <1>2, <2>2 DEF BeginNewSession, TypeInv, KernelTyped, ServerTyped, RuntimeTyped, processVars, serverVars
<1>3. ASSUME NEW v \in Configs, BeginSync(c, v) PROVE TypeInv'
  <2> DEFINE l == [NoLocal EXCEPT !.op = "sync", !.then = "finish"]
  <2>1. l \in Local /\ "compare" \in Labels
    BY <1>3, LocalTypes DEF BeginSync, Labels
  <2>2. CallersTyped'
    BY <1>3, <2>1, MoveWithTyped DEF BeginSync, MoveWith, TypeInv
  <2> QED
    BY <1>3, <2>2 DEF BeginSync, TypeInv, KernelTyped, ServerTyped, RuntimeTyped, processVars, serverVars
<1> QED
  BY <1>1, <1>2, <1>3 DEF Begin

LEMMA StartTyped ==
    ASSUME AcpAssumption, TypeInv, NEW c \in Callers, StartStep(c)
    PROVE  TypeInv'
<1> USE DEF TypeInv
<1>1. loc[c] \in Local
  BY DEF CallersTyped
<1>2. {"lookup", "spawn", "init", "undo", "failed", "ensure", "finish"} \subseteq Labels \ {"wait"}
  BY DEF Labels, Method
<1>3. CASE EnsureStarted(c)
  <2>1. [loc[c] EXCEPT !.then = "lookup"] \in Local
    BY <1>1, LocalUpdates
  <2>2. Move(c, "lookup") \/ MoveWith(c, "spawn", [loc[c] EXCEPT !.then = "lookup"])
    BY <1>3 DEF EnsureStarted
  <2>3. CallersTyped'
    BY <1>2, <2>1, <2>2, MoveTyped, MoveWithTyped DEF MoveWith
  <2> QED
    BY <1>3, <2>3 DEF EnsureStarted, KernelTyped, ServerTyped, RuntimeTyped, processVars, serverVars, runtimeVars
<1>4. CASE Spawn(c)
  <2> DEFINE p == CHOOSE q \in Procs : child[q] = "unborn"
  <2>1. p \in Procs
    BY <1>4, Zenon DEF Spawn
  <2>2. Launch(p) /\ proc' = p
    BY <1>4 DEF Spawn
  <2>3. KernelTyped'
    BY <2>1, <2>2, LaunchTyped
  <2>4. [loc[c] EXCEPT !.cfg = cfg] \in Local
    BY <1>1, LocalUpdates DEF RuntimeTyped
  <2>5. CallersTyped'
    BY <1>2, <1>4, <2>4, MoveWithTyped DEF Spawn, MoveWith
  <2> HIDE DEF p
  <2> QED
    BY <1>4, <2>1, <2>2, <2>3, <2>5 DEF Spawn, ServerTyped, RuntimeTyped, runtimeVars
<1>5. CASE SpawnFails(c)
  <2>1. CallersTyped'
    BY <1>5, FailTyped DEF SpawnFails
  <2> QED
    BY <1>5, <2>1 DEF SpawnFails, KernelTyped, ServerTyped, RuntimeTyped, processVars, serverVars, runtimeVars
<1>6. CASE Connect(c)
  <2>1. loc[c].then \in Labels \ {"wait"} /\ loc[c].cfg \in Configs \cup {NoConfig}
    BY <1>1, <1>2, LocalFields
  <2>2. CallersTyped'
    BY <1>6, <2>1, MoveTyped DEF Connect
  <2> QED
    BY <1>6, <2>1, <2>2 DEF Connect, KernelTyped, ServerTyped, RuntimeTyped, processVars, runtimeVars
<1>7. CASE UndoStart(c)
  <2>1. CallersTyped'
    BY <1>2, <1>7, MoveTyped DEF UndoStart
  <2> QED
    BY <1>7, <2>1, KillLockedTyped DEF UndoStart, RuntimeTyped, runtimeVars
<1> QED
  BY <1>3, <1>4, <1>5, <1>6, <1>7 DEF StartStep

(* The request c sends from its label. *)
RequestOf(c) ==
    [id |-> nextID + 1, by |-> c, method |-> pc[c], sid |-> SidOf(c), stage |-> "sent"]

LEMMA RequestTyped ==
    ASSUME AcpAssumption, TypeInv, NEW c \in Callers, RequestStep(c)
    PROVE  TypeInv'
<1> USE DEF TypeInv
<1>1. loc[c] \in Local
  BY DEF CallersTyped
<1>2. nextID + 1 \in Nat
  BY DEF ServerTyped
<1>3. CASE RequestSent(c)
  <2>1. pc[c] \in Method /\ proc \in Procs
    BY <1>3 DEF RequestSent, Running
  <2>2. RequestOf(c) \in Request
    <3>1. SidOf(c) \in SidOrNone
      BY <1>1, LocalFields DEF SidOf, SidOrNone
    <3> QED
      BY <1>2, <2>1, <3>1 DEF RequestOf, Request, SidOrNone
  <2>3. KernelTyped'
    BY <1>3, <2>1, <2>2 DEF RequestSent, Deliver, RequestOf, KernelTyped
  <2>4. ServerTyped'
    BY <1>2, <1>3 DEF RequestSent, ServerTyped
  <2>5. [loc[c] EXCEPT !.method = pc[c], !.id = nextID + 1] \in Local
    BY <1>1, <1>2, <2>1, LocalUpdates
  <2>6. [loc[c] EXCEPT !.method = pc[c], !.id = nextID + 1].method = pc[c]
    BY <1>1 DEF Local
  <2>7. CallersTyped'
    BY <1>3, <2>1, <2>5, <2>6, MoveWithTyped DEF RequestSent, MoveWith, Labels
  <2> QED
    BY <1>3, <2>3, <2>4, <2>7 DEF RequestSent, RuntimeTyped, runtimeVars
<1>4. CASE RequestUnsent(c)
  <2>1. OnError(c)[pc[c]] \in Labels \ {"wait"} /\ ErrorOf(pc[c], "gone") \in {"none", "gone", "other"}
    BY <1>4, LabelTypes DEF RequestUnsent
  <2>2. [loc[c] EXCEPT !.err = ErrorOf(pc[c], "gone")] \in Local
    BY <1>1, <2>1, LocalUpdates
  <2>3. CallersTyped'
    BY <1>4, <2>1, <2>2, MoveWithTyped DEF RequestUnsent, MoveWith
  <2> QED
    BY <1>4, <2>3 DEF RequestUnsent, KernelTyped, ServerTyped, RuntimeTyped, processVars, serverVars, runtimeVars
<1>5. CASE RequestBroken(c)
  <2>1. OnError(c)[pc[c]] \in Labels \ {"wait"} /\ ErrorOf(pc[c], "other") \in {"none", "gone", "other"}
    BY <1>5, LabelTypes DEF RequestBroken
  <2>2. [loc[c] EXCEPT !.err = ErrorOf(pc[c], "other")] \in Local
    BY <1>1, <2>1, LocalUpdates
  <2>3. CallersTyped'
    BY <1>5, <2>1, <2>2, MoveWithTyped DEF RequestBroken, MoveWith
  <2> QED
    BY <1>2, <1>5, <2>3 DEF RequestBroken, KernelTyped, ServerTyped, RuntimeTyped, processVars, runtimeVars
<1>6. CASE Receive(c)
  <2>1. loc[c].method \in Method
    BY <1>6 DEF Receive, At, CallersTyped
  <2> DEFINE m == loc[c].method
  <2>2. /\ OnAnswer(c)[m] \in Labels \ {"wait"} /\ OnError(c)[m] \in Labels \ {"wait"}
        /\ ErrorOf(m, "other") \in {"none", "gone", "other"}
        /\ ErrorOf(m, "gone") \in {"none", "gone", "other"}
    BY <2>1, LabelTypes
  <2>3. mail[c] \in Mail
    BY DEF CallersTyped
  <2>4. mail[c].kind \in {"answer", "error", "gone"}
    BY <1>6, <2>3 DEF Receive, Mail, Message, NoMail, GoneMail
  <2>5. ASSUME mail[c].kind = "answer" PROVE CallersTyped'
    <3>1. mail[c].sid \in SidOrNone
      BY <2>3, <2>5 DEF Mail, Message, NoMail, GoneMail, SidOrNone
    <3>2. Resume(c, OnAnswer(c)[m], "none", mail[c].sid)
      BY <1>6, <2>5 DEF Receive
    <3> QED
      BY <2>2, <3>1, <3>2, ResumeTyped
  <2>6. ASSUME mail[c].kind = "error" PROVE CallersTyped'
    BY <1>6, <2>2, <2>6, ResumeTyped DEF Receive, SidOrNone
  <2>7. ASSUME mail[c].kind = "gone" PROVE CallersTyped'
    BY <1>6, <2>2, <2>7, ResumeTyped DEF Receive, SidOrNone
  <2>8. CallersTyped'
    BY <2>4, <2>5, <2>6, <2>7
  <2> QED
    BY <1>6, <2>8 DEF Receive, KernelTyped, ServerTyped, RuntimeTyped, processVars, serverVars, runtimeVars
<1> QED
  BY <1>3, <1>4, <1>5, <1>6 DEF RequestStep

LEMMA AbandonTyped ==
    ASSUME TypeInv, NEW c \in Callers, Abandon(c)
    PROVE  TypeInv'
<1> USE DEF TypeInv
<1>1. loc[c].method \in Method
  BY DEF Abandon, At, CallersTyped
<1>2. /\ OnTimeout(c)[loc[c].method] \in Labels \ {"wait"}
      /\ ErrorOf(loc[c].method, "other") \in {"none", "gone", "other"}
  BY <1>1, LabelTypes
<1>3. CallersTyped'
  BY <1>2, ResumeTyped DEF Abandon, SidOrNone
<1> QED
  BY <1>3 DEF Abandon, KernelTyped, ServerTyped, RuntimeTyped, processVars, runtimeVars

LEMMA SessionTyped ==
    ASSUME TypeInv, NEW c \in Callers, SessionStep(c)
    PROVE  TypeInv'
<1> USE DEF TypeInv
<1>1. loc[c] \in Local /\ loc[c].sid \in SidOrNone /\ loc[c].old \in SidOrNone
  BY LocalFields DEF CallersTyped
<1>2. {"new", "mode", "close", "ensure"} \subseteq Labels \ {"wait"} /\ Opened(c) \in Labels \ {"wait"}
  BY DEF Labels, Method, Opened
<1>3. CASE Lookup(c)
  <2>1. sessions[loc[c].key] \in SidOrNone
    BY <1>1, LocalFields DEF ServerTyped
  <2>2. /\ [loc[c] EXCEPT !.sid = sessions[loc[c].key]] \in Local
        /\ [loc[c] EXCEPT !.sid = NoSid] \in Local
    BY <1>1, <2>1, LocalUpdates DEF SidOrNone
  <2>3. CallersTyped'
    BY <1>2, <1>3, <2>2, MoveWithTyped DEF Lookup, MoveWith
  <2> QED
    BY <1>3, <2>3 DEF Lookup, KernelTyped, ServerTyped, RuntimeTyped, processVars, serverVars, runtimeVars
<1>4. CASE Store(c)
  <2>1. CallersTyped'
    BY <1>2, <1>4, MoveTyped DEF Store
  <2> QED
    BY <1>1, <1>4, <2>1 DEF Store, KernelTyped, ServerTyped, RuntimeTyped, processVars, runtimeVars
<1>5. CASE Swap(c)
  <2>1. sessions[loc[c].from] \in SidOrNone
    BY <1>1, LocalFields DEF ServerTyped
  <2>2. [loc[c] EXCEPT !.old = sessions[loc[c].from]] \in Local
    BY <1>1, <2>1, LocalUpdates
  <2>3. CallersTyped'
    BY <1>2, <1>5, <2>2, MoveWithTyped DEF Swap, MoveWith
  <2> QED
    BY <1>5, <2>3 DEF Swap, KernelTyped, ServerTyped, RuntimeTyped, processVars, serverVars, runtimeVars
<1>6. CASE Forget(c)
  <2>1. CallersTyped'
    BY <1>2, <1>6, MoveTyped DEF Forget
  <2> QED
    BY <1>6, <2>1 DEF Forget, KernelTyped, ServerTyped, RuntimeTyped, SidOrNone, processVars, runtimeVars
<1> QED
  BY <1>3, <1>4, <1>5, <1>6 DEF SessionStep

LEMMA PromptTyped ==
    ASSUME AcpAssumption, TypeInv, NEW c \in Callers, PromptStep(c)
    PROVE  TypeInv'
<1> USE DEF TypeInv
<1>1. loc[c] \in Local
  BY DEF CallersTyped
<1>2. {"ensure", "idle", "prompt", "unhandle", "finish", "failed", "restart"} \subseteq Labels \ {"wait"}
  BY DEF Labels, Method
<1>3. CASE Lock(c)
  <2>1. CallersTyped'
    BY <1>2, <1>3, MoveTyped DEF Lock
  <2> QED
    BY <1>3, <2>1 DEF Lock, KernelTyped, ServerTyped, RuntimeTyped, processVars, serverVars
<1>4. CASE Handle(c)
  <2>1. CallersTyped'
    BY <1>2, <1>4, MoveTyped DEF Handle
  <2> QED
    BY <1>4, <2>1 DEF Handle, KernelTyped, ServerTyped, RuntimeTyped, processVars, runtimeVars
<1>5. CASE Cancel(c)
  <2>1. CallersTyped'
    BY <1>2, <1>5, MoveTyped DEF Cancel
  <2> QED
    BY <1>5, <2>1 DEF Cancel, KernelTyped, ServerTyped, RuntimeTyped, processVars, runtimeVars
<1>6. CASE Unhandle(c)
  <2>1. CallersTyped'
    BY <1>2, <1>6, MoveTyped DEF Unhandle
  <2> QED
    BY <1>6, <2>1 DEF Unhandle, KernelTyped, ServerTyped, RuntimeTyped, processVars, runtimeVars
<1>7. CASE Failed(c)
  <2>1. [loc[c] EXCEPT !.attempt = 2, !.err = "none", !.then = "ensure"] \in Local
    BY <1>1, LocalUpdates
  <2>2. CallersTyped'
    BY <1>2, <1>7, <2>1, MoveTyped, MoveWithTyped DEF Failed, MoveWith
  <2> QED
    BY <1>7, <2>2 DEF Failed, KernelTyped, ServerTyped, RuntimeTyped, processVars, serverVars, runtimeVars
<1>8. CASE Finish(c)
  <2>1. CallersTyped'
    BY <1>2, <1>8, LocalTypes, MoveWithTyped DEF Finish, MoveWith
  <2> QED
    BY <1>8, <2>1 DEF Finish, KernelTyped, ServerTyped, RuntimeTyped, processVars, serverVars
<1> QED
  BY <1>3, <1>4, <1>5, <1>6, <1>7, <1>8 DEF PromptStep

LEMMA SwitchTyped ==
    ASSUME TypeInv, NEW c \in Callers, SwitchStep(c)
    PROVE  TypeInv'
<1> USE DEF TypeInv
<1>1. {"spawn", "restart", "finish"} \subseteq Labels \ {"wait"}
  BY DEF Labels
<1>2. CASE Restart(c)
  <2>1. CallersTyped'
    BY <1>1, <1>2, MoveTyped, FailTyped DEF Restart
  <2> QED
    BY <1>2, <2>1, KillLockedTyped DEF Restart, RuntimeTyped, runtimeVars
<1>3. CASE Compare(c)
  <2>1. CallersTyped'
    BY <1>1, <1>3, MoveTyped DEF Compare
  <2> QED
    BY <1>3, <2>1 DEF Compare, KernelTyped, ServerTyped, RuntimeTyped, processVars, serverVars, runtimeVars
<1> QED
  BY <1>2, <1>3 DEF SwitchStep

(* A line that is read is a message. *)
LEMMA HeadTyped ==
    ASSUME NEW s \in Seq(Message), s # <<>>
    PROVE  Head(s) \in Message /\ Tail(s) \in Seq(Message) /\ Head(s).id \in Nat
<1>1. Head(s) \in Message /\ Tail(s) \in Seq(Message)
  OBVIOUS
<1> QED
  BY <1>1 DEF Message

LEMMA ReadLoopTyped ==
    ASSUME TypeInv, NEW p \in Procs, ReadLoop(p)
    PROVE  TypeInv'
<1> USE DEF TypeInv
<1> DEFINE m == Head(stdout[p])
<1>1. m \in Message /\ Tail(stdout[p]) \in Seq(Message) /\ m.id \in Nat
  BY HeadTyped DEF ReadLoop, KernelTyped
<1>2. stdout' \in [Procs -> Seq(Message)] /\ child' = child
  BY <1>1 DEF ReadLoop, KernelTyped
<1>3. UNCHANGED <<proc, nextID, sessions, spawnedCfg, pc, loc, cfg, activeSess>>
  BY DEF ReadLoop, runtimeVars
<1>4. CASE DispatchAnswer(m)
  <2>1. m \in Mail
    BY <1>1, <1>4 DEF DispatchAnswer, Mail
  <2>2. mail' \in [Callers -> Mail]
    BY <1>4, <2>1 DEF DispatchAnswer, CallersTyped
  <2> QED
    BY <1>2, <1>3, <1>4, <2>2 DEF DispatchAnswer, KernelTyped, ServerTyped, RuntimeTyped, CallersTyped
<1>5. CASE DispatchUpdate(m)
  BY <1>2, <1>3, <1>5 DEF DispatchUpdate, KernelTyped, ServerTyped, RuntimeTyped, CallersTyped
<1>6. CASE DispatchPermission(m)
  <2>1. inbox' \in [Procs -> SUBSET Request]
    BY <1>1, <1>6, TellTyped DEF DispatchPermission, Running, KernelTyped
  <2> QED
    BY <1>2, <1>3, <1>6, <2>1 DEF DispatchPermission, KernelTyped, ServerTyped, RuntimeTyped, CallersTyped
<1> QED
  BY <1>4, <1>5, <1>6 DEF ReadLoop

LEMMA WatchProcTyped ==
    ASSUME TypeInv, NEW p \in Procs, WatchProc(p)
    PROVE  TypeInv'
<1> USE DEF TypeInv
<1>1. KernelTyped'
  BY TerminateTyped DEF WatchProc
<1>2. UNCHANGED <<nextID, spawnedCfg, pc, loc, cfg, activeSess>>
  BY DEF WatchProc, runtimeVars
<1>3. CASE proc = p
  <2>1. proc' = NoProc /\ sessions' = NoSessions /\ pending' = {}
    BY <1>3 DEF WatchProc
  <2>2. mail' \in [Callers -> Mail]
    BY <1>3 DEF WatchProc, CallersTyped, Mail
  <2> QED
    BY <1>1, <1>2, <2>1, <2>2 DEF ServerTyped, RuntimeTyped, CallersTyped, NoSessions, SidOrNone
<1>4. CASE proc # p
  BY <1>1, <1>2, <1>4 DEF WatchProc, ServerTyped, RuntimeTyped, CallersTyped
<1> QED
  BY <1>3, <1>4

LEMMA KernelStepTyped ==
    ASSUME TypeInv, NEW p \in Procs, Kernel(p), UNCHANGED <<serverVars, callerVars, runtimeVars>>
    PROVE  TypeInv'
<1>1. KernelTyped'
  <2>1. ASSUME NEW r \in inbox[p], Answer(p, r) PROVE KernelTyped'
    BY <2>1, AnswerTyped DEF TypeInv
  <2>2. ASSUME NEW r \in inbox[p], AskPermission(p, r) PROVE KernelTyped'
    BY <2>2, AskPermissionTyped DEF TypeInv
  <2>3. CASE Die(p)
    BY <2>3 DEF Die, TypeInv, KernelTyped
  <2> QED
    BY <2>1, <2>2, <2>3 DEF Kernel
<1> QED
  BY <1>1 DEF TypeInv, ServerTyped, RuntimeTyped, CallersTyped, serverVars, callerVars, runtimeVars

LEMMA StopTyped ==
    ASSUME TypeInv, Stop
    PROVE  TypeInv'
<1>1. pc' \in [Callers -> Labels] /\ \A c \in Callers : pc'[c] # "wait"
  BY DEF Stop, Labels
<1> QED
  BY <1>1, KillLockedTyped DEF Stop, TypeInv, RuntimeTyped, CallersTyped, runtimeVars

LEMMA TypeInvHolds == Spec => []TypeInv
<1>1. Init => TypeInv
  <2> SUFFICES ASSUME Init PROVE TypeInv
    OBVIOUS
  <2>1. KernelTyped
    BY DEF Init, ProcessInit, KernelTyped
  <2>2. ServerTyped
    BY DEF Init, ServerTyped, SidOrNone
  <2>3. RuntimeTyped
    BY AcpAssumption DEF Init, RuntimeTyped, AcpAssumption
  <2>4. CallersTyped
    <3>1. "idle" \in Labels /\ NoLocal \in Local /\ NoMail \in Mail
      BY AcpAssumption, LocalTypes DEF Labels, Mail
    <3> QED
      BY <3>1 DEF Init, CallersTyped
  <2> QED
    BY <2>1, <2>2, <2>3, <2>4 DEF TypeInv
<1>2. TypeInv /\ [Next]_vars => TypeInv'
  <2> SUFFICES ASSUME TypeInv, [Next]_vars PROVE TypeInv'
    OBVIOUS
  <2> USE AcpAssumption
  <2>1. ASSUME NEW c \in Callers, Advance(c) PROVE TypeInv'
    BY <2>1, StartTyped, RequestTyped, SessionTyped, PromptTyped, SwitchTyped DEF Advance
  <2>2. ASSUME NEW c \in Callers, Begin(c) \/ Deadline(c) \/ ClientLeaves(c) PROVE TypeInv'
    BY <2>2, BeginTyped, AbandonTyped DEF Deadline, ClientLeaves
  <2>3. ASSUME NEW p \in Procs, ReadLoop(p) \/ WatchProc(p) PROVE TypeInv'
    BY <2>3, ReadLoopTyped, WatchProcTyped
  <2>4. ASSUME NEW p \in Procs, Kernel(p) /\ UNCHANGED <<serverVars, callerVars, runtimeVars>>
        PROVE  TypeInv'
    BY <2>4, KernelStepTyped
  <2>5. CASE Stop
    BY <2>5, StopTyped
  <2>6. CASE UNCHANGED vars
    BY <2>6 DEF vars, processVars, serverVars, callerVars, runtimeVars, TypeInv, KernelTyped,
                ServerTyped, RuntimeTyped, CallersTyped
  <2> QED
    BY <2>1, <2>2, <2>3, <2>4, <2>5, <2>6 DEF Next
<1> QED
  BY <1>1, <1>2, PTL DEF Spec

-------------------------------------------------------------------------------
(* Ownership of request ids.  f gives each id to one goroutine; whatever   *)
(* carries an id, written, answered or awaited, names the owner of the id, *)
(* and no id above nextID is in use.                                       *)
OwnedBy(f, n, x) == x.id <= n /\ x.by = f[x.id]

KernelOwned(f) ==
    \A p \in Procs : /\ \A r \in inbox[p] : OwnedBy(f, nextID, r)
                     /\ \A i \in 1 .. Len(stdout[p]) : OwnedBy(f, nextID, stdout[p][i])

TableOwned(f) == \A q \in pending : OwnedBy(f, nextID, q)

Owned(f) == KernelOwned(f) /\ TableOwned(f) /\ DeliveredToAsker

Owners == [Nat -> Callers \cup {NoCaller}]

IdsOwned == \E f \in Owners : Owned(f)

(* A step that touches neither ids, pipes, table nor channels. *)
LEMMA QuietOwned ==
    ASSUME NEW f \in Owners, Owned(f), UNCHANGED <<inbox, stdout, nextID, pending, mail>>
    PROVE  Owned(f)'
  BY DEF Owned, KernelOwned, TableOwned, DeliveredToAsker

(* A process that is terminated loses lines. *)
LEMMA TerminateOwned ==
    ASSUME NEW f \in Owners, NEW p \in Procs, KernelTyped, KernelOwned(f), Terminate(p), nextID' = nextID
    PROVE  KernelOwned(f)'
<1>1. PICK n \in 0 .. Len(stdout[p]) : stdout' = [stdout EXCEPT ![p] = SubSeq(stdout[p], 1, n)]
  BY DEF Terminate, Truncate
<1>2. stdout[p] \in Seq(Message) /\ inbox' = [inbox EXCEPT ![p] = {}]
  BY DEF KernelTyped, Terminate
<1>3. Len(SubSeq(stdout[p], 1, n)) = n /\ \A i \in 1 .. n : SubSeq(stdout[p], 1, n)[i] = stdout[p][i]
  BY <1>2
<1>4. ASSUME NEW q \in Procs
      PROVE  /\ \A r \in inbox'[q] : OwnedBy(f, nextID, r)
             /\ \A i \in 1 .. Len(stdout'[q]) : OwnedBy(f, nextID, stdout'[q][i])
  <2>1. CASE q = p
    <3>1. stdout'[q] = SubSeq(stdout[p], 1, n) /\ inbox'[q] = {}
      BY <1>1, <1>2, <2>1 DEF KernelTyped
    <3>2. \A i \in 1 .. n : i \in 1 .. Len(stdout[p])
      BY <1>2
    <3> QED
      BY <1>3, <3>1, <3>2 DEF KernelOwned
  <2>2. CASE q # p
    BY <1>1, <1>2, <2>2 DEF KernelTyped, KernelOwned
  <2> QED
    BY <2>1, <2>2
<1> QED
  BY <1>4 DEF KernelOwned

LEMMA KillLockedOwned ==
    ASSUME NEW f \in Owners, KernelTyped, ServerTyped, KernelOwned(f), TableOwned(f), KillLocked
    PROVE  KernelOwned(f)' /\ TableOwned(f)'
<1>1. CASE proc = NoProc
  BY <1>1 DEF KillLocked, KernelOwned, TableOwned, processVars, serverVars
<1>2. CASE proc # NoProc
  <2>1. proc \in Procs /\ Terminate(proc) /\ UNCHANGED <<nextID, pending>>
    BY <1>2 DEF KillLocked, ServerTyped
  <2>2. KernelOwned(f)'
    BY <2>1, TerminateOwned
  <2> QED
    BY <2>1, <2>2 DEF TableOwned
<1> QED
  BY <1>1, <1>2

(* What the kernel writes for a request bears the request's id. *)
LEMMA WriteOwned ==
    ASSUME NEW f \in Owners, NEW p \in Procs, KernelTyped, KernelOwned(f), nextID' = nextID,
           NEW s \in Seq(Message), Write(p, s), \A i \in 1 .. Len(s) : OwnedBy(f, nextID, s[i]),
           \A q \in Procs : \A r \in inbox'[q] : OwnedBy(f, nextID, r)
    PROVE  KernelOwned(f)'
<1>1. stdout[p] \in Seq(Message) /\ stdout' = [stdout EXCEPT ![p] = stdout[p] \o s]
  BY DEF KernelTyped, Write
<1>2. \A i \in 1 .. Len(stdout[p] \o s) :
         \/ i \in 1 .. Len(stdout[p]) /\ (stdout[p] \o s)[i] = stdout[p][i]
         \/ i - Len(stdout[p]) \in 1 .. Len(s) /\ (stdout[p] \o s)[i] = s[i - Len(stdout[p])]
  BY <1>1
<1>3. \A i \in 1 .. Len(stdout[p] \o s) : OwnedBy(f, nextID, (stdout[p] \o s)[i])
  BY <1>2 DEF KernelOwned
<1>4. \A q \in Procs : \A i \in 1 .. Len(stdout'[q]) : OwnedBy(f, nextID, stdout'[q][i])
  BY <1>1, <1>3 DEF KernelTyped, KernelOwned
<1> QED
  BY <1>4 DEF KernelOwned

LEMMA AnswerOwned ==
    ASSUME NEW f \in Owners, NEW p \in Procs, NEW r \in inbox[p], KernelTyped, KernelOwned(f),
           Answer(p, r), nextID' = nextID
    PROVE  KernelOwned(f)'
<1>1. r \in Request /\ r.sid \in SidOrNone /\ OwnedBy(f, nextID, r)
  BY DEF KernelTyped, KernelOwned, Request, SidOrNone
<1>2. \A q \in Procs : \A x \in inbox'[q] : OwnedBy(f, nextID, x)
  BY DEF Answer, KernelTyped, KernelOwned
<1>3. \A kind \in {"answer", "error", "update"}, s \in SidOrNone :
         Say(kind, r, s) \in Message /\ OwnedBy(f, nextID, Say(kind, r, s))
  BY <1>1, SayTyped DEF Say, OwnedBy
<1>4. PICK s \in Seq(Message) : Write(p, s) /\ \A i \in 1 .. Len(s) : OwnedBy(f, nextID, s[i])
  <2>1. NoSid \in SidOrNone /\ [proc |-> p, n |-> r.id] \in SidOrNone
    BY <1>1 DEF SidOrNone, Sid, Request
  <2>2. \A kind \in {"answer", "error", "update"}, s \in SidOrNone :
           LET one == <<Say(kind, r, s)>>
           IN  one \in Seq(Message) /\ \A i \in 1 .. Len(one) : OwnedBy(f, nextID, one[i])
    BY <1>3
  <2>3. CASE AnswerPlain(p, r)
    BY <2>1, <2>2, <2>3 DEF AnswerPlain
  <2>4. CASE AnswerNew(p, r)
    BY <2>1, <2>2, <2>4 DEF AnswerNew
  <2>5. CASE AnswerClose(p, r)
    BY <2>1, <2>2, <2>5 DEF AnswerClose
  <2>6. CASE AnswerPrompt(p, r)
    <3> DEFINE two == <<Say("update", r, r.sid), Say("answer", r, NoSid)>>
    <3>1. two \in Seq(Message) /\ \A i \in 1 .. Len(two) : OwnedBy(f, nextID, two[i])
      BY <1>1, <1>3, <2>1
    <3>2. Write(p, two) \/ Write(p, <<Say("error", r, NoSid)>>)
      BY <2>6 DEF AnswerPrompt
    <3> HIDE DEF two
    <3> QED
      BY <2>1, <2>2, <3>1, <3>2
  <2> QED
    BY <2>3, <2>4, <2>5, <2>6 DEF Answer
<1> QED
  BY <1>2, <1>4, WriteOwned

LEMMA AskPermissionOwned ==
    ASSUME NEW f \in Owners, NEW p \in Procs, NEW r \in inbox[p], KernelTyped, KernelOwned(f),
           AskPermission(p, r), nextID' = nextID
    PROVE  KernelOwned(f)'
<1> DEFINE s == <<Say("permission", r, r.sid)>>
<1> DEFINE asking == [r EXCEPT !.stage = "asking"]
<1>1. r \in Request /\ r.sid \in SidOrNone /\ OwnedBy(f, nextID, r)
  BY DEF KernelTyped, KernelOwned, Request, SidOrNone
<1>2. OwnedBy(f, nextID, asking)
  BY <1>1 DEF OwnedBy, Request
<1>3. inbox' = [inbox EXCEPT ![p] = (inbox[p] \ {r}) \cup {asking}]
  BY DEF AskPermission
<1>4. \A q \in Procs : \A x \in inbox'[q] : OwnedBy(f, nextID, x)
  <2> HIDE DEF asking
  <2> QED
    BY <1>2, <1>3 DEF KernelTyped, KernelOwned
<1>5. Say("permission", r, r.sid) \in Message /\ OwnedBy(f, nextID, Say("permission", r, r.sid))
  BY <1>1, SayTyped DEF Say, OwnedBy
<1>6. s \in Seq(Message) /\ Write(p, s) /\ \A i \in 1 .. Len(s) : OwnedBy(f, nextID, s[i])
  BY <1>5 DEF AskPermission
<1> QED
  BY <1>4, <1>6, WriteOwned

-------------------------------------------------------------------------------
(* A new request gets a new id, so its owner can be chosen. *)
LEMMA RequestSentOwned ==
    ASSUME AcpAssumption, NEW f \in Owners, TypeInv, Owned(f), NEW c \in Callers, RequestSent(c)
    PROVE  \E g \in Owners : Owned(g)'
<1> DEFINE id == nextID + 1
<1> DEFINE r == [id |-> id, by |-> c, method |-> pc[c], sid |-> SidOf(c), stage |-> "sent"]
<1>1. nextID \in Nat /\ id \in Nat /\ proc \in Procs
  BY DEF RequestSent, Running, TypeInv, ServerTyped
<1>2. PICK g \in Owners : g[id] = c /\ \A i \in Nat : i # id => g[i] = f[i]
  <2>1. [f EXCEPT ![id] = c] \in Owners
    BY <1>1 DEF Owners
  <2> QED
    BY <1>1, <2>1 DEF Owners
<1>3. ASSUME NEW x, x.id \in Nat, OwnedBy(f, nextID, x) PROVE OwnedBy(g, id, x)
  BY <1>1, <1>2, <1>3 DEF OwnedBy
<1>4. OwnedBy(g, id, r) /\ OwnedBy(g, id, [id |-> id, by |-> c])
  BY <1>1, <1>2 DEF OwnedBy
<1>5. nextID' = id /\ inbox' = [inbox EXCEPT ![proc] = inbox[proc] \cup {r}]
  BY DEF RequestSent, Deliver
<1>6. UNCHANGED <<stdout, mail>>
      /\ pending' = {q \in pending : q.id # id} \cup {[id |-> id, by |-> c]}
  BY DEF RequestSent, Deliver, MoveWith
<1> HIDE DEF id, r
<1>7. ASSUME NEW p \in Procs
      PROVE  /\ \A x \in inbox'[p] : OwnedBy(g, id, x)
             /\ \A i \in 1 .. Len(stdout[p]) : OwnedBy(g, id, stdout[p][i])
  <2>1. \A x \in inbox[p] : x.id \in Nat /\ OwnedBy(f, nextID, x)
    BY DEF TypeInv, KernelTyped, Request, Owned, KernelOwned
  <2>2. \A i \in 1 .. Len(stdout[p]) : stdout[p][i].id \in Nat /\ OwnedBy(f, nextID, stdout[p][i])
    <3>1. stdout[p] \in Seq(Message)
      BY DEF TypeInv, KernelTyped
    <3>2. \A i \in 1 .. Len(stdout[p]) : stdout[p][i] \in Message
      BY <3>1
    <3> QED
      BY <3>2 DEF Message, Owned, KernelOwned
  <2>3. \A x \in inbox'[p] : x \in inbox[p] \/ x = r
    BY <1>5 DEF TypeInv, KernelTyped
  <2> QED
    BY <1>3, <1>4, <2>1, <2>2, <2>3
<1>8. \A q \in pending' : OwnedBy(g, id, q)
  <2>1. \A q \in pending : q.id \in Nat /\ OwnedBy(f, nextID, q)
    BY DEF TypeInv, ServerTyped, Owned, TableOwned
  <2> QED
    BY <1>3, <1>4, <1>6, <2>1
<1>9. Owned(g)'
  BY <1>5, <1>6, <1>7, <1>8 DEF Owned, KernelOwned, TableOwned, DeliveredToAsker
<1> QED
  BY <1>9

(* A request that is not written uses an id up. *)
LEMMA RequestBrokenOwned ==
    ASSUME NEW f \in Owners, TypeInv, Owned(f), NEW c \in Callers, RequestBroken(c)
    PROVE  Owned(f)'
<1>1. nextID \in Nat /\ nextID' = nextID + 1
  BY DEF RequestBroken, TypeInv, ServerTyped
<1>2. UNCHANGED <<inbox, stdout, pending, mail>>
  BY DEF RequestBroken, MoveWith, processVars
<1>3. ASSUME NEW x, x.id \in Nat, OwnedBy(f, nextID, x) PROVE OwnedBy(f, nextID + 1, x)
  BY <1>1, <1>3 DEF OwnedBy
<1>4. KernelOwned(f)'
  <2>1. \A p \in Procs : \A x \in inbox[p] : x.id \in Nat /\ OwnedBy(f, nextID, x)
    BY DEF TypeInv, KernelTyped, Request, Owned, KernelOwned
  <2>2. ASSUME NEW p \in Procs, NEW i \in 1 .. Len(stdout[p])
        PROVE  stdout[p][i].id \in Nat /\ OwnedBy(f, nextID, stdout[p][i])
    <3>1. stdout[p][i] \in Message
      BY DEF TypeInv, KernelTyped
    <3> QED
      BY <3>1 DEF Message, Owned, KernelOwned
  <2> QED
    BY <1>1, <1>2, <1>3, <2>1, <2>2 DEF KernelOwned
<1>5. TableOwned(f)'
  <2>1. \A q \in pending : q.id \in Nat /\ OwnedBy(f, nextID, q)
    BY DEF TypeInv, ServerTyped, Owned, TableOwned
  <2> QED
    BY <1>1, <1>2, <1>3, <2>1 DEF TableOwned
<1> QED
  BY <1>2, <1>4, <1>5 DEF Owned, DeliveredToAsker

(* A goroutine that leaves its wait empties its channel. *)
LEMMA ResumeOwned ==
    ASSUME NEW f \in Owners, TypeInv, Owned(f), NEW c \in Callers, Receive(c) \/ Abandon(c)
    PROVE  Owned(f)'
<1>1. mail' = [mail EXCEPT ![c] = NoMail]
  <2>1. CASE Abandon(c)
    BY <2>1 DEF Abandon, Resume
  <2>2. CASE Receive(c)
    <3>1. mail[c].kind \in {"answer", "error", "gone"}
      BY <2>2 DEF Receive, TypeInv, CallersTyped, Mail, Message, GoneMail
    <3> QED
      BY <2>2, <3>1 DEF Receive, Resume
  <2> QED
    BY <2>1, <2>2
<1>2. UNCHANGED <<inbox, stdout, nextID>> /\ pending' \subseteq pending
  BY DEF Receive, Abandon, processVars, serverVars
<1>3. DeliveredToAsker'
  BY <1>1 DEF Owned, DeliveredToAsker, TypeInv, CallersTyped, NoMail
<1> QED
  BY <1>2, <1>3 DEF Owned, KernelOwned, TableOwned

LEMMA ReadLoopOwned ==
    ASSUME NEW f \in Owners, TypeInv, Owned(f), NEW p \in Procs, ReadLoop(p)
    PROVE  Owned(f)'
<1> DEFINE m == Head(stdout[p])
<1>1. stdout[p] \in Seq(Message) /\ stdout[p] # <<>>
  BY DEF ReadLoop, TypeInv, KernelTyped
<1>2. m \in Message /\ m.id \in Nat /\ m = stdout[p][1] /\ 1 \in 1 .. Len(stdout[p])
  BY <1>1, HeadTyped
<1>3. OwnedBy(f, nextID, m)
  BY <1>2 DEF Owned, KernelOwned
<1>4. stdout' = [stdout EXCEPT ![p] = Tail(stdout[p])] /\ nextID' = nextID
  BY DEF ReadLoop
<1>5. \A q \in Procs : \A i \in 1 .. Len(stdout'[q]) : OwnedBy(f, nextID, stdout'[q][i])
  <2>1. \A i \in 1 .. Len(Tail(stdout[p])) :
           i + 1 \in 1 .. Len(stdout[p]) /\ Tail(stdout[p])[i] = stdout[p][i + 1]
    BY <1>1
  <2> QED
    BY <1>4, <2>1 DEF Owned, KernelOwned, TypeInv, KernelTyped
<1>6. CASE DispatchAnswer(m)
  <2>1. inbox' = inbox /\ pending' \subseteq pending
    BY <1>6 DEF DispatchAnswer
  <2>2. \A c \in Callers : mail'[c] = mail[c] \/ ([id |-> m.id, by |-> c] \in pending /\ mail'[c] = m)
    BY <1>6 DEF DispatchAnswer
  <2>3. \A c \in Callers : [id |-> m.id, by |-> c] \in pending => m.by = c
    BY <1>3 DEF Owned, TableOwned, OwnedBy
  <2>4. DeliveredToAsker'
    BY <2>2, <2>3 DEF Owned, DeliveredToAsker
  <2> QED
    BY <1>4, <1>5, <2>1, <2>4 DEF Owned, KernelOwned, TableOwned
<1>7. CASE DispatchUpdate(m)
  BY <1>4, <1>5, <1>7 DEF DispatchUpdate, Owned, KernelOwned, TableOwned, DeliveredToAsker
<1>8. CASE DispatchPermission(m)
  <2>1. UNCHANGED <<pending, mail>>
    BY <1>8 DEF DispatchPermission
  <2>2. \A q \in Procs : \A r \in inbox'[q] : OwnedBy(f, nextID, r)
    <3>1. CASE Running(proc)
      <4>1. proc \in Procs /\ Tell(proc, m.id)
        BY <1>8, <3>1 DEF DispatchPermission, Running
      <4>2. \A r \in inbox[proc] : OwnedBy(f, nextID, [r EXCEPT !.stage = "told"])
        BY <4>1 DEF Owned, KernelOwned, OwnedBy, TypeInv, KernelTyped, Request
      <4> QED
        BY <4>1, <4>2 DEF Tell, Owned, KernelOwned, TypeInv, KernelTyped
    <3>2. CASE ~Running(proc)
      BY <1>8, <3>2 DEF DispatchPermission, Owned, KernelOwned
    <3> QED
      BY <3>1, <3>2
  <2> QED
    BY <1>4, <1>5, <2>1, <2>2 DEF Owned, KernelOwned, TableOwned, DeliveredToAsker
<1> QED
  BY <1>6, <1>7, <1>8 DEF ReadLoop

LEMMA WatchProcOwned ==
    ASSUME NEW f \in Owners, TypeInv, Owned(f), NEW p \in Procs, WatchProc(p)
    PROVE  Owned(f)'
<1>1. KernelOwned(f)'
  BY TerminateOwned DEF WatchProc, TypeInv, Owned
<1>2. nextID' = nextID /\ (pending' = pending \/ pending' = {})
  BY DEF WatchProc
<1>3. \A c \in Callers : mail'[c] \in {mail[c], GoneMail}
  BY DEF WatchProc
<1> QED
  BY <1>1, <1>2, <1>3 DEF Owned, TableOwned, DeliveredToAsker, GoneMail

LEMMA KernelStepOwned ==
    ASSUME NEW f \in Owners, TypeInv, Owned(f), NEW p \in Procs, Kernel(p),
           UNCHANGED <<serverVars, callerVars, runtimeVars>>
    PROVE  Owned(f)'
<1>1. UNCHANGED <<nextID, pending, mail>>
  BY DEF serverVars, callerVars
<1>2. KernelOwned(f)'
  <2>1. ASSUME NEW r \in inbox[p], Answer(p, r) PROVE KernelOwned(f)'
    BY <1>1, <2>1, AnswerOwned DEF TypeInv, Owned
  <2>2. ASSUME NEW r \in inbox[p], AskPermission(p, r) PROVE KernelOwned(f)'
    BY <1>1, <2>2, AskPermissionOwned DEF TypeInv, Owned
  <2>3. CASE Die(p)
    BY <1>1, <2>3 DEF Die, TypeInv, KernelTyped, Owned, KernelOwned
  <2> QED
    BY <2>1, <2>2, <2>3 DEF Kernel
<1> QED
  BY <1>1, <1>2 DEF Owned, TableOwned, DeliveredToAsker

(* The other steps of a goroutine: most are quiet, some stop a process. *)
LEMMA OtherOwned ==
    ASSUME NEW f \in Owners, TypeInv, Owned(f), NEW c \in Callers,
           \/ Begin(c) \/ StartStep(c) \/ RequestUnsent(c)
           \/ SessionStep(c) \/ PromptStep(c) \/ SwitchStep(c)
    PROVE  Owned(f)'
<1> DEFINE Quiet == UNCHANGED <<inbox, stdout, nextID, pending, mail>>
<1>1. CASE Begin(c)
  <2>1. Quiet
    BY <1>1 DEF Begin, BeginPrompt, BeginNewSession, BeginSync, MoveWith, processVars, serverVars
  <2> QED
    BY <2>1, QuietOwned
<1>2. CASE (UndoStart(c) \/ Restart(c))
  <2>1. KillLocked /\ mail' = mail
    BY <1>2 DEF UndoStart, Restart, Move, Fail, MoveWith
  <2> QED
    BY <2>1, KillLockedOwned DEF TypeInv, Owned, DeliveredToAsker
<1>3. CASE (EnsureStarted(c) \/ Spawn(c) \/ SpawnFails(c) \/ Connect(c) \/ RequestUnsent(c))
  <2>1. Quiet
    BY <1>3 DEF EnsureStarted, Spawn, SpawnFails, Connect, RequestUnsent, Launch, Move, Fail, MoveWith,
                processVars, serverVars
  <2> QED
    BY <2>1, QuietOwned
<1>4. CASE SessionStep(c)
  <2>1. Quiet
    BY <1>4 DEF SessionStep, Lookup, Store, Swap, Forget, Move, MoveWith, processVars, serverVars
  <2> QED
    BY <2>1, QuietOwned
<1>5. CASE (PromptStep(c) \/ Compare(c))
  <2>1. Quiet
    BY <1>5 DEF PromptStep, Lock, Handle, Cancel, Unhandle, Failed, Finish, Compare, Move, MoveWith,
                processVars, serverVars
  <2> QED
    BY <2>1, QuietOwned
<1> QED
  BY <1>1, <1>2, <1>3, <1>4, <1>5 DEF StartStep, SwitchStep

LEMMA IdsOwnedHolds == Spec => []IdsOwned
<1>1. Init => IdsOwned
  <2> SUFFICES ASSUME Init PROVE IdsOwned
    OBVIOUS
  <2> DEFINE f == [n \in Nat |-> NoCaller]
  <2>1. f \in Owners
    BY DEF Owners
  <2>2. Owned(f)
    BY DEF Init, ProcessInit, Owned, KernelOwned, TableOwned, DeliveredToAsker, NoMail
  <2> QED
    BY <2>1, <2>2 DEF IdsOwned
<1>2. TypeInv /\ IdsOwned /\ [Next]_vars => IdsOwned'
  <2> SUFFICES ASSUME TypeInv, NEW f \in Owners, Owned(f), [Next]_vars
               PROVE  \E g \in Owners : Owned(g)'
    BY DEF IdsOwned
  <2>1. ASSUME NEW c \in Callers, RequestSent(c) PROVE \E g \in Owners : Owned(g)'
    BY <2>1, AcpAssumption, RequestSentOwned
  <2>2. ASSUME NEW c \in Callers, Begin(c) \/ Advance(c) \/ Deadline(c) \/ ClientLeaves(c), ~RequestSent(c)
        PROVE  Owned(f)'
    <3>1. CASE RequestBroken(c)
      BY <3>1, RequestBrokenOwned
    <3>2. CASE (Receive(c) \/ Deadline(c) \/ ClientLeaves(c))
      BY <3>2, ResumeOwned DEF Deadline, ClientLeaves
    <3> QED
      BY <2>2, <3>1, <3>2, OtherOwned DEF Advance, RequestStep
  <2>3. ASSUME NEW p \in Procs, ReadLoop(p) \/ WatchProc(p) PROVE Owned(f)'
    BY <2>3, ReadLoopOwned, WatchProcOwned
  <2>4. ASSUME NEW p \in Procs, Kernel(p) /\ UNCHANGED <<serverVars, callerVars, runtimeVars>>
        PROVE  Owned(f)'
    BY <2>4, KernelStepOwned
  <2>5. CASE Stop
    BY <2>5, KillLockedOwned DEF Stop, TypeInv, Owned, DeliveredToAsker
  <2>6. CASE UNCHANGED vars
    <3>1. UNCHANGED <<inbox, stdout, nextID, pending, mail>>
      BY <2>6 DEF vars, processVars, serverVars, callerVars
    <3> QED
      BY <3>1, QuietOwned
  <2> QED
    BY <2>1, <2>2, <2>3, <2>4, <2>5, <2>6 DEF Next
<1> QED
  BY <1>1, <1>2, TypeInvHolds, PTL DEF Spec

(* An answer goes to the goroutine that asked, whatever dies, is given up  *)
(* or restarted: a request id never has two owners, because nextID is not  *)
(* reset with the process.                                                 *)
THEOREM AnswersReachAsker == Spec => []DeliveredToAsker
<1>1. IdsOwned => DeliveredToAsker
  BY DEF IdsOwned, Owned
<1> QED
  BY <1>1, IdsOwnedHolds, PTL

-------------------------------------------------------------------------------
(* The table of pending requests.  A goroutine is asked for by its own     *)
(* requests only while it waits, all of them bear the id it waits for, and *)
(* an answer in its channel means that none is left in the table.          *)
Waits(c) == pc[c] \in {"wait", "halted"}

PendingWaits == \A q \in pending : Waits(q.by) /\ loc[q.by].id = q.id

OneMail ==
    \A c \in Callers : mail[c] # NoMail => Waits(c) /\ \A q \in pending : q.by # c

WaitInv == PendingWaits /\ OneMail

(* What a step of c leaves alone: the other goroutines. *)
OthersKept(c) ==
    \A d \in Callers \ {c} : pc'[d] = pc[d] /\ loc'[d] = loc[d] /\ mail'[d] = mail[d]

(* A pipe loses requests, and lines at its end. *)
PipesShrink ==
    \A p \in Procs :
        /\ inbox'[p] \subseteq inbox[p]
        /\ 1 .. Len(stdout'[p]) \subseteq 1 .. Len(stdout[p])
        /\ \A i \in 1 .. Len(stdout'[p]) : stdout'[p][i] = stdout[p][i]

(* The steps of a goroutine that neither send nor wait. *)
Silent(c) ==
    \/ Begin(c) \/ StartStep(c) \/ RequestUnsent(c) \/ RequestBroken(c)
    \/ SessionStep(c) \/ PromptStep(c) \/ SwitchStep(c)

LEMMA TerminateShrinks ==
    ASSUME NEW p \in Procs, KernelTyped, Terminate(p)
    PROVE  PipesShrink
<1>1. PICK n \in 0 .. Len(stdout[p]) : stdout' = [stdout EXCEPT ![p] = SubSeq(stdout[p], 1, n)]
  BY DEF Terminate, Truncate
<1>2. stdout[p] \in Seq(Message) /\ inbox' = [inbox EXCEPT ![p] = {}]
  BY DEF KernelTyped, Terminate
<1>3. /\ Len(SubSeq(stdout[p], 1, n)) = n /\ 1 .. n \subseteq 1 .. Len(stdout[p])
      /\ \A i \in 1 .. n : SubSeq(stdout[p], 1, n)[i] = stdout[p][i]
  BY <1>2
<1>4. ASSUME NEW q \in Procs, q # p
      PROVE  inbox'[q] = inbox[q] /\ stdout'[q] = stdout[q]
  BY <1>1, <1>2, <1>4 DEF KernelTyped
<1>5. inbox'[p] = {} /\ stdout'[p] = SubSeq(stdout[p], 1, n)
  BY <1>1, <1>2 DEF KernelTyped
<1> QED
  BY <1>3, <1>4, <1>5 DEF PipesShrink

LEMMA KillLockedShrinks ==
    ASSUME KernelTyped, ServerTyped, KillLocked
    PROVE  PipesShrink /\ UNCHANGED <<pending, greeted, closed>> /\ handlers' \subseteq handlers
<1>1. CASE proc = NoProc
  BY <1>1 DEF KillLocked, PipesShrink, processVars, serverVars
<1>2. CASE proc # NoProc
  <2>1. proc \in Procs /\ Terminate(proc)
    BY <1>2 DEF KillLocked, ServerTyped
  <2>2. UNCHANGED <<pending, greeted, closed>> /\ handlers' \subseteq handlers
    BY <1>2, <2>1 DEF KillLocked, Terminate
  <2> QED
    BY <2>1, <2>2, TerminateShrinks
<1> QED
  BY <1>1, <1>2

LEMMA SilentShape ==
    ASSUME TypeInv, NEW c \in Callers, Silent(c)
    PROVE  /\ OthersKept(c) /\ PipesShrink /\ UNCHANGED <<mail, pending, greeted, closed>>
           /\ ~Waits(c) /\ ~Waits(c)'
<1> USE DEF TypeInv
<1> DEFINE Pipes == UNCHANGED <<inbox, stdout, pending, greeted, closed>>
<1> DEFINE Gone(from, to) ==
      pc[c] \in from /\ pc' = [pc EXCEPT ![c] = to] /\ mail' = mail
        /\ \E l : loc' = [loc EXCEPT ![c] = l]
<1> DEFINE Awake == Labels \ {"wait", "halted"}
<1>1. ASSUME NEW to \in Awake, Gone(Awake, to)
      PROVE  OthersKept(c) /\ mail' = mail /\ ~Waits(c) /\ ~Waits(c)'
  BY <1>1 DEF OthersKept, Waits, CallersTyped
<1>2. Pipes => PipesShrink /\ UNCHANGED <<pending, greeted, closed>>
  BY DEF PipesShrink
<1>3. ASSUME NEW to, Move(c, to) PROVE pc' = [pc EXCEPT ![c] = to] /\ mail' = mail
                                       /\ \E l : loc' = [loc EXCEPT ![c] = l]
  <2>1. loc' = [loc EXCEPT ![c] = loc[c]]
    BY <1>3 DEF Move, CallersTyped
  <2> QED
    BY <1>3, <2>1 DEF Move, Goto
<1>4. ASSUME NEW to, NEW l, MoveWith(c, to, l)
      PROVE  pc' = [pc EXCEPT ![c] = to] /\ mail' = mail /\ \E x : loc' = [loc EXCEPT ![c] = x]
  BY <1>4 DEF MoveWith, Goto
<1>5. \A to \in Labels : to \notin {"wait", "halted"} => to \in Awake
  OBVIOUS
<1> HIDE DEF Awake
<1>6. Method \subseteq Awake /\ Opened(c) \in Awake
  BY DEF Awake, Method, Labels, Opened
<1>7. {"idle", "lock", "ensure", "lookup", "spawn", "connect", "undo", "store", "handle", "cancel",
       "unhandle", "failed", "restart", "swap", "forget", "compare", "finish"} \subseteq Awake
  BY DEF Awake, Labels
<1>8. CASE Begin(c)
  <2>1. PICK to \in {"lock", "swap", "compare"} : Gone({"idle"}, to)
    <3>1. ASSUME NEW k \in Keys, BeginPrompt(c, k) PROVE Gone({"idle"}, "lock")
      BY <3>1 DEF BeginPrompt, Goto, At
    <3>2. ASSUME NEW k \in Keys, BeginNewSession(c, k) PROVE Gone({"idle"}, "swap")
      BY <3>2, <1>4 DEF BeginNewSession, At
    <3>3. ASSUME NEW v \in Configs, BeginSync(c, v) PROVE Gone({"idle"}, "compare")
      BY <3>3, <1>4 DEF BeginSync, At
    <3> QED
      BY <1>8, <3>1, <3>2, <3>3 DEF Begin
  <2>2. Pipes
    BY <1>8 DEF Begin, BeginPrompt, BeginNewSession, BeginSync, processVars, serverVars
  <2> QED
    BY <1>1, <1>2, <1>7, <2>1, <2>2
<1>9. CASE (EnsureStarted(c) \/ SpawnFails(c) \/ Connect(c))
  <2>1. loc[c].then \in Awake
    BY <1>7, LocalFields DEF CallersTyped
  <2>2. PICK to \in Awake : Gone(Awake, to)
    BY <1>3, <1>4, <1>7, <1>9, <2>1 DEF EnsureStarted, SpawnFails, Connect, Fail, At
  <2>3. Pipes
    BY <1>9 DEF EnsureStarted, SpawnFails, Connect, processVars, serverVars
  <2> QED
    BY <1>1, <1>2, <2>2, <2>3
<1>10. CASE Spawn(c)
  <2>1. Gone(Awake, "init") /\ "init" \in Awake
    BY <1>4, <1>6, <1>7, <1>10 DEF Spawn, Method, At
  <2>2. Pipes
    BY <1>10 DEF Spawn, Launch
  <2> QED
    BY <1>1, <1>2, <2>1, <2>2
<1>11. CASE (UndoStart(c) \/ Restart(c))
  <2>1. PICK to \in Awake : Gone(Awake, to)
    BY <1>3, <1>4, <1>7, <1>11 DEF UndoStart, Restart, Fail, At
  <2>2. PipesShrink /\ UNCHANGED <<pending, greeted, closed>>
    BY <1>11, KillLockedShrinks DEF UndoStart, Restart
  <2> QED
    BY <1>1, <2>1, <2>2
<1>12. CASE (RequestUnsent(c) \/ RequestBroken(c))
  <2>1. pc[c] \in Method /\ OnError(c)[pc[c]] \in Awake
    BY <1>12, LabelTypes DEF RequestUnsent, RequestBroken, Awake
  <2>2. PICK to \in Awake : Gone(Awake, to)
    BY <1>4, <1>6, <1>12, <2>1 DEF RequestUnsent, RequestBroken
  <2>3. Pipes
    BY <1>12 DEF RequestUnsent, RequestBroken, processVars, serverVars
  <2> QED
    BY <1>1, <1>2, <2>2, <2>3
<1>13. CASE SessionStep(c)
  <2>1. PICK to \in Awake : Gone(Awake, to)
    <3>1. "new" \in Awake /\ "mode" \in Awake /\ "close" \in Awake
      BY <1>6 DEF Method
    <3>2. ASSUME Lookup(c) PROVE \E to \in Awake : Gone(Awake, to)
      BY <1>4, <1>6, <1>7, <3>1, <3>2 DEF Lookup, At
    <3>3. ASSUME Store(c) PROVE \E to \in Awake : Gone(Awake, to)
      BY <1>3, <1>6, <1>7, <3>1, <3>3 DEF Store, At
    <3>4. ASSUME Swap(c) PROVE \E to \in Awake : Gone(Awake, to)
      BY <1>4, <1>7, <3>1, <3>4 DEF Swap, At
    <3>5. ASSUME Forget(c) PROVE \E to \in Awake : Gone(Awake, to)
      BY <1>3, <1>7, <3>5 DEF Forget, At
    <3> QED
      BY <1>13, <3>2, <3>3, <3>4, <3>5 DEF SessionStep
  <2>2. Pipes
    BY <1>13 DEF SessionStep, Lookup, Store, Swap, Forget, processVars, serverVars
  <2> QED
    BY <1>1, <1>2, <2>1, <2>2
<1>14. CASE (PromptStep(c) \/ Compare(c))
  <2>1. PICK to \in Awake : Gone(Awake, to)
    <3>1. "prompt" \in Awake
      BY <1>6 DEF Method
    <3>2. ASSUME Lock(c) \/ Handle(c) \/ Cancel(c) \/ Unhandle(c) \/ Compare(c)
          PROVE  \E to \in Awake : Gone(Awake, to)
      BY <1>3, <1>7, <3>1, <3>2 DEF Lock, Handle, Cancel, Unhandle, Compare, At
    <3>3. ASSUME Failed(c) \/ Finish(c) PROVE \E to \in Awake : Gone(Awake, to)
      BY <1>3, <1>4, <1>7, <3>3 DEF Failed, Finish, At
    <3> QED
      BY <1>14, <3>2, <3>3 DEF PromptStep
  <2>2. Pipes
    BY <1>14 DEF PromptStep, Lock, Handle, Cancel, Unhandle, Failed, Finish, Compare, processVars, serverVars
  <2> QED
    BY <1>1, <1>2, <2>1, <2>2
<1> QED
  BY <1>8, <1>9, <1>10, <1>11, <1>12, <1>13, <1>14 DEF Silent, StartStep, SwitchStep

(* A request is sent: c waits for the id it has drawn. *)
LEMMA SentShape ==
    ASSUME TypeInv, NEW c \in Callers, RequestSent(c)
    PROVE  /\ OthersKept(c) /\ mail' = mail /\ stdout' = stdout /\ pc[c] \in Method
           /\ ~Waits(c) /\ pc'[c] = "wait"
           /\ loc'[c].id = nextID + 1 /\ loc'[c].method = pc[c]
           /\ loc'[c].sid = loc[c].sid /\ loc'[c].old = loc[c].old /\ loc'[c].op = loc[c].op
           /\ pending' \subseteq pending \cup {[id |-> nextID + 1, by |-> c]}
<1> DEFINE l == [loc[c] EXCEPT !.method = pc[c], !.id = nextID + 1]
<1>1. /\ pc' = [pc EXCEPT ![c] = "wait"] /\ loc' = [loc EXCEPT ![c] = l]
      /\ mail' = mail /\ stdout' = stdout /\ pc[c] \in Method
      /\ pending' \subseteq pending \cup {[id |-> nextID + 1, by |-> c]}
  BY DEF RequestSent, MoveWith, Goto, Deliver
<1>2. /\ l.id = nextID + 1 /\ l.method = pc[c]
      /\ l.sid = loc[c].sid /\ l.old = loc[c].old /\ l.op = loc[c].op
  BY DEF TypeInv, CallersTyped, Local
<1> HIDE DEF l
<1>3. pc \in [Callers -> Labels] /\ loc \in [Callers -> Local]
  BY DEF TypeInv, CallersTyped
<1>4. loc'[c] = l /\ pc'[c] = "wait" /\ OthersKept(c)
  BY <1>1, <1>3 DEF OthersKept
<1>5. ~Waits(c)
  BY <1>1 DEF Waits, Method
<1> QED
  BY <1>1, <1>2, <1>4, <1>5

(* c leaves its wait: for the label that the answer, the error or the end  *)
(* of its context leads to, with its channel empty.                        *)
Resumed(c, label, err, sid) ==
    /\ pc'[c] = label
    /\ loc'[c] = [loc[c] EXCEPT !.method = "none", !.id = 0, !.err = err, !.sid = sid]

LEMMA ResumeShape ==
    ASSUME TypeInv, NEW c \in Callers, Receive(c) \/ Abandon(c)
    PROVE  /\ OthersKept(c) /\ mail'[c] = NoMail /\ pc[c] = "wait"
           /\ loc[c].method \in Method
           /\ UNCHANGED <<processVars, handlers, proc, connected, reply>>
           /\ \/ /\ mail[c].kind = "answer" /\ pending' = pending /\ mail[c] # NoMail
                 /\ Resumed(c, OnAnswer(c)[loc[c].method], "none",
                            IF mail[c].sid = NoSid THEN loc[c].sid ELSE mail[c].sid)
              \/ /\ mail[c] # NoMail /\ pending' = pending
                 /\ \E e \in {"gone", "other"} :
                       Resumed(c, OnError(c)[loc[c].method], ErrorOf(loc[c].method, e), loc[c].sid)
              \/ /\ pending' = {q \in pending : q.id # loc[c].id}
                 /\ Resumed(c, OnTimeout(c)[loc[c].method], ErrorOf(loc[c].method, "other"), loc[c].sid)
<1> DEFINE m == loc[c].method
<1>1. pc[c] = "wait" /\ m \in Method
  BY DEF Receive, Abandon, At, TypeInv, CallersTyped
<1>2. ASSUME NEW label, NEW e, NEW s, Resume(c, label, e, s)
      PROVE  /\ Resumed(c, label, e, IF s = NoSid THEN loc[c].sid ELSE s)
             /\ OthersKept(c) /\ mail'[c] = NoMail /\ reply' = reply
  BY <1>2 DEF Resume, Goto, Resumed, OthersKept, TypeInv, CallersTyped
<1>3. CASE Abandon(c)
  <2>1. Resume(c, OnTimeout(c)[m], ErrorOf(m, "other"), NoSid)
    BY <1>3 DEF Abandon
  <2>2. pending' = {q \in pending : q.id # loc[c].id}
        /\ UNCHANGED <<processVars, handlers, proc, connected>>
    BY <1>3 DEF Abandon
  <2> QED
    BY <1>1, <1>2, <2>1, <2>2
<1>4. CASE Receive(c)
  <2>1. mail[c] # NoMail /\ mail[c].kind \in {"answer", "error", "gone"}
    BY <1>4 DEF Receive, TypeInv, CallersTyped, Mail, Message, GoneMail
  <2>2. pending' = pending /\ UNCHANGED <<processVars, handlers, proc, connected>>
    BY <1>4 DEF Receive, serverVars
  <2>3. CASE mail[c].kind = "answer"
    <3>1. Resume(c, OnAnswer(c)[m], "none", mail[c].sid)
      BY <1>4, <2>3 DEF Receive
    <3> QED
      BY <1>1, <1>2, <2>1, <2>2, <2>3, <3>1
  <2>4. CASE mail[c].kind = "error"
    <3>1. Resume(c, OnError(c)[m], ErrorOf(m, "other"), NoSid)
      BY <1>4, <2>4 DEF Receive
    <3> QED
      BY <1>1, <1>2, <2>1, <2>2, <3>1
  <2>5. CASE mail[c].kind = "gone"
    <3>1. Resume(c, OnError(c)[m], ErrorOf(m, "gone"), NoSid)
      BY <1>4, <2>5 DEF Receive
    <3> QED
      BY <1>1, <1>2, <2>1, <2>2, <3>1
  <2> QED
    BY <2>1, <2>3, <2>4, <2>5
<1> QED
  BY <1>3, <1>4

(* What the readLoop does with the channels. *)
LEMMA ReadShape ==
    ASSUME TypeInv, NEW p \in Procs, ReadLoop(p)
    PROVE  LET m == Head(stdout[p])
           IN  /\ m \in Message /\ UNCHANGED <<pc, loc, handlers, proc, greeted, closed, child>>
               /\ \/ mail' = mail /\ pending' = pending
                  \/ /\ m.kind \in {"answer", "error"} /\ pending' = {q \in pending : q.id # m.id}
                     /\ \A c \in Callers : \/ mail'[c] = mail[c] /\ [id |-> m.id, by |-> c] \notin pending
                                           \/ mail'[c] = m /\ [id |-> m.id, by |-> c] \in pending
<1> DEFINE m == Head(stdout[p])
<1>1. m \in Message
  BY HeadTyped DEF ReadLoop, TypeInv, KernelTyped
<1>2. UNCHANGED <<pc, loc, handlers, proc, greeted, closed, child>>
  BY DEF ReadLoop
<1>3. CASE DispatchAnswer(m)
  BY <1>1, <1>2, <1>3 DEF DispatchAnswer
<1>4. CASE (DispatchUpdate(m) \/ DispatchPermission(m))
  BY <1>1, <1>2, <1>4 DEF DispatchUpdate, DispatchPermission
<1> QED
  BY <1>3, <1>4 DEF ReadLoop

(* What watchProc does: pipes shrink, and the table is answered or kept. *)
LEMMA WatchShape ==
    ASSUME TypeInv, NEW p \in Procs, WatchProc(p)
    PROVE  /\ PipesShrink /\ UNCHANGED <<pc, loc, reply, greeted, closed>> /\ handlers' \subseteq handlers
           /\ \/ UNCHANGED <<mail, pending, proc, connected, handlers>> /\ proc # p
              \/ /\ pending' = {} /\ proc' = NoProc /\ proc = p /\ connected' = FALSE
                 /\ \A c \in Callers : \/ mail'[c] = mail[c]
                                       \/ mail'[c] = GoneMail /\ \E q \in pending : q.by = c
<1>1. PipesShrink
  BY TerminateShrinks DEF WatchProc, TypeInv
<1>2. UNCHANGED <<pc, loc, reply, greeted, closed>> /\ handlers' \subseteq handlers
  BY DEF WatchProc, Terminate
<1>3. CASE proc = p
  BY <1>1, <1>2, <1>3 DEF WatchProc
<1>4. CASE proc # p
  BY <1>1, <1>2, <1>4 DEF WatchProc
<1> QED
  BY <1>3, <1>4

LEMMA StopShape ==
    ASSUME TypeInv, Stop
    PROVE  /\ PipesShrink /\ UNCHANGED <<loc, mail, reply, pending, greeted, closed, promptMu>>
           /\ handlers' \subseteq handlers /\ \A c \in Callers : pc'[c] = "halted"
  BY KillLockedShrinks DEF Stop, TypeInv, runtimeVars

(* The kernel touches the pipes only; whoever empties the channel of a     *)
(* goroutine has taken its entry out of the table.                         *)
LEMMA WaitInvStep ==
    ASSUME AcpAssumption, TypeInv, WaitInv, [Next]_vars
    PROVE  WaitInv'
<1>1. ASSUME NEW c \in Callers, Silent(c) PROVE WaitInv'
  <2>1. OthersKept(c) /\ mail' = mail /\ pending' = pending /\ ~Waits(c)
    BY <1>1, SilentShape
  <2>2. mail[c] = NoMail /\ \A q \in pending : q.by # c
    BY <2>1 DEF WaitInv, OneMail, PendingWaits
  <2> QED
    BY <2>1, <2>2 DEF WaitInv, OneMail, PendingWaits, OthersKept, Waits, TypeInv, ServerTyped
<1>2. ASSUME NEW c \in Callers, RequestSent(c) PROVE WaitInv'
  <2>1. /\ OthersKept(c) /\ mail' = mail /\ ~Waits(c) /\ pc'[c] = "wait" /\ loc'[c].id = nextID + 1
        /\ pending' \subseteq pending \cup {[id |-> nextID + 1, by |-> c]}
    BY <1>2, SentShape
  <2>2. mail[c] = NoMail /\ \A q \in pending : q.by # c
    BY <2>1 DEF WaitInv, OneMail, PendingWaits
  <2> QED
    BY <2>1, <2>2 DEF WaitInv, OneMail, PendingWaits, OthersKept, Waits, TypeInv, ServerTyped
<1>3. ASSUME NEW c \in Callers, Receive(c) \/ Abandon(c) PROVE WaitInv'
  <2>1. OthersKept(c) /\ mail'[c] = NoMail /\ pc[c] = "wait"
    BY <1>3, ResumeShape
  <2>2. pending' \subseteq pending /\ \A q \in pending' : q.by # c
    <3>1. CASE pending' = pending /\ mail[c] # NoMail
      BY <3>1 DEF WaitInv, OneMail
    <3>2. CASE pending' = {q \in pending : q.id # loc[c].id}
      BY <3>2 DEF WaitInv, PendingWaits
    <3> QED
      BY <1>3, <3>1, <3>2, ResumeShape
  <2> QED
    BY <2>1, <2>2 DEF WaitInv, OneMail, PendingWaits, OthersKept, Waits, TypeInv, ServerTyped
<1>4. ASSUME NEW p \in Procs, ReadLoop(p) PROVE WaitInv'
  <2> DEFINE m == Head(stdout[p])
  <2>1. m \in Message /\ UNCHANGED <<pc, loc>>
    BY <1>4, ReadShape
  <2>2. CASE mail' = mail /\ pending' = pending
    BY <2>1, <2>2 DEF WaitInv, OneMail, PendingWaits, Waits
  <2>3. CASE /\ pending' = {q \in pending : q.id # m.id}
             /\ \A c \in Callers : \/ mail'[c] = mail[c]
                                   \/ mail'[c] = m /\ [id |-> m.id, by |-> c] \in pending
    <3>1. \A c \in Callers : [id |-> m.id, by |-> c] \in pending =>
             Waits(c) /\ loc[c].id = m.id /\ \A q \in pending : q.by = c => q.id = m.id
      BY DEF WaitInv, PendingWaits
    <3> HIDE DEF m
    <3>2. PendingWaits'
      BY <2>1, <2>3 DEF WaitInv, PendingWaits, Waits
    <3>3. ASSUME NEW c \in Callers, mail'[c] # NoMail
          PROVE  Waits(c)' /\ \A q \in pending' : q.by # c
      <4>1. CASE mail'[c] = mail[c]
        BY <2>1, <2>3, <3>3, <4>1 DEF WaitInv, OneMail, Waits
      <4>2. CASE [id |-> m.id, by |-> c] \in pending
        BY <2>1, <2>3, <3>1, <4>2 DEF Waits
      <4> QED
        BY <2>3, <4>1, <4>2
    <3> QED
      BY <3>2, <3>3 DEF WaitInv, OneMail
  <2> QED
    BY <1>4, <2>2, <2>3, ReadShape
<1>5. ASSUME NEW p \in Procs, WatchProc(p) PROVE WaitInv'
  <2>1. UNCHANGED <<pc, loc>>
    BY <1>5, WatchShape
  <2>2. CASE UNCHANGED <<mail, pending>>
    BY <2>1, <2>2 DEF WaitInv, OneMail, PendingWaits, Waits
  <2>3. CASE /\ pending' = {}
             /\ \A c \in Callers : mail'[c] = mail[c] \/ \E q \in pending : q.by = c
    BY <2>1, <2>3 DEF WaitInv, OneMail, PendingWaits, Waits
  <2> QED
    BY <1>5, <2>2, <2>3, WatchShape
<1>6. CASE Stop
  BY <1>6, StopShape DEF WaitInv, OneMail, PendingWaits, Waits, TypeInv, ServerTyped
<1>7. CASE UNCHANGED <<serverVars, callerVars, runtimeVars>>
  BY <1>7 DEF serverVars, callerVars, WaitInv, OneMail, PendingWaits, Waits
<1>8. ASSUME NEW c \in Callers, Begin(c) \/ Advance(c) \/ Deadline(c) \/ ClientLeaves(c) PROVE WaitInv'
  BY <1>1, <1>2, <1>3, <1>8 DEF Silent, Advance, RequestStep, Deadline, ClientLeaves
<1> QED
  BY <1>4, <1>5, <1>6, <1>7, <1>8 DEF Next, vars

LEMMA WaitInvHolds == Spec => []WaitInv
<1>1. Init => WaitInv
  BY DEF Init, WaitInv, OneMail, PendingWaits
<1>2. TypeInv /\ WaitInv /\ [Next]_vars => WaitInv'
  BY AcpAssumption, WaitInvStep
<1> QED
  BY <1>1, <1>2, TypeInvHolds, PTL DEF Spec

(* The table of pending requests holds live requests only: whatever ends a *)
(* wait, an answer, an error, a deadline, a client that leaves or the      *)
(* death of the process, takes the entry out of the table.                 *)
THEOREM PendingAwaited == Spec => []PendingHasWaiter
<1>1. WaitInv => PendingHasWaiter
  BY DEF WaitInv, PendingWaits, Waits, PendingHasWaiter, At
<1> QED
  BY <1>1, WaitInvHolds, PTL

-------------------------------------------------------------------------------
(* Which answer belongs to which request.  What travels under the id of a  *)
(* waiting goroutine is the request it has made or fits as its answer: the *)
(* answer to session/new names a session, no other answer does.            *)
RequestFits(r, l) == r.method = l.method /\ (r.method = "prompt" => r.sid = l.sid)

AnswerFits(m, l) == m.kind = "answer" => (m.sid # NoSid <=> l.method = "new")

RequestsFit ==
    \A q \in pending, p \in Procs : \A r \in inbox[p] : r.id = q.id => RequestFits(r, loc[q.by])

LinesFit ==
    \A q \in pending, p \in Procs : \A i \in 1 .. Len(stdout[p]) :
        stdout[p][i].id = q.id => AnswerFits(stdout[p][i], loc[q.by])

MailFits == \A c \in Callers : AnswerFits(mail[c], loc[c])

AnswerInv == RequestsFit /\ LinesFit /\ MailFits

(* No id above nextID is in use. *)
IdsUsed ==
    /\ \A q \in pending : q.id <= nextID
    /\ \A p \in Procs : /\ \A r \in inbox[p] : r.id <= nextID
                        /\ \A i \in 1 .. Len(stdout[p]) : stdout[p][i].id <= nextID

LEMMA IdsOwnedUsed == IdsOwned => IdsUsed
  BY DEF IdsOwned, Owned, KernelOwned, TableOwned, OwnedBy, IdsUsed

(* A step that adds nothing to pipes, table and channels. *)
LEMMA ShrinkFits ==
    ASSUME AnswerInv, PipesShrink, pending' \subseteq pending,
           \A q \in pending' : loc'[q.by] = loc[q.by],
           \A c \in Callers : \/ mail'[c] = mail[c] /\ loc'[c] = loc[c]
                              \/ mail'[c] \in {NoMail, GoneMail}
    PROVE  AnswerInv'
<1>1. RequestsFit'
  BY DEF AnswerInv, RequestsFit, PipesShrink
<1>2. LinesFit'
  BY DEF AnswerInv, LinesFit, PipesShrink
<1>3. MailFits'
  BY DEF AnswerInv, MailFits, AnswerFits, NoMail, GoneMail
<1> QED
  BY <1>1, <1>2, <1>3 DEF AnswerInv

(* A request keeps its id, its method and its session while it is asked    *)
(* about or told the outcome of a permission.                              *)
Same(r, s) == r.id = s.id /\ r.method = s.method /\ r.sid = s.sid

RequestsKept == \A p \in Procs : \A r \in inbox'[p] : \E s \in inbox[p] : Same(r, s)

LEMMA RestagedSame ==
    ASSUME NEW r \in Request, NEW stage
    PROVE  Same(r, r) /\ Same([r EXCEPT !.stage = stage], r)
  BY DEF Same, Request

LEMMA TellKeeps ==
    ASSUME KernelTyped, NEW p \in Procs, NEW id \in Nat, Tell(p, id)
    PROVE  RequestsKept
<1>1. \A x \in Procs : x # p => inbox'[x] = inbox[x]
  BY DEF Tell, KernelTyped
<1>2. \A r \in inbox'[p] : \E s \in inbox[p] : r = s \/ r = [s EXCEPT !.stage = "told"]
  <2> DEFINE Asked == {q \in inbox[p] : q.id = id /\ q.stage = "asking"}
  <2>1. inbox'[p] = {r \in inbox[p] : ~(r.id = id /\ r.stage = "asking")}
                      \cup {[r EXCEPT !.stage = "told"] : r \in Asked}
    BY DEF Tell, KernelTyped
  <2> QED
    BY <2>1
<1>3. \A x \in Procs : \A s \in inbox[x] : Same(s, s) /\ Same([s EXCEPT !.stage = "told"], s)
  BY RestagedSame DEF KernelTyped
<1>4. ASSUME NEW r \in inbox'[p] PROVE \E s \in inbox[p] : Same(r, s)
  <2>1. PICK s \in inbox[p] : r = s \/ r = [s EXCEPT !.stage = "told"]
    BY <1>2
  <2>2. Same(r, s)
    BY <1>3, <2>1
  <2> QED
    BY <2>2
<1> QED
  BY <1>1, <1>3, <1>4 DEF RequestsKept

LEMMA ReadKeeps ==
    ASSUME TypeInv, NEW p \in Procs, ReadLoop(p)
    PROVE  RequestsKept
<1>1. CASE inbox' = inbox
  BY <1>1, RestagedSame DEF RequestsKept, TypeInv, KernelTyped
<1>2. CASE proc \in Procs /\ Tell(proc, Head(stdout[p]).id)
  <2>1. Head(stdout[p]).id \in Nat
    BY HeadTyped DEF ReadLoop, TypeInv, KernelTyped
  <2> QED
    BY <1>2, <2>1, TellKeeps DEF TypeInv
<1> QED
  BY <1>1, <1>2 DEF ReadLoop, DispatchAnswer, DispatchUpdate, DispatchPermission, Running

LEMMA KernelKeeps ==
    ASSUME KernelTyped, NEW p \in Procs, NEW r \in inbox[p], Answer(p, r) \/ AskPermission(p, r)
    PROVE  RequestsKept
<1> DEFINE asking == [r EXCEPT !.stage = "asking"]
<1>1. Same(asking, r) /\ \A x \in Procs : \A s \in inbox[x] : Same(s, s)
  BY RestagedSame DEF KernelTyped
<1>2. \/ inbox' = [inbox EXCEPT ![p] = inbox[p] \ {r}]
      \/ inbox' = [inbox EXCEPT ![p] = (inbox[p] \ {r}) \cup {asking}]
  BY DEF Answer, AskPermission
<1> HIDE DEF asking
<1>3. \A x \in Procs : \A y \in inbox'[x] : y \in inbox[x] \/ (x = p /\ y = asking)
  BY <1>2 DEF KernelTyped
<1> QED
  BY <1>1, <1>3 DEF RequestsKept

LEMMA SentFits ==
    ASSUME TypeInv, WaitInv, IdsUsed, AnswerInv, NEW c \in Callers, RequestSent(c)
    PROVE  AnswerInv'
<1> DEFINE id == nextID + 1
<1> DEFINE r == [id |-> id, by |-> c, method |-> pc[c], sid |-> SidOf(c), stage |-> "sent"]
<1>1. /\ OthersKept(c) /\ mail' = mail /\ stdout' = stdout /\ ~Waits(c) /\ pc[c] \in Method
      /\ loc'[c].id = id /\ loc'[c].method = pc[c] /\ loc'[c].sid = loc[c].sid
      /\ pending' \subseteq pending \cup {[id |-> id, by |-> c]}
  BY SentShape
<1>2. id \notin 0 .. nextID /\ nextID \in Nat
  BY DEF TypeInv, ServerTyped
<1>3. \A q \in pending : q.by # c /\ q.by \in Callers /\ loc'[q.by] = loc[q.by] /\ q.id # id
  BY <1>1, <1>2 DEF WaitInv, PendingWaits, OthersKept, TypeInv, ServerTyped, IdsUsed
<1>4. \A p \in Procs : \A x \in inbox'[p] : x \in inbox[p] \/ x = r
  BY DEF RequestSent, Deliver, Running, TypeInv, KernelTyped
<1>5. \A p \in Procs : \A x \in inbox[p] : x.id # id
  BY <1>2 DEF IdsUsed, TypeInv, KernelTyped, Request
<1>6. \A p \in Procs : \A i \in 1 .. Len(stdout[p]) : stdout[p][i].id # id
  BY <1>2 DEF IdsUsed
<1>7. RequestFits(r, loc'[c])
  <2>1. r.sid = SidOf(c) /\ r.method = pc[c]
    OBVIOUS
  <2>2. pc[c] = "prompt" => SidOf(c) = loc[c].sid
    BY DEF SidOf
  <2> HIDE DEF r
  <2> QED
    BY <1>1, <2>1, <2>2 DEF RequestFits
<1>8. r.id = id
  OBVIOUS
<1> HIDE DEF r, id
<1>9. RequestsFit'
  <2>1. ASSUME NEW q \in pending', NEW p \in Procs, NEW x \in inbox'[p], x.id = q.id
        PROVE  RequestFits(x, loc'[q.by])
    <3>1. CASE q \in pending
      BY <1>3, <1>4, <1>8, <2>1, <3>1 DEF AnswerInv, RequestsFit
    <3>2. CASE q.id = id /\ q.by = c
      BY <1>4, <1>5, <1>7, <2>1, <3>2
    <3> QED
      BY <1>1, <3>1, <3>2
  <2> QED
    BY <2>1 DEF RequestsFit
<1>10. LinesFit'
  <2>1. ASSUME NEW q \in pending', NEW p \in Procs, NEW i \in 1 .. Len(stdout'[p]), stdout'[p][i].id = q.id
        PROVE  AnswerFits(stdout'[p][i], loc'[q.by])
    <3>1. q.id # id
      BY <1>1, <1>6, <2>1
    <3>2. q \in pending
      BY <1>1, <3>1
    <3> QED
      BY <1>1, <1>3, <2>1, <3>2 DEF AnswerInv, LinesFit
  <2> QED
    BY <2>1 DEF LinesFit
<1>11. MailFits'
  <2>1. mail[c] = NoMail
    BY <1>1 DEF WaitInv, OneMail
  <2> QED
    BY <1>1, <2>1 DEF OthersKept, AnswerInv, MailFits, AnswerFits, NoMail
<1> QED
  BY <1>9, <1>10, <1>11 DEF AnswerInv

LEMMA ReadFits ==
    ASSUME TypeInv, WaitInv, AnswerInv, NEW p \in Procs, ReadLoop(p)
    PROVE  AnswerInv'
<1> DEFINE m == Head(stdout[p])
<1>1. stdout[p] \in Seq(Message) /\ stdout[p] # <<>>
      /\ stdout' = [stdout EXCEPT ![p] = Tail(stdout[p])]
  BY DEF ReadLoop, TypeInv, KernelTyped
<1>2. m = stdout[p][1] /\ 1 \in 1 .. Len(stdout[p])
  BY <1>1
<1>3. m \in Message /\ UNCHANGED <<pc, loc>> /\ pending' \subseteq pending
  BY ReadShape
<1>4. RequestsKept
  BY ReadKeeps
<1>5. RequestsFit'
  BY <1>3, <1>4 DEF RequestsKept, Same, AnswerInv, RequestsFit, RequestFits
<1>6. LinesFit'
  <2>1. \A i \in 1 .. Len(Tail(stdout[p])) :
           i + 1 \in 1 .. Len(stdout[p]) /\ Tail(stdout[p])[i] = stdout[p][i + 1]
    BY <1>1
  <2>2. \A x \in Procs : \A i \in 1 .. Len(stdout'[x]) :
           \E j \in 1 .. Len(stdout[x]) : stdout'[x][i] = stdout[x][j]
    BY <1>1, <2>1 DEF TypeInv, KernelTyped
  <2> QED
    BY <1>3, <2>2 DEF AnswerInv, LinesFit
<1>7. MailFits'
  <2>1. ASSUME NEW c \in Callers, [id |-> m.id, by |-> c] \in pending PROVE AnswerFits(m, loc[c])
    BY <1>2, <2>1 DEF AnswerInv, LinesFit
  <2>2. \A c \in Callers : mail'[c] = mail[c] \/ (mail'[c] = m /\ [id |-> m.id, by |-> c] \in pending)
    BY ReadShape
  <2> HIDE DEF m
  <2> QED
    BY <1>3, <2>1, <2>2 DEF AnswerInv, MailFits
<1> QED
  BY <1>5, <1>6, <1>7 DEF AnswerInv

(* What the kernel writes is an answer to the request it has read, and the *)
(* answer to a prompt comes after an update of its session.                *)
UpdateFor(m, id, sid) == m.kind = "update" /\ m.id = id /\ m.sid = sid

Replies(p, r, s) ==
    /\ s \in Seq(Message) /\ Write(p, s)
    /\ \A i \in 1 .. Len(s) :
          /\ s[i].id = r.id
          /\ s[i].kind = "answer" => (s[i].sid # NoSid <=> r.method = "new")
          /\ s[i].kind = "answer" /\ r.method = "prompt" => \E j \in 1 .. i : UpdateFor(s[j], r.id, r.sid)

LEMMA KernelReplies ==
    ASSUME AcpAssumption, KernelTyped, NEW p \in Procs, NEW r \in inbox[p],
           Answer(p, r) \/ AskPermission(p, r)
    PROVE  \E s : Replies(p, r, s)
<1>1. r \in Request /\ r.sid \in SidOrNone /\ r.id \in Nat
  BY DEF KernelTyped, Request, SidOrNone
<1>2. ASSUME NEW kind \in {"answer", "error", "update", "permission"}, NEW s \in SidOrNone
      PROVE  /\ Say(kind, r, s) \in Message /\ Say(kind, r, s).id = r.id
             /\ Say(kind, r, s).kind = kind /\ Say(kind, r, s).sid = s
  BY <1>1, SayTyped DEF Say
<1>3. NoSid \in SidOrNone
  BY DEF SidOrNone
<1>4. CASE AnswerPlain(p, r)
  <2> DEFINE m == Say("answer", r, NoSid)
  <2>1. m \in Message /\ m.id = r.id /\ m.sid = NoSid /\ r.method \notin {"new", "prompt"}
        /\ Write(p, <<m>>)
    BY <1>2, <1>3, <1>4 DEF AnswerPlain
  <2> HIDE DEF m
  <2>2. Replies(p, r, <<m>>)
    BY <2>1 DEF Replies
  <2> QED
    BY <2>2
<1>5. CASE AnswerNew(p, r)
  <2> DEFINE m == Say("answer", r, [proc |-> p, n |-> r.id])
  <2>1. [proc |-> p, n |-> r.id] \in SidOrNone /\ [proc |-> p, n |-> r.id] # NoSid
    BY <1>1 DEF SidOrNone, Sid, AcpAssumption
  <2>2. m \in Message /\ m.id = r.id /\ m.sid # NoSid /\ r.method = "new" /\ Write(p, <<m>>)
    BY <1>2, <1>5, <2>1 DEF AnswerNew
  <2> HIDE DEF m
  <2>3. Replies(p, r, <<m>>)
    BY <2>2 DEF Replies
  <2> QED
    BY <2>3
<1>6. CASE AnswerClose(p, r)
  <2> DEFINE m == Say("answer", r, NoSid)
  <2>1. m \in Message /\ m.id = r.id /\ m.sid = NoSid /\ r.method \notin {"new", "prompt"}
        /\ Write(p, <<m>>)
    BY <1>2, <1>3, <1>6 DEF AnswerClose
  <2> HIDE DEF m
  <2>2. Replies(p, r, <<m>>)
    BY <2>1 DEF Replies
  <2> QED
    BY <2>2
<1>7. CASE AnswerPrompt(p, r)
  <2> DEFINE u == Say("update", r, r.sid)
  <2> DEFINE a == Say("answer", r, NoSid)
  <2> DEFINE e == Say("error", r, NoSid)
  <2>1. /\ u \in Message /\ u.id = r.id /\ u.kind = "update" /\ u.sid = r.sid
        /\ a \in Message /\ a.id = r.id /\ a.sid = NoSid
        /\ e \in Message /\ e.id = r.id /\ e.kind = "error"
    BY <1>1, <1>2, <1>3
  <2>2. r.method = "prompt" /\ (Write(p, <<u, a>>) \/ Write(p, <<e>>))
    BY <1>7 DEF AnswerPrompt
  <2> HIDE DEF u, a, e
  <2>3. CASE Write(p, <<u, a>>)
    <3>1. Len(<<u, a>>) = 2 /\ <<u, a>>[1] = u /\ <<u, a>>[2] = a /\ <<u, a>> \in Seq(Message)
      BY <2>1
    <3>2. UpdateFor(<<u, a>>[1], r.id, r.sid) /\ \A i \in 1 .. 2 : 1 \in 1 .. i
      BY <2>1, <3>1 DEF UpdateFor
    <3>3. \A i \in 1 .. 2 : /\ <<u, a>>[i].id = r.id
                            /\ <<u, a>>[i].kind = "answer" => <<u, a>>[i].sid = NoSid
      BY <2>1
    <3>4. Replies(p, r, <<u, a>>)
      BY <2>2, <2>3, <3>1, <3>2, <3>3 DEF Replies
    <3> QED
      BY <3>4
  <2>4. CASE Write(p, <<e>>)
    <3>1. Replies(p, r, <<e>>)
      BY <2>1, <2>4 DEF Replies
    <3> QED
      BY <3>1
  <2> QED
    BY <2>2, <2>3, <2>4
<1>8. CASE AskPermission(p, r)
  <2> DEFINE m == Say("permission", r, r.sid)
  <2>1. m \in Message /\ m.id = r.id /\ m.kind = "permission" /\ Write(p, <<m>>)
    BY <1>1, <1>2, <1>8 DEF AskPermission
  <2> HIDE DEF m
  <2>2. Replies(p, r, <<m>>)
    BY <2>1 DEF Replies
  <2> QED
    BY <2>2
<1> QED
  BY <1>4, <1>5, <1>6, <1>7, <1>8 DEF Answer

(* The lines of p after it has written s. *)
LEMMA WriteShape ==
    ASSUME KernelTyped, NEW p \in Procs, NEW s \in Seq(Message), Write(p, s)
    PROVE  /\ \A q \in Procs \ {p} : stdout'[q] = stdout[q]
           /\ \A i \in 1 .. Len(stdout'[p]) :
                 \/ i \in 1 .. Len(stdout[p]) /\ stdout'[p][i] = stdout[p][i]
                 \/ \E j \in 1 .. Len(s) : i = Len(stdout[p]) + j /\ stdout'[p][i] = s[j]
<1>1. stdout[p] \in Seq(Message) /\ stdout' = [stdout EXCEPT ![p] = stdout[p] \o s]
  BY DEF KernelTyped, Write
<1>2. stdout'[p] = stdout[p] \o s /\ \A q \in Procs \ {p} : stdout'[q] = stdout[q]
  BY <1>1 DEF KernelTyped
<1>3. ASSUME NEW i \in 1 .. Len(stdout[p] \o s), i \notin 1 .. Len(stdout[p])
      PROVE  \E j \in 1 .. Len(s) : i = Len(stdout[p]) + j /\ (stdout[p] \o s)[i] = s[j]
  <2>1. i - Len(stdout[p]) \in 1 .. Len(s) /\ i = Len(stdout[p]) + (i - Len(stdout[p]))
    BY <1>1, <1>3
  <2>2. (stdout[p] \o s)[i] = s[i - Len(stdout[p])]
    BY <1>1, <1>3
  <2> QED
    BY <2>1, <2>2
<1>4. \A i \in 1 .. Len(stdout[p]) : (stdout[p] \o s)[i] = stdout[p][i]
  BY <1>1
<1> QED
  BY <1>2, <1>3, <1>4

LEMMA WriteKeeps ==
    ASSUME KernelTyped, NEW p \in Procs, NEW s \in Seq(Message), Write(p, s)
    PROVE  /\ \A j \in 1 .. Len(stdout[p]) : stdout'[p][j] = stdout[p][j]
           /\ \A j \in 1 .. Len(s) : stdout'[p][Len(stdout[p]) + j] = s[j]
           /\ Len(stdout[p]) \in Nat /\ Len(s) \in Nat
<1>1. stdout[p] \in Seq(Message) /\ stdout' = [stdout EXCEPT ![p] = stdout[p] \o s]
  BY DEF KernelTyped, Write
<1>2. stdout'[p] = stdout[p] \o s
  BY <1>1 DEF KernelTyped
<1> QED
  BY <1>1, <1>2

LEMMA KernelStepFits ==
    ASSUME AcpAssumption, TypeInv, AnswerInv, NEW p \in Procs, Kernel(p),
           UNCHANGED <<serverVars, callerVars, runtimeVars>>
    PROVE  AnswerInv'
<1>1. UNCHANGED <<pending, loc, mail>>
  BY DEF serverVars, callerVars
<1>2. CASE Die(p)
  <2>1. PipesShrink
    BY <1>2 DEF Die, PipesShrink, TypeInv, KernelTyped
  <2> QED
    BY <1>1, <2>1, ShrinkFits
<1>3. ASSUME NEW r \in inbox[p], Answer(p, r) \/ AskPermission(p, r) PROVE AnswerInv'
  <2>1. PICK s : Replies(p, r, s)
    BY <1>3, KernelReplies DEF TypeInv
  <2>2. RequestsKept
    BY <1>3, KernelKeeps DEF TypeInv
  <2>3. RequestsFit'
    BY <1>1, <2>2 DEF RequestsKept, Same, AnswerInv, RequestsFit, RequestFits
  <2>4. LinesFit'
    <3>1. ASSUME NEW q \in pending, NEW x \in Procs, NEW i \in 1 .. Len(stdout'[x]), stdout'[x][i].id = q.id
          PROVE  AnswerFits(stdout'[x][i], loc[q.by])
      <4>1. CASE i \in 1 .. Len(stdout[x]) /\ stdout'[x][i] = stdout[x][i]
        BY <3>1, <4>1 DEF AnswerInv, LinesFit
      <4>2. CASE x = p /\ \E j \in 1 .. Len(s) : stdout'[x][i] = s[j]
        <5>1. PICK j \in 1 .. Len(s) : stdout'[x][i] = s[j]
          BY <4>2
        <5>2. r.id = q.id /\ (s[j].kind = "answer" => (s[j].sid # NoSid <=> r.method = "new"))
          BY <2>1, <3>1, <5>1 DEF Replies
        <5>3. r.method = loc[q.by].method
          BY <5>2 DEF AnswerInv, RequestsFit, RequestFits
        <5> QED
          BY <5>1, <5>2, <5>3 DEF AnswerFits
      <4> QED
        BY <2>1, <4>1, <4>2, WriteShape DEF Replies, TypeInv
    <3> QED
      BY <1>1, <3>1 DEF LinesFit
  <2>5. MailFits'
    BY <1>1 DEF AnswerInv, MailFits
  <2> QED
    BY <2>3, <2>4, <2>5 DEF AnswerInv
<1> QED
  BY <1>2, <1>3 DEF Kernel

LEMMA AnswerInvStep ==
    ASSUME AcpAssumption, TypeInv, WaitInv, IdsUsed, AnswerInv, WaitInv', [Next]_vars
    PROVE  AnswerInv'
<1>1. ASSUME NEW c \in Callers, Silent(c) PROVE AnswerInv'
  <2>1. OthersKept(c) /\ PipesShrink /\ mail' = mail /\ pending' = pending /\ ~Waits(c)
    BY <1>1, SilentShape
  <2>2. mail[c] = NoMail /\ \A q \in pending : q.by # c /\ q.by \in Callers
    BY <2>1 DEF WaitInv, OneMail, PendingWaits, TypeInv, ServerTyped
  <2> QED
    BY <2>1, <2>2, ShrinkFits DEF OthersKept
<1>2. ASSUME NEW c \in Callers, Receive(c) \/ Abandon(c) PROVE AnswerInv'
  <2>1. OthersKept(c) /\ mail'[c] = NoMail /\ pc[c] = "wait" /\ pending' \subseteq pending
    BY <1>2, ResumeShape
  <2>2. \A q \in pending' : q.by # c /\ q.by \in Callers
    <3>1. CASE pending' = pending /\ mail[c] # NoMail
      BY <3>1 DEF WaitInv, OneMail, TypeInv, ServerTyped
    <3>2. CASE pending' = {q \in pending : q.id # loc[c].id}
      BY <3>2 DEF WaitInv, PendingWaits, TypeInv, ServerTyped
    <3> QED
      BY <1>2, <3>1, <3>2, ResumeShape
  <2>3. PipesShrink
    BY <1>2 DEF Receive, Abandon, processVars, PipesShrink
  <2> QED
    BY <2>1, <2>2, <2>3, ShrinkFits DEF OthersKept
<1>3. ASSUME NEW c \in Callers, Begin(c) \/ Advance(c) \/ Deadline(c) \/ ClientLeaves(c) PROVE AnswerInv'
  BY <1>1, <1>2, <1>3, SentFits DEF Silent, Advance, RequestStep, Deadline, ClientLeaves
<1>4. ASSUME NEW p \in Procs, WatchProc(p) PROVE AnswerInv'
  <2>1. PipesShrink /\ loc' = loc /\ pending' \subseteq pending
        /\ \A c \in Callers : mail'[c] = mail[c] \/ mail'[c] = GoneMail
    BY <1>4, WatchShape
  <2> QED
    BY <2>1, ShrinkFits
<1>5. CASE Stop
  <2>1. PipesShrink /\ UNCHANGED <<loc, mail, pending>>
    BY <1>5, StopShape
  <2> QED
    BY <2>1, ShrinkFits
<1>6. CASE UNCHANGED vars
  <2>1. PipesShrink /\ UNCHANGED <<loc, mail, pending>>
    BY <1>6 DEF vars, processVars, serverVars, callerVars, PipesShrink
  <2> QED
    BY <2>1, ShrinkFits
<1> QED
  BY <1>3, <1>4, <1>5, <1>6, ReadFits, KernelStepFits DEF Next

LEMMA AnswerInvHolds == Spec => []AnswerInv
<1>1. Init => AnswerInv
  BY DEF Init, ProcessInit, AnswerInv, RequestsFit, LinesFit, MailFits, AnswerFits, NoMail
<1>2. TypeInv /\ WaitInv /\ WaitInv' /\ IdsUsed /\ AnswerInv /\ [Next]_vars => AnswerInv'
  BY AcpAssumption, AnswerInvStep
<1>3. Spec => []IdsUsed
  BY IdsOwnedHolds, IdsOwnedUsed, PTL
<1> QED
  BY <1>1, <1>2, <1>3, TypeInvHolds, WaitInvHolds, PTL DEF Spec

-------------------------------------------------------------------------------
(* Sessions and callbacks.  A goroutine that is about to prompt, store or  *)
(* close a session has one, and a callback belongs to a prompt under way.  *)
HasSid(c) ==
    /\ pc[c] \in {"store", "mode", "handle", "prompt"} => loc[c].sid # NoSid
    /\ pc[c] = "wait" /\ loc[c].method \in {"mode", "prompt"} => loc[c].sid # NoSid
    /\ pc[c] = "close" => loc[c].old # NoSid
    /\ pc[c] = "wait" /\ loc[c].method = "close" => loc[c].old # NoSid
    /\ pc[c] = "handle" => loc[c].op = "prompt"

ClosesNameSessions ==
    \A p \in Procs : \A r \in inbox[p] : r.method = "close" => r.sid # NoSid

OfPrompt(h) ==
    /\ pc[h.by] \in {"prompt", "wait", "cancel", "unhandle"}
    /\ loc[h.by].op = "prompt" /\ loc[h.by].sid = h.sid
    /\ pc[h.by] = "wait" => loc[h.by].method = "prompt"

HandlersKnown ==
    /\ handlers \subseteq [sid : Sid, by : Callers]
    /\ \A h \in handlers : OfPrompt(h) \/ pc[h.by] = "halted"

KernelRest == closed \subseteq Sid /\ greeted \subseteq Procs

RuntimeRest ==
    /\ connected \in BOOLEAN /\ promptMu \in Callers \cup {NoCaller}
    /\ reply \in [Callers -> SUBSET Nat] /\ made \in 0 .. MaxOps

SessionInv ==
    /\ \A c \in Callers : HasSid(c)
    /\ ClosesNameSessions /\ HandlersKnown /\ KernelRest /\ RuntimeRest

(* Where a goroutine that prompts, or has a session, goes from its wait.   *)
LEMMA Routes ==
    ASSUME NEW c \in Callers, NEW m \in Method
    PROVE  /\ OnAnswer(c)[m] \in {"store", "mode", "handle", "prompt", "close", "wait"} =>
                 \/ m = "new" /\ OnAnswer(c)[m] = "store"
                 \/ m = "mode" /\ OnAnswer(c)[m] = "handle" /\ loc[c].op = "prompt"
           /\ \A l \in {OnError(c)[m], OnTimeout(c)[m]} :
                 l \in {"store", "mode", "handle", "prompt", "close", "wait"} =>
                    m = "mode" /\ l = "handle" /\ loc[c].op = "prompt"
           /\ m = "prompt" => /\ OnAnswer(c)[m] = "unhandle" /\ OnError(c)[m] = "unhandle"
                              /\ OnTimeout(c)[m] = "cancel"
<1>1. Opened(c) \in {"handle", "finish"} /\ (Opened(c) = "handle" => loc[c].op = "prompt")
  BY DEF Opened
<1>2. CASE m = "init"
  BY <1>2 DEF OnAnswer, OnError, OnTimeout, Method
<1>3. CASE m = "new"
  BY <1>3 DEF OnAnswer, OnError, OnTimeout, Method
<1>4. CASE m = "mode"
  BY <1>1, <1>4 DEF OnAnswer, OnError, OnTimeout, Method
<1>5. CASE m = "prompt"
  BY <1>5 DEF OnAnswer, OnError, OnTimeout, Method
<1>6. CASE m = "close"
  BY <1>6 DEF OnAnswer, OnError, OnTimeout, Method
<1> QED
  BY <1>2, <1>3, <1>4, <1>5, <1>6 DEF Method

(* The place and the local variables of c after it has moved. *)
LEMMA Moved ==
    ASSUME CallersTyped, NEW c \in Callers, NEW label
    PROVE  /\ Goto(c, label) => pc'[c] = label
           /\ Move(c, label) => pc'[c] = label /\ loc'[c] = loc[c]
           /\ \A l : MoveWith(c, label, l) => pc'[c] = label /\ loc'[c] = l
  BY DEF CallersTyped, Goto, Move, MoveWith

LEMMA SilentSids ==
    ASSUME TypeInv, NEW c \in Callers, HasSid(c), Silent(c)
    PROVE  HasSid(c)'
<1> USE DEF TypeInv
<1> DEFINE Sided == {"store", "mode", "handle", "prompt", "close", "wait"}
<1>1. ASSUME pc'[c] \notin Sided PROVE HasSid(c)'
  BY <1>1 DEF HasSid
<1>2. loc[c] \in Local
  BY DEF CallersTyped
<1>3. CASE Begin(c)
  BY <1>1, <1>3, Moved DEF Begin, BeginPrompt, BeginNewSession, BeginSync
<1>4. CASE (StartStep(c) \/ SwitchStep(c))
  <2>1. loc[c].then \notin Sided
    BY <1>2 DEF Local
  <2>2. \A label, l : Move(c, label) \/ MoveWith(c, label, l) => pc'[c] = label
    BY Moved
  <2>3. CASE (EnsureStarted(c) \/ Spawn(c) \/ SpawnFails(c))
    BY <1>1, <2>2, <2>3 DEF EnsureStarted, Spawn, SpawnFails, Fail
  <2>4. CASE Connect(c)
    BY <1>1, <2>1, <2>2, <2>4 DEF Connect
  <2>5. CASE (UndoStart(c) \/ Restart(c) \/ Compare(c))
    BY <1>1, <2>2, <2>5 DEF UndoStart, Restart, Compare, Fail
  <2> QED
    BY <1>4, <2>3, <2>4, <2>5 DEF StartStep, SwitchStep
<1>5. CASE (RequestUnsent(c) \/ RequestBroken(c))
  <2>1. pc[c] \in Method
    BY <1>5 DEF RequestUnsent, RequestBroken
  <2>2. PICK e : MoveWith(c, OnError(c)[pc[c]], [loc[c] EXCEPT !.err = e])
    BY <1>5 DEF RequestUnsent, RequestBroken
  <2>3. LET l == [loc[c] EXCEPT !.err = e] IN l.sid = loc[c].sid /\ l.op = loc[c].op
    BY <1>2 DEF Local
  <2>4. pc'[c] = OnError(c)[pc[c]] /\ loc'[c].sid = loc[c].sid /\ loc'[c].op = loc[c].op
    BY <2>2, <2>3, Moved
  <2>5. pc'[c] \in Sided => pc[c] = "mode" /\ pc'[c] = "handle" /\ loc[c].op = "prompt"
    BY <2>1, <2>4, Routes
  <2> QED
    BY <1>1, <2>4, <2>5 DEF HasSid
<1>6. CASE Lookup(c)
  <2>1. CASE sessions[loc[c].key] # NoSid
    <3> DEFINE l == [loc[c] EXCEPT !.sid = sessions[loc[c].key]]
    <3>1. l.sid # NoSid /\ l.op = loc[c].op
      BY <1>2, <2>1 DEF Local
    <3>2. pc'[c] = Opened(c) /\ loc'[c] = l
      BY <1>6, <2>1, Moved DEF Lookup
    <3> HIDE DEF l
    <3> QED
      BY <1>1, <3>1, <3>2 DEF HasSid, Opened
  <2>2. CASE sessions[loc[c].key] = NoSid
    BY <1>1, <1>6, <2>2, Moved DEF Lookup
  <2> QED
    BY <2>1, <2>2
<1>7. CASE Store(c)
  <2>1. pc'[c] \in {"mode", "finish", "handle"} /\ loc'[c] = loc[c] /\ pc[c] = "store"
        /\ (pc'[c] = "handle" => loc[c].op = "prompt")
    BY <1>7, Moved DEF Store, Opened, At
  <2> QED
    BY <2>1 DEF HasSid
<1>8. CASE Swap(c)
  <2> DEFINE l == [loc[c] EXCEPT !.old = sessions[loc[c].from]]
  <2>1. l.old = sessions[loc[c].from]
    BY <1>2 DEF Local
  <2>2. pc'[c] = (IF sessions[loc[c].from] = NoSid THEN "ensure" ELSE "close") /\ loc'[c] = l
    BY <1>8, Moved DEF Swap
  <2> HIDE DEF l
  <2> QED
    BY <1>1, <2>1, <2>2 DEF HasSid
<1>9. CASE Handle(c)
  <2>1. pc[c] = "handle" /\ pc'[c] = "prompt" /\ loc'[c] = loc[c]
    BY <1>9, Moved DEF Handle, At
  <2> QED
    BY <2>1 DEF HasSid
<1>10. CASE (Forget(c) \/ Lock(c) \/ Cancel(c) \/ Unhandle(c) \/ Failed(c) \/ Finish(c))
  <2>1. \A label, l : Move(c, label) \/ MoveWith(c, label, l) => pc'[c] = label
    BY Moved
  <2>2. CASE (Forget(c) \/ Lock(c) \/ Cancel(c))
    BY <1>1, <2>1, <2>2 DEF Forget, Lock, Cancel
  <2>3. CASE (Unhandle(c) \/ Failed(c) \/ Finish(c))
    BY <1>1, <2>1, <2>3 DEF Unhandle, Failed, Finish
  <2> QED
    BY <1>10, <2>2, <2>3
<1> QED
  BY <1>3, <1>4, <1>5, <1>6, <1>7, <1>8, <1>9, <1>10 DEF Silent, SessionStep, PromptStep

(* A handler is registered by Handle and goes with its prompt at the       *)
(* latest.                                                                 *)
LEMMA SilentHandlers ==
    ASSUME TypeInv, NEW c \in Callers, HasSid(c), HandlersKnown, Silent(c)
    PROVE  HandlersKnown'
<1> USE DEF TypeInv
<1>1. OthersKept(c) /\ ~Waits(c)
  BY SilentShape
<1>2. ASSUME NEW h \in handlers, h.by # c PROVE OfPrompt(h)' \/ pc'[h.by] = "halted"
  <2>1. h.by \in Callers \ {c}
    BY <1>2 DEF HandlersKnown
  <2> QED
    BY <1>1, <2>1 DEF HandlersKnown, OfPrompt, OthersKept
<1>3. ASSUME NEW h \in handlers, h.by = c
      PROVE  pc[c] \in {"prompt", "cancel", "unhandle"} /\ loc[c].op = "prompt" /\ loc[c].sid = h.sid
  BY <1>1, <1>3 DEF HandlersKnown, OfPrompt, Waits
<1>4. ASSUME handlers' \subseteq handlers, \A h \in handlers' : h.by = c => OfPrompt(h)'
      PROVE  HandlersKnown'
  BY <1>2, <1>4 DEF HandlersKnown
<1>5. ASSUME handlers' \subseteq handlers, pc[c] \notin {"prompt", "cancel", "unhandle"}
      PROVE  HandlersKnown'
  BY <1>3, <1>4, <1>5
<1>6. CASE Begin(c)
  BY <1>5, <1>6 DEF Begin, BeginPrompt, BeginNewSession, BeginSync, At, serverVars
<1>7. CASE (UndoStart(c) \/ Restart(c))
  BY <1>5, <1>7, KillLockedShrinks DEF UndoStart, Restart, At
<1>8. CASE (EnsureStarted(c) \/ Spawn(c) \/ SpawnFails(c) \/ Connect(c) \/ SessionStep(c) \/ Compare(c))
  <2>1. handlers' \subseteq handlers
    BY <1>8 DEF EnsureStarted, Spawn, SpawnFails, Connect, SessionStep, Lookup, Store, Swap, Forget,
                Compare, serverVars
  <2>2. pc[c] \notin {"prompt", "cancel", "unhandle"}
    BY <1>8 DEF EnsureStarted, Spawn, SpawnFails, Connect, SessionStep, Lookup, Store, Swap, Forget,
                Compare, At
  <2> QED
    BY <1>5, <2>1, <2>2
<1>9. CASE (RequestUnsent(c) \/ RequestBroken(c))
  <2>1. handlers' = handlers /\ pc[c] \in Method
    BY <1>9 DEF RequestUnsent, RequestBroken, serverVars
  <2>2. CASE pc[c] = "prompt"
    <3>1. PICK e : MoveWith(c, OnError(c)["prompt"], [loc[c] EXCEPT !.err = e])
      BY <1>9, <2>2 DEF RequestUnsent, RequestBroken
    <3>2. LET l == [loc[c] EXCEPT !.err = e] IN l.sid = loc[c].sid /\ l.op = loc[c].op
      BY DEF CallersTyped, Local
    <3>3. OnError(c)["prompt"] = "unhandle"
      BY Routes DEF Method
    <3>4. pc'[c] = "unhandle" /\ loc'[c].sid = loc[c].sid /\ loc'[c].op = loc[c].op
      BY <3>1, <3>2, <3>3, Moved
    <3> QED
      BY <1>3, <1>4, <2>1, <3>4 DEF OfPrompt
  <2>3. CASE pc[c] # "prompt"
    BY <1>5, <2>1, <2>3 DEF Method
  <2> QED
    BY <2>2, <2>3
<1>10. CASE Cancel(c)
  <2>1. handlers' = handlers /\ pc'[c] = "unhandle" /\ loc'[c] = loc[c]
    BY <1>10, Moved DEF Cancel
  <2> QED
    BY <1>3, <1>4, <2>1 DEF OfPrompt
<1>11. CASE Unhandle(c)
  <2>1. handlers' = {h \in handlers : h.sid # loc[c].sid}
    BY <1>11 DEF Unhandle
  <2> QED
    BY <1>3, <1>4, <2>1
<1>12. CASE Handle(c)
  <2> DEFINE new == [sid |-> loc[c].sid, by |-> c]
  <2>1. /\ handlers' = {h \in handlers : h.sid # loc[c].sid} \cup {new}
        /\ pc[c] = "handle" /\ pc'[c] = "prompt" /\ loc'[c] = loc[c]
    BY <1>12, Moved DEF Handle, At
  <2>2. loc[c].sid \in Sid /\ loc[c].op = "prompt"
    BY <2>1, LocalFields DEF HasSid, CallersTyped, SidOrNone
  <2>3. new \in [sid : Sid, by : Callers] /\ new.by = c /\ new.sid = loc[c].sid
    BY <2>2
  <2> HIDE DEF new
  <2>4. ASSUME NEW h, h.by = c, h.sid = loc[c].sid PROVE OfPrompt(h)'
    BY <2>1, <2>2, <2>4 DEF OfPrompt
  <2>5. \A h \in handlers : h.by # c
    BY <1>3, <2>1
  <2>6. \A h \in handlers' : h \in handlers \/ (h.by = c /\ h.sid = loc[c].sid)
    BY <2>1, <2>3
  <2>7. handlers' \subseteq [sid : Sid, by : Callers]
    BY <2>1, <2>3 DEF HandlersKnown
  <2> QED
    BY <1>2, <2>4, <2>5, <2>6, <2>7 DEF HandlersKnown
<1>13. CASE (Lock(c) \/ Failed(c) \/ Finish(c))
  BY <1>5, <1>13 DEF Lock, Failed, Finish, At, serverVars
<1> QED
  BY <1>6, <1>7, <1>8, <1>9, <1>10, <1>11, <1>12, <1>13 DEF Silent, StartStep, SwitchStep, PromptStep

LEMMA SentSids ==
    ASSUME TypeInv, NEW c \in Callers, HasSid(c), ClosesNameSessions, HandlersKnown, RequestSent(c)
    PROVE  HasSid(c)' /\ ClosesNameSessions' /\ HandlersKnown'
<1>1. /\ OthersKept(c) /\ pc[c] \in Method /\ ~Waits(c) /\ pc'[c] = "wait" /\ loc'[c].method = pc[c]
      /\ loc'[c].sid = loc[c].sid /\ loc'[c].old = loc[c].old /\ loc'[c].op = loc[c].op
  BY SentShape
<1>2. HasSid(c)'
  BY <1>1 DEF HasSid
<1>3. ClosesNameSessions'
  <2> DEFINE r == [id |-> nextID + 1, by |-> c, method |-> pc[c], sid |-> SidOf(c), stage |-> "sent"]
  <2>1. \A p \in Procs : \A x \in inbox'[p] : x \in inbox[p] \/ x = r
    BY DEF RequestSent, Deliver, Running, TypeInv, KernelTyped
  <2>2. pc[c] = "close" => SidOf(c) # NoSid
    BY DEF SidOf, HasSid
  <2>3. r.method = "close" => r.sid # NoSid
    BY <2>2
  <2> HIDE DEF r
  <2> QED
    BY <2>1, <2>3 DEF ClosesNameSessions
<1>4. HandlersKnown'
  <2>1. handlers' = handlers
    BY DEF RequestSent
  <2>2. ASSUME NEW h \in handlers, h.by = c PROVE OfPrompt(h)'
    <3>1. pc[c] = "prompt" /\ loc[c].op = "prompt" /\ loc[c].sid = h.sid
      BY <1>1, <2>2 DEF HandlersKnown, OfPrompt, Waits, Method
    <3> QED
      BY <1>1, <2>2, <3>1 DEF OfPrompt
  <2>3. ASSUME NEW h \in handlers, h.by # c PROVE OfPrompt(h)' \/ pc'[h.by] = "halted"
    <3>1. h.by \in Callers \ {c}
      BY <2>3 DEF HandlersKnown
    <3> QED
      BY <1>1, <3>1 DEF HandlersKnown, OfPrompt, OthersKept
  <2> QED
    BY <2>1, <2>2, <2>3 DEF HandlersKnown
<1> QED
  BY <1>2, <1>3, <1>4

(* A goroutine that has got its answer: of session/new it has the session  *)
(* from the answer, of every other request the session it had.             *)
LEMMA ResumeSids ==
    ASSUME TypeInv, AnswerInv, NEW c \in Callers, HasSid(c), HandlersKnown, Receive(c) \/ Abandon(c)
    PROVE  HasSid(c)' /\ HandlersKnown'
<1> DEFINE m == loc[c].method
<1>1. OthersKept(c) /\ pc[c] = "wait" /\ m \in Method /\ handlers' = handlers
  BY ResumeShape
<1>2. ASSUME NEW label, NEW e, NEW s, Resumed(c, label, e, s)
      PROVE  pc'[c] = label /\ loc'[c].sid = s /\ loc'[c].op = loc[c].op
  BY <1>2 DEF Resumed, TypeInv, CallersTyped, Local
<1>3. \/ /\ pc'[c] = OnAnswer(c)[m] /\ loc'[c].op = loc[c].op
         /\ m = "new" => loc'[c].sid # NoSid
         /\ m # "new" => loc'[c].sid = loc[c].sid
      \/ /\ pc'[c] \in {OnError(c)[m], OnTimeout(c)[m]}
         /\ loc'[c].op = loc[c].op /\ loc'[c].sid = loc[c].sid
  <2>1. CASE /\ mail[c].kind = "answer"
             /\ Resumed(c, OnAnswer(c)[m], "none", IF mail[c].sid = NoSid THEN loc[c].sid ELSE mail[c].sid)
    <3>1. mail[c].sid # NoSid <=> m = "new"
      BY <2>1 DEF AnswerInv, MailFits, AnswerFits
    <3> QED
      BY <1>2, <2>1, <3>1
  <2>2. CASE \E e : Resumed(c, OnError(c)[m], e, loc[c].sid)
    BY <1>2, <2>2
  <2>3. CASE \E e : Resumed(c, OnTimeout(c)[m], e, loc[c].sid)
    BY <1>2, <2>3
  <2> QED
    BY <2>1, <2>2, <2>3, ResumeShape
<1> HIDE DEF m
<1>4. HasSid(c)'
  BY <1>1, <1>3, Routes DEF HasSid, m
<1>5. HandlersKnown'
  <2>1. ASSUME NEW h \in handlers, h.by = c PROVE OfPrompt(h)'
    <3>1. m = "prompt" /\ loc[c].op = "prompt" /\ loc[c].sid = h.sid
      BY <1>1, <2>1 DEF HandlersKnown, OfPrompt, m
    <3>2. OnAnswer(c)[m] = "unhandle" /\ OnError(c)[m] = "unhandle" /\ OnTimeout(c)[m] = "cancel"
      BY <1>1, <3>1, Routes
    <3> QED
      BY <1>3, <2>1, <3>1, <3>2 DEF OfPrompt
  <2>2. ASSUME NEW h \in handlers, h.by # c PROVE OfPrompt(h)' \/ pc'[h.by] = "halted"
    <3>1. h.by \in Callers \ {c}
      BY <2>2 DEF HandlersKnown
    <3> QED
      BY <1>1, <3>1 DEF HandlersKnown, OfPrompt, OthersKept
  <2> QED
    BY <1>1, <2>1, <2>2 DEF HandlersKnown
<1> QED
  BY <1>4, <1>5

(* The rest of the types. *)
LEMMA CallerRest ==
    ASSUME AcpAssumption, TypeInv, RuntimeRest, NEW c \in Callers,
           Begin(c) \/ Advance(c) \/ Deadline(c) \/ ClientLeaves(c)
    PROVE  RuntimeRest'
<1>1. CASE Begin(c)
  <2>1. UNCHANGED <<connected, promptMu>> /\ made' = made + 1 /\ made < MaxOps
    BY <1>1 DEF Begin, BeginPrompt, BeginNewSession, BeginSync, serverVars
  <2>2. reply' = [reply EXCEPT ![c] = {}] \/ reply' = reply
    BY <1>1 DEF Begin, BeginPrompt, BeginNewSession, BeginSync, MoveWith
  <2>3. reply' \in [Callers -> SUBSET Nat]
    BY <2>2 DEF RuntimeRest
  <2>4. made' \in 0 .. MaxOps
    BY <2>1 DEF RuntimeRest, AcpAssumption
  <2> QED
    BY <2>1, <2>3, <2>4 DEF RuntimeRest
<1>2. CASE (RequestStep(c) \/ Deadline(c) \/ ClientLeaves(c))
  <2>1. UNCHANGED <<promptMu, made>> /\ (connected' = connected \/ connected' = FALSE)
    BY <1>2 DEF RequestStep, RequestSent, RequestUnsent, RequestBroken, Receive, Deadline, ClientLeaves,
                Abandon, serverVars, runtimeVars
  <2>2. reply' = reply
    BY <1>2, ResumeShape DEF RequestStep, RequestSent, RequestUnsent, RequestBroken, Deadline,
                             ClientLeaves, MoveWith
  <2> QED
    BY <2>1, <2>2 DEF RuntimeRest
<1>3. CASE (StartStep(c) \/ SwitchStep(c))
  <2>1. connected' = connected \/ connected' \in BOOLEAN
    BY <1>3 DEF StartStep, EnsureStarted, Spawn, SpawnFails, Connect, UndoStart, SwitchStep, Restart,
                Compare, KillLocked, serverVars
  <2>2. UNCHANGED <<promptMu, made, reply>>
    BY <1>3 DEF StartStep, EnsureStarted, Spawn, SpawnFails, Connect, UndoStart, SwitchStep, Restart,
                Compare, Move, MoveWith, Fail, runtimeVars
  <2> QED
    BY <2>1, <2>2 DEF RuntimeRest
<1>4. CASE SessionStep(c)
  <2>1. UNCHANGED <<connected, promptMu, made, reply>>
    BY <1>4 DEF SessionStep, Lookup, Store, Swap, Forget, Move, MoveWith, serverVars, runtimeVars
  <2> QED
    BY <2>1 DEF RuntimeRest
<1>5. CASE PromptStep(c)
  <2>1. made' = made /\ reply' = reply
    BY <1>5 DEF PromptStep, Lock, Handle, Cancel, Unhandle, Failed, Finish, Move, MoveWith, runtimeVars
  <2>2. connected' = connected \/ connected' \in BOOLEAN
    BY <1>5 DEF PromptStep, Lock, Handle, Cancel, Unhandle, Failed, Finish, serverVars
  <2>3. promptMu' \in {promptMu, c, NoCaller}
    BY <1>5 DEF PromptStep, Lock, Handle, Cancel, Unhandle, Failed, Finish, runtimeVars
  <2> QED
    BY <2>1, <2>2, <2>3 DEF RuntimeRest
<1> QED
  BY <1>1, <1>2, <1>3, <1>4, <1>5 DEF Advance

(* The steps of the process and of its goroutines. *)
LEMMA ReadSids ==
    ASSUME TypeInv, SessionInv, NEW p \in Procs, ReadLoop(p)
    PROVE  SessionInv'
<1>1. UNCHANGED <<pc, loc, handlers, closed, greeted, promptMu, made>>
  BY DEF ReadLoop, runtimeVars
<1>2. ClosesNameSessions'
  BY ReadKeeps DEF RequestsKept, Same, SessionInv, ClosesNameSessions
<1>3. Head(stdout[p]).id \in Nat
  BY HeadTyped DEF ReadLoop, TypeInv, KernelTyped
<1>4. reply' \in [Callers -> SUBSET Nat]
  BY <1>3 DEF ReadLoop, DispatchAnswer, DispatchUpdate, DispatchPermission, SessionInv, RuntimeRest
<1>5. connected' \in BOOLEAN
  BY DEF ReadLoop, DispatchAnswer, DispatchUpdate, DispatchPermission, SessionInv, RuntimeRest
<1> QED
  BY <1>1, <1>2, <1>4, <1>5 DEF SessionInv, HasSid, HandlersKnown, OfPrompt, KernelRest, RuntimeRest

LEMMA KernelSids ==
    ASSUME TypeInv, SessionInv, NEW p \in Procs, Kernel(p),
           UNCHANGED <<serverVars, callerVars, runtimeVars>>
    PROVE  SessionInv'
<1>1. UNCHANGED <<pc, loc, handlers, connected, promptMu, reply, made>>
  BY DEF serverVars, callerVars, runtimeVars
<1>2. ClosesNameSessions' /\ KernelRest'
  <2>1. CASE Die(p)
    BY <2>1 DEF Die, TypeInv, KernelTyped, SessionInv, ClosesNameSessions, KernelRest
  <2>2. ASSUME NEW r \in inbox[p], Answer(p, r) \/ AskPermission(p, r)
        PROVE  ClosesNameSessions' /\ KernelRest'
    <3>1. ClosesNameSessions'
      BY <2>2, KernelKeeps DEF RequestsKept, Same, TypeInv, SessionInv, ClosesNameSessions
    <3>2. r.sid \in Sid \cup {NoSid} /\ (r.method = "close" => r.sid # NoSid)
      BY DEF TypeInv, KernelTyped, Request, SessionInv, ClosesNameSessions
    <3>3. closed' \subseteq Sid
      BY <2>2, <3>2 DEF Answer, AnswerPlain, AnswerNew, AnswerClose, AnswerPrompt, AskPermission,
                        SessionInv, KernelRest
    <3>4. greeted' \subseteq Procs
      BY <2>2 DEF Answer, AnswerPlain, AnswerNew, AnswerClose, AnswerPrompt, AskPermission,
                  SessionInv, KernelRest
    <3> QED
      BY <3>1, <3>3, <3>4 DEF KernelRest
  <2> QED
    BY <2>1, <2>2 DEF Kernel
<1> QED
  BY <1>1, <1>2 DEF SessionInv, HasSid, HandlersKnown, OfPrompt, RuntimeRest

LEMMA CallerSids ==
    ASSUME AcpAssumption, TypeInv, AnswerInv, SessionInv, NEW c \in Callers,
           Begin(c) \/ Advance(c) \/ Deadline(c) \/ ClientLeaves(c)
    PROVE  SessionInv'
<1>1. RuntimeRest'
  BY CallerRest DEF SessionInv
<1>2. ASSUME OthersKept(c), HasSid(c)' PROVE \A d \in Callers : HasSid(d)'
  BY <1>2 DEF OthersKept, SessionInv, HasSid
<1>3. CASE Silent(c)
  <2>1. OthersKept(c) /\ PipesShrink /\ UNCHANGED <<greeted, closed>>
    BY <1>3, SilentShape
  <2>2. HasSid(c)' /\ HandlersKnown'
    BY <1>3, SilentSids, SilentHandlers DEF SessionInv
  <2> QED
    BY <1>1, <1>2, <2>1, <2>2 DEF SessionInv, PipesShrink, ClosesNameSessions, KernelRest
<1>4. CASE RequestSent(c)
  <2>1. OthersKept(c) /\ UNCHANGED <<greeted, closed>>
    BY <1>4, SentShape DEF RequestSent, Deliver
  <2>2. HasSid(c)' /\ ClosesNameSessions' /\ HandlersKnown'
    BY <1>4, SentSids DEF SessionInv
  <2> QED
    BY <1>1, <1>2, <2>1, <2>2 DEF SessionInv, KernelRest
<1>5. CASE (Receive(c) \/ Abandon(c))
  <2>1. OthersKept(c) /\ UNCHANGED <<inbox, greeted, closed>>
    BY <1>5, ResumeShape DEF processVars
  <2>2. HasSid(c)' /\ HandlersKnown'
    BY <1>5, ResumeSids DEF SessionInv
  <2> QED
    BY <1>1, <1>2, <2>1, <2>2 DEF SessionInv, ClosesNameSessions, KernelRest
<1> QED
  BY <1>3, <1>4, <1>5 DEF Silent, Advance, RequestStep, Deadline, ClientLeaves

LEMMA SessionInvHolds == Spec => []SessionInv
<1>1. Init => SessionInv
  <2> SUFFICES ASSUME Init PROVE SessionInv
    OBVIOUS
  <2>1. \A c \in Callers : HasSid(c)
    BY DEF Init, HasSid
  <2>2. ClosesNameSessions /\ KernelRest
    BY DEF Init, ProcessInit, ClosesNameSessions, KernelRest
  <2>3. HandlersKnown
    BY DEF Init, HandlersKnown
  <2>4. RuntimeRest
    <3>1. reply \in [Callers -> SUBSET Nat] /\ connected \in BOOLEAN /\ promptMu = NoCaller
      BY DEF Init
    <3>2. made \in 0 .. MaxOps
      BY AcpAssumption DEF Init, AcpAssumption
    <3> QED
      BY <3>1, <3>2 DEF RuntimeRest
  <2> QED
    BY <2>1, <2>2, <2>3, <2>4 DEF SessionInv
<1>2. TypeInv /\ AnswerInv /\ SessionInv /\ [Next]_vars => SessionInv'
  <2> SUFFICES ASSUME TypeInv, AnswerInv, SessionInv, [Next]_vars PROVE SessionInv'
    OBVIOUS
  <2>1. ASSUME NEW c \in Callers, Begin(c) \/ Advance(c) \/ Deadline(c) \/ ClientLeaves(c)
        PROVE  SessionInv'
    BY <2>1, AcpAssumption, CallerSids
  <2>2. ASSUME NEW p \in Procs, WatchProc(p) PROVE SessionInv'
    <3>1. /\ PipesShrink /\ UNCHANGED <<pc, loc, reply, greeted, closed>> /\ handlers' \subseteq handlers
          /\ connected' = connected \/ connected' = FALSE
      BY <2>2, WatchShape
    <3>2. UNCHANGED <<promptMu, made>>
      BY <2>2 DEF WatchProc, runtimeVars
    <3> QED
      BY <3>1, <3>2 DEF SessionInv, HasSid, PipesShrink, ClosesNameSessions, HandlersKnown, OfPrompt,
                        KernelRest, RuntimeRest
  <2>3. CASE Stop
    <3>1. PipesShrink /\ UNCHANGED <<loc, reply, greeted, closed, promptMu>> /\ handlers' \subseteq handlers
          /\ \A c \in Callers : pc'[c] = "halted"
      BY <2>3, StopShape
    <3>2. made' = made /\ (connected' = connected \/ connected' = FALSE)
      BY <2>3 DEF Stop, KillLocked, serverVars, runtimeVars
    <3>3. \A c \in Callers : HasSid(c)'
      BY <3>1 DEF HasSid
    <3>4. HandlersKnown'
      BY <3>1 DEF SessionInv, HandlersKnown
    <3> QED
      BY <3>1, <3>2, <3>3, <3>4 DEF SessionInv, PipesShrink, ClosesNameSessions, KernelRest, RuntimeRest
  <2>4. CASE UNCHANGED vars
    BY <2>4 DEF vars, processVars, serverVars, callerVars, runtimeVars, SessionInv, HasSid,
                ClosesNameSessions, HandlersKnown, OfPrompt, KernelRest, RuntimeRest
  <2> QED
    BY <2>1, <2>2, <2>3, <2>4, ReadSids, KernelSids DEF Next
<1> QED
  BY <1>1, <1>2, TypeInvHolds, AnswerInvHolds, PTL DEF Spec

(* Every variable has its type; in particular a session that is prompted,  *)
(* for which a callback is registered, or that is closed is one the kernel *)
(* has named.                                                              *)
THEOREM AcpTypeCorrect == Spec => []TypeOK
<1>1. TypeInv /\ SessionInv => TypeOK
  <2> SUFFICES ASSUME TypeInv, SessionInv PROVE TypeOK
    OBVIOUS
  <2>1. mail \in [Callers -> Message \cup {NoMail, GoneMail}]
    BY DEF TypeInv, CallersTyped, Mail
  <2>2. sessions \in [Keys -> Sid \cup {NoSid}]
    BY DEF TypeInv, ServerTyped, SidOrNone
  <2>3. handlers \subseteq [sid : Sid, by : Callers]
    BY DEF SessionInv, HandlersKnown
  <2> QED
    BY <2>1, <2>2, <2>3 DEF TypeOK, TypeInv, KernelTyped, ServerTyped, RuntimeTyped, CallersTyped,
                            SessionInv, KernelRest, RuntimeRest
<1> QED
  BY <1>1, TypeInvHolds, SessionInvHolds, PTL

(* A callback is registered only while its prompt is under way.            *)
THEOREM HandlersEndWithPrompt == Spec => []HandlerBelongsToPrompt
<1>1. SessionInv => HandlerBelongsToPrompt
  <2> SUFFICES ASSUME SessionInv, NEW h \in handlers
               PROVE  \/ /\ pc[h.by] \in {"prompt", "wait", "cancel", "unhandle"}
                         /\ loc[h.by].op = "prompt" /\ loc[h.by].sid = h.sid
                      \/ At(h.by, "halted")
    BY DEF HandlerBelongsToPrompt
  <2>1. OfPrompt(h) \/ pc[h.by] = "halted"
    BY DEF SessionInv, HandlersKnown
  <2> QED
    BY <2>1 DEF OfPrompt, At
<1> QED
  BY <1>1, SessionInvHolds, PTL

-------------------------------------------------------------------------------
(* Goroutines that only prompt are serialised by promptMu, from Lock to    *)
(* Finish.  NewSession and SyncConfig start and stop processes without it: *)
(* with them none of the following holds.                                  *)
PromptsOnly == Ops \subseteq {"prompt"}

Busy(c) == pc[c] \notin {"idle", "lock", "halted"}

PromptLocked == \A c \in Callers : Busy(c) => promptMu = c

InStart(c) ==
    \/ pc[c] \in {"init", "connect", "undo"}
    \/ pc[c] = "wait" /\ loc[c].method = "init"

(* The current process, if it is alive, has answered initialize. *)
Welcome == Running(proc) => proc \in greeted

ProcessSound ==
    /\ OneKernel /\ HandshakeFirst
    /\ \A p \in Procs : inbox[p] # {} => Running(p)
    /\ connected => Welcome

Starting(c) ==
    /\ pc[c] = "spawn" => ~Running(proc)
    /\ pc[c] = "connect" => Welcome
    /\ pc[c] = "wait" /\ loc[c].method = "init" /\ mail[c].kind = "answer" => Welcome

InitLines ==
    \A q \in pending, p \in Procs : \A i \in 1 .. Len(stdout[p]) :
        stdout[p][i].id = q.id /\ stdout[p][i].kind = "answer"
          => (pc[q.by] = "wait" /\ loc[q.by].method = "init" => Welcome)

(* A living process that is not connected is being started. *)
StartUnderWay == Running(proc) => connected \/ \E c \in Callers : InStart(c)

KernelInv ==
    /\ PromptLocked /\ ProcessSound /\ StartUnderWay /\ InitLines
    /\ \A c \in Callers : Starting(c)

LEMMA LockHeld ==
    ASSUME AcpAssumption, PromptsOnly, TypeInv, PromptLocked, [Next]_vars
    PROVE  PromptLocked'
<1>1. ASSUME NEW c \in Callers, OthersKept(c), promptMu' = promptMu, Busy(c) \/ ~Busy(c)'
      PROVE  PromptLocked'
  BY <1>1 DEF OthersKept, PromptLocked, Busy
<1>2. ASSUME NEW c \in Callers, Begin(c) PROVE PromptLocked'
  <2>1. PICK k \in Keys : BeginPrompt(c, k)
    BY <1>2 DEF PromptsOnly, Begin, BeginNewSession, BeginSync
  <2>2. pc'[c] = "lock" /\ promptMu' = promptMu
    BY <2>1, Moved DEF BeginPrompt, TypeInv
  <2> QED
    BY <1>1, <1>2, <2>2, SilentShape DEF Silent, Busy
<1>3. ASSUME NEW c \in Callers, Lock(c) PROVE PromptLocked'
  <2>1. OthersKept(c) /\ promptMu' = c /\ promptMu = NoCaller
    BY <1>3, SilentShape DEF Silent, PromptStep, Lock
  <2>2. \A d \in Callers : ~Busy(d)
    BY <2>1 DEF PromptLocked, AcpAssumption
  <2> QED
    BY <2>1, <2>2 DEF OthersKept, PromptLocked, Busy
<1>4. ASSUME NEW c \in Callers, Finish(c) PROVE PromptLocked'
  <2>1. OthersKept(c) /\ pc[c] = "finish" /\ pc'[c] = "idle"
    BY <1>4, SilentShape, Moved DEF Silent, PromptStep, Finish, At, TypeInv
  <2>2. promptMu = c
    BY <2>1 DEF PromptLocked, Busy
  <2> QED
    BY <2>1, <2>2 DEF OthersKept, PromptLocked, Busy
<1>5. ASSUME NEW c \in Callers, Advance(c) \/ Deadline(c) \/ ClientLeaves(c), ~Lock(c), ~Finish(c)
      PROVE  PromptLocked'
  <2>1. CASE RequestStep(c) \/ Deadline(c) \/ ClientLeaves(c)
    <3>1. promptMu' = promptMu
      BY <2>1 DEF RequestStep, RequestSent, RequestUnsent, RequestBroken, Receive, Deadline,
                  ClientLeaves, Abandon, runtimeVars
    <3>2. Busy(c)
      BY <2>1 DEF RequestStep, RequestSent, RequestUnsent, RequestBroken, Receive, Deadline,
                  ClientLeaves, Abandon, At, Busy, Method
    <3>3. OthersKept(c)
      BY <2>1, SilentShape, SentShape, ResumeShape DEF Silent, RequestStep, Deadline, ClientLeaves
    <3> QED
      BY <1>1, <3>1, <3>2, <3>3
  <2>2. CASE StartStep(c) \/ SessionStep(c) \/ PromptStep(c) \/ SwitchStep(c)
    <3>1. promptMu' = promptMu
      BY <1>5, <2>2 DEF StartStep, EnsureStarted, Spawn, SpawnFails, Connect, UndoStart, SessionStep,
                  Lookup, Store, Swap, Forget, PromptStep, Handle, Cancel, Unhandle, Failed,
                  SwitchStep, Restart, Compare, runtimeVars
    <3>2. Busy(c)
      BY <1>5, <2>2 DEF StartStep, EnsureStarted, Spawn, SpawnFails, Connect, UndoStart, SessionStep,
                  Lookup, Store, Swap, Forget, PromptStep, Handle, Cancel, Unhandle, Failed,
                  SwitchStep, Restart, Compare, At, Busy
    <3>3. OthersKept(c)
      BY <2>2, SilentShape DEF Silent
    <3> QED
      BY <1>1, <3>1, <3>2, <3>3
  <2> QED
    BY <1>5, <2>1, <2>2 DEF Advance
<1>6. ASSUME NEW p \in Procs, ReadLoop(p) \/ WatchProc(p) PROVE PromptLocked'
  BY <1>6 DEF ReadLoop, WatchProc, runtimeVars, PromptLocked, Busy
<1>7. CASE Stop
  BY <1>7, StopShape DEF PromptLocked, Busy
<1>8. CASE UNCHANGED <<serverVars, callerVars, runtimeVars>>
  BY <1>8 DEF serverVars, callerVars, runtimeVars, PromptLocked, Busy
<1> QED
  BY <1>2, <1>3, <1>4, <1>5, <1>6, <1>7, <1>8 DEF Next, vars, Advance

(* While c is busy no other goroutine is. *)
LEMMA Alone ==
    ASSUME PromptLocked, NEW c \in Callers, Busy(c), NEW d \in Callers \ {c}
    PROVE  pc[d] \in {"idle", "lock", "halted"} /\ ~Busy(d) /\ ~InStart(d)
  BY DEF PromptLocked, Busy, InStart

(* A step of the only busy goroutine, unless it goes to its wait. *)
LEMMA AloneKernel ==
    ASSUME TypeInv', KernelInv, NEW c \in Callers, Busy(c), OthersKept(c), pc'[c] # "wait",
           PromptLocked', ProcessSound',
           pc'[c] = "spawn" => ~Running(proc)',
           pc'[c] = "connect" => Welcome',
           Running(proc)' => connected' \/ InStart(c)'
    PROVE  KernelInv'
<1>1. \A d \in Callers \ {c} : pc'[d] \in {"idle", "lock", "halted"}
  BY Alone DEF KernelInv, OthersKept
<1>2. \A d \in Callers : Starting(d)'
  BY <1>1 DEF Starting
<1>3. InitLines'
  <2>1. \A q \in pending' : q.by \in Callers /\ pc'[q.by] # "wait"
    BY <1>1 DEF TypeInv, ServerTyped
  <2> QED
    BY <2>1 DEF InitLines
<1>4. StartUnderWay'
  BY DEF StartUnderWay
<1> QED
  BY <1>2, <1>3, <1>4 DEF KernelInv

LEMMA ProcessKept ==
    ASSUME ProcessSound, UNCHANGED <<child, inbox, greeted, proc>>,
           connected' => connected \/ ~Running(proc)
    PROVE  ProcessSound'
  BY DEF ProcessSound, OneKernel, HandshakeFirst, Running, Welcome

(* A process that is killed leaves none. *)
LEMMA ProcessKilled ==
    ASSUME AcpAssumption, TypeInv, ProcessSound, KillLocked
    PROVE  ProcessSound' /\ ~Running(proc)'
<1>1. NoProc \notin Procs
  BY DEF AcpAssumption
<1>2. CASE proc = NoProc
  BY <1>1, <1>2 DEF KillLocked, ProcessSound, OneKernel, HandshakeFirst, Running, Welcome,
                    processVars, serverVars
<1>3. CASE proc # NoProc
  <2>1. /\ child' = [child EXCEPT ![proc] = "reaped"] /\ inbox' = [inbox EXCEPT ![proc] = {}]
        /\ greeted' = greeted /\ proc' = NoProc /\ connected' = FALSE /\ proc \in Procs
    BY <1>3 DEF KillLocked, Terminate, TypeInv, ServerTyped
  <2>2. \A p \in Procs : child'[p] # "running" /\ (p # proc => inbox'[p] = inbox[p]) /\ inbox'[proc] = {}
    BY <2>1 DEF ProcessSound, OneKernel, Running, TypeInv, KernelTyped
  <2>3. \A p \in Procs : inbox'[p] = {}
    BY <2>1, <2>2 DEF ProcessSound, OneKernel, Running, TypeInv, KernelTyped
  <2> QED
    BY <1>1, <2>1, <2>2, <2>3 DEF ProcessSound, OneKernel, HandshakeFirst, Running, Welcome
<1> QED
  BY <1>2, <1>3

(* c starts the process, and no other goroutine can be starting one. *)
LEMMA StartKernel ==
    ASSUME AcpAssumption, PromptsOnly, TypeInv, TypeInv', KernelInv, PromptLocked',
           NEW c \in Callers, StartStep(c) \/ Restart(c)
    PROVE  KernelInv'
<1> USE DEF TypeInv
<1>1. OthersKept(c) /\ pc'[c] # "wait"
  BY SilentShape DEF Silent, SwitchStep, Waits
<1>2. Busy(c)
  BY DEF StartStep, EnsureStarted, Spawn, SpawnFails, Connect, UndoStart, Restart, At, Busy
<1>3. ~InStart(c) => (Running(proc) => connected)
  BY <1>2, Alone DEF KernelInv, StartUnderWay
<1>4. NoProc \notin Procs
  BY DEF AcpAssumption
<1>5. CASE EnsureStarted(c)
  <2>1. UNCHANGED <<child, inbox, greeted, proc, connected>> /\ pc[c] = "ensure"
    BY <1>5 DEF EnsureStarted, processVars, serverVars, At
  <2>2. Running(proc) => connected
    BY <1>3, <2>1 DEF InStart
  <2>3. pc'[c] = (IF proc # NoProc /\ connected THEN "lookup" ELSE "spawn")
    BY <1>5, Moved DEF EnsureStarted
  <2>4. pc'[c] = "spawn" => ~Running(proc)
    BY <1>4, <2>2, <2>3 DEF Running
  <2>5. ProcessSound' /\ Running(proc)' = Running(proc)
    BY <2>1, ProcessKept DEF KernelInv, Running
  <2>6. pc'[c] # "connect"
    BY <2>3
  <2> QED
    BY <1>1, <1>2, <2>1, <2>2, <2>4, <2>5, <2>6, AloneKernel
<1>6. CASE SpawnFails(c)
  <2>1. UNCHANGED <<child, inbox, greeted, proc, connected>> /\ pc[c] = "spawn" /\ pc'[c] = "failed"
    BY <1>6, Moved DEF SpawnFails, Fail, processVars, serverVars, At
  <2>2. ProcessSound' /\ Running(proc)' = Running(proc)
    BY <2>1, ProcessKept DEF KernelInv, Running
  <2>3. Running(proc) => connected
    BY <1>3, <2>1 DEF InStart
  <2> QED
    BY <1>1, <1>2, <2>1, <2>2, <2>3, AloneKernel
<1>7. CASE Spawn(c)
  <2>1. pc[c] = "spawn" /\ pc'[c] = "init"
    BY <1>7, Moved DEF Spawn, At
  <2>2. PICK p \in Procs : Launch(p) /\ proc' = p /\ connected' = FALSE
    <3>1. (CHOOSE q \in Procs : child[q] = "unborn") \in Procs
      BY <1>7, Zenon DEF Spawn
    <3> QED
      BY <1>7, <3>1 DEF Spawn
  <2>3. \A q \in Procs : child[q] # "running"
    BY <2>1 DEF KernelInv, Starting, ProcessSound, OneKernel, Running
  <2>4. child' = [child EXCEPT ![p] = "running"] /\ inbox' = inbox /\ greeted' = greeted
    BY <2>2 DEF Launch
  <2>5. \A q \in Procs : inbox[q] = {}
    BY <2>3 DEF KernelInv, ProcessSound, Running
  <2>6. ProcessSound'
    BY <2>2, <2>3, <2>4, <2>5 DEF ProcessSound, OneKernel, HandshakeFirst, Running, KernelTyped
  <2>7. InStart(c)'
    BY <2>1 DEF InStart
  <2> QED
    BY <1>1, <1>2, <2>1, <2>6, <2>7, AloneKernel
<1>8. CASE Connect(c)
  <2>1. /\ UNCHANGED <<child, inbox, greeted, proc>> /\ connected' = TRUE
        /\ pc[c] = "connect" /\ pc'[c] = loc[c].then
    BY <1>8, Moved DEF Connect, processVars, At
  <2>2. loc[c].then \notin {"spawn", "connect"}
    BY LocalFields DEF CallersTyped
  <2>3. Welcome
    BY <2>1 DEF KernelInv, Starting
  <2>4. ProcessSound'
    BY <2>1, <2>3 DEF KernelInv, ProcessSound, OneKernel, HandshakeFirst, Running, Welcome
  <2> QED
    BY <1>1, <1>2, <2>1, <2>2, <2>4, AloneKernel
<1>9. CASE (UndoStart(c) \/ Restart(c))
  <2>1. ProcessSound' /\ ~Running(proc)'
    BY <1>9, ProcessKilled DEF UndoStart, Restart, KernelInv
  <2>2. pc'[c] \in {"failed", "spawn"}
    BY <1>9, Moved DEF UndoStart, Restart, Fail
  <2> QED
    BY <1>1, <1>2, <2>1, <2>2, AloneKernel
<1> QED
  BY <1>5, <1>6, <1>7, <1>8, <1>9 DEF StartStep

(* The steps of a busy goroutine that leave the process alone. *)
LEMMA BusyKernel ==
    ASSUME AcpAssumption, TypeInv, TypeInv', KernelInv, PromptLocked', NEW c \in Callers,
           \/ SessionStep(c) \/ Handle(c) \/ Cancel(c) \/ Unhandle(c) \/ Failed(c) \/ Finish(c)
           \/ Compare(c)
    PROVE  KernelInv'
<1> USE DEF TypeInv
<1>1. OthersKept(c) /\ pc'[c] # "wait"
  BY SilentShape DEF Silent, PromptStep, SwitchStep, Waits
<1>2. Busy(c) /\ ~InStart(c)
  BY DEF SessionStep, Lookup, Store, Swap, Forget, Handle, Cancel, Unhandle, Failed, Finish, Compare,
         At, Busy, InStart
<1>3. Running(proc) => connected
  BY <1>2, Alone DEF KernelInv, StartUnderWay
<1>4. UNCHANGED <<child, inbox, greeted, proc>>
  BY DEF SessionStep, Lookup, Store, Swap, Forget, Handle, Cancel, Unhandle, Failed, Finish, Compare,
         processVars, serverVars
<1>5. Cancel(c) \/ connected' = connected
  BY DEF SessionStep, Lookup, Store, Swap, Forget, Handle, Unhandle, Failed, Finish, Compare, serverVars
<1>6. (connected' => connected) /\ (Running(proc) => connected')
  <2>1. CASE connected' = connected
    BY <1>3, <2>1
  <2>2. CASE Cancel(c)
    <3>1. connected' = (connected /\ (proc = NoProc \/ Running(proc)))
      BY <2>2 DEF Cancel
    <3> QED
      BY <1>3, <3>1
  <2> QED
    BY <1>5, <2>1, <2>2
<1>7. pc'[c] \notin {"spawn", "connect"}
  <2>1. \A label, l : Move(c, label) \/ MoveWith(c, label, l) => pc'[c] = label
    BY Moved
  <2>2. CASE SessionStep(c)
    BY <2>1, <2>2 DEF SessionStep, Lookup, Store, Swap, Forget, Opened
  <2>3. CASE Handle(c) \/ Cancel(c) \/ Unhandle(c)
    BY <2>1, <2>3 DEF Handle, Cancel, Unhandle
  <2>4. CASE Failed(c) \/ Finish(c) \/ Compare(c)
    BY <2>1, <2>4 DEF Failed, Finish, Compare
  <2> QED
    BY <2>2, <2>3, <2>4
<1>8. ProcessSound' /\ Running(proc)' = Running(proc)
  BY <1>4, <1>6, ProcessKept DEF KernelInv, Running
<1> QED
  BY <1>1, <1>2, <1>6, <1>7, <1>8, AloneKernel

(* A request is sent to a process that has been greeted, unless it is the  *)
(* greeting itself.                                                        *)
LEMMA SentKernel ==
    ASSUME AcpAssumption, TypeInv, WaitInv, IdsUsed, KernelInv, PromptLocked',
           NEW c \in Callers, RequestSent(c)
    PROVE  KernelInv'
<1> USE DEF TypeInv
<1>1. /\ OthersKept(c) /\ mail' = mail /\ stdout' = stdout /\ pc[c] \in Method /\ ~Waits(c)
      /\ pc'[c] = "wait" /\ loc'[c].method = pc[c]
      /\ pending' \subseteq pending \cup {[id |-> nextID + 1, by |-> c]}
  BY SentShape
<1>2. Busy(c) /\ (pc[c] # "init" => ~InStart(c))
  BY <1>1 DEF Busy, InStart, Waits, Method
<1>3. UNCHANGED <<child, greeted, proc, connected>> /\ proc \in Procs /\ Running(proc)
  BY DEF RequestSent, Deliver, Running
<1>4. pc[c] # "init" => connected /\ proc \in greeted
  BY <1>2, <1>3, Alone DEF KernelInv, StartUnderWay, ProcessSound, Welcome
<1>5. ProcessSound'
  <2> DEFINE r == [id |-> nextID + 1, by |-> c, method |-> pc[c], sid |-> SidOf(c), stage |-> "sent"]
  <2>1. inbox' = [inbox EXCEPT ![proc] = inbox[proc] \cup {r}] /\ r.method = pc[c]
    BY DEF RequestSent, Deliver
  <2> HIDE DEF r
  <2>2. \A p \in Procs : \A x \in inbox'[p] : x \in inbox[p] \/ (x = r /\ p = proc)
    BY <2>1 DEF KernelTyped
  <2>3. HandshakeFirst'
    BY <1>3, <1>4, <2>1, <2>2 DEF HandshakeFirst, KernelInv, ProcessSound
  <2>4. \A p \in Procs : inbox'[p] # {} => Running(p)'
    BY <1>3, <2>2 DEF KernelInv, ProcessSound, Running
  <2>5. OneKernel' /\ (connected' => Welcome')
    BY <1>3 DEF KernelInv, ProcessSound, OneKernel, Running, Welcome
  <2> QED
    BY <2>3, <2>4, <2>5 DEF ProcessSound
<1>6. StartUnderWay'
  <2>1. pc[c] = "init" => InStart(c)'
    BY <1>1 DEF InStart
  <2> QED
    BY <1>3, <1>4, <2>1 DEF StartUnderWay
<1>7. InitLines'
  <2>1. \A q \in pending' : pc'[q.by] = "wait" => q.id = nextID + 1
    <3>1. \A q \in pending : q.by \in Callers /\ q.by # c
      BY <1>1 DEF WaitInv, PendingWaits, ServerTyped
    <3>2. \A q \in pending : pc'[q.by] = pc[q.by] /\ pc[q.by] # "wait"
      BY <1>1, <1>2, <3>1, Alone DEF OthersKept, KernelInv
    <3> QED
      BY <1>1, <3>2
  <2>2. \A p \in Procs : \A i \in 1 .. Len(stdout[p]) : stdout[p][i].id # nextID + 1
    BY DEF IdsUsed, ServerTyped
  <2> QED
    BY <1>1, <2>1, <2>2 DEF InitLines
<1>8. \A d \in Callers : Starting(d)'
  <2>1. \A d \in Callers \ {c} : pc'[d] \in {"idle", "lock", "halted"}
    BY <1>1, <1>2, Alone DEF OthersKept, KernelInv
  <2>2. mail'[c].kind # "answer"
    BY <1>1 DEF WaitInv, OneMail, NoMail
  <2> QED
    BY <1>1, <2>1, <2>2 DEF Starting
<1> QED
  BY <1>5, <1>6, <1>7, <1>8 DEF KernelInv

LEMMA UnsentKernel ==
    ASSUME AcpAssumption, TypeInv, TypeInv', KernelInv, PromptLocked', NEW c \in Callers,
           RequestUnsent(c) \/ RequestBroken(c)
    PROVE  KernelInv'
<1>1. OthersKept(c) /\ pc'[c] # "wait"
  BY SilentShape DEF Silent, Waits
<1>2. Busy(c) /\ ~Running(proc) /\ pc[c] \in Method
  BY DEF RequestUnsent, RequestBroken, Busy, Method, Running, AcpAssumption
<1>3. UNCHANGED <<child, inbox, greeted, proc>> /\ (connected' = connected \/ connected' = FALSE)
  BY DEF RequestUnsent, RequestBroken, processVars, serverVars
<1>4. ProcessSound' /\ ~Running(proc)'
  BY <1>2, <1>3, ProcessKept DEF KernelInv, Running
<1>5. pc'[c] # "spawn" /\ (pc'[c] = "connect" => Welcome')
  <2>1. pc'[c] = OnError(c)[pc[c]]
    BY Moved DEF RequestUnsent, RequestBroken, TypeInv
  <2>2. OnError(c)[pc[c]] # "spawn"
    BY <1>2 DEF OnError, Opened, Method
  <2> QED
    BY <1>4, <2>1, <2>2 DEF Welcome
<1> QED
  BY <1>1, <1>2, <1>4, <1>5, AloneKernel

LEMMA ResumeKernel ==
    ASSUME TypeInv, TypeInv', KernelInv, PromptLocked', NEW c \in Callers, Receive(c) \/ Abandon(c)
    PROVE  KernelInv'
<1> DEFINE m == loc[c].method
<1>1. /\ OthersKept(c) /\ pc[c] = "wait" /\ m \in Method
      /\ UNCHANGED <<child, inbox, greeted, proc, connected>>
  BY ResumeShape DEF processVars
<1>2. \/ pc'[c] = OnAnswer(c)[m] /\ mail[c].kind = "answer"
      \/ pc'[c] = OnError(c)[m] \/ pc'[c] = OnTimeout(c)[m]
  BY ResumeShape DEF Resumed
<1>3. Busy(c) /\ (InStart(c) => m = "init")
  BY <1>1 DEF Busy, InStart
<1>4. /\ OnAnswer(c)[m] \notin {"spawn", "wait"} /\ (OnAnswer(c)[m] = "connect" <=> m = "init")
      /\ OnError(c)[m] \notin {"spawn", "wait", "connect"} /\ (m = "init" => OnError(c)[m] = "undo")
      /\ OnTimeout(c)[m] \notin {"spawn", "wait", "connect"} /\ (m = "init" => OnTimeout(c)[m] = "undo")
  <2>1. Opened(c) \in {"handle", "finish"}
    BY DEF Opened
  <2>2. m \in {"init", "new", "mode", "prompt", "close"}
    BY <1>1 DEF Method
  <2> HIDE DEF m
  <2>3. CASE m = "init"
    BY <2>3 DEF OnAnswer, OnError, OnTimeout
  <2>4. CASE m = "new"
    BY <2>4 DEF OnAnswer, OnError, OnTimeout
  <2>5. CASE m = "mode"
    BY <2>1, <2>5 DEF OnAnswer, OnError, OnTimeout
  <2>6. CASE m = "prompt"
    BY <2>6 DEF OnAnswer, OnError, OnTimeout
  <2>7. CASE m = "close"
    BY <2>7 DEF OnAnswer, OnError, OnTimeout
  <2> QED
    BY <2>2, <2>3, <2>4, <2>5, <2>6, <2>7
<1>5. ProcessSound' /\ Running(proc)' = Running(proc) /\ Welcome' = Welcome
  BY <1>1, ProcessKept DEF KernelInv, Running, Welcome
<1>6. pc'[c] = "connect" => Welcome
  BY <1>1, <1>2, <1>4 DEF KernelInv, Starting
<1>7. InStart(c) => InStart(c)'
  BY <1>2, <1>3, <1>4 DEF InStart
<1>8. Running(proc) => connected \/ InStart(c)
  BY <1>3, Alone DEF KernelInv, StartUnderWay
<1>9. pc'[c] \notin {"spawn", "wait"}
  BY <1>2, <1>4
<1>10. Running(proc)' => connected' \/ InStart(c)'
  BY <1>1, <1>5, <1>7, <1>8
<1> QED
  BY <1>1, <1>3, <1>5, <1>6, <1>9, <1>10, AloneKernel

(* A request reaches the runtime, or waits for the mutex no longer. *)
LEMMA EntryKernel ==
    ASSUME PromptsOnly, TypeInv, KernelInv, PromptLocked', NEW c \in Callers, Begin(c) \/ Lock(c)
    PROVE  KernelInv'
<1>1. UNCHANGED <<child, inbox, greeted, proc, connected, stdout, pending>>
  BY DEF Begin, BeginPrompt, BeginNewSession, BeginSync, Lock, processVars, serverVars
<1>2. OthersKept(c) /\ ~Waits(c)
  BY SilentShape DEF Silent, PromptStep
<1>3. pc'[c] \in {"lock", "ensure"} /\ pc[c] \in {"idle", "lock"}
  <2>1. CASE Lock(c)
    BY <2>1, Moved DEF Lock, At, TypeInv
  <2>2. CASE Begin(c)
    <3>1. PICK k \in Keys : BeginPrompt(c, k)
      BY <2>2 DEF PromptsOnly, Begin, BeginNewSession, BeginSync
    <3> QED
      BY <3>1, Moved DEF BeginPrompt, At, TypeInv
  <2> QED
    BY <2>1, <2>2
<1>4. ProcessSound'
  BY <1>1, ProcessKept DEF KernelInv
<1>5. Running(proc)' = Running(proc) /\ Welcome' = Welcome
  BY <1>1 DEF Running, Welcome
<1>6. StartUnderWay'
  BY <1>1, <1>2, <1>3, <1>5 DEF KernelInv, StartUnderWay, InStart, OthersKept
<1>7. InitLines'
  <2>1. \A q \in pending : pc'[q.by] = "wait" => pc[q.by] = "wait" /\ loc'[q.by] = loc[q.by]
    BY <1>2, <1>3 DEF OthersKept, TypeInv, ServerTyped
  <2> QED
    BY <1>1, <1>5, <2>1 DEF KernelInv, InitLines
<1>8. \A d \in Callers : Starting(d)'
  BY <1>2, <1>3, <1>5 DEF KernelInv, Starting, OthersKept
<1> QED
  BY <1>4, <1>6, <1>7, <1>8 DEF KernelInv

LEMMA ReadKernel ==
    ASSUME TypeInv, KernelInv, PromptLocked', NEW p \in Procs, ReadLoop(p)
    PROVE  KernelInv'
<1> DEFINE m == Head(stdout[p])
<1>1. UNCHANGED <<pc, loc, child, greeted, proc>> /\ m \in Message /\ pending' \subseteq pending
  BY ReadShape
<1>2. /\ stdout[p] \in Seq(Message) /\ stdout[p] # <<>>
      /\ stdout' = [stdout EXCEPT ![p] = Tail(stdout[p])]
  BY DEF ReadLoop, TypeInv, KernelTyped
<1>3. connected' = connected \/ connected' = (connected /\ (proc = NoProc \/ Running(proc)))
  BY DEF ReadLoop, DispatchAnswer, DispatchUpdate, DispatchPermission
<1>4. Running(proc)' = Running(proc) /\ Welcome' = Welcome /\ \A x \in Procs : Running(x)' = Running(x)
  BY <1>1 DEF Running, Welcome
<1>5. (connected' => connected) /\ (Running(proc) /\ connected => connected')
  <2>1. CASE connected' = connected
    BY <2>1
  <2>2. CASE connected' = (connected /\ (proc = NoProc \/ Running(proc)))
    BY <2>2
  <2> QED
    BY <1>3, <2>1, <2>2
<1>6. ProcessSound'
  BY <1>1, <1>4, <1>5, ReadKeeps DEF KernelInv, ProcessSound, OneKernel, HandshakeFirst, RequestsKept, Same
<1>7. StartUnderWay'
  <2>1. \A c \in Callers : InStart(c)' = InStart(c)
    BY <1>1 DEF InStart
  <2> QED
    BY <1>4, <1>5, <2>1 DEF KernelInv, StartUnderWay
<1>8. InitLines'
  <2>1. \A i \in 1 .. Len(Tail(stdout[p])) :
           i + 1 \in 1 .. Len(stdout[p]) /\ Tail(stdout[p])[i] = stdout[p][i + 1]
    BY <1>2
  <2>2. \A x \in Procs : \A i \in 1 .. Len(stdout'[x]) :
           \E j \in 1 .. Len(stdout[x]) : stdout'[x][i] = stdout[x][j]
    BY <1>2, <2>1 DEF TypeInv, KernelTyped
  <2> QED
    BY <1>1, <1>4, <2>2 DEF KernelInv, InitLines
<1>9. ASSUME NEW c \in Callers PROVE Starting(c)'
  <2>1. mail'[c] = mail[c] \/ (mail'[c] = m /\ [id |-> m.id, by |-> c] \in pending)
    BY ReadShape
  <2>2. CASE mail'[c] = mail[c]
    BY <1>1, <1>4, <2>2 DEF KernelInv, Starting
  <2>3. CASE mail'[c] = m /\ [id |-> m.id, by |-> c] \in pending
    <3>1. m = stdout[p][1] /\ 1 \in 1 .. Len(stdout[p])
      BY <1>2
    <3>2. m.kind = "answer" /\ pc[c] = "wait" /\ loc[c].method = "init" => Welcome
      BY <2>3, <3>1 DEF KernelInv, InitLines
    <3> HIDE DEF m
    <3> QED
      BY <1>1, <1>4, <2>3, <3>2 DEF KernelInv, Starting
  <2> QED
    BY <2>1, <2>2, <2>3
<1> QED
  BY <1>6, <1>7, <1>8, <1>9 DEF KernelInv

LEMMA WatchKernel ==
    ASSUME AcpAssumption, TypeInv, KernelInv, PromptLocked', NEW p \in Procs, WatchProc(p)
    PROVE  KernelInv'
<1>1. /\ PipesShrink /\ UNCHANGED <<pc, loc, greeted>>
      /\ \/ UNCHANGED <<mail, pending, proc, connected>> /\ proc # p
         \/ /\ pending' = {} /\ proc' = NoProc /\ connected' = FALSE
            /\ \A c \in Callers : mail'[c] = mail[c] \/ mail'[c] = GoneMail
  BY WatchShape
<1>2. child' = [child EXCEPT ![p] = "reaped"] /\ child[p] = "dead"
  BY DEF WatchProc, Terminate
<1>3. \A x \in Procs : Running(x)' = Running(x)
  BY <1>2 DEF Running, TypeInv, KernelTyped
<1>4. NoProc \notin Procs /\ ~Running(NoProc) /\ ~Running(NoProc)'
  BY DEF AcpAssumption, Running
<1>5. HandshakeFirst' /\ \A x \in Procs : inbox'[x] # {} => Running(x)'
  BY <1>1, <1>3 DEF KernelInv, ProcessSound, HandshakeFirst, PipesShrink
<1>6. CASE UNCHANGED <<mail, pending, proc, connected>>
  <2>1. Running(proc)' = Running(proc)
    BY <1>2, <1>6 DEF Running, TypeInv, KernelTyped
  <2>2. Welcome' = Welcome
    BY <1>1, <1>6, <2>1 DEF Welcome
  <2>3. ProcessSound'
    BY <1>3, <1>5, <1>6, <2>2 DEF KernelInv, ProcessSound, OneKernel
  <2>4. StartUnderWay'
    BY <1>1, <1>6, <2>1 DEF KernelInv, StartUnderWay, InStart
  <2>5. InitLines'
    BY <1>1, <1>6, <2>2 DEF KernelInv, InitLines, PipesShrink
  <2>6. \A c \in Callers : Starting(c)'
    BY <1>1, <1>6, <2>1, <2>2 DEF KernelInv, Starting
  <2> QED
    BY <2>3, <2>4, <2>5, <2>6 DEF KernelInv
<1>7. CASE pending' = {} /\ proc' = NoProc /\ connected' = FALSE /\ proc = p
  <2>1. ~Running(proc)' /\ Welcome'
    BY <1>4, <1>7 DEF Running, Welcome
  <2>2. \A x \in Procs : ~Running(x)
    BY <1>2, <1>7 DEF KernelInv, ProcessSound, OneKernel, Running
  <2>3. ProcessSound'
    BY <1>3, <1>5, <1>7, <2>2 DEF ProcessSound, OneKernel
  <2>4. StartUnderWay' /\ InitLines' /\ \A c \in Callers : Starting(c)'
    BY <1>7, <2>1 DEF StartUnderWay, InitLines, Starting
  <2> QED
    BY <2>3, <2>4 DEF KernelInv
<1> QED
  BY <1>6, <1>7, WatchShape

LEMMA KernelKernel ==
    ASSUME AcpAssumption, TypeInv, AnswerInv, KernelInv, PromptLocked', NEW p \in Procs, Kernel(p),
           UNCHANGED <<serverVars, callerVars, runtimeVars>>
    PROVE  KernelInv'
<1>1. UNCHANGED <<pc, loc, mail, pending, proc, connected>>
  BY DEF serverVars, callerVars
<1>2. CASE Die(p)
  <2>1. /\ child' = [child EXCEPT ![p] = "dead"] /\ inbox' = [inbox EXCEPT ![p] = {}]
        /\ stdout' = stdout /\ greeted' = greeted
    BY <1>2 DEF Die
  <2>2. \A x \in Procs : /\ Running(x)' => Running(x)
                         /\ inbox'[x] # {} => inbox'[x] = inbox[x] /\ Running(x)' = Running(x)
    BY <2>1 DEF Running, TypeInv, KernelTyped
  <2>3. (Running(proc)' => Running(proc)) /\ (Welcome => Welcome')
    BY <1>1, <2>1, <2>2 DEF Running, Welcome
  <2>4. ProcessSound'
    BY <1>1, <2>1, <2>2, <2>3 DEF KernelInv, ProcessSound, OneKernel, HandshakeFirst
  <2>5. StartUnderWay'
    BY <1>1, <2>3 DEF KernelInv, StartUnderWay, InStart
  <2>6. InitLines' /\ \A c \in Callers : Starting(c)'
    BY <1>1, <2>1, <2>3 DEF KernelInv, InitLines, Starting
  <2> QED
    BY <2>4, <2>5, <2>6 DEF KernelInv
<1>3. ASSUME NEW r \in inbox[p], Answer(p, r) \/ AskPermission(p, r) PROVE KernelInv'
  <2>1. PICK s : Replies(p, r, s)
    BY <1>3, KernelReplies DEF TypeInv
  <2>2. child' = child /\ greeted \subseteq greeted' /\ Running(p) /\ (r.method = "init" => p \in greeted')
    BY <1>3 DEF Answer, AnswerPlain, AnswerNew, AnswerClose, AnswerPrompt, AskPermission
  <2>3. RequestsKept
    BY <1>3, KernelKeeps DEF TypeInv
  <2>4. \A x \in Procs : Running(x)' = Running(x)
    BY <2>2 DEF Running
  <2>5. Running(proc)' = Running(proc) /\ (Welcome => Welcome') /\ (p \in greeted' => Welcome')
    BY <1>1, <2>2 DEF Running, Welcome, KernelInv, ProcessSound, OneKernel
  <2>6. ProcessSound'
    BY <1>1, <2>2, <2>3, <2>4, <2>5 DEF KernelInv, ProcessSound, OneKernel, HandshakeFirst, RequestsKept, Same
  <2>7. InitLines'
    <3>1. ASSUME NEW q \in pending, NEW x \in Procs, NEW i \in 1 .. Len(stdout'[x]),
                 stdout'[x][i].id = q.id, stdout'[x][i].kind = "answer",
                 pc[q.by] = "wait", loc[q.by].method = "init"
          PROVE  Welcome'
      <4>1. CASE i \in 1 .. Len(stdout[x]) /\ stdout'[x][i] = stdout[x][i]
        BY <2>5, <3>1, <4>1 DEF KernelInv, InitLines
      <4>2. CASE x = p /\ \E j \in 1 .. Len(s) : stdout'[x][i] = s[j]
        <5>1. r.id = q.id
          BY <2>1, <3>1, <4>2 DEF Replies
        <5>2. r.method = "init"
          BY <3>1, <5>1 DEF AnswerInv, RequestsFit, RequestFits
        <5> QED
          BY <2>2, <2>5, <5>2
      <4> QED
        BY <2>1, <4>1, <4>2, WriteShape DEF Replies, TypeInv
    <3> QED
      BY <1>1, <3>1 DEF InitLines
  <2>8. StartUnderWay' /\ \A c \in Callers : Starting(c)'
    BY <1>1, <2>5 DEF KernelInv, StartUnderWay, InStart, Starting
  <2> QED
    BY <2>6, <2>7, <2>8 DEF KernelInv
<1> QED
  BY <1>2, <1>3 DEF Kernel

LEMMA KernelInvStep ==
    ASSUME AcpAssumption, PromptsOnly, TypeInv, TypeInv', WaitInv, IdsUsed, AnswerInv, KernelInv, [Next]_vars
    PROVE  KernelInv'
<1>1. PromptLocked'
  BY LockHeld DEF KernelInv
<1>2. ASSUME NEW c \in Callers, Begin(c) \/ Advance(c) \/ Deadline(c) \/ ClientLeaves(c) PROVE KernelInv'
  BY <1>1, <1>2, EntryKernel, StartKernel, BusyKernel, SentKernel, UnsentKernel, ResumeKernel
     DEF Advance, RequestStep, PromptStep, SwitchStep, Deadline, ClientLeaves
<1>3. CASE Stop
  <2>1. PipesShrink /\ \A c \in Callers : pc'[c] = "halted"
    BY <1>3, StopShape
  <2>2. ProcessSound' /\ ~Running(proc)'
    BY <1>3, ProcessKilled DEF Stop, KernelInv
  <2>3. InitLines'
    BY <2>1 DEF InitLines, TypeInv, ServerTyped
  <2>4. StartUnderWay' /\ \A c \in Callers : Starting(c)'
    BY <2>1, <2>2 DEF StartUnderWay, Starting
  <2> QED
    BY <1>1, <2>2, <2>3, <2>4 DEF KernelInv
<1>4. CASE UNCHANGED vars
  BY <1>1, <1>4 DEF vars, processVars, serverVars, callerVars, KernelInv, ProcessSound, OneKernel,
                    HandshakeFirst, Running, Welcome, StartUnderWay, InStart, InitLines, Starting
<1> QED
  BY <1>1, <1>2, <1>3, <1>4, ReadKernel, WatchKernel, KernelKernel DEF Next

LEMMA KernelInvHolds ==
    ASSUME PromptsOnly
    PROVE  Spec => []KernelInv
<1>1. Init => KernelInv
  <2> SUFFICES ASSUME Init PROVE KernelInv
    OBVIOUS
  <2>1. \A p \in Procs : child[p] = "unborn" /\ inbox[p] = {}
    BY DEF Init, ProcessInit
  <2>2. ~Running(proc) /\ connected = FALSE /\ pending = {} /\ \A c \in Callers : pc[c] = "idle"
    BY AcpAssumption DEF Init, Running, AcpAssumption
  <2>3. ProcessSound
    BY <2>1, <2>2 DEF ProcessSound, OneKernel, HandshakeFirst, Running
  <2> QED
    BY <2>2, <2>3 DEF KernelInv, PromptLocked, Busy, StartUnderWay, InitLines, Starting
<1>2. TypeInv /\ TypeInv' /\ WaitInv /\ IdsUsed /\ AnswerInv /\ KernelInv /\ [Next]_vars => KernelInv'
  BY AcpAssumption, KernelInvStep
<1>3. Spec => []IdsUsed
  BY IdsOwnedHolds, IdsOwnedUsed, PTL
<1> QED
  BY <1>1, <1>2, <1>3, TypeInvHolds, WaitInvHolds, AnswerInvHolds, PTL DEF Spec

(* As long as goroutines only prompt, ACPServer has one living child: no   *)
(* death, failed start, retry or stop leaves another one behind.           *)
THEOREM OneKernelAtATime ==
    ASSUME PromptsOnly
    PROVE  Spec => []OneKernel
<1>1. KernelInv => OneKernel
  BY DEF KernelInv, ProcessSound
<1> QED
  BY <1>1, KernelInvHolds, PTL

(* As long as goroutines only prompt, nothing but initialize is sent to a  *)
(* process that has not answered initialize.                               *)
THEOREM GreetedFirst ==
    ASSUME PromptsOnly
    PROVE  Spec => []HandshakeFirst
<1>1. KernelInv => HandshakeFirst
  BY DEF KernelInv, ProcessSound
<1> QED
  BY <1>1, KernelInvHolds, PTL

(* A step that adds no request to a pipe and reports no loss to a goroutine *)
(* keeps RetriedOnlyWhenLost.                                               *)
LEMMA NothingLost ==
    ASSUME RetriedOnlyWhenLost,
           \A p \in Procs : \A r \in inbox'[p] : \E s \in inbox[p] : r.id = s.id,
           \A c \in Callers : \/ mail'[c].kind # "gone"
                              \/ pc'[c] = pc[c] /\ loc'[c] = loc[c] /\ mail'[c] = mail[c]
    PROVE  RetriedOnlyWhenLost'
  BY DEF RetriedOnlyWhenLost, At

LEMMA ShrunkIds ==
    ASSUME PipesShrink \/ RequestsKept
    PROVE  \A p \in Procs : \A r \in inbox'[p] : \E s \in inbox[p] : r.id = s.id
  BY DEF PipesShrink, RequestsKept, Same

(* A request is lost with the only kernel, or not at all; and the one      *)
(* goroutine that may send again is the one whose request was lost.        *)
LEMMA RetriedStep ==
    ASSUME AcpAssumption, TypeInv, WaitInv, KernelInv, RetriedOnlyWhenLost, [Next]_vars
    PROVE  RetriedOnlyWhenLost'
<1>1. NoMail.kind = "none" /\ GoneMail.kind = "gone"
  BY DEF NoMail, GoneMail
<1>2. ASSUME NEW c \in Callers, Silent(c) PROVE RetriedOnlyWhenLost'
  <2>1. OthersKept(c) /\ PipesShrink /\ mail' = mail /\ ~Waits(c)
    BY <1>2, SilentShape
  <2>2. mail'[c].kind = "none"
    BY <1>1, <2>1 DEF WaitInv, OneMail
  <2> QED
    BY <2>1, <2>2, ShrunkIds, NothingLost DEF OthersKept
<1>3. ASSUME NEW c \in Callers, RequestSent(c) PROVE RetriedOnlyWhenLost'
  <2>1. OthersKept(c) /\ mail' = mail /\ ~Waits(c) /\ pc[c] \in Method
    BY <1>3, SentShape
  <2>2. mail'[c].kind = "none" /\ Busy(c)
    BY <1>1, <2>1 DEF WaitInv, OneMail, Busy, Method
  <2>3. \A d \in Callers \ {c} : pc'[d] # "wait"
    BY <2>1, <2>2, Alone DEF KernelInv, OthersKept
  <2> QED
    BY <2>2, <2>3 DEF RetriedOnlyWhenLost, At
<1>4. ASSUME NEW c \in Callers, Receive(c) \/ Abandon(c) PROVE RetriedOnlyWhenLost'
  <2>1. OthersKept(c) /\ mail'[c] = NoMail /\ inbox' = inbox
    BY <1>4, ResumeShape DEF processVars
  <2> QED
    BY <1>1, <2>1, NothingLost DEF OthersKept
<1>5. ASSUME NEW p \in Procs, ReadLoop(p) PROVE RetriedOnlyWhenLost'
  <2>1. UNCHANGED <<pc, loc>> /\ \A c \in Callers : mail'[c] = mail[c] \/ mail'[c].kind # "gone"
    BY <1>5, ReadShape
  <2> QED
    BY <1>5, <2>1, ReadKeeps, ShrunkIds, NothingLost
<1>6. ASSUME NEW p \in Procs, WatchProc(p) PROVE RetriedOnlyWhenLost'
  <2>1. PipesShrink /\ UNCHANGED <<pc, loc>> /\ (mail' = mail \/ proc = p)
    BY <1>6, WatchShape
  <2>2. CASE mail' = mail
    BY <2>1, <2>2, ShrunkIds, NothingLost
  <2>3. CASE proc = p
    <3>1. ~Running(p)
      BY <1>6 DEF WatchProc, Running
    <3>2. \A x \in Procs : ~Running(x)
      BY <2>3, <3>1 DEF KernelInv, ProcessSound, OneKernel, Running
    <3>3. \A x \in Procs : inbox'[x] = {}
      BY <2>1, <3>2 DEF KernelInv, ProcessSound, PipesShrink
    <3> QED
      BY <3>3 DEF RetriedOnlyWhenLost
  <2> QED
    BY <2>1, <2>2, <2>3
<1>7. ASSUME NEW p \in Procs, Kernel(p), UNCHANGED callerVars PROVE RetriedOnlyWhenLost'
  <2>1. \A x \in Procs : \A r \in inbox'[x] : \E s \in inbox[x] : r.id = s.id
    <3>1. CASE Die(p)
      BY <3>1 DEF Die, TypeInv, KernelTyped
    <3>2. ASSUME NEW r \in inbox[p], Answer(p, r) \/ AskPermission(p, r)
          PROVE  RequestsKept
      BY <3>2, KernelKeeps DEF TypeInv
    <3> QED
      BY <1>7, <3>1, <3>2, ShrunkIds DEF Kernel
  <2> QED
    BY <1>7, <2>1, NothingLost DEF callerVars
<1>8. CASE Stop
  <2>1. \A c \in Callers : pc'[c] = "halted"
    BY <1>8, StopShape
  <2> QED
    BY <2>1 DEF RetriedOnlyWhenLost, At
<1>9. CASE UNCHANGED vars
  BY <1>9 DEF RetriedOnlyWhenLost, At, vars, processVars, callerVars
<1> QED
  BY <1>2, <1>3, <1>4, <1>5, <1>6, <1>7, <1>8, <1>9
     DEF Next, Advance, RequestStep, Deadline, ClientLeaves, Silent

(* As long as goroutines only prompt, a chat is sent again only when the   *)
(* request it repeats is in the hands of no kernel, however late the       *)
(* watcher of a dead or replaced process runs.                             *)
THEOREM RetriesAreSafe ==
    ASSUME PromptsOnly
    PROVE  Spec => []RetriedOnlyWhenLost
<1>1. Init => RetriedOnlyWhenLost
  BY DEF Init, RetriedOnlyWhenLost, At
<1>2. TypeInv /\ WaitInv /\ KernelInv /\ RetriedOnlyWhenLost /\ [Next]_vars => RetriedOnlyWhenLost'
  BY AcpAssumption, RetriedStep
<1> QED
  BY <1>1, <1>2, TypeInvHolds, WaitInvHolds, KernelInvHolds, PTL DEF Spec

-------------------------------------------------------------------------------
(* Complete replies.  While goroutines only prompt, the callback of a      *)
(* prompt stays registered until its answer is read; and in the pipe the   *)
(* answer comes after an update of the session, which is read first.       *)
Handles(c) == [sid |-> loc[c].sid, by |-> c] \in handlers

Prompting(c) == pc[c] = "wait" /\ loc[c].method = "prompt"

Registered ==
    /\ \A c \in Callers : pc[c] = "prompt" => proc = NoProc \/ Handles(c)
    /\ \A q \in pending : Prompting(q.by) => Handles(q.by)

(* What the i-th line of the pipe s means for the entry q of the table. *)
UpdateFirst(s, i, q) ==
    s[i].id = q.id /\ s[i].kind = "answer" =>
        q.id \in reply[q.by] \/ \E j \in 1 .. i : UpdateFor(s[j], q.id, loc[q.by].sid)

UpdatesFirst ==
    \A q \in pending, p \in Procs :
        Prompting(q.by) => \A i \in 1 .. Len(stdout[p]) : UpdateFirst(stdout[p], i, q)

Replied ==
    \A c \in Callers : Prompting(c) /\ mail[c].kind = "answer" => loc[c].id \in reply[c]

ReplyInv == Registered /\ UpdatesFirst /\ Replied

(* A step of the only busy goroutine, unless it goes to its wait. *)
LEMMA AloneReply ==
    ASSUME TypeInv', PromptLocked, NEW c \in Callers, Busy(c), OthersKept(c), pc'[c] # "wait",
           pc'[c] = "prompt" => Handles(c)'
    PROVE  ReplyInv'
<1>1. \A d \in Callers \ {c} : pc'[d] \in {"idle", "lock", "halted"}
  BY Alone DEF OthersKept
<1>2. \A d \in Callers : ~Prompting(d)' /\ (pc'[d] = "prompt" => Handles(d)')
  BY <1>1 DEF Prompting
<1>3. \A q \in pending' : q.by \in Callers
  BY DEF TypeInv, ServerTyped
<1> QED
  BY <1>2, <1>3 DEF ReplyInv, Registered, UpdatesFirst, Replied

(* Only Handle leads to a prompt. *)
LEMMA BusyReply ==
    ASSUME TypeInv, TypeInv', PromptLocked, NEW c \in Callers, Silent(c), ~Begin(c), ~Lock(c)
    PROVE  ReplyInv'
<1> USE DEF TypeInv
<1>1. OthersKept(c) /\ pc'[c] # "wait"
  BY SilentShape DEF Waits
<1>2. \A label, l : Move(c, label) \/ MoveWith(c, label, l) => pc'[c] = label
  BY Moved
<1>3. Opened(c) # "prompt" /\ loc[c].then # "prompt"
  BY LocalFields DEF Opened, CallersTyped
<1>4. CASE StartStep(c) \/ SwitchStep(c)
  <2>1. Busy(c)
    BY <1>4 DEF StartStep, EnsureStarted, Spawn, SpawnFails, Connect, UndoStart, SwitchStep, Restart,
                Compare, At, Busy
  <2>2. pc'[c] # "prompt"
    BY <1>2, <1>3, <1>4 DEF StartStep, EnsureStarted, Spawn, SpawnFails, Connect, UndoStart,
                            SwitchStep, Restart, Compare, Fail
  <2> QED
    BY <1>1, <2>1, <2>2, AloneReply
<1>5. CASE SessionStep(c)
  <2>1. Busy(c)
    BY <1>5 DEF SessionStep, Lookup, Store, Swap, Forget, At, Busy
  <2>2. pc'[c] # "prompt"
    BY <1>2, <1>3, <1>5 DEF SessionStep, Lookup, Store, Swap, Forget
  <2> QED
    BY <1>1, <2>1, <2>2, AloneReply
<1>6. CASE Cancel(c) \/ Unhandle(c) \/ Failed(c) \/ Finish(c)
  <2>1. Busy(c)
    BY <1>6 DEF Cancel, Unhandle, Failed, Finish, At, Busy
  <2>2. pc'[c] # "prompt"
    BY <1>2, <1>6 DEF Cancel, Unhandle, Failed, Finish
  <2> QED
    BY <1>1, <2>1, <2>2, AloneReply
<1>7. CASE RequestUnsent(c) \/ RequestBroken(c)
  <2>1. pc[c] \in Method /\ pc'[c] = OnError(c)[pc[c]]
    BY <1>2, <1>7 DEF RequestUnsent, RequestBroken
  <2>2. Busy(c)
    BY <2>1 DEF Busy, Method
  <2>3. pc'[c] # "prompt"
    BY <2>1, Routes
  <2> QED
    BY <1>1, <2>2, <2>3, AloneReply
<1>8. CASE Handle(c)
  <2>1. Busy(c) /\ loc'[c] = loc[c] /\ [sid |-> loc[c].sid, by |-> c] \in handlers'
    BY <1>8, Moved DEF Handle, At, Busy
  <2>2. Handles(c)'
    BY <2>1 DEF Handles
  <2> QED
    BY <1>1, <2>1, <2>2, AloneReply
<1> QED
  BY <1>4, <1>5, <1>6, <1>7, <1>8 DEF Silent, PromptStep

LEMMA EntryReply ==
    ASSUME TypeInv, RuntimeRest, ReplyInv, NEW c \in Callers, Begin(c) \/ Lock(c), PromptsOnly
    PROVE  ReplyInv'
<1>1. UNCHANGED <<proc, stdout, pending, handlers>>
  BY DEF Begin, BeginPrompt, BeginNewSession, BeginSync, Lock, processVars, serverVars
<1>2. OthersKept(c)
  BY SilentShape DEF Silent, PromptStep
<1>3. pc'[c] \in {"lock", "ensure"} /\ (reply' = reply \/ reply' = [reply EXCEPT ![c] = {}])
  <2>1. CASE Lock(c)
    BY <2>1, Moved DEF Lock, Move, TypeInv
  <2>2. CASE Begin(c)
    <3>1. PICK k \in Keys : BeginPrompt(c, k)
      BY <2>2 DEF PromptsOnly, Begin, BeginNewSession, BeginSync
    <3> QED
      BY <3>1, Moved DEF BeginPrompt, TypeInv
  <2> QED
    BY <2>1, <2>2
<1>4. \A d \in Callers \ {c} : /\ pc'[d] = pc[d] /\ loc'[d] = loc[d] /\ mail'[d] = mail[d]
                               /\ reply'[d] = reply[d]
  BY <1>2, <1>3 DEF OthersKept, RuntimeRest
<1>5. ~Prompting(c)' /\ pc'[c] # "prompt"
  BY <1>3 DEF Prompting
<1>6. \A d \in Callers \ {c} : Prompting(d)' = Prompting(d) /\ Handles(d)' = Handles(d)
  BY <1>1, <1>4 DEF Prompting, Handles
<1>7. \A q \in pending : q.by \in Callers
  BY DEF TypeInv, ServerTyped
<1>8. Registered'
  BY <1>1, <1>4, <1>5, <1>6, <1>7 DEF ReplyInv, Registered
<1>9. UpdatesFirst'
  BY <1>1, <1>4, <1>5, <1>6, <1>7 DEF ReplyInv, UpdatesFirst, UpdateFirst
<1>10. Replied'
  BY <1>4, <1>5, <1>6 DEF ReplyInv, Replied
<1> QED
  BY <1>8, <1>9, <1>10 DEF ReplyInv

(* A prompt is sent with its callback registered, under an id of its own. *)
LEMMA SentReply ==
    ASSUME AcpAssumption, TypeInv, WaitInv, IdsUsed, PromptLocked, ReplyInv,
           NEW c \in Callers, RequestSent(c)
    PROVE  ReplyInv'
<1>1. /\ OthersKept(c) /\ mail' = mail /\ stdout' = stdout /\ pc[c] \in Method /\ ~Waits(c)
      /\ pc'[c] = "wait" /\ loc'[c].method = pc[c] /\ loc'[c].sid = loc[c].sid
      /\ pending' \subseteq pending \cup {[id |-> nextID + 1, by |-> c]}
  BY SentShape
<1>2. /\ Busy(c) /\ mail[c] = NoMail
      /\ \A q \in pending : q.by \in Callers /\ q.by # c
  BY <1>1 DEF Busy, Method, Waits, WaitInv, OneMail, PendingWaits, TypeInv, ServerTyped
<1>3. proc # NoProc /\ handlers' = handlers
  BY DEF RequestSent, Running, AcpAssumption
<1>4. \A d \in Callers \ {c} : pc'[d] \in {"idle", "lock", "halted"}
  BY <1>1, <1>2, Alone DEF OthersKept
<1>5. \A d \in Callers : pc'[d] # "prompt" /\ (Prompting(d)' => d = c)
  BY <1>1, <1>4 DEF Prompting
<1>6. Prompting(c)' => Handles(c)'
  BY <1>1, <1>3 DEF Prompting, Handles, ReplyInv, Registered
<1>7. \A q \in pending' : Prompting(q.by)' => q.by = c /\ q.id = nextID + 1
  BY <1>1, <1>2, <1>5
<1>8. \A p \in Procs : \A i \in 1 .. Len(stdout'[p]) : stdout'[p][i].id # nextID + 1
  BY <1>1 DEF IdsUsed, TypeInv, ServerTyped
<1>9. Registered'
  BY <1>5, <1>6, <1>7 DEF Registered
<1>10. UpdatesFirst'
  BY <1>7, <1>8 DEF UpdatesFirst, UpdateFirst
<1>11. Replied'
  BY <1>1, <1>2, <1>5 DEF Replied, NoMail
<1> QED
  BY <1>9, <1>10, <1>11 DEF ReplyInv

LEMMA ResumeReply ==
    ASSUME TypeInv, TypeInv', PromptLocked, NEW c \in Callers, Receive(c) \/ Abandon(c)
    PROVE  ReplyInv'
<1>1. /\ OthersKept(c) /\ pc[c] = "wait" /\ loc[c].method \in Method
      /\ pc'[c] \in {OnAnswer(c)[loc[c].method], OnError(c)[loc[c].method], OnTimeout(c)[loc[c].method]}
  BY ResumeShape DEF Resumed
<1>2. pc'[c] \notin {"wait", "prompt"}
  BY <1>1, Routes
<1> QED
  BY <1>1, <1>2, AloneReply DEF Busy

(* The readLoop reads the update before the answer. *)
LEMMA ReadReply ==
    ASSUME TypeInv, WaitInv, RuntimeRest, ReplyInv, NEW p \in Procs, ReadLoop(p)
    PROVE  ReplyInv'
<1> DEFINE m == Head(stdout[p])
<1>1. m \in Message /\ UNCHANGED <<pc, loc, handlers, proc>> /\ pending' \subseteq pending
  BY ReadShape
<1>2. /\ stdout[p] \in Seq(Message) /\ stdout[p] # <<>>
      /\ stdout' = [stdout EXCEPT ![p] = Tail(stdout[p])]
  BY DEF ReadLoop, TypeInv, KernelTyped
<1>3. \/ /\ m.kind # "update" /\ reply' = reply
      \/ /\ m.kind = "update" /\ mail' = mail
         /\ \A c \in Callers : reply'[c] = IF [sid |-> m.sid, by |-> c] \in handlers
                                           THEN reply[c] \cup {m.id} ELSE reply[c]
  BY DEF ReadLoop, DispatchAnswer, DispatchUpdate, DispatchPermission
<1>4. \A c \in Callers : reply[c] \subseteq reply'[c]
  BY <1>3
<1>5. \A q \in pending : q.by \in Callers
  BY DEF TypeInv, ServerTyped
<1>6. Registered'
  BY <1>1 DEF ReplyInv, Registered, Prompting, Handles
<1>7. m = stdout[p][1] /\ 1 \in 1 .. Len(stdout[p])
  BY <1>2
<1>8. ASSUME NEW q \in pending, Prompting(q.by), UpdateFor(m, q.id, loc[q.by].sid)
      PROVE  q.id \in reply'[q.by]
  BY <1>3, <1>5, <1>8 DEF ReplyInv, Registered, Handles, UpdateFor
<1>9. UpdatesFirst'
  <2>1. ASSUME NEW q \in pending, NEW x \in Procs, Prompting(q.by), NEW i \in 1 .. Len(stdout'[x]),
               stdout'[x][i].id = q.id, stdout'[x][i].kind = "answer", q.id \notin reply'[q.by]
        PROVE  \E j \in 1 .. i : UpdateFor(stdout'[x][j], q.id, loc[q.by].sid)
    <3>1. q.id \notin reply[q.by]
      BY <1>4, <1>5, <2>1
    <3>2. CASE x # p
      <4>1. stdout'[x] = stdout[x]
        BY <1>2, <3>2 DEF TypeInv, KernelTyped
      <4> QED
        BY <2>1, <3>1, <4>1 DEF ReplyInv, UpdatesFirst, UpdateFirst
    <3>3. CASE x = p
      <4>1. stdout'[x] = Tail(stdout[p])
        BY <1>2, <3>3 DEF TypeInv, KernelTyped
      <4>2. /\ i \in Nat /\ i >= 1 /\ i + 1 \in 1 .. Len(stdout[p])
            /\ \A j \in 1 .. i : stdout'[x][j] = stdout[p][j + 1]
        <5>1. /\ Len(Tail(stdout[p])) \in Nat /\ Len(stdout[p]) = Len(Tail(stdout[p])) + 1
              /\ \A j \in 1 .. Len(Tail(stdout[p])) : Tail(stdout[p])[j] = stdout[p][j + 1]
          BY <1>2
        <5>2. i \in 1 .. Len(Tail(stdout[p]))
          BY <2>1, <4>1
        <5>3. i \in Nat /\ i >= 1 /\ i + 1 \in 1 .. Len(stdout[p]) /\ 1 .. i \subseteq 1 .. Len(Tail(stdout[p]))
          BY <5>1, <5>2
        <5> QED
          BY <4>1, <5>1, <5>3
      <4>3. i \in 1 .. i
        BY <4>2
      <4>4. PICK j \in 1 .. i + 1 : UpdateFor(stdout[p][j], q.id, loc[q.by].sid)
        BY <2>1, <3>1, <4>2, <4>3 DEF ReplyInv, UpdatesFirst, UpdateFirst
      <4>5. j # 1
        BY <1>7, <1>8, <2>1, <4>4
      <4>6. j - 1 \in 1 .. i /\ (j - 1) + 1 = j
        BY <4>2, <4>4, <4>5
      <4>7. UpdateFor(stdout'[x][j - 1], q.id, loc[q.by].sid)
        BY <4>2, <4>4, <4>6
      <4> QED
        BY <4>6, <4>7
    <3> QED
      BY <3>2, <3>3
  <2> QED
    BY <1>1, <2>1 DEF UpdatesFirst, UpdateFirst, Prompting
<1>10. Replied'
  <2>1. ASSUME NEW c \in Callers, Prompting(c), mail'[c].kind = "answer" PROVE loc[c].id \in reply'[c]
    <3>1. CASE mail'[c] = mail[c]
      BY <1>4, <2>1, <3>1 DEF ReplyInv, Replied
    <3>2. CASE mail'[c] = m /\ [id |-> m.id, by |-> c] \in pending
      <4> DEFINE q == [id |-> m.id, by |-> c]
      <4>1. q \in pending /\ q.id = m.id /\ q.by = c
        BY <3>2
      <4>2. m.kind = "answer" /\ loc[c].id = m.id
        BY <2>1, <3>2, <4>1 DEF WaitInv, PendingWaits
      <4>3. UpdateFirst(stdout[p], 1, q)
        BY <1>7, <2>1, <4>1 DEF ReplyInv, UpdatesFirst
      <4>4. \A j \in 1 .. 1 : j = 1
        OBVIOUS
      <4>5. m.id \in reply[c]
        BY <1>7, <4>1, <4>2, <4>3, <4>4 DEF UpdateFirst, UpdateFor
      <4> QED
        BY <1>4, <4>2, <4>5
    <3> QED
      BY <3>1, <3>2, ReadShape
  <2> QED
    BY <1>1, <2>1 DEF Replied, Prompting
<1> QED
  BY <1>6, <1>9, <1>10 DEF ReplyInv

LEMMA WatchReply ==
    ASSUME TypeInv, ReplyInv, NEW p \in Procs, WatchProc(p)
    PROVE  ReplyInv'
<1>1. PipesShrink /\ UNCHANGED <<pc, loc, reply>>
  BY WatchShape
<1>2. CASE UNCHANGED <<mail, pending, proc, handlers>>
  <2>1. Registered'
    BY <1>1, <1>2 DEF ReplyInv, Registered, Prompting, Handles
  <2>2. ASSUME NEW q \in pending, NEW x \in Procs, Prompting(q.by), NEW i \in 1 .. Len(stdout'[x]),
               UpdateFirst(stdout[x], i, q)
        PROVE  UpdateFirst(stdout[x], i, q)'
    <3>1. \A j \in 1 .. i : j \in 1 .. Len(stdout'[x])
      OBVIOUS
    <3>2. stdout'[x][i] = stdout[x][i] /\ \A j \in 1 .. i : stdout'[x][j] = stdout[x][j]
      BY <1>1, <3>1 DEF PipesShrink
    <3> QED
      BY <1>1, <2>2, <3>2 DEF UpdateFirst
  <2>3. UpdatesFirst'
    BY <1>1, <1>2, <2>2 DEF ReplyInv, UpdatesFirst, PipesShrink, Prompting
  <2> QED
    BY <1>1, <1>2, <2>1, <2>3 DEF ReplyInv, Replied, Prompting
<1>3. CASE /\ pending' = {} /\ proc' = NoProc
           /\ \A c \in Callers : mail'[c] = mail[c] \/ mail'[c] = GoneMail
  BY <1>1, <1>3 DEF ReplyInv, Registered, UpdatesFirst, Replied, Prompting, GoneMail
<1> QED
  BY <1>2, <1>3, WatchShape

(* The kernel writes the update of a prompt before its answer. *)
LEMMA KernelReply ==
    ASSUME AcpAssumption, TypeInv, AnswerInv, ReplyInv, NEW p \in Procs, Kernel(p),
           UNCHANGED <<serverVars, callerVars, runtimeVars>>
    PROVE  ReplyInv'
<1>1. UNCHANGED <<pc, loc, mail, reply, pending, proc, handlers>>
  BY DEF serverVars, callerVars
<1>2. Registered' /\ Replied'
  BY <1>1 DEF ReplyInv, Registered, Replied, Prompting, Handles
<1>3. CASE Die(p)
  BY <1>1, <1>2, <1>3 DEF Die, ReplyInv, UpdatesFirst, UpdateFirst, Prompting
<1>4. ASSUME NEW r \in inbox[p], Answer(p, r) \/ AskPermission(p, r) PROVE UpdatesFirst'
  <2>1. PICK s : Replies(p, r, s)
    BY <1>4, KernelReplies DEF TypeInv
  <2>2. /\ \A j \in 1 .. Len(stdout[p]) : stdout'[p][j] = stdout[p][j]
        /\ \A j \in 1 .. Len(s) : stdout'[p][Len(stdout[p]) + j] = s[j]
        /\ Len(stdout[p]) \in Nat /\ Len(s) \in Nat
    BY <2>1, WriteKeeps DEF Replies, TypeInv
  <2>3. ASSUME NEW q \in pending, NEW x \in Procs, Prompting(q.by), NEW i \in 1 .. Len(stdout'[x]),
               stdout'[x][i].id = q.id, stdout'[x][i].kind = "answer", q.id \notin reply[q.by]
        PROVE  \E j \in 1 .. i : UpdateFor(stdout'[x][j], q.id, loc[q.by].sid)
    <3>1. CASE x # p
      <4>1. stdout'[x] = stdout[x]
        BY <2>1, <3>1, WriteShape DEF Replies, TypeInv
      <4> QED
        BY <2>3, <4>1 DEF ReplyInv, UpdatesFirst, UpdateFirst
    <3>2. CASE x = p /\ i \in 1 .. Len(stdout[p])
      <4>1. \A j \in 1 .. i : stdout'[x][j] = stdout[x][j]
        BY <2>2, <3>2
      <4>2. i \in 1 .. i
        BY <3>2
      <4> QED
        BY <2>3, <3>2, <4>1, <4>2 DEF ReplyInv, UpdatesFirst, UpdateFirst
    <3>3. CASE x = p /\ \E j \in 1 .. Len(s) : i = Len(stdout[p]) + j /\ stdout'[p][i] = s[j]
      <4>1. PICK k \in 1 .. Len(s) : i = Len(stdout[p]) + k /\ stdout'[p][i] = s[k]
        BY <3>3
      <4>2. r.id = q.id
        BY <2>1, <2>3, <3>3, <4>1 DEF Replies
      <4>3. r.method = "prompt" /\ r.sid = loc[q.by].sid
        BY <2>3, <4>2 DEF AnswerInv, RequestsFit, RequestFits, Prompting
      <4>4. PICK j \in 1 .. k : UpdateFor(s[j], r.id, r.sid)
        BY <2>1, <2>3, <3>3, <4>1, <4>3 DEF Replies
      <4>5. j \in 1 .. Len(s) /\ Len(stdout[p]) + j \in 1 .. i
        BY <2>2, <4>1
      <4>6. UpdateFor(stdout'[x][Len(stdout[p]) + j], q.id, loc[q.by].sid)
        BY <2>2, <3>3, <4>2, <4>3, <4>4, <4>5
      <4> QED
        BY <4>5, <4>6
    <3> QED
      BY <2>1, <3>1, <3>2, <3>3, WriteShape DEF Replies, TypeInv
  <2> QED
    BY <1>1, <2>3 DEF UpdatesFirst, UpdateFirst, Prompting
<1> QED
  BY <1>2, <1>3, <1>4 DEF Kernel, ReplyInv

LEMMA ReplyInvStep ==
    ASSUME AcpAssumption, PromptsOnly, TypeInv, TypeInv', WaitInv, IdsUsed, AnswerInv, RuntimeRest,
           PromptLocked, ReplyInv, [Next]_vars
    PROVE  ReplyInv'
<1>1. ASSUME NEW c \in Callers, Begin(c) \/ Advance(c) \/ Deadline(c) \/ ClientLeaves(c) PROVE ReplyInv'
  BY <1>1, BusyReply, EntryReply, SentReply, ResumeReply
     DEF Silent, Advance, RequestStep, PromptStep, Deadline, ClientLeaves
<1>2. CASE Stop
  BY <1>2, StopShape DEF ReplyInv, Registered, UpdatesFirst, Replied, Prompting, TypeInv, ServerTyped
<1>3. CASE UNCHANGED vars
  BY <1>3 DEF vars, processVars, serverVars, callerVars, ReplyInv, Registered, UpdatesFirst,
              UpdateFirst, Replied, Prompting, Handles
<1> QED
  BY <1>1, <1>2, <1>3, ReadReply, WatchReply, KernelReply DEF Next

(* As long as goroutines only prompt, a prompt that succeeds has received  *)
(* what the kernel sent for it before the answer.                          *)
THEOREM RepliesComplete ==
    ASSUME PromptsOnly
    PROVE  Spec => ReplyComplete
<1> DEFINE Complete ==
      \A c \in Callers :
         At(c, "wait") /\ loc[c].method = "prompt" /\ pc'[c] = "unhandle" /\ loc'[c].err = "none"
             => loc[c].id \in reply[c]
<1>1. Init => ReplyInv
  BY DEF Init, ReplyInv, Registered, UpdatesFirst, Replied, Prompting
<1>2. TypeInv /\ TypeInv' /\ WaitInv /\ IdsUsed /\ AnswerInv /\ SessionInv /\ KernelInv /\ ReplyInv
        /\ [Next]_vars => ReplyInv'
  BY AcpAssumption, ReplyInvStep DEF SessionInv, KernelInv
<1>3. ASSUME TypeInv, ReplyInv, [Next]_vars PROVE Complete
  <2> SUFFICES ASSUME NEW c \in Callers, Prompting(c), pc'[c] = "unhandle", loc'[c].err = "none"
               PROVE  loc[c].id \in reply[c]
    BY DEF At, Prompting
  <2>1. Receive(c) \/ Abandon(c)
    <3>1. ASSUME NEW d \in Callers, Silent(d) \/ RequestSent(d) PROVE FALSE
      <4>1. OthersKept(d) /\ ~Waits(d)
        BY <1>3, <3>1, SilentShape, SentShape
      <4> QED
        BY <4>1 DEF OthersKept, Waits, Prompting
    <3>2. ASSUME NEW d \in Callers \ {c}, Receive(d) \/ Abandon(d) PROVE FALSE
      <4>1. OthersKept(d)
        BY <1>3, <3>2, ResumeShape
      <4> QED
        BY <4>1 DEF OthersKept, Prompting
    <3>3. ~Stop
      BY <1>3, StopShape
    <3>4. pc' # pc
      BY DEF Prompting
    <3> QED
      BY <1>3, <3>1, <3>2, <3>3, <3>4
         DEF Next, vars, callerVars, Silent, Advance, RequestStep, Deadline, ClientLeaves, ReadLoop, WatchProc
  <2>2. loc[c].method = "prompt" /\ "prompt" \in Method /\ loc[c] \in Local
    BY <1>3 DEF Prompting, Method, TypeInv, CallersTyped
  <2>3. ErrorOf("prompt", "gone") = "gone" /\ ErrorOf("prompt", "other") = "other"
    BY DEF ErrorOf
  <2>4. \A label, e, sid : Resumed(c, label, e, sid) => pc'[c] = label /\ loc'[c].err = e
    BY <2>2 DEF Resumed, Local
  <2>5. mail[c].kind = "answer"
    <3>1. ~\E e \in {"gone", "other"} :
              Resumed(c, OnError(c)[loc[c].method], ErrorOf(loc[c].method, e), loc[c].sid)
      BY <2>2, <2>3, <2>4
    <3>2. ~Resumed(c, OnTimeout(c)[loc[c].method], ErrorOf(loc[c].method, "other"), loc[c].sid)
      BY <2>2, <2>3, <2>4
    <3> QED
      BY <1>3, <2>1, <3>1, <3>2, ResumeShape
  <2> QED
    BY <1>3, <2>5 DEF ReplyInv, Replied
<1>4. Spec => []IdsUsed
  BY IdsOwnedHolds, IdsOwnedUsed, PTL
<1>5. TypeInv /\ ReplyInv /\ [Next]_vars => [Complete]_vars
  BY <1>3
<1>6. Spec => [][Complete]_vars
  BY <1>1, <1>2, <1>4, <1>5, TypeInvHolds, WaitInvHolds, AnswerInvHolds, SessionInvHolds, KernelInvHolds, PTL
     DEF Spec
<1> QED
  BY <1>6 DEF ReplyComplete
===============================================================================
