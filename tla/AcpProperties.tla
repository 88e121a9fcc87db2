---------------------------- MODULE AcpProperties ----------------------------
(***************************************************************************)
(* What must be true of AcpServer.                                         *)
(***************************************************************************)
EXTENDS AcpServer

(* Every variable has its type. *)
TypeOK ==
    /\ child \in [Procs -> {"unborn", "running", "dead", "reaped"}]
    /\ inbox \in [Procs -> SUBSET Request] /\ stdout \in [Procs -> Seq(Message)]
    /\ closed \subseteq Sid /\ greeted \subseteq Procs
    /\ proc \in Procs \cup {NoProc} /\ connected \in BOOLEAN /\ nextID \in Nat
    /\ pending \subseteq [id : Nat, by : Callers]
    /\ handlers \subseteq [sid : Sid, by : Callers]
    /\ sessions \in [Keys -> Sid \cup {NoSid}]
    /\ spawnedCfg \in Configs \cup {NoConfig} /\ cfg \in Configs
    /\ activeSess \in Keys /\ promptMu \in Callers \cup {NoCaller}
    /\ pc \in [Callers -> Labels] /\ loc \in [Callers -> Local]
    /\ mail \in [Callers -> Message \cup {NoMail, GoneMail}]
    /\ reply \in [Callers -> SUBSET Nat] /\ made \in 0 .. MaxOps

(* An answer goes to the goroutine that asked, never to another one, also  *)
(* when it is a line of an old process read after a restart: request ids   *)
(* are not reused from one process to the next (acp.go:510-511).           *)
DeliveredToAsker ==
    \A c \in Callers : mail[c].kind \in {"answer", "error"} => mail[c].by = c

(* The table of pending requests holds live requests only: each entry has  *)
(* a goroutine waiting for exactly that id, whatever ended the others.     *)
PendingHasWaiter ==
    \A q \in pending : \/ At(q.by, "wait") /\ loc[q.by].id = q.id
                       \/ At(q.by, "halted")

(* The callback of a prompt is registered only while the prompt is under   *)
(* way (acp.go:614-621): no update that arrives later finds the reply of a *)
(* chat that is over.                                                      *)
HandlerBelongsToPrompt ==
    \A h \in handlers : \/ pc[h.by] \in {"prompt", "wait", "cancel", "unhandle"}
                              /\ loc[h.by].op = "prompt" /\ loc[h.by].sid = h.sid
                        \/ At(h.by, "halted")

(* ACPServer manages one child process (acp.go:55): while goroutines only  *)
(* prompt, no living process is left behind by a death, a failed start, a  *)
(* retry or the end of the runtime.                                        *)
OneKernel == \A p \in Procs : Running(p) => p = proc

(* A request is reported lost, and its prompt then sent once more, only if *)
(* no process works on it any more: the watcher of a process that has been *)
(* replaced answers nothing (acp.go:371), and a retried chat is not run by *)
(* two kernels at a time.                                                  *)
RetriedOnlyWhenLost ==
    \A c \in Callers : At(c, "wait") /\ mail[c].kind = "gone" =>
        \A p \in Procs : \A r \in inbox[p] : r.id # loc[c].id

(* No session is opened and nothing prompted in a process before it has    *)
(* answered initialize.                                                    *)
HandshakeFirst ==
    \A p \in Procs : \A r \in inbox[p] : r.method # "init" => p \in greeted

(* When a prompt is answered, every update the kernel sent for it before   *)
(* the answer has reached the handler: the reply is complete.              *)
ReplyComplete ==
    [][\A c \in Callers :
         At(c, "wait") /\ loc[c].method = "prompt" /\ pc'[c] = "unhandle" /\ loc'[c].err = "none"
             => loc[c].id \in reply[c]]_vars

(* A prompt ends, answered or failed, and with it the prompt mutex is      *)
(* free, as long as the kernel answers or dies.                            *)
PromptEnds == \A c \in Callers : At(c, "lock") ~> At(c, "idle")

-------------------------------------------------------------------------------
(* Statements of the repository that the code does not keep. *)

(* docs/architecture.md:69: after the death of the kernel the next request *)
(* restarts it and rebuilds the session.                                   *)
SessionIsRebuilt ==
    \A p \in Procs : \A r \in inbox[p] : r.method = "prompt" => r.sid.proc = p

(* docs/architecture.md:70: a prompt that loses its kernel is retried     *)
(* once; so it ends, also when the kernel was stopped by the runtime.      *)
PromptSurvivesKernel == PromptEnds
===============================================================================
