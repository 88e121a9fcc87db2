----------------------------- MODULE AgentSession -----------------------------
(***************************************************************************)
(* agentruntime.Session with the daemon and the HTTP handlers in front of  *)
(* it: concurrent chats over REST or WebSocket, the conversation log on    *)
(* the disk of the workspace, the engine and its replacement by the mock   *)
(* engine, new sessions and configurations.  The engine answers in one     *)
(* step (AcpServer models what the QwenPaw engine does meanwhile).         *)
(***************************************************************************)
EXTENDS AgentConfig, Naturals, Sequences

CONSTANTS
    Chats,           \* chat requests (bound: how many are ever made)
    NoChat,
    NewKeys,         \* keys that NewSession makes
    Hints,           \* session keys that clients ask for; "" leaves it to the engine
    EngineName       \* --engine

Engines == {"mock", "qwenpaw"}
Keys == NewKeys \cup (Hints \ {""}) \cup {"default"}

ASSUME ChatsAssumption ==
    /\ NoChat \notin Chats
    /\ EngineName \in STRING

VARIABLES
    linked,          \* SUBSET Engines: engine packages the program imports (Register)
    eng,             \* Session.eng: "nil", "mock" or "qwenpaw"
    engName,         \* Session.engName
    engBase,         \* base URL of the engine's own copy of the configuration
    probe,           \* Engine.version: the one and only attempt
    active,          \* activeSess of the QwenPaw engine
    promptMu,        \* the chat that holds Session.promptMu
    chat,            \* [Chats -> Chat]
    log              \* conversation.jsonl

engineVars == <<linked, eng, engName, engBase, probe, active>>
chatVars == <<promptMu, chat, log>>
vars == <<configVars, engineVars, chatVars>>

Labels == {"new", "count", "ask", "ready", "unready", "rename", "lock", "prompt",
           "tally", "say", "done"}
Results == {"none", "answered", "failed", "panic", "cut"}

(* index: of the question, returned to the client.  line: the index the    *)
(* next entry will get.  used: the engine that was asked.  mock: what the  *)
(* client is told about it.  began (the length of the log when the chat    *)
(* came in) and lost (the answer could not be logged) serve properties.    *)
Chat == [pc : Labels, key : Keys, index : Nat, line : Nat, used : Engines \cup {"nil"},
         reply : {"none", "assistant", "error"}, mock : BOOLEAN, result : Results,
         began : Nat, lost : BOOLEAN]

Entry == [chat : Chats, role : {"user", "assistant", "error"}, key : Keys, index : Nat \ {0}]

NewChat == [pc |-> "new", key |-> "default", index |-> 0, line |-> 0, used |-> "nil",
            reply |-> "none", mock |-> FALSE, result |-> "none", began |-> 0, lost |-> FALSE]

Goto(k, pc) == chat' = [chat EXCEPT ![k].pc = pc]

(* The chat ends without an answer, and its local variables with it. *)
Ended(k, result) == [NewChat EXCEPT !.pc = "done", !.result = result,
                                    !.key = chat[k].key, !.began = chat[k].began]

End(k, result) == chat' = [chat EXCEPT ![k] = Ended(k, result)]

-------------------------------------------------------------------------------
(* Engines. *)

(* agentengine.New answers nil for a name that is not registered. *)
Fallback == IF "mock" \in linked THEN "mock" ELSE "nil"

Built == IF EngineName \in linked THEN EngineName ELSE Fallback

(* buildEngine.  cmd/runtime imports no engine package: linked = {} is the *)
(* program as it is, the other values are the ones it was meant for.       *)
EngineInit ==
    /\ linked \in {{}, {"qwenpaw"}, Engines}
    /\ eng = Built
    /\ engName = IF EngineName \in linked THEN EngineName ELSE "mock"
    /\ engBase = Completed(cfg.base)
    /\ probe = "unknown" /\ active = "default"

(* Mutant: the version is probed at every call, and may time out once.     *)
VersionProbedAgain == probe' \in {"ok", "bad"}

(* version, under probeOnce: a time-out at the first call is final. *)
Version == IF probe = "unknown" THEN probe' \in {"ok", "bad"} ELSE UNCHANGED probe

(* The mock engine is always ready. *)
Ready == eng = "mock" \/ (eng = "qwenpaw" /\ probe' = "ok" /\ engBase = "real")

(* Health asks for the state of the kernel, and so for its version. *)
Health ==
    /\ eng = "qwenpaw" /\ probe = "unknown" /\ Version
    /\ UNCHANGED <<configVars, linked, eng, engName, engBase, active, chatVars>>

(* The active key is replaced even if the kernel then refuses the session. *)
(* The mock engine returns a key and forgets it.                           *)
NewSession ==
    /\ eng = "qwenpaw"
    /\ active' \in NewKeys \ {active}
    /\ UNCHANGED <<configVars, linked, eng, engName, engBase, probe, chatVars>>

ActiveSession == IF eng = "qwenpaw" THEN active ELSE "default"

-------------------------------------------------------------------------------
(* A chat: Session.Chat and Session.ChatStream, which differ only in what  *)
(* they emit meanwhile.                                                    *)

(* The client names a session or leaves it to the engine. *)
Receive(k) ==
    /\ chat[k].pc = "new"
    /\ \E hint \in Hints :
          chat' = [chat EXCEPT ![k].pc = "count", ![k].began = Len(log),
                               ![k].key = IF hint = "" THEN ActiveSession ELSE hint]
    /\ UNCHANGED <<promptMu, log, engineVars>>

(* Mutant: only the entries of the session are counted. *)
MessageIndexOfSession(k) == Len(SelectSeq(log, LAMBDA e : e.key = chat[k].key))

(* The lines of the file. *)
MessageIndex(k) == Len(log)

(* Mutant: the number of lines is taken for the index. *)
CountLinesFromZero(k) ==
    /\ chat[k].pc = "count"
    /\ chat' = [chat EXCEPT ![k].pc = "ask", ![k].line = MessageIndex(k)]
    /\ UNCHANGED <<promptMu, log, engineVars>>

(* appendLog counts the lines, and writes later, under no lock. *)
CountLines(k) ==
    /\ chat[k].pc = "count"
    /\ chat' = [chat EXCEPT ![k].pc = "ask", ![k].line = MessageIndex(k) + 1]
    /\ UNCHANGED <<promptMu, log, engineVars>>

(* Mutant: the answer goes to the session that is active by now. *)
AppendEntryToActive(k, role) ==
    log' = Append(log, [chat |-> k, role |-> role, index |-> chat[k].line,
                        key |-> IF role = "user" THEN chat[k].key ELSE ActiveSession])

AppendEntry(k, role) ==
    log' = Append(log, [chat |-> k, role |-> role, key |-> chat[k].key, index |-> chat[k].line])

(* Mutant: a question that cannot be written is asked all the same. *)
AskIgnoresFailure(k) ==
    /\ chat[k].pc = "ask"
    /\ AppendEntry(k, "user") \/ UNCHANGED log
    /\ chat' = [chat EXCEPT ![k].pc = "ready", ![k].index = chat[k].line, ![k].line = 0]
    /\ UNCHANGED <<promptMu, engineVars>>

(* A question that cannot be written fails the chat. *)
Ask(k) ==
    /\ chat[k].pc = "ask"
    /\ \/ /\ AppendEntry(k, "user")
          /\ chat' = [chat EXCEPT ![k].pc = "ready", ![k].index = chat[k].line,
                                     ![k].line = 0]
       \/ End(k, "failed") /\ UNCHANGED log
    /\ UNCHANGED <<promptMu, engineVars>>

(* A method of a nil engine panics; net/http recovers. *)
CheckReady(k) ==
    /\ chat[k].pc = "ready"
    /\ IF eng = "qwenpaw" THEN Version ELSE UNCHANGED probe
    /\ CASE eng = "nil" -> End(k, "panic")
         [] Ready       -> Goto(k, "lock")
         [] OTHER       -> Goto(k, "unready")
    /\ UNCHANGED <<promptMu, log, linked, eng, engName, engBase, active>>

(* The engine is replaced without a lock, and its name after it. *)
ReplaceEngine(k) ==
    /\ chat[k].pc = "unready"
    /\ IF engName = "mock"
       THEN Goto(k, "lock") /\ UNCHANGED eng
       ELSE Goto(k, "rename") /\ eng' = Fallback
    /\ UNCHANGED <<promptMu, log, linked, engName, engBase, probe, active>>

RenameEngine(k) ==
    /\ chat[k].pc = "rename" /\ Goto(k, "lock")
    /\ engName' = "mock"
    /\ UNCHANGED <<promptMu, log, linked, eng, engBase, probe, active>>

Lock(k) ==
    /\ chat[k].pc = "lock" /\ promptMu = NoChat
    /\ promptMu' = k
    /\ chat' = [chat EXCEPT ![k].pc = "prompt", ![k].used = eng]
    /\ UNCHANGED <<log, engineVars>>

(* Mutant: an error returns without unlocking. *)
PromptKeepsLock(k) ==
    /\ chat[k].pc = "prompt" /\ chat[k].used # "nil"
    /\ \E reply \in {"assistant", "error"} :
          /\ chat[k].used = "mock" => reply = "assistant"
          /\ chat' = [chat EXCEPT ![k].pc = "tally", ![k].reply = reply]
          /\ promptMu' = IF reply = "error" THEN k ELSE NoChat
    /\ UNCHANGED <<log, engineVars>>

(* A client that goes away makes a REST chat fail. *)
Prompt(k) ==
    /\ chat[k].pc = "prompt" /\ chat[k].used # "nil"
    /\ \E reply \in {"assistant", "error"} :
          /\ chat[k].used = "mock" => reply = "assistant"
          /\ chat' = [chat EXCEPT ![k].pc = "tally", ![k].reply = reply]
    /\ promptMu' = NoChat
    /\ UNCHANGED <<log, engineVars>>

(* Unlock is not deferred: the panic of a nil engine keeps the mutex. *)
PromptPanics(k) ==
    /\ chat[k].pc = "prompt" /\ chat[k].used = "nil"
    /\ End(k, "panic")
    /\ UNCHANGED <<promptMu, log, engineVars>>

(* The client will be told the name the engine has now. *)
Tally(k) ==
    /\ chat[k].pc = "tally"
    /\ chat' = [chat EXCEPT ![k].pc = "say", ![k].line = MessageIndex(k) + 1,
                            ![k].mock = chat[k].reply = "assistant" /\ engName = "mock"]
    /\ UNCHANGED <<promptMu, log, engineVars>>

(* That the answer cannot be written is ignored. *)
Say(k) ==
    /\ chat[k].pc = "say"
    /\ \E lost \in BOOLEAN :
          /\ IF lost THEN UNCHANGED log ELSE AppendEntry(k, chat[k].reply)
          /\ IF chat[k].reply = "error" THEN End(k, "failed")
             ELSE chat' = [chat EXCEPT ![k].pc = "done", ![k].result = "answered",
                                       ![k].lost = lost, ![k].line = 0]
    /\ UNCHANGED <<promptMu, engineVars>>

Step(k) ==
    \/ CountLines(k) \/ Ask(k) \/ CheckReady(k) \/ ReplaceEngine(k) \/ RenameEngine(k)
    \/ Lock(k) \/ Prompt(k) \/ PromptPanics(k) \/ Tally(k) \/ Say(k)

-------------------------------------------------------------------------------
(* The rest of the process. *)

(* A new process over the same workspace: the chats of the old one are cut *)
(* off, its engine, sessions and configuration are gone.                   *)
AgentRestart ==
    /\ ReloadConfig
    /\ eng' = Built
    /\ engName' = IF EngineName \in linked THEN EngineName ELSE "mock"
    /\ engBase' = Completed(cfg'.base)
    /\ probe' = "unknown" /\ active' = "default"
    /\ promptMu' = NoChat
    /\ chat' = [k \in Chats |-> IF chat[k].pc \in {"new", "done"} THEN chat[k]
                                ELSE Ended(k, "cut")]
    /\ UNCHANGED <<linked, log>>

(* An injection.  SyncConfig then finds nothing new in the engine's own    *)
(* copy of the configuration; on a nil engine it panics in a goroutine of  *)
(* its own, which ends the process: AgentRestart.                          *)
SetConfig ==
    /\ \E new \in Updates : Apply(new)
    /\ UNCHANGED <<file, engineVars, chatVars>>

Init ==
    /\ ConfigInit /\ EngineInit
    /\ promptMu = NoChat
    /\ chat = [k \in Chats |-> NewChat]
    /\ log = <<>>

Next ==
    \/ \E k \in Chats : (Receive(k) \/ Step(k)) /\ UNCHANGED configVars
    \/ (Poll \/ EditFile) /\ UNCHANGED <<engineVars, chatVars>>
    \/ Health \/ NewSession \/ SetConfig \/ AgentRestart

Spec == Init /\ [][Next]_vars

(* Goroutines are scheduled, the engine answers, and a goroutine does not  *)
(* wait for ever for a mutex that is free time and again (sync.Mutex hands *)
(* over in its starvation mode).                                           *)
Fairness ==
    \A k \in Chats :
        /\ WF_vars(Step(k) /\ UNCHANGED configVars)
        /\ SF_vars(Lock(k) /\ UNCHANGED configVars)

LiveSpec == Spec /\ Fairness
===============================================================================
