-------------------------- MODULE Conversation_proofs --------------------------
(***************************************************************************)
(* Proofs about AgentSession, for any number of chats, keys and            *)
(* configurations.                                                         *)
(***************************************************************************)
EXTENDS ConversationProperties, HeadlineFilter_proofs

(* The types of the variables the log does not depend on. *)
EngineTyped ==
    /\ cfg \in Config /\ file \in Updates \cup {NoFile}
    /\ linked \subseteq Engines
    /\ eng \in Engines \cup {"nil"} /\ engName \in Engines
    /\ engBase \in Bases /\ probe \in {"unknown", "ok", "bad"}
    /\ active \in Keys
    /\ promptMu \in Chats \cup {NoChat}

(* The length of the log when a chat came in bounds its indices from       *)
(* below, and their positions bound them from above.                       *)
Counting ==
    \A k \in Chats :
        /\ chat[k].began <= Len(log)
        /\ chat[k].pc \in {"ask", "say"} =>
              chat[k].began < chat[k].line /\ chat[k].line <= Len(log) + 1

Within ==
    \A p \in DOMAIN log :
        /\ chat[log[p].chat].pc \notin {"new", "count", "ask"}
        /\ chat[log[p].chat].began < log[p].index
        /\ log[p].index <= p

ChatTyped == chat \in [Chats -> Chat]
LogTyped == log \in Seq(Entry)

Replied == \A k \in Chats : chat[k].pc \in {"tally", "say"} => chat[k].reply # "none"

IndexInv == EngineTyped /\ ChatTyped /\ LogTyped /\ Counting /\ Within /\ Replied

-------------------------------------------------------------------------------
LEMMA ChatTypes ==
    /\ NewChat \in Chat
    /\ \A c \in Chat, r \in Results :
          [NewChat EXCEPT !.pc = "done", !.result = r, !.key = c.key, !.began = c.began] \in Chat
  BY DEF NewChat, Chat, Labels, Results, Keys

LEMMA FallbackType == linked \subseteq Engines => Fallback \in {"mock", "nil"}
  BY DEF Fallback

LEMMA BuiltType ==
    ASSUME linked \subseteq Engines
    PROVE  /\ Built \in Engines \cup {"nil"}
           /\ (IF EngineName \in linked THEN EngineName ELSE "mock") \in Engines
  BY DEF Built, Fallback, Engines

LEMMA LoadedType ==
    ASSUME file \in Updates \cup {NoFile}
    PROVE  Loaded \in Config
  BY UpdatesAssumption DEF Loaded, DefaultConfig, Config, Bases

LEMMA CompletedType == \A c \in Config : Completed(c.base) \in Bases
  BY DEF Completed, Config, Bases

LEMMA ApplyType ==
    ASSUME cfg \in Config, NEW new \in Config, Apply(new)
    PROVE  cfg' \in Config
<1>1. /\ Completed(new.base) \in Bases \cup {""}
      /\ (IF new.model = "" THEN cfg.model ELSE new.model) \in Models \cup {"", "mock-gpt-4o"}
  BY DEF Completed, Config, Bases
<1> QED  BY <1>1 DEF Apply, Config

(* The states the program starts in. *)
LEMMA IndexInit == Init => IndexInv
<1> SUFFICES ASSUME Init PROVE IndexInv
  OBVIOUS
<1>1. cfg \in Config /\ file \in Updates \cup {NoFile}
  BY LoadedType DEF Init, ConfigInit
<1>2. linked \subseteq Engines
  BY DEF Init, EngineInit, Engines
<1>3. EngineTyped
  <2>1. eng \in Engines \cup {"nil"} /\ engName \in Engines
    BY <1>2, BuiltType DEF Init, EngineInit
  <2>2. engBase \in Bases
    BY <1>1, CompletedType DEF Init, EngineInit
  <2> QED  BY <1>1, <1>2, <2>1, <2>2 DEF EngineTyped, Init, EngineInit, Keys
<1>4. ChatTyped /\ LogTyped
  <2>1. NewChat \in Chat
    BY ChatTypes
  <2>2. chat = [k \in Chats |-> NewChat] /\ log = <<>>
    BY DEF Init
  <2> QED  BY <2>1, <2>2 DEF ChatTyped, LogTyped
<1>5. Counting
  <2>1. Len(log) = 0 /\ \A k \in Chats : chat[k] = NewChat
    BY DEF Init
  <2> QED  BY <2>1 DEF Counting, NewChat
<1>6. Within
  BY DEF Init, Within
<1>7. Replied
  BY DEF Init, Replied, NewChat
<1> QED  BY <1>3, <1>4, <1>5, <1>6, <1>7 DEF IndexInv

-------------------------------------------------------------------------------
(* The steps and the types of the engine. *)
LEMMA EngineStep ==
    ASSUME IndexInv, [Next]_vars
    PROVE  EngineTyped'
<1> USE DEF IndexInv, EngineTyped, ChatTyped
<1>1. ASSUME NEW k \in Chats, Receive(k) \/ Step(k), UNCHANGED configVars
      PROVE  EngineTyped'
  <2>1. CASE CheckReady(k)
    BY <1>1, <2>1 DEF CheckReady, Version, configVars
  <2>2. CASE ReplaceEngine(k)
    BY <1>1, <2>2, FallbackType DEF ReplaceEngine, configVars, Engines
  <2>3. CASE RenameEngine(k)
    BY <1>1, <2>3 DEF RenameEngine, configVars, Engines
  <2>4. CASE Receive(k) \/ CountLines(k) \/ Ask(k) \/ Tally(k) \/ Say(k) \/ PromptPanics(k)
    BY <1>1, <2>4 DEF Receive, CountLines, Ask, Tally, Say, PromptPanics, configVars, engineVars
  <2>5. CASE Lock(k) \/ Prompt(k)
    BY <1>1, <2>5 DEF Lock, Prompt, configVars, engineVars
  <2> QED  BY <1>1, <2>1, <2>2, <2>3, <2>4, <2>5 DEF Step
<1>2. ASSUME Poll \/ EditFile, UNCHANGED <<engineVars, chatVars>>
      PROVE  EngineTyped'
  <2>1. CASE Poll
    <3>1. file \in Config
      BY <2>1, UpdatesAssumption DEF Poll
    <3>2. cfg' \in Config
      BY <2>1, <3>1, ApplyType DEF Poll
    <3> QED  BY <1>2, <2>1, <3>2 DEF Poll, engineVars, chatVars
  <2>2. CASE EditFile
    BY <1>2, <2>2 DEF EditFile, engineVars, chatVars
  <2> QED  BY <1>2, <2>1, <2>2
<1>3. ASSUME Health \/ NewSession
      PROVE  EngineTyped'
  BY <1>3 DEF Health, NewSession, Version, configVars, chatVars, Keys
<1>4. ASSUME SetConfig
      PROVE  EngineTyped'
  <2>1. PICK new \in Updates : Apply(new)
    BY <1>4 DEF SetConfig
  <2>2. cfg' \in Config
    BY <2>1, ApplyType, UpdatesAssumption
  <2> QED  BY <1>4, <2>2 DEF SetConfig, engineVars, chatVars
<1>5. ASSUME AgentRestart
      PROVE  EngineTyped'
  <2>1. cfg' \in Config /\ file' = file
    BY <1>5, LoadedType DEF AgentRestart, ReloadConfig
  <2>2. engBase' \in Bases
    BY <1>5, <2>1, CompletedType DEF AgentRestart
  <2>3. eng' \in Engines \cup {"nil"} /\ engName' \in Engines
    BY <1>5, BuiltType DEF AgentRestart
  <2> QED  BY <1>5, <2>1, <2>2, <2>3 DEF AgentRestart, Keys
<1>6. ASSUME UNCHANGED vars
      PROVE  EngineTyped'
  BY <1>6 DEF vars, configVars, engineVars, chatVars
<1> QED  BY <1>1, <1>2, <1>3, <1>4, <1>5, <1>6 DEF Next

-------------------------------------------------------------------------------
(* What a step of a chat does to the chat and to the log. *)
Shape(k, c) ==
    /\ chat' = [chat EXCEPT ![k] = c]
    /\ c \in Chat /\ c.began = chat[k].began /\ c.key = chat[k].key
    /\ c.pc \notin {"new", "count"} /\ chat[k].pc # "new"
    /\ c.pc = "ask" <=> chat[k].pc = "count"
    /\ c.pc \in {"ask", "say"} => c.line = Len(log) + 1
    /\ c.pc \in {"tally", "say"} => c.reply # "none"
    /\ \/ log' = log /\ (c.pc = "done" \/ Phase(c.pc) = Phase(chat[k].pc))
       \/ /\ chat[k].pc = "ask" /\ c.pc = "ready" /\ AppendEntry(k, "user")
       \/ /\ chat[k].pc = "say" /\ c.pc = "done"
          /\ \E role \in {"assistant", "error"} : AppendEntry(k, role)

LEMMA EndShape ==
    ASSUME ChatTyped, NEW k \in Chats, NEW r \in Results, End(k, r), chat[k].pc \notin {"new", "count"}
    PROVE  \E c \in Chat : /\ chat' = [chat EXCEPT ![k] = c]
                          /\ c.began = chat[k].began /\ c.key = chat[k].key
                          /\ c.pc = "done"
<1> DEFINE c == Ended(k, r)
<1>1. chat[k] \in Chat
  BY DEF ChatTyped
<1>2. c \in Chat
  BY <1>1, ChatTypes DEF Ended
<1>3. c.began = chat[k].began /\ c.key = chat[k].key /\ c.pc = "done"
  BY DEF Ended, NewChat
<1> QED  BY <1>2, <1>3 DEF End

LEMMA StepShape ==
    ASSUME IndexInv, NEW k \in Chats, Step(k)
    PROVE  \E c \in Chat : Shape(k, c)
<1> USE DEF IndexInv
<1>1. chat[k] \in Chat /\ chat \in [Chats -> Chat] /\ Len(log) \in Nat
  BY DEF ChatTyped, LogTyped
<1>2. CASE CountLines(k)
  <2>1. PICK n \in Nat : /\ n = Len(log) + 1
                         /\ chat' = [chat EXCEPT ![k].pc = "ask", ![k].line = n]
    <3>1. chat' = [chat EXCEPT ![k].pc = "ask", ![k].line = MessageIndex(k) + 1]
      BY <1>2 DEF CountLines
    <3>2. MessageIndex(k) + 1 \in Nat /\ MessageIndex(k) + 1 = Len(log) + 1
      BY <1>1 DEF MessageIndex
    <3> QED  BY <3>1, <3>2
  <2> DEFINE c == [chat[k] EXCEPT !.pc = "ask", !.line = n]
  <2>2. c \in Chat /\ chat' = [chat EXCEPT ![k] = c] /\ log' = log /\ chat[k].pc = "count"
    BY <1>1, <1>2, <2>1 DEF CountLines, Chat, Labels
  <2> QED  BY <1>1, <2>1, <2>2 DEF Phase, Shape, Chat
<1>3. CASE Ask(k)
  <2>1. CASE AppendEntry(k, "user")
             /\ chat' = [chat EXCEPT ![k].pc = "ready", ![k].index = chat[k].line, ![k].line = 0]
    <3> DEFINE c == [chat[k] EXCEPT !.pc = "ready", !.index = chat[k].line, !.line = 0]
    <3>1. c \in Chat /\ chat' = [chat EXCEPT ![k] = c] /\ chat[k].pc = "ask"
      BY <1>1, <1>3, <2>1 DEF Ask, Chat, Labels
    <3> QED  BY <1>1, <2>1, <3>1 DEF Phase, Shape, Chat
  <2>2. CASE End(k, "failed") /\ UNCHANGED log
    <3>1. chat[k].pc = "ask"
      BY <1>3 DEF Ask
    <3> QED  BY <1>1, <2>2, <3>1, EndShape DEF Phase, Shape, Results
  <2> QED  BY <1>3, <2>1, <2>2 DEF Ask
<1>4. CASE CheckReady(k)
  <2>1. chat[k].pc = "ready" /\ log' = log
    BY <1>4 DEF CheckReady
  <2>2. CASE End(k, "panic")
    BY <1>1, <2>1, <2>2, EndShape DEF Phase, Shape, Results
  <2>3. ASSUME NEW pc \in {"lock", "unready"}, Goto(k, pc)
        PROVE  \E c \in Chat : Shape(k, c)
    <3> DEFINE c == [chat[k] EXCEPT !.pc = pc]
    <3>1. c \in Chat /\ chat' = [chat EXCEPT ![k] = c]
      BY <1>1, <2>3 DEF Goto, Chat, Labels
    <3> QED  BY <1>1, <2>1, <3>1 DEF Phase, Shape, Chat
  <2> QED  BY <1>4, <2>2, <2>3 DEF CheckReady
<1>5. CASE ReplaceEngine(k) \/ RenameEngine(k)
  <2>1. PICK pc \in {"lock", "rename"} : Goto(k, pc)
    BY <1>5 DEF ReplaceEngine, RenameEngine
  <2> DEFINE c == [chat[k] EXCEPT !.pc = pc]
  <2>2. c \in Chat /\ chat' = [chat EXCEPT ![k] = c]
    BY <1>1, <2>1 DEF Goto, Chat, Labels
  <2>3. chat[k].pc \in {"unready", "rename"} /\ log' = log
    BY <1>5 DEF ReplaceEngine, RenameEngine
  <2> QED  BY <1>1, <2>2, <2>3 DEF Phase, Shape, Chat
<1>6. CASE Lock(k)
  <2> DEFINE c == [chat[k] EXCEPT !.pc = "prompt", !.used = eng]
  <2>1. c \in Chat /\ chat' = [chat EXCEPT ![k] = c] /\ log' = log /\ chat[k].pc = "lock"
    BY <1>1, <1>6 DEF Lock, Chat, Labels, EngineTyped
  <2> QED  BY <1>1, <2>1 DEF Phase, Shape, Chat
<1>7. CASE Prompt(k)
  <2>1. PICK reply \in {"assistant", "error"} :
            chat' = [chat EXCEPT ![k].pc = "tally", ![k].reply = reply]
    BY <1>7 DEF Prompt
  <2> DEFINE c == [chat[k] EXCEPT !.pc = "tally", !.reply = reply]
  <2>2. c \in Chat /\ chat' = [chat EXCEPT ![k] = c] /\ log' = log /\ chat[k].pc = "prompt"
    BY <1>1, <1>7, <2>1 DEF Prompt, Chat, Labels
  <2> QED  BY <1>1, <2>2 DEF Phase, Shape, Chat
<1>8. CASE PromptPanics(k)
  BY <1>1, <1>8, EndShape DEF PromptPanics, Shape, Results
<1>9. CASE Tally(k)
  <2>1. PICK mock \in BOOLEAN, n \in Nat :
            /\ n = Len(log) + 1
            /\ chat' = [chat EXCEPT ![k].pc = "say", ![k].line = n, ![k].mock = mock]
    <3>1. chat' = [chat EXCEPT ![k].pc = "say", ![k].line = MessageIndex(k) + 1,
                               ![k].mock = chat[k].reply = "assistant" /\ engName = "mock"]
      BY <1>9 DEF Tally
    <3>2. MessageIndex(k) + 1 \in Nat /\ MessageIndex(k) + 1 = Len(log) + 1
      BY <1>1 DEF MessageIndex
    <3>3. (chat[k].reply = "assistant" /\ engName = "mock") \in BOOLEAN
      OBVIOUS
    <3> QED  BY <3>1, <3>2, <3>3
  <2> DEFINE c == [chat[k] EXCEPT !.pc = "say", !.line = n, !.mock = mock]
  <2>2. c \in Chat /\ chat' = [chat EXCEPT ![k] = c] /\ log' = log /\ chat[k].pc = "tally"
    BY <1>1, <1>9, <2>1 DEF Tally, Chat, Labels
  <2> QED  BY <1>1, <2>1, <2>2 DEF Phase, Shape, Chat, Replied
<1>10. CASE Say(k)
  <2>1. chat[k].pc = "say" /\ chat[k].reply \in {"assistant", "error"}
    BY <1>1, <1>10 DEF Say, Chat, Replied
  <2>2. PICK lost \in BOOLEAN :
            /\ IF lost THEN UNCHANGED log ELSE AppendEntry(k, chat[k].reply)
            /\ IF chat[k].reply = "error" THEN End(k, "failed")
               ELSE chat' = [chat EXCEPT ![k].pc = "done", ![k].result = "answered",
                                         ![k].lost = lost, ![k].line = 0]
    BY <1>10 DEF Say
  <2>3. \E c \in Chat : /\ chat' = [chat EXCEPT ![k] = c]
                        /\ c.began = chat[k].began /\ c.key = chat[k].key /\ c.pc = "done"
    <3>1. CASE chat[k].reply = "error"
      BY <2>1, <2>2, <3>1, EndShape DEF Results
    <3>2. CASE chat[k].reply # "error"
      <4> DEFINE c == [chat[k] EXCEPT !.pc = "done", !.result = "answered", !.lost = lost,
                                      !.line = 0]
      <4>1. c \in Chat /\ chat' = [chat EXCEPT ![k] = c]
        BY <1>1, <2>2, <3>2 DEF Chat, Labels, Results
      <4> QED  BY <1>1, <4>1 DEF Chat
    <3> QED  BY <3>1, <3>2
  <2>4. log' = log \/ AppendEntry(k, chat[k].reply)
    BY <2>2
  <2> QED  BY <2>1, <2>3, <2>4 DEF Phase, Shape
<1> QED  BY <1>2, <1>3, <1>4, <1>5, <1>6, <1>7, <1>8, <1>9, <1>10 DEF Step

-------------------------------------------------------------------------------
(* The steps and the log. *)
LEMMA AppendedTo ==
    ASSUME NEW s \in Seq(Entry), NEW e \in Entry
    PROVE  /\ Append(s, e) \in Seq(Entry)
           /\ Len(Append(s, e)) = Len(s) + 1
           /\ DOMAIN s = 1..Len(s)
           /\ DOMAIN Append(s, e) = 1..(Len(s) + 1)
           /\ \A p \in 1..Len(s) : Append(s, e)[p] = s[p]
           /\ Append(s, e)[Len(s) + 1] = e
  OBVIOUS

LEMMA Entries ==
    ASSUME NEW l \in Seq(Entry), NEW p \in DOMAIN l
    PROVE  l[p] \in Entry /\ l[p].chat \in Chats /\ l[p].index \in Nat /\ p \in Nat
<1>1. l[p] \in Entry /\ p \in Nat
  OBVIOUS
<1> QED  BY <1>1 DEF Entry

LEMMA ShapeKeeps ==
    ASSUME IndexInv, NEW k \in Chats, NEW c \in Chat, Shape(k, c)
    PROVE  (ChatTyped /\ LogTyped /\ Counting /\ Within /\ Replied)'
<1> USE DEF IndexInv, Shape
<1>1. chat \in [Chats -> Chat] /\ log \in Seq(Entry) /\ Len(log) \in Nat
      /\ DOMAIN log = 1..Len(log)
  BY DEF ChatTyped, LogTyped
<1>2. /\ chat' \in [Chats -> Chat] /\ chat'[k] = c
      /\ \A j \in Chats : chat'[j].began = chat[j].began
      /\ \A j \in Chats \ {k} : chat'[j] = chat[j]
      /\ \A j \in Chats : chat[j].began \in Nat /\ chat[j].line \in Nat
  BY <1>1 DEF Chat
<1>3. ChatTyped' /\ Replied'
  BY <1>2 DEF ChatTyped, Replied
<1>4. \A p \in 1..Len(log) : log[p] \in Entry /\ log[p].chat \in Chats /\ log[p].index \in Nat
  BY <1>1, Entries
<1>5. CASE log' = log
  <2>1. Counting'
    BY <1>1, <1>2, <1>5 DEF Counting
  <2>2. Within'
    BY <1>1, <1>2, <1>4, <1>5 DEF Within
  <2> QED  BY <1>3, <1>5, <2>1, <2>2 DEF LogTyped
<1>6. ASSUME NEW role \in {"user", "assistant", "error"}, AppendEntry(k, role),
             chat[k].pc \in {"ask", "say"}, c.pc \notin {"ask", "say"}
      PROVE  (LogTyped /\ Counting /\ Within)'
  <2> DEFINE e == [chat |-> k, role |-> role, key |-> chat[k].key, index |-> chat[k].line]
  <2>1. /\ chat[k].began < chat[k].line /\ chat[k].line <= Len(log) + 1
        /\ chat[k].began \in Nat /\ chat[k].line \in Nat \ {0}
    BY <1>1, <1>2, <1>6 DEF Counting
  <2>2. e \in Entry
    BY <1>1, <2>1 DEF Entry, Chat
  <2>3. /\ log' \in Seq(Entry) /\ Len(log') = Len(log) + 1
        /\ DOMAIN log' = 1..(Len(log) + 1)
        /\ \A p \in 1..Len(log) : log'[p] = log[p]
        /\ log'[Len(log) + 1].chat = k /\ log'[Len(log) + 1].index = chat[k].line
    <3>1. log' = Append(log, e)
      BY <1>6 DEF AppendEntry
    <3>2. e.chat = k /\ e.index = chat[k].line
      OBVIOUS
    <3> HIDE DEF e
    <3> QED  BY <1>1, <2>2, <3>1, <3>2, AppendedTo
  <2>4. Counting'
    BY <1>1, <1>2, <1>6, <2>3 DEF Counting
  <2>5. Within'
    <3> SUFFICES ASSUME NEW p \in DOMAIN log'
                 PROVE  /\ chat'[log'[p].chat].pc \notin {"new", "count", "ask"}
                        /\ chat'[log'[p].chat].began < log'[p].index
                        /\ log'[p].index <= p
      BY DEF Within
    <3>1. CASE p \in 1..Len(log)
      BY <1>1, <1>2, <1>4, <1>6, <2>3, <3>1 DEF Within
    <3>2. CASE p = Len(log) + 1
      BY <1>2, <1>6, <2>1, <2>3, <3>2
    <3> QED  BY <1>1, <2>3, <3>1, <3>2
  <2> QED  BY <2>3, <2>4, <2>5 DEF LogTyped
<1> QED  BY <1>3, <1>5, <1>6

LEMMA IndexStep == IndexInv /\ [Next]_vars => IndexInv'
<1> SUFFICES ASSUME IndexInv, [Next]_vars PROVE IndexInv'
  OBVIOUS
<1>1. chat \in [Chats -> Chat] /\ log \in Seq(Entry) /\ Len(log) \in Nat
      /\ \A p \in DOMAIN log : log[p].chat \in Chats
  BY Entries DEF IndexInv, ChatTyped, LogTyped
<1>2. ASSUME NEW k \in Chats, Receive(k)
      PROVE  (ChatTyped /\ LogTyped /\ Counting /\ Within /\ Replied)'
  <2>1. PICK key \in Keys, n \in Nat :
            n = Len(log) /\ chat' = [chat EXCEPT ![k].pc = "count", ![k].began = n, ![k].key = key]
    <3>1. ActiveSession \in Keys
      BY DEF ActiveSession, IndexInv, EngineTyped, Keys
    <3>2. PICK hint \in Hints : chat' = [chat EXCEPT ![k].pc = "count", ![k].began = Len(log),
                                   ![k].key = IF hint = "" THEN ActiveSession ELSE hint]
      BY <1>2 DEF Receive
    <3>3. (IF hint = "" THEN ActiveSession ELSE hint) \in Keys
      BY <3>1 DEF Keys
    <3> QED  BY <1>1, <3>2, <3>3
  <2>2. /\ chat' \in [Chats -> Chat] /\ log' = log /\ chat[k].pc = "new"
        /\ \A j \in Chats \ {k} : chat'[j] = chat[j]
        /\ chat'[k].pc = "count" /\ chat'[k].began = Len(log)
    <3> DEFINE c == [chat[k] EXCEPT !.pc = "count", !.began = n, !.key = key]
    <3>1. chat[k] \in Chat /\ chat' = [chat EXCEPT ![k] = c]
      BY <1>1, <2>1
    <3>2. c \in Chat /\ c.pc = "count" /\ c.began = Len(log)
      BY <2>1, <3>1 DEF Chat, Labels
    <3> QED  BY <1>1, <1>2, <3>1, <3>2 DEF Receive
  <2>3. Counting'
    BY <1>1, <2>2 DEF IndexInv, Counting
  <2>a. Replied'
    BY <1>1, <2>2 DEF IndexInv, Replied
  <2>4. Within'
    BY <1>1, <2>2 DEF IndexInv, Within
  <2> QED  BY <1>1, <2>2, <2>3, <2>a, <2>4 DEF ChatTyped, LogTyped
<1>3. ASSUME NEW k \in Chats, Step(k)
      PROVE  (ChatTyped /\ LogTyped /\ Counting /\ Within /\ Replied)'
  BY <1>3, StepShape, ShapeKeeps
<1>4. CASE UNCHANGED <<chat, log>>
  <2>1. (ChatTyped /\ LogTyped /\ Counting /\ Within /\ Replied)'
    BY <1>4 DEF IndexInv, ChatTyped, LogTyped, Counting, Within, Replied
  <2> QED  BY <2>1, EngineStep DEF IndexInv
<1>5. CASE AgentRestart
  <2>1. \A j \in Chats : Ended(j, "cut") \in Chat /\ Ended(j, "cut").pc = "done"
                           /\ Ended(j, "cut").began = chat[j].began
    BY <1>1, ChatTypes DEF Ended, Results, NewChat
  <2>2. /\ chat' \in [Chats -> Chat] /\ log' = log
        /\ \A j \in Chats : chat'[j].began = chat[j].began
        /\ \A j \in Chats : chat'[j] = chat[j] \/ chat'[j].pc = "done"
    BY <1>1, <1>5, <2>1 DEF AgentRestart
  <2>3. Counting'
    BY <1>1, <2>2 DEF IndexInv, Counting
  <2>a. Replied'
    BY <1>1, <2>2 DEF IndexInv, Replied
  <2>4. Within'
    BY <1>1, <2>2 DEF IndexInv, Within
  <2>5. ChatTyped' /\ LogTyped'
    BY <1>1, <2>2 DEF ChatTyped, LogTyped
  <2> QED  BY <2>3, <2>a, <2>4, <2>5, EngineStep DEF IndexInv
<1>6. CASE \E k \in Chats : Receive(k) \/ Step(k)
  BY <1>2, <1>3, <1>6, EngineStep DEF IndexInv
<1>7. CASE Poll \/ EditFile \/ Health \/ NewSession \/ SetConfig \/ UNCHANGED vars
  <2>1. ASSUME Next, ~AgentRestart, ~\E k \in Chats : Receive(k) \/ Step(k)
        PROVE  UNCHANGED <<chat, log>>
    BY <2>1 DEF Next, Health, NewSession, SetConfig, chatVars
  <2>2. CASE UNCHANGED vars
    BY <1>4, <2>2 DEF vars, chatVars
  <2> QED  BY <1>4, <1>5, <1>6, <2>1, <2>2
<1> QED  BY <1>5, <1>6, <1>7 DEF Next

LEMMA IndexInvHolds == Spec => []IndexInv
  BY IndexInit, IndexStep, PTL DEF Spec

(* Every variable keeps its type, whatever chats, keys, models and updates *)
(* there are.                                                              *)
THEOREM ConversationTypeCorrect == Spec => []TypeOK
<1>1. IndexInv => TypeOK
  BY DEF IndexInv, EngineTyped, ChatTyped, LogTyped, TypeOK
<1> QED  BY <1>1, IndexInvHolds, PTL

(* Indices grow from one chat to the next for any number of chats, however *)
(* they overlap and whenever the agent restarts: an entry's index lies     *)
(* between the length of the log when its chat came in and its position.   *)
THEOREM IndicesGrow == Spec => []IndexGrows
<1>1. ASSUME IndexInv PROVE IndexGrows
  <2>1. /\ \A p \in DOMAIN log : log[p] \in Entry /\ p \in Nat
        /\ chat \in [Chats -> Chat]
    BY <1>1 DEF IndexInv, ChatTyped, LogTyped
  <2>2. \A p \in DOMAIN log : /\ log[p].index \in Nat /\ chat[log[p].chat].began \in Nat
                              /\ chat[log[p].chat].began < log[p].index
                              /\ log[p].index <= p
    BY <1>1, <2>1 DEF IndexInv, Within, Entry, Chat
  <2> QED  BY <2>1, <2>2 DEF IndexGrows
<1> QED  BY <1>1, IndexInvHolds, PTL

-------------------------------------------------------------------------------
(* Who answered, and what the client is told about it. *)

(* The part of Ready that may change. *)
Sound == probe = "ok" /\ engBase = "real"

(* What is true of a chat that has seen the engine, as long as the engine  *)
(* is still qwenpaw: where Ready sent it, Ready would send every other.    *)
Judged(k) ==
    /\ chat[k].pc = "rename" => eng # "qwenpaw"
    /\ chat[k].pc = "unready" /\ eng = "qwenpaw" => probe # "unknown" /\ ~Sound
    /\ chat[k].pc \in {"lock", "prompt", "tally", "say"} /\ eng = "qwenpaw" => Sound
    /\ chat[k].pc \in {"prompt", "tally", "say"} /\ chat[k].used = "qwenpaw" => eng = "qwenpaw"
    /\ chat[k].pc \in {"tally", "say"} => chat[k].used # "nil"
    /\ chat[k].mock => chat[k].pc \in {"say", "done"} /\ chat[k].used = "mock"

(* The invariant: whoever is named the mock engine is not qwenpaw, and     *)
(* every chat stands where Ready would send it still.                      *)
MockInv ==
    /\ engName = "mock" => eng # "qwenpaw"
    /\ \A k \in Chats : Judged(k)

(* What a step of chat k leaves alone.                                    *)
EngineKept == eng' = eng /\ engName' = engName /\ engBase' = engBase /\ probe' = probe

Others(k) == \A j \in Chats \ {k} : chat'[j] = chat[j]

LEMMA MockInit == Init => MockInv
<1> SUFFICES ASSUME Init PROVE MockInv
  OBVIOUS
<1>1. \A k \in Chats : chat[k].pc = "new" /\ ~chat[k].mock
  BY DEF Init, NewChat
<1>2. engName = "mock" => eng # "qwenpaw"
  BY DEF Init, EngineInit, Built, Fallback, Engines
<1> QED  BY <1>1, <1>2 DEF MockInv, Judged

(* A step that leaves the engine alone: only the chat's own facts matter.  *)
LEMMA JudgedAlone ==
    ASSUME MockInv, NEW k \in Chats, Others(k), EngineKept, Judged(k)'
    PROVE  MockInv'
<1>1. \A j \in Chats \ {k} : Judged(j)'
  BY DEF Others, EngineKept, MockInv, Judged, Sound
<1> QED  BY <1>1 DEF EngineKept, MockInv

(* The version is found out: no chat has gone by it before.                *)
LEMMA JudgedProbe ==
    ASSUME EngineTyped, MockInv, NEW k \in Chats, Others(k),
           UNCHANGED <<eng, engName, engBase>>, Version, Judged(k)'
    PROVE  MockInv'
<1>1. \A j \in Chats \ {k} : Judged(j)'
  BY DEF Others, MockInv, Judged, Sound, Version
<1> QED  BY <1>1 DEF MockInv

(* The record a step puts in place of the chat.                            *)
LEMMA EndJudged ==
    ASSUME ChatTyped, NEW k \in Chats, NEW r, End(k, r)
    PROVE  Others(k) /\ Judged(k)'
<1>1. chat' = [chat EXCEPT ![k] = Ended(k, r)]
  BY DEF End
<1>2. Ended(k, r).pc = "done" /\ ~Ended(k, r).mock
  BY DEF Ended, NewChat
<1>3. chat'[k] = Ended(k, r)
  BY <1>1 DEF ChatTyped
<1> HIDE DEF Ended
<1>4. Others(k)
  BY <1>1 DEF Others
<1> QED  BY <1>2, <1>3, <1>4 DEF Judged

LEMMA MockChatStep ==
    ASSUME IndexInv, MockInv, NEW k \in Chats, Receive(k) \/ Step(k)
    PROVE  MockInv'
<1>1. /\ EngineTyped /\ ChatTyped /\ chat \in [Chats -> Chat] /\ chat[k] \in Chat
      /\ Judged(k) /\ (engName = "mock" => eng # "qwenpaw")
      /\ engName \in Engines /\ eng \in Engines \cup {"nil"}
  BY DEF IndexInv, ChatTyped, EngineTyped, MockInv
<1>2. CASE Receive(k)
  <2>1. PICK key, n : chat' = [chat EXCEPT ![k].pc = "count", ![k].began = n, ![k].key = key]
    BY <1>2 DEF Receive
  <2>2. /\ Others(k) /\ chat'[k].pc = "count"
        /\ chat'[k].mock = chat[k].mock /\ chat'[k].used = chat[k].used
    BY <1>1, <2>1 DEF Chat, Others
  <2>3. Judged(k)'
    BY <1>1, <1>2, <2>2 DEF Receive, Judged
  <2> QED  BY <1>1, <1>2, <2>2, <2>3, JudgedAlone DEF Receive, EngineKept, engineVars
<1>3. CASE CountLines(k)
  <2>2. /\ Others(k) /\ chat'[k].pc = "ask"
        /\ chat'[k].mock = chat[k].mock /\ chat'[k].used = chat[k].used
    BY <1>1, <1>3 DEF CountLines, Chat, Others
  <2>3. Judged(k)'
    BY <1>1, <1>3, <2>2 DEF CountLines, Judged
  <2> QED  BY <1>1, <1>3, <2>2, <2>3, JudgedAlone DEF CountLines, EngineKept, engineVars
<1>4. CASE Ask(k)
  <2>1. CASE End(k, "failed")
    BY <1>1, <1>4, <2>1, EndJudged, JudgedAlone DEF Ask, EngineKept, engineVars
  <2>2. CASE chat' = [chat EXCEPT ![k].pc = "ready", ![k].index = chat[k].line, ![k].line = 0]
    <3>1. /\ Others(k) /\ chat'[k].pc = "ready"
          /\ chat'[k].mock = chat[k].mock /\ chat'[k].used = chat[k].used
      BY <1>1, <2>2 DEF Chat, Others
    <3>2. Judged(k)'
      BY <1>1, <1>4, <3>1 DEF Ask, Judged
    <3> QED  BY <1>1, <1>4, <3>1, <3>2, JudgedAlone DEF Ask, EngineKept, engineVars
  <2> QED  BY <1>4, <2>1, <2>2 DEF Ask
<1>5. CASE CheckReady(k)
  <2>1. chat[k].pc = "ready" /\ UNCHANGED <<eng, engName, engBase>>
    BY <1>5 DEF CheckReady
  <2>2. Version \/ UNCHANGED probe
    BY <1>5 DEF CheckReady
  <2>3. Others(k) /\ Judged(k)'
    <3>1. CASE End(k, "panic")
      BY <1>1, <3>1, EndJudged
    <3>2. ASSUME NEW pc \in {"lock", "unready"}, Goto(k, pc),
                 pc = "lock" => Ready, pc = "unready" => ~Ready,
                 eng = "qwenpaw" => Version
          PROVE  Others(k) /\ Judged(k)'
      <4>1. /\ Others(k) /\ chat'[k].pc = pc
            /\ chat'[k].mock = chat[k].mock /\ chat'[k].used = chat[k].used
        BY <1>1, <3>2 DEF Goto, Chat, Others
      <4>2. Judged(k)'
        BY <1>1, <2>1, <3>2, <4>1 DEF Judged, Sound, Ready, Version
      <4> QED  BY <4>1, <4>2
    <3>3. CASE eng = "nil"
      BY <1>5, <3>1, <3>3 DEF CheckReady, Ready
    <3>4. CASE eng # "nil" /\ Ready
      BY <1>5, <3>2, <3>4 DEF CheckReady
    <3>5. CASE eng # "nil" /\ ~Ready
      BY <1>5, <3>2, <3>5 DEF CheckReady
    <3> QED  BY <3>3, <3>4, <3>5
  <2>4. CASE Version
    BY <1>1, <2>1, <2>3, <2>4, JudgedProbe
  <2>5. CASE UNCHANGED probe
    BY <1>1, <2>1, <2>3, <2>5, JudgedAlone DEF EngineKept
  <2> QED  BY <2>2, <2>4, <2>5
<1>6. CASE ReplaceEngine(k)
  <2>1. chat[k].pc = "unready" /\ UNCHANGED <<engName, engBase, probe>>
    BY <1>6 DEF ReplaceEngine
  <2>2. ASSUME NEW pc \in {"lock", "rename"}, Goto(k, pc)
        PROVE  /\ Others(k)
               /\ chat'[k].pc = pc /\ chat'[k].mock = chat[k].mock /\ chat'[k].used = chat[k].used
    BY <1>1, <2>2 DEF Goto, Chat, Others
  <2>3. CASE engName = "mock"
    <3>1. Goto(k, "lock") /\ eng' = eng
      BY <1>6, <2>3 DEF ReplaceEngine
    <3>2. Judged(k)'
      BY <1>1, <2>1, <2>2, <2>3, <3>1 DEF Judged, Sound
    <3> QED  BY <1>1, <2>1, <2>2, <3>1, <3>2, JudgedAlone DEF EngineKept
  <2>4. CASE engName # "mock"
    <3>1. Goto(k, "rename") /\ eng' = Fallback
      BY <1>6, <2>4 DEF ReplaceEngine
    <3>2. eng' # "qwenpaw"
      BY <3>1 DEF Fallback
    <3>3. \A j \in Chats \ {k} : chat'[j] = chat[j]
      BY <2>2, <3>1 DEF Others
    <3>4. Judged(k)'
      BY <1>1, <2>1, <2>2, <3>1, <3>2 DEF Judged
    <3>5. ASSUME NEW j \in Chats \ {k} PROVE Judged(j)'
      <4>1. chat[j].pc \in {"prompt", "tally", "say"} => chat[j].used # "qwenpaw"
        BY <1>1, <2>1 DEF MockInv, Judged
      <4> QED  BY <3>2, <3>3, <4>1 DEF MockInv, Judged
    <3> QED  BY <3>2, <3>4, <3>5 DEF MockInv
  <2> QED  BY <2>3, <2>4
<1>7. CASE RenameEngine(k)
  <2>1. /\ chat[k].pc = "rename" /\ UNCHANGED <<eng, engBase, probe>> /\ Goto(k, "lock")
        /\ eng # "qwenpaw"
    BY <1>1, <1>7 DEF RenameEngine, Judged
  <2>2. /\ chat'[k].pc = "lock" /\ chat'[k].mock = chat[k].mock /\ chat'[k].used = chat[k].used
        /\ \A j \in Chats \ {k} : chat'[j] = chat[j]
    BY <1>1, <2>1 DEF Goto, Chat, Others
  <2>3. \A j \in Chats \ {k} : Judged(j)'
    BY <2>1, <2>2 DEF MockInv, Judged, Sound
  <2>4. Judged(k)'
    BY <1>1, <2>1, <2>2 DEF Judged
  <2> QED  BY <2>1, <2>3, <2>4 DEF MockInv
<1>8. CASE Lock(k)
  <2>1. /\ chat[k].pc = "lock" /\ Others(k) /\ chat'[k].pc = "prompt"
        /\ chat'[k].mock = chat[k].mock /\ chat'[k].used = eng
    BY <1>1, <1>8 DEF Lock, Chat, Others
  <2>2. ~chat[k].mock
    BY <1>1, <2>1 DEF Judged
  <2>3. Judged(k)'
    BY <1>1, <1>8, <2>1, <2>2 DEF Lock, Judged, Sound, engineVars
  <2> QED  BY <1>1, <1>8, <2>1, <2>3, JudgedAlone DEF Lock, EngineKept, engineVars
<1>9. CASE Prompt(k)
  <2>1. PICK reply \in {"assistant", "error"} :
            chat' = [chat EXCEPT ![k].pc = "tally", ![k].reply = reply]
    BY <1>9 DEF Prompt
  <2>2. /\ chat[k].pc = "prompt" /\ Others(k) /\ chat'[k].pc = "tally"
        /\ chat'[k].mock = chat[k].mock /\ chat'[k].used = chat[k].used /\ chat[k].used # "nil"
    BY <1>1, <1>9, <2>1 DEF Prompt, Chat, Others
  <2>3. Judged(k)'
    BY <1>1, <1>9, <2>2 DEF Prompt, Judged, Sound, engineVars
  <2> QED  BY <1>1, <1>9, <2>2, <2>3, JudgedAlone DEF Prompt, EngineKept, engineVars
<1>10. CASE PromptPanics(k)
  BY <1>1, <1>10, EndJudged, JudgedAlone DEF PromptPanics, EngineKept, engineVars
<1>11. CASE Tally(k)
  <2> DEFINE mock == chat[k].reply = "assistant" /\ engName = "mock"
  <2>1. chat' = [chat EXCEPT ![k].pc = "say", ![k].line = MessageIndex(k) + 1, ![k].mock = mock]
    BY <1>11 DEF Tally
  <2>2. /\ chat[k].pc = "tally" /\ Others(k) /\ chat'[k].pc = "say"
        /\ chat'[k].mock = mock /\ chat'[k].used = chat[k].used
    BY <1>1, <1>11, <2>1 DEF Tally, Chat, Others
  <2>3. chat[k].used \in {"mock", "qwenpaw"} /\ (chat[k].used = "qwenpaw" => eng = "qwenpaw")
    BY <1>1, <2>2 DEF Judged, Chat, Engines
  <2>4. mock => chat[k].used = "mock"
    BY <1>1, <2>3
  <2>5. Judged(k)'
    BY <1>1, <1>11, <2>2, <2>3, <2>4 DEF Tally, Judged, Sound, engineVars
  <2> QED  BY <1>1, <1>11, <2>2, <2>5, JudgedAlone DEF Tally, EngineKept, engineVars
<1>12. CASE Say(k)
  <2>1. chat[k].pc = "say" /\ UNCHANGED <<eng, engName, engBase, probe>>
    BY <1>12 DEF Say, engineVars
  <2>2. CASE End(k, "failed")
    BY <1>1, <2>1, <2>2, EndJudged, JudgedAlone DEF EngineKept
  <2>3. ASSUME NEW lost \in BOOLEAN,
               chat' = [chat EXCEPT ![k].pc = "done", ![k].result = "answered",
                                    ![k].lost = lost, ![k].line = 0]
        PROVE  MockInv'
    <3>1. /\ Others(k) /\ chat'[k].pc = "done"
          /\ chat'[k].mock = chat[k].mock /\ chat'[k].used = chat[k].used
      BY <1>1, <2>3 DEF Chat, Others
    <3>2. Judged(k)'
      BY <1>1, <3>1 DEF Judged
    <3> QED  BY <1>1, <2>1, <3>1, <3>2, JudgedAlone DEF EngineKept
  <2> QED  BY <1>12, <2>2, <2>3 DEF Say
<1> QED  BY <1>2, <1>3, <1>4, <1>5, <1>6, <1>7, <1>8, <1>9, <1>10, <1>11, <1>12 DEF Step

LEMMA MockStep == IndexInv /\ MockInv /\ [Next]_vars => MockInv'
<1> SUFFICES ASSUME IndexInv, MockInv, [Next]_vars PROVE MockInv'
  OBVIOUS
<1>1. CASE \E k \in Chats : Receive(k) \/ Step(k)
  BY <1>1, MockChatStep
<1>2. CASE Health
  BY <1>2 DEF Health, Version, chatVars, MockInv, Judged, Sound
<1>3. CASE AgentRestart
  <2>1. \A k \in Chats : ~Ended(k, "cut").mock /\ Ended(k, "cut").pc = "done"
    BY DEF Ended, NewChat
  <2>2. \A k \in Chats : /\ chat'[k].pc \in {"new", "done"}
                         /\ chat'[k].mock => chat'[k].pc = "done" /\ chat'[k].used = "mock"
    BY <1>3, <2>1 DEF AgentRestart, MockInv, Judged
  <2>3. engName' = "mock" => eng' # "qwenpaw"
    BY <1>3 DEF AgentRestart, Built, Fallback
  <2>4. ASSUME NEW k \in Chats PROVE Judged(k)'
    <3>1. chat'[k].pc \in {"new", "done"}
      BY <2>2
    <3>2. chat'[k].mock => chat'[k].pc = "done" /\ chat'[k].used = "mock"
      BY <2>2
    <3> QED  BY <3>1, <3>2 DEF Judged
  <2> QED  BY <2>3, <2>4 DEF MockInv
<1>4. CASE UNCHANGED <<eng, engName, engBase, probe, chat>>
  BY <1>4 DEF MockInv, Judged, Sound
<1>5. ASSUME Next, ~\E k \in Chats : Receive(k) \/ Step(k), ~Health, ~AgentRestart
      PROVE  UNCHANGED <<eng, engName, engBase, probe, chat>>
  BY <1>5 DEF Next, NewSession, SetConfig, engineVars, chatVars
<1>6. CASE UNCHANGED vars
  BY <1>4, <1>6 DEF vars, engineVars, chatVars
<1> QED  BY <1>1, <1>2, <1>3, <1>4, <1>5, <1>6

(* A reply that is announced as a mock reply was made by the mock engine,  *)
(* for any number of overlapping chats and any restarts: once qwenpaw has  *)
(* passed Ready for one chat it passes for all, so it is never replaced    *)
(* under a chat that uses it.                                              *)
THEOREM MockFlagTrue == Spec => []MockFlagMeansMock
<1>1. MockInv => MockFlagMeansMock
  BY DEF MockInv, Judged, MockFlagMeansMock
<1> QED  BY <1>1, MockInit, MockStep, IndexInvHolds, PTL DEF Spec

-------------------------------------------------------------------------------
(* Answered chats are in the log.  From the moment its question is written *)
(* a chat has it in the log, under its key and the index it remembers; no  *)
(* step, of whatever chat, takes an entry out again.                       *)
Question(k, p) ==
    log[p] = [chat |-> k, role |-> "user", key |-> chat[k].key, index |-> chat[k].index]

Asked(k) == \E p \in DOMAIN log : Question(k, p)

Answered(k) ==
    \E p \in DOMAIN log :
        /\ Question(k, p)
        /\ \/ chat[k].lost
           \/ \E q \in DOMAIN log :
                /\ p < q /\ log[q].chat = k /\ log[q].role = "assistant"
                /\ log[q].key = log[p].key

Logged(k) ==
    /\ Phase(chat[k].pc) = "asked" => Asked(k)
    /\ chat[k].result = "answered" => chat[k].pc = "done" /\ Answered(k)

LoggedInv == \A k \in Chats : Logged(k)

LogGrows == \A p \in DOMAIN log : p \in DOMAIN log' /\ log'[p] = log[p]

LEMMA LogKept == log' = log => LogGrows
  BY DEF LogGrows

LEMMA EntryAppended ==
    ASSUME IndexInv, NEW k \in Chats, chat[k].pc \in {"ask", "say"},
           NEW role \in {"user", "assistant", "error"}, AppendEntry(k, role)
    PROVE  /\ LogGrows /\ Len(log) + 1 \in DOMAIN log'
           /\ log'[Len(log) + 1] =
                 [chat |-> k, role |-> role, key |-> chat[k].key, index |-> chat[k].line]
<1> DEFINE e == [chat |-> k, role |-> role, key |-> chat[k].key, index |-> chat[k].line]
<1>1. log \in Seq(Entry) /\ chat[k] \in Chat
  BY DEF IndexInv, LogTyped, ChatTyped
<1>2. chat[k].began \in Nat /\ chat[k].line \in Nat /\ chat[k].key \in Keys
  BY <1>1 DEF Chat
<1>3. chat[k].began < chat[k].line
  BY DEF IndexInv, Counting
<1>4. chat[k].line \in Nat \ {0}
  BY <1>2, <1>3
<1>5. e \in Entry
  BY <1>2, <1>4 DEF Entry
<1>6. log' = Append(log, e)
  BY DEF AppendEntry
<1> HIDE DEF e
<1>7. /\ Len(log) \in Nat /\ DOMAIN log = 1 .. Len(log)
      /\ DOMAIN log' = 1 .. (Len(log) + 1)
      /\ \A p \in 1 .. Len(log) : log'[p] = log[p]
      /\ log'[Len(log) + 1] = e
  BY <1>1, <1>5, <1>6, AppendedTo
<1>8. LogGrows
  BY <1>7 DEF LogGrows
<1>9. Len(log) + 1 \in DOMAIN log'
  BY <1>7
<1> QED  BY <1>7, <1>8, <1>9 DEF e

(* A question stays in the log. *)
LEMMA AskedKept ==
    ASSUME LogGrows, NEW k \in Chats, Asked(k),
           chat'[k].key = chat[k].key, chat'[k].index = chat[k].index
    PROVE  Asked(k)'
<1>1. PICK p \in DOMAIN log : Question(k, p)
  BY DEF Asked
<1>2. p \in DOMAIN log' /\ Question(k, p)'
  BY <1>1 DEF LogGrows, Question
<1> QED  BY <1>2 DEF Asked

LEMMA AnsweredKept ==
    ASSUME LogGrows, NEW k \in Chats, Answered(k), chat'[k] = chat[k]
    PROVE  Answered(k)'
<1>1. PICK p \in DOMAIN log :
         /\ Question(k, p)
         /\ \/ chat[k].lost
            \/ \E q \in DOMAIN log :
                 /\ p < q /\ log[q].chat = k /\ log[q].role = "assistant"
                 /\ log[q].key = log[p].key
  BY DEF Answered
<1>2. p \in DOMAIN log' /\ Question(k, p)' /\ log'[p] = log[p]
  BY <1>1 DEF LogGrows, Question
<1>3. CASE chat[k].lost
  BY <1>2, <1>3 DEF Answered
<1>4. CASE \E q \in DOMAIN log :
              /\ p < q /\ log[q].chat = k /\ log[q].role = "assistant"
              /\ log[q].key = log[p].key
  <2>1. PICK q \in DOMAIN log :
              /\ p < q /\ log[q].chat = k /\ log[q].role = "assistant"
              /\ log[q].key = log[p].key
    BY <1>4
  <2>2. q \in DOMAIN log' /\ log'[q] = log[q]
    BY DEF LogGrows
  <2> QED  BY <1>2, <2>1, <2>2 DEF Answered
<1> QED  BY <1>1, <1>3, <1>4

(* A step of chat k, and a chat that ends without an answer. *)
LEMMA LoggedOthers ==
    ASSUME LoggedInv, LogGrows, NEW k \in Chats, Others(k), Logged(k)'
    PROVE  LoggedInv'
<1>1. ASSUME NEW j \in Chats \ {k} PROVE Logged(j)'
  <2>1. chat'[j] = chat[j] /\ Logged(j)
    BY DEF Others, LoggedInv
  <2> QED  BY <2>1, AskedKept, AnsweredKept DEF Logged
<1> QED  BY <1>1 DEF LoggedInv

LEMMA LoggedEnd ==
    ASSUME ChatTyped, LoggedInv, LogGrows, NEW k \in Chats,
           NEW r \in Results \ {"answered"}, End(k, r)
    PROVE  LoggedInv'
<1>1. chat' = [chat EXCEPT ![k] = Ended(k, r)]
  BY DEF End
<1>2. Ended(k, r).pc = "done" /\ Ended(k, r).result = r
  BY DEF Ended, NewChat
<1> HIDE DEF Ended
<1>3. chat'[k] = Ended(k, r) /\ Others(k)
  BY <1>1 DEF ChatTyped, Others
<1>4. Logged(k)'
  BY <1>2, <1>3 DEF Logged, Phase
<1> QED  BY <1>3, <1>4, LoggedOthers

(* A step of k that writes nothing and changes neither key nor index. *)
LEMMA LoggedQuiet ==
    ASSUME ChatTyped, LoggedInv, log' = log, NEW k \in Chats,
           NEW c, chat' = [chat EXCEPT ![k] = c],
           c.pc # "done", c.result = chat[k].result, chat[k].pc # "done",
           Phase(c.pc) = "asked" =>
              Phase(chat[k].pc) = "asked" /\ c.key = chat[k].key /\ c.index = chat[k].index
    PROVE  LoggedInv'
<1>1. chat'[k] = c /\ Others(k) /\ LogGrows
  BY LogKept DEF ChatTyped, Others
<1>2. Logged(k)'
  BY <1>1, AskedKept DEF LoggedInv, Logged
<1> QED  BY <1>1, <1>2, LoggedOthers

LEMMA LoggedChatStep ==
    ASSUME IndexInv, LoggedInv, NEW k \in Chats, Receive(k) \/ Step(k)
    PROVE  LoggedInv'
<1>1. ChatTyped /\ chat \in [Chats -> Chat] /\ chat[k] \in Chat /\ Logged(k)
  BY DEF IndexInv, ChatTyped, LoggedInv
<1>2. CASE Receive(k)
  <2>1. PICK key, n : chat' = [chat EXCEPT ![k].pc = "count", ![k].began = n, ![k].key = key]
    BY <1>2 DEF Receive
  <2> DEFINE c == [chat[k] EXCEPT !.pc = "count", !.began = n, !.key = key]
  <2>2. /\ chat' = [chat EXCEPT ![k] = c] /\ log' = log /\ chat[k].pc = "new"
        /\ c.pc = "count" /\ c.result = chat[k].result
    BY <1>1, <1>2, <2>1 DEF Receive, Chat
  <2> HIDE DEF c
  <2> QED  BY <1>1, <2>2, LoggedQuiet DEF Phase
<1>3. CASE CountLines(k)
  <2> DEFINE c == [chat[k] EXCEPT !.pc = "ask", !.line = MessageIndex(k) + 1]
  <2>1. /\ chat' = [chat EXCEPT ![k] = c] /\ log' = log /\ chat[k].pc = "count"
        /\ c.pc = "ask" /\ c.result = chat[k].result
    BY <1>1, <1>3 DEF CountLines, Chat
  <2> HIDE DEF c
  <2> QED  BY <1>1, <2>1, LoggedQuiet DEF Phase
<1>4. CASE Ask(k)
  <2>1. chat[k].pc = "ask"
    BY <1>4 DEF Ask
  <2>2. CASE End(k, "failed") /\ UNCHANGED log
    BY <1>1, <2>2, LoggedEnd, LogKept DEF Results
  <2>3. CASE AppendEntry(k, "user")
             /\ chat' = [chat EXCEPT ![k].pc = "ready", ![k].index = chat[k].line, ![k].line = 0]
    <3>1. /\ chat'[k].pc = "ready" /\ chat'[k].index = chat[k].line /\ chat'[k].key = chat[k].key
          /\ chat'[k].result = chat[k].result /\ Others(k)
      BY <1>1, <2>3 DEF Chat, Others
    <3>2. /\ LogGrows /\ Len(log) + 1 \in DOMAIN log'
          /\ log'[Len(log) + 1] = [chat |-> k, role |-> "user", key |-> chat[k].key, index |-> chat[k].line]
      BY <2>1, <2>3, EntryAppended
    <3>3. Asked(k)'
      BY <3>1, <3>2 DEF Asked, Question
    <3>4. chat[k].result # "answered"
      BY <1>1, <2>1 DEF Logged
    <3>5. Logged(k)'
      BY <3>1, <3>3, <3>4 DEF Logged
    <3> QED  BY <3>1, <3>2, <3>5, LoggedOthers
  <2> QED  BY <1>4, <2>2, <2>3 DEF Ask
<1>5. CASE CheckReady(k) \/ ReplaceEngine(k) \/ RenameEngine(k)
  <2>1. log' = log /\ chat[k].pc \in {"ready", "unready", "rename"}
    BY <1>5 DEF CheckReady, ReplaceEngine, RenameEngine
  <2>2. End(k, "panic") \/ \E pc \in {"lock", "unready", "rename"} : Goto(k, pc)
    BY <1>5 DEF CheckReady, ReplaceEngine, RenameEngine
  <2>3. CASE End(k, "panic")
    BY <1>1, <2>1, <2>3, LoggedEnd, LogKept DEF Results
  <2>4. ASSUME NEW pc \in {"lock", "unready", "rename"}, Goto(k, pc) PROVE LoggedInv'
    <3> DEFINE c == [chat[k] EXCEPT !.pc = pc]
    <3>1. /\ chat' = [chat EXCEPT ![k] = c] /\ c.pc = pc /\ c.result = chat[k].result
          /\ c.key = chat[k].key /\ c.index = chat[k].index
      BY <1>1, <2>4 DEF Goto, Chat
    <3> HIDE DEF c
    <3> QED  BY <1>1, <2>1, <3>1, LoggedQuiet DEF Phase
  <2> QED  BY <2>2, <2>3, <2>4
<1>6. CASE Lock(k)
  <2> DEFINE c == [chat[k] EXCEPT !.pc = "prompt", !.used = eng]
  <2>1. /\ chat' = [chat EXCEPT ![k] = c] /\ log' = log /\ chat[k].pc = "lock"
        /\ c.pc = "prompt" /\ c.result = chat[k].result
        /\ c.key = chat[k].key /\ c.index = chat[k].index
    BY <1>1, <1>6 DEF Lock, Chat
  <2> HIDE DEF c
  <2> QED  BY <1>1, <2>1, LoggedQuiet DEF Phase
<1>7. CASE Prompt(k)
  <2>1. PICK reply \in {"assistant", "error"} :
            chat' = [chat EXCEPT ![k].pc = "tally", ![k].reply = reply]
    BY <1>7 DEF Prompt
  <2> DEFINE c == [chat[k] EXCEPT !.pc = "tally", !.reply = reply]
  <2>2. /\ chat' = [chat EXCEPT ![k] = c] /\ log' = log /\ chat[k].pc = "prompt"
        /\ c.pc = "tally" /\ c.result = chat[k].result
        /\ c.key = chat[k].key /\ c.index = chat[k].index
    BY <1>1, <1>7, <2>1 DEF Prompt, Chat
  <2> HIDE DEF c
  <2> QED  BY <1>1, <2>2, LoggedQuiet DEF Phase
<1>8. CASE PromptPanics(k)
  BY <1>1, <1>8, LoggedEnd, LogKept DEF PromptPanics, Results
<1>9. CASE Tally(k)
  <2> DEFINE mock == chat[k].reply = "assistant" /\ engName = "mock"
  <2> DEFINE c == [chat[k] EXCEPT !.pc = "say", !.line = MessageIndex(k) + 1, !.mock = mock]
  <2>1. chat' = [chat EXCEPT ![k] = c] /\ log' = log /\ chat[k].pc = "tally"
    BY <1>1, <1>9 DEF Tally
  <2>2. /\ c.pc = "say" /\ c.result = chat[k].result
        /\ c.key = chat[k].key /\ c.index = chat[k].index
    BY <1>1 DEF Chat
  <2> HIDE DEF c
  <2> QED  BY <1>1, <2>1, <2>2, LoggedQuiet DEF Phase
<1>10. CASE Say(k)
  <2>1. chat[k].pc = "say" /\ chat[k].reply \in {"assistant", "error"} /\ Asked(k)
    BY <1>1, <1>10 DEF Say, IndexInv, Replied, Chat, Logged, Phase
  <2>2. PICK lost \in BOOLEAN :
            /\ IF lost THEN UNCHANGED log ELSE AppendEntry(k, chat[k].reply)
            /\ IF chat[k].reply = "error" THEN End(k, "failed")
               ELSE chat' = [chat EXCEPT ![k].pc = "done", ![k].result = "answered",
                                         ![k].lost = lost, ![k].line = 0]
    BY <1>10 DEF Say
  <2>3. LogGrows
    BY <2>1, <2>2, LogKept, EntryAppended
  <2>4. CASE chat[k].reply = "error"
    BY <1>1, <2>2, <2>3, <2>4, LoggedEnd DEF Results
  <2>5. CASE chat[k].reply = "assistant"
    <3>1. /\ chat'[k].pc = "done" /\ chat'[k].lost = lost /\ Others(k)
          /\ chat'[k].key = chat[k].key /\ chat'[k].index = chat[k].index
      BY <1>1, <2>2, <2>5 DEF Chat, Others
    <3>2. PICK p \in DOMAIN log : Question(k, p)
      BY <2>1 DEF Asked
    <3>3. p \in DOMAIN log' /\ log'[p] = log[p] /\ Question(k, p)' /\ log[p].key = chat[k].key
      BY <2>3, <3>1, <3>2 DEF LogGrows, Question
    <3>4. p < Len(log) + 1
      BY <1>1, <3>2 DEF IndexInv, LogTyped
    <3>5. \/ chat'[k].lost
          \/ \E q \in DOMAIN log' :
                /\ p < q /\ log'[q].chat = k /\ log'[q].role = "assistant"
                /\ log'[q].key = log'[p].key
      <4>1. CASE lost = TRUE
        BY <3>1, <4>1
      <4>2. CASE lost = FALSE
        <5>1. AppendEntry(k, "assistant")
          BY <2>2, <2>5, <4>2
        <5>2. /\ Len(log) + 1 \in DOMAIN log'
              /\ log'[Len(log) + 1] =
                    [chat |-> k, role |-> "assistant", key |-> chat[k].key, index |-> chat[k].line]
          BY <2>1, <5>1, EntryAppended
        <5>3. /\ log'[Len(log) + 1].chat = k /\ log'[Len(log) + 1].role = "assistant"
              /\ log'[Len(log) + 1].key = log'[p].key
          BY <3>3, <5>2
        <5> QED  BY <3>4, <5>2, <5>3
      <4> QED  BY <4>1, <4>2
    <3>6. Answered(k)'
      BY <3>3, <3>5 DEF Answered
    <3>7. Logged(k)'
      BY <3>1, <3>6 DEF Logged, Phase
    <3> QED  BY <2>3, <3>1, <3>7, LoggedOthers
  <2> QED  BY <2>1, <2>4, <2>5
<1> QED  BY <1>2, <1>3, <1>4, <1>5, <1>6, <1>7, <1>8, <1>9, <1>10 DEF Step

LEMMA LoggedStep == IndexInv /\ LoggedInv /\ [Next]_vars => LoggedInv'
<1> SUFFICES ASSUME IndexInv, LoggedInv, [Next]_vars PROVE LoggedInv'
  OBVIOUS
<1>1. CASE \E k \in Chats : Receive(k) \/ Step(k)
  BY <1>1, LoggedChatStep
<1>2. CASE AgentRestart
  <2>1. \A k \in Chats : Ended(k, "cut").result = "cut" /\ Ended(k, "cut").pc = "done"
    BY DEF Ended, NewChat
  <2>2. LogGrows /\ \A k \in Chats :
           chat'[k] = chat[k] \/ (chat'[k].pc = "done" /\ chat'[k].result = "cut")
    BY <1>2, <2>1, LogKept DEF AgentRestart
  <2>3. ASSUME NEW k \in Chats, chat'[k] = chat[k] PROVE Logged(k)'
    BY <2>2, <2>3, AskedKept, AnsweredKept DEF LoggedInv, Logged
  <2>4. ASSUME NEW k \in Chats, chat'[k].pc = "done", chat'[k].result = "cut" PROVE Logged(k)'
    BY <2>4 DEF Logged, Phase
  <2> QED  BY <2>2, <2>3, <2>4 DEF LoggedInv
<1>3. CASE UNCHANGED <<chat, log>>
  BY <1>3 DEF LoggedInv, Logged, Asked, Answered, Question
<1>4. ASSUME Next, ~\E k \in Chats : Receive(k) \/ Step(k), ~AgentRestart
      PROVE  UNCHANGED <<chat, log>>
  BY <1>4 DEF Next, Health, NewSession, SetConfig, chatVars
<1> QED  BY <1>1, <1>2, <1>3, <1>4 DEF vars, chatVars

(* Whoever gets a reply finds the question in the log, under the index he  *)
(* was told, and after it, in the same session, the reply, unless it could *)
(* not be written: for any number of overlapping chats and any restarts.   *)
THEOREM AnswersAreLogged == Spec => []ChatIsLogged
<1>1. Init => LoggedInv
  BY DEF Init, NewChat, LoggedInv, Logged, Phase
<1>2. LoggedInv => ChatIsLogged
  BY DEF LoggedInv, Logged, Answered, Question, ChatIsLogged
<1> QED  BY <1>1, <1>2, LoggedStep, IndexInvHolds, PTL DEF Spec

-------------------------------------------------------------------------------
(* The conversation log is a Transcript, for any number of chats.          *)

Line == [chat : Chats, role : {"user", "assistant", "error"}, key : Keys]

LEMMA ToldType ==
    ASSUME log \in Seq(Entry)
    PROVE  Told \in Seq(Line) /\ Len(Told) = Len(log) /\ DOMAIN Told = 1..Len(log)
<1>1. /\ Len(log) \in Nat /\ DOMAIN log = 1..Len(log)
      /\ \A p \in 1..Len(log) : log[p] \in Entry
  OBVIOUS
<1>2. Told \in [1..Len(log) -> Line]
  BY <1>1 DEF Told, Entry, Line
<1> QED  BY <1>1, <1>2

(* An appended entry is an appended line. *)
LEMMA ToldAppend ==
    ASSUME log \in Seq(Entry), NEW k \in Chats, NEW role \in {"user", "assistant", "error"},
           log' \in Seq(Entry), chat[k].key \in Keys, AppendEntry(k, role)
    PROVE  Told' = Append(Told, [chat |-> k, role |-> role, key |-> chat[k].key])
<1> DEFINE x == [chat |-> k, role |-> role, key |-> chat[k].key]
           e == [chat |-> k, role |-> role, key |-> chat[k].key, index |-> chat[k].line]
<1>1. log' = Append(log, e)
  BY DEF AppendEntry
<1>2. /\ Len(log) \in Nat /\ DOMAIN log' = 1..(Len(log) + 1)
      /\ \A p \in 1..Len(log) : log'[p] = log[p]
      /\ log'[Len(log) + 1] = e
  <2> HIDE DEF e
  <2> QED  BY <1>1
<1>3. Told' = [p \in 1..(Len(log) + 1) |->
                  [chat |-> log'[p].chat, role |-> log'[p].role, key |-> log'[p].key]]
  BY <1>2 DEF Told
<1>4. \A p \in 1..Len(log) : Told'[p] = Told[p]
  BY <1>2, <1>3, ToldType DEF Told
<1>5. Told'[Len(log) + 1] = x
  BY <1>2, <1>3
<1>6. x \in Line
  BY DEF Line
<1> HIDE DEF x
<1>7. Told \in Seq(Line) /\ Len(Told) = Len(log)
  BY ToldType
<1>8. /\ Append(Told, x) \in Seq(Line) /\ Len(Append(Told, x)) = Len(log) + 1
      /\ \A p \in 1..(Len(log) + 1) : Append(Told, x)[p] = IF p <= Len(log) THEN Told[p] ELSE x
  BY <1>2, <1>6, <1>7, AppendProperties
<1>9. Told' \in Seq(Line) /\ Len(Told') = Len(log) + 1
  <2>1. \A p \in 1..(Len(log) + 1) : log'[p] \in Entry
    BY <1>2
  <2>2. Told' \in [1..(Len(log) + 1) -> Line]
    BY <1>3, <2>1 DEF Entry, Line
  <2> QED  BY <1>2, <2>2
<1>10. \A p \in 1..(Len(log) + 1) : Told'[p] = Append(Told, x)[p]
  BY <1>2, <1>4, <1>5, <1>8
<1>11. Told' = Append(Told, x)
  BY <1>2, <1>8, <1>9, <1>10, SeqEqual
<1> QED  BY <1>11 DEF x

-------------------------------------------------------------------------------
(* A step of a chat, by what it does to the log, and a step of Transcript. *)
LEMMA ProgressOf ==
    ASSUME chat \in [Chats -> Chat], NEW k \in Chats, NEW c \in Chat,
           chat' = [chat EXCEPT ![k] = c], c.key = chat[k].key
    PROVE  /\ Progress' = [Progress EXCEPT ![k] = Phase(c.pc)]
           /\ Topics' = Topics
<1>1. \A j \in Chats : chat'[j] = IF j = k THEN c ELSE chat[j]
  OBVIOUS
<1>2. \A j \in Chats : chat'[j].key = chat[j].key
  BY <1>1
<1>3. \A j \in Chats : Phase(chat'[j].pc) = IF j = k THEN Phase(c.pc) ELSE Phase(chat[j].pc)
  BY <1>1
<1> QED  BY <1>2, <1>3 DEF Progress, Topics

LEMMA ShapeRefines ==
    ASSUME IndexInv, NEW k \in Chats, NEW c \in Chat, Shape(k, c), log' \in Seq(Entry)
    PROVE  [T!Next]_(T!vars)
<1> USE DEF IndexInv, Shape
<1>1. chat \in [Chats -> Chat] /\ log \in Seq(Entry) /\ chat[k].key \in Keys
  BY DEF ChatTyped, LogTyped, Chat
<1>2. Progress' = [Progress EXCEPT ![k] = Phase(c.pc)] /\ Topics' = Topics
  BY <1>1, ProgressOf
<1>3. Progress[k] = Phase(chat[k].pc) /\ Topics[k] = chat[k].key
      /\ Progress = [j \in Chats |-> Progress[j]]
  BY DEF Progress, Topics
<1>4. CASE log' = log /\ (c.pc = "done" \/ Phase(c.pc) = Phase(chat[k].pc))
  <2>1. Told' = Told
    BY <1>4 DEF Told
  <2>2. CASE Phase(c.pc) = Phase(chat[k].pc)
    <3>1. Progress' = Progress
      BY <1>2, <1>3, <2>2
    <3> QED  BY <1>2, <2>1, <3>1 DEF T!vars
  <2>3. CASE c.pc = "done"
    <3>1. Progress' = [j \in Chats |-> IF j \in {k} THEN "closed" ELSE Progress[j]]
      BY <1>2, <1>3, <2>3 DEF Phase
    <3>2. T!Close
      BY <1>2, <2>1, <3>1 DEF T!Close
    <3> QED  BY <3>2 DEF T!Next
  <2> QED  BY <1>4, <2>2, <2>3
<1>5. CASE chat[k].pc = "ask" /\ c.pc = "ready" /\ AppendEntry(k, "user")
  <2>1. Told' = Append(Told, [chat |-> k, role |-> "user", key |-> Topics[k]])
    BY <1>1, <1>3, <1>5, ToldAppend
  <2>2. Progress[k] = "new" /\ Progress' = [Progress EXCEPT ![k] = "asked"]
    BY <1>2, <1>3, <1>5 DEF Phase
  <2>3. T!Question(k)
    BY <1>2, <2>1, <2>2 DEF T!Question, T!Become, T!Write
  <2> QED  BY <2>3 DEF T!Next
<1>6. ASSUME chat[k].pc = "say", c.pc = "done",
             NEW role \in {"assistant", "error"}, AppendEntry(k, role)
      PROVE  [T!Next]_(T!vars)
  <2>1. Told' = Append(Told, [chat |-> k, role |-> role, key |-> Topics[k]])
    BY <1>1, <1>3, <1>6, ToldAppend
  <2>2. Progress[k] = "asked" /\ Progress' = [Progress EXCEPT ![k] = "closed"]
    BY <1>2, <1>3, <1>6 DEF Phase
  <2>3. T!Reply(k)
    BY <1>2, <2>1, <2>2 DEF T!Reply, T!Become, T!Write
  <2> QED  BY <2>3 DEF T!Next
<1> QED  BY <1>4, <1>5, <1>6

(* A chat that comes in settles on its session. *)
LEMMA ReceiveRefines ==
    ASSUME IndexInv, NEW k \in Chats, Receive(k)
    PROVE  [T!Next]_(T!vars)
<1>1. chat \in [Chats -> Chat] /\ log' = log /\ chat[k].pc = "new"
  BY DEF IndexInv, ChatTyped, Receive
<1>2. PICK key \in Keys :
          \E n : chat' = [chat EXCEPT ![k].pc = "count", ![k].began = n, ![k].key = key]
  <2>1. ActiveSession \in Keys
    BY DEF ActiveSession, IndexInv, EngineTyped, Keys
  <2>2. PICK hint \in Hints : chat' = [chat EXCEPT ![k].pc = "count", ![k].began = Len(log),
                                 ![k].key = IF hint = "" THEN ActiveSession ELSE hint]
    BY DEF Receive
  <2>3. (IF hint = "" THEN ActiveSession ELSE hint) \in Keys
    BY <2>1 DEF Keys
  <2> QED  BY <2>2, <2>3
<1>3. \A j \in Chats : /\ chat'[j].pc = IF j = k THEN "count" ELSE chat[j].pc
                       /\ chat'[j].key = IF j = k THEN key ELSE chat[j].key
  BY <1>1, <1>2 DEF Chat
<1>4. Progress' = Progress
  BY <1>1, <1>3 DEF Progress, Phase
<1>5. Topics' = [Topics EXCEPT ![k] = key] /\ Told' = Told
  BY <1>1, <1>3 DEF Topics, Told
<1>6. Progress[k] = "new"
  BY <1>1 DEF Progress, Phase
<1>7. T!Settle(k)
  BY <1>4, <1>5, <1>6 DEF T!Settle
<1> QED  BY <1>7 DEF T!Next

(* The end of the process closes the chats it cuts off. *)
LEMMA RestartRefines ==
    ASSUME IndexInv, AgentRestart
    PROVE  [T!Next]_(T!vars)
<1> DEFINE gone == {k \in Chats : chat[k].pc \notin {"new", "done"}}
<1>1. log' = log
      /\ chat' = [k \in Chats |-> IF chat[k].pc \in {"new", "done"} THEN chat[k]
                                  ELSE Ended(k, "cut")]
  BY DEF AgentRestart
<1>2. \A k \in Chats : Ended(k, "cut").pc = "done" /\ Ended(k, "cut").key = chat[k].key
  BY DEF Ended, NewChat
<1>3. Topics' = Topics /\ Told' = Told
  BY <1>1, <1>2 DEF Topics, Told
<1>4. Progress' = [k \in Chats |-> IF k \in gone THEN "closed" ELSE Progress[k]]
  BY <1>1, <1>2 DEF Progress, Phase
<1>5. gone \in SUBSET Chats
  OBVIOUS
<1>6. T!Close
  BY <1>3, <1>4, <1>5 DEF T!Close
<1> QED  BY <1>6 DEF T!Next

(* Every step of the agent is one of Transcript, or none. *)
LEMMA StepRefines == IndexInv /\ IndexInv' /\ [Next]_vars => [T!Next]_(T!vars)
<1> SUFFICES ASSUME IndexInv, IndexInv', [Next]_vars
             PROVE  [T!Next]_(T!vars)
  OBVIOUS
<1>1. log' \in Seq(Entry)
  BY DEF IndexInv, LogTyped
<1>2. ASSUME NEW k \in Chats, Step(k)
      PROVE  [T!Next]_(T!vars)
  BY <1>1, <1>2, StepShape, ShapeRefines
<1>3. CASE UNCHANGED <<chat, log>>
  BY <1>3 DEF T!vars, Progress, Topics, Told
<1>4. CASE Poll \/ EditFile \/ Health \/ NewSession \/ SetConfig \/ UNCHANGED vars
  <2>1. ASSUME Next, ~AgentRestart, ~\E k \in Chats : Receive(k) \/ Step(k)
        PROVE  UNCHANGED <<chat, log>>
    BY <2>1 DEF Next, Health, NewSession, SetConfig, chatVars
  <2>2. CASE UNCHANGED vars
    BY <1>3, <2>2 DEF vars, chatVars
  <2> QED  BY <1>2, <1>3, <2>1, <2>2, ReceiveRefines, RestartRefines
<1> QED  BY <1>2, <1>4, ReceiveRefines, RestartRefines DEF Next

(* Any number of chats, overlapping and cut off by restarts as they may,   *)
(* leave a log that is a Transcript.                                       *)
THEOREM LogIsTranscript == Spec => KeepsTranscript
<1>1. Init => T!Init
  <2> SUFFICES ASSUME Init PROVE T!Init
    OBVIOUS
  <2>1. chat = [k \in Chats |-> NewChat] /\ log = <<>>
    BY DEF Init
  <2>2. Progress = [k \in Chats |-> "new"]
    BY <2>1 DEF Progress, Phase, NewChat
  <2>3. Topics \in [Chats -> Keys]
    BY <2>1 DEF Topics, NewChat, Keys
  <2>4. Told = <<>>
    <3>1. Told \in Seq(Line) /\ Len(Told) = 0
      BY <2>1, ToldType
    <3> QED  BY <3>1
  <2> QED  BY <2>2, <2>3, <2>4 DEF T!Init
<1> QED  BY <1>1, IndexInvHolds, StepRefines, PTL DEF Spec, KeepsTranscript, T!Spec

-------------------------------------------------------------------------------
(* A client is shown the reply that is logged, for texts of any length (see *)
(* StreamedIsReturned for any number of chunks).                            *)
THEOREM StreamShowsReply == Spec => []StreamIsReply
<1>1. \A chunks \in Chunkings : chunks \in Seq(Text)
  <2>1. ASSUME NEW n \in 0..MaxText, NEW text \in [1..n -> Symbols], NEW chunks \in Cuts(text)
        PROVE  chunks \in Seq(Text)
    <3>1. text \in Text /\ Len(text) = n /\ n \in Nat
      BY MaxTextAssumption DEF Text
    <3>2. PICK a \in 0..n, b \in 0..n :
             /\ a <= b
             /\ chunks = <<SubSeq(text, 1, a), SubSeq(text, a + 1, b), SubSeq(text, b + 1, n)>>
      BY <3>1 DEF Cuts
    <3>3. \A i \in 1..n : text[i] \in Symbols
      OBVIOUS
    <3>4. SubSeq(text, 1, a) \in Text
      BY <3>1, <3>2, <3>3, SubSeqProperties DEF Text
    <3>5. SubSeq(text, a + 1, b) \in Text
      BY <3>1, <3>2, <3>3, SubSeqProperties DEF Text
    <3>6. SubSeq(text, b + 1, n) \in Text
      BY <3>1, <3>2, <3>3, SubSeqProperties DEF Text
    <3> HIDE DEF Text
    <3> QED
      BY <3>2, <3>4, <3>5, <3>6
  <2> QED
    BY <2>1 DEF Chunkings
<1>2. StreamIsReply
  BY <1>1, StreamedIsReturned DEF StreamIsReply
<1> QED
  BY <1>2, PTL
===============================================================================
