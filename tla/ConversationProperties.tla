------------------------ MODULE ConversationProperties ------------------------
(***************************************************************************)
(* What must be true of AgentSession.                                      *)
(***************************************************************************)
EXTENDS AgentSession, HeadlineFilter

(* Every variable has its type. *)
TypeOK ==
    /\ cfg \in Config /\ file \in Updates \cup {NoFile}
    /\ linked \subseteq Engines
    /\ eng \in Engines \cup {"nil"} /\ engName \in Engines
    /\ engBase \in Bases /\ probe \in {"unknown", "ok", "bad"}
    /\ active \in Keys
    /\ promptMu \in Chats \cup {NoChat}
    /\ chat \in [Chats -> Chat]
    /\ log \in Seq(Entry)

(* The indices in the log say what came after what, although they are      *)
(* counted and written without a lock and repeat themselves among chats    *)
(* that overlap: every entry of a chat has a greater index than anything   *)
(* logged before the chat came in, also across restarts of the agent       *)
(* (session.go:82, README.md: message numbers continue after a wake-up).   *)
IndexGrows ==
    \A p, q \in DOMAIN log :
        p <= chat[log[q].chat].began => log[p].index < log[q].index

(* A client that gets a reply finds, under the index he was told, his      *)
(* question, and after it the reply, in one session of the history - also  *)
(* if a new session was opened while he waited - unless the disk failed.   *)
ChatIsLogged ==
    \A k \in Chats : chat[k].result = "answered" =>
        \E p \in DOMAIN log :
            /\ log[p] = [chat |-> k, role |-> "user", key |-> chat[k].key, index |-> chat[k].index]
            /\ \/ chat[k].lost
               \/ \E q \in DOMAIN log :
                    /\ p < q /\ log[q].chat = k /\ log[q].role = "assistant"
                    /\ log[q].key = log[p].key

(* A reply that is announced as a mock reply was made by the mock engine,  *)
(* although name and engine are replaced by other chats meanwhile, without *)
(* a lock.  It rests on Ready giving every chat the same answer: the       *)
(* engine's configuration is a copy and the version is probed once.  (A    *)
(* reply of the mock engine may be announced as real: the race at          *)
(* session.go:124.)                                                        *)
MockFlagMeansMock ==
    \A k \in Chats : chat[k].result = "answered" /\ chat[k].mock => chat[k].used = "mock"

(* A chat, its session and the log as Transcript sees them. *)
Phase(pc) == IF pc \in {"new", "count", "ask"} THEN "new" ELSE IF pc = "done" THEN "closed" ELSE "asked"

Progress == [k \in Chats |-> Phase(chat[k].pc)]
Topics == [k \in Chats |-> chat[k].key]
Told == [p \in DOMAIN log |-> [chat |-> log[p].chat, role |-> log[p].role, key |-> log[p].key]]

T == INSTANCE Transcript WITH
        Chats <- Chats, Keys <- Keys, state <- Progress, topic <- Topics, history <- Told

(* The conversation log is a Transcript: it only grows, each chat adds its *)
(* question once and then at most one reply, in the session it settled on, *)
(* whatever the disk, the engine and other chats do (session.go:82-155).   *)
KeepsTranscript == T!Spec

(* A client is shown the reply that is logged and returned, wherever the   *)
(* kernel cuts it into chunks: neither a headline that arrives in pieces   *)
(* nor one that the reply ends with gets through, and nothing else is held *)
(* back (headline.go, qwenpaw/engine.go:131-184).  Which texts a chat may  *)
(* get does not depend on what happens before: they are all tried where it *)
(* all begins.                                                             *)
StreamIsReply == Init => \A chunks \in Chunkings : Streamed(chunks) = Returned(chunks)

(* Every chat comes to an end: an answer, an error, a panic or the end of  *)
(* the process - if the engine answers, and if the program does not link   *)
(* the kernel's engine without the mock engine: then the first chat that   *)
(* needs the fallback panics with promptMu held, and all others hang.      *)
ChatEnds ==
    \A k \in Chats :
        linked # {"qwenpaw"} /\ chat[k].pc # "new" ~> chat[k].pc = "done"
===============================================================================
