------------------------------ MODULE Transcript ------------------------------
(***************************************************************************)
(* What the conversation log of a workspace promises, as a specification   *)
(* of its own (README.md: the record survives suspension): the log only    *)
(* grows; a chat puts its question there once, and after it at most one    *)
(* reply, under the session key of the question.                           *)
(***************************************************************************)
EXTENDS Sequences

CONSTANTS Chats, Keys

VARIABLES
    state,       \* [Chats -> {"new", "asked", "closed"}]
    topic,       \* [Chats -> Keys]: the session key of the question
    history      \* Seq([chat, role, key])

vars == <<state, topic, history>>

Init ==
    /\ state = [k \in Chats |-> "new"]
    /\ topic \in [Chats -> Keys]
    /\ history = <<>>

Become(k, s) == state' = [state EXCEPT ![k] = s]

Write(k, role) == history' = Append(history, [chat |-> k, role |-> role, key |-> topic[k]])

(* A request comes in and settles on a session. *)
Settle(k) ==
    /\ state[k] = "new"
    /\ \E key \in Keys : topic' = [topic EXCEPT ![k] = key]
    /\ UNCHANGED <<state, history>>

Question(k) ==
    /\ state[k] = "new" /\ Become(k, "asked")
    /\ Write(k, "user")
    /\ UNCHANGED topic

Reply(k) ==
    /\ state[k] = "asked" /\ Become(k, "closed")
    /\ \E role \in {"assistant", "error"} : Write(k, role)
    /\ UNCHANGED topic

(* The chat ends without another word in the log: any number of them when  *)
(* the process ends.                                                       *)
Close ==
    /\ \E gone \in SUBSET Chats :
          state' = [k \in Chats |-> IF k \in gone THEN "closed" ELSE state[k]]
    /\ UNCHANGED <<topic, history>>

Next == Close \/ \E k \in Chats : Settle(k) \/ Question(k) \/ Reply(k)

Spec == Init /\ [][Next]_vars
===============================================================================
