---------------------------- MODULE MCConversation ----------------------------
(* Small instances of AgentSession for TLC. *)
EXTENDS ConversationProperties, TLC

(* A complete configuration of a real model. *)
RealUpdates == {[base |-> "real", model |-> "m1"]}
===============================================================================
