------------------------------- MODULE MCServer -------------------------------
(* Small instances of ControlServer for TLC. *)
EXTENDS ServerProperties, TLC

CONSTANTS u1, u2

(* All sessions belong to one user. *)
OneOwner == [c \in Conns |-> u1]
===============================================================================
