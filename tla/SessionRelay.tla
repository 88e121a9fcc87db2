----------------------------- MODULE SessionRelay -----------------------------
(***************************************************************************)
(* A WebSocket session of a client with its agent crosses two relays of    *)
(* the same make: handleSessionWS of the control plane ("admin"), which    *)
(* counts it, and handleWSRelay of the gateway.  In each, a loop carries   *)
(* messages towards the agent and a goroutine, the pump, carries them      *)
(* back; the handler returns when both have ended.  Messages have no       *)
(* content here; toGateway says that some are under way to the gateway.    *)
(***************************************************************************)
EXTENDS ActivityTable, FiniteSets

CONSTANTS
    Conns,           \* sessions that may exist at one time
    Owner            \* [Conns -> Users]

ASSUME OwnerAssumption == Owner \in [Conns -> Users] /\ IsFiniteSet(Conns)

VARIABLES
    status,          \* [Users -> ...]: the recorded status, see InstanceLifecycle
    sess,            \* [Conns -> Session]
    wsManager        \* [Users -> Nat]: Server.wsManager

relayVars == <<activity, sess, wsManager>>

(* read: the loop reads, and passes on what it has read.  wait: the loop    *)
(* has ended and waits for the pump.                                       *)
Labels == {"none", "dial", "read", "wait"}

Session == [client : BOOLEAN, admin : Labels, adminPump : BOOLEAN, toGateway : BOOLEAN,
            gateway : Labels, gatewayPump : BOOLEAN, agent : {"none", "reading", "working"}]

NoSession == [client |-> FALSE, admin |-> "none", adminPump |-> FALSE, toGateway |-> FALSE,
              gateway |-> "none", gatewayPump |-> FALSE, agent |-> "none"]

RelayInit ==
    /\ sess = [c \in Conns |-> NoSession]
    /\ wsManager = [u \in Users |-> 0]

Become(c, s) == sess' = [sess EXCEPT ![c] = s]

(* A step of the session that touches neither the count nor the activity.  *)
Move(c, s) == Become(c, s) /\ UNCHANGED <<activity, wsManager>>

(* Mutant: the store is told the change instead of the new count. *)
AddWSReportsChange(u, delta) ==
    LET n == IF wsManager[u] + delta <= 0 THEN 0 ELSE wsManager[u] + delta
    IN /\ wsManager' = [wsManager EXCEPT ![u] = n]
       /\ SetWSConnections(u, delta)

(* addWS, under wsMu: the new count is stored as an absolute value. *)
AddWS(u, delta) ==
    LET n == IF wsManager[u] + delta <= 0 THEN 0 ELSE wsManager[u] + delta
    IN /\ wsManager' = [wsManager EXCEPT ![u] = n]
       /\ SetWSConnections(u, n)

-------------------------------------------------------------------------------
(* The control plane's relay. *)

(* The instance must run; then the client's request is upgraded. *)
Connect(c) ==
    /\ sess[c] = NoSession
    /\ status[Owner[c]] = "running"
    /\ Move(c, [NoSession EXCEPT !.client = TRUE, !.admin = "dial"])

(* The gateway upgrades the connection before it dials the agent itself.   *)
(* The touch after addWS writes the time that addWS has just written.      *)
AdminDial(c) ==
    /\ sess[c].admin = "dial"
    /\ Become(c, [sess[c] EXCEPT !.admin = "read", !.adminPump = TRUE, !.gateway = "dial"])
    /\ AddWS(Owner[c], 1)

(* No route or no gateway: the handler reports it and returns. *)
AdminDialFails(c) ==
    /\ sess[c].admin = "dial"
    /\ Move(c, NoSession)

(* A message of the client is noted as activity, then written to the       *)
(* gateway.  Writing to a connection the other end has closed fails, or    *)
(* the message is lost unnoticed.                                          *)
AdminForward(c) ==
    /\ sess[c].admin = "read" /\ sess[c].client
    /\ \/ Become(c, [sess[c] EXCEPT !.toGateway = sess[c].gateway # "none"])
       \/ sess[c].gateway = "none" /\ Become(c, [sess[c] EXCEPT !.admin = "wait"])
    /\ TouchActivity(Owner[c])
    /\ UNCHANGED wsManager

(* Mutant: the loop just stops, without a close message for the gateway,   *)
(* and goes on waiting in its read.                                        *)
AdminReadFailsSilently(c) ==
    /\ sess[c].admin = "read" /\ ~sess[c].client
    /\ UNCHANGED <<activity, sess, wsManager>>

(* The client has gone: a close message is written towards the agent. *)
AdminReadFails(c) ==
    /\ sess[c].admin = "read" /\ ~sess[c].client
    /\ Move(c, [sess[c] EXCEPT !.admin = "wait"])

(* The pump ends when the gateway has closed, or when output of the agent  *)
(* finds no client.                                                        *)
AdminPumpEnds(c) ==
    /\ sess[c].adminPump
    /\ \/ sess[c].gateway = "none"
       \/ sess[c].agent = "working" /\ sess[c].gatewayPump /\ ~sess[c].client
    /\ Move(c, [sess[c] EXCEPT !.adminPump = FALSE])

(* Mutant: the handler returns without the deferred addWS. *)
AdminReturnUncounted(c) ==
    /\ sess[c].admin = "wait" /\ ~sess[c].adminPump
    /\ Move(c, [sess[c] EXCEPT !.admin = "none", !.client = FALSE])

(* The deferred calls: the session is no longer counted, both ends close.  *)
AdminReturn(c) ==
    /\ sess[c].admin = "wait" /\ ~sess[c].adminPump
    /\ Become(c, [sess[c] EXCEPT !.admin = "none", !.client = FALSE])
    /\ AddWS(Owner[c], -1)

-------------------------------------------------------------------------------
(* The gateway's relay. *)

GatewayDial(c) ==
    /\ sess[c].gateway = "dial" /\ status[Owner[c]] = "running"
    /\ Move(c, [sess[c] EXCEPT !.gateway = "read", !.gatewayPump = TRUE, !.agent = "reading"])

GatewayDialFails(c) ==
    /\ sess[c].gateway = "dial"
    /\ Move(c, [sess[c] EXCEPT !.gateway = "none", !.toGateway = FALSE])

(* Messages wait in front of the gateway while the agent is at work. *)
GatewayForward(c) ==
    /\ sess[c].gateway = "read" /\ sess[c].toGateway
    /\ \/ /\ sess[c].agent = "reading"
          /\ Move(c, [sess[c] EXCEPT !.toGateway = FALSE, !.agent = "working"])
       \/ /\ sess[c].agent = "none"
          /\ \E label \in {"read", "wait"} :
                Move(c, [sess[c] EXCEPT !.toGateway = FALSE, !.gateway = label])

(* What the control plane has sent is read before its close message. *)
GatewayReadFails(c) ==
    /\ sess[c].gateway = "read" /\ ~sess[c].toGateway
    /\ sess[c].admin \in {"none", "wait"}
    /\ Move(c, [sess[c] EXCEPT !.gateway = "wait"])

GatewayPumpEnds(c) ==
    /\ sess[c].gatewayPump
    /\ \/ sess[c].agent = "none"
       \/ sess[c].agent = "working" /\ sess[c].admin = "none"
    /\ Move(c, [sess[c] EXCEPT !.gatewayPump = FALSE])

GatewayReturn(c) ==
    /\ sess[c].gateway = "wait" /\ ~sess[c].gatewayPump
    /\ Move(c, [sess[c] EXCEPT !.gateway = "none", !.toGateway = FALSE])

-------------------------------------------------------------------------------
(* The agent's handler: one chat at a time, which runs to its end whether  *)
(* or not somebody still listens (its context is context.Background).      *)

AgentAnswer(c) ==
    /\ sess[c].agent = "working"
    /\ Move(c, [sess[c] EXCEPT !.agent = "reading"])

AgentReadFails(c) ==
    /\ sess[c].agent = "reading"
    /\ sess[c].gateway \in {"none", "wait"}
    /\ Move(c, [sess[c] EXCEPT !.agent = "none"])

-------------------------------------------------------------------------------
(* What the environment does. *)

ClientLeaves(c) ==
    /\ sess[c].client
    /\ Move(c, [sess[c] EXCEPT !.client = FALSE])

(* The sandbox is paused or killed, or the agent exits. *)
AgentDies(c) ==
    /\ sess[c].agent # "none"
    /\ Move(c, [sess[c] EXCEPT !.agent = "none"])

GatewayDies ==
    /\ \E c \in Conns : sess[c].gateway # "none"
    /\ sess' = [c \in Conns |-> [sess[c] EXCEPT !.gateway = "none", !.gatewayPump = FALSE,
                                                !.toGateway = FALSE]]
    /\ UNCHANGED <<activity, wsManager>>

(* The steps a session takes by itself. *)
Advance(c) ==
    \/ AdminDial(c) \/ AdminReadFails(c) \/ AdminPumpEnds(c) \/ AdminReturn(c)
    \/ GatewayDial(c) \/ GatewayDialFails(c) \/ GatewayForward(c) \/ GatewayReadFails(c)
    \/ GatewayPumpEnds(c) \/ GatewayReturn(c)
    \/ AgentAnswer(c) \/ AgentReadFails(c)

RelayNext ==
    \/ \E c \in Conns :
         \/ Advance(c)
         \/ Connect(c) \/ AdminDialFails(c) \/ AdminForward(c) \/ ClientLeaves(c) \/ AgentDies(c)
    \/ GatewayDies
===============================================================================
