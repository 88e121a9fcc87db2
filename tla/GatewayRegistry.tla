--------------------------- MODULE GatewayRegistry ---------------------------
(***************************************************************************)
(* The routing table of cloud-gateway (internal/registry), written by      *)
(* POST and DELETE /v1/registry/{userID}, read by every forwarded request. *)
(* The table lives in the gateway's memory only.                           *)
(***************************************************************************)
EXTENDS ControlPlane

VARIABLE route       \* [Users -> SandboxOrNone]

GatewayInit == route = [u \in Users |-> NoSandbox]

(* handleRegister refuses an empty endpoint with 400. *)
Register(u, endpoint) ==
    /\ endpoint # NoSandbox
    /\ route' = [route EXCEPT ![u] = endpoint]

Unregister(u) == route' = [route EXCEPT ![u] = NoSandbox]

(* proxyGET, proxyPOST and handleWSRelay answer 404 without a route. *)
Registered(u) == route[u] # NoSandbox

GatewayAfterRestart == route' = [u \in Users |-> NoSandbox]
===============================================================================
