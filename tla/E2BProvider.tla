----------------------------- MODULE E2BProvider -----------------------------
(***************************************************************************)
(* pkg/sandboxprovider/e2b: each control-plane process remembers in a map  *)
(* which sandbox it claimed for which user, and reaches the sandboxes      *)
(* themselves through the sandbox-manager API.  One provider call is one   *)
(* step; its parameter f is the call's outcome: "ok" or the remote failure *)
(* that hit it.                                                            *)
(***************************************************************************)
EXTENDS ControlPlane

VARIABLES
    sandbox,     \* [Sandboxes -> {"absent", "running", "paused"}]
    owner,       \* [Sandboxes -> UserOrNone]: the "user-id" metadata
    model,       \* [Sandboxes -> Models]: the configuration the agent in it holds
    sbxs         \* [Replicas -> [Users -> SandboxOrNone]]: Provider.sbxs

providerVars == <<sandbox, owner, model, sbxs>>

(* What agent-runtime holds in memory: the skeleton of DefaultConfig, the  *)
(* seat service's configuration, or the user's override.                   *)
Models == {"default", "seat", "override"}

ProviderInit ==
    /\ sandbox = [s \in Sandboxes |-> "absent"]
    /\ owner = [s \in Sandboxes |-> NoUser]
    /\ model = [s \in Sandboxes |-> "default"]
    /\ sbxs = [r \in Replicas |-> [u \in Users |-> NoSandbox]]

Live(s) == s \in Sandboxes /\ sandbox[s] # "absent"

Known(r, u) == sbxs[r][u] # NoSandbox

(* The sandbox-manager hands a warm sandbox to the user. *)
Claim(u, s) ==
    /\ sandbox' = [sandbox EXCEPT ![s] = "running"]
    /\ owner' = [owner EXCEPT ![s] = u]
    /\ model' = [model EXCEPT ![s] = "default"]

Destroy(s) ==
    /\ sandbox' = [sandbox EXCEPT ![s] = "absent"]
    /\ owner' = [owner EXCEPT ![s] = NoUser]
    /\ model' = [model EXCEPT ![s] = "default"]

Remember(r, u, s) == sbxs' = [sbxs EXCEPT ![r][u] = s]

Forget(r, u) == sbxs' = [sbxs EXCEPT ![r][u] = NoSandbox]

(* Mutant: the sandbox is remembered only once it is ready. *)
ProviderCreateRememberLate(r, u, s, f) ==
    \/ f = "ok" /\ Claim(u, s) /\ Remember(r, u, s)
    \/ f \in {"notReady", "lostCreate"} /\ Claim(u, s) /\ UNCHANGED sbxs
    \/ f = "create" /\ UNCHANGED providerVars

(* Create never looks at the map: it claims a new sandbox and overwrites   *)
(* the entry.  It remembers before waitReady, so a sandbox that never      *)
(* becomes queryable stays known, running and unkilled; an answer lost on  *)
(* the way leaves a sandbox nobody remembers.                              *)
ProviderCreate(r, u, s, f) ==
    \/ /\ f \in {"ok", "notReady"}
       /\ Claim(u, s)
       /\ Remember(r, u, s)
    \/ /\ f = "lostCreate"
       /\ Claim(u, s)
       /\ UNCHANGED sbxs
    \/ /\ f = "create"
       /\ UNCHANGED providerVars

(* Start fails for an unknown user and for a sandbox Connect cannot find;  *)
(* Connect resumes a paused sandbox before waitReady polls it.             *)
CanStart(r, u, f) == f = "ok" /\ Known(r, u) /\ Live(sbxs[r][u])

ProviderStart(r, u, f) ==
    \/ /\ f \in {"ok", "notReady"}
       /\ Known(r, u) /\ Live(sbxs[r][u])
       /\ sandbox' = [sandbox EXCEPT ![sbxs[r][u]] = "running"]
       /\ UNCHANGED <<owner, model, sbxs>>
    \/ /\ f = "connect" \/ ~Known(r, u) \/ ~Live(sbxs[r][u])
       /\ UNCHANGED providerVars

(* Mutant: the error of Connect or Pause is dropped. *)
CanStopAlways(r, u, f) == TRUE

(* Stop of an unknown user succeeds without doing anything.  Connect       *)
(* resumes the sandbox, then Pause pauses it.                              *)
CanStop(r, u, f) == ~Known(r, u) \/ (f = "ok" /\ Live(sbxs[r][u]))

ProviderStop(r, u, f) ==
    \/ /\ f \in {"ok", "pause"}
       /\ Known(r, u) /\ Live(sbxs[r][u])
       /\ sandbox' = [sandbox EXCEPT ![sbxs[r][u]] =
                         IF f = "ok" THEN "paused" ELSE "running"]
       /\ UNCHANGED <<owner, model, sbxs>>
    \/ /\ f = "connect" \/ ~Known(r, u) \/ ~Live(sbxs[r][u])
       /\ UNCHANGED providerVars

(* Mutant: the error of Kill is dropped. *)
CanDeleteAlways(r, u, f) == TRUE

(* Delete of an unknown user succeeds; a sandbox Connect cannot reach is   *)
(* taken for destroyed and forgotten; only a failing Kill is an error.     *)
CanDelete(r, u, f) == ~Known(r, u) \/ f # "kill" \/ ~Live(sbxs[r][u])

(* Mutant: a paused sandbox is forgotten without being killed. *)
ProviderDeleteSkipPaused(r, u, f) ==
    /\ Known(r, u) => Forget(r, u)
    /\ ~Known(r, u) => UNCHANGED sbxs
    /\ IF Known(r, u) /\ Live(sbxs[r][u]) /\ sandbox[sbxs[r][u]] = "running"
       THEN Destroy(sbxs[r][u])
       ELSE UNCHANGED <<sandbox, owner, model>>

ProviderDelete(r, u, f) ==
    \/ /\ ~Known(r, u)
       /\ UNCHANGED providerVars
    \/ /\ Known(r, u)
       /\ f = "connect" \/ ~Live(sbxs[r][u])
       /\ Forget(r, u)
       /\ UNCHANGED <<sandbox, owner, model>>
    \/ /\ Known(r, u) /\ Live(sbxs[r][u])
       /\ f = "kill"
       /\ sandbox' = [sandbox EXCEPT ![sbxs[r][u]] = "running"]
       /\ UNCHANGED <<owner, model, sbxs>>
    \/ /\ Known(r, u) /\ Live(sbxs[r][u])
       /\ f = "ok"
       /\ Destroy(sbxs[r][u])
       /\ Forget(r, u)

(* The agent in s answers POST /v1/config while its sandbox runs. *)
Configure(s, m) ==
    /\ s \in Sandboxes /\ sandbox[s] = "running"
    /\ model' = [model EXCEPT ![s] = m]

(* The map of a new process: Seed keeps the non-empty sandbox ids it is    *)
(* given, id \in [Users -> SandboxOrNone].                                 *)
Seed(r, id) == sbxs' = [sbxs EXCEPT ![r] = id]
===============================================================================
