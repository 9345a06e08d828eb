--------------------------- MODULE EngineContract ---------------------------
(***************************************************************************)
(* What the inference supervisor promises its callers, the HTTP handlers:  *)
(* one load at a time, readiness withdrawn from the moment a load starts   *)
(* until it succeeds, and a model name and exposure flag that only a load  *)
(* under way replaces.  EngineSupervisor implements this specification;    *)
(* ControlPlane is built on it.                                            *)
(***************************************************************************)
CONSTANTS
  Models,    \* model identifiers a load request may name
  NoModel    \* the empty model name of a fresh Supervisor

VARIABLES
  phase,     \* the load under way: "idle", "check" or "start"
  model,     \* CurrentModel()
  exposed,   \* ExposeInHealth()
  ready      \* IsReady()

contractVars == <<phase, model, exposed, ready>>

ContractInit ==
  /\ phase = "idle"
  /\ model = NoModel
  /\ exposed = FALSE
  /\ ready = FALSE

\* LoadModel takes loadMu and gives the running engine up.
Begin ==
  /\ phase = "idle"
  /\ phase' = "check"
  /\ ready' = FALSE
  /\ UNCHANGED <<model, exposed>>

\* The request does not pass validation.
Reject ==
  /\ phase = "check"
  /\ phase' = "idle"
  /\ UNCHANGED <<model, exposed, ready>>

\* The new model is reported before its engine exists.
Commit(m, x) ==
  /\ phase = "check"
  /\ phase' = "start"
  /\ model' = m
  /\ exposed' = x
  /\ UNCHANGED ready

\* The engine answers its health check, or does not start.
Succeed ==
  /\ phase = "start"
  /\ phase' = "idle"
  /\ ready' = TRUE
  /\ UNCHANGED <<model, exposed>>

Fail ==
  /\ phase = "start"
  /\ phase' = "idle"
  /\ UNCHANGED <<model, exposed, ready>>

\* The engine crashes or is found unresponsive.
Lose ==
  /\ ready
  /\ ready' = FALSE
  /\ UNCHANGED <<phase, model, exposed>>

ContractNext ==
  \/ Begin \/ Reject \/ Succeed \/ Fail \/ Lose
  \/ \E m \in Models, x \in BOOLEAN : Commit(m, x)

Contract == ContractInit /\ [][ContractNext]_contractVars

=============================================================================
