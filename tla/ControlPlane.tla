---------------------------- MODULE ControlPlane ----------------------------
(***************************************************************************)
(* The control endpoints of the node (pkg/proxy: server.go, visibility.go, *)
(* seal_handler.go, enrollment.go): attestation, certificate, health and   *)
(* egress probe behind GuardNonCritical, the seal, model loading, the      *)
(* visibility policy and enrollment.                                       *)
(*                                                                         *)
(* Every request runs in a goroutine of its own.  A step is one read or    *)
(* one write of shared state: the seal flag, the firewall, the policy, the *)
(* enrolled key, the supervisor (EngineContract).  The request verifier is *)
(* taken at its promise: a request of the key's owner passes once.         *)
(***************************************************************************)
EXTENDS Integers, FiniteSets

CONSTANTS
  Handlers,   \* goroutines of the HTTP server
  Boot,       \* the goroutine that loads a pre-bundled model at boot
  Nobody,     \* loadMu is free
  Models, NoModel,
  Requests,   \* the requests clients send
  Slots,      \* capacity of attestationSem (4)
  HasReport   \* the boot got a hardware report, so that AttestationDoc is not nil

ASSUME ThreadAssumption == Boot \notin Handlers /\ Nobody \notin Handlers \union {Boot}
ASSUME ModelAssumption  == NoModel \notin Models
ASSUME SlotAssumption   == Slots \in Nat \ {0}
ASSUME ReportAssumption == HasReport \in BOOLEAN

Threads   == Handlers \union {Boot}
Endpoints == {"attestation", "certificate", "health", "probe_egress"}
Settings  == {"public", "hidden"}
Fields    == Settings \union {"absent", "invalid"}

\* A request to each of the endpoints; signed: it carries the owner's signature.
GuardedRequest == [kind : {"guarded"}, endpoint : Endpoints, nonce : {"none", "good", "bad"},
                   signed : BOOLEAN]
SealRequest    == [kind : {"seal"}, force : BOOLEAN, signed : BOOLEAN]
LoadRequest    == [kind : {"load"}, model : Models, expose : BOOLEAN, signed : BOOLEAN]
PolicyRequest  == [kind : {"policy"}, all : Fields, each : [Endpoints -> Fields],
                   signed : BOOLEAN]
EnrollRequest  == [kind : {"enroll"}]
NoRequest      == [kind |-> "none"]

ASSUME RequestsAssumption ==
  Requests \subseteq GuardedRequest \union SealRequest \union LoadRequest
                       \union PolicyRequest \union EnrollRequest

VARIABLES
  enrolled,   \* verifier.IsEnrolled()
  docKey,     \* AttestationDoc.Predicate.AuthorizedPublicKey is set
  sealed,     \* sealState
  egress,     \* what the outbound nftables chain does: "open" or "blocked"
  policy,     \* vm.policy
  slots,      \* tokens in attestationSem
  phase, model, exposed, ready,  \* the supervisor, see EngineContract
  loader,     \* the goroutine that holds loadMu
  pc, req,    \* where a goroutine is, and the request it serves
  spent,      \* the nonce of the request has been consumed
  authed,     \* the guard has authenticated the request
  setting,    \* the policy the guard has read
  showModel,  \* the health handler's local
  status,     \* the answer: "none", "ok" or "refused"
  shown,      \* the model named in it
  wasOpen     \* history: since the request came its endpoint was open at some time

Engine == INSTANCE EngineContract

engineVars == <<phase, model, exposed, ready, loader>>
authVars   == <<enrolled, docKey>>
localVars  == <<spent, authed, setting, showModel>>
answerVars == <<status, shown>>

vars == <<authVars, sealed, egress, policy, slots, engineVars, pc, req, localVars,
          answerVars, wasOpen>>

LoadPCs == {"loadWait", "loading", "starting"}
PCs     == {"idle", "setting", "guard", "serve", "attest", "report", "probed", "sealReady",
            "egress", "latch", "sealAnswer", "update", "docKey", "done"} \union LoadPCs

TypeOK ==
  /\ {enrolled, docKey, sealed, exposed, ready} \subseteq BOOLEAN
  /\ egress \in {"open", "blocked"}
  /\ policy \in [Endpoints -> Settings]
  /\ slots \in 0..Slots
  /\ phase \in {"idle", "check", "start"}
  /\ model \in Models \union {NoModel}
  /\ loader \in Threads \union {Nobody}
  /\ pc \in [Threads -> PCs]
  /\ req \in [Threads -> Requests \union LoadRequest \union {NoRequest}]
  /\ spent \in [Threads -> BOOLEAN]
  /\ authed \in [Threads -> BOOLEAN]
  /\ setting \in [Threads -> Settings]
  /\ showModel \in [Threads -> BOOLEAN]
  /\ status \in [Threads -> {"none", "ok", "refused"}]
  /\ shown \in [Threads -> Models \union {NoModel}]
  /\ wasOpen \in [Threads -> BOOLEAN]

-----------------------------------------------------------------------------
(***************************************************************************)
(* runNodeSupervisor: a key found at launch is enrolled and bound into the *)
(* boot quote; a pre-bundled model is loaded without exposure in a         *)
(* goroutine of its own, while the server is already up.                   *)
(***************************************************************************)
Init ==
  /\ enrolled \in BOOLEAN
  /\ docKey = (enrolled /\ HasReport)
  /\ sealed = FALSE
  /\ egress = "open"
  /\ policy = [e \in Endpoints |-> IF e = "probe_egress" THEN "hidden" ELSE "public"]
  /\ slots = 0
  /\ Engine!ContractInit
  /\ loader = Nobody
  /\ \/ /\ pc = [t \in Threads |-> "idle"]
        /\ req = [t \in Threads |-> NoRequest]
     \/ \E m \in Models :
          /\ pc = [t \in Threads |-> IF t = Boot THEN "loadWait" ELSE "idle"]
          /\ req = [t \in Threads |->
                      IF t = Boot
                      THEN [kind |-> "load", model |-> m, expose |-> FALSE, signed |-> FALSE]
                      ELSE NoRequest]
  /\ spent = [t \in Threads |-> FALSE]
  /\ authed = [t \in Threads |-> FALSE]
  /\ setting = [t \in Threads |-> "public"]
  /\ showModel = [t \in Threads |-> FALSE]
  /\ status = [t \in Threads |-> "none"]
  /\ shown = [t \in Threads |-> NoModel]
  /\ wasOpen = [t \in Threads |-> FALSE]

-----------------------------------------------------------------------------
(* Steps of a handler                                                      *)

Goto(t, l) == pc' = [pc EXCEPT ![t] = l]

Answer(t, code, m) ==
  /\ Goto(t, "done")
  /\ status' = [status EXCEPT ![t] = code]
  /\ shown' = [shown EXCEPT ![t] = m]

Refuse(t) == Answer(t, "refused", NoModel)

\* The response has been written and the goroutine ends.
Return(t) ==
  /\ pc[t] = "done"
  /\ Goto(t, "idle")
  /\ req' = [req EXCEPT ![t] = NoRequest]
  /\ spent' = [spent EXCEPT ![t] = FALSE]
  /\ authed' = [authed EXCEPT ![t] = FALSE]
  /\ setting' = [setting EXCEPT ![t] = "public"]
  /\ showModel' = [showModel EXCEPT ![t] = FALSE]
  /\ status' = [status EXCEPT ![t] = "none"]
  /\ shown' = [shown EXCEPT ![t] = NoModel]
  /\ UNCHANGED <<authVars, sealed, egress, policy, slots, engineVars>>

\* A request arrives at an idle goroutine.
Arrive(t, r) ==
  /\ t \in Handlers
  /\ pc[t] = "idle"
  /\ req' = [req EXCEPT ![t] = r]

\* The verifier accepts the request of r: an enrolled owner signed it and its nonce
\* is new.  It may still refuse a signed request, for its age or for its body.
Verifies(r, used) == enrolled /\ r.signed /\ ~used

-----------------------------------------------------------------------------
(* GuardNonCritical                                                        *)

\* Before enrollment, only what an auditor needs is served.
PreEnrolment == {"attestation", "certificate"}

GuardEnrolment(t, r) ==
  /\ r.kind = "guarded"
  /\ Arrive(t, r)
  /\ \/ enrolled /\ Goto(t, "setting") /\ UNCHANGED answerVars
     \/ ~enrolled /\ r.endpoint \in PreEnrolment /\ Goto(t, "serve") /\ UNCHANGED answerVars
     \/ ~enrolled /\ r.endpoint \notin PreEnrolment /\ Refuse(t)
  /\ UNCHANGED <<authVars, sealed, egress, policy, slots, engineVars, localVars>>

\* vm.mu.RLock: the setting is copied and the lock released.
GuardSetting(t) ==
  /\ pc[t] = "setting"
  /\ setting' = [setting EXCEPT ![t] = policy[req[t].endpoint]]
  /\ Goto(t, "guard")
  /\ UNCHANGED <<authVars, sealed, egress, policy, slots, engineVars, req, spent, authed,
                 showModel, answerVars>>

\* Mutant: the seal flag is not consulted.
RequiresAuthUnsealed(t) == setting[t] = "hidden"

\* requiresAuth := IsSealed() || setting == VisibilityHidden
RequiresAuth(t) == sealed \/ setting[t] = "hidden"

GuardSealed(t) ==
  /\ pc[t] = "guard"
  /\ \/ ~RequiresAuth(t) /\ Goto(t, "serve") /\ UNCHANGED <<spent, authed, answerVars>>
     \/ /\ RequiresAuth(t)
        /\ Verifies(req[t], spent[t])
        /\ spent' = [spent EXCEPT ![t] = TRUE]
        /\ authed' = [authed EXCEPT ![t] = TRUE]
        /\ Goto(t, "serve")
        /\ UNCHANGED answerVars
     \/ RequiresAuth(t) /\ Refuse(t) /\ UNCHANGED <<spent, authed>>
  /\ UNCHANGED <<authVars, sealed, egress, policy, slots, engineVars, req, setting, showModel>>

-----------------------------------------------------------------------------
(* The handlers behind the guard                                           *)

ServeCertificate(t) ==
  /\ pc[t] = "serve"
  /\ req[t].endpoint = "certificate"
  /\ Answer(t, "ok", NoModel)
  /\ UNCHANGED <<authVars, sealed, egress, policy, slots, engineVars, req, localVars>>

\* Without a nonce: the document built at boot, or 503 if there is none.
ServeDocument(t) ==
  /\ pc[t] = "serve"
  /\ req[t].endpoint = "attestation"
  /\ req[t].nonce = "none"
  /\ Answer(t, IF HasReport THEN "ok" ELSE "refused", NoModel)
  /\ UNCHANGED <<authVars, sealed, egress, policy, slots, engineVars, req, localVars>>

\* With a nonce: a slot is taken before the nonce is looked at.
TakeSlot(t) ==
  /\ pc[t] = "serve"
  /\ req[t].endpoint = "attestation"
  /\ req[t].nonce # "none"
  /\ \/ slots < Slots /\ slots' = slots + 1 /\ Goto(t, "attest") /\ UNCHANGED answerVars
     \/ slots = Slots /\ Refuse(t) /\ UNCHANGED slots
  /\ UNCHANGED <<authVars, sealed, egress, policy, engineVars, req, localVars>>

\* Mutant: the slot is kept when the nonce is malformed.
AttestLeaks(t) ==
  /\ pc[t] = "attest"
  /\ slots' = IF req[t].nonce = "bad" THEN slots ELSE slots - 1
  /\ \/ req[t].nonce = "good" /\ Answer(t, "ok", NoModel)
     \/ Refuse(t)
  /\ UNCHANGED <<authVars, sealed, egress, policy, engineVars, req, localVars>>

\* The report is fetched, or is unavailable, or the nonce is malformed; the
\* deferred function gives the slot back on every path.
Attest(t) ==
  /\ pc[t] = "attest"
  /\ slots' = slots - 1
  /\ \/ req[t].nonce = "good" /\ Answer(t, "ok", NoModel)
     \/ Refuse(t)
  /\ UNCHANGED <<authVars, sealed, egress, policy, engineVars, req, localVars>>

\* ExposeInHealth, or else a second verification of the same request.
HealthShow(t) ==
  /\ pc[t] = "serve"
  /\ req[t].endpoint = "health"
  /\ \/ exposed /\ showModel' = [showModel EXCEPT ![t] = TRUE] /\ UNCHANGED spent
     \/ /\ ~exposed
        /\ showModel' = [showModel EXCEPT ![t] = Verifies(req[t], spent[t])]
        /\ spent' = [spent EXCEPT ![t] = @ \/ Verifies(req[t], @)]
  /\ Goto(t, "report")
  /\ UNCHANGED <<authVars, sealed, egress, policy, slots, engineVars, req, authed, setting,
                 answerVars>>

\* The answer, 200 or 503, with the model that is current by now.
HealthReport(t) ==
  /\ pc[t] = "report"
  /\ Answer(t, "ok", IF showModel[t] THEN model ELSE NoModel)
  /\ UNCHANGED <<authVars, sealed, egress, policy, slots, engineVars, req, localVars>>

\* net.DialTimeout through the firewall, then the seal flag for the report.
ProbeEgress(t) ==
  /\ pc[t] = "serve"
  /\ req[t].endpoint = "probe_egress"
  /\ Goto(t, "probed")
  /\ UNCHANGED <<authVars, sealed, egress, policy, slots, engineVars, req, localVars, answerVars>>

ProbeReport(t) ==
  /\ pc[t] = "probed"
  /\ Answer(t, "ok", NoModel)
  /\ UNCHANGED <<authVars, sealed, egress, policy, slots, engineVars, req, localVars>>

-----------------------------------------------------------------------------
(* POST /v1/system/seal                                                    *)

\* An enclave that is sealed answers 200 to anyone; otherwise the owner must sign.
SealCheck(t, r) ==
  /\ r.kind = "seal"
  /\ Arrive(t, r)
  /\ \/ sealed /\ Answer(t, "ok", NoModel) /\ UNCHANGED spent
     \/ /\ ~sealed
        /\ Verifies(r, FALSE)
        /\ spent' = [spent EXCEPT ![t] = TRUE]
        /\ Goto(t, "sealReady")
        /\ UNCHANGED answerVars
     \/ ~sealed /\ Refuse(t) /\ UNCHANGED spent
  /\ UNCHANGED <<authVars, sealed, egress, policy, slots, engineVars, authed, setting, showModel>>

SealReady(t) ==
  /\ pc[t] = "sealReady"
  /\ \/ (req[t].force \/ ready) /\ Goto(t, "egress") /\ UNCHANGED answerVars
     \/ ~req[t].force /\ ~ready /\ Refuse(t)
  /\ UNCHANGED <<authVars, sealed, egress, policy, slots, engineVars, req, localVars>>

\* Mutant: the error of the egress function is ignored.
SealEgressUnchecked(t) ==
  /\ pc[t] = "egress"
  /\ egress' \in {egress, "blocked"}
  /\ Goto(t, "latch")
  /\ UNCHANGED <<authVars, sealed, policy, slots, engineVars, req, localVars, answerVars>>

\* ApplySealedEgressPolicy: nft replaces the chain in one transaction.  It may fail,
\* and it may be reported as failed although the chain was replaced, when the zombie
\* reaper collects the exit status of both nft commands.
SealEgress(t) ==
  /\ pc[t] = "egress"
  /\ \/ egress' = "blocked" /\ Goto(t, "latch") /\ UNCHANGED answerVars
     \/ egress' \in {egress, "blocked"} /\ Refuse(t)
  /\ UNCHANGED <<authVars, sealed, policy, slots, engineVars, req, localVars>>

SealLatch(t) ==
  /\ pc[t] = "latch"
  /\ sealed' = TRUE
  /\ Goto(t, "sealAnswer")
  /\ UNCHANGED <<authVars, egress, policy, slots, engineVars, req, localVars, answerVars>>

SealAnswer(t) ==
  /\ pc[t] = "sealAnswer"
  /\ Answer(t, "ok", model)
  /\ UNCHANGED <<authVars, sealed, egress, policy, slots, engineVars, req, localVars>>

-----------------------------------------------------------------------------
(* POST /v1/models/load, and LoadModel seen from outside                   *)

\* Mutant: a sealed enclave still admits loads.
LoadCheckUnsealed(t, r) ==
  /\ r.kind = "load"
  /\ Arrive(t, r)
  /\ \/ /\ Verifies(r, FALSE)
        /\ spent' = [spent EXCEPT ![t] = TRUE]
        /\ Goto(t, "loadWait")
        /\ UNCHANGED answerVars
     \/ Refuse(t) /\ UNCHANGED spent
  /\ UNCHANGED <<authVars, sealed, egress, policy, slots, engineVars, authed, setting, showModel>>

LoadCheck(t, r) ==
  /\ r.kind = "load"
  /\ Arrive(t, r)
  /\ \/ /\ ~sealed
        /\ Verifies(r, FALSE)
        /\ spent' = [spent EXCEPT ![t] = TRUE]
        /\ Goto(t, "loadWait")
        /\ UNCHANGED answerVars
     \/ Refuse(t) /\ UNCHANGED spent
  /\ UNCHANGED <<authVars, sealed, egress, policy, slots, engineVars, authed, setting, showModel>>

LoadBegin(t) ==
  /\ pc[t] = "loadWait"
  /\ loader = Nobody
  /\ Engine!Begin
  /\ loader' = t
  /\ Goto(t, "loading")
  /\ UNCHANGED <<authVars, sealed, egress, policy, slots, req, localVars, answerVars>>

LoadCommit(t) ==
  /\ pc[t] = "loading"
  /\ Engine!Commit(req[t].model, req[t].expose)
  /\ Goto(t, "starting")
  /\ UNCHANGED <<authVars, sealed, egress, policy, slots, loader, req, localVars, answerVars>>

\* Mutant: loadMu is not released when a load is rejected or fails.
LoadEndsLocked(t) ==
  /\ \/ pc[t] = "loading" /\ Engine!Reject /\ Refuse(t) /\ UNCHANGED loader
     \/ pc[t] = "starting" /\ Engine!Fail /\ Refuse(t) /\ UNCHANGED loader
     \/ pc[t] = "starting" /\ Engine!Succeed /\ Answer(t, "ok", model) /\ loader' = Nobody
  /\ UNCHANGED <<authVars, sealed, egress, policy, slots, req, localVars>>

LoadEnds(t) ==
  /\ \/ pc[t] = "loading" /\ Engine!Reject /\ Refuse(t)
     \/ pc[t] = "starting" /\ Engine!Fail /\ Refuse(t)
     \/ pc[t] = "starting" /\ Engine!Succeed /\ Answer(t, "ok", model)
  /\ loader' = Nobody
  /\ UNCHANGED <<authVars, sealed, egress, policy, slots, req, localVars>>

\* The engine crashes or its prober gives it up.
EngineLost ==
  /\ Engine!Lose
  /\ UNCHANGED <<authVars, sealed, egress, policy, slots, loader, pc, req, localVars, answerVars>>

-----------------------------------------------------------------------------
(* POST /v1/admin/visibility                                               *)

\* UpdatePolicy reads the fields in this order and stops at the first invalid one;
\* what it has set by then stays set.
UpTo(e) ==
  CASE e = "attestation"  -> {"attestation"}
    [] e = "certificate"  -> {"attestation", "certificate"}
    [] e = "health"       -> {"attestation", "certificate", "health"}
    [] e = "probe_egress" -> Endpoints

\* Mutant: the value is stored as it came.
UpdatedUnparsed(e, r) ==
  IF r.all # "absent" THEN r.all ELSE IF r.each[e] # "absent" THEN r.each[e] ELSE policy[e]

Updated(e, r) ==
  IF r.all # "absent"
  THEN IF r.all \in Settings THEN r.all ELSE policy[e]
  ELSE IF r.each[e] \in Settings /\ \A d \in UpTo(e) : r.each[d] # "invalid"
       THEN r.each[e] ELSE policy[e]

UpdateIsValid(r) ==
  IF r.all # "absent" THEN r.all \in Settings ELSE \A e \in Endpoints : r.each[e] # "invalid"

PolicyCheck(t, r) ==
  /\ r.kind = "policy"
  /\ Arrive(t, r)
  /\ \/ /\ Verifies(r, FALSE)
        /\ spent' = [spent EXCEPT ![t] = TRUE]
        /\ Goto(t, "update")
        /\ UNCHANGED answerVars
     \/ Refuse(t) /\ UNCHANGED spent
  /\ UNCHANGED <<authVars, sealed, egress, policy, slots, engineVars, authed, setting, showModel>>

UpdatePolicy(t) ==
  /\ pc[t] = "update"
  /\ policy' = [e \in Endpoints |-> Updated(e, req[t])]
  /\ Answer(t, IF UpdateIsValid(req[t]) THEN "ok" ELSE "refused", NoModel)
  /\ UNCHANGED <<authVars, sealed, egress, slots, engineVars, req, localVars>>

-----------------------------------------------------------------------------
(* POST /v1/auth/register, after the proof of possession (RequestVerifier) *)

EnrollKey(t, r) ==
  /\ r.kind = "enroll"
  /\ Arrive(t, r)
  /\ \/ ~enrolled /\ enrolled' = TRUE /\ Goto(t, "docKey") /\ UNCHANGED answerVars
     \/ Refuse(t) /\ UNCHANGED enrolled
  /\ UNCHANGED <<docKey, sealed, egress, policy, slots, engineVars, localVars>>

\* if cfg.AttestationDoc != nil { cfg.AttestationDoc.Predicate.AuthorizedPublicKey = hexStr }
NameKeyInDocument(t) ==
  /\ pc[t] = "docKey"
  /\ docKey' = HasReport
  /\ Answer(t, "ok", NoModel)
  /\ UNCHANGED <<enrolled, sealed, egress, policy, slots, engineVars, req, localVars>>

-----------------------------------------------------------------------------
Receive(t, r) ==
  GuardEnrolment(t, r) \/ SealCheck(t, r) \/ LoadCheck(t, r) \/ PolicyCheck(t, r) \/ EnrollKey(t, r)

GuardStep(t) == GuardSetting(t) \/ GuardSealed(t)

ServeStep(t) ==
  \/ ServeCertificate(t) \/ ServeDocument(t) \/ TakeSlot(t) \/ Attest(t)
  \/ HealthShow(t) \/ HealthReport(t) \/ ProbeEgress(t) \/ ProbeReport(t)

SealStep(t) == SealReady(t) \/ SealEgress(t) \/ SealLatch(t) \/ SealAnswer(t)

LoadStep(t) == LoadCommit(t) \/ LoadEnds(t)

HandlerStep(t) ==
  \/ GuardStep(t) \/ ServeStep(t) \/ SealStep(t) \/ LoadStep(t)
  \/ UpdatePolicy(t) \/ NameKeyInDocument(t) \/ Return(t)

\* An endpoint is open to anyone: nobody can authenticate yet and it serves
\* auditors, or its policy is public and the enclave is not sealed.
IsOpen(e) ==
  IF enrolled THEN ~sealed /\ policy[e] = "public" ELSE e \in PreEnrolment

\* History: the moments at which the endpoint of a request is open.
ObserveOpen ==
  wasOpen' = [t \in Threads |->
                /\ req'[t].kind = "guarded"
                /\ \/ wasOpen[t]
                   \/ \E e \in Endpoints : req'[t].endpoint = e /\ (IsOpen(e) \/ IsOpen(e)')]

Next ==
  /\ \/ \E t \in Handlers, r \in Requests : Receive(t, r)
     \/ \E t \in Threads : LoadBegin(t) \/ HandlerStep(t)
     \/ EngineLost
  /\ ObserveOpen

Spec == Init /\ [][Next]_vars

(***************************************************************************)
(* Handlers run on, and loadMu is a sync.Mutex, whose starvation mode      *)
(* hands it to a waiter.  That a load ends is an assumption about the      *)
(* external commands it runs without a timeout (nvidia-smi, uv, the probe  *)
(* of torch): they end.  Everything else in a load does (LoadTerminates of *)
(* EngineSupervisor).                                                      *)
(***************************************************************************)
Fairness ==
  \A t \in Threads : /\ WF_vars(HandlerStep(t) /\ ObserveOpen)
                     /\ SF_vars(LoadBegin(t) /\ ObserveOpen)

FairSpec == Spec /\ Fairness

-----------------------------------------------------------------------------
(* Properties                                                              *)

\* "Latch sealed state permanently" comes after the firewall: whenever the node says
\* it is sealed, outbound traffic is blocked and there is an owner who can still get
\* in, although egress application may fail or succeed unnoticed.
SealedIsBlocked == sealed => egress = "blocked" /\ enrolled

\* GuardNonCritical reads enrollment, policy and seal one after the other, while all
\* three change.  Still, an answer to a request that was not authenticated means that
\* at some moment since the request came its endpoint was open to anyone: never is
\* a hidden endpoint served by mixing an old policy with a new seal state.
ServedOnlyWhenOpen ==
  \A t \in Handlers :
    /\ pc[t] \in {"serve", "attest", "report", "probed"}
    /\ ~authed[t]
    => wasOpen[t]

\* attestationSem: a slot is taken for exactly the requests that are collecting
\* evidence; none is lost on a malformed nonce or a failed report.
SlotsAreAccounted == slots = Cardinality({t \in Threads : pc[t] = "attest"})

\* loadMu admits one load: the goroutine between LoadBegin and LoadEnds is the one
\* that holds it, and a node that is ready has no load under way.
OneLoadAtATime ==
  /\ \A t \in Threads : pc[t] \in {"loading", "starting"} <=> loader = t
  /\ ready => loader = Nobody /\ model # NoModel

\* After a seal the node settles: loads admitted before it run out, and from then on
\* nothing replaces the model, if the external commands of a load end.
SealSettles == sealed ~> [](\A t \in Threads : pc[t] \notin LoadPCs)

\* Every request is answered, a load queued behind others included, if the external
\* commands of a load end.
RequestIsAnswered == \A t \in Threads : pc[t] # "idle" ~> pc[t] = "idle"

\* README, POST /v1/system/seal: "permanently disables further model modifications".
\* The code breaks it: the goroutine that loads the pre-bundled model at boot never
\* asks IsSealed, so that a forced seal that comes while it waits or prepares does not
\* stop it (TLC's trace); and a request that passed its own check of the flag waits
\* for its body or for loadMu and loads after the seal.
SealFixesModel == [][sealed => model' = model]_vars
=============================================================================
