------------------------- MODULE ControlPlaneProofs -------------------------
(***************************************************************************)
(* Proofs about ControlPlane, for any number of handlers, any models and   *)
(* any set of requests.                                                    *)
(***************************************************************************)
EXTENDS ControlPlane, FiniteSetTheorems, TLAPS

GuardedPCs == {"setting", "guard", "serve", "attest", "report", "probed"}
SealPCs    == {"sealReady", "egress", "latch"}
LockPCs    == {"loading", "starting"}

\* What holds of every goroutine: its request is one its code can serve, and what it
\* has established before it went on cannot have been undone.
ThreadInv(t) ==
  /\ pc[t] \in GuardedPCs => req[t].kind = "guarded" /\ req[t].endpoint \in Endpoints
  /\ pc[t] \in LoadPCs => req[t].model \in Models
  /\ pc[t] \in SealPCs \union {"setting", "guard"} => enrolled
  /\ pc[t] = "latch" => egress = "blocked"
  /\ pc[t] = "guard" /\ setting[t] = "public" => wasOpen[t] \/ sealed
  /\ pc[t] \in {"serve", "attest", "report", "probed"} /\ ~authed[t] => wasOpen[t]

\* The goroutine that holds loadMu is where the supervisor says the load is.
LoaderInPhase ==
  /\ phase \in {"idle", "check", "start"}
  /\ loader \in Threads \union {Nobody}
  /\ phase = "idle" <=> loader = Nobody
  /\ ready => phase = "idle" /\ model # NoModel
  /\ phase = "start" => model \in Models
  /\ \A t \in Threads : /\ pc[t] = "loading" <=> loader = t /\ phase = "check"
                        /\ pc[t] = "starting" <=> loader = t /\ phase = "start"

\* The types the argument needs.
LocalTypes ==
  /\ pc \in [Threads -> PCs]
  /\ req \in [Threads -> Requests \union LoadRequest \union {NoRequest}]
  /\ setting \in [Threads -> Settings]
  /\ authed \in [Threads -> BOOLEAN]
  /\ policy \in [Endpoints -> Settings]
  /\ egress \in {"open", "blocked"}
  /\ enrolled \in BOOLEAN
  /\ sealed \in BOOLEAN

\* The inductive invariant.
IInv ==
  /\ LocalTypes
  /\ \A t \in Threads : ThreadInv(t)
  /\ LoaderInPhase
  /\ SealedIsBlocked

LEMMA InitIInv == Init => IInv
  <1> SUFFICES ASSUME Init PROVE IInv
    OBVIOUS
  <1> USE DEF Init, Engine!ContractInit
  <1>1. LocalTypes
    <2>1. pc \in [Threads -> PCs]
      BY DEF PCs, LoadPCs
    <2>2. \A m \in Models :
            [kind |-> "load", model |-> m, expose |-> FALSE, signed |-> FALSE] \in LoadRequest
      BY DEF LoadRequest
    <2>3. req \in [Threads -> Requests \union LoadRequest \union {NoRequest}]
      BY <2>2
    <2>4. policy \in [Endpoints -> Settings] /\ setting \in [Threads -> Settings]
      BY DEF Settings
    <2> QED
      BY <2>1, <2>3, <2>4 DEF LocalTypes
  <1>2. \A t \in Threads : pc[t] \in {"idle", "loadWait"}
    OBVIOUS
  <1>3. \A t \in Threads : ThreadInv(t)
    BY <1>2 DEF ThreadInv, GuardedPCs, SealPCs, LoadPCs
  <1>4. LoaderInPhase
    BY <1>2, ThreadAssumption DEF LoaderInPhase, Threads
  <1> QED
    BY <1>1, <1>3, <1>4 DEF IInv, SealedIsBlocked

\* A guarded request names an endpoint, a load request a model.
LEMMA RequestShape ==
  ASSUME NEW r \in Requests
  PROVE  /\ r.kind = "guarded" => r.endpoint \in Endpoints
         /\ r.kind = "load" => r.model \in Models
  BY RequestsAssumption DEF GuardedRequest, SealRequest, LoadRequest, PolicyRequest, EnrollRequest

\* What the history variable records in a step of a handler.
LEMMA ObserveFacts ==
  ASSUME ObserveOpen
  PROVE  /\ \A t \in Threads : wasOpen[t] /\ req'[t].kind = "guarded" => wasOpen'[t]
         /\ \A t \in Threads, e \in Endpoints :
              req'[t].kind = "guarded" /\ req'[t].endpoint = e /\ IsOpen(e) => wasOpen'[t]
  BY DEF ObserveOpen

\* Goroutine t moves, the locals of the others stay.
Moves(t) ==
  /\ LocalTypes'
  /\ \A u \in Threads \ {t} : /\ pc'[u] = pc[u] /\ req'[u] = req[u]
                              /\ setting'[u] = setting[u] /\ authed'[u] = authed[u]

\* Enrollment, seal and egress block are latches.
Latches ==
  /\ enrolled => enrolled'
  /\ sealed => sealed'
  /\ egress = "blocked" => egress' = "blocked"

\* A step of t cannot falsify what another goroutine has established.
LEMMA OthersKeep ==
  ASSUME IInv, ObserveOpen, NEW t \in Threads, Moves(t), Latches,
         NEW u \in Threads \ {t}
  PROVE  ThreadInv(u)'
  <1>1. ThreadInv(u) /\ pc'[u] = pc[u] /\ req'[u] = req[u] /\ setting'[u] = setting[u]
          /\ authed'[u] = authed[u]
    BY DEF IInv, Moves
  <1>2. wasOpen[u] /\ req'[u].kind = "guarded" => wasOpen'[u]
    BY ObserveFacts
  <1> QED
    BY <1>1, <1>2 DEF ThreadInv, Latches, GuardedPCs

\* A step outside the load path leaves the load where it is.
LEMMA LoaderStays ==
  ASSUME IInv, NEW t \in Threads, Moves(t), UNCHANGED <<phase, model, exposed, ready, loader>>,
         pc[t] \notin LockPCs, pc'[t] \notin LockPCs
  PROVE  LoaderInPhase'
  BY DEF IInv, LoaderInPhase, Moves, LockPCs

\* A step of goroutine t outside the load path preserves the invariant when it leaves
\* t itself in order.
LEMMA MoveKeeps ==
  ASSUME IInv, ObserveOpen, NEW t \in Threads, Moves(t), Latches,
         UNCHANGED <<phase, model, exposed, ready, loader>>,
         pc[t] \notin LockPCs, pc'[t] \notin LockPCs, ThreadInv(t)', SealedIsBlocked'
  PROVE  IInv'
  <1>1. LoaderInPhase'
    BY LoaderStays
  <1>2. \A u \in Threads : ThreadInv(u)'
    BY OthersKeep
  <1> QED
    BY <1>1, <1>2 DEF IInv, Moves

\* The first step of a handler.
LEMMA ReceiveIInv ==
  ASSUME IInv, ObserveOpen, NEW t \in Handlers, NEW r \in Requests, Receive(t, r)
  PROVE  IInv'
  <1> USE DEF authVars, engineVars, localVars, answerVars, Goto, Answer, Refuse, Arrive
  <1>1. t \in Threads /\ pc \in [Threads -> PCs] /\ req' = [req EXCEPT ![t] = r] /\ pc[t] = "idle"
    BY DEF Threads, IInv, LocalTypes, Receive, GuardEnrolment, SealCheck, LoadCheck, PolicyCheck,
           EnrollKey
  <1>2. PICK l \in {"setting", "serve", "sealReady", "loadWait", "update", "docKey", "done"} :
          pc' = [pc EXCEPT ![t] = l]
    BY DEF Receive, GuardEnrolment, SealCheck, LoadCheck, PolicyCheck, EnrollKey
  <1>3. /\ UNCHANGED <<setting, authed, policy, egress, sealed, phase, model, exposed, ready, loader>>
        /\ enrolled' \in BOOLEAN /\ (enrolled => enrolled')
    BY DEF Receive, GuardEnrolment, SealCheck, LoadCheck, PolicyCheck, EnrollKey, IInv, LocalTypes
  <1>4. Moves(t) /\ Latches /\ SealedIsBlocked'
    BY <1>1, <1>2, <1>3 DEF Moves, Latches, IInv, LocalTypes, SealedIsBlocked, PCs, LoadPCs
  <1>5. pc'[t] = l /\ req'[t] = r
    BY <1>1, <1>2 DEF IInv, LocalTypes
  <1>6. /\ l \in {"setting", "serve"} => r.kind = "guarded" /\ r.endpoint \in Endpoints
        /\ l = "loadWait" => r.model \in Models
    BY <1>1, <1>5, RequestShape DEF Receive, GuardEnrolment, SealCheck, LoadCheck, PolicyCheck,
                                    EnrollKey, IInv, LocalTypes
  <1>7. l \in {"setting", "sealReady"} => enrolled'
    BY <1>1, <1>5 DEF Receive, GuardEnrolment, SealCheck, LoadCheck, PolicyCheck, EnrollKey,
                      Verifies, IInv, LocalTypes
  <1>8. l = "serve" => wasOpen'[t]
    <2>1. ASSUME l = "serve" PROVE ~enrolled /\ r.endpoint \in PreEnrolment
      BY <1>1, <1>5, <2>1 DEF Receive, GuardEnrolment, SealCheck, LoadCheck, PolicyCheck,
                              EnrollKey, IInv, LocalTypes
    <2> QED
      BY <1>1, <1>5, <1>6, <2>1, ObserveFacts DEF IsOpen
  <1>9. ThreadInv(t)'
    BY <1>5, <1>6, <1>7, <1>8 DEF ThreadInv, GuardedPCs, SealPCs, LoadPCs
  <1> QED
    BY <1>1, <1>3, <1>4, <1>5, <1>9, MoveKeeps DEF LockPCs

\* The guard's two reads.
LEMMA GuardIInv ==
  ASSUME IInv, ObserveOpen, NEW t \in Threads, GuardStep(t)
  PROVE  IInv'
  <1> USE DEF authVars, engineVars, localVars, answerVars, Goto, Answer, Refuse
  <1>0. /\ ThreadInv(t) /\ pc \in [Threads -> PCs] /\ pc[t] \in {"setting", "guard"}
        /\ req'[t] = req[t] /\ req[t].kind = "guarded" /\ req[t].endpoint \in Endpoints /\ enrolled
    BY DEF IInv, LocalTypes, GuardStep, GuardSetting, GuardSealed, ThreadInv, GuardedPCs
  <1>1. /\ UNCHANGED <<enrolled, sealed, policy, egress, phase, model, exposed, ready, loader, req>>
        /\ Latches /\ SealedIsBlocked'
    BY DEF GuardStep, GuardSetting, GuardSealed, Latches, IInv, SealedIsBlocked
  <1>2. CASE GuardSetting(t)
    <2>1. Moves(t) /\ pc'[t] = "guard" /\ setting'[t] = policy[req[t].endpoint]
      BY <1>0, <1>1, <1>2 DEF GuardSetting, Moves, IInv, LocalTypes, PCs
    <2>2. setting'[t] = "public" => wasOpen'[t] \/ sealed'
      BY <1>0, <1>1, <2>1, ObserveFacts DEF IsOpen
    <2>3. ThreadInv(t)'
      BY <1>0, <1>1, <2>1, <2>2 DEF ThreadInv, GuardedPCs, SealPCs, LoadPCs
    <2> QED
      BY <1>0, <1>1, <2>1, <2>3, MoveKeeps DEF LockPCs
  <1>3. CASE GuardSealed(t)
    <2>1. Moves(t) /\ pc'[t] \in {"serve", "done"}
      BY <1>0, <1>1, <1>3 DEF GuardSealed, Moves, IInv, LocalTypes, PCs
    <2>2. pc'[t] = "serve" /\ ~authed'[t] => wasOpen'[t]
      <3>1. ASSUME pc'[t] = "serve", ~authed'[t] PROVE ~RequiresAuth(t)
        BY <1>0, <1>3, <3>1 DEF GuardSealed, IInv, LocalTypes
      <3>2. ASSUME ~RequiresAuth(t) PROVE wasOpen[t]
        BY <1>0, <1>3, <3>2 DEF GuardSealed, RequiresAuth, ThreadInv, IInv, LocalTypes, Settings
      <3> QED
        BY <1>0, <3>1, <3>2, ObserveFacts
    <2>3. ThreadInv(t)'
      BY <1>0, <1>1, <2>1, <2>2 DEF ThreadInv, GuardedPCs, SealPCs, LoadPCs
    <2> QED
      BY <1>0, <1>1, <2>1, <2>3, MoveKeeps DEF LockPCs
  <1> QED
    BY <1>2, <1>3 DEF GuardStep

\* The handlers behind the guard.
LEMMA ServeIInv ==
  ASSUME IInv, ObserveOpen, NEW t \in Threads, ServeStep(t)
  PROVE  IInv'
  <1> USE DEF authVars, engineVars, localVars, answerVars, Goto, Answer, Refuse
  <1>1. /\ UNCHANGED <<enrolled, sealed, policy, egress, phase, model, exposed, ready, loader, req,
                       setting, authed>>
        /\ pc[t] \in {"serve", "attest", "report", "probed"}
        /\ \E l \in {"attest", "report", "probed", "done"} : pc' = [pc EXCEPT ![t] = l]
    BY DEF ServeStep, ServeCertificate, ServeDocument, TakeSlot, Attest, HealthShow, HealthReport,
           ProbeEgress, ProbeReport
  <1>2. Moves(t) /\ Latches /\ SealedIsBlocked' /\ pc'[t] \in {"attest", "report", "probed", "done"}
    BY <1>1 DEF Moves, Latches, IInv, LocalTypes, SealedIsBlocked, PCs
  <1>3. ThreadInv(t)'
    BY <1>1, <1>2, ObserveFacts DEF IInv, ThreadInv, GuardedPCs, SealPCs, LoadPCs
  <1> QED
    BY <1>1, <1>2, <1>3, MoveKeeps DEF LockPCs

\* The seal handler after authentication.
LEMMA SealIInv ==
  ASSUME IInv, ObserveOpen, NEW t \in Threads, SealStep(t)
  PROVE  IInv'
  <1> USE DEF authVars, engineVars, localVars, answerVars, Goto, Answer, Refuse
  <1>0. ThreadInv(t) /\ pc \in [Threads -> PCs]
    BY DEF IInv, LocalTypes
  <1>1. /\ UNCHANGED <<enrolled, policy, phase, model, exposed, ready, loader, req, setting, authed>>
        /\ pc[t] \in SealPCs \union {"sealAnswer"}
        /\ \E l \in {"egress", "latch", "sealAnswer", "done"} : pc' = [pc EXCEPT ![t] = l]
    BY DEF SealStep, SealReady, SealEgress, SealLatch, SealAnswer, SealPCs
  <1>2. /\ egress' \in {egress, "blocked"} /\ sealed' \in BOOLEAN /\ (sealed => sealed')
        /\ pc'[t] = "latch" => egress' = "blocked"
        /\ pc'[t] = "egress" => enrolled
        /\ SealedIsBlocked'
    <2>1. CASE SealReady(t) \/ SealAnswer(t)
      BY <1>0, <2>1 DEF SealReady, SealAnswer, SealedIsBlocked, IInv, LocalTypes, ThreadInv, SealPCs
    <2>2. CASE SealEgress(t)
      BY <1>0, <2>2 DEF SealEgress, SealedIsBlocked, IInv, LocalTypes
    <2>3. CASE SealLatch(t)
      BY <1>0, <2>3 DEF SealLatch, SealedIsBlocked, IInv, LocalTypes, ThreadInv, SealPCs
    <2> QED
      BY <2>1, <2>2, <2>3 DEF SealStep
  <1>3. Moves(t) /\ Latches /\ pc'[t] \in {"egress", "latch", "sealAnswer", "done"}
    BY <1>1, <1>2 DEF Moves, Latches, IInv, LocalTypes, PCs
  <1>4. pc'[t] = "latch" => enrolled'
    BY <1>0, <1>1, <1>3 DEF SealStep, SealReady, SealEgress, SealLatch, SealAnswer, ThreadInv, SealPCs
  <1>5. ThreadInv(t)'
    BY <1>1, <1>2, <1>3, <1>4 DEF ThreadInv, GuardedPCs, SealPCs, LoadPCs
  <1> QED
    BY <1>1, <1>2, <1>3, <1>5, MoveKeeps DEF LockPCs, SealPCs

\* Loading, seen from the control plane.
LEMMA LoadIInv ==
  ASSUME IInv, ObserveOpen, NEW t \in Threads, LoadBegin(t) \/ LoadStep(t)
  PROVE  IInv'
  <1> USE DEF authVars, localVars, answerVars, Goto, Answer, Refuse
  <1>0. ThreadInv(t) /\ pc \in [Threads -> PCs] /\ Nobody # t
    BY ThreadAssumption DEF IInv, LocalTypes, Threads
  <1>1. /\ UNCHANGED <<enrolled, sealed, policy, egress, req, setting, authed>>
        /\ pc[t] \in LoadPCs
        /\ \E l \in {"loading", "starting", "done"} : pc' = [pc EXCEPT ![t] = l]
    BY DEF LoadBegin, LoadStep, LoadCommit, LoadEnds, LoadPCs
  <1>2. Moves(t) /\ Latches /\ SealedIsBlocked' /\ pc'[t] \in {"loading", "starting", "done"}
    BY <1>1 DEF Moves, Latches, IInv, LocalTypes, SealedIsBlocked, PCs, LoadPCs
  <1>3. ThreadInv(t)'
    BY <1>0, <1>1, <1>2 DEF ThreadInv, GuardedPCs, SealPCs, LoadPCs
  <1>4. \A u \in Threads \ {t} : pc'[u] = pc[u]
    BY <1>2 DEF Moves
  <1>5. LoaderInPhase'
    <2>1. CASE LoadBegin(t)
      BY <1>0, <1>4, <2>1 DEF LoadBegin, Engine!Begin, IInv, LoaderInPhase
    <2>2. CASE LoadCommit(t)
      BY <1>0, <1>4, <2>2 DEF LoadCommit, Engine!Commit, IInv, LoaderInPhase, ThreadInv, LoadPCs
    <2>3. CASE LoadEnds(t)
      BY <1>0, <1>4, <2>3, ModelAssumption
      DEF LoadEnds, Engine!Reject, Engine!Fail, Engine!Succeed, IInv, LoaderInPhase
    <2> QED
      BY <2>1, <2>2, <2>3 DEF LoadStep
  <1>6. \A u \in Threads : ThreadInv(u)'
    BY <1>2, <1>3, OthersKeep
  <1> QED
    BY <1>2, <1>5, <1>6 DEF IInv, Moves

\* The policy update, the end of enrollment, and the end of a request.
LEMMA LastStepIInv ==
  ASSUME IInv, ObserveOpen, NEW t \in Threads,
         UpdatePolicy(t) \/ NameKeyInDocument(t) \/ Return(t)
  PROVE  IInv'
  <1> USE DEF authVars, engineVars, localVars, answerVars, Goto, Answer, Refuse
  <1>1. /\ UNCHANGED <<enrolled, sealed, egress, phase, model, exposed, ready, loader>>
        /\ pc[t] \in {"update", "docKey", "done"}
        /\ \E l \in {"idle", "done"} : pc' = [pc EXCEPT ![t] = l]
        /\ setting' \in {setting, [setting EXCEPT ![t] = "public"]}
        /\ authed' \in {authed, [authed EXCEPT ![t] = FALSE]}
        /\ req' \in {req, [req EXCEPT ![t] = NoRequest]}
    BY DEF UpdatePolicy, NameKeyInDocument, Return
  <1>2. policy' \in [Endpoints -> Settings]
    BY DEF UpdatePolicy, Updated, NameKeyInDocument, Return, IInv, LocalTypes
  <1>3. Moves(t) /\ Latches /\ SealedIsBlocked' /\ pc'[t] \in {"idle", "done"}
    <2>1. LocalTypes' /\ pc'[t] \in {"idle", "done"}
      BY <1>1, <1>2 DEF IInv, LocalTypes, PCs, Settings
    <2>2. \A u \in Threads \ {t} : /\ pc'[u] = pc[u] /\ req'[u] = req[u]
                                  /\ setting'[u] = setting[u] /\ authed'[u] = authed[u]
      BY <1>1 DEF IInv, LocalTypes
    <2>3. Latches /\ SealedIsBlocked'
      BY <1>1 DEF IInv, Latches, SealedIsBlocked
    <2> QED
      BY <2>1, <2>2, <2>3 DEF Moves
  <1>4. ThreadInv(t)'
    BY <1>3 DEF ThreadInv, GuardedPCs, SealPCs, LoadPCs
  <1> QED
    BY <1>1, <1>3, <1>4, MoveKeeps DEF LockPCs

LEMMA NextIInv == IInv /\ [Next]_vars => IInv'
  <1> SUFFICES ASSUME IInv, [Next]_vars PROVE IInv'
    OBVIOUS
  <1>1. ASSUME NEW t \in Handlers, NEW r \in Requests, Receive(t, r), ObserveOpen PROVE IInv'
    BY <1>1, ReceiveIInv
  <1>2. ASSUME NEW t \in Threads, LoadBegin(t) \/ HandlerStep(t), ObserveOpen PROVE IInv'
    BY <1>2, GuardIInv, ServeIInv, SealIInv, LoadIInv, LastStepIInv DEF HandlerStep
  <1>3. ASSUME EngineLost, ObserveOpen PROVE IInv'
    <2>1. /\ UNCHANGED <<enrolled, sealed, egress, policy, pc, req, setting, authed, loader>>
          /\ UNCHANGED <<phase, model, exposed>> /\ ready' = FALSE
      BY <1>3 DEF EngineLost, Engine!Lose, authVars, localVars
    <2>2. LocalTypes' /\ LoaderInPhase' /\ SealedIsBlocked'
      BY <2>1 DEF IInv, LocalTypes, LoaderInPhase, SealedIsBlocked
    <2>3. \A t \in Threads : ThreadInv(t)'
      BY <1>3, <2>1, ObserveFacts DEF IInv, ThreadInv, GuardedPCs
    <2> QED
      BY <2>2, <2>3 DEF IInv
  <1>4. CASE UNCHANGED vars
    BY <1>4 DEF vars, authVars, engineVars, localVars, IInv, LocalTypes, LoaderInPhase,
                SealedIsBlocked, ThreadInv
  <1> QED
    BY <1>1, <1>2, <1>3, <1>4 DEF Next

-----------------------------------------------------------------------------
(* Types and slots                                                         *)

\* A goroutine on its way to a load has a request that says whether to expose it.
LoadsSayExpose ==
  \A t \in Threads : pc[t] \in LoadPCs => req[t].expose \in BOOLEAN

Attesting == {t \in Threads : pc[t] = "attest"}

\* Only finitely many requests hold a slot, however many goroutines there are, and
\* the channel holds one token for each.
SlotsInv == IsFiniteSet(Attesting) /\ slots = Cardinality(Attesting) /\ slots \in 0..Slots

\* Taking and giving back a slot keeps the account, and no other step touches it.
LEMMA NextSlots == LocalTypes /\ SlotsInv /\ [Next]_vars => SlotsInv'
  <1> SUFFICES ASSUME LocalTypes, SlotsInv, [Next]_vars PROVE SlotsInv'
    OBVIOUS
  <1> USE DEF LocalTypes, Goto, Answer, Refuse
  <1>0. slots \in Nat /\ Slots \in Nat /\ pc \in [Threads -> PCs]
    BY SlotAssumption DEF SlotsInv
  <1>1. ASSUME NEW t \in Threads, TakeSlot(t), slots' = slots + 1 PROVE SlotsInv'
    <2>1. Attesting' = Attesting \union {t} /\ t \notin Attesting /\ slots < Slots
      BY <1>0, <1>1 DEF TakeSlot, Attesting
    <2> QED
      BY <1>0, <1>1, <2>1, FS_AddElement DEF SlotsInv
  <1>2. ASSUME NEW t \in Threads, Attest(t) PROVE SlotsInv'
    <2>1. Attesting' = Attesting \ {t} /\ t \in Attesting /\ slots' = slots - 1
      BY <1>0, <1>2 DEF Attest, Attesting
    <2>2. slots # 0
      BY <2>1, FS_EmptySet DEF SlotsInv
    <2> QED
      <3>1. IsFiniteSet(Attesting \ {t}) /\ Cardinality(Attesting \ {t}) = Cardinality(Attesting) - 1
        BY <2>1, FS_RemoveElement DEF SlotsInv
      <3> QED
        BY <1>0, <2>1, <2>2, <3>1 DEF SlotsInv
  <1>3. ASSUME UNCHANGED slots, \A t \in Threads : pc[t] = "attest" <=> pc'[t] = "attest"
        PROVE  SlotsInv'
    <2>1. Attesting' = Attesting
      BY <1>3 DEF Attesting
    <2> QED
      BY <1>3, <2>1 DEF SlotsInv
  <1>4. ASSUME UNCHANGED slots, NEW t \in Threads, pc[t] # "attest",
               NEW l \in PCs \ {"attest"}, pc' = [pc EXCEPT ![t] = l]
        PROVE  SlotsInv'
    BY <1>0, <1>3, <1>4
  <1>5. ASSUME NEW t \in Handlers, NEW r \in Requests, Receive(t, r) PROVE SlotsInv'
    <2>1. t \in Threads /\ pc[t] # "attest" /\ UNCHANGED slots
      BY <1>5 DEF Threads, Receive, GuardEnrolment, SealCheck, LoadCheck, PolicyCheck, EnrollKey, Arrive
    <2>2. \E l \in {"setting", "serve", "sealReady", "loadWait", "update", "docKey", "done"} :
            pc' = [pc EXCEPT ![t] = l]
      BY <1>5 DEF Receive, GuardEnrolment, SealCheck, LoadCheck, PolicyCheck, EnrollKey
    <2> QED
      BY <1>4, <2>1, <2>2 DEF PCs, LoadPCs
  <1>6. ASSUME NEW t \in Threads, GuardStep(t) \/ SealStep(t) \/ LoadBegin(t) \/ LoadStep(t)
        PROVE  SlotsInv'
    BY <1>4, <1>6 DEF GuardStep, GuardSetting, GuardSealed, SealStep, SealReady, SealEgress, SealLatch,
                      SealAnswer, LoadBegin, LoadStep, LoadCommit, LoadEnds, PCs, LoadPCs
  <1>7. ASSUME NEW t \in Threads, ServeStep(t) PROVE SlotsInv'
    BY <1>1, <1>2, <1>4, <1>7
    DEF ServeStep, TakeSlot, ServeCertificate, ServeDocument, HealthShow, HealthReport, ProbeEgress,
        ProbeReport, PCs, LoadPCs
  <1>8. ASSUME NEW t \in Threads, UpdatePolicy(t) \/ NameKeyInDocument(t) \/ Return(t)
        PROVE  SlotsInv'
    BY <1>4, <1>8 DEF UpdatePolicy, NameKeyInDocument, Return, PCs, LoadPCs
  <1>9. CASE EngineLost \/ UNCHANGED vars
    BY <1>3, <1>9 DEF EngineLost, vars
  <1> QED
    BY <1>5, <1>6, <1>7, <1>8, <1>9 DEF Next, HandlerStep

\* The first step of a handler keeps the types.
LEMMA ReceiveTypes ==
  ASSUME TypeOK, LoadsSayExpose, ObserveOpen, NEW t \in Handlers, NEW r \in Requests, Receive(t, r)
  PROVE  TypeOK' /\ LoadsSayExpose'
  <1> USE DEF authVars, engineVars, localVars, answerVars, Goto, Answer, Refuse, Arrive
  <1>0. t \in Threads
    BY DEF Threads
  <1>1. /\ req' = [req EXCEPT ![t] = r] /\ enrolled' \in {enrolled, TRUE}
        /\ spent' \in {spent, [spent EXCEPT ![t] = TRUE]}
        /\ UNCHANGED <<docKey, sealed, egress, policy, slots, phase, model, exposed, ready, loader,
                       authed, setting, showModel>>
    BY DEF Receive, GuardEnrolment, SealCheck, LoadCheck, PolicyCheck, EnrollKey
  <1>2. PICK l \in {"setting", "serve", "sealReady", "loadWait", "update", "docKey", "done"} :
          pc' = [pc EXCEPT ![t] = l]
    BY DEF Receive, GuardEnrolment, SealCheck, LoadCheck, PolicyCheck, EnrollKey
  <1>3. /\ status' \in [Threads -> {"none", "ok", "refused"}]
        /\ shown' \in [Threads -> Models \union {NoModel}]
    BY <1>0 DEF Receive, GuardEnrolment, SealCheck, LoadCheck, PolicyCheck, EnrollKey, TypeOK
  <1>4. wasOpen' \in [Threads -> BOOLEAN]
    BY DEF ObserveOpen
  <1>5. TypeOK'
    BY <1>0, <1>1, <1>2, <1>3, <1>4 DEF TypeOK, PCs, LoadPCs
  <1>6. pc'[t] = l /\ req'[t] = r /\ \A u \in Threads \ {t} : pc'[u] = pc[u] /\ req'[u] = req[u]
    BY <1>0, <1>1, <1>2 DEF TypeOK
  <1>7. l \in LoadPCs => r.kind = "load"
    BY <1>0, <1>6 DEF Receive, GuardEnrolment, SealCheck, LoadCheck, PolicyCheck, EnrollKey, LoadPCs,
                      TypeOK
  <1>8. r.kind = "load" => r.expose \in BOOLEAN
    BY RequestsAssumption
    DEF GuardedRequest, SealRequest, LoadRequest, PolicyRequest, EnrollRequest
  <1> QED
    BY <1>5, <1>6, <1>7, <1>8 DEF LoadsSayExpose

\* The later steps of a handler keep the types.
LEMMA HandlerTypes ==
  ASSUME TypeOK, LoadsSayExpose, IInv, SlotsInv', ObserveOpen, NEW t \in Threads,
         LoadBegin(t) \/ HandlerStep(t)
  PROVE  TypeOK' /\ LoadsSayExpose'
  <1> USE DEF authVars, localVars, answerVars, Goto, Answer, Refuse, TypeOK
  <1>0. wasOpen' \in [Threads -> BOOLEAN]
    BY DEF ObserveOpen
  <1>1. IInv' /\ LocalTypes' /\ ThreadInv(t)
    BY GuardIInv, ServeIInv, SealIInv, LoadIInv, LastStepIInv DEF HandlerStep, IInv
  <1>2. CASE GuardStep(t)
    BY <1>0, <1>1, <1>2 DEF GuardStep, GuardSetting, GuardSealed, engineVars, LocalTypes,
                            LoadsSayExpose, LoadPCs
  <1>3. CASE ServeStep(t)
    <2>1. CASE TakeSlot(t) \/ Attest(t)
      <3>1. slots' \in 0..Slots
        BY DEF SlotsInv
      <3> QED
        BY <1>0, <1>1, <2>1, <3>1 DEF TakeSlot, Attest, engineVars, LocalTypes, LoadsSayExpose, LoadPCs
    <2>2. CASE HealthShow(t)
      BY <1>0, <1>1, <2>2 DEF HealthShow, Verifies, engineVars, LocalTypes, LoadsSayExpose, LoadPCs
    <2>3. CASE \/ ServeCertificate(t) \/ ServeDocument(t) \/ HealthReport(t)
               \/ ProbeEgress(t) \/ ProbeReport(t)
      BY <1>0, <1>1, <2>3 DEF ServeCertificate, ServeDocument, HealthReport, ProbeEgress, ProbeReport,
                              engineVars, LocalTypes, LoadsSayExpose, LoadPCs
    <2> QED
      BY <1>3, <2>1, <2>2, <2>3 DEF ServeStep
  <1>4. CASE SealStep(t)
    BY <1>0, <1>1, <1>4 DEF SealStep, SealReady, SealEgress, SealLatch, SealAnswer, engineVars,
                            LocalTypes, LoadsSayExpose, LoadPCs
  <1>5. CASE LoadBegin(t)
    BY <1>0, <1>1, <1>5 DEF LoadBegin, Engine!Begin, LocalTypes, LoadsSayExpose, LoadPCs
  <1>6. CASE LoadStep(t)
    <2>1. CASE LoadCommit(t)
      BY <1>0, <1>1, <2>1 DEF LoadCommit, Engine!Commit, LocalTypes, ThreadInv, LoadsSayExpose, LoadPCs
    <2>2. CASE LoadEnds(t)
      <3>1. pc' = [pc EXCEPT ![t] = "done"] /\ req' = req
        BY <2>2 DEF LoadEnds
      <3>2. /\ phase' = "idle" /\ model' = model /\ exposed' = exposed /\ ready' \in {ready, TRUE}
            /\ loader' = Nobody
            /\ UNCHANGED <<enrolled, docKey, sealed, egress, policy, slots, spent, authed, setting,
                           showModel>>
        BY <2>2 DEF LoadEnds, Engine!Reject, Engine!Fail, Engine!Succeed
      <3>3. /\ status' \in [Threads -> {"none", "ok", "refused"}]
            /\ shown' \in [Threads -> Models \union {NoModel}]
        BY <2>2 DEF LoadEnds
      <3>4. TypeOK'
        BY <1>0, <1>1, <3>2, <3>3 DEF LocalTypes
      <3> QED
        BY <3>1, <3>4 DEF LoadsSayExpose, LoadPCs
    <2> QED
      BY <1>6, <2>1, <2>2 DEF LoadStep
  <1>7. CASE UpdatePolicy(t) \/ NameKeyInDocument(t) \/ Return(t)
    <2>1. CASE UpdatePolicy(t)
      BY <1>0, <1>1, <2>1 DEF UpdatePolicy, engineVars, LocalTypes, LoadsSayExpose, LoadPCs
    <2>2. CASE NameKeyInDocument(t)
      BY <1>0, <1>1, <2>2, ReportAssumption DEF NameKeyInDocument, engineVars, LocalTypes,
                                                LoadsSayExpose, LoadPCs
    <2>3. CASE Return(t)
      BY <1>0, <1>1, <2>3 DEF Return, engineVars, LocalTypes, LoadsSayExpose, LoadPCs
    <2> QED
      BY <1>7, <2>1, <2>2, <2>3
  <1> QED
    BY <1>2, <1>3, <1>4, <1>5, <1>6, <1>7 DEF HandlerStep

LEMMA InitTypes == Init => TypeOK /\ LoadsSayExpose /\ SlotsInv
  <1> SUFFICES ASSUME Init PROVE TypeOK /\ LoadsSayExpose /\ SlotsInv
    OBVIOUS
  <1>1. LocalTypes
    BY InitIInv DEF IInv
  <1>2. TypeOK
    <2>1. {enrolled, docKey, sealed, exposed, ready} \subseteq BOOLEAN /\ slots \in 0..Slots
      <3>1. docKey \in BOOLEAN
        BY ReportAssumption DEF Init
      <3>2. slots \in 0..Slots
        BY SlotAssumption DEF Init
      <3>3. {enrolled, sealed, exposed, ready} \subseteq BOOLEAN
        BY DEF Init, Engine!ContractInit
      <3> QED
        BY <3>1, <3>2, <3>3
    <2>2. model \in Models \union {NoModel} /\ loader \in Threads \union {Nobody} /\ phase = "idle"
      BY DEF Init, Engine!ContractInit
    <2>3. /\ spent \in [Threads -> BOOLEAN] /\ showModel \in [Threads -> BOOLEAN]
          /\ status \in [Threads -> {"none", "ok", "refused"}]
          /\ shown \in [Threads -> Models \union {NoModel}]
          /\ wasOpen \in [Threads -> BOOLEAN]
      BY DEF Init
    <2> QED
      BY <1>1, <2>1, <2>2, <2>3 DEF LocalTypes, TypeOK
  <1>3. LoadsSayExpose
    <2>1. CASE pc = [t \in Threads |-> "idle"]
      BY <2>1 DEF LoadsSayExpose, LoadPCs
    <2>2. ASSUME NEW m \in Models,
                 pc = [t \in Threads |-> IF t = Boot THEN "loadWait" ELSE "idle"],
                 req = [t \in Threads |->
                          IF t = Boot
                          THEN [kind |-> "load", model |-> m, expose |-> FALSE, signed |-> FALSE]
                          ELSE NoRequest]
          PROVE  LoadsSayExpose
      BY <2>2 DEF LoadsSayExpose, LoadPCs
    <2> QED
      BY <2>1, <2>2 DEF Init
  <1>4. Attesting = {}
    BY DEF Init, Attesting
  <1> QED
    BY <1>2, <1>3, <1>4, FS_EmptySet DEF SlotsInv, TypeOK, Init

LEMMA NextTypes ==
  IInv /\ TypeOK /\ LoadsSayExpose /\ SlotsInv /\ [Next]_vars
    => TypeOK' /\ LoadsSayExpose' /\ SlotsInv'
  <1> SUFFICES ASSUME IInv, TypeOK, LoadsSayExpose, SlotsInv, [Next]_vars
               PROVE  TypeOK' /\ LoadsSayExpose' /\ SlotsInv'
    OBVIOUS
  <1>0. SlotsInv'
    BY NextSlots DEF IInv
  <1>1. ASSUME NEW t \in Handlers, NEW r \in Requests, Receive(t, r), ObserveOpen
        PROVE  TypeOK' /\ LoadsSayExpose'
    BY <1>1, ReceiveTypes
  <1>2. ASSUME NEW t \in Threads, LoadBegin(t) \/ HandlerStep(t), ObserveOpen
        PROVE  TypeOK' /\ LoadsSayExpose'
    BY <1>0, <1>2, HandlerTypes
  <1>3. ASSUME EngineLost, ObserveOpen PROVE TypeOK' /\ LoadsSayExpose'
    BY <1>3 DEF EngineLost, Engine!Lose, ObserveOpen, TypeOK, LoadsSayExpose, authVars, localVars,
                answerVars
  <1>4. CASE UNCHANGED vars
    <2>1. TypeOK'
      <3>1. UNCHANGED <<enrolled, docKey, sealed, egress, policy, slots, phase, model, exposed, ready,
                        loader, pc, req, spent, authed, setting, showModel, status, shown, wasOpen>>
        BY <1>4 DEF vars, authVars, engineVars, localVars, answerVars
      <3> QED
        BY <3>1 DEF TypeOK
    <2>2. LoadsSayExpose'
      BY <1>4 DEF vars, LoadsSayExpose
    <2> QED
      BY <1>0, <2>1, <2>2
  <1> QED
    BY <1>0, <1>1, <1>2, <1>3, <1>4 DEF Next

-----------------------------------------------------------------------------
\* The inductive invariant holds in every reachable state of the control plane.
THEOREM IInvHolds == Spec => []IInv
  BY InitIInv, NextIInv, PTL DEF Spec

\* A node that reports itself sealed has its egress blocked and its owner enrolled.
THEOREM SealIsEffective == Spec => []SealedIsBlocked
  <1>1. IInv => SealedIsBlocked
    BY DEF IInv
  <1> QED
    BY <1>1, IInvHolds, PTL

\* The guard's three unsynchronised reads never let an unauthenticated request through
\* to an endpoint that was closed all the time.
THEOREM GuardIsSound == Spec => []ServedOnlyWhenOpen
  <1>1. IInv => ServedOnlyWhenOpen
    BY DEF IInv, ThreadInv, ServedOnlyWhenOpen, Threads
  <1> QED
    BY <1>1, IInvHolds, PTL

\* loadMu admits one load, and a ready node has a model and no load under way.
THEOREM LoadsAreExclusive == Spec => []OneLoadAtATime
  <1>1. IInv => OneLoadAtATime
    BY ThreadAssumption DEF IInv, LoaderInPhase, OneLoadAtATime, Threads
  <1> QED
    BY <1>1, IInvHolds, PTL
\* The variables keep their types in every reachable state: the supervisor's model is
\* one that was asked for, and the semaphore never holds more than its capacity.
THEOREM TypeCorrect == Spec => []TypeOK
  BY InitIInv, NextIInv, InitTypes, NextTypes, PTL DEF Spec

\* A slot of attestationSem is taken for exactly the requests that collect evidence:
\* no path through the handler, refusals and malformed nonces included, loses one.
THEOREM SlotsAccounted == Spec => []SlotsAreAccounted
  <1>1. SlotsInv => SlotsAreAccounted
    BY DEF SlotsInv, SlotsAreAccounted, Attesting
  <1> QED
    BY <1>1, InitIInv, NextIInv, InitTypes, NextTypes, PTL DEF Spec

=============================================================================
