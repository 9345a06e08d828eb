----------------------- MODULE EngineSupervisorProofs -----------------------
(***************************************************************************)
(* Proofs about EngineSupervisor, for any number of engines, any requests, *)
(* any failure limit.                                                      *)
(***************************************************************************)
EXTENDS EngineSupervisor, TLAPS

\* From the start of LoadModel until the new command is published there is no
\* current command.
LoaderHoldsNoCmd ==
  pc \in {"killOld", "clear", "check", "prepare", "publish"} => currentCmd = Nil

\* The current command is the latest one started.
CmdIsLatest == currentCmd \in {Nil, started}

\* Readiness is raised by the last step of LoadModel and lowered by its first.
ReadyOnlyWhenIdle == engineReady => pc = "idle"

\* What is reported is what the engine about to start, or starting, is given.
CommittedSpec ==
  /\ pc = "prepare" =>
       currentModel = spec.model /\ exposeInHealth = spec.expose
  /\ pc \in {"publish", "await", "abort", "reap"} =>
       /\ started # 0
       /\ currentModel = runs[started].model
       /\ exposeInHealth = runs[started].expose

\* A caller that is not inside killProcessGroup has no target, so a new call
\* never makes it forget an engine.
IdleKillersHaveNoTarget ==
  /\ pc \notin {"killOld", "abort"} => target[Loader] = Nil
  /\ \A g \in Engines : prober[g] # "kill" => target[g] = Nil

\* Only an engine that became ready has a prober.
NoProberBeforeReady ==
  \A g \in Engines :
    prober[g] # "none" =>
      \/ g < started
      \/ g = started /\ pc \notin {"publish", "await", "abort", "reap"}

\* A call that got as far as SIGKILL has sent it.
KillIsRecorded == \A k \in Killers : stage[k] = "kill" => target[k] \in sigkilled

\* A leader that ended was on somebody's list, or is recorded as crashed.
ExitIsExplained ==
  \A g \in Engines : Exited(g) => g \in crashed \/ Condemned(g)

\* The inductive invariant.
IInv ==
  /\ TypeOK
  /\ LoaderHoldsNoCmd
  /\ CmdIsLatest
  /\ ReadyOnlyWhenIdle
  /\ CommittedSpec
  /\ IdleKillersHaveNoTarget
  /\ NoProberBeforeReady
  /\ KillIsRecorded
  /\ ExitIsExplained
  /\ NoOrphanEngine
  /\ ReadyReportsServedModel
  /\ ReadyEngineIsMonitored

-----------------------------------------------------------------------------
\* The engine numbers: what the steps below need of 1..MaxEngines.
LEMMA EngineFacts ==
  /\ Nil = 0 /\ Nil \in Cmds /\ Loader \in Killers /\ 0 \in 0..MaxEngines
  /\ \A g \in Engines : g \in Cmds /\ g \in Killers /\ g # Nil /\ g # Loader
  /\ \A c \in Cmds : c # Nil => c \in Engines
  /\ \A n \in 0..MaxEngines : n \in Cmds
  /\ \A n \in 0..MaxEngines : n < MaxEngines => n + 1 \in 0..MaxEngines /\ n + 1 \in Engines
  /\ \A n \in 0..FailureLimit : n + 1 < FailureLimit => n + 1 \in 0..FailureLimit
  /\ 0 \in 0..FailureLimit /\ FailureLimit \in 0..FailureLimit
  BY EnginesAssumption, LimitAssumption DEF Cmds, Killers, Engines, Nil, Loader

\* Type correctness of the initial state of the supervisor.
LEMMA InitTypeOK == Init => TypeOK
  <1> SUFFICES ASSUME Init PROVE TypeOK
    OBVIOUS
  <1>1. fatalError \in {"none", "noGPU", "unresponsive"}
    BY DEF Init
  <1> QED
    BY <1>1, EngineFacts DEF Init, TypeOK, PCs

\* Every step of every goroutine of the supervisor preserves the types.
LEMMA NextTypeOK == TypeOK /\ [Next]_vars => TypeOK'
  <1> SUFFICES ASSUME TypeOK, [Next]_vars PROVE TypeOK'
    OBVIOUS
  <1> USE EngineFacts DEF TypeOK, PCs, loaderVars, shownVars, procVars, killVars, probeVars
  <1>0. CancelLiveness => cancelled' \subseteq Engines /\ livenessCancel' \in Cmds
    BY DEF CancelLiveness
  <1>1. ASSUME NEW req \in Requests, LoadModel(req) PROVE TypeOK'
    <2>1. cancelled' \subseteq Engines /\ livenessCancel' \in Cmds
      BY <1>0, <1>1 DEF LoadModel
    <2>2. spec' \in ModelSpec
      BY <1>1, RequestsAssumption DEF LoadModel
    <2>3. stage' \in [Killers -> {"off", "send", "term", "kill"}] /\ target' \in [Killers -> Cmds]
          /\ sigkilled' = sigkilled /\ pc' \in {"killOld", "check"}
      BY <1>1 DEF LoadModel, KillBegins
    <2> QED
      BY <1>1, <2>1, <2>2, <2>3 DEF LoadModel
  <1>2. CASE OldEngineKilled
    BY <1>2 DEF OldEngineKilled, KillReturns, Running, Exited
  <1>3. CASE RejectSpec \/ VRAMCleared \/ CommitSpec \/ RefuseWithoutGPU \/ LaunchFails
    BY <1>3 DEF RejectSpec, VRAMCleared, CommitSpec, RefuseWithoutGPU, LaunchFails, LoadReturns,
                NoSpec, ModelSpec
  <1>4. CASE StartEngine
    BY <1>4 DEF StartEngine
  <1>5. CASE PublishCmd \/ PollAnswered
    BY <1>5 DEF PublishCmd, PollAnswered
  <1>6. CASE EngineBecomesReady
    BY <1>6 DEF EngineBecomesReady, LoadReturns
  <1>7. CASE ExitsPrematurely \/ ReapAborted
    BY <1>7 DEF ExitsPrematurely, ReapAborted, CancelLiveness, ForgetCmd, LoadReturns
  <1>8. CASE CtxDone \/ StartTimeout
    BY <1>8 DEF CtxDone, StartTimeout, AbortStart, KillBegins
  <1>9. CASE StartAborted
    BY <1>9 DEF StartAborted, KillReturns, Running, Exited
  <1>10. ASSUME NEW k \in Killers, KillSignals(k) PROVE TypeOK'
    BY <1>10 DEF KillSignals, Running
  <1>11. ASSUME NEW g \in Engines, EngineExits(g) \/ WorkersExit(g) PROVE TypeOK'
    BY <1>11 DEF EngineExits, WorkersExit
  <1>12. ASSUME NEW g \in Engines, ProberCancelled(g) \/ ProberTick(g) PROVE TypeOK'
    BY <1>12 DEF ProberCancelled, ProberTick
  <1>13. ASSUME NEW g \in Engines, ProbeSucceeds(g) \/ ProbeFails(g) PROVE TypeOK'
    <2>1. CASE ProbeSucceeds(g)
      BY <2>1 DEF ProbeSucceeds
    <2>2. CASE ProbeFails(g)
      <3>1. fails[g] + 1 \in 0..FailureLimit
        BY <2>2 DEF ProbeFails
      <3>2. fails' = [fails EXCEPT ![g] = fails[g] + 1]
        BY <2>2 DEF ProbeFails
      <3> QED
        BY <2>2, <3>1, <3>2 DEF ProbeFails
    <2> QED
      BY <1>13, <2>1, <2>2
  <1>14. ASSUME NEW g \in Engines, ProbeTrips(g) PROVE TypeOK'
    <2>1. CASE currentCmd = Nil
      BY <1>14, <2>1 DEF ProbeTrips
    <2>2. CASE currentCmd # Nil
      <3>1. /\ stage' = [stage EXCEPT ![g] = "send"]
            /\ target' = [target EXCEPT ![g] = currentCmd]
            /\ prober' = [prober EXCEPT ![g] = "kill"]
            /\ fails' = [fails EXCEPT ![g] = FailureLimit]
            /\ currentCmd' = Nil /\ engineReady' = FALSE /\ fatalError' = "unresponsive"
            /\ UNCHANGED <<sigkilled, loaderVars, livenessCancel, shownVars, recent,
                           procVars, cancelled, monitor>>
        BY <1>14, <2>2 DEF ProbeTrips, KillBegins
      <3> QED
        BY <3>1
    <2> QED
      BY <2>1, <2>2
  <1>15. ASSUME NEW g \in Engines, ProberKilled(g) PROVE TypeOK'
    BY <1>15 DEF ProberKilled, KillReturns, Running, Exited
  <1>16. ASSUME NEW g \in Engines, MonitorExit(g) PROVE TypeOK'
    <2>1. cancelled' \subseteq Engines /\ livenessCancel' \in Cmds
      BY <1>0, <1>16 DEF MonitorExit
    <2>2. currentCmd' \in Cmds /\ engineReady' \in BOOLEAN
      BY <1>16 DEF MonitorExit, ForgetCmd
    <2> QED
      BY <1>16, <2>1, <2>2 DEF MonitorExit
  <1>17. CASE RecordActivity \/ ActivityAges
    <2>1. recent' \in BOOLEAN
      BY <1>17 DEF RecordActivity, ActivityAges
    <2>2. UNCHANGED <<loaderVars, currentCmd, engineReady, fatalError, livenessCancel,
                      shownVars, procVars, killVars, probeVars, cancelled, monitor>>
      BY <1>17, Zenon DEF RecordActivity, ActivityAges
    <2> QED
      BY <2>1, <2>2
  <1>18. CASE UNCHANGED vars
    BY <1>18 DEF vars
  <1> QED
    BY <1>1, <1>2, <1>3, <1>4, <1>5, <1>6, <1>7, <1>8, <1>9, <1>10, <1>11, <1>12,
       <1>13, <1>14, <1>15, <1>16, <1>17, <1>18
    DEF Next, LoaderStep, CommandStep, ProberStep

\* The supervisor's variables keep their types in every reachable state.
THEOREM TypeCorrect == Spec => []TypeOK
  BY InitTypeOK, NextTypeOK, PTL DEF Spec

-----------------------------------------------------------------------------
\* The initial state satisfies the inductive invariant.
LEMMA InitIInv == Init => IInv
  <1> SUFFICES ASSUME Init PROVE IInv
    OBVIOUS
  <1>1. TypeOK
    BY InitTypeOK
  <1> QED
    BY <1>1, EngineFacts
    DEF Init, IInv, LoaderHoldsNoCmd, CmdIsLatest, ReadyOnlyWhenIdle, CommittedSpec,
        IdleKillersHaveNoTarget, NoProberBeforeReady, KillIsRecorded, ExitIsExplained, NoOrphanEngine,
        Running, Exited, ReadyReportsServedModel, ReadyEngineIsMonitored

\* A call of killProcessGroup condemns its target and forgets no other engine.
LEMMA KillBeginsCondemns ==
  ASSUME TypeOK, NEW k \in Killers, NEW c \in Engines, target[k] = Nil, KillBegins(k, c)
  PROVE  /\ Condemned(c)'
         /\ \A g \in Engines : Condemned(g) => Condemned(g)'
  BY EngineFacts DEF TypeOK, KillBegins, Condemned

\* A call of killProcessGroup that returns has sent the group SIGKILL.
LEMMA KillReturnsKeepsCondemned ==
  ASSUME TypeOK, KillIsRecorded, NEW k \in Killers, KillReturns(k)
  PROVE  \A g \in Engines : Condemned(g) => Condemned(g)'
  BY EngineFacts DEF TypeOK, KillIsRecorded, KillReturns, Condemned

\* Every step of every goroutine preserves the inductive invariant.
LEMMA NextIInv == IInv /\ [Next]_vars => IInv'
  <1> SUFFICES ASSUME IInv, [Next]_vars PROVE IInv'
    OBVIOUS
  <1> DEFINE Rest == /\ LoaderHoldsNoCmd /\ CmdIsLatest /\ ReadyOnlyWhenIdle
                     /\ CommittedSpec /\ IdleKillersHaveNoTarget /\ NoProberBeforeReady
                     /\ KillIsRecorded /\ ReadyReportsServedModel /\ ReadyEngineIsMonitored
  <1> DEFINE Accounted == ExitIsExplained /\ NoOrphanEngine
  <1>t. TypeOK /\ TypeOK' /\ Rest /\ Accounted
    BY NextTypeOK DEF IInv
  <1>s. SUFFICES Rest' /\ Accounted'
    BY <1>t DEF IInv
  <1> USE <1>t, EngineFacts
      DEF LoaderHoldsNoCmd, CmdIsLatest, ReadyOnlyWhenIdle, CommittedSpec,
          IdleKillersHaveNoTarget, NoProberBeforeReady, KillIsRecorded,
          ReadyReportsServedModel, ReadyEngineIsMonitored,
          loaderVars, shownVars, procVars, killVars, probeVars
  <1>1. ASSUME NEW req \in Requests, LoadModel(req) PROVE Rest' /\ Accounted'
    <2>1. CASE currentCmd = Nil
      BY <1>1, <2>1 DEF LoadModel, CancelLiveness, TypeOK, ExitIsExplained, NoOrphanEngine, Running, Exited, Condemned
    <2>2. CASE currentCmd # Nil
      <3>1. Rest'
        BY <1>1, <2>2 DEF LoadModel, KillBegins, TypeOK
      <3>2. PICK c \in Engines : c = currentCmd
        BY <2>2 DEF TypeOK
      <3>3. target[Loader] = Nil /\ KillBegins(Loader, c)
        BY <1>1, <2>2, <3>2 DEF LoadModel
      <3>4. Condemned(c)' /\ \A g \in Engines : Condemned(g) => Condemned(g)'
        BY <3>3, KillBeginsCondemns
      <3> QED
        BY <1>1, <3>1, <3>2, <3>4 DEF LoadModel, ExitIsExplained, NoOrphanEngine, Running, Exited
    <2> QED
      BY <2>1, <2>2
  <1>2. CASE OldEngineKilled
    <2>1. Rest'
      BY <1>2 DEF OldEngineKilled, KillReturns, TypeOK
    <2>2. \A g \in Engines : Condemned(g) => Condemned(g)'
      BY <1>2, KillReturnsKeepsCondemned DEF OldEngineKilled
    <2> QED
      BY <1>2, <2>1, <2>2 DEF OldEngineKilled, ExitIsExplained, NoOrphanEngine, Running, Exited
  <1>3. CASE RejectSpec \/ VRAMCleared \/ CommitSpec \/ RefuseWithoutGPU \/ LaunchFails
    BY <1>3 DEF RejectSpec, VRAMCleared, CommitSpec, RefuseWithoutGPU, LaunchFails, LoadReturns, TypeOK,
                ExitIsExplained, NoOrphanEngine, Running, Exited, Condemned
  <1>4. CASE StartEngine
    <2>0. started' = started + 1 /\ started \in Nat /\ (\A g \in Engines : g \in Nat)
      BY <1>4, EnginesAssumption DEF StartEngine, TypeOK, Engines
    <2>1. Rest'
      BY <1>4, <2>0 DEF StartEngine, TypeOK
    <2>2. Accounted'
      BY <1>4 DEF StartEngine, TypeOK, ExitIsExplained, NoOrphanEngine, Running, Exited, Condemned
    <2> QED
      BY <2>1, <2>2
  <1>5. CASE PublishCmd \/ PollAnswered
    BY <1>5 DEF PublishCmd, PollAnswered, TypeOK, ExitIsExplained, NoOrphanEngine, Running, Exited, Condemned
  <1>6. CASE EngineBecomesReady
    <2>0. started \in Engines
      BY <1>6 DEF EngineBecomesReady, TypeOK
    <2>1. Rest'
      <3>1. IdleKillersHaveNoTarget' /\ NoProberBeforeReady'
        BY <1>6, <2>0 DEF EngineBecomesReady, LoadReturns, TypeOK
      <3>2. ReadyEngineIsMonitored'
        BY <1>6, <2>0 DEF EngineBecomesReady, LoadReturns, TypeOK
      <3>3. ReadyReportsServedModel'
        BY <1>6 DEF EngineBecomesReady, LoadReturns
      <3> QED
        BY <1>6, <3>1, <3>2, <3>3 DEF EngineBecomesReady, LoadReturns
    <2>2. Accounted'
      BY <1>6 DEF EngineBecomesReady, LoadReturns, ExitIsExplained, NoOrphanEngine, Running, Exited, Condemned
    <2> QED
      BY <2>1, <2>2
  <1>7. CASE ExitsPrematurely \/ ReapAborted
    <2>1. Rest'
      BY <1>7 DEF ExitsPrematurely, ReapAborted, ForgetCmd, LoadReturns, TypeOK
    <2>2. Accounted'
      BY <1>7 DEF ExitsPrematurely, ReapAborted, ForgetCmd, LoadReturns, ExitIsExplained, NoOrphanEngine, Running, Exited, Condemned
    <2> QED
      BY <2>1, <2>2
  <1>8. CASE CtxDone \/ StartTimeout
    <2>1. Rest'
      BY <1>8 DEF CtxDone, StartTimeout, AbortStart, KillBegins, TypeOK
    <2>2. PICK c \in Engines : c = started
      BY <1>8 DEF CtxDone, StartTimeout, AbortStart, TypeOK
    <2>3. target[Loader] = Nil /\ KillBegins(Loader, c)
      BY <1>8, <2>2 DEF CtxDone, StartTimeout, AbortStart
    <2>4. \A g \in Engines : Condemned(g) => Condemned(g)'
      BY <2>3, KillBeginsCondemns
    <2> QED
      BY <1>8, <2>1, <2>4 DEF CtxDone, StartTimeout, AbortStart, ExitIsExplained, NoOrphanEngine, Running, Exited
  <1>9. CASE StartAborted
    <2>1. Rest'
      BY <1>9 DEF StartAborted, KillReturns, TypeOK
    <2>2. \A g \in Engines : Condemned(g) => Condemned(g)'
      BY <1>9, KillReturnsKeepsCondemned DEF StartAborted
    <2> QED
      BY <1>9, <2>1, <2>2 DEF StartAborted, ExitIsExplained, NoOrphanEngine, Running, Exited
  <1>10. ASSUME NEW k \in Killers, KillSignals(k) PROVE Rest' /\ Accounted'
    <2>1. Rest'
      BY <1>10 DEF KillSignals, TypeOK
    <2>2. \A g \in Engines : Condemned(g) => Condemned(g)'
      BY <1>10 DEF KillSignals, Condemned
    <2> QED
      BY <1>10, <2>1, <2>2 DEF KillSignals, ExitIsExplained, NoOrphanEngine, Running, Exited
  <1>11. ASSUME NEW g \in Engines, EngineExits(g) \/ WorkersExit(g) PROVE Rest' /\ Accounted'
    BY <1>11 DEF EngineExits, WorkersExit, TypeOK, ExitIsExplained, NoOrphanEngine, Running, Exited, Condemned
  <1>12. ASSUME NEW g \in Engines, ProberCancelled(g) \/ ProberTick(g)
         PROVE  Rest' /\ Accounted'
    BY <1>12 DEF ProberCancelled, ProberTick, TypeOK, ExitIsExplained, NoOrphanEngine, Running, Exited, Condemned
  <1>13. ASSUME NEW g \in Engines, ProbeSucceeds(g) \/ ProbeFails(g)
         PROVE  Rest' /\ Accounted'
    BY <1>13 DEF ProbeSucceeds, ProbeFails, TypeOK, ExitIsExplained, NoOrphanEngine, Running, Exited, Condemned
  <1>14. ASSUME NEW p \in Engines, ProbeTrips(p) PROVE Rest' /\ Accounted'
    <2>1. CASE currentCmd = Nil
      BY <1>14, <2>1 DEF ProbeTrips, TypeOK, ExitIsExplained, NoOrphanEngine, Running, Exited, Condemned
    <2>2. CASE currentCmd # Nil
      <3>1. Rest'
        BY <1>14, <2>2 DEF ProbeTrips, KillBegins, TypeOK
      <3>2. PICK c \in Engines : c = currentCmd
        BY <2>2 DEF TypeOK
      <3>3. target[p] = Nil /\ KillBegins(p, c)
        BY <1>14, <2>2, <3>2 DEF ProbeTrips
      <3>4. Condemned(c)' /\ \A g \in Engines : Condemned(g) => Condemned(g)'
        BY <3>3, KillBeginsCondemns
      <3> QED
        BY <1>14, <3>1, <3>2, <3>4 DEF ProbeTrips, ExitIsExplained, NoOrphanEngine, Running, Exited
    <2> QED
      BY <2>1, <2>2
  <1>15. ASSUME NEW p \in Engines, ProberKilled(p) PROVE Rest' /\ Accounted'
    <2>1. Rest'
      BY <1>15 DEF ProberKilled, KillReturns, TypeOK
    <2>2. \A g \in Engines : Condemned(g) => Condemned(g)'
      BY <1>15, KillReturnsKeepsCondemned DEF ProberKilled
    <2> QED
      BY <1>15, <2>1, <2>2 DEF ProberKilled, ExitIsExplained, NoOrphanEngine, Running, Exited
  <1>16. ASSUME NEW p \in Engines, MonitorExit(p) PROVE Rest' /\ Accounted'
    <2>1. Rest'
      BY <1>16 DEF MonitorExit, ForgetCmd, TypeOK
    <2>2. Accounted'
      BY <1>16 DEF MonitorExit, ForgetCmd, ExitIsExplained, NoOrphanEngine, Running, Exited, Condemned
    <2> QED
      BY <2>1, <2>2
  <1>17. CASE RecordActivity \/ ActivityAges
    BY <1>17 DEF RecordActivity, ActivityAges, ExitIsExplained, NoOrphanEngine, Running, Exited, Condemned
  <1>18. CASE UNCHANGED vars
    BY <1>18 DEF vars, ExitIsExplained, NoOrphanEngine, Running, Exited, Condemned
  <1> QED
    BY <1>1, <1>2, <1>3, <1>4, <1>5, <1>6, <1>7, <1>8, <1>9, <1>10, <1>11, <1>12,
       <1>13, <1>14, <1>15, <1>16, <1>17, <1>18
    DEF Next, LoaderStep, CommandStep, ProberStep

\* The inductive invariant holds in every reachable state.
THEOREM IInvHolds == Spec => []IInv
  BY InitIInv, NextIInv, PTL DEF Spec

\* No interleaving of LoadModel, the probers, the monitors and the engines leaves a
\* process of an engine, leader or worker, without someone who ends it or has sent
\* it SIGKILL, but for the workers of a leader that ended by itself.
THEOREM NoOrphan == Spec => []NoOrphanEngine
  <1>1. IInv => NoOrphanEngine
    BY DEF IInv
  <1> QED
    BY <1>1, IInvHolds, PTL

\* At most one running engine is not condemned: the latest one.
THEOREM SingleKeptEngine == Spec => []OnlyLatestEngineKept
  <1>1. IInv => OnlyLatestEngineKept
    BY EngineFacts DEF IInv, NoOrphanEngine, CmdIsLatest, OnlyLatestEngineKept, TypeOK
  <1> QED
    BY <1>1, IInvHolds, PTL

\* A ready node reports the model, and the confidentiality choice, of the engine
\* started last.
THEOREM ReadyIsTruthful == Spec => []ReadyReportsServedModel
  <1>1. IInv => ReadyReportsServedModel
    BY DEF IInv
  <1> QED
    BY <1>1, IInvHolds, PTL

\* A node that says it is ready watches the engine it serves from: a crash of that
\* engine is noticed, whichever loads, kills and probes interleaved before.
THEOREM ReadyIsWatched == Spec => []ReadyEngineIsMonitored
  <1>1. IInv => ReadyEngineIsMonitored
    BY DEF IInv
  <1> QED
    BY <1>1, IInvHolds, PTL

\* Every step of the supervisor is a step of the contract, or changes nothing a
\* caller can see.
LEMMA StepMeetsContract == IInv /\ [Next]_vars => [EC!ContractNext]_(EC!contractVars)
  <1> SUFFICES ASSUME IInv, [Next]_vars PROVE [EC!ContractNext]_(EC!contractVars)
    OBVIOUS
  <1> USE DEF EC!ContractNext, EC!contractVars, LoadPhase
  <1> DEFINE Quiet == UNCHANGED <<pc, currentModel, exposeInHealth, engineReady>>
  <1>0. pc # "idle" => ~engineReady
    BY DEF IInv, ReadyOnlyWhenIdle
  <1>q. ASSUME Quiet PROVE UNCHANGED EC!contractVars
    BY <1>q
  <1>1. ASSUME NEW req \in Requests, LoadModel(req) PROVE EC!Begin
    BY <1>1 DEF LoadModel, EC!Begin, shownVars
  <1>2. CASE OldEngineKilled \/ VRAMCleared
    BY <1>2 DEF OldEngineKilled, VRAMCleared, shownVars
  <1>3. ASSUME RejectSpec PROVE EC!Reject
    BY <1>3 DEF RejectSpec, LoadReturns, EC!Reject, shownVars
  <1>4. ASSUME CommitSpec PROVE \E m \in Models, x \in BOOLEAN : EC!Commit(m, x)
    <2>1. spec \in ModelSpec
      BY <1>4 DEF CommitSpec, IInv, TypeOK, NoSpec
    <2>2. EC!Commit(spec.model, spec.expose)
      BY <1>4 DEF CommitSpec, EC!Commit
    <2> QED
      BY <2>1, <2>2 DEF ModelSpec
  <1>5. ASSUME RefuseWithoutGPU \/ LaunchFails PROVE EC!Fail
    BY <1>5 DEF RefuseWithoutGPU, LaunchFails, LoadReturns, EC!Fail, shownVars
  <1>6. CASE StartEngine \/ PublishCmd \/ CtxDone \/ StartTimeout \/ StartAborted
    BY <1>6 DEF StartEngine, PublishCmd, CtxDone, StartTimeout, AbortStart, StartAborted, shownVars
  <1>7. ASSUME PollAnswered PROVE Quiet
    BY <1>7 DEF PollAnswered, shownVars
  <1>8. ASSUME EngineBecomesReady PROVE EC!Succeed
    BY <1>8 DEF EngineBecomesReady, LoadReturns, EC!Succeed, shownVars
  <1>9. ASSUME ExitsPrematurely \/ ReapAborted PROVE EC!Fail
    BY <1>0, <1>9 DEF ExitsPrematurely, ReapAborted, ForgetCmd, LoadReturns, EC!Fail, shownVars,
                      IInv, TypeOK
  <1>10. ASSUME NEW k \in Killers, KillSignals(k) PROVE Quiet
    BY <1>10 DEF KillSignals, loaderVars, shownVars
  <1>11. ASSUME NEW g \in Engines,
                EngineExits(g) \/ WorkersExit(g) \/ ProberCancelled(g) \/ ProberTick(g)
                  \/ ProbeSucceeds(g) \/ ProbeFails(g) \/ ProberKilled(g)
         PROVE  Quiet
    BY <1>11 DEF EngineExits, WorkersExit, ProberCancelled, ProberTick, ProbeSucceeds, ProbeFails,
                 ProberKilled, loaderVars, shownVars
  <1>12. ASSUME NEW g \in Engines, ProbeTrips(g) \/ MonitorExit(g) PROVE EC!Lose \/ Quiet
    BY <1>12 DEF ProbeTrips, MonitorExit, ForgetCmd, EC!Lose, loaderVars, shownVars, IInv, TypeOK
  <1>13. CASE RecordActivity \/ ActivityAges \/ UNCHANGED vars
    BY <1>13 DEF RecordActivity, ActivityAges, vars, loaderVars, shownVars
  <1> QED
    BY <1>q, <1>1, <1>2, <1>3, <1>4, <1>5, <1>6, <1>7, <1>8, <1>9, <1>10, <1>11, <1>12, <1>13
    DEF Next, LoaderStep, CommandStep, ProberStep

\* The supervisor implements the contract that the HTTP handlers rely on.
THEOREM ContractHolds == Spec => MeetsContract
  <1>1. Init => EC!ContractInit
    BY DEF Init, EC!ContractInit, LoadPhase
  <1> QED
    BY <1>1, IInvHolds, StepMeetsContract, PTL DEF Spec, MeetsContract, EC!Contract

=============================================================================
