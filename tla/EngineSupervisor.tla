-------------------------- MODULE EngineSupervisor --------------------------
(***************************************************************************)
(* The inference supervisor (pkg/inference/supervisor.go): one Supervisor  *)
(* value shared by the goroutine that runs LoadModel under loadMu, the     *)
(* liveness prober and the exit monitor of every engine that became ready, *)
(* and the engine processes themselves.                                    *)
(*                                                                         *)
(* An engine is a process group: a leader, which the code waits for, and   *)
(* its workers, which it knows by the group only.  Engines are numbered in *)
(* the order in which they are started, 0 stands for a nil *exec.Cmd.  A   *)
(* critical section of s.mu is one step, and so is every blocking point    *)
(* between two of them: a signal sent, a wait that returns, a timer that   *)
(* fires, an answer of the health endpoint.  loadMu admits one LoadModel   *)
(* at a time, so the loader is a single thread of control (pc) that starts *)
(* over when it returns.                                                   *)
(***************************************************************************)
EXTENDS Naturals

CONSTANTS
  Models,        \* model identifiers a load request may name
  NoModel,       \* the empty model name of a fresh Supervisor
  Requests,      \* the load requests clients send, a subset of ModelSpec
  MaxEngines,    \* bound: engines started in one behaviour
  FailureLimit,  \* consecutive probe failures that condemn an engine (3)
  GPULocked      \* config.IsGPULocked()

ASSUME EnginesAssumption == MaxEngines \in Nat \ {0}
ASSUME LimitAssumption   == FailureLimit \in Nat \ {0}
ASSUME LockedAssumption  == GPULocked \in BOOLEAN

\* A load request: the model, expose_in_health, and whether the fields pass
\* the checks of LoadModel.
ModelSpec == [model : Models, expose : BOOLEAN, valid : BOOLEAN]

ASSUME RequestsAssumption == Requests \subseteq ModelSpec

VARIABLES
  pc,             \* where LoadModel is; "idle" when loadMu is free
  spec,           \* the ModelSpec LoadModel was called with
  started,        \* number of engines started so far: the latest cmd
  currentCmd,     \* s.currentCmd
  engineReady,    \* s.engineReady
  fatalError,     \* s.fatalError
  livenessCancel, \* s.livenessCancel: the prober it cancels, 0 for nil
  currentModel,   \* s.currentModel
  exposeInHealth, \* s.exposeInHealth
  recent,         \* s.lastActivity is less than 30 seconds ago
  readyChan,      \* the health poll of the starting engine has answered
  proc,           \* state of the leader of every engine
  workers,        \* engines with other processes of their group running
  runs,           \* the ModelSpec an engine was started with
  stage, target,  \* the killProcessGroup calls in progress
  sigkilled,      \* engines whose process group was sent SIGKILL
  crashed,        \* history: leaders that ended before anyone wanted them to
  prober, fails,  \* the liveness probers and their consecutiveFailures
  cancelled,      \* the probers whose context is cancelled
  monitor         \* the exit monitors

loaderVars == <<pc, spec, started, readyChan>>
shownVars  == <<currentModel, exposeInHealth>>
procVars   == <<proc, workers, runs, crashed>>
killVars   == <<stage, target, sigkilled>>
probeVars  == <<prober, fails>>

vars == <<loaderVars, currentCmd, engineReady, fatalError, livenessCancel,
          shownVars, recent, procVars, killVars, probeVars, cancelled, monitor>>

Engines == 1..MaxEngines
Nil     == 0
Cmds    == {Nil} \union Engines
Loader  == 0                        \* as a caller of killProcessGroup
Killers == {Loader} \union Engines  \* the loader, and the prober of an engine

NoSpec  == [model |-> NoModel, expose |-> FALSE, valid |-> FALSE]

PCs == {"idle", "killOld", "clear", "check", "prepare", "publish", "await", "abort", "reap"}

TypeOK ==
  /\ pc \in PCs
  /\ spec \in ModelSpec \union {NoSpec}
  /\ started \in 0..MaxEngines
  /\ currentCmd \in Cmds
  /\ engineReady \in BOOLEAN
  /\ fatalError \in {"none", "noGPU", "unresponsive"}
  /\ livenessCancel \in Cmds
  /\ currentModel \in Models \union {NoModel}
  /\ exposeInHealth \in BOOLEAN
  /\ recent \in BOOLEAN
  /\ readyChan \in BOOLEAN
  /\ proc \in [Engines -> {"none", "running", "exited"}]
  /\ runs \in [Engines -> ModelSpec \union {NoSpec}]
  /\ stage \in [Killers -> {"off", "send", "term", "kill"}]
  /\ target \in [Killers -> Cmds]
  /\ workers \subseteq Engines
  /\ sigkilled \subseteq Engines
  /\ crashed \subseteq Engines
  /\ prober \in [Engines -> {"none", "wait", "get", "kill", "done"}]
  /\ fails \in [Engines -> 0..FailureLimit]
  /\ cancelled \subseteq Engines
  /\ monitor \in [Engines -> {"none", "wait", "done"}]

-----------------------------------------------------------------------------
(***************************************************************************)
(* NewSupervisor: a GPU-locked node without a GPU starts with a fatal      *)
(* error.  What DiscoverTopology finds is an input, here and in LoadModel. *)
(***************************************************************************)
Init ==
  /\ pc = "idle"
  /\ spec = NoSpec
  /\ started = 0
  /\ currentCmd = Nil
  /\ engineReady = FALSE
  /\ \E hasGPU \in BOOLEAN :
       fatalError = IF GPULocked /\ ~hasGPU THEN "noGPU" ELSE "none"
  /\ livenessCancel = Nil
  /\ currentModel = NoModel
  /\ exposeInHealth = FALSE
  /\ recent = TRUE
  /\ readyChan = FALSE
  /\ proc = [g \in Engines |-> "none"]
  /\ runs = [g \in Engines |-> NoSpec]
  /\ stage = [k \in Killers |-> "off"]
  /\ target = [k \in Killers |-> Nil]
  /\ workers = {}
  /\ sigkilled = {}
  /\ crashed = {}
  /\ prober = [g \in Engines |-> "none"]
  /\ fails = [g \in Engines |-> 0]
  /\ cancelled = {}
  /\ monitor = [g \in Engines |-> "none"]

-----------------------------------------------------------------------------
(* Engine processes                                                        *)

Running(g) == g \in Engines /\ proc[g] = "running"
Exited(g)  == g \in Engines /\ proc[g] = "exited"

\* Somebody holds the engine and is killing it, or has sent its group SIGKILL.
Condemned(g) == g \in sigkilled \/ \E k \in Killers : target[k] = g

\* All engines listen on the same loopback port, so a health request may be
\* answered by any of them whose leader still runs user code.
SomeEngineAnswers == \E g \in Engines : Running(g) /\ g \notin sigkilled

\* The leader may exit at any time: it crashes, or it obeys a signal.  Its workers
\* do not end with it.
EngineExits(g) ==
  /\ Running(g)
  /\ proc' = [proc EXCEPT ![g] = "exited"]
  /\ crashed' = IF Condemned(g) THEN crashed ELSE crashed \union {g}
  /\ UNCHANGED <<loaderVars, currentCmd, engineReady, fatalError, livenessCancel, shownVars,
                 recent, workers, runs, killVars, probeVars, cancelled, monitor>>

\* The workers end, with or after or before their leader.
WorkersExit(g) ==
  /\ g \in workers
  /\ workers' = workers \ {g}
  /\ UNCHANGED <<loaderVars, currentCmd, engineReady, fatalError, livenessCancel, shownVars,
                 recent, proc, runs, crashed, killVars, probeVars, cancelled, monitor>>

\* RecordActivity from the proxy: a request was forwarded or a chunk flushed.
RecordActivity ==
  /\ recent' = TRUE
  /\ UNCHANGED <<loaderVars, currentCmd, engineReady, fatalError, livenessCancel,
                 shownVars, procVars, killVars, probeVars, cancelled, monitor>>

\* Thirty seconds pass without activity.
ActivityAges ==
  /\ recent' = FALSE
  /\ UNCHANGED <<loaderVars, currentCmd, engineReady, fatalError, livenessCancel,
                 shownVars, procVars, killVars, probeVars, cancelled, monitor>>

-----------------------------------------------------------------------------
(***************************************************************************)
(* killProcessGroup(cmd), called by k: SIGTERM to the group, two seconds   *)
(* for the leader, SIGKILL to the group in any case, three more seconds    *)
(* for a leader that is still there, give up.                              *)
(***************************************************************************)
KillBegins(k, g) ==
  /\ stage'  = [stage EXCEPT ![k] = "send"]
  /\ target' = [target EXCEPT ![k] = g]
  /\ UNCHANGED sigkilled

KillSignals(k) ==
  /\ \/ /\ stage[k] = "send"
        /\ stage' = [stage EXCEPT ![k] = "term"]
        /\ UNCHANGED sigkilled
     \/ /\ stage[k] = "term"
        /\ Running(target[k])
        /\ stage' = [stage EXCEPT ![k] = "kill"]
        /\ sigkilled' = sigkilled \union {target[k]}
  /\ UNCHANGED <<loaderVars, currentCmd, engineReady, fatalError, livenessCancel, shownVars,
                 recent, procVars, target, probeVars, cancelled, monitor>>

\* Mutant: the call returns two seconds after SIGTERM whatever happened.
KillReturnsAfterTerm(k) ==
  /\ stage[k] \in {"term", "kill"}
  /\ stage'  = [stage EXCEPT ![k] = "off"]
  /\ target' = [target EXCEPT ![k] = Nil]
  /\ UNCHANGED sigkilled

\* Mutant: a leader that obeyed SIGTERM is taken for the whole group.
KillReturnsWithLeader(k) ==
  /\ \/ stage[k] = "term" /\ Exited(target[k])
     \/ stage[k] = "kill"
  /\ stage'  = [stage EXCEPT ![k] = "off"]
  /\ target' = [target EXCEPT ![k] = Nil]
  /\ UNCHANGED sigkilled

\* The call returns: the leader was reaped, and what is left of its group is sent
\* SIGKILL; or SIGKILL did not end the leader in time.
KillReturns(k) ==
  /\ \/ /\ stage[k] = "term"
        /\ Exited(target[k])
        /\ sigkilled' = sigkilled \union {target[k]}
     \/ stage[k] = "kill" /\ UNCHANGED sigkilled
  /\ stage'  = [stage EXCEPT ![k] = "off"]
  /\ target' = [target EXCEPT ![k] = Nil]

-----------------------------------------------------------------------------
(* Critical sections shared by several paths                               *)

\* if s.livenessCancel != nil { s.livenessCancel(); s.livenessCancel = nil }
CancelLiveness ==
  /\ cancelled' = cancelled \union ({livenessCancel} \ {Nil})
  /\ livenessCancel' = Nil

\* Mutant: the comparison is inverted.
ForgetOtherCmd(g) ==
  IF currentCmd # g
  THEN currentCmd' = Nil /\ engineReady' = FALSE
  ELSE UNCHANGED <<currentCmd, engineReady>>

\* if s.currentCmd == cmd { s.currentCmd = nil; s.engineReady = false }
ForgetCmd(g) ==
  IF currentCmd = g
  THEN currentCmd' = Nil /\ engineReady' = FALSE
  ELSE UNCHANGED <<currentCmd, engineReady>>

-----------------------------------------------------------------------------
(* LoadModel                                                               *)

\* Mutant: readiness is not withdrawn when a load starts.
LoadModelStillReady(req) ==
  /\ pc = "idle"
  /\ spec' = req
  /\ CancelLiveness
  /\ currentCmd' = Nil
  /\ fatalError' = "none"
  /\ IF currentCmd # Nil
     THEN pc' = "killOld" /\ KillBegins(Loader, currentCmd)
     ELSE pc' = "check" /\ UNCHANGED killVars
  /\ UNCHANGED <<engineReady, started, readyChan, shownVars, recent, procVars, probeVars, monitor>>

\* The first critical section: whatever the request says, the running engine
\* is given up, and its termination starts.
LoadModel(req) ==
  /\ pc = "idle"
  /\ spec' = req
  /\ CancelLiveness
  /\ currentCmd' = Nil
  /\ engineReady' = FALSE
  /\ fatalError' = "none"
  /\ IF currentCmd # Nil
     THEN pc' = "killOld" /\ KillBegins(Loader, currentCmd)
     ELSE pc' = "check" /\ UNCHANGED killVars
  /\ UNCHANGED <<started, readyChan, shownVars, recent, procVars, probeVars, monitor>>

\* The old engine is gone, or was given up.
OldEngineKilled ==
  /\ pc = "killOld"
  /\ KillReturns(Loader)
  /\ pc' = "clear"
  /\ UNCHANGED <<spec, started, readyChan, currentCmd, engineReady, fatalError, livenessCancel,
                 shownVars, recent, procVars, probeVars, cancelled, monitor>>

\* VRAM was reclaimed, the five seconds for it are over, or nvidia-smi failed.  Only
\* the loop has a deadline: each nvidia-smi in it runs as long as it likes.
VRAMCleared ==
  /\ pc = "clear"
  /\ pc' = "check"
  /\ UNCHANGED <<spec, started, readyChan, currentCmd, engineReady, fatalError, livenessCancel,
                 shownVars, recent, procVars, killVars, probeVars, cancelled, monitor>>

\* A load that ends without an engine of its own.
LoadReturns == pc' = "idle" /\ spec' = NoSpec /\ UNCHANGED <<started, readyChan>>

RejectSpec ==
  /\ pc = "check"
  /\ ~spec.valid
  /\ LoadReturns
  /\ UNCHANGED <<currentCmd, engineReady, fatalError, livenessCancel, shownVars, recent,
                 procVars, killVars, probeVars, cancelled, monitor>>

\* Mutant: expose_in_health of the previous model is kept.
CommitModelOnly ==
  /\ pc = "check"
  /\ spec.valid
  /\ pc' = "prepare"
  /\ currentModel' = spec.model
  /\ UNCHANGED <<spec, started, readyChan, currentCmd, engineReady, fatalError, livenessCancel,
                 exposeInHealth, recent, procVars, killVars, probeVars, cancelled, monitor>>

\* The second critical section: what the node reports about the model changes
\* before the engine exists.
CommitSpec ==
  /\ pc = "check"
  /\ spec.valid
  /\ pc' = "prepare"
  /\ currentModel' = spec.model
  /\ exposeInHealth' = spec.expose
  /\ UNCHANGED <<spec, started, readyChan, currentCmd, engineReady, fatalError, livenessCancel,
                 recent, procVars, killVars, probeVars, cancelled, monitor>>

\* A GPU-locked node that finds no GPU any more refuses, and stays in error.
RefuseWithoutGPU ==
  /\ pc = "prepare"
  /\ GPULocked
  /\ fatalError' = "noGPU"
  /\ LoadReturns
  /\ UNCHANGED <<currentCmd, engineReady, livenessCancel, shownVars, recent,
                 procVars, killVars, probeVars, cancelled, monitor>>

\* The runtime cannot be provisioned, the binary is missing or does not start.
LaunchFails ==
  /\ pc = "prepare"
  /\ LoadReturns
  /\ UNCHANGED <<currentCmd, engineReady, fatalError, livenessCancel, shownVars, recent,
                 procVars, killVars, probeVars, cancelled, monitor>>

\* cmd.Start; MaxEngines bounds the engines of one behaviour.
StartEngine ==
  /\ pc = "prepare"
  /\ started < MaxEngines
  /\ started' = started + 1
  /\ proc' = [proc EXCEPT ![started + 1] = "running"]
  /\ workers' = workers \union {started + 1}
  /\ runs' = [runs EXCEPT ![started + 1] = spec]
  /\ readyChan' = FALSE
  /\ pc' = "publish"
  /\ UNCHANGED <<spec, currentCmd, engineReady, fatalError, livenessCancel, shownVars,
                 recent, crashed, killVars, probeVars, cancelled, monitor>>

PublishCmd ==
  /\ pc = "publish"
  /\ currentCmd' = started
  /\ pc' = "await"
  /\ UNCHANGED <<spec, started, readyChan, engineReady, fatalError, livenessCancel, shownVars,
                 recent, procVars, killVars, probeVars, cancelled, monitor>>

\* The polling goroutine gets a 200 from the port.
PollAnswered ==
  /\ pc = "await"
  /\ ~readyChan
  /\ SomeEngineAnswers
  /\ readyChan' = TRUE
  /\ UNCHANGED <<pc, spec, started, currentCmd, engineReady, fatalError, livenessCancel,
                 shownVars, recent, procVars, killVars, probeVars, cancelled, monitor>>

\* case <-readyChan: the prober and the exit monitor of the engine start.
EngineBecomesReady ==
  /\ pc = "await"
  /\ readyChan
  /\ cancelled' = cancelled \union ({livenessCancel} \ {Nil})
  /\ livenessCancel' = started
  /\ engineReady' = TRUE
  /\ recent' = TRUE
  /\ prober' = [prober EXCEPT ![started] = "wait"]
  /\ monitor' = [monitor EXCEPT ![started] = "wait"]
  /\ LoadReturns
  /\ UNCHANGED <<currentCmd, fatalError, shownVars, procVars, killVars, fails>>

\* case exitErr := <-exitChan: the engine ended before it was ready.
ExitsPrematurely ==
  /\ pc = "await"
  /\ Exited(started)
  /\ CancelLiveness
  /\ ForgetCmd(started)
  /\ LoadReturns
  /\ UNCHANGED <<fatalError, shownVars, recent, procVars, killVars, probeVars, monitor>>

\* Mutant: the engine is waited for without being killed.
AbortWithoutKill ==
  /\ pc = "await"
  /\ pc' = "reap"
  /\ UNCHANGED <<spec, started, readyChan, currentCmd, engineReady, fatalError, livenessCancel,
                 shownVars, recent, procVars, killVars, probeVars, cancelled, monitor>>

AbortStart ==
  /\ pc = "await"
  /\ pc' = "abort"
  /\ KillBegins(Loader, started)
  /\ UNCHANGED <<spec, started, readyChan, currentCmd, engineReady, fatalError, livenessCancel,
                 shownVars, recent, procVars, probeVars, cancelled, monitor>>

\* case <-ctx.Done(): the caller's deadline or cancellation.
CtxDone == AbortStart

\* case <-timeoutTimer.C: ten minutes without an answer.
StartTimeout == AbortStart

StartAborted ==
  /\ pc = "abort"
  /\ KillReturns(Loader)
  /\ pc' = "reap"
  /\ UNCHANGED <<spec, started, readyChan, currentCmd, engineReady, fatalError, livenessCancel,
                 shownVars, recent, procVars, probeVars, cancelled, monitor>>

\* <-exitChan has no timeout; loadMu stays held until the process ends.
ReapAborted ==
  /\ pc = "reap"
  /\ Exited(started)
  /\ CancelLiveness
  /\ ForgetCmd(started)
  /\ LoadReturns
  /\ UNCHANGED <<fatalError, shownVars, recent, procVars, killVars, probeVars, monitor>>

-----------------------------------------------------------------------------
(***************************************************************************)
(* startLivenessProber(ctx), one goroutine per engine that became ready.   *)
(* It reads the shared engineReady and currentCmd, not those of the engine *)
(* it was started for, and looks at its context only in the select: a      *)
(* prober that is cancelled during the health request runs on to the lock, *)
(* and when the context and the ticker are both ready select may take the  *)
(* tick.                                                                   *)
(***************************************************************************)
ProberCancelled(g) ==
  /\ prober[g] = "wait"
  /\ g \in cancelled
  /\ prober' = [prober EXCEPT ![g] = "done"]
  /\ UNCHANGED <<loaderVars, currentCmd, engineReady, fatalError, livenessCancel, shownVars,
                 recent, procVars, killVars, fails, cancelled, monitor>>

ProberTick(g) ==
  /\ prober[g] = "wait"
  /\ \/ ~engineReady /\ prober' = [prober EXCEPT ![g] = "done"] /\ UNCHANGED fails
     \/ engineReady /\ recent /\ fails' = [fails EXCEPT ![g] = 0] /\ UNCHANGED prober
     \/ engineReady /\ ~recent /\ prober' = [prober EXCEPT ![g] = "get"] /\ UNCHANGED fails
  /\ UNCHANGED <<loaderVars, currentCmd, engineReady, fatalError, livenessCancel, shownVars,
                 recent, procVars, killVars, cancelled, monitor>>

ProbeSucceeds(g) ==
  /\ prober[g] = "get"
  /\ SomeEngineAnswers
  /\ prober' = [prober EXCEPT ![g] = "wait"]
  /\ fails' = [fails EXCEPT ![g] = 0]
  /\ recent' = TRUE
  /\ UNCHANGED <<loaderVars, currentCmd, engineReady, fatalError, livenessCancel, shownVars,
                 procVars, killVars, cancelled, monitor>>

ProbeFails(g) ==
  /\ prober[g] = "get"
  /\ fails[g] + 1 < FailureLimit
  /\ prober' = [prober EXCEPT ![g] = "wait"]
  /\ fails' = [fails EXCEPT ![g] = @ + 1]
  /\ UNCHANGED <<loaderVars, currentCmd, engineReady, fatalError, livenessCancel, shownVars,
                 recent, procVars, killVars, cancelled, monitor>>

\* The last failure allowed: the current engine, whichever it is by now, is
\* given up and killed.
ProbeTrips(g) ==
  /\ prober[g] = "get"
  /\ fails[g] + 1 >= FailureLimit
  /\ fails' = [fails EXCEPT ![g] = FailureLimit]
  /\ engineReady' = FALSE
  /\ fatalError' = "unresponsive"
  /\ currentCmd' = Nil
  /\ IF currentCmd # Nil
     THEN prober' = [prober EXCEPT ![g] = "kill"] /\ KillBegins(g, currentCmd)
     ELSE prober' = [prober EXCEPT ![g] = "done"] /\ UNCHANGED killVars
  /\ UNCHANGED <<loaderVars, livenessCancel, shownVars, recent, procVars, cancelled, monitor>>

ProberKilled(g) ==
  /\ prober[g] = "kill"
  /\ KillReturns(g)
  /\ prober' = [prober EXCEPT ![g] = "done"]
  /\ UNCHANGED <<loaderVars, currentCmd, engineReady, fatalError, livenessCancel, shownVars,
                 recent, procVars, fails, cancelled, monitor>>

\* The goroutine that waits for the exit of an engine that became ready.
MonitorExit(g) ==
  /\ monitor[g] = "wait"
  /\ Exited(g)
  /\ monitor' = [monitor EXCEPT ![g] = "done"]
  /\ CancelLiveness
  /\ ForgetCmd(g)
  /\ UNCHANGED <<loaderVars, fatalError, shownVars, recent, procVars, killVars, probeVars>>

-----------------------------------------------------------------------------
LoaderStep ==
  \/ OldEngineKilled \/ RejectSpec \/ PublishCmd
  \/ EngineBecomesReady \/ ExitsPrematurely \/ CtxDone \/ StartTimeout
  \/ StartAborted \/ ReapAborted

\* Steps that come after an external command the code starts without context and
\* without timeout: nvidia-smi (in SynchronizeDriverVRAMClearance and in
\* DiscoverTopology), uv, and the probe of torch.
CommandStep ==
  \/ VRAMCleared \/ CommitSpec \/ RefuseWithoutGPU \/ LaunchFails \/ StartEngine

ProberStep(g) ==
  \/ ProberCancelled(g) \/ ProberTick(g) \/ ProbeSucceeds(g) \/ ProbeFails(g)
  \/ ProbeTrips(g) \/ ProberKilled(g)

Next ==
  \/ \E req \in Requests : LoadModel(req)
  \/ LoaderStep
  \/ CommandStep
  \/ PollAnswered
  \/ \E k \in Killers : KillSignals(k)
  \/ \E g \in Engines : EngineExits(g) \/ WorkersExit(g) \/ ProberStep(g) \/ MonitorExit(g)
  \/ RecordActivity
  \/ ActivityAges

Spec == Init /\ [][Next]_vars

(***************************************************************************)
(* Goroutines that can run do run, timers fire, and a leader that was sent *)
(* SIGKILL ends in the end.  Nothing is assumed of requests, crashes,      *)
(* answers or activity, nor of the external commands of CommandStep.       *)
(***************************************************************************)
Fairness ==
  /\ WF_vars(LoaderStep)
  /\ \A k \in Killers : WF_vars(KillSignals(k))
  /\ \A g \in Engines : /\ WF_vars(ProberStep(g))
                        /\ WF_vars(MonitorExit(g))
                        /\ WF_vars(g \in sigkilled /\ EngineExits(g))

FairSpec == Spec /\ Fairness

-----------------------------------------------------------------------------
(* Properties                                                              *)

\* Every process of an engine that still runs, leader or worker, is accounted for:
\* its engine is the current one, or has just been started and is about to become
\* it, or has a killProcessGroup call on it, or was sent SIGKILL as a group.
\* Clearing s.currentCmd in LoadModel, in the prober or in the monitor leaves nobody
\* else behind, and a leader that obeys SIGTERM does not shield its workers.  The one
\* exception is what the code does: the workers of a leader that ended by itself are
\* nobody's, since the premature-exit and the monitor path never signal the group.
NoOrphanEngine ==
  \A g \in Engines :
    Running(g) \/ g \in workers =>
      \/ currentCmd = g
      \/ g = started /\ pc = "publish"
      \/ Condemned(g)
      \/ g \in crashed /\ ~Running(g)

\* LoadModel promises to terminate the running engine before it starts another:
\* at any time every running engine but the latest is condemned, even when the
\* prober gives up an engine outside loadMu while a load is under way.
OnlyLatestEngineKept ==
  \A g \in Engines : Running(g) /\ ~Condemned(g) => g = started

\* What /v1/health and /v1/models report while the node says it is ready
\* (CurrentModel, ExposeInHealth) is what the latest engine was started with,
\* although both are committed before that engine exists and survive failures.
ReadyReportsServedModel ==
  engineReady => /\ started # 0
                 /\ currentModel = runs[started].model
                 /\ exposeInHealth = runs[started].expose

\* A node that is ready and has a current engine also has the goroutine that
\* will reset readiness when that engine crashes.
ReadyEngineIsMonitored ==
  engineReady /\ currentCmd # Nil => monitor[currentCmd] = "wait"

\* What LoadModel's progress looks like to a caller.
LoadPhase ==
  CASE pc = "idle" -> "idle"
    [] pc \in {"killOld", "clear", "check"} -> "check"
    [] OTHER -> "start"

EC == INSTANCE EngineContract
        WITH phase <- LoadPhase, model <- currentModel, exposed <- exposeInHealth,
             ready <- engineReady

\* The supervisor implements the contract its callers rely on: none of the prober,
\* the monitors and the aborted starts raises readiness, lowers it in a way a load
\* would not survive, or touches what the node reports about its model.
MeetsContract == EC!Contract

\* The loader waits for an external command, or does what follows one.
AwaitsCommand == pc \in {"clear", "prepare"} \/ (pc = "check" /\ spec.valid)

\* LoadModel does not hold loadMu for ever unless an external command that it starts
\* without a timeout never ends: from anywhere else it returns, or gets to such a
\* command.  In particular a load whose engine was started always ends: an engine
\* that neither answers nor exits is timed out and killed.
LoadTerminates == pc # "idle" ~> (pc = "idle" \/ AwaitsCommand)

\* A crash is noticed: an exited engine does not stay the current engine.
CrashIsNoticed ==
  \A g \in Engines : (currentCmd = g /\ Exited(g)) ~> (currentCmd # g)

\* The comment above IsReady: it "reports whether the inference engine is online
\* and accepting requests".  The code breaks it: readiness can be raised for an
\* engine that a stale prober has already taken, and then nobody lowers it.
DeadEngineIsNotReady ==
  (engineReady /\ \A g \in Engines : ~Running(g)) ~> ~engineReady

=============================================================================
