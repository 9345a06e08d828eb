--------------------------- MODULE NodeBootProofs ---------------------------
(***************************************************************************)
(* The safety properties of the boot, for every set of machines, networks, *)
(* deployments and bounds.  BootPartsProofs has the invariants of the four *)
(* parts; here they are put together with what ties the parts to the steps *)
(* of runNodeSupervisor.                                                   *)
(***************************************************************************)
EXTENDS NodeBoot, BootPartsProofs

\* The node runs after the initrd, mounts its file systems before it loads drivers, and
\* configures an interface it has found.
PartsFollow ==
  /\ pc # "off" => stage = "node"
  /\ pc \in {"off", "debug", "init"} => gpuPc = "off"
  /\ pc = "debug" => fs = moved
  /\ pc = "udhcpc" => nic \in Nics

\* There is a child only while PID 1 waits for it, so that nothing changes its exit
\* status later.
ChildIsWaitedFor == child = (IF pc \in {"nft", "udhcpc"} THEN pc ELSE "none")

\* The steps after the module lock.
IsLockedDown ==
  pc \in {"network", "candidate", "udhcpc", "raw", "key", "keys", "cert", "report", "serve", "up"}

\* An exit status of nft that is trusted means that the rules are in place.
FirewallFirst ==
  /\ child = "nft" /\ exit = "ok" => firewall
  /\ pc = "lock" => firewall
  /\ IsLockedDown => firewall /\ locked
  /\ HardenedBeforeReachable

\* Whatever can make the node halt later has cost a system call before.
FaultsExplain ==
  /\ child = "nft" /\ exit = "failed" => faults > 0
  /\ pc \notin {"off", "debug", "init", "panicked"} => "proc" \in fs \/ faults > 0
  /\ NodeHaltHasReason

\* Once locked, the console has neither messages nor device nodes.
ConsoleIsLocked ==
  pc \notin {"off", "debug", "panicked"} /\ flag.value = "off" /\ {"dev", "proc"} \subseteq moved
  => ~printk /\ ~consoleNodes

OwnInv ==
  /\ NodeTypeOK
  /\ PartsFollow
  /\ ChildIsWaitedFor
  /\ FirewallFirst
  /\ FaultsExplain
  /\ ConsoleIsLocked

BootInv == InitrdInv /\ GpuInv /\ DhcpInv /\ KeyInv /\ OwnInv

-----------------------------------------------------------------------------
(* What a step of the whole does to the parts                              *)

\* The steps of the node fail some system calls at most, as far as early boot goes.
OnlyFaults ==
  /\ faults' \in Nat /\ faults <= faults' /\ faults' <= MaxFaults
  /\ UNCHANGED <<stage, machine, shown, mounts, polls, scanning, verityVars, root, moved, partial>>

\* A set of file systems that could not be mounted.
LEMMA MissingCount ==
  ASSUME NEW missing \in SUBSET PseudoFs
  PROVE  Cardinality(missing) \in Nat /\ ("proc" \in missing => Cardinality(missing) > 0)
  <1>1. IsFiniteSet(PseudoFs)
    <2>1. IsFiniteSet({}) /\ PseudoFs = {} \cup {"dev"} \cup {"proc"} \cup {"sys"} \cup {"run"}
      BY FS_EmptySet DEF PseudoFs
    <2>2. \A S, x : IsFiniteSet(S) => IsFiniteSet(S \cup {x})
      BY FS_AddElement
    <2> QED
      BY <2>1, <2>2, Zenon
  <1>2. IsFiniteSet(missing)
    BY <1>1, FS_Subset
  <1>3. Cardinality(missing) \in Nat
    BY <1>2, FS_CardinalityType
  <1>4. Cardinality(missing) = 0 <=> missing = {}
    BY <1>2, FS_EmptySet
  <1> QED
    BY <1>3, <1>4

LEMMA HardeningFaults == ASSUME InitrdTypeOK, HardeningStep PROVE OnlyFaults
  <1> USE DEF OnlyFaults
  <1>0. faults \in Nat /\ faults <= MaxFaults /\ MaxFaults \in Nat
    BY FaultAssumption DEF InitrdTypeOK
  <1>1. ASSUME NEW from, HaltNode(from) PROVE OnlyFaults
    BY <1>0, <1>1 DEF HaltNode, NodeFails, Fails
  <1>2. ASSUME NEW missing \in SUBSET PseudoFs, EarlyInit(missing) PROVE OnlyFaults
    <2>1. Cardinality(missing) \in Nat
      BY MissingCount
    <2> QED
      BY <1>0, <1>2, <2>1 DEF EarlyInit, Fails
  <1>3. CASE NodeStarts \/ ResolveDebug \/ DriversLoaded \/ StartNft \/ NftReturns \/ LockKernelModules
    BY <1>0, <1>3 DEF initrdVars, NodeStarts, ResolveDebug, DriversLoaded, StartNft, NftReturns,
                      LockKernelModules
  <1>4. CASE WriteRulesFails \/ LockFails
    BY <1>0, <1>1, <1>4 DEF initrdVars, WriteRulesFails, LockFails
  <1> QED
    BY <1>2, <1>3, <1>4 DEF HardeningStep

LEMMA NetworkFaults == ASSUME InitrdTypeOK, NetworkStep PROVE OnlyFaults
  <1> USE DEF OnlyFaults
  <1>0. faults \in Nat /\ faults <= MaxFaults /\ MaxFaults \in Nat
    BY FaultAssumption DEF InitrdTypeOK
  <1>1. CASE NextRound \/ RoundEnds \/ NetworkTimesOut \/ UdhcpcSucceeds \/ UdhcpcFails \/ RawNoLease
    BY <1>0, <1>1 DEF initrdVars, NextRound, RoundEnds, NetworkTimesOut, UdhcpcSucceeds, UdhcpcFails,
                      RawNoLease
  <1>2. CASE RawLease
    BY <1>0, <1>2 DEF initrdVars, RawLease, NodeFails, Fails
  <1>3. ASSUME NEW n \in Nics, TryConfigured(n) \/ SkipInterface(n) \/ StartUdhcpc(n) PROVE OnlyFaults
    BY <1>0, <1>3 DEF initrdVars, TryConfigured, SkipInterface, StartUdhcpc, NodeFails, Fails
  <1> QED
    BY <1>1, <1>2, <1>3 DEF NetworkStep

LEMMA OtherFaults ==
  ASSUME InitrdTypeOK,
         \/ IdentityStep \/ ChildStep \/ ReaperSteals \/ (\E n \in Nics : NicAppears(n))
         \/ Preload \/ Register \/ RawStep
  PROVE  OnlyFaults
  <1> USE DEF OnlyFaults
  <1>0. faults \in Nat /\ faults <= MaxFaults /\ MaxFaults \in Nat
    BY FaultAssumption DEF InitrdTypeOK
  <1>1. CASE IdentityStep
    <2>1. ASSUME NEW from, GenerateFails(from) PROVE OnlyFaults
      BY <1>0, <2>1 DEF GenerateFails, HaltNode, NodeFails, Fails
    <2>2. CASE KeyStep \/ KeyDone \/ Generate("keys", "cert") \/ Generate("cert", "report")
               \/ CollectReport \/ StartProxy
      BY <1>0, <2>2 DEF initrdVars, KeyStep, KeyDone, Generate, CollectReport, StartProxy
    <2> QED
      BY <1>1, <2>1, <2>2 DEF IdentityStep
  <1>2. CASE NftExits
    BY <1>0, <1>2 DEF NftExits, Fails
  <1>3. CASE UdhcpcExits
    BY <1>0, <1>3 DEF initrdVars, UdhcpcExits, NodeFails, Fails
  <1>4. CASE ReaperSteals \/ Preload \/ Register \/ RawStep
    BY <1>0, <1>4 DEF initrdVars, ReaperSteals, Preload, Register, RawStep
  <1>5. ASSUME NEW n \in Nics, NicAppears(n) PROVE OnlyFaults
    BY <1>0, <1>5 DEF initrdVars, NicAppears
  <1> QED
    BY <1>1, <1>2, <1>3, <1>4, <1>5 DEF ChildStep

\* Early boot is over when the node runs.
LEMMA EarlyBootIsOver == ASSUME BootInv, Initrd \/ Kernel PROVE pc = "off"
  <1>1. stage # "node"
    <2>1. CASE Kernel
      BY <2>1 DEF Kernel, KernelStep, KernelShows
    <2>2. CASE Initrd
      BY <2>2 DEF Initrd, InitrdStep, MountEarlyFilesystems, ReadCmdline, Halt, ScanDisk, PollAgain,
                  ReadSuperblock, ActivateDmVerity, MountRoot, Handoff, HandoffFails
    <2> QED
      BY <2>1, <2>2
  <1> QED
    BY <1>1 DEF BootInv, OwnInv, PartsFollow

LEMMA NextInitrdInv == ASSUME BootInv, Next PROVE InitrdInv'
  <1>0. InitrdInv /\ InitrdTypeOK
    BY DEF BootInv, InitrdInv
  <1>1. CASE Initrd
    BY <1>0, <1>1, InitrdStepInv DEF Initrd
  <1>2. CASE Kernel
    BY <1>0, <1>2, KernelInv DEF Kernel
  <1>3. ASSUME OnlyFaults PROVE InitrdInv'
    BY <1>0, <1>3, InitrdOtherInv DEF OnlyFaults
  <1> QED
    BY <1>0, <1>1, <1>2, <1>3, HardeningFaults, NetworkFaults, OtherFaults DEF Next

\* The driver's state changes in the preload, and when uvm registers; the file systems
\* change before.
LEMMA NextGpu ==
  ASSUME BootInv, Next
  PROVE  \/ UNCHANGED <<fs, gpuVars>>
         \/ UNCHANGED fs /\ (GpuStep \/ UvmRegisters)
         \/ gpuPc = "off" /\ fs' \subseteq PseudoFs /\ (GpuStart \/ UNCHANGED gpuVars)
  <1> DEFINE Goal == \/ UNCHANGED <<fs, gpuVars>>
                     \/ UNCHANGED fs /\ (GpuStep \/ UvmRegisters)
                     \/ gpuPc = "off" /\ fs' \subseteq PseudoFs /\ (GpuStart \/ UNCHANGED gpuVars)
  <1> USE DEF consoleVars
  <1>1. CASE Initrd \/ Kernel \/ RawStep
    BY <1>1 DEF Initrd, Kernel, RawStep, nodeVars
  <1>2. CASE Preload \/ Register
    BY <1>2 DEF Preload, Register, nodeVars
  <1>3. CASE HardeningStep
    <2>1. CASE NodeStarts
      <3>1. gpuPc = "off" /\ moved \subseteq PseudoFs
        BY <2>1 DEF NodeStarts, BootInv, OwnInv, PartsFollow, InitrdInv, InitrdTypeOK, PseudoFs
      <3> QED
        BY <2>1, <3>1 DEF NodeStarts
    <2>2. ASSUME NEW missing \in SUBSET PseudoFs, EarlyInit(missing) PROVE Goal
      BY <2>2 DEF EarlyInit, GpuStart
    <2>3. CASE ResolveDebug \/ DriversLoaded \/ StartNft \/ NftReturns \/ LockKernelModules
      BY <2>3 DEF ResolveDebug, DriversLoaded, StartNft, NftReturns, LockKernelModules
    <2>4. CASE WriteRulesFails \/ LockFails
      BY <2>4 DEF WriteRulesFails, LockFails, HaltNode
    <2> QED
      BY <1>3, <2>1, <2>2, <2>3, <2>4 DEF HardeningStep
  <1>4. CASE NetworkStep
    <2>1. ASSUME NEW n \in Nics, TryConfigured(n) \/ SkipInterface(n) \/ StartUdhcpc(n) PROVE Goal
      BY <2>1 DEF TryConfigured, SkipInterface, StartUdhcpc
    <2> QED
      BY <1>4, <2>1 DEF NetworkStep, NextRound, RoundEnds, NetworkTimesOut, UdhcpcSucceeds,
                        UdhcpcFails, RawLease, RawNoLease
  <1>5. CASE IdentityStep
    BY <1>5 DEF IdentityStep, KeyStep, KeyDone, Generate, GenerateFails, HaltNode, CollectReport,
                StartProxy, nodeVars
  <1>6. CASE ChildStep \/ ReaperSteals
    BY <1>6 DEF ChildStep, NftExits, UdhcpcExits, ReaperSteals
  <1>7. ASSUME NEW n \in Nics, NicAppears(n) PROVE Goal
    BY <1>7 DEF NicAppears
  <1> QED
    BY <1>1, <1>2, <1>3, <1>4, <1>5, <1>6, <1>7 DEF Next

LEMMA NextGpuInv == ASSUME BootInv, Next PROVE GpuInv'
  <1>1. GpuInv
    BY DEF BootInv
  <1> QED
    BY <1>1, NextGpu, GpuSameInv, GpuStepInv, UvmRegistersInv, GpuOffInv

\* The raw client is started and left by the network step.
LEMMA NextDhcp ==
  ASSUME Next
  PROVE  UNCHANGED dhcpVars \/ DhcpStep \/ DhcpStart \/ DhcpReturn
  <1> DEFINE Goal == UNCHANGED dhcpVars \/ DhcpStep \/ DhcpStart \/ DhcpReturn
  <1>1. CASE Initrd \/ Kernel \/ RawStep \/ Preload \/ Register
    BY <1>1 DEF Initrd, Kernel, RawStep, Preload, Register
  <1>2. CASE HardeningStep
    BY <1>2 DEF HardeningStep, NodeStarts, EarlyInit, ResolveDebug, DriversLoaded, StartNft,
                NftReturns, LockKernelModules, WriteRulesFails, LockFails
  <1>3. CASE NetworkStep
    <2>1. ASSUME NEW n \in Nics, TryConfigured(n) \/ SkipInterface(n) \/ StartUdhcpc(n) PROVE Goal
      BY <2>1 DEF TryConfigured, SkipInterface, StartUdhcpc
    <2> QED
      BY <1>3, <2>1 DEF NetworkStep, NextRound, RoundEnds, NetworkTimesOut, UdhcpcSucceeds,
                        UdhcpcFails, RawLease, RawNoLease
  <1>4. CASE IdentityStep
    BY <1>4 DEF IdentityStep, KeyStep, KeyDone, Generate, GenerateFails, CollectReport, StartProxy
  <1>5. CASE ChildStep \/ ReaperSteals
    BY <1>5 DEF ChildStep, NftExits, UdhcpcExits, ReaperSteals
  <1>6. ASSUME NEW n \in Nics, NicAppears(n) PROVE Goal
    BY <1>6 DEF NicAppears
  <1> QED
    BY <1>1, <1>2, <1>3, <1>4, <1>5, <1>6 DEF Next

\* The search for the key begins when the network step is done.
LEMMA NextKey ==
  ASSUME Next
  PROVE  UNCHANGED keyVars \/ KeyStart \/ ReadEnv \/ LookupAnswered \/ LookupFails \/ ReadFiles
  <1> DEFINE Goal == UNCHANGED keyVars \/ KeyStart \/ ReadEnv \/ LookupAnswered \/ LookupFails
                     \/ ReadFiles
  <1>1. CASE Initrd \/ Kernel \/ RawStep \/ Preload \/ Register
    BY <1>1 DEF Initrd, Kernel, RawStep, Preload, Register
  <1>2. CASE HardeningStep
    BY <1>2 DEF HardeningStep, NodeStarts, EarlyInit, ResolveDebug, DriversLoaded, StartNft,
                NftReturns, LockKernelModules, WriteRulesFails, LockFails
  <1>3. CASE NetworkStep
    <2>1. ASSUME NEW n \in Nics, TryConfigured(n) \/ SkipInterface(n) \/ StartUdhcpc(n) PROVE Goal
      BY <2>1 DEF TryConfigured, SkipInterface, StartUdhcpc, NetworkDone
    <2> QED
      BY <1>3, <2>1 DEF NetworkStep, NextRound, RoundEnds, NetworkTimesOut, UdhcpcSucceeds,
                        UdhcpcFails, RawLease, RawNoLease, NetworkDone
  <1>4. CASE IdentityStep
    BY <1>4 DEF IdentityStep, KeyStep, KeyDone, Generate, GenerateFails, CollectReport, StartProxy
  <1>5. CASE ChildStep \/ ReaperSteals
    BY <1>5 DEF ChildStep, NftExits, UdhcpcExits, ReaperSteals
  <1>6. ASSUME NEW n \in Nics, NicAppears(n) PROVE Goal
    BY <1>6 DEF NicAppears
  <1> QED
    BY <1>1, <1>2, <1>3, <1>4, <1>5, <1>6 DEF Next

LEMMA NextPartsInv == ASSUME BootInv, Next PROVE InitrdInv' /\ GpuInv' /\ DhcpInv' /\ KeyInv'
  <1>1. DhcpInv /\ KeyInv
    BY DEF BootInv
  <1>2. DhcpInv'
    BY <1>1, NextDhcp, DhcpSameInv, DhcpStepInv, DhcpFrameInv
  <1>3. KeyInv'
    BY <1>1, NextKey, KeySameInv, KeyStartInv, ReadEnvInv, LookupAnsweredInv, LookupFailsInv,
       ReadFilesInv
  <1> QED
    BY <1>2, <1>3, NextInitrdInv, NextGpuInv

-----------------------------------------------------------------------------
(* The steps of runNodeSupervisor                                          *)

LEMMA OwnInit == ASSUME Init PROVE OwnInv
  <1>1. rounds \in 0..MaxRounds /\ addrs \in [Nics -> SUBSET Addresses]
    BY RoundAssumption DEF Init
  <1>2. NodeTypeOK
    BY <1>1 DEF Init, NodeTypeOK, NodePCs, OptAddress
  <1>3. PartsFollow /\ ChildIsWaitedFor
    BY DEF Init, GpuInit, PartsFollow, ChildIsWaitedFor
  <1>4. FirewallFirst /\ FaultsExplain /\ ConsoleIsLocked
    BY DEF Init, FirewallFirst, IsLockedDown, HardenedBeforeReachable, FaultsExplain,
           NodeHaltHasReason, ConsoleIsLocked
  <1> QED
    BY <1>2, <1>3, <1>4 DEF OwnInv

\* Steps of the other parts.
LEMMA PartStepOwn ==
  ASSUME BootInv, Initrd \/ Kernel \/ Preload \/ Register \/ RawStep
  PROVE  OwnInv'
  <1> USE DEF BootInv, OwnInv
  <1>0. UNCHANGED nodeVars
    BY DEF Initrd, Kernel, Preload, Register, RawStep
  <1> USE DEF nodeVars, consoleVars, childVars, netVars
  <1>1. NodeTypeOK'
    BY <1>0 DEF NodeTypeOK
  <1>2. ChildIsWaitedFor' /\ FirewallFirst'
    BY <1>0 DEF ChildIsWaitedFor, FirewallFirst, IsLockedDown, HardenedBeforeReachable
  <1>3. CASE Initrd \/ Kernel
    <2>1. pc = "off" /\ pc' = "off" /\ gpuPc' = gpuPc /\ child' = "none"
      BY <1>0, <1>3, EarlyBootIsOver DEF Initrd, Kernel, gpuVars, ChildIsWaitedFor
    <2>2. PartsFollow' /\ FaultsExplain' /\ ConsoleIsLocked'
      BY <2>1 DEF PartsFollow, FaultsExplain, NodeHaltHasReason, ConsoleIsLocked
    <2> QED
      BY <1>1, <1>2, <2>2
  <1>4. CASE Preload \/ Register \/ RawStep
    <2>1. UNCHANGED initrdVars /\ (pc \in {"off", "debug", "init"} => gpuPc' = gpuPc)
      BY <1>4 DEF Preload, Register, RawStep, UvmRegisters, gpuVars
    <2>2. PartsFollow' /\ FaultsExplain' /\ ConsoleIsLocked'
      BY <1>0, <2>1 DEF initrdVars, PartsFollow, FaultsExplain, NodeHaltHasReason, ConsoleIsLocked
    <2> QED
      BY <1>1, <1>2, <2>2
  <1> QED
    BY <1>3, <1>4

\* A halt after a failed call.
LEMMA HaltNodeOwn ==
  ASSUME BootInv, NEW from \in {"firewall", "lock", "keys", "cert"}, HaltNode(from)
  PROVE  OwnInv'
  <1> USE DEF BootInv, OwnInv, consoleVars, childVars, netVars
  <1>1. /\ pc = from /\ pc' = "halted" /\ faults' = faults + 1
        /\ UNCHANGED <<consoleVars, childVars, firewall, locked, netVars, report, listening, stage,
                       moved>>
    BY DEF HaltNode, NodeFails, Fails
  <1>2. faults \in Nat
    BY FaultAssumption DEF InitrdInv, InitrdTypeOK
  <1>3. NodeTypeOK'
    BY <1>1 DEF NodeTypeOK, NodePCs
  <1>4. PartsFollow' /\ ChildIsWaitedFor'
    BY <1>1 DEF PartsFollow, ChildIsWaitedFor
  <1>5. FirewallFirst'
    BY <1>1 DEF FirewallFirst, IsLockedDown, HardenedBeforeReachable
  <1>6. FaultsExplain' /\ ConsoleIsLocked'
    BY <1>1, <1>2 DEF FaultsExplain, NodeHaltHasReason, ConsoleIsLocked
  <1> QED
    BY <1>3, <1>4, <1>5, <1>6

\* Steps 0 and 1.
LEMMA EarlyNodeOwn ==
  ASSUME BootInv,
         NodeStarts \/ ResolveDebug \/ (\E missing \in SUBSET PseudoFs : EarlyInit(missing))
  PROVE  OwnInv'
  <1> USE DEF BootInv, OwnInv, consoleVars, childVars, netVars, initrdVars
  <1>0. faults \in Nat
    BY FaultAssumption DEF InitrdInv, InitrdTypeOK
  <1>1. CASE NodeStarts
    <2>1. /\ pc = "off" /\ pc' = "debug" /\ stage = "node" /\ fs' = moved
          /\ UNCHANGED <<initrdVars, gpuPc, flag, consoleNodes, printk, childVars, firewall, locked,
                         netVars, report, listening>>
      BY <1>1 DEF NodeStarts, gpuVars
    <2>2. NodeTypeOK'
      BY <2>1 DEF NodeTypeOK, NodePCs
    <2>3. PartsFollow' /\ ChildIsWaitedFor'
      BY <2>1 DEF PartsFollow, ChildIsWaitedFor
    <2>4. FirewallFirst' /\ FaultsExplain' /\ ConsoleIsLocked'
      BY <2>1 DEF FirewallFirst, IsLockedDown, HardenedBeforeReachable, FaultsExplain,
                  NodeHaltHasReason, ConsoleIsLocked
    <2> QED
      BY <2>2, <2>3, <2>4
  <1>2. CASE ResolveDebug
    <2>1. /\ pc = "debug" /\ pc' \in {"init", "panicked"} /\ stage = "node" /\ fs = moved
          /\ gpuPc = "off"
          /\ UNCHANGED <<initrdVars, gpuPc, flag, fs, childVars, firewall, locked, netVars, report,
                         listening>>
      BY <1>2 DEF ResolveDebug, PartsFollow, gpuVars
    <2>2. consoleNodes' \in BOOLEAN /\ printk' \in BOOLEAN
      BY <1>2 DEF ResolveDebug, LockConsole, NodeTypeOK
    <2>3. NodeTypeOK'
      BY <2>1, <2>2 DEF NodeTypeOK, NodePCs
    <2>4. PartsFollow' /\ ChildIsWaitedFor'
      BY <2>1 DEF PartsFollow, ChildIsWaitedFor
    <2>5. FirewallFirst'
      BY <2>1 DEF FirewallFirst, IsLockedDown, HardenedBeforeReachable
    <2>6. FaultsExplain'
      <3>1. ASSUME pc' = "panicked" PROVE faults > 0 \/ flag.where = "nowhere"
        <4>1. ~FlagIsFound
          BY <1>2, <3>1 DEF ResolveDebug
        <4>2. flag.where \in {"build", "cmdline", "nowhere"}
          BY DEF NodeTypeOK, DebugFlags
        <4>3. "proc" \in moved \/ faults > 0
          BY <2>1 DEF InitrdInv, MountsCostFaults
        <4> QED
          BY <2>1, <4>1, <4>2, <4>3 DEF FlagIsFound
      <3> QED
        BY <2>1, <3>1 DEF FaultsExplain, NodeHaltHasReason
    <2>7. ConsoleIsLocked'
      <3>1. SUFFICES ASSUME pc' = "init", flag.value = "off", {"dev", "proc"} \subseteq moved
                     PROVE  ~printk' /\ ~consoleNodes'
        BY <2>1 DEF ConsoleIsLocked
      <3>2. LockConsole
        BY <1>2, <3>1 DEF ResolveDebug
      <3> QED
        BY <2>1, <3>1, <3>2 DEF LockConsole
    <2> QED
      BY <2>3, <2>4, <2>5, <2>6, <2>7
  <1>3. ASSUME NEW missing \in SUBSET PseudoFs, EarlyInit(missing) PROVE OwnInv'
    <2>1. /\ pc = "init" /\ pc' = "drivers" /\ fs' = PseudoFs \ missing /\ reaper' = TRUE
          /\ faults' = faults + Cardinality(missing)
          /\ UNCHANGED <<stage, moved, flag, consoleNodes, printk, child, exit, firewall, locked,
                         netVars, report, listening>>
      BY <1>3 DEF EarlyInit, Fails
    <2>2. NodeTypeOK'
      BY <2>1 DEF NodeTypeOK, NodePCs
    <2>3. PartsFollow' /\ ChildIsWaitedFor'
      BY <2>1 DEF PartsFollow, ChildIsWaitedFor
    <2>4. FirewallFirst' /\ ConsoleIsLocked'
      BY <2>1 DEF FirewallFirst, IsLockedDown, HardenedBeforeReachable, ConsoleIsLocked
    <2>5. "proc" \in fs' \/ faults' > 0
      BY <1>0, <2>1, MissingCount DEF PseudoFs
    <2>6. child' = "none"
      BY <2>1 DEF ChildIsWaitedFor
    <2>7. FaultsExplain'
      BY <2>1, <2>5, <2>6 DEF FaultsExplain, NodeHaltHasReason
    <2> QED
      BY <2>2, <2>3, <2>4, <2>7
  <1> QED
    BY <1>1, <1>2, <1>3

\* Steps 3 and 4.
LEMMA FirewallOwn ==
  ASSUME BootInv,
         DriversLoaded \/ StartNft \/ WriteRulesFails \/ NftReturns \/ LockKernelModules \/ LockFails
  PROVE  OwnInv'
  <1> USE DEF BootInv, OwnInv, consoleVars, childVars, netVars, initrdVars
  <1>1. CASE WriteRulesFails \/ HaltNode("lock")
    BY <1>1, HaltNodeOwn DEF WriteRulesFails
  <1>2. CASE DriversLoaded \/ StartNft
    <2>1. /\ \/ pc = "drivers" /\ pc' = "firewall" /\ UNCHANGED <<child, exit>>
             \/ pc = "firewall" /\ pc' = "nft" /\ child' = "nft" /\ exit' = "running"
          /\ UNCHANGED <<initrdVars, consoleVars, reaper, firewall, locked, netVars, report, listening>>
      BY <1>2 DEF DriversLoaded, StartNft
    <2>2. NodeTypeOK'
      BY <2>1 DEF NodeTypeOK, NodePCs
    <2>3. PartsFollow' /\ ChildIsWaitedFor'
      BY <2>1 DEF PartsFollow, ChildIsWaitedFor
    <2>4. FirewallFirst' /\ ConsoleIsLocked'
      BY <2>1 DEF FirewallFirst, IsLockedDown, HardenedBeforeReachable, ConsoleIsLocked
    <2>5. FaultsExplain'
      BY <2>1 DEF FaultsExplain, NodeHaltHasReason
    <2> QED
      BY <2>2, <2>3, <2>4, <2>5
  <1>3. CASE NftReturns
    <2>1. /\ pc = "nft" /\ exit # "running" /\ pc' = (IF exit = "ok" THEN "lock" ELSE "halted")
          /\ child = "nft" /\ child' = "none"
          /\ UNCHANGED <<initrdVars, consoleVars, reaper, exit, firewall, locked, netVars, report,
                         listening>>
      BY <1>3 DEF NftReturns, AfterNft, ChildIsWaitedFor
    <2>2. exit \in {"ok", "failed", "stolen"}
      BY <2>1 DEF NodeTypeOK
    <2>3. NodeTypeOK'
      BY <2>1 DEF NodeTypeOK, NodePCs
    <2>4. PartsFollow' /\ ChildIsWaitedFor'
      BY <2>1 DEF PartsFollow, ChildIsWaitedFor
    <2>5. FirewallFirst' /\ ConsoleIsLocked'
      BY <2>1 DEF FirewallFirst, IsLockedDown, HardenedBeforeReachable, ConsoleIsLocked
    <2>6. FaultsExplain'
      BY <2>1, <2>2 DEF FaultsExplain, NodeHaltHasReason
    <2> QED
      BY <2>3, <2>4, <2>5, <2>6
  <1>4. CASE LockKernelModules
    <2>1. /\ pc = "lock" /\ pc' = "network" /\ locked' = TRUE
          /\ UNCHANGED <<initrdVars, consoleVars, childVars, firewall, netVars, report, listening>>
      BY <1>4 DEF LockKernelModules
    <2>2. NodeTypeOK'
      BY <2>1 DEF NodeTypeOK, NodePCs
    <2>3. PartsFollow' /\ ChildIsWaitedFor'
      BY <2>1 DEF PartsFollow, ChildIsWaitedFor
    <2>4. FirewallFirst' /\ ConsoleIsLocked'
      BY <2>1 DEF FirewallFirst, IsLockedDown, HardenedBeforeReachable, ConsoleIsLocked
    <2>5. FaultsExplain'
      BY <2>1 DEF FaultsExplain, NodeHaltHasReason
    <2> QED
      BY <2>2, <2>3, <2>4, <2>5
  <1>5. CASE LockFails /\ ~HaltNode("lock")
    <2>1. /\ pc = "lock" /\ "proc" \notin fs /\ pc' = "halted"
          /\ UNCHANGED <<initrdVars, consoleVars, childVars, firewall, locked, netVars, report,
                         listening>>
      BY <1>5 DEF LockFails
    <2>2. NodeTypeOK'
      BY <2>1 DEF NodeTypeOK, NodePCs
    <2>3. PartsFollow' /\ ChildIsWaitedFor'
      BY <2>1 DEF PartsFollow, ChildIsWaitedFor
    <2>4. FirewallFirst' /\ ConsoleIsLocked'
      BY <2>1 DEF FirewallFirst, IsLockedDown, HardenedBeforeReachable, ConsoleIsLocked
    <2>5. FaultsExplain'
      BY <2>1 DEF FaultsExplain, NodeHaltHasReason
    <2> QED
      BY <2>2, <2>3, <2>4, <2>5
  <1> QED
    BY <1>1, <1>2, <1>3, <1>4, <1>5

\* After the module lock nothing is undone, and only failed calls halt the node.
LEMMA LockedDownOwn ==
  ASSUME BootInv, OnlyFaults, IsLockedDown, IsLockedDown',
         UNCHANGED <<consoleVars, firewall, locked>>,
         NodeTypeOK', ChildIsWaitedFor', pc' = "udhcpc" => nic' \in Nics
  PROVE  OwnInv'
  <1> USE DEF BootInv, OwnInv, consoleVars
  <1>0. /\ faults \in Nat /\ faults' \in Nat /\ faults <= faults'
        /\ UNCHANGED <<stage, moved, flag, fs, consoleNodes, printk, firewall, locked>>
    BY FaultAssumption DEF InitrdInv, InitrdTypeOK, OnlyFaults
  <1>1. PartsFollow'
    BY <1>0 DEF PartsFollow, IsLockedDown
  <1>2. child' # "nft"
    BY DEF IsLockedDown, ChildIsWaitedFor
  <1>3. FirewallFirst'
    BY <1>0, <1>2 DEF FirewallFirst, HardenedBeforeReachable, IsLockedDown
  <1>4. FaultsExplain'
    BY <1>0, <1>2 DEF FaultsExplain, NodeHaltHasReason, IsLockedDown
  <1>5. ConsoleIsLocked'
    BY <1>0 DEF ConsoleIsLocked, IsLockedDown
  <1> QED
    BY <1>1, <1>3, <1>4, <1>5

\* Step 5.
LEMMA NetworkOwn == ASSUME BootInv, NetworkStep PROVE OwnInv'
  <1> USE DEF consoleVars, childVars, netVars
  <1>0. OnlyFaults
    BY NetworkFaults DEF BootInv, InitrdInv
  <1>1. NodeTypeOK /\ ChildIsWaitedFor /\ PartsFollow /\ rounds \in Nat /\ MaxRounds \in Nat
    BY RoundAssumption DEF BootInv, OwnInv, NodeTypeOK
  <1>2. ASSUME NEW ip \in OptAddress, NetworkDone(ip), child' = "none", up' \subseteq Nics,
               addrs' \in [Nics -> SUBSET Addresses], exit' \in {exit, "running"}, IsLockedDown,
               UNCHANGED <<consoleVars, reaper, firewall, locked, nics, report, listening>>
        PROVE  OwnInv'
    <2>1. pc' = "key" /\ certIP' = ip /\ rounds' = 0 /\ todo' = {} /\ nic' = NoNic
      BY <1>2 DEF NetworkDone
    <2>2. rounds' \in 0..MaxRounds
      BY <1>1, <2>1
    <2>3. NodeTypeOK'
      BY <1>1, <1>2, <2>1, <2>2 DEF NodeTypeOK, NodePCs
    <2>4. IsLockedDown' /\ ChildIsWaitedFor'
      BY <1>2, <2>1 DEF IsLockedDown, ChildIsWaitedFor
    <2> QED
      BY <1>0, <1>2, <2>1, <2>3, <2>4, LockedDownOwn
  <1>3. CASE NextRound \/ RoundEnds
    <2>1. /\ pc \in {"network", "candidate"} /\ pc' \in {"network", "candidate"}
          /\ rounds' \in 0..MaxRounds /\ todo' \subseteq Nics
          /\ UNCHANGED <<consoleVars, childVars, firewall, locked, nics, up, addrs, nic, certIP,
                         report, listening>>
      BY <1>1, <1>3 DEF NextRound, RoundEnds, NodeTypeOK
    <2>2. NodeTypeOK'
      BY <1>1, <2>1 DEF NodeTypeOK, NodePCs
    <2>3. IsLockedDown /\ IsLockedDown' /\ ChildIsWaitedFor'
      BY <1>1, <2>1 DEF IsLockedDown, ChildIsWaitedFor
    <2> QED
      BY <1>0, <2>1, <2>2, <2>3, LockedDownOwn
  <1>4. CASE NetworkTimesOut
    <2>1. /\ pc = "network" /\ NetworkDone(None) /\ child' = "none" /\ UNCHANGED <<exit, up, addrs>>
          /\ UNCHANGED <<consoleVars, reaper, firewall, locked, nics, report, listening>>
      BY <1>1, <1>4 DEF NetworkTimesOut, ChildIsWaitedFor
    <2>2. None \in OptAddress /\ IsLockedDown
      BY <2>1 DEF OptAddress, IsLockedDown
    <2> QED
      BY <1>1, <1>2, <2>1, <2>2 DEF NodeTypeOK
  <1>5. ASSUME NEW n \in Nics, TryConfigured(n) PROVE OwnInv'
    <2>1. PICK ip \in addrs[n] : NetworkDone(ip)
      BY <1>5 DEF TryConfigured
    <2>2. /\ pc = "candidate" /\ child' = "none" /\ up' = up \union {n} /\ UNCHANGED <<exit, addrs>>
          /\ UNCHANGED <<consoleVars, reaper, firewall, locked, nics, report, listening>>
      BY <1>1, <1>5 DEF TryConfigured, ChildIsWaitedFor
    <2>3. ip \in OptAddress /\ IsLockedDown /\ up' \subseteq Nics
      BY <1>1, <2>1, <2>2 DEF OptAddress, IsLockedDown, NodeTypeOK
    <2> QED
      BY <1>1, <1>2, <2>1, <2>2, <2>3 DEF NodeTypeOK
  <1>6. ASSUME NEW n \in Nics, SkipInterface(n) PROVE OwnInv'
    <2>1. /\ pc = "candidate" /\ up' = up \union {n} /\ todo' = todo \ {n}
          /\ UNCHANGED <<pc, consoleVars, childVars, firewall, locked, nics, addrs, rounds, nic, certIP,
                         report, listening>>
      BY <1>6 DEF SkipInterface
    <2>2. NodeTypeOK'
      BY <1>1, <2>1 DEF NodeTypeOK
    <2>3. IsLockedDown /\ IsLockedDown' /\ ChildIsWaitedFor'
      BY <1>1, <2>1 DEF IsLockedDown, ChildIsWaitedFor
    <2> QED
      BY <1>0, <2>1, <2>2, <2>3, LockedDownOwn
  <1>7. ASSUME NEW n \in Nics, StartUdhcpc(n) PROVE OwnInv'
    <2>1. /\ pc = "candidate" /\ up' = up \union {n} /\ todo' = todo \ {n} /\ nic' = n
          /\ pc' = "udhcpc" /\ child' = "udhcpc" /\ exit' = "running"
          /\ UNCHANGED <<consoleVars, reaper, firewall, locked, nics, addrs, rounds, certIP, report,
                         listening>>
      BY <1>7 DEF StartUdhcpc
    <2>2. NodeTypeOK'
      BY <1>1, <2>1 DEF NodeTypeOK, NodePCs
    <2>3. IsLockedDown /\ IsLockedDown' /\ ChildIsWaitedFor'
      BY <2>1 DEF IsLockedDown, ChildIsWaitedFor
    <2> QED
      BY <1>0, <2>1, <2>2, <2>3, LockedDownOwn
  <1>8. CASE UdhcpcSucceeds
    <2>1. PICK ip \in addrs[nic] : NetworkDone(ip)
      BY <1>8 DEF UdhcpcSucceeds
    <2>2. /\ pc = "udhcpc" /\ child' = "none" /\ exit' = "running" /\ UNCHANGED <<up, addrs>>
          /\ UNCHANGED <<consoleVars, reaper, firewall, locked, nics, report, listening>>
      BY <1>8 DEF UdhcpcSucceeds
    <2>3. ip \in OptAddress /\ IsLockedDown
      BY <1>1, <2>1, <2>2 DEF OptAddress, IsLockedDown, NodeTypeOK, PartsFollow
    <2> QED
      BY <1>1, <1>2, <2>1, <2>2, <2>3 DEF NodeTypeOK
  <1>9. CASE UdhcpcFails \/ RawNoLease
    <2>1. /\ \/ pc = "udhcpc" /\ pc' = "raw" /\ child' = "none" /\ exit' = "running"
             \/ pc = "raw" /\ pc' = "candidate" /\ UNCHANGED <<child, exit>>
          /\ UNCHANGED <<consoleVars, reaper, firewall, locked, netVars, report, listening>>
      BY <1>9 DEF UdhcpcFails, RawNoLease
    <2>2. NodeTypeOK'
      BY <1>1, <2>1 DEF NodeTypeOK, NodePCs
    <2>3. IsLockedDown /\ IsLockedDown' /\ ChildIsWaitedFor'
      BY <1>1, <2>1 DEF IsLockedDown, ChildIsWaitedFor
    <2> QED
      BY <1>0, <2>1, <2>2, <2>3, LockedDownOwn
  <1>10. CASE RawLease
    <2>1. offerIP \in Addresses
      BY <1>10, LeaseIsAddress DEF RawLease, BootInv
    <2>2. /\ pc = "raw" /\ NetworkDone(offerIP) /\ child' = "none" /\ UNCHANGED <<exit, up>>
          /\ UNCHANGED <<consoleVars, reaper, firewall, locked, nics, report, listening>>
      BY <1>1, <1>10 DEF RawLease, ChildIsWaitedFor
    <2>3. addrs' \in [Nics -> SUBSET Addresses]
      BY <1>1, <1>10, <2>1 DEF RawLease, NodeTypeOK
    <2>4. offerIP \in OptAddress /\ IsLockedDown
      BY <2>1, <2>2 DEF OptAddress, IsLockedDown
    <2> QED
      BY <1>1, <1>2, <2>2, <2>3, <2>4 DEF NodeTypeOK
  <1> QED
    BY <1>3, <1>4, <1>5, <1>6, <1>7, <1>8, <1>9, <1>10 DEF NetworkStep

\* Steps 5b to 10.
LEMMA IdentityOwn == ASSUME BootInv, IdentityStep PROVE OwnInv'
  <1> USE DEF consoleVars, childVars, netVars
  <1>0. OnlyFaults
    BY OtherFaults DEF BootInv, InitrdInv
  <1>1. NodeTypeOK /\ ChildIsWaitedFor
    BY DEF BootInv, OwnInv
  <1>2. CASE GenerateFails("keys") \/ GenerateFails("cert")
    BY <1>2, HaltNodeOwn DEF GenerateFails
  <1>3. ASSUME NEW from \in {"key", "keys", "cert", "report", "serve"},
               NEW to \in {"key", "keys", "cert", "report", "serve", "up"}, pc = from, pc' = to,
               report' \in BOOLEAN, listening' \in BOOLEAN,
               UNCHANGED <<consoleVars, childVars, firewall, locked, netVars>>
        PROVE  OwnInv'
    <2>1. NodeTypeOK'
      BY <1>1, <1>3 DEF NodeTypeOK, NodePCs
    <2>2. IsLockedDown /\ IsLockedDown' /\ ChildIsWaitedFor'
      BY <1>1, <1>3 DEF IsLockedDown, ChildIsWaitedFor
    <2> QED
      BY <1>0, <1>3, <2>1, <2>2, LockedDownOwn
  <1>4. report \in BOOLEAN /\ listening \in BOOLEAN
    BY <1>1 DEF NodeTypeOK
  <1>5. CASE KeyStep
    <2>1. pc = "key" /\ UNCHANGED <<pc, consoleVars, childVars, firewall, locked, netVars, report,
                                    listening>>
      BY <1>5 DEF KeyStep, nodeVars
    <2> QED
      BY <1>3, <1>4, <2>1
  <1>6. CASE KeyDone
    BY <1>3, <1>4, <1>6 DEF KeyDone
  <1>7. CASE Generate("keys", "cert") \/ Generate("cert", "report")
    BY <1>3, <1>4, <1>7 DEF Generate
  <1>8. CASE CollectReport
    BY <1>3, <1>4, <1>8 DEF CollectReport
  <1>9. CASE StartProxy
    BY <1>3, <1>4, <1>9 DEF StartProxy
  <1> QED
    BY <1>2, <1>5, <1>6, <1>7, <1>8, <1>9 DEF IdentityStep

\* The children, the reaper and the kernel.
LEMMA ChildOwn ==
  ASSUME BootInv, ChildStep \/ ReaperSteals \/ (\E n \in Nics : NicAppears(n))
  PROVE  OwnInv'
  <1> USE DEF BootInv, OwnInv, consoleVars, childVars, netVars, initrdVars
  <1>0. faults \in Nat
    BY FaultAssumption DEF InitrdInv, InitrdTypeOK
  <1>1. CASE NftExits
    <2>1. /\ pc = "nft" /\ pc' = "nft" /\ child = "nft" /\ child' = "nft"
          /\ \/ firewall' = TRUE /\ exit' = "ok" /\ faults' = faults
             \/ exit' = "failed" /\ faults' = faults + 1 /\ firewall' = firewall
          /\ UNCHANGED <<stage, moved, gpuPc, consoleVars, reaper, locked, netVars, report, listening>>
      BY <1>1 DEF NftExits, Fails, ChildIsWaitedFor, NodeTypeOK, NodePCs, gpuVars
    <2>2. NodeTypeOK'
      BY <2>1 DEF NodeTypeOK
    <2>3. PartsFollow' /\ ChildIsWaitedFor'
      BY <2>1 DEF PartsFollow, ChildIsWaitedFor
    <2>4. FirewallFirst' /\ ConsoleIsLocked'
      BY <2>1 DEF FirewallFirst, IsLockedDown, HardenedBeforeReachable, ConsoleIsLocked
    <2>5. FaultsExplain'
      BY <1>0, <2>1 DEF FaultsExplain, NodeHaltHasReason
    <2> QED
      BY <2>2, <2>3, <2>4, <2>5
  <1>2. CASE UdhcpcExits
    <2>1. /\ pc = "udhcpc" /\ exit' \in {"ok", "failed"}
          /\ UNCHANGED <<pc, consoleVars, reaper, child, firewall, locked, nics, up, rounds, todo, nic,
                         certIP, report, listening>>
      BY <1>2 DEF UdhcpcExits, ChildIsWaitedFor, NodeTypeOK, NodePCs
    <2>2. addrs' \in [Nics -> SUBSET Addresses]
      BY <1>2, RepliesAssumption DEF UdhcpcExits, NodeTypeOK
    <2>3. NodeTypeOK'
      BY <2>1, <2>2 DEF NodeTypeOK
    <2>4. IsLockedDown /\ IsLockedDown' /\ ChildIsWaitedFor' /\ nic' \in Nics
      BY <2>1 DEF IsLockedDown, ChildIsWaitedFor, PartsFollow
    <2>5. OnlyFaults
      BY <1>2, OtherFaults DEF ChildStep, InitrdInv
    <2> QED
      BY <2>1, <2>3, <2>4, <2>5, LockedDownOwn
  <1>3. CASE ReaperSteals
    <2>1. /\ child # "none" /\ exit' = "stolen"
          /\ UNCHANGED <<initrdVars, gpuPc, pc, consoleVars, reaper, child, firewall, locked, netVars,
                         report, listening>>
      BY <1>3 DEF ReaperSteals, gpuVars
    <2>2. NodeTypeOK'
      BY <2>1 DEF NodeTypeOK
    <2>3. PartsFollow' /\ ChildIsWaitedFor'
      BY <2>1 DEF PartsFollow, ChildIsWaitedFor
    <2>4. FirewallFirst' /\ ConsoleIsLocked'
      BY <2>1 DEF FirewallFirst, IsLockedDown, HardenedBeforeReachable, ConsoleIsLocked
    <2>5. FaultsExplain'
      BY <2>1 DEF FaultsExplain, NodeHaltHasReason
    <2> QED
      BY <2>2, <2>3, <2>4, <2>5
  <1>4. ASSUME NEW n \in Nics, NicAppears(n) PROVE OwnInv'
    <2>1. /\ nics' = nics \union {n}
          /\ UNCHANGED <<initrdVars, gpuPc, pc, consoleVars, childVars, firewall, locked, up, addrs,
                         rounds, todo, nic, certIP, report, listening>>
      BY <1>4 DEF NicAppears, gpuVars
    <2>2. NodeTypeOK'
      BY <2>1 DEF NodeTypeOK
    <2>3. PartsFollow' /\ ChildIsWaitedFor'
      BY <2>1 DEF PartsFollow, ChildIsWaitedFor
    <2>4. FirewallFirst' /\ ConsoleIsLocked'
      BY <2>1 DEF FirewallFirst, IsLockedDown, HardenedBeforeReachable, ConsoleIsLocked
    <2>5. FaultsExplain'
      BY <2>1 DEF FaultsExplain, NodeHaltHasReason
    <2> QED
      BY <2>2, <2>3, <2>4, <2>5
  <1> QED
    BY <1>1, <1>2, <1>3, <1>4 DEF ChildStep

-----------------------------------------------------------------------------
(* The invariant                                                           *)

LEMMA BootInit == Init => BootInv
  BY InitrdInitInv, GpuInitInv, DhcpInitInv, KeyInitInv, OwnInit DEF Init, BootInv

LEMMA BootStep == BootInv /\ [Next]_vars => BootInv'
  <1> SUFFICES ASSUME BootInv, [Next]_vars PROVE BootInv'
    OBVIOUS
  <1>1. CASE Next
    <2>1. InitrdInv' /\ GpuInv' /\ DhcpInv' /\ KeyInv'
      BY <1>1, NextPartsInv
    <2>2. OwnInv'
      BY <1>1, PartStepOwn, EarlyNodeOwn, FirewallOwn, NetworkOwn, IdentityOwn, ChildOwn
         DEF Next, HardeningStep
    <2> QED
      BY <2>1, <2>2 DEF BootInv
  <1>2. CASE UNCHANGED vars
    <2>1. UNCHANGED <<initrdVars, fs, gpuVars, dhcpVars, keyVars, nodeVars>>
      BY <1>2 DEF vars, nodeVars, consoleVars
    <2>2. OnlyFaults
      BY <2>1, FaultAssumption DEF OnlyFaults, initrdVars, BootInv, InitrdInv, InitrdTypeOK
    <2>3. InitrdInv'
      BY <2>2, InitrdOtherInv DEF OnlyFaults, BootInv
    <2>4. GpuInv' /\ DhcpInv' /\ KeyInv'
      BY <2>1, GpuSameInv, DhcpSameInv, KeySameInv DEF BootInv
    <2>5. OwnInv'
      BY <2>1 DEF BootInv, OwnInv, NodeTypeOK, PartsFollow, ChildIsWaitedFor, FirewallFirst,
                  IsLockedDown, HardenedBeforeReachable, FaultsExplain, NodeHaltHasReason,
                  ConsoleIsLocked, initrdVars, gpuVars, nodeVars, consoleVars, childVars, netVars
    <2> QED
      BY <2>3, <2>4, <2>5 DEF BootInv
  <1> QED
    BY <1>1, <1>2

LEMMA BootInvHolds == Spec => []BootInv
  BY BootInit, BootStep, PTL DEF Spec

-----------------------------------------------------------------------------
(* Theorems                                                                *)

\* Every variable of the boot keeps its type: of early boot, the drivers, the DHCP
\* client, the search for the key and the node itself.
THEOREM TypeCorrect == Spec => []TypeOK
  <1>1. BootInv => TypeOK
    BY DEF BootInv, InitrdInv, GpuInv, DhcpInv, KeyInv, OwnInv, TypeOK
  <1> QED
    BY <1>1, BootInvHolds, PTL

\* Whatever the disks hold and whichever partitions a race made discover_root_partitions
\* pick, the root hash of the command line is the one in the table that
\* activate_dm_verity loads, and the node runs from the image behind it or not at all.
THEOREM MeasuredRoot == Spec => []OnlyMeasuredRootRuns
  <1>1. BootInv => OnlyMeasuredRootRuns
    BY InitrdInvImplies DEF BootInv
  <1> QED
    BY <1>1, BootInvHolds, PTL

\* run_initrd and runNodeSupervisor halt for a reason: a failed system call, a disk read
\* too early, a machine without the image, a missing debug flag, or a stolen exit status.
THEOREM HaltsForReason == Spec => []HaltHasReason
  <1>1. BootInv => HaltHasReason
    BY InitrdInvImplies DEF BootInv, OwnInv, FaultsExplain, HaltHasReason
  <1> QED
    BY <1>1, BootInvHolds, PTL

\* The firewall and the module lock come before the first interface and the listener,
\* and the console stays locked, through lost exit statuses and failed commands.
THEOREM Hardened == Spec => []NodeIsHardened
  <1>1. BootInv => NodeIsHardened
    BY DEF BootInv, OwnInv, FirewallFirst, ConsoleIsLocked, NodeIsHardened, ConsoleStaysLocked
  <1> QED
    BY <1>1, BootInvHolds, PTL

\* EnsureGPUDeviceNodes makes nodes for hardware that is there and the major that is
\* registered now, through the reload of VerifyNVIDIAAdapterHealth.
THEOREM NodesAreReal == Spec => []NodesLeadToHardware
  <1>1. BootInv => NodesLeadToHardware
    BY GpuInvImplies DEF BootInv
  <1> QED
    BY <1>1, BootInvHolds, PTL

\* What HoldNVIDIAPersistence holds open no later call closes, nor does one take its
\* driver away.
THEOREM HeldIsKept == Spec => HeldForGood
  <1>1. ASSUME BootInv, [Next]_vars, held # {}
        PROVE  held \subseteq held' /\ "nvidia" \in loaded'
    <2>1. GpuStep \/ UvmRegisters \/ GpuStart \/ UNCHANGED gpuVars
      BY <1>1, NextGpu DEF vars
    <2> QED
      BY <1>1, <2>1, GpuStepHolds DEF BootInv
  <1>2. BootInv /\ [Next]_vars => [held # {} => held \subseteq held' /\ "nvidia" \in loaded']_gpuVars
    BY <1>1
  <1> QED
    BY <1>2, BootInvHolds, PTL DEF Spec, HeldForGood

\* Although obtainDHCP collects fields from every reply, complete or not, what the latest
\* one names is what it asks for and configures; and without a router in a reply that is
\* no offer, that latest reply is an offer and the router is its own.
THEOREM LeaseIsCoherent == Spec => []LeaseIsOfOneOffer
  <1>1. BootInv => LeaseIsOfOneOffer
    BY DEF BootInv, DhcpInv
  <1> QED
    BY <1>1, BootInvHolds, PTL

\* Without a key in CEVELL_AUTH_PUB, DiscoverAuthorizedPublicKey takes the first of
\* attributes and files as long as no lookup of a key fails, and it gives up only after
\* every lookup of one has, in every attempt.
THEOREM KeyIsHonoured == Spec => []ProvisionedKeyIsHonoured
  <1>1. BootInv => ProvisionedKeyIsHonoured
    BY DEF BootInv, KeyInv
  <1> QED
    BY <1>1, BootInvHolds, PTL

=============================================================================
