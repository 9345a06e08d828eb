------------------------------ MODULE NodeBoot ------------------------------
(***************************************************************************)
(* From power-on to a serving node: the initrd hands over to               *)
(* runNodeSupervisor (cmd/cevell-node/main.go), which as PID 1 locks the   *)
(* console, mounts file systems, loads drivers, closes the firewall and    *)
(* module loading, brings up the network, looks for the tenant key, makes  *)
(* its own keys and a quote, and serves.                                   *)
(*                                                                         *)
(* From step 1 on a reaper (pkg/system/hardening.go) waits for any child   *)
(* that ends: the exit status of a command that PID 1 itself waits for may *)
(* go to the reaper, and exec.Cmd then reports an error.  ControlPlane     *)
(* goes on where this module ends.                                         *)
(***************************************************************************)
EXTENDS Initrd, GpuDriver, DhcpClient, KeyDiscovery

CONSTANTS
  Deployments,  \* what is booted where: [machine, gpu, flag, provisioned]
  Nics,       \* external network interfaces
  NoNic,
  MaxRounds   \* rounds over the interfaces before the sixty seconds are over

DebugFlags == [where : {"build", "cmdline", "nowhere"}, value : {"on", "off"}]

ASSUME DeploymentAssumption ==
  Deployments \subseteq [machine : Machines, gpu : BOOLEAN, flag : DebugFlags,
                         provisioned : Provisionings]
ASSUME NicAssumption   == NoNic \notin Nics
ASSUME RoundAssumption == MaxRounds \in Nat \ {0}

VARIABLES
  pc,           \* the step of runNodeSupervisor
  flag,         \* the debug flag: where it is set, and to what
  consoleNodes, \* devtmpfs has the console device nodes
  printk,       \* the kernel logs to the console
  reaper,       \* SIGCHLD is handled
  child,        \* the command PID 1 waits for: "none", "nft", "udhcpc"
  exit,         \* "running", its exit status, or "stolen" by the reaper
  firewall, locked,       \* the rule set is active; modules_disabled
  nics, up,     \* interfaces the kernel has announced, and that were brought up
  addrs,        \* IPv4 addresses of each interface
  rounds, todo, nic,      \* the loops of DiscoverAndConfigureNetwork
  certIP,       \* the address DiscoverAndConfigureNetwork returned, for the certificate
  report,       \* a hardware report was obtained
  listening     \* the proxy accepts connections on port 443

consoleVars == <<flag, fs, consoleNodes, printk>>
childVars   == <<reaper, child, exit>>
netVars     == <<nics, up, addrs, rounds, todo, nic, certIP>>
nodeVars    == <<pc, consoleVars, childVars, firewall, locked, netVars, report, listening>>
vars        == <<initrdVars, gpuVars, dhcpVars, keyVars, nodeVars>>

NodePCs  == {"off", "debug", "init", "drivers", "firewall", "nft", "lock", "network", "candidate",
             "udhcpc", "raw", "key", "keys", "cert", "report", "serve", "up", "halted", "panicked"}

NodeTypeOK ==
  /\ pc \in NodePCs
  /\ flag \in DebugFlags
  /\ {consoleNodes, printk, reaper, firewall, locked, report, listening} \subseteq BOOLEAN
  /\ child \in {"none", "nft", "udhcpc"}
  /\ exit \in {"running", "ok", "failed", "stolen"}
  /\ nics \subseteq Nics
  /\ up \subseteq Nics
  /\ addrs \in [Nics -> SUBSET Addresses]
  /\ rounds \in 0..MaxRounds
  /\ todo \subseteq Nics
  /\ nic \in Nics \union {NoNic}
  /\ certIP \in OptAddress

TypeOK == InitrdTypeOK /\ GpuTypeOK /\ DhcpTypeOK /\ KeyTypeOK /\ NodeTypeOK

Init ==
  /\ InitrdInit /\ GpuInit /\ DhcpInit /\ KeyInit
  /\ pc = "off"
  /\ flag \in DebugFlags
  /\ [machine |-> machine, gpu |-> gpu, flag |-> flag, provisioned |-> provisioned] \in Deployments
  /\ fs = {}
  /\ consoleNodes = TRUE
  /\ printk = TRUE
  /\ reaper = FALSE
  /\ child = "none"
  /\ exit = "running"
  /\ firewall = FALSE
  /\ locked = FALSE
  /\ nics = {}
  /\ up = {}
  /\ addrs = [n \in Nics |-> {}]
  /\ rounds = 0
  /\ todo = {}
  /\ nic = NoNic
  /\ certIP = None
  /\ report = FALSE
  /\ listening = FALSE

-----------------------------------------------------------------------------
(* Steps 0 and 1                                                           *)

NodeFails == Fails(1) /\ UNCHANGED <<stage, machine, shown, mounts, polls, scanning, verityVars,
                                     root, moved, partial>>

\* select {}: PID 1 must never return.
HaltNode(from) ==
  /\ pc = from
  /\ pc' = "halted"
  /\ NodeFails
  /\ UNCHANGED <<consoleVars, childVars, firewall, locked, netVars, report, listening>>

NodeStarts ==
  /\ pc = "off"
  /\ stage = "node"
  /\ pc' = "debug"
  /\ fs' = moved
  /\ UNCHANGED <<initrdVars, gpuVars, dhcpVars, keyVars, flag, consoleNodes, printk, childVars,
                 firewall, locked, netVars, report, listening>>

\* IsDebugMode: the build flag, or the command line if /proc is there to read it.  (The
\* initrd passes no DEBUG variable.)
FlagIsFound == flag.where = "build" \/ (flag.where = "cmdline" /\ "proc" \in fs)

\* ConfigureConsoleLockdown(false): printk and the nodes, as far as /proc and /dev are
\* there; errors are ignored.
LockConsole ==
  /\ printk' = (printk /\ "proc" \notin fs)
  /\ consoleNodes' = (consoleNodes /\ "dev" \notin fs)

ResolveDebug ==
  /\ pc = "debug"
  /\ \/ ~FlagIsFound /\ pc' = "panicked" /\ UNCHANGED <<consoleNodes, printk>>
     \/ FlagIsFound /\ flag.value = "on" /\ pc' = "init" /\ UNCHANGED <<consoleNodes, printk>>
     \/ FlagIsFound /\ flag.value = "off" /\ pc' = "init" /\ LockConsole
  /\ UNCHANGED <<initrdVars, gpuVars, dhcpVars, keyVars, flag, fs, childVars, firewall, locked,
                 netVars, report, listening>>

\* SetupFilesystems: what is mounted already answers EBUSY; other errors are logged.
\* Then limits, loopback, the reaper, and the hardware topology.
EarlyInit(missing) ==
  /\ pc = "init"
  /\ missing \subseteq PseudoFs \ fs
  /\ fs' = PseudoFs \ missing
  /\ reaper' = TRUE
  /\ pc' = "drivers"
  /\ GpuStart
  /\ Fails(Cardinality(missing))
  /\ UNCHANGED <<stage, machine, shown, mounts, polls, scanning, verityVars, root, moved, partial,
                 dhcpVars, keyVars, flag, consoleNodes, printk, child, exit, firewall, locked,
                 netVars, report, listening>>

-----------------------------------------------------------------------------
(* Children of PID 1 and the reaper                                        *)

\* The reaper's Wait4(-1) collects the child before the Wait of exec.Cmd does.
ReaperSteals ==
  /\ reaper
  /\ child # "none"
  /\ exit \in {"ok", "failed"}
  /\ exit' = "stolen"
  /\ UNCHANGED <<initrdVars, gpuVars, dhcpVars, keyVars, pc, consoleVars, reaper, child, firewall,
                 locked, netVars, report, listening>>

\* nft replaces the rule set in one transaction.
NftExits ==
  /\ child = "nft"
  /\ exit = "running"
  /\ \/ firewall' = TRUE /\ exit' = "ok" /\ UNCHANGED faults
     \/ exit' = "failed" /\ Fails(1) /\ UNCHANGED firewall
  /\ UNCHANGED <<stage, machine, shown, mounts, polls, scanning, verityVars, root, moved, partial,
                 gpuVars, dhcpVars, keyVars, pc, consoleVars, reaper, child, locked, netVars,
                 report, listening>>

\* udhcpc gets a lease and its script configures the interface, or fails to, which
\* udhcpc does not report; or there is no lease.
UdhcpcExits ==
  /\ child = "udhcpc"
  /\ exit = "running"
  /\ \/ exit' = "failed" /\ UNCHANGED <<addrs, initrdVars>>
     \/ exit' = "ok" /\ NodeFails /\ UNCHANGED addrs
     \/ \E m \in Replies : /\ m.type = "offer"
                           /\ exit' = "ok"
                           /\ addrs' = [addrs EXCEPT ![nic] = @ \union {m.ip}]
                           /\ UNCHANGED initrdVars
  /\ UNCHANGED <<gpuVars, dhcpVars, keyVars, pc, consoleVars, reaper, child, firewall,
                 locked, nics, up, rounds, todo, nic, certIP, report, listening>>

-----------------------------------------------------------------------------
(* Steps 3 and 4: drivers, firewall, modules                               *)

DriversLoaded ==
  /\ pc = "drivers"
  /\ gpuPc = "done"
  /\ pc' = "firewall"
  /\ UNCHANGED <<initrdVars, gpuVars, dhcpVars, keyVars, consoleVars, childVars, firewall, locked,
                 netVars, report, listening>>

\* ApplyFirewallConfig: the default rules are written if there is no file.
StartNft ==
  /\ pc = "firewall"
  /\ pc' = "nft"
  /\ child' = "nft"
  /\ exit' = "running"
  /\ UNCHANGED <<initrdVars, gpuVars, dhcpVars, keyVars, consoleVars, reaper, firewall, locked,
                 netVars, report, listening>>

WriteRulesFails ==
  HaltNode("firewall") /\ UNCHANGED <<gpuVars, dhcpVars, keyVars>>

\* Mutant: an error of nft is logged and the boot goes on.
AfterNftAlways == "lock"

AfterNft == IF exit = "ok" THEN "lock" ELSE "halted"

NftReturns ==
  /\ pc = "nft"
  /\ exit # "running"
  /\ pc' = AfterNft
  /\ child' = "none"
  /\ UNCHANGED <<initrdVars, gpuVars, dhcpVars, keyVars, consoleVars, reaper, exit, firewall,
                 locked, netVars, report, listening>>

\* LockKernelModules writes to /proc.
LockKernelModules ==
  /\ pc = "lock"
  /\ "proc" \in fs
  /\ locked' = TRUE
  /\ pc' = "network"
  /\ UNCHANGED <<initrdVars, gpuVars, dhcpVars, keyVars, consoleVars, childVars, firewall, netVars,
                 report, listening>>

LockFails ==
  /\ \/ HaltNode("lock")
     \/ /\ pc = "lock" /\ "proc" \notin fs /\ pc' = "halted"
        /\ UNCHANGED <<initrdVars, consoleVars, childVars, firewall, locked, netVars, report,
                       listening>>
  /\ UNCHANGED <<gpuVars, dhcpVars, keyVars>>

-----------------------------------------------------------------------------
(* Step 5: DiscoverAndConfigureNetwork                                     *)

NicAppears(n) ==
  /\ pc \in {"drivers", "network", "candidate"}
  /\ n \notin nics
  /\ nics' = nics \union {n}
  /\ UNCHANGED <<initrdVars, gpuVars, dhcpVars, keyVars, pc, consoleVars, childVars, firewall,
                 locked, up, addrs, rounds, todo, nic, certIP, report, listening>>

\* Mutant: the deadline is set anew in every round.
NextRoundForever ==
  /\ pc = "network"
  /\ rounds < MaxRounds
  /\ rounds' = 1
  /\ todo' = nics
  /\ pc' = "candidate"
  /\ UNCHANGED <<initrdVars, gpuVars, dhcpVars, keyVars, consoleVars, childVars, firewall, locked,
                 nics, up, addrs, nic, certIP, report, listening>>

\* findNetworkInterfaces; the deadline is looked at between rounds only.
NextRound ==
  /\ pc = "network"
  /\ rounds < MaxRounds
  /\ rounds' = rounds + 1
  /\ todo' = nics
  /\ pc' = "candidate"
  /\ UNCHANGED <<initrdVars, gpuVars, dhcpVars, keyVars, consoleVars, childVars, firewall, locked,
                 nics, up, addrs, nic, certIP, report, listening>>

RoundEnds ==
  /\ pc = "candidate"
  /\ todo = {}
  /\ pc' = "network"
  /\ UNCHANGED <<initrdVars, gpuVars, dhcpVars, keyVars, consoleVars, childVars, firewall, locked,
                 netVars, report, listening>>

\* The network step returns an address, or None after a warning; the search for the key
\* begins.  The loops' locals are gone.
NetworkDone(ip) ==
  /\ certIP' = ip
  /\ pc' = "key"
  /\ rounds' = 0 /\ todo' = {} /\ nic' = NoNic
  /\ KeyStart

NetworkTimesOut ==
  /\ pc = "network"
  /\ rounds = MaxRounds
  /\ NetworkDone(None)
  /\ UNCHANGED <<initrdVars, gpuVars, dhcpVars, consoleVars, childVars, firewall, locked, nics, up,
                 addrs, report, listening>>

\* An interface that has an address already is taken as it is.
TryConfigured(n) ==
  /\ pc = "candidate"
  /\ n \in todo
  /\ up' = up \union {n}
  /\ \E ip \in addrs[n] : NetworkDone(ip)
  /\ UNCHANGED <<initrdVars, gpuVars, dhcpVars, consoleVars, childVars, firewall, locked, nics,
                 addrs, report, listening>>

\* InterfaceByName fails: the next candidate.
SkipInterface(n) ==
  /\ pc = "candidate"
  /\ n \in todo
  /\ up' = up \union {n}
  /\ todo' = todo \ {n}
  /\ NodeFails
  /\ UNCHANGED <<gpuVars, dhcpVars, keyVars, pc, consoleVars, childVars, firewall, locked, nics,
                 addrs, rounds, nic, certIP, report, listening>>

StartUdhcpc(n) ==
  /\ pc = "candidate"
  /\ n \in todo
  /\ addrs[n] = {}
  /\ up' = up \union {n}
  /\ todo' = todo \ {n}
  /\ nic' = n
  /\ pc' = "udhcpc"
  /\ child' = "udhcpc"
  /\ exit' = "running"
  /\ UNCHANGED <<initrdVars, gpuVars, dhcpVars, keyVars, consoleVars, reaper, firewall, locked,
                 nics, addrs, rounds, certIP, report, listening>>

UdhcpcSucceeds ==
  /\ pc = "udhcpc"
  /\ exit = "ok"
  /\ child' = "none" /\ exit' = "running"
  /\ \E ip \in addrs[nic] : NetworkDone(ip)
  /\ UNCHANGED <<initrdVars, gpuVars, dhcpVars, consoleVars, reaper, firewall, locked, nics,
                 up, addrs, report, listening>>

\* Any error, the lost status of a udhcpc that succeeded included, and a success that
\* left no address: raw DHCP.
UdhcpcFails ==
  /\ pc = "udhcpc"
  /\ exit \in {"failed", "stolen"} \/ (exit = "ok" /\ addrs[nic] = {})
  /\ child' = "none" /\ exit' = "running"
  /\ pc' = "raw"
  /\ DhcpStart
  /\ UNCHANGED <<initrdVars, gpuVars, keyVars, consoleVars, reaper, firewall, locked,
                 netVars, report, listening>>

\* ip addr add, whose result is ignored.
RawLease ==
  /\ pc = "raw"
  /\ dhcpPc = "lease"
  /\ \/ addrs' = [addrs EXCEPT ![nic] = @ \union {offerIP}] /\ UNCHANGED initrdVars
     \/ NodeFails /\ UNCHANGED addrs
  /\ NetworkDone(offerIP)
  /\ DhcpReturn
  /\ UNCHANGED <<gpuVars, consoleVars, childVars, firewall, locked, nics, up, report,
                 listening>>

RawNoLease ==
  /\ pc = "raw"
  /\ dhcpPc = "noLease"
  /\ pc' = "candidate"
  /\ DhcpReturn
  /\ UNCHANGED <<initrdVars, gpuVars, keyVars, consoleVars, childVars, firewall, locked,
                 netVars, report, listening>>

-----------------------------------------------------------------------------
(* Steps 5b to 10                                                          *)

\* The metadata service is reached over a configured interface only.
IsOnline == \E n \in Nics : addrs[n] # {}

KeyStep ==
  /\ pc = "key"
  /\ ReadEnv \/ (IsOnline /\ LookupAnswered) \/ LookupFails \/ ReadFiles
  /\ UNCHANGED <<initrdVars, gpuVars, dhcpVars, nodeVars>>

\* NewDefaultEd25519Verifier with the key, or NewDynamicVerifier without.
KeyDone ==
  /\ pc = "key"
  /\ keyPc = "done"
  /\ pc' = "keys"
  /\ UNCHANGED <<initrdVars, gpuVars, dhcpVars, keyVars, consoleVars, childVars, firewall, locked,
                 netVars, report, listening>>

\* GenerateNodeKeyPair, then GenerateSelfSignedCert.
Generate(from, to) ==
  /\ pc = from
  /\ pc' = to
  /\ UNCHANGED <<initrdVars, gpuVars, dhcpVars, keyVars, consoleVars, childVars, firewall, locked,
                 netVars, report, listening>>

GenerateFails(from) == HaltNode(from) /\ UNCHANGED <<gpuVars, dhcpVars, keyVars>>

\* Without a report the node goes on and has no document (Attestation has the details).
CollectReport ==
  /\ pc = "report"
  /\ report' \in BOOLEAN
  /\ pc' = "serve"
  /\ UNCHANGED <<initrdVars, gpuVars, dhcpVars, keyVars, consoleVars, childVars, firewall, locked,
                 netVars, listening>>

\* The proxy runs in a goroutine; its error is logged and PID 1 stays.
StartProxy ==
  /\ pc = "serve"
  /\ listening' \in BOOLEAN
  /\ pc' = "up"
  /\ UNCHANGED <<initrdVars, gpuVars, dhcpVars, keyVars, consoleVars, childVars, firewall, locked,
                 netVars, report>>

-----------------------------------------------------------------------------
Initrd == InitrdStep /\ UNCHANGED <<gpuVars, dhcpVars, keyVars, nodeVars>>
Kernel == KernelStep /\ UNCHANGED <<gpuVars, dhcpVars, keyVars, nodeVars>>
Preload == pc = "drivers" /\ GpuStep /\ UNCHANGED <<initrdVars, dhcpVars, keyVars, nodeVars>>
Register == UvmRegisters /\ UNCHANGED <<initrdVars, dhcpVars, keyVars, nodeVars>>
RawStep == pc = "raw" /\ DhcpStep /\ UNCHANGED <<initrdVars, gpuVars, keyVars, nodeVars>>
RawTimeout == pc = "raw" /\ DhcpTimeout /\ UNCHANGED <<initrdVars, gpuVars, keyVars, nodeVars>>

HardeningStep ==
  \/ NodeStarts \/ ResolveDebug \/ (\E missing \in SUBSET PseudoFs : EarlyInit(missing))
  \/ DriversLoaded \/ StartNft \/ WriteRulesFails \/ NftReturns \/ LockKernelModules \/ LockFails

NetworkStep ==
  \/ NextRound \/ RoundEnds \/ NetworkTimesOut
  \/ \E n \in Nics : TryConfigured(n) \/ SkipInterface(n) \/ StartUdhcpc(n)
  \/ UdhcpcSucceeds \/ UdhcpcFails \/ RawLease \/ RawNoLease

IdentityStep ==
  \/ KeyStep \/ KeyDone
  \/ Generate("keys", "cert") \/ GenerateFails("keys")
  \/ Generate("cert", "report") \/ GenerateFails("cert")
  \/ CollectReport \/ StartProxy

ChildStep == NftExits \/ UdhcpcExits

Next ==
  \/ Initrd \/ Kernel \/ Preload \/ Register \/ RawStep
  \/ HardeningStep \/ NetworkStep \/ IdentityStep
  \/ ChildStep \/ ReaperSteals
  \/ \E n \in Nics : NicAppears(n)

Spec == Init /\ [][Next]_vars

(***************************************************************************)
(* The programs run, commands end (udhcpc gives up by itself), and the two *)
(* seconds of a DHCP wait pass.  Nothing is assumed of the kernel's        *)
(* probing, of the network, or of the reaper.                              *)
(***************************************************************************)
Fairness ==
  /\ WF_vars(Initrd)
  /\ WF_vars(Preload)
  /\ WF_vars(RawTimeout)
  /\ WF_vars(HardeningStep \/ NetworkStep \/ IdentityStep)
  /\ WF_vars(ChildStep)

FairSpec == Spec /\ Fairness

-----------------------------------------------------------------------------
(* Properties                                                              *)

\* "Apply firewall BEFORE bringing up external network to eliminate exposure race
\* window": on every path, with commands that fail and exit statuses that get lost,
\* no interface is up and nothing listens unless the rule set is active and module
\* loading is locked.
HardenedBeforeReachable == up # {} \/ listening => firewall /\ locked

\* A node halts for good, without a retry and without a way in.  It does so only if a
\* system call failed, or because the reaper took the exit status of nft.
NodeHaltHasReason ==
  /\ pc = "halted" => faults > 0 \/ exit = "stolen"
  /\ pc = "panicked" => faults > 0 \/ flag.where = "nowhere"

\* debug = off means "zero console leakage": nodes unlinked and printk silenced.  The
\* lockdown comes before the node mounts /dev and /proc, so it rests on the mounts of
\* the initrd: where those were handed over, no later step brings the console back.
ConsoleStaysLocked ==
  /\ pc \notin {"off", "debug", "panicked"}
  /\ flag.value = "off"
  /\ {"dev", "proc"} \subseteq moved
  => ~printk /\ ~(consoleNodes /\ "dev" \in fs)

\* Hardening comes first and stays: nothing is reachable before it, and the console does
\* not come back after it.
NodeIsHardened == HardenedBeforeReachable /\ ConsoleStaysLocked

\* A halt is final, in the initrd as in the node: both have a reason for it.
HaltHasReason == InitrdHaltHasReason /\ NodeHaltHasReason

\* Boot ends: through late disks and interfaces, servers that do not answer, retries
\* and lost exit statuses, the node comes up or stops for good.
BootSettles == <>(stage = "halted" \/ pc \in {"up", "halted", "panicked"})
=============================================================================
