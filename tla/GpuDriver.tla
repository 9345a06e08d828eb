----------------------------- MODULE GpuDriver -----------------------------
(***************************************************************************)
(* PreloadDriverModules (pkg/system/modules.go), the last chance to load   *)
(* kernel modules: the NVIDIA drivers, their device nodes, the files held  *)
(* open so that the adapter keeps its context, and one reload of the       *)
(* drivers when nothing could be held.  All results are ignored by the     *)
(* caller.                                                                 *)
(***************************************************************************)
EXTENDS Integers

CONSTANT UvmTries   \* looks at /proc/devices for the major of nvidia-uvm (3)

ASSUME UvmTriesAssumption == UvmTries \in Nat \ {0}

Devices  == {"nvidiactl", "nvidia0"}
PseudoFs == {"dev", "proc", "sys", "run"}

VARIABLES
  fs,         \* the pseudo file systems mounted in the node's root
  gpuPc,
  gpu,        \* an NVIDIA device is on the PCI bus
  loaded,     \* the driver modules in the kernel
  uvmMajor,   \* the major number nvidia-uvm has registered; 0: none.  It is dynamic:
              \* every load gets another one
  nodes,      \* device nodes of the adapter exist
  uvmNode,    \* the major in /dev/nvidia-uvm; 0: no node
  held,       \* nvidiaDevFiles
  loads,      \* how often the modules were loaded
  tries       \* the loop over /proc/devices

gpuVars == <<gpuPc, gpu, loaded, uvmMajor, nodes, uvmNode, held, loads, tries>>

\* The calls of PreloadDriverModules and, after "verify", of its reload.
GpuPCs == {"off", "load", "nodes", "uvm", "hold", "verify", "reload", "reNodes", "reUvm",
           "reHold", "nodes2", "uvm2", "ready", "done"}

GpuTypeOK ==
  /\ gpuPc \in GpuPCs
  /\ {gpu, nodes} \subseteq BOOLEAN
  /\ fs \subseteq PseudoFs
  /\ loaded \subseteq {"nvidia", "nvidia_uvm"}
  /\ uvmMajor \in 0..2
  /\ uvmNode \in 0..2
  /\ held \subseteq Devices
  /\ loads \in 0..2
  /\ tries \in 0..UvmTries

GpuInit ==
  /\ gpuPc = "off"
  /\ gpu \in BOOLEAN
  /\ loaded = {}
  /\ uvmMajor = 0
  /\ nodes = FALSE
  /\ uvmNode = 0
  /\ held = {}
  /\ loads = 0
  /\ tries = 0

-----------------------------------------------------------------------------
\* LoadDirectNVIDIAModules: what is in /sys/module already is skipped; finit_module
\* from the first directory that has the file, else modprobe.  The driver refuses to
\* load without a device, uvm without nvidia.
LoadModules(from, to) ==
  /\ gpuPc = from
  /\ gpuPc' = to
  /\ loads' = loads + 1
  /\ loaded' \in {{}, {"nvidia"}, {"nvidia", "nvidia_uvm"}}
  /\ loaded \subseteq loaded'
  /\ loaded' # {} => gpu
  /\ UNCHANGED <<gpu, uvmMajor, nodes, uvmNode, held, tries>>

\* nvidia-uvm shows up in /proc/devices some time after its load.
UvmRegisters ==
  /\ "nvidia_uvm" \in loaded
  /\ uvmMajor = 0
  /\ gpuPc # "done"
  /\ uvmMajor' = loads
  /\ UNCHANGED <<gpuPc, gpu, loaded, nodes, uvmNode, held, loads, tries>>

\* /proc/devices lists the driver, or /sys/bus/pci the device.
HasNVIDIAHardware == ("proc" \in fs /\ "nvidia" \in loaded) \/ ("sys" \in fs /\ gpu)

\* EnsureGPUDeviceNodes: without hardware no node is made, and none can be made on the
\* read-only root; mknod's result is ignored.
EnsureNodes(from, uvm, to) ==
  /\ gpuPc = from
  /\ tries' = 0
  /\ \/ HasNVIDIAHardware /\ nodes' = (nodes \/ "dev" \in fs) /\ gpuPc' = uvm
     \/ ~HasNVIDIAHardware /\ gpuPc' = to /\ UNCHANGED nodes
  /\ UNCHANGED <<gpu, loaded, uvmMajor, uvmNode, held, loads>>

\* detectMajorFromProcDevices
SeenMajor == IF "proc" \in fs THEN uvmMajor ELSE 0

\* Mutant: an existing node is not removed, so that mknod fails with EEXIST.
EnsureUvmKeeps(from, to) ==
  /\ gpuPc = from
  /\ \/ /\ SeenMajor # 0
        /\ uvmNode' = IF uvmNode = 0 /\ "dev" \in fs THEN uvmMajor ELSE uvmNode
        /\ gpuPc' = to
        /\ UNCHANGED tries
     \/ /\ SeenMajor = 0
        /\ tries' = tries + 1
        /\ gpuPc' = IF tries' = UvmTries THEN to ELSE from
        /\ UNCHANGED uvmNode
  /\ UNCHANGED <<gpu, loaded, uvmMajor, nodes, held, loads>>

\* ... and its loop: the node is replaced when the major is known; after the last try
\* the function returns an error and the old node, if any, stays.
EnsureUvm(from, to) ==
  /\ gpuPc = from
  /\ \/ /\ SeenMajor # 0
        /\ uvmNode' = IF "dev" \in fs THEN uvmMajor ELSE uvmNode
        /\ gpuPc' = to
        /\ UNCHANGED tries
     \/ /\ SeenMajor = 0
        /\ tries' = tries + 1
        /\ gpuPc' = IF tries' = UvmTries THEN to ELSE from
        /\ UNCHANGED uvmNode
  /\ UNCHANGED <<gpu, loaded, uvmMajor, nodes, held, loads>>

\* HoldNVIDIAPersistence: nothing is opened any more once one file is held.
Hold(from, to) ==
  /\ gpuPc = from
  /\ gpuPc' = to
  /\ IF held = {} /\ nodes /\ "nvidia" \in loaded THEN held' \in SUBSET Devices
                                                  ELSE UNCHANGED held
  /\ UNCHANGED <<gpu, loaded, uvmMajor, nodes, uvmNode, loads, tries>>

\* Mutant: the adapter is reloaded unless both files are held.
AdapterIsHealthyStrict == ~HasNVIDIAHardware \/ held = Devices

AdapterIsHealthy == ~HasNVIDIAHardware \/ held # {}

\* VerifyNVIDIAAdapterHealth: held files are closed and the modules removed, uvm
\* first, as far as rmmod succeeds; then everything is done once more.
VerifyAdapter ==
  /\ gpuPc = "verify"
  /\ \/ AdapterIsHealthy /\ gpuPc' = "nodes2" /\ UNCHANGED <<loaded, uvmMajor, held>>
     \/ /\ ~AdapterIsHealthy
        /\ gpuPc' = "reload"
        /\ held' = {}
        /\ loaded' \in {{}, loaded \ {"nvidia_uvm"}, loaded}
        /\ uvmMajor' = IF "nvidia_uvm" \in loaded' THEN uvmMajor ELSE 0
  /\ UNCHANGED <<gpu, nodes, uvmNode, loads, tries>>

GpuStep ==
  \/ LoadModules("load", "nodes")
  \/ EnsureNodes("nodes", "uvm", "hold")
  \/ EnsureUvm("uvm", "hold")
  \/ Hold("hold", "verify")
  \/ VerifyAdapter
  \/ LoadModules("reload", "reNodes")
  \/ EnsureNodes("reNodes", "reUvm", "reHold")
  \/ EnsureUvm("reUvm", "reHold")
  \/ Hold("reHold", "nodes2")
  \/ EnsureNodes("nodes2", "uvm2", "ready")     \* after the netfilter drivers
  \/ EnsureUvm("uvm2", "ready")
  \/ Hold("ready", "done")                      \* InitializeGPUConfidentialComputing

GpuNext == GpuStep \/ UvmRegisters

\* The other drivers come first; whether modprobe finds them is only logged.
GpuStart ==
  /\ gpuPc = "off"
  /\ gpuPc' = "load"
  /\ UNCHANGED <<gpu, loaded, uvmMajor, nodes, uvmNode, held, loads, tries>>

-----------------------------------------------------------------------------
(* Properties                                                              *)

\* "permanently holds /dev/nvidiactl and /dev/nvidia0 open so the kernel and GSP
\* firmware do not drop the GPU adapter context": once a file is held, no later call
\* of the preload, the health check and its reload included, closes it or takes its
\* driver away.
HeldForGood == [][held # {} => held \subseteq held' /\ "nvidia" \in loaded']_gpuVars

\* The major of nvidia-uvm is dynamic and changes with a reload: when the last call of
\* EnsureGPUDeviceNodes found it registered, /dev/nvidia-uvm leads to it and not to
\* the major of an earlier load.
UvmNodeIsCurrent ==
  gpuPc = "done" /\ HasNVIDIAHardware /\ nodes /\ tries < UvmTries => uvmNode = uvmMajor

\* "Pure CPU mode: do not create phantom /dev/nvidiaX nodes": GPU detection elsewhere
\* counts these nodes.
NoPhantomNodes == nodes \/ uvmNode # 0 \/ held # {} => gpu

\* Device nodes lead to hardware that is there and to the driver that is loaded now.
NodesLeadToHardware == UvmNodeIsCurrent /\ NoPhantomNodes
=============================================================================
