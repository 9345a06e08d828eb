---------------------------- MODULE ContextSizing ----------------------------
(***************************************************************************)
(* How a load chooses the context length and the tensor parallelism of its *)
(* engine: pkg/inference/context_sizing.go, the part of LoadModel and      *)
(* loadGPUModel that uses it, and the hardware report it starts from.      *)
(*                                                                         *)
(* LoadModel holds loadMu throughout, so loads follow one another and a    *)
(* load is one thread of control: it discovers the hardware, looks for the *)
(* model's config.json on disk, then on the network, lets the name of the  *)
(* model override what it found, sizes the context and launches.           *)
(*                                                                         *)
(* Numbers.  params is in tenths of a billion and bytes in hundredths of a *)
(* byte, so that int(params * bytes * 1024) is exact in integers.  Head    *)
(* dimensions and the bytes of a MiB are counted in DimUnit; with DimUnit  *)
(* 1 they are the code's, with 64 the products stay below 2^31 and every   *)
(* quotient is the same as long as head dimensions are multiples of 64.    *)
(***************************************************************************)
EXTENDS Integers, FiniteSets, FiniteSetsExt

CONSTANTS Specs,     \* the load requests
          Configs,   \* the config.json files a model may have
          Hardware,  \* what the scans of the machine may report
          NoConfig,  \* no configuration was found
          NoEngine,  \* no engine was launched
          DimUnit    \* the unit of head dimensions and of MiB

VARIABLES pc,        \* where LoadModel is
          gpuLocked, \* config.IsGPULocked, fixed at build time
          spec,      \* the request
          topo,      \* hardware.TopologyReport
          config,    \* the configuration that was found
          meta,      \* ModelArchitectureMeta
          maxContext, activeContext,   \* the supervisor's fields of these names
          engine     \* the arguments of the engine that was launched

vars == <<pc, gpuLocked, spec, topo, config, meta, maxContext, activeContext, engine>>

Quants   == {"none", "int4", "int8"}
Sizes    == {"none", "0.5b", "1.5b", "3b", "7b", "14b", "32b", "72b"}
GPUTypes == {"B200", "B100", "RTX6000", "H100", "A100", "L40", "L4", "T4", "other"}

SpecType ==
  [context : Int,      \* ContextSize of the request, 0 if absent
   remote  : BOOLEAN,  \* the identifier looks like Org/Repo
   fourBit : BOOLEAN,  \* BitsAndBytes or GGUF, by parameter or by file name
   quant : Quants, size : Sizes, family : Nat]   \* what the name contains

ConfigType ==
  [layers : Nat, hidden : Nat, attention : Nat, kv : Nat,
   positions : Nat, seq : Nat, quantized : BOOLEAN]

HardwareType ==
  [pci : Nat, nodes : Nat,   \* GPUs on the PCI bus, device nodes
   smi : Nat, model : GPUTypes]   \* memory by nvidia-smi (0: no answer), model name

\* Requests, configurations and hardware reports are records of the fields the
\* sizing reads.
ASSUME InputAssumption ==
  /\ Specs \subseteq SpecType
  /\ Configs \subseteq ConfigType
  /\ Hardware \subseteq HardwareType

\* Both units divide every head dimension of the tables and the bytes of a MiB.
ASSUME UnitAssumption == DimUnit \in {1, 64}

MetaType == [layers : Nat \ {0}, kv : Nat \ {0}, dim : Nat \ {0},
             native : Nat \ {0}, params : Nat \ {0}, bytes : Nat \ {0}]
TopoType == [count : Nat, vram : Nat]

Positive(a, b) == IF a > 0 THEN a ELSE b
AtMost(a, b)   == IF a > b THEN b ELSE a

MiB == 1048576 \div DimUnit

----------------------------------------------------------------------------
(* Hardware *)

\* Memory of a GPU by its model name, when nvidia-smi does not answer.
HeuristicVRAM ==
  [g \in GPUTypes |-> CASE g = "B200" -> 184320
                        [] g = "B100" -> 147456
                        [] g \in {"H100", "A100"} -> 81920
                        [] g \in {"RTX6000", "L40"} -> 49152
                        [] g = "L4" -> 24576
                        [] g = "T4" -> 16160
                        [] g = "other" -> 16384]

\* Device nodes count only when the PCI scan finds nothing; the memory of one GPU
\* stands for all.  HasGPU is count > 0.
DiscoverTopology(h) ==
  LET count == Positive(h.pci, h.nodes)
  IN [count |-> count, vram |-> count * Positive(h.smi, HeuristicVRAM[h.model])]

----------------------------------------------------------------------------
(* The model's architecture *)

DefaultMeta == [layers |-> 32, kv |-> 8, dim |-> 128 \div DimUnit,
                native |-> 4096, params |-> 70, bytes |-> 200]

ApplyHFConfig(c, m) ==
  [layers |-> Positive(c.layers, m.layers),
   kv     |-> Positive(c.kv, Positive(c.attention, m.kv)),
   dim    |-> IF c.attention > 0 /\ c.hidden > 0
              THEN Positive(c.hidden \div c.attention, m.dim) ELSE m.dim,
   native |-> Positive(c.positions, Positive(c.seq, m.native)),
   params |-> m.params,
   bytes  |-> IF c.quantized THEN 55 ELSE m.bytes]

\* The architecture that the size in a model's name stands for.
Arch(params, layers, kv, dim) ==
  [params |-> params, layers |-> layers, kv |-> kv, dim |-> dim \div DimUnit]

NameArch(size) ==
  CASE size = "0.5b" -> Arch(5, 24, 2, 64)
    [] size = "1.5b" -> Arch(15, 28, 2, 128)
    [] size = "3b"   -> Arch(30, 36, 2, 128)
    [] size = "7b"   -> Arch(75, 32, 8, 128)
    [] size = "14b"  -> Arch(147, 48, 8, 128)
    [] size = "32b"  -> Arch(320, 64, 8, 128)
    [] size = "72b"  -> Arch(720, 80, 8, 128)

\* The last part of InspectModelMetadata: a size in the name replaces the
\* architecture, of a configuration too; a known family replaces the native
\* context only up to 4096.
DeduceFromName(s, m) ==
  LET a == IF s.size = "none" THEN m ELSE NameArch(s.size)
  IN [layers |-> a.layers, kv |-> a.kv, dim |-> a.dim, params |-> a.params,
      bytes  |-> CASE s.quant = "int4" -> 55 [] s.quant = "int8" -> 105 [] s.quant = "none" -> m.bytes,
      native |-> IF m.native <= 4096 THEN Positive(s.family, m.native) ELSE m.native]

\* LoadModel: BitsAndBytes and GGUF weights take 0.55 bytes.
ApplyQuantization(s, m) == [m EXCEPT !.bytes = IF s.fourBit THEN 55 ELSE @]

----------------------------------------------------------------------------
(* Sizing *)

Buckets == {2048, 4096, 8192, 16384, 32768, 65536, 131072, 262144, 524288, 1048576}

\* The largest standard length within both limits; below 2048 it is 1024 or 512,
\* and 512 even where 512 is too much.
AlignContextLength(hardwareMax, modelNativeMax) ==
  LET target == AtMost(hardwareMax, Positive(modelNativeMax, 32768))
  IN IF target >= 2048 THEN Max({b \in Buckets : b <= target})
     ELSE IF target >= 1024 THEN 1024 ELSE 512

WeightMB(m) == (m.params * m.bytes * 1024) \div 1000

\* What 90% of the memory leaves for the KV cache after 1.5 GB per GPU and the weights.
RemainingKVMB(m, t) == ((t.vram * 9) \div 10) - 1536 * t.count - WeightMB(m)

\* Keys and values of one token in FP16, with the heads split among the GPUs.
KVBytesPerToken(m, t) ==
  2 * Positive(m.layers, 32) * Positive(m.kv \div Positive(t.count, 1), 1)
    * Positive(m.dim, 128 \div DimUnit) * 2

\* Mutant: one stream instead of two.
TokensInOneStream(mb, perToken) == (mb * MiB) \div perToken

\* The tokens that fit into a budget, for two concurrent streams.
TokensIn(mb, perToken) == (mb * MiB) \div (perToken * 2)

NoClamp    == [clamp |-> FALSE, context |-> 0]
ClampTo(n) == [clamp |-> TRUE, context |-> n]

\* Whether to limit the context, and to what.
EvaluateVRAMContextBudget(m, t, requested) ==
  LET remaining == RemainingKVMB(m, t)
      perToken  == KVBytesPerToken(m, t)
  IN IF requested > 0 THEN ClampTo(requested)
     ELSE IF t.count <= 0 \/ t.vram <= 0 THEN NoClamp
     ELSE IF m.params <= 0 \/ m.native <= 0 THEN NoClamp
     ELSE IF remaining <= 0 THEN ClampTo(2048)
     ELSE IF remaining >= (perToken * m.native * 2) \div MiB THEN NoClamp
     ELSE ClampTo(AlignContextLength(TokensIn(remaining, perToken), m.native))

\* Mutant: the budget is compared before the weights are taken off.
CalculateBeforeWeights(m, t) ==
  AlignContextLength(TokensIn((t.vram * 9) \div 10 - 1536 * t.count, KVBytesPerToken(m, t)), m.native)

\* The second estimate of the same length, for GPUs; 0 stands for its error.  The
\* daemon does not call it.
CalculateMaxViableContext(m, t) ==
  LET weights  == (Positive(m.params, 70) * Positive(m.bytes, 200) * 1024) \div 1000
      total    == Positive(t.vram, t.count * 16384)
      usable   == Max({(total * 90) \div 100 - weights - 1536 * t.count, 512})
      heads    == Positive(Positive(m.kv, 8) \div t.count, 1)
      perToken == 2 * Positive(m.layers, 32) * heads * Positive(m.dim, 128 \div DimUnit) * 2
  IN IF weights > (total * 92) \div 100 THEN 0
     ELSE AlignContextLength((usable * MiB) \div (perToken * 2), m.native)

\* Mutant: without a clamp the default length, not the model's.
ResolveDefault(m, t, requested) ==
  LET verdict == EvaluateVRAMContextBudget(m, t, requested)
  IN IF verdict.clamp /\ verdict.context > 0 THEN verdict.context ELSE Positive(requested, 4096)

\* LoadModel: the length the engine is given.
ResolveContext(m, t, requested) ==
  LET verdict == EvaluateVRAMContextBudget(m, t, requested)
  IN IF verdict.clamp /\ verdict.context > 0 THEN verdict.context
     ELSE Positive(requested, Positive(m.native, 4096))

\* Mutant: stops at the first size that the heads can fill.
AlignTensorParallelRoughly(gpuCount, numKVHeads) ==
  IF gpuCount <= 1 THEN 1 ELSE AtMost(gpuCount, Positive(numKVHeads, gpuCount))

\* The loop counts down from the number of GPUs to the first divisor, 1 at the latest.
AlignTensorParallelToKVHeads(gpuCount, numKVHeads) ==
  IF gpuCount <= 1 THEN 1
  ELSE IF numKVHeads <= 0 THEN gpuCount
  ELSE Max({n \in 1 .. gpuCount : numKVHeads % n = 0})

----------------------------------------------------------------------------
(* A load *)

Init ==
  /\ pc = "idle"
  /\ gpuLocked \in BOOLEAN
  /\ spec = [context |-> 0, remote |-> FALSE, fourBit |-> FALSE,
             quant |-> "none", size |-> "none", family |-> 0]
  /\ topo = [count |-> 0, vram |-> 0]
  /\ config = NoConfig /\ meta = DefaultMeta
  /\ maxContext = 0 /\ activeContext = 0
  /\ engine = NoEngine

\* LoadModel up to InspectModelMetadata: the old engine is gone.
StartLoad(s, h) ==
  /\ pc = "idle"
  /\ spec' = s /\ topo' = DiscoverTopology(h)
  /\ config' = NoConfig /\ meta' = DefaultMeta
  /\ engine' = NoEngine
  /\ pc' = "local"
  /\ UNCHANGED <<gpuLocked, maxContext, activeContext>>

Configured(c) ==
  /\ config' = c /\ meta' = ApplyHFConfig(c, meta)
  /\ pc' = "name"
  /\ UNCHANGED <<gpuLocked, spec, topo, maxContext, activeContext, engine>>

\* A readable config.json in one of the candidate places.
UseLocalConfig(c) == pc = "local" /\ Configured(c)

\* None is readable; only an Org/Repo identifier is looked up.
LocalConfigMissing ==
  /\ pc = "local"
  /\ pc' = IF spec.remote THEN "remote" ELSE "name"
  /\ UNCHANGED <<gpuLocked, spec, topo, config, meta, maxContext, activeContext, engine>>

UseRemoteConfig(c) == pc = "remote" /\ Configured(c)

\* Any error, status or timeout of the 3 s query.
RemoteConfigFails ==
  /\ pc = "remote"
  /\ pc' = "name"
  /\ UNCHANGED <<gpuLocked, spec, topo, config, meta, maxContext, activeContext, engine>>

Deduce ==
  /\ pc = "name"
  /\ meta' = ApplyQuantization(spec, DeduceFromName(spec, meta))
  /\ pc' = "size"
  /\ UNCHANGED <<gpuLocked, spec, topo, config, maxContext, activeContext, engine>>

\* The evaluation, and the fields published under s.mu.
Size ==
  /\ pc = "size"
  /\ maxContext' = meta.native
  /\ activeContext' = ResolveContext(meta, topo, spec.context)
  /\ pc' = "launch"
  /\ UNCHANGED <<gpuLocked, spec, topo, config, meta, engine>>

\* A node built for GPUs refuses to run without one.
RefuseWithoutGPU ==
  /\ pc = "launch" /\ gpuLocked /\ topo.count <= 0
  /\ pc' = "idle"
  /\ UNCHANGED <<gpuLocked, spec, topo, config, meta, maxContext, activeContext, engine>>

\* The arguments of vLLM that this module is about.
BuildVLLMArgs(context, tp) == [maxModelLen |-> Positive(context, 4096), tensorParallel |-> tp]

LaunchGPU ==
  /\ pc = "launch" /\ gpuLocked /\ topo.count > 0
  /\ engine' = BuildVLLMArgs(activeContext, AlignTensorParallelToKVHeads(topo.count, meta.kv))
  /\ pc' = "idle"
  /\ UNCHANGED <<gpuLocked, spec, topo, config, meta, maxContext, activeContext>>

\* loadCPUModel: llama-server has no tensor parallelism.
LaunchCPU ==
  /\ pc = "launch" /\ ~gpuLocked
  /\ engine' = [maxModelLen |-> activeContext, tensorParallel |-> 1]
  /\ pc' = "idle"
  /\ UNCHANGED <<gpuLocked, spec, topo, config, meta, maxContext, activeContext>>

Next ==
  \/ \E s \in Specs, h \in Hardware : StartLoad(s, h)
  \/ \E c \in Configs : UseLocalConfig(c) \/ UseRemoteConfig(c)
  \/ LocalConfigMissing \/ RemoteConfigFails \/ Deduce \/ Size
  \/ RefuseWithoutGPU \/ LaunchGPU \/ LaunchCPU

Spec == Init /\ [][Next]_vars

----------------------------------------------------------------------------
(* Properties *)

\* The architecture never has a zero (every number in it is a factor of a divisor
\* or a limit), contexts are lengths, and an engine has a length and at least one
\* GPU's worth of parallelism.
TypeOK ==
  /\ pc \in {"idle", "local", "remote", "name", "size", "launch"}
  /\ gpuLocked \in BOOLEAN
  /\ spec \in SpecType
  /\ topo \in TopoType
  /\ config \in Configs \union {NoConfig}
  /\ meta \in MetaType
  /\ maxContext \in Nat /\ activeContext \in Nat
  /\ engine \in [maxModelLen : Nat \ {0}, tensorParallel : Nat \ {0}] \union {NoEngine}

\* The load has published a context that the sizing chose, on known GPUs.
AutoSized == /\ pc = "launch" \/ engine # NoEngine
             /\ spec.context <= 0
             /\ topo.count > 0

\* Keys and values of n tokens of one stream in FP16, over all heads, in DimUnit bytes.
KVBytes(n) == n * (4 * meta.layers * meta.kv * meta.dim)

\* The doc comment of EvaluateVRAMContextBudget promises a "safe" length.  On a node
\* with one GPU the KV cache of two streams of the chosen length stays within the
\* memory that the sizing counted as free, to the MiB that the division drops, except
\* at the smallest lengths, where the code gives up.  Nothing of the kind holds for
\* several GPUs: the code compares the share of one with the free memory of all.
KVCacheFits ==
  AutoSized /\ topo.count = 1
  => LET left == RemainingKVMB(meta, topo)
     IN \/ left <= 0 /\ activeContext = 2048
        \/ left > 0 /\ activeContext = 512
        \/ left > 0 /\ 2 * KVBytes(activeContext) < (left + 1) * MiB

\* The engine is never asked for more than the model's own context, which vLLM
\* refuses, except for the same two minimal lengths.
ContextWithinModel ==
  AutoSized => \/ activeContext <= maxContext
               \/ activeContext = 512
               \/ activeContext = 2048 /\ RemainingKVMB(meta, topo) <= 0

\* AlignTensorParallelToKVHeads: the engine uses GPUs that exist and the heads divide
\* evenly among them: those of the model's configuration, when one was found and no
\* size in the name replaced it.
HeadsAreSplitEvenly ==
  engine # NoEngine /\ gpuLocked
  => /\ engine.tensorParallel <= topo.count
     /\ meta.kv % engine.tensorParallel = 0
     /\ config # NoConfig /\ spec.size = "none" /\ config.kv > 0
        => config.kv % engine.tensorParallel = 0

\* CalculateMaxViableContext and EvaluateVRAMContextBudget carry the estimate twice.
\* Where the clamp has the 512 MB to spare that the first takes for a minimum, both
\* give one length; and the first reports an error only for a model that the second
\* starts with the minimal context because its weights fill the memory.
EstimatesAgree ==
  AutoSized
  => LET viable == CalculateMaxViableContext(meta, topo)
     IN /\ RemainingKVMB(meta, topo) >= 512 /\ activeContext < maxContext => viable = activeContext
        /\ viable = 0 => RemainingKVMB(meta, topo) <= 0 /\ activeContext = 2048

=============================================================================
