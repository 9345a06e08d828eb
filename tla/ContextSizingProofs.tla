------------------------ MODULE ContextSizingProofs ------------------------
(***************************************************************************)
(* The context and the parallelism a load chooses, for every model,        *)
(* configuration and machine.                                              *)
(***************************************************************************)
EXTENDS ContextSizing, WellFoundedInduction, TLAPS

----------------------------------------------------------------------------
(* Arithmetic *)

\* A number within a quotient is, times the divisor, within the dividend.
LEMMA WithinQuotient ==
  ASSUME NEW a \in Nat, NEW b \in Nat \ {0}, NEW n \in Nat, n <= a \div b
  PROVE  n * b <= a
<1>1. (a \div b) \in Nat /\ (a \div b) * b <= a
  BY SMT
<1>2. n * b <= (a \div b) * b
  BY <1>1, SMT
<1> QED BY <1>1, <1>2, SMT

\* A quotient that does not exceed n bounds the dividend by n + 1 divisors.
LEMMA QuotientBound ==
  ASSUME NEW a \in Nat, NEW b \in Nat \ {0}, NEW n \in Nat, a \div b <= n
  PROVE  a < (n + 1) * b
<1>1. (a \div b) \in Nat /\ a < ((a \div b) + 1) * b
  BY SMT
<1>2. ((a \div b) + 1) * b <= (n + 1) * b
  BY <1>1, SMT
<1> QED BY <1>1, <1>2, SMT

\* The units are positive and the defaults of the tables survive them.
LEMMA Units ==
  /\ MiB \in Nat \ {0}
  /\ 64 \div DimUnit \in Nat \ {0}
  /\ 128 \div DimUnit \in Nat \ {0}
BY UnitAssumption DEF MiB

\* alignContextLength gives a length within its first limit, or its minimum of 512,
\* and never zero.
LEMMA AlignedLength ==
  ASSUME NEW h \in Nat, NEW n \in Nat \ {0}
  PROVE  /\ AlignContextLength(h, n) \in Nat \ {0}
         /\ AlignContextLength(h, n) = 512 \/ AlignContextLength(h, n) <= h
         /\ AlignContextLength(h, n) = 512 \/ AlignContextLength(h, n) <= n
<1> DEFINE target == AtMost(h, Positive(n, 32768))
           fit    == {b \in Buckets : b <= target}
<1>1. target \in Nat /\ target <= h /\ target <= n
  BY DEF AtMost, Positive
<1>2. CASE target >= 2048
  <2>1. \E x \in fit : \A y \in fit : x >= y
    <3>1. CASE target >= 1048576
      BY <1>1, <3>1 DEF Buckets
    <3>2. CASE target < 1048576 /\ target >= 65536
      BY <1>1, <3>2, SMTT(30) DEF Buckets
    <3>3. CASE target < 65536
      BY <1>1, <1>2, <3>3, SMTT(30) DEF Buckets
    <3> QED BY <1>1, <3>1, <3>2, <3>3
  <2>2. Max(fit) \in fit
    BY <2>1 DEF Max
  <2>3. AlignContextLength(h, n) = Max(fit)
    BY <1>2 DEF AlignContextLength
  <2>4. \A b \in fit : b \in Nat \ {0} /\ b <= target
    BY DEF Buckets
  <2> QED BY <1>1, <2>2, <2>3, <2>4
<1>3. CASE ~ target >= 2048
  BY <1>1, <1>3 DEF AlignContextLength
<1> QED BY <1>2, <1>3

\* The order of the natural numbers as a set of pairs.
LessThan == {p \in Nat \X Nat : p[1] < p[2]}

LEMMA LessThanWellFounded == IsWellFoundedOn(LessThan, Nat)
BY NatLessThanWellFounded DEF LessThan, OpToRel

\* A bounded, non-empty set of positive numbers has a maximum.
LEMMA MaxExists ==
  ASSUME NEW g \in Nat, NEW S, S \subseteq 1 .. g, S # {}
  PROVE  Max(S) \in S
<1> DEFINE T == {g - n : n \in S}
<1>1. T \subseteq Nat /\ T # {}
  <2>1. \A n \in S : g - n \in Nat
    OBVIOUS
  <2>2. PICK n \in S : TRUE
    OBVIOUS
  <2>3. g - n \in T
    BY <2>2
  <2> QED BY <2>1, <2>3
<1>2. PICK x \in T : \A y \in T : ~ (<<y, x>> \in LessThan)
  <2> HIDE DEF T
  <2> QED BY <1>1, LessThanWellFounded, WFMin
<1>3. \A y \in T : ~ (y < x)
  BY <1>1, <1>2 DEF LessThan
<1>4. PICK m \in S : x = g - m
  OBVIOUS
<1>5. \A n \in S : m >= n
  BY <1>3, <1>4
<1> QED BY <1>5 DEF Max

\* AlignTensorParallelToKVHeads gives a divisor of the heads among the GPUs.
LEMMA AlignedParallelism ==
  ASSUME NEW g \in Nat \ {0}, NEW k \in Nat \ {0}
  PROVE  /\ AlignTensorParallelToKVHeads(g, k) \in 1 .. g
         /\ k % AlignTensorParallelToKVHeads(g, k) = 0
<1> DEFINE S == {n \in 1 .. g : k % n = 0}
<1>1. k % 1 = 0
  OBVIOUS
<1>2. Max(S) \in S
  <2>1. S \subseteq 1 .. g /\ S # {}
    BY <1>1
  <2> QED BY <2>1, MaxExists
<1>3. AlignTensorParallelToKVHeads(g, k) = IF g <= 1 THEN 1 ELSE Max(S)
  BY DEF AlignTensorParallelToKVHeads
<1> HIDE DEF S
<1> QED BY <1>1, <1>2, <1>3 DEF S

----------------------------------------------------------------------------
(* The quantities of the sizing *)

\* The architecture stays free of zeros whatever a configuration leaves out.
LEMMA DefaultMetaType == DefaultMeta \in MetaType
BY Units DEF DefaultMeta, MetaType

LEMMA ConfiguredType ==
  ASSUME NEW c \in ConfigType, NEW m \in MetaType
  PROVE  ApplyHFConfig(c, m) \in MetaType
<1>1. /\ c.layers \in Nat /\ c.hidden \in Nat /\ c.attention \in Nat /\ c.kv \in Nat
      /\ c.positions \in Nat /\ c.seq \in Nat /\ c.quantized \in BOOLEAN
  BY DEF ConfigType
<1>2. /\ m.layers \in Nat \ {0} /\ m.kv \in Nat \ {0} /\ m.dim \in Nat \ {0}
      /\ m.native \in Nat \ {0} /\ m.params \in Nat \ {0} /\ m.bytes \in Nat \ {0}
  BY DEF MetaType
<1>3. c.attention > 0 => Positive(c.hidden \div c.attention, m.dim) \in Nat \ {0}
  <2>1. c.attention > 0 => c.hidden \div c.attention \in Nat
    BY <1>1
  <2> QED BY <1>2, <2>1 DEF Positive
<1>4. /\ Positive(c.layers, m.layers) \in Nat \ {0}
      /\ Positive(c.kv, Positive(c.attention, m.kv)) \in Nat \ {0}
      /\ Positive(c.positions, Positive(c.seq, m.native)) \in Nat \ {0}
  BY <1>1, <1>2 DEF Positive
<1> QED BY <1>2, <1>3, <1>4 DEF ApplyHFConfig, MetaType

LEMMA DeducedType ==
  ASSUME NEW s \in SpecType, NEW m \in MetaType
  PROVE  ApplyQuantization(s, DeduceFromName(s, m)) \in MetaType
<1>1. s.size \in Sizes /\ s.quant \in Quants /\ s.family \in Nat /\ s.fourBit \in BOOLEAN
  BY DEF SpecType
<1>2. /\ m.layers \in Nat \ {0} /\ m.kv \in Nat \ {0} /\ m.dim \in Nat \ {0}
      /\ m.native \in Nat \ {0} /\ m.params \in Nat \ {0} /\ m.bytes \in Nat \ {0}
  BY DEF MetaType
<1> DEFINE a == IF s.size = "none" THEN m ELSE NameArch(s.size)
<1>3. /\ a.layers \in Nat \ {0} /\ a.kv \in Nat \ {0} /\ a.dim \in Nat \ {0}
      /\ a.params \in Nat \ {0}
  BY <1>1, <1>2, Units DEF NameArch, Arch, Sizes
<1> HIDE DEF a
<1>4. DeduceFromName(s, m) \in MetaType
  BY <1>1, <1>2, <1>3 DEF DeduceFromName, MetaType, Quants, Positive, a
<1> QED BY <1>1, <1>4 DEF ApplyQuantization, MetaType

\* A machine with GPUs has memory.
LEMMA DiscoveredType ==
  ASSUME NEW h \in HardwareType
  PROVE  /\ DiscoverTopology(h) \in TopoType
         /\ DiscoverTopology(h).count > 0 => DiscoverTopology(h).vram > 0
<1>1. h.pci \in Nat /\ h.nodes \in Nat /\ h.smi \in Nat /\ h.model \in GPUTypes
  BY DEF HardwareType
<1>2. HeuristicVRAM[h.model] \in Nat \ {0}
  BY <1>1 DEF HeuristicVRAM, GPUTypes
<1> DEFINE n == Positive(h.pci, h.nodes)
           v == Positive(h.smi, HeuristicVRAM[h.model])
<1>3. n \in Nat /\ v \in Nat \ {0}
  BY <1>1, <1>2 DEF Positive
<1>4. DiscoverTopology(h) = [count |-> n, vram |-> n * v]
  BY DEF DiscoverTopology
<1> HIDE DEF n, v
<1>5. n * v \in Nat /\ (n > 0 => n * v > 0)
  BY <1>3
<1> QED BY <1>3, <1>4, <1>5 DEF TopoType

\* The divisors and dividends of the sizing are numbers, and a token takes memory.
LEMMA SizingNumbers ==
  ASSUME NEW m \in MetaType, NEW t \in TopoType
  PROVE  /\ RemainingKVMB(m, t) \in Int
         /\ KVBytesPerToken(m, t) \in Nat \ {0}
<1>1. t.count \in Nat /\ t.vram \in Nat
  BY DEF TopoType
<1>2. /\ m.layers \in Nat \ {0} /\ m.kv \in Nat \ {0} /\ m.dim \in Nat \ {0}
      /\ m.params \in Nat \ {0} /\ m.bytes \in Nat \ {0}
  BY DEF MetaType
<1>3. RemainingKVMB(m, t) \in Int
  <2>1. m.params * m.bytes * 1024 \in Int
    BY <1>2
  <2>2. WeightMB(m) \in Int
    BY <2>1 DEF WeightMB
  <2> QED BY <1>1, <2>2 DEF RemainingKVMB
<1>4. KVBytesPerToken(m, t) \in Nat \ {0}
  <2> DEFINE h == Positive(m.kv \div Positive(t.count, 1), 1)
  <2>1. Positive(t.count, 1) \in Nat \ {0}
    BY <1>1 DEF Positive
  <2>2. m.kv \div Positive(t.count, 1) \in Nat
    BY <1>2, <2>1
  <2>3. h \in Nat \ {0}
    BY <2>2 DEF Positive
  <2>4. KVBytesPerToken(m, t) = 2 * m.layers * h * m.dim * 2
    BY <1>2 DEF KVBytesPerToken, Positive
  <2> HIDE DEF h
  <2>5. m.layers * h \in Nat \ {0}
    BY <1>2, <2>3
  <2>6. (m.layers * h) * m.dim \in Nat \ {0}
    BY <1>2, <2>5
  <2>7. 2 * m.layers * h * m.dim * 2 = 4 * ((m.layers * h) * m.dim)
    BY <1>2, <2>3
  <2> QED BY <2>4, <2>6, <2>7
<1> QED BY <1>3, <1>4

\* What a load on GPUs resolves when no length was requested: the minimum when the
\* weights leave nothing, else a length within the model's context and the memory
\* that remains, or 512.
LEMMA ResolvedLength ==
  ASSUME NEW m \in MetaType, NEW t \in TopoType, NEW r \in Int, r <= 0,
         t.count > 0, t.vram > 0,
         NEW left, left = RemainingKVMB(m, t),
         NEW p, p = KVBytesPerToken(m, t),
         NEW n, n = ResolveContext(m, t, r)
  PROVE  /\ n \in Nat \ {0}
         /\ left <= 0 => n = 2048
         /\ left > 0 => n = 512 \/ n <= m.native
         /\ left > 0 => n = 512 \/ n * (p * 2) < (left + 1) * MiB
<1>1. left \in Int /\ p \in Nat \ {0}
  BY SizingNumbers
<1>2. m.native \in Nat \ {0} /\ m.params \in Nat \ {0}
  BY DEF MetaType
<1>3. t.count \in Nat /\ t.vram \in Nat
  BY DEF TopoType
<1> DEFINE need == (p * m.native * 2) \div MiB
           a    == AlignContextLength(TokensIn(left, p), m.native)
<1>4. EvaluateVRAMContextBudget(m, t, r) =
        IF left <= 0 THEN ClampTo(2048) ELSE IF left >= need THEN NoClamp ELSE ClampTo(a)
  BY <1>2, <1>3 DEF EvaluateVRAMContextBudget
<1>5. CASE left <= 0
  <2>1. n = 2048
    BY <1>4, <1>5 DEF ResolveContext, ClampTo
  <2>2. ~(left > 0)
    BY <1>1, <1>5
  <2> QED BY <2>1, <2>2
<1>6. CASE left > 0 /\ left >= need
  <2>1. n = m.native
    BY <1>1, <1>2, <1>4, <1>6 DEF ResolveContext, NoClamp, Positive
  <2>2. p * m.native * 2 \in Nat /\ left \in Nat
    BY <1>1, <1>2, <1>6
  <2>3. p * m.native * 2 < (left + 1) * MiB
    <3> HIDE DEF need
    <3> QED BY <1>6, <2>2, Units, QuotientBound DEF need
  <2>4. n * (p * 2) = p * m.native * 2
    BY <1>1, <1>2, <2>1
  <2>5. ~(left <= 0) /\ n <= m.native
    BY <1>1, <1>2, <1>6, <2>1
  <2>6. n * (p * 2) < (left + 1) * MiB
    BY <2>3, <2>4, Zenon
  <2>7. n \in Nat \ {0}
    BY <1>2, <2>1
  <2> QED BY <2>5, <2>6, <2>7
<1>7. CASE left > 0 /\ ~(left >= need)
  <2>1. left * MiB \in Nat /\ p * 2 \in Nat \ {0}
    BY <1>1, <1>7, Units
  <2>2. TokensIn(left, p) \in Nat
    BY <2>1 DEF TokensIn
  <2>3. /\ a \in Nat \ {0}
        /\ a = 512 \/ a <= TokensIn(left, p)
        /\ a = 512 \/ a <= m.native
    BY <1>2, <2>2, AlignedLength
  <2> HIDE DEF a
  <2>4. n = a
    BY <1>1, <1>4, <1>7, <2>3 DEF ResolveContext, ClampTo
  <2>5. a <= TokensIn(left, p) => a * (p * 2) <= left * MiB
    BY <2>1, <2>3, WithinQuotient DEF TokensIn
  <2>6. left * MiB < (left + 1) * MiB
    BY <1>1, <1>7, Units
  <2>7. a * (p * 2) \in Int /\ left * MiB \in Int /\ (left + 1) * MiB \in Int
    BY <1>1, <1>7, <2>3, Units
  <2>8. ~(left <= 0)
    BY <1>1, <1>7
  <2>9. a = 512 \/ a * (p * 2) < (left + 1) * MiB
    <3> DEFINE x == a * (p * 2)
               y == left * MiB
               z == (left + 1) * MiB
    <3>1. x \in Int /\ y \in Int /\ z \in Int /\ (a = 512 \/ x <= y) /\ y < z
      BY <2>3, <2>5, <2>6, <2>7
    <3> HIDE DEF x, y, z
    <3>2. a = 512 \/ x < z
      BY <3>1
    <3> QED BY <3>2 DEF x, z
  <2>10. n \in Nat \ {0} /\ (n = 512 \/ n <= m.native)
    BY <2>3, <2>4
  <2>11. n = 512 \/ n * (p * 2) < (left + 1) * MiB
    BY <2>4, <2>9
  <2> QED BY <2>8, <2>10, <2>11
<1> QED BY <1>1, <1>5, <1>6, <1>7

\* A length below the model's own was clamped to what the remaining memory holds.
LEMMA ClampedLength ==
  ASSUME NEW m \in MetaType, NEW t \in TopoType, NEW r \in Int, r <= 0,
         t.count > 0, t.vram > 0, RemainingKVMB(m, t) > 0,
         ResolveContext(m, t, r) < m.native
  PROVE  ResolveContext(m, t, r)
           = AlignContextLength(TokensIn(RemainingKVMB(m, t), KVBytesPerToken(m, t)), m.native)
<1> DEFINE left == RemainingKVMB(m, t)
           p    == KVBytesPerToken(m, t)
           need == (p * m.native * 2) \div MiB
           a    == AlignContextLength(TokensIn(left, p), m.native)
<1>1. left \in Int /\ p \in Nat \ {0}
  BY SizingNumbers
<1>2. m.native \in Nat \ {0} /\ m.params \in Nat \ {0} /\ t.count \in Nat /\ t.vram \in Nat
  BY DEF MetaType, TopoType
<1>3. EvaluateVRAMContextBudget(m, t, r) = IF left >= need THEN NoClamp ELSE ClampTo(a)
  BY <1>1, <1>2 DEF EvaluateVRAMContextBudget
<1>4. a \in Nat \ {0}
  <2>1. left * MiB \in Nat /\ p * 2 \in Nat \ {0}
    BY <1>1, Units
  <2>2. TokensIn(left, p) \in Nat
    BY <2>1 DEF TokensIn
  <2> QED BY <1>2, <2>2, AlignedLength
<1> HIDE DEF a, left, need
<1>5. CASE left >= need
  <2>1. ResolveContext(m, t, r) = m.native
    BY <1>2, <1>3, <1>5 DEF ResolveContext, NoClamp, Positive
  <2> QED BY <1>2, <2>1
<1>6. CASE ~(left >= need)
  BY <1>3, <1>4, <1>6 DEF ResolveContext, ClampTo, a, left
<1> QED BY <1>5, <1>6

\* The arithmetic of the second estimate, in the terms of the first: the same weights and
\* memory per token; nine tenths are ninety hundredths.
LEMMA ViableLength ==
  ASSUME NEW m \in MetaType, NEW t \in TopoType, t.count > 0, t.vram > 0
  PROVE  CalculateMaxViableContext(m, t)
           = IF WeightMB(m) > (t.vram * 92) \div 100 THEN 0
             ELSE AlignContextLength(TokensIn(Max({RemainingKVMB(m, t), 512}), KVBytesPerToken(m, t)),
                                     m.native)
<1>1. t.count \in Nat \ {0} /\ t.vram \in Nat \ {0}
  BY DEF TopoType
<1>2. /\ m.layers \in Nat \ {0} /\ m.kv \in Nat \ {0} /\ m.dim \in Nat \ {0}
      /\ m.params \in Nat \ {0} /\ m.bytes \in Nat \ {0}
  BY DEF MetaType
<1>3. /\ Positive(m.params, 70) = m.params /\ Positive(m.bytes, 200) = m.bytes
      /\ Positive(t.vram, t.count * 16384) = t.vram /\ Positive(m.kv, 8) = m.kv
      /\ Positive(t.count, 1) = t.count
  BY <1>1, <1>2 DEF Positive
<1>4. (t.vram * 90) \div 100 = (t.vram * 9) \div 10
  BY <1>1
<1>5. WeightMB(m) \in Int
  <2>1. m.params * m.bytes * 1024 \in Int
    BY <1>2
  <2> QED BY <2>1 DEF WeightMB
<1>6. (t.vram * 90) \div 100 - WeightMB(m) - 1536 * t.count = RemainingKVMB(m, t)
  BY <1>1, <1>4, <1>5 DEF RemainingKVMB
<1>7. KVBytesPerToken(m, t)
        = 2 * Positive(m.layers, 32) * Positive(m.kv \div t.count, 1)
            * Positive(m.dim, 128 \div DimUnit) * 2
  BY <1>3 DEF KVBytesPerToken
<1>8. CalculateMaxViableContext(m, t)
        = LET weights  == (m.params * m.bytes * 1024) \div 1000
              usable   == Max({(t.vram * 90) \div 100 - weights - 1536 * t.count, 512})
              perToken == 2 * Positive(m.layers, 32) * Positive(m.kv \div t.count, 1)
                            * Positive(m.dim, 128 \div DimUnit) * 2
          IN IF weights > (t.vram * 92) \div 100 THEN 0
             ELSE AlignContextLength((usable * MiB) \div (perToken * 2), m.native)
  BY <1>3 DEF CalculateMaxViableContext
<1> DEFINE w == WeightMB(m)
           k == KVBytesPerToken(m, t)
           u == (t.vram * 90) \div 100 - w - 1536 * t.count
<1>9. CalculateMaxViableContext(m, t)
        = IF w > (t.vram * 92) \div 100 THEN 0
          ELSE AlignContextLength((Max({u, 512}) * MiB) \div (k * 2), m.native)
  <2>1. w = (m.params * m.bytes * 1024) \div 1000
    BY DEF WeightMB
  <2>2. k = 2 * Positive(m.layers, 32) * Positive(m.kv \div t.count, 1)
              * Positive(m.dim, 128 \div DimUnit) * 2
    BY <1>7
  <2> HIDE DEF w, k
  <2> QED BY <1>8, <2>1, <2>2
<1>10. u = RemainingKVMB(m, t)
  BY <1>6
<1> HIDE DEF w, k, u
<1>11. CalculateMaxViableContext(m, t)
         = IF w > (t.vram * 92) \div 100 THEN 0
           ELSE AlignContextLength(TokensIn(Max({u, 512}), k), m.native)
  BY <1>9 DEF TokensIn
<1> QED BY <1>10, <1>11 DEF w, k

----------------------------------------------------------------------------
(* The invariant *)

\* What the properties need of the state: memory where there are GPUs; the published
\* context is the one resolved for this load's model and machine; the engine's
\* parallelism is the aligned one; the heads are the configuration's until a size
\* in the name replaces them.
Sizing ==
  /\ topo.count > 0 => topo.vram > 0
  /\ engine # NoEngine => pc = "idle"
  /\ pc = "launch" \/ engine # NoEngine
     => /\ activeContext = ResolveContext(meta, topo, spec.context)
        /\ maxContext = meta.native
  /\ engine # NoEngine /\ gpuLocked
     => /\ topo.count > 0
        /\ engine.tensorParallel = AlignTensorParallelToKVHeads(topo.count, meta.kv)
  /\ pc = "local" \/ pc = "remote" => config = NoConfig
  /\ config # NoConfig /\ config.kv > 0 /\ (pc = "name" \/ spec.size = "none")
     => meta.kv = config.kv

IInv == TypeOK /\ Sizing

\* A resolved length is positive on every machine.
LEMMA ResolvedPositive ==
  ASSUME NEW m \in MetaType, NEW t \in TopoType, NEW r \in Int, t.count > 0 => t.vram > 0
  PROVE  ResolveContext(m, t, r) \in Nat \ {0}
<1>1. t.count \in Nat /\ m.native \in Nat \ {0}
  BY DEF TopoType, MetaType
<1>2. CASE r > 0
  BY <1>2 DEF ResolveContext, EvaluateVRAMContextBudget, ClampTo, Positive
<1>3. CASE ~(r > 0) /\ t.count <= 0
  BY <1>1, <1>3 DEF ResolveContext, EvaluateVRAMContextBudget, NoClamp, Positive
<1>4. CASE ~(r > 0) /\ t.count > 0
  <2>1. r <= 0
    BY <1>4
  <2> QED BY <1>4, <2>1, ResolvedLength
<1> QED BY <1>1, <1>2, <1>3, <1>4

\* The initial state satisfies the invariant.
LEMMA InitInv == Init => IInv
<1> SUFFICES ASSUME Init PROVE IInv
  OBVIOUS
<1>1. spec \in SpecType /\ topo \in TopoType
  BY DEF Init, SpecType, TopoType, Quants, Sizes
<1>2. meta \in MetaType
  BY DefaultMetaType DEF Init
<1> QED BY <1>1, <1>2 DEF Init, IInv, TypeOK, Sizing

\* Every step preserves the invariant.
LEMMA NextInv == IInv /\ [Next]_vars => IInv'
<1> SUFFICES ASSUME IInv, [Next]_vars PROVE IInv'
  OBVIOUS
<1> USE DEF IInv
<1>1. ASSUME NEW s \in Specs, NEW h \in Hardware, StartLoad(s, h) PROVE IInv'
  <2>1. s \in SpecType /\ h \in HardwareType
    BY InputAssumption
  <2>2. topo' \in TopoType /\ (topo'.count > 0 => topo'.vram > 0)
    BY <1>1, <2>1, DiscoveredType DEF StartLoad
  <2>3. meta' \in MetaType
    BY <1>1, DefaultMetaType DEF StartLoad
  <2> QED BY <1>1, <2>1, <2>2, <2>3 DEF StartLoad, TypeOK, Sizing
<1>2. ASSUME NEW c \in Configs, pc = "local" \/ pc = "remote", Configured(c) PROVE IInv'
  <2>1. c \in ConfigType
    BY InputAssumption
  <2>2. meta' \in MetaType
    BY <1>2, <2>1, ConfiguredType DEF Configured, TypeOK
  <2>3. c.kv > 0 => meta'.kv = c.kv
    BY <1>2 DEF Configured, ApplyHFConfig, Positive
  <2> QED BY <1>2, <2>2, <2>3 DEF Configured, TypeOK, Sizing
<1>3. ASSUME LocalConfigMissing PROVE IInv'
  BY <1>3 DEF LocalConfigMissing, TypeOK, Sizing
<1>4. ASSUME RemoteConfigFails PROVE IInv'
  BY <1>4 DEF RemoteConfigFails, TypeOK, Sizing
<1>5. ASSUME Deduce PROVE IInv'
  <2>1. meta' \in MetaType
    BY <1>5, DeducedType DEF Deduce, TypeOK
  <2>2. spec.size = "none" => meta'.kv = meta.kv
    BY <1>5 DEF Deduce, ApplyQuantization, DeduceFromName
  <2> QED BY <1>5, <2>1, <2>2 DEF Deduce, TypeOK, Sizing
<1>6. ASSUME Size PROVE IInv'
  <2>1. activeContext' \in Nat /\ maxContext' \in Nat
    <3>1. spec.context \in Int
      BY DEF TypeOK, SpecType
    <3> QED BY <1>6, <3>1, ResolvedPositive DEF Size, TypeOK, Sizing, MetaType
  <2> QED BY <1>6, <2>1 DEF Size, TypeOK, Sizing
<1>7. ASSUME RefuseWithoutGPU PROVE IInv'
  BY <1>7 DEF RefuseWithoutGPU, TypeOK, Sizing
<1>8. ASSUME pc = "launch" PROVE activeContext \in Nat \ {0}
  <2>1. spec.context \in Int
    BY DEF TypeOK, SpecType
  <2> QED BY <1>8, <2>1, ResolvedPositive DEF TypeOK, Sizing
<1>9. ASSUME LaunchGPU PROVE IInv'
  <2> DEFINE tp == AlignTensorParallelToKVHeads(topo.count, meta.kv)
  <2>1. topo.count \in Nat \ {0} /\ meta.kv \in Nat \ {0}
    BY <1>9 DEF LaunchGPU, TypeOK, TopoType, MetaType
  <2>2. tp \in Nat \ {0}
    BY <2>1, AlignedParallelism
  <2>3. engine' = [maxModelLen |-> activeContext, tensorParallel |-> tp]
    BY <1>8, <1>9 DEF LaunchGPU, BuildVLLMArgs, Positive
  <2>4. /\ pc' = "idle" /\ pc = "launch" /\ topo.count > 0
        /\ UNCHANGED <<gpuLocked, spec, topo, config, meta, maxContext, activeContext>>
    BY <1>9 DEF LaunchGPU
  <2> HIDE DEF tp
  <2>5. engine' \in [maxModelLen : Nat \ {0}, tensorParallel : Nat \ {0}]
    BY <1>8, <2>2, <2>3, <2>4
  <2>6. TypeOK'
    BY <2>4, <2>5 DEF TypeOK
  <2>7. Sizing'
    BY <2>3, <2>4 DEF Sizing, tp
  <2> QED BY <2>6, <2>7
<1>10. ASSUME LaunchCPU PROVE IInv'
  BY <1>8, <1>10 DEF LaunchCPU, TypeOK, Sizing
<1>11. ASSUME UNCHANGED vars PROVE IInv'
  BY <1>11 DEF vars, TypeOK, Sizing
<1> QED
  BY <1>1, <1>2, <1>3, <1>4, <1>5, <1>6, <1>7, <1>9, <1>10, <1>11
  DEF Next, UseLocalConfig, UseRemoteConfig

\* The invariant holds in every reachable state.
LEMMA Invariance == Spec => []IInv
BY InitInv, NextInv, PTL DEF Spec

----------------------------------------------------------------------------
(* Theorems *)

\* No configuration, name or machine puts a zero into the architecture, and every
\* engine is launched with a positive length and parallelism.
THEOREM TypeCorrect == Spec => []TypeOK
<1>1. IInv => TypeOK
  BY DEF IInv
<1> QED BY <1>1, Invariance, PTL

\* The chosen context stays within the model's own, but for the two minimal lengths.
THEOREM ContextBounded == Spec => []ContextWithinModel
<1>1. IInv => ContextWithinModel
  <2> SUFFICES ASSUME IInv, AutoSized PROVE
        \/ activeContext <= maxContext
        \/ activeContext = 512
        \/ activeContext = 2048 /\ RemainingKVMB(meta, topo) <= 0
    BY DEF ContextWithinModel
  <2>1. /\ meta \in MetaType /\ topo \in TopoType /\ spec.context \in Int
        /\ spec.context <= 0 /\ topo.count > 0 /\ topo.vram > 0
        /\ activeContext = ResolveContext(meta, topo, spec.context)
        /\ maxContext = meta.native
    BY DEF IInv, TypeOK, Sizing, AutoSized, SpecType
  <2>2. RemainingKVMB(meta, topo) \in Int
    BY <2>1, SizingNumbers
  <2>3. /\ RemainingKVMB(meta, topo) <= 0 => activeContext = 2048
        /\ RemainingKVMB(meta, topo) > 0 => activeContext = 512 \/ activeContext <= meta.native
    BY <2>1, ResolvedLength
  <2> QED BY <2>1, <2>2, <2>3
<1> QED BY <1>1, Invariance, PTL

\* With one GPU the KV cache of the chosen context stays within the memory counted as free
\* (EvaluateVRAMContextBudget).
THEOREM CacheFits == Spec => []KVCacheFits
<1>1. IInv => KVCacheFits
  <2> DEFINE left  == RemainingKVMB(meta, topo)
             p     == KVBytesPerToken(meta, topo)
  <2> SUFFICES ASSUME IInv, AutoSized, topo.count = 1 PROVE
        \/ left <= 0 /\ activeContext = 2048
        \/ left > 0 /\ activeContext = 512
        \/ left > 0 /\ 2 * KVBytes(activeContext) < (left + 1) * MiB
    BY DEF KVCacheFits
  <2>1. /\ meta \in MetaType /\ topo \in TopoType /\ spec.context \in Int
        /\ spec.context <= 0 /\ topo.count > 0 /\ topo.vram > 0
        /\ activeContext = ResolveContext(meta, topo, spec.context)
    BY DEF IInv, TypeOK, Sizing, AutoSized, SpecType
  <2>2. /\ meta.kv \in Nat \ {0} /\ meta.layers \in Nat \ {0} /\ meta.dim \in Nat \ {0}
        /\ topo.count \in Nat \ {0}
    BY <2>1 DEF MetaType, TopoType
  <2>3. meta.kv \div topo.count = meta.kv
    BY <2>2
  <2>4. p = 2 * meta.layers * meta.kv * meta.dim * 2
    BY <2>2, <2>3 DEF KVBytesPerToken, Positive
  <2>5. left \in Int
    BY <2>1, SizingNumbers
  <2>6. /\ activeContext \in Nat \ {0}
        /\ left <= 0 => activeContext = 2048
        /\ left > 0 => activeContext = 512 \/ activeContext * (p * 2) < (left + 1) * MiB
    BY <2>1, ResolvedLength
  <2>7. 2 * KVBytes(activeContext) = activeContext * (p * 2)
    <3> HIDE DEF p
    <3>1. KVBytes(activeContext) = activeContext * (4 * meta.layers * meta.kv * meta.dim)
      BY DEF KVBytes
    <3> QED BY <2>2, <2>4, <2>6, <3>1
  <2> HIDE DEF left, p
  <2> QED BY <2>5, <2>6, <2>7
<1> QED BY <1>1, Invariance, PTL

\* The engine's parallelism divides the heads among GPUs that exist.
THEOREM HeadsSplit == Spec => []HeadsAreSplitEvenly
<1>1. IInv => HeadsAreSplitEvenly
  <2> SUFFICES ASSUME IInv, engine # NoEngine, gpuLocked PROVE
        /\ engine.tensorParallel <= topo.count
        /\ meta.kv % engine.tensorParallel = 0
        /\ config # NoConfig /\ spec.size = "none" /\ config.kv > 0
           => config.kv % engine.tensorParallel = 0
    BY DEF HeadsAreSplitEvenly
  <2>1. /\ topo.count \in Nat \ {0} /\ meta.kv \in Nat \ {0}
        /\ engine.tensorParallel = AlignTensorParallelToKVHeads(topo.count, meta.kv)
        /\ config # NoConfig /\ spec.size = "none" /\ config.kv > 0 => meta.kv = config.kv
    BY DEF IInv, TypeOK, Sizing, MetaType, TopoType
  <2>2. /\ engine.tensorParallel \in 1 .. topo.count
        /\ meta.kv % engine.tensorParallel = 0
    BY <2>1, AlignedParallelism
  <2> QED BY <2>1, <2>2
<1> QED BY <1>1, Invariance, PTL

\* The two estimates give one result for a length clamped with 512 MB to spare, and the
\* error of the one is the minimal length of the other (CalculateMaxViableContext, EvaluateVRAMContextBudget).
THEOREM OneEstimate == Spec => []EstimatesAgree
<1>1. IInv => EstimatesAgree
  <2> DEFINE left   == RemainingKVMB(meta, topo)
             p      == KVBytesPerToken(meta, topo)
             w      == WeightMB(meta)
             viable == CalculateMaxViableContext(meta, topo)
  <2> SUFFICES ASSUME IInv, AutoSized PROVE
        /\ left >= 512 /\ activeContext < maxContext => viable = activeContext
        /\ viable = 0 => left <= 0 /\ activeContext = 2048
    BY DEF EstimatesAgree
  <2>1. /\ meta \in MetaType /\ topo \in TopoType /\ spec.context \in Int
        /\ spec.context <= 0 /\ topo.count > 0 /\ topo.vram > 0
        /\ activeContext = ResolveContext(meta, topo, spec.context)
        /\ maxContext = meta.native
    BY DEF IInv, TypeOK, Sizing, AutoSized, SpecType
  <2>2. left \in Int /\ p \in Nat \ {0} /\ meta.native \in Nat \ {0}
    BY <2>1, SizingNumbers DEF MetaType
  <2>3. topo.count \in Nat \ {0} /\ topo.vram \in Nat \ {0} /\ w \in Int
    <3>1. meta.params \in Nat /\ meta.bytes \in Nat
      BY <2>1 DEF MetaType
    <3>2. meta.params * meta.bytes * 1024 \in Int
      BY <3>1
    <3> QED BY <2>1, <3>2 DEF WeightMB, TopoType
  <2>4. left = ((topo.vram * 9) \div 10) - 1536 * topo.count - w
    BY DEF RemainingKVMB
  <2>5. viable = IF w > (topo.vram * 92) \div 100 THEN 0
                 ELSE AlignContextLength(TokensIn(Max({left, 512}), p), meta.native)
    BY <2>1, ViableLength
  <2> HIDE DEF left, p, w, viable
  <2>6. ((topo.vram * 9) \div 10) <= (topo.vram * 92) \div 100
    BY <2>3
  <2>7. left > 0 => ~(w > (topo.vram * 92) \div 100)
    BY <2>2, <2>3, <2>4, <2>6
  <2>8. ASSUME left >= 512, activeContext < maxContext
        PROVE  viable = activeContext
    <3>1. Max({left, 512}) = left
      <4>1. left \in {left, 512} /\ \A y \in {left, 512} : left >= y
        BY <2>2, <2>8
      <4>2. \A x \in {left, 512} : (\A y \in {left, 512} : x >= y) => x = left
        BY <2>2, <2>8
      <4> QED BY <4>1, <4>2 DEF Max
    <3>2. left > 0
      BY <2>2, <2>8
    <3>3. activeContext = AlignContextLength(TokensIn(left, p), meta.native)
      BY <2>1, <2>8, <3>2, ClampedLength DEF left, p
    <3> QED BY <2>5, <2>7, <3>1, <3>2, <3>3
  <2>9. ASSUME viable = 0
        PROVE  left <= 0 /\ activeContext = 2048
    <3> DEFINE x == Max({left, 512})
    <3>1. x \in Nat
      <4>1. CASE left >= 512
        <5>1. \E a \in {left, 512} : \A y \in {left, 512} : a >= y
          BY <2>2, <4>1
        <5>2. x \in {left, 512}
          BY <5>1 DEF Max
        <5> QED BY <2>2, <4>1, <5>2
      <4>2. CASE ~(left >= 512)
        <5>1. 512 \in {left, 512} /\ \A y \in {left, 512} : 512 >= y
          BY <2>2, <4>2
        <5>2. \A a \in {left, 512} : (\A y \in {left, 512} : a >= y) => a = 512
          BY <2>2, <4>2
        <5>3. x = 512
          BY <5>1, <5>2 DEF Max
        <5> QED BY <5>3
      <4> QED BY <4>1, <4>2
    <3> HIDE DEF x
    <3>2. x * MiB \in Nat /\ p * 2 \in Nat \ {0}
      BY <2>2, <3>1, Units
    <3>3. TokensIn(x, p) \in Nat
      BY <3>2 DEF TokensIn
    <3>4. AlignContextLength(TokensIn(x, p), meta.native) # 0
      BY <2>2, <3>3, AlignedLength
    <3>5. w > (topo.vram * 92) \div 100
      BY <2>5, <2>9, <3>4 DEF x
    <3>6. left <= 0
      BY <2>2, <2>7, <3>5
    <3> QED BY <2>1, <3>6, ResolvedLength DEF left
  <2> QED BY <2>8, <2>9
<1> QED BY <1>1, Invariance, PTL

=============================================================================
