-------------------------- MODULE AmdCertificates --------------------------
(***************************************************************************)
(* The certificate chain of an AMD report (pkg/attestation/certs.go): the  *)
(* certificates the host hands over with the report, completed from the    *)
(* chains built into the node.  Which of those fits is guessed from the    *)
(* names in the leaf, from /proc/cpuinfo and from the vendor of the        *)
(* machine.                                                                *)
(***************************************************************************)
EXTENDS Integers, Sequences

Generations == {"milan", "genoa", "turin"}
Signers     == {"vcek", "vlek"}

\* A certificate: its place in the chain, the kind of leaf it stands above (one root
\* serves both), and the generation.
Certificates == [role : {"leaf", "intermediate", "root"}, kind : Signers \union {"both"},
                 gen : Generations]

Cert(role, kind, gen) == [role |-> role, kind |-> kind, gen |-> gen]
BuiltIn(kind, gen)    == <<Cert("intermediate", kind, gen), Cert("root", "both", gen)>>

AMDChainMilanPEM     == BuiltIn("vcek", "milan")
AMDChainGenoaPEM     == BuiltIn("vcek", "genoa")
AMDChainTurinPEM     == BuiltIn("vcek", "turin")
AMDVLEKChainMilanPEM == BuiltIn("vlek", "milan")
AMDVLEKChainGenoaPEM == BuiltIn("vlek", "genoa")
AMDVLEKChainTurinPEM == BuiltIn("vlek", "turin")

GetAMDVCEKChain(family) ==
  CASE family = "genoa" -> AMDChainGenoaPEM
    [] family = "turin" -> AMDChainTurinPEM
    [] OTHER            -> AMDChainMilanPEM

GetAMDVLEKChain(family) ==
  CASE family = "genoa" -> AMDVLEKChainGenoaPEM
    [] family = "turin" -> AMDVLEKChainTurinPEM
    [] OTHER            -> AMDVLEKChainMilanPEM

\* /proc/cpuinfo: the generation the model name mentions (or its series, 7003, 9004 and
\* 9005), family and model.
CpuInfos == [name : Generations \union {"other"}, family : {23, 25, 26}, model : 0..255]

\* "model : 16" to "model : 19" are searched as text, and so are found in 160 to 199.
IsGenoaModel(m) == m \in (16..19) \union (160..199)

DetectCPUGeneration(cpu) ==
  CASE cpu.name # "other" -> cpu.name
    [] cpu.name = "other" /\ cpu.family = 26 -> "turin"
    [] cpu.name = "other" /\ cpu.family = 25 /\ IsGenoaModel(cpu.model) -> "genoa"
    [] OTHER -> "milan"

\* Reference: what the processors of a generation report, if the hypervisor does not
\* hide it: Milan; Genoa and Bergamo; Turin and its dense variant.
IsOfGeneration(cpu, gen) ==
  \/ cpu.name = gen
  \/ /\ cpu.name = "other"
     /\ \/ gen = "milan" /\ cpu.family = 25 /\ cpu.model = 1
        \/ gen = "genoa" /\ cpu.family = 25 /\ cpu.model \in {17, 160}
        \/ gen = "turin" /\ cpu.family = 26 /\ cpu.model \in {2, 17}

\* Hosts: the vendor is one of IsCloudHypervisor's, and the table of certificates that
\* comes with a report: its leaves, whose names tell kind and generation if they can be
\* parsed, and whether intermediate and root are in it.
Tables == [leaves : SUBSET Signers, parses : BOOLEAN, ask : BOOLEAN, ark : BOOLEAN]

\* resolveDefaultAMDChain
DefaultChain(cloud, cpu) ==
  IF cloud THEN GetAMDVLEKChain(DetectCPUGeneration(cpu))
           ELSE GetAMDVCEKChain(DetectCPUGeneration(cpu))

If(b, s) == IF b THEN s ELSE <<>>

\* Of two leaves the VLEK is taken.
LeafKind(table) == IF "vlek" \in table.leaves THEN "vlek" ELSE "vcek"

\* The certificates the host gave.  An intermediate is of the signer's kind.
Given(table, signer, gen) ==
  If(table.leaves # {}, <<Cert("leaf", LeafKind(table), gen)>>)
    \o If(table.ask, <<Cert("intermediate", signer, gen)>>)
    \o If(table.ark, <<Cert("root", "both", gen)>>)

\* What is added: by the names in the leaf, where only genoa and turin are looked for;
\* else by the processor.
FamilyOf(gen, cpu) == IF gen \in {"genoa", "turin"} THEN gen ELSE DetectCPUGeneration(cpu)
Missing(table, gen, cloud, cpu) ==
  IF table.leaves # {} /\ table.parses
  THEN IF LeafKind(table) = "vlek" THEN GetAMDVLEKChain(FamilyOf(gen, cpu))
                                   ELSE GetAMDVCEKChain(FamilyOf(gen, cpu))
  ELSE DefaultChain(cloud \/ "vlek" \in table.leaves, cpu)

\* Mutant: the chain is completed only if both are missing.
FormatCertificateChainBoth(table, signer, gen, cloud, cpu) ==
  Given(table, signer, gen) \o If(~table.ask /\ ~table.ark, Missing(table, gen, cloud, cpu))

\* One missing certificate brings in both of the built-in chain.
FormatCertificateChain(table, signer, gen, cloud, cpu) ==
  Given(table, signer, gen) \o If(~table.ask \/ ~table.ark, Missing(table, gen, cloud, cpu))

\* A verifier finds its way from a leaf of this kind and generation to a root: the
\* intermediate and, behind it, the root are in the chain.
LeadsToRoot(chain, signer, gen) ==
  \E i, j \in DOMAIN chain : /\ i < j
                             /\ chain[i] = Cert("intermediate", signer, gen)
                             /\ chain[j] = Cert("root", "both", gen)
=============================================================================
