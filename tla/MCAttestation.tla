---------------------------- MODULE MCAttestation ----------------------------
(***************************************************************************)
(* Machines for Attestation.                                               *)
(***************************************************************************)
EXTENDS Attestation, TLC

CONSTANTS h1, h2, n1, k1

Cpu(name, family, model) == [name |-> name, family |-> family, model |-> model]
Table(leaves, parses, ask, ark) == [leaves |-> leaves, parses |-> parses, ask |-> ask, ark |-> ark]
NoTable == Table({}, FALSE, FALSE, FALSE)

Amd(gpu, provider, signer, gen, cpu, cloud, table) ==
  [gpu |-> gpu, sev |-> TRUE, tsm |-> provider, tdx |-> FALSE, signer |-> signer, gen |-> gen,
   cpu |-> cpu, cloud |-> cloud, table |-> table]
Intel(gpu, provider, device) ==
  [gpu |-> gpu, sev |-> FALSE, tsm |-> provider, tdx |-> device, signer |-> "vcek", gen |-> "milan",
   cpu |-> Cpu("other", 23, 0), cloud |-> FALSE, table |-> NoTable]

\* Full and partial tables, with one leaf or both, processors with and without a name in them, one hidden by
\* the hypervisor, a leaf that cannot be parsed; TDX with and without TSM; neither.
\* NVML and TSM on different machines: their mutexes are never held together.
SomePlatforms ==
  {Amd(FALSE, "sev", "vlek", "genoa", Cpu("other", 25, 17), TRUE,
       Table({"vlek"}, TRUE, TRUE, FALSE)),
   Amd(FALSE, "none", "vcek", "milan", Cpu("other", 25, 1), FALSE,
       Table({"vcek"}, TRUE, FALSE, TRUE)),
   Amd(FALSE, "none", "vcek", "genoa", Cpu("other", 25, 160), FALSE, NoTable),
   Amd(FALSE, "none", "vlek", "turin", Cpu("other", 23, 1), TRUE,
       Table({"vlek", "vcek"}, TRUE, FALSE, FALSE)),
   Amd(FALSE, "none", "vlek", "turin", Cpu("turin", 26, 2), TRUE,
       Table({"vlek"}, FALSE, FALSE, FALSE)),
   Amd(FALSE, "none", "vcek", "milan", Cpu("milan", 25, 1), FALSE,
       Table({"vlek", "vcek"}, TRUE, TRUE, TRUE)),
   Intel(FALSE, "tdx", TRUE), Intel(TRUE, "none", TRUE), Intel(FALSE, "none", FALSE)}
=============================================================================
