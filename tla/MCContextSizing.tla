-------------------------- MODULE MCContextSizing --------------------------
(***************************************************************************)
(* Models, configurations and machines for ContextSizing.  Products stay   *)
(* within TLC's integers: native contexts up to 128K, memory up to 128 GB. *)
(***************************************************************************)
EXTENDS ContextSizing

Request(size, quant, family) ==
  [context |-> 0, remote |-> TRUE, fourBit |-> FALSE, size |-> size, quant |-> quant, family |-> family]

\* Small and large models, a long context, quantized weights by name and by
\* parameter, a requested length, a local file.
MCSpecs ==
  {Request(z, "none", 0) : z \in Sizes}
  \union {Request("7b", q, 131072) : q \in Quants}
  \union {[Request("none", "none", 32768) EXCEPT !.remote = FALSE, !.fourBit = TRUE],
          [Request("14b", "none", 8192) EXCEPT !.context = 6000]}

Config(layers, hidden, attention, kv, positions, quantized) ==
  [layers |-> layers, hidden |-> hidden, attention |-> attention, kv |-> kv,
   positions |-> positions, seq |-> 0, quantized |-> quantized]

\* Grouped and multi-head attention, a head count that no power of two divides, short
\* contexts around the small lengths, and a file without any of the fields.
MCConfigs ==
  {Config(28, 56, 28, 4, 32768, FALSE), Config(48, 80, 40, 8, 131072, TRUE),
   Config(12, 12, 12, 0, 1024, FALSE), Config(30, 48, 24, 6, 2047, FALSE),
   [Config(0, 0, 0, 0, 0, FALSE) EXCEPT !.seq = 300], Config(0, 0, 0, 0, 0, FALSE)}

Machine(pci, nodes, smi, model) == [pci |-> pci, nodes |-> nodes, smi |-> smi, model |-> model]

\* No GPU, one to eight of them, found on the bus or by device node, with and without
\* an answer of nvidia-smi; 18776 leaves a sliver beside a 7b model in 16 bits.
MCHardware ==
  {Machine(0, 0, 0, "other"), Machine(0, 2, 0, "T4"), Machine(3, 3, 0, "L4"),
   Machine(1, 1, 0, "H100"), Machine(8, 0, 16160, "T4"), Machine(6, 0, 0, "other")}
  \union {Machine(1, 2, mb, "other") : mb \in {8192, 17600, 18776, 20000, 24576, 49152}}
=============================================================================
