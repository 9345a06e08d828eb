-------------------------- MODULE AttestationProofs --------------------------
(***************************************************************************)
(* The safety properties of Attestation, for every set of machines, nonces *)
(* and keys and any number of handlers that collect at the same time as a  *)
(* tenant enrolls.                                                         *)
(***************************************************************************)
EXTENDS Attestation, SequenceTheorems, TLAPS

\* The two chains FetchAMDReport can hand out on a machine.
ChainsOf(m) == {FormatCertificateChain(m.table, m.signer, m.gen, m.cloud, m.cpu),
                DefaultChain(m.cloud, m.cpu)}

\* A quote as the interfaces of a machine make it.
HardwareQuote(q, m) ==
  \/ q.kind = "snp" /\ q.label = "amd-sev-snp" /\ q.chain \in ChainsOf(m)
  \/ q.kind \in {"snp", "td", "tdreport"} /\ q.label = "intel-tdx" /\ q.chain = <<>>

\* A document with key k around a quote over key k0.  They differ only in the document
\* of the boot.
DocumentOf(n, ev, k, k0, q) ==
  [status |-> "ok", nonce |-> n, evidence |-> ev, key |-> k, quote |-> q,
   userData |-> ComputeCompositeUserData(n, ev, k0), keySubject |-> (k0 # NoKey)]
IsMade(d, m) ==
  /\ d.status = "ok"
  /\ \E n \in AllNonces, ev \in Evidences, k \in OptKey, k0 \in OptKey, q \in {d.quote} :
       /\ d = DocumentOf(n, ev, k, k0, q)
       /\ HardwareQuote(q, m)
       /\ q.data = ComputeCompositeUserData(n, ev, k0)
       /\ n # BootNonce => k = k0

\* Why a quote is not the best one the machine has.
IsExcused(q, m, fails) ==
  /\ q.kind = "snp" /\ q.label = "intel-tdx" => "amd" \in fails
  /\ q.kind = "tdreport" => m.tsm = "none" \/ "tsm" \in fails

\* A process knows the key that is enrolled, or none; one that came after the enrollment
\* was answered, and each one before there is an enrollment, knows it once it has read it.
KeyIsRead(p) ==
  /\ authPub[p] \in {NoKey, key}
  /\ late[p] => enrolling = "answered"
  /\ pc[p] \notin {"idle", "gpu", "nvml", "key", "serve"} =>
       (late[p] \/ enrolling = "none" => authPub[p] = key)

\* The nonce of a collection.
NonceIsOwn(p) ==
  /\ p = Boot /\ pc[p] # "idle" => nonce[p] = BootNonce
  /\ p # Boot /\ pc[p] \notin {"idle", "serve"} => nonce[p] \in Nonces

\* The interfaces are tried in their order.
InterfacesInOrder(p) ==
  /\ pc[p] \in {"tdx", "tdxHeld", "any", "anyHeld"} =>
       platform.tsm # "none" /\ (platform.sev => "amd" \in failed[p])
  /\ pc[p] = "device" => platform.tsm = "none" \/ "tsm" \in failed[p]

\* A quote is over what the process has collected.
QuoteIsOwn(p) ==
  pc[p] = "build" =>
    /\ HardwareQuote(quote[p], platform)
    /\ quote[p].data = UserData(p)
    /\ IsExcused(quote[p], platform, failed[p])

\* An answer exists while it is being sent, and a document in it is a good one.
AnswerIsGood(p) ==
  /\ pc[p] # "serve" => answer[p] = NoDoc
  /\ p = Boot => pc[p] # "serve"
  /\ \/ answer[p] \in {NoDoc, [status |-> "503"], [status |-> "aborted"]}
     \/ IsMade(answer[p], platform)
  /\ IsMade(answer[p], platform) =>
       /\ answer[p].key \in {NoKey, key} /\ answer[p].quote.data.key \in {NoKey, key}
       /\ (late[p] /\ answer[p].nonce # BootNonce) \/ enrolling = "none" =>
            answer[p].quote.data.key = key
       /\ enrolling \in {"none", "stored"} => answer[p].key = answer[p].quote.data.key
       /\ answer[p].nonce # BootNonce => IsExcused(answer[p].quote, platform, failed[p])

ProcessInv(p) ==
  KeyIsRead(p) /\ NonceIsOwn(p) /\ InterfacesInOrder(p) /\ QuoteIsOwn(p) /\ AnswerIsGood(p)

\* The document of the boot, and the enrollment that updates it.
BootDocIsGood ==
  /\ bootDoc = NoDoc \/ IsMade(bootDoc, platform)
  /\ bootDoc # NoDoc => /\ bootDoc.nonce = BootNonce
                        /\ bootDoc.key \in {NoKey, key}
                        /\ bootDoc.quote.data.key \in {NoKey, key}
                        /\ enrolling = "none" => bootDoc.quote.data.key = key
                        /\ enrolling # "answered" => bootDoc.key = bootDoc.quote.data.key
  /\ enrolling # "none" => key # NoKey /\ pc[Boot] = "idle"
  /\ enrolling \in {"stored", "writing"} => bootDoc # NoDoc

\* TypeOK but for the answers, which the rest says more about.
FieldsOK ==
  /\ platform \in Platforms
  /\ key \in OptKey
  /\ enrolling \in {"none", "stored", "writing", "answered"}
  /\ pc \in [Processes -> PCs]
  /\ nonce \in [Processes -> AllNonces]
  /\ evidence \in [Processes -> Evidences]
  /\ authPub \in [Processes -> OptKey]
  /\ DOMAIN quote = Processes
  /\ DOMAIN answer = Processes
  /\ {nvml, tsm} \subseteq Processes \union {Nobody}
  /\ failed \in [Processes -> SUBSET {"amd", "tsm"}]
  /\ late \in [Processes -> BOOLEAN]

AttInv ==
  /\ FieldsOK
  /\ BootDocIsGood
  /\ \A p \in Processes : ProcessInv(p)

(***************************************************************************)
(* Chains of certificates                                                  *)
(***************************************************************************)

\* A chain built into the node: an intermediate and the root above it.
LEMMA BuiltInLeads ==
  ASSUME NEW kind \in Signers, NEW gen \in Generations
  PROVE  /\ BuiltIn(kind, gen) \in Seq(Certificates)
         /\ LeadsToRoot(BuiltIn(kind, gen), kind, gen)
  <1> DEFINE c == BuiltIn(kind, gen)
  <1>1. Cert("intermediate", kind, gen) \in Certificates /\ Cert("root", "both", gen) \in Certificates
    BY DEF Cert, Certificates
  <1>2. c \in Seq(Certificates)
    BY <1>1 DEF BuiltIn
  <1>3. /\ DOMAIN c = 1..2
        /\ c[1] = Cert("intermediate", kind, gen)
        /\ c[2] = Cert("root", "both", gen)
    BY DEF BuiltIn
  <1>4. LeadsToRoot(c, kind, gen)
    <2>1. 1 \in DOMAIN c /\ 2 \in DOMAIN c /\ 1 < 2
      BY <1>3
    <2> QED
      BY <1>3, <2>1 DEF LeadsToRoot
  <1> QED
    BY <1>2, <1>4

\* One more certificate at the end of a chain.
LEMMA OneMore ==
  ASSUME NEW s \in Seq(Certificates), NEW t \in Seq(Certificates), Len(t) = 1
  PROVE  /\ Len(s) \in Nat
         /\ s \o t \in Seq(Certificates)
         /\ DOMAIN (s \o t) = 1..(Len(s) + 1)
         /\ Len(s \o t) = Len(s) + 1
         /\ (s \o t)[Len(s) + 1] = t[1]
         /\ \A i \in 1..Len(s) : (s \o t)[i] = s[i]
  <1>1. /\ s \o t \in Seq(Certificates)
        /\ Len(s \o t) = Len(s) + Len(t)
        /\ Len(s) \in Nat
    BY ConcatProperties, LenProperties
  <1>2. Len(s \o t) = Len(s) + 1
    BY <1>1
  <1>3. DOMAIN (s \o t) = 1..(Len(s) + 1)
    BY <1>1, <1>2, LenProperties
  <1>4. (s \o t)[Len(s) + 1] = t[1]
    <2>1. 1 \in 1..Len(t) /\ Len(s) + 1 \in 1..(Len(s) + Len(t))
      BY <1>1
    <2> QED
      BY <1>1, <2>1
  <1>5. ASSUME NEW i \in 1..Len(s)
        PROVE  (s \o t)[i] = s[i]
    BY <1>1
  <1> QED
    BY <1>1, <1>2, <1>3, <1>4, <1>5

\* A chain with more in front of it, or behind it, still leads to the root.
LEMMA LeadsIsKept ==
  ASSUME NEW s \in Seq(Certificates), NEW t \in Seq(Certificates), NEW kind, NEW gen
  PROVE  /\ s \o t \in Seq(Certificates)
         /\ LeadsToRoot(t, kind, gen) => LeadsToRoot(s \o t, kind, gen)
         /\ LeadsToRoot(s, kind, gen) => LeadsToRoot(s \o t, kind, gen)
  <1>1. /\ s \o t \in Seq(Certificates)
        /\ Len(s \o t) = Len(s) + Len(t)
        /\ Len(s) \in Nat /\ Len(t) \in Nat
        /\ DOMAIN s = 1..Len(s) /\ DOMAIN t = 1..Len(t) /\ DOMAIN (s \o t) = 1..Len(s \o t)
    BY ConcatProperties, LenProperties
  <1>2. \A i \in DOMAIN s : i \in DOMAIN (s \o t) /\ (s \o t)[i] = s[i]
    <2>1. SUFFICES ASSUME NEW i \in 1..Len(s)
                   PROVE  i \in 1..(Len(s) + Len(t)) /\ (s \o t)[i] = s[i]
      BY <1>1
    <2> QED
      BY <1>1
  <1>3. \A i \in DOMAIN t : Len(s) + i \in DOMAIN (s \o t) /\ (s \o t)[Len(s) + i] = t[i]
    <2>1. SUFFICES ASSUME NEW i \in 1..Len(t)
                   PROVE  Len(s) + i \in 1..(Len(s) + Len(t)) /\ (s \o t)[Len(s) + i] = t[i]
      BY <1>1
    <2> QED
      BY <1>1
  <1>4. ASSUME LeadsToRoot(s, kind, gen)
        PROVE  LeadsToRoot(s \o t, kind, gen)
    BY <1>2, <1>4 DEF LeadsToRoot
  <1>5. ASSUME LeadsToRoot(t, kind, gen)
        PROVE  LeadsToRoot(s \o t, kind, gen)
    <2>1. PICK i, j \in DOMAIN t : /\ i < j
                                   /\ t[i] = Cert("intermediate", kind, gen)
                                   /\ t[j] = Cert("root", "both", gen)
      BY <1>5 DEF LeadsToRoot
    <2>2. Len(s) + i < Len(s) + j
      BY <1>1, <2>1
    <2> QED
      BY <1>3, <2>1, <2>2 DEF LeadsToRoot
  <1> QED
    BY <1>1, <1>4, <1>5

\* What Given is made of.
LEMMA GivenFacts ==
  ASSUME NEW table \in Tables, NEW signer \in Signers, NEW gen \in Generations
  PROVE  /\ Given(table, signer, gen) \in Seq(Certificates)
         /\ table.ask /\ table.ark => LeadsToRoot(Given(table, signer, gen), signer, gen)
  <1> DEFINE L == If(table.leaves # {}, <<Cert("leaf", LeafKind(table), gen)>>)
             A == If(table.ask, <<Cert("intermediate", signer, gen)>>)
             R == If(table.ark, <<Cert("root", "both", gen)>>)
  <1>1. L \in Seq(Certificates)
    <2>1. Cert("leaf", LeafKind(table), gen) \in Certificates
      BY DEF LeafKind, Signers, Cert, Certificates
    <2> QED
      BY <2>1 DEF If
  <1>2. A \in Seq(Certificates) /\ R \in Seq(Certificates)
    <2>1. /\ Cert("intermediate", signer, gen) \in Certificates
          /\ Cert("root", "both", gen) \in Certificates
      BY DEF Cert, Certificates
    <2> QED
      BY <2>1 DEF If
  <1>3. table.ask => A = <<Cert("intermediate", signer, gen)>>
    BY DEF If
  <1>4. table.ark => R = <<Cert("root", "both", gen)>>
    BY DEF If
  <1>5. Given(table, signer, gen) = (L \o A) \o R
    BY DEF Given
  <1> HIDE DEF L, A, R
  <1>6. L \o A \in Seq(Certificates)
    BY <1>1, <1>2, LeadsIsKept
  <1>7. (L \o A) \o R \in Seq(Certificates)
    BY <1>2, <1>6, LeadsIsKept
  <1>8. ASSUME table.ask, table.ark
        PROVE  LeadsToRoot((L \o A) \o R, signer, gen)
    <2> DEFINE LA == L \o A
    <2>1. /\ Len(A) = 1 /\ A[1] = Cert("intermediate", signer, gen)
      BY <1>3, <1>8
    <2>2. /\ Len(R) = 1 /\ R[1] = Cert("root", "both", gen)
      BY <1>4, <1>8
    <2>3. /\ Len(L) \in Nat
          /\ Len(LA) = Len(L) + 1 /\ LA[Len(L) + 1] = Cert("intermediate", signer, gen)
          /\ LA \in Seq(Certificates)
      BY <1>1, <1>2, <2>1, OneMore
    <2> HIDE DEF LA
    <2>4. /\ DOMAIN (LA \o R) = 1..(Len(LA) + 1)
          /\ (LA \o R)[Len(LA) + 1] = Cert("root", "both", gen)
          /\ \A i \in 1..Len(LA) : (LA \o R)[i] = LA[i]
      BY <1>2, <2>2, <2>3, OneMore
    <2>5. /\ Len(LA) \in 1..(Len(LA) + 1) /\ Len(LA) + 1 \in 1..(Len(LA) + 1)
          /\ Len(LA) < Len(LA) + 1 /\ Len(LA) \in 1..Len(LA)
      BY <2>3
    <2>6. (LA \o R)[Len(LA)] = Cert("intermediate", signer, gen)
      BY <2>3, <2>4, <2>5
    <2> QED
      BY <2>4, <2>5, <2>6 DEF LeadsToRoot, LA
  <1> QED
    BY <1>5, <1>7, <1>8

\* The chains of the table of built-in chains.
LEMMA TableOfChains ==
  ASSUME NEW gen \in Generations
  PROVE  GetAMDVCEKChain(gen) = BuiltIn("vcek", gen) /\ GetAMDVLEKChain(gen) = BuiltIn("vlek", gen)
  BY DEF Generations, GetAMDVCEKChain, GetAMDVLEKChain, AMDChainMilanPEM, AMDChainGenoaPEM,
         AMDChainTurinPEM, AMDVLEKChainMilanPEM, AMDVLEKChainGenoaPEM, AMDVLEKChainTurinPEM

\* DetectCPUGeneration finds the generation of a processor that does not hide it.
LEMMA Detected ==
  ASSUME NEW cpu \in CpuInfos
  PROVE  /\ DetectCPUGeneration(cpu) \in Generations
         /\ \A gen \in Generations : IsOfGeneration(cpu, gen) => DetectCPUGeneration(cpu) = gen
  <1>1. cpu.name \in Generations \union {"other"} /\ cpu.model \in Nat
    BY DEF CpuInfos
  <1>2. CASE cpu.name # "other"
    BY <1>1, <1>2 DEF DetectCPUGeneration, IsOfGeneration, Generations
  <1>3. CASE cpu.name = "other"
    BY <1>1, <1>3 DEF DetectCPUGeneration, IsOfGeneration, IsGenoaModel, Generations
  <1> QED
    BY <1>2, <1>3

\* What a machine is made of.
LEMMA MachineFacts ==
  ASSUME NEW m \in Platforms
  PROVE  /\ m.signer \in Signers /\ m.gen \in Generations /\ m.cpu \in CpuInfos
         /\ m.table \in Tables /\ m.table.leaves \subseteq Signers
         /\ m.sev \in BOOLEAN /\ m.cloud \in BOOLEAN /\ m.tsm \in {"none", "tdx", "sev"}
         /\ m.tsm = "sev" => m.sev
         /\ m.table.leaves # {} => m.signer \in m.table.leaves
  BY PlatformAssumption DEF Machines, Tables

\* What is known about the signer, for a chain the host began or not.
NoOtherLeaf(m) == "vlek" \in m.table.leaves => m.signer = "vlek"
LeafTells(m) ==
  /\ NoOtherLeaf(m)
  /\ m.table.leaves # {} /\ m.table.parses
  /\ m.gen = "milan" => IsOfGeneration(m.cpu, "milan")
NodeTells(m) ==
  NoOtherLeaf(m) /\ (m.cloud <=> m.signer = "vlek") /\ IsOfGeneration(m.cpu, m.gen)

\* The chain of the vendor and of the processor is a built-in one, and the right one if they tell.
LEMMA DefaultIsRight ==
  ASSUME NEW m \in Platforms, NEW cloud \in BOOLEAN
  PROVE  /\ \E kind \in Signers, gen \in Generations : DefaultChain(cloud, m.cpu) = BuiltIn(kind, gen)
         /\ NodeTells(m) /\ (cloud <=> m.cloud) => DefaultChain(cloud, m.cpu) = BuiltIn(m.signer, m.gen)
  <1> DEFINE g == DetectCPUGeneration(m.cpu)
  <1>1. g \in Generations /\ (NodeTells(m) => g = m.gen)
    BY MachineFacts, Detected DEF NodeTells
  <1>2. DefaultChain(cloud, m.cpu) = BuiltIn(IF cloud THEN "vlek" ELSE "vcek", g)
    BY <1>1, TableOfChains DEF DefaultChain
  <1> HIDE DEF g
  <1>3. (IF cloud THEN "vlek" ELSE "vcek") \in Signers
    BY DEF Signers
  <1>4. ASSUME NodeTells(m), cloud <=> m.cloud
        PROVE  m.signer = IF cloud THEN "vlek" ELSE "vcek"
    BY <1>4, MachineFacts DEF NodeTells, Signers
  <1> QED
    BY <1>1, <1>2, <1>3, <1>4

\* So is what Missing adds.
LEMMA MissingIsRight ==
  ASSUME NEW m \in Platforms
  PROVE  /\ \E kind \in Signers, gen \in Generations :
              Missing(m.table, m.gen, m.cloud, m.cpu) = BuiltIn(kind, gen)
         /\ LeafTells(m) \/ NodeTells(m) =>
              Missing(m.table, m.gen, m.cloud, m.cpu) = BuiltIn(m.signer, m.gen)
  <1> DEFINE leaf == LeafKind(m.table)
             f == FamilyOf(m.gen, m.cpu)
             add == Missing(m.table, m.gen, m.cloud, m.cpu)
  <1>1. leaf \in Signers
    BY DEF LeafKind, Signers
  <1>2. CASE m.table.leaves # {} /\ m.table.parses
    <2>1. NoOtherLeaf(m) => leaf = m.signer
      BY <1>2, MachineFacts DEF NoOtherLeaf, LeafKind, Signers
    <2>2. f \in Generations /\ (LeafTells(m) \/ NodeTells(m) => f = m.gen)
      <3>1. /\ DetectCPUGeneration(m.cpu) \in Generations
            /\ IsOfGeneration(m.cpu, m.gen) => DetectCPUGeneration(m.cpu) = m.gen
        BY MachineFacts, Detected
      <3>2. m.gen \notin {"genoa", "turin"} => m.gen = "milan"
        BY MachineFacts DEF Generations
      <3> QED
        BY <3>1, <3>2, MachineFacts DEF FamilyOf, LeafTells, NodeTells
    <2>3. add = IF leaf = "vlek" THEN GetAMDVLEKChain(f) ELSE GetAMDVCEKChain(f)
      BY <1>2 DEF Missing
    <2> HIDE DEF f, leaf, add
    <2>4. add = BuiltIn(leaf, f)
      BY <1>1, <2>2, <2>3, TableOfChains DEF Signers
    <2> QED
      BY <1>1, <2>1, <2>2, <2>4 DEF LeafTells, NodeTells, add
  <1>3. CASE ~(m.table.leaves # {} /\ m.table.parses)
    <2>1. add = DefaultChain(m.cloud \/ "vlek" \in m.table.leaves, m.cpu)
      BY <1>3 DEF Missing
    <2>2. NodeTells(m) => ((m.cloud \/ "vlek" \in m.table.leaves) <=> m.cloud)
      BY MachineFacts DEF NodeTells, NoOtherLeaf
    <2> QED
      BY <1>3, <2>1, <2>2, DefaultIsRight DEF LeafTells
  <1> QED
    BY <1>2, <1>3

\* Every chain of a machine is one of certificates, and leads to AMD's root from what signed the
\* report if the host gave all of it or its signer is known.
LEMMA ChainLeads ==
  ASSUME NEW m \in Platforms, NEW c \in ChainsOf(m)
  PROVE  LET host == FormatCertificateChain(m.table, m.signer, m.gen, m.cloud, m.cpu)
         IN  /\ c \in Seq(Certificates)
             /\ (c = host /\ ((m.table.ask /\ m.table.ark) \/ LeafTells(m))) \/ NodeTells(m)
                  => LeadsToRoot(c, m.signer, m.gen)
  <1> DEFINE host == FormatCertificateChain(m.table, m.signer, m.gen, m.cloud, m.cpu)
             G == Given(m.table, m.signer, m.gen)
             M == Missing(m.table, m.gen, m.cloud, m.cpu)
             E == If(~m.table.ask \/ ~m.table.ark, M)
  <1>1. G \in Seq(Certificates) /\ (m.table.ask /\ m.table.ark => LeadsToRoot(G, m.signer, m.gen))
    BY MachineFacts, GivenFacts
  <1>2. M \in Seq(Certificates) /\ (LeafTells(m) \/ NodeTells(m) => LeadsToRoot(M, m.signer, m.gen))
    BY MachineFacts, MissingIsRight, BuiltInLeads
  <1>3. /\ E \in Seq(Certificates)
        /\ ~(m.table.ask /\ m.table.ark) /\ (LeafTells(m) \/ NodeTells(m))
             => LeadsToRoot(E, m.signer, m.gen)
    BY <1>2 DEF If
  <1>4. host = G \o E
    BY DEF FormatCertificateChain
  <1>5. ASSUME c = host
        PROVE  /\ c \in Seq(Certificates)
               /\ (m.table.ask /\ m.table.ark) \/ LeafTells(m) \/ NodeTells(m)
                    => LeadsToRoot(c, m.signer, m.gen)
    <2> HIDE DEF G, E
    <2> QED
      BY <1>1, <1>3, <1>4, <1>5, LeadsIsKept
  <1>6. ASSUME c = DefaultChain(m.cloud, m.cpu)
        PROVE  /\ c \in Seq(Certificates)
               /\ NodeTells(m) => LeadsToRoot(c, m.signer, m.gen)
    <2>1. m.cloud \in BOOLEAN /\ m.signer \in Signers /\ m.gen \in Generations
      BY MachineFacts
    <2>2. \E kind \in Signers, gen \in Generations : c = BuiltIn(kind, gen)
      BY <1>6, <2>1, DefaultIsRight
    <2>3. NodeTells(m) => c = BuiltIn(m.signer, m.gen)
      BY <1>6, <2>1, DefaultIsRight
    <2> QED
      BY <2>1, <2>2, <2>3, BuiltInLeads
  <1>7. c = host \/ c = DefaultChain(m.cloud, m.cpu)
    BY DEF ChainsOf
  <1> HIDE DEF host
  <1>8. CASE c = host
    BY <1>5, <1>8 DEF host
  <1>9. CASE c # host
    BY <1>6, <1>7, <1>9 DEF host
  <1> QED
    BY <1>8, <1>9

(***************************************************************************)
(* Documents                                                               *)
(***************************************************************************)

\* What it takes to make a document.
LEMMA DocumentIsMade ==
  ASSUME NEW m, NEW n \in AllNonces, NEW ev \in Evidences, NEW k \in OptKey, NEW k0 \in OptKey,
         NEW q, HardwareQuote(q, m), q.data = ComputeCompositeUserData(n, ev, k0),
         n # BootNonce => k = k0
  PROVE  IsMade(DocumentOf(n, ev, k, k0, q), m)
  <1> DEFINE d == DocumentOf(n, ev, k, k0, q)
  <1>1. d.status = "ok" /\ d.quote = q
    BY DEF DocumentOf
  <1> HIDE DEF d
  <1>2. q \in {d.quote}
    BY <1>1
  <1>3. \E q1 \in {d.quote} :
          /\ d = DocumentOf(n, ev, k, k0, q1)
          /\ HardwareQuote(q1, m)
          /\ q1.data = ComputeCompositeUserData(n, ev, k0)
          /\ n # BootNonce => k = k0
    BY <1>2, Zenon DEF d
  <1>4. IsMade(d, m)
    BY <1>1, <1>3, Zenon DEF IsMade
  <1> QED
    BY <1>4 DEF d

\* A document that was made has the fields of one, carries a quote of the machine, and verifies
\* exactly if its key is the one in the quote; one made for a nonce of a client does.
LEMMA MadeFacts ==
  ASSUME NEW m \in Platforms, NEW d, IsMade(d, m)
  PROVE  /\ d.status = "ok"
         /\ IsDocument(d)
         /\ HardwareQuote(d.quote, m)
         /\ Verifies(d) <=> d.key = d.quote.data.key
         /\ d.nonce # BootNonce => Verifies(d)
  <1>1. PICK n \in AllNonces, ev \in Evidences, k \in OptKey, k0 \in OptKey, q \in {d.quote} :
          /\ d = DocumentOf(n, ev, k, k0, q)
          /\ HardwareQuote(q, m)
          /\ q.data = ComputeCompositeUserData(n, ev, k0)
          /\ n # BootNonce => k = k0
    BY DEF IsMade
  <1>2. /\ d.status = "ok" /\ d.nonce = n /\ d.evidence = ev /\ d.key = k /\ d.quote = q
        /\ d.userData = ComputeCompositeUserData(n, ev, k0) /\ d.keySubject = (k0 # NoKey)
    BY <1>1 DEF DocumentOf
  <1>3. IsDocument(d)
    <2>1. q.kind \in {"snp", "td", "tdreport"} /\ q.label \in {"amd-sev-snp", "intel-tdx"}
      BY <1>1 DEF HardwareQuote
    <2>2. \A i \in DOMAIN q.chain : q.chain[i] \in Certificates
      <3>1. q.chain \in Seq(Certificates)
        <4>1. q.chain \in ChainsOf(m) \/ q.chain = <<>>
          BY <1>1 DEF HardwareQuote
        <4>2. <<>> \in Seq(Certificates)
          OBVIOUS
        <4>3. \A c \in ChainsOf(m) : c \in Seq(Certificates)
          BY ChainLeads
        <4> QED
          BY <4>1, <4>2, <4>3, Zenon
      <3> DEFINE c == q.chain
      <3> HIDE DEF c
      <3>2. c \in Seq(Certificates) => \A i \in DOMAIN c : c[i] \in Certificates
        OBVIOUS
      <3> QED
        BY <3>1, <3>2 DEF c
    <2> QED
      BY <1>2, <2>1, <2>2 DEF IsDocument
  <1>4. q.data.key = k0
    BY <1>1 DEF ComputeCompositeUserData
  <1>5. Verifies(d) <=> k = k0
    <2>1. ComputeCompositeUserData(n, ev, k0) = ComputeCompositeUserData(n, ev, k) <=> k = k0
      BY DEF ComputeCompositeUserData
    <2> QED
      BY <1>1, <1>2, <2>1, Zenon DEF Verifies, VerifyCompositeUserData
  <1> QED
    BY <1>1, <1>2, <1>3, <1>4, <1>5

\* The document of the boot may get another key.
LEMMA KeyIsReplaced ==
  ASSUME NEW m, NEW d, IsMade(d, m), d.nonce = BootNonce, NEW k \in OptKey
  PROVE  LET e == [d EXCEPT !.key = k]
         IN  /\ IsMade(e, m)
             /\ e.status = "ok" /\ e.nonce = BootNonce /\ e.key = k /\ e.quote = d.quote
  <1>1. PICK n \in AllNonces, ev \in Evidences, j \in OptKey, k0 \in OptKey, q \in {d.quote} :
          /\ d = DocumentOf(n, ev, j, k0, q)
          /\ HardwareQuote(q, m)
          /\ q.data = ComputeCompositeUserData(n, ev, k0)
          /\ n # BootNonce => j = k0
    BY DEF IsMade
  <1>2. n = BootNonce
    BY <1>1 DEF DocumentOf
  <1>3. [d EXCEPT !.key = k] = DocumentOf(n, ev, k, k0, q)
    BY <1>1 DEF DocumentOf
  <1>4. IsMade(DocumentOf(n, ev, k, k0, q), m)
    BY <1>1, <1>2, DocumentIsMade
  <1>5. LET e == DocumentOf(n, ev, k, k0, q) IN /\ e.status = "ok" /\ e.nonce = n
                                                     /\ e.key = k /\ e.quote = q
    BY DEF DocumentOf
  <1> QED
    BY <1>2, <1>3, <1>4, <1>5

\* Answers without a document are told apart by their status.
LEMMA ReplyFacts ==
  ASSUME NEW d \in {NoDoc, [status |-> "503"], [status |-> "aborted"]}
  PROVE  d.status # "ok" /\ IsReply(d) /\ \A m \in Platforms : ~IsMade(d, m)
  <1>1. d.status # "ok" /\ IsReply(d)
    BY DEF NoDoc, IsReply, ReplyCodes
  <1> QED
    BY <1>1, MadeFacts

\* The four properties follow from the invariant.
LEMMA InvImplies ==
  ASSUME AttInv
  PROVE  TypeOK /\ DocumentIsBound /\ EnrolledKeyIsAttested /\ QuoteFitsPlatform
  <1> USE DEF AttInv
  <1>1. platform \in Platforms
    BY DEF FieldsOK
  <1>2. ASSUME NEW p \in Processes
        PROVE  \/ answer[p].status # "ok" /\ IsReply(answer[p])
               \/ IsMade(answer[p], platform) /\ IsReply(answer[p])
    BY <1>1, MadeFacts, ReplyFacts DEF ProcessInv, AnswerIsGood, IsReply
  <1>3. bootDoc = NoDoc \/ IsMade(bootDoc, platform)
    BY DEF BootDocIsGood
  <1>4. IsReply(bootDoc)
    BY <1>1, <1>3, MadeFacts, ReplyFacts DEF IsReply
  <1>5. TypeOK
    BY <1>2, <1>4 DEF TypeOK, FieldsOK
  <1>6. \A p \in Handlers : p \in Processes
    BY DEF Processes
  <1>7. \A d \in Documents : \E p \in Handlers : d = answer[p] /\ IsMade(answer[p], platform)
    BY <1>2, <1>6 DEF Documents
  <1>8. DocumentIsBound
    <2>1. ASSUME NEW d \in Documents, d.nonce # BootNonce \/ enrolling \in {"none", "stored"}
          PROVE  Verifies(d)
      <3>1. PICK p \in Handlers : d = answer[p] /\ IsMade(answer[p], platform)
        BY <1>7
      <3> QED
        BY <1>1, <1>6, <2>1, <3>1, MadeFacts DEF ProcessInv, AnswerIsGood
    <2> QED
      BY <1>1, <1>3, <2>1, MadeFacts DEF DocumentIsBound, BootDocIsGood
  <1>9. EnrolledKeyIsAttested
    BY <1>2, <1>6 DEF EnrolledKeyIsAttested, ProcessInv, AnswerIsGood
  <1>10. LabelMatchesQuote
    <2>1. SUFFICES ASSUME NEW p \in Handlers, answer[p].status = "ok", answer[p].nonce # BootNonce
                   PROVE  /\ answer[p].quote.label = "amd-sev-snp" => answer[p].quote.kind = "snp"
                          /\ IsExcused(answer[p].quote, platform, failed[p])
      BY DEF LabelMatchesQuote, IsExcused
    <2>2. IsMade(answer[p], platform)
      BY <1>2, <1>6, <2>1
    <2>3. HardwareQuote(answer[p].quote, platform)
      BY <1>1, <2>2, MadeFacts
    <2> QED
      BY <1>6, <2>1, <2>2, <2>3 DEF HardwareQuote, ProcessInv, AnswerIsGood
  <1>11. ChainLeadsToRoot
    <2>1. SUFFICES ASSUME NEW d \in Documents, d.quote.label = "amd-sev-snp", GuessIsRight(d)
                   PROVE  LeadsToRoot(d.quote.chain, platform.signer, platform.gen)
      BY DEF ChainLeadsToRoot
    <2>2. HardwareQuote(d.quote, platform)
      BY <1>1, <1>7, MadeFacts
    <2>3. d.quote.chain \in ChainsOf(platform)
      BY <2>1, <2>2 DEF HardwareQuote
    <2> QED
      BY <1>1, <2>1, <2>3, ChainLeads
         DEF GuessIsRight, HostChain, LeafTells, NodeTells, NoOtherLeaf
  <1> QED
    BY <1>5, <1>8, <1>9, <1>10, <1>11 DEF QuoteFitsPlatform

(***************************************************************************)
(* The invariant                                                           *)
(***************************************************************************)

LEMMA InitInv ==
  ASSUME Init
  PROVE  AttInv
  <1> USE DEF Init
  <1>1. Boot \in Processes /\ "absent" \in AllNonces /\ BootNonce \in AllNonces
        /\ NoEvidence \in Evidences /\ NoKey \in OptKey
    BY DEF Processes, AllNonces, NoEvidence, Evidences, OptKey
  <1>2. FirstStep \in {"gpu", "key"}
    BY DEF FirstStep
  <1>3. FieldsOK
    BY <1>1, <1>2 DEF FieldsOK, PCs
  <1>4. BootDocIsGood
    BY DEF BootDocIsGood
  <1>5. ASSUME NEW p \in Processes
        PROVE  ProcessInv(p)
    <2>1. /\ pc[p] \in {"idle", "gpu", "key"} /\ (p # Boot => pc[p] = "idle")
          /\ (p = Boot => nonce[p] = BootNonce)
          /\ authPub[p] = NoKey /\ answer[p] = NoDoc /\ ~late[p]
      BY <1>2
    <2>2. ~IsMade(answer[p], platform)
      BY <2>1, ReplyFacts
    <2> QED
      BY <2>1, <2>2 DEF ProcessInv, KeyIsRead, NonceIsOwn, InterfacesInOrder, QuoteIsOwn, AnswerIsGood
  <1> QED
    BY <1>3, <1>4, <1>5 DEF AttInv

\* A process nothing happens to keeps its part of the invariant.
LocalsSame(q) ==
  /\ pc'[q] = pc[q] /\ nonce'[q] = nonce[q] /\ evidence'[q] = evidence[q]
  /\ authPub'[q] = authPub[q] /\ quote'[q] = quote[q] /\ answer'[q] = answer[q]
  /\ failed'[q] = failed[q] /\ late'[q] = late[q]

LEMMA Frame ==
  ASSUME NEW q, ProcessInv(q), LocalsSame(q), UNCHANGED <<platform, key, enrolling>>
  PROVE  ProcessInv(q)'
  <1> USE DEF LocalsSame
  <1>1. KeyIsRead(q)' /\ NonceIsOwn(q)' /\ InterfacesInOrder(q)'
    BY DEF ProcessInv, KeyIsRead, NonceIsOwn, InterfacesInOrder
  <1>2. QuoteIsOwn(q)'
    BY DEF ProcessInv, QuoteIsOwn, UserData
  <1>3. AnswerIsGood(q)'
    BY DEF ProcessInv, AnswerIsGood
  <1> QED
    BY <1>1, <1>2, <1>3 DEF ProcessInv

\* A step of one process: what has to be shown is about this process.
LEMMA LocalStep ==
  ASSUME AttInv, NEW p \in Processes, FieldsOK',
         UNCHANGED <<platform, key, enrolling, bootDoc>>,
         p = Boot => pc[p] # "idle",
         \A q \in Processes : q # p => LocalsSame(q),
         ProcessInv(p)'
  PROVE  AttInv'
  <1>1. \A q \in Processes : ProcessInv(q)'
    BY Frame DEF AttInv
  <1>2. Boot \in Processes
    BY DEF Processes
  <1>3. enrolling # "none" => pc'[Boot] = "idle"
    BY <1>2 DEF AttInv, BootDocIsGood, LocalsSame
  <1>4. BootDocIsGood'
    BY <1>3 DEF AttInv, BootDocIsGood
  <1> QED
    BY <1>1, <1>4 DEF AttInv

(***************************************************************************)
(* Requests                                                                *)
(***************************************************************************)

LEMMA AskStep ==
  ASSUME AttInv, NEW h \in Handlers, NEW n \in Nonces, Ask(h, n)
  PROVE  AttInv'
  <1> USE DEF Ask, Goto, enrollVars
  <1>1. h \in Processes /\ h # Boot /\ FieldsOK /\ ProcessInv(h)
    BY ProcessAssumption DEF Processes, AttInv
  <1>2. FirstStep \in {"gpu", "key"} /\ n \in AllNonces
    BY DEF FirstStep, AllNonces
  <1>3. FieldsOK'
    BY <1>1, <1>2 DEF FieldsOK, PCs
  <1>4. \A q \in Processes : q # h => LocalsSame(q)
    BY <1>1 DEF FieldsOK, LocalsSame
  <1>5. /\ pc'[h] \in {"gpu", "key"} /\ nonce'[h] = n /\ late'[h] = (enrolling = "answered")
        /\ answer[h] = NoDoc
    BY <1>1, <1>2 DEF FieldsOK, ProcessInv, AnswerIsGood
  <1>6. ProcessInv(h)'
    <2>1. ~IsMade(answer[h], platform)
      BY <1>1, <1>5, ReplyFacts DEF FieldsOK
    <2>2. KeyIsRead(h)'
      BY <1>1, <1>5 DEF ProcessInv, KeyIsRead
    <2>3. NonceIsOwn(h)' /\ InterfacesInOrder(h)' /\ QuoteIsOwn(h)'
      BY <1>1, <1>5 DEF NonceIsOwn, InterfacesInOrder, QuoteIsOwn
    <2>4. AnswerIsGood(h)'
      BY <1>1, <1>5, <2>1 DEF AnswerIsGood
    <2> QED
      BY <2>2, <2>3, <2>4 DEF ProcessInv
  <1> QED
    BY <1>1, <1>3, <1>4, <1>6, LocalStep

\* A document of the boot that is handed out while its key is written has the old key or the
\* new one.
LEMMA AskBootDocStep ==
  ASSUME AttInv, NEW h \in Handlers, AskBootDoc(h)
  PROVE  AttInv'
  <1> USE DEF AskBootDoc, Goto, Reply, enrollVars
  <1>1. h \in Processes /\ h # Boot /\ FieldsOK /\ ProcessInv(h) /\ platform \in Platforms
    BY ProcessAssumption DEF Processes, AttInv, FieldsOK
  <1>2. FieldsOK'
    BY <1>1 DEF FieldsOK, PCs
  <1>3. \A q \in Processes : q # h => LocalsSame(q)
    BY <1>1 DEF FieldsOK, LocalsSame
  <1>4. pc'[h] = "serve" /\ late'[h] = (enrolling = "answered")
    BY <1>1 DEF FieldsOK
  <1>5. \/ answer'[h] = [status |-> "503"]
        \/ answer'[h] = [status |-> "aborted"]
        \/ answer'[h] = bootDoc /\ bootDoc # NoDoc
        \/ answer'[h] = [bootDoc EXCEPT !.key = key] /\ bootDoc # NoDoc /\ enrolling = "writing"
    BY <1>1 DEF FieldsOK
  <1>6. AnswerIsGood(h)'
    <2>1. CASE answer'[h] \in {[status |-> "503"], [status |-> "aborted"]}
      <3>1. ~IsMade(answer'[h], platform)
        BY <1>1, <2>1, ReplyFacts
      <3> QED
        BY <1>1, <1>4, <2>1, <3>1 DEF AnswerIsGood
    <2>2. CASE answer'[h] = bootDoc /\ bootDoc # NoDoc
      <3>1. /\ IsMade(bootDoc, platform) /\ bootDoc.nonce = BootNonce
            /\ bootDoc.key \in {NoKey, key} /\ bootDoc.quote.data.key \in {NoKey, key}
            /\ enrolling = "none" => bootDoc.quote.data.key = key
            /\ enrolling # "answered" => bootDoc.key = bootDoc.quote.data.key
        BY <2>2 DEF AttInv, BootDocIsGood
      <3> QED
        BY <1>1, <1>4, <2>2, <3>1 DEF AnswerIsGood
    <2>3. CASE answer'[h] = [bootDoc EXCEPT !.key = key] /\ bootDoc # NoDoc /\ enrolling = "writing"
      <3>1. /\ IsMade(bootDoc, platform) /\ bootDoc.nonce = BootNonce /\ key \in OptKey
            /\ bootDoc.quote.data.key \in {NoKey, key} /\ enrolling = "writing"
        BY <1>1, <2>3 DEF AttInv, BootDocIsGood, FieldsOK
      <3>2. /\ IsMade(answer'[h], platform)
            /\ answer'[h].key = key /\ answer'[h].nonce = BootNonce
            /\ answer'[h].quote = bootDoc.quote
        BY <2>3, <3>1, KeyIsReplaced
      <3> QED
        BY <1>1, <1>4, <3>1, <3>2 DEF AnswerIsGood
    <2> QED
      BY <1>5, <2>1, <2>2, <2>3
  <1>7. KeyIsRead(h)' /\ NonceIsOwn(h)' /\ InterfacesInOrder(h)' /\ QuoteIsOwn(h)'
    BY <1>1, <1>4 DEF ProcessInv, KeyIsRead, NonceIsOwn, InterfacesInOrder, QuoteIsOwn
  <1>8. ProcessInv(h)'
    BY <1>6, <1>7 DEF ProcessInv
  <1> QED
    BY <1>1, <1>2, <1>3, <1>8, LocalStep

\* After a return nothing is left of a collection.
LEMMA ReturnFacts ==
  ASSUME AttInv, NEW p \in Processes, Return(p), UNCHANGED <<platform, key, enrolling, nvml, tsm>>
  PROVE  /\ FieldsOK'
         /\ \A q \in Processes : q # p => LocalsSame(q)
         /\ ProcessInv(p)'
         /\ pc'[p] = "idle"
  <1> USE DEF Return, Goto
  <1>1. FieldsOK /\ platform \in Platforms
    BY DEF AttInv, FieldsOK
  <1>2. "absent" \in AllNonces /\ NoEvidence \in Evidences /\ NoKey \in OptKey
    BY DEF AllNonces, NoEvidence, Evidences, OptKey
  <1>3. FieldsOK'
    BY <1>1, <1>2 DEF FieldsOK, PCs
  <1>4. \A q \in Processes : q # p => LocalsSame(q)
    BY <1>1 DEF FieldsOK, LocalsSame
  <1>5. pc'[p] = "idle" /\ authPub'[p] = NoKey /\ answer'[p] = NoDoc /\ late'[p] = FALSE
    BY <1>1 DEF FieldsOK
  <1>6. ~IsMade(answer'[p], platform)
    BY <1>1, <1>5, ReplyFacts
  <1>7. KeyIsRead(p)' /\ NonceIsOwn(p)' /\ InterfacesInOrder(p)' /\ QuoteIsOwn(p)'
    BY <1>5 DEF KeyIsRead, NonceIsOwn, InterfacesInOrder, QuoteIsOwn
  <1>8. AnswerIsGood(p)'
    BY <1>5, <1>6 DEF AnswerIsGood
  <1> QED
    BY <1>3, <1>4, <1>5, <1>7, <1>8 DEF ProcessInv

LEMMA ServedStep ==
  ASSUME AttInv, NEW p \in Processes, Served(p)
  PROVE  AttInv'
  <1>1. /\ p # Boot
        /\ UNCHANGED <<platform, key, enrolling, bootDoc, nvml, tsm>>
        /\ Return(p)
    BY ProcessAssumption DEF Served, enrollVars
  <1> QED
    BY <1>1, ReturnFacts, LocalStep

(***************************************************************************)
(* A collection                                                            *)
(***************************************************************************)

\* Within a collection there is no answer yet.
LEMMA NoAnswerYet ==
  ASSUME AttInv, NEW p \in Processes, pc[p] # "serve"
  PROVE  /\ FieldsOK /\ ProcessInv(p) /\ platform \in Platforms
         /\ answer[p] = NoDoc /\ ~IsMade(answer[p], platform)
  <1>1. FieldsOK /\ ProcessInv(p) /\ platform \in Platforms
    BY DEF AttInv, FieldsOK
  <1>2. answer[p] = NoDoc
    BY <1>1 DEF ProcessInv, AnswerIsGood
  <1> QED
    BY <1>1, <1>2, ReplyFacts

LEMMA LockNvmlStep ==
  ASSUME AttInv, NEW p \in Processes, LockNvml(p)
  PROVE  AttInv'
  <1> USE DEF LockNvml, Goto, enrollVars
  <1>1. FieldsOK /\ ProcessInv(p)
    BY DEF AttInv
  <1>2. FieldsOK'
    BY <1>1 DEF FieldsOK, PCs
  <1>3. \A q \in Processes : q # p => LocalsSame(q)
    BY <1>1 DEF FieldsOK, LocalsSame
  <1>4. pc'[p] = "nvml"
    BY <1>1 DEF FieldsOK
  <1>5. ProcessInv(p)'
    BY <1>1, <1>4 DEF ProcessInv, KeyIsRead, NonceIsOwn, InterfacesInOrder, QuoteIsOwn, AnswerIsGood
  <1> QED
    BY <1>2, <1>3, <1>5, LocalStep

LEMMA QueryHardwareStep ==
  ASSUME AttInv, NEW p \in Processes, NEW report \in BOOLEAN, NEW certs \in BOOLEAN,
         QueryHardware(p, report, certs)
  PROVE  AttInv'
  <1> USE DEF QueryHardware, Goto, enrollVars
  <1>1. FieldsOK /\ ProcessInv(p)
    BY DEF AttInv
  <1>2. [devices |-> TRUE, certs |-> certs, report |-> IF report THEN nonce[p] ELSE "absent"]
          \in Evidences
    BY <1>1 DEF FieldsOK, Evidences, AllNonces
  <1>3. FieldsOK'
    BY <1>1, <1>2 DEF FieldsOK, PCs
  <1>4. \A q \in Processes : q # p => LocalsSame(q)
    BY <1>1 DEF FieldsOK, LocalsSame
  <1>5. pc'[p] = "key"
    BY <1>1 DEF FieldsOK
  <1>6. ProcessInv(p)'
    BY <1>1, <1>5 DEF ProcessInv, KeyIsRead, NonceIsOwn, InterfacesInOrder, QuoteIsOwn, AnswerIsGood
  <1> QED
    BY <1>3, <1>4, <1>6, LocalStep

\* The key is read once, and with it the first interface is chosen.
LEMMA ReadKeyStep ==
  ASSUME AttInv, NEW p \in Processes, ReadKey(p)
  PROVE  AttInv'
  <1> USE DEF ReadKey, Goto, enrollVars, KeyRead
  <1>1. FieldsOK /\ ProcessInv(p)
    BY DEF AttInv
  <1>2. /\ FirstInterface \in {"amd", "device", "tdx"}
        /\ FirstInterface = "device" => platform.tsm = "none"
        /\ FirstInterface = "tdx" => platform.tsm # "none" /\ ~platform.sev
    BY DEF FirstInterface, TsmOrDevice
  <1>3. FieldsOK'
    BY <1>1, <1>2 DEF FieldsOK, PCs
  <1>4. \A q \in Processes : q # p => LocalsSame(q)
    BY <1>1 DEF FieldsOK, LocalsSame
  <1>5. pc'[p] = FirstInterface /\ authPub'[p] = key
    BY <1>1 DEF FieldsOK
  <1>6. KeyIsRead(p)' /\ NonceIsOwn(p)'
    BY <1>1, <1>2, <1>5 DEF ProcessInv, KeyIsRead, NonceIsOwn
  <1>7. InterfacesInOrder(p)' /\ QuoteIsOwn(p)'
    BY <1>2, <1>5 DEF InterfacesInOrder, QuoteIsOwn
  <1>8. AnswerIsGood(p)'
    BY <1>1, <1>2, <1>5 DEF ProcessInv, AnswerIsGood
  <1>9. ProcessInv(p)'
    BY <1>6, <1>7, <1>8 DEF ProcessInv
  <1> QED
    BY <1>3, <1>4, <1>9, LocalStep

\* An interface of the machine has answered, in its turn.
LEMMA QuoteStep ==
  ASSUME AttInv, NEW p \in Processes, NEW kind, NEW label, NEW chain,
         HasQuote(p, kind, label, chain),
         pc[p] \in {"amd", "provider", "tdxHeld", "anyHeld", "device"},
         HardwareQuote(Quote(kind, UserData(p), label, chain), platform),
         IsExcused(Quote(kind, UserData(p), label, chain), platform, failed[p]),
         UNCHANGED <<platform, key, enrolling, bootDoc, nonce, evidence, authPub, answer, nvml, late>>,
         tsm' \in {tsm, Nobody}
  PROVE  AttInv'
  <1> USE DEF HasQuote, Goto
  <1>1. FieldsOK /\ ProcessInv(p) /\ platform \in Platforms
        /\ answer[p] = NoDoc /\ ~IsMade(answer[p], platform)
    BY NoAnswerYet
  <1>2. FieldsOK'
    BY <1>1 DEF FieldsOK, PCs
  <1>3. \A q \in Processes : q # p => LocalsSame(q)
    BY <1>1 DEF FieldsOK, LocalsSame
  <1>4. pc'[p] = "build" /\ quote'[p] = Quote(kind, UserData(p), label, chain)
    BY <1>1 DEF FieldsOK
  <1>5. quote'[p].data = UserData(p)
    BY <1>4 DEF Quote
  <1>6. QuoteIsOwn(p)'
    BY <1>4, <1>5 DEF QuoteIsOwn, UserData
  <1>7. KeyIsRead(p)' /\ NonceIsOwn(p)' /\ InterfacesInOrder(p)' /\ AnswerIsGood(p)'
    BY <1>1, <1>4 DEF ProcessInv, KeyIsRead, NonceIsOwn, InterfacesInOrder, AnswerIsGood
  <1>8. ProcessInv(p)'
    BY <1>6, <1>7 DEF ProcessInv
  <1> QED
    BY <1>2, <1>3, <1>8, LocalStep

\* An interface has failed, or was not the one asked for, and the next has its turn.
LEMMA NextInterfaceStep ==
  ASSUME AttInv, NEW p \in Processes, NEW next, Goto(p, next),
         NEW fails \in SUBSET {"amd", "tsm"}, failed' = [failed EXCEPT ![p] = fails],
         pc[p] \in {"amd", "provider", "tdxHeld", "anyHeld"},
         next \in {"provider", "tdx", "any", "device"},
         next \in {"tdx", "any"} => platform.tsm # "none" /\ (platform.sev => "amd" \in fails),
         next = "device" => platform.tsm = "none" \/ "tsm" \in fails,
         UNCHANGED <<platform, key, enrolling, bootDoc, nonce, evidence, authPub, quote, answer, nvml, late>>,
         tsm' \in {tsm, Nobody}
  PROVE  AttInv'
  <1> USE DEF Goto
  <1>1. FieldsOK /\ ProcessInv(p) /\ platform \in Platforms
        /\ answer[p] = NoDoc /\ ~IsMade(answer[p], platform)
    BY NoAnswerYet
  <1>2. FieldsOK'
    BY <1>1 DEF FieldsOK, PCs
  <1>3. \A q \in Processes : q # p => LocalsSame(q)
    BY <1>1 DEF FieldsOK, LocalsSame
  <1>4. pc'[p] = next /\ failed'[p] = fails
    BY <1>1 DEF FieldsOK
  <1>5. KeyIsRead(p)' /\ NonceIsOwn(p)'
    BY <1>1, <1>4 DEF ProcessInv, KeyIsRead, NonceIsOwn
  <1>6. InterfacesInOrder(p)' /\ QuoteIsOwn(p)'
    BY <1>4 DEF InterfacesInOrder, QuoteIsOwn
  <1>7. AnswerIsGood(p)'
    BY <1>1, <1>4 DEF ProcessInv, AnswerIsGood
  <1>8. ProcessInv(p)'
    BY <1>5, <1>6, <1>7 DEF ProcessInv
  <1> QED
    BY <1>2, <1>3, <1>8, LocalStep

LEMMA FetchAMDReportStep ==
  ASSUME AttInv, NEW p \in Processes, FetchAMDReport(p)
  PROVE  AttInv'
  <1>1. /\ pc[p] \in {"amd", "provider"}
        /\ UNCHANGED <<platform, key, enrolling, bootDoc, nonce, evidence, authPub, answer, nvml, late>>
        /\ tsm' = tsm
    BY DEF FetchAMDReport, enrollVars
  <1>2. ASSUME NEW c \in ChainsOf(platform), HasQuote(p, "snp", "amd-sev-snp", c)
        PROVE  AttInv'
    <2> DEFINE q == Quote("snp", UserData(p), "amd-sev-snp", c)
    <2>1. q.kind = "snp" /\ q.label = "amd-sev-snp" /\ q.chain = c
      BY DEF Quote
    <2>2. HardwareQuote(q, platform) /\ IsExcused(q, platform, failed[p])
      BY <2>1 DEF HardwareQuote, IsExcused
    <2> QED
      BY <1>1, <1>2, <2>2, QuoteStep
  <1>3. ASSUME NEW next \in {"provider", TsmOrDevice}, NoQuoteFrom(p, "amd", next)
        PROVE  AttInv'
    <2>1. failed[p] \in SUBSET {"amd", "tsm"} /\ DOMAIN failed = Processes
      BY DEF AttInv, FieldsOK
    <2>2. /\ failed' = [failed EXCEPT ![p] = failed[p] \union {"amd"}]
          /\ Goto(p, next) /\ quote' = quote
      BY <1>3 DEF NoQuoteFrom
    <2>3. /\ next \in {"provider", "tdx", "any", "device"}
          /\ next = "device" => platform.tsm = "none"
          /\ next \in {"tdx", "any"} => platform.tsm # "none"
      BY <1>3 DEF TsmOrDevice
    <2> QED
      BY <1>1, <2>1, <2>2, <2>3, NextInterfaceStep
  <1>4. HostChain \in ChainsOf(platform) /\ DefaultChain(platform.cloud, platform.cpu) \in ChainsOf(platform)
    BY DEF ChainsOf, HostChain
  <1> QED
    BY <1>2, <1>3, <1>4 DEF FetchAMDReport

LEMMA LockTsmStep ==
  ASSUME AttInv, NEW p \in Processes, NEW at \in {"tdx", "any"}, LockTsm(p, at)
  PROVE  AttInv'
  <1> USE DEF LockTsm, Goto, enrollVars
  <1>1. FieldsOK /\ ProcessInv(p)
    BY DEF AttInv
  <1>2. Held(at) \in {"tdxHeld", "anyHeld"}
    BY DEF Held
  <1>3. FieldsOK'
    BY <1>1, <1>2 DEF FieldsOK, PCs
  <1>4. \A q \in Processes : q # p => LocalsSame(q)
    BY <1>1 DEF FieldsOK, LocalsSame
  <1>5. pc'[p] = Held(at) /\ pc[p] = at
    BY <1>1 DEF FieldsOK
  <1>6. ProcessInv(p)'
    BY <1>1, <1>2, <1>5
       DEF ProcessInv, KeyIsRead, NonceIsOwn, InterfacesInOrder, QuoteIsOwn, AnswerIsGood
  <1> QED
    BY <1>3, <1>4, <1>6, LocalStep

\* TSM comes after sev-guest: an SNP report out of TSM has cost the interface of AMD.
LEMMA ReadTsmStep ==
  ASSUME AttInv, NEW p \in Processes, NEW at \in {"tdx", "any"}, ReadTsm(p, at)
  PROVE  AttInv'
  <1>1. /\ pc[p] \in {"tdxHeld", "anyHeld"}
        /\ UNCHANGED <<platform, key, enrolling, bootDoc, nonce, evidence, authPub, answer, nvml, late>>
        /\ tsm' = Nobody
    BY DEF ReadTsm, enrollVars, Held
  <1>2. /\ platform.tsm \in {"tdx", "sev"}
        /\ platform.sev => "amd" \in failed[p]
        /\ platform.tsm = "sev" => platform.sev
        /\ failed \in [Processes -> SUBSET {"amd", "tsm"}]
    <2>1. platform.tsm # "none" /\ (platform.sev => "amd" \in failed[p])
      BY <1>1 DEF AttInv, ProcessInv, InterfacesInOrder
    <2> QED
      BY <2>1, MachineFacts DEF AttInv, FieldsOK
  <1>3. CASE HasQuote(p, TsmKind, "intel-tdx", <<>>)
    <2> DEFINE q == Quote(TsmKind, UserData(p), "intel-tdx", <<>>)
    <2>1. q.kind = TsmKind /\ q.label = "intel-tdx" /\ q.chain = <<>>
      BY DEF Quote
    <2>2. TsmKind \in {"td", "snp"} /\ (TsmKind = "snp" => "amd" \in failed[p])
      BY <1>2 DEF TsmKind
    <2>3. HardwareQuote(q, platform) /\ IsExcused(q, platform, failed[p])
      BY <2>1, <2>2 DEF HardwareQuote, IsExcused
    <2> QED
      BY <1>1, <1>3, <2>3, QuoteStep
  <1>4. CASE at = "tdx" /\ Goto(p, AfterTsm(at)) /\ UNCHANGED <<quote, failed>>
    <2>1. AfterTsm(at) = "any" /\ failed' = [failed EXCEPT ![p] = failed[p]]
      BY <1>2, <1>4 DEF AfterTsm
    <2>2. failed[p] \in SUBSET {"amd", "tsm"}
      BY <1>2
    <2>3. /\ Goto(p, "any") /\ quote' = quote /\ pc[p] \in {"amd", "provider", "tdxHeld", "anyHeld"}
          /\ platform.tsm # "none" /\ tsm' \in {tsm, Nobody}
      BY <1>1, <1>2, <1>4, <2>1
    <2>4. "any" \in {"provider", "tdx", "any", "device"} /\ "any" # "device"
      OBVIOUS
    <2> QED
      BY <1>1, <1>2, <2>1, <2>2, <2>3, <2>4, NextInterfaceStep
  <1>5. CASE NoQuoteFrom(p, "tsm", AfterTsm(at))
    <2>1. /\ failed' = [failed EXCEPT ![p] = failed[p] \union {"tsm"}]
          /\ Goto(p, AfterTsm(at)) /\ quote' = quote
      BY <1>2, <1>5 DEF NoQuoteFrom
    <2>2. AfterTsm(at) \in {"any", "device"} /\ failed[p] \union {"tsm"} \in SUBSET {"amd", "tsm"}
      BY <1>2 DEF AfterTsm
    <2> QED
      BY <1>1, <1>2, <2>1, <2>2, NextInterfaceStep
  <1> QED
    BY <1>3, <1>4, <1>5 DEF ReadTsm

LEMMA QueryTDXDeviceStep ==
  ASSUME AttInv, NEW p \in Processes, QueryTDXDevice(p)
  PROVE  AttInv'
  <1>1. /\ pc[p] = "device"
        /\ UNCHANGED <<platform, key, enrolling, bootDoc, nonce, evidence, authPub, answer, nvml, late>>
        /\ tsm' = tsm
        /\ HasQuote(p, "tdreport", "intel-tdx", <<>>)
    BY DEF QueryTDXDevice, enrollVars
  <1> DEFINE q == Quote("tdreport", UserData(p), "intel-tdx", <<>>)
  <1>2. platform.tsm = "none" \/ "tsm" \in failed[p]
    BY <1>1 DEF AttInv, ProcessInv, InterfacesInOrder
  <1>3. q.kind = "tdreport" /\ q.label = "intel-tdx" /\ q.chain = <<>>
    BY DEF Quote
  <1>4. HardwareQuote(q, platform) /\ IsExcused(q, platform, failed[p])
    BY <1>2, <1>3 DEF HardwareQuote, IsExcused
  <1> QED
    BY <1>1, <1>4, QuoteStep

LEMMA NoReportStep ==
  ASSUME AttInv, NEW p \in Processes, NoReport(p)
  PROVE  AttInv'
  <1>1. pc[p] = "device" /\ UNCHANGED <<platform, key, enrolling, bootDoc, nvml, tsm>>
    BY DEF NoReport, enrollVars
  <1>2. CASE p = Boot /\ Return(p)
    BY <1>1, <1>2, ReturnFacts, LocalStep
  <1>3. CASE p # Boot /\ Reply(p, [status |-> "503"])
             /\ UNCHANGED <<nonce, evidence, authPub, quote, failed, late>>
    <2> USE DEF Reply, Goto
    <2>1. FieldsOK /\ ProcessInv(p) /\ platform \in Platforms
      BY DEF AttInv, FieldsOK
    <2>2. FieldsOK'
      BY <1>1, <1>3, <2>1 DEF FieldsOK, PCs
    <2>3. \A q \in Processes : q # p => LocalsSame(q)
      BY <1>3, <2>1 DEF FieldsOK, LocalsSame
    <2>4. pc'[p] = "serve" /\ answer'[p] = [status |-> "503"]
      BY <1>3, <2>1 DEF FieldsOK
    <2>5. ~IsMade(answer'[p], platform)
      BY <2>1, <2>4, ReplyFacts
    <2>6. KeyIsRead(p)' /\ NonceIsOwn(p)' /\ InterfacesInOrder(p)' /\ QuoteIsOwn(p)'
      BY <1>1, <1>3, <2>1, <2>4 DEF ProcessInv, KeyIsRead, NonceIsOwn, InterfacesInOrder, QuoteIsOwn
    <2>7. AnswerIsGood(p)'
      BY <1>1, <1>3, <2>4, <2>5 DEF AnswerIsGood
    <2>8. ProcessInv(p)'
      BY <2>6, <2>7 DEF ProcessInv
    <2> QED
      BY <1>1, <1>3, <2>2, <2>3, <2>8, LocalStep
  <1> QED
    BY <1>2, <1>3 DEF NoReport

\* The key in the quote is the one the document is built with.
LEMMA BuildStep ==
  ASSUME AttInv, NEW p \in Processes, Build(p)
  PROVE  AttInv'
  <1>1. pc[p] = "build" /\ UNCHANGED <<platform, key, enrolling, nvml, tsm>>
    BY DEF Build
  <1>2. FieldsOK /\ ProcessInv(p) /\ platform \in Platforms
    BY DEF AttInv, FieldsOK
  <1>3. /\ IsMade(Document(p), platform)
        /\ Document(p).key = authPub[p] /\ Document(p).nonce = nonce[p]
        /\ Document(p).quote = quote[p] /\ Document(p) # NoDoc
        /\ Document(p).quote.data.key = authPub[p]
    <2>1. /\ nonce[p] \in AllNonces /\ evidence[p] \in Evidences /\ authPub[p] \in OptKey
      BY <1>2 DEF FieldsOK
    <2>2. Document(p) = DocumentOf(nonce[p], evidence[p], authPub[p], authPub[p], quote[p])
      BY DEF Document, DocumentKey, BuildAttestationDocument, DocumentOf
    <2>3. HardwareQuote(quote[p], platform) /\ quote[p].data = UserData(p)
      BY <1>1, <1>2 DEF ProcessInv, QuoteIsOwn
    <2>4. IsMade(Document(p), platform)
      BY <2>1, <2>2, <2>3, DocumentIsMade DEF UserData
    <2>5. Document(p) # NoDoc
      BY <1>2, <2>4, ReplyFacts
    <2>6. quote[p].data.key = authPub[p]
      BY <2>3 DEF UserData, ComputeCompositeUserData
    <2> QED
      BY <2>2, <2>4, <2>5, <2>6 DEF DocumentOf
  <1>4. CASE p = Boot /\ bootDoc' = Document(p) /\ Return(p)
    <2>1. /\ FieldsOK' /\ ProcessInv(p)' /\ pc'[p] = "idle"
          /\ \A q \in Processes : q # p => LocalsSame(q)
      BY <1>1, <1>4, ReturnFacts
    <2>2. \A q \in Processes : ProcessInv(q)'
      BY <1>1, <2>1, Frame DEF AttInv
    <2>3. nonce[p] = BootNonce /\ authPub[p] = key /\ enrolling = "none"
      BY <1>1, <1>2, <1>4 DEF AttInv, ProcessInv, NonceIsOwn, KeyIsRead, BootDocIsGood
    <2> HIDE DEF Document
    <2>4. BootDocIsGood'
      BY <1>1, <1>3, <1>4, <2>1, <2>3 DEF BootDocIsGood
    <2> QED
      BY <2>1, <2>2, <2>4 DEF AttInv
  <1>5. CASE /\ p # Boot /\ Reply(p, Document(p))
             /\ UNCHANGED <<bootDoc, nonce, evidence, authPub, quote, failed, late>>
    <2> USE DEF Reply, Goto
    <2>1. FieldsOK'
      BY <1>1, <1>2, <1>5 DEF FieldsOK, PCs
    <2>2. \A q \in Processes : q # p => LocalsSame(q)
      BY <1>2, <1>5 DEF FieldsOK, LocalsSame
    <2>3. pc'[p] = "serve" /\ answer'[p] = Document(p)
      BY <1>2, <1>5 DEF FieldsOK
    <2>4. KeyIsRead(p)' /\ NonceIsOwn(p)' /\ InterfacesInOrder(p)' /\ QuoteIsOwn(p)'
      BY <1>1, <1>2, <1>5, <2>3 DEF ProcessInv, KeyIsRead, NonceIsOwn, InterfacesInOrder, QuoteIsOwn
    <2>5. /\ authPub[p] \in {NoKey, key} /\ (late[p] \/ enrolling = "none" => authPub[p] = key)
          /\ IsExcused(quote[p], platform, failed[p])
      BY <1>1, <1>2 DEF ProcessInv, KeyIsRead, QuoteIsOwn
    <2>6. AnswerIsGood(p)'
      BY <1>1, <1>3, <1>5, <2>3, <2>5 DEF AnswerIsGood
    <2>7. ProcessInv(p)'
      BY <2>4, <2>6 DEF ProcessInv
    <2> QED
      BY <1>1, <1>5, <2>1, <2>2, <2>7, LocalStep
  <1> QED
    BY <1>4, <1>5 DEF Build

(***************************************************************************)
(* The enrollment                                                          *)
(***************************************************************************)

\* Until the enrollment is answered no request is late, and a process that has read no key
\* need not have read one.
LEMMA NobodyIsLate ==
  ASSUME AttInv, enrolling # "answered", UNCHANGED <<platform, requestVars>>,
         key # NoKey => key' = key,
         enrolling' # "none", enrolling' = "stored" => enrolling = "none"
  PROVE  \A p \in Processes : ProcessInv(p)'
  <1> USE DEF requestVars
  <1>1. SUFFICES ASSUME NEW p \in Processes
                 PROVE  ProcessInv(p)'
    OBVIOUS
  <1>2. ProcessInv(p) /\ late[p] \in BOOLEAN
    BY <1>1 DEF AttInv, FieldsOK
  <1>3. ~late[p]
    BY <1>2 DEF ProcessInv, KeyIsRead
  <1>4. KeyIsRead(p)'
    BY <1>2, <1>3 DEF ProcessInv, KeyIsRead
  <1>5. NonceIsOwn(p)' /\ InterfacesInOrder(p)'
    BY <1>2 DEF ProcessInv, NonceIsOwn, InterfacesInOrder
  <1>6. QuoteIsOwn(p)'
    BY <1>2 DEF ProcessInv, QuoteIsOwn, UserData
  <1>7. AnswerIsGood(p)'
    BY <1>2, <1>3 DEF ProcessInv, AnswerIsGood
  <1> QED
    BY <1>4, <1>5, <1>6, <1>7 DEF ProcessInv

LEMMA EnrollKeyStep ==
  ASSUME AttInv, NEW k \in Keys, EnrollKey(k)
  PROVE  AttInv'
  <1> USE DEF EnrollKey
  <1>1. enrolling = "none" /\ k # NoKey
    BY NoKeyAssumption DEF AttInv, BootDocIsGood
  <1>2. \A p \in Processes : ProcessInv(p)'
    BY <1>1, NobodyIsLate
  <1>3. FieldsOK'
    BY DEF AttInv, FieldsOK, requestVars, OptKey
  <1>4. BootDocIsGood'
    BY <1>1 DEF AttInv, BootDocIsGood, requestVars, BootIsOver
  <1> QED
    BY <1>2, <1>3, <1>4 DEF AttInv

LEMMA WriteBeginsStep ==
  ASSUME AttInv, WriteBegins
  PROVE  AttInv'
  <1> USE DEF WriteBegins
  <1>1. \A p \in Processes : ProcessInv(p)'
    BY NobodyIsLate
  <1>2. FieldsOK' /\ BootDocIsGood'
    BY DEF AttInv, FieldsOK, BootDocIsGood, requestVars
  <1> QED
    BY <1>1, <1>2 DEF AttInv

LEMMA WriteEndsStep ==
  ASSUME AttInv, WriteEnds
  PROVE  AttInv'
  <1> USE DEF WriteEnds
  <1>1. \A p \in Processes : ProcessInv(p)'
    BY NobodyIsLate
  <1>2. FieldsOK'
    BY DEF AttInv, FieldsOK, requestVars
  <1>3. /\ bootDoc # NoDoc /\ IsMade(bootDoc, platform) /\ bootDoc.nonce = BootNonce
        /\ key \in OptKey /\ key # NoKey /\ pc[Boot] = "idle"
    BY DEF AttInv, FieldsOK, BootDocIsGood
  <1>4. /\ IsMade(bootDoc', platform) /\ bootDoc'.nonce = BootNonce /\ bootDoc'.key = key
        /\ bootDoc'.quote = bootDoc.quote /\ bootDoc.quote.data.key \in {NoKey, key}
    BY <1>3, KeyIsReplaced DEF AttInv, BootDocIsGood
  <1>5. BootDocIsGood'
    BY <1>3, <1>4 DEF BootDocIsGood, requestVars
  <1> QED
    BY <1>1, <1>2, <1>5 DEF AttInv

(***************************************************************************)
(* Theorems                                                                *)
(***************************************************************************)

LEMMA StutterStep ==
  ASSUME AttInv, UNCHANGED vars
  PROVE  AttInv'
  <1>1. UNCHANGED <<platform, key, enrolling, bootDoc, nvml, tsm, pc, nonce, evidence, authPub,
                    quote, answer, failed, late>>
    BY DEF vars, enrollVars, requestVars
  <1>2. \A p \in Processes : ProcessInv(p)'
    BY <1>1, Frame DEF AttInv, LocalsSame
  <1>3. FieldsOK' /\ BootDocIsGood'
    BY <1>1 DEF AttInv, FieldsOK, BootDocIsGood
  <1> QED
    BY <1>2, <1>3 DEF AttInv

\* AttInv is inductive: no step of a request, of the boot or of the enrollment, whatever steps
\* of the others come in between, leaves it.
THEOREM Inductive == Spec => []AttInv
  <1>1. Init => AttInv
    BY InitInv
  <1>2. AttInv /\ [Next]_vars => AttInv'
    <2>1. SUFFICES ASSUME AttInv, [Next]_vars
                   PROVE  AttInv'
      OBVIOUS
    <2>2. ASSUME NEW h \in Handlers, AskBootDoc(h) \/ \E n \in Nonces : Ask(h, n)
          PROVE  AttInv'
      BY <2>1, <2>2, AskStep, AskBootDocStep
    <2>3. ASSUME NEW p \in Processes, CollectStep(p)
          PROVE  AttInv'
      BY <2>1, <2>3, QueryHardwareStep, ReadKeyStep, FetchAMDReportStep, ReadTsmStep,
         QueryTDXDeviceStep, NoReportStep, BuildStep, ServedStep DEF CollectStep
    <2>4. ASSUME NEW p \in Processes, LockStep(p)
          PROVE  AttInv'
      BY <2>1, <2>4, LockNvmlStep, LockTsmStep DEF LockStep
    <2>5. CASE (\E k \in Keys : EnrollKey(k)) \/ WriteBegins \/ WriteEnds
      BY <2>1, <2>5, EnrollKeyStep, WriteBeginsStep, WriteEndsStep
    <2>6. CASE UNCHANGED vars
      BY <2>1, <2>6, StutterStep
    <2> QED
      BY <2>1, <2>2, <2>3, <2>4, <2>5, <2>6 DEF Next
  <1> QED
    BY <1>1, <1>2, PTL DEF Spec

\* The handlers and the boot keep their variables in their types, and every answer is a
\* refusal or a document whose chain is made of AMD's certificates (proxy/server.go,
\* attestation/document.go).
THEOREM TypeCorrect == Spec => []TypeOK
  BY Inductive, InvImplies, PTL

\* Every document made for a nonce verifies, although keys are enrolled while it is collected;
\* so does the document of the boot until an enrollment begins to write its key into it
\* (attestation/binding.go, server.go's handler and its enrollment).
THEOREM DocumentsAreBound == Spec => []DocumentIsBound
  BY Inductive, InvImplies, PTL

\* A tenant who asks with a nonce after the enrollment was answered gets a quote over its key;
\* a key provisioned at boot is in every quote; and no document and no quote is over another
\* key (GetPublicKeyBytes against EnrollKey and the unlocked write).
THEOREM EnrolledIsAttested == Spec => []EnrolledKeyIsAttested
  BY Inductive, InvImplies, PTL

\* On every machine the label fits the quote, better quotes are passed over only after an
\* interface failed, and a chain leads to the root whatever the host left out, if the signer
\* can be told (platform.go's order of interfaces, certs.go's completion of the chain).
THEOREM QuotesFit == Spec => []QuoteFitsPlatform
  BY Inductive, InvImplies, PTL

=============================================================================
