---------------------------- MODULE Attestation ----------------------------
(***************************************************************************)
(* Attestation documents (pkg/attestation, the handler in proxy/server.go, *)
(* step 8 of cmd/cevell-node/main.go).  A document is collected in steps:  *)
(* evidence of the GPU, the tenant's key, a quote over a digest of both    *)
(* and of the client's nonce, and the document around it.  The boot makes  *)
(* one for itself; handlers make one for each nonce while the tenant may   *)
(* just be enrolling, and share the NVML and the TSM interface.            *)
(*                                                                         *)
(* The TLS fingerprint and the HPKE key are in every document and quote,   *)
(* and the same all through a boot: they are left out.  The interfaces of  *)
(* the hardware (NVML, sev-guest, TSM, tdx_guest) are external: a call     *)
(* answers, or fails for no reason.                                        *)
(***************************************************************************)
EXTENDS AmdCertificates, FiniteSets

CONSTANTS
  Handlers,    \* requests that have passed the guard and got a slot (ControlPlane)
  Boot,
  Nobody,      \* a mutex is free
  Nonces,      \* nonces clients send
  BootNonce,
  Keys, NoKey,
  Platforms    \* the machines

ASSUME ProcessAssumption == Boot \notin Handlers /\ Nobody \notin Handlers \union {Boot}
ASSUME NonceAssumption   == BootNonce \notin Nonces
ASSUME NoKeyAssumption   == NoKey \notin Keys

Processes == Handlers \union {Boot}

\* A machine: GPUs; /dev/sev-guest; the provider behind TSM; /dev/tdx_guest; and for AMD
\* what signs reports and the host's part of the certificates.  The driver of sev-guest
\* is also the provider of TSM.
Machines == [gpu : BOOLEAN, sev : BOOLEAN, tsm : {"none", "tdx", "sev"}, tdx : BOOLEAN,
             signer : Signers, gen : Generations, cpu : CpuInfos, cloud : BOOLEAN,
             table : Tables]
ASSUME PlatformAssumption ==
  \A m \in Platforms : /\ m \in Machines
                       /\ m.tsm = "sev" => m.sev
                       /\ m.table.leaves # {} => m.signer \in m.table.leaves

VARIABLES
  platform,   \* the machine
  key,        \* the verifier's key
  enrolling,  \* the enrollment: "none", "stored", "writing", "answered"
  pc,
  nonce,      \* the locals of a collection: the nonce,
  evidence,   \*   GPUEvidence,
  authPub,    \*   the key as read,
  quote,      \*   the raw report with its label and its chain
  answer,     \* the answer, while it is being sent
  bootDoc,    \* cfg.AttestationDoc
  nvml, tsm,  \* nvmlQueryMu and tsmReportMu: who holds them
  failed,     \* history: the hardware interfaces that failed in this collection
  late        \* history: the request came after the enrollment was answered

requestVars == <<pc, nonce, evidence, authPub, quote, answer, failed, late>>
enrollVars  == <<key, enrolling, bootDoc>>
vars == <<platform, enrollVars, requestVars, nvml, tsm>>

-----------------------------------------------------------------------------
AllNonces == Nonces \union {BootNonce, "absent"}
OptKey    == Keys \union {NoKey}

\* GPUEvidence: devices found; the SPDM report, over the nonce it was asked for; the
\* certificates of the GPU.
NoEvidence == [devices |-> FALSE, report |-> "absent", certs |-> FALSE]
Evidences  == [devices : BOOLEAN, report : AllNonces, certs : BOOLEAN]

\* ComputeCompositeUserData: without a report the digest of the evidence is zero.
GpuDigest(ev) == IF ev.report # "absent" THEN <<ev.report, ev.certs>> ELSE <<>>
ComputeCompositeUserData(n, ev, k) == [nonce |-> n, gpu |-> GpuDigest(ev), key |-> k]
VerifyCompositeUserData(data, n, ev, k) == data = ComputeCompositeUserData(n, ev, k)

NoQuote == [kind |-> "none", data |-> <<>>, label |-> "none", chain |-> <<>>]
Quote(kind, data, label, chain) ==
  [kind |-> kind, data |-> data, label |-> label, chain |-> chain]

\* A document has a subject for each thing it carries; the one of the key is of interest.
NoDoc == [status |-> "none"]
BuildAttestationDocument(n, ev, k, q) ==
  [status |-> "ok", nonce |-> n, evidence |-> ev, key |-> k, quote |-> q,
   userData |-> ComputeCompositeUserData(n, ev, k), keySubject |-> (k # NoKey)]

ReplyCodes == {"none", "503", "aborted"}
IsDocument(d) ==
  /\ d.status = "ok"
  /\ d.nonce \in AllNonces /\ d.evidence \in Evidences /\ d.key \in OptKey
  /\ d.quote.kind \in {"snp", "td", "tdreport"}
  /\ d.quote.label \in {"amd-sev-snp", "intel-tdx"}
  /\ \A i \in DOMAIN d.quote.chain : d.quote.chain[i] \in Certificates
IsReply(d) == (DOMAIN d = {"status"} /\ d.status \in ReplyCodes) \/ IsDocument(d)

PCs == {"idle", "gpu", "nvml", "key", "amd", "provider", "tdx", "tdxHeld", "any", "anyHeld",
        "device", "build", "serve"}

TypeOK ==
  /\ platform \in Platforms
  /\ key \in OptKey
  /\ enrolling \in {"none", "stored", "writing", "answered"}
  /\ pc \in [Processes -> PCs]
  /\ nonce \in [Processes -> AllNonces]
  /\ evidence \in [Processes -> Evidences]
  /\ authPub \in [Processes -> OptKey]
  /\ \A p \in Processes : IsReply(answer[p])
  /\ IsReply(bootDoc)
  /\ {nvml, tsm} \subseteq Processes \union {Nobody}
  /\ failed \in [Processes -> SUBSET {"amd", "tsm"}]
  /\ late \in [Processes -> BOOLEAN]

\* CollectGPUEvidence queries the NVML if it found devices.
FirstStep == IF platform.gpu THEN "gpu" ELSE "key"

Init ==
  /\ platform \in Platforms
  /\ key \in OptKey
  /\ enrolling = "none"
  /\ pc = [p \in Processes |-> IF p = Boot THEN FirstStep ELSE "idle"]
  /\ nonce = [p \in Processes |-> IF p = Boot THEN BootNonce ELSE "absent"]
  /\ evidence = [p \in Processes |-> NoEvidence]
  /\ authPub = [p \in Processes |-> NoKey]
  /\ quote = [p \in Processes |-> NoQuote]
  /\ answer = [p \in Processes |-> NoDoc]
  /\ bootDoc = NoDoc
  /\ nvml = Nobody
  /\ tsm = Nobody
  /\ failed = [p \in Processes |-> {}]
  /\ late = [p \in Processes |-> FALSE]

BootIsOver == pc[Boot] = "idle"

-----------------------------------------------------------------------------
(* A request                                                               *)

Goto(p, l) == pc' = [pc EXCEPT ![p] = l]

Reply(p, d) ==
  /\ answer' = [answer EXCEPT ![p] = d]
  /\ Goto(p, "serve")

\* With a nonce: the evidence comes first.
Ask(h, n) ==
  /\ BootIsOver
  /\ pc[h] = "idle"
  /\ late' = [late EXCEPT ![h] = (enrolling = "answered")]
  /\ nonce' = [nonce EXCEPT ![h] = n]
  /\ Goto(h, FirstStep)
  /\ UNCHANGED <<platform, enrollVars, evidence, authPub, quote, answer, nvml, tsm, failed>>

\* Without a nonce: the document of the boot.  The enrollment writes its key with no lock:
\* a reader in between sees the old or the new string, or half of it and panics.
AskBootDoc(h) ==
  /\ BootIsOver
  /\ pc[h] = "idle"
  /\ late' = [late EXCEPT ![h] = (enrolling = "answered")]
  /\ IF bootDoc = NoDoc THEN Reply(h, [status |-> "503"])
     ELSE \/ Reply(h, bootDoc)
          \/ enrolling = "writing" /\ Reply(h, [bootDoc EXCEPT !.key = key])
          \/ enrolling = "writing" /\ Reply(h, [status |-> "aborted"])
  /\ UNCHANGED <<platform, enrollVars, nonce, evidence, authPub, quote, nvml, tsm, failed>>

\* The locals of a collection are gone.
Return(p) ==
  /\ Goto(p, "idle")
  /\ nonce' = [nonce EXCEPT ![p] = "absent"]
  /\ evidence' = [evidence EXCEPT ![p] = NoEvidence]
  /\ authPub' = [authPub EXCEPT ![p] = NoKey]
  /\ quote' = [quote EXCEPT ![p] = NoQuote]
  /\ answer' = [answer EXCEPT ![p] = NoDoc]
  /\ failed' = [failed EXCEPT ![p] = {}]
  /\ late' = [late EXCEPT ![p] = FALSE]

\* The answer is sent.
Served(h) ==
  /\ h \in Handlers
  /\ pc[h] = "serve"
  /\ Return(h)
  /\ UNCHANGED <<platform, enrollVars, nvml, tsm>>

-----------------------------------------------------------------------------
(* CollectGPUEvidence                                                      *)

LockNvml(p) ==
  /\ pc[p] = "gpu"
  /\ nvml = Nobody
  /\ nvml' = p
  /\ Goto(p, "nvml")
  /\ UNCHANGED <<platform, enrollVars, nonce, evidence, authPub, quote, answer, tsm, failed, late>>

\* The script is killed after five seconds, or gets none, one or both of certificates
\* and report.
QueryHardware(p, report, certs) ==
  /\ pc[p] = "nvml"
  /\ evidence' = [evidence EXCEPT ![p] = [devices |-> TRUE, certs |-> certs,
                                          report |-> IF report THEN nonce[p] ELSE "absent"]]
  /\ nvml' = Nobody
  /\ Goto(p, "key")
  /\ UNCHANGED <<platform, enrollVars, nonce, authPub, quote, answer, tsm, failed, late>>

-----------------------------------------------------------------------------
(* FetchHardwareReport                                                     *)

\* Mutant: the handler takes the key of the document made at boot.
KeyReadOfBoot == IF bootDoc = NoDoc THEN NoKey ELSE bootDoc.quote.data.key

\* GetPublicKeyBytes
KeyRead == key

\* fetchTSMReport fails at once if there is no directory of TSM.
TsmOrDevice == IF platform.tsm = "none" THEN "device" ELSE "tdx"

FirstInterface == IF platform.sev THEN "amd" ELSE TsmOrDevice

ReadKey(p) ==
  /\ pc[p] = "key"
  /\ authPub' = [authPub EXCEPT ![p] = KeyRead]
  /\ Goto(p, FirstInterface)
  /\ UNCHANGED <<platform, enrollVars, nonce, evidence, quote, answer, nvml, tsm, failed, late>>

UserData(p) == ComputeCompositeUserData(nonce[p], evidence[p], authPub[p])

HasQuote(p, kind, label, chain) ==
  /\ quote' = [quote EXCEPT ![p] = Quote(kind, UserData(p), label, chain)]
  /\ Goto(p, "build")
  /\ UNCHANGED failed

NoQuoteFrom(p, interface, next) ==
  /\ failed' = [failed EXCEPT ![p] = @ \union {interface}]
  /\ Goto(p, next)
  /\ UNCHANGED quote

\* The extended report comes with the host's certificates.
HostChain == FormatCertificateChain(platform.table, platform.signer, platform.gen,
                                    platform.cloud, platform.cpu)

\* FetchAMDReport: the device, then the quote provider of the library.
FetchAMDReport(p) ==
  /\ \/ /\ pc[p] = "amd"
        /\ \/ HasQuote(p, "snp", "amd-sev-snp", HostChain)
           \/ NoQuoteFrom(p, "amd", "provider")
     \/ /\ pc[p] = "provider"
        /\ \/ HasQuote(p, "snp", "amd-sev-snp", DefaultChain(platform.cloud, platform.cpu))
           \/ NoQuoteFrom(p, "amd", TsmOrDevice)
  /\ UNCHANGED <<platform, enrollVars, nonce, evidence, authPub, answer, nvml, tsm, late>>

\* Mutant: TSM is asked until it answers.
AfterTsmAgain(at) == IF at = "tdx" THEN "any" ELSE "tdx"

\* fetchTSMReport, asked for "tdx" and then for any provider.
AfterTsm(at) == IF at = "tdx" THEN "any" ELSE "device"
Held(at)     == IF at = "tdx" THEN "tdxHeld" ELSE "anyHeld"

LockTsm(p, at) ==
  /\ pc[p] = at
  /\ tsm = Nobody
  /\ tsm' = p
  /\ Goto(p, Held(at))
  /\ UNCHANGED <<platform, enrollVars, nonce, evidence, authPub, quote, answer, nvml, failed, late>>

TsmKind == IF platform.tsm = "tdx" THEN "td" ELSE "snp"

\* An entry of its own, inblob, provider, outblob.  Whatever a provider answers is labelled
\* TDX; the provider is compared only if it can be read.
ReadTsm(p, at) ==
  /\ pc[p] = Held(at)
  /\ \/ HasQuote(p, TsmKind, "intel-tdx", <<>>)
     \/ /\ at = "tdx" /\ platform.tsm = "sev"
        /\ Goto(p, AfterTsm(at)) /\ UNCHANGED <<quote, failed>>
     \/ NoQuoteFrom(p, "tsm", AfterTsm(at))
  /\ tsm' = Nobody
  /\ UNCHANGED <<platform, enrollVars, nonce, evidence, authPub, answer, nvml, late>>

\* queryTDXDevice: a TDREPORT, which only this machine can verify.
QueryTDXDevice(p) ==
  /\ pc[p] = "device"
  /\ platform.tdx
  /\ HasQuote(p, "tdreport", "intel-tdx", <<>>)
  /\ UNCHANGED <<platform, enrollVars, nonce, evidence, authPub, answer, nvml, tsm, late>>

\* Mutant: the error is logged and a document is made without a quote.
NoReportIgnored(p) ==
  /\ pc[p] = "device"
  /\ Goto(p, "build")
  /\ UNCHANGED <<platform, enrollVars, nonce, evidence, authPub, quote, answer, nvml, tsm, failed,
                 late>>

\* No interface is left: 503, or a boot without a document.
NoReport(p) ==
  /\ pc[p] = "device"
  /\ \/ p = Boot /\ Return(p)
     \/ /\ p # Boot /\ Reply(p, [status |-> "503"])
        /\ UNCHANGED <<nonce, evidence, authPub, quote, failed, late>>
  /\ UNCHANGED <<platform, enrollVars, nvml, tsm>>

-----------------------------------------------------------------------------
(* Documents and the enrollment                                            *)

\* Mutant: the document asks the verifier again.
DocumentKeyNow(p) == key

\* The binding has the key that went into the quote.
DocumentKey(p) == authPub[p]

Document(p) ==
  BuildAttestationDocument(nonce[p], evidence[p], DocumentKey(p), quote[p])

Build(p) ==
  /\ pc[p] = "build"
  /\ \/ p = Boot /\ bootDoc' = Document(p) /\ Return(p)
     \/ /\ p # Boot /\ Reply(p, Document(p))
        /\ UNCHANGED <<bootDoc, nonce, evidence, authPub, quote, failed, late>>
  /\ UNCHANGED <<platform, key, enrolling, nvml, tsm>>

\* EnrollKey (RequestVerifier has the proof of possession), then the document of the
\* boot is updated, if there is one, then 200.
EnrollKey(k) ==
  /\ BootIsOver
  /\ key = NoKey
  /\ key' = k
  /\ enrolling' = IF bootDoc = NoDoc THEN "answered" ELSE "stored"
  /\ UNCHANGED <<platform, bootDoc, requestVars, nvml, tsm>>

WriteBegins ==
  /\ enrolling = "stored"
  /\ enrolling' = "writing"
  /\ UNCHANGED <<platform, key, bootDoc, requestVars, nvml, tsm>>

WriteEnds ==
  /\ enrolling = "writing"
  /\ bootDoc' = [bootDoc EXCEPT !.key = key]
  /\ enrolling' = "answered"
  /\ UNCHANGED <<platform, key, requestVars, nvml, tsm>>

-----------------------------------------------------------------------------
CollectStep(p) ==
  \/ (\E report, certs \in BOOLEAN : QueryHardware(p, report, certs))
  \/ ReadKey(p) \/ FetchAMDReport(p)
  \/ (\E at \in {"tdx", "any"} : ReadTsm(p, at))
  \/ QueryTDXDevice(p) \/ NoReport(p) \/ Build(p) \/ Served(p)

LockStep(p) == LockNvml(p) \/ \E at \in {"tdx", "any"} : LockTsm(p, at)

Next ==
  \/ \E h \in Handlers : AskBootDoc(h) \/ \E n \in Nonces : Ask(h, n)
  \/ \E p \in Processes : CollectStep(p) \/ LockStep(p)
  \/ (\E k \in Keys : EnrollKey(k)) \/ WriteBegins \/ WriteEnds

Spec == Init /\ [][Next]_vars

\* Goroutines run, the NVML script is killed after five seconds, the hardware answers or
\* fails; a Go mutex does not starve a goroutine that waits for it.
Fairness ==
  /\ \A p \in Processes : SF_vars(CollectStep(p) \/ LockStep(p))
  /\ WF_vars(WriteBegins) /\ WF_vars(WriteEnds)

FairSpec == Spec /\ Fairness

-----------------------------------------------------------------------------
(* Properties                                                              *)

\* What a verifier recomputes from the fields of a document and compares with the quote.
Verifies(d) ==
  /\ VerifyCompositeUserData(d.quote.data, d.nonce, d.evidence, d.key)
  /\ d.userData = d.quote.data
  /\ d.keySubject <=> d.key # NoKey

Documents == {answer[h] : h \in {x \in Handlers : answer[x].status = "ok"}}

\* Every document made for a nonce verifies: nonce, evidence and key are those of the
\* quote, although the key may be enrolled between any two steps.  So does the document
\* of the boot, stored or served, until an enrollment begins to write its key into it;
\* of what is served after that nothing is said here (see BootDocumentIsBound).
DocumentIsBound ==
  /\ \A d \in Documents :
       d.nonce # BootNonce \/ enrolling \in {"none", "stored"} => Verifies(d)
  /\ bootDoc # NoDoc /\ enrolling # "answered" => Verifies(bootDoc)

\* What the documentation promises of any document: "REPORT_DATA[32:64] == SHA-256(hpkePub
\* || nonce || gpuDigest || authPub)".  The handler of the enrollment writes the new key
\* into the document of the boot, whose quote was made without it, and this document is
\* what every later request without a nonce gets.
BootDocumentIsBound == bootDoc # NoDoc => Verifies(bootDoc)

\* A tenant who has enrolled and then asks with a nonce gets a quote over this key; with
\* a key provisioned at boot every quote is over it, also the one of the boot.  And no
\* document, and no quote in one, is ever over a key that is not the node's.
EnrolledKeyIsAttested ==
  \A h \in Handlers :
    LET d == answer[h]
    IN  d.status = "ok" =>
          /\ {d.key, d.quote.data.key} \subseteq {NoKey, key}
          /\ (late[h] /\ d.nonce # BootNonce) \/ enrolling = "none" => d.quote.data.key = key

\* An SNP report is labelled as one, and a quote that can be verified remotely is preferred
\* to a TDREPORT, unless an interface failed on the way.
LabelMatchesQuote ==
  \A h \in Handlers :
    LET q == answer[h].quote
    IN  answer[h].status = "ok" /\ answer[h].nonce # BootNonce =>
          /\ q.label = "amd-sev-snp" => q.kind = "snp"
          /\ q.kind = "snp" /\ q.label = "intel-tdx" => "amd" \in failed[h]
          /\ q.kind = "tdreport" => platform.tsm = "none" \/ "tsm" \in failed[h]

\* What signs the reports is known: the host gave both certificates; or, unless a VLEK
\* comes with reports that the VCEK signs, the names in the leaf tell, for Milan together
\* with the processor, because only the other generations are looked for; or the
\* processor and the vendor do.
GuessIsRight(d) ==
  \/ d.quote.chain = HostChain /\ platform.table.ask /\ platform.table.ark
  \/ /\ "vlek" \in platform.table.leaves => platform.signer = "vlek"
     /\ \/ /\ d.quote.chain = HostChain /\ platform.table.leaves # {} /\ platform.table.parses
           /\ platform.gen = "milan" => IsOfGeneration(platform.cpu, "milan")
        \/ /\ platform.cloud <=> platform.signer = "vlek"
           /\ IsOfGeneration(platform.cpu, platform.gen)

\* The chain of an AMD document leads from what signed the report to AMD's root,
\* whatever part of it the host left out and the node had to guess.
ChainLeadsToRoot ==
  \A d \in Documents :
    d.quote.label = "amd-sev-snp" /\ GuessIsRight(d) =>
      LeadsToRoot(d.quote.chain, platform.signer, platform.gen)

\* The platform part of a document, label, quote and chain, is what the machine has.
QuoteFitsPlatform == LabelMatchesQuote /\ ChainLeadsToRoot

\* Boot gets past its report and every request is answered: no path of a collection keeps
\* the NVML or the TSM mutex to itself.
RequestIsAnswered == \A p \in Processes : pc[p] # "idle" ~> pc[p] = "idle"
=============================================================================
