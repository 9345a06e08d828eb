# A TLA+ model of the Cevell node

Cevell OS is the runtime of a confidential virtual machine that serves AI inference: a small initrd
(`crates/cevell-initrd`) and a Go daemon (`cmd/cevell-node`, `pkg/`) inside an attested image. This
directory holds a model of their control logic in TLA+, the TLC configurations that check it on small instances, and proofs, checked
by TLAPS, of what matters most for every instance. `PROJECT.json` maps every definition to the lines
it models and lists the hazards the properties are aimed at.

Paths below are relative to the repository.

## 1. Inventory

| Component | Source | State | Operations | Hard because |
|---|---|---|---|---|
| Engine supervisor | `pkg/inference/supervisor.go` | the current command, readiness, reported model, fatal error, the cancel function of the prober, last activity | `LoadModel`, `runEngineProcess`, `killProcessGroup`, liveness prober, exit monitor, `RecordActivity` | four kinds of goroutines share the fields; processes die, ignore signals, outlive their replacement; three timeouts |
| Request verifier | `pkg/auth/ed25519.go`, `registration.go` | enrolled key, map and order of seen nonces, time of the last sweep | `VerifyWithBodyHash`, `VerifyHTTPRequestHeaderFirst`, `VerifyProofOfPossession`, `EnrollKey` | time is read outside the lock it is used in; a bounded cache; a latch that several handlers try to set |
| Enrollment handler | `pkg/proxy/enrollment.go` | the key in the attestation document | `POST /v1/auth/register` | check, body, verification and latch are separate |
| Visibility guard | `pkg/proxy/visibility.go` | the policy of four endpoints | `GuardNonCritical`, `UpdatePolicy` | three pieces of state are read one after the other |
| Seal, egress probe | `pkg/proxy/seal_handler.go`, `pkg/network/egress_lockdown.go` | the seal flag, the firewall | `POST /v1/system/seal`, `.../probe-egress` | two pieces of state that must change in one order; an external command that may fail or be reported as failed |
| Control endpoints | `pkg/proxy/server.go` | slots for attestation, the boot document | attestation, certificate, health, `models/load`, `admin/visibility` | everything above in one handler |
| Inference handler | `pkg/proxy/server.go` | none of its own | the root handler, the reverse proxy and its error handler | panics and cancellations between any two writes; clean-up is deferred |
| Encrypting writer | `pkg/proxy/hpke_middleware.go` | buffers, status, mode | `WriteHeader`, `Write`, `Flush`, `Finish` | a stream arrives in arbitrary pieces |
| HPKE session | `pkg/crypto/hpke.go`, `hpke_proto.go` | keys, cipher, sequence counter | unwrap, `EncryptFrame`, `EncryptProtoFrame`, `Zeroize` | nonce reuse; use after erasure; a 32-bit counter |
| Messages adapter | `pkg/proxy/messages_translator.go` | the translator's block, index and tag state | `ProcessOpenAIChunk`, the adapter's writer | a second state machine in front of the first, finished before it |
| Context sizing | `pkg/inference/context_sizing.go`, parts of `supervisor.go` and `pkg/hardware/topology.go` | the published maximal and active context | inspection of the model, memory estimate, `alignContextLength`, `AlignTensorParallelToKVHeads` | sources that fail or contradict each other; rounding, zero divisors, minima |
| Early boot | `crates/cevell-initrd/src/main.rs` | the chosen partitions, the mounts | early mounts, partition search, dm-verity, handoff | devices that appear late, partitions that appear one by one; no retry after an error |
| Node boot | `cmd/cevell-node/main.go`, `pkg/system/hardening.go`, `console.go`, `pkg/network/interface.go`, `firewall.go`, `pkg/config` | firewall, module lock, console, interfaces, the child PID 1 waits for | `runNodeSupervisor`, step by step | everything may fail, some errors halt and some are logged; the reaper takes exit statuses |
| GPU drivers | `pkg/system/modules.go` | modules, device nodes, held files | `PreloadDriverModules` with its one reload | a major number that changes with a reload |
| DHCP client | `pkg/network/interface.go` | fields of a lease in the making | `obtainDHCP` | lost, duplicated and mixed replies of several servers |
| Key discovery | `pkg/auth/metadata.go` | attempt, lookup, key | `DiscoverAuthorizedPublicKey` | single lookups fail; the fallback is enrollment by whoever comes first |
| Attestation | `pkg/attestation/binding.go`, `document.go`, `platform.go`, `amd.go`, `tdx.go`, `gpu.go` | the document of the boot, two mutexes | GPU evidence, quote, document | key, quote and document are read, taken and built in separate steps while a tenant enrolls; interfaces fail and fall back |
| Attestation certificates | `pkg/attestation/certs.go` | - | completion of AMD certificate chains | the host hands over any part of the chain |
| Keys and certificate | `pkg/crypto/keys.go`, `cert.go` | - | at boot | - |
| Wire format, build | `pkg/proto/v1`, `default.nix`, `scripts/` | - | - | generated code, build files |

How they interact. The initrd hands its mounts over and executes the node, which as PID 1 locks the
console, loads drivers, closes the firewall and module loading, brings up the network, looks for the
tenant's key, makes its own keys and a quote, and serves. Every HTTP request runs in a goroutine. A control request passes
`GuardNonCritical` or the verifier, then reads or changes the seal flag, the policy, the enrolled key
or the supervisor. A load calls `LoadModel`, which serialises on `loadMu` and starts an engine process
with its prober and monitor. An inference request is verified, decrypted, and handed to the reverse
proxy, whose answer goes through the Messages adapter (for `/v1/messages`) and the encrypting writer;
each write tells the supervisor that the engine is alive.

What makes each part correct: no engine process is lost and a ready node tells the truth about its
engine; a signed request is accepted once and one key owns the node; the seal flag means a closed
firewall, and closed endpoints stay closed while the state behind the decision moves; a response never
reuses a nonce, never uses erased keys, leaves no keys behind, and does not look complete when it is
not; an engine is started with a context that fits its model and, on one GPU, the memory counted as free; only the
measured image runs, nothing is reachable before it is hardened, and a halt has a reason; an attestation
document carries what its quote commits to.

## 2. Modules

| Module | Models | Runs |
|---|---|---|
| `EngineContract` | what the supervisor promises: `Begin`, `Reject`, `Commit`, `Succeed`, `Fail`, `Lose` over phase, model, exposure, readiness | refined by `EngineSupervisor`, used by `ControlPlane` |
| `EngineSupervisor` | `supervisor.go`, one step per critical section of `s.mu` or blocking point | `EngineSupervisor`, `EngineStuckReady` |
| `RequestVerifier` | `ed25519.go`, `registration.go`, the race of `enrollment.go` | `VerifierSafety` |
| `ControlPlane` | the control endpoints, the guard, the seal, loads, policy, enrollment | `ControlGuard`, `ControlLoads`, `SealFixes` |
| `MessagesTranslator` | `AnthropicStreamTranslator` as functions from state and chunk to state and events | through `InferencePath` |
| `InferencePath` | one encrypted exchange: handler, reverse proxy, adapter, encrypting writer, session | `InferenceStream`, `MessagesError` |
| `ContextSizing` | what a load chooses for its engine: context length and tensor parallelism | `ContextSizing` |
| `Initrd` | `run_initrd` and the kernel's probing of disks | through `NodeBoot` |
| `GpuDriver` | `PreloadDriverModules` | through `NodeBoot` |
| `DhcpClient` | `obtainDHCP` and the servers' replies | through `NodeBoot` |
| `KeyDiscovery` | `DiscoverAuthorizedPublicKey` | through `NodeBoot` |
| `NodeBoot` | `runNodeSupervisor`, its children and the reaper; composes the four above | `NodeBoot` |
| `AmdCertificates` | certificates by role, kind and generation; `FormatCertificateChain` and its guesses | through `Attestation` |
| `Attestation` | collection of documents by the boot and by handlers, and the enrollment | `Attestation`, `BootDocument` |
| `MC...` | constants for TLC | |
| `...Proofs` | inductive invariants and theorems | |

`ControlPlane` composes the parts: it takes the supervisor as its contract (`INSTANCE
EngineContract`), which `EngineSupervisor` is shown to implement, and the verifier at the promise that
`RequestVerifier` establishes, that a signed request passes once. `NodeBoot` composes the programs of one
boot over shared state (file systems, faults) and ends where `ControlPlane` begins. `Attestation` is the
inside of what `ControlPlane` takes as one step of the attestation endpoint.

### EngineSupervisor

Engines are numbered in the order they are started; 0 is a nil `*exec.Cmd`. `loadMu` makes the loader
one thread of control (`pc`); every engine that became ready has a prober and a monitor of its own.
An engine is a leader, which `cmd.Wait` is about, and the other processes of its group (`workers`), which
only a signal to the group reaches and which may outlive it. `killProcessGroup` is three steps (SIGTERM,
SIGKILL, return) that each caller may be in. A leader may exit at any time, ignores SIGTERM if it likes, and
dies of SIGKILL eventually, possibly after `killProcessGroup` gave up. `sigkilled` are the groups that were
sent SIGKILL, `crashed` the leaders that ended without any signal. The health poll is answered by
whichever engine listens. The wait for the driver to free its memory is a step (`clear`); provisioning and
the construction of the command line are one that succeeds or fails. Both end with external commands.

### RequestVerifier

A request is its nonce: one signed request per nonce, with a time stamp chosen in `Init`, delivered any
number of times. `Admit` is the unlocked part (it keeps the time it read in `now`), `RejectReplay` and
`RecordNonce` the part under `nonceMu`; the sweep and the eviction loop are operators on the order and
the map. `acceptedAt`, `evicted` and `enrolled` are history.

### ControlPlane

A goroutine per request. A step is one read or write of shared state, so that the guard is three steps
(enrollment, policy, seal), the seal four (checks, readiness, firewall, flag) and the health handler
two (exposure flag, model). nft replaces the rule set or does not, and may be reported as failed
either way. `wasOpen` is history: since the request came, its endpoint was open to anyone at some
moment.

### InferencePath and MessagesTranslator

A body is a sequence of tokens: `D` and `Z` (a data line, a data line with `[DONE]`), `X` (other text),
line feed and carriage return. The reverse proxy hands over any number of tokens per write, zero for a
flush, and may stop anywhere: `BodyEnds` is the end of the body as well as the panic of an aborted
copy, because the deferred `Finish` cannot tell. The binary and the protobuf framing take the same
steps and are one. The buffer in the model is that of the outer writer (the adapter's for
Messages requests); events of the adapter are whole blocks, so the inner buffer is empty between
writes. Of the conversion of a whole body there is its panic (`ConversionPanics`): an answer in which
`</think>` comes before `<think>` makes `ExtractThinkingFromContent` slice backwards. A chunk is reduced to whether it parses, whether it has a delta, and the pieces of its
content: think tags and text, tool calls with and without arguments.

### ContextSizing

A load as one thread of control (it holds `loadMu`): hardware, configuration on disk, configuration on
the network or its failure, deduction from the name, sizing, launch; loads follow one another. A name is
what the code finds in it: a size, a quantization, a native context (`family`). Parameters are in
tenths of a billion and bytes per parameter in hundredths, so the code's floating-point products are
exact here (floating point may be off by one megabyte where a product is integral). Head dimensions
and the bytes of a MiB are counted in `DimUnit`: 1 is the code; 64, in the run, keeps products within
TLC's integers without changing a quotient. The proofs hold for both. `EngineSupervisor` takes the
whole of it as part of `CommitSpec`.

### Initrd, GpuDriver, DhcpClient, KeyDiscovery, NodeBoot

A boot is one thread of control at a time (`stage` in the initrd, `pc` in the node, and the program
counters of the three calls it makes), next to a kernel that announces partitions and interfaces when
it likes, commands that end, a network that answers or not, and the reaper. `faults` counts system calls
that fail for no reason; every call whose error the code looks at may be one. The initrd takes the root hash
from the command line, two devices from its search, and makes the table from them (`roothash`, `pair`,
`table`). dm-verity is external: it reads through the table it was given, and a device whose tree does not
lead to the root hash of that table cannot be read. A disk is a function from partition numbers to
contents; a source of a key is a text that does or does not parse; the fields of a DHCP reply are names,
any of them but the address may be missing, and a reply may be of any type.
The exit status of nft and udhcpc goes to `exec.Cmd` or to `Wait4(-1)` of the reaper, in which case
`exec.Cmd` reports an error whatever the command has done. The halt of the node is final, as in the code
(`select {}`).

### Attestation, AmdCertificates

A digest is a record of what was hashed, a quote a digest with a kind (what the hardware made), a label
(what the code calls it) and a chain. Reading the key, taking the quote and building the document are
steps of their own, as are the two mutexes. The enrollment writes into the document of the boot in two
steps (`WriteBegins`, `WriteEnds`) because it takes no lock: a reader in between sees the old string, the
new one, or fails. A certificate is its role, kind (VCEK, VLEK) and generation; the host's table may have
a leaf of either kind or of both, of which the VLEK is taken; names of processors are what the code's
comparisons tell apart.

## 3. What the runs show

Passing:

- **EngineSupervisor** (two engines, a loadable model and a request with bad fields, failure limit 2): no
  process of an engine is lost track of, leader or worker, except the workers of a leader that ended by
  itself, which nothing in the code ends (`NoOrphanEngine`); only the newest engine is kept, if an older
  one obeys SIGKILL (`OnlyLatestEngineKept`); what a ready node reports is what the engine that became
  ready was started with (`ReadyReportsServedModel`) and that engine has a monitor
  (`ReadyEngineIsMonitored`); every step is one the contract allows (`MeetsContract`, a refinement); a load
  ends or gets to an external command that has no timeout (`LoadTerminates`); and the crash of a current
  engine is noticed (`CrashIsNoticed`). The theorems cover any number of loadable models.
- **VerifierSafety** (two enrollments of different keys and two requests, two handlers, a cache of two,
  skew 1, so nonceTTL 2, clock to 3): the cache keeps within its bound (`CacheIsBounded`); a nonce is
  refused for nonceTTL unless saturation evicted it (`NoEarlyReacceptance`); of several enrollments one
  succeeds (`SingleKey`).
- **ControlGuard** (two handlers, the boot goroutine, one slot): sealed means blocked; nothing is served
  unauthenticated unless its endpoint was open at some moment of the request; slots do not leak.
- **ControlLoads** (two handlers and the boot goroutine, two models): every request is answered, loads
  that queue on `loadMu` included, and after a seal the node settles, both if the external commands of a
  load end.
- **InferenceStream** (five streams of up to twenty tokens from LF and CRLF servers, eight kinds of
  chunks, five sequence numbers, a buffer of four tokens): frames are numbered 0, 1, 2, ...; their keys
  are live; the keys are erased in the end, unless the conversion of a whole Messages body panics; how the
  answer is cut is invisible; an end frame of a plain stream means that every data block was sent, unless
  a block outgrew the buffer and was cut by force (`EndMeansComplete`: there the code drops data and still
  sends the end frame); a Messages stream is well formed: its events nest and it is always closed (`MessagesStreamIsWellFormed`).
- **ContextSizing** (thirteen requests, six configurations, twelve machines with none to eight GPUs): on
  one GPU the KV cache of two streams of the chosen length fits the memory counted as free, to the
  megabyte that the division drops (`KVCacheFits`; with several GPUs it need not, see below); the length is
  within the model's own (`ContextWithinModel`), in both cases except for the minima 512 and 2048; the
  parallelism divides the heads (`HeadsAreSplitEvenly`); the two estimates in the file agree where the
  clamp applies with 512 MB to spare (`EstimatesAgree`).
- **NodeBoot** (eight machines, with and without GPU, every setting of the debug flag, four
  provisionings): the dm-verity table names the root hash of the command line, and the node runs from the
  image behind it or not at all (`OnlyMeasuredRootRuns`); initrd and node halt for a reason only (`HaltHasReason`); no interface is up and
  nothing listens before firewall and module lock, and a locked console stays locked (`NodeIsHardened`);
  device nodes lead to the current driver of hardware that is there (`NodesLeadToHardware`), and files that
  are held stay held (`HeldForGood`); a lease is what the latest reply says as far as it says it, and of one
  offer unless a reply that is no offer named a router (`LeaseIsOfOneOffer`); without a key in
  `CEVELL_AUTH_PUB` the key is that of the first attribute or file, and enrollment is fallen back to only
  when every single lookup failed (`ProvisionedKeyIsHonoured`); every boot ends (`BootSettles`).
- **Attestation** (the boot and two handlers, nine machines): a document made for a nonce verifies
  against its quote whenever the tenant enrolls, and that of the boot until an enrollment begins to write
  into it (`DocumentIsBound`); a tenant who enrolled and asks with a nonce gets a quote over this key, and a
  key provisioned at boot is in every quote (`EnrolledKeyIsAttested`); labels fit unless an interface failed, and chains lead to AMD's root where what
  the node guesses from is true (`QuoteFitsPlatform`); every request is answered (`RequestIsAnswered`).

Violations, each of something the repository says of itself (quoted in `PROJECT.json`):

- **EngineStuckReady**: a prober of an earlier engine, cancelled in the middle of its health request,
  takes the command of the next engine (`currentCmd`) and kills it; the load then declares it ready, and
  its monitor skips the reset because it is no longer current. The node stays ready with a dead engine.
- **SealFixes**: the boot goroutine, which never asks whether the node is sealed, changes the model of a node
  that was sealed by force. (A load request that had passed its check of the flag does the same.)
- **MessagesError**: an unreachable engine is reported to a Messages client as 200 with a completion
  frame.
- **BootDocument**: the enrollment writes its key into the document of the boot, whose quote commits to no
  key, and requests without a nonce get a document that does not verify any more. With a nonce the key is
  attested.

Seen while modelling, without a run of their own:

- Behind a guard that requires authentication, the health handler verifies the same nonce a second time
  and so hides the model from its owner (`server.go:168`; the comment at `:165` promises it).
- The workers of an engine whose leader crashed or exited while starting are never signalled
  (`supervisor.go:1254`, `:1286`); they reparent to PID 1 (`hardening.go:105`) and keep their GPU memory.
- nvidia-smi (`supervisor.go:356`, and for the topology), uv (`:846`, `:882`) and the probe of torch (`:1053`)
  run under `loadMu` with neither context nor timeout: one that hangs blocks every later load.
- The flush of a plain answer that is not a stream commits 200 before `Finish` has seen the body's status, so
  that an error of the engine may arrive as 200 with an error frame (`hpke_middleware.go:177`).
- `src/README.md:120` puts `CEVELL_AUTH_PUB` behind metadata and file; the code and its comment put it first
  (`metadata.go:103`, `:111`). `ProvisionedKeyIsHonoured` is silent where the variable holds a key.
- A table with a VLEK next to the VCEK that signed is completed with the VLEK chain (`certs.go:486`).
- `ExtractThinkingFromContent` panics when `</think>` comes first (`messages_translator.go:93`). It runs in a
  deferred function, which then skips the encrypting writer's `Finish`: no answer, and the keys of the
  session stay. `SessionIsErased` names this as the one exception.
- Without a GPU report the digest of the evidence is zero also when confidential computing is on, where the
  comment in `binding.go` says otherwise.
- Values of `ssh-keys` have the form `user:ssh-ed25519 ...` on GCP and never parse.
- On hosts of Google and Microsoft the chain defaults to VLEK, whatever signed.
- The test for Genoa is a prefix of the model's decimal digits and so also takes 160 to 199.
- The raw DHCP client may combine an address with the mask or the server of an earlier reply, where the
  latest has none. After a router in a reply that is no offer it uses that router with another server's
  offer, or requests without any offer (`interface.go:364`). It waits for no acknowledgement (`:400`).
- When the reaper takes the status of udhcpc, raw DHCP follows on an interface that has an address; in
  the last round the certificate is then made without it.
- A disk that is read between the announcement of its second and its third partition is taken for the
  two-partition layout, and the boot halts (`main.rs:250`).
- The late monitor of a replaced engine cancels the prober of its successor (`supervisor.go:1289`); a stale
  prober may store `fatalError` after the next load cleared it (`:205`).
- `nonceOrder` is not chronological, as a comment says, because the times are read before the lock
  (`ed25519.go:337`; the proofs show that the promise of the cache holds all the same). An entry exactly
  nonceTTL old is swept, so that a request dated a full skew ahead may pass twice, nonceTTL apart (`:375`).
- Parallel tool calls share one block (`messages_translator.go:599`); a Messages stream that broke off is
  closed with `end_turn` (`:783`); the second half of a block cut at 1 MB is dropped, and the end frame is sent
  all the same (`hpke_middleware.go:208`).
- The health handler may read the exposure flag of one model and name the next (`server.go:166`).
- A size in a model's name replaces the heads of the configuration that was just fetched
  (`context_sizing.go:119`), so that a 7B model with four KV heads gets eight-fold parallelism on eight
  GPUs; the memory estimate compares one GPU's share of the cache with the memory of all of them (`:417`,
  `:431`), so that the "safe" length (`:380`) of a 7B model in FP16 on two T4 needs 8192 MB of cache per GPU
  where 5328 MB are free;
  `--max-model-len` is always passed, although comments say it is not when memory suffices (`:439`,
  `supervisor.go:606`).

### Bounds

Two engines are enough for a stale prober or monitor to meet a successor; with a third the same pairs
repeat. Two handlers and the boot goroutine give every pair of requests and a queue of two on `loadMu`;
requests of the mixes are drawn again and again. Two handlers with one cache of two nonces fill, sweep
and evict it, and clock readings of different ages occur. The streams hold every kind of delimiter,
cut at every position, blocks of several lines, comments, a last block without delimiter, and more
frames than there are sequence numbers. Symmetry is used for handlers, and for requests of one key,
in safety runs only. Each property of a passing run has a mutant (`PROJECT.json`): the definition is replaced by a plausible mistake and TLC finds the property violated.

The requests of `ContextSizing` have every size of the name table and every quantization; its machines
make each verdict of the sizing occur, a remainder of two megabytes included, and head counts that
do and do not divide.

`NodeBoot`: two polls, rounds, attempts, discovers and looks at `/proc/devices` distinguish a first, a
later and a last turn of each loop; two faults allow a failure inside the handling of another; one
interface is tried in every state an interface can be in. The deployments take every value of each part
(machine, GPU, flag, provisioning) but not every combination, because the parts share nothing but the
faults. `CEVELL_AUTH_PUB` occurs for the test harness only: the initrd passes no such variable.
`Attestation`: two handlers, one nonce and one key give every race with an enrollment, which happens
once. The machines have NVML or TSM, not both: the two mutexes are never held together.

`InferencePath` and `NodeBoot` switch deadlock checking off: an exchange and a boot end. The others never
stop.

### Fairness

`EngineSupervisor`: weak fairness of the loader's own steps, the probers and the monitors (goroutines run;
these waits have timeouts, and the health poll is bounded by the start timeout), of the signals of
`killProcessGroup`, and of the death of a leader that was sent SIGKILL (the kernel's promise). Nothing is
assumed of engines that were not killed, nor of the steps behind an external command that has no timeout
(`CommandStep`). `ControlPlane`: weak fairness of each goroutine and strong fairness of
taking `loadMu`, because a `sync.Mutex` hands over to a starving waiter; that a load ends is an assumption
here: it is what `LoadTerminates` shows if its external commands end. `NodeBoot`: weak fairness of initrd and node, of commands ending (udhcpc gives up by itself) and of
the two seconds of a DHCP wait; nothing of the kernel's probing, the network or the reaper. `Attestation`:
strong fairness of each goroutine, because a Go mutex does not starve a waiter, the NVML script is killed
after five seconds, and a call to the hardware answers or fails; weak fairness of the enrollment.
The other modules are checked for safety only.

## 4. What is proved

Every safety property the passing runs check, invariant or action property, is also a theorem, for
every value of the constants that satisfies the named assumptions. Each invariant below was first
checked by TLC on the run's instance.

- `EngineSupervisorProofs`: `TypeCorrect`, `NoOrphan`, `SingleKeptEngine`, `ReadyIsTruthful`, `ReadyIsWatched`,
  and `ContractHolds`, the refinement of `EngineContract`. The properties are not inductive: that an engine
  is accounted for needs that the loader holds no command while it prepares the next, that the current
  command is the latest, that a caller outside `killProcessGroup` has no target (so a new call forgets
  nobody), that only engines that became ready have probers, that whoever has passed SIGKILL has sent it to
  the group, and that a leader that ended was signalled or crashed. That is `IInv`. Workers are covered: only
  those of a crashed leader are exempt.
- `RequestVerifierProofs`: `TypeCorrect`, `CacheConsistent`, `NonceRemembered`, `CacheBounded`, `ReplayRefused`,
  `OneKeyEnrolled`, `KeyNeverChanges`. Two lemmas carry the argument: dropping a prefix of the order and its
  nonces from the map keeps them in agreement, and a sweep with an old clock reading drops only entries
  that are older than nonceTTL now. The order is not sorted, and nothing needs it to be: the sweep stops
  at the first entry it keeps. The bound of the map is that of the order, since the two agree and no nonce
  is in the order twice.
- `ControlPlaneProofs`: `TypeCorrect`, `SealIsEffective`, `GuardIsSound`, `LoadsAreExclusive`, `SlotsAccounted`. The
  invariant says of each goroutine what it has established and nobody can undo: enrollment and a blocked
  firewall are permanent, and a setting that was read as public was open or the node is sealed by now. For
  the slots, the semaphore is the number of goroutines that collect evidence.
- `InferencePathProofs`, three invariants on top of each other:
  - `IInv` (`TypeCorrect`, `NoncesAreFresh`, `KeysAreLive`, `KeysAreErased`): the counter equals the number of
    frames, every frame has its position as number and live keys, and the session is live exactly while
    the handler works or after the one panic.
  - `StreamInv` (`ChunkingInvisible`, `EndIsComplete`): the buffer is the last part of what was received, the
    sequential parser is at a block boundary where the buffer starts and has found the blocks that
    were taken, and the frames carry the data among them; an end frame is there only if `[DONE]` has left the
    buffer, behind which there is no data. The lemmas say that the parser collects while no delimiter has
    ended, and that the first delimiter to start is the first to end (`CRLF CRLF` contains no `LF LF`, but
    may be cut anywhere).
  - `AdapterInv` (`MessagesWellFormed`): the translator's state tells how many blocks its events have opened and
    closed and which one is open, and once it has emitted the end, nothing follows. Lemmas: what one more
    event does to the counts, and when it keeps the order; then each function of the translator.
- `ContextSizingProofs`: `TypeCorrect`, `ContextBounded`, `CacheFits`, `HeadsSplit`, `OneEstimate`. Lemmas bound a
  quotient and what is within one, show that a bucket never exceeds its limit, and that a largest divisor
  exists (from the well-foundedness of the natural numbers). The invariant: the published length is the
  one resolved for the model and machine of this load (`CacheFits` is about one GPU), and the heads are the configuration's until a name
  replaces them.
- `BootPartsProofs` has an invariant for each part of the boot, preserved by the steps of the part;
  `NodeBootProofs` puts them together (`BootInv`): `TypeCorrect`, `MeasuredRoot`, `HaltsForReason`, `Hardened`,
  `NodesAreReal`, `HeldIsKept`, `LeaseIsCoherent`, `KeyIsHonoured`. `InitrdInv`: a missing file system has cost a system
  call; the root hash is that of the command line from the moment it is read, and so is the one in the table;
  the chosen partitions were announced on one disk; as long as nothing failed and no disk was read
  too early, the scan has passed over disks without a pair only. `OwnInv`: there is a child only while PID 1
  waits for it, so that an exit status that is trusted means rules in place, and from the module lock on
  firewall and lock are there. `DhcpInv`: while the client waits, a known router is a stray one, and what the
  latest reply named is held. `KeyInv` counts the lookups that failed.
- `AttestationProofs`: `TypeCorrect`, `DocumentsAreBound`, `EnrolledIsAttested`, `QuotesFit`. `AttInv` says of each
  process which key it may have read, that its quote is over what it has collected, and which
  interface failed if the quote is not the best one; and of the document of the boot that it was made like any
  other, with a key that an enrollment may have written later while the quote kept its own. Lemmas follow a chain of certificates to its root.

Assumptions. Most of them only give the constants their types and keep the values for "nothing" apart from
the real ones. These say more, all of them about what is outside the repository: the engine sends no data
after `[DONE]` (`DoneAssumption`, for `EndIsComplete` and `MessagesWellFormed`; the writer itself would go
on framing it); the SEV guest driver is also the TSM provider, and a table with leaves holds one of what
signs, of the chip's generation (`PlatformAssumption`, `Given`). `TTL = 2 * Skew` (`SkewAssumption`) is the ratio of the code's defaults, the only ones it uses.

Induction. The library's induction rules take an operator as parameter, which the provers cannot
instantiate; `InferencePathProofs` therefore proves a rule for sets (`Induction`: a set with 0 and with the
successor of each of its numbers has all of them), from the well-foundedness of the natural numbers. What the
parser computes and any number of deltas are proved with it. For this the parser is a function over the
prefixes of the answer (`Parse`), not a recursion over the rest.

`MapMatchesOrder`, `RecentNonceIsRemembered`, `KeyIsLatched`, `OneLoadAtATime` and the `TypeOK` of four modules are
proved only; the runs check what rests on them.

Only model-checked: liveness under fairness, which is outside the prover's reach (`LoadTerminates`,
`CrashIsNoticed`, `SealSettles`, `RequestIsAnswered` of both modules, `BootSettles`), and the four violations.

## 5. Not modelled

Cryptography (signatures, AEAD, key derivation) is taken at its promise. JSON conversion of requests and
of whole bodies is success, failure or panic. Of the boot: the encodings of device-mapper calls, of DHCP
frames and of netlink messages, routes and `resolv.conf`, resource limits, the host name, drivers other
than NVIDIA's, and the asynchronous log. Of attestation: what is exchanged with ioctl, configfs and the
NVML script, and the verification of certificates. Generated code, build files and scripts.
`PROJECT.json` gives the reason for each component.

## 6. Plan

1. A composition of `RequestVerifier` and `ControlPlane` in place of the promise that a request is
   authentic or not.
2. Abstract specifications of the nonce cache and of an exchange, and their refinements, next to that of the
   engine.
3. The safety facts the liveness arguments rest on, as theorems: who may hold a mutex, and that its holder
   can always take a step.
