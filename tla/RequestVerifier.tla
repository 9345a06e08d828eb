--------------------------- MODULE RequestVerifier ---------------------------
(***************************************************************************)
(* The Ed25519 request verifier (pkg/auth/ed25519.go, registration.go) and *)
(* the enrollment handler in front of it (pkg/proxy/enrollment.go).        *)
(*                                                                         *)
(* HTTP handler goroutines verify requests concurrently.  A verification   *)
(* reads the clock and checks timestamp and signature without a lock, and  *)
(* later, under nonceMu, sweeps the nonce cache, looks the nonce up and    *)
(* records it, all with the time read before: the two halves are separate  *)
(* steps, and the clock and other handlers may move in between.            *)
(*                                                                         *)
(* A request is identified by its nonce: a client signs one request per    *)
(* nonce, with one timestamp, and that request may reach the node any      *)
(* number of times.                                                        *)
(***************************************************************************)
EXTENDS Integers, Sequences, FiniteSets

CONSTANTS
  Nonces,       \* nonces, each naming one signed request
  Keys,         \* Ed25519 key pairs
  NoKey,        \* no key is enrolled
  Signer,       \* the key that signed the request with a given nonce
  Enrolments,   \* the nonces of proof-of-possession requests
  Handlers,     \* goroutines of the HTTP server
  NoRequest,    \* what an idle handler works on
  Skew,         \* maxClockSkew, in clock ticks
  TTL,          \* nonceTTL
  SweepGap,     \* the second between two cache sweeps
  CacheSize,    \* maxNonceCacheSize
  MaxTime       \* bound: the clock stops here

ASSUME KeyAssumption      == NoKey \notin Keys /\ Signer \in [Nonces -> Keys]
ASSUME EnrolAssumption    == Enrolments \subseteq Nonces
ASSUME RequestAssumption  == NoRequest \notin Nonces
ASSUME SkewAssumption     == Skew \in Nat \ {0} /\ TTL = 2 * Skew
ASSUME SweepAssumption    == SweepGap \in Nat
ASSUME CacheAssumption    == CacheSize \in Nat \ {0}
ASSUME TimeAssumption     == MaxTime \in Nat

VARIABLES
  clock,        \* time.Now()
  stamp,        \* the timestamp signed into every request
  publicKey,    \* v.publicKey, NoKey while v.isEnrolled is false
  seenNonces,   \* the keys of v.seenNonces
  nonceOrder,   \* v.nonceOrder
  lastCleanup,  \* v.lastCleanup
  pc,           \* where every handler is
  request,      \* the nonce of the request it verifies
  now,          \* the time it has read
  acceptedAt,   \* history: the time recorded by the latest acceptance of a nonce
  evicted,      \* history: nonces evicted by saturation since then
  enrolled      \* history: keys for which an enrollment handler answered 200

cacheVars   == <<seenNonces, nonceOrder, lastCleanup>>
handlerVars == <<pc, request, now>>
historyVars == <<acceptedAt, evicted>>

vars == <<clock, stamp, publicKey, cacheVars, handlerVars, historyVars, enrolled>>

Time  == 0..MaxTime
Never == -1
Entry == [nonce : Nonces, addedAt : Time]

TypeOK ==
  /\ clock \in Time
  /\ stamp \in [Nonces -> Time]
  /\ publicKey \in Keys \union {NoKey}
  /\ seenNonces \subseteq Nonces
  /\ nonceOrder \in Seq(Entry)
  /\ lastCleanup \in Time
  /\ pc \in [Handlers -> {"idle", "nonce", "body", "enroll"}]
  /\ request \in [Handlers -> Nonces \union {NoRequest}]
  /\ now \in [Handlers -> Time]
  /\ acceptedAt \in [Nonces -> Time \union {Never}]
  /\ evicted \subseteq Nonces
  /\ enrolled \subseteq Keys

-----------------------------------------------------------------------------
\* NewDynamicVerifier, or NewEd25519Verifier with the key found at launch.
Init ==
  /\ clock = 0
  /\ stamp \in [Nonces -> Time]
  /\ publicKey \in Keys \union {NoKey}
  /\ seenNonces = {}
  /\ nonceOrder = <<>>
  /\ lastCleanup = 0
  /\ pc = [h \in Handlers |-> "idle"]
  /\ request = [h \in Handlers |-> NoRequest]
  /\ now = [h \in Handlers |-> 0]
  /\ acceptedAt = [n \in Nonces |-> Never]
  /\ evicted = {}
  /\ enrolled = {}

Tick ==
  /\ clock < MaxTime
  /\ clock' = clock + 1
  /\ UNCHANGED <<stamp, publicKey, cacheVars, handlerVars, historyVars, enrolled>>

-----------------------------------------------------------------------------
(* The checks that need no lock                                            *)

Abs(d) == IF d < 0 THEN -d ELSE d

\* diff := now.Sub(reqTime); if diff > v.maxClockSkew { expired }
Fresh(n) == Abs(clock - stamp[n]) <= Skew

\* A handler takes the request and passes the unlocked checks.
Admit(h, n) ==
  /\ pc[h] = "idle"
  /\ pc' = [pc EXCEPT ![h] = "nonce"]
  /\ request' = [request EXCEPT ![h] = n]
  /\ now' = [now EXCEPT ![h] = clock]
  /\ UNCHANGED <<clock, stamp, publicKey, cacheVars, historyVars, enrolled>>

\* VerifyWithBodyHash up to the lock: enrolled, fresh, signed by the enrolled key.
CheckRequest(h, n) ==
  /\ n \notin Enrolments
  /\ publicKey # NoKey
  /\ Fresh(n)
  /\ Signer[n] = publicKey
  /\ Admit(h, n)

\* The enrollment handler up to the lock in VerifyProofOfPossession: no key is
\* enrolled yet, and the request is signed by the key it carries.
CheckEnrolment(h, n) ==
  /\ n \in Enrolments
  /\ publicKey = NoKey
  /\ Fresh(n)
  /\ Admit(h, n)

\* Any other request is answered 401 or 409 and changes nothing.
Refuse(h, n) ==
  /\ pc[h] = "idle"
  /\ \/ ~Fresh(n)
     \/ n \in Enrolments /\ publicKey # NoKey
     \/ n \notin Enrolments /\ Signer[n] # publicKey
  /\ UNCHANGED vars

-----------------------------------------------------------------------------
(* The nonce cache, under nonceMu                                          *)

HeadNonces(s, k) == {s[i].nonce : i \in 1..k}
DropHead(s, k)   == SubSeq(s, k + 1, Len(s))

\* Mutant: the sweep goes one tick too far.
SweepDropsOneMore(t, k) ==
  LET cutoff == t - TTL + 1
  IN  IF t - lastCleanup >= SweepGap
      THEN /\ \A i \in 1..k : nonceOrder[i].addedAt <= cutoff
           /\ k < Len(nonceOrder) => nonceOrder[k + 1].addedAt > cutoff
      ELSE k = 0

\* The sweep at time t drops the first k entries: those before the first one
\* with addedAt.After(cutoff).
SweepDrops(t, k) ==
  LET cutoff == t - TTL
  IN  IF t - lastCleanup >= SweepGap
      THEN /\ \A i \in 1..k : nonceOrder[i].addedAt <= cutoff
           /\ k < Len(nonceOrder) => nonceOrder[k + 1].addedAt > cutoff
      ELSE k = 0

SweptAt(t) == IF t - lastCleanup >= SweepGap THEN t ELSE lastCleanup

\* Mutant: room is made one entry too late.
EvictDropsLate(order, seen, e) ==
  LET left(j) == Cardinality(seen \ HeadNonces(order, j))
  IN  /\ \A j \in 0..(e - 1) : left(j) > CacheSize
      /\ e < Len(order) => left(e) <= CacheSize

\* A full cache makes room from the head, whatever the age of the entries.
EvictDrops(order, seen, e) ==
  LET left(j) == Cardinality(seen \ HeadNonces(order, j))
  IN  /\ \A j \in 0..(e - 1) : left(j) >= CacheSize
      /\ e < Len(order) => left(e) < CacheSize

\* The nonce is in the cache after the sweep: ErrReplayedNonce.
RejectReplay(h) ==
  LET n == request[h]
  IN  /\ pc[h] = "nonce"
      /\ \E k \in 0..Len(nonceOrder) :
           /\ SweepDrops(now[h], k)
           /\ n \in seenNonces \ HeadNonces(nonceOrder, k)
           /\ seenNonces' = seenNonces \ HeadNonces(nonceOrder, k)
           /\ nonceOrder' = DropHead(nonceOrder, k)
      /\ lastCleanup' = SweptAt(now[h])
      /\ pc' = [pc EXCEPT ![h] = "idle"]
      /\ request' = [request EXCEPT ![h] = NoRequest]
      /\ now' = [now EXCEPT ![h] = 0]
      /\ UNCHANGED <<clock, stamp, publicKey, historyVars, enrolled>>

\* The nonce is recorded with the time the handler read before the lock.
RecordNonce(h) ==
  LET n == request[h]
  IN  /\ pc[h] = "nonce"
      /\ \E k \in 0..Len(nonceOrder) :
           LET order == DropHead(nonceOrder, k)
               seen  == seenNonces \ HeadNonces(nonceOrder, k)
           IN  /\ SweepDrops(now[h], k)
               /\ n \notin seen
               /\ \E e \in 0..Len(order) :
                    /\ EvictDrops(order, seen, e)
                    /\ seenNonces' = (seen \ HeadNonces(order, e)) \union {n}
                    /\ nonceOrder' = Append(DropHead(order, e), [nonce |-> n, addedAt |-> now[h]])
                    /\ evicted' = (evicted \union HeadNonces(order, e)) \ {n}
      /\ lastCleanup' = SweptAt(now[h])
      /\ acceptedAt' = [acceptedAt EXCEPT ![n] = now[h]]
      /\ pc' = [pc EXCEPT ![h] = IF n \in Enrolments THEN "enroll" ELSE "body"]
      /\ UNCHANGED <<clock, stamp, publicKey, request, now, enrolled>>

-----------------------------------------------------------------------------
(* After the nonce is consumed                                             *)

Finish(h) ==
  /\ pc' = [pc EXCEPT ![h] = "idle"]
  /\ request' = [request EXCEPT ![h] = NoRequest]
  /\ now' = [now EXCEPT ![h] = 0]
  /\ UNCHANGED <<clock, stamp, cacheVars, historyVars>>

\* VerifyHTTPRequestHeaderFirst: the body is read after the nonce is spent; it
\* matches the signed hash, does not match, or breaks off, and the handler goes on
\* or answers an error.  The verifier keeps the nonce in every case.
ReadBody(h) ==
  /\ pc[h] = "body"
  /\ Finish(h)
  /\ UNCHANGED <<publicKey, enrolled>>

\* Mutant: the key is set without looking at isEnrolled again under the lock.
EnrollAnyKey(h) ==
  /\ pc[h] = "enroll"
  /\ Finish(h)
  /\ publicKey' = Signer[request[h]]
  /\ enrolled' = enrolled \union {Signer[request[h]]}

\* EnrollKey latches the first key; a handler that lost the race answers 409.
EnrollKey(h) ==
  /\ pc[h] = "enroll"
  /\ Finish(h)
  /\ \/ /\ publicKey = NoKey
        /\ publicKey' = Signer[request[h]]
        /\ enrolled' = enrolled \union {Signer[request[h]]}
     \/ publicKey # NoKey /\ UNCHANGED <<publicKey, enrolled>>

-----------------------------------------------------------------------------
HandlerStep(h) ==
  \/ \E n \in Nonces : CheckRequest(h, n) \/ CheckEnrolment(h, n) \/ Refuse(h, n)
  \/ RejectReplay(h) \/ RecordNonce(h) \/ ReadBody(h) \/ EnrollKey(h)

Next == Tick \/ \E h \in Handlers : HandlerStep(h)

Spec == Init /\ [][Next]_vars

-----------------------------------------------------------------------------
(* Properties                                                              *)

\* The nonces of the order are those of the set, each of them once.
Agree(seen, order) ==
  /\ seen = {order[i].nonce : i \in 1..Len(order)}
  /\ \A i, j \in 1..Len(order) : order[i].nonce = order[j].nonce => i = j

\* seenNonces and nonceOrder describe the same cache: every key of the map has
\* exactly one entry in the order and the reverse, whatever sweeps and evictions
\* removed from the head.  A key without an entry could never be removed again, an
\* entry without a key would delete a later acceptance of the same nonce.
MapMatchesOrder == Agree(seenNonces, nonceOrder)

\* "This bounds memory usage": the cache never holds more than maxNonceCacheSize
\* nonces, in the map and in the slice.
CacheIsBounded == Len(nonceOrder) <= CacheSize /\ Cardinality(seenNonces) <= CacheSize

\* A nonce accepted less than nonceTTL ago is still in the cache unless saturation
\* evicted it, although handlers sweep with clock readings of different ages and
\* record entries out of order.
RecentNonceIsRemembered ==
  \A n \in Nonces :
    /\ acceptedAt[n] # Never
    /\ n \notin evicted
    /\ clock < acceptedAt[n] + TTL
    => n \in seenNonces

\* The step consumes nonce n for some handler.
Accepts(n) == \E h \in Handlers : /\ pc[h] = "nonce" /\ request[h] = n
                                  /\ pc'[h] \in {"body", "enroll"}

\* A nonce is accepted a second time only when the first acceptance is a full
\* nonceTTL old, or was evicted: within the TTL a repeated request is refused.
NoEarlyReacceptance ==
  [][\A n \in Nonces :
       Accepts(n) =>
         \/ acceptedAt[n] = Never
         \/ n \in evicted
         \/ clock >= acceptedAt[n] + TTL]_vars

\* The single-key invariant of EnrollKey: however many enrollment handlers passed
\* the IsEnrolled check, one key at most is ever reported as enrolled, and it is
\* the key every later request is verified against.
SingleKey == \A k \in enrolled : publicKey = k

\* Once a key is enrolled, or was found at launch, it never changes.
KeyIsLatched == [][publicKey # NoKey => publicKey' = publicKey]_vars

==============================================================================
