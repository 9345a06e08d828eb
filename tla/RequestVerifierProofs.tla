------------------------ MODULE RequestVerifierProofs ------------------------
(***************************************************************************)
(* Proofs about RequestVerifier, for any number of handlers, nonces and    *)
(* keys, any cache size and any clock skew.                                *)
(***************************************************************************)
EXTENDS RequestVerifier, FiniteSetTheorems, TLAPS

\* Facts about times that the steps below use without looking into 0..MaxTime.
LEMMA TimeFacts ==
  /\ 0 \in Time
  /\ \A t \in Time : t \in Int /\ t # Never
  /\ \A t \in Time : t < MaxTime => t + 1 \in Time
  /\ TTL \in Int /\ SweepGap \in Int
  BY TimeAssumption, SkewAssumption, SweepAssumption DEF Time, Never

\* What dropping k entries from the head of the order leaves.
LEMMA DropHeadLemma ==
  ASSUME NEW S, NEW s \in Seq(S), NEW k \in 0..Len(s)
  PROVE  /\ DropHead(s, k) \in Seq(S)
         /\ Len(DropHead(s, k)) = Len(s) - k
         /\ \A i \in 1..(Len(s) - k) : DropHead(s, k)[i] = s[i + k]
  BY DEF DropHead

\* Removing the first k entries from the order and their nonces from the map, as
\* the sweep and the eviction loop do, keeps map and order in agreement.
LEMMA DropAgrees ==
  ASSUME NEW s \in Seq(Entry), NEW seen, NEW k \in 0..Len(s), Agree(seen, s)
  PROVE  Agree(seen \ HeadNonces(s, k), DropHead(s, k))
  <1> DEFINE d == DropHead(s, k)
  <1>1. Len(d) = Len(s) - k /\ Len(s) \in Nat
    BY DropHeadLemma
  <1>2. \A i \in 1..Len(d) : d[i] = s[i + k] /\ i + k \in 1..Len(s)
    <2>1. \A i \in 1..(Len(s) - k) : d[i] = s[i + k]
      BY DropHeadLemma
    <2>2. \A i \in 1..(Len(s) - k) : i + k \in 1..Len(s)
      BY <1>1
    <2> QED
      BY <1>1, <2>1, <2>2
  <1>3. \A i, j \in 1..Len(d) : d[i].nonce = d[j].nonce => i = j
    <2>1. SUFFICES ASSUME NEW i \in 1..Len(d), NEW j \in 1..Len(d), d[i].nonce = d[j].nonce
                   PROVE  i = j
      OBVIOUS
    <2> HIDE DEF d
    <2>2. s[i + k].nonce = s[j + k].nonce /\ i + k \in 1..Len(s) /\ j + k \in 1..Len(s)
      BY <1>2, <2>1
    <2>3. i + k = j + k
      BY <2>2 DEF Agree
    <2> QED
      BY <1>1, <2>3
  <1>4. ASSUME NEW n \in seen \ HeadNonces(s, k) PROVE \E i \in 1..Len(d) : d[i].nonce = n
    <2>1. PICK j \in 1..Len(s) : s[j].nonce = n
      BY DEF Agree
    <2>2. j \notin 1..k
      BY <1>4, <2>1 DEF HeadNonces
    <2>3. j - k \in 1..Len(d) /\ (j - k) + k = j
      BY <1>1, <2>2
    <2> QED
      BY <2>1, <2>3, <1>2
  <1>5. ASSUME NEW i \in 1..Len(d) PROVE d[i].nonce \in seen \ HeadNonces(s, k)
    <2>1. s[i + k].nonce \in seen
      BY <1>2 DEF Agree
    <2>2. ASSUME NEW j \in 1..k, s[j].nonce = s[i + k].nonce PROVE FALSE
      BY <1>1, <1>2, <2>2 DEF Agree
    <2> QED
      BY <1>2, <2>1, <2>2 DEF HeadNonces
  <1> QED
    BY <1>3, <1>4, <1>5 DEF Agree

\* Recording a nonce that is not in the map keeps map and order in agreement.
LEMMA AppendAgrees ==
  ASSUME NEW s \in Seq(Entry), NEW seen, NEW x \in Entry, Agree(seen, s), x.nonce \notin seen
  PROVE  Agree(seen \union {x.nonce}, Append(s, x))
  <1> DEFINE a == Append(s, x)
  <1>1. Len(a) = Len(s) + 1 /\ Len(s) \in Nat
    OBVIOUS
  <1>2. a[Len(s) + 1] = x /\ \A i \in 1..Len(s) : a[i] = s[i]
    OBVIOUS
  <1>3. \A i \in 1..Len(a) : i \in 1..Len(s) \/ i = Len(s) + 1
    BY <1>1
  <1>4. \A i \in 1..Len(s) : s[i].nonce \in seen
    BY DEF Agree
  <1>5. \A i, j \in 1..Len(a) : a[i].nonce = a[j].nonce => i = j
    BY <1>2, <1>3, <1>4 DEF Agree
  <1>6. \A n \in seen : \E i \in 1..Len(a) : a[i].nonce = n
    BY <1>1, <1>2 DEF Agree
  <1>7. \E i \in 1..Len(a) : a[i].nonce = x.nonce
    BY <1>1, <1>2
  <1>8. \A i \in 1..Len(a) : a[i].nonce \in seen \union {x.nonce}
    BY <1>2, <1>3, <1>4
  <1> QED
    BY <1>5, <1>6, <1>7, <1>8 DEF Agree

\* When map and order agree, the map has as many keys as the order has entries: what
\* the eviction loop counts in one is what it removes from the other.
LEMMA AgreeCounts ==
  ASSUME NEW s \in Seq(Entry), NEW seen, Agree(seen, s)
  PROVE  IsFiniteSet(seen) /\ Cardinality(seen) = Len(s)
  <1> DEFINE f == [i \in 1..Len(s) |-> s[i].nonce]
  <1>1. Len(s) \in Nat
    OBVIOUS
  <1>2. f \in Bijection(1..Len(s), seen)
    BY DEF Agree, Bijection, Injection, Surjection, IsInjective
  <1>3. ExistsBijection(1..Len(s), seen)
    BY <1>2 DEF ExistsBijection
  <1>4. IsFiniteSet(1..Len(s)) /\ Cardinality(1..Len(s)) = Len(s)
    <2>1. /\ IsFiniteSet(1..Len(s))
          /\ Cardinality(1..Len(s)) = IF 1 > Len(s) THEN 0 ELSE Len(s) - 1 + 1
      <3> DEFINE len == Len(s)
      <3>1. 1 \in Int /\ len \in Int
        BY <1>1
      <3> HIDE DEF len
      <3>2. IsFiniteSet(1..len) /\ Cardinality(1..len) = IF 1 > len THEN 0 ELSE len - 1 + 1
        BY <3>1, FS_Interval, Zenon
      <3> QED
        BY <3>2 DEF len
    <2> QED
      BY <1>1, <2>1
  <1> QED
    BY <1>3, <1>4, FS_Bijection

-----------------------------------------------------------------------------
\* A handler that holds a request knows it, and the time it has read is not in
\* the future.
HandlersSound ==
  \A h \in Handlers : /\ pc[h] # "idle" => request[h] \in Nonces
                      /\ now[h] <= clock

\* The entry of a nonce carries the time of its latest acceptance.
EntriesAreLatest ==
  \A i \in 1..Len(nonceOrder) : acceptedAt[nonceOrder[i].nonce] = nonceOrder[i].addedAt

\* The inductive invariant.
IInv ==
  /\ TypeOK
  /\ HandlersSound
  /\ MapMatchesOrder
  /\ EntriesAreLatest
  /\ RecentNonceIsRemembered
  /\ SingleKey

\* What the critical section of nonceMu does to the cache up to the lookup: the
\* sweep keeps map and order in agreement, and drops only entries that are a full
\* nonceTTL old on the clock.
LEMMA SweepLemma ==
  ASSUME TypeOK, HandlersSound, MapMatchesOrder, EntriesAreLatest,
         NEW h \in Handlers, NEW k \in 0..Len(nonceOrder), SweepDrops(now[h], k)
  PROVE  /\ DropHead(nonceOrder, k) \in Seq(Entry)
         /\ Agree(seenNonces \ HeadNonces(nonceOrder, k), DropHead(nonceOrder, k))
         /\ \A n \in HeadNonces(nonceOrder, k) : clock >= acceptedAt[n] + TTL
         /\ \A i \in 1..Len(DropHead(nonceOrder, k)) :
              acceptedAt[DropHead(nonceOrder, k)[i].nonce] = DropHead(nonceOrder, k)[i].addedAt
  <1> DEFINE order == DropHead(nonceOrder, k)
  <1>1. nonceOrder \in Seq(Entry) /\ Len(nonceOrder) \in Nat
    BY DEF TypeOK
  <1>2. order \in Seq(Entry) /\ Len(order) = Len(nonceOrder) - k
    BY <1>1, DropHeadLemma
  <1>3. Agree(seenNonces \ HeadNonces(nonceOrder, k), order)
    BY <1>1, DropAgrees DEF MapMatchesOrder
  <1>4. ASSUME NEW i \in 1..k PROVE clock >= acceptedAt[nonceOrder[i].nonce] + TTL
    <2>1. nonceOrder[i] \in Entry /\ i \in 1..Len(nonceOrder)
      BY <1>1
    <2>2. nonceOrder[i].addedAt \in Int
      BY <2>1, TimeFacts DEF Entry
    <2>3. nonceOrder[i].addedAt <= now[h] - TTL
      BY <1>4 DEF SweepDrops
    <2>4. now[h] \in Int /\ clock \in Int /\ now[h] <= clock
      BY TimeFacts DEF TypeOK, HandlersSound
    <2>5. acceptedAt[nonceOrder[i].nonce] = nonceOrder[i].addedAt
      BY <2>1 DEF EntriesAreLatest
    <2> QED
      BY <2>2, <2>3, <2>4, <2>5, TimeFacts
  <1>5. ASSUME NEW i \in 1..Len(order) PROVE acceptedAt[order[i].nonce] = order[i].addedAt
    <2>1. i \in 1..(Len(nonceOrder) - k) /\ i + k \in 1..Len(nonceOrder)
      BY <1>1, <1>2
    <2>2. order[i] = nonceOrder[i + k]
      BY <1>1, <2>1, DropHeadLemma
    <2> QED
      BY <2>1, <2>2 DEF EntriesAreLatest
  <1> QED
    BY <1>2, <1>3, <1>4, <1>5 DEF HeadNonces

\* The cache lookup that refuses a repeated nonce preserves the invariant.
LEMMA RejectReplayIInv ==
  ASSUME IInv, NEW h \in Handlers, RejectReplay(h)
  PROVE  IInv'
  <1> USE DEF IInv
  <1>1. PICK k \in 0..Len(nonceOrder) :
          /\ SweepDrops(now[h], k)
          /\ seenNonces' = seenNonces \ HeadNonces(nonceOrder, k)
          /\ nonceOrder' = DropHead(nonceOrder, k)
    BY DEF RejectReplay
  <1>2. /\ nonceOrder' \in Seq(Entry)
        /\ Agree(seenNonces', nonceOrder')
        /\ \A n \in HeadNonces(nonceOrder, k) : clock >= acceptedAt[n] + TTL
        /\ \A i \in 1..Len(nonceOrder') :
             acceptedAt[nonceOrder'[i].nonce] = nonceOrder'[i].addedAt
    BY <1>1, SweepLemma
  <1>3. /\ pc' = [pc EXCEPT ![h] = "idle"]
        /\ request' = [request EXCEPT ![h] = NoRequest]
        /\ now' = [now EXCEPT ![h] = 0]
        /\ lastCleanup' = SweptAt(now[h])
        /\ UNCHANGED <<clock, stamp, publicKey, acceptedAt, evicted, enrolled>>
    BY DEF RejectReplay, historyVars
  <1>4. TypeOK'
    BY <1>1, <1>2, <1>3, TimeFacts DEF TypeOK, SweptAt
  <1>5. HandlersSound'
    <2>1. clock >= 0
      BY TimeAssumption DEF TypeOK, Time
    <2> QED
      BY <1>3, <2>1 DEF HandlersSound, TypeOK
  <1>6. MapMatchesOrder' /\ EntriesAreLatest'
    BY <1>2, <1>3 DEF MapMatchesOrder, EntriesAreLatest, Agree
  <1>7. RecentNonceIsRemembered'
    <2> SUFFICES ASSUME NEW n \in Nonces, acceptedAt[n] # Never, n \notin evicted,
                        clock < acceptedAt[n] + TTL
                 PROVE  n \in seenNonces'
      BY <1>3 DEF RecentNonceIsRemembered
    <2>1. n \in seenNonces
      BY DEF RecentNonceIsRemembered
    <2>2. acceptedAt[n] \in Int /\ clock \in Int
      BY TimeFacts DEF TypeOK, Never
    <2>3. n \notin HeadNonces(nonceOrder, k)
      BY <1>2, <2>2, TimeFacts
    <2> QED
      BY <1>1, <2>1, <2>3
  <1>8. SingleKey'
    BY <1>3 DEF SingleKey
  <1> QED
    BY <1>4, <1>5, <1>6, <1>7, <1>8

\* The cache lookup that accepts and records a nonce preserves the invariant.
LEMMA RecordNonceIInv ==
  ASSUME IInv, NEW h \in Handlers, RecordNonce(h)
  PROVE  IInv'
  <1> USE DEF IInv
  <1> DEFINE n == request[h]
             x == [nonce |-> n, addedAt |-> now[h]]
  <1>0. n \in Nonces /\ now[h] \in Time /\ x \in Entry
    BY DEF RecordNonce, HandlersSound, TypeOK, Entry
  <1>1. PICK k \in 0..Len(nonceOrder) :
          /\ SweepDrops(now[h], k)
          /\ n \notin seenNonces \ HeadNonces(nonceOrder, k)
          /\ \E e \in 0..Len(DropHead(nonceOrder, k)) :
               LET order == DropHead(nonceOrder, k)
                   seen  == seenNonces \ HeadNonces(nonceOrder, k)
               IN  /\ seenNonces' = (seen \ HeadNonces(order, e)) \union {n}
                   /\ nonceOrder' = Append(DropHead(order, e), x)
                   /\ evicted' = (evicted \union HeadNonces(order, e)) \ {n}
    BY DEF RecordNonce
  <1> DEFINE order == DropHead(nonceOrder, k)
             seen  == seenNonces \ HeadNonces(nonceOrder, k)
  <1>2. PICK e \in 0..Len(order) :
          /\ seenNonces' = (seen \ HeadNonces(order, e)) \union {n}
          /\ nonceOrder' = Append(DropHead(order, e), x)
          /\ evicted' = (evicted \union HeadNonces(order, e)) \ {n}
    BY <1>1
  <1> DEFINE kept == DropHead(order, e)
  <1>3. /\ order \in Seq(Entry)
        /\ Agree(seen, order)
        /\ \A m \in HeadNonces(nonceOrder, k) : clock >= acceptedAt[m] + TTL
        /\ \A i \in 1..Len(order) : acceptedAt[order[i].nonce] = order[i].addedAt
    BY <1>1, SweepLemma
  <1>4. /\ kept \in Seq(Entry) /\ Len(kept) = Len(order) - e
        /\ Agree(seen \ HeadNonces(order, e), kept)
        /\ \A i \in 1..(Len(order) - e) : kept[i] = order[i + e]
    BY <1>3, DropHeadLemma, DropAgrees
  <1>5. /\ Agree(seenNonces', nonceOrder') /\ nonceOrder' \in Seq(Entry)
        /\ Len(nonceOrder') = Len(kept) + 1 /\ nonceOrder'[Len(kept) + 1] = x
        /\ \A i \in 1..Len(kept) : nonceOrder'[i] = kept[i]
    <2> DEFINE rest == seen \ HeadNonces(order, e)
    <2>1. kept \in Seq(Entry) /\ x \in Entry /\ Agree(rest, kept)
      BY <1>0, <1>4
    <2>2. x.nonce = n /\ n \notin rest
      BY <1>1
    <2>3. seenNonces' = rest \union {x.nonce} /\ nonceOrder' = Append(kept, x)
      BY <1>2, <2>2
    <2> HIDE DEF kept, rest, x
    <2>4. Agree(rest \union {x.nonce}, Append(kept, x))
      BY <2>1, <2>2, AppendAgrees
    <2>5. /\ Append(kept, x) \in Seq(Entry) /\ Len(Append(kept, x)) = Len(kept) + 1
          /\ Append(kept, x)[Len(kept) + 1] = x
          /\ \A i \in 1..Len(kept) : Append(kept, x)[i] = kept[i]
      BY <2>1
    <2> QED
      BY <2>3, <2>4, <2>5
  <1>6. /\ acceptedAt' = [acceptedAt EXCEPT ![n] = now[h]]
        /\ pc' = [pc EXCEPT ![h] = IF n \in Enrolments THEN "enroll" ELSE "body"]
        /\ lastCleanup' = SweptAt(now[h])
        /\ UNCHANGED <<clock, stamp, publicKey, request, now, enrolled>>
    BY DEF RecordNonce
  <1>7. HeadNonces(order, e) \subseteq Nonces /\ seenNonces' \subseteq Nonces
    <2>1. \A i \in 1..e : order[i] \in Entry
      BY <1>3
    <2>2. HeadNonces(order, e) \subseteq Nonces
      BY <2>1, Zenon DEF HeadNonces, Entry
    <2> QED
      BY <1>0, <1>2, <2>2 DEF TypeOK
  <1>8. TypeOK'
    BY <1>0, <1>2, <1>5, <1>6, <1>7, TimeFacts DEF TypeOK, SweptAt
  <1>9. HandlersSound'
    BY <1>0, <1>6 DEF HandlersSound, TypeOK
  <1>10. MapMatchesOrder'
    BY <1>5 DEF MapMatchesOrder, Agree
  <1>11. EntriesAreLatest'
    <2> SUFFICES ASSUME NEW i \in 1..Len(nonceOrder')
                 PROVE  acceptedAt'[nonceOrder'[i].nonce] = nonceOrder'[i].addedAt
      BY DEF EntriesAreLatest
    <2>1. CASE i = Len(kept) + 1
      <3>1. nonceOrder'[i] = x
        BY <1>5, <2>1
      <3> QED
        BY <1>0, <1>6, <3>1 DEF TypeOK
    <2>2. CASE i # Len(kept) + 1
      <3>0. Len(kept) \in Nat /\ Len(nonceOrder') = Len(kept) + 1
        BY <1>4, <1>5
      <3>1. i \in 1..Len(kept) /\ nonceOrder'[i] = kept[i]
        <4> HIDE DEF kept
        <4> QED
          BY <3>0, <1>5, <2>2
      <3>2. i + e \in 1..Len(order) /\ kept[i] = order[i + e]
        BY <1>3, <1>4, <3>1
      <3>3. order[i + e].nonce \in seen
        BY <1>3, <3>2 DEF Agree
      <3>4. order[i + e].nonce # n /\ order[i + e].nonce \in Nonces
        BY <1>1, <3>3 DEF TypeOK
      <3> QED
        BY <1>0, <1>3, <1>6, <3>1, <3>2, <3>4 DEF TypeOK
    <2> QED
      BY <2>1, <2>2
  <1>12. RecentNonceIsRemembered'
    <2> SUFFICES ASSUME NEW m \in Nonces, acceptedAt'[m] # Never, m \notin evicted',
                        clock < acceptedAt'[m] + TTL
                 PROVE  m \in seenNonces'
      BY <1>6 DEF RecentNonceIsRemembered
    <2>1. CASE m = n
      BY <1>2, <2>1
    <2>2. CASE m # n
      <3>1. acceptedAt'[m] = acceptedAt[m] /\ m \notin evicted /\ m \notin HeadNonces(order, e)
        BY <1>0, <1>2, <1>6, <2>2 DEF TypeOK
      <3>2. m \in seenNonces
        BY <3>1 DEF RecentNonceIsRemembered
      <3>3. acceptedAt[m] \in Int /\ clock \in Int
        BY TimeFacts DEF TypeOK, Never
      <3>4. m \notin HeadNonces(nonceOrder, k)
        BY <1>3, <3>1, <3>3, TimeFacts
      <3> QED
        BY <1>2, <3>1, <3>2, <3>4
    <2> QED
      BY <2>1, <2>2
  <1>13. SingleKey'
    BY <1>6 DEF SingleKey
  <1> QED
    BY <1>8, <1>9, <1>10, <1>11, <1>12, <1>13

\* A step that leaves cache and history alone, and keeps the key once there is one,
\* preserves the parts of the invariant about the cache.
LEMMA CacheUntouched ==
  ASSUME IInv, UNCHANGED <<cacheVars, historyVars>>, clock' \in Time, clock' >= clock
  PROVE  MapMatchesOrder' /\ EntriesAreLatest' /\ RecentNonceIsRemembered'
  <1>1. UNCHANGED <<seenNonces, nonceOrder, acceptedAt, evicted>>
    BY DEF cacheVars, historyVars
  <1>2. MapMatchesOrder' /\ EntriesAreLatest'
    BY <1>1 DEF IInv, MapMatchesOrder, EntriesAreLatest, Agree
  <1>3. ASSUME NEW n \in Nonces, acceptedAt[n] # Never, n \notin evicted,
               clock' < acceptedAt[n] + TTL
        PROVE  n \in seenNonces
    <2>1. acceptedAt[n] \in Int /\ clock \in Int /\ clock' \in Int
      BY TimeFacts DEF IInv, TypeOK, Never
    <2>2. clock < acceptedAt[n] + TTL
      BY <1>3, <2>1, TimeFacts
    <2> QED
      BY <1>3, <2>2 DEF IInv, RecentNonceIsRemembered
  <1> QED
    BY <1>1, <1>2, <1>3 DEF RecentNonceIsRemembered

\* Admitting a request preserves the invariant.
LEMMA AdmitIInv ==
  ASSUME IInv, NEW h \in Handlers, NEW n \in Nonces, Admit(h, n)
  PROVE  IInv'
  <1> USE DEF IInv
  <1>1. clock' \in Time /\ clock' >= clock /\ clock \in Int
    BY TimeFacts DEF Admit, TypeOK
  <1>2. MapMatchesOrder' /\ EntriesAreLatest' /\ RecentNonceIsRemembered'
    BY <1>1, CacheUntouched DEF Admit
  <1>3. TypeOK'
    BY DEF Admit, TypeOK, cacheVars, historyVars
  <1>4. HandlersSound'
    BY <1>1 DEF Admit, HandlersSound, TypeOK
  <1> QED
    BY <1>2, <1>3, <1>4 DEF Admit, SingleKey

\* A handler that ends preserves the invariant when it leaves the key as it was,
\* or enrols the first one.
LEMMA FinishIInv ==
  ASSUME IInv, NEW h \in Handlers, Finish(h),
         publicKey' \in Keys \union {NoKey}, enrolled' \subseteq Keys, SingleKey'
  PROVE  IInv'
  <1> USE DEF IInv
  <1>1. clock' \in Time /\ clock' >= clock /\ clock >= 0
    BY TimeFacts, TimeAssumption DEF Finish, TypeOK, Time
  <1>2. MapMatchesOrder' /\ EntriesAreLatest' /\ RecentNonceIsRemembered'
    BY <1>1, CacheUntouched DEF Finish
  <1>3. TypeOK'
    BY TimeFacts DEF Finish, TypeOK, cacheVars, historyVars
  <1>4. HandlersSound'
    BY <1>1 DEF Finish, HandlersSound, TypeOK
  <1> QED
    BY <1>2, <1>3, <1>4

LEMMA InitIInv == Init => IInv
  <1> SUFFICES ASSUME Init PROVE IInv
    OBVIOUS
  <1>1. TypeOK
    BY TimeFacts DEF Init, TypeOK
  <1>2. HandlersSound
    BY DEF Init, HandlersSound
  <1>3. MapMatchesOrder /\ EntriesAreLatest
    BY DEF Init, MapMatchesOrder, EntriesAreLatest, Agree
  <1>4. RecentNonceIsRemembered /\ SingleKey
    BY DEF Init, RecentNonceIsRemembered, SingleKey
  <1> QED
    BY <1>1, <1>2, <1>3, <1>4 DEF IInv

LEMMA NextIInv == IInv /\ [Next]_vars => IInv'
  <1> SUFFICES ASSUME IInv, [Next]_vars PROVE IInv'
    OBVIOUS
  <1>0. clock \in Int /\ clock \in Time
    BY TimeFacts DEF IInv, TypeOK
  <1>1. CASE Tick
    <2>1. clock' \in Time /\ clock' >= clock
      BY <1>0, <1>1, TimeFacts DEF Tick
    <2>2. MapMatchesOrder' /\ EntriesAreLatest' /\ RecentNonceIsRemembered'
      BY <1>1, <2>1, CacheUntouched DEF Tick
    <2>3. TypeOK'
      BY <1>1, <2>1 DEF Tick, IInv, TypeOK, cacheVars, handlerVars, historyVars
    <2>4. HandlersSound'
      <3>1. \A h \in Handlers : now[h] \in Int /\ now[h] <= clock
        BY TimeFacts DEF IInv, TypeOK, HandlersSound
      <3>2. clock' = clock + 1 /\ UNCHANGED <<pc, request, now>>
        BY <1>1 DEF Tick, handlerVars
      <3> QED
        BY <1>0, <3>1, <3>2 DEF IInv, HandlersSound
    <2> QED
      BY <1>1, <2>2, <2>3, <2>4 DEF Tick, IInv, SingleKey
  <1>2. ASSUME NEW h \in Handlers, NEW n \in Nonces, CheckRequest(h, n) \/ CheckEnrolment(h, n)
        PROVE  IInv'
    BY <1>2, AdmitIInv DEF CheckRequest, CheckEnrolment
  <1>3. ASSUME NEW h \in Handlers, RejectReplay(h) PROVE IInv'
    BY <1>3, RejectReplayIInv
  <1>4. ASSUME NEW h \in Handlers, RecordNonce(h) PROVE IInv'
    BY <1>4, RecordNonceIInv
  <1>5. ASSUME NEW h \in Handlers, ReadBody(h) PROVE IInv'
    BY <1>5, FinishIInv DEF ReadBody, IInv, TypeOK, SingleKey
  <1>6. ASSUME NEW h \in Handlers, EnrollKey(h) PROVE IInv'
    <2>1. Finish(h) /\ Signer[request[h]] \in Keys /\ Signer[request[h]] # NoKey
      BY <1>6, KeyAssumption DEF EnrollKey, IInv, HandlersSound
    <2>2. CASE publicKey = NoKey
      <3>1. enrolled = {}
        BY <2>2, KeyAssumption DEF IInv, SingleKey, TypeOK
      <3>2. publicKey' = Signer[request[h]] /\ enrolled' = {Signer[request[h]]}
        BY <1>6, <2>2, <3>1 DEF EnrollKey
      <3> QED
        BY <2>1, <3>2, FinishIInv DEF SingleKey
    <2>3. CASE publicKey # NoKey
      BY <1>6, <2>1, <2>3, FinishIInv DEF EnrollKey, IInv, TypeOK, SingleKey
    <2> QED
      BY <2>2, <2>3
  <1>7. CASE UNCHANGED vars
    <2>1. clock' \in Time /\ clock' >= clock /\ UNCHANGED <<cacheVars, historyVars>>
      BY <1>0, <1>7 DEF vars
    <2>2. MapMatchesOrder' /\ EntriesAreLatest' /\ RecentNonceIsRemembered'
      BY <2>1, CacheUntouched
    <2> QED
      BY <1>7, <2>2 DEF vars, IInv, TypeOK, HandlersSound, SingleKey,
                        cacheVars, handlerVars, historyVars
  <1> QED
    BY <1>1, <1>2, <1>3, <1>4, <1>5, <1>6, <1>7 DEF Next, HandlerStep, Refuse

-----------------------------------------------------------------------------
\* The inductive invariant holds in every reachable state of the verifier.
THEOREM IInvHolds == Spec => []IInv
  BY InitIInv, NextIInv, PTL DEF Spec

\* Type correctness of the verifier's state and of the handlers' locals.
THEOREM TypeCorrect == Spec => []TypeOK
  <1>1. IInv => TypeOK
    BY DEF IInv
  <1> QED
    BY <1>1, IInvHolds, PTL

\* The two data structures of the nonce cache never drift apart, for any cache size
\* and any interleaving of sweeps, evictions and stale clock readings.
THEOREM CacheConsistent == Spec => []MapMatchesOrder
  <1>1. IInv => MapMatchesOrder
    BY DEF IInv
  <1> QED
    BY <1>1, IInvHolds, PTL

\* An accepted nonce stays in the cache for nonceTTL unless saturation evicts it.
THEOREM NonceRemembered == Spec => []RecentNonceIsRemembered
  <1>1. IInv => RecentNonceIsRemembered
    BY DEF IInv
  <1> QED
    BY <1>1, IInvHolds, PTL

\* One step of any handler keeps the nonce cache within its size: the sweep only
\* shortens it, and the eviction loop leaves room for the entry that is recorded.
LEMMA NextBounded == IInv /\ CacheIsBounded /\ [Next]_vars => CacheIsBounded'
  <1> SUFFICES ASSUME IInv, CacheIsBounded, [Next]_vars PROVE CacheIsBounded'
    OBVIOUS
  <1>0. nonceOrder \in Seq(Entry) /\ Len(nonceOrder) \in Nat /\ CacheSize \in Nat \ {0}
    BY CacheAssumption DEF IInv, TypeOK
  <1>i. IInv'
    BY NextIInv
  <1>s. SUFFICES Len(nonceOrder') <= CacheSize
    BY <1>i, AgreeCounts DEF CacheIsBounded, IInv, TypeOK, MapMatchesOrder, Agree
  <1>1. ASSUME NEW h \in Handlers, RejectReplay(h) PROVE Len(nonceOrder') <= CacheSize
    <2>1. PICK k \in 0..Len(nonceOrder) : nonceOrder' = DropHead(nonceOrder, k)
      BY <1>1 DEF RejectReplay
    <2> QED
      BY <1>0, <2>1, DropHeadLemma DEF CacheIsBounded
  <1>2. ASSUME NEW h \in Handlers, RecordNonce(h) PROVE Len(nonceOrder') <= CacheSize
    <2>1. PICK k \in 0..Len(nonceOrder) :
            /\ SweepDrops(now[h], k)
            /\ \E e \in 0..Len(DropHead(nonceOrder, k)) :
                 LET order == DropHead(nonceOrder, k)
                     seen  == seenNonces \ HeadNonces(nonceOrder, k)
                 IN  /\ EvictDrops(order, seen, e)
                     /\ nonceOrder' = Append(DropHead(order, e),
                                            [nonce |-> request[h], addedAt |-> now[h]])
      BY <1>2 DEF RecordNonce
    <2> DEFINE order == DropHead(nonceOrder, k)
               seen  == seenNonces \ HeadNonces(nonceOrder, k)
    <2>2. PICK e \in 0..Len(order) :
            /\ EvictDrops(order, seen, e)
            /\ nonceOrder' = Append(DropHead(order, e),
                                   [nonce |-> request[h], addedAt |-> now[h]])
      BY <2>1
    <2> DEFINE kept == DropHead(order, e)
    <2>3. order \in Seq(Entry) /\ Agree(seen, order)
      BY <2>1, SweepLemma DEF IInv
    <2>4. /\ kept \in Seq(Entry) /\ Len(kept) = Len(order) - e /\ Len(order) \in Nat
          /\ Agree(seen \ HeadNonces(order, e), kept)
      <3> HIDE DEF order, seen
      <3> QED
        BY <2>3, DropHeadLemma, DropAgrees
    <2>5. Cardinality(seen \ HeadNonces(order, e)) = Len(kept)
      BY <2>4, AgreeCounts
    <2>6. e < Len(order) => Cardinality(seen \ HeadNonces(order, e)) < CacheSize
      BY <2>2 DEF EvictDrops
    <2>7. Len(kept) < CacheSize
      BY <1>0, <2>4, <2>5, <2>6
    <2>8. Len(nonceOrder') = Len(kept) + 1
      <3> DEFINE x == [nonce |-> request[h], addedAt |-> now[h]]
      <3>1. x \in Entry
        BY <1>2 DEF RecordNonce, IInv, HandlersSound, TypeOK, Entry
      <3>2. nonceOrder' = Append(kept, x)
        BY <2>2
      <3> HIDE DEF kept, x
      <3>3. kept \in Seq(Entry)
        BY <2>4
      <3>4. Len(Append(kept, x)) = Len(kept) + 1
        BY <3>1, <3>3
      <3> QED
        BY <3>2, <3>4, Zenon
    <2> QED
      BY <1>0, <2>4, <2>7, <2>8
  <1>3. CASE UNCHANGED nonceOrder
    BY <1>3 DEF CacheIsBounded
  <1> QED
    BY <1>1, <1>2, <1>3
    DEF Next, HandlerStep, Tick, CheckRequest, CheckEnrolment, Refuse, Admit, ReadBody, EnrollKey,
        Finish, cacheVars, vars

\* The nonce cache never grows past maxNonceCacheSize, whatever mix of stale clock
\* readings, sweeps and evictions the handlers bring.
THEOREM CacheBounded == Spec => []CacheIsBounded
  <1>1. Init => CacheIsBounded
    BY CacheAssumption, FS_EmptySet DEF Init, CacheIsBounded
  <1> QED
    BY <1>1, IInvHolds, NextBounded, PTL DEF Spec

\* Racing enrollment handlers report at most one key as enrolled, and it is the one
\* the verifier uses.
THEOREM OneKeyEnrolled == Spec => []SingleKey
  <1>1. IInv => SingleKey
    BY DEF IInv
  <1> QED
    BY <1>1, IInvHolds, PTL

\* No step of any handler replaces an enrolled key.
THEOREM KeyNeverChanges == Spec => KeyIsLatched
  <1>1. [Next]_vars => [publicKey # NoKey => publicKey' = publicKey]_vars
    BY DEF Next, HandlerStep, Tick, CheckRequest, CheckEnrolment, Refuse, Admit, RejectReplay,
           RecordNonce, ReadBody, EnrollKey, vars
  <1> QED
    BY <1>1, PTL DEF Spec, KeyIsLatched

\* A request repeated within nonceTTL of its acceptance is refused by every handler,
\* unless its nonce was evicted.
THEOREM ReplayRefused == Spec => NoEarlyReacceptance
  <1> DEFINE Step == \A n \in Nonces : Accepts(n) => \/ acceptedAt[n] = Never
                                                     \/ n \in evicted
                                                     \/ clock >= acceptedAt[n] + TTL
  <1>1. IInv /\ [Next]_vars => [Step]_vars
    <2> SUFFICES ASSUME IInv, Next, NEW n \in Nonces, Accepts(n),
                        acceptedAt[n] # Never, n \notin evicted
                 PROVE  clock >= acceptedAt[n] + TTL
      OBVIOUS
    <2>1. PICK h \in Handlers : pc[h] = "nonce" /\ request[h] = n /\ pc'[h] \in {"body", "enroll"}
      BY DEF Accepts
    <2>2. RecordNonce(h)
      <3>1. ~Tick
        BY <2>1 DEF Tick, handlerVars
      <3>2. PICK g \in Handlers : HandlerStep(g)
        BY <3>1 DEF Next
      <3>3. ASSUME NEW m \in Nonces, CheckRequest(g, m) \/ CheckEnrolment(g, m) \/ Refuse(g, m)
            PROVE  FALSE
        BY <2>1, <3>3 DEF CheckRequest, CheckEnrolment, Refuse, Admit, IInv, TypeOK, vars,
                          handlerVars
      <3>4. ~RejectReplay(g)
        BY <2>1 DEF RejectReplay, IInv, TypeOK
      <3>5. ~ReadBody(g) /\ ~EnrollKey(g)
        BY <2>1 DEF ReadBody, EnrollKey, Finish, IInv, TypeOK
      <3>6. RecordNonce(g)
        BY <3>2, <3>3, <3>4, <3>5 DEF HandlerStep
      <3>7. g = h
        BY <2>1, <3>6 DEF RecordNonce, IInv, TypeOK
      <3> QED
        BY <3>6, <3>7
    <2>3. PICK k \in 0..Len(nonceOrder) :
            SweepDrops(now[h], k) /\ n \notin seenNonces \ HeadNonces(nonceOrder, k)
      BY <2>1, <2>2 DEF RecordNonce
    <2>4. \A m \in HeadNonces(nonceOrder, k) : clock >= acceptedAt[m] + TTL
      BY <2>3, SweepLemma DEF IInv
    <2>5. acceptedAt[n] \in Int /\ clock \in Int /\ TTL \in Int
      BY TimeFacts DEF IInv, TypeOK, Never
    <2>6. CASE n \in seenNonces
      BY <2>3, <2>4, <2>6
    <2>7. CASE n \notin seenNonces
      BY <2>5, <2>7 DEF IInv, RecentNonceIsRemembered
    <2> QED
      BY <2>6, <2>7
  <1> QED
    BY <1>1, IInvHolds, PTL DEF Spec, NoEarlyReacceptance

==============================================================================
