---------------------------- MODULE KeyDiscovery ----------------------------
(***************************************************************************)
(* DiscoverAuthorizedPublicKey (pkg/auth/metadata.go): the tenant key from *)
(* the environment, the metadata service or a file.  The service is asked  *)
(* up to ten times, under two addresses, for three attributes, because the *)
(* network may still be settling; each lookup may fail by itself.  Without *)
(* a key the node accepts the first one enrolled over the network.         *)
(***************************************************************************)
EXTENDS Integers, Sequences, FiniteSets

CONSTANTS
  Provisionings,  \* what the deployment has put where
  Keys,
  NoKey,
  MaxAttempts     \* rounds over the metadata service (10)

ASSUME KeyAssumption == NoKey \notin Keys
ASSUME AttemptsAssumption == MaxAttempts \in Nat \ {0}

\* A source is absent (or blank) or holds a text: 64 hex digits, an OpenSSH line, or
\* something else.
Texts == [form : {"absent", "hex", "openssh", "other"}, key : Keys]

\* ParsePublicKeyHex
Parse(text) == IF text.form \in {"hex", "openssh"} THEN text.key ELSE NoKey

Attributes == <<"cevell-auth-pub", "auth-pub", "ssh-keys">>
FilePaths  == 1..3

ASSUME ProvisioningAssumption ==
  Provisionings \subseteq [env : Texts, attrs : [1..3 -> Texts], files : [FilePaths -> Texts]]

VARIABLES
  keyPc,        \* "off", "env", "metadata", "files", "done"
  provisioned,  \* the sources
  attempt,
  lookup,       \* position in the loops over addresses and attributes
  authKey,      \* the key found
  misses        \* history: lookups that failed although the attribute holds a key

keyVars == <<keyPc, provisioned, attempt, lookup, authKey, misses>>

\* Two addresses, and under each the attributes in their order.
Lookups == 1..(2 * Len(Attributes))
AttrAt(i) == ((i - 1) % Len(Attributes)) + 1

\* The lookups of one round that would find a key.
KeyLookups == {i \in Lookups : Parse(provisioned.attrs[AttrAt(i)]) # NoKey}

KeyTypeOK ==
  /\ keyPc \in {"off", "env", "metadata", "files", "done"}
  /\ provisioned \in Provisionings
  /\ attempt \in 1..MaxAttempts
  /\ lookup \in Lookups
  /\ authKey \in Keys \union {NoKey}
  /\ misses \in 0..(MaxAttempts * 2 * Len(Attributes))

KeyInit ==
  /\ keyPc = "off"
  /\ provisioned \in Provisionings
  /\ attempt = 1
  /\ lookup = 1
  /\ authKey = NoKey
  /\ misses = 0

-----------------------------------------------------------------------------
KeyStart ==
  /\ keyPc = "off"
  /\ keyPc' = "env"
  /\ UNCHANGED <<provisioned, attempt, lookup, authKey, misses>>

\* A key was found, or the search goes on at the next source.
Found(k, next) ==
  /\ authKey' = k
  /\ keyPc' = IF k # NoKey THEN "done" ELSE next

\* CEVELL_AUTH_PUB; one that cannot be parsed is logged and skipped.
ReadEnv ==
  /\ keyPc = "env"
  /\ Found(Parse(provisioned.env), "metadata")
  /\ UNCHANGED <<provisioned, attempt, lookup, misses>>

\* Mutant: one round over the service is enough.
NextLookupOnce ==
  IF lookup # 2 * Len(Attributes)
  THEN lookup' = lookup + 1 /\ UNCHANGED <<keyPc, attempt>>
  ELSE lookup' = 1 /\ keyPc' = "files" /\ UNCHANGED attempt

\* The next attribute, the next address, or the next attempt after 500 ms.
NextLookup ==
  IF lookup # 2 * Len(Attributes)
  THEN lookup' = lookup + 1 /\ UNCHANGED <<keyPc, attempt>>
  ELSE /\ lookup' = 1
       /\ IF attempt < MaxAttempts
          THEN attempt' = attempt + 1 /\ UNCHANGED keyPc
          ELSE keyPc' = "files" /\ UNCHANGED attempt

\* fetchGCPMetadataAttribute answers: the value, or 404.
LookupAnswered ==
  /\ keyPc = "metadata"
  /\ LET k == Parse(provisioned.attrs[AttrAt(lookup)])
     IN  \/ k # NoKey /\ Found(k, "done") /\ UNCHANGED <<attempt, lookup>>
         \/ k = NoKey /\ NextLookup /\ UNCHANGED authKey
  /\ UNCHANGED <<provisioned, misses>>

\* ... or there is no route, or the two seconds pass.
LookupFails ==
  /\ keyPc = "metadata"
  /\ NextLookup
  /\ misses' = misses + (IF lookup \in KeyLookups THEN 1 ELSE 0)
  /\ UNCHANGED <<provisioned, authKey>>

\* The first file that parses, or ErrNoPublicKeyFound.
FirstKey(texts) ==
  IF \E i \in DOMAIN texts : Parse(texts[i]) # NoKey
  THEN Parse(texts[CHOOSE i \in DOMAIN texts :
                     /\ Parse(texts[i]) # NoKey
                     /\ \A j \in DOMAIN texts : j < i => Parse(texts[j]) = NoKey])
  ELSE NoKey

ReadFiles ==
  /\ keyPc = "files"
  /\ Found(FirstKey(provisioned.files), "done")
  /\ UNCHANGED <<provisioned, attempt, lookup, misses>>

-----------------------------------------------------------------------------
(* Properties                                                              *)

\* The strict priority of the sources a deployment has: the three attributes, then the
\* files.  The loops implement it as long as no lookup of an attribute that holds a
\* key fails; if one does, the next attribute, or a file, wins.  Nothing is said of a
\* node with a key in CEVELL_AUTH_PUB: the code and its comment put the variable
\* before all other sources, src/README.md after them.
KeyFollowsPriority ==
  keyPc = "done" /\ misses = 0 /\ Parse(provisioned.env) = NoKey =>
    authKey = FirstKey(provisioned.attrs \o provisioned.files)

\* The node falls back to enrollment by whoever comes first only if no source holds
\* a key, or every single lookup of each attribute that holds one has failed, over
\* all attempts and both addresses.
KeyIsNotGivenUpEarly ==
  keyPc = "done" /\ authKey = NoKey =>
    /\ Parse(provisioned.env) = NoKey
    /\ FirstKey(provisioned.files) = NoKey
    /\ misses = MaxAttempts * Cardinality(KeyLookups)

\* What a deployment provides is honoured: in the order of priority, and not given up
\* before everything was tried.
ProvisionedKeyIsHonoured == KeyFollowsPriority /\ KeyIsNotGivenUpEarly
=============================================================================
