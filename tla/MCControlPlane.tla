--------------------------- MODULE MCControlPlane ---------------------------
(***************************************************************************)
(* Request mixes for ControlPlane.                                         *)
(***************************************************************************)
EXTENDS ControlPlane, TLC

CONSTANTS h1, h2, m1, m2

Guarded(e, n) == [kind : {"guarded"}, endpoint : {e}, nonce : {n}, signed : BOOLEAN]
Seal(f)       == [kind |-> "seal", force |-> f, signed |-> TRUE]
Load(m, x)    == [kind |-> "load", model |-> m, expose |-> x, signed |-> TRUE]

NoFields   == [e \in Endpoints |-> "absent"]
All(s)     == [kind |-> "policy", all |-> s, each |-> NoFields, signed |-> TRUE]
HideSome == [kind |-> "policy", all |-> "absent", signed |-> TRUE,
               each |-> [NoFields EXCEPT !["attestation"] = "hidden", !["health"] = "hidden",
                                         !["probe_egress"] = "invalid"]]
Enroll     == [kind |-> "enroll"]

\* The guard against enrollment, policy changes and the seal, and attestation
\* requests that compete for a slot.
GuardMix == Guarded("health", "none") \union Guarded("attestation", "good")
            \union {[kind |-> "guarded", endpoint |-> "attestation", nonce |-> n, signed |-> FALSE] :
                     n \in {"bad", "none"}}
            \union {[kind |-> "guarded", endpoint |-> e, nonce |-> "none", signed |-> FALSE] :
                     e \in {"certificate", "probe_egress"}}
            \union {Seal(TRUE), Enroll, All("public"), All("invalid"), HideSome}

\* Loads against the seal.
LoadMix == {Seal(TRUE), Seal(FALSE), Load(m1, TRUE), Load(m2, FALSE)}

HandlerSymmetry == Permutations({h1, h2})
=============================================================================
