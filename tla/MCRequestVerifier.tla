-------------------------- MODULE MCRequestVerifier --------------------------
(* Model checking of RequestVerifier.                                        *)
EXTENDS RequestVerifier, TLC

CONSTANTS n1, n2, n3, n4, k1, k2

\* Two clients that try to enroll, and two requests of the first of them.
TwoClients == [n \in {n1, n2, n3, n4} |-> IF n = n2 THEN k2 ELSE k1]

\* Handlers are interchangeable, and so are the two requests.
TwoClientSymmetry == Permutations({n3, n4}) \union Permutations(Handlers)

==============================================================================
