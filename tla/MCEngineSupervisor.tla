------------------------- MODULE MCEngineSupervisor -------------------------
(* Model checking of EngineSupervisor.                                      *)
EXTENDS EngineSupervisor

CONSTANTS m1, m2

Request(m, e, ok) == [model |-> m, expose |-> e, valid |-> ok]

\* A public model, and a request for another with bad fields.
OneModel == {Request(m1, TRUE, TRUE), Request(m2, FALSE, FALSE)}
=============================================================================
