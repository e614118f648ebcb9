----------------------------- MODULE MCSession -----------------------------
(* A galaxy of two planets one unit of fuel apart from each other.         *)
EXTENDS Session

CONSTANTS xen, torres

TwoPlanets == {xen, torres}
UnitCost   == [p \in TwoPlanets |-> [q \in TwoPlanets |-> IF p = q THEN 0 ELSE 1]]
============================================================================
