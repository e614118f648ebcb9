------------------------------- MODULE MCTrade -------------------------------
(* A hold of one ton and a ship of small numbers: a whole shield or a whole *)
(* hull is worth two units, a boost one.                                    *)
EXTENDS Trade

Merchandise == {"Firearms", "Narcotics", "Slaves", "Proton enhancer", "Wave emitter",
                "Shield upgrade", "Stinger rocket", "Fuel"}
Beginning   == [money |-> 2, fuel |-> 1]
=============================================================================
