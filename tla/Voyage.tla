------------------------------- MODULE Voyage -------------------------------
(***************************************************************************)
(* What the session promises of the ship, without screens, clocks, waves   *)
(* or the order of the main loop: where the ship is, where it is headed    *)
(* and what the way costs.  Session implements it (Session!Voyage).        *)
(***************************************************************************)
EXTENDS Integers

CONSTANTS Planet, Home, NoPlanet, Cost, MaxFuel, StartFuel

VARIABLES
    phase,   \* "none" before a game, then "docked", "orbit", "hyper" or "lost"
    place,   \* the planet the ship is at
    dest,    \* the planet it is aimed at
    fuel,
    gauge    \* TRUE iff the fuel is the ship's own: a cut file has none

vars == <<phase, place, dest, fuel, gauge>>

InReach(from, to) == fuel >= Cost[from][to]

Init == phase = "none" /\ place = NoPlanet /\ dest = NoPlanet /\ fuel = 0
        /\ gauge = TRUE

\* A campaign begins, or a saved one is taken up: always in a dock.
Begin ==
    /\ phase' = "docked"
    /\ place' = Home /\ dest' = Home /\ fuel' = StartFuel /\ gauge' = TRUE

Restore ==
    /\ phase' = "docked"
    /\ place' \in Planet /\ dest' \in Planet \cup {NoPlanet}
    /\ fuel' \in 0..MaxFuel /\ gauge' \in BOOLEAN

\* From a cut file there may come no ship at all.
RestoreNothing ==
    /\ phase' = "none"
    /\ place' = NoPlanet /\ dest' \in Planet \cup {NoPlanet}
    /\ fuel' \in 0..MaxFuel /\ gauge' = FALSE

Launch ==
    /\ phase = "docked" /\ phase' = "orbit"
    /\ UNCHANGED <<place, dest, fuel, gauge>>

\* Choosing a destination within reach takes a pending jump back.
Aim ==
    /\ phase \in {"docked", "orbit", "hyper"}
    /\ \E p \in Planet : InReach(place, p) /\ dest' = p
    /\ phase' = IF phase = "hyper" THEN "orbit" ELSE phase
    /\ UNCHANGED <<place, fuel, gauge>>

BeginJump ==
    /\ phase = "orbit" /\ phase' = "hyper"
    /\ dest \in Planet \ {place} /\ InReach(place, dest)
    /\ UNCHANGED <<place, dest, fuel, gauge>>

CancelJump ==
    /\ phase = "hyper" /\ phase' = "orbit"
    /\ UNCHANGED <<place, dest, fuel, gauge>>

\* The only step that moves the ship, and the only flight that burns fuel.
Arrive ==
    /\ phase = "hyper" /\ phase' = "orbit"
    /\ place' = dest /\ UNCHANGED <<dest, gauge>>
    /\ fuel' = fuel - Cost[place][dest]

Refuel ==
    /\ phase = "docked"
    /\ \/ fuel' \in {fuel - 1, fuel + 1} /\ UNCHANGED gauge
       \/ fuel' = StartFuel /\ gauge' = TRUE
    /\ gauge => fuel' \in 0..MaxFuel
    /\ UNCHANGED <<phase, place, dest>>

\* What stands in for the fuel of a ship without is anybody's.
Drift ==
    /\ ~gauge /\ fuel' \in 0..MaxFuel
    /\ UNCHANGED <<phase, place, dest, gauge>>

Lose ==
    /\ phase \in {"orbit", "hyper"} /\ phase' = "lost"
    /\ UNCHANGED <<place, dest, fuel, gauge>>

\* The wreck of a lost ship still drifts into the dock: see
\* Session!GameOverIsFinal.
Dock ==
    /\ phase \in {"orbit", "lost"} /\ phase' = "docked"
    /\ UNCHANGED <<place, dest, fuel, gauge>>

Next ==
    \/ Begin \/ Restore \/ RestoreNothing
    \/ Launch \/ Aim \/ BeginJump \/ CancelJump \/ Arrive
    \/ Refuel \/ Drift \/ Lose \/ Dock

Spec == Init /\ [][Next]_vars
=============================================================================
