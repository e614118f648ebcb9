------------------------------- MODULE Galaxy -------------------------------
(***************************************************************************)
(* The war as the markets see it: Planet::update drifts the sentiment of   *)
(* the planets whenever the ship docks, and makes the prices of a planet   *)
(* anew when it changes hands or its technology advances.  A price depends *)
(* on the laws of whoever ruled when it was made.  The dockings are those  *)
(* between two turns of the story, when the list of planets is fixed.      *)
(***************************************************************************)
EXTENDS Integers, FiniteSets

CONSTANTS
    Planets,   \* how many there are; a planet is its place in Map::_planets
    Core,      \* those called XEN, TORRES or CLOAKED
    Births,    \* the sentiments Planet::Planet may give each planet
    Every      \* how many calls of Planet::update make a turn, 10 in the code

ASSUME GalaxyAssumption ==
    /\ Planets \in Nat \ {0} /\ Core \subseteq 1..Planets
    /\ Births \in [1..Planets -> SUBSET (0..100)]
    /\ \A p \in 1..Planets : Births[p] # {}
    /\ Every \in Nat \ {0}

VARIABLES
    sentiment,   \* _rebelSentiment
    born,        \* what it was in the beginning
    market,      \* who ruled when _marketplace was made
    turns,       \* the static counter of Planet::update, shared by all of
                 \*   them, modulo Every
    here,        \* _currentPlanet
    idle         \* auxiliary: dockings since a planet's last turn

vars == <<sentiment, born, market, turns, here, idle>>

Planet == 1..Planets
Ruler  == {"Empire", "Rebels"}

RulerAt(s) == IF s > 50 THEN "Rebels" ELSE "Empire"

\* What the planets may be in the beginning.
Signs == {s \in [Planet -> UNION {Births[p] : p \in Planet}] :
            \A p \in Planet : s[p] \in Births[p]}

\* Map::recreate, for a new campaign.  Nothing resets the static counter.
recreate ==
    /\ sentiment' \in Signs
    /\ born' = sentiment'
    /\ market' = [p \in Planet |-> "none"]
    /\ here' \in Planet
    /\ idle' = [p \in Planet |-> 0]

Init ==
    /\ sentiment \in Signs
    /\ born = sentiment /\ market = [p \in Planet |-> "none"]
    /\ turns = 0 /\ here \in Planet /\ idle = [p \in Planet |-> 0]

NewCampaign == recreate /\ UNCHANGED turns

\* Game::hyperspaceJump.
Travel ==
    /\ here' \in Planet \ {here}
    /\ UNCHANGED <<sentiment, born, market, turns, idle>>

\* Planet::getPrice, for the planet whose prices are on the screen: the
\* marketplace is made if it is not there yet.
getPrice ==
    /\ market[here] = "none"
    /\ market' = [market EXCEPT ![here] = RulerAt(sentiment[here])]
    /\ UNCHANGED <<sentiment, born, turns, here, idle>>

----------------------------------------------------------------------------
(* Planet::update.                                                         *)

\* How many planets before p in the list, or p itself, count their calls.
Counted(p) == Cardinality((1..p) \ Core)
Due(p)     == p \notin Core /\ (turns + Counted(p) - 1) % Every = 0

Clamp(s) == IF s > 100 THEN 100 ELSE IF s < 0 THEN 0 ELSE s

\* Mutant: nobody takes care that a planet does not come to sit on the fence.
Mut_drift(s, d) == IF s > 20 THEN Clamp(s + d) ELSE s

\* The sentiment s after a drift by d, before anybody takes over.
drift(s, d) ==
    IF s > 20 /\ s + d # 50 THEN Clamp(s + d) ELSE s

\* Mutant: the rebels' victory is told, but the prices stay.
Mut_changed(before, after) == before > 50 /\ after < 50

changed(before, after) ==
    \/ before < 50 /\ after > 50        \* civil war
    \/ before > 50 /\ after < 50        \* the Empire is back

takeover(before, after) ==
    CASE before < 50 /\ after > 50 -> 70
      [] before > 50 /\ after < 50 -> 40
      [] OTHER -> after

\* A planet of stable government; its technology level, a float that grows
\* by 0.3, may come to be a whole number.
Prospers(s) == s > 70 \/ s < 30

\* Mutant: every call of Map::update counts from 0.
Mut_count == turns' = 0

count == turns' = (turns + Counted(Planets)) % Every

\* StageManager::update docks: Map::update.
Dock ==
    /\ LET Turn == {p \in Planet : Due(p)} IN
       \E d \in [Turn -> -5..5], advance \in SUBSET Turn :
         LET drifted == [p \in Turn |-> drift(sentiment[p], d[p])]
             after   == [p \in Turn |-> takeover(sentiment[p], drifted[p])]
         IN /\ sentiment' = [p \in Planet |-> IF p \in Turn THEN after[p] ELSE sentiment[p]]
            /\ market' = [p \in Planet |->
                 IF p \in Turn /\ \/ changed(sentiment[p], drifted[p])
                                  \/ p \in advance /\ Prospers(after[p])
                 THEN RulerAt(after[p]) ELSE market[p]]
    /\ count
    /\ idle' = [p \in Planet |-> IF Due(p) THEN 0
                                 ELSE IF idle[p] = Every THEN Every ELSE idle[p] + 1]
    /\ UNCHANGED <<born, here>>

Next == NewCampaign \/ Travel \/ getPrice \/ Dock
Spec == Init /\ [][Next]_vars

----------------------------------------------------------------------------
TypeOK ==
    /\ sentiment \in [Planet -> 0..100] /\ born \in [Planet -> 0..100]
    /\ market \in [Planet -> Ruler \cup {"none"}]
    /\ turns \in 0..(Every - 1) /\ here \in Planet /\ idle \in [Planet -> 0..Every]

\* Prices are always made under the laws of the present ruler: a planet that
\* changes hands makes them anew.  The exception are planets that begin
\* exactly on the fence and cross it without a war.
GovernmentPriced ==
    \A p \in Planet : born[p] # 50 => market[p] \in {"none", RulerAt(sentiment[p])}

\* Every planet has its turn once in ten dockings ("once each 10 turns or so")
\* if the number of those that count has no factor in common with ten.
RoundsReachAll ==
    (\A k \in 2..Every : Every % k = 0 => Counted(Planets) % k # 0)
        => \A p \in Planet \ Core : idle[p] < Every
=============================================================================
