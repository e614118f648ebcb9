----------------------------- MODULE TradeProofs -----------------------------
(***************************************************************************)
(* For a hold, a ship and prices of any size: the ship's equipment is what *)
(* it carries, and the customs are not passed by accident.                 *)
(***************************************************************************)
EXTENDS Trade, FiniteSetTheorems, WellFoundedInduction, TLAPS

\* What the properties need of the types; how much fits into the hold does
\* not matter to them.
Shape ==
    /\ mode \in {"dock", "box", "uleg", "orbit", "wreck"} /\ ruler \in Ruler
    /\ cargo \in [Goods -> Nat]
    /\ status \in [Ruler -> {"clean", "fugitive", "terrorist"}]
    /\ shield \in Nat

IInv == Shape /\ ShieldWithinUpgrade /\ WeaponsFollowHold

----------------------------------------------------------------------------
\* The constants, one by one.
LEMMA Constants == Full \in Nat /\ Boost \in Nat /\ Harm \in Nat /\ Start.fuel \in Nat
<1>1. Full \in Nat /\ Boost \in Nat /\ Harm \in Nat /\ Tank \in Nat
  BY TradeAssumption
<1>2. Start.fuel \in 0..Tank
  BY TradeAssumption
<1> QED
  BY <1>1, <1>2

\* A product of numbers is a number, and makes a sum no smaller.
LEMMA ProductFacts ==
    ASSUME NEW x \in Nat, NEW y \in Nat
    PROVE  x + x * y \in Nat /\ x <= x + x * y
<1>1. x * y \in Nat
  OBVIOUS
<1>2. \A m \in Nat : x + m \in Nat /\ x <= x + m
  OBVIOUS
<1> QED
  BY <1>1, <1>2, Zenon

\* The shield of a whole ship is within the limit, whatever it carries.
LEMMA LimitFacts ==
    ASSUME NEW c \in [Goods -> Nat]
    PROVE  limit(c) \in Nat /\ Full <= limit(c)
<1>1. c["Shield upgrade"] \in Nat /\ Full \in Nat
  BY Constants DEF Goods
<1> QED
  BY <1>1, ProductFacts, Zenon DEF limit

\* Of something that is there one may be taken.
LEMMA OneOfMany == ASSUME NEW n \in Nat, n > 0 PROVE 1 \in 0..n
<1> QED
  OBVIOUS

\* Something is put into the hold, or taken out of it.
LEMMA CargoFacts ==
    ASSUME cargo \in [Goods -> Nat], NEW g \in Goods
    PROVE  /\ [cargo EXCEPT ![g] = @ + 1] \in [Goods -> Nat]
           /\ \A n \in 0..cargo[g] : [cargo EXCEPT ![g] = @ - n] \in [Goods -> Nat]
<1>1. cargo[g] \in Nat
  OBVIOUS
<1>2. cargo[g] + 1 \in Nat /\ \A n \in 0..cargo[g] : cargo[g] - n \in Nat
  BY <1>1
<1> QED
  BY <1>2

----------------------------------------------------------------------------
\* The first state has the invariant.
LEMMA InitIInv == Init => IInv
<1> SUFFICES ASSUME Init PROVE IInv
  OBVIOUS
<1>1. NewShip \in [Goods -> Nat]
  BY Constants DEF NewShip
<1> QED
  BY <1>1, Constants DEF Init, IInv, Shape, ShieldWithinUpgrade, WeaponsFollowHold,
                         Ruler, Free

\* The first seconds of a flight: the ship is whole, its guns are mounted.
LEMMA LaunchIInv ==
    ASSUME cargo' \in [Goods -> Nat], startNewGame(cargo')
    PROVE  shield' \in Nat /\ ShieldWithinUpgrade' /\ WeaponsFollowHold' /\ mode' = "orbit"
<1>1. shield' = Full /\ weapons' = assignWeapons(cargo') /\ mode' = "orbit"
  BY DEF startNewGame, reset
<1> QED
  BY <1>1, LimitFacts, Constants DEF ShieldWithinUpgrade, WeaponsFollowHold

\* A hit: a piece is lost only when there is no shield, and the guns are
\* mounted again then.
LEMMA HitIInv == IInv /\ Hit => IInv'
<1> SUFFICES ASSUME IInv, Hit PROVE IInv'
  OBVIOUS
<1>1. /\ mode = "orbit" /\ ruler' = ruler /\ status' = status
      /\ shield \in Nat /\ shield <= limit(cargo) /\ weapons = assignWeapons(cargo)
      /\ cargo \in [Goods -> Nat] /\ limit(cargo) \in Nat
  BY LimitFacts DEF Hit, flying, IInv, Shape, ShieldWithinUpgrade, WeaponsFollowHold
<1>2. PICK d \in 0..Harm :
        /\ shield' = IF d >= shield THEN 0 ELSE shield - d
        /\ mode' = IF energy' <= 0 THEN "wreck" ELSE mode
        /\ \/ UNCHANGED <<cargo, weapons>>
           \/ \E g \in Upgrades :
                /\ loses(d, g)
                /\ cargo' = [cargo EXCEPT ![g] = @ - 1]
                /\ weapons' = assignWeapons(cargo')
  BY DEF Hit
<1>3. d \in Nat
  BY <1>2, Constants
<1>4. shield' \in Nat /\ shield' <= shield /\ mode' \in {"orbit", "wreck"}
  BY <1>1, <1>2, <1>3
<1>5. CASE UNCHANGED <<cargo, weapons>>
  BY <1>1, <1>4, <1>5 DEF IInv, Shape, ShieldWithinUpgrade, WeaponsFollowHold
<1>6. ASSUME NEW g \in Upgrades, loses(d, g), cargo' = [cargo EXCEPT ![g] = @ - 1],
             weapons' = assignWeapons(cargo')
      PROVE  IInv'
  <2>1. g \in Goods /\ cargo[g] \in Nat /\ cargo[g] > 0 /\ shield = 0
    BY <1>1, <1>6 DEF Upgrades, Goods, loses
  <2>2. cargo' \in [Goods -> Nat]
    BY <1>1, <1>6, <2>1, CargoFacts
  <2>3. limit(cargo)' \in Nat
    BY <2>2, LimitFacts
  <2>4. shield' <= limit(cargo)'
    BY <1>4, <2>1, <2>3
  <2> QED
    BY <1>1, <1>4, <1>6, <2>2, <2>4 DEF IInv, Shape, ShieldWithinUpgrade, WeaponsFollowHold
<1> QED
  BY <1>2, <1>5, <1>6

----------------------------------------------------------------------------
\* At the dock nothing is said of shield and guns.
LEMMA DockedIInv ==
    ASSUME Shape, Buy \/ Sell \/ saveGame \/ ulegAccept \/ ulegRefuse \/ startNewCampaign
    PROVE  IInv'
<1>1. mode' = "dock"
  BY DEF Buy, Sell, saveGame, trading, ulegAccept, ulegRefuse, startNewCampaign
<1>2. cargo' \in [Goods -> Nat]
  <2>1. CASE Buy
    <3>1. PICK g \in ForSale \cap Traded : cargo' = [cargo EXCEPT ![g] = @ + 1]
      BY <2>1 DEF Buy
    <3> QED
      BY <3>1, CargoFacts DEF Shape, ForSale
  <2>2. CASE Sell
    <3>1. PICK g \in Traded : cargo[g] > 0 /\ cargo' = [cargo EXCEPT ![g] = @ - 1]
      BY <2>2 DEF Sell
    <3>2. g \in Goods
      BY TradeAssumption
    <3>3. cargo[g] \in Nat /\ 1 \in 0..cargo[g]
      BY <3>1, <3>2 DEF Shape
    <3> QED
      BY <3>1, <3>2, <3>3, CargoFacts DEF Shape
  <2>3. CASE saveGame \/ ulegAccept
    BY <2>3 DEF saveGame, ulegAccept, Shape
  <2>4. CASE ulegRefuse \/ startNewCampaign
    BY <2>4, Constants DEF ulegRefuse, startNewCampaign, NewShip
  <2> QED
    BY <2>1, <2>2, <2>3, <2>4
<1>3. ruler' \in Ruler /\ status' \in [Ruler -> {"clean", "fugitive", "terrorist"}]
  BY DEF Shape, Buy, Sell, saveGame, trading, ulegAccept, ulegRefuse, startNewCampaign,
         Ruler, Free
<1>4. shield' = shield
  BY DEF Buy, Sell, saveGame, trading, ulegAccept, ulegRefuse, startNewCampaign
<1> QED
  BY <1>1, <1>2, <1>3, <1>4 DEF IInv, Shape, ShieldWithinUpgrade, WeaponsFollowHold

\* Leaving a dock, with the customs or without.
LEMMA LeaveIInv ==
    ASSUME Shape, Launch \/ IllegalTradeAccept \/ IllegalTradeRefuse
    PROVE  IInv'
<1>1. cargo' \in [Goods -> Nat]
  BY DEF Launch, IllegalTradeAccept, IllegalTradeRefuse, Shape
<1>2. ruler' \in Ruler /\ status' \in [Ruler -> {"clean", "fugitive", "terrorist"}]
  BY DEF Launch, IllegalTradeAccept, IllegalTradeRefuse, Shape
<1>3. CASE startNewGame(cargo')
  BY <1>1, <1>2, <1>3, LaunchIInv DEF IInv, Shape
<1>4. CASE mode' = "box" /\ shield' = shield
  BY <1>1, <1>2, <1>4 DEF IInv, Shape, ShieldWithinUpgrade, WeaponsFollowHold
<1>5. startNewGame(cargo') \/ (mode' = "box" /\ shield' = shield)
  BY DEF Launch, IllegalTradeAccept, IllegalTradeRefuse, startNewGame, reset
<1> QED
  BY <1>3, <1>4, <1>5

\* In orbit, but for a hit.
LEMMA OrbitIInv ==
    ASSUME IInv, addEnergy \/ addShield \/ FindArtifact \/ fireSpecial \/ hyperspaceJump \/ Dock
    PROVE  IInv'
<1>1. /\ cargo \in [Goods -> Nat] /\ limit(cargo) \in Nat /\ shield \in Nat
      /\ mode = "orbit" => shield <= limit(cargo) /\ weapons = assignWeapons(cargo)
  BY LimitFacts DEF IInv, Shape, ShieldWithinUpgrade, WeaponsFollowHold
<1>2. CASE addEnergy
  BY <1>1, <1>2 DEF addEnergy, flying, IInv, Shape, ShieldWithinUpgrade, WeaponsFollowHold
<1>3. CASE addShield
  <2>1. shield' = Capped(shield + Boost, limit(cargo)) /\ shield + Boost \in Nat
    BY <1>1, <1>3, Constants DEF addShield
  <2>2. shield' \in Nat /\ shield' <= limit(cargo)
    BY <1>1, <2>1 DEF Capped
  <2> QED
    BY <1>1, <1>3, <2>2 DEF addShield, flying, IInv, Shape, ShieldWithinUpgrade,
                            WeaponsFollowHold
\* What is found or fired is no piece of the equipment.
<1>4. ASSUME NEW g \in Goods \ Upgrades, NEW c \in [Goods -> Nat],
             \A h \in Goods \ {g} : c[h] = cargo[h]
      PROVE  limit(c) = limit(cargo) /\ assignWeapons(c) = assignWeapons(cargo)
  <2>1. \A h \in Upgrades : h \in Goods \ {g}
    BY <1>4 DEF Upgrades, Goods
  <2>2. \A h \in Upgrades : c[h] = cargo[h]
    BY <1>4, <2>1
  <2>3. /\ c["Shield upgrade"] = cargo["Shield upgrade"]
        /\ c["Wave emitter"] = cargo["Wave emitter"]
        /\ c["Proton enhancer"] = cargo["Proton enhancer"]
    BY <2>2 DEF Upgrades
  <2> QED
    BY <2>3, Zenon DEF limit, assignWeapons
<1>5. ASSUME NEW g \in Goods \ Upgrades, NEW c \in [Goods -> Nat], cargo' = c,
             \A h \in Goods \ {g} : c[h] = cargo[h],
             mode' = mode, ruler' = ruler, status' = status, shield' = shield,
             weapons' \in {weapons, assignWeapons(c)}
      PROVE  IInv'
  <2>1. limit(cargo)' = limit(cargo) /\ assignWeapons(cargo)' = assignWeapons(cargo)
    BY <1>4, <1>5, Zenon
  <2> QED
    BY <1>1, <1>5, <2>1 DEF IInv, Shape, ShieldWithinUpgrade, WeaponsFollowHold
<1>6. CASE FindArtifact
  <2>1. "Alien artifacts" \in Goods \ Upgrades
    BY DEF Goods, Upgrades
  <2> QED
    BY <1>1, <1>5, <1>6, <2>1, CargoFacts DEF FindArtifact, flying
<1>7. CASE fireSpecial
  <2>1. PICK g \in {"Stinger rocket", "Space grenade"} :
          cargo[g] > 0 /\ cargo' = [cargo EXCEPT ![g] = @ - 1]
    BY <1>7 DEF fireSpecial
  <2>2. g \in Goods \ Upgrades
    BY DEF Goods, Upgrades
  <2>3. cargo[g] \in Nat /\ 1 \in 0..cargo[g]
    <3>1. cargo[g] \in Nat
      BY <1>1, <2>2
    <3>2. cargo[g] > 0
      BY <2>1, Zenon
    <3> QED
      BY <3>1, <3>2, OneOfMany, Zenon
  <2>4. cargo' \in [Goods -> Nat]
    BY <1>1, <2>1, <2>2, <2>3, CargoFacts
  <2> QED
    BY <1>1, <1>5, <1>7, <2>1, <2>2, <2>4 DEF fireSpecial, flying
<1>8. CASE hyperspaceJump
  <2>1. PICK f \in 1..cargo["Fuel"] : cargo' = [cargo EXCEPT !["Fuel"] = @ - f]
    BY <1>8 DEF hyperspaceJump
  <2>2. "Fuel" \in Goods \ Upgrades
    BY DEF Goods, Upgrades
  <2>3. cargo["Fuel"] \in Nat /\ f \in 0..cargo["Fuel"]
    BY <1>1, <2>2
  <2>4. cargo' \in [Goods -> Nat]
    BY <1>1, <2>1, <2>2, <2>3, CargoFacts
  <2>5. limit(cargo)' = limit(cargo)
    BY <1>1, <1>4, <2>1, <2>2, <2>4
  <2>6. /\ mode = "orbit" /\ mode' = mode /\ ruler' \in Ruler /\ status' = status
        /\ shield' = shield /\ weapons' = assignWeapons(cargo')
    BY <1>8 DEF hyperspaceJump, reset
  <2> QED
    BY <1>1, <2>4, <2>5, <2>6 DEF IInv, Shape, ShieldWithinUpgrade, WeaponsFollowHold
<1>9. CASE Dock
  BY <1>1, <1>9 DEF Dock, IInv, Shape, ShieldWithinUpgrade, WeaponsFollowHold, Ruler
<1> QED
  BY <1>2, <1>3, <1>6, <1>7, <1>8, <1>9

\* Every step keeps the invariant.
LEMMA NextIInv == IInv /\ [Next]_vars => IInv'
<1> SUFFICES ASSUME IInv, [Next]_vars PROVE IInv'
  OBVIOUS
<1>1. CASE Next
  BY <1>1, HitIInv, DockedIInv, LeaveIInv, OrbitIInv DEF Next, IInv
<1>2. CASE UNCHANGED vars
  BY <1>2 DEF vars, IInv, Shape, ShieldWithinUpgrade, WeaponsFollowHold
<1> QED
  BY <1>1, <1>2

----------------------------------------------------------------------------
(* What is in the hold: a fold over the goods that weigh, which is a sum.  *)

\* What g adds to the weight of the goods S.
Part(c, S, g) == IF g \in S THEN c[g] ELSE 0

\* The weight of the goods S, good by good.
Weight(c, S) ==
    Part(c, S, "Food") + Part(c, S, "Electronics") + Part(c, S, "Jewelry")
      + Part(c, S, "Firearms") + Part(c, S, "Narcotics") + Part(c, S, "Slaves")

\* The function behind the fold: it takes the goods away one at a time.
Fold(c, iter) ==
    iter = [s \in SUBSET Weighing |->
              IF s = {} THEN 0
              ELSE c[CHOOSE x \in s : TRUE] + iter[s \ {CHOOSE x \in s : TRUE}]]

\* The library's fold, unfolded.
LEMMA TonsUnfolded ==
    ASSUME NEW c
    PROVE  Tons(c) = (CHOOSE iter : Fold(c, iter))[Weighing]
<1> QED
  BY Zenon DEF Tons, MapThenSumSet, MapThenFoldSet, Fold

\* Of a number of each there is a number.
LEMMA PartFacts ==
    ASSUME NEW c \in [Goods -> Nat], NEW S, NEW g \in Weighing
    PROVE  Part(c, S, g) \in Nat
<1>1. g \in Goods
  BY DEF Weighing, Goods
<1> QED
  BY <1>1 DEF Part

\* One of the goods put aside.
LEMMA WeightStep ==
    ASSUME NEW c \in [Goods -> Nat], NEW S \in SUBSET Weighing, NEW x \in S
    PROVE  Weight(c, S) = c[x] + Weight(c, S \ {x})
<1>1. /\ x \in {"Food", "Electronics", "Jewelry", "Firearms", "Narcotics", "Slaves"}
      /\ Part(c, S, x) = c[x] /\ Part(c, S \ {x}, x) = 0
  BY DEF Weighing, Part
<1>2. \A g \in Weighing \ {x} : Part(c, S \ {x}, g) = Part(c, S, g)
  BY DEF Part
<1>3. \A g \in Weighing : Part(c, S, g) \in Nat
  BY PartFacts
<1> DEFINE P(g) == Part(c, S, g)  Q(g) == Part(c, S \ {x}, g)
<1>4. /\ \A g \in Weighing : P(g) \in Nat
      /\ \A g \in Weighing \ {x} : Q(g) = P(g)
      /\ P(x) = c[x] /\ Q(x) = 0
  BY <1>1, <1>2, <1>3
<1>5. /\ Weight(c, S) = P("Food") + P("Electronics") + P("Jewelry") + P("Firearms")
                          + P("Narcotics") + P("Slaves")
      /\ Weight(c, S \ {x}) = Q("Food") + Q("Electronics") + Q("Jewelry") + Q("Firearms")
                          + Q("Narcotics") + Q("Slaves")
  BY Zenon DEF Weight
<1> HIDE DEF P, Q
<1> QED
  BY <1>1, <1>4, <1>5 DEF Weighing

\* The fold is the sum: two functions that take the goods away one at a time
\* cannot differ on a smallest set of them.
LEMMA FoldIsWeight ==
    ASSUME NEW c \in [Goods -> Nat], NEW iter, Fold(c, iter), NEW S \in SUBSET Weighing
    PROVE  iter[S] = Weight(c, S)
<1> DEFINE Bad == {s \in SUBSET Weighing : iter[s] # Weight(c, s)}
<1> SUFFICES ASSUME Bad # {} PROVE FALSE
  OBVIOUS
<1>1. \A s \in SUBSET Weighing : IsFiniteSet(s)
  <2>1. \A a, b, d : IsFiniteSet({a, b, d})
    <3> TAKE a, b, d
    <3>1. {a, b, d} = ({a} \cup {b}) \cup {d}
      OBVIOUS
    <3>2. IsFiniteSet({a}) /\ IsFiniteSet({b}) /\ IsFiniteSet({d})
      BY FS_Singleton, Zenon
    <3>3. IsFiniteSet({a} \cup {b})
      BY <3>2, FS_Union, Zenon
    <3>4. IsFiniteSet(({a} \cup {b}) \cup {d})
      BY <3>2, <3>3, FS_Union, Zenon
    <3> QED
      BY <3>1, <3>4
  <2>2. Weighing = {"Food", "Electronics", "Jewelry"} \cup {"Firearms", "Narcotics", "Slaves"}
    BY DEF Weighing
  <2>3. IsFiniteSet(Weighing)
    BY <2>1, <2>2, FS_Union, Zenon
  <2> QED
    BY <2>3, FS_Subset, Zenon
<1>2. Bad \subseteq FiniteSubsetsOf(Weighing)
  BY <1>1 DEF FiniteSubsetsOf
<1>3. \E s \in Bad : \A t \in Bad : ~ (<<t, s>> \in StrictSubsetOrdering(Weighing))
  BY <1>2, FS_StrictSubsetOrderingWellFounded, WFMin, Zenon
<1>4. PICK s \in Bad : \A t \in Bad : ~ (<<t, s>> \in StrictSubsetOrdering(Weighing))
  BY <1>3
<1> DEFINE x == CHOOSE y \in s : TRUE
<1>5. iter[s] = IF s = {} THEN 0 ELSE c[x] + iter[s \ {x}]
  BY Zenon DEF Fold
<1>6. CASE s = {}
  BY <1>4, <1>5, <1>6 DEF Weight, Part
<1>7. CASE s # {}
  <2>1. x \in s
    BY <1>7
  <2>2. s \ {x} \in SUBSET Weighing /\ s \ {x} # s
    BY <2>1
  <2>3. s \ {x} \notin Bad
    BY <1>4, <2>2 DEF StrictSubsetOrdering
  <2>4. iter[s \ {x}] = Weight(c, s \ {x})
    BY <2>2, <2>3
  <2>5. Weight(c, s) = c[x] + Weight(c, s \ {x})
    BY <2>1, WeightStep, Zenon
  <2>6. iter[s] = c[x] + iter[s \ {x}]
    BY <1>5, <1>7, Zenon
  <2> QED
    BY <2>4, <2>5, <2>6, Zenon
<1> QED
  BY <1>6, <1>7

\* What is in the hold weighs the sum of its goods.
LEMMA TonsIsWeight ==
    ASSUME NEW c \in [Goods -> Nat]
    PROVE  Tons(c) = Weight(c, Weighing)
<1> DEFINE F == [s \in SUBSET Weighing |-> Weight(c, s)]
<1>1. Fold(c, F)
  <2>1. ASSUME NEW s \in SUBSET Weighing
        PROVE  F[s] = IF s = {} THEN 0
                      ELSE c[CHOOSE x \in s : TRUE] + F[s \ {CHOOSE x \in s : TRUE}]
    <3>1. CASE s = {}
      BY <3>1 DEF Weight, Part
    <3>2. CASE s # {}
      <4> DEFINE x == CHOOSE y \in s : TRUE
      <4>1. x \in s
        BY <3>2
      <4>2. Weight(c, s) = c[x] + Weight(c, s \ {x})
        BY <4>1, WeightStep, Zenon
      <4> QED
        BY <3>2, <4>2
    <3> QED
      BY <3>1, <3>2
  <2> QED
    BY <2>1, Zenon DEF Fold
<1> HIDE DEF F
<1>2. Fold(c, CHOOSE iter : Fold(c, iter))
  BY <1>1, Zenon
<1>3. (CHOOSE iter : Fold(c, iter))[Weighing] = Weight(c, Weighing)
  BY <1>2, FoldIsWeight, Zenon
<1> QED
  BY <1>3, TonsUnfolded, Zenon
----------------------------------------------------------------------------
(* The limits: of the hold, the tank, the equipment, the purse, the hull.  *)

HoldOK(c) ==
    /\ c \in [Goods -> Nat] /\ Tons(c) <= Capacity
    /\ \A g \in DOMAIN maxQty : c[g] <= maxQty[g]

\* The ship and its standing, without the hold.
ShipOK ==
    /\ mode \in {"dock", "box", "uleg", "orbit", "wreck"} /\ ruler \in Ruler
    /\ story \in {"before", "accepted", "over"}
    /\ status \in [Ruler -> {"clean", "fugitive", "terrorist"}]
    /\ shield \in 0..(2 * Full) /\ energy \in -Harm..Full
    /\ weapons \in [side : {"none", "dog", "flank burst"}, pierce : 0..2]

\* TypeOK is not inductive: a hit takes off at most what keeps the energy
\* above its bound only from a ship that is no wreck yet.
Limits == HoldOK(cargo) /\ money \in 0..MaxMoney /\ ShipOK /\ (mode = "orbit" => energy > 0)

\* The invariant is more than the types.
LEMMA LimitsTyped == Limits => TypeOK
<1> QED
  BY Zenon DEF Limits, HoldOK, ShipOK, TypeOK

\* The constants that bound the hold and the purse.
LEMMA BoundFacts ==
    /\ Capacity \in Nat /\ Tank \in Nat /\ Magazine \in Nat /\ MaxMoney \in Nat
    /\ Full \in Nat /\ Full > 0 /\ Harm \in Nat /\ Boost \in Nat /\ Fee \in Nat
    /\ Prices \subseteq Nat
    /\ Start.fuel \in 0..Tank /\ Start.money \in 0..MaxMoney
<1> QED
  BY TradeAssumption

\* Every limit is a number.
LEMMA MaxQtyFacts ==
    /\ DOMAIN maxQty = Upgrades \cup {"Space grenade", "Stinger rocket", "Fuel"}
    /\ DOMAIN maxQty \subseteq Goods
    /\ \A g \in DOMAIN maxQty : maxQty[g] \in Nat
    /\ maxQty["Shield upgrade"] = 1 /\ maxQty["Fuel"] = Tank
<1> QED
  BY BoundFacts DEF maxQty, Upgrades, Goods

\* Where nothing was added the limits still hold.
LEMMA HoldLess ==
    ASSUME NEW c, HoldOK(c), NEW d \in [Goods -> Nat], \A g \in Goods : d[g] <= c[g]
    PROVE  HoldOK(d)
<1>1. c \in [Goods -> Nat] /\ Tons(c) <= Capacity
  BY DEF HoldOK
<1>2. Weight(c, Weighing) <= Capacity
  BY <1>1, TonsIsWeight
<1>3. \A g \in Weighing : Part(d, Weighing, g) <= Part(c, Weighing, g)
  BY DEF Part, Weighing, Goods
<1>4. \A g \in Weighing : Part(d, Weighing, g) \in Nat /\ Part(c, Weighing, g) \in Nat
  BY <1>1, PartFacts
<1> DEFINE P(g) == Part(c, Weighing, g)  Q(g) == Part(d, Weighing, g)
<1>5. \A g \in Weighing : P(g) \in Nat /\ Q(g) \in Nat /\ Q(g) <= P(g)
  BY <1>3, <1>4
<1>6. /\ Weight(c, Weighing) = P("Food") + P("Electronics") + P("Jewelry") + P("Firearms")
                          + P("Narcotics") + P("Slaves")
      /\ Weight(d, Weighing) = Q("Food") + Q("Electronics") + Q("Jewelry") + Q("Firearms")
                          + Q("Narcotics") + Q("Slaves")
  BY Zenon DEF Weight
<1> HIDE DEF P, Q
<1>7. Weight(d, Weighing) <= Weight(c, Weighing)
      /\ Weight(d, Weighing) \in Nat /\ Weight(c, Weighing) \in Nat
  BY <1>5, <1>6 DEF Weighing
<1>8. Tons(d) <= Capacity
  BY <1>2, <1>7, BoundFacts, TonsIsWeight
<1>9. ASSUME NEW g \in DOMAIN maxQty
      PROVE  d[g] <= maxQty[g]
  <2>1. g \in Goods /\ maxQty[g] \in Nat
    BY MaxQtyFacts
  <2>2. d[g] <= c[g] /\ c[g] <= maxQty[g] /\ d[g] \in Nat /\ c[g] \in Nat
    BY <1>1, <2>1 DEF HoldOK
  <2> QED
    BY <2>1, <2>2
<1> QED
  BY <1>8, <1>9 DEF HoldOK

\* One piece more, where there is place for it.
LEMMA HoldMore ==
    ASSUME NEW c, HoldOK(c), NEW g \in Goods,
           g \in Weighing => Tons(c) < Capacity,
           g \in DOMAIN maxQty => c[g] # maxQty[g]
    PROVE  HoldOK([c EXCEPT ![g] = @ + 1])
<1> DEFINE d == [c EXCEPT ![g] = @ + 1]
<1>1. c \in [Goods -> Nat] /\ Tons(c) <= Capacity
  BY DEF HoldOK
<1>2. d \in [Goods -> Nat] /\ d[g] = c[g] + 1 /\ \A h \in Goods \ {g} : d[h] = c[h]
  BY <1>1
<1> HIDE DEF d
<1> DEFINE P(h) == Part(c, Weighing, h)  Q(h) == Part(d, Weighing, h)
<1>3. /\ \A h \in Weighing : P(h) \in Nat /\ Q(h) \in Nat
      /\ \A h \in Weighing \ {g} : Q(h) = P(h)
      /\ g \in Weighing => Q(g) = P(g) + 1
  <2>1. \A h \in Weighing : P(h) \in Nat /\ Q(h) \in Nat
    BY <1>1, <1>2, PartFacts
  <2>2. \A h \in Weighing : P(h) = c[h] /\ Q(h) = d[h] /\ h \in Goods
    BY DEF Part, Weighing, Goods
  <2> QED
    BY <1>2, <2>1, <2>2
<1>4. /\ Weight(c, Weighing) = P("Food") + P("Electronics") + P("Jewelry") + P("Firearms")
                          + P("Narcotics") + P("Slaves")
      /\ Weight(d, Weighing) = Q("Food") + Q("Electronics") + Q("Jewelry") + Q("Firearms")
                          + Q("Narcotics") + Q("Slaves")
  BY Zenon DEF Weight
<1> HIDE DEF P, Q
<1>5. /\ Weight(c, Weighing) \in Nat
      /\ Weight(d, Weighing) = IF g \in Weighing THEN Weight(c, Weighing) + 1
                               ELSE Weight(c, Weighing)
  BY <1>3, <1>4 DEF Weighing
<1>6. Tons(c) = Weight(c, Weighing) /\ Tons(d) = Weight(d, Weighing)
  BY <1>1, <1>2, TonsIsWeight
<1>7. Tons(d) <= Capacity
  BY <1>1, <1>5, <1>6, BoundFacts
<1>8. ASSUME NEW h \in DOMAIN maxQty
      PROVE  d[h] <= maxQty[h]
  <2>1. h \in Goods /\ maxQty[h] \in Nat /\ c[h] \in Nat /\ c[h] <= maxQty[h]
    BY <1>1, MaxQtyFacts DEF HoldOK
  <2>2. d[h] = c[h] \/ (h = g /\ d[h] = c[h] + 1)
    BY <1>2, <2>1
  <2> QED
    BY <2>1, <2>2
<1>9. HoldOK(d)
  BY <1>2, <1>7, <1>8 DEF HoldOK
<1> QED
  BY <1>9 DEF d

\* A hold weighs a number of tons.
LEMMA TonsNat == ASSUME NEW c \in [Goods -> Nat] PROVE Tons(c) \in Nat
<1> DEFINE P(g) == Part(c, Weighing, g)
<1>1. \A g \in Weighing : P(g) \in Nat
  BY PartFacts
<1>2. Weight(c, Weighing) = P("Food") + P("Electronics") + P("Jewelry") + P("Firearms")
                              + P("Narcotics") + P("Slaves")
  BY Zenon DEF Weight
<1> HIDE DEF P
<1>3. Weight(c, Weighing) \in Nat
  BY <1>1, <1>2 DEF Weighing
<1> QED
  BY <1>3, TonsIsWeight, Zenon

\* Some of what is there is taken out.
LEMMA HoldTakenMany ==
    ASSUME NEW c, HoldOK(c), NEW g \in Goods, NEW n \in Nat, n <= c[g]
    PROVE  HoldOK([c EXCEPT ![g] = @ - n])
<1>1. c \in [Goods -> Nat] /\ c[g] \in Nat
  BY DEF HoldOK
<1> DEFINE d == [c EXCEPT ![g] = @ - n]
<1>2. c[g] - n \in Nat /\ c[g] - n <= c[g]
  BY <1>1
<1>3. d \in [Goods -> Nat]
  BY <1>1, <1>2
<1>4. \A h \in Goods : d[h] <= c[h]
  BY <1>1, <1>2
<1> HIDE DEF d
<1>5. HoldOK(d)
  BY <1>3, <1>4, HoldLess, Zenon
<1> QED
  BY <1>5 DEF d

\* One piece of what is there is taken out.
LEMMA HoldTaken ==
    ASSUME NEW c, HoldOK(c), NEW g \in Goods, c[g] > 0
    PROVE  HoldOK([c EXCEPT ![g] = @ - 1])
<1>1. c[g] \in Nat
  BY DEF HoldOK
<1>2. 1 \in Nat /\ 1 <= c[g]
  BY <1>1
<1> QED
  BY <1>2, HoldTakenMany, Zenon

\* A new ship holds nothing but fuel.
LEMMA NewShipOK == HoldOK(NewShip)
<1>1. NewShip \in [Goods -> Nat]
  BY Constants DEF NewShip
<1>2. Tons(NewShip) = 0
  <2>1. \A g \in Weighing : Part(NewShip, Weighing, g) = 0
    BY DEF Part, NewShip, Weighing, Goods
  <2>2. Weight(NewShip, Weighing) = 0
    BY <2>1 DEF Weight, Weighing
  <2> QED
    BY <1>1, <2>2, TonsIsWeight, Zenon
<1>3. ASSUME NEW g \in DOMAIN maxQty
      PROVE  NewShip[g] <= maxQty[g]
  <2>1. g \in Goods /\ maxQty[g] \in Nat
    BY MaxQtyFacts
  <2>2. CASE g = "Fuel"
    <3>1. NewShip[g] = Start.fuel /\ maxQty[g] = Tank
      BY <2>1, <2>2, MaxQtyFacts DEF NewShip
    <3> QED
      BY <3>1, BoundFacts
  <2>3. CASE g # "Fuel"
    <3>1. NewShip[g] = 0
      BY <2>1, <2>3 DEF NewShip
    <3> QED
      BY <2>1, <3>1
  <2> QED
    BY <2>2, <2>3
<1> QED
  BY <1>1, <1>2, <1>3, BoundFacts DEF HoldOK

\* With one upgrade at most the shield is twice a whole one at most.
LEMMA LimitBound ==
    ASSUME NEW c, HoldOK(c)
    PROVE  limit(c) \in Nat /\ limit(c) <= 2 * Full
<1>1. c["Shield upgrade"] = 0 \/ c["Shield upgrade"] = 1
  <2>1. c["Shield upgrade"] \in Nat
    BY DEF HoldOK, Goods
  <2>2. c["Shield upgrade"] <= 1
    BY MaxQtyFacts DEF HoldOK, Upgrades
  <2>3. \A n \in Nat : n <= 1 => n = 0 \/ n = 1
    OBVIOUS
  <2> QED
    BY <2>1, <2>2, <2>3, Zenon
<1>2. \A m \in {0, 1} : Full + Full * m \in Nat /\ Full + Full * m <= 2 * Full
  BY BoundFacts
<1> QED
  BY <1>1, <1>2, Zenon DEF limit

\* Whatever the hold, the guns are guns.
LEMMA GunsTyped ==
    ASSUME NEW c
    PROVE  assignWeapons(c) \in [side : {"none", "dog", "flank burst"}, pierce : 0..2]
<1> QED
  BY DEF assignWeapons

\* A ship that is launched is whole.
LEMMA LaunchLimits ==
    ASSUME HoldOK(cargo)', money' \in 0..MaxMoney, ruler' \in Ruler,
           story' \in {"before", "accepted", "over"},
           status' \in [Ruler -> {"clean", "fugitive", "terrorist"}],
           startNewGame(cargo')
    PROVE  Limits'
<1>1. shield' = Full /\ energy' = Full /\ weapons' = assignWeapons(cargo') /\ mode' = "orbit"
  BY DEF startNewGame, reset
<1>2. Full \in 0..(2 * Full) /\ Full \in -Harm..Full /\ Full > 0
  BY BoundFacts
<1>3. ShipOK'
  BY <1>1, <1>2, GunsTyped DEF ShipOK
<1> QED
  BY <1>1, <1>2, <1>3 DEF Limits

\* What is added stops at the limit.
LEMMA CappedFacts ==
    ASSUME NEW n \in Int, NEW b \in Nat, NEW m \in Nat
    PROVE  /\ Capped(n + b, m) \in Int /\ Capped(n + b, m) <= m
           /\ n <= Capped(n + b, m) \/ m = Capped(n + b, m)
<1> QED
  BY DEF Capped

----------------------------------------------------------------------------
\* The first state is within the limits.
LEMMA InitLimits == Init => Limits
<1> SUFFICES ASSUME Init PROVE Limits
  OBVIOUS
<1>1. Full \in 0..(2 * Full) /\ Full \in -Harm..Full /\ Start.money \in 0..MaxMoney
  BY BoundFacts
<1>2. /\ weapons \in {NoWeapons, AllWeapons}
      /\ mode = "dock" /\ ruler = "Empire" /\ story = "before" /\ cargo = NewShip
      /\ money = Start.money /\ status = Free /\ shield = Full /\ energy = Full
  BY DEF Init
<1>3. weapons \in [side : {"none", "dog", "flank burst"}, pierce : 0..2]
  <2>1. NoWeapons \in [side : {"none", "dog", "flank burst"}, pierce : 0..2]
    BY DEF NoWeapons
  <2>2. AllWeapons \in [side : {"none", "dog", "flank burst"}, pierce : 0..2]
    BY DEF AllWeapons
  <2> QED
    BY <1>2, <2>1, <2>2
<1>4. status \in [Ruler -> {"clean", "fugitive", "terrorist"}] /\ ruler \in Ruler
  BY <1>2 DEF Free, Ruler
<1>5. ShipOK
  BY <1>1, <1>2, <1>3, <1>4 DEF ShipOK
<1> QED
  BY <1>1, <1>2, <1>5, NewShipOK DEF Limits

\* At the dock: what is bought has its place, what is sold was there.
LEMMA MarketLimits == Limits /\ (Buy \/ Sell \/ saveGame) => Limits'
<1> SUFFICES ASSUME Limits, Buy \/ Sell \/ saveGame PROVE Limits'
  OBVIOUS
<1>1. HoldOK(cargo) /\ money \in 0..MaxMoney /\ MaxMoney \in Nat /\ Capacity \in Nat
      /\ cargo \in [Goods -> Nat] /\ Fee \in Nat
  BY BoundFacts DEF Limits, HoldOK
<1>2. ShipOK' /\ (mode = "orbit" => energy > 0)'
  BY DEF Buy, Sell, saveGame, trading, Limits, ShipOK
<1>3. CASE Buy
  <2>1. PICK g \in ForSale \cap Traded :
          \E p \in Prices :
            /\ ~ (Tons(cargo) >= Capacity /\ g \in Weighing)
            /\ money >= p
            /\ g \in DOMAIN maxQty => cargo[g] # maxQty[g]
            /\ cargo' = [cargo EXCEPT ![g] = @ + 1]
            /\ money' = money - p
    BY <1>3 DEF Buy
  <2>2. PICK p \in Prices :
            /\ ~ (Tons(cargo) >= Capacity /\ g \in Weighing)
            /\ money >= p
            /\ g \in DOMAIN maxQty => cargo[g] # maxQty[g]
            /\ cargo' = [cargo EXCEPT ![g] = @ + 1]
            /\ money' = money - p
    BY <2>1
  <2>3. p \in Nat /\ g \in Goods
    BY BoundFacts DEF ForSale
  <2>4. money' \in 0..MaxMoney
    BY <1>1, <2>2, <2>3
  <2>5. g \in Weighing => Tons(cargo) < Capacity
    <3>1. ASSUME g \in Weighing PROVE Tons(cargo) \in Nat /\ ~ (Tons(cargo) >= Capacity)
      BY <1>1, <2>2, <3>1, TonsNat
    <3> QED
      BY <1>1, <3>1
  <2>6. HoldOK([cargo EXCEPT ![g] = @ + 1])
    BY <1>1, <2>2, <2>3, <2>5, HoldMore, Zenon
  <2>7. HoldOK(cargo)'
    BY <2>2, <2>6, Zenon
  <2> QED
    BY <1>2, <2>4, <2>7 DEF Limits
<1>4. CASE Sell
  <2>1. PICK g \in Traded : \E p \in Prices :
            /\ cargo[g] > 0 /\ money + p <= MaxMoney
            /\ cargo' = [cargo EXCEPT ![g] = @ - 1]
            /\ money' = money + p
    BY <1>4 DEF Sell
  <2>2. PICK p \in Prices :
            /\ cargo[g] > 0 /\ money + p <= MaxMoney
            /\ cargo' = [cargo EXCEPT ![g] = @ - 1]
            /\ money' = money + p
    BY <2>1
  <2>3. p \in Nat /\ g \in Goods
    BY BoundFacts, TradeAssumption
  <2>4. money' \in 0..MaxMoney
    BY <1>1, <2>2, <2>3
  <2>5. HoldOK(cargo)'
    BY <1>1, <2>2, <2>3, HoldTaken
  <2> QED
    BY <1>2, <2>4, <2>5 DEF Limits
<1>5. CASE saveGame
  <2>1. money' = money - Fee /\ money >= Fee /\ cargo' = cargo
    BY <1>5 DEF saveGame
  <2>2. money' \in 0..MaxMoney
    BY <1>1, <2>1
  <2> QED
    BY <1>1, <1>2, <2>1, <2>2 DEF Limits
<1> QED
  BY <1>3, <1>4, <1>5

\* A new campaign, and the answers to Uleg.
LEMMA StoryLimits == Limits /\ (startNewCampaign \/ ulegAccept \/ ulegRefuse) => Limits'
<1> SUFFICES ASSUME Limits, startNewCampaign \/ ulegAccept \/ ulegRefuse PROVE Limits'
  OBVIOUS
<1>1. /\ mode' = "dock" /\ shield' = shield /\ energy' = energy /\ weapons' = weapons
      /\ ruler' \in Ruler /\ story' \in {"before", "accepted", "over"}
      /\ status' \in [Ruler -> {"clean", "fugitive", "terrorist"}]
  BY DEF startNewCampaign, ulegAccept, ulegRefuse, Limits, ShipOK, Ruler, Free
<1>2. ShipOK'
  BY <1>1 DEF Limits, ShipOK
<1>3. (cargo' = cargo /\ money' = money) \/ (cargo' = NewShip /\ money' = Start.money)
  BY DEF startNewCampaign, ulegAccept, ulegRefuse
<1>4. HoldOK(cargo)' /\ money' \in 0..MaxMoney
  BY <1>3, NewShipOK, BoundFacts DEF Limits
<1> QED
  BY <1>1, <1>2, <1>4 DEF Limits

\* Leaving a dock.
LEMMA LeaveLimits == Limits /\ (Launch \/ IllegalTradeAccept \/ IllegalTradeRefuse) => Limits'
<1> SUFFICES ASSUME Limits, Launch \/ IllegalTradeAccept \/ IllegalTradeRefuse PROVE Limits'
  OBVIOUS
<1>1. /\ ruler' \in Ruler /\ story' \in {"before", "accepted", "over"}
      /\ status' \in [Ruler -> {"clean", "fugitive", "terrorist"}]
      /\ money' \in 0..MaxMoney
  BY DEF Launch, IllegalTradeAccept, IllegalTradeRefuse, Limits, ShipOK
<1>2. HoldOK(cargo)'
  <2>1. CASE Launch \/ IllegalTradeRefuse
    BY <2>1 DEF Launch, IllegalTradeRefuse, Limits
  <2>2. CASE IllegalTradeAccept
    <3>1. HoldOK(cargo) /\ cargo \in [Goods -> Nat]
      BY DEF Limits, HoldOK
    <3>2. cargo' = [g \in Goods |-> IF g \in illegal(ruler) THEN 0 ELSE cargo[g]]
      BY <2>2 DEF IllegalTradeAccept
    <3>3. cargo' \in [Goods -> Nat] /\ \A g \in Goods : cargo'[g] <= cargo[g]
      BY <3>1, <3>2
    <3> QED
      BY <3>1, <3>3, HoldLess
  <2> QED
    BY <2>1, <2>2
<1>3. CASE startNewGame(cargo')
  BY <1>1, <1>2, <1>3, LaunchLimits
<1>4. CASE mode' = "box" /\ shield' = shield /\ energy' = energy /\ weapons' = weapons
  <2>1. ShipOK'
    BY <1>1, <1>4 DEF Limits, ShipOK
  <2> QED
    BY <1>1, <1>2, <1>4, <2>1 DEF Limits
<1>5. startNewGame(cargo') \/ (mode' = "box" /\ UNCHANGED <<shield, energy, weapons>>)
  BY DEF Launch, IllegalTradeAccept, IllegalTradeRefuse, startNewGame, reset
<1> QED
  BY <1>3, <1>4, <1>5

\* A hit: from a living ship at most Harm is taken.
LEMMA HitLimits == Limits /\ Hit => Limits'
<1> SUFFICES ASSUME Limits, Hit PROVE Limits'
  OBVIOUS
<1>1. /\ mode = "orbit" /\ HoldOK(cargo) /\ cargo \in [Goods -> Nat]
      /\ shield \in 0..(2 * Full) /\ energy \in -Harm..Full /\ energy > 0
      /\ ruler' \in Ruler /\ story' \in {"before", "accepted", "over"} /\ money' \in 0..MaxMoney
      /\ status' \in [Ruler -> {"clean", "fugitive", "terrorist"}]
  BY DEF Hit, flying, Limits, ShipOK, HoldOK
<1>2. PICK d \in 0..Harm :
        /\ shield' = IF d >= shield THEN 0 ELSE shield - d
        /\ energy' = IF shield > 0 THEN energy ELSE energy - d
        /\ mode' = IF energy' <= 0 THEN "wreck" ELSE mode
        /\ \/ UNCHANGED <<cargo, weapons>>
           \/ \E g \in Upgrades :
                /\ loses(d, g)
                /\ cargo' = [cargo EXCEPT ![g] = @ - 1]
                /\ weapons' = assignWeapons(cargo')
  BY DEF Hit
<1>3. Harm \in Nat /\ Full \in Nat
  BY BoundFacts
<1>4. shield' \in 0..(2 * Full) /\ energy' \in -Harm..Full
  <2>1. shield' \in 0..(2 * Full)
    BY <1>1, <1>2, <1>3
  <2>2. energy' \in -Harm..Full
    BY <1>1, <1>2, <1>3
  <2> QED
    BY <2>1, <2>2
<1>5. mode' \in {"orbit", "wreck"} /\ (mode' = "orbit" => energy' > 0)
  BY <1>1, <1>2, <1>3, <1>4
<1>6. HoldOK(cargo)' /\ weapons' \in [side : {"none", "dog", "flank burst"}, pierce : 0..2]
  <2>1. CASE UNCHANGED <<cargo, weapons>>
    BY <1>1, <2>1 DEF Limits, ShipOK
  <2>2. ASSUME NEW g \in Upgrades, loses(d, g), cargo' = [cargo EXCEPT ![g] = @ - 1],
               weapons' = assignWeapons(cargo')
        PROVE  HoldOK(cargo)' /\ weapons' \in [side : {"none", "dog", "flank burst"}, pierce : 0..2]
    <3>1. g \in Goods /\ cargo[g] > 0
      BY <2>2 DEF Upgrades, Goods, loses
    <3> QED
      BY <1>1, <2>2, <3>1, HoldTaken, GunsTyped
  <2> QED
    BY <1>2, <2>1, <2>2
<1>7. ShipOK'
  BY <1>1, <1>4, <1>5, <1>6 DEF ShipOK
<1> QED
  BY <1>1, <1>5, <1>6, <1>7 DEF Limits

\* In orbit, but for a hit.
LEMMA OrbitLimits ==
    Limits /\ (addEnergy \/ addShield \/ FindArtifact \/ fireSpecial \/ hyperspaceJump \/ Dock)
      => Limits'
<1> SUFFICES ASSUME Limits, addEnergy \/ addShield \/ FindArtifact \/ fireSpecial
                              \/ hyperspaceJump \/ Dock
             PROVE  Limits'
  OBVIOUS
<1>1. /\ HoldOK(cargo) /\ cargo \in [Goods -> Nat] /\ money' \in 0..MaxMoney
      /\ shield \in 0..(2 * Full) /\ energy \in -Harm..Full /\ (mode = "orbit" => energy > 0)
      /\ weapons \in [side : {"none", "dog", "flank burst"}, pierce : 0..2]
      /\ ruler' \in Ruler /\ story' \in {"before", "accepted", "over"}
      /\ status' \in [Ruler -> {"clean", "fugitive", "terrorist"}]
      /\ mode' \in {"dock", "uleg", "orbit", "wreck"}
  BY DEF addEnergy, addShield, FindArtifact, fireSpecial, hyperspaceJump, Dock, flying,
         Limits, ShipOK, HoldOK, Orbit, reset, Ruler
<1>2. Harm \in Nat /\ Full \in Nat /\ Full > 0 /\ Boost \in Nat
  BY BoundFacts
<1>3. energy' \in -Harm..Full /\ (mode' = "orbit" => energy' > 0)
  <2>1. CASE addEnergy
    <3>1. energy' = Capped(energy + Boost, Full) /\ mode' = mode
      BY <2>1 DEF addEnergy
    <3>2. energy \in Int /\ -Harm <= energy
      <4>1. energy \in -Harm..Full
        BY <1>1, Zenon
      <4> QED
        BY <1>2, <4>1
    <3>3. energy' \in Int /\ energy' <= Full /\ (energy <= energy' \/ Full = energy')
      BY <1>2, <3>1, <3>2, CappedFacts
    <3>4. energy' \in -Harm..Full
      BY <1>2, <3>2, <3>3
    <3>5. ASSUME mode' = "orbit"
          PROVE  energy' > 0
      <4>1. energy > 0
        BY <1>1, <3>1, <3>5, Zenon
      <4> QED
        BY <1>2, <3>2, <3>3, <4>1
    <3> QED
      BY <3>4, <3>5
  <2>2. CASE addShield \/ FindArtifact \/ fireSpecial \/ hyperspaceJump \/ Dock
    <3>1. energy' = energy /\ (mode' = mode \/ mode' # "orbit")
      BY <2>2 DEF addShield, FindArtifact, fireSpecial, hyperspaceJump, Dock, reset
    <3> QED
      BY <1>1, <3>1
  <2> QED
    BY <2>1, <2>2
<1>4. shield' \in 0..(2 * Full)
  <2>1. CASE addShield
    <3>1. shield' = Capped(shield + Boost, limit(cargo))
      BY <2>1 DEF addShield
    <3>2. limit(cargo) \in Nat /\ limit(cargo) <= 2 * Full
      BY <1>1, LimitBound
    <3>3. shield \in Nat /\ shield \in Int
      <4>1. shield \in 0..(2 * Full)
        BY <1>1, Zenon
      <4> QED
        BY <1>2, <4>1
    <3>4. shield' \in Int /\ shield' <= limit(cargo)
          /\ (shield <= shield' \/ limit(cargo) = shield')
      BY <1>2, <3>1, <3>2, <3>3, CappedFacts, Zenon
    <3> QED
      BY <1>2, <3>2, <3>3, <3>4
  <2>2. CASE addEnergy \/ FindArtifact \/ fireSpecial \/ hyperspaceJump \/ Dock
    <3>1. shield' = shield
      BY <2>2 DEF addEnergy, FindArtifact, fireSpecial, hyperspaceJump, Dock, reset
    <3> QED
      BY <1>1, <3>1
  <2> QED
    BY <2>1, <2>2
<1>5. weapons' \in [side : {"none", "dog", "flank burst"}, pierce : 0..2]
  <2>1. weapons' = weapons \/ weapons' = assignWeapons(cargo) \/ weapons' = assignWeapons(cargo')
    BY DEF addEnergy, addShield, FindArtifact, fireSpecial, hyperspaceJump, Dock, reset
  <2> QED
    BY <1>1, <2>1, GunsTyped
<1>6. HoldOK(cargo)'
  <2>1. CASE addEnergy \/ addShield \/ Dock
    BY <1>1, <2>1 DEF addEnergy, addShield, Dock
  <2>2. CASE FindArtifact
    <3>1. cargo' = [cargo EXCEPT !["Alien artifacts"] = @ + 1]
      BY <2>2 DEF FindArtifact
    <3>2. "Alien artifacts" \in Goods /\ "Alien artifacts" \notin Weighing
          /\ "Alien artifacts" \notin DOMAIN maxQty
      BY MaxQtyFacts DEF Goods, Weighing, Upgrades
    <3>3. HoldOK([cargo EXCEPT !["Alien artifacts"] = @ + 1])
      BY <1>1, <3>2, HoldMore, Zenon
    <3> QED
      BY <3>1, <3>3, Zenon
  <2>3. CASE fireSpecial
    <3>1. PICK g \in {"Stinger rocket", "Space grenade"} :
            cargo[g] > 0 /\ cargo' = [cargo EXCEPT ![g] = @ - 1]
      BY <2>3 DEF fireSpecial
    <3>2. g \in Goods
      BY DEF Goods
    <3> QED
      BY <1>1, <3>1, <3>2, HoldTaken
  <2>4. CASE hyperspaceJump
    <3>1. PICK f \in 1..cargo["Fuel"] : cargo' = [cargo EXCEPT !["Fuel"] = @ - f]
      BY <2>4 DEF hyperspaceJump
    <3>2. "Fuel" \in Goods
      BY DEF Goods
    <3>3. cargo["Fuel"] \in Nat
      BY <1>1, <3>2
    <3>4. f \in Nat /\ f <= cargo["Fuel"]
      BY <3>1, <3>3
    <3> QED
      BY <1>1, <3>1, <3>2, <3>3, <3>4, HoldTakenMany
  <2> QED
    BY <2>1, <2>2, <2>3, <2>4
<1>7. ShipOK'
  BY <1>1, <1>3, <1>4, <1>5 DEF ShipOK
<1> QED
  BY <1>1, <1>3, <1>6, <1>7 DEF Limits

\* Every step stays within the limits.
LEMMA NextLimits == Limits /\ [Next]_vars => Limits'
<1> SUFFICES ASSUME Limits, [Next]_vars PROVE Limits'
  OBVIOUS
<1>1. CASE Next
  BY <1>1, MarketLimits, StoryLimits, LeaveLimits, HitLimits, OrbitLimits DEF Next
<1>2. CASE UNCHANGED vars
  BY <1>2 DEF vars, Limits, ShipOK
<1> QED
  BY <1>1, <1>2

----------------------------------------------------------------------------
\* The inductive invariant.
THEOREM TradeInvariance == Spec => []IInv
<1> QED
  BY InitIInv, NextIInv, PTL DEF Spec

\* Every variable keeps its type, and the hold, the tank and the purse their
\* limits.
THEOREM TypeCorrect == Spec => []TypeOK
<1> QED
  BY InitLimits, NextLimits, LimitsTyped, PTL DEF Spec

\* The shield is never stronger than the equipment aboard allows.
THEOREM ShieldCorrect == Spec => []ShieldWithinUpgrade
<1>1. IInv => ShieldWithinUpgrade
  BY DEF IInv
<1> QED
  BY <1>1, TradeInvariance, PTL

\* The guns are those of the equipment aboard.
THEOREM WeaponsCorrect == Spec => []WeaponsFollowHold
<1>1. IInv => WeaponsFollowHold
  BY DEF IInv
<1> QED
  BY <1>1, TradeInvariance, PTL

\* Nobody leaves a dock with goods its ruler forbids and a clean name there.
THEOREM CustomsCorrect == Spec => NoContrabandUnasked
<1>1. ASSUME IInv, [Next]_vars
      PROVE  [(mode \in {"dock", "box"} /\ mode' = "orbit") =>
                status'[ruler] # "clean" \/ \A g \in illegal(ruler) : cargo'[g] = 0]_vars
  <2> SUFFICES ASSUME Next, mode \in {"dock", "box"}, mode' = "orbit"
               PROVE  status'[ruler] # "clean" \/ \A g \in illegal(ruler) : cargo'[g] = 0
    BY <1>1
  <2>1. illegal(ruler) \subseteq Goods
    BY DEF illegal, Goods
  <2>2. /\ cargo \in [Goods -> Nat] /\ ruler \in Ruler
        /\ status \in [Ruler -> {"clean", "fugitive", "terrorist"}]
    BY <1>1 DEF IInv, Shape
  <2>3. CASE Launch
    <3>1. cargo' = cargo /\ status' = status
          /\ (status[ruler] # "clean" \/ contraband(ruler) = {})
      BY <2>3 DEF Launch
    <3>2. contraband(ruler) = {} => \A g \in illegal(ruler) : cargo[g] = 0
      BY <2>1, <2>2 DEF contraband
    <3> QED
      BY <3>1, <3>2
  <2>4. CASE IllegalTradeAccept
    BY <2>1, <2>4 DEF IllegalTradeAccept
  <2>5. CASE IllegalTradeRefuse
    BY <2>2, <2>5 DEF IllegalTradeRefuse
  <2>6. ~ (startNewCampaign \/ Buy \/ Sell \/ saveGame \/ ulegAccept \/ ulegRefuse)
    BY DEF startNewCampaign, Buy, Sell, saveGame, trading, ulegAccept, ulegRefuse
  <2>7. ~ (Hit \/ addEnergy \/ addShield \/ FindArtifact \/ fireSpecial
             \/ hyperspaceJump \/ Dock)
    BY DEF Hit, addEnergy, addShield, FindArtifact, fireSpecial, hyperspaceJump, Dock,
           flying, Orbit
  <2> QED
    BY <2>3, <2>4, <2>5, <2>6, <2>7 DEF Next
<1> QED
  BY <1>1, TradeInvariance, PTL DEF Spec, NoContrabandUnasked
=============================================================================
