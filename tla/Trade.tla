-------------------------------- MODULE Trade --------------------------------
(***************************************************************************)
(* What the ship carries, from the market to the fight and back: the hold  *)
(* fills and empties at the docks, the customs look into it when the ship  *)
(* leaves one, and in orbit some of the cargo is the ship's equipment:     *)
(* weapons and shield depend on it, a hit may take a piece of it away.     *)
(***************************************************************************)
EXTENDS Integers, FiniteSetsExt

CONSTANTS
    Capacity,   \* of the hold, 20 tons
    Tank,       \* units of fuel, 40
    Magazine,   \* rockets or grenades, 20
    Full,       \* energy or shield of a whole ship, 100
    Boost,      \* what a blob or a shield boost gives, 50
    Harm,       \* bound: the greatest damage of a hit
    Prices,     \* what things may cost
    Fee,        \* for saving the game
    Start,      \* the money and the fuel of a new campaign, 2000 and 30
    MaxMoney,   \* bound: nothing is sold when the purse would hold more
    Found,      \* bound: alien artifacts
    Traded      \* bound: the goods this player cares for

Goods == {"Food", "Electronics", "Alien artifacts", "Jewelry", "Firearms", "Narcotics",
          "Slaves", "Proton enhancer", "Wave emitter", "Space grenade", "Stinger rocket",
          "Shield upgrade", "Fuel"}

ASSUME TradeAssumption ==
    /\ {Capacity, Tank, Magazine, Full, Boost, Harm, Fee, MaxMoney, Found} \subseteq Nat
    /\ Full > 0 /\ Start \in [money : 0..MaxMoney, fuel : 0..Tank]
    /\ Prices \subseteq Nat /\ Traded \subseteq Goods

VARIABLES
    mode,     \* "dock", "box" (the customs ask), "uleg" (he makes his offer),
              \*   "orbit", or "wreck"
    ruler,    \* of the planet, by its _rebelSentiment
    story,    \* whether Uleg has made his offer, and what became of it
    cargo,    \* _cargo
    money,    \* _money
    status,   \* _empireStatus and _rebelStatus
    shield,   \* _shieldEnergy
    energy,   \* _energy
    weapons   \* _weapon[SECONDARY_WEAPON], and the armor pierce

vars == <<mode, ruler, story, cargo, money, status, shield, energy, weapons>>

----------------------------------------------------------------------------
(* CargoItemInfo::getCargoInfo.                                            *)

Ruler == {"Empire", "Rebels"}

illegal(r) == {"Narcotics"} \cup (IF r = "Empire" THEN {"Firearms"} ELSE {"Slaves"})

\* These weigh a ton each.  Alien artifacts weigh -1, which takes no place.
Weighing == {"Food", "Electronics", "Jewelry", "Firearms", "Narcotics", "Slaves"}
ForSale  == Goods \ {"Alien artifacts"}

Upgrades == {"Proton enhancer", "Wave emitter", "Shield upgrade"}
maxQty   == [g \in Upgrades \cup {"Space grenade", "Stinger rocket", "Fuel"} |->
               IF g \in Upgrades THEN 1 ELSE IF g = "Fuel" THEN Tank ELSE Magazine]

Tons(c) == MapThenSumSet(LAMBDA g : c[g], Weighing)

\* Cargo::create(0), and the fuel that comes with a ship.
NewShip == [g \in Goods |-> IF g = "Fuel" THEN Start.fuel ELSE 0]

Capped(n, m) == IF n > m THEN m ELSE n
limit(c)     == Full + Full * c["Shield upgrade"]

----------------------------------------------------------------------------
(* The dock.                                                               *)

Free == [n \in Ruler |-> "clean"]
NoWeapons == [side |-> "none", pierce |-> 0]
AllWeapons == [side |-> "flank burst", pierce |-> 2]

\* The first campaign.  Skill::Skill mounts the guns of a hold that is not
\* there yet, for which Cargo::findItem answers with ten pieces of anything.
Init ==
    /\ mode = "dock" /\ ruler = "Empire" /\ story = "before"
    /\ cargo = NewShip /\ money = Start.money /\ status = Free
    /\ shield = Full /\ energy = Full /\ weapons \in {NoWeapons, AllWeapons}

\* The hero keeps whatever state the last flight left.
startNewCampaign ==
    /\ mode' = "dock" /\ ruler' = "Empire" /\ story' = "before"
    /\ cargo' = NewShip /\ money' = Start.money /\ status' = Free
    /\ UNCHANGED <<shield, energy, weapons>>

trading == UNCHANGED <<mode, ruler, story, status, shield, energy, weapons>>

\* Mutant: the limit is looked at once the piece is aboard.
Mut_Buy ==
    /\ mode = "dock"
    /\ \E g \in ForSale \cap Traded, p \in Prices :
        /\ ~ (Tons(cargo) > Capacity /\ g \in Weighing)
        /\ money >= p
        /\ g \in DOMAIN maxQty => cargo[g] # maxQty[g] + 1
        /\ cargo' = [cargo EXCEPT ![g] = @ + 1]
        /\ money' = money - p
    /\ trading

\* PlanetManager::tradeClick, in the column of the purchases; the planet's
\* technology may not be up to selling this.
Buy ==
    /\ mode = "dock"
    /\ \E g \in ForSale \cap Traded, p \in Prices :
        /\ ~ (Tons(cargo) >= Capacity /\ g \in Weighing)
        /\ money >= p
        /\ g \in DOMAIN maxQty => cargo[g] # maxQty[g]
        /\ cargo' = [cargo EXCEPT ![g] = @ + 1]
        /\ money' = money - p
    /\ trading

\* In the column of the sales: anything aboard finds a buyer.
Sell ==
    /\ mode = "dock"
    /\ \E g \in Traded, p \in Prices :
        /\ cargo[g] > 0 /\ money + p <= MaxMoney
        /\ cargo' = [cargo EXCEPT ![g] = @ - 1]
        /\ money' = money + p
    /\ trading

\* PlanetManager::saveClick and Game::saveGame.
saveGame ==
    /\ mode = "dock" /\ money >= Fee
    /\ money' = money - Fee /\ UNCHANGED cargo /\ trading

\* Hero::assignWeapons; of the bonus particles none that changes the guns is
\* ever launched.
assignWeapons(c) ==
    [side   |-> IF c["Wave emitter"] > 0 THEN "flank burst" ELSE "dog",
     pierce |-> IF c["Proton enhancer"] > 0 THEN 2 ELSE 1]

\* Mutant: Skill::updateSkill leaves at once when the skill is the same.
Mut_reset(c, leaveEnergy) ==
    /\ shield' = IF leaveEnergy THEN shield ELSE Full
    /\ energy' = IF leaveEnergy THEN energy ELSE Full
    /\ weapons' = IF weapons = NoWeapons THEN assignWeapons(c) ELSE NoWeapons

\* Game::reset, for a ship with the cargo c: Hero::reset empties the gun
\* mounts, and StageManager::reset fills them by Skill::updateSkill.
reset(c, leaveEnergy) ==
    /\ shield' = IF leaveEnergy THEN shield ELSE Full
    /\ energy' = IF leaveEnergy THEN energy ELSE Full
    /\ weapons' = assignWeapons(c)

startNewGame(c) == mode' = "orbit" /\ reset(c, FALSE)

\* Mutant: what nobody allows is left to the other navy.
Mut_contraband(r) ==
    {g \in (IF r = "Empire" THEN {"Firearms"} ELSE {"Slaves"}) : cargo[g] > 0}

contraband(r) == {g \in illegal(r) : cargo[g] > 0}

\* The launch tab, and Game::illegalTradeCheck.
Launch ==
    /\ mode = "dock"
    /\ IF status[ruler] # "clean" \/ contraband(ruler) = {}
       THEN startNewGame(cargo)
       ELSE mode' = "box" /\ UNCHANGED <<shield, energy, weapons>>
    /\ UNCHANGED <<ruler, story, cargo, money, status>>

\* Game::illegalTradeDecision(true).
IllegalTradeAccept ==
    /\ mode = "box"
    /\ cargo' = [g \in Goods |-> IF g \in illegal(ruler) THEN 0 ELSE cargo[g]]
    /\ startNewGame(cargo')
    /\ UNCHANGED <<ruler, story, money, status>>

\* Game::illegalTradeDecision(false).
IllegalTradeRefuse ==
    /\ mode = "box"
    /\ status' = [status EXCEPT ![ruler] = "fugitive"]
    /\ startNewGame(cargo)
    /\ UNCHANGED <<ruler, story, cargo, money>>

\* Game::ulegAccept.
ulegAccept ==
    /\ mode = "uleg" /\ mode' = "dock" /\ story' = "accepted"
    /\ status' = [status EXCEPT !["Rebels"] = "clean"]
    /\ UNCHANGED <<ruler, cargo, money, shield, energy, weapons>>

\* Game::ulegRefuse: the ship is gone, an empty one is found.
ulegRefuse ==
    /\ mode = "uleg" /\ mode' = "dock" /\ story' = "over"
    /\ status' = [status EXCEPT !["Rebels"] = "terrorist"]
    /\ cargo' = NewShip /\ money' = Start.money
    /\ UNCHANGED <<ruler, shield, energy, weapons>>

----------------------------------------------------------------------------
(* Orbit.                                                                  *)

\* What the ship meets in orbit, also when it is a wreck already: that it is
\* one is not looked at everywhere.
Orbit  == {"orbit", "wreck"}
flying == mode \in Orbit /\ UNCHANGED <<ruler, story, money, status>>

\* Mutant: a piece of the equipment goes with every hit.
Mut_loses(d, g) == d > 0 /\ cargo[g] > 0

\* A hit that comes through to the hull may break the piece g.
loses(d, g) == shield = 0 /\ d > 0 /\ cargo[g] > 0

\* Hero::hit.  The shield takes the whole of the hit that breaks it.  Of the
\* three pieces two are tried, which may both be ones that are not there.
Hit ==
    /\ flying /\ mode = "orbit"
    /\ \E d \in 0..Harm :
        /\ shield' = IF d >= shield THEN 0 ELSE shield - d
        /\ energy' = IF shield > 0 THEN energy ELSE energy - d
        /\ mode' = IF energy' <= 0 THEN "wreck" ELSE mode
        /\ \/ /\ ~ \A g \in Upgrades : loses(d, g)
              /\ UNCHANGED <<cargo, weapons>>
           \/ \E g \in Upgrades :
                /\ loses(d, g)
                /\ cargo' = [cargo EXCEPT ![g] = @ - 1]
                /\ weapons' = assignWeapons(cargo')

\* EnergyBlob::hit.
addEnergy ==
    /\ flying /\ energy' = Capped(energy + Boost, Full)
    /\ UNCHANGED <<mode, cargo, shield, weapons>>

\* ShieldBoost::hit.
addShield ==
    /\ flying /\ shield' = Capped(shield + Boost, limit(cargo))
    /\ UNCHANGED <<mode, cargo, energy, weapons>>

\* Bonus1::hit, for one that is worth the most.
FindArtifact ==
    /\ flying /\ cargo["Alien artifacts"] < Found
    /\ cargo' = [cargo EXCEPT !["Alien artifacts"] = @ + 1]
    /\ UNCHANGED <<mode, shield, energy, weapons>>

\* Hero::fireRocket, Hero::fireMegaBomb.
fireSpecial ==
    /\ flying /\ mode = "orbit"
    /\ \E g \in {"Stinger rocket", "Space grenade"} :
        cargo[g] > 0 /\ cargo' = [cargo EXCEPT ![g] = @ - 1]
    /\ UNCHANGED <<mode, shield, energy, weapons>>

\* Game::hyperspaceJump to a planet within the reach of the fuel; a wreck has
\* given up its countdown.
hyperspaceJump ==
    /\ mode = "orbit"
    /\ \E f \in 1..cargo["Fuel"] : cargo' = [cargo EXCEPT !["Fuel"] = @ - f]
    /\ ruler' \in Ruler
    /\ reset(cargo', TRUE)
    /\ UNCHANGED <<mode, story, money, status>>

\* StageManager::update docks: Map::update may change the ruler.  At most
\* stations the skill may rise, which mounts the guns; the story stops the
\* player at the station of Jothan and at that of the Armada.
Dock ==
    /\ mode \in Orbit /\ ruler' \in Ruler
    /\ \/ /\ mode' = "dock" /\ UNCHANGED <<story, status>>
          /\ weapons' \in {weapons, assignWeapons(cargo)}
       \/ story = "before" /\ mode' = "uleg" /\ UNCHANGED <<story, status, weapons>>
       \/ /\ story = "accepted" /\ story' = "over" /\ mode' = "dock"
          /\ status' = [status EXCEPT !["Empire"] = "terrorist"]
          /\ UNCHANGED weapons
    /\ UNCHANGED <<cargo, money, shield, energy>>

Next ==
    \/ startNewCampaign \/ Buy \/ Sell \/ saveGame \/ Launch
    \/ IllegalTradeAccept \/ IllegalTradeRefuse \/ ulegAccept \/ ulegRefuse
    \/ Hit \/ addEnergy \/ addShield \/ FindArtifact \/ fireSpecial
    \/ hyperspaceJump \/ Dock

Spec == Init /\ [][Next]_vars

----------------------------------------------------------------------------
\* Nothing goes below zero, and the ship never holds more than fits in: 20
\* tons in the hold, 40 units in the tank, one piece of each equipment.
TypeOK ==
    /\ mode \in {"dock", "box", "uleg", "orbit", "wreck"} /\ ruler \in Ruler
    /\ story \in {"before", "accepted", "over"}
    /\ cargo \in [Goods -> Nat] /\ Tons(cargo) <= Capacity
    /\ \A g \in DOMAIN maxQty : cargo[g] <= maxQty[g]
    /\ money \in 0..MaxMoney
    /\ status \in [Ruler -> {"clean", "fugitive", "terrorist"}]
    /\ shield \in 0..(2 * Full) /\ energy \in -Harm..Full
    /\ weapons \in [side : {"none", "dog", "flank burst"}, pierce : 0..2]

\* In flight the shield is never stronger than what the ship's generators can
\* hold, whatever was bought, sold, broken or picked up on the way: a player
\* cannot use an upgrade that is not aboard.
ShieldWithinUpgrade == mode = "orbit" => shield <= limit(cargo)

\* In flight the guns are those of the equipment aboard; each place where a
\* piece comes or goes has to mount them again.
WeaponsFollowHold == mode = "orbit" => weapons = assignWeapons(cargo)

\* Nobody leaves a dock with goods its ruler forbids and a clean name there.
NoContrabandUnasked ==
    [][(mode \in {"dock", "box"} /\ mode' = "orbit") =>
         status'[ruler] # "clean" \/ \A g \in illegal(ruler) : cargo'[g] = 0]_vars
=============================================================================
