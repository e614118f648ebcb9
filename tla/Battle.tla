------------------------------- MODULE Battle -------------------------------
(***************************************************************************)
(* The rounds of the fight, step by step: StageManager::update, then every *)
(* particle of every group in the order of the lists, then the collisions  *)
(* of the linked groups, pair by pair.  Where things are on the screen is  *)
(* arbitrary: any path may end, any bullet may leave, any pair may touch.  *)
(* The counters of GameState tell when an enemy may attack or fire and     *)
(* when the next wave comes; nothing ever recounts them.                   *)
(***************************************************************************)
EXTENDS ParticleGroup, FiniteSets

CONSTANTS
    Size,              \* _numParticles of the groups
    WaveSizes,         \* how many critters a level of the pack may hold
    Skills, Rookie,    \* Skill::SkillEnum, Skill::eRookie
    MaxBullets,        \* Skill::_maxBullets and
    MaxAttacking,      \*   _maxAttacking, by skill
    Toughness,         \* _energy of a critter and of the boss (FALSE, TRUE),
                       \*   in units of the damage 1
    MaxLeak            \* a bound: how far enemyBulletCount may drift

Group == {"Enemies", "EnemyBullets", "HeroBullets", "ShootableEnemyBullets"}

\* The levels of CritterPack.xml hold 1 to 30 enemies, their group 300.
ASSUME BattleAssumption ==
    /\ Size \in [Group -> Nat \ {0}]
    /\ WaveSizes \subseteq 1..Size["Enemies"]
    /\ MaxBullets \in [Skills -> Nat] /\ MaxAttacking \in [Skills -> Nat]
    /\ Toughness \in [BOOLEAN -> Nat \ {0}] /\ MaxLeak \in Nat

VARIABLES
    pg,                \* the particle groups, but for the hero's own
    hero,              \* "alive"; "dead" until its next update; "gone"
    boss,              \* the wave is the Boss1Enemy, of the last level
    move, energy,      \* _moveState and _energy, by particle of Enemies
    swarm,             \* the particles of EnemyBullets, and _last.. of the boss
    numObjects, enemyAttackCount, enemyBulletCount,
    skill,
    bonuses,           \* bonuses dropped since the wave began
    at                 \* where the round is

enemyVars == <<boss, move, energy, bonuses>>
counters  == <<numObjects, enemyAttackCount, enemyBulletCount>>
vars == <<pg, hero, enemyVars, swarm, counters, skill, at>>

Slot(g)   == 1..Size[g]
Leg       == {"left", "right"}
MoveState == {"entry", "transition", "idle", "attack", "retreat"}
Attacking == {"attack", "retreat"}

\* leader: SwarmLeader, not SwarmElement; attached: extra.y of a leader.
Swarms == [leader   : [Slot("EnemyBullets") -> BOOLEAN],
           related  : [Slot("EnemyBullets") -> Slot("EnemyBullets") \cup {0}],
           attached : [Slot("EnemyBullets") -> Int],
           last     : [Leg -> Slot("EnemyBullets") \cup {0}]]

\* Of enemies that are not there nothing is known.
NoMove   == [e \in Slot("Enemies") |-> "entry"]
NoEnergy == [e \in Slot("Enemies") |-> 0]

NoLeaders == [l \in Leg |-> 0]
NoSwarm == [leader   |-> [s \in Slot("EnemyBullets") |-> FALSE],
            related  |-> [s \in Slot("EnemyBullets") |-> 0],
            attached |-> [s \in Slot("EnemyBullets") |-> 0],
            last     |-> NoLeaders]

\* Game::init gives the order of groups and links; what counts nothing is
\* left out.
Links == {"shots at bullets", "shots at enemies", "ram", "swarm hits", "fire hits"}
Stage == <<"stages", "hero", "Enemies", "EnemyBullets", "HeroBullets",
           "ShootableEnemyBullets", "shots at bullets", "shots at enemies",
           "ram", "swarm hits", "fire hits">>

Start(stage) == [stage |-> stage, i |-> 1, j |-> 0]
After(stage) == LET k == CHOOSE n \in DOMAIN Stage : Stage[n] = stage
                IN Start(Stage[(k % Len(Stage)) + 1])

Used(g)   == {pg[g].used[k] : k \in DOMAIN pg[g].used}
Free(g)   == {pg[g].free[k] : k \in DOMAIN pg[g].free}
Attackers == {e \in Used("Enemies") : move[e] \in Attacking}
Leaders   == {s \in Used("EnemyBullets") : swarm.leader[s]}
Swarm(s)  == {e \in Used("EnemyBullets") \ Leaders : swarm.related[e] = s}
\* What the init of a ball of fire and of a swarm leader counts.
Counted   == Cardinality(Used("ShootableEnemyBullets")) + Cardinality(Leaders)

Init ==
    /\ pg = [g \in Group |-> reset(Size[g])]
    /\ hero = "gone" /\ boss = FALSE /\ bonuses = 0
    /\ move = NoMove /\ energy = NoEnergy
    /\ swarm = NoSwarm
    /\ numObjects = 0 /\ enemyAttackCount = 0 /\ enemyBulletCount = 0
    /\ skill \in Skills /\ at = Start("menu")

----------------------------------------------------------------------------
(* Waves and launches.                                                     *)

\* StageManager::activateLevel with n enemies, who are then created one by one.
activateLevel(n, b, launch) ==
    /\ boss' = b /\ numObjects' = 0 /\ bonuses' = 0
    /\ at' = [stage |-> "create", i |-> n, j |-> launch]

\* EnemyFactory::createEnemy: the constructor counts the enemy, then asks the
\* group for a particle.
createEnemy ==
    /\ at.stage = "create" /\ at.i > 0
    /\ numObjects' = numObjects + 1
    /\ pg' = [pg EXCEPT !["Enemies"] = newParticle(@, 1)]
    /\ LET e == born(pg["Enemies"]) IN
         energy' = [x \in DOMAIN energy |-> IF x = e THEN Toughness[boss] ELSE energy[x]]
    /\ at' = [at EXCEPT !.i = @ - 1]
    /\ UNCHANGED <<hero, boss, bonuses, move, swarm, enemyAttackCount, enemyBulletCount, skill>>

Created ==
    /\ at.stage = "create" /\ at.i = 0
    /\ at' = IF at.j = 1 THEN Start("launched") ELSE After("stages")
    /\ UNCHANGED <<pg, hero, enemyVars, swarm, counters, skill>>

\* StageManager::update: with no objects left the next wave comes, or the
\* space station, which leaves the fight as it is.  The boss is the last wave
\* of all, the 99th at the last planet of the story.
StageUpdate ==
    /\ at.stage \in {"stages", "launched"}
    /\ \/ /\ numObjects = 0 /\ ~boss
          /\ activateLevel(1, TRUE, 0) \/ \E n \in WaveSizes : activateLevel(n, FALSE, 0)
       \/ at' = After("stages") /\ UNCHANGED <<boss, numObjects, bonuses>>
    /\ UNCHANGED <<pg, hero, move, energy, swarm, enemyAttackCount,
                   enemyBulletCount, skill>>

\* Place of a particle in the used list.
Place(g, p) == CHOOSE k \in DOMAIN pg[g].used : pg[g].used[k] = p

\* SwarmLeader::update does not look at tod: a leader told to die by reset is
\* counted off only if it has left the screen and no element is attached.
CountsOff(s) ==
    swarm.attached[s]
      - Cardinality({e \in Swarm(s) : Place("EnemyBullets", e) < Place("EnemyBullets", s)}) <= 0

\* ParticleGroupManager::reset, where off are the leaders that count off.
\* Particles that die this way give birth to none.
pgmReset(off) ==
    /\ enemyAttackCount' = enemyAttackCount - Cardinality(Attackers)
    /\ enemyBulletCount' = enemyBulletCount - Len(pg["ShootableEnemyBullets"].used)
                             - Cardinality(off)
    /\ move' = NoMove /\ energy' = NoEnergy /\ swarm' = NoSwarm
    /\ pg' = [g \in Group |-> reset(Size[g])]

\* Game::reset for a launch or a jump, between two rounds: the groups, the
\* hero, the first wave.  A new campaign and a docking may change the skill.
Launch ==
    /\ at.stage \in {"menu", "stages", "launched"}
    /\ \E off \in SUBSET {s \in Leaders : CountsOff(s)} :
         /\ enemyBulletCount - Counted + Cardinality(Leaders \ off) <= MaxLeak
         /\ pgmReset(off)
    /\ hero' = "alive" /\ skill' \in Skills
    /\ \E n \in WaveSizes : activateLevel(n, FALSE, 1)

----------------------------------------------------------------------------
(* The particles' updates, in ParticleGroupManager::update.                *)

\* Hero::update; the weapons it fires are added to the hero's bullets, of
\* damage 2 if they go through what they hit (FlankBurst, HeroStinger).
HeroFires ==
    /\ at.stage = "hero" /\ hero = "alive"
    /\ \E d \in {1, 2} : pg' = [pg EXCEPT !["HeroBullets"] = newParticle(@, d)]
    /\ UNCHANGED <<hero, enemyVars, swarm, counters, skill, at>>

HeroUpdate ==
    /\ at.stage = "hero"
    /\ hero' = IF hero = "dead" THEN "gone" ELSE hero
    /\ at' = After("hero")
    /\ UNCHANGED <<pg, enemyVars, swarm, counters, skill>>

\* The particle whose turn it is, and what ParticleGroup::update does with it.
Turn(g)    == at.stage = g /\ at.i <= Len(pg[g].used)
Self(g)    == pg[g].used[at.i]
Doomed(g)  == Self(g) \in pg[g].dead
Lives      == at' = [at EXCEPT !.i = @ + 1]
Dies(g)    == pg' = [pg EXCEPT ![g] = unlink(@, at.i)] /\ UNCHANGED at

GroupDone ==
    /\ at.stage \in Group /\ at.i > Len(pg[at.stage].used)
    /\ at' = After(at.stage)
    /\ UNCHANGED <<pg, hero, enemyVars, swarm, counters, skill>>

\* Mutant: only an attacking enemy is taken off the count of attackers.
Mut_EnemyDies ==
    /\ Turn("Enemies") /\ Doomed("Enemies")
    /\ numObjects' = numObjects - 1
    /\ enemyAttackCount' = enemyAttackCount - (IF move[Self("Enemies")] = "attack" THEN 1 ELSE 0)
    /\ Dies("Enemies")
    /\ move' = [move EXCEPT ![Self("Enemies")] = "entry"]
    /\ swarm' = IF boss THEN [swarm EXCEPT !.last = NoLeaders] ELSE swarm
    /\ UNCHANGED <<hero, boss, energy, bonuses, enemyBulletCount, skill>>

\* SimpleEnemy::update and Boss1Enemy::update with tod = 0, which delete the
\* enemy, the boss together with what it knows of its leaders.
EnemyDies ==
    /\ Turn("Enemies") /\ Doomed("Enemies")
    /\ numObjects' = numObjects - 1
    /\ enemyAttackCount' =
         enemyAttackCount - (IF move[Self("Enemies")] \in Attacking THEN 1 ELSE 0)
    /\ Dies("Enemies")
    /\ move' = [move EXCEPT ![Self("Enemies")] = "entry"]
    /\ swarm' = IF boss THEN [swarm EXCEPT !.last = NoLeaders] ELSE swarm
    /\ UNCHANGED <<hero, boss, energy, bonuses, enemyBulletCount, skill>>

\* BaseEnemy::getNextPath at the end of a path.  The boss has no attack path.
NextMove(m) ==
    CASE m = "entry"      -> {"transition"}
      [] m = "transition" -> {"idle"}
      [] m = "idle"       ->
           IF enemyAttackCount < MaxAttacking[skill] /\ ~boss
           THEN {"idle", "attack"} ELSE {"idle"}
      [] m = "attack"     -> {"attack", "retreat", "transition"}
      [] m = "retreat"    -> {"attack", "transition"}

\* getNextPath starts an attack, sendHome ends it.
getNextPath(e, m) ==
    /\ m \in NextMove(move[e])
    /\ move' = [move EXCEPT ![e] = m]
    /\ enemyAttackCount' = enemyAttackCount
         + (IF move[e] = "idle" /\ m = "attack" THEN 1 ELSE 0)
         - (IF move[e] \in Attacking /\ m = "transition" THEN 1 ELSE 0)

EnemyFlies(e) ==
    \/ UNCHANGED <<move, enemyAttackCount>>
    \/ \E m \in MoveState : getNextPath(e, m)

\* Mutant: a ball of fire is not counted.
Mut_Fires ==
    /\ pg' = [pg EXCEPT !["ShootableEnemyBullets"] = newParticle(@, 1)]
    /\ enemyBulletCount' = enemyBulletCount

\* BallOfFire::init counts the bullet, if there was a particle for it.
Fires ==
    /\ pg' = [pg EXCEPT !["ShootableEnemyBullets"] = newParticle(@, 1)]
    /\ enemyBulletCount' =
         enemyBulletCount + (IF born(pg["ShootableEnemyBullets"]) = 0 THEN 0 ELSE 1)

SimpleEnemyUpdate ==
    /\ ~boss /\ Turn("Enemies") /\ ~Doomed("Enemies")
    /\ EnemyFlies(Self("Enemies"))
    /\ \/ UNCHANGED <<pg, enemyBulletCount>>
       \/ /\ enemyBulletCount < MaxBullets[skill]
          /\ move'[Self("Enemies")] \in {"idle", "attack"} \/ skill # Rookie
          /\ Fires
    /\ Lives
    /\ UNCHANGED <<hero, boss, energy, bonuses, swarm, numObjects, skill>>

\* The boss's two attacks, as functions of the group g of its bullets and of
\* w, what is known of them.  A leader that finds no particle leaves null.
launchLeader(g, w, leg) ==
    LET s == born(g) IN
    [group |-> newParticle(g, 0),
     swarm |-> IF s = 0 THEN [w EXCEPT !.last[leg] = 0]
               ELSE [w EXCEPT !.leader[s] = TRUE, !.attached[s] = 0, !.last[leg] = s]]

\* SwarmElement::init counts itself in extra.y of the particle the boss
\* remembers as the leader, whatever that particle is by now.
launchElement(g, w, leg) ==
    LET e == born(g) IN
    IF w.last[leg] = 0 \/ e = 0 THEN [group |-> g, swarm |-> w]
    ELSE [group |-> newParticle(g, 1),
          swarm |-> [[w EXCEPT !.leader[e] = FALSE, !.related[e] = w.last[leg],
                               !.attached[e] = 0]
                        EXCEPT !.attached[w.last[leg]] = @ + 1]]

BossUpdate ==
    /\ boss /\ Turn("Enemies") /\ ~Doomed("Enemies")
    /\ EnemyFlies(Self("Enemies"))
    /\ LET calm == [group |-> pg["EnemyBullets"], swarm |-> swarm]
           led  == {calm} \cup {launchLeader(calm.group, calm.swarm, leg) : leg \in Leg}
           both(x) == LET l == launchElement(x.group, x.swarm, "left")
                      IN launchElement(l.group, l.swarm, "right")
       IN \E x \in led : \E y \in {x, both(x)} :
            /\ pg' = [pg EXCEPT !["EnemyBullets"] = y.group]
            /\ swarm' = y.swarm
            /\ enemyBulletCount' = enemyBulletCount
                 + (IF x # calm /\ born(calm.group) # 0 THEN 1 ELSE 0)
    /\ Lives
    /\ UNCHANGED <<hero, boss, energy, bonuses, numObjects, skill>>

\* SwarmLeader::update, SwarmElement::update.
LeaderUpdate ==
    /\ Turn("EnemyBullets") /\ swarm.leader[Self("EnemyBullets")]
    /\ \/ Lives /\ UNCHANGED <<pg, swarm, enemyBulletCount>>
       \/ /\ swarm.attached[Self("EnemyBullets")] <= 0
          /\ enemyBulletCount' = enemyBulletCount - 1
          /\ swarm' = [swarm EXCEPT !.leader[Self("EnemyBullets")] = FALSE]
          /\ Dies("EnemyBullets")
    /\ UNCHANGED <<hero, enemyVars, numObjects, enemyAttackCount, skill>>

\* Mutant: an element that hit the hero leaves its leader waiting.
Mut_ElementUpdate ==
    /\ Turn("EnemyBullets") /\ ~swarm.leader[Self("EnemyBullets")]
    /\ \/ ~Doomed("EnemyBullets") /\ Lives /\ UNCHANGED <<pg, swarm>>
       \/ /\ swarm' = IF Doomed("EnemyBullets") THEN swarm
                      ELSE [swarm EXCEPT
                              !.attached[swarm.related[Self("EnemyBullets")]] = @ - 1]
          /\ Dies("EnemyBullets")
    /\ UNCHANGED <<hero, enemyVars, counters, skill>>

ElementUpdate ==
    /\ Turn("EnemyBullets") /\ ~swarm.leader[Self("EnemyBullets")]
    /\ \/ ~Doomed("EnemyBullets") /\ Lives /\ UNCHANGED <<pg, swarm>>
       \/ /\ swarm' = [swarm EXCEPT !.attached[swarm.related[Self("EnemyBullets")]] = @ - 1,
                                     !.related[Self("EnemyBullets")] = 0]
          /\ Dies("EnemyBullets")
    /\ UNCHANGED <<hero, enemyVars, counters, skill>>

HeroBulletUpdate ==
    /\ Turn("HeroBullets")
    /\ \/ ~Doomed("HeroBullets") /\ Lives /\ UNCHANGED pg
       \/ Dies("HeroBullets")
    /\ UNCHANGED <<hero, enemyVars, swarm, counters, skill>>

\* Mutant: a ball of fire that was shot is not counted off.
Mut_BallOfFireUpdate ==
    /\ Turn("ShootableEnemyBullets")
    /\ \/ /\ ~Doomed("ShootableEnemyBullets")
          /\ Lives /\ UNCHANGED <<pg, enemyBulletCount>>
       \/ /\ enemyBulletCount' =
               enemyBulletCount - (IF Doomed("ShootableEnemyBullets") THEN 0 ELSE 1)
          /\ Dies("ShootableEnemyBullets")
    /\ UNCHANGED <<hero, enemyVars, swarm, numObjects, enemyAttackCount, skill>>

BallOfFireUpdate ==
    /\ Turn("ShootableEnemyBullets")
    /\ \/ /\ ~Doomed("ShootableEnemyBullets")
          /\ Lives /\ UNCHANGED <<pg, enemyBulletCount>>
       \/ /\ enemyBulletCount' = enemyBulletCount - 1
          /\ Dies("ShootableEnemyBullets")
    /\ UNCHANGED <<hero, enemyVars, swarm, numObjects, enemyAttackCount, skill>>

----------------------------------------------------------------------------
(* Collisions, in ParticleGroup::detectCollisions: at is the last pair that *)
(* touched.  A pair with the boss, who has six radii, may touch again.      *)

Pair(i, j) ==
    /\ \/ i > at.i
       \/ i = at.i /\ j > at.j
       \/ i = at.i /\ j = at.j /\ boss /\ at.stage \in {"shots at enemies", "ram"}
    /\ at' = [at EXCEPT !.i = i, !.j = j]

LinkDone ==
    /\ at.stage \in Links
    /\ at' = After(at.stage)
    /\ UNCHANGED <<pg, hero, enemyVars, swarm, counters, skill>>

\* Mutant: the damage of a bullet that hit stays.
Mut_spend(g, p) == [g EXCEPT !.dead = @ \cup {p}]

\* tod = 0, and then detectCollisions takes the damage of what is dead.
spend(g, p) == [g EXCEPT !.dead = @ \cup {p}, !.damage[p] = 0]

\* The hit of a bullet of the hero's: weapons of damage 2 go on.
bulletHit(p) ==
    IF pg["HeroBullets"].damage[p] = 2 THEN pg["HeroBullets"]
    ELSE spend(pg["HeroBullets"], p)

\* Mutant: an enemy dies once more with every further hit.
Mut_enemyHit(e, d) ==
    LET left == IF d >= energy[e] THEN 0 ELSE energy[e] - d IN
    /\ energy' = [energy EXCEPT ![e] = left]
    /\ bonuses' = bonuses + (IF left = 0 THEN 1 ELSE 0)

\* SimpleEnemy::hit and Boss1Enemy::hit, which takes little of what kills at
\* once: one more bonus, and death, only when the energy is used up by this hit.
enemyHit(e, d) ==
    LET left == IF d >= energy[e] THEN 0 ELSE energy[e] - d IN
    /\ energy' = [energy EXCEPT ![e] = left]
    /\ bonuses' = bonuses + (IF energy[e] > 0 /\ left = 0 THEN 1 ELSE 0)

enemyGroup(e, d) ==
    IF d >= energy[e] THEN spend(pg["Enemies"], e) ELSE pg["Enemies"]

\* Hero::hit: no damage never kills.
heroHit(d) ==
    hero' \in (IF hero = "alive" /\ d > 0 THEN {"alive", "dead"} ELSE {hero})

ShotHitsBullet ==
    /\ at.stage = "shots at bullets"
    /\ \E i \in DOMAIN pg["HeroBullets"].used, j \in DOMAIN pg["ShootableEnemyBullets"].used :
         /\ Pair(i, j)
         /\ pg' = [pg EXCEPT
              !["HeroBullets"] = bulletHit(pg["HeroBullets"].used[i]),
              !["ShootableEnemyBullets"] = spend(@, @.used[j])]
    /\ UNCHANGED <<hero, enemyVars, swarm, counters, skill>>

ShotHitsEnemy ==
    /\ at.stage = "shots at enemies"
    /\ \E i \in DOMAIN pg["HeroBullets"].used, j \in DOMAIN pg["Enemies"].used :
         LET b == pg["HeroBullets"].used[i]
             e == pg["Enemies"].used[j]
             d == IF boss /\ pg["HeroBullets"].damage[b] = 2 THEN 1
                  ELSE pg["HeroBullets"].damage[b]
         IN /\ Pair(i, j)
            /\ enemyHit(e, d)
            /\ pg' = [pg EXCEPT !["HeroBullets"] = bulletHit(b),
                                !["Enemies"] = enemyGroup(e, d)]
    /\ UNCHANGED <<hero, boss, move, swarm, counters, skill>>

\* The hero is one particle, still there in the round it dies in.
Ram ==
    /\ at.stage = "ram" /\ hero # "gone"
    /\ \E j \in DOMAIN pg["Enemies"].used :
         LET e == pg["Enemies"].used[j] IN
         /\ Pair(1, j)
         /\ heroHit(pg["Enemies"].damage[e])
         /\ enemyHit(e, 1)
         /\ pg' = [pg EXCEPT !["Enemies"] = enemyGroup(e, 1)]
    /\ UNCHANGED <<boss, move, swarm, counters, skill>>

BulletHitsHero(stage, g) ==
    /\ at.stage = stage /\ hero # "gone"
    /\ \E j \in DOMAIN pg[g].used :
         /\ Pair(1, j)
         /\ heroHit(pg[g].damage[pg[g].used[j]])
         /\ pg' = [pg EXCEPT ![g] = spend(@, @.used[j])]
    /\ UNCHANGED <<enemyVars, swarm, counters, skill>>

SwarmHits == BulletHitsHero("swarm hits", "EnemyBullets")
FireHits  == BulletHitsHero("fire hits", "ShootableEnemyBullets")

Next ==
    \/ Launch \/ StageUpdate \/ createEnemy \/ Created
    \/ HeroFires \/ HeroUpdate \/ GroupDone
    \/ EnemyDies \/ SimpleEnemyUpdate \/ BossUpdate
    \/ LeaderUpdate \/ ElementUpdate \/ HeroBulletUpdate \/ BallOfFireUpdate
    \/ ShotHitsBullet \/ ShotHitsEnemy \/ Ram \/ SwarmHits \/ FireHits \/ LinkDone

Spec == Init /\ [][Next]_vars

----------------------------------------------------------------------------
TypeOK ==
    /\ DOMAIN pg = Group /\ \A g \in Group : pg[g] \in Groups(Size[g])
    /\ hero \in {"alive", "dead", "gone"} /\ boss \in BOOLEAN
    /\ move \in [Slot("Enemies") -> MoveState]
    /\ energy \in [Slot("Enemies") -> 0..Toughness[boss]]
    /\ swarm \in Swarms
    /\ numObjects \in Nat /\ enemyAttackCount \in Nat /\ enemyBulletCount \in Nat
    /\ skill \in Skills /\ bonuses \in Nat
    /\ at.stage \in {Stage[k] : k \in DOMAIN Stage} \cup {"menu", "launched", "create"}
    /\ at.i \in Nat /\ at.j \in Nat

\* Every particle of a group is in one of its two lists, and there once: none
\* is lost, none is handed out twice, and no list bites its tail.
ListsAreSound ==
    \A g \in Group :
        /\ Slot(g) = Used(g) \cup Free(g)
        /\ Len(pg[g].used) + Len(pg[g].free) = Size[g]

\* numObjects, on which the next wave and the station wait, is the number of
\* enemies there are, and enemyAttackCount the number of those that attack;
\* never more attack than the skill allows.
ObjectsCounted == numObjects = Len(pg["Enemies"].used)
EnemiesCounted ==
    /\ ObjectsCounted
    /\ enemyAttackCount = Cardinality(Attackers)
    /\ enemyAttackCount <= MaxAttacking[skill]

\* A leader never waits for more elements than there are: it can leave, and
\* give back its particle and its place in enemyBulletCount.
LeaderNeverStuck == \A s \in Leaders : swarm.attached[s] <= Cardinality(Swarm(s))

\* enemyBulletCount, which stops the enemies from firing, parts from the
\* bullets that are there only when a reset kills a boss's swarm.
OnlyResetLeaks ==
    [][enemyBulletCount' - Counted' # enemyBulletCount - Counted
         => boss /\ at'.stage = "create" /\ at'.j = 1]_vars

\* A bullet or an enemy that was killed earlier in the round does no harm:
\* one bullet, one victim; the wreck of an enemy does not hurt the hero.
SpentIsHarmless ==
    [][/\ at.stage = "shots at enemies" /\ energy' # energy
            => pg["HeroBullets"].used[at'.i] \notin pg["HeroBullets"].dead
       /\ hero' = "dead" /\ hero = "alive"
            => LET g == CASE at.stage = "ram" -> "Enemies"
                          [] at.stage = "swarm hits" -> "EnemyBullets"
                          [] at.stage = "fire hits" -> "ShootableEnemyBullets"
               IN pg[g].used[at'.j] \notin pg[g].dead]_vars

\* The fight keeps its promise to the game (module Wave): every enemy of a
\* wave falls once and leaves one bonus, and the next wave waits for the last.
W == INSTANCE Wave WITH
       Sizes   <- WaveSizes \cup {1},
       alive   <- Len(pg["Enemies"].used)
                    - Cardinality(Used("Enemies") \cap pg["Enemies"].dead)
                    + (IF at.stage = "create" THEN at.i ELSE 0),
       bonuses <- bonuses,
       arrived <- at.stage = "launched" \/ (at.stage = "create" /\ at.j = 1)
FollowsWave == W!Spec
=============================================================================
