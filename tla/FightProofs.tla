----------------------------- MODULE FightProofs -----------------------------
(***************************************************************************)
(* For groups, waves and skills of any size: the counters of GameState are *)
(* the numbers they stand for, a swarm leader can always leave, and the    *)
(* fight implements the wave the rest of the game relies on.               *)
(***************************************************************************)
EXTENDS BattleProofs, FiniteSetTheorems, FunctionTheorems

\* The particles of a list, as a set.
Elements(s) == {s[k] : k \in DOMAIN s}

----------------------------------------------------------------------------
\* A list of length l is walked from 1 to l.
LEMMA Walk ==
    ASSUME NEW n \in Nat, NEW r, Sound(r, n)
    PROVE  /\ r.used \in Seq(1..n) /\ Len(r.used) \in Nat
           /\ r.free \in Seq(1..n) /\ Len(r.free) \in Nat
           /\ DOMAIN r.used = 1..Len(r.used)
           /\ \A k \in 1..Len(r.used) : r.used[k] \in 1..n
           /\ \A k \in 1..Len(r.free) : r.free[k] \in 1..n
           /\ Len(r.used) + Len(r.free) = n
           /\ Elements(r.used) \subseteq 1..n
<1> DEFINE u == r.used
           f == r.free
<1>1. u \in Seq(1..n) /\ f \in Seq(1..n) /\ Len(u) + Len(f) = n
  BY DEF Sound, Groups
<1> HIDE DEF u, f
<1>2. DOMAIN u = 1..Len(u) /\ Len(u) \in Nat /\ Len(f) \in Nat
  BY <1>1
<1>3. (\A k \in 1..Len(u) : u[k] \in 1..n) /\ (\A k \in 1..Len(f) : f[k] \in 1..n)
  BY <1>1, ElementOfSeq, Zenon
<1>4. Elements(u) \subseteq 1..n
  BY <1>2, <1>3 DEF Elements
<1> QED
  BY <1>1, <1>2, <1>3, <1>4 DEF u, f

\* Two lists that name n particles in n places name none twice: here the
\* pigeons are the places.
LEMMA NoneTwice ==
    ASSUME NEW n \in Nat, NEW r, Sound(r, n)
    PROVE  /\ \A i, j \in 1..Len(r.used) : r.used[i] = r.used[j] => i = j
           /\ \A i \in 1..Len(r.used), j \in 1..Len(r.free) : r.used[i] # r.free[j]
<1> DEFINE u == r.used
           f == r.free
           a == Len(u)
           b == Len(f)
           both == [k \in 1..n |-> IF k <= a THEN u[k] ELSE f[k - a]]
<1>1. /\ a \in Nat /\ b \in Nat /\ a + b = n
      /\ \A k \in 1..a : u[k] \in 1..n
      /\ \A k \in 1..b : f[k] \in 1..n
      /\ \A p \in 1..n : (\E k \in 1..a : u[k] = p) \/ (\E k \in 1..b : f[k] = p)
  BY Walk DEF Sound
<1> HIDE DEF u, f, a, b
<1>2. \A k \in 1..a : k \in 1..n /\ both[k] = u[k]
  BY <1>1
<1>3. \A k \in 1..b : k + a \in 1..n /\ both[k + a] = f[k]
  BY <1>1
<1>4. \A k \in 1..n : (IF k <= a THEN u[k] ELSE f[k - a]) \in 1..n
  <2>1. TAKE k \in 1..n
  <2>2. CASE k <= a
    BY <1>1, <2>2
  <2>3. CASE ~(k <= a)
    <3>1. k - a \in 1..b
      BY <1>1, <2>3
    <3> QED
      BY <1>1, <2>3, <3>1
  <2> QED
    BY <2>2, <2>3
<1>5. both \in [1..n -> 1..n]
  BY <1>4
<1> HIDE DEF both
<1>6. \A p \in 1..n : \E k \in 1..n : both[k] = p
  BY <1>1, <1>2, <1>3
<1>7. both \in Surjection(1..n, 1..n)
  BY <1>5, <1>6, Fun_IsSurj
<1>8. IsFiniteSet(1..n)
  BY FS_Interval
<1>9. both \in Injection(1..n, 1..n)
  BY <1>7, <1>8, FS_SurjSameCardinalityImpliesInj
<1>10. \A i, j \in 1..n : both[i] = both[j] => i = j
  BY <1>9, Fun_InjectionProperties
<1>11. \A i, j \in 1..a : u[i] = u[j] => i = j
  BY <1>2, <1>10
<1>12. \A i \in 1..a, j \in 1..b : u[i] # f[j]
  <2>1. TAKE i \in 1..a, j \in 1..b
  <2>2. i # j + a
    BY <1>1
  <2> QED
    BY <1>2, <1>3, <1>10, <2>2
<1> QED
  BY <1>11, <1>12 DEF u, f, a, b

\* There are as many particles in a list as it is long.
LEMMA ListCounts ==
    ASSUME NEW n \in Nat, NEW r, Sound(r, n)
    PROVE  /\ IsFiniteSet(Elements(r.used))
           /\ Cardinality(Elements(r.used)) = Len(r.used)
<1> DEFINE u == r.used
           a == Len(u)
<1>1. /\ a \in Nat /\ DOMAIN u = 1..a /\ u \in Seq(1..n)
      /\ \A i, j \in 1..a : u[i] = u[j] => i = j
  BY Walk, NoneTwice
<1> HIDE DEF u, a
<1>2. u \in [1..a -> Elements(u)]
  <2>1. u = [k \in 1..a |-> u[k]]
    BY <1>1 DEF a
  <2>2. \A k \in 1..a : u[k] \in Elements(u)
    BY <1>1 DEF Elements
  <2> QED
    BY <2>1, <2>2
<1>3. \A p \in Elements(u) : \E k \in 1..a : u[k] = p
  BY <1>1 DEF Elements
<1>4. u \in Bijection(1..a, Elements(u))
  BY <1>1, <1>2, <1>3, Fun_IsBij
<1>5. ExistsBijection(1..a, Elements(u))
  BY <1>4 DEF ExistsBijection
<1>6. IsFiniteSet(1..a) /\ Cardinality(1..a) = a
  BY <1>1, FS_Interval
<1> QED
  BY <1>5, <1>6, FS_Bijection DEF u, a

\* A birth adds a particle that was not in the list, or nothing.
LEMMA BirthElements ==
    ASSUME NEW n \in Nat, NEW r, Sound(r, n), NEW d
    PROVE  \/ r.free = << >> /\ born(r) = 0 /\ newParticle(r, d) = r
           \/ /\ r.free # << >> /\ born(r) \in 1..n /\ born(r) \notin Elements(r.used)
              /\ Elements(newParticle(r, d).used) = Elements(r.used) \cup {born(r)}
              /\ newParticle(r, d).dead = r.dead \ {born(r)}
<1>1. CASE r.free = << >>
  BY <1>1 DEF born, newParticle
<1>2. CASE r.free # << >>
  <2> DEFINE h == Head(r.free)
             u == r.used
             v == <<h>> \o u
  <2>1. /\ u \in Seq(1..n) /\ r.free \in Seq(1..n) /\ Len(u) \in Nat /\ DOMAIN u = 1..Len(u)
        /\ \A i \in 1..Len(u), j \in 1..Len(r.free) : u[i] # r.free[j]
    BY Walk, NoneTwice
  <2>2. h \in 1..n /\ h = r.free[1] /\ 1 \in 1..Len(r.free)
    BY <1>2, <2>1
  <2>3. /\ born(r) = h /\ newParticle(r, d).used = v
        /\ newParticle(r, d).dead = r.dead \ {h}
    BY <1>2 DEF born, newParticle
  <2> HIDE DEF h, u
  <2>4. /\ v \in Seq(1..n) /\ Len(v) = Len(u) + 1 /\ v[1] = h
        /\ \A k \in 1..Len(u) : v[k + 1] = u[k]
    BY <2>1, <2>2, ConsFacts
  <2> HIDE DEF v
  <2>5. h \notin Elements(u)
    BY <2>1, <2>2 DEF Elements
  <2>6. DOMAIN v = 1..(Len(u) + 1)
    BY <2>4
  <2>7. Elements(v) \subseteq Elements(u) \cup {h}
    <3>1. SUFFICES ASSUME NEW k \in 1..(Len(u) + 1) PROVE v[k] \in Elements(u) \cup {h}
      BY <2>6 DEF Elements
    <3>2. CASE k = 1
      BY <2>4, <3>2
    <3>3. CASE k # 1
      <4>1. k - 1 \in 1..Len(u) /\ (k - 1) + 1 = k
        BY <2>1, <3>3
      <4>2. v[k] = u[k - 1]
        BY <2>4, <4>1, Zenon
      <4> QED
        BY <2>1, <4>1, <4>2 DEF Elements
    <3> QED
      BY <3>2, <3>3
  <2>8. Elements(u) \cup {h} \subseteq Elements(v)
    <3>1. h \in Elements(v)
      <4>1. 1 \in 1..(Len(u) + 1)
        BY <2>1
      <4> QED
        BY <2>4, <2>6, <4>1, Zenon DEF Elements
    <3>2. ASSUME NEW k \in 1..Len(u) PROVE u[k] \in Elements(v)
      <4>1. k + 1 \in 1..(Len(u) + 1)
        BY <2>1
      <4>2. k + 1 \in DOMAIN v /\ v[k + 1] = u[k]
        BY <2>4, <2>6, <4>1, Zenon
      <4> QED
        BY <4>2 DEF Elements
    <3> QED
      BY <2>1, <3>1, <3>2 DEF Elements
  <2> QED
    BY <1>2, <2>2, <2>3, <2>5, <2>7, <2>8 DEF u
<1> QED
  BY <1>1, <1>2

\* Unlinking takes the one particle out, and no other.
LEMMA UnlinkElements ==
    ASSUME NEW n \in Nat, NEW r, Sound(r, n), NEW i \in 1..Len(r.used)
    PROVE  /\ r.used[i] \in Elements(r.used)
           /\ Elements(unlink(r, i).used) = Elements(r.used) \ {r.used[i]}
           /\ unlink(r, i).dead = r.dead \ {r.used[i]}
<1> DEFINE u == r.used
           v == Without(u, i)
<1>1. /\ u \in Seq(1..n) /\ Len(u) \in Nat /\ DOMAIN u = 1..Len(u)
      /\ \A j, k \in 1..Len(u) : u[j] = u[k] => j = k
  BY Walk, NoneTwice
<1>2. unlink(r, i).used = v /\ unlink(r, i).dead = r.dead \ {u[i]}
  BY DEF unlink
<1>3. i \in 1..Len(u)
  OBVIOUS
<1> HIDE DEF u
<1>4. /\ v \in Seq(1..n) /\ Len(v) = Len(u) - 1
      /\ \A k \in 1..(Len(u) - 1) : v[k] = IF k < i THEN u[k] ELSE u[k + 1]
  BY <1>1, <1>3, WithoutFacts
<1> HIDE DEF v
<1>5. DOMAIN v = 1..(Len(u) - 1)
  BY <1>4
<1>6. ASSUME NEW k \in 1..(Len(u) - 1) PROVE v[k] \in Elements(u) \ {u[i]}
  <2>1. \E m \in 1..Len(u) : m # i /\ v[k] = u[m]
    <3>1. CASE k < i
      BY <1>1, <1>4, <3>1
    <3>2. CASE ~(k < i)
      <4>1. k + 1 \in 1..Len(u) /\ k + 1 # i
        BY <1>1, <1>3, <3>2
      <4> QED
        BY <1>4, <3>2, <4>1
    <3> QED
      BY <3>1, <3>2
  <2> QED
    BY <1>1, <1>3, <2>1 DEF Elements
<1>7. ASSUME NEW m \in 1..Len(u), m # i PROVE u[m] \in Elements(v)
  <2>1. CASE m < i
    <3>1. m \in 1..(Len(u) - 1)
      BY <1>1, <1>3, <2>1
    <3> QED
      BY <1>4, <1>5, <2>1, <3>1 DEF Elements
  <2>2. CASE m > i
    <3>1. m - 1 \in 1..(Len(u) - 1) /\ ~(m - 1 < i) /\ (m - 1) + 1 = m
      BY <1>1, <1>3, <2>2
    <3>2. v[m - 1] = u[m]
      BY <1>4, <3>1
    <3> QED
      BY <1>5, <3>1, <3>2 DEF Elements
  <2> QED
    BY <1>1, <1>3, <1>7, <2>1, <2>2
<1>8. Elements(v) = Elements(u) \ {u[i]}
  BY <1>1, <1>3, <1>5, <1>6, <1>7 DEF Elements
<1>9. u[i] \in Elements(u)
  BY <1>1, <1>3 DEF Elements
<1> QED
  BY <1>2, <1>8, <1>9 DEF u

----------------------------------------------------------------------------
(* Which steps touch which lists.                                          *)

\* A used list as a list and as a set.
LEMMA UsedFacts ==
    ASSUME Lists, NEW g \in Group
    PROVE  /\ Sound(pg[g], Size[g]) /\ Size[g] \in Nat
           /\ Used(g) = Elements(pg[g].used) /\ Used(g) \subseteq Slot(g)
           /\ IsFiniteSet(Used(g)) /\ Cardinality(Used(g)) = Len(pg[g].used)
<1>1. Sound(pg[g], Size[g]) /\ Size[g] \in Nat
  BY SizeFacts DEF Lists
<1>2. Used(g) = Elements(pg[g].used)
  BY DEF Used, Elements
<1> QED
  BY <1>1, <1>2, Walk, ListCounts DEF Slot

\* A group that alone is changed.
LEMMA Only ==
    ASSUME Lists, NEW g \in Group, NEW v, pg' = [pg EXCEPT ![g] = v]
    PROVE  pg'[g] = v /\ \A h \in Group \ {g} : pg'[h] = pg[h]
BY DEF Lists

\* The particle whose turn it is.
LEMMA TurnFacts ==
    ASSUME BattleInv, NEW g \in Group, Turn(g)
    PROVE  /\ at.i \in 1..Len(pg[g].used) /\ Self(g) \in Used(g) /\ Self(g) \in Slot(g)
           /\ Dies(g) => /\ Used(g)' = Used(g) \ {Self(g)}
                         /\ pg'[g].dead = pg[g].dead \ {Self(g)}
                         /\ \A h \in Group \ {g} : pg'[h] = pg[h]
<1> DEFINE r == pg[g]
           i == at.i
<1>1. Sound(r, Size[g]) /\ Size[g] \in Nat /\ Used(g) = Elements(r.used) /\ Lists
      /\ Used(g) \subseteq Slot(g)
  BY UsedFacts DEF BattleInv
<1>2. at.stage = g /\ i \in Nat /\ i >= 1 /\ i <= Len(r.used)
  BY DEF Turn, BattleInv, Round
<1>3. Len(r.used) \in Nat
  BY <1>1, Walk
<1> HIDE DEF i, r
<1>4. i \in 1..Len(r.used)
  BY <1>2, <1>3
<1>5. /\ r.used[i] \in Elements(r.used)
      /\ Elements(unlink(r, i).used) = Elements(r.used) \ {r.used[i]}
      /\ unlink(r, i).dead = r.dead \ {r.used[i]}
  BY <1>1, <1>4, UnlinkElements
<1>6. Self(g) = r.used[i]
  BY DEF Self, r, i
<1>7. ASSUME Dies(g)
      PROVE  pg'[g] = unlink(r, i) /\ \A h \in Group \ {g} : pg'[h] = pg[h]
  <2>1. pg' = [pg EXCEPT ![g] = unlink(r, i)]
    BY <1>7 DEF Dies, r, i
  <2> QED
    BY <1>1, <2>1, Only
<1>8. Used(g)' = Elements(pg'[g].used)
  BY DEF Used, Elements
<1> QED
  BY <1>1, <1>4, <1>5, <1>6, <1>7, <1>8 DEF r, i

\* What a birth adds to the used particles.
LEMMA BirthUsed ==
    ASSUME Lists, NEW g \in Group, NEW d, pg'[g] = newParticle(pg[g], d)
    PROVE  \/ born(pg[g]) = 0 /\ pg[g].free = << >> /\ pg'[g] = pg[g] /\ Used(g)' = Used(g)
           \/ /\ born(pg[g]) \in Slot(g) /\ born(pg[g]) # 0 /\ born(pg[g]) \notin Used(g)
              /\ Used(g)' = Used(g) \cup {born(pg[g])}
              /\ pg'[g].dead = pg[g].dead \ {born(pg[g])}
<1> DEFINE r == pg[g]
           n == Size[g]
           x == born(r)
<1>1. Sound(r, n) /\ n \in Nat /\ Used(g) = Elements(r.used) /\ Slot(g) = 1..n
  BY UsedFacts DEF Slot
<1>2. Used(g)' = Elements(pg'[g].used)
  BY DEF Used, Elements
<1>3. pg'[g] = newParticle(r, d)
  OBVIOUS
<1> HIDE DEF n, r
<1>4. \/ r.free = << >> /\ x = 0 /\ newParticle(r, d) = r
      \/ /\ x \in 1..n /\ x \notin Elements(r.used)
         /\ Elements(newParticle(r, d).used) = Elements(r.used) \cup {x}
         /\ newParticle(r, d).dead = r.dead \ {x}
  BY <1>1, BirthElements
<1>5. x \in 1..n => x # 0
  BY <1>1
<1> QED
  BY <1>1, <1>2, <1>3, <1>4, <1>5 DEF r

\* What was hit stays in its list until its next update.
LEMMA HitKeepsUsed ==
    ASSUME Lists, NEW g \in Group, NEW j \in DOMAIN pg[g].used
    PROVE  /\ pg[g].used[j] \in Used(g)
           /\ spend(pg[g], pg[g].used[j]).used = pg[g].used
           /\ spend(pg[g], pg[g].used[j]).dead = pg[g].dead \cup {pg[g].used[j]}
<1>1. pg[g].used[j] \in 1..Size[g]
  BY InGroup
<1>2. pg[g] \in Groups(Size[g])
  BY DEF Lists, Sound
<1>3. pg[g].used[j] \in Used(g)
  BY DEF Used
<1> QED
  BY <1>1, <1>2, <1>3 DEF spend, Groups

\* The four names.
LEMMA GroupNames ==
    /\ "Enemies" \in Group /\ "EnemyBullets" \in Group /\ "HeroBullets" \in Group
    /\ "ShootableEnemyBullets" \in Group
BY DEF Group

\* What a hit does to an enemy, and to nothing else that is counted.
LEMMA EnemyHits ==
    ASSUME BattleInv, ShotHitsEnemy \/ Ram
    PROVE  \E j \in DOMAIN pg["Enemies"].used, d \in Nat :
             /\ enemyHit(pg["Enemies"].used[j], d)
             /\ pg'["Enemies"] = enemyGroup(pg["Enemies"].used[j], d)
             /\ pg'["EnemyBullets"] = pg["EnemyBullets"]
             /\ pg'["ShootableEnemyBullets"] = pg["ShootableEnemyBullets"]
             /\ at'.stage = at.stage /\ at.stage \in Links
             /\ UNCHANGED <<boss, move, swarm, counters, skill>>
<1> DEFINE H == "HeroBullets"
           E == "Enemies"
           B == "EnemyBullets"
           F == "ShootableEnemyBullets"
           Struck(j, d) == /\ enemyHit(pg[E].used[j], d)
                           /\ pg'[E] = enemyGroup(pg[E].used[j], d)
                           /\ pg'[B] = pg[B] /\ pg'[F] = pg[F]
<1>0. Lists /\ {H, E, B, F} \subseteq Group
  BY DEF BattleInv, Group
<1>1. /\ UNCHANGED <<boss, move, swarm, counters, skill>> /\ at.stage \in Links
      /\ \E i, j : Pair(i, j)
  BY DEF ShotHitsEnemy, Ram, Links
<1>2. at'.stage = at.stage
  BY <1>1 DEF Pair, BattleInv, Round
<1>3. CASE Ram
  <2>1. PICK j \in DOMAIN pg[E].used :
          enemyHit(pg[E].used[j], 1) /\ pg' = [pg EXCEPT ![E] = enemyGroup(pg[E].used[j], 1)]
    BY <1>3 DEF Ram
  <2>2. Struck(j, 1)
    BY <1>0, <2>1, Only
  <2> QED
    BY <1>1, <1>2, <2>2
<1>4. CASE ShotHitsEnemy
  <2> DEFINE dmg(i) == IF boss /\ pg[H].damage[pg[H].used[i]] = 2 THEN 1
                       ELSE pg[H].damage[pg[H].used[i]]
             Touch(i, j, d) == /\ enemyHit(pg[E].used[j], d)
                               /\ pg' = [pg EXCEPT ![H] = bulletHit(pg[H].used[i]),
                                                   ![E] = enemyGroup(pg[E].used[j], d)]
  <2>1. PICK i \in DOMAIN pg[H].used, j \in DOMAIN pg[E].used : Touch(i, j, dmg(i))
    BY <1>4, Zenon DEF ShotHitsEnemy
  <2>2. dmg(i) \in Nat
    <3>1. pg[H].damage \in [1..Size[H] -> Nat]
      BY <1>0 DEF Lists, Sound, Groups
    <3>2. pg[H].used[i] \in 1..Size[H]
      BY <1>0, InGroup
    <3> QED
      BY <3>1, <3>2
  <2>3. PICK d \in Nat : Touch(i, j, d)
    BY <2>1, <2>2
  <2>4. Struck(j, d)
    <3> DEFINE v == bulletHit(pg[H].used[i])
               w == enemyGroup(pg[E].used[j], d)
    <3>1. pg' = [pg EXCEPT ![H] = v, ![E] = w]
      BY <2>3
    <3> HIDE DEF v, w
    <3>2. pg'[E] = w /\ pg'[B] = pg[B] /\ pg'[F] = pg[F]
      BY <1>0, <3>1 DEF Lists
    <3> QED
      BY <2>3, <3>2 DEF w
  <2> QED
    BY <1>1, <1>2, <2>4
<1> QED
  BY <1>3, <1>4

\* The lists change by births and deaths in the turn of the group, and by a
\* launch; a hit changes only what is known of the particle.
LEMMA Frame ==
    ASSUME BattleInv, Next, ~Launch
    PROVE  /\ createEnemy \/ EnemyDies \/ ShotHitsEnemy \/ Ram
                \/ pg'["Enemies"] = pg["Enemies"]
           /\ createEnemy \/ EnemyDies \/ pg'["Enemies"].used = pg["Enemies"].used
           /\ BossUpdate \/ LeaderUpdate \/ ElementUpdate
                \/ pg'["EnemyBullets"].used = pg["EnemyBullets"].used
           /\ SimpleEnemyUpdate \/ BallOfFireUpdate
                \/ pg'["ShootableEnemyBullets"].used = pg["ShootableEnemyBullets"].used
<1> DEFINE H == "HeroBullets"
           E == "Enemies"
           B == "EnemyBullets"
           F == "ShootableEnemyBullets"
           Same(g) == pg'[g].used = pg[g].used
<1> USE GroupNames
<1>0. Lists
  BY DEF BattleInv
<1>1. CASE StageUpdate \/ Created \/ HeroUpdate \/ GroupDone \/ LinkDone
  BY <1>1 DEF StageUpdate, Created, HeroUpdate, GroupDone, LinkDone
<1>2. CASE HeroFires
  <2>1. PICK d \in {1, 2} : pg' = [pg EXCEPT ![H] = newParticle(pg[H], d)]
    BY <1>0, <1>2 DEF HeroFires
  <2> QED
    BY <1>0, <2>1, Only
<1>3. CASE createEnemy
  BY <1>0, <1>3, Only DEF createEnemy
<1>4. CASE EnemyDies
  BY <1>0, <1>4, Only DEF EnemyDies, Dies
<1>5. CASE SimpleEnemyUpdate
  BY <1>0, <1>5, Only DEF SimpleEnemyUpdate, Fires
<1>6. CASE BossUpdate
  <2>1. \E v : pg' = [pg EXCEPT ![B] = v]
    BY <1>6 DEF BossUpdate
  <2> QED
    BY <1>0, <1>6, <2>1, Only
<1>7. CASE LeaderUpdate \/ ElementUpdate
  BY <1>0, <1>7, Only DEF LeaderUpdate, ElementUpdate, Dies
<1>8. CASE HeroBulletUpdate
  BY <1>0, <1>8, Only DEF HeroBulletUpdate, Dies
<1>9. CASE BallOfFireUpdate
  BY <1>0, <1>9, Only DEF BallOfFireUpdate, Dies
<1>10. CASE ShotHitsBullet
  <2>1. PICK i \in DOMAIN pg[H].used, j \in DOMAIN pg[F].used :
          pg' = [pg EXCEPT ![H] = bulletHit(pg[H].used[i]), ![F] = spend(@, @.used[j])]
    BY <1>10 DEF ShotHitsBullet
  <2>2. pg'[F] = spend(pg[F], pg[F].used[j]) /\ pg'[E] = pg[E] /\ pg'[B] = pg[B]
    BY <1>0, <2>1 DEF Lists
  <2>3. Same(F)
    BY <1>0, <2>2, HitKeepsUsed
  <2> QED
    BY <2>2, <2>3
<1>11. CASE ShotHitsEnemy \/ Ram
  <2>1. PICK j \in DOMAIN pg[E].used, d \in Nat :
          pg'[E] = enemyGroup(pg[E].used[j], d) /\ pg'[F] = pg[F] /\ pg'[B] = pg[B]
    BY <1>11, EnemyHits
  <2>2. Same(E)
    BY <1>0, <2>1, HitKeepsUsed DEF enemyGroup
  <2> QED
    BY <1>11, <2>1, <2>2
<1>13. ASSUME NEW g \in {B, F}, NEW stage, BulletHitsHero(stage, g)
       PROVE  Same(B) /\ Same(F) /\ pg'[E] = pg[E]
  <2>1. PICK j \in DOMAIN pg[g].used : pg' = [pg EXCEPT ![g] = spend(pg[g], pg[g].used[j])]
    BY <1>0, <1>13 DEF BulletHitsHero
  <2>2. pg'[g] = spend(pg[g], pg[g].used[j]) /\ \A h \in Group \ {g} : pg'[h] = pg[h]
    BY <1>0, <2>1, Only
  <2>3. Same(g)
    BY <1>0, <2>2, HitKeepsUsed
  <2> QED
    BY <2>2, <2>3
<1>14. CASE SwarmHits \/ FireHits
  BY <1>13, <1>14 DEF SwarmHits, FireHits
<1> QED
  BY <1>1, <1>2, <1>3, <1>4, <1>5, <1>6, <1>7, <1>8, <1>9, <1>10, <1>11, <1>14
  DEF Next
----------------------------------------------------------------------------
(* The count of the attackers.                                             *)

\* enemyAttackCount is what it counts, within the skill; who is not in the
\* fight has no attack left over from an earlier life.
AttackInv ==
    /\ move \in [Slot("Enemies") -> MoveState] /\ skill \in Skills
    /\ enemyAttackCount = Cardinality(Attackers)
    /\ enemyAttackCount <= MaxAttacking[skill]
    /\ \A e \in Slot("Enemies") \ Used("Enemies") : move[e] = "entry"

\* The attackers are finitely many.
LEMMA AttackersFinite ==
    ASSUME BattleInv, AttackInv
    PROVE  /\ IsFiniteSet(Attackers) /\ Cardinality(Attackers) \in Nat
           /\ Attackers \subseteq Used("Enemies") /\ Used("Enemies") \subseteq Slot("Enemies")
           /\ MaxAttacking[skill] \in Nat
<1>1. Attackers \subseteq Used("Enemies")
  BY DEF Attackers
<1>2. IsFiniteSet(Used("Enemies")) /\ Used("Enemies") \subseteq Slot("Enemies")
  BY UsedFacts, GroupNames DEF BattleInv
<1>3. MaxAttacking[skill] \in Nat
  BY BattleAssumption DEF BattleAssumption, AttackInv
<1> QED
  BY <1>1, <1>2, <1>3, FS_Subset, FS_CardinalityType

\* An enemy at the end of its path: whoever begins an attack is counted, and
\* whoever ends one is counted off.
LEMMA FliesKeeps ==
    ASSUME BattleInv, AttackInv, NEW x \in Used("Enemies"), EnemyFlies(x),
           Used("Enemies")' = Used("Enemies"), skill' = skill
    PROVE  AttackInv'
<1> DEFINE E == "Enemies"
           S == Used(E)
           A == Attackers
           c == enemyAttackCount
           top == MaxAttacking[skill]
<1>1. /\ IsFiniteSet(A) /\ A \subseteq S /\ S \subseteq Slot(E)
      /\ c = Cardinality(A) /\ c \in Nat /\ c <= top /\ top \in Nat
      /\ move \in [Slot(E) -> MoveState]
      /\ \A e \in Slot(E) \ S : move[e] = "entry"
  BY AttackersFinite DEF AttackInv
<1>2. CASE UNCHANGED <<move, enemyAttackCount>>
  BY <1>2 DEF AttackInv, Attackers
<1>3. CASE \E m \in MoveState : getNextPath(x, m)
  <2>1. PICK m \in MoveState : getNextPath(x, m)
    BY <1>3
  <2>2. /\ m \in NextMove(move[x]) /\ move' = [move EXCEPT ![x] = m]
        /\ c' = c + (IF move[x] = "idle" /\ m = "attack" THEN 1 ELSE 0)
                  - (IF move[x] \in Attacking /\ m = "transition" THEN 1 ELSE 0)
    BY <2>1 DEF getNextPath
  <2>3. x \in S /\ x \in Slot(E) /\ move[x] \in MoveState
    BY <1>1
  <2>4. /\ move' \in [Slot(E) -> MoveState]
        /\ \A e \in Slot(E) : move'[e] = IF e = x THEN m ELSE move[e]
    BY <1>1, <2>2
  <2>5. A' = IF m \in Attacking THEN A \cup {x} ELSE A \ {x}
    BY <1>1, <2>3, <2>4 DEF Attackers
  <2>6. x \in A <=> move[x] \in Attacking
    BY <2>3 DEF Attackers
  <2>7. c' = Cardinality(A') /\ c' <= top
    <3>1. CASE move[x] = "idle" /\ m = "attack"
      <4>1. c < top
        BY <2>2, <3>1 DEF NextMove
      <4>2. x \notin A /\ A' = A \cup {x}
        BY <2>5, <2>6, <3>1 DEF Attacking
      <4>3. Cardinality(A \cup {x}) = c + 1
        BY <1>1, <4>2, FS_AddElement
      <4>4. c' = c + 1
        BY <1>1, <2>2, <3>1
      <4> QED
        BY <1>1, <4>1, <4>2, <4>3, <4>4
    <3>2. CASE move[x] \in Attacking /\ m = "transition"
      <4>1. x \in A /\ A' = A \ {x}
        BY <2>5, <2>6, <3>2 DEF Attacking
      <4>2. Cardinality(A \ {x}) = c - 1
        BY <1>1, <4>1, FS_RemoveElement
      <4>3. c' = c - 1
        BY <1>1, <2>2, <3>2 DEF Attacking
      <4> QED
        BY <1>1, <4>1, <4>2, <4>3
    <3>3. CASE /\ ~(move[x] = "idle" /\ m = "attack")
               /\ ~(move[x] \in Attacking /\ m = "transition")
      <4>1. m \in Attacking <=> move[x] \in Attacking
        BY <2>2, <2>3, <3>3 DEF NextMove, Attacking, MoveState
      <4>2. A' = A
        BY <2>5, <2>6, <4>1
      <4>3. c' = c
        BY <1>1, <2>2, <3>3
      <4> QED
        BY <1>1, <4>2, <4>3
    <3> QED
      BY <3>1, <3>2, <3>3
  <2> HIDE DEF A, S
  <2>8. \A e \in Slot(E) \ S : move'[e] = "entry"
    BY <1>1, <2>3, <2>4 DEF S
  <2> QED
    BY <2>4, <2>7, <2>8 DEF AttackInv, A, S
<1> QED
  BY <1>2, <1>3 DEF EnemyFlies

\* No step leaves the count of the attackers wrong.
LEMMA AttackKept == BattleInv /\ AttackInv /\ [Next]_vars => AttackInv'
<1> SUFFICES ASSUME BattleInv, AttackInv, [Next]_vars PROVE AttackInv'
  OBVIOUS
<1> DEFINE E == "Enemies"
           S == Used(E)
           A == Attackers
           c == enemyAttackCount
<1>0. /\ IsFiniteSet(A) /\ A \subseteq S /\ S \subseteq Slot(E)
      /\ c = Cardinality(A) /\ c \in Nat /\ c <= MaxAttacking[skill]
      /\ MaxAttacking[skill] \in Nat
      /\ move \in [Slot(E) -> MoveState]
      /\ \A e \in Slot(E) \ S : move[e] = "entry"
      /\ E \in Group /\ Lists /\ Sound(pg[E], Size[E]) /\ Size[E] \in Nat
      /\ S = Elements(pg[E].used) /\ S' = Elements(pg'[E].used)
  BY AttackersFinite, UsedFacts, GroupNames DEF AttackInv, BattleInv, Used, Elements
<1>1. CASE Launch
  <2>1. /\ c' = c - Cardinality(A) /\ move' = NoMove /\ skill' \in Skills
        /\ pg' = [g \in Group |-> reset(Size[g])]
    BY <1>1 DEF Launch, pgmReset
  <2>2. S' = {} /\ A' = {}
    BY <1>0, <2>1 DEF reset, Used, Attackers
  <2>3. c' = 0 /\ Cardinality(A') = 0
    BY <1>0, <2>1, <2>2, FS_EmptySet
  <2>4. MaxAttacking[skill'] \in Nat
    BY <2>1, BattleAssumption DEF BattleAssumption
  <2>5. move' \in [Slot(E) -> MoveState] /\ \A e \in Slot(E) : move'[e] = "entry"
    BY <2>1 DEF NoMove, MoveState
  <2> QED
    BY <2>1, <2>3, <2>4, <2>5 DEF AttackInv
<1>2. CASE createEnemy
  <2>1. /\ UNCHANGED <<move, enemyAttackCount, skill>> /\ pg'[E] = newParticle(pg[E], 1)
    BY <1>0, <1>2, Only DEF createEnemy
  <2>2. S \subseteq S' /\ S' \subseteq Slot(E) /\ \A e \in S' \ S : move[e] = "entry"
    <3>1. S' = S \/ \E e \in Slot(E) : e \notin S /\ S' = S \cup {e}
      BY <1>0, <2>1, BirthUsed
    <3> QED
      BY <1>0, <3>1
  <2>3. A' = A
    BY <1>0, <2>1, <2>2 DEF Attackers, Attacking
  <2> HIDE DEF A, S
  <2> QED
    BY <1>0, <2>1, <2>2, <2>3 DEF AttackInv, A, S
<1>3. CASE EnemyDies
  <2> DEFINE x == Self(E)
  <2>1. x \in S /\ x \in Slot(E) /\ S' = S \ {x}
    BY <1>0, <1>3, TurnFacts DEF EnemyDies
  <2>2. /\ c' = c - (IF move[x] \in Attacking THEN 1 ELSE 0)
        /\ move' = [move EXCEPT ![x] = "entry"] /\ skill' = skill
    BY <1>3 DEF EnemyDies
  <2> HIDE DEF x
  <2>3. /\ move' \in [Slot(E) -> MoveState]
        /\ \A e \in Slot(E) : move'[e] = IF e = x THEN "entry" ELSE move[e]
    BY <1>0, <2>1, <2>2 DEF MoveState
  <2>4. A' = A \ {x} /\ (x \in A <=> move[x] \in Attacking)
    BY <1>0, <2>1, <2>3 DEF Attackers, Attacking
  <2>5. Cardinality(A \ {x}) = IF x \in A THEN c - 1 ELSE c
    <3>1. CASE x \in A
      BY <1>0, <3>1, FS_RemoveElement
    <3>2. CASE x \notin A
      <4>1. A \ {x} = A
        BY <3>2
      <4> QED
        BY <1>0, <3>2, <4>1
    <3> QED
      BY <3>1, <3>2
  <2>6. c' = Cardinality(A') /\ c' <= MaxAttacking[skill]
    BY <1>0, <2>2, <2>4, <2>5
  <2>7. \A e \in Slot(E) \ S' : move'[e] = "entry"
    BY <1>0, <2>1, <2>3
  <2> HIDE DEF A, S
  <2> QED
    BY <1>0, <2>2, <2>3, <2>6, <2>7 DEF AttackInv, A, S
<1>4. CASE SimpleEnemyUpdate \/ BossUpdate
  <2>1. Turn(E) /\ ~Doomed(E) /\ EnemyFlies(Self(E)) /\ skill' = skill /\ Next
    BY <1>4 DEF SimpleEnemyUpdate, BossUpdate, Next
  <2>2. ~Launch /\ ~createEnemy /\ ~EnemyDies
    BY <2>1 DEF Launch, createEnemy, EnemyDies, Turn
  <2>3. pg'[E].used = pg[E].used
    BY <2>1, <2>2, Frame
  <2>4. S' = S /\ Self(E) \in S
    BY <1>0, <2>1, <2>3, TurnFacts
  <2> QED
    BY <2>1, <2>4, FliesKeeps
<1>5. CASE /\ ~Launch /\ ~createEnemy /\ ~EnemyDies /\ ~SimpleEnemyUpdate /\ ~BossUpdate
  <2>1. UNCHANGED <<move, enemyAttackCount, skill>>
    BY <1>5 DEF Next, vars, enemyVars, counters, StageUpdate, Created, HeroFires, HeroUpdate,
       GroupDone, LeaderUpdate, ElementUpdate, HeroBulletUpdate, BallOfFireUpdate,
       ShotHitsBullet, ShotHitsEnemy, Ram, SwarmHits, FireHits, BulletHitsHero, LinkDone
  <2>2. pg'[E].used = pg[E].used
    BY <1>5, Frame DEF vars
  <2>3. S' = S
    BY <1>0, <2>2
  <2> QED
    BY <2>1, <2>3 DEF AttackInv, Attackers
<1> QED
  BY <1>1, <1>2, <1>3, <1>4, <1>5
----------------------------------------------------------------------------
(* The energy of the enemies, and the bonuses.                             *)

\* An enemy has energy left exactly as long as it is neither shot nor gone.
EnergyInv ==
    /\ boss \in BOOLEAN /\ bonuses \in Nat
    /\ energy \in [Slot("Enemies") -> 0..Toughness[boss]]
    /\ \A e \in Slot("Enemies") :
          energy[e] = 0 <=> e \notin Used("Enemies") \/ e \in pg["Enemies"].dead

\* Energies are numbers.
LEMMA EnergyFacts ==
    ASSUME EnergyInv
    PROVE  /\ Toughness[boss] \in Nat /\ Toughness[boss] > 0 /\ Energies
           /\ \A e \in Slot("Enemies") : energy[e] \in Nat /\ energy[e] <= Toughness[boss]
<1>1. Toughness[boss] \in Nat \ {0}
  BY BattleAssumption DEF BattleAssumption, EnergyInv
<1>2. \A e \in Slot("Enemies") : energy[e] \in 0..Toughness[boss]
  BY DEF EnergyInv
<1>3. 0..Toughness[boss] \subseteq Nat
  BY <1>1
<1>4. energy \in [Slot("Enemies") -> Nat]
  BY <1>3 DEF EnergyInv
<1> QED
  BY <1>1, <1>2, <1>4 DEF EnergyInv, Energies

\* A hit kills at most its victim, who leaves a bonus if it was not dead yet.
LEMMA HitEnergy ==
    ASSUME BattleInv, EnergyInv, NEW j \in DOMAIN pg["Enemies"].used, NEW d \in Nat,
           enemyHit(pg["Enemies"].used[j], d),
           pg'["Enemies"] = enemyGroup(pg["Enemies"].used[j], d), boss' = boss
    PROVE  /\ EnergyInv' /\ pg'["Enemies"].used = pg["Enemies"].used
           /\ pg["Enemies"].used[j] \in Used("Enemies") /\ Used("Enemies")' = Used("Enemies")
           /\ \/ /\ pg["Enemies"].used[j] \notin pg["Enemies"].dead
                 /\ pg'["Enemies"].dead = pg["Enemies"].dead \cup {pg["Enemies"].used[j]}
                 /\ bonuses' = bonuses + 1
              \/ pg'["Enemies"].dead = pg["Enemies"].dead /\ bonuses' = bonuses
<1> DEFINE E == "Enemies"
           S == Used(E)
           x == pg[E].used[j]
           D == pg[E].dead
           T == Toughness[boss]
           left == IF d >= energy[x] THEN 0 ELSE energy[x] - d
<1>1. /\ x \in S /\ S \subseteq Slot(E) /\ T \in Nat
      /\ energy \in [Slot(E) -> 0..T] /\ energy[x] \in Nat /\ energy[x] <= T
      /\ spend(pg[E], x).used = pg[E].used /\ spend(pg[E], x).dead = D \cup {x}
      /\ bonuses \in Nat /\ boss \in BOOLEAN
  BY UsedFacts, HitKeepsUsed, EnergyFacts, GroupNames DEF EnergyInv, BattleInv
<1>2. \A e \in Slot(E) : energy[e] = 0 <=> e \notin S \/ e \in D
  BY DEF EnergyInv
<1>3. /\ energy' = [energy EXCEPT ![x] = left]
      /\ bonuses' = bonuses + (IF energy[x] > 0 /\ left = 0 THEN 1 ELSE 0)
      /\ pg'[E] = IF d >= energy[x] THEN spend(pg[E], x) ELSE pg[E]
  BY DEF enemyHit, enemyGroup
<1>4. pg'[E].used = pg[E].used
  BY <1>1, <1>3
<1>5. S' = S
  BY <1>4 DEF Used
<1>6. left \in 0..T /\ (left = 0 <=> d >= energy[x])
  BY <1>1
<1>7. pg'[E].dead = IF left = 0 THEN D \cup {x} ELSE D
  BY <1>1, <1>3, <1>6
<1> HIDE DEF S, x, D, T, left
<1>8. /\ energy' \in [Slot(E) -> 0..T]
      /\ \A e \in Slot(E) : energy'[e] = IF e = x THEN left ELSE energy[e]
  BY <1>1, <1>3, <1>6
<1>9. x \in Slot(E) /\ (x \in D <=> energy[x] = 0)
  BY <1>1, <1>2
<1>10. \/ x \notin D /\ pg'[E].dead = D \cup {x} /\ bonuses' = bonuses + 1
       \/ pg'[E].dead = D /\ bonuses' = bonuses
  <2>1. CASE left = 0 /\ energy[x] > 0
    <3>1. energy[x] # 0
      BY <1>1, <2>1
    <3> QED
      BY <1>3, <1>7, <1>9, <2>1, <3>1
  <2>2. CASE left = 0 /\ ~(energy[x] > 0)
    <3>1. energy[x] = 0 /\ bonuses' = bonuses + 0
      BY <1>1, <1>3, <2>2
    <3>2. D \cup {x} = D
      BY <1>9, <3>1
    <3> QED
      BY <1>1, <1>7, <2>2, <3>1, <3>2
  <2>3. CASE left # 0
    <3>1. bonuses' = bonuses + 0
      BY <1>3, <2>3
    <3> QED
      BY <1>1, <1>7, <2>3, <3>1
  <2> QED
    BY <2>1, <2>2, <2>3
<1>11. energy[x] = 0 => left = 0
  BY <1>1, <1>6
<1>12. \A e \in Slot(E) : energy'[e] = 0 <=> e \notin S \/ e \in pg'[E].dead
  BY <1>1, <1>2, <1>7, <1>8, <1>9, <1>11
<1>13. bonuses' \in Nat
  BY <1>1, <1>10
<1> QED
  BY <1>1, <1>4, <1>5, <1>8, <1>10, <1>12, <1>13 DEF EnergyInv, S, x, D, T

\* No step leaves an enemy without energy in the fight, or a dead one with it.
LEMMA EnergyKept == BattleInv /\ EnergyInv /\ [Next]_vars => EnergyInv'
<1> SUFFICES ASSUME BattleInv, EnergyInv, [Next]_vars PROVE EnergyInv'
  OBVIOUS
<1> DEFINE E == "Enemies"
           S == Used(E)
           D == pg[E].dead
<1>0. /\ S \subseteq Slot(E) /\ E \in Group /\ Lists /\ Sound(pg[E], Size[E])
      /\ energy \in [Slot(E) -> 0..Toughness[boss]]
      /\ \A e \in Slot(E) : energy[e] = 0 <=> e \notin S \/ e \in D
      /\ Toughness[boss] \in Nat /\ Toughness[boss] > 0 /\ boss \in BOOLEAN /\ bonuses \in Nat
      /\ Len(pg[E].used) = 0 => S = {}
  <2>1. Len(pg[E].used) = 0 => S = {}
    <3>1. Len(pg[E].used) = 0 => DOMAIN pg[E].used = {}
      BY Walk, UsedFacts, GroupNames DEF BattleInv
    <3> QED
      BY <3>1 DEF Used
  <2> QED
    BY <2>1, UsedFacts, EnergyFacts, GroupNames DEF EnergyInv, BattleInv
<1>1. CASE Launch
  <2>1. /\ energy' = NoEnergy /\ boss' = FALSE /\ bonuses' = 0
        /\ pg' = [g \in Group |-> reset(Size[g])]
    BY <1>1, Zenon DEF Launch, pgmReset, activateLevel
  <2>2. S' = {}
    BY <1>0, <2>1 DEF reset, Used
  <2>3. Toughness[FALSE] \in Nat
    BY BattleAssumption DEF BattleAssumption
  <2>4. energy' \in [Slot(E) -> 0..Toughness[FALSE]] /\ \A e \in Slot(E) : energy'[e] = 0
    <3>1. \A n \in Nat : 0 \in 0..n
      OBVIOUS
    <3>2. 0 \in 0..Toughness[FALSE]
      BY <2>3, <3>1, Zenon
    <3> QED
      BY <2>1, <3>2 DEF NoEnergy
  <2> HIDE DEF S
  <2> QED
    BY <2>1, <2>2, <2>4 DEF EnergyInv, S
<1>2. CASE StageUpdate
  <2>1. pg' = pg /\ energy' = energy
    BY <1>2 DEF StageUpdate
  <2>2. CASE UNCHANGED <<boss, bonuses>>
    BY <2>1, <2>2 DEF EnergyInv, Used
  <2>3. CASE numObjects = 0 /\ bonuses' = 0
    <3>1. S = {} /\ S' = S
      BY <1>0, <2>1, <2>3 DEF BattleInv, ObjectsCounted, Used
    <3>2. \A e \in Slot(E) : energy[e] = 0
      BY <1>0, <3>1
    <3>3. boss' \in BOOLEAN /\ Toughness[boss'] \in Nat
      BY <1>0, <1>2, BossChanges, BattleAssumption DEF BattleAssumption, Next
    <3>4. energy \in [Slot(E) -> 0..Toughness[boss']]
      BY <1>0, <3>2, <3>3
    <3> HIDE DEF S
    <3> QED
      BY <2>1, <2>3, <3>1, <3>2, <3>3, <3>4 DEF EnergyInv, S
  <2> QED
    BY <1>2, <2>2, <2>3, Zenon DEF StageUpdate, activateLevel
<1>3. CASE createEnemy
  <2> DEFINE x == born(pg[E])
             T == Toughness[boss]
  <2>1. /\ UNCHANGED <<boss, bonuses>> /\ pg'[E] = newParticle(pg[E], 1)
        /\ energy' = [e \in DOMAIN energy |-> IF e = x THEN T ELSE energy[e]]
    BY <1>0, <1>3, Only DEF createEnemy
  <2>2. /\ energy' \in [Slot(E) -> 0..T]
        /\ \A e \in Slot(E) : energy'[e] = IF e = x THEN T ELSE energy[e]
    BY <1>0, <2>1
  <2>3. \/ x = 0 /\ pg'[E] = pg[E] /\ S' = S
        \/ x \in Slot(E) /\ S' = S \cup {x} /\ pg'[E].dead = D \ {x}
    BY <1>0, <2>1, BirthUsed
  <2>4. 0 \notin Slot(E)
    BY SizeFacts, GroupNames DEF Slot
  <2> HIDE DEF S, x, T
  <2>5. \A e \in Slot(E) : energy'[e] = 0 <=> e \notin S' \/ e \in pg'[E].dead
    BY <1>0, <2>2, <2>3, <2>4 DEF T
  <2> QED
    BY <1>0, <2>1, <2>2, <2>5 DEF EnergyInv, S, T
<1>4. CASE EnemyDies
  <2> DEFINE x == Self(E)
  <2>1. x \in S /\ S' = S \ {x} /\ pg'[E].dead = D \ {x} /\ x \in D
    BY <1>0, <1>4, TurnFacts DEF EnemyDies, Doomed
  <2>2. UNCHANGED <<boss, bonuses, energy>>
    BY <1>4 DEF EnemyDies
  <2> HIDE DEF S, x
  <2>3. \A e \in Slot(E) : energy[e] = 0 <=> e \notin S' \/ e \in pg'[E].dead
    BY <1>0, <2>1
  <2> QED
    BY <1>0, <2>2, <2>3 DEF EnergyInv, S
<1>5. CASE ShotHitsEnemy \/ Ram
  BY <1>5, EnemyHits, HitEnergy
<1>6. CASE /\ ~Launch /\ ~StageUpdate /\ ~createEnemy /\ ~EnemyDies
           /\ ~ShotHitsEnemy /\ ~Ram
  <2>1. UNCHANGED <<boss, bonuses, energy>>
    BY <1>6 DEF Next, vars, enemyVars, counters, Created, HeroFires, HeroUpdate,
       GroupDone, SimpleEnemyUpdate, BossUpdate, LeaderUpdate, ElementUpdate,
       HeroBulletUpdate, BallOfFireUpdate, ShotHitsBullet, SwarmHits, FireHits,
       BulletHitsHero, LinkDone
  <2>2. pg'[E] = pg[E]
    BY <1>6, Frame DEF vars
  <2> QED
    BY <2>1, <2>2 DEF EnergyInv, Used
<1> QED
  BY <1>1, <1>2, <1>3, <1>4, <1>5, <1>6
----------------------------------------------------------------------------
(* The swarms of the boss.                                                 *)

\* Leaders and the elements of a leader, in a group g of which w is known.
LeadersIn(g, w)  == {s \in Elements(g.used) : w.leader[s]}
FlockIn(g, w, s) == {e \in Elements(g.used) : ~w.leader[e] /\ w.related[e] = s}

\* No leader of the group waits for more elements than there are.
Fit(g, w) ==
    /\ Sound(g, Size["EnemyBullets"]) /\ w \in Swarms
    /\ \A s \in LeadersIn(g, w) : w.attached[s] <= Cardinality(FlockIn(g, w, s))

\* The parts of what is known of a swarm.
LEMMA SwarmParts ==
    ASSUME NEW w \in Swarms
    PROVE  /\ w = [leader |-> w.leader, related |-> w.related,
                   attached |-> w.attached, last |-> w.last]
           /\ w.leader \in [Slot("EnemyBullets") -> BOOLEAN]
           /\ w.related \in [Slot("EnemyBullets") -> Slot("EnemyBullets") \cup {0}]
           /\ w.attached \in [Slot("EnemyBullets") -> Int]
           /\ w.last \in [Leg -> Slot("EnemyBullets") \cup {0}]
BY DEF Swarms

\* What is known of a swarm, part by part.
Parts(l, r, a, z) == [leader |-> l, related |-> r, attached |-> a, last |-> z]

\* What is noted of a new leader s, and of a new element e of leader r.
leaderNoted(w, s, leg, p) == [w EXCEPT !.leader[s] = p, !.attached[s] = 0, !.last[leg] = s]
elementNoted(w, e, r, p) ==
    [[w EXCEPT !.leader[e] = p, !.related[e] = r, !.attached[e] = 0]
       EXCEPT !.attached[r] = @ + 1]

\* What is noted of a new leader, part by part.
LEMMA LeaderNoted ==
    ASSUME NEW w \in Swarms, NEW s, NEW leg, NEW p
    PROVE  leaderNoted(w, s, leg, p) =
             Parts([w.leader EXCEPT ![s] = p], w.related,
                   [w.attached EXCEPT ![s] = 0], [w.last EXCEPT ![leg] = s])
<1> DEFINE L == w.leader
           R == w.related
           A == w.attached
           Z == w.last
           L1 == [L EXCEPT ![s] = p]
           A1 == [A EXCEPT ![s] = 0]
           Z1 == [Z EXCEPT ![leg] = s]
           w1 == [w EXCEPT !.leader[s] = p]
           w2 == [w1 EXCEPT !.attached[s] = 0]
           w3 == [w2 EXCEPT !.last[leg] = s]
<1>1. w = Parts(L, R, A, Z)
  BY SwarmParts DEF Parts
<1> HIDE DEF L, R, A, Z
<1>2. leaderNoted(w, s, leg, p) = w3
  BY DEF leaderNoted
<1>3. w1 = Parts(L1, R, A, Z)
  BY <1>1 DEF Parts
<1> HIDE DEF w1, L1
<1>4. w2 = Parts(L1, R, A1, Z)
  BY <1>3 DEF Parts
<1> HIDE DEF w2, A1
<1>5. w3 = Parts(L1, R, A1, Z1)
  BY <1>4 DEF Parts
<1> HIDE DEF w3, Z1
<1> QED
  BY <1>2, <1>5 DEF L1, A1, Z1, L, R, A, Z

\* What is noted of a new element and of the leader it goes to.
LEMMA ElementNoted ==
    ASSUME NEW w \in Swarms, NEW e, NEW r, NEW p
    PROVE  elementNoted(w, e, r, p) =
             Parts([w.leader EXCEPT ![e] = p], [w.related EXCEPT ![e] = r],
                   [[w.attached EXCEPT ![e] = 0]
                      EXCEPT ![r] = [w.attached EXCEPT ![e] = 0][r] + 1], w.last)
<1> DEFINE L == w.leader
           R == w.related
           A == w.attached
           Z == w.last
           L1 == [L EXCEPT ![e] = p]
           R1 == [R EXCEPT ![e] = r]
           A1 == [A EXCEPT ![e] = 0]
           A2 == [A1 EXCEPT ![r] = A1[r] + 1]
           w1 == [w EXCEPT !.leader[e] = p]
           w2 == [w1 EXCEPT !.related[e] = r]
           w3 == [w2 EXCEPT !.attached[e] = 0]
           w4 == [w3 EXCEPT !.attached[r] = @ + 1]
<1>1. w = Parts(L, R, A, Z)
  BY SwarmParts DEF Parts
<1> HIDE DEF L, R, A, Z
<1>2. elementNoted(w, e, r, p) = w4
  BY DEF elementNoted
<1>3. w1 = Parts(L1, R, A, Z)
  BY <1>1 DEF Parts
<1> HIDE DEF w1, L1
<1>4. w2 = Parts(L1, R1, A, Z)
  BY <1>3 DEF Parts
<1> HIDE DEF w2, R1
<1>5. w3 = Parts(L1, R1, A1, Z)
  BY <1>4 DEF Parts
<1> HIDE DEF w3, A1
<1>6. w4 = Parts(L1, R1, A2, Z)
  BY <1>5 DEF Parts
<1> HIDE DEF w4, A2
<1> QED
  BY <1>2, <1>6 DEF L1, R1, A1, A2, L, R, A, Z

\* What is noted of a leader s, or an element e of leader r, that leaves.
leaderLeft(w, s, p) == [w EXCEPT !.leader[s] = p]
elementLeft(w, e, r) == [w EXCEPT !.attached[r] = @ - 1, !.related[e] = 0]

\* Both, part by part.
LEMMA LeftNoted ==
    ASSUME NEW w \in Swarms, NEW e, NEW r, NEW p
    PROVE  /\ leaderLeft(w, e, p) =
                Parts([w.leader EXCEPT ![e] = p], w.related, w.attached, w.last)
           /\ elementLeft(w, e, r) =
                Parts(w.leader, [w.related EXCEPT ![e] = 0],
                      [w.attached EXCEPT ![r] = w.attached[r] - 1], w.last)
<1> DEFINE L == w.leader
           R == w.related
           A == w.attached
           Z == w.last
           R1 == [R EXCEPT ![e] = 0]
           A1 == [A EXCEPT ![r] = A[r] - 1]
           w1 == [w EXCEPT !.attached[r] = @ - 1]
           w2 == [w1 EXCEPT !.related[e] = 0]
<1>1. w = Parts(L, R, A, Z)
  BY SwarmParts DEF Parts
<1> HIDE DEF L, R, A, Z
<1>2. leaderLeft(w, e, p) = Parts([L EXCEPT ![e] = p], R, A, Z)
  BY <1>1 DEF Parts, leaderLeft
<1>3. elementLeft(w, e, r) = w2
  BY DEF elementLeft
<1>4. w1 = Parts(L, R, A1, Z)
  BY <1>1 DEF Parts
<1> HIDE DEF w1, A1
<1>5. w2 = Parts(L, R1, A1, Z)
  BY <1>4 DEF Parts
<1> HIDE DEF w2, R1
<1> QED
  BY <1>2, <1>3, <1>5 DEF R1, A1, L, R, A, Z

\* The elements of a leader are finitely many.
LEMMA FlockFinite ==
    ASSUME NEW g, Sound(g, Size["EnemyBullets"]), NEW w, NEW s
    PROVE  /\ Size["EnemyBullets"] \in Nat
           /\ Elements(g.used) \subseteq Slot("EnemyBullets")
           /\ IsFiniteSet(Elements(g.used))
           /\ IsFiniteSet(LeadersIn(g, w)) /\ Cardinality(LeadersIn(g, w)) \in Nat
           /\ IsFiniteSet(FlockIn(g, w, s)) /\ Cardinality(FlockIn(g, w, s)) \in Nat
<1>1. Size["EnemyBullets"] \in Nat
  BY SizeFacts, GroupNames
<1>2. IsFiniteSet(Elements(g.used)) /\ Elements(g.used) \subseteq Slot("EnemyBullets")
  BY <1>1, Walk, ListCounts DEF Slot
<1>3. LeadersIn(g, w) \subseteq Elements(g.used) /\ FlockIn(g, w, s) \subseteq Elements(g.used)
  BY DEF LeadersIn, FlockIn
<1> QED
  BY <1>1, <1>2, <1>3, FS_Subset, FS_CardinalityType

\* A new leader waits for nobody, and takes nobody from another leader.
LEMMA LeaderLaunched ==
    ASSUME NEW g, NEW w, Fit(g, w), NEW leg \in Leg
    PROVE  LET l == launchLeader(g, w, leg) IN
           /\ Fit(l.group, l.swarm)
           /\ LeadersIn(l.group, l.swarm) =
                LeadersIn(g, w) \cup (IF born(g) = 0 THEN {} ELSE {born(g)})
           /\ born(g) \notin LeadersIn(g, w)
<1> DEFINE B == "EnemyBullets"
           n == Size[B]
           s == born(g)
           U == Elements(g.used)
           h == newParticle(g, 0)
           l == launchLeader(g, w, leg)
<1>1. /\ n \in Nat /\ Sound(g, n) /\ w \in Swarms /\ U \subseteq Slot(B) /\ Slot(B) = 1..n
      /\ \A t \in LeadersIn(g, w) : w.attached[t] <= Cardinality(FlockIn(g, w, t))
  BY FlockFinite DEF Fit, Slot
<1>2. Sound(h, n)
  BY <1>1, BirthSound
<1>3. l.group = h
  BY DEF launchLeader
<1>4. CASE g.free = << >>
  <2>1. s = 0 /\ h = g /\ s \notin U
    BY <1>1, <1>4, BirthElements DEF Slot
  <2>2. l.swarm = [w EXCEPT !.last[leg] = 0]
    BY <2>1 DEF launchLeader
  <2> DEFINE v == l.swarm
  <2>3. /\ v = [leader |-> w.leader, related |-> w.related, attached |-> w.attached,
                last |-> [w.last EXCEPT ![leg] = 0]]
    BY <1>1, <2>2, SwarmParts
  <2> HIDE DEF v
  <2>4. v \in Swarms
    BY <1>1, <2>3, SwarmParts DEF Swarms
  <2>5. LeadersIn(g, v) = LeadersIn(g, w) /\ \A t : FlockIn(g, v, t) = FlockIn(g, w, t)
    BY <2>3 DEF LeadersIn, FlockIn
  <2>6. Fit(g, v)
    BY <1>1, <2>3, <2>4, <2>5 DEF Fit
  <2>7. s \notin LeadersIn(g, w)
    BY <2>1 DEF LeadersIn
  <2> QED
    BY <1>3, <2>1, <2>5, <2>6, <2>7 DEF v
<1>5. CASE g.free # << >>
  <2>1. s \in 1..n /\ s \notin U /\ Elements(h.used) = U \cup {s}
    BY <1>1, <1>5, BirthElements
  <2>2. s # 0
    BY <1>1, <2>1
  <2>3. l.swarm = [w EXCEPT !.leader[s] = TRUE, !.attached[s] = 0, !.last[leg] = s]
    BY <2>2 DEF launchLeader
  <2> DEFINE v == l.swarm
  <2> HIDE DEF s
  <2>4. /\ v = [leader |-> [w.leader EXCEPT ![s] = TRUE], related |-> w.related,
                attached |-> [w.attached EXCEPT ![s] = 0],
                last |-> [w.last EXCEPT ![leg] = s]]
    <3>1. v = Parts([w.leader EXCEPT ![s] = TRUE], w.related,
                    [w.attached EXCEPT ![s] = 0], [w.last EXCEPT ![leg] = s])
      <4>1. v = leaderNoted(w, s, leg, TRUE)
        BY <2>3 DEF leaderNoted
      <4> QED
        BY <1>1, <4>1, LeaderNoted, Zenon
    <3> QED
      BY <3>1, Zenon DEF Parts
  <2> HIDE DEF v, h, U
  <2>5. v \in Swarms
    BY <1>1, <2>1, <2>4, SwarmParts DEF Swarms
  <2>6. LeadersIn(h, v) = LeadersIn(g, w) \cup {s} /\ s \notin LeadersIn(g, w)
    BY <1>1, <2>1, <2>4, SwarmParts DEF LeadersIn, U
  <2>7. \A t : FlockIn(h, v, t) = FlockIn(g, w, t)
    BY <1>1, <2>1, <2>4, SwarmParts DEF FlockIn, U
  <2>8. ASSUME NEW t \in LeadersIn(h, v) PROVE v.attached[t] <= Cardinality(FlockIn(h, v, t))
    <3>1. CASE t = s
      <4>1. Cardinality(FlockIn(h, v, t)) \in Nat
        BY <1>2, FlockFinite
      <4>2. v.attached[t] = 0
        BY <1>1, <2>1, <2>4, <3>1, SwarmParts
      <4> QED
        BY <4>1, <4>2
    <3>2. CASE t # s
      <4>1. t \in LeadersIn(g, w) /\ t \in Slot(B)
        BY <1>1, <2>6, <3>2 DEF LeadersIn, U
      <4>2. v.attached[t] = w.attached[t]
        BY <1>1, <2>4, <3>2, <4>1, SwarmParts
      <4> QED
        BY <1>1, <2>7, <4>1, <4>2
    <3> QED
      BY <3>1, <3>2
  <2>9. Fit(h, v)
    BY <1>2, <2>5, <2>8 DEF Fit
  <2> QED
    BY <1>3, <2>2, <2>6, <2>9 DEF v, s, h
<1> QED
  BY <1>4, <1>5

\* A new element is one more to wait for, and one more to leave.
LEMMA ElementLaunched ==
    ASSUME NEW g, NEW w, Fit(g, w), NEW leg \in Leg
    PROVE  LET l == launchElement(g, w, leg) IN
           Fit(l.group, l.swarm) /\ LeadersIn(l.group, l.swarm) = LeadersIn(g, w)
<1> DEFINE B == "EnemyBullets"
           n == Size[B]
           e == born(g)
           r == w.last[leg]
           U == Elements(g.used)
           h == newParticle(g, 1)
           l == launchElement(g, w, leg)
<1>1. /\ n \in Nat /\ Sound(g, n) /\ w \in Swarms /\ U \subseteq Slot(B) /\ Slot(B) = 1..n
      /\ \A t \in LeadersIn(g, w) : w.attached[t] <= Cardinality(FlockIn(g, w, t))
  BY FlockFinite DEF Fit, Slot
<1>2. Sound(h, n)
  BY <1>1, BirthSound
<1>3. CASE r = 0 \/ e = 0
  BY <1>3 DEF launchElement
<1>4. CASE ~(r = 0 \/ e = 0)
  <2>1. g.free # << >>
    BY <1>4 DEF born
  <2>2. e \in Slot(B) /\ e \notin U /\ Elements(h.used) = U \cup {e}
    BY <1>1, <2>1, BirthElements
  <2>3. r \in Slot(B)
    BY <1>1, <1>4, SwarmParts
  <2>4. /\ l.group = h
        /\ l.swarm = [[w EXCEPT !.leader[e] = FALSE, !.related[e] = r, !.attached[e] = 0]
                        EXCEPT !.attached[r] = @ + 1]
    BY <1>4, Zenon DEF launchElement
  <2> DEFINE v == l.swarm
             a == [w.attached EXCEPT ![e] = 0]
  <2> HIDE DEF e, r
  <2>5. v = [leader |-> [w.leader EXCEPT ![e] = FALSE],
             related |-> [w.related EXCEPT ![e] = r],
             attached |-> [a EXCEPT ![r] = a[r] + 1], last |-> w.last]
    <3>1. v = Parts([w.leader EXCEPT ![e] = FALSE], [w.related EXCEPT ![e] = r],
                    [[w.attached EXCEPT ![e] = 0]
                       EXCEPT ![r] = [w.attached EXCEPT ![e] = 0][r] + 1], w.last)
      <4>1. v = elementNoted(w, e, r, FALSE)
        BY <2>4 DEF elementNoted
      <4> QED
        BY <1>1, <4>1, ElementNoted, Zenon
    <3> QED
      BY <3>1, Zenon DEF Parts
  <2> HIDE DEF v, h, U, l
  <2> HIDE DEF a
  <2>6. a \in [Slot(B) -> Int] /\ \A t \in Slot(B) \ {e} : a[t] = w.attached[t]
    BY <1>1, <2>2, SwarmParts DEF a
  <2>7. /\ v.attached \in [Slot(B) -> Int]
        /\ \A t \in Slot(B) : v.attached[t] = IF t = r THEN a[t] + 1 ELSE a[t]
    BY <2>3, <2>5, <2>6
  <2>8. v.leader \in [Slot(B) -> BOOLEAN] /\ v.related \in [Slot(B) -> Slot(B) \cup {0}]
    BY <1>1, <2>3, <2>5, SwarmParts
  <2>9. v \in Swarms
    BY <1>1, <2>5, <2>7, <2>8, SwarmParts DEF Swarms
  <2>10. LeadersIn(h, v) = LeadersIn(g, w)
    BY <1>1, <2>2, <2>5, SwarmParts DEF LeadersIn, U
  <2>11. ASSUME NEW t \in LeadersIn(h, v) PROVE v.attached[t] <= Cardinality(FlockIn(h, v, t))
    <3> DEFINE K == FlockIn(g, w, t)
    <3>1. /\ t \in LeadersIn(g, w) /\ t \in Slot(B) /\ t # e
          /\ w.attached[t] <= Cardinality(K) /\ w.attached[t] \in Int
      BY <1>1, <2>2, <2>10, SwarmParts DEF LeadersIn, U
    <3>2. IsFiniteSet(K) /\ Cardinality(K) \in Nat /\ e \notin K
      <4>1. IsFiniteSet(K) /\ Cardinality(K) \in Nat
        BY <1>1, FlockFinite
      <4>2. K \subseteq U
        BY DEF FlockIn, U
      <4> QED
        BY <2>2, <4>1, <4>2
    <3>3. FlockIn(h, v, t) = IF t = r THEN K \cup {e} ELSE K
      BY <1>1, <2>2, <2>5, SwarmParts DEF FlockIn, U
    <3>4. v.attached[t] = IF t = r THEN w.attached[t] + 1 ELSE w.attached[t]
      BY <2>6, <2>7, <3>1
    <3> HIDE DEF K
    <3>5. Cardinality(K \cup {e}) = Cardinality(K) + 1
      BY <3>2, FS_AddElement
    <3> QED
      BY <3>1, <3>2, <3>3, <3>4, <3>5
  <2>12. Fit(h, v)
    BY <1>2, <2>9, <2>11 DEF Fit
  <2> QED
    BY <2>4, <2>10, <2>12 DEF v, l
<1> QED
  BY <1>3, <1>4

\* No leader waits in vain, no swarm outlives its boss by more than a reset,
\* and enemyBulletCount is never less than what it counts.
SwarmInv ==
    /\ swarm \in Swarms /\ LeaderNeverStuck
    /\ ~boss => Used("EnemyBullets") = {}
    /\ enemyBulletCount \in Int /\ enemyBulletCount >= Counted

\* The leaders and the swarms, before a step and after it.
LEMMA AsSets ==
    /\ Leaders = LeadersIn(pg["EnemyBullets"], swarm)
    /\ Leaders' = LeadersIn(pg'["EnemyBullets"], swarm')
    /\ \A s : Swarm(s) = FlockIn(pg["EnemyBullets"], swarm, s)
    /\ \A s : Swarm(s)' = FlockIn(pg'["EnemyBullets"], swarm', s)
<1>1. Leaders = LeadersIn(pg["EnemyBullets"], swarm)
  BY Zenon DEF Leaders, LeadersIn, Used, Elements
<1>2. Leaders' = LeadersIn(pg'["EnemyBullets"], swarm')
  BY Zenon DEF Leaders, LeadersIn, Used, Elements
<1>3. \A s : Swarm(s) = FlockIn(pg["EnemyBullets"], swarm, s)
  BY DEF Swarm, FlockIn, Leaders, Used, Elements
<1>4. \A s : Swarm(s)' = FlockIn(pg'["EnemyBullets"], swarm', s)
  BY DEF Swarm, FlockIn, Leaders, Used, Elements
<1> QED
  BY <1>1, <1>2, <1>3, <1>4

\* The invariant of the swarms is that of one group and what is known of it.
LEMMA FitIsInv ==
    /\ BattleInv /\ SwarmInv => Fit(pg["EnemyBullets"], swarm)
    /\ Fit(pg'["EnemyBullets"], swarm') => swarm' \in Swarms /\ LeaderNeverStuck'
<1>1. BattleInv /\ SwarmInv => Fit(pg["EnemyBullets"], swarm)
  BY UsedFacts, AsSets, GroupNames DEF BattleInv, SwarmInv, LeaderNeverStuck, Fit
<1>2. Fit(pg'["EnemyBullets"], swarm') => swarm' \in Swarms /\ LeaderNeverStuck'
  BY AsSets DEF LeaderNeverStuck, Fit
<1> QED
  BY <1>1, <1>2

\* The numbers that enemyBulletCount stands for.
LEMMA CountFacts ==
    ASSUME BattleInv, SwarmInv
    PROVE  /\ IsFiniteSet(Leaders) /\ Cardinality(Leaders) \in Nat
           /\ IsFiniteSet(Used("ShootableEnemyBullets"))
           /\ Cardinality(Used("ShootableEnemyBullets")) \in Nat
           /\ Counted = Cardinality(Used("ShootableEnemyBullets")) + Cardinality(Leaders)
           /\ Leaders \subseteq Used("EnemyBullets") /\ enemyBulletCount \in Int
<1>1. IsFiniteSet(Leaders) /\ Cardinality(Leaders) \in Nat
  BY AsSets, FitIsInv, FlockFinite DEF Fit
<1>2. IsFiniteSet(Used("ShootableEnemyBullets"))
  BY UsedFacts, GroupNames DEF BattleInv
<1>3. Cardinality(Used("ShootableEnemyBullets")) \in Nat
  BY <1>2, FS_CardinalityType
<1> QED
  BY <1>1, <1>2, <1>3 DEF Counted, Leaders, SwarmInv

\* A step that keeps the leaders and the bullets keeps the difference.
LEMMA SameCount ==
    ASSUME BattleInv, SwarmInv, enemyBulletCount' = enemyBulletCount,
           Used("ShootableEnemyBullets")' = Used("ShootableEnemyBullets"), Leaders' = Leaders
    PROVE  enemyBulletCount' - Counted' = enemyBulletCount - Counted
BY CountFacts DEF Counted

\* The boss counts the leader that it launches, if there is one.
LEMMA BossTally ==
    ASSUME BattleInv, SwarmInv, BossUpdate
    PROVE  /\ Fit(pg'["EnemyBullets"], swarm')
           /\ enemyBulletCount' - Counted' = enemyBulletCount - Counted
<1> DEFINE B == "EnemyBullets"
           F == "ShootableEnemyBullets"
           calm == [group |-> pg[B], swarm |-> swarm]
           led  == {calm} \cup {launchLeader(calm.group, calm.swarm, leg) : leg \in Leg}
           left(x) == launchElement(x.group, x.swarm, "left")
           both(x) == launchElement(left(x).group, left(x).swarm, "right")
           f(x) == IF x # calm /\ born(calm.group) # 0 THEN 1 ELSE 0
           L == LeadersIn(pg[B], swarm)
           b == born(pg[B])
<1>1. PICK x \in led : \E y \in {x, both(x)} :
        /\ pg' = [pg EXCEPT ![B] = y.group] /\ swarm' = y.swarm
        /\ enemyBulletCount' = enemyBulletCount + f(x)
  BY DEF BossUpdate
<1>2. PICK y \in {x, both(x)} :
        /\ pg' = [pg EXCEPT ![B] = y.group] /\ swarm' = y.swarm
        /\ enemyBulletCount' = enemyBulletCount + f(x)
  BY <1>1
<1>3. Fit(calm.group, calm.swarm) /\ calm.group = pg[B] /\ calm.swarm = swarm
  BY FitIsInv
<1>4. /\ Fit(x.group, x.swarm) /\ (b \notin L \/ x = calm)
      /\ LeadersIn(x.group, x.swarm) = IF x = calm \/ b = 0 THEN L ELSE L \cup {b}
  <2>1. CASE x = calm
    BY <1>3, <2>1
  <2>2. CASE x # calm
    <3>1. PICK leg \in Leg : x = launchLeader(pg[B], swarm, leg)
      BY <2>2
    <3>2. /\ Fit(x.group, x.swarm) /\ b \notin L
          /\ LeadersIn(x.group, x.swarm) = L \cup (IF b = 0 THEN {} ELSE {b})
      BY <1>3, <3>1, LeaderLaunched, Zenon
    <3>3. L \cup {} = L
      OBVIOUS
    <3> QED
      BY <2>2, <3>2, <3>3, Zenon
  <2> QED
    BY <2>1, <2>2
<1>5. Fit(y.group, y.swarm) /\ LeadersIn(y.group, y.swarm) = LeadersIn(x.group, x.swarm)
  <2>0. "left" \in Leg /\ "right" \in Leg
    BY DEF Leg
  <2>1. Fit(x.group, x.swarm)
    BY <1>3, <1>4
  <2> HIDE DEF calm, led, f, L, b
  <2>2. /\ Fit(left(x).group, left(x).swarm)
        /\ LeadersIn(left(x).group, left(x).swarm) = LeadersIn(x.group, x.swarm)
    BY <2>0, <2>1, ElementLaunched, Zenon
  <2> HIDE DEF left
  <2>3. /\ Fit(both(x).group, both(x).swarm)
        /\ LeadersIn(both(x).group, both(x).swarm) = LeadersIn(left(x).group, left(x).swarm)
    BY <2>0, <2>2, ElementLaunched, Zenon
  <2> HIDE DEF both
  <2> QED
    BY <1>2, <2>1, <2>2, <2>3
<1>6. pg'[B] = y.group /\ pg'[F] = pg[F]
  BY <1>2, Only, GroupNames DEF BattleInv
<1>7. Fit(pg'[B], swarm')
  BY <1>2, <1>5, <1>6
<1>8. Leaders' = (IF x = calm \/ b = 0 THEN L ELSE L \cup {b}) /\ Leaders = L
  BY <1>2, <1>4, <1>5, <1>6, AsSets
<1>9. Used(F)' = Used(F)
  BY <1>6 DEF Used
<1>10. enemyBulletCount' = enemyBulletCount + (IF x = calm \/ b = 0 THEN 0 ELSE 1)
  BY <1>2
<1>11. x = calm \/ b \notin L
  BY <1>4
<1> HIDE DEF L, b, calm, led, f, both
<1>12. CASE x = calm \/ b = 0
  <2>1. enemyBulletCount' = enemyBulletCount
    BY <1>10, <1>12, CountFacts
  <2>2. Leaders' = Leaders
    BY <1>8, <1>12
  <2> QED
    BY <1>7, <1>9, <2>1, <2>2, SameCount
<1>13. CASE ~(x = calm \/ b = 0)
  <2>1. Cardinality(Leaders') = Cardinality(Leaders) + 1
    BY <1>8, <1>11, <1>13, CountFacts, FS_AddElement
  <2>2. Counted' = Cardinality(Used(F)) + (Cardinality(Leaders) + 1)
    BY <1>9, <2>1 DEF Counted
  <2> QED
    BY <1>7, <1>10, <1>13, <2>2, CountFacts
<1> QED
  BY <1>7, <1>12, <1>13

\* A leader leaves, and is counted off; an element leaves its leader.
LEMMA FlockTally ==
    ASSUME BattleInv, SwarmInv, LeaderUpdate \/ ElementUpdate
    PROVE  /\ Fit(pg'["EnemyBullets"], swarm')
           /\ enemyBulletCount' - Counted' = enemyBulletCount - Counted
<1> DEFINE B == "EnemyBullets"
           F == "ShootableEnemyBullets"
           g == pg[B]
           w == swarm
           x == Self(B)
           h == pg'[B]
           v == swarm'
           r == w.related[x]
<1>1. /\ Fit(g, w) /\ Turn(B) /\ B \in Group /\ F \in Group \ {B} /\ Lists /\ w \in Swarms
      /\ Sound(g, Size[B]) /\ Elements(g.used) \subseteq Slot(B)
      /\ \A t \in LeadersIn(g, w) : w.attached[t] <= Cardinality(FlockIn(g, w, t))
  BY FitIsInv, FlockFinite, GroupNames DEF BattleInv, LeaderUpdate, ElementUpdate, Fit
<1>2. Leaders = LeadersIn(g, w) /\ Leaders' = LeadersIn(h, v)
  BY AsSets
<1>3. CASE UNCHANGED <<pg, swarm, enemyBulletCount>>
  <2>1. Fit(h, v) /\ Leaders' = Leaders /\ Used(F)' = Used(F)
    BY <1>1, <1>2, <1>3 DEF Used
  <2> QED
    BY <1>3, <2>1, SameCount
<1>4. CASE Dies(B) /\ \/ /\ w.leader[x] /\ swarm' = leaderLeft(w, x, FALSE)
                         /\ enemyBulletCount' = enemyBulletCount - 1
                      \/ /\ ~w.leader[x] /\ swarm' = elementLeft(w, x, r)
                         /\ enemyBulletCount' = enemyBulletCount
  <2>1. /\ x \in Elements(g.used) /\ x \in Slot(B) /\ pg'[F] = pg[F]
        /\ Elements(h.used) = Elements(g.used) \ {x}
    BY <1>1, <1>4, TurnFacts, UsedFacts DEF BattleInv, Used, Elements
  <2>2. Sound(h, Size[B])
    BY <1>1, <1>4, DiesKeeps DEF Lists
  <2>3. Used(F)' = Used(F)
    BY <2>1 DEF Used
  <2>4. CASE w.leader[x]
    <3>1. v = leaderLeft(w, x, FALSE) /\ enemyBulletCount' = enemyBulletCount - 1
      BY <2>4, <1>4
    <3> HIDE DEF x, h, v, g, w
    <3>2. v = [leader |-> [w.leader EXCEPT ![x] = FALSE], related |-> w.related,
               attached |-> w.attached, last |-> w.last]
      BY <1>1, <3>1, LeftNoted, Zenon DEF Parts
    <3>3. v \in Swarms
      BY <1>1, <3>2, SwarmParts DEF Swarms
    <3>4. x \in LeadersIn(g, w) /\ LeadersIn(h, v) = LeadersIn(g, w) \ {x}
      BY <1>1, <2>1, <2>4, <3>2, SwarmParts DEF LeadersIn
    <3>5. \A t : FlockIn(h, v, t) = FlockIn(g, w, t)
      BY <1>1, <2>1, <2>4, <3>2, SwarmParts DEF FlockIn
    <3>6. Fit(h, v)
      BY <1>1, <2>2, <3>2, <3>3, <3>4, <3>5 DEF Fit
    <3>7. Cardinality(Leaders') = Cardinality(Leaders) - 1
      BY <1>2, <3>4, CountFacts, FS_RemoveElement
    <3>8. Counted' = Cardinality(Used(F)) + (Cardinality(Leaders) - 1)
      BY <2>3, <3>7 DEF Counted
    <3> QED
      <4>1. enemyBulletCount' - Counted' = enemyBulletCount - Counted
        BY <3>1, <3>8, CountFacts
      <4> QED
        BY <3>6, <4>1 DEF h, v
  <2>5. CASE ~w.leader[x]
    <3>1. v = elementLeft(w, x, r) /\ enemyBulletCount' = enemyBulletCount
      BY <2>5, <1>4
    <3> HIDE DEF x, h, v, g, r, w
    <3>2. v = [leader |-> w.leader, related |-> [w.related EXCEPT ![x] = 0],
               attached |-> [w.attached EXCEPT ![r] = w.attached[r] - 1], last |-> w.last]
      BY <1>1, <3>1, LeftNoted, Zenon DEF Parts
    <3>3. /\ v.attached \in [Slot(B) -> Int]
          /\ \A t \in Slot(B) : v.attached[t] = IF t = r THEN w.attached[t] - 1
                                                ELSE w.attached[t]
      <4>1. w.attached \in [Slot(B) -> Int]
        BY <1>1, SwarmParts
      <4>2. v.attached = [w.attached EXCEPT ![r] = w.attached[r] - 1]
        BY <3>2
      <4> DEFINE A == w.attached
                 m == A[r] - 1
      <4>3. r \in Slot(B) => m \in Int
        BY <4>1
      <4>4. A \in [Slot(B) -> Int] /\ v.attached = [A EXCEPT ![r] = m]
        BY <4>1, <4>2
      <4>5. \A t \in Slot(B) : t = r => A[t] - 1 = m
        OBVIOUS
      <4> HIDE DEF A, m
      <4>6. /\ v.attached \in [Slot(B) -> Int]
            /\ \A t \in Slot(B) : v.attached[t] = IF t = r THEN m ELSE A[t]
        BY <4>3, <4>4
      <4> QED
        BY <4>5, <4>6 DEF A
    <3>4. v \in Swarms
      BY <1>1, <3>2, <3>3, SwarmParts DEF Swarms
    <3>5. LeadersIn(h, v) = LeadersIn(g, w)
      BY <1>1, <2>1, <2>5, <3>2, SwarmParts DEF LeadersIn
    <3>6. ASSUME NEW t \in LeadersIn(h, v) PROVE v.attached[t] <= Cardinality(FlockIn(h, v, t))
      <4> DEFINE K == FlockIn(g, w, t)
      <4>1. /\ t \in Slot(B) /\ w.attached[t] \in Int /\ w.attached[t] <= Cardinality(K)
        BY <1>1, <3>5, SwarmParts DEF LeadersIn
      <4>2. IsFiniteSet(K) /\ Cardinality(K) \in Nat
        BY <1>1, FlockFinite
      <4>3. FlockIn(h, v, t) = K \ {x} /\ (x \in K <=> t = r)
        BY <1>1, <2>1, <2>5, <3>2, SwarmParts DEF FlockIn, r
      <4> HIDE DEF K
      <4>4. CASE t = r
        <5>1. Cardinality(K \ {x}) = Cardinality(K) - 1
          BY <4>2, <4>3, <4>4, FS_RemoveElement
        <5>2. v.attached[t] = w.attached[t] - 1
          BY <3>3, <4>1, <4>4
        <5> QED
          BY <4>1, <4>2, <4>3, <5>1, <5>2
      <4>5. CASE t # r
        <5>1. K \ {x} = K
          BY <4>3, <4>5
        <5>2. v.attached[t] = w.attached[t]
          BY <3>3, <4>1, <4>5
        <5> QED
          BY <4>1, <4>3, <5>1, <5>2
      <4> QED
        BY <4>4, <4>5
    <3>7. Fit(h, v)
      BY <2>2, <3>4, <3>6 DEF Fit
    <3> QED
      BY <1>2, <2>3, <3>1, <3>5, <3>7, SameCount DEF h, v
  <2> QED
    BY <2>4, <2>5
<1>5. CASE LeaderUpdate
  BY <1>3, <1>4, <1>5 DEF LeaderUpdate, leaderLeft
<1>6. CASE ElementUpdate
  BY <1>3, <1>4, <1>6 DEF ElementUpdate, elementLeft, counters
<1> QED
  BY <1>5, <1>6

\* A ball of fire is counted when there was a particle for it, and counted
\* off when it goes, however it goes.
LEMMA FireTally ==
    ASSUME BattleInv, SwarmInv, SimpleEnemyUpdate \/ BallOfFireUpdate
    PROVE  /\ Fit(pg'["EnemyBullets"], swarm')
           /\ enemyBulletCount' - Counted' = enemyBulletCount - Counted
<1> DEFINE B == "EnemyBullets"
           F == "ShootableEnemyBullets"
           c == Cardinality(Used(F))
           x == Self(F)
           b == born(pg[F])
<1>0. /\ F \in Group /\ B \in Group \ {F} /\ Lists
      /\ IsFiniteSet(Used(F)) /\ c \in Nat
  BY CountFacts, GroupNames DEF BattleInv
<1>1. swarm' = swarm
  BY DEF SimpleEnemyUpdate, BallOfFireUpdate
<1>2. \/ UNCHANGED <<pg, enemyBulletCount>>
      \/ Fires
      \/ Turn(F) /\ Dies(F) /\ enemyBulletCount' = enemyBulletCount - 1
  BY DEF SimpleEnemyUpdate, BallOfFireUpdate
<1>3. pg'[B] = pg[B]
  BY <1>0, <1>2, Only DEF Fires, Dies
<1>4. Fit(pg'[B], swarm') /\ Leaders' = Leaders
  BY <1>1, <1>3, FitIsInv, AsSets
<1>5. CASE UNCHANGED <<pg, enemyBulletCount>>
  <2>1. Used(F)' = Used(F)
    BY <1>5 DEF Used
  <2> QED
    BY <1>4, <1>5, <2>1, SameCount
<1>6. CASE Fires
  <2>1. /\ pg'[F] = newParticle(pg[F], 1)
        /\ enemyBulletCount' = enemyBulletCount + (IF b = 0 THEN 0 ELSE 1)
    BY <1>0, <1>6, Only DEF Fires
  <2>2. \/ b = 0 /\ Used(F)' = Used(F)
        \/ b # 0 /\ b \notin Used(F) /\ Used(F)' = Used(F) \cup {b}
    BY <1>0, <2>1, BirthUsed
  <2> HIDE DEF b
  <2>3. CASE b = 0
    <3>1. enemyBulletCount' = enemyBulletCount
      BY <2>1, <2>3, CountFacts
    <3> QED
      BY <1>4, <2>2, <2>3, <3>1, SameCount
  <2>4. CASE b # 0
    <3>1. Cardinality(Used(F)') = c + 1
      BY <1>0, <2>2, <2>4, FS_AddElement
    <3>2. Counted' = (c + 1) + Cardinality(Leaders)
      BY <1>4, <3>1 DEF Counted
    <3> QED
      BY <1>4, <2>1, <2>4, <3>2, CountFacts
  <2> QED
    BY <2>3, <2>4
<1>7. CASE Turn(F) /\ Dies(F) /\ enemyBulletCount' = enemyBulletCount - 1
  <2>1. x \in Used(F) /\ Used(F)' = Used(F) \ {x}
    BY <1>0, <1>7, TurnFacts
  <2> HIDE DEF x
  <2>2. Cardinality(Used(F)') = c - 1
    BY <1>0, <2>1, FS_RemoveElement
  <2>3. Counted' = (c - 1) + Cardinality(Leaders)
    BY <1>4, <2>2 DEF Counted
  <2> QED
    BY <1>4, <1>7, <2>3, CountFacts
<1> QED
  BY <1>2, <1>5, <1>6, <1>7

\* Whatever happens short of a launch keeps enemyBulletCount in step.
LEMMA Tally ==
    ASSUME BattleInv, SwarmInv, Next, ~Launch
    PROVE  /\ Fit(pg'["EnemyBullets"], swarm')
           /\ enemyBulletCount' - Counted' = enemyBulletCount - Counted
<1> DEFINE B == "EnemyBullets"
           F == "ShootableEnemyBullets"
<1>1. CASE BossUpdate
  BY <1>1, BossTally
<1>2. CASE LeaderUpdate \/ ElementUpdate
  BY <1>2, FlockTally
<1>3. CASE SimpleEnemyUpdate \/ BallOfFireUpdate
  BY <1>3, FireTally
<1>4. CASE /\ ~BossUpdate /\ ~LeaderUpdate /\ ~ElementUpdate
           /\ ~SimpleEnemyUpdate /\ ~BallOfFireUpdate
  <2>1. /\ pg'[B].used = pg[B].used /\ Used(B)' = Used(B) /\ Used(F)' = Used(F)
    BY <1>4, Frame DEF Used
  <2>2. /\ enemyBulletCount' = enemyBulletCount
        /\ swarm' = swarm \/ swarm' = [swarm EXCEPT !.last = NoLeaders]
    BY <1>4 DEF Next, vars, enemyVars, counters, createEnemy, StageUpdate, Created,
       HeroFires, HeroUpdate, GroupDone, EnemyDies, HeroBulletUpdate, ShotHitsBullet,
       ShotHitsEnemy, Ram, SwarmHits, FireHits, BulletHitsHero, LinkDone
  <2>3. Sound(pg'[B], Size[B])
    BY NextBattle, GroupNames DEF BattleInv, Lists
  <2>4. swarm \in Swarms /\ Fit(pg[B], swarm)
    BY FitIsInv DEF SwarmInv
  <2>5. /\ swarm' \in Swarms /\ swarm'.leader = swarm.leader
        /\ swarm'.related = swarm.related /\ swarm'.attached = swarm.attached
    <3>1. NoLeaders \in [Leg -> Slot(B) \cup {0}]
      BY DEF NoLeaders
    <3>2. CASE swarm' = [swarm EXCEPT !.last = NoLeaders]
      <4>1. swarm' = [leader |-> swarm.leader, related |-> swarm.related,
                      attached |-> swarm.attached, last |-> NoLeaders]
        BY <2>4, <3>2, SwarmParts
      <4> QED
        BY <2>4, <3>1, <4>1, SwarmParts DEF Swarms
    <3> QED
      BY <2>2, <2>4, <3>2
  <2>6. /\ LeadersIn(pg'[B], swarm') = LeadersIn(pg[B], swarm)
        /\ \A s : FlockIn(pg'[B], swarm', s) = FlockIn(pg[B], swarm, s)
    BY <2>1, <2>5 DEF LeadersIn, FlockIn
  <2>7. Fit(pg'[B], swarm')
    BY <2>3, <2>4, <2>5, <2>6 DEF Fit
  <2>8. Leaders' = Leaders
    BY <2>6, AsSets
  <2> QED
    BY <2>1, <2>2, <2>7, <2>8, SameCount
<1> QED
  BY <1>1, <1>2, <1>3, <1>4

\* A launch leaves behind in enemyBulletCount only the leaders it killed.
LEMMA LaunchTally ==
    ASSUME BattleInv, SwarmInv, Launch
    PROVE  /\ Fit(pg'["EnemyBullets"], swarm') /\ Used("EnemyBullets")' = {}
           /\ enemyBulletCount' \in Int /\ Counted' = 0
           /\ enemyBulletCount' >= enemyBulletCount - Counted
           /\ Leaders = {} => enemyBulletCount' = enemyBulletCount - Counted
<1> DEFINE B == "EnemyBullets"
           F == "ShootableEnemyBullets"
           c == Cardinality(Used(F))
           l == Cardinality(Leaders)
<1>1. PICK off \in SUBSET Leaders :
        /\ enemyBulletCount' = enemyBulletCount - Len(pg[F].used) - Cardinality(off)
        /\ swarm' = NoSwarm /\ pg' = [g \in Group |-> reset(Size[g])]
  BY DEF Launch, pgmReset
<1>2. Len(pg[F].used) = c
  BY UsedFacts, GroupNames DEF BattleInv
<1>3. Cardinality(off) \in Nat /\ Cardinality(off) <= l
  BY <1>1, CountFacts, FS_Subset, FS_CardinalityType
<1>4. pg'[B] = reset(Size[B]) /\ Used(B)' = {} /\ Used(F)' = {}
  BY <1>1, GroupNames DEF reset, Used
<1>5. Leaders' = {}
  BY <1>4 DEF Leaders
<1>6. Counted' = 0
  BY <1>4, <1>5, FS_EmptySet DEF Counted
<1>7. NoSwarm \in Swarms
  BY DEF NoSwarm, NoLeaders, Swarms
<1>8. LeadersIn(pg'[B], swarm') = {}
  BY <1>5, AsSets
<1>9. Fit(pg'[B], swarm')
  BY <1>1, <1>4, <1>7, <1>8, SizeFacts, GroupNames, ResetSound DEF Fit
<1>10. Leaders = {} => Cardinality(off) = 0 /\ l = 0
  BY <1>1, FS_EmptySet
<1> QED
  BY <1>1, <1>2, <1>3, <1>4, <1>6, <1>9, <1>10, CountFacts

\* No step breaks the swarms.
LEMMA SwarmKept == BattleInv /\ SwarmInv /\ [Next]_vars => SwarmInv'
<1> SUFFICES ASSUME BattleInv, SwarmInv, [Next]_vars PROVE SwarmInv'
  OBVIOUS
<1> DEFINE B == "EnemyBullets"
<1>1. CASE UNCHANGED vars
  <2>1. UNCHANGED <<pg, swarm, boss, enemyBulletCount>>
    BY <1>1 DEF vars, counters, enemyVars
  <2>2. \A g : Used(g)' = Used(g)
    BY <2>1 DEF Used
  <2>3. Leaders' = Leaders /\ Counted' = Counted
    BY <2>1, <2>2 DEF Leaders, Counted
  <2>4. Fit(pg'[B], swarm')
    BY <2>1, FitIsInv
  <2> QED
    BY <2>1, <2>2, <2>3, <2>4, FitIsInv DEF SwarmInv
<1>2. CASE Launch
  BY <1>2, LaunchTally, FitIsInv, CountFacts DEF SwarmInv
<1>3. CASE Next /\ ~Launch
  <2>1. /\ swarm' \in Swarms /\ LeaderNeverStuck'
        /\ enemyBulletCount' - Counted' = enemyBulletCount - Counted
    BY <1>3, Tally, FitIsInv
  <2>2. Counted' \in Nat
    <3>1. BattleInv'
      BY NextBattle
    <3>2. Fit(pg'[B], swarm')
      BY <1>3, Tally
    <3>3. Cardinality(Leaders') \in Nat
      BY <3>2, AsSets, FlockFinite DEF Fit
    <3>4. IsFiniteSet(Used("ShootableEnemyBullets")')
      <4>1. Sound(pg'["ShootableEnemyBullets"], Size["ShootableEnemyBullets"])
        BY <3>1, GroupNames DEF BattleInv, Lists
      <4> QED
        BY <4>1, SizeFacts, GroupNames, ListCounts DEF Used, Elements
    <3> QED
      BY <3>3, <3>4, FS_CardinalityType DEF Counted
  <2>3. enemyBulletCount' \in Int
    <3>1. CASE BossUpdate
      <4>1. \E n \in {0, 1} : enemyBulletCount' = enemyBulletCount + n
        BY <3>1, Zenon DEF BossUpdate
      <4> QED
        BY <4>1, CountFacts
    <3>2. CASE SimpleEnemyUpdate \/ LeaderUpdate \/ BallOfFireUpdate
      BY <3>2, CountFacts DEF SimpleEnemyUpdate, LeaderUpdate, BallOfFireUpdate, Fires
    <3>3. CASE ~BossUpdate /\ ~SimpleEnemyUpdate /\ ~LeaderUpdate /\ ~BallOfFireUpdate
      BY <1>3, <3>3, CountFacts DEF Next, vars, enemyVars, counters, createEnemy, StageUpdate,
         Created, HeroFires, HeroUpdate, GroupDone, EnemyDies, HeroBulletUpdate,
         ShotHitsBullet, ShotHitsEnemy, Ram, SwarmHits, FireHits, BulletHitsHero, LinkDone,
         ElementUpdate
    <3> QED
      BY <3>1, <3>2, <3>3
  <2>4. enemyBulletCount' >= Counted'
    BY <2>1, <2>2, <2>3, CountFacts DEF SwarmInv
  <2>5. ~boss' => Used(B)' = {}
    <3>1. CASE ~boss
      <4>1. ~BossUpdate
        BY <3>1 DEF BossUpdate
      <4>2. Used(B) = {} /\ ~Turn(B)
        BY <3>1, TurnFacts, GroupNames DEF SwarmInv
      <4>3. ~LeaderUpdate /\ ~ElementUpdate
        BY <4>2 DEF LeaderUpdate, ElementUpdate
      <4>4. pg'[B].used = pg[B].used
        BY <1>3, <4>1, <4>3, Frame
      <4> QED
        BY <4>2, <4>4 DEF Used
    <3>2. CASE boss
      <4>1. boss' = boss
        BY <1>3, <3>2 DEF Next, vars, enemyVars, counters, createEnemy, StageUpdate, Created,
           HeroFires, HeroUpdate, GroupDone, EnemyDies, HeroBulletUpdate, ShotHitsBullet,
           ShotHitsEnemy, Ram, SwarmHits, FireHits, BulletHitsHero, LinkDone,
           SimpleEnemyUpdate, BossUpdate, LeaderUpdate, ElementUpdate, BallOfFireUpdate
      <4> QED
        BY <3>2, <4>1
    <3> QED
      BY <3>1, <3>2
  <2> QED
    BY <2>1, <2>3, <2>4, <2>5 DEF SwarmInv
<1> QED
  BY <1>1, <1>2, <1>3
----------------------------------------------------------------------------
(* Where the round is, and all of it together.                             *)

\* The round is at one of its stages, or before or between two rounds.
PlaceInv ==
    /\ hero \in {"alive", "dead", "gone"}
    /\ at.stage \in Stages \cup {"menu", "launched", "create"} /\ at.j \in Nat

\* The walk of the next stage of a round begins anew.
LEMMA AfterFacts ==
    ASSUME NEW s \in Stages, at' = After(s) PROVE at'.stage \in Stages /\ at'.j \in Nat
<1>1. PICK t : t \in Stages /\ at' = Start(t)
  BY StageFacts
<1> QED
  BY <1>1 DEF Start

\* Once the wave is there, the round goes from stage to stage.
LEMMA StageToStage ==
    ASSUME BattleInv, PlaceInv, Next, ~Launch, ~StageUpdate, ~createEnemy, ~Created
    PROVE  at.stage \in Stages /\ at'.stage \in Stages /\ at'.j \in Nat
<1>2. ASSUME NEW g \in Group, Turn(g), Lives \/ Dies(g)
      PROVE  at.stage \in Stages /\ at'.stage = at.stage /\ at'.j = at.j
  BY <1>2, StageFacts DEF Turn, Lives, Dies, BattleInv, Round
<1>3. CASE HeroUpdate \/ GroupDone \/ LinkDone
  BY <1>3, AfterFacts, StageFacts DEF HeroUpdate, GroupDone, LinkDone
<1>4. CASE HeroFires
  BY <1>4, StageFacts DEF HeroFires, PlaceInv
<1>5. CASE EnemyDies \/ SimpleEnemyUpdate \/ BossUpdate
  BY <1>2, <1>5, GroupNames DEF EnemyDies, SimpleEnemyUpdate, BossUpdate, PlaceInv
<1>6. CASE LeaderUpdate \/ ElementUpdate \/ HeroBulletUpdate \/ BallOfFireUpdate
  BY <1>2, <1>6, GroupNames
  DEF LeaderUpdate, ElementUpdate, HeroBulletUpdate, BallOfFireUpdate, PlaceInv
<1>7. CASE ShotHitsBullet \/ ShotHitsEnemy \/ Ram \/ SwarmHits \/ FireHits
  <2>1. /\ at.stage \in Links
        /\ \E g \in Group : \E j \in DOMAIN pg[g].used : \E i : Pair(i, j)
    BY <1>7, GroupNames, Zenon
    DEF ShotHitsBullet, ShotHitsEnemy, Ram, SwarmHits, FireHits, BulletHitsHero, Links
  <2>2a. PICK g \in Group : \E j \in DOMAIN pg[g].used : \E i : Pair(i, j)
    BY <2>1
  <2>2. PICK j \in DOMAIN pg[g].used : \E i : Pair(i, j)
    BY <2>2a
  <2>3. j \in Nat
    BY InGroup DEF BattleInv
  <2>4. at'.stage = at.stage /\ at'.j = j
    BY <2>2 DEF Pair, BattleInv, Round
  <2> QED
    BY <2>1, <2>3, <2>4, StageFacts
<1> QED
  BY <1>3, <1>4, <1>5, <1>6, <1>7 DEF Next

\* No step leaves the round nowhere.
LEMMA PlaceKept == BattleInv /\ PlaceInv /\ [Next]_vars => PlaceInv'
<1> SUFFICES ASSUME BattleInv, PlaceInv, [Next]_vars PROVE PlaceInv'
  OBVIOUS
<1>1. hero' \in {"alive", "dead", "gone"}
  <2>1. ASSUME NEW d, heroHit(d) PROVE hero' \in {"alive", "dead", "gone"}
    BY <2>1 DEF heroHit, PlaceInv
  <2>2. CASE Ram \/ SwarmHits \/ FireHits
    BY <2>1, <2>2 DEF Ram, SwarmHits, FireHits, BulletHitsHero
  <2>3. CASE ~Ram /\ ~SwarmHits /\ ~FireHits
    BY <2>3 DEF PlaceInv, Next, vars, Launch, createEnemy, StageUpdate, Created,
       HeroFires, HeroUpdate, GroupDone, EnemyDies, HeroBulletUpdate, ShotHitsBullet,
       ShotHitsEnemy, LinkDone, SimpleEnemyUpdate, BossUpdate, LeaderUpdate,
       ElementUpdate, BallOfFireUpdate
  <2> QED
    BY <2>2, <2>3
<1>2. at'.stage \in Stages \cup {"menu", "launched", "create"} /\ at'.j \in Nat
  <2>1. at' = After("stages") => at'.stage \in Stages /\ at'.j \in Nat
    BY AfterFacts, StageFacts
  <2>2. CASE Launch
    BY <2>2 DEF Launch, activateLevel
  <2>3. CASE StageUpdate
    BY <2>1, <2>3 DEF StageUpdate, activateLevel
  <2>4. CASE createEnemy
    BY <2>4 DEF createEnemy, BattleInv, Round, PlaceInv
  <2>5. CASE Created
    BY <2>1, <2>5 DEF Created, Start
  <2>6. CASE UNCHANGED vars
    BY <2>6 DEF vars, PlaceInv
  <2> QED
    BY <2>2, <2>3, <2>4, <2>5, <2>6, StageToStage
<1> QED
  BY <1>1, <1>2 DEF PlaceInv

\* All that is always true of the fight, each part with the lists.
FightInv == BattleInv /\ AttackInv /\ EnergyInv /\ SwarmInv /\ PlaceInv

\* The fight begins with all of it.
LEMMA InitFight == Init => FightInv
<1> SUFFICES ASSUME Init PROVE FightInv
  OBVIOUS
<1>1. BattleInv
  BY InitBattle
<1>2. \A g \in Group : Used(g) = {}
  <2>1. \A g \in Group : pg[g] = reset(Size[g])
    BY DEF Init
  <2>2. \A g \in Group : pg[g].used = << >>
    <3>1. ASSUME NEW n PROVE reset(n).used = << >>
      BY DEF reset
    <3> QED
      BY <2>1, <3>1, Zenon
  <2>3. DOMAIN << >> = {}
    OBVIOUS
  <2> QED
    BY <2>2, <2>3 DEF Used
<1>3. Attackers = {} /\ Leaders = {} /\ Counted = 0 /\ Cardinality({}) = 0
  BY <1>2, GroupNames, FS_EmptySet DEF Attackers, Leaders, Counted
<1>4. AttackInv
  <2>1. MaxAttacking[skill] \in Nat /\ skill \in Skills
    BY BattleAssumption DEF Init, BattleAssumption
  <2>2. move = NoMove /\ enemyAttackCount = 0
    BY DEF Init
  <2> QED
    BY <1>3, <2>1, <2>2 DEF AttackInv, NoMove, MoveState
<1>5. EnergyInv
  <2>1. Toughness[FALSE] \in Nat
    BY BattleAssumption DEF BattleAssumption
  <2>2. energy = NoEnergy /\ boss = FALSE /\ bonuses = 0
    BY DEF Init
  <2>3. \A n \in Nat : 0 \in 0..n
    OBVIOUS
  <2>4. 0 \in 0..Toughness[boss]
    BY <2>1, <2>2, <2>3, Zenon
  <2> QED
    BY <1>2, <2>2, <2>4, GroupNames DEF EnergyInv, NoEnergy
<1>6. SwarmInv
  <2>1. NoSwarm \in Swarms
    BY DEF NoSwarm, NoLeaders, Swarms
  <2>2. swarm = NoSwarm /\ enemyBulletCount = 0
    BY DEF Init
  <2> QED
    BY <1>2, <1>3, <2>1, <2>2, GroupNames DEF SwarmInv, LeaderNeverStuck
<1>7. PlaceInv
  BY DEF Init, PlaceInv, Start
<1> QED
  BY <1>1, <1>4, <1>5, <1>6, <1>7 DEF FightInv

\* The inductive invariant of the whole fight.
THEOREM FightInvariance == Spec => []FightInv
<1>1. FightInv /\ [Next]_vars => FightInv'
  BY NextBattle, AttackKept, EnergyKept, SwarmKept, PlaceKept DEF FightInv
<1> QED
  BY <1>1, InitFight, PTL DEF Spec

\* The types of the fight: enemyBulletCount and enemyAttackCount, ints that
\* many hands count up and down, never fall below 0.
THEOREM TypeCorrect == Spec => []TypeOK
<1>1. FightInv => TypeOK
  <2> SUFFICES ASSUME FightInv PROVE TypeOK
    OBVIOUS
  <2>1. DOMAIN pg = Group /\ \A g \in Group : pg[g] \in Groups(Size[g])
    BY DEF FightInv, BattleInv, Lists, Sound
  <2>2. numObjects \in Nat
    BY Walk, UsedFacts, GroupNames DEF FightInv, BattleInv, ObjectsCounted
  <2>3. enemyAttackCount \in Nat
    BY AttackersFinite DEF FightInv, AttackInv
  <2>4. enemyBulletCount \in Nat
    BY CountFacts DEF FightInv, SwarmInv
  <2> QED
    BY <2>1, <2>2, <2>3, <2>4
    DEF TypeOK, FightInv, BattleInv, Round, AttackInv, EnergyInv, SwarmInv, PlaceInv, Stages
<1> QED
  BY <1>1, FightInvariance, PTL

\* However many enemies attack, retreat, go home or are shot on the way, the
\* counters are what they count, and no more attack than the skill allows.
THEOREM EnemiesCorrect == Spec => []EnemiesCounted
<1>1. FightInv => EnemiesCounted
  BY DEF FightInv, BattleInv, AttackInv, EnemiesCounted
<1> QED
  BY <1>1, FightInvariance, PTL

\* Whatever particle the boss takes for its leader by now, no leader ever
\* waits for elements that are not there.
THEOREM LeadersLeave == Spec => []LeaderNeverStuck
<1>1. FightInv => LeaderNeverStuck
  BY DEF FightInv, SwarmInv
<1> QED
  BY <1>1, FightInvariance, PTL

\* Only a launch that resets the boss's fight leaves enemyBulletCount wrong.
THEOREM LeaksCorrect == Spec => OnlyResetLeaks
<1> DEFINE Leak == enemyBulletCount' - Counted' # enemyBulletCount - Counted
                     => boss /\ at'.stage = "create" /\ at'.j = 1
<1>1. FightInv /\ [Next]_vars => [Leak]_vars
  <2> SUFFICES ASSUME FightInv, Next PROVE Leak
    OBVIOUS
  <2>1. CASE ~Launch
    BY <2>1, Tally DEF FightInv
  <2>2. CASE Launch
    <3>1. at'.stage = "create" /\ at'.j = 1
      BY <2>2 DEF Launch, activateLevel
    <3>2. CASE ~boss
      <4>1. Leaders = {}
        BY <3>2 DEF FightInv, SwarmInv, Leaders
      <4> QED
        BY <2>2, <4>1, LaunchTally, CountFacts DEF FightInv
    <3> QED
      BY <3>1, <3>2
  <2> QED
    BY <2>1, <2>2
<1> QED
  BY <1>1, FightInvariance, PTL DEF Spec, OnlyResetLeaks
----------------------------------------------------------------------------
(* The fight implements the wave.                                          *)

\* What the wave is made of: the enemies that were shot but are still to be
\* taken off the list, those not shot yet, and whether the orbit was reset.
Wrecks  == Used("Enemies") \cap pg["Enemies"].dead
ToCome  == IF at.stage = "create" THEN at.i ELSE 0
Alive   == Len(pg["Enemies"].used) - Cardinality(Wrecks) + ToCome
Arrived == at.stage = "launched" \/ (at.stage = "create" /\ at.j = 1)

\* The steps of the wave.
WaveStep == [W!Next]_(W!vars)

\* A step of the wave, told by what becomes of its three parts.
LEMMA WaveSteps ==
    /\ Alive' \in WaveSizes \cup {1} /\ bonuses' = 0 /\ Arrived' => WaveStep
    /\ Alive = 0 /\ Alive' \in WaveSizes \cup {1} /\ bonuses' = 0 /\ ~Arrived' => WaveStep
    /\ Alive > 0 /\ Alive' = Alive - 1 /\ bonuses' = bonuses + 1 /\ ~Arrived' => WaveStep
    /\ Alive' = Alive /\ bonuses' = bonuses /\ ~Arrived' => WaveStep
    /\ Alive' = Alive /\ bonuses' = bonuses /\ (Arrived' <=> Arrived) => WaveStep
<1> USE DEF Alive, Arrived, Wrecks, ToCome
<1>1. Alive' \in WaveSizes \cup {1} /\ bonuses' = 0 /\ Arrived' => WaveStep
  BY Zenon DEF WaveStep, W!Next, W!Reset, W!NewEnemies
<1>2. Alive = 0 /\ Alive' \in WaveSizes \cup {1} /\ bonuses' = 0 /\ ~Arrived' => WaveStep
  BY Zenon DEF WaveStep, W!Next, W!NewWave, W!NewEnemies
<1>3. Alive > 0 /\ Alive' = Alive - 1 /\ bonuses' = bonuses + 1 /\ ~Arrived' => WaveStep
  BY Zenon DEF WaveStep, W!Next, W!Shoot
<1>4. Alive' = Alive /\ bonuses' = bonuses /\ ~Arrived' => WaveStep
  BY Zenon DEF WaveStep, W!Next, W!Move
<1>5. Alive' = Alive /\ bonuses' = bonuses /\ (Arrived' <=> Arrived) => WaveStep
  BY Zenon DEF WaveStep, W!vars
<1> QED
  BY <1>1, <1>2, <1>3, <1>4, <1>5

\* The wrecks are some of the enemies.
LEMMA WreckFacts ==
    ASSUME BattleInv
    PROVE  /\ IsFiniteSet(Wrecks) /\ Cardinality(Wrecks) \in Nat
           /\ Len(pg["Enemies"].used) \in Nat /\ at.i \in Nat /\ ToCome \in Nat
           /\ Cardinality(Wrecks) <= Len(pg["Enemies"].used)
           /\ \A e \in Used("Enemies") \ Wrecks :
                 Cardinality(Wrecks) + 1 <= Len(pg["Enemies"].used)
<1> DEFINE U == Used("Enemies")
<1>1. /\ IsFiniteSet(U) /\ Cardinality(U) = Len(pg["Enemies"].used)
      /\ Len(pg["Enemies"].used) \in Nat
  BY UsedFacts, GroupNames, Walk DEF BattleInv
<1>2. Wrecks \subseteq U
  BY DEF Wrecks
<1> HIDE DEF U
<1>3. IsFiniteSet(Wrecks) /\ Cardinality(Wrecks) \in Nat /\ Cardinality(Wrecks) <= Cardinality(U)
  BY <1>1, <1>2, FS_Subset, FS_CardinalityType
<1>4. ASSUME NEW e \in U \ Wrecks PROVE Cardinality(Wrecks) + 1 <= Cardinality(U)
  <2>1. Cardinality(Wrecks \cup {e}) = Cardinality(Wrecks) + 1
    BY <1>3, FS_AddElement
  <2>2. Wrecks \cup {e} \subseteq U
    BY <1>2
  <2>3. Cardinality(Wrecks \cup {e}) <= Cardinality(U)
    BY <1>1, <2>2, FS_Subset
  <2> QED
    BY <2>1, <2>3
<1>5. at.i \in Nat /\ ToCome \in Nat
  BY DEF BattleInv, Round, ToCome
<1> QED
  BY <1>1, <1>3, <1>4, <1>5 DEF U

\* A launch or a jump brings its wave at once.
LEMMA LaunchWave == FightInv /\ Launch => WaveStep
<1> SUFFICES ASSUME FightInv, Launch PROVE WaveStep
  OBVIOUS
<1> DEFINE E == "Enemies"
<1>1. PICK n \in WaveSizes : at' = [stage |-> "create", i |-> n, j |-> 1] /\ bonuses' = 0
  BY DEF Launch, activateLevel
<1>2. pg'[E] = reset(Size[E])
  BY GroupNames DEF Launch, pgmReset
<1>3. pg'[E].used = << >> /\ Used(E)' = {}
  BY <1>2 DEF reset, Used
<1>4. Wrecks' = {} /\ Cardinality({}) = 0
  BY <1>3, FS_EmptySet DEF Wrecks
<1>5. n \in Nat
  BY SizeFacts
<1>6. Alive' = n
  BY <1>1, <1>3, <1>4, <1>5 DEF Alive, ToCome
<1>7. Arrived'
  BY <1>1 DEF Arrived
<1> QED
  BY <1>1, <1>6, <1>7, WaveSteps

\* The next wave comes when the last has fallen.
LEMMA StageWave == FightInv /\ StageUpdate => WaveStep
<1> SUFFICES ASSUME FightInv, StageUpdate PROVE WaveStep
  OBVIOUS
<1> DEFINE E == "Enemies"
<1>1. BattleInv /\ pg' = pg /\ at.stage \in {"stages", "launched"}
  BY DEF FightInv, StageUpdate
<1>2. Wrecks' = Wrecks /\ ToCome = 0
  BY <1>1 DEF Wrecks, Used, ToCome
<1>3. CASE at' = After("stages") /\ UNCHANGED <<boss, numObjects, bonuses>>
  <2>1. at'.stage # "create" /\ at'.stage # "launched"
    BY <1>3, StageFacts
  <2>2. Alive' = Alive /\ ~Arrived' /\ bonuses' = bonuses
    BY <1>1, <1>2, <1>3, <2>1 DEF Alive, Arrived, ToCome
  <2> QED
    BY <2>2, WaveSteps
<1>4. CASE /\ numObjects = 0
           /\ activateLevel(1, TRUE, 0) \/ \E n \in WaveSizes : activateLevel(n, FALSE, 0)
  <2>1. PICK n \in WaveSizes \cup {1} :
          at' = [stage |-> "create", i |-> n, j |-> 0] /\ bonuses' = 0
    BY <1>4 DEF activateLevel
  <2>2. Len(pg[E].used) = 0
    BY <1>1, <1>4 DEF BattleInv, ObjectsCounted
  <2>3. Cardinality(Wrecks) = 0
    BY <1>1, <2>2, WreckFacts
  <2>4. n \in Nat
    BY SizeFacts
  <2>5. Alive = 0 /\ Alive' = n
    BY <1>1, <1>2, <2>1, <2>2, <2>3, <2>4 DEF Alive, ToCome
  <2>6. ~Arrived'
    BY <2>1 DEF Arrived
  <2> QED
    BY <2>1, <2>5, <2>6, WaveSteps
<1> QED
  BY <1>3, <1>4 DEF StageUpdate

\* An enemy of the wave gets its particle, and is the wave's as before.
LEMMA CreateWave == FightInv /\ (createEnemy \/ Created) => WaveStep
<1> SUFFICES ASSUME FightInv, createEnemy \/ Created PROVE WaveStep
  OBVIOUS
<1> DEFINE E == "Enemies"
           g == pg[E]
           x == born(g)
<1>0. BattleInv /\ Lists /\ E \in Group
  BY GroupNames DEF FightInv, BattleInv
<1>1. CASE createEnemy
  <2>1. /\ at.stage = "create" /\ at'.stage = "create" /\ at'.i = at.i - 1 /\ at'.j = at.j
        /\ at.i \in Nat /\ at.i > 0 /\ bonuses' = bonuses
    BY <1>0, <1>1 DEF createEnemy, BattleInv, Round
  <2>2. pg'[E] = newParticle(g, 1)
    BY <1>0, <1>1, Only DEF createEnemy
  <2>3. Len(g.used) < Size[E] /\ Len(g.used) \in Nat /\ Size[E] \in Nat /\ Sound(g, Size[E])
    <3>1. Len(g.used) + at.i <= Size[E]
      BY <1>0, <2>1 DEF BattleInv, RoomForWave
    <3>2. Len(g.used) \in Nat /\ Size[E] \in Nat /\ Sound(g, Size[E])
      BY <1>0, WreckFacts, UsedFacts
    <3> QED
      BY <2>1, <3>1, <3>2
  <2>4. Len(pg'[E].used) = Len(g.used) + 1
    BY <2>2, <2>3, BirthSound
  <2>5. Wrecks' = Wrecks
    BY <1>0, <2>2, BirthUsed DEF Wrecks
  <2>6. Alive' = Alive
    <3> DEFINE l == Len(g.used)
               c == Cardinality(Wrecks)
    <3>1. l \in Nat /\ c \in Nat
      BY <1>0, WreckFacts
    <3>2. Alive = l - c + at.i /\ Alive' = (l + 1) - c + (at.i - 1)
      BY <2>1, <2>4, <2>5 DEF Alive, ToCome
    <3> HIDE DEF l, c
    <3> QED
      BY <2>1, <3>1, <3>2
  <2>7. Arrived' <=> Arrived
    BY <2>1 DEF Arrived
  <2> QED
    BY <2>1, <2>6, <2>7, WaveSteps
<1>2. CASE Created
  <2>1. pg' = pg /\ bonuses' = bonuses /\ at.stage = "create" /\ at.i = 0
    BY <1>2 DEF Created, enemyVars
  <2>2. at'.stage # "create" /\ (at'.stage = "launched" <=> at.j = 1)
    BY <1>2, StageFacts DEF Created, Start
  <2>3. Wrecks' = Wrecks /\ ToCome = 0 /\ ToCome' = 0
    BY <2>1, <2>2 DEF Wrecks, Used, ToCome
  <2>4. Alive' = Alive
    BY <2>1, <2>3 DEF Alive
  <2>5. Arrived' <=> Arrived
    BY <2>1, <2>2 DEF Arrived
  <2> QED
    BY <2>1, <2>4, <2>5, WaveSteps
<1> QED
  BY <1>1, <1>2

\* A hit is a shot of the wave when it kills, and nothing to it otherwise; an
\* enemy that is taken off the list was shot before.
LEMMA FightWave ==
    FightInv /\ Next /\ ~Launch /\ ~StageUpdate /\ ~createEnemy /\ ~Created => WaveStep
<1> SUFFICES ASSUME FightInv, Next, ~Launch, ~StageUpdate, ~createEnemy, ~Created
             PROVE  WaveStep
  OBVIOUS
<1> DEFINE E == "Enemies"
           U == Used(E)
           D == pg[E].dead
           l == Len(pg[E].used)
           c == Cardinality(Wrecks)
<1>0. BattleInv /\ EnergyInv /\ Lists /\ E \in Group
  BY GroupNames DEF FightInv, BattleInv
<1>1. at.stage \in Stages /\ at'.stage \in Stages
  BY StageToStage DEF FightInv
<1>2. ToCome = 0 /\ ToCome' = 0 /\ ~Arrived'
  BY <1>1, StageFacts DEF ToCome, Arrived
<1>3. l \in Nat /\ c \in Nat /\ IsFiniteSet(Wrecks)
  BY <1>0, WreckFacts
<1>4. CASE EnemyDies
  <2>1. /\ Self(E) \in Wrecks /\ Wrecks' = Wrecks \ {Self(E)}
    BY <1>0, <1>4, TurnFacts DEF EnemyDies, Doomed, Wrecks
  <2>2. Len(pg'[E].used) = l - 1
    BY <1>0, <1>4, DiesKeeps DEF EnemyDies
  <2>3. Cardinality(Wrecks') = c - 1
    BY <1>3, <2>1, FS_RemoveElement
  <2>4. Alive' = Alive
    <3>1. Alive = l - c + 0 /\ Alive' = (l - 1) - (c - 1) + 0
      BY <1>2, <2>2, <2>3 DEF Alive
    <3> HIDE DEF l, c
    <3> QED
      BY <1>3, <3>1
  <2>5. bonuses' = bonuses
    BY <1>4 DEF EnemyDies
  <2> QED
    BY <1>2, <2>4, <2>5, WaveSteps
<1>5. CASE ShotHitsEnemy \/ Ram
  <2>1. PICK j \in DOMAIN pg[E].used, d \in Nat :
          /\ enemyHit(pg[E].used[j], d) /\ pg'[E] = enemyGroup(pg[E].used[j], d)
          /\ boss' = boss
    BY <1>0, <1>5, EnemyHits
  <2> DEFINE x == pg[E].used[j]
  <2>2. /\ pg'[E].used = pg[E].used /\ x \in U /\ U' = U
        /\ \/ x \notin D /\ pg'[E].dead = D \cup {x} /\ bonuses' = bonuses + 1
           \/ pg'[E].dead = D /\ bonuses' = bonuses
    BY <1>0, <2>1, HitEnergy
  <2> HIDE DEF x
  <2>3. CASE pg'[E].dead = D /\ bonuses' = bonuses
    <3>1. Wrecks' = Wrecks
      BY <2>2, <2>3 DEF Wrecks
    <3>2. Alive' = Alive
      BY <1>2, <2>2, <3>1 DEF Alive
    <3> QED
      BY <1>2, <2>3, <3>2, WaveSteps
  <2>4. CASE x \notin D /\ pg'[E].dead = D \cup {x} /\ bonuses' = bonuses + 1
    <3>1. x \in U \ Wrecks /\ Wrecks' = Wrecks \cup {x}
      BY <2>2, <2>4 DEF Wrecks
    <3>2. Cardinality(Wrecks') = c + 1
      BY <1>3, <3>1, FS_AddElement
    <3>3. c + 1 <= l
      BY <1>0, <3>1, WreckFacts
    <3>4. Alive > 0 /\ Alive' = Alive - 1
      <4>1. Alive = l - c + 0 /\ Alive' = l - (c + 1) + 0
        BY <1>2, <2>2, <3>2 DEF Alive
      <4> HIDE DEF l, c
      <4> QED
        BY <1>3, <3>3, <4>1
    <3> QED
      BY <1>2, <2>4, <3>4, WaveSteps
  <2> QED
    BY <2>2, <2>3, <2>4
<1>6. CASE ~EnemyDies /\ ~ShotHitsEnemy /\ ~Ram
  <2>1. pg'[E] = pg[E]
    BY <1>0, <1>6, Frame
  <2>2. bonuses' = bonuses
    BY <1>6 DEF Next, enemyVars, HeroFires, HeroUpdate, GroupDone, HeroBulletUpdate,
       ShotHitsBullet, SwarmHits, FireHits, BulletHitsHero, LinkDone,
       SimpleEnemyUpdate, BossUpdate, LeaderUpdate, ElementUpdate, BallOfFireUpdate
  <2>3. Wrecks' = Wrecks
    BY <2>1 DEF Wrecks, Used
  <2>4. Alive' = Alive
    BY <1>2, <2>1, <2>3 DEF Alive
  <2> QED
    BY <1>2, <2>2, <2>4, WaveSteps
<1> QED
  BY <1>4, <1>5, <1>6

\* The fight keeps its promise to the game, whatever the sizes of groups and
\* waves: every enemy falls once and leaves one bonus, and the next wave
\* waits for the last.
THEOREM WaveImplemented == Spec => FollowsWave
<1>1. Init => W!Init
  <2> SUFFICES ASSUME Init PROVE W!Init
    OBVIOUS
  <2>1. pg["Enemies"] = reset(Size["Enemies"]) /\ at.stage = "menu" /\ bonuses = 0
    BY GroupNames DEF Init, Start
  <2>2. pg["Enemies"].used = << >> /\ Used("Enemies") = {}
    BY <2>1 DEF reset, Used
  <2>3. Wrecks = {} /\ Cardinality({}) = 0
    BY <2>2, FS_EmptySet DEF Wrecks
  <2>4. Alive = 0 /\ ~Arrived
    BY <2>1, <2>2, <2>3 DEF Alive, ToCome, Arrived
  <2> QED
    BY <2>1, <2>4, Zenon DEF W!Init, Alive, ToCome, Wrecks, Arrived
<1>2. FightInv /\ [Next]_vars => [W!Next]_(W!vars)
  <2> SUFFICES ASSUME FightInv, [Next]_vars PROVE WaveStep
    BY DEF WaveStep
  <2>1. CASE UNCHANGED vars
    <3>1. UNCHANGED <<pg, at, bonuses>>
      BY <2>1 DEF vars, enemyVars
    <3>2. Wrecks' = Wrecks /\ ToCome' = ToCome /\ (Arrived' <=> Arrived)
      BY <3>1 DEF Wrecks, Used, ToCome, Arrived
    <3>3. Alive' = Alive
      BY <3>1, <3>2 DEF Alive
    <3> QED
      BY <3>1, <3>2, <3>3, WaveSteps
  <2> QED
    BY <2>1, LaunchWave, StageWave, CreateWave, FightWave
<1> QED
  BY <1>1, <1>2, FightInvariance, PTL DEF Spec, FollowsWave, W!Spec
=============================================================================
