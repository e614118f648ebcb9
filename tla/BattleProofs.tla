---------------------------- MODULE BattleProofs ----------------------------
(***************************************************************************)
(* For groups and waves of any size: the particle groups lose no particle  *)
(* and hand none out twice, and the number of objects on which the next    *)
(* wave waits is the number of enemies there are.                          *)
(***************************************************************************)
EXTENDS Battle, SequenceTheorems, TLAPS

\* What every operation of a group keeps, for a group of n particles: the two
\* lists together name every particle and have n places, and a particle that
\* was killed has no damage left to do.
Sound(r, n) ==
    /\ r \in Groups(n)
    /\ \A p \in 1..n : \/ \E k \in 1..Len(r.used) : r.used[k] = p
                       \/ \E k \in 1..Len(r.free) : r.free[k] = p
    /\ Len(r.used) + Len(r.free) = n
    /\ \A p \in r.dead : r.damage[p] = 0

----------------------------------------------------------------------------
\* What a list is with one element more at its head.
LEMMA ConsFacts ==
    ASSUME NEW S, NEW s \in Seq(S), NEW x \in S
    PROVE  /\ <<x>> \o s \in Seq(S) /\ Len(<<x>> \o s) = Len(s) + 1
           /\ (<<x>> \o s)[1] = x
           /\ \A k \in 1..Len(s) : (<<x>> \o s)[k + 1] = s[k]
<1>1. <<x>> \in Seq(S) /\ Len(<<x>>) = 1 /\ <<x>>[1] = x /\ Len(s) \in Nat
  OBVIOUS
<1>2. /\ <<x>> \o s \in Seq(S) /\ Len(<<x>> \o s) = 1 + Len(s)
      /\ \A k \in 1..(1 + Len(s)) :
            (<<x>> \o s)[k] = IF k <= 1 THEN <<x>>[k] ELSE s[k - 1]
  BY <1>1, ConcatProperties
<1> QED
  BY <1>1, <1>2

\* A list without its i-th element.
LEMMA WithoutFacts ==
    ASSUME NEW S, NEW s \in Seq(S), NEW i \in 1..Len(s)
    PROVE  /\ Without(s, i) \in Seq(S) /\ Len(Without(s, i)) = Len(s) - 1
           /\ \A k \in 1..(Len(s) - 1) :
                 Without(s, i)[k] = IF k < i THEN s[k] ELSE s[k + 1]
<1>1. Len(s) \in Nat /\ i \in Nat /\ Len(s) - 1 \in Nat
  OBVIOUS
<1>2. \A k \in 1..(Len(s) - 1) : (IF k < i THEN s[k] ELSE s[k + 1]) \in S
  <2>1. TAKE k \in 1..(Len(s) - 1)
  <2>2. k \in 1..Len(s) /\ k + 1 \in 1..Len(s)
    BY <1>1
  <2>3. s[k] \in S /\ s[k + 1] \in S
    BY <2>2, ElementOfSeq
  <2> QED
    BY <2>3
<1>3. Without(s, i) \in [1..(Len(s) - 1) -> S]
  BY <1>2, Zenon DEF Without
<1>4. Without(s, i) \in Seq(S) /\ Len(Without(s, i)) = Len(s) - 1
  BY <1>1, <1>3
<1> QED
  BY <1>1, <1>4 DEF Without

\* A group that was reset is sound, and empty.
LEMMA ResetSound ==
    ASSUME NEW n \in Nat PROVE Sound(reset(n), n) /\ Len(reset(n).used) = 0
<1>1. fresh(n) \in Seq(1..n) /\ Len(fresh(n)) = n
  BY DEF fresh
<1>2. \A p \in 1..n : fresh(n)[p] = p
  BY DEF fresh
<1>3. << >> \in Seq(1..n) /\ Len(<< >>) = 0
  OBVIOUS
<1>4. reset(n) \in Groups(n)
  BY <1>1, <1>3 DEF reset, Groups
<1>5. reset(n).used = << >> /\ reset(n).free = fresh(n) /\ reset(n).dead = {}
  BY DEF reset
<1> QED
  BY <1>1, <1>2, <1>3, <1>4, <1>5 DEF Sound

\* newParticle takes one particle, or none if there is none.
LEMMA BirthSound ==
    ASSUME NEW n \in Nat, NEW r, Sound(r, n), NEW d \in Nat
    PROVE  /\ Sound(newParticle(r, d), n)
           /\ Len(r.used) < n => Len(newParticle(r, d).used) = Len(r.used) + 1
<1>1. CASE r.free = << >>
  <2>1. newParticle(r, d) = r
    BY <1>1 DEF newParticle
  <2>2. Len(r.used) + 0 = n /\ Len(r.used) \in Nat
    BY <1>1 DEF Sound, Groups
  <2> QED
    BY <2>1, <2>2
<1>2. CASE r.free # << >>
  <2> DEFINE h == Head(r.free)
             u == <<h>> \o r.used
             f == Tail(r.free)
             q == newParticle(r, d)
  <2>0. Len(r.used) \in Nat /\ Len(r.free) \in Nat
    BY DEF Sound, Groups
  <2>1. r.used \in Seq(1..n) /\ r.free \in Seq(1..n)
    BY DEF Sound, Groups
  <2>2. h \in 1..n /\ h = r.free[1] /\ Len(r.free) >= 1
    BY <1>2, <2>1
  <2>3. /\ f \in Seq(1..n) /\ Len(f) = Len(r.free) - 1
        /\ \A k \in 1..Len(f) : f[k] = r.free[k + 1]
    BY <1>2, <2>1, HeadTailProperties
  <2>4. /\ u \in Seq(1..n) /\ Len(u) = Len(r.used) + 1 /\ u[1] = h
        /\ \A k \in 1..Len(r.used) : u[k + 1] = r.used[k]
    BY <2>1, <2>2, ConsFacts
  <2>5. q.used = u /\ q.free = f /\ q \in Groups(n)
    <3>1. r.dead \in SUBSET (1..n) /\ r.damage \in [1..n -> Nat]
      BY DEF Sound, Groups
    <3> QED
      BY <1>2, <2>3, <2>4, <3>1 DEF newParticle, Groups
  <2>6. ASSUME NEW p \in 1..n
        PROVE  \/ \E k \in 1..Len(u) : u[k] = p
               \/ \E k \in 1..Len(f) : f[k] = p
    <3> HIDE DEF u, f, h
    <3>1. CASE \E k \in 1..Len(r.used) : r.used[k] = p
      <4>1. PICK k \in 1..Len(r.used) : r.used[k] = p
        BY <3>1
      <4>2. Len(u) = Len(r.used) + 1 /\ Len(r.used) \in Nat /\ u[k + 1] = r.used[k]
        BY <2>0, <2>4, <4>1, Zenon
      <4>3. k + 1 \in 1..Len(u) /\ u[k + 1] = p
        BY <4>1, <4>2
      <4> QED
        BY <4>3
    <3>2. CASE \E k \in 1..Len(r.free) : r.free[k] = p
      <4>1. PICK k \in 1..Len(r.free) : r.free[k] = p
        BY <3>2
      <4>2. CASE k = 1
        <5>1. 1 \in 1..Len(u) /\ u[1] = p
          BY <2>1, <2>2, <2>4, <4>1, <4>2
        <5> QED
          BY <5>1
      <4>3. CASE k # 1
        <5>0. Len(f) = Len(r.free) - 1 /\ Len(r.free) \in Nat
          BY <2>0, <2>3, Zenon
        <5>1. k - 1 \in 1..Len(f) /\ (k - 1) + 1 = k
          BY <5>0, <4>1, <4>3
        <5>2. f[k - 1] = p
          BY <2>3, <4>1, <5>1, Zenon
        <5> QED
          BY <5>1, <5>2
      <4> QED
        BY <4>2, <4>3
    <3> QED
      BY <3>1, <3>2 DEF Sound
  <2>6a. \A p \in q.dead : q.damage[p] = 0
    <3>1. r.damage \in [1..n -> Nat] /\ \A p \in r.dead : r.damage[p] = 0
      BY DEF Sound, Groups
    <3>2. q.dead = r.dead \ {h} /\ q.damage = [r.damage EXCEPT ![h] = d]
      BY <1>2 DEF newParticle
    <3>3. r.dead \subseteq 1..n
      BY DEF Sound, Groups
    <3> HIDE DEF q, h
    <3> QED
      BY <3>1, <3>2, <3>3
  <2> HIDE DEF u, f, h, q
  <2>7. Sound(q, n)
    <3> DEFINE a == Len(r.used)
               b == Len(r.free)
    <3>1. Len(u) = a + 1 /\ Len(f) = b - 1 /\ a + b = n /\ a \in Nat /\ b \in Nat
      BY <2>0, <2>3, <2>4, Zenon DEF Sound
    <3> HIDE DEF a, b
    <3>2. Len(u) + Len(f) = n
      BY <3>1
    <3> QED
      BY <2>5, <2>6, <2>6a, <3>2 DEF Sound
  <2>8. Len(q.used) = Len(r.used) + 1
    BY <2>4, <2>5
  <2> QED
    BY <2>7, <2>8 DEF q
<1> QED
  BY <1>1, <1>2

\* unlink moves one particle from the one list to the other.
LEMMA UnlinkSound ==
    ASSUME NEW n \in Nat, NEW r, Sound(r, n), NEW i \in 1..Len(r.used)
    PROVE  Sound(unlink(r, i), n) /\ Len(unlink(r, i).used) = Len(r.used) - 1
<1> DEFINE u == Without(r.used, i)
           f == <<r.used[i]>> \o r.free
           q == unlink(r, i)
<1>0. Len(r.used) \in Nat /\ Len(r.free) \in Nat
  BY DEF Sound, Groups
<1>1. r.used \in Seq(1..n) /\ r.free \in Seq(1..n) /\ r.used[i] \in 1..n
  BY DEF Sound, Groups
<1>2. Len(r.used) \in Nat /\ i \in Nat
  BY <1>1
<1>3. /\ u \in Seq(1..n) /\ Len(u) = Len(r.used) - 1
      /\ \A k \in 1..(Len(r.used) - 1) :
            u[k] = IF k < i THEN r.used[k] ELSE r.used[k + 1]
  BY <1>1, WithoutFacts
<1>4. /\ f \in Seq(1..n) /\ Len(f) = Len(r.free) + 1 /\ f[1] = r.used[i]
      /\ \A k \in 1..Len(r.free) : f[k + 1] = r.free[k]
  BY <1>1, ConsFacts
<1>5. q.used = u /\ q.free = f /\ q \in Groups(n)
  <2>1. r.dead \in SUBSET (1..n) /\ r.damage \in [1..n -> Nat]
    BY DEF Sound, Groups
  <2>2. [r.damage EXCEPT ![r.used[i]] = 0] \in [1..n -> Nat]
    BY <2>1
  <2> QED
    BY <1>3, <1>4, <2>1, <2>2 DEF unlink, Groups
<1>6. ASSUME NEW p \in 1..n
      PROVE  \/ \E k \in 1..Len(u) : u[k] = p
             \/ \E k \in 1..Len(f) : f[k] = p
  <2> HIDE DEF u, f
  <2>1. CASE \E k \in 1..Len(r.used) : r.used[k] = p
    <3>1. PICK k \in 1..Len(r.used) : r.used[k] = p
      BY <2>1
    <3>2. CASE k = i
      <4>1. 1 \in 1..Len(f) /\ f[1] = p
        BY <1>1, <1>4, <3>1, <3>2
      <4> QED
        BY <4>1
    <3>3. CASE k < i
      <4>1. k \in 1..Len(u) /\ u[k] = p
        BY <1>2, <1>3, <3>1, <3>3
      <4> QED
        BY <4>1
    <3>4. CASE k > i
      <4>1. k - 1 \in 1..Len(u) /\ ~(k - 1 < i) /\ (k - 1) + 1 = k
        BY <1>2, <1>3, <3>1, <3>4
      <4>2. u[k - 1] = p
        BY <1>3, <3>1, <4>1
      <4> QED
        BY <4>1, <4>2
    <3> QED
      BY <1>2, <3>1, <3>2, <3>3, <3>4
  <2>2. CASE \E k \in 1..Len(r.free) : r.free[k] = p
    <3>1. PICK k \in 1..Len(r.free) : r.free[k] = p
      BY <2>2
    <3>2. Len(f) = Len(r.free) + 1 /\ Len(r.free) \in Nat /\ f[k + 1] = r.free[k]
      BY <1>0, <1>4, <3>1, Zenon
    <3>3. k + 1 \in 1..Len(f) /\ f[k + 1] = p
      BY <3>1, <3>2
    <3> QED
      BY <3>3
  <2> QED
    BY <2>1, <2>2 DEF Sound
<1>6a. \A p \in q.dead : q.damage[p] = 0
  <2>1. r.damage \in [1..n -> Nat] /\ \A p \in r.dead : p \in 1..n /\ r.damage[p] = 0
    BY DEF Sound, Groups
  <2>2. q.dead \subseteq r.dead /\ q.damage = [r.damage EXCEPT ![r.used[i]] = 0]
    BY DEF unlink
  <2> HIDE DEF q
  <2> QED
    BY <2>1, <2>2
<1> HIDE DEF u, f, q
<1>7. Sound(q, n)
  <2> DEFINE a == Len(r.used)
             b == Len(r.free)
  <2>1. Len(u) = a - 1 /\ Len(f) = b + 1 /\ a + b = n /\ a \in Nat /\ b \in Nat
    BY <1>0, <1>3, <1>4, Zenon DEF Sound
  <2> HIDE DEF a, b
  <2>2. Len(u) + Len(f) = n
    BY <2>1
  <2> QED
    BY <1>5, <1>6, <1>6a, <2>2 DEF Sound
<1> QED
  BY <1>3, <1>5, <1>7 DEF q

\* A hit leaves the lists alone.
LEMMA SpendSound ==
    ASSUME NEW n \in Nat, NEW r, Sound(r, n), NEW p \in 1..n
    PROVE  Sound(spend(r, p), n) /\ spend(r, p).used = r.used
<1>1. r.dead \cup {p} \in SUBSET (1..n) /\ [r.damage EXCEPT ![p] = 0] \in [1..n -> Nat]
  BY DEF Sound, Groups
<1>2. /\ spend(r, p) \in Groups(n)
      /\ spend(r, p).used = r.used /\ spend(r, p).free = r.free
  BY <1>1 DEF spend, Sound, Groups
<1>3. \A q \in spend(r, p).dead : spend(r, p).damage[q] = 0
  <2>1. /\ r.damage \in [1..n -> Nat] /\ r.dead \subseteq 1..n
        /\ \A q \in r.dead : r.damage[q] = 0
    BY DEF Sound, Groups
  <2>2. /\ spend(r, p).dead = r.dead \cup {p}
        /\ spend(r, p).damage = [r.damage EXCEPT ![p] = 0]
    BY DEF spend, Sound, Groups
  <2> QED
    BY <2>1, <2>2
<1> QED
  BY <1>2, <1>3 DEF Sound

----------------------------------------------------------------------------
Stages == {Stage[k] : k \in DOMAIN Stage}

Lists == DOMAIN pg = Group /\ \A g \in Group : Sound(pg[g], Size[g])

\* Where the round is; a walk begins at the first particle.
Round ==
    /\ at = [stage |-> at.stage, i |-> at.i, j |-> at.j]
    /\ at.i \in Nat
    /\ at.stage \in Group => at.i >= 1

\* The enemies still to be created will find particles.
RoomForWave ==
    at.stage = "create" => Len(pg["Enemies"].used) + at.i <= Size["Enemies"]

BattleInv == Lists /\ Round /\ ObjectsCounted /\ RoomForWave

\* The sizes of the groups, group by group.
LEMMA SizeFacts ==
    /\ \A g \in Group : Size[g] \in Nat
    /\ \A n \in WaveSizes \cup {1} : n \in Nat /\ n <= Size["Enemies"]
<1>1. \A g \in Group : Size[g] \in Nat \ {0}
  BY BattleAssumption DEF BattleAssumption
<1>2. "Enemies" \in Group
  BY DEF Group
<1> QED
  BY <1>1, <1>2, BattleAssumption DEF BattleAssumption

\* The names of stages and groups do not overlap with those of the waves.
LEMMA StageFacts ==
    /\ \A s \in Stages : After(s).stage \in Stages /\ After(s) = Start(After(s).stage)
    /\ Group \subseteq Stages /\ Links \subseteq Stages
    /\ "stages" \in Stages /\ "hero" \in Stages
    /\ "create" \notin Stages /\ "launched" \notin Stages \cup {"create"}
<1>1. ASSUME NEW s \in Stages
      PROVE  After(s).stage \in Stages /\ After(s) = Start(After(s).stage)
  <2> DEFINE k == CHOOSE n \in DOMAIN Stage : Stage[n] = s
  <2>1. k \in DOMAIN Stage
    BY DEF Stages
  <2>2. DOMAIN Stage = 1..11 /\ Len(Stage) = 11
    BY DEF Stage
  <2>3. (k % 11) + 1 \in 1..11
    <3> HIDE DEF k
    <3> QED BY <2>1, <2>2
  <2>4. After(s) = Start(Stage[(k % 11) + 1])
    BY <2>2 DEF After
  <2> HIDE DEF k
  <2> QED
    BY <2>2, <2>3, <2>4 DEF Start, Stages
<1>2. Stages = {"stages", "hero", "Enemies", "EnemyBullets", "HeroBullets",
                "ShootableEnemyBullets", "shots at bullets", "shots at enemies",
                "ram", "swarm hits", "fire hits"}
  <2>1. DOMAIN Stage = {1, 2, 3, 4, 5, 6, 7, 8, 9, 10, 11}
    <3>1. DOMAIN Stage = 1..11
      BY DEF Stage
    <3>2. 1..11 = {1, 2, 3, 4, 5, 6, 7, 8, 9, 10, 11}
      OBVIOUS
    <3> QED
      BY <3>1, <3>2
  <2>2. /\ Stage[1] = "stages" /\ Stage[2] = "hero" /\ Stage[3] = "Enemies"
        /\ Stage[4] = "EnemyBullets" /\ Stage[5] = "HeroBullets"
        /\ Stage[6] = "ShootableEnemyBullets" /\ Stage[7] = "shots at bullets"
        /\ Stage[8] = "shots at enemies" /\ Stage[9] = "ram"
        /\ Stage[10] = "swarm hits" /\ Stage[11] = "fire hits"
    BY DEF Stage
  <2>3. Stages = {Stage[k] : k \in {1, 2, 3, 4, 5, 6, 7, 8, 9, 10, 11}}
    BY <2>1, Zenon DEF Stages
  <2>4. ASSUME NEW f
        PROVE  {f[k] : k \in {1, 2, 3, 4, 5, 6, 7, 8, 9, 10, 11}} =
               {f[1], f[2], f[3], f[4], f[5], f[6], f[7], f[8], f[9], f[10], f[11]}
    OBVIOUS
  <2>5. Stages = {Stage[1], Stage[2], Stage[3], Stage[4], Stage[5], Stage[6],
                  Stage[7], Stage[8], Stage[9], Stage[10], Stage[11]}
    BY <2>3, <2>4, Zenon
  <2> QED
    BY <2>2, <2>5, Zenon
<1> QED
  BY <1>1, <1>2 DEF Group, Links

\* An action that gives one group, or two, new lists.
LEMMA OneGroup ==
    ASSUME Lists, NEW x \in Group, NEW v, Sound(v, Size[x]), pg' = [pg EXCEPT ![x] = v]
    PROVE  Lists' /\ pg'[x] = v /\ \A g \in Group \ {x} : pg'[g] = pg[g]
<1>1. DOMAIN pg' = Group /\ \A g \in Group : pg'[g] = IF g = x THEN v ELSE pg[g]
  BY DEF Lists
<1> QED
  BY <1>1 DEF Lists

\* The fight begins with every particle free.
LEMMA InitBattle == Init => BattleInv
<1> SUFFICES ASSUME Init PROVE BattleInv
  OBVIOUS
<1>1. DOMAIN pg = Group /\ \A g \in Group : pg[g] = reset(Size[g])
  BY DEF Init
<1>2. Lists /\ \A g \in Group : Len(pg[g].used) = 0
  BY <1>1, SizeFacts, ResetSound DEF Lists
<1>3. Round /\ at.stage = "menu"
  BY DEF Init, Round, Start, Group
<1>4. ObjectsCounted
  BY <1>2 DEF Init, ObjectsCounted, Group
<1> QED
  BY <1>2, <1>3, <1>4 DEF BattleInv, RoomForWave

\* A step that leaves the groups, the count and the wave alone.
LEMMA Elsewhere ==
    ASSUME BattleInv, UNCHANGED <<pg, numObjects>>, Round', at'.stage # "create"
    PROVE  BattleInv'
  BY DEF BattleInv, Lists, ObjectsCounted, RoomForWave

\* The next stage of a round is a round.
LEMMA NextStage ==
    ASSUME NEW s \in Stages, at' = After(s) PROVE Round' /\ at'.stage # "create"
<1>1. at' = Start(at'.stage) /\ at'.stage \in Stages
  BY StageFacts
<1> QED
  BY <1>1, StageFacts DEF Start, Round

----------------------------------------------------------------------------
(* One lemma for each kind of step.                                        *)

\* The group whose turn it is takes the particle at its place off its list.
LEMMA DiesKeeps ==
    ASSUME BattleInv, NEW g \in Group, Turn(g), Dies(g)
    PROVE  /\ Lists' /\ Round' /\ at'.stage # "create"
           /\ Len(pg'[g].used) = Len(pg[g].used) - 1
           /\ \A h \in Group \ {g} : pg'[h] = pg[h]
<1>1. at.stage = g /\ at.i \in 1..Len(pg[g].used)
  <2>1. Len(pg[g].used) \in Nat
    BY DEF BattleInv, Lists, Sound, Groups
  <2> QED
    BY <2>1 DEF BattleInv, Round, Turn
<1>2. /\ Sound(unlink(pg[g], at.i), Size[g])
      /\ Len(unlink(pg[g], at.i).used) = Len(pg[g].used) - 1
  BY <1>1, SizeFacts, UnlinkSound DEF BattleInv, Lists
<1>3. pg' = [pg EXCEPT ![g] = unlink(pg[g], at.i)] /\ at' = at
  BY <1>1 DEF Dies
<1>4. Lists' /\ pg'[g] = unlink(pg[g], at.i) /\ \A h \in Group \ {g} : pg'[h] = pg[h]
  BY <1>2, <1>3, OneGroup DEF BattleInv
<1>5. Round' /\ at'.stage # "create"
  BY <1>1, <1>3, StageFacts DEF BattleInv, Round
<1> QED
  BY <1>2, <1>4, <1>5

\* A particle that lives on leaves the round at the next one.
LEMMA LivesKeeps ==
    ASSUME BattleInv, NEW g \in Group, Turn(g), Lives
    PROVE  Round' /\ at'.stage # "create"
<1>1. at' = [stage |-> at.stage, i |-> at.i + 1, j |-> at.j] /\ at.stage = g
  BY DEF BattleInv, Round, Turn, Lives
<1> QED
  BY <1>1, StageFacts DEF BattleInv, Round

\* A birth in a group whose length nobody counts.
LEMMA BirthKeeps ==
    ASSUME BattleInv, NEW g \in Group \ {"Enemies"}, NEW d \in Nat,
           pg' = [pg EXCEPT ![g] = newParticle(@, d)]
    PROVE  Lists' /\ pg'["Enemies"] = pg["Enemies"]
<1>1. Sound(newParticle(pg[g], d), Size[g])
  BY SizeFacts, BirthSound DEF BattleInv, Lists
<1>2. "Enemies" \in Group \ {g}
  BY DEF Group
<1> QED
  BY <1>1, <1>2, OneGroup DEF BattleInv

\* The count and the wave do not mind a step among the other groups.
LEMMA SameEnemies ==
    ASSUME BattleInv, Lists', Round', at'.stage # "create",
           pg'["Enemies"].used = pg["Enemies"].used, numObjects' = numObjects
    PROVE  BattleInv'
  BY DEF BattleInv, ObjectsCounted, RoomForWave

\* Launch: every group is empty, every count of the wave begins at 0.
LEMMA LaunchKeeps == BattleInv /\ Launch => BattleInv'
<1> SUFFICES ASSUME BattleInv, Launch PROVE BattleInv'
  OBVIOUS
<1>1. pg' = [g \in Group |-> reset(Size[g])]
  BY DEF Launch, pgmReset
<1>2. DOMAIN pg' = Group /\ \A g \in Group : pg'[g] = reset(Size[g])
  BY <1>1
<1>3. Lists' /\ \A g \in Group : Len(pg'[g].used) = 0
  BY <1>2, SizeFacts, ResetSound DEF Lists
<1>4. PICK n \in WaveSizes : at' = [stage |-> "create", i |-> n, j |-> 1] /\ numObjects' = 0
  BY DEF Launch, activateLevel
<1>5. n \in Nat /\ n <= Size["Enemies"] /\ "Enemies" \in Group
  BY SizeFacts DEF Group
<1>6. Round' /\ at'.stage = "create" /\ at'.i = n
  BY <1>4, <1>5, StageFacts DEF Round
<1> QED
  BY <1>3, <1>4, <1>5, <1>6 DEF BattleInv, ObjectsCounted, RoomForWave

\* StageManager::update: a new wave comes to an empty group.
LEMMA StageUpdateKeeps == BattleInv /\ StageUpdate => BattleInv'
<1> SUFFICES ASSUME BattleInv, StageUpdate PROVE BattleInv'
  OBVIOUS
<1>1. CASE /\ numObjects = 0 /\ ~boss
           /\ activateLevel(1, TRUE, 0) \/ \E n \in WaveSizes : activateLevel(n, FALSE, 0)
  <2>1. PICK n \in WaveSizes \cup {1} :
          at' = [stage |-> "create", i |-> n, j |-> 0] /\ numObjects' = 0
    BY <1>1 DEF activateLevel
  <2>2. n \in Nat /\ n <= Size["Enemies"]
    BY SizeFacts
  <2>3. Round' /\ at'.stage = "create" /\ at'.i = n
    BY <2>1, <2>2, StageFacts DEF Round
  <2>4. pg' = pg /\ Len(pg["Enemies"].used) = 0
    BY <1>1 DEF StageUpdate, BattleInv, ObjectsCounted
  <2> QED
    BY <2>1, <2>2, <2>3, <2>4 DEF BattleInv, Lists, ObjectsCounted, RoomForWave
<1>2. CASE at' = After("stages") /\ UNCHANGED <<boss, numObjects, bonuses>>
  <2>1. Round' /\ at'.stage # "create"
    BY <1>2, StageFacts, NextStage
  <2> QED
    BY <1>2, <2>1, Elsewhere DEF StageUpdate
<1> QED
  BY <1>1, <1>2 DEF StageUpdate

\* createEnemy: the enemy that is counted gets its particle.
LEMMA CreateKeeps == BattleInv /\ createEnemy => BattleInv'
<1> SUFFICES ASSUME BattleInv, createEnemy PROVE BattleInv'
  OBVIOUS
<1> DEFINE g == pg["Enemies"]
           n == Size["Enemies"]
<1>1. "Enemies" \in Group /\ n \in Nat /\ Sound(g, n) /\ Len(g.used) \in Nat
  <2>1. "Enemies" \in Group
    BY DEF Group
  <2>2. n \in Nat /\ Sound(g, n)
    BY <2>1, SizeFacts DEF BattleInv, Lists
  <2> HIDE DEF g, n
  <2>3. g.used \in Seq(1..n)
    BY <2>2 DEF Sound, Groups
  <2> QED
    BY <2>1, <2>2, <2>3
<1>2. /\ at.stage = "create" /\ at.i \in Nat /\ at.i > 0 /\ Len(g.used) + at.i <= n
      /\ at' = [stage |-> "create", i |-> at.i - 1, j |-> at.j]
  BY DEF BattleInv, Round, RoomForWave, createEnemy
<1>3. Len(g.used) < n
  BY <1>1, <1>2
<1>4. /\ Sound(newParticle(g, 1), n)
      /\ Len(newParticle(g, 1).used) = Len(g.used) + 1
  BY <1>1, <1>3, BirthSound
<1>5. Lists' /\ pg'["Enemies"] = newParticle(g, 1)
  BY <1>1, <1>4, OneGroup DEF BattleInv, createEnemy
<1>6. Round' /\ at'.stage = "create" /\ at'.i = at.i - 1
  BY <1>2, StageFacts DEF Round
<1>7. ObjectsCounted'
  <2>1. numObjects' = numObjects + 1 /\ numObjects = Len(g.used)
    BY DEF BattleInv, ObjectsCounted, createEnemy
  <2>2. Len(pg'["Enemies"].used) = Len(g.used) + 1
    BY <1>4, <1>5
  <2> QED
    BY <2>1, <2>2 DEF ObjectsCounted
<1>8. RoomForWave'
  <2> DEFINE l == Len(g.used)
  <2>1. l \in Nat /\ l + at.i <= n /\ Len(pg'["Enemies"].used) = l + 1 /\ at.i \in Nat
    BY <1>1, <1>2, <1>4, <1>5
  <2> HIDE DEF l, n
  <2>2. Len(pg'["Enemies"].used) + (at.i - 1) <= n
    BY <1>1, <2>1
  <2> QED
    BY <1>6, <2>2 DEF RoomForWave, n
<1> QED
  BY <1>5, <1>6, <1>7, <1>8 DEF BattleInv

\* An enemy that dies is counted off and gives its particle back.
LEMMA EnemyDiesKeeps == BattleInv /\ EnemyDies => BattleInv'
<1> SUFFICES ASSUME BattleInv, EnemyDies PROVE BattleInv'
  OBVIOUS
<1>1. "Enemies" \in Group /\ Turn("Enemies") /\ Dies("Enemies") /\ numObjects' = numObjects - 1
  BY DEF EnemyDies, Group
<1>2. /\ Lists' /\ Round' /\ at'.stage # "create"
      /\ Len(pg'["Enemies"].used) = Len(pg["Enemies"].used) - 1
  BY <1>1, DiesKeeps
<1> QED
  BY <1>1, <1>2 DEF BattleInv, ObjectsCounted, RoomForWave

\* A critter flies on, and may have fired.
LEMMA SimpleEnemyKeeps == BattleInv /\ SimpleEnemyUpdate => BattleInv'
<1> SUFFICES ASSUME BattleInv, SimpleEnemyUpdate PROVE BattleInv'
  OBVIOUS
<1>1. Round' /\ at'.stage # "create"
  BY LivesKeeps DEF SimpleEnemyUpdate, Group
<1>2. CASE UNCHANGED <<pg, enemyBulletCount>>
  BY <1>1, <1>2, Elsewhere DEF SimpleEnemyUpdate
<1>3. CASE Fires
  <2>1. "ShootableEnemyBullets" \in Group \ {"Enemies"} /\ 1 \in Nat
    BY DEF Group
  <2>2. pg' = [pg EXCEPT !["ShootableEnemyBullets"] = newParticle(@, 1)]
    BY <1>3 DEF Fires
  <2>3. Lists' /\ pg'["Enemies"] = pg["Enemies"]
    BY <2>1, <2>2, BirthKeeps
  <2> QED
    BY <1>1, <2>3, SameEnemies DEF SimpleEnemyUpdate
<1> QED
  BY <1>2, <1>3 DEF SimpleEnemyUpdate

\* The boss may have started a leader, and elements on both sides.
LEMMA BossKeeps == BattleInv /\ BossUpdate => BattleInv'
<1> SUFFICES ASSUME BattleInv, BossUpdate PROVE BattleInv'
  OBVIOUS
<1> DEFINE S == Size["EnemyBullets"]
<1>1. "EnemyBullets" \in Group /\ "Enemies" \in Group \ {"EnemyBullets"} /\ S \in Nat
  BY SizeFacts DEF Group
<1>2. ASSUME NEW g, Sound(g, S), NEW w, NEW leg
      PROVE  Sound(launchLeader(g, w, leg).group, S) /\ Sound(launchElement(g, w, leg).group, S)
  BY <1>1, <1>2, BirthSound DEF launchLeader, launchElement
<1> DEFINE calm == [group |-> pg["EnemyBullets"], swarm |-> swarm]
           led  == {calm} \cup {launchLeader(calm.group, calm.swarm, leg) : leg \in Leg}
           left(x) == launchElement(x.group, x.swarm, "left")
           both(x) == launchElement(left(x).group, left(x).swarm, "right")
<1>3a. PICK x \in led : \E y \in {x, both(x)} :
                           pg' = [pg EXCEPT !["EnemyBullets"] = y.group]
  BY DEF BossUpdate
<1>3. PICK y \in {x, both(x)} : pg' = [pg EXCEPT !["EnemyBullets"] = y.group]
  BY <1>3a
<1>4. Sound(calm.group, S)
  BY <1>1 DEF BattleInv, Lists
<1>5. Sound(x.group, S)
  <2>1. x = calm \/ \E leg \in Leg : x = launchLeader(calm.group, calm.swarm, leg)
    OBVIOUS
  <2> HIDE DEF calm, S
  <2> QED
    BY <2>1, <1>2, <1>4
<1>6. Sound(y.group, S)
  <2> HIDE DEF led, S
  <2>1. Sound(left(x).group, S)
    BY <1>2, <1>5
  <2> HIDE DEF left
  <2>2. Sound(both(x).group, S)
    BY <1>2, <2>1
  <2> QED
    BY <1>5, <2>2
<1>7. Lists' /\ pg'["Enemies"] = pg["Enemies"]
  BY <1>1, <1>3, <1>6, OneGroup DEF BattleInv
<1>8. Round' /\ at'.stage # "create"
  BY LivesKeeps DEF BossUpdate, Group
<1> QED
  BY <1>7, <1>8, SameEnemies DEF BossUpdate

\* The bullets of both sides that leave or were hit.
LEMMA BulletsKeep ==
    BattleInv /\ (LeaderUpdate \/ ElementUpdate \/ HeroBulletUpdate \/ BallOfFireUpdate)
      => BattleInv'
<1> SUFFICES ASSUME BattleInv,
                    LeaderUpdate \/ ElementUpdate \/ HeroBulletUpdate \/ BallOfFireUpdate
             PROVE  BattleInv'
  OBVIOUS
<1>1. PICK g \in Group \ {"Enemies"} :
        /\ Turn(g) /\ numObjects' = numObjects
        /\ (Lives /\ UNCHANGED pg) \/ Dies(g)
  <2>1. "EnemyBullets" \in Group \ {"Enemies"} /\ "HeroBullets" \in Group \ {"Enemies"}
        /\ "ShootableEnemyBullets" \in Group \ {"Enemies"}
    BY DEF Group
  <2>2. CASE LeaderUpdate
    BY <2>1, <2>2 DEF LeaderUpdate
  <2>3. CASE ElementUpdate
    BY <2>1, <2>3 DEF ElementUpdate, counters
  <2>4. CASE HeroBulletUpdate
    BY <2>1, <2>4 DEF HeroBulletUpdate, counters
  <2>5. CASE BallOfFireUpdate
    BY <2>1, <2>5 DEF BallOfFireUpdate
  <2> QED
    BY <2>2, <2>3, <2>4, <2>5
<1>2. CASE Lives /\ UNCHANGED pg
  BY <1>1, <1>2, LivesKeeps, Elsewhere
<1>3. CASE Dies(g)
  <2>1. "Enemies" \in Group \ {g}
    BY DEF Group
  <2> QED
    BY <1>1, <1>3, <2>1, DiesKeeps, SameEnemies
<1> QED
  BY <1>1, <1>2, <1>3

\* A collision moves on within its link.
LEMMA PairKeeps ==
    ASSUME BattleInv, at.stage \in Links, NEW i \in Nat, NEW j \in Nat, Pair(i, j)
    PROVE  Round' /\ at'.stage # "create"
<1>1. at' = [stage |-> at.stage, i |-> i, j |-> j]
  BY DEF BattleInv, Round, Pair
<1>2. at.stage \notin Group /\ at.stage # "create"
  BY DEF Links, Group
<1> QED
  BY <1>1, <1>2 DEF Round

\* A particle of a list is one of the group.
LEMMA InGroup ==
    ASSUME Lists, NEW g \in Group, NEW k \in DOMAIN pg[g].used
    PROVE  k \in Nat /\ pg[g].used[k] \in 1..Size[g]
<1> DEFINE s == pg[g].used
<1>1. Sound(pg[g], Size[g])
  BY DEF Lists
<1>2. s \in Seq(1..Size[g])
  BY <1>1 DEF Sound, Groups
<1> HIDE DEF s
<1>3. DOMAIN s = 1..Len(s) /\ Len(s) \in Nat
  BY <1>2
<1>4. \A m \in 1..Len(s) : s[m] \in 1..Size[g]
  BY <1>2, ElementOfSeq, Zenon
<1>5. k \in 1..Len(s)
  BY <1>3 DEF s
<1> QED
  BY <1>3, <1>4, <1>5 DEF s

\* What a collision does to its groups leaves their lists as they are.
LEMMA HitSound ==
    ASSUME Lists, NEW g \in Group, NEW p \in 1..Size[g]
    PROVE  /\ Sound(spend(pg[g], p), Size[g])
           /\ spend(pg[g], p).used = pg[g].used
           /\ Sound(pg[g], Size[g])
<1>1. Sound(pg[g], Size[g]) /\ Size[g] \in Nat
  BY SizeFacts DEF Lists
<1> QED
  BY <1>1, SpendSound

\* What a shot hits keeps the invariant.
LEMMA ShotsKeep == BattleInv /\ (ShotHitsBullet \/ ShotHitsEnemy) => BattleInv'
<1> SUFFICES ASSUME BattleInv, ShotHitsBullet \/ ShotHitsEnemy PROVE BattleInv'
  OBVIOUS
<1> DEFINE H == "HeroBullets"
<1>1. H \in Group /\ Lists
  BY DEF Group, BattleInv
<1>2. ASSUME NEW i \in DOMAIN pg[H].used
      PROVE  i \in Nat /\ Sound(bulletHit(pg[H].used[i]), Size[H])
  BY <1>1, InGroup, HitSound DEF bulletHit
<1>3. CASE ShotHitsBullet
  <2> DEFINE F == "ShootableEnemyBullets"
  <2>1. F \in Group \ {H} /\ "Enemies" \in Group \ {H, F}
    BY DEF Group
  <2>2. PICK i \in DOMAIN pg[H].used, j \in DOMAIN pg[F].used :
          /\ Pair(i, j)
          /\ pg' = [pg EXCEPT ![H] = bulletHit(pg[H].used[i]),
                              ![F] = spend(@, @.used[j])]
    BY <1>3 DEF ShotHitsBullet
  <2>3. j \in Nat /\ Sound(spend(pg[F], pg[F].used[j]), Size[F])
    BY <1>1, <2>1, InGroup, HitSound
  <2>4. pg' = [pg EXCEPT ![H] = bulletHit(pg[H].used[i]),
                         ![F] = spend(pg[F], pg[F].used[j])]
    BY <1>1, <2>1, <2>2 DEF Lists
  <2>5. Lists' /\ pg'["Enemies"] = pg["Enemies"]
    <3> DEFINE v == bulletHit(pg[H].used[i])
               w == spend(pg[F], pg[F].used[j])
    <3>1. /\ Sound(v, Size[H]) /\ Sound(w, Size[F])
          /\ pg' = [pg EXCEPT ![H] = v, ![F] = w]
      BY <1>2, <2>3, <2>4
    <3> HIDE DEF v, w, H, F
    <3>2. Lists' /\ \A g \in Group \ {H, F} : pg'[g] = pg[g]
      <4>1. /\ DOMAIN pg' = Group
            /\ \A g \in Group : pg'[g] = IF g = F THEN w ELSE IF g = H THEN v ELSE pg[g]
        BY <1>1, <3>1 DEF Lists
      <4> QED
        BY <1>1, <2>1, <3>1, <4>1 DEF Lists
    <3> QED
      BY <2>1, <3>2
  <2>6. Round' /\ at'.stage # "create"
    BY <1>2, <1>3, <2>2, <2>3, PairKeeps DEF ShotHitsBullet, Links
  <2> QED
    BY <1>3, <2>5, <2>6, SameEnemies DEF ShotHitsBullet, counters
<1>4. CASE ShotHitsEnemy
  <2> DEFINE E == "Enemies"
  <2>1. E \in Group \ {H}
    BY DEF Group
  <2> DEFINE Touch(i, j, d) ==
        /\ Pair(i, j)
        /\ pg' = [pg EXCEPT ![H] = bulletHit(pg[H].used[i]),
                            ![E] = enemyGroup(pg[E].used[j], d)]
  <2>2a. \E i \in DOMAIN pg[H].used : \E j \in DOMAIN pg[E].used : \E d : Touch(i, j, d)
    <3>1. PICK i \in DOMAIN pg[H].used, j \in DOMAIN pg[E].used :
            LET b == pg[H].used[i]
                d == IF boss /\ pg[H].damage[b] = 2 THEN 1 ELSE pg[H].damage[b]
            IN Touch(i, j, d)
      BY <1>4, Zenon DEF ShotHitsEnemy
    <3> HIDE DEF Touch
    <3> QED
      BY <3>1
  <2>2. PICK i \in DOMAIN pg[H].used, j \in DOMAIN pg[E].used : \E d : Touch(i, j, d)
    BY <2>2a
  <2>3. PICK d : Touch(i, j, d)
    BY <2>2
  <2>4. /\ j \in Nat /\ Sound(enemyGroup(pg[E].used[j], d), Size[E])
        /\ enemyGroup(pg[E].used[j], d).used = pg[E].used
    BY <1>1, <2>1, InGroup, HitSound DEF enemyGroup
  <2>5. Lists' /\ pg'[E] = enemyGroup(pg[E].used[j], d)
    <3> DEFINE v == bulletHit(pg[H].used[i])
               w == enemyGroup(pg[E].used[j], d)
    <3>1. /\ Sound(v, Size[H]) /\ Sound(w, Size[E])
          /\ pg' = [pg EXCEPT ![H] = v, ![E] = w]
      BY <1>2, <2>3, <2>4
    <3> HIDE DEF v, w, H, E
    <3>2. Lists' /\ pg'[E] = w
      <4>1. /\ DOMAIN pg' = Group
            /\ \A g \in Group : pg'[g] = IF g = E THEN w ELSE IF g = H THEN v ELSE pg[g]
        BY <1>1, <3>1 DEF Lists
      <4> QED
        BY <1>1, <2>1, <3>1, <4>1 DEF Lists
    <3> QED
      BY <3>2 DEF w
  <2>6. Round' /\ at'.stage # "create"
    BY <1>2, <1>4, <2>3, <2>4, PairKeeps DEF ShotHitsEnemy, Links
  <2> QED
    BY <1>4, <2>4, <2>5, <2>6, SameEnemies DEF ShotHitsEnemy, counters
<1> QED
  BY <1>3, <1>4

\* What hits the hero keeps the invariant.
LEMMA HeroHitsKeep == BattleInv /\ (Ram \/ SwarmHits \/ FireHits) => BattleInv'
<1> SUFFICES ASSUME BattleInv, Ram \/ SwarmHits \/ FireHits PROVE BattleInv'
  OBVIOUS
<1>1. Lists /\ {"Enemies", "EnemyBullets", "ShootableEnemyBullets"} \subseteq Group
  BY DEF Group, BattleInv
<1> DEFINE Hit(g, j, v) == /\ at.stage \in Links /\ Pair(1, j) /\ numObjects' = numObjects
                          /\ pg' = [pg EXCEPT ![g] = v]
<1>2a. PICK g \in {"Enemies", "EnemyBullets", "ShootableEnemyBullets"} :
         \E j \in DOMAIN pg[g].used : \E v \in {spend(pg[g], pg[g].used[j]), pg[g]} :
           Hit(g, j, v)
  <2>1. CASE Ram
    BY <2>1, <1>1 DEF Ram, enemyGroup, Links, counters
  <2>2. CASE SwarmHits
    BY <2>2, <1>1 DEF SwarmHits, BulletHitsHero, Links, counters, Lists
  <2>3. CASE FireHits
    BY <2>3, <1>1 DEF FireHits, BulletHitsHero, Links, counters, Lists
  <2> QED
    BY <2>1, <2>2, <2>3
<1>2b. PICK j \in DOMAIN pg[g].used : \E v \in {spend(pg[g], pg[g].used[j]), pg[g]} :
         Hit(g, j, v)
  BY <1>2a
<1>2. PICK v \in {spend(pg[g], pg[g].used[j]), pg[g]} : Hit(g, j, v)
  BY <1>2b
<1>3. j \in Nat /\ Sound(v, Size[g]) /\ v.used = pg[g].used
  BY <1>1, InGroup, HitSound
<1>4. Lists' /\ pg'["Enemies"].used = pg["Enemies"].used
  <2>1. Lists' /\ pg'[g] = v /\ \A h \in Group \ {g} : pg'[h] = pg[h]
    BY <1>1, <1>2, <1>3, OneGroup
  <2> QED
    BY <1>1, <1>3, <2>1
<1>5. Round' /\ at'.stage # "create"
  BY <1>2, <1>3, PairKeeps
<1> QED
  BY <1>2, <1>4, <1>5, SameEnemies

----------------------------------------------------------------------------
\* Every step of the fight keeps the invariant.
LEMMA NextBattle == BattleInv /\ [Next]_vars => BattleInv'
<1> SUFFICES ASSUME BattleInv, [Next]_vars PROVE BattleInv'
  OBVIOUS
<1>1. CASE Launch
  BY <1>1, LaunchKeeps
<1>2. CASE StageUpdate
  BY <1>2, StageUpdateKeeps
<1>3. CASE createEnemy
  BY <1>3, CreateKeeps
<1>4. CASE Created
  <2>1. at' = Start("launched") => Round' /\ at'.stage # "create"
    BY StageFacts DEF Start, Round
  <2>2. at' = After("stages") => Round' /\ at'.stage # "create"
    BY StageFacts, NextStage
  <2> QED
    BY <1>4, <2>1, <2>2, Elsewhere DEF Created, counters
<1>5. CASE HeroFires
  <2>1. PICK d \in {1, 2} : pg' = [pg EXCEPT !["HeroBullets"] = newParticle(@, d)]
    BY <1>5 DEF HeroFires
  <2>2. "HeroBullets" \in Group \ {"Enemies"} /\ d \in Nat
    BY DEF Group
  <2>3. Lists' /\ pg'["Enemies"] = pg["Enemies"]
    BY <2>1, <2>2, BirthKeeps
  <2>4. Round' /\ at'.stage # "create"
    BY <1>5 DEF HeroFires, BattleInv, Round
  <2> QED
    BY <1>5, <2>3, <2>4, SameEnemies DEF HeroFires, counters
<1>6. CASE HeroUpdate
  BY <1>6, StageFacts, NextStage, Elsewhere DEF HeroUpdate, counters
<1>7. CASE GroupDone
  BY <1>7, StageFacts, NextStage, Elsewhere DEF GroupDone, counters
<1>8. CASE EnemyDies
  BY <1>8, EnemyDiesKeeps
<1>9. CASE SimpleEnemyUpdate
  BY <1>9, SimpleEnemyKeeps
<1>10. CASE BossUpdate
  BY <1>10, BossKeeps
<1>11. CASE LeaderUpdate \/ ElementUpdate \/ HeroBulletUpdate \/ BallOfFireUpdate
  BY <1>11, BulletsKeep
<1>12. CASE ShotHitsBullet \/ ShotHitsEnemy
  BY <1>12, ShotsKeep
<1>13. CASE Ram \/ SwarmHits \/ FireHits
  BY <1>13, HeroHitsKeep
<1>14. CASE LinkDone
  BY <1>14, StageFacts, NextStage, Elsewhere DEF LinkDone, counters
<1>15. CASE UNCHANGED vars
  BY <1>15 DEF vars, counters, BattleInv, Lists, Round, ObjectsCounted, RoomForWave
<1> QED
  BY <1>1, <1>2, <1>3, <1>4, <1>5, <1>6, <1>7, <1>8, <1>9, <1>10, <1>11, <1>12,
     <1>13, <1>14, <1>15 DEF Next

\* The inductive invariant of the fight, for groups, waves and skills of any size.
THEOREM BattleInvariance == Spec => []BattleInv
<1> QED
  BY InitBattle, NextBattle, PTL DEF Spec

\* No particle of any group is lost or handed out twice, however many
\* particles die, are shot or are refused in whatever order.
THEOREM ListsCorrect == Spec => []ListsAreSound
<1>1. BattleInv => ListsAreSound
  <2> SUFFICES ASSUME BattleInv, NEW g \in Group
               PROVE  /\ Slot(g) = Used(g) \cup Free(g)
                      /\ Len(pg[g].used) + Len(pg[g].free) = Size[g]
    BY DEF ListsAreSound
  <2>1. Sound(pg[g], Size[g])
    BY DEF BattleInv, Lists
  <2>2. /\ pg[g].used \in Seq(1..Size[g]) /\ pg[g].free \in Seq(1..Size[g])
        /\ DOMAIN pg[g].used = 1..Len(pg[g].used)
        /\ DOMAIN pg[g].free = 1..Len(pg[g].free)
    BY <2>1 DEF Sound, Groups
  <2>3. Used(g) \subseteq 1..Size[g] /\ Free(g) \subseteq 1..Size[g]
    <3> DEFINE u == pg[g].used
               f == pg[g].free
    <3>1. u \in Seq(1..Size[g]) /\ f \in Seq(1..Size[g])
      BY <2>2
    <3> HIDE DEF u, f
    <3>2. /\ \A k \in DOMAIN u : u[k] \in 1..Size[g]
          /\ \A k \in DOMAIN f : f[k] \in 1..Size[g]
      <4>1. DOMAIN u = 1..Len(u) /\ DOMAIN f = 1..Len(f)
        BY <3>1
      <4> QED
        BY <3>1, <4>1, ElementOfSeq, Zenon
    <3> QED
      BY <3>2 DEF u, f, Used, Free
  <2>4. 1..Size[g] \subseteq Used(g) \cup Free(g)
    BY <2>1, <2>2 DEF Sound, Used, Free
  <2> QED
    BY <2>1, <2>3, <2>4 DEF Sound, Slot
<1> QED
  BY <1>1, BattleInvariance, PTL

\* The next wave never comes too early, and never fails to come: what
\* StageManager::update looks at is the number of enemies.
THEOREM ObjectsCorrect == Spec => []ObjectsCounted
<1> QED
  BY BattleInvariance, PTL DEF BattleInv

----------------------------------------------------------------------------
\* Who changes the energy of an enemy, and who kills the hero.
LEMMA EnergyChanges ==
    Next /\ energy' # energy => Launch \/ createEnemy \/ ShotHitsEnemy \/ Ram
  BY DEF Next, enemyVars, StageUpdate, Created, HeroFires, HeroUpdate, GroupDone,
         EnemyDies, SimpleEnemyUpdate, BossUpdate, LeaderUpdate, ElementUpdate,
         HeroBulletUpdate, BallOfFireUpdate, ShotHitsBullet, SwarmHits, FireHits,
         BulletHitsHero, LinkDone

\* Only what hits the hero kills the hero.
LEMMA HeroDies ==
    Next /\ hero = "alive" /\ hero' = "dead" => Ram \/ SwarmHits \/ FireHits
  BY DEF Next, Launch, createEnemy, StageUpdate, Created, HeroFires, HeroUpdate, GroupDone,
         EnemyDies, SimpleEnemyUpdate, BossUpdate, LeaderUpdate, ElementUpdate,
         HeroBulletUpdate, BallOfFireUpdate, ShotHitsBullet, ShotHitsEnemy, LinkDone

\* The boss only ever changes with the wave.
LEMMA BossChanges ==
    Next => UNCHANGED boss \/ boss' \in BOOLEAN
<1> SUFFICES ASSUME Next PROVE UNCHANGED boss \/ boss' \in BOOLEAN
  OBVIOUS
<1>1. CASE Launch
  BY <1>1, Zenon DEF Launch, activateLevel
<1>2. CASE StageUpdate
  BY <1>2, Zenon DEF StageUpdate, activateLevel
<1> QED
  BY <1>1, <1>2
  DEF Next, enemyVars, createEnemy, Created, HeroFires, HeroUpdate, GroupDone,
      EnemyDies, SimpleEnemyUpdate, BossUpdate, LeaderUpdate, ElementUpdate,
      HeroBulletUpdate, BallOfFireUpdate, ShotHitsBullet, ShotHitsEnemy, Ram,
      SwarmHits, FireHits, BulletHitsHero, LinkDone

\* The energy of the enemies is a number.
Energies == boss \in BOOLEAN /\ energy \in [Slot("Enemies") -> Nat]

\* The energies of the hero stay in range beside the invariant of the lists.
LEMMA EnergyInvariance == Spec => [](BattleInv /\ Energies)
<1>1. Init => Energies
  <2>1. NoEnergy \in [Slot("Enemies") -> Nat]
    BY DEF NoEnergy
  <2> QED
    BY <2>1, Zenon DEF Init, Energies
<1>2. BattleInv /\ Energies /\ [Next]_vars => Energies'
  <2> SUFFICES ASSUME BattleInv, Energies, [Next]_vars PROVE Energies'
    OBVIOUS
  <2>0. boss' \in BOOLEAN
    BY BossChanges DEF vars, enemyVars, Energies
  <2>1. ASSUME NEW e, NEW d \in Nat, enemyHit(e, d) PROVE Energies'
    <3> DEFINE left == IF d >= energy[e] THEN 0 ELSE energy[e] - d
    <3>1. energy' = [energy EXCEPT ![e] = left]
      BY <2>1 DEF enemyHit
    <3>2. ASSUME e \in Slot("Enemies") PROVE left \in Nat
      <4>1. energy[e] \in Nat
        BY <3>2 DEF Energies
      <4> QED
        BY <4>1
    <3> HIDE DEF left
    <3> QED
      BY <2>0, <3>1, <3>2 DEF Energies
  <2>2. CASE energy' = energy
    BY <2>0, <2>2 DEF Energies
  <2>3. CASE Launch
    BY <2>0, <2>3 DEF Launch, pgmReset, NoEnergy, Energies
  <2>4. CASE createEnemy
    <3>1. Toughness[boss] \in Nat
      BY BattleAssumption DEF BattleAssumption, Energies
    <3> QED
      BY <2>0, <2>4, <3>1 DEF createEnemy, Energies
  <2>5. CASE ShotHitsEnemy
    <3> DEFINE H == "HeroBullets"
    <3>1. pg[H].damage \in [1..Size[H] -> Nat] /\ Lists /\ H \in Group
      BY DEF BattleInv, Lists, Sound, Groups, Group
    <3>2. PICK i \in DOMAIN pg[H].used, j \in DOMAIN pg["Enemies"].used :
            LET d == pg[H].damage[pg[H].used[i]]
            IN enemyHit(pg["Enemies"].used[j], IF boss /\ d = 2 THEN 1 ELSE d)
      BY <2>5, Zenon DEF ShotHitsEnemy
    <3>3. pg[H].used[i] \in 1..Size[H]
      BY <3>1, InGroup
    <3>4. pg[H].damage[pg[H].used[i]] \in Nat
      BY <3>1, <3>3
    <3> QED
      BY <2>1, <3>2, <3>4
  <2>6. CASE Ram
    BY <2>1, <2>6 DEF Ram
  <2> QED
    BY <2>2, <2>3, <2>4, <2>5, <2>6, EnergyChanges DEF vars, enemyVars
<1> QED
  BY <1>1, <1>2, BattleInvariance, PTL DEF Spec

\* A hit without damage does nothing.
LEMMA NoDamage ==
    ASSUME Energies, NEW e \in Slot("Enemies"), NEW d, d = 0,
           enemyHit(e, IF boss /\ d = 2 THEN 1 ELSE d)
    PROVE  energy' = energy
<1>1. (IF boss /\ d = 2 THEN 1 ELSE d) = 0
  OBVIOUS
<1>2. energy \in [Slot("Enemies") -> Nat] /\ energy[e] \in Nat
  BY DEF Energies
<1>3. (IF 0 >= energy[e] THEN 0 ELSE energy[e] - 0) = energy[e]
  BY <1>2
<1>4. energy' = [energy EXCEPT ![e] = energy[e]]
  BY <1>1, <1>3 DEF enemyHit
<1> QED
  BY <1>2, <1>4

\* One bullet, one victim, and no wreck hurts the hero: what was killed
\* earlier in the round has lost its damage by the time it touches anything.
THEOREM SpentCorrect == Spec => SpentIsHarmless
<1> DEFINE Victim == at.stage = "shots at enemies" /\ energy' # energy
             => pg["HeroBullets"].used[at'.i] \notin pg["HeroBullets"].dead
           Killer == LET g == CASE at.stage = "ram" -> "Enemies"
                                [] at.stage = "swarm hits" -> "EnemyBullets"
                                [] at.stage = "fire hits" -> "ShootableEnemyBullets"
                     IN pg[g].used[at'.j] \notin pg[g].dead
           Harmless == Victim /\ (hero' = "dead" /\ hero = "alive" => Killer)
<1>1. BattleInv /\ Energies /\ [Next]_vars => [Harmless]_vars
  <2> SUFFICES ASSUME BattleInv, Energies, Next PROVE Harmless
    OBVIOUS
  <2>1. ASSUME NEW g \in Group, NEW p \in pg[g].dead PROVE pg[g].damage[p] = 0
    BY DEF BattleInv, Lists, Sound
  <2>2. \A i, j \in Nat : Pair(i, j) => at'.i = i /\ at'.j = j
    BY DEF Pair, BattleInv, Round
  <2>3. Victim
    <3> SUFFICES ASSUME at.stage = "shots at enemies", energy' # energy
                 PROVE  pg["HeroBullets"].used[at'.i] \notin pg["HeroBullets"].dead
      OBVIOUS
    <3> DEFINE H == "HeroBullets"
               E == "Enemies"
    <3>1. ShotHitsEnemy
      BY EnergyChanges DEF Launch, createEnemy, Ram
    <3>2. PICK i \in DOMAIN pg[H].used, j \in DOMAIN pg[E].used :
            LET d == pg[H].damage[pg[H].used[i]]
            IN Pair(i, j) /\ enemyHit(pg[E].used[j], IF boss /\ d = 2 THEN 1 ELSE d)
      BY <3>1, Zenon DEF ShotHitsEnemy
    <3>3. H \in Group /\ E \in Group /\ Lists
      BY DEF Group, BattleInv
    <3>4. at'.i = i /\ pg[E].used[j] \in Slot(E)
      BY <2>2, <3>2, <3>3, InGroup DEF Slot
    <3> DEFINE e == pg[E].used[j]
               d == pg[H].damage[pg[H].used[i]]
    <3>5. d # 0
      <4> SUFFICES ASSUME d = 0 PROVE FALSE
        OBVIOUS
      <4>2. enemyHit(e, IF boss /\ d = 2 THEN 1 ELSE d) /\ e \in Slot(E)
        BY <3>2, <3>4, Zenon
      <4>3. d = 0
        OBVIOUS
      <4> HIDE DEF d, e
      <4> QED
        BY <4>2, <4>3, NoDamage
    <3> QED
      BY <2>1, <3>3, <3>4, <3>5
  <2>4. ASSUME hero' = "dead", hero = "alive" PROVE Killer
    <3>1. ASSUME NEW g \in Group, NEW j \in DOMAIN pg[g].used, Pair(1, j),
                 heroHit(pg[g].damage[pg[g].used[j]])
          PROVE  pg[g].used[at'.j] \notin pg[g].dead
      <4>1. at'.j = j
        BY <2>2, <3>1, InGroup DEF BattleInv
      <4>2. pg[g].damage[pg[g].used[j]] # 0
        BY <2>4, <3>1 DEF heroHit
      <4> QED
        BY <2>1, <4>1, <4>2
    <3>2. {"Enemies", "EnemyBullets", "ShootableEnemyBullets"} \subseteq Group
      BY DEF Group
    <3>3. CASE Ram
      BY <3>1, <3>2, <3>3 DEF Ram
    <3>4. CASE SwarmHits
      BY <3>1, <3>2, <3>4 DEF SwarmHits, BulletHitsHero
    <3>5. CASE FireHits
      BY <3>1, <3>2, <3>5 DEF FireHits, BulletHitsHero
    <3> QED
      BY <2>4, <3>3, <3>4, <3>5, HeroDies
  <2> QED
    BY <2>3, <2>4
<1> QED
  BY <1>1, EnergyInvariance, PTL DEF Spec, SpentIsHarmless
=============================================================================
