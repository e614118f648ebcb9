------------------------------ MODULE MCBattle ------------------------------
(* Critters and the boss on groups so small that they run out.             *)
EXTENDS Battle

Sizes == [g \in Group |-> CASE g = "Enemies" -> 2 [] g = "EnemyBullets" -> 2
                            [] g = "HeroBullets" -> 1 [] g = "ShootableEnemyBullets" -> 1]
Two     == {2}
Skill   == {"normal"}     \* fires in more situations than a rookie
JustOne == [s \in Skill |-> 1]
Tough   == [b \in BOOLEAN |-> IF b THEN 1 ELSE 2]
=============================================================================
