---------------------------- MODULE MCEnemyWaves ----------------------------
(* The heart of each navy's space, the last planet it guards, the border.  *)
EXTENDS EnemyWaves

Planets  == {0, 38, 50, 62, 100}
NoAliens == {0}
=============================================================================
