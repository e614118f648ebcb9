-------------------------------- MODULE Wave --------------------------------
(***************************************************************************)
(* What the fight promises the rest of the game: enemies fall one by one,  *)
(* each leaves one bonus, and the next wave comes when all have fallen,    *)
(* unless a launch or a jump has just reset the whole orbit.               *)
(***************************************************************************)
EXTENDS Integers

CONSTANT Sizes               \* how many enemies a wave may have

VARIABLES alive, bonuses,    \* enemies not shot yet, bonuses the wave left
          arrived            \* nothing has moved since the last reset

vars == <<alive, bonuses, arrived>>

Init == alive = 0 /\ bonuses = 0 /\ arrived = FALSE

NewEnemies == alive' \in Sizes /\ bonuses' = 0

Shoot   == alive > 0 /\ alive' = alive - 1 /\ bonuses' = bonuses + 1 /\ ~arrived'
NewWave == alive = 0 /\ NewEnemies /\ ~arrived'
Move    == ~arrived' /\ UNCHANGED <<alive, bonuses>>
Reset   == NewEnemies /\ arrived'

Next == Shoot \/ NewWave \/ Move \/ Reset

Spec == Init /\ [][Next]_vars
=============================================================================
