----------------------------- MODULE MCControls -----------------------------
(* One move, one weapon with a key and a button, the two actions that need  *)
(* no holding, and two keys whose actions are not in the menu: ESC, and one *)
(* that an action of the menu may take.                                     *)
EXTENDS Controls

ToMove == {"MotionLeft"}
ToFire == {"PrimaryFire"}
Order  == <<"PauseGame", "MotionLeft", "HyperSpace", "PrimaryFire">>
Keys   == {"P", "LEFT", "H", "SPACE", "ESCAPE", "RETURN"}
Mouse  == {"MOUSEBUTTON1"}
Config == [k \in Keys \cup Mouse |->
             CASE k = "P" -> "PauseGame" [] k = "LEFT" -> "MotionLeft"
               [] k = "H" -> "HyperSpace" [] k = "ESCAPE" -> "EscapeAction"
               [] k = "RETURN" -> "Confirm" [] OTHER -> "PrimaryFire"]
=============================================================================
