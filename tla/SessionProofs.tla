--------------------------- MODULE SessionProofs ---------------------------
(***************************************************************************)
(* The invariants of Session hold for every galaxy, every tank and every   *)
(* number of waves.  None of them is inductive alone; IInv adds where the  *)
(* planet menu and the message box may have been reached from.  The main   *)
(* loop also implements the voyage it promises; beside the invariant one   *)
(* thing has to be known for that: a wreck is never in front of the planet *)
(* menu, so that nobody aims with a lost ship.                             *)
(***************************************************************************)
EXTENDS Session, TLAPS

HasPlanet == planet \in Planet /\ target \in Planet

\* The message boxes that can be shown before there is a game.
LoadBoxes == {LoadFileBox, LoadFailedBox}

\* The message boxes that only an orbit leads to, or a launch answers.
FlightBoxes == {IllegalBox, UlegBox}

\* The frame that simulates, and every screen but the main menu and its own
\* boxes, belongs to a game with a planet, if the file it comes from was
\* whole; in flight, or on the way there and back, there is one whatever the
\* file was.
ScreenHasPlanet ==
    /\ missing = "nothing" =>
         /\ pc # "crash"
         /\ \/ pc = "game"
            \/ context \in {"eInGame", "ePaused", "ePlanetMenu"}
            \/ context = "eMessageBox" /\ box \notin LoadBoxes
           => HasPlanet
    /\ \/ pc = "game"
       \/ NoInterceptor
       \/ context = "ePlanetMenu" /\ ~landed
       \/ context = "eMessageBox" /\ box \in FlightBoxes
      => planet \in Planet

\* ESC in the planet menu never reopens a message box and, in a dock, leads
\* nowhere near the orbit.
NoWayBack ==
    context = "ePlanetMenu" =>
        /\ previous # "eMessageBox"
        /\ landed => previous \notin {"eInGame", "ePaused"}

\* The boxes of a game are answered in a dock.
BoxInDock == context = "eMessageBox" /\ box \notin LoadBoxes => landed

IInv ==
    /\ TypeOK
    /\ ClockRunsInGame
    /\ DockedIsNotFlying
    /\ OneManoeuvre
    /\ JumpAffordable
    /\ ScreenHasPlanet
    /\ NoWayBack
    /\ BoxInDock

----------------------------------------------------------------------------
\* The boxes that belong to a game are boxes, and not the two of loading.
LEMMA GameBoxes ==
    /\ {IllegalBox, AskSaveBox, SaveFileBox} \cup QuestBoxes \subseteq Box \ LoadBoxes
    /\ LoadBoxes \cup {NoBox} \subseteq Box
    /\ \A b \in LoadBoxes, a \in {"PlanetMenu", "UlegAccept", "UlegRefuse",
              "IllegalTradeAccept", "IllegalTradeRefuse", "SaveGame",
              "SaveGameSlot", "Quit"} : a \notin {b.ok, b.cancel}
    /\ FlightBoxes \subseteq Box \ LoadBoxes
    /\ \A b \in Box, a \in {"UlegRefuse", "IllegalTradeAccept", "IllegalTradeRefuse"} :
          a \in {b.ok, b.cancel} => b \in FlightBoxes
    /\ NoticeBox \notin FlightBoxes /\ AskSaveBox \notin FlightBoxes
    /\ SaveFileBox \notin FlightBoxes
  BY DEF FlightBoxes, Box, LoadBoxes, QuestBoxes, NoBox, IllegalBox, UlegBox, TheEndBox,
         NoticeBox, AskSaveBox, SaveFileBox, LoadFileBox, LoadFailedBox, Button

\* Game::init and Game::run start in the invariant.
LEMMA InitIInv == Init => IInv
<1> SUFFICES ASSUME Init PROVE IInv
  OBVIOUS
<1>1. TypeOK
  <2>1. 0 \in 0..MaxWaves /\ 0 \in 0..MaxEnemies /\ 0 \in 0..MaxFuel /\ 0 \in 0..3
    BY WaveAssumption, FuelAssumption DEF WaveAssumption, FuelAssumption
  <2>2. box \in Box
    BY GameBoxes DEF Init
  <2>3. fuel \in Int /\ fuel \in 0..MaxFuel /\ missing \in Missing
    BY <2>1 DEF Init, Missing
  <2> QED
    BY <2>1, <2>2, <2>3
    DEF Init, TypeOK, Phase, Context, Countdown, Approach, MenuDepth, Missing
<1>2. ClockRunsInGame /\ DockedIsNotFlying /\ OneManoeuvre /\ JumpAffordable
  BY DEF Init, ClockRunsInGame, DockedIsNotFlying, OneManoeuvre, JumpAffordable,
         NoInterceptor
<1>3. ScreenHasPlanet /\ NoWayBack /\ BoxInDock
  BY DEF Init, ScreenHasPlanet, NoWayBack, BoxInDock, NoInterceptor
<1> QED BY <1>1, <1>2, <1>3 DEF IInv

\* ParticleGroupManager::update only removes enemies, and the hero's death
\* ends both manoeuvres.
LEMMA ParticlesFact ==
    ASSUME IInv, NEW n \in 0..MaxEnemies, NEW a \in Approach,
           ParticlesUpdate(n, a)
    PROVE  /\ enemies' \in 0..MaxEnemies
           /\ alive' \in BOOLEAN /\ hurt' \in BOOLEAN
           /\ hyperspace' \in {hyperspace, "off"}
           /\ hyperspace' # "off" /\ alive => alive'
           /\ approach' \in {a, "none"}
<1>1. enemies' \in 0..MaxEnemies
  BY WaveAssumption DEF WaveAssumption, ParticlesUpdate
<1>2. alive' \in BOOLEAN /\ hurt' \in BOOLEAN
  BY Zenon DEF ParticlesUpdate, IInv, TypeOK, hero
<1>3. hyperspace' \in {hyperspace, "off"} /\ approach' \in {a, "none"}
  BY DEF ParticlesUpdate
<1>4. hyperspace' # "off" /\ alive => alive'
  BY DEF ParticlesUpdate, hero
<1> QED BY <1>1, <1>2, <1>3, <1>4

\* One round of Game::updateInGameLogic.
LEMMA GameStepIInv == ASSUME IInv, GameStep PROVE IInv'
<1> USE DEF WaveAssumption, screen, hero, fight, course, vars
<1>1. CASE NextWave
  <2>1. PICK n \in 1..MaxEnemies : ParticlesUpdate(n, approach)
    BY <1>1 DEF NextWave
  <2>2. n \in 0..MaxEnemies /\ approach \in Approach
    BY <2>1, WaveAssumption DEF IInv, TypeOK
  <2>3. /\ enemies' \in 0..MaxEnemies
        /\ alive' \in BOOLEAN /\ hurt' \in BOOLEAN
        /\ hyperspace' \in {hyperspace, "off"}
        /\ hyperspace' # "off" /\ alive => alive'
        /\ approach' \in {approach, "none"}
    BY <2>1, <2>2, ParticlesFact
  <2> QED
    BY <1>1, <2>3, WaveAssumption
    DEF NextWave, IInv, TypeOK, ClockRunsInGame, DockedIsNotFlying, OneManoeuvre,
        JumpAffordable, ScreenHasPlanet, NoWayBack, BoxInDock, HasPlanet, NoInterceptor,
        Countdown, Approach
<1>2. CASE Fight \/ LeavingOrbit
  <2>1. PICK n \in 0..MaxEnemies : ParticlesUpdate(n, approach)
    BY <1>2, WaveAssumption DEF Fight, LeavingOrbit, IInv, TypeOK
  <2>2. /\ enemies' \in 0..MaxEnemies
        /\ alive' \in BOOLEAN /\ hurt' \in BOOLEAN
        /\ hyperspace' \in {hyperspace, "off"}
        /\ hyperspace' # "off" /\ alive => alive'
        /\ approach' \in {approach, "none"}
    BY <2>1, ParticlesFact DEF IInv, TypeOK
  <2> QED
    BY <1>2, <2>2
    DEF Fight, LeavingOrbit, OrbitClear, IInv, TypeOK, ClockRunsInGame,
        DockedIsNotFlying, OneManoeuvre, JumpAffordable, ScreenHasPlanet,
        NoWayBack, BoxInDock, HasPlanet, NoInterceptor, Countdown, Approach
<1>3. CASE ApproachStation
  <2>1. /\ enemies' \in 0..MaxEnemies
        /\ alive' \in BOOLEAN /\ hurt' \in BOOLEAN
        /\ hyperspace' \in {hyperspace, "off"}
        /\ hyperspace' # "off" /\ alive => alive'
        /\ approach' \in {"near", "none"}
    BY <1>3, ParticlesFact, WaveAssumption DEF ApproachStation, Approach
  <2> QED
    BY <1>3, <2>1
    DEF ApproachStation, OrbitClear, IInv, TypeOK, ClockRunsInGame,
        DockedIsNotFlying, OneManoeuvre, JumpAffordable, ScreenHasPlanet,
        NoWayBack, BoxInDock, HasPlanet, NoInterceptor, Countdown, Approach
<1>4. CASE DockAtStation
  <2>1. /\ enemies' \in 0..MaxEnemies
        /\ alive' \in BOOLEAN /\ hurt' \in BOOLEAN
        /\ hyperspace' = "off" /\ approach' = "none"
    BY <1>4, ParticlesFact, WaveAssumption DEF DockAtStation, Approach
  <2>2. /\ context' \in {"eMessageBox", "ePlanetMenu"}
        /\ context' = "ePlanetMenu" => previous' = "ePlanetMenu"
        /\ previous' \in Context
        /\ running' = FALSE
        /\ box' \in Box
    BY <1>4, GameBoxes
    DEF DockAtStation, popBox, switchContextForGood, switchContextFrom, ClockIn,
        IInv, TypeOK, ClockRunsInGame, Context
  <2> QED
    BY <1>4, <2>1, <2>2
    DEF DockAtStation, OrbitClear, IInv, TypeOK, ClockRunsInGame,
        DockedIsNotFlying, OneManoeuvre, JumpAffordable, ScreenHasPlanet,
        NoWayBack, BoxInDock, HasPlanet, NoInterceptor, Countdown, Approach, Context
<1> QED BY <1>1, <1>2, <1>3, <1>4 DEF GameStep

\* A new orbit, whether launched into or jumped to.
LEMMA StartNewGameFact ==
    ASSUME IInv, startNewGame
    PROVE  /\ waves' \in 0..MaxWaves /\ enemies' \in 0..MaxEnemies
           /\ alive' \in BOOLEAN /\ hurt' \in BOOLEAN
           /\ context' = "eInGame" /\ previous' \in Context
           /\ running' = TRUE
           /\ box' \in Box
           /\ hyperspace' = "off"
           /\ landed' = FALSE
<1>1. waves' \in 0..MaxWaves /\ enemies' \in 0..MaxEnemies
  BY WaveAssumption DEF WaveAssumption, startNewGame, NewOrbit
<1>2. alive' \in BOOLEAN /\ hurt' \in BOOLEAN
  BY Zenon DEF startNewGame, NewOrbit
<1>3. context' = "eInGame" /\ previous' \in Context /\ running' = TRUE
  BY DEF startNewGame, switchContextFrom, ClockIn, IInv, TypeOK, Context
<1>4. box' \in Box
  BY GameBoxes DEF startNewGame
<1>5. hyperspace' = "off" /\ landed' = FALSE
  BY DEF startNewGame
<1> QED BY <1>1, <1>2, <1>3, <1>4, <1>5

\* A launch keeps the course, so it only has to start from a game.
LEMMA LaunchIInv ==
    ASSUME IInv, planet \in Planet, context \in {"ePlanetMenu", "eMessageBox"},
           context = "eMessageBox" => box \notin LoadBoxes,
           launch, UNCHANGED <<pc, depth, board, isAlive>>
    PROVE  IInv'
<1>1. startNewGame /\ UNCHANGED <<planet, target, fuel, missing>>
  BY DEF launch, course
<1>2. approach' \in Approach
  BY DEF launch, Approach
<1> QED
  BY <1>1, <1>2, StartNewGameFact
  DEF IInv, TypeOK, ClockRunsInGame, DockedIsNotFlying, OneManoeuvre,
      JumpAffordable, ScreenHasPlanet, NoWayBack, BoxInDock, HasPlanet, NoInterceptor,
      Context, Countdown

\* Starfield::update: the fuel of a pending jump is on board.
LEMMA JumpIInv == ASSUME IInv, Jump PROVE IInv'
<1>1. startNewGame /\ approach' = "none"
  BY DEF Jump, hyperspaceJump
<1>2. HasPlanet /\ (missing # "hold" => fuel >= Cost[planet][target])
  BY DEF Jump, IInv, JumpAffordable, HasPlanet
<1>3. Cost[planet][target] \in Nat
  BY <1>2, FuelAssumption DEF FuelAssumption, HasPlanet
<1>4. fuel' \in Int /\ (missing # "hold" => fuel' \in 0..MaxFuel)
  BY <1>2, <1>3, FuelAssumption
  DEF FuelAssumption, Jump, hyperspaceJump, IInv, TypeOK
<1>5. /\ planet' = target /\ target' = target /\ missing' = missing
      /\ UNCHANGED <<pc, depth, board, isAlive>>
  BY DEF Jump, hyperspaceJump
<1> QED
  BY <1>1, <1>2, <1>4, <1>5, StartNewGameFact
  DEF IInv, TypeOK, ClockRunsInGame, DockedIsNotFlying, OneManoeuvre,
      JumpAffordable, ScreenHasPlanet, NoWayBack, BoxInDock, HasPlanet, NoInterceptor,
      Context, Countdown, Approach

\* The clocks and the phases of the main loop.
LEMMA LoopIInv ==
    ASSUME IInv,
           \/ HyperspaceTick \/ ApproachTick \/ GameDone \/ OtherDone
           \/ InputDone \/ Video \/ SharedDummy \/ Crash
    PROVE  IInv'
<1> USE DEF screen, hero, fight, course, IInv, TypeOK, ClockRunsInGame,
        DockedIsNotFlying, OneManoeuvre, JumpAffordable, ScreenHasPlanet,
        NoWayBack, BoxInDock, HasPlanet, NoInterceptor, Phase, Countdown, Approach
<1>1. CASE HyperspaceTick
  BY <1>1 DEF HyperspaceTick
<1>2. CASE ApproachTick
  BY <1>2 DEF ApproachTick
<1>3. CASE GameDone
  BY <1>3 DEF GameDone
<1>4. CASE OtherDone
  BY <1>4 DEF OtherDone
<1>5. CASE InputDone
  BY <1>5 DEF InputDone
<1>6. CASE Video
  <2>1. approach' \in {approach, "none"}
    BY <1>6 DEF Video, getCounts
  <2>2. pc' \in Phase /\ (pc' = "game" => context = "eInGame")
    BY <1>6 DEF Video, NextFrame
  <2>3. pc' = "crash" => NoPlanet \in {planet, target} /\
                         context \in {"eInGame", "ePaused", "ePlanetMenu"}
    BY <1>6 DEF Video, NextFrame, NullDrawn
  <2>4. pc' = "crash" => missing # "nothing"
    BY <2>3, PlanetAssumption DEF PlanetAssumption
  <2>5. UNCHANGED <<context, previous, running, box, landed, hyperspace, alive, hurt,
                    waves, enemies, planet, target, fuel, missing, depth, board, isAlive>>
    BY <1>6 DEF Video
  <2> QED BY <2>1, <2>2, <2>4, <2>5
<1>7. CASE SharedDummy
  BY <1>7, FuelAssumption DEF FuelAssumption, SharedDummy
<1>8. CASE Crash
  <2>1. missing # "nothing"
    BY <1>8, PlanetAssumption, GameBoxes DEF PlanetAssumption, Crash, NullFollowed
  <2> QED BY <1>8, <2>1 DEF Crash
<1> QED BY <1>1, <1>2, <1>3, <1>4, <1>5, <1>6, <1>7, <1>8

\* The keys of the flight and of the pause.
LEMMA FlightKeysIInv ==
    ASSUME IInv,
           PauseGame \/ EscapeAction \/ HyperSpaceJump \/ CritterBoard
    PROVE  IInv'
<1> USE GameBoxes
    DEF screen, hero, fight, course, IInv, TypeOK, ClockRunsInGame,
        DockedIsNotFlying, OneManoeuvre, JumpAffordable, ScreenHasPlanet,
        NoWayBack, BoxInDock, HasPlanet, NoInterceptor, Context, Countdown, MenuDepth,
        switchContext, switchContextFrom, ClockIn
<1>1. CASE PauseGame
  BY <1>1 DEF PauseGame
<1>2. CASE EscapeAction
  BY <1>2 DEF EscapeAction, toTopMenu
<1>3. CASE HyperSpaceJump
  BY <1>3 DEF HyperSpaceJump, hyperspaceAvailable
<1>4. CASE CritterBoard
  BY <1>4 DEF CritterBoard
<1> QED BY <1>1, <1>2, <1>3, <1>4

\* The planet menu.
LEMMA PlanetMenuIInv ==
    ASSUME IInv,
           \/ PreviousContext \/ LaunchTab \/ PlanetClick \/ TradeFuel
           \/ SaveClick \/ MainMenuTab
    PROVE  IInv'
<1> USE GameBoxes
    DEF screen, hero, fight, course, IInv, TypeOK, ClockRunsInGame,
        DockedIsNotFlying, OneManoeuvre, JumpAffordable, ScreenHasPlanet,
        NoWayBack, BoxInDock, HasPlanet, NoInterceptor, Context, Countdown, MenuDepth,
        switchContext, switchContextFrom, ClockIn, popBox
<1>1. CASE PreviousContext
  BY <1>1 DEF PreviousContext
<1>2. CASE LaunchTab
  <2>1. CASE landed /\ planet # NoPlanet /\ launch
    BY <1>2, <2>1, LaunchIInv DEF LaunchTab
  <2>2. CASE ~landed /\ switchContext("eInGame")
              /\ UNCHANGED <<landed, hyperspace, approach, hero, fight, course>>
    BY <1>2, <2>2 DEF LaunchTab
  <2>3. CASE landed /\ planet # NoPlanet /\ popBox(IllegalBox)
              /\ UNCHANGED <<landed, hyperspace, approach, hero, fight, course>>
    BY <1>2, <2>3 DEF LaunchTab
  <2> QED BY <1>2, <2>1, <2>2, <2>3 DEF LaunchTab
<1>3. CASE PlanetClick
  BY <1>3 DEF PlanetClick
<1>4. CASE TradeFuel
  BY <1>4, FuelAssumption DEF TradeFuel, FuelAssumption
<1>5. CASE SaveClick
  <2>1. PICK b \in {AskSaveBox, NoticeBox} : popBox(b)
    BY <1>5 DEF SaveClick
  <2>2. b \in Box
    BY <2>1 DEF Box, QuestBoxes
  <2> QED BY <1>5, <2>1, <2>2 DEF SaveClick
<1>6. CASE MainMenuTab
  BY <1>6 DEF MainMenuTab, goToMainMenu, toTopMenu
<1> QED BY <1>1, <1>2, <1>3, <1>4, <1>5, <1>6

\* The message boxes.
LEMMA MessageBoxIInv ==
    ASSUME IInv,
           \/ BackToPlanetMenu \/ IllegalTradeDecision \/ SaveGame
           \/ LoadGameSlot \/ MainMenuButton \/ QuitButton
    PROVE  IInv'
<1> USE GameBoxes
    DEF screen, hero, fight, course, IInv, TypeOK, ClockRunsInGame,
        DockedIsNotFlying, OneManoeuvre, JumpAffordable, ScreenHasPlanet,
        NoWayBack, BoxInDock, HasPlanet, NoInterceptor, Context, Countdown, MenuDepth,
        switchContext, switchContextFrom, switchContextForGood, ClockIn
<1>1. \A a \in {"PlanetMenu", "UlegAccept", "UlegRefuse", "IllegalTradeAccept",
                "IllegalTradeRefuse", "SaveGame", "SaveGameSlot", "Quit"} :
        Pressed(a) => /\ missing = "nothing" => HasPlanet
                      /\ landed /\ box \notin LoadBoxes
  BY DEF Pressed
<1>2. CASE BackToPlanetMenu
  <2>1. (missing = "nothing" => HasPlanet) /\ landed /\ context = "eMessageBox"
    BY <1>1, <1>2 DEF BackToPlanetMenu, Pressed
  <2>2. /\ fuel' \in Int /\ (missing' # "hold" => fuel' \in 0..MaxFuel)
        /\ missing' \in Missing /\ (missing' = "nothing" <=> missing = "nothing")
    BY <1>2, FuelAssumption DEF BackToPlanetMenu, FuelAssumption, Missing
  <2>3. hyperspace' = "off"
    BY <1>2, <2>1 DEF BackToPlanetMenu
  <2> QED BY <1>2, <2>1, <2>2, <2>3 DEF BackToPlanetMenu
<1>3. CASE IllegalTradeDecision
  <2>1. planet \in Planet /\ context = "eMessageBox" /\ box \notin LoadBoxes
    BY <1>1, <1>3 DEF IllegalTradeDecision, Pressed
  <2> QED BY <1>3, <2>1, LaunchIInv DEF IllegalTradeDecision
<1>4. CASE SaveGame
  <2>1. (missing = "nothing" => HasPlanet) /\ landed
    BY <1>1, <1>4 DEF SaveGame
  <2>2. box' \in Box \ FlightBoxes
    BY <1>4 DEF SaveGame, QuestBoxes
  <2> QED BY <1>4, <2>1, <2>2 DEF SaveGame
<1>5. CASE LoadGameSlot
  <2>1. CASE /\ box' = LoadFailedBox
             /\ UNCHANGED <<context, previous, running, landed, hyperspace,
                            approach, course>>
    BY <1>5, <2>1 DEF LoadGameSlot, LoadBoxes
  <2>2. CASE /\ switchContextForGood("ePlanetMenu")
             /\ landed' = TRUE /\ hyperspace' = "off" /\ approach' = "none"
             /\ missing' \in Missing /\ fuel' \in 0..MaxFuel
             /\ planet' \in Planet \cup (IF missing' = "hold" THEN {NoPlanet} ELSE {})
             /\ target' \in Planet \cup (IF missing' = "nothing" THEN {} ELSE {NoPlanet})
    <3>2. /\ planet' \in Planet \cup {NoPlanet} /\ target' \in Planet \cup {NoPlanet}
          /\ missing' = "nothing" => planet' \in Planet /\ target' \in Planet
      BY <2>2
    <3>1. running' \in BOOLEAN /\ ClockRunsInGame' /\ previous' = "ePlanetMenu"
      BY <2>2
    <3> QED BY <1>5, <2>2, <3>1, <3>2 DEF LoadGameSlot, Approach, Pressed
  <2> QED BY <1>5, <2>1, <2>2 DEF LoadGameSlot
<1>6. CASE MainMenuButton
  BY <1>6 DEF MainMenuButton, goToMainMenu, toTopMenu
<1>7. CASE QuitButton
  <2>1. /\ isAlive' \in BOOLEAN
        /\ UNCHANGED <<pc, screen, landed, hyperspace, approach, hero, fight,
                       course, depth, board>>
    BY <1>7, Zenon DEF QuitButton
  <2> QED BY <2>1
<1> QED BY <1>2, <1>3, <1>4, <1>5, <1>6, <1>7

\* The main menu and the end of the program.
LEMMA MenuIInv ==
    ASSUME IInv, MenuMove \/ NewCampaign \/ LoadGame \/ Quit
    PROVE  IInv'
<1> USE GameBoxes
    DEF screen, hero, fight, course, IInv, TypeOK, ClockRunsInGame,
        DockedIsNotFlying, OneManoeuvre, JumpAffordable, ScreenHasPlanet,
        NoWayBack, BoxInDock, HasPlanet, NoInterceptor, Context, Countdown, MenuDepth,
        switchContext, switchContextFrom, ClockIn, popBox, InMenu
<1>1. CASE MenuMove
  BY <1>1 DEF MenuMove
<1>2. CASE NewCampaign
  <2>1. Home \in Planet /\ StartFuel \in Int /\ StartFuel \in 0..MaxFuel
    BY PlanetAssumption, FuelAssumption DEF PlanetAssumption, FuelAssumption
  <2>2. missing' = "nothing" /\ missing' \in Missing /\ fuel' = StartFuel
        /\ planet' = Home /\ target' = Home
    BY <1>2 DEF NewCampaign, Missing
  <2> QED BY <1>2, <2>1, <2>2 DEF NewCampaign
<1>3. CASE LoadGame
  BY <1>3 DEF LoadGame, LoadBoxes
<1>4. CASE Quit
  <2>1. /\ isAlive' \in BOOLEAN
        /\ UNCHANGED <<pc, screen, landed, hyperspace, approach, hero, fight,
                       course, depth, board>>
    BY <1>4, Zenon DEF Quit
  <2> QED BY <2>1
<1> QED BY <1>1, <1>2, <1>3, <1>4

\* Every step of the program keeps the invariant.
LEMMA NextIInv == IInv /\ [Next]_vars => IInv'
<1> SUFFICES ASSUME IInv, [Next]_vars PROVE IInv'
  OBVIOUS
<1>1. CASE GameStep
  BY <1>1, GameStepIInv
<1>2. CASE \/ HyperspaceTick \/ ApproachTick \/ GameDone \/ OtherDone
           \/ InputDone \/ Video \/ SharedDummy
  BY <1>2, LoopIInv
<1>3. CASE Jump
  BY <1>3, JumpIInv
<1>4. CASE InputEvent
  BY <1>4, FlightKeysIInv, PlanetMenuIInv, MessageBoxIInv, MenuIInv, LoopIInv
  DEF InputEvent
<1>5. CASE UNCHANGED vars
  BY <1>5
  DEF vars, screen, hero, fight, course, IInv, TypeOK, ClockRunsInGame,
      DockedIsNotFlying, OneManoeuvre, JumpAffordable, ScreenHasPlanet,
      NoWayBack, BoxInDock, HasPlanet, NoInterceptor
<1> QED BY <1>1, <1>2, <1>3, <1>4, <1>5 DEF Next, Ended

----------------------------------------------------------------------------
\* IInv holds in every reachable state of Game::run.
THEOREM Invariance == Spec => []IInv
  BY InitIInv, NextIInv, PTL DEF Spec

\* Every variable stays in range; no jump overdraws the fuel (Game.cpp,
\* hyperspaceJump).
THEOREM TypeCorrect == Spec => []TypeOK
<1>1. IInv => TypeOK
  BY DEF IInv
<1> QED BY <1>1, Invariance, PTL

\* The stopwatch runs exactly in eInGame (Game::switchContext).
THEOREM ClockCorrect == Spec => []ClockRunsInGame
<1>1. IInv => ClockRunsInGame
  BY DEF IInv
<1> QED BY <1>1, Invariance, PTL

\* No screen leads from the dock back to the flight (StageManager::update).
THEOREM DockCorrect == Spec => []DockedIsNotFlying
<1>1. IInv => DockedIsNotFlying
  BY DEF IInv
<1> QED BY <1>1, Invariance, PTL

\* Docking and hyperspace exclude each other (Game::getHyperspaceAvailable).
THEOREM ManoeuvreCorrect == Spec => []OneManoeuvre
<1>1. IInv => OneManoeuvre
  BY DEF IInv
<1> QED BY <1>1, Invariance, PTL

\* A pending jump stays affordable until it happens or is taken back.
THEOREM JumpCorrect == Spec => []JumpAffordable
<1>1. IInv => JumpAffordable
  BY DEF IInv
<1> QED BY <1>1, Invariance, PTL

\* The null planet is never shown of a game from a whole file, and no ship
\* flies at one whatever the file was (Game::_currentPlanet, loadGame).
THEOREM PlanetCorrect == Spec => []GameHasPlanet
<1>1. IInv => GameHasPlanet
  BY DEF IInv, ScreenHasPlanet, GameHasPlanet, HasPlanet
<1> QED BY <1>1, Invariance, PTL

\* The jump spares the hero's energy: Starfield::update jumps first and ends
\* the countdown after, so Hero::reset sees the jump it belongs to.
THEOREM JumpKeepsDamage == Spec => JumpDoesNotRepair
<1> DEFINE Keeps == ~landed /\ ~landed' /\ planet' # planet => hurt' = hurt /\ alive
<1>1. ASSUME IInv, [Next]_vars, planet' # planet, ~landed'
      PROVE  Jump
  <2> USE DEF vars, screen, course
  <2>1. GameStep => UNCHANGED planet
    BY DEF GameStep, NextWave, Fight, LeavingOrbit, ApproachStation, DockAtStation
  <2>2. HyperspaceTick \/ ApproachTick \/ GameDone \/ OtherDone \/ InputDone \/ Video
          \/ SharedDummy => UNCHANGED planet
    BY DEF SharedDummy, HyperspaceTick, ApproachTick, GameDone, OtherDone, InputDone, Video
  <2>3. PauseGame \/ EscapeAction \/ HyperSpaceJump \/ CritterBoard => UNCHANGED planet
    BY DEF PauseGame, EscapeAction, HyperSpaceJump, CritterBoard
  <2>4. PreviousContext \/ LaunchTab \/ PlanetClick \/ TradeFuel \/ SaveClick
          \/ MainMenuTab => UNCHANGED planet
    BY DEF PreviousContext, LaunchTab, launch, PlanetClick, TradeFuel, SaveClick,
           MainMenuTab
  <2>5. BackToPlanetMenu \/ IllegalTradeDecision \/ SaveGame \/ LoadGameSlot
          \/ MainMenuButton \/ QuitButton => UNCHANGED planet \/ landed'
    BY DEF BackToPlanetMenu, IllegalTradeDecision, launch, SaveGame, LoadGameSlot,
           MainMenuButton, QuitButton
  <2>6. MenuMove \/ NewCampaign \/ LoadGame \/ Quit \/ Crash
          => UNCHANGED planet \/ landed'
    BY DEF Crash, MenuMove, NewCampaign, LoadGame, Quit
  <2> QED
    BY <1>1, <2>1, <2>2, <2>3, <2>4, <2>5, <2>6 DEF Next, InputEvent, Ended
<1>2. IInv /\ Jump => hurt' = hurt /\ alive
  <2> SUFFICES ASSUME IInv, Jump PROVE hurt' = hurt /\ alive
    OBVIOUS
  <2>1. hyperspace # "off" /\ hurt \in BOOLEAN /\ alive
    BY DEF Jump, IInv, TypeOK, JumpAffordable
  <2>2. hurt' = (hurt /\ hyperspace # "off")
    BY DEF Jump, hyperspaceJump, startNewGame, NewOrbit
  <2> QED BY <2>1, <2>2
<1>3. IInv /\ [Next]_vars => [Keeps]_vars
  BY <1>1, <1>2
<1> QED BY <1>3, Invariance, PTL DEF Spec, JumpDoesNotRepair

\* With the board shown, and no frame skipped, an approach never outlives the
\* return of enemies (EnemyWaves::getCounts).
THEOREM BoardClearsApproach ==
    ASSUME FrameCap = FALSE
    PROVE  Spec => []NoStaleApproach
<1>1. Init => NoStaleApproach
  BY DEF Init, NoStaleApproach
<1>2. NoStaleApproach /\ IInv /\ [Next]_vars => NoStaleApproach'
  <2> SUFFICES ASSUME NoStaleApproach, IInv, [Next]_vars,
                      pc' = "game", context' = "eInGame", board', waves' > 0
               PROVE  approach' = "none"
    BY DEF NoStaleApproach
  <2> USE DEF vars, screen, hero, fight, course
  <2>1. CASE Video
    <3>1. context = "eInGame" /\ hyperspace \in {"off", "countdown"} /\ board
      BY <2>1 DEF Video, NextFrame
    <3>2. BoardDrawn
      BY <3>1 DEF BoardDrawn, NoInterceptor
    <3>3. getCounts /\ waves > 0
      BY <2>1, <3>2 DEF Video
    <3> QED BY <3>3 DEF getCounts
  <2>2. CASE GameStep
    <3>1. pc = "game" /\ board
      BY <2>2 DEF GameStep, NextWave, Fight, LeavingOrbit, ApproachStation,
                  DockAtStation, OrbitClear
    <3>2. waves > 0 /\ context = "eInGame"
      BY <2>2 DEF GameStep, NextWave, Fight, LeavingOrbit, ApproachStation,
                  DockAtStation, OrbitClear, popBox, switchContextForGood,
                  switchContextFrom, IInv, TypeOK
    <3>3. approach = "none"
      BY <3>1, <3>2 DEF NoStaleApproach
    <3>4. ~OrbitClear
      BY <3>2 DEF OrbitClear
    <3>5. NextWave \/ Fight
      BY <2>2, <3>4, Zenon DEF GameStep, LeavingOrbit, ApproachStation, DockAtStation
    <3>6. PICK n : ParticlesUpdate(n, approach)
      BY <3>5 DEF NextWave, Fight
    <3> QED BY <3>3, <3>6 DEF ParticlesUpdate
  <2>3. CASE ~Video /\ ~GameStep
    <3>1. pc = "game"
      BY <2>3 DEF Next, SharedDummy, Crash, HyperspaceTick, ApproachTick, GameDone, OtherDone, Jump,
        InputDone, Ended, InputEvent, PauseGame, EscapeAction, HyperSpaceJump,
        CritterBoard, PreviousContext, LaunchTab, PlanetClick, TradeFuel,
        SaveClick, MainMenuTab, BackToPlanetMenu, IllegalTradeDecision, SaveGame,
        LoadGameSlot, MainMenuButton, QuitButton, MenuMove, NewCampaign,
        LoadGame, Quit, Pressed, InMenu
    <3>2. HyperspaceTick \/ ApproachTick \/ UNCHANGED vars
      BY <2>3, <3>1 DEF Next, SharedDummy, Crash, GameDone, OtherDone, Jump,
        InputDone, Ended, InputEvent, PauseGame, EscapeAction, HyperSpaceJump,
        CritterBoard, PreviousContext, LaunchTab, PlanetClick, TradeFuel,
        SaveClick, MainMenuTab, BackToPlanetMenu, IllegalTradeDecision, SaveGame,
        LoadGameSlot, MainMenuButton, QuitButton, MenuMove, NewCampaign,
        LoadGame, Quit, Pressed, InMenu
    <3> QED
      BY <3>1, <3>2 DEF NoStaleApproach, HyperspaceTick, ApproachTick
  <2> QED BY <2>1, <2>2, <2>3
<1> QED BY <1>1, <1>2, Invariance, PTL DEF Spec

----------------------------------------------------------------------------
(* The main loop implements the voyage.                                    *)

\* Whoever stands before a planet menu is docked or alive.
NoLostCaptain ==
    /\ context = "ePlanetMenu" => landed \/ alive
    /\ pc = "game" => context = "eInGame" \/ landed

\* The steps of the voyage.
Sails == [V!Next]_(V!vars)

----------------------------------------------------------------------------
\* A docked ship stays docked unless it is launched, and a launch revives.
LEMMA NoLostCaptainKept ==
    ASSUME IInv, NoLostCaptain, [Next]_vars
    PROVE  NoLostCaptain'
<1> USE DEF NoLostCaptain, screen, hero, fight, course, switchContext, switchContextFrom
<1>1. CASE GameStep
  <2>1. pc = "game" /\ pc' = "game" /\ ((context' = context /\ landed' = landed) \/ landed')
    BY <1>1 DEF GameStep, NextWave, Fight, LeavingOrbit, ApproachStation, DockAtStation,
                OrbitClear
  <2>2. ~landed => context = "eInGame"
    BY <2>1
  <2> QED BY <2>1, <2>2
<1>2. CASE \/ HyperspaceTick \/ ApproachTick \/ GameDone \/ OtherDone \/ InputDone
           \/ SharedDummy \/ Crash
  BY <1>2 DEF HyperspaceTick, ApproachTick, GameDone, OtherDone, InputDone, SharedDummy,
              Crash
<1>3. CASE Video
  BY <1>3 DEF Video, NextFrame
<1>4. CASE Jump
  BY <1>4, StartNewGameFact DEF Jump, hyperspaceJump
<1>5. CASE InputEvent /\ ~Crash
  <2>0. pc = "input" /\ pc' = "input"
    BY <1>5 DEF InputEvent, PauseGame, EscapeAction, HyperSpaceJump,
        CritterBoard, PreviousContext, LaunchTab, PlanetClick, TradeFuel,
        SaveClick, MainMenuTab, BackToPlanetMenu, IllegalTradeDecision, SaveGame,
        LoadGameSlot, MainMenuButton, QuitButton, MenuMove, NewCampaign,
        LoadGame, Quit, Pressed, InMenu
  <2>1. CASE PauseGame \/ EscapeAction \/ HyperSpaceJump \/ CritterBoard
    BY <2>0, <2>1 DEF PauseGame, EscapeAction, HyperSpaceJump, CritterBoard, NoInterceptor
  <2>2. CASE PreviousContext \/ PlanetClick \/ TradeFuel
    BY <2>0, <2>2 DEF PreviousContext, PlanetClick, TradeFuel
  <2>3. CASE SaveClick \/ MainMenuTab
    BY <2>0, <2>3 DEF SaveClick, MainMenuTab, popBox, goToMainMenu
  <2>4. CASE LaunchTab
    BY <2>0, <2>4, StartNewGameFact DEF LaunchTab, launch, popBox
  <2>5. CASE BackToPlanetMenu \/ LoadGameSlot
    <3>1. BackToPlanetMenu => landed /\ landed' = landed
      BY GameBoxes DEF BackToPlanetMenu, Pressed, IInv, BoxInDock
    <3>2. LoadGameSlot => (context' = context /\ context = "eMessageBox") \/ landed'
      BY DEF LoadGameSlot, Pressed
    <3> QED BY <2>0, <2>5, <3>1, <3>2
  <2>6. CASE IllegalTradeDecision
    BY <2>0, <2>6, StartNewGameFact DEF IllegalTradeDecision, launch
  <2>7. CASE SaveGame \/ MainMenuButton \/ QuitButton
    BY <2>0, <2>7 DEF SaveGame, MainMenuButton, QuitButton, goToMainMenu
  <2>8. CASE MenuMove \/ NewCampaign \/ LoadGame \/ Quit
    BY <2>0, <2>8 DEF MenuMove, NewCampaign, LoadGame, Quit, popBox
  <2> QED BY <1>5, <2>1, <2>2, <2>3, <2>4, <2>5, <2>6, <2>7, <2>8 DEF InputEvent
<1>6. CASE UNCHANGED vars
  BY <1>6 DEF vars
<1> QED BY <1>1, <1>2, <1>3, <1>4, <1>5, <1>6 DEF Next, Ended

----------------------------------------------------------------------------
\* What the ship does when only its clocks and its hero change.
LEMMA SameShip ==
    ASSUME UNCHANGED <<planet, target, fuel, missing, landed, alive>>,
           hyperspace' = "off" <=> hyperspace = "off"
    PROVE  Sails
  BY DEF Sails, V!vars, voyagePhase

\* Taking back a jump that is pending.
LEMMA TakenBack ==
    ASSUME IInv, UNCHANGED <<planet, target, fuel, missing, landed, alive>>,
           hyperspace' \in {hyperspace, "off"}
    PROVE  Sails
<1>1. CASE hyperspace' = hyperspace \/ hyperspace = "off"
  BY <1>1, SameShip
<1>2. CASE hyperspace' = "off" /\ hyperspace # "off"
  <2>1. alive /\ ~landed /\ planet # NoPlanet
    BY <1>2, PlanetAssumption DEF IInv, JumpAffordable, OneManoeuvre
  <2>2. voyagePhase = "hyper" /\ voyagePhase' = "orbit"
    BY <1>2, <2>1 DEF voyagePhase
  <2> QED BY <2>2 DEF Sails, V!Next, V!CancelJump
<1> QED BY <1>1, <1>2

\* The rounds of the fight: the ship goes on, is lost, or is docked.
LEMMA GameStepSails == ASSUME IInv, GameStep PROVE Sails
<1> USE DEF screen, hero, fight, course
<1>1. pc = "game" /\ UNCHANGED <<planet, target, fuel, missing>> /\ planet # NoPlanet
  BY PlanetAssumption
  DEF GameStep, NextWave, Fight, LeavingOrbit, ApproachStation, DockAtStation, OrbitClear,
      IInv, ScreenHasPlanet, HasPlanet
<1>2. CASE DockAtStation
  <2>1. landed' /\ hyperspace = "off" /\ landed \in BOOLEAN
    BY <1>2 DEF DockAtStation, IInv, TypeOK
  <2>2. voyagePhase' = "docked" /\ voyagePhase \in {"docked", "lost", "orbit"}
    BY <1>1, <2>1 DEF voyagePhase
  <2> QED BY <1>1, <2>2 DEF Sails, V!Next, V!Dock, V!vars
<1>3. CASE ~DockAtStation
  <2>1. UNCHANGED landed /\ \E n, a : ParticlesUpdate(n, a)
    BY <1>3 DEF GameStep, NextWave, Fight, LeavingOrbit, ApproachStation
  <2>2. \/ UNCHANGED <<alive, hyperspace>>
        \/ alive /\ ~alive'
    BY <2>1 DEF ParticlesUpdate
  <2>3. CASE UNCHANGED <<alive, hyperspace>>
    BY <1>1, <2>1, <2>3, SameShip
  <2>4. CASE alive /\ ~alive'
    <3>1. CASE landed
      BY <1>1, <2>1, <3>1 DEF Sails, V!vars, voyagePhase
    <3>2. CASE ~landed
      <4>1. voyagePhase' = "lost" /\ voyagePhase \in {"orbit", "hyper"}
        BY <1>1, <2>1, <2>4, <3>2 DEF voyagePhase
      <4> QED BY <1>1, <4>1 DEF Sails, V!Next, V!Lose
    <3> QED BY <3>1, <3>2
  <2> QED BY <2>2, <2>3, <2>4
<1> QED BY <1>2, <1>3

\* The jump arrives, with its whole price paid.
LEMMA JumpSails == ASSUME IInv, Jump PROVE Sails
<1>1. /\ hyperspace = "due" /\ alive /\ ~landed
      /\ planet # NoPlanet /\ target # NoPlanet
  BY PlanetAssumption DEF Jump, IInv, JumpAffordable, OneManoeuvre
<1>2. /\ planet' = target /\ target' = target /\ missing' = missing
      /\ fuel' = fuel - Cost[planet][target]
      /\ ~landed' /\ alive' /\ hyperspace' = "off"
  BY DEF Jump, hyperspaceJump, startNewGame, NewOrbit
<1>3. voyagePhase = "hyper" /\ voyagePhase' = "orbit"
  BY <1>1, <1>2 DEF voyagePhase
<1> QED BY <1>2, <1>3 DEF Sails, V!Next, V!Arrive

\* A launch, from the planet menu or from the box of the customs.
LEMMA LaunchSails == ASSUME landed, planet # NoPlanet, launch PROVE Sails
<1>1. UNCHANGED <<planet, target, fuel, missing>> /\ ~landed' /\ alive' /\ hyperspace' = "off"
  BY DEF launch, startNewGame, NewOrbit, course
<1>2. voyagePhase = "docked" /\ voyagePhase' = "orbit"
  BY <1>1 DEF voyagePhase
<1> QED BY <1>1, <1>2 DEF Sails, V!Next, V!Launch

\* The clocks and the phases of the loop leave the ship alone.
LEMMA LoopSails ==
    ASSUME IInv,
           \/ HyperspaceTick \/ ApproachTick \/ GameDone \/ OtherDone \/ InputDone
           \/ Video \/ Crash
    PROVE  Sails
<1>1. UNCHANGED <<planet, target, fuel, missing, landed, alive>>
      /\ (hyperspace' = "off" <=> hyperspace = "off")
  BY DEF HyperspaceTick, ApproachTick, GameDone, OtherDone, InputDone, Video, Crash,
         hero, course
<1> QED BY <1>1, SameShip

\* The dummy stands in for the fuel of a ship from a cut file only.
LEMMA SharedDummySails == ASSUME IInv, SharedDummy PROVE Sails
<1>1. /\ missing = "hold" /\ fuel' \in 0..MaxFuel
      /\ UNCHANGED <<planet, target, missing, landed, alive, hyperspace>>
  BY DEF SharedDummy, hero
<1> QED BY <1>1 DEF Sails, V!Next, V!Drift, voyagePhase

\* The keys of the flight: one of them begins a jump.
LEMMA FlightKeysSail ==
    ASSUME IInv, PauseGame \/ EscapeAction \/ HyperSpaceJump \/ CritterBoard
    PROVE  Sails
<1> USE DEF hero, course
<1>1. CASE PauseGame \/ CritterBoard
  BY <1>1, SameShip DEF PauseGame, CritterBoard
<1>2. CASE EscapeAction
  BY <1>2, TakenBack DEF EscapeAction, toTopMenu
<1>3. CASE HyperSpaceJump
  <2>1. /\ alive /\ ~landed /\ planet # NoPlanet /\ hyperspace' = "countdown"
        /\ target \in Planet \ {planet} /\ fuel >= Cost[planet][target]
        /\ UNCHANGED <<planet, target, fuel, missing, landed, alive>>
    BY <1>3, PlanetAssumption
    DEF HyperSpaceJump, hyperspaceAvailable, IInv, DockedIsNotFlying, NoInterceptor,
        ScreenHasPlanet, TypeOK
  <2>2. CASE hyperspace = "off"
    <3>1. voyagePhase = "orbit" /\ voyagePhase' = "hyper"
      BY <2>1, <2>2 DEF voyagePhase
    <3> QED BY <2>1, <3>1 DEF Sails, V!Next, V!BeginJump, V!InReach
  <2>3. CASE hyperspace # "off"
    BY <2>1, <2>3, SameShip
  <2> QED BY <2>2, <2>3
<1> QED BY <1>1, <1>2, <1>3

\* The planet menu: aiming, fuel, the launch.
LEMMA PlanetMenuSails ==
    ASSUME IInv, IInv', NoLostCaptain,
           PreviousContext \/ LaunchTab \/ PlanetClick \/ TradeFuel \/ SaveClick \/ MainMenuTab
    PROVE  Sails
<1> USE DEF hero, course
<1>1. context = "ePlanetMenu" /\ (landed \/ alive)
  BY DEF PreviousContext, LaunchTab, PlanetClick, TradeFuel, SaveClick, MainMenuTab,
         NoLostCaptain
<1>2. CASE PreviousContext \/ SaveClick
  BY <1>2, SameShip DEF PreviousContext, SaveClick
<1>3. CASE LaunchTab
  <2>1. CASE landed /\ planet # NoPlanet /\ launch
    BY <1>1, <2>1, LaunchSails
  <2>2. CASE ~(landed /\ planet # NoPlanet /\ launch)
    BY <1>3, <2>2, SameShip DEF LaunchTab
  <2> QED BY <2>1, <2>2
<1>4. CASE PlanetClick
  <2>1. PICK p \in Planet : fuel >= Cost[planet][p] /\ target' = p
    BY <1>4 DEF PlanetClick
  <2>2. /\ UNCHANGED <<planet, fuel, missing, landed, alive>> /\ hyperspace' = "off"
        /\ planet # NoPlanet
    BY <1>4 DEF PlanetClick
  <2>3. /\ voyagePhase \in {"docked", "orbit", "hyper"}
        /\ voyagePhase' = IF voyagePhase = "hyper" THEN "orbit" ELSE voyagePhase
    BY <1>1, <2>2 DEF voyagePhase
  <2> QED BY <2>1, <2>2, <2>3 DEF Sails, V!Next, V!Aim, V!InReach
<1>5. CASE TradeFuel
  <2>1. /\ landed /\ UNCHANGED <<planet, target, missing, landed>> /\ planet # NoPlanet
        /\ fuel' \in {fuel - 1, fuel + 1} /\ (missing # "hold" => fuel' \in 0..MaxFuel)
    BY <1>5 DEF TradeFuel, IInv, TypeOK
  <2>2. voyagePhase = "docked" /\ voyagePhase' = "docked"
    BY <1>1, <2>1 DEF voyagePhase
  <2> QED BY <2>1, <2>2 DEF Sails, V!Next, V!Refuel
<1>6. CASE MainMenuTab
  BY <1>6, TakenBack DEF MainMenuTab, goToMainMenu, toTopMenu
<1> QED BY <1>2, <1>3, <1>4, <1>5, <1>6

\* The message boxes: customs, loading, and what Uleg takes.
LEMMA MessageBoxSails ==
    ASSUME IInv, IInv',
           \/ BackToPlanetMenu \/ IllegalTradeDecision \/ SaveGame
           \/ LoadGameSlot \/ MainMenuButton \/ QuitButton
    PROVE  Sails
<1> USE DEF hero, course
<1>1. \A a \in {"UlegRefuse", "IllegalTradeAccept", "IllegalTradeRefuse"} :
        Pressed(a) => planet # NoPlanet /\ landed
  BY GameBoxes, PlanetAssumption
  DEF Pressed, IInv, TypeOK, ScreenHasPlanet, BoxInDock, PlanetAssumption
<1>2. CASE BackToPlanetMenu
  <2>0. UNCHANGED <<planet, target, landed, alive, hyperspace>>
    BY <1>2 DEF BackToPlanetMenu
  <2>1. CASE UNCHANGED <<fuel, missing>>
    BY <2>0, <2>1, SameShip
  <2>2. CASE Pressed("UlegRefuse") /\ fuel' = StartFuel /\ missing' # "hold"
    <3>1. planet # NoPlanet /\ landed
      BY <1>1, <2>2
    <3>2. voyagePhase = "docked" /\ voyagePhase' = "docked"
      BY <2>0, <3>1 DEF voyagePhase
    <3>3. fuel' \in 0..MaxFuel
      BY <2>2, FuelAssumption DEF FuelAssumption
    <3> QED BY <2>0, <2>2, <3>2, <3>3 DEF Sails, V!Next, V!Refuel
  <2> QED BY <1>2, <2>1, <2>2 DEF BackToPlanetMenu, Missing
<1>3. CASE IllegalTradeDecision
  BY <1>1, <1>3, LaunchSails DEF IllegalTradeDecision
<1>4. CASE SaveGame \/ QuitButton
  BY <1>4, SameShip DEF SaveGame, QuitButton
<1>5. CASE LoadGameSlot
  <2>1. CASE UNCHANGED <<landed, hyperspace, course>>
    BY <1>5, <2>1, SameShip DEF LoadGameSlot
  <2>2. CASE /\ landed' = TRUE /\ fuel' \in 0..MaxFuel
             /\ target' \in Planet \cup {NoPlanet} /\ planet' \in Planet
    <3>1. voyagePhase' = "docked"
      BY <2>2, PlanetAssumption DEF voyagePhase, PlanetAssumption
    <3> QED BY <2>2, <3>1 DEF Sails, V!Next, V!Restore
  <2>3. CASE /\ fuel' \in 0..MaxFuel /\ missing' = "hold"
             /\ target' \in Planet \cup {NoPlanet} /\ planet' = NoPlanet
    <3>1. voyagePhase' = "none"
      BY <2>3 DEF voyagePhase
    <3> QED BY <2>3, <3>1 DEF Sails, V!Next, V!RestoreNothing
  <2> QED BY <1>5, <2>1, <2>2, <2>3 DEF LoadGameSlot
<1>6. CASE MainMenuButton
  BY <1>6, TakenBack DEF MainMenuButton, goToMainMenu, toTopMenu
<1> QED BY <1>2, <1>3, <1>4, <1>5, <1>6

\* The main menu: a new campaign, or a countdown taken back.
LEMMA MenuSails ==
    ASSUME IInv, MenuMove \/ NewCampaign \/ LoadGame \/ Quit
    PROVE  Sails
<1> USE DEF hero, course
<1>1. CASE MenuMove
  BY <1>1, TakenBack DEF MenuMove
<1>2. CASE NewCampaign
  <2>1. /\ landed' /\ planet' = Home /\ target' = Home /\ fuel' = StartFuel
        /\ missing' = "nothing"
    BY <1>2 DEF NewCampaign
  <2>2. voyagePhase' = "docked"
    BY <2>1, PlanetAssumption DEF voyagePhase, PlanetAssumption
  <2> QED BY <2>1, <2>2 DEF Sails, V!Next, V!Begin
<1>3. CASE LoadGame \/ Quit
  BY <1>3, SameShip DEF LoadGame, Quit
<1> QED BY <1>1, <1>2, <1>3

\* Every step of the program is a step of the voyage, or none.
LEMMA NextSails ==
    ASSUME IInv, IInv', NoLostCaptain, [Next]_vars
    PROVE  Sails
<1>1. CASE GameStep
  BY <1>1, GameStepSails
<1>2. CASE HyperspaceTick \/ ApproachTick \/ GameDone \/ OtherDone \/ InputDone \/ Video
  BY <1>2, LoopSails
<1>3. CASE Jump
  BY <1>3, JumpSails
<1>4. CASE InputEvent
  BY <1>4, FlightKeysSail, PlanetMenuSails, MessageBoxSails, MenuSails, LoopSails
  DEF InputEvent
<1>5. CASE UNCHANGED vars
  BY <1>5, SameShip DEF vars, hero, course
<1>6. CASE SharedDummy
  BY <1>6, SharedDummySails
<1> QED BY <1>1, <1>2, <1>3, <1>4, <1>5, <1>6 DEF Next, Ended

\* A wreck is never in front of the planet menu.
THEOREM WreckStaysOut == Spec => []NoLostCaptain
<1>1. Init => NoLostCaptain
  BY DEF Init, NoLostCaptain
<1>2. IInv /\ NoLostCaptain /\ [Next]_vars => NoLostCaptain'
  BY NoLostCaptainKept
<1> QED BY <1>1, <1>2, Invariance, PTL DEF Spec

\* The session implements the voyage: the ship moves only by a jump that was
\* announced, aimed elsewhere and paid for, and is docked, in flight or lost
\* whatever the screen shows.
THEOREM VoyageImplemented == Spec => FollowsVoyage
<1>1. Init => V!Init
  BY DEF Init, V!Init, voyagePhase
<1>2. IInv /\ IInv' /\ NoLostCaptain /\ [Next]_vars => [V!Next]_(V!vars)
  BY NextSails DEF Sails
<1> QED BY <1>1, <1>2, Invariance, WreckStaysOut, PTL DEF Spec, FollowsVoyage, V!Spec
=============================================================================
