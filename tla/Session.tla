------------------------------ MODULE Session ------------------------------
(***************************************************************************)
(* One run of SOTU: the loop of Game::run, the context it is in (main      *)
(* menu, orbit, planet menu, message box, pause), and the flight of the    *)
(* ship - waves of enemies, docking, hyperspace.  The program is one       *)
(* thread; the interleavings are those of the loop's phases with the       *)
(* stopwatch, which runs between any two statements, and with the events   *)
(* SDL delivers during Input::update.                                      *)
(*                                                                         *)
(* Data is abstract: a time stamp is the stretch of its schedule it lies   *)
(* in, a planet is a value, the contents of quests, holds and save files   *)
(* belong to other modules.                                                *)
(***************************************************************************)
EXTENDS Integers

CONSTANTS
    Planet,      \* the planets of the galaxy
    Home,        \* XEN, where a campaign starts
    NoPlanet,    \* the null pointer, before a campaign or after a cut file
    Cost,        \* Cost[p][q]: fuel of the jump from p to q, (int)(dist + 0.92)
    MaxFuel,     \* the most fuel a ship holds (_maxQty in the code)
    StartFuel,   \* the fuel of a new campaign
    MaxWaves,    \* bound: the most enemy waves one orbit has
    MaxEnemies,  \* bound: the most enemies one wave has
    FrameCap     \* TRUE iff the configuration sets maxFPS

ASSUME PlanetAssumption == Home \in Planet /\ NoPlanet \notin Planet
ASSUME FuelAssumption ==
    /\ MaxFuel \in Nat
    /\ StartFuel \in 0..MaxFuel
    /\ Cost \in [Planet -> [Planet -> Nat]]
ASSUME WaveAssumption == MaxWaves \in Nat \ {0} /\ MaxEnemies \in Nat \ {0}
ASSUME FrameCapAssumption == FrameCap \in BOOLEAN

VARIABLES
    pc,          \* where Game::run is in its loop
    context,     \* Game::_context
    previous,    \* Game::_previousContext
    running,     \* GameState::stopwatch is not paused
    landed,      \* Game::_landed
    hyperspace,  \* how long ago _hyperspaceCount was set, "off" when it is 0
    approach,    \* how long ago _spaceStationApproach was set, "none" when 0
    alive,       \* Hero::_isAlive
    hurt,        \* Hero::_energy or _shieldEnergy is below its full value
    waves,       \* waves still to come: the sum of getCounts' a, e and r
    enemies,     \* GameState::numObjects
    planet,      \* Game::_currentPlanet
    target,      \* PlanetManager::_hyperspaceTarget
    fuel,        \* the quantity of "Fuel" in Game::_cargo
    missing,     \* what a cut save file has left out of the game: see Missing
    box,         \* the actions of the message box's two buttons
    depth,       \* how far below the top menu MenuManager::_currentMenu is
    board,       \* Video::_boardVisible
    isAlive      \* GameState::isAlive, the condition of the main loop

screen == <<context, previous, running, box>>
hero   == <<alive, hurt>>
fight  == <<waves, enemies>>
course == <<planet, target, fuel, missing>>
vars   == <<pc, screen, landed, hyperspace, approach, hero, fight, course,
            depth, board, isAlive>>

Phase      == {"game", "other", "input", "video", "end", "crash"}
Context    == {"eUnknown", "eMenu", "eInGame", "ePlanetMenu", "eMessageBox", "ePaused"}
Countdown  == {"off", "countdown", "tunnel", "due"}
Approach   == {"none", "near", "reached"}
MenuDepth  == 0..3        \* the depth of data/system/Menu.xml
NewCampaignDepth == 2     \* "New game", "Continue", then "Begin Chapter One"

\* A save file ends with the current planet, the cargo ("Fuel" its last row)
\* and, after the quest, the hyperspace target.  Of a file that is cut
\* loadGame reads what is there: the target may be missing, or all three.
Missing == {"nothing", "course", "hold"}

Button(ok, cancel) == [ok |-> ok, cancel |-> cancel]
NoBox          == Button("none", "none")
IllegalBox     == Button("IllegalTradeAccept", "IllegalTradeRefuse")
UlegBox        == Button("UlegAccept", "UlegRefuse")
TheEndBox      == Button("Quit", "PlanetMenu")
NoticeBox      == Button("PlanetMenu", "none")
AskSaveBox     == Button("SaveGame", "PlanetMenu")
SaveFileBox    == Button("SaveGameSlot", "PlanetMenu")
Mut_LoadFileBox == Button("LoadGameSlot", "PlanetMenu")  \* cancels of load and save swapped
LoadFileBox    == Button("LoadGameSlot", "MainMenu")
LoadFailedBox  == Button("MainMenu", "none")
QuestBoxes == {NoticeBox, UlegBox, TheEndBox}
Box == QuestBoxes \cup {NoBox, IllegalBox, AskSaveBox, SaveFileBox,
                        LoadFileBox, LoadFailedBox}

----------------------------------------------------------------------------
(* Game::switchContext.  The stopwatch runs in eInGame only: it starts on  *)
(* the way in and pauses on the way out; "clock" is its state on entry.    *)
(* A message box can be answered only while it is shown, so the model      *)
(* forgets its buttons when another context takes over.                    *)

\* Mutant: leaving the flight does not pause the stopwatch.
Mut_ClockIn(c, clock) == clock \/ c = "eInGame"

ClockIn(c, clock) ==
    IF c = context THEN clock
    ELSE c = "eInGame" \/ (clock /\ context # "eInGame")

switchContextFrom(c, clock) ==
    /\ context' = c
    /\ previous' = IF c = context THEN previous ELSE context
    /\ running' = ClockIn(c, clock)

switchContext(c) == switchContextFrom(c, running) /\ box' = NoBox

\* Mutant: setPreviousContext is forgotten.
Mut_switchContextForGood(c) == switchContext(c)

\* switchContext(c) followed by setPreviousContext(c): no way back from c.
switchContextForGood(c) ==
    /\ context' = c
    /\ previous' = c
    /\ running' = ClockIn(c, running)
    /\ box' = NoBox

\* MessageBoxManager::setup(b) and switchContext(eMessageBox).
popBox(b) == switchContextFrom("eMessageBox", running) /\ box' = b

----------------------------------------------------------------------------
(* Game::reset and Game::startNewGame: a new orbit.  EnemyWaves::reset     *)
(* draws the number of waves, selectLevel takes the first of them and      *)
(* activateLevel puts its enemies in play.  Hero::reset spares the energy  *)
(* only when a jump is running.                                            *)

\* Mutant: Starfield::update clears _hyperspaceCount before the jump.
Mut_NewOrbit ==
    /\ \E total \in 1..MaxWaves : waves' = total - 1
    /\ enemies' \in 1..MaxEnemies
    /\ alive' = TRUE /\ hurt' = FALSE

NewOrbit ==
    /\ \E total \in 1..MaxWaves : waves' = total - 1
    /\ enemies' \in 1..MaxEnemies
    /\ alive' = TRUE
    /\ hurt' = (hurt /\ hyperspace # "off")

\* Mutant: nobody clears _hyperspaceCount after the jump.
Mut_startNewGame ==
    /\ NewOrbit
    /\ UNCHANGED hyperspace
    /\ switchContextFrom("eInGame", TRUE) /\ box' = NoBox
    /\ landed' = FALSE

startNewGame ==
    /\ NewOrbit
    /\ hyperspace' = "off"
    /\ switchContextFrom("eInGame", TRUE)   \* the stopwatch was just reset
    /\ box' = NoBox
    /\ landed' = FALSE

\* A launch leaves _spaceStationApproach alone; the clock it refers to
\* restarts from 0, so its 7 seconds are ahead again.
launch ==
    /\ startNewGame
    /\ approach' = IF approach = "none" THEN "none" ELSE "near"
    /\ UNCHANGED course

\* Mutant: the fuel is computed after the planet has changed.
Mut_hyperspaceJump ==
    /\ startNewGame
    /\ fuel' = fuel - Cost[target][target]
    /\ planet' = target
    /\ approach' = "none"
    /\ UNCHANGED <<target, missing>>

\* Game::hyperspaceJump, called by Starfield::update.
hyperspaceJump ==
    /\ startNewGame
    /\ fuel' = fuel - Cost[planet][target]
    /\ planet' = target
    /\ approach' = "none"
    /\ UNCHANGED <<target, missing>>

\* Mutant: the approach to the station is not asked for.
Mut_hyperspaceAvailable ==
    target \notin {planet, NoPlanet} /\ fuel >= Cost[planet][target]

\* Game::getHyperspaceAvailable() = "OK"; see NullFollowed for a null target.
hyperspaceAvailable ==
    /\ approach = "none"
    /\ target \notin {planet, NoPlanet}
    /\ fuel >= Cost[planet][target]

----------------------------------------------------------------------------
(* Time.  The stopwatch moves while it runs, whatever the loop is doing.   *)

Over == pc \in {"end", "crash"}

HyperspaceTick ==
    /\ ~Over /\ running
    /\ \/ hyperspace = "countdown" /\ hyperspace' = "tunnel"   \* 10 s
       \/ hyperspace = "tunnel" /\ hyperspace' = "due"         \* 20 s
    /\ UNCHANGED <<pc, screen, landed, approach, hero, fight, course, depth,
                   board, isAlive>>

ApproachTick ==
    /\ ~Over /\ running
    /\ approach = "near" /\ approach' = "reached"              \* 7 s
    /\ UNCHANGED <<pc, screen, landed, hyperspace, hero, fight, course, depth,
                   board, isAlive>>

----------------------------------------------------------------------------
(* Game::updateInGameLogic: up to 11 rounds of StageManager::update and    *)
(* ParticleGroupManager::update; the model allows any number.  The loop    *)
(* does not look at the context again, so the rounds go on after the one   *)
(* that docked.  A frame that begins with ten or more seconds of           *)
(* hyperspace behind it changes nothing and is skipped (see Video).        *)

\* ParticleGroupManager::update, with n enemies and the approach at a after
\* StageManager::update: enemies die, the hero is hurt, healed or killed.
ParticlesUpdate(n, a) ==
    /\ enemies' \in 0..n
    /\ \/ /\ alive /\ hurt' \in BOOLEAN
          /\ approach' = a
          /\ UNCHANGED <<alive, hyperspace>>
       \/ /\ alive /\ alive' = FALSE /\ hurt' = TRUE
          /\ hyperspace' = "off" /\ approach' = "none"
       \/ /\ ~alive
          /\ approach' = a
          /\ UNCHANGED <<hero, hyperspace>>

NextWave ==
    /\ pc = "game" /\ enemies = 0 /\ waves > 0
    /\ waves' = waves - 1
    /\ \E n \in 1..MaxEnemies : ParticlesUpdate(n, approach)
    /\ UNCHANGED <<pc, screen, landed, course, depth, board, isAlive>>

Fight ==
    /\ pc = "game" /\ enemies # 0
    /\ ParticlesUpdate(enemies, approach)
    /\ UNCHANGED <<pc, screen, landed, waves, course, depth, board, isAlive>>

OrbitClear == pc = "game" /\ enemies = 0 /\ waves = 0

LeavingOrbit ==
    /\ OrbitClear /\ hyperspace # "off"
    /\ ParticlesUpdate(0, approach)
    /\ UNCHANGED <<pc, screen, landed, waves, course, depth, board, isAlive>>

ApproachStation ==
    /\ OrbitClear /\ hyperspace = "off" /\ approach # "reached"
    /\ ParticlesUpdate(0, "near")
    /\ UNCHANGED <<pc, screen, landed, waves, course, depth, board, isAlive>>

\* The station is reached: the quest's message box on a special planet, the
\* planet menu on any other.
DockAtStation ==
    /\ OrbitClear /\ hyperspace = "off" /\ approach = "reached"
    /\ landed' = TRUE
    /\ \/ \E b \in QuestBoxes : popBox(b)
       \/ switchContextForGood("ePlanetMenu")
    /\ ParticlesUpdate(0, "none")
    /\ UNCHANGED <<pc, waves, course, depth, board, isAlive>>

GameStep == NextWave \/ Fight \/ LeavingOrbit \/ ApproachStation \/ DockAtStation

GameDone ==
    /\ pc = "game" /\ pc' = "other"
    /\ UNCHANGED <<screen, landed, hyperspace, approach, hero, fight, course,
                   depth, board, isAlive>>

----------------------------------------------------------------------------
(* Game::updateOtherLogic runs Starfield::update in every context: a jump  *)
(* that is due happens whatever is on the screen.                          *)

Jump ==
    /\ pc = "other" /\ hyperspace = "due"
    /\ hyperspaceJump
    /\ UNCHANGED <<pc, depth, board, isAlive>>

OtherDone ==
    /\ pc = "other" /\ pc' = "input"
    /\ UNCHANGED <<screen, landed, hyperspace, approach, hero, fight, course,
                   depth, board, isAlive>>

----------------------------------------------------------------------------
(* Input::update: any number of events.  Each goes to the interceptor of   *)
(* the context that is current when it arrives, and to the bound action    *)
(* when there is none (eInGame and ePaused).                               *)

NoInterceptor == context \in {"eInGame", "ePaused"}

PauseGame ==
    /\ pc = "input" /\ NoInterceptor
    /\ switchContext(IF context = "ePaused" THEN "eInGame" ELSE "ePaused")
    /\ UNCHANGED <<pc, landed, hyperspace, approach, hero, fight, course, depth,
                   board, isAlive>>

\* MenuManager::exitMenu repeated until the top; loadMenuLevel, called for
\* every level left, ends a countdown.
toTopMenu ==
    /\ depth' = 0
    /\ hyperspace' = IF depth = 0 THEN hyperspace ELSE "off"

EscapeAction ==
    /\ pc = "input" /\ NoInterceptor
    /\ \/ /\ alive /\ switchContext("ePlanetMenu")
          /\ UNCHANGED <<hyperspace, depth>>
       \/ ~alive /\ switchContext("eMenu") /\ toTopMenu
    /\ UNCHANGED <<pc, landed, approach, hero, fight, course, board, isAlive>>

HyperSpaceJump ==
    /\ pc = "input" /\ context = "eInGame" /\ alive
    /\ hyperspaceAvailable
    /\ hyperspace' = "countdown"
    /\ UNCHANGED <<pc, screen, landed, approach, hero, fight, course, depth,
                   board, isAlive>>

CritterBoard ==
    /\ pc = "input" /\ NoInterceptor
    /\ board' = ~board
    /\ UNCHANGED <<pc, screen, landed, hyperspace, approach, hero, fight, course,
                   depth, isAlive>>

\* ESC in the planet menu.
PreviousContext ==
    /\ pc = "input" /\ context = "ePlanetMenu"
    /\ previous # "eUnknown"
    /\ switchContext(previous)
    /\ UNCHANGED <<pc, landed, hyperspace, approach, hero, fight, course, depth,
                   board, isAlive>>

\* The "Launch" tab: action NewGame.
LaunchTab ==
    /\ pc = "input" /\ context = "ePlanetMenu"
    /\ \/ /\ ~landed /\ switchContext("eInGame")
          /\ UNCHANGED <<landed, hyperspace, approach, hero, fight, course>>
       \/ /\ landed /\ planet # NoPlanet
          /\ popBox(IllegalBox)                  \* illegal goods were found
          /\ UNCHANGED <<landed, hyperspace, approach, hero, fight, course>>
       \/ landed /\ planet # NoPlanet /\ launch
    /\ UNCHANGED <<pc, depth, board, isAlive>>

\* Mutant: setHyperspaceTarget leaves a countdown running.
Mut_PlanetClick ==
    /\ pc = "input" /\ context = "ePlanetMenu" /\ planet # NoPlanet
    /\ \E p \in Planet : fuel >= Cost[planet][p] /\ target' = p
    /\ UNCHANGED <<pc, screen, landed, hyperspace, approach, hero, fight, planet,
                   fuel, missing, depth, board, isAlive>>

\* PlanetManager::planetClick and setHyperspaceTarget.
PlanetClick ==
    /\ pc = "input" /\ context = "ePlanetMenu" /\ planet # NoPlanet
    /\ \E p \in Planet : fuel >= Cost[planet][p] /\ target' = p
    /\ hyperspace' = "off"
    /\ UNCHANGED <<pc, screen, landed, approach, hero, fight, planet, fuel,
                   missing, depth, board, isAlive>>

\* Mutant: fuel is sold out of an empty tank.
Mut_TradeFuel ==
    /\ pc = "input" /\ context = "ePlanetMenu" /\ landed /\ planet # NoPlanet
    /\ fuel' = fuel - 1 \/ (fuel < MaxFuel /\ fuel' = fuel + 1)
    /\ UNCHANGED <<pc, screen, landed, hyperspace, approach, hero, fight, planet,
                   target, missing, depth, board, isAlive>>

\* PlanetManager::tradeClick on the fuel row; money and room are abstract.
TradeFuel ==
    /\ pc = "input" /\ context = "ePlanetMenu" /\ landed /\ planet # NoPlanet
    /\ \/ fuel > 0 /\ fuel' = fuel - 1
       \/ fuel < MaxFuel /\ fuel' = fuel + 1
    /\ UNCHANGED <<pc, screen, landed, hyperspace, approach, hero, fight, planet,
                   target, missing, depth, board, isAlive>>

\* PlanetManager::saveClick; without money the box only says so.
SaveClick ==
    /\ pc = "input" /\ context = "ePlanetMenu" /\ landed
    /\ \E b \in {AskSaveBox, NoticeBox} : popBox(b)
    /\ UNCHANGED <<pc, landed, hyperspace, approach, hero, fight, course, depth,
                   board, isAlive>>

goToMainMenu == switchContext("eMenu") /\ toTopMenu

\* The "Quit" tab of the planet menu: action MainMenu.
MainMenuTab ==
    /\ pc = "input" /\ context = "ePlanetMenu"
    /\ goToMainMenu
    /\ UNCHANGED <<pc, landed, approach, hero, fight, course, board, isAlive>>

----------------------------------------------------------------------------
(* The buttons of the message box (ActionSelectable::select).              *)

Pressed(action) ==
    /\ pc = "input" /\ context = "eMessageBox"
    /\ action \in {box.ok, box.cancel}

\* The buttons that return to the dock for good.  Refusing Uleg costs the
\* ship: the player gets another one with the fuel of a new campaign.
BackToPlanetMenu ==
    /\ \/ /\ Pressed("PlanetMenu") \/ Pressed("UlegAccept")
          /\ UNCHANGED <<fuel, missing>>
       \/ /\ Pressed("UlegRefuse") /\ fuel' = StartFuel
          /\ missing' = IF missing = "hold" THEN "course" ELSE missing
    /\ switchContextForGood("ePlanetMenu")
    /\ UNCHANGED <<pc, landed, hyperspace, approach, hero, fight, planet, target,
                   depth, board, isAlive>>

IllegalTradeDecision ==
    /\ \E a \in {"IllegalTradeAccept", "IllegalTradeRefuse"} : Pressed(a)
    /\ launch
    /\ UNCHANGED <<pc, depth, board, isAlive>>

SaveGame ==
    /\ \/ Pressed("SaveGame") /\ box' = SaveFileBox
       \/ /\ Pressed("SaveGameSlot")
          /\ box' = NoticeBox                    \* saved, or failed
    /\ UNCHANGED <<pc, context, previous, running, landed, hyperspace, approach,
                   hero, fight, course, depth, board, isAlive>>

\* Game::loadGame asks for the header only.  Of a cut file the coordinates
\* that are not read stay uninitialised: getPlanetAt finds any planet there,
\* or none and returns null.
LoadGameSlot ==
    /\ Pressed("LoadGameSlot")
    /\ \/ /\ box' = LoadFailedBox
          /\ UNCHANGED <<context, previous, running, landed, hyperspace, approach,
                         course>>
       \/ /\ switchContextForGood("ePlanetMenu")
          /\ landed' = TRUE /\ hyperspace' = "off" /\ approach' = "none"
          /\ missing' \in Missing /\ fuel' \in 0..MaxFuel
          /\ planet' \in Planet \cup (IF missing' = "hold" THEN {NoPlanet} ELSE {})
          /\ target' \in Planet \cup (IF missing' = "nothing" THEN {} ELSE {NoPlanet})
    /\ UNCHANGED <<pc, hero, fight, depth, board, isAlive>>

MainMenuButton ==
    /\ Pressed("MainMenu")
    /\ goToMainMenu
    /\ UNCHANGED <<pc, landed, approach, hero, fight, course, board, isAlive>>

QuitButton ==
    /\ Pressed("Quit")
    /\ isAlive' = FALSE
    /\ UNCHANGED <<pc, screen, landed, hyperspace, approach, hero, fight, course,
                   depth, board>>

----------------------------------------------------------------------------
(* The main menu.  Every level shown is loaded by loadMenuLevel, which     *)
(* ends a countdown.                                                       *)

InMenu == pc = "input" /\ context = "eMenu"

MenuMove ==
    /\ InMenu
    /\ \/ depth + 1 \in MenuDepth /\ depth' = depth + 1   \* makeMenu
       \/ depth > 0 /\ depth' = depth - 1                \* exitMenu
    /\ hyperspace' = "off"
    /\ UNCHANGED <<pc, screen, landed, approach, hero, fight, course, board,
                   isAlive>>

\* Game::startNewCampaign; Map::recreate chooses the planet and the target.
NewCampaign ==
    /\ InMenu /\ depth = NewCampaignDepth
    /\ switchContext("ePlanetMenu")
    /\ landed' = TRUE /\ hyperspace' = "off"
    /\ planet' = Home /\ target' = Home /\ fuel' = StartFuel
    /\ missing' = "nothing"
    /\ UNCHANGED <<pc, approach, hero, fight, depth, board, isAlive>>

LoadGame ==
    /\ InMenu /\ depth = 0
    /\ popBox(LoadFileBox)
    /\ UNCHANGED <<pc, landed, hyperspace, approach, hero, fight, course, depth,
                   board, isAlive>>

\* The window is closed, the quick-exit key is hit or the menu is left by
\* its top: the loop ends after the rest of this frame.
Quit ==
    /\ pc = "input" /\ isAlive
    /\ isAlive' = FALSE
    /\ UNCHANGED <<pc, screen, landed, hyperspace, approach, hero, fight, course,
                   depth, board>>

InputDone ==
    /\ pc = "input" /\ pc' = "video"
    /\ UNCHANGED <<screen, landed, hyperspace, approach, hero, fight, course,
                   depth, board, isAlive>>

----------------------------------------------------------------------------
(* What only a game from a cut file does.                                  *)

\* The rows a cut file leaves out of the cargo share the one dummy that
\* Cargo::findItem returns for them: trading any of these goods, shooting
\* rockets and collecting artifacts all move what the jumps take for fuel.
\* The model moves it at the end of the logic step, within MaxFuel.
SharedDummy ==
    /\ pc = "other" /\ missing = "hold" /\ planet # NoPlanet
    /\ context \in {"eInGame", "ePlanetMenu"}
    /\ fuel' \in 0..MaxFuel
    /\ UNCHANGED <<pc, screen, landed, hyperspace, approach, hero, fight, planet,
                   target, missing, depth, board, isAlive>>

\* The handlers that follow a null pointer: illegalTradeCheck and tradeClick
\* in the dock, getHyperspaceAvailable in flight, savePlanetCoords.
NullFollowed ==
    \/ context = "ePlanetMenu" /\ landed /\ planet = NoPlanet
    \/ context = "eInGame" /\ alive /\ approach = "none" /\ target = NoPlanet
    \/ context = "eMessageBox" /\ box = SaveFileBox /\ NoPlanet \in {planet, target}

Crash ==
    /\ pc = "input" /\ NullFollowed
    /\ pc' = "crash"
    /\ UNCHANGED <<screen, landed, hyperspace, approach, hero, fight, course,
                   depth, board, isAlive>>

InputEvent ==
    \/ PauseGame \/ EscapeAction \/ HyperSpaceJump \/ CritterBoard
    \/ PreviousContext \/ LaunchTab \/ PlanetClick \/ TradeFuel \/ SaveClick
    \/ MainMenuTab
    \/ BackToPlanetMenu \/ IllegalTradeDecision \/ SaveGame \/ LoadGameSlot
    \/ MainMenuButton \/ QuitButton
    \/ MenuMove \/ NewCampaign \/ LoadGame
    \/ Quit \/ Crash

----------------------------------------------------------------------------
(* Video::update and the head of the main loop.  The status board of the   *)
(* flight calls EnemyWaves::getCounts, which takes an approach back while  *)
(* waves are left; nothing of it happens when maxFPS skips the frame.      *)

\* Mutants: the strange bug is not fixed; it is fixed once too often.
Mut_getCounts == UNCHANGED approach
Mut_getCountsAlways == approach' = "none"

getCounts ==
    approach' = IF waves > 0 THEN "none" ELSE approach

BoardDrawn == board /\ NoInterceptor /\ hyperspace \in {"off", "countdown"}

\* Mutant: the loop looks at the context before it looks at isAlive.
Mut_NextFrame ==
    pc' = IF context = "eInGame" THEN "game"
          ELSE IF ~isAlive THEN "end" ELSE "other"

NextFrame ==
    pc' = IF ~isAlive THEN "end"
          ELSE IF context = "eInGame" /\ hyperspace \in {"off", "countdown"}
               THEN "game" ELSE "other"

\* A drawn frame follows the target to say whether a jump is possible, and
\* the planet on the trading screen.
NullDrawn ==
    \/ /\ NoInterceptor /\ alive /\ target = NoPlanet
       /\ hyperspace = "off" /\ approach = "none"
    \/ context = "ePlanetMenu" /\ planet = NoPlanet

Video ==
    /\ pc = "video"
    /\ \/ BoardDrawn /\ ~NullDrawn /\ getCounts /\ NextFrame
       \/ /\ ~BoardDrawn \/ FrameCap
          /\ UNCHANGED approach /\ NextFrame
       \/ NullDrawn /\ pc' = "crash" /\ UNCHANGED approach
    /\ UNCHANGED <<screen, landed, hyperspace, hero, fight, course, depth, board,
                   isAlive>>

Ended == Over /\ UNCHANGED vars

----------------------------------------------------------------------------
\* Game::init and the start of Game::run.  _landed is not initialised.
Init ==
    /\ pc = "other"
    /\ context = "eMenu" /\ previous = "eUnknown" /\ running = FALSE
    /\ landed \in BOOLEAN
    /\ hyperspace = "off" /\ approach = "none"
    /\ alive = TRUE /\ hurt = FALSE
    /\ waves = 0 /\ enemies = 0
    /\ planet = NoPlanet /\ target = NoPlanet /\ fuel = 0 /\ missing = "nothing"
    /\ box = NoBox /\ depth = 0 /\ board = TRUE /\ isAlive = TRUE

Next ==
    \/ HyperspaceTick \/ ApproachTick
    \/ GameStep \/ GameDone
    \/ Jump \/ OtherDone
    \/ InputEvent \/ InputDone
    \/ SharedDummy
    \/ Video
    \/ Ended

\* The loop never stalls in a phase: every phase is finite code.  The time
\* of a frame is real time, so both kinds of logic step and both clocks get
\* their turn again and again; no input event is ever promised.
Fairness ==
    /\ WF_vars(GameDone) /\ WF_vars(OtherDone)
    /\ WF_vars(InputDone) /\ WF_vars(Video)
    /\ SF_vars(GameStep) /\ SF_vars(Jump)
    /\ SF_vars(HyperspaceTick) /\ SF_vars(ApproachTick)

Spec     == Init /\ [][Next]_vars
FairSpec == Spec /\ Fairness

----------------------------------------------------------------------------
(* Properties.                                                             *)

\* Every variable stays in its range; the fuel gauge in particular, if it is
\* the ship's own, never goes below zero nor above the tank, whatever jump
\* takes from it.
TypeOK ==
    /\ pc \in Phase
    /\ context \in Context \ {"eUnknown"}
    /\ previous \in Context
    /\ running \in BOOLEAN
    /\ landed \in BOOLEAN
    /\ hyperspace \in Countdown
    /\ approach \in Approach
    /\ alive \in BOOLEAN
    /\ hurt \in BOOLEAN
    /\ waves \in 0..MaxWaves
    /\ enemies \in 0..MaxEnemies
    /\ planet \in Planet \cup {NoPlanet}
    /\ target \in Planet \cup {NoPlanet}
    /\ missing \in Missing
    /\ fuel \in Int /\ (missing # "hold" => fuel \in 0..MaxFuel)
    /\ box \in Box
    /\ depth \in MenuDepth
    /\ board \in BOOLEAN
    /\ isAlive \in BOOLEAN

\* The stopwatch runs exactly while the flight is on the screen, although
\* Game::reset restarts it on its own and switchContext only compares the
\* contexts (Game.cpp switchContext, reset).
ClockRunsInGame == running <=> context = "eInGame"

\* A docked ship is never in flight: no path through the planet menu, the
\* message boxes and the main menu leads from the dock back to the orbit
\* except a launch (StageManager::update, "don't allow to go back").
DockedIsNotFlying == landed => ~NoInterceptor

\* No screen of a game is shown before there is a game, and so _currentPlanet
\* and _hyperspaceTarget, null until a campaign is begun or loaded, are never
\* followed, unless the game comes from a cut file.  Even then no ship flies
\* at no planet: the program has crashed before (ActionSelectable::select,
\* MessageBoxManager::file, loadGame, illegalTradeCheck).
GameHasPlanet ==
    /\ missing = "nothing" =>
         /\ pc # "crash"
         /\ context \in {"eInGame", "ePaused", "ePlanetMenu"} =>
                planet \in Planet /\ target \in Planet
    /\ NoInterceptor => planet \in Planet

\* The ship never approaches the station and counts down to hyperspace at
\* once (getHyperspaceAvailable, StageManager::update), and a docked ship
\* counts down to nothing.
OneManoeuvre ==
    /\ hyperspace = "off" \/ approach = "none"
    /\ landed => hyperspace = "off"

\* While a jump is pending the hero is alive, its target is another planet,
\* whatever file the game is from, and the fuel for it is on board if the
\* cargo has any, so hyperspaceJump can subtract it unchecked
\* (HyperSpaceJump::performAction, Hero::hit, setHyperspaceTarget).
JumpAffordable ==
    hyperspace # "off" =>
        /\ alive
        /\ planet \in Planet /\ target \in Planet
        /\ target # planet
        /\ missing # "hold" => fuel >= Cost[planet][target]

\* Once the board has been drawn, waves still to come mean that no approach
\* is under way when the logic runs (getCounts, "fixed strange bug").
NoStaleApproach ==
    pc = "game" /\ context = "eInGame" /\ board /\ waves > 0 => approach = "none"

\* The same without the board: what the comment claims to have fixed.
NeverStaleApproach ==
    pc = "game" /\ context = "eInGame" /\ waves > 0 => approach = "none"

\* A jump does not repair the ship: only the order "jump, then clear the
\* countdown" in Starfield::update keeps Hero::reset from restoring energy.
JumpDoesNotRepair ==
    [][ ~landed /\ ~landed' /\ planet' # planet => hurt' = hurt /\ alive ]_vars

\* "GAME OVER ... Press ESC to exit" (Video.cpp): a dead hero's flight leads
\* to the main menu only.
GameOverIsFinal ==
    [][ NoInterceptor /\ ~alive => context' \notin {"ePlanetMenu", "eMessageBox"} ]_vars

\* A jump that has left the orbit arrives, unless the player leaves the
\* flight, starts the countdown again or ends the program.
JumpArrives ==
    hyperspace \in {"tunnel", "due"} ~>
        (hyperspace \in {"off", "countdown"} \/ context # "eInGame" \/ Over)

\* A cleared orbit leads to the station, whatever became of the hero, unless
\* the player leaves the flight, jumps or ends the program.
ClearedOrbitDocks ==
    (context = "eInGame" /\ waves = 0 /\ enemies = 0) ~>
        (landed \/ hyperspace # "off" \/ context # "eInGame" \/ Over)

\* A program told to stop stops: no event of the same frame keeps it alive.
QuitEnds == ~isAlive ~> Over

\* The ship's voyage as Voyage promises it: it moves only by a jump that was
\* announced, aimed elsewhere and paid for in full, it takes on fuel only in
\* a dock, and it is docked, in flight or lost whatever screen is shown.
voyagePhase ==
    IF planet = NoPlanet THEN "none"
    ELSE IF landed THEN "docked"
    ELSE IF ~alive THEN "lost"
    ELSE IF hyperspace # "off" THEN "hyper"
    ELSE "orbit"

V == INSTANCE Voyage WITH phase <- voyagePhase, place <- planet, dest <- target,
                          gauge <- missing # "hold"

FollowsVoyage == V!Spec

============================================================================
