# SOTU in TLA+

SOTU ("Scum of the Universe", `src/trunk/sotu`) is a single-player space
shooter and trading game in C++ on SDL and OpenGL. The player flies from planet
to planet, fights waves of enemies in every orbit, docks, trades, follows a
quest in five chapters, and saves for money. This directory holds TLA+ models
of its logic, the TLC configurations that check them, and TLAPS proofs.

The program has one thread, so nothing here is about locks. Its hard behaviour
comes from three other sources. A stopwatch runs between any two statements
while the flight is on the screen. SDL delivers input events between the phases
of a frame, and each event goes to whichever screen is current when it arrives.
And a handful of plain fields (`_landed`, `_hyperspaceCount`,
`_spaceStationApproach`, `_previousContext`, `_questTargets`, ...) is written
from a dozen places on the assumption that some other field has some value.

## 1. Inventory

| component | state | operations | must hold |
|---|---|---|---|
| main loop and contexts (`game/Game.cpp`, `GameState`, `PausableTimer.hpp`) | `_context`, `_previousContext`, `stopwatch`, `isAlive` | `run`, `updateInGameLogic`, `updateOtherLogic`, `switchContext`, `previousContext`, `startNewGame`, `reset` | the stopwatch runs in flight and only there; a docked ship is on no flight screen; the program ends when told |
| flight (`Game.cpp`, `StageManager.cpp`, `Starfield.cpp`) | `_landed`, `_hyperspaceCount`, `_spaceStationApproach`, `_currentPlanet`, `_hyperspaceTarget`, fuel | `hyperspaceJump`, `getHyperspaceAvailable`, `StageManager::update`, `Starfield::update` | a jump is paid for, arrives and repairs nothing; approach and countdown exclude each other; a cleared orbit leads to the dock |
| menus, planet menu, message box (`MenuManager.cpp`, `Selectable.cpp`, `data/system/Menu.xml`) | current menu, buttons of the box, file-chooser slot | the actions of the buttons, ESC, tabs | no button works on a game that does not exist; no way back to a screen that is over |
| input (`Input.cpp`, `Keys.cpp`, `ActionCallbacks.cpp`) | interceptor, key bindings | `update`, `bind`, `unbindKeys` | one receiver for each event; an action keeps one key |
| enemy waves (`StageManager.cpp`) | totals and done by kind, "next" marks | `reset`, `getNextWave`, `getCounts` | board and stage agree; a refused surrender is answered; navies do not mix |
| story, standing, save (`Game.cpp`) | `_chapter`, `_questTargets`, `_galaxy`, `_rebelStatus`, `_empireStatus`, `_money`, the save file | `reachedSpecialPlanet`, `ulegAccept/Refuse`, `illegalTradeDecision`, `saveGame`, `loadGame` | the quest is never stuck; standing is not forgotten; a save is the game and costs what it says; a file cut short does no more harm than it must |
| trade and cargo (`Game.cpp`, `MenuManager.cpp`) | `Cargo`, marketplaces | `tradeClick`, `canBuy`, `getPrice`, `illegalTradeCheck` | hold, purse and maxima are respected; no contraband leaves under a clean name |
| galaxy (`Game.cpp`) | planets, sentiment, tech level, alien activity | `recreate`, `addPlanet`, `update`, `load`, `getPlanetAt` | prices follow the ruler; every planet has its turn; a saved planet is found again |
| hero (`Hero.cpp`) | energies, weapons, triggers, `_isAlive` | `reset`, `hit`, `addEnergy`, `move`, `weaponFire` | guns and shield are those of the equipment aboard; no control gets stuck in the game |
| particle groups (`ParticleGroup*`) | free list, used list, damage and time of death of each particle | `newParticle`, `update`, `reset`, `detectCollisions` | each particle in exactly one list; what was killed harms nobody |
| enemies (`BaseEnemy`, `SimpleEnemy`, `Boss1Enemy`, `EnemyFactory`) | move state, energy, counters in `GameState` | `update`, `hit`, `getNextPath` | the counters count; each enemy falls once |
| weapons, bonuses, effects (`Weapon*.cpp`, `Particles.cpp`) | per-particle data, the swarms of the boss | `update`, `hit` | a swarm leader can leave |
| skill and score | level, score | `updateSkill`, `incrementSkill` | limits of bullets and attackers are kept |
| configuration (`utils/Config.cpp`) | keywords, terms | read, update, remove, save | what is saved is what was set |
| archive and streams (`ResourceManager`, `zStream`, `tools/Packer.cpp`) | index, reference counts | select, get, release | - |
| video, audio, online update, OpenGL wrappers | - | draw, play | - |
| `curl/`, `tinyxml/`, `utils/lzma/` | third-party | | - |

How they interact. Each turn of `Game::run` calls the game logic (if the
context is `eInGame`), the other logic, input, audio and video. The game logic
calls `StageManager::update` and `ParticleGroupManager::update`; the latter
reaches `Hero::hit`, which clears the two timers of the flight. The other logic
calls `Starfield::update`, which performs a due jump in *every* context. Input
hands an event to the interceptor of the context (`switchContext` installs it)
or to the bound action. Buttons call back into `Game`. Video draws the status
board, which calls `EnemyWaves::getCounts`, which writes `_spaceStationApproach`.

`PROJECT.json` lists the hazards at their lines, with the properties aimed at each.

## 2. The modules

**`Session`** is the core: one run of the program. `pc` is the phase of the
loop (`game`, `other`, `input`, `video`), `end` or `crash`; every operation of the code
that changes the state of the game is an action, and actions of one phase may
occur any number of times, because a frame holds up to 11 rounds of logic and
any number of events. Correspondence:

| model | code |
|---|---|
| `context`, `previous`, `running` | `_context`, `_previousContext`, `!stopwatch._isPaused` |
| `landed`, `hyperspace`, `approach` | `_landed`, `_hyperspaceCount`, `_spaceStationApproach` |
| `waves`, `enemies` | waves not yet taken, `GameState::numObjects` |
| `planet`, `target`, `fuel` | `_currentPlanet`, `_hyperspaceTarget`, `_cargo["Fuel"]`; `NoPlanet` is null |
| `missing` | what a cut save file has left out: nothing, the course, or the hold as well |
| `box`, `depth`, `board` | the actions of the box's buttons, the menu level, `_boardVisible` |
| `alive`, `hurt` | `Hero::_isAlive`; energy or shield below full |
| `switchContextFrom`, `switchContextForGood` | `switchContext`, the same followed by `setPreviousContext` |
| `NextWave` .. `DockAtStation` | one round of `updateInGameLogic` |
| `Jump` | `Starfield::update` calling `hyperspaceJump`, then `hs = 0` |
| `InputEvent` | an event in `Input::update`, by screen |
| `Video`, `getCounts`, `NextFrame` | `Video::update` with and without the board; the head of the loop |

A time stamp is the stretch of its schedule it lies in: a countdown is `off`,
`countdown` (below 10 s), `tunnel` (below 20 s) or `due`; an approach is
`none`, `near` or `reached` (7 s). `HyperspaceTick` and `ApproachTick` may happen
between any two statements while the stopwatch runs. Two places of the code
depend on the finer reading and are kept: a launch resets the stopwatch but not
the approach (so it becomes `near` again), and `updateInGameLogic` reads the
countdown once per frame (`NextFrame`).

`loadGame` refuses a file without its header and no other, and `saveGame` can
leave a file that ends anywhere (run `saved`). So `LoadGameSlot` also loads cut
files: the coordinates that could not be read may be those of any planet or of
none, and then `_currentPlanet` or `_hyperspaceTarget` is null; if the cargo lacks
its last row, fuel is the dummy that `Cargo::findItem` returns for everything it
does not find (`SharedDummy`). The next handler or drawn frame that follows the
null pointer is a `Crash`. `GameHasPlanet` says that a game from a whole file
never gets there, and that a game from a cut file crashes before it takes off at
no planet.

**`Voyage`** is the abstract specification: where the ship is, what it is aimed
at, what the way costs. It says what a player relies on: the ship moves only by
a jump that was announced, aimed elsewhere and paid in full, takes on fuel only
in a dock, and is docked, in flight or lost whatever is on the screen.
`Session!FollowsVoyage` is the refinement, through
`V == INSTANCE Voyage WITH phase <- voyagePhase, place <- planet, dest <- target`
and a `gauge` that tells whether the fuel is the ship's own or the dummy of a cut
file, for which nothing about fuel is promised.

**`EnemyWaves`** opens the abstraction `waves` of `Session`: totals by kind as
`EnemyWaves::reset` draws them from a planet's sentiment and the player's
standing (C++ integer division towards zero included), the order
`getNextWave` takes them in, and the marks a refused surrender leaves. The
marks and totals survive a load, as in the code.

**`Campaign`** opens the contents of a dock: chapters, quest targets, the
planets the quest adds, standing, money and the save file. Fights and jumps are
left to `Session`; here a ship that left a dock can reach any other. Money is
counted in thousands, the price of a save. What `loadGame` makes of a file that is
cut is `CutFile`: a file that ends after its targets is as good as whole; one that
ends within them keeps some, and perhaps the beginning of a name (`Junk`)
(`TornLists`); one that ends before them has no target left, and money or
standings that nobody wrote (`Debt`, `Wild`; `LostGames`). `torn` marks such a
game. The properties hold of torn games as far as the code makes them hold:
their targets can be reached, the first one reached puts the story right again,
and the navies forget nothing. That the list may be empty, and the quest over
before its end, is what the cut costs.

**`Battle`** opens the fight that `Session` sees as a number of waves and
enemies. It extends **`ParticleGroup`**, the operations of one group on its two
linked lists, written as sequences in the order of the links. `at` says where
the round is: the stages, each group in the order of `Game::init`, each linked
pair of groups in the order the links were made. An action is the turn of one
particle, or one pair that touches. Positions are arbitrary: any path may end,
any bullet may leave the screen, any pair of linked particles may touch, in the
order the loops would find them.

| model | code |
|---|---|
| `pg[g].used`, `.free`, `.dead`, `.damage` | `_usedList`, `_freeList`, `tod = 0`, `damage` |
| `move`, `energy`, `numObjects`, `enemyAttackCount`, `enemyBulletCount` | the fields of `BaseEnemy` and `GameState` |
| `swarm.leader`, `.related`, `.attached`, `.last` | `SwarmLeader`/`SwarmElement`, `pInfo->related`, `extra.y`, `_lastLeft/_lastRight` |
| `Launch`, `pgmReset` | `Game::reset`, with `ParticleGroupManager::reset` |
| `StageUpdate`, `createEnemy`, `Created` | `StageManager::update`, `activateLevel`, `EnemyFactory::createEnemy` |
| `EnemyDies` .. `BallOfFireUpdate` | the `update` of each kind of particle, called by `ParticleGroup::update` |
| `ShotHitsBullet` .. `FireHits`, `LinkDone` | the `hit` of both partners in `ParticleGroup::detectCollisions` |

The hero is not in a group of the model: its group has one particle, of which
only "alive", "dead until its next update" and "gone" matter. Effects, bonuses
and wingmen are in groups of their own that count nothing and are left out;
`bonuses` counts those dropped.

**`Wave`** is the abstract specification of the fight: enemies fall one by one,
each leaves one bonus, the next wave comes when the last has fallen, and a
launch or a jump replaces all. `Battle!FollowsWave` is the refinement; an enemy
counts as fallen when it is told to die, not when its particle is unlinked.

**`Trade`** follows the cargo through the dock, the customs and the fight: buying
and selling (`tradeClick`), the box of `illegalTradeCheck`, `ulegRefuse`, hits
that break equipment, boosts, special weapons, jumps. Shield, guns and hold are
separate fields in the code, set in different places; the properties relate
them. Prices are arbitrary: when they are made is `Galaxy`'s subject.

**`Galaxy`** is `Map::update` and `Planet::update`: the drift of the sentiments at
every docking, the one counter all planets share, revolutions and victories,
and the marketplaces made lazily by `getPrice`. The technology level is a float
that grows by 0.3; whether it happens to be whole is a choice. The turns of the
story that set a sentiment (`Game.cpp:777`, `:806`) and a load, which sets all of
them, are outside: both change a planet without its prices, see section 5.

**`Controls`** follows a key from `Input::update` to the hero: interceptor or
action, the menu "Configure keys" with `unbindKeys`, `bind` and `defaultKeys`,
what pressing and releasing sets in the hero, and whatever takes the screen
away in between (death, docking, a due jump, pause, the menus).

`MCSession`, `MCEnemyWaves`, `MCCampaign`, `MCBattle`, `MCTrade`, `MCGalaxy` and
`MCControls` give the constants; a module `...Proofs` holds the theorems of each,
and `FightProofs` continues `BattleProofs`.
The definitions named `Mut_...` are not part of any specification: each is a
plausible bug in the definition that follows it, and some property must catch
it when it takes that definition's place.

How they compose. `Session` knows of a fight only how many waves and enemies
are left; `EnemyWaves` says which waves come, `Battle` what happens inside one,
`Wave` is what both rely on. A dock of `Session` is where `Campaign`, `Trade` and
`Galaxy` happen. The keys and the screens of `Controls` are those of `Session`,
with all screens that are neither the flight nor the main menu taken together.

## 3. The runs

| run | question | result |
|---|---|---|
| `session` | safety of the loop, and that it implements `Voyage`, on all interleavings | holds, 596,480 states |
| `session_live` | do jumps arrive, cleared orbits dock, does the program end - with `maxFPS` skipping frames | holds, 225,208 states |
| `game_over` | is GAME OVER final, as the screen says? | violated: a finding |
| `stale_approach` | is the "strange bug" fixed also when the board is hidden? | violated: a finding |
| `waves` | totals, draws, marks and standing agree, for every order of launches, refusals, jumps, loads | holds, 946,143 states |
| `fugitive` | does the fleet attack a fugitive in *every* orbit of its planets, as the message says? | violated: a finding |
| `campaign` | is the quest ever stuck, does it only move forward, are standing and saves kept - with whole and cut files | holds, 1,800,496 states |
| `saved` | can a game reported as saved be loaded? | violated: a finding |
| `battle` | lists, counters, swarms and damage in the rounds of the fight, and that it implements `Wave` | holds, 4,177,333 states |
| `trade` | limits, equipment and customs, whatever is bought, sold, shot away or found | holds |
| `galaxy` | do prices follow the ruler, does every planet have its turn? | holds, 178,560 states |
| `controls` | bindings stay one to one, defaults restore them, no control gets stuck in the game | holds |

Bounds, and why they suffice:

* `Session`: two planets at distance 1, tank of 2, at most two waves of one
  enemy. Two planets distinguish "here" from "there", a tank of 2 gives a full,
  a sufficient and an empty one, two waves give "first", "more to come" and
  "none left". Galaxy, tank and waves are arbitrary in the proofs. The
  liveness run uses one wave and a tank of 1.
* `EnemyWaves`: sentiments 0, 38, 50, 62, 100 - the heart of each navy's
  space, the last planets whose quotient by 12 is not 0, and the border - and
  an alien activity of 0, because the number of alien waves touches no branch
  but "some" and "none left". Totals of four and more (0 and 100) vary by one.
* `Campaign`: one save slot, a purse of up to 2 thousand (in debt, broke, one save,
  the gift of Uleg's refusal), at most one namesake of RISAR; a file cut before, within and
  after its targets.

* `Battle`: two enemies, two particles for the swarm, one hero bullet, one ball
  of fire. Every list runs empty and runs full; with two enemies a death can
  happen before, at and after the place of the walk, and an attacker can die
  while another attacks. The boss has a leader and an element, or two leaders and
  none left, so that launches fail too. Critters take two hits, so that a hit
  need not kill. `MaxLeak` bounds how many places of `enemyBulletCount` resets may
  lose; one is enough to keep enemies from ever firing at this limit.
* `Trade`: a hold of one ton, one unit of fuel, one rocket, a shield and a hull
  of two units, so that a hit may scratch, break or kill, with and without an
  upgrade; goods of every class the laws and the limits tell apart.
* `Galaxy`: XEN, which is exempt, one planet at 47 or exactly on the fence, one at
  10 (never drifts), one at 20 (may not drift down). Three planets that count
  have no factor in common with ten. Births of any sentiment in the proofs.
* `Controls`: a move, a weapon with a key and a button, pause and jump, ESC and
  one key that is not in the menu; two of them held at a time, which is what a
  stuck control, a swap of keys and a jump under an open menu need.

Deadlock is checked everywhere; `Session` ends in `Ended`.

**Fairness** (`Session!Fairness`). Every phase of the loop is finite code, so
the four steps that finish a phase are weakly fair. The rounds of logic and the
two clocks are strongly fair: real time goes on during a frame, each phase is
entered again and again, and `updateInGameLogic` runs rounds as long as game
time is behind. No input event is fair; the liveness properties therefore list
what the player may do instead ("or the player leaves the flight"). If the
player opens a menu and never comes back, nothing is promised.

## 4. What is proved

TLAPS checks every proof to the last leaf. Nothing is assumed but the named
assumptions on the constants in the modules.

`SessionProofs`, for every set of planets, every cost, tank and number of waves
and enemies:

* `Invariance`: `Spec => []IInv`, and with it `TypeCorrect`, `ClockCorrect`,
  `DockCorrect`, `ManoeuvreCorrect`, `JumpCorrect`, `PlanetCorrect`;
* `JumpKeepsDamage`: the action property `JumpDoesNotRepair`;
* `BoardClearsApproach`: `NoStaleApproach`, from `FrameCap = FALSE`.

None of the invariants is inductive alone. `DockedIsNotFlying` needs
to know that ESC in the planet menu of a dock does not lead back to the orbit
(`NoWayBack`) and that the boxes of a game are shown only in a dock
(`BoxInDock`). `GameHasPlanet` needs that all screens but the main menu and the
two boxes of loading belong to a game (`ScreenHasPlanet`), and that a null planet is
met only after a cut file and only in a dock or a box. That a fuel of
0..MaxFuel survives a jump (`TypeOK`) needs `JumpAffordable`, which in turn
needs that the dock, where fuel is sold, has no pending jump (`OneManoeuvre`) and
that death ends one. `IInv` is the conjunction. The proof goes by groups of
actions: one lemma for a round of logic, one for the start of an orbit, the jump,
the rest of the loop, the keys of the flight, the planet menu, the message box
and the main menu, joined in `NextIInv`.

`BattleProofs`, for groups, waves, skills and toughness of any size:

* `ListsCorrect`: `ListsAreSound`. The invariant `Sound` of one group says that
  the two lists together name every particle and are exactly as long as there
  are particles; that no particle is named twice follows by counting. Lemmas
  say what `reset`, `newParticle`, `unlink` and `spend` do to a sound group.
* `ObjectsCorrect`: `numObjects` is the number of enemies (the part of
  `EnemiesCounted` the next wave depends on). While a wave is being created the
  invariant must know that the enemies still to come find a particle.
* `SpentCorrect`: `SpentIsHarmless`, since a particle that was killed has no
  damage left and a hit without damage changes nothing.

`FightProofs`, for the same constants, adds what the counters and the enemies do.
`FightInv` is the conjunction of five parts, each proved over all actions by
itself, on top of the lists (`BattleInv`):

* `AttackInv` gives `EnemiesCorrect` (`EnemiesCounted`): an enemy outside the
  fight has no attack left over from an earlier life, or the counter would move
  when its particle is handed out again.
* `EnergyInv`: an enemy has energy exactly as long as it is neither shot nor
  gone, so nobody falls twice; this is what `WaveImplemented`, the refinement
  `FollowsWave`, rests on.
* `SwarmInv` gives `LeadersLeave` (`LeaderNeverStuck`), though `related` and
  `_lastLeft` may by then name a particle that is something else, and
  `LeaksCorrect` (`OnlyResetLeaks`). That no list names a particle twice
  (`NoneTwice`, by counting) makes the elements of a swarm countable.
* `PlaceInv`, the stages of a round; with it `TypeCorrect`.

`TradeProofs`, for a hold, a tank, prices and damages of any size:
`ShieldCorrect`, `WeaponsCorrect`, `CustomsCorrect`. The three hold together
with a weak type invariant (`Shape`); what fits into the hold does not matter.
`TypeCorrect` says what does fit: hold, tank, magazine, purse and energies stay
within their limits. Its invariant `Limits` adds that a ship in orbit is no wreck,
without which a second hit could take the energy below its bound. `Tons` is a
fold of the library; `TonsIsWeight` proves that it is the sum of the six goods
that weigh, since two functions that take the goods away one at a time cannot
differ on a smallest set of goods.

`GalaxyProofs`, for any number of planets: `PricesFollowRuler`. The key is
`OffTheFence`: no drift ends at 50, so a planet cannot change hands in two steps
by way of the middle, without either being told. `RoundsCorrect`
(`RoundsReachAll`) needs `Waits`: in none of the dockings since its last turn did
the call of a planet fall on the beginning of a round. That this cannot go on for
a whole round is arithmetic: where the number of planets that count has no factor
in common with the length of a round, multiples of the one reach every remainder
by the other (`Bezout`, `Reaches`).

`ControlsProofs`, for any keyboard: `KeyWaitCorrect` and `ControlsCorrect`. The
key is `KeysMenu`: opening the menu of keys has ended the countdown, so that no
jump can take the screen away from the item that waits for a key.
`BindingsCorrect` and `ResetCorrect` rest on `RebindFacts`: giving a key to an action
takes it from one other action at most. `defaultKeys` is a fold over the actions of
the menu, through bindings in which two actions may have exchanged their keys;
`FoldExists` and `DefaultKeysFacts` follow it round by round (`Restored`). Both are
inductions over numbers, written out with a least counterexample.

`EnemyWavesProofs`, for planets of any sentiment and activity: all four
invariants of the run and `RefusalIsAnswered`. The invariant says where the
totals come from (`Drawn`): in orbit they are among those `EnemyWaves::reset`
can draw for this planet and this standing. The rest is integer arithmetic
(`BaseFacts`, `TotalsFacts`).

`CampaignProofs`, for campaigns of any length with any number of saves and loads,
of files whole or cut anywhere: all three invariants and all three action properties of the
run. The invariant is the table of the story: `Row` relates each stage to the planets on the
map, and `Good` says which standing goes with which branch. `NextRow` and `RenameRow` say
what an operation does to a row, `ReachedFacts` that docking at a target leads
from a row to a later one, `Answered` the same for the answer to Uleg; what
saving, trading and a fine change is no part of a row (`GoodSame`). A game from a
cut file is `Torn`: it has no target, or it would be in the table if it had the
targets that are missing (`Mended`). Since every branch of `reachedSpecialPlanet`
writes the whole list, the first target a torn game reaches brings it to the same
row as the mended one (`MendedReached`, `FineReached`). `CutFine` says that a load
makes nothing else of a file. The file must be as good as the game, since a
load may bring it back at any time.

The last part of `SessionProofs`, for every galaxy, tank and number of waves, is the
refinement `FollowsVoyage` (`VoyageImplemented`). The state of the voyage is read off `Session` by
`voyagePhase`, and each step of the program is shown to be one step of `Voyage` or
none (`NextSails`, one lemma per group of handlers). Beside `IInv` the simulation
needs `NoLostCaptain` (`WreckStaysOut`): a wreck is
never in front of the planet menu, so that nobody aims, buys fuel or launches with
a lost ship that is not docked.

Every invariant, action property and refinement of the runs is a theorem here.
Only model-checked: the three liveness properties of `session_live`, which the
prover cannot reach. The violations of the four other runs are counterexamples,
which need no proof.

## 5. Not modelled, and why

Drawing, sound, text layout, focus and mouse geometry change nothing the
properties speak of. curl, TinyXML and LZMA are vendored: more than two thirds of
the lines of the repository are theirs, and most of the rest draws, animates or
wraps OpenGL, which is why the models stand for a small share of all lines.
`OnlineUpdate` is switched off in its source (its `onlineCheck` is always false).
Float rounding of coordinates, the choice of a wave's level and the static counters behind it, the settings menus,
`Config` and `ResourceManager` are not modelled.

`Session` abstracts a stretch of a frame in one place: a frame whose logic
starts with ten seconds of countdown behind it changes nothing, so it is
skipped; that the ninth second may become the eleventh during the frame is kept.
The buttons of a message box are forgotten when another screen takes over: no
path leads back to a box, which is itself checked (`NoWayBack`).

Of a load of a cut file three things are abstracted. `Session` moves the shared
dummy only within the tank, `Campaign` forgets map and chapter of a game
without targets, which nobody asks for again, and what becomes of
sentiments, markets and equipment is left out of `EnemyWaves`, `Galaxy` and
`Trade`, whose games are whole.

Seen while modelling, and not stated as findings; but for the first, of which a
comment speaks loosely ("called once each 10 turns or so", `Game.cpp:1218`), no
line of the repository promises otherwise:

* A planet has a turn of its drift once in ten dockings only if the number of
  planets that count has no factor in common with ten (`Game.cpp:1226`); in a
  galaxy with an even number of them some never change. Hence the premise of
  `RoundsReachAll`, which says nothing of those galaxies.
* A planet that begins at exactly 50 changes hands without new prices, and so
  do the planets whose sentiment the story sets. Hence the premise of
  `GovernmentPriced`.
* A launch or a jump during the fight with the boss may lose places of
  `enemyBulletCount` for good (`ParticleGroup.cpp:59`): a swarm leader does not
  look at the order to die. `OnlyResetLeaks` shows that nothing else does.
* The static `needButtonUp` of the triggers survives `Hero::reset`, so the first
  press of a new flight may be ignored; resetting the keys does not give back a
  key outside the menu, such as RETURN, that was taken by a rebinding.
* Before the first campaign `Cargo::findItem` answers with ten pieces of
  everything (`Trade!Init`).

## 6. Plan

Done: `Voyage`, `Session`, `EnemyWaves`, `Campaign`, `ParticleGroup`, `Wave`,
`Battle`, `Trade`, `Galaxy`, `Controls`, and proofs about each of them.

What would come next:

1. `SaveFile` - the file as the sequence of sections `saveGame` writes and
   `loadGame` reads; would show that `CutFile` of `Campaign` and `Missing` of
   `Session` are what cutting that sequence anywhere comes to.
2. `Clock` - `PausableTimer` and the two step loops with real time stamps;
   refines the ticks of `Session`.
3. `Config`, `ResourceManager` - keywords and terms; archive lookup and
   reference counts; the settings menus (hazard at `Selectable.cpp:703`).
4. With `Clock`, the steps behind the liveness of `Session`: which action of the
   loop brings a countdown nearer to its end, and that no other takes it back.
