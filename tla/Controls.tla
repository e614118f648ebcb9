------------------------------ MODULE Controls ------------------------------
(***************************************************************************)
(* From the keys to the ship: Input gives an event either to the screen    *)
(* that intercepts it or to the action its key is bound to, the menu       *)
(* "Configure keys" changes the bindings, and the hero keeps for every     *)
(* control whether it is on.  Between pressing a key and releasing it the  *)
(* screen, the binding or the hero may be another one.  Which screen       *)
(* follows which is Session's business: "other" stands for the planet menu *)
(* and the message box.                                                    *)
(***************************************************************************)
EXTENDS Integers, FiniteSets, SequencesExt

CONSTANTS
    Keyboard, Buttons,   \* the keys and the mouse buttons
    Escape,              \* the key ESC
    Moves, Fires,        \* the actions that move the ship, that fire weapons
    Rebindable,          \* the actions of the menu, in defaultKeys' order
    Default,             \* what config.txt binds every key and button to
    MaxHeld              \* bound: how many of them are held at a time

None == "none"
Control  == Moves \cup Fires
Key      == Keyboard \cup Buttons
Changing == Range(Rebindable)

ASSUME ControlsAssumption ==
    /\ Escape \in Keyboard /\ Keyboard \cap Buttons = {}
    /\ Moves \cap Fires = {} /\ Control \subseteq Changing
    /\ IsFiniteSet(Keyboard) /\ Rebindable \in Seq(STRING)
    /\ Default \in [Key -> STRING] /\ Default[Escape] = "EscapeAction"
    /\ \A a \in Changing : Cardinality({k \in Keyboard : Default[k] = a}) = 1
    /\ {"EscapeAction", None} \cap Changing = {} /\ MaxHeld \in Nat

VARIABLES
    bound,     \* _callbackMap
    held,      \* the keys and buttons that are down
    context,   \* "eInGame", "ePaused", "eMenu" or "other"
    level,     \* of the main menu: "keys", or "top" for all the others
    waiting,   \* the action of _waitSingleKey, if any
    on,        \* _moveLeft..._moveDown, _weaponAutofire
    needUp,    \* the static needButtonUp of Hero::weaponFire
    alive,     \* Hero::_isAlive
    hyper      \* _hyperspaceCount: "off", "on" or "due"

vars == <<bound, held, context, level, waiting, on, needUp, alive, hyper>>

hero == <<on, needUp, alive>>
menu == <<bound, level, waiting>>

Init ==
    /\ bound = Default /\ held = {} /\ context = "eMenu" /\ level = "top"
    /\ waiting = None /\ on = {} /\ needUp = FALSE /\ alive = TRUE /\ hyper = "off"

----------------------------------------------------------------------------
(* The bindings.                                                           *)

\* The bindings a key of which is taken out.
Unbound(b, k) == [b EXCEPT ![k] = None]
KeysFor(b, a) == {k \in Keyboard : b[k] = a}

\* Mutant: the search for the previous key finds nothing.
Mut_unbindKeys(b, a) == {b}

\* Input::unbindKeys removes the first key it finds, in the order of a hash.
unbindKeys(b, a) ==
    IF KeysFor(b, a) = {} THEN {b} ELSE {Unbound(b, k) : k \in KeysFor(b, a)}

\* Input::handleLine and Input::bind: the key k is taken from whatever had it.
bind(b, a, k) == [b EXCEPT ![k] = a]

rebind(b, a, k) == {bind(u, a, k) : u \in unbindKeys(b, a)}

DefaultKey(a) == CHOOSE k \in Keyboard : Default[k] = a

\* Mutant: the last of the actions is forgotten.
Mut_defaultKeys(bs) ==
    FoldLeft(LAMBDA now, a : UNION {rebind(b, a, DefaultKey(a)) : b \in now}, bs,
             Front(Rebindable))

\* Input::defaultKeys: one action after the other.
defaultKeys(bs) ==
    FoldLeft(LAMBDA now, a : UNION {rebind(b, a, DefaultKey(a)) : b \in now}, bs,
             Rebindable)

----------------------------------------------------------------------------
(* The hero.                                                               *)

Set(c, isDown) == IF isDown THEN on \cup {c} ELSE on \ {c}

\* Hero::move.
move(c, isDown) ==
    /\ on' = IF alive THEN Set(c, isDown) ELSE on
    /\ UNCHANGED <<needUp, alive>>

\* Mutant: whether the trigger has to be released first is asked first.
Mut_weaponFire(c, isDown) ==
    /\ UNCHANGED alive
    /\ IF ~alive \/ needUp THEN UNCHANGED <<on, needUp>>
       ELSE on' = Set(c, isDown) /\ needUp' \in {FALSE, isDown}

\* Hero::weaponFire.  A shot that is fired without the option "Autofire" has
\* to be followed by the release of any trigger.
weaponFire(c, isDown) ==
    /\ UNCHANGED alive
    /\ IF ~alive \/ (needUp /\ isDown) THEN UNCHANGED <<on, needUp>>
       ELSE on' = Set(c, isDown) /\ needUp' \in {FALSE, isDown}

\* MotionLeftAction ... WeaponFireAction::performAction.
perform(c, isDown) ==
    IF context # "eInGame" THEN UNCHANGED hero
    ELSE \/ c \in Moves /\ move(c, isDown)
         \/ c \in Fires /\ weaponFire(c, isDown)

\* Hero::update fires the weapons of which the triggers are held.
Autofire ==
    /\ context = "eInGame" /\ alive /\ on \cap Fires # {}
    /\ needUp' = TRUE
    /\ UNCHANGED <<menu, held, context, on, alive, hyper>>

\* Game::startNewGame and Hero::reset.
startNewGame ==
    /\ context' = "eInGame" /\ on' = {} /\ alive' = TRUE /\ hyper' = "off"
    /\ UNCHANGED needUp

Die ==
    /\ context = "eInGame" /\ alive
    /\ alive' = FALSE /\ hyper' = "off"
    /\ UNCHANGED <<menu, held, context, on, needUp>>

\* StageManager::update.
Dock ==
    /\ context = "eInGame" /\ hyper = "off" /\ context' = "other"
    /\ UNCHANGED <<menu, held, hero, hyper>>

\* The stopwatch of the countdown runs in the game only, but the jump happens
\* on any screen.
Countdown ==
    /\ context = "eInGame" /\ hyper = "on" /\ hyper' = "due"
    /\ UNCHANGED <<menu, held, context, hero>>

Jump ==
    /\ hyper = "due" /\ startNewGame
    /\ UNCHANGED <<menu, held>>

----------------------------------------------------------------------------
(* Keys without an interceptor: Input::update calls the action.            *)

\* MenuManager::exitMenu up to the top: each level loaded ends a countdown.
toTopMenu ==
    /\ level' = "top"
    /\ hyper' = IF level = "top" THEN hyper ELSE "off"

performAction(a) ==
    \/ /\ a \in Control
       /\ perform(a, TRUE) /\ UNCHANGED <<menu, context, hyper>>
    \/ /\ a = "PauseGame"
       /\ context' = IF context = "ePaused" THEN "eInGame" ELSE "ePaused"
       /\ UNCHANGED <<menu, hero, hyper>>
    \/ /\ a = "EscapeAction"
       /\ IF alive THEN context' = "other" /\ UNCHANGED <<level, hyper>>
          ELSE context' = "eMenu" /\ toTopMenu
       /\ UNCHANGED <<bound, waiting, hero>>
    \/ /\ a = "HyperSpace" /\ context = "eInGame" /\ alive
       /\ hyper' \in {hyper, "on"}         \* if there is a target in reach
       /\ UNCHANGED <<menu, context, hero>>
    \/ /\ a \notin Control \cup {"PauseGame", "EscapeAction"}
       /\ a = "HyperSpace" => ~(context = "eInGame" /\ alive)
       /\ UNCHANGED <<menu, context, hero, hyper>>

----------------------------------------------------------------------------
(* Keys on a screen that intercepts them.                                  *)

\* Mutant: the countdown goes on under the menu.
Mut_loadMenuLevel == UNCHANGED hyper

\* MenuManager::loadMenuLevel.
loadMenuLevel == hyper' = "off"

\* KeySelectable::keypress, for a key that has a name.
keypress(k) ==
    /\ waiting' = None
    /\ IF k = Escape THEN UNCHANGED bound
       ELSE bound' \in rebind(bound, waiting, k)
    /\ UNCHANGED <<level, context, hero, hyper>>

\* MenuManager::input and what its items do.
menuInput(k) ==
    IF waiting # None
    THEN IF k \in Keyboard THEN keypress(k)
         ELSE UNCHANGED <<menu, context, hero, hyper>>
    ELSE \/ UNCHANGED <<menu, context, hero, hyper>>
         \/ /\ level' \in {"top", "keys"} /\ loadMenuLevel     \* exitMenu, makeMenu
            /\ UNCHANGED <<bound, waiting, context, hero>>
         \/ /\ level = "keys" /\ waiting' \in Changing         \* KeySelectable::select
            /\ UNCHANGED <<bound, level, context, hero, hyper>>
         \/ /\ level = "keys" /\ bound' \in defaultKeys({bound})   \* ResetKeys
            /\ UNCHANGED <<level, waiting, context, hero, hyper>>
         \/ /\ level = "top" /\ context' = "other"    \* NewCampaign, LoadGame
            /\ UNCHANGED <<menu, hero, hyper>>

\* PlanetManager::input, MessageBoxManager::input.
screenInput ==
    \/ UNCHANGED <<menu, context, hero, hyper>>
    \/ /\ hyper' = "off"                       \* setHyperspaceTarget
       /\ UNCHANGED <<menu, context, hero>>
    \/ /\ context' \in {"eInGame", "ePaused"}  \* back to the flight
       /\ UNCHANGED <<menu, hero, hyper>>
    \/ startNewGame /\ UNCHANGED menu          \* Launch
    \/ /\ context' = "eMenu" /\ toTopMenu      \* MainMenu
       /\ UNCHANGED <<bound, waiting, hero>>

----------------------------------------------------------------------------
(* Input::update.                                                          *)

NoInterceptor == context \in {"eInGame", "ePaused"}

\* A key that is held repeats; a button does not.
Press(k) ==
    /\ k \in Buttons => k \notin held
    /\ held' = held \cup {k} /\ Cardinality(held') <= MaxHeld
    /\ \/ NoInterceptor /\ performAction(bound[k])
       \/ context = "eMenu" /\ menuInput(k)
       \/ context = "other" /\ screenInput

\* Nothing but the controls listens to the release of a key.
Release(k) ==
    /\ k \in held /\ held' = held \ {k}
    /\ IF NoInterceptor /\ bound[k] \in Control THEN perform(bound[k], FALSE)
       ELSE UNCHANGED hero
    /\ UNCHANGED <<menu, context, hyper>>

Next ==
    \/ \E k \in Key : Press(k) \/ Release(k)
    \/ Autofire \/ Die \/ Dock \/ Countdown \/ Jump

Spec == Init /\ [][Next]_vars

----------------------------------------------------------------------------
\* What the state is made of; for the bindings see BindingsAreSound.
TypeOK ==
    /\ held \subseteq Key /\ context \in {"eInGame", "ePaused", "eMenu", "other"}
    /\ level \in {"top", "keys"} /\ waiting \in Changing \cup {None}
    /\ on \subseteq Control /\ needUp \in BOOLEAN /\ alive \in BOOLEAN
    /\ hyper \in {"off", "on", "due"}

\* However the player shuffles the keys, no action has two of them, ESC keeps
\* its meaning, and the mouse buttons theirs: the menu shows the one key an
\* action has, and unbindKeys removes one at most.
BindingsAreSound ==
    /\ bound \in [Key -> Range(Default) \cup {None}]
    /\ \A a \in Changing : Cardinality(KeysFor(bound, a)) <= 1
    /\ bound[Escape] = "EscapeAction"
    /\ \A m \in Buttons : bound[m] = Default[m]

\* "Defaults" gives every action of the menu its key back, and no other, even
\* when the keys were exchanged among the actions.
ResetRestores ==
    level = "keys" => \A b \in defaultKeys({bound}), a \in Changing :
                        KeysFor(b, a) = KeysFor(Default, a)

\* A control that is on though no key for it is down.
Stuck == alive /\ \E c \in on : \A k \in held : bound[k] # c

\* A control gets stuck only while another screen has the keys: in the game
\* every release is heard, whatever the triggers did before.
StuckOnlyWhenAway == [][(Stuck' /\ ~Stuck) => context # "eInGame"]_vars

\* The item that waits for its new key is one of the menu on the screen: the
\* menu manager would hand the next key to an item that is gone.
KeyWaitIsOnScreen == waiting # None => context = "eMenu" /\ level = "keys"
=============================================================================
