--------------------------- MODULE ControlsProofs ---------------------------
(***************************************************************************)
(* For any keyboard, any bindings and any number of controls: in the game  *)
(* no control gets stuck, and the item that waits for a key is one of the  *)
(* menu on the screen.                                                     *)
(***************************************************************************)
EXTENDS Controls, FiniteSetTheorems, NaturalsInduction, WellFoundedInduction, TLAPS

\* "Configure keys" is shown only by the main menu, which then has ended any
\* countdown, so that no jump can take the screen away.
KeysMenu == level = "keys" => context = "eMenu" /\ hyper = "off"

IInv ==
    /\ on \subseteq Control
    /\ waiting # None => level = "keys"
    /\ KeysMenu

----------------------------------------------------------------------------
\* The controls that are on are controls.
LEMMA PerformFacts ==
    ASSUME on \subseteq Control, NEW c \in Control, NEW isDown \in BOOLEAN,
           perform(c, isDown)
    PROVE  on' \subseteq Control /\ alive' = alive
<1>1. CASE context # "eInGame"
  BY <1>1 DEF perform, hero
<1>2. CASE context = "eInGame"
  <2>1. on' \in {on, Set(c, isDown)} /\ alive' = alive
    BY <1>2, Zenon DEF perform, move, weaponFire
  <2> QED
    BY <2>1 DEF Set
<1> QED
  BY <1>1, <1>2

\* Pressing a key keeps the invariant.
LEMMA PressIInv ==
    ASSUME IInv, NEW k \in Key, Press(k) PROVE IInv'
<1>1. CASE NoInterceptor /\ performAction(bound[k])
  <2>1. level # "keys" /\ waiting = None
    BY <1>1 DEF IInv, KeysMenu, NoInterceptor
  <2>2. waiting' = waiting
    BY <1>1 DEF performAction, menu
  <2>3. level' # "keys"
    BY <1>1, <2>1 DEF performAction, toTopMenu, menu
  <2>4. on' \subseteq Control
    <3>1. CASE bound[k] \in Control /\ perform(bound[k], TRUE)
      BY <3>1, PerformFacts DEF IInv
    <3>2. CASE on' = on
      BY <3>2 DEF IInv
    <3> QED
      BY <1>1, <3>1, <3>2 DEF performAction, hero
  <2> QED
    BY <2>1, <2>2, <2>3, <2>4 DEF IInv, KeysMenu
<1>2. CASE context = "eMenu" /\ menuInput(k)
  <2>1. on' = on
    BY <1>2 DEF menuInput, keypress, hero
  <2>2. waiting' # None => level' = "keys"
    BY <1>2 DEF menuInput, keypress, menu, IInv
  <2>3. level' = "keys" => context' = "eMenu" /\ hyper' = "off"
    BY <1>2 DEF menuInput, keypress, loadMenuLevel, menu, IInv, KeysMenu
  <2> QED
    BY <2>1, <2>2, <2>3 DEF IInv, KeysMenu
<1>3. CASE context = "other" /\ screenInput
  <2>1. level # "keys" /\ waiting = None
    BY <1>3 DEF IInv, KeysMenu
  <2>2. waiting' = waiting /\ level' # "keys" /\ on' \in {on, {}}
    BY <1>3, <2>1 DEF screenInput, startNewGame, toTopMenu, menu, hero
  <2> QED
    BY <2>1, <2>2 DEF IInv, KeysMenu
<1> QED
  BY <1>1, <1>2, <1>3 DEF Press

\* Every step keeps the invariant.
LEMMA NextIInv == IInv /\ [Next]_vars => IInv'
<1> SUFFICES ASSUME IInv, [Next]_vars PROVE IInv'
  OBVIOUS
<1>1. ASSUME NEW k \in Key, Press(k) PROVE IInv'
  BY <1>1, PressIInv
<1>2. ASSUME NEW k \in Key, Release(k) PROVE IInv'
  <2>1. on' \subseteq Control
    <3>1. CASE bound[k] \in Control /\ perform(bound[k], FALSE)
      BY <3>1, PerformFacts DEF IInv
    <3>2. CASE UNCHANGED hero
      BY <3>2 DEF IInv, hero
    <3> QED
      BY <1>2, <3>1, <3>2 DEF Release
  <2> QED
    BY <1>2, <2>1 DEF Release, menu, IInv, KeysMenu
<1>3. CASE Autofire
  BY <1>3 DEF Autofire, menu, IInv, KeysMenu
<1>4. CASE Die
  BY <1>4 DEF Die, menu, IInv, KeysMenu
<1>5. CASE Dock
  BY <1>5 DEF Dock, menu, hero, IInv, KeysMenu
<1>6. CASE Countdown
  BY <1>6 DEF Countdown, menu, hero, IInv, KeysMenu
<1>7. CASE Jump
  BY <1>7 DEF Jump, startNewGame, menu, IInv, KeysMenu
<1>8. CASE UNCHANGED vars
  BY <1>8 DEF vars, IInv, KeysMenu
<1> QED
  BY <1>1, <1>2, <1>3, <1>4, <1>5, <1>6, <1>7, <1>8 DEF Next

----------------------------------------------------------------------------
(* The bindings.                                                           *)

\* BindingsAreSound, of any bindings, without the count.
Sound(b) ==
    /\ b \in [Key -> Range(Default) \cup {None}]
    /\ \A a \in Changing : \A k, l \in KeysFor(b, a) : k = l
    /\ b[Escape] = "EscapeAction"
    /\ \A m \in Buttons : b[m] = Default[m]

\* After i rounds of defaultKeys every binding in the set now is sound, and
\* the first i actions have their keys.
Restored(now, i) ==
    \A b \in now : /\ Sound(b)
                   /\ \A j \in 1..i : KeysFor(b, Rebindable[j]) = {DefaultKey(Rebindable[j])}

\* One round of defaultKeys.
Round(now, i) == UNION {rebind(b, Rebindable[i], DefaultKey(Rebindable[i])) : b \in now}

\* The function behind the fold of defaultKeys, over the first n actions.
Fold(iter, bs, n) ==
    iter = [s \in SUBSET (1..n) |->
              IF s = {} THEN bs ELSE Round(iter[s \ {Max(s)}], Max(s))]

\* A set of keys has one at most, or exactly one.
LEMMA KeyCount ==
    ASSUME NEW S \in SUBSET Keyboard
    PROVE  /\ Cardinality(S) <= 1 <=> \A k, l \in S : k = l
           /\ Cardinality(S) = 1 <=> \E k : S = {k}
<1>1. IsFiniteSet(S)
  BY ControlsAssumption, FS_Subset
<1>2. Cardinality(S) \in Nat
  BY <1>1, FS_CardinalityType
<1>3. Cardinality(S) = 0 <=> S = {}
  BY <1>1, FS_EmptySet
<1>4. Cardinality(S) = 1 <=> \E k : S = {k}
  BY <1>1, FS_Singleton
<1>5. Cardinality(S) <= 1 <=> Cardinality(S) = 0 \/ Cardinality(S) = 1
  BY <1>2
<1>6. (S = {} \/ \E k : S = {k}) <=> \A k, l \in S : k = l
  <2>1. ASSUME \A k, l \in S : k = l, S # {}
        PROVE  \E k : S = {k}
    <3>1. PICK k : k \in S
      BY <2>1
    <3>2. S = {k}
      BY <2>1, <3>1
    <3> QED
      BY <3>2
  <2> QED
    BY <2>1
<1> QED
  BY <1>3, <1>4, <1>5, <1>6, Zenon

\* The keys of an action are keys.
LEMMA KeysAreKeys == ASSUME NEW b, NEW a PROVE KeysFor(b, a) \in SUBSET Keyboard
<1> QED
  BY DEF KeysFor

\* Sound is BindingsAreSound.
LEMMA SoundFacts ==
    ASSUME NEW b
    PROVE  (\A a \in Changing : Cardinality(KeysFor(b, a)) <= 1)
             <=> (\A a \in Changing : \A k, l \in KeysFor(b, a) : k = l)
<1> QED
  BY KeyCount, KeysAreKeys, Zenon

\* The key of the configuration file is the only one, and not ESC.
LEMMA DefaultFacts ==
    ASSUME NEW a \in Changing
    PROVE  /\ DefaultKey(a) \in Keyboard /\ Default[DefaultKey(a)] = a
           /\ KeysFor(Default, a) = {DefaultKey(a)}
           /\ DefaultKey(a) # Escape
<1>1. Cardinality(KeysFor(Default, a)) = 1
  BY ControlsAssumption DEF KeysFor
<1>2. PICK k : KeysFor(Default, a) = {k}
  BY <1>1, KeyCount, KeysAreKeys
<1>3. k \in Keyboard /\ Default[k] = a
  BY <1>2 DEF KeysFor
<1>4. DefaultKey(a) \in Keyboard /\ Default[DefaultKey(a)] = a
  BY <1>3, Zenon DEF DefaultKey
<1>5. DefaultKey(a) \in KeysFor(Default, a)
  BY <1>4 DEF KeysFor
<1>6. a # "EscapeAction" /\ Default[Escape] = "EscapeAction"
  BY ControlsAssumption
<1> QED
  BY <1>2, <1>4, <1>5, <1>6

\* What the configuration file says is sound.
LEMMA DefaultSound == Sound(Default)
<1>1. Default \in [Key -> Range(Default) \cup {None}]
  <2>1. Default \in [Key -> STRING]
    BY ControlsAssumption
  <2> QED
    BY <2>1 DEF Range
<1>2. \A a \in Changing : \A k, l \in KeysFor(Default, a) : k = l
  BY DefaultFacts
<1> QED
  BY <1>1, <1>2, ControlsAssumption DEF Sound

\* A key is taken from whatever had it and given to an action, of which the
\* old key is taken away: this stays sound, and takes a key from no other
\* action but the one that had it.
LEMMA RebindFacts ==
    ASSUME NEW b, Sound(b), NEW a \in Changing, NEW k \in Keyboard \ {Escape},
           NEW r \in rebind(b, a, k)
    PROVE  /\ Sound(r) /\ KeysFor(r, a) = {k}
           /\ \A c \in Changing \ {a} : KeysFor(r, c) = KeysFor(b, c) \ {k}
<1>1. /\ b \in [Key -> Range(Default) \cup {None}]
      /\ \A c \in Changing : \A i, j \in KeysFor(b, c) : i = j
      /\ b[Escape] = "EscapeAction"
      /\ \A m \in Buttons : b[m] = Default[m]
  BY DEF Sound
<1>2. a # None /\ a # "EscapeAction" /\ None \notin Changing /\ Escape \in Keyboard
      /\ Keyboard \cap Buttons = {} /\ Keyboard \subseteq Key /\ Buttons \subseteq Key
  BY ControlsAssumption DEF Key
<1>3. PICK u \in unbindKeys(b, a) : r = [u EXCEPT ![k] = a]
  BY Zenon DEF rebind, bind
<1>4. /\ u \in [Key -> Range(Default) \cup {None}]
      /\ \A i \in Keyboard : u[i] = IF b[i] = a THEN None ELSE b[i]
      /\ \A m \in Buttons : u[m] = b[m]
  <2>1. CASE KeysFor(b, a) = {}
    <3>1. u = b
      BY <2>1 DEF unbindKeys
    <3>2. \A i \in Keyboard : b[i] # a
      BY <2>1 DEF KeysFor
    <3> QED
      BY <1>1, <3>1, <3>2
  <2>2. CASE KeysFor(b, a) # {}
    <3>1. PICK j \in KeysFor(b, a) : u = [b EXCEPT ![j] = None]
      BY <2>2, Zenon DEF unbindKeys, Unbound
    <3>2. j \in Keyboard /\ b[j] = a /\ \A i \in Keyboard : b[i] = a => i = j
      BY <1>1, <3>1 DEF KeysFor
    <3>3. j \in Key /\ \A m \in Buttons : m # j /\ m \in Key
      BY <1>2, <3>2
    <3>4. u \in [Key -> Range(Default) \cup {None}]
      BY <1>1, <3>1, <3>3
    <3>5. \A i \in Key : u[i] = IF i = j THEN None ELSE b[i]
      BY <1>1, <3>1, <3>3
    <3> QED
      BY <1>2, <3>2, <3>3, <3>4, <3>5
  <2> QED
    BY <2>1, <2>2
<1>5. \A i \in Key : r[i] = IF i = k THEN a ELSE u[i]
  BY <1>2, <1>3, <1>4
<1>6. a \in Range(Default)
  <2>1. DefaultKey(a) \in Key /\ Default[DefaultKey(a)] = a
    BY <1>2, DefaultFacts
  <2>2. DOMAIN Default = Key
    BY ControlsAssumption
  <2> QED
    BY <2>1, <2>2 DEF Range
<1>7. r \in [Key -> Range(Default) \cup {None}]
  BY <1>2, <1>3, <1>4, <1>6
<1>8. KeysFor(r, a) = {k}
  BY <1>2, <1>4, <1>5 DEF KeysFor
<1>9. ASSUME NEW c \in Changing \ {a}
      PROVE  KeysFor(r, c) = KeysFor(b, c) \ {k}
  BY <1>2, <1>4, <1>5 DEF KeysFor
<1>10. r[Escape] = "EscapeAction"
  BY <1>1, <1>2, <1>4, <1>5
<1>11. \A m \in Buttons : r[m] = Default[m]
  BY <1>1, <1>2, <1>4, <1>5
<1>12. \A c \in Changing : \A i, j \in KeysFor(r, c) : i = j
  BY <1>1, <1>8, <1>9
<1> QED
  BY <1>7, <1>8, <1>9, <1>10, <1>11, <1>12 DEF Sound

\* One round more of defaultKeys.
LEMMA RoundFacts ==
    ASSUME NEW now, NEW i \in Nat, i + 1 \in 1..Len(Rebindable), Restored(now, i)
    PROVE  Restored(Round(now, i + 1), i + 1)
<1> DEFINE a == Rebindable[i + 1]
<1>1. a \in Changing /\ \A j \in 1..i : Rebindable[j] \in Changing
  <2>1. Rebindable \in Seq(STRING)
    BY ControlsAssumption
  <2>2. DOMAIN Rebindable = 1..Len(Rebindable) /\ Len(Rebindable) \in Nat
    BY <2>1
  <2>3. \A j \in DOMAIN Rebindable : Rebindable[j] \in Changing
    BY DEF Changing, Range
  <2>4. \A j \in 1..i : j \in 1..Len(Rebindable)
    BY <2>2
  <2> QED
    BY <2>2, <2>3, <2>4
<1> HIDE DEF a
<1>2. SUFFICES ASSUME NEW b \in now, NEW r \in rebind(b, a, DefaultKey(a))
               PROVE  /\ Sound(r)
                      /\ \A j \in 1..(i + 1) :
                           KeysFor(r, Rebindable[j]) = {DefaultKey(Rebindable[j])}
  <2>1. \A r \in Round(now, i + 1) : \E b \in now : r \in rebind(b, a, DefaultKey(a))
    BY DEF Round, a
  <2> QED
    BY <1>2, <2>1, Zenon DEF Restored
<1>3. Sound(b) /\ \A j \in 1..i : KeysFor(b, Rebindable[j]) = {DefaultKey(Rebindable[j])}
  BY DEF Restored
<1>4. DefaultKey(a) \in Keyboard \ {Escape}
  BY <1>1, DefaultFacts
<1>5. /\ Sound(r) /\ KeysFor(r, a) = {DefaultKey(a)}
      /\ \A c \in Changing \ {a} : KeysFor(r, c) = KeysFor(b, c) \ {DefaultKey(a)}
  BY <1>1, <1>3, <1>4, RebindFacts
<1>6. ASSUME NEW j \in 1..i, Rebindable[j] # a
      PROVE  KeysFor(r, Rebindable[j]) = {DefaultKey(Rebindable[j])}
  <2>1. DefaultKey(Rebindable[j]) # DefaultKey(a)
    BY <1>1, <1>6, DefaultFacts
  <2> QED
    BY <1>1, <1>3, <1>5, <1>6, <2>1
<1>7. \A j \in 1..(i + 1) : j = i + 1 \/ j \in 1..i
  OBVIOUS
<1>8. Rebindable[i + 1] = a
  BY DEF a
<1> QED
  BY <1>5, <1>6, <1>7, <1>8, Zenon

----------------------------------------------------------------------------
(* The fold of defaultKeys.                                                *)

\* A set of numbers has a least one.
LEMMA Least ==
    ASSUME NEW S, S \subseteq Nat, S # {}
    PROVE  \E m \in S : \A k \in S : m <= k
<1>1. \E x \in S : \A y \in S : ~ (<<y, x>> \in OpToRel(<, Nat))
  BY NatLessThanWellFounded, WFMin, Zenon
<1>2. PICK x \in S : \A y \in S : ~ (<<y, x>> \in OpToRel(<, Nat))
  BY <1>1
<1>3. ASSUME NEW y \in S PROVE x <= y
  <2>1. ~ (y < x)
    BY <1>2 DEF OpToRel
  <2> QED
    BY <2>1
<1> QED
  BY <1>3

\* The greatest of some of the first n numbers.
LEMMA Greatest ==
    ASSUME NEW n \in Nat, NEW s \in SUBSET (1..n), s # {}
    PROVE  Max(s) \in s /\ \A y \in s : Max(s) >= y
<1> DEFINE U == {u \in Nat : \A y \in s : u >= y}
<1>1. n \in U
  OBVIOUS
<1>2. PICK u \in U : \A v \in U : u <= v
  BY <1>1, Least, Zenon
<1>3. u \in s
  <2> SUFFICES ASSUME u \notin s PROVE FALSE
    OBVIOUS
  <2>1. PICK y \in s : y \in Nat /\ y > 0
    <3>1. PICK y : y \in s
      OBVIOUS
    <3>2. y \in 1..n
      BY <3>1
    <3>3. y \in Nat /\ y > 0
      BY <3>2
    <3> QED
      BY <3>1, <3>3
  <2>2. u \in Nat /\ u >= y /\ u - 1 \in Nat
    BY <2>1
  <2>3. \A z \in s : u - 1 >= z
    <3> TAKE z \in s
    <3>1. z \in Nat /\ u >= z /\ z # u
      OBVIOUS
    <3> QED
      BY <2>2, <3>1
  <2>4. u - 1 \in U
    BY <2>2, <2>3
  <2>5. u <= u - 1
    BY <1>2, <2>4
  <2> QED
    BY <2>2, <2>5
<1>4. \E x \in s : \A y \in s : x >= y
  BY <1>2, <1>3
<1> QED
  BY <1>4, Zenon DEF Max

\* There is such a function: for no numbers, and then for one more.
LEMMA FoldExists ==
    ASSUME NEW bs, NEW n \in Nat
    PROVE  \E iter : Fold(iter, bs, n)
<1> DEFINE Bad == {m \in Nat : ~ \E iter : Fold(iter, bs, m)}
<1> SUFFICES ASSUME Bad # {} PROVE FALSE
  OBVIOUS
<1>1. PICK m \in Bad : \A k \in Bad : m <= k
  BY Least, Zenon
<1>2. m \in Nat /\ ~ \E iter : Fold(iter, bs, m)
  OBVIOUS
<1>3. CASE m = 0
  <2> DEFINE f == [s \in SUBSET (1..m) |-> bs]
  <2>1. \A s \in SUBSET (1..m) : s = {}
    BY <1>3
  <2>2. Fold(f, bs, m)
    BY <2>1 DEF Fold
  <2> QED
    BY <1>2, <2>2
<1>4. CASE m # 0
  <2>1. m - 1 \in Nat /\ m - 1 \notin Bad
    BY <1>1, <1>2, <1>4
  <2>2. PICK g : Fold(g, bs, m - 1)
    BY <2>1
  <2>3. \A s \in SUBSET (1..(m - 1)) :
            g[s] = IF s = {} THEN bs ELSE Round(g[s \ {Max(s)}], Max(s))
    BY <2>2, Zenon DEF Fold
  <2> DEFINE f == [s \in SUBSET (1..m) |-> IF m \in s THEN Round(g[s \ {m}], m) ELSE g[s]]
  <2>4. ASSUME NEW s \in SUBSET (1..m)
        PROVE  f[s] = IF s = {} THEN bs ELSE Round(f[s \ {Max(s)}], Max(s))
    <3>1. CASE m \in s
      <4>1. Max(s) = m
        <5>1. Max(s) \in 1..m /\ Max(s) >= m
          <6>1. Max(s) \in s /\ Max(s) >= m
            BY <1>2, <3>1, Greatest
          <6> QED
            BY <6>1
        <5> QED
          BY <1>2, <5>1
      <4>2. f[s \ {m}] = g[s \ {m}]
        OBVIOUS
      <4> QED
        BY <3>1, <4>1, <4>2
    <3>2. CASE m \notin s
      <4>1. s \in SUBSET (1..(m - 1))
        BY <1>2, <3>2
      <4>2. f[s] = g[s] /\ f[s \ {Max(s)}] = g[s \ {Max(s)}]
        BY <3>2
      <4> QED
        BY <2>3, <4>1, <4>2, Zenon
    <3> QED
      BY <3>1, <3>2
  <2>5. Fold(f, bs, m)
    BY <2>4, Zenon DEF Fold
  <2> QED
    BY <1>2, <2>5
<1> QED
  BY <1>3, <1>4

\* "Defaults" leaves sound bindings in which every action has its key.
LEMMA DefaultKeysFacts ==
    ASSUME NEW b0, Sound(b0), NEW b \in defaultKeys({b0})
    PROVE  Sound(b) /\ \A a \in Changing : KeysFor(b, a) = {DefaultKey(a)}
<1> DEFINE n == Len(Rebindable)
           iter == CHOOSE f : Fold(f, {b0}, n)
<1>1. n \in Nat /\ DOMAIN Rebindable = 1..n
  BY ControlsAssumption
<1>2. defaultKeys({b0}) = iter[1..n]
  <2>1. defaultKeys({b0}) =
          (CHOOSE f : f = [s \in SUBSET (DOMAIN Rebindable) |->
                             IF s = {} THEN {b0} ELSE Round(f[s \ {Max(s)}], Max(s))])
            [DOMAIN Rebindable]
    BY Zenon DEF defaultKeys, FoldLeft, MapThenFoldSet, Round
  <2> QED
    BY <1>1, <2>1, Zenon DEF Fold
<1>3. Fold(iter, {b0}, n)
  BY <1>1, FoldExists, Zenon
<1> HIDE DEF n, iter
<1>4. \A s \in SUBSET (1..n) :
          iter[s] = IF s = {} THEN {b0} ELSE Round(iter[s \ {Max(s)}], Max(s))
  BY <1>3, Zenon DEF Fold
<1> DEFINE Bad == {i \in 0..n : ~ Restored(iter[1..i], i)}
<1>5. Bad = {}
  <2> SUFFICES ASSUME Bad # {} PROVE FALSE
    OBVIOUS
  <2>1. PICK i \in Bad : \A k \in Bad : i <= k
    <3>1. Bad \subseteq Nat
      BY <1>1
    <3> QED
      BY <3>1, Least, Zenon
  <2>2. i \in 0..n /\ i \in Nat /\ ~ Restored(iter[1..i], i)
    BY <1>1
  <2>3. CASE i = 0
    <3>1. 1..i = {} /\ {} \in SUBSET (1..n)
      BY <2>3
    <3>2. iter[1..i] = {b0}
      BY <1>4, <3>1, Zenon
    <3>3. Restored({b0}, i)
      BY <3>1 DEF Restored
    <3> QED
      BY <2>2, <3>2, <3>3, Zenon
  <2>4. CASE i # 0
    <3>1. i - 1 \in Nat /\ i - 1 \in 0..n /\ ~ (i <= i - 1) /\ (i - 1) + 1 = i
          /\ i \in 1..n /\ i \in 1..i
      BY <1>1, <2>2, <2>4
    <3>2. Restored(iter[1..(i - 1)], i - 1)
      <4>1. i - 1 \notin Bad
        BY <2>1, <3>1, Zenon
      <4> QED
        BY <3>1, <4>1
    <3>3. 1..i \in SUBSET (1..n) /\ 1..i # {}
      BY <1>1, <2>2, <3>1
    <3>4. Max(1..i) = i
      <4>1. Max(1..i) \in 1..i /\ Max(1..i) >= i
        BY <2>2, <3>1, <3>3, Greatest
      <4> QED
        BY <2>2, <4>1
    <3>5. (1..i) \ {i} = 1..(i - 1)
      BY <2>2
    <3>6. iter[1..i] = Round(iter[1..(i - 1)], i)
      BY <1>4, <3>3, <3>4, <3>5, Zenon
    <3>7. Restored(Round(iter[1..(i - 1)], (i - 1) + 1), (i - 1) + 1)
      BY <3>1, <3>2, RoundFacts, Zenon DEF n
    <3> QED
      BY <2>2, <3>1, <3>6, <3>7, Zenon
  <2> QED
    BY <2>3, <2>4
<1>6. Restored(iter[1..n], n)
  <2>1. n \in 0..n
    BY <1>1
  <2> QED
    BY <1>5, <2>1
<1>7. b \in iter[1..n]
  BY <1>2
<1>8. Sound(b) /\ \A j \in 1..n : KeysFor(b, Rebindable[j]) = {DefaultKey(Rebindable[j])}
  BY <1>6, <1>7, Zenon DEF Restored
<1>9. \A a \in Changing : \E j \in 1..n : a = Rebindable[j]
  BY <1>1 DEF Changing, Range
<1> QED
  BY <1>8, <1>9, Zenon

----------------------------------------------------------------------------
\* The bindings of the game: a key that waits, waits for an action of the
\* menu.
BoundInv == Sound(bound) /\ waiting \in Changing \cup {None}

\* Every step keeps the bindings sound.
LEMMA NextBoundInv == BoundInv /\ [Next]_vars => BoundInv'
<1> SUFFICES ASSUME BoundInv, [Next]_vars PROVE BoundInv'
  OBVIOUS
<1>1. Sound(bound) /\ waiting \in Changing \cup {None} /\ None \notin Changing
  BY ControlsAssumption DEF BoundInv
<1>2. CASE UNCHANGED <<bound, waiting>>
  BY <1>1, <1>2 DEF BoundInv
<1>3. ASSUME NEW k \in Key, waiting # None, k \in Keyboard, keypress(k)
      PROVE  BoundInv'
  <2>1. waiting' = None
    BY <1>3 DEF keypress
  <2>2. CASE k = Escape
    <3>1. bound' = bound
      BY <1>3, <2>2 DEF keypress
    <3> QED
      BY <1>1, <2>1, <3>1 DEF BoundInv
  <2>3. CASE k # Escape
    <3>1. bound' \in rebind(bound, waiting, k)
      BY <1>3, <2>3 DEF keypress
    <3>2. Sound(bound')
      BY <1>1, <1>3, <2>3, <3>1, RebindFacts
    <3>3. Sound(bound)'
      BY <3>2
    <3> QED
      BY <2>1, <3>3 DEF BoundInv
  <2> QED
    BY <2>2, <2>3
<1>4. CASE waiting' = waiting /\ bound' \in defaultKeys({bound})
  <2>1. Sound(bound')
    BY <1>1, <1>4, DefaultKeysFacts
  <2>2. Sound(bound)'
    BY <2>1
  <2> QED
    BY <1>1, <1>4, <2>2 DEF BoundInv
<1>5. CASE waiting' \in Changing /\ bound' = bound
  BY <1>1, <1>5 DEF BoundInv
<1>6. ASSUME NEW k \in Key, Press(k) PROVE BoundInv'
  <2>1. CASE performAction(bound[k]) \/ screenInput
    <3>1. UNCHANGED <<bound, waiting>>
      BY <2>1 DEF performAction, screenInput, menu
    <3> QED
      BY <1>2, <3>1
  <2>2. CASE menuInput(k)
    <3>1. \/ UNCHANGED <<bound, waiting>>
          \/ waiting # None /\ k \in Keyboard /\ keypress(k)
          \/ waiting' = waiting /\ bound' \in defaultKeys({bound})
          \/ waiting' \in Changing /\ bound' = bound
      BY <2>2 DEF menuInput, menu
    <3> QED
      BY <1>2, <1>3, <1>4, <1>5, <3>1
  <2> QED
    BY <1>6, <2>1, <2>2 DEF Press
<1>7. CASE Autofire \/ Die \/ Dock \/ Countdown \/ Jump \/ \E k \in Key : Release(k)
  <2>1. UNCHANGED <<bound, waiting>>
    BY <1>7 DEF Autofire, Die, Dock, Countdown, Jump, Release, menu
  <2> QED
    BY <1>2, <2>1
<1>8. CASE UNCHANGED vars
  BY <1>2, <1>8 DEF vars
<1> QED
  BY <1>6, <1>7, <1>8 DEF Next

\* The bindings are sound in every state.
LEMMA BoundInvariance == Spec => []BoundInv
<1>1. Init => BoundInv
  BY DefaultSound DEF Init, BoundInv
<1> QED
  BY <1>1, NextBoundInv, PTL DEF Spec

----------------------------------------------------------------------------
\* The inductive invariant.
THEOREM ControlsInvariance == Spec => []IInv
<1>1. Init => IInv
  BY DEF Init, IInv, KeysMenu
<1> QED
  BY <1>1, NextIInv, PTL DEF Spec

\* Whoever waits for a key is on the screen.
THEOREM KeyWaitCorrect == Spec => []KeyWaitIsOnScreen
<1>1. IInv => KeyWaitIsOnScreen
  BY DEF IInv, KeysMenu, KeyWaitIsOnScreen
<1> QED
  BY <1>1, ControlsInvariance, PTL

\* However the player shuffles the keys, no action has two of them, and ESC
\* and the mouse buttons keep what they are bound to.
THEOREM BindingsCorrect == Spec => []BindingsAreSound
<1>1. BoundInv => BindingsAreSound
  <2> SUFFICES ASSUME BoundInv PROVE BindingsAreSound
    OBVIOUS
  <2>1. Sound(bound)
    BY DEF BoundInv
  <2>2. \A a \in Changing : Cardinality(KeysFor(bound, a)) <= 1
    BY <2>1, SoundFacts DEF Sound
  <2> QED
    BY <2>1, <2>2 DEF Sound, BindingsAreSound
<1> QED
  BY <1>1, BoundInvariance, PTL

\* From any bindings "Defaults" gives every action of the menu its key back,
\* and no other.
THEOREM ResetCorrect == Spec => []ResetRestores
<1>1. BoundInv => ResetRestores
  <2> SUFFICES ASSUME BoundInv, NEW b \in defaultKeys({bound}), NEW a \in Changing
               PROVE  KeysFor(b, a) = KeysFor(Default, a)
    BY Zenon DEF ResetRestores
  <2>1. KeysFor(b, a) = {DefaultKey(a)}
    BY DefaultKeysFacts DEF BoundInv
  <2> QED
    BY <2>1, DefaultFacts
<1> QED
  BY <1>1, BoundInvariance, PTL

\* A key pressed in the game turns on what it is bound to, and it is down.
LEMMA PressDoesNotStick ==
    ASSUME IInv, NEW k \in Key, Press(k), context = "eInGame", ~Stuck PROVE ~Stuck'
<1>1. performAction(bound[k]) /\ held' = held \cup {k}
  BY DEF Press
<1>2. bound' = bound
  BY <1>1 DEF performAction, menu
<1>3. CASE bound[k] \in Control /\ perform(bound[k], TRUE)
  <2>1. on' \subseteq on \cup {bound[k]} /\ alive' = alive
    BY <1>3, Zenon DEF perform, move, weaponFire, Set, hero
  <2> QED
    BY <1>1, <1>2, <2>1 DEF Stuck
<1>4. CASE on' = on /\ alive' = alive
  BY <1>1, <1>2, <1>4 DEF Stuck
<1> QED
  BY <1>1, <1>3, <1>4 DEF performAction, hero

\* A key released in the game turns off what it is bound to, also when the
\* trigger had to be released first.
LEMMA ReleaseDoesNotStick ==
    ASSUME IInv, NEW k \in Key, Release(k), context = "eInGame", ~Stuck PROVE ~Stuck'
<1>1. /\ held' = held \ {k} /\ bound' = bound
      /\ \/ bound[k] \in Control /\ perform(bound[k], FALSE)
         \/ bound[k] \notin Control /\ on' = on /\ alive' = alive
  BY DEF Release, NoInterceptor, menu, hero
<1>2. CASE ~alive
  <2>1. alive' = alive
    BY <1>1, PerformFacts DEF IInv
  <2> QED
    BY <1>2, <2>1 DEF Stuck
<1>3. CASE alive
  <2>1. on' = on \ {bound[k]}
    <3>1. CASE bound[k] \in Control /\ perform(bound[k], FALSE)
      BY <1>3, <3>1, Zenon DEF perform, move, weaponFire, Set
    <3>2. CASE bound[k] \notin Control /\ on' = on
      BY <3>2 DEF IInv
    <3> QED
      BY <1>1, <3>1, <3>2
  <2>2. \A c \in on : \E h \in held : bound[h] = c
    BY <1>3 DEF Stuck
  <2>3. ASSUME NEW c \in on' PROVE \E h \in held' : bound'[h] = c
    <3>1. c \in on /\ c # bound[k]
      BY <2>1, <2>3
    <3>2. PICK h \in held : bound[h] = c
      BY <2>2, <3>1
    <3> QED
      BY <1>1, <3>1, <3>2
  <2> QED
    BY <2>3 DEF Stuck
<1> QED
  BY <1>2, <1>3

\* A control gets stuck only while another screen has the keys.
THEOREM ControlsCorrect == Spec => StuckOnlyWhenAway
<1>1. ASSUME IInv, [Next]_vars
      PROVE  [(Stuck' /\ ~Stuck) => context # "eInGame"]_vars
  <2> SUFFICES ASSUME Next, ~Stuck, context = "eInGame" PROVE ~Stuck'
    BY <1>1
  <2>1. ASSUME NEW k \in Key, Press(k) PROVE ~Stuck'
    BY <1>1, <2>1, PressDoesNotStick
  <2>2. ASSUME NEW k \in Key, Release(k) PROVE ~Stuck'
    BY <1>1, <2>2, ReleaseDoesNotStick
  <2>3. CASE Autofire \/ Countdown \/ Dock
    BY <2>3 DEF Autofire, Countdown, Dock, menu, hero, Stuck
  <2>4. CASE Die
    BY <2>4 DEF Die, Stuck
  <2>5. CASE Jump
    BY <2>5 DEF Jump, startNewGame, Stuck
  <2> QED
    BY <2>1, <2>2, <2>3, <2>4, <2>5 DEF Next
<1> QED
  BY <1>1, ControlsInvariance, PTL DEF Spec, StuckOnlyWhenAway
=============================================================================
