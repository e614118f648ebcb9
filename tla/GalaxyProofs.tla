---------------------------- MODULE GalaxyProofs ----------------------------
(***************************************************************************)
(* For any number of planets: the prices of a planet that did not begin on *)
(* the fence are made under the laws of whoever rules it, and where their  *)
(* number allows it every planet has its turn in every round of dockings.  *)
(***************************************************************************)
EXTENDS Galaxy, FiniteSetTheorems, NaturalsInduction, WellFoundedInduction, TLAPS

\* Nobody comes to sit on the fence: without this a planet could change hands
\* in two turns, by way of 50, and neither would be told as a victory.
OffTheFence == \A p \in Planet : sentiment[p] = 50 => born[p] = 50

IInv == TypeOK /\ OffTheFence /\ GovernmentPriced

----------------------------------------------------------------------------
\* A sentiment off the fence drifts to one off the fence, within the scale.
LEMMA DriftFacts ==
    ASSUME NEW s \in 0..100, NEW d \in -5..5
    PROVE  /\ drift(s, d) \in 0..100
           /\ s # 50 => drift(s, d) # 50
<1>1. Clamp(s + d) \in 0..100 /\ (s + d # 50 => Clamp(s + d) # 50)
  BY DEF Clamp
<1> QED
  BY <1>1 DEF drift

\* What a turn does to the sentiment s: it stays on the scale and off the
\* fence, and on the same side if nobody's victory is told.
LEMMA TurnFacts ==
    ASSUME NEW s \in 0..100, NEW d \in -5..5
    PROVE  /\ takeover(s, drift(s, d)) \in 0..100
           /\ s # 50 => takeover(s, drift(s, d)) # 50
           /\ s # 50 /\ ~changed(s, drift(s, d)) =>
                RulerAt(takeover(s, drift(s, d))) = RulerAt(s)
<1> DEFINE t == drift(s, d)
<1>1. t \in 0..100 /\ (s # 50 => t # 50)
  BY DriftFacts
<1> HIDE DEF t
<1>2. takeover(s, t) \in 0..100 /\ (s # 50 => takeover(s, t) # 50)
  BY <1>1 DEF takeover
<1>3. s # 50 /\ ~changed(s, t) => RulerAt(takeover(s, t)) = RulerAt(s)
  BY <1>1 DEF takeover, changed, RulerAt
<1> QED
  BY <1>2, <1>3 DEF t

\* How many planets count their calls is a number.
LEMMA CountedIsNat == ASSUME NEW p \in Planet PROVE Counted(p) \in Nat
<1>1. p \in Int
  BY DEF Planet
<1>2. IsFiniteSet(1..p)
  BY <1>1, FS_Interval
<1>3. IsFiniteSet((1..p) \ Core)
  BY <1>2, FS_Difference
<1> QED
  BY <1>3, FS_CardinalityType DEF Counted

----------------------------------------------------------------------------
\* The first state has the invariant.
LEMMA InitIInv == Init => IInv
<1> SUFFICES ASSUME Init PROVE IInv
  OBVIOUS
<1>1. sentiment \in [Planet -> 0..100]
  BY GalaxyAssumption DEF Init, Signs, Planet
<1>2. TypeOK
  BY <1>1, GalaxyAssumption DEF Init, TypeOK
<1> QED
  BY <1>1, <1>2 DEF Init, IInv, OffTheFence, GovernmentPriced

\* A docking: each planet by itself, with its turn or without.
LEMMA DockIInv == IInv /\ Dock => IInv'
<1> SUFFICES ASSUME IInv, Dock PROVE IInv'
  OBVIOUS
<1> USE GalaxyAssumption
<1> DEFINE Turn == {p \in Planet : Due(p)}
<1>1. PICK d \in [Turn -> -5..5], advance \in SUBSET Turn :
        LET drifted == [p \in Turn |-> drift(sentiment[p], d[p])]
            after   == [p \in Turn |-> takeover(sentiment[p], drifted[p])]
        IN /\ sentiment' = [p \in Planet |-> IF p \in Turn THEN after[p] ELSE sentiment[p]]
           /\ market' = [p \in Planet |->
                IF p \in Turn /\ \/ changed(sentiment[p], drifted[p])
                                 \/ p \in advance /\ Prospers(after[p])
                THEN RulerAt(after[p]) ELSE market[p]]
  BY Zenon DEF Dock
<1>2. /\ sentiment \in [Planet -> 0..100] /\ born \in [Planet -> 0..100]
      /\ market \in [Planet -> Ruler \cup {"none"}]
      /\ turns \in 0..(Every - 1) /\ here \in Planet /\ idle \in [Planet -> 0..Every]
  BY DEF IInv, TypeOK
<1>3. born' = born /\ here' = here /\ count
      /\ idle' = [p \in Planet |-> IF Due(p) THEN 0
                                   ELSE IF idle[p] = Every THEN Every ELSE idle[p] + 1]
  BY DEF Dock
<1>4. ASSUME NEW p \in Turn
      PROVE  /\ p \in Planet /\ sentiment[p] \in 0..100 /\ d[p] \in -5..5
             /\ sentiment'[p] = takeover(sentiment[p], drift(sentiment[p], d[p]))
             /\ \/ market'[p] = RulerAt(sentiment'[p])
                \/ ~changed(sentiment[p], drift(sentiment[p], d[p])) /\ market'[p] = market[p]
  <2>1. p \in Planet /\ sentiment[p] \in 0..100 /\ d[p] \in -5..5
    BY <1>2
  <2> QED
    BY <1>1, <2>1, Zenon
<1>5. ASSUME NEW p \in Planet, p \notin Turn
      PROVE  sentiment'[p] = sentiment[p] /\ market'[p] = market[p]
  BY <1>1, <1>5, Zenon
<1>6. ASSUME NEW p \in Planet
      PROVE  /\ sentiment'[p] \in 0..100
             /\ sentiment[p] # 50 => sentiment'[p] # 50
             /\ market'[p] \in Ruler \cup {"none"}
             /\ sentiment[p] # 50 /\ market[p] \in {"none", RulerAt(sentiment[p])}
                  => market'[p] \in {"none", RulerAt(sentiment'[p])}
  <2>1. CASE p \notin Turn
    BY <1>2, <1>5, <2>1
  <2>2. CASE p \in Turn
    <3> DEFINE s == sentiment[p]
               e == d[p]
               t == drift(s, e)
    <3>1. s \in 0..100 /\ e \in -5..5 /\ sentiment'[p] = takeover(s, t)
          /\ \/ market'[p] = RulerAt(sentiment'[p])
             \/ ~changed(s, t) /\ market'[p] = market[p]
      BY <1>4, <2>2, Zenon
    <3>2. /\ takeover(s, t) \in 0..100 /\ (s # 50 => takeover(s, t) # 50)
          /\ s # 50 /\ ~changed(s, t) => RulerAt(takeover(s, t)) = RulerAt(s)
      BY <3>1, TurnFacts, Zenon
    <3>3. \A x : RulerAt(x) \in Ruler
      BY DEF RulerAt, Ruler
    <3>4. market[p] \in Ruler \cup {"none"}
      BY <1>2
    <3> HIDE DEF s, e, t
    <3> QED
      BY <3>1, <3>2, <3>3, <3>4, Zenon DEF s
  <2> QED
    BY <2>1, <2>2
<1>7. TypeOK'
  <2>1. sentiment' \in [Planet -> 0..100] /\ market' \in [Planet -> Ruler \cup {"none"}]
    <3>1. /\ \E S : sentiment' = [p \in Planet |-> S[p]]
          /\ \E M : market' = [p \in Planet |-> M[p]]
      <4>1. sentiment' = [p \in Planet |-> sentiment'[p]]
        BY <1>1, Zenon
      <4>2. market' = [p \in Planet |-> market'[p]]
        BY <1>1, Zenon
      <4> QED
        BY <4>1, <4>2
    <3> QED
      BY <3>1, <1>6
  <2>2. turns' \in 0..(Every - 1)
    <3>1. Planets \in Planet
      BY DEF Planet
    <3>2. turns + Counted(Planets) \in Nat
      BY <1>2, <3>1, CountedIsNat
    <3> QED
      BY <1>3, <3>2 DEF count
  <2>3. idle' \in [Planet -> 0..Every]
    BY <1>2, <1>3
  <2> QED
    BY <1>2, <1>3, <2>1, <2>2, <2>3 DEF TypeOK
<1>8. OffTheFence' /\ GovernmentPriced'
  BY <1>2, <1>3, <1>6 DEF IInv, OffTheFence, GovernmentPriced
<1> QED
  BY <1>7, <1>8 DEF IInv

\* Every step keeps the invariant.
LEMMA NextIInv == IInv /\ [Next]_vars => IInv'
<1> SUFFICES ASSUME IInv, [Next]_vars PROVE IInv'
  OBVIOUS
<1> USE GalaxyAssumption
<1>1. CASE NewCampaign
  <2>1. sentiment' \in [Planet -> 0..100]
    BY <1>1 DEF NewCampaign, recreate, Signs, Planet
  <2>2. /\ born' = sentiment' /\ market' = [p \in Planet |-> "none"] /\ here' \in Planet
        /\ idle' = [p \in Planet |-> 0] /\ turns' = turns
    BY <1>1 DEF NewCampaign, recreate
  <2>3. TypeOK'
    <3>1. turns \in 0..(Every - 1)
      BY DEF IInv, TypeOK
    <3>2. born' \in [Planet -> 0..100] /\ market' \in [Planet -> Ruler \cup {"none"}]
      BY <2>1, <2>2
    <3>3. turns' \in 0..(Every - 1) /\ here' \in Planet
      BY <2>2, <3>1
    <3>4. idle' \in [Planet -> 0..Every]
      <4>1. 0 \in 0..Every
        OBVIOUS
      <4> QED
        BY <2>2, <4>1, Zenon
    <3> QED
      BY <2>1, <3>2, <3>3, <3>4 DEF TypeOK
  <2>4. OffTheFence' /\ GovernmentPriced'
    BY <2>2 DEF OffTheFence, GovernmentPriced
  <2> QED
    BY <2>3, <2>4 DEF IInv
<1>2. CASE Travel
  BY <1>2 DEF Travel, IInv, TypeOK, OffTheFence, GovernmentPriced
<1>3. CASE getPrice
  BY <1>3 DEF getPrice, IInv, TypeOK, OffTheFence, GovernmentPriced, RulerAt, Ruler
<1>4. CASE Dock
  BY <1>4, DockIInv
<1>5. CASE UNCHANGED vars
  BY <1>5 DEF vars, IInv, TypeOK, OffTheFence, GovernmentPriced
<1> QED
  BY <1>1, <1>2, <1>3, <1>4, <1>5 DEF Next

----------------------------------------------------------------------------
(* Some arithmetic: two numbers without a common factor.                   *)

Divides(n, x) == \E q \in Int : x = q * n

\* The combinations of c and n.
Combines(c, n, x) == \E a \in Int, b \in Int : x = a * c + b * n

\* Division with a remainder.
LEMMA Division ==
    ASSUME NEW n \in Nat \ {0}, NEW x \in Int
    PROVE  /\ x \div n \in Int /\ x % n \in 0..(n - 1)
           /\ x = (x \div n) * n + (x % n)
<1> QED
  OBVIOUS

\* Without a remainder.
LEMMA NoRemainder ==
    ASSUME NEW n \in Nat \ {0}, NEW x \in Int
    PROVE  (x % n = 0) <=> Divides(n, x)
<1>1. ASSUME x % n = 0 PROVE Divides(n, x)
  <2>1. x \div n \in Int /\ x = (x \div n) * n + (x % n)
    BY Division
  <2>2. (x \div n) * n \in Int
    BY <2>1
  <2>3. x = (x \div n) * n
    BY <1>1, <2>1, <2>2
  <2> QED
    BY <2>1, <2>3, Zenon DEF Divides
<1>2. ASSUME NEW q \in Int PROVE (q * n) % n = 0
  OBVIOUS
<1> QED
  BY <1>1, <1>2, Zenon DEF Divides

\* A remainder is a combination of what was divided.
LEMMA RemainderCombines ==
    ASSUME NEW c \in Int, NEW n \in Int, NEW x \in Int, NEW m \in Nat \ {0},
           Combines(c, n, x), Combines(c, n, m)
    PROVE  Combines(c, n, x % m)
<1>1. PICK a \in Int, b \in Int : x = a * c + b * n
  BY Zenon DEF Combines
<1>2. PICK d \in Int, e \in Int : m = d * c + e * n
  BY Zenon DEF Combines
<1>3. PICK q \in Int : x = q * m + (x % m) /\ x % m \in Int
  <2>1. x \div m \in Int /\ x % m \in 0..(m - 1) /\ x = (x \div m) * m + (x % m)
    BY Division
  <2>2. x % m \in Int
    BY <2>1
  <2> QED
    BY <2>1, <2>2, Zenon
<1> DEFINE t == x % m
<1>4. x = q * m + t /\ t \in Int
  BY <1>3
<1> HIDE DEF t
<1>5. t = (a * c + b * n) - q * (d * c + e * n)
  <2>1. q * m \in Int
    BY <1>3
  <2>2. t = x - q * m
    BY <1>4, <2>1
  <2> QED
    BY <1>1, <1>2, <2>2, Zenon
<1>6. (a * c + b * n) - q * (d * c + e * n) = (a - q * d) * c + (b - q * e) * n
  OBVIOUS
<1>7. a - q * d \in Int /\ b - q * e \in Int
  OBVIOUS
<1>8. Combines(c, n, t)
  BY <1>5, <1>6, <1>7, Zenon DEF Combines
<1> QED
  BY <1>8 DEF t

\* A set of numbers has a least one.
LEMMA Least ==
    ASSUME NEW S, S \subseteq Nat, S # {}
    PROVE  \E m \in S : \A k \in S : m <= k
<1>1. \E x \in S : \A y \in S : ~ (<<y, x>> \in OpToRel(<, Nat))
  BY NatLessThanWellFounded, WFMin, Zenon
<1>2. PICK x \in S : \A y \in S : ~ (<<y, x>> \in OpToRel(<, Nat))
  BY <1>1
<1>3. ASSUME NEW y \in S PROVE x <= y
  <2>1. ~ (y < x)
    BY <1>2 DEF OpToRel
  <2> QED
    BY <2>1
<1> QED
  BY <1>3

\* Numbers that have no factor in common combine to 1 (Bezout): their least
\* combination is a common factor.
LEMMA Bezout ==
    ASSUME NEW c \in Nat, NEW n \in Nat \ {0},
           \A k \in 2..n : n % k = 0 => c % k # 0
    PROVE  Combines(c, n, 1)
<1> DEFINE S == {x \in Nat \ {0} : Combines(c, n, x)}
<1>1. Combines(c, n, n) /\ Combines(c, n, c)
  <2>1. n = 0 * c + 1 * n /\ c = 1 * c + 0 * n
    OBVIOUS
  <2>2. 0 \in Int /\ 1 \in Int
    OBVIOUS
  <2> QED
    BY <2>1, <2>2, Zenon DEF Combines
<1>2. n \in S /\ S \subseteq Nat
  BY <1>1
<1>3. PICK m \in S : \A k \in S : m <= k
  BY <1>2, Least, Zenon
<1>4. m \in Nat \ {0} /\ Combines(c, n, m) /\ m <= n
  BY <1>2, <1>3
<1>5. ASSUME NEW x \in Int, Combines(c, n, x)
      PROVE  x % m = 0
  <2>1. Combines(c, n, x % m)
    BY <1>4, <1>5, RemainderCombines
  <2>2. x % m \in 0..(m - 1)
    BY <1>4, Division
  <2>3. x % m \in Nat /\ x % m < m
    BY <1>4, <2>2
  <2>4. SUFFICES ASSUME x % m # 0 PROVE FALSE
    OBVIOUS
  <2>5. x % m \in S
    BY <2>1, <2>3, <2>4
  <2>6. m <= x % m
    BY <1>3, <2>5
  <2> QED
    BY <1>4, <2>3, <2>6
<1>6. n % m = 0 /\ c % m = 0
  BY <1>1, <1>5
<1>7. m \notin 2..n
  BY <1>6
<1>8. m = 1
  BY <1>4, <1>7
<1> QED
  BY <1>4, <1>8

\* In steps of c every remainder is reached within n steps.
LEMMA Reaches ==
    ASSUME NEW c \in Nat, NEW n \in Nat \ {0}, NEW r \in Int,
           \A k \in 2..n : n % k = 0 => c % k # 0
    PROVE  \E j \in 1..n : Divides(n, r - j * c)
<1>1. PICK a \in Int, b \in Int : 1 = a * c + b * n
  BY Bezout, Zenon DEF Combines
<1> DEFINE q == (r * a - 1) \div n
           t == (r * a - 1) % n
<1>2. r * a - 1 \in Int
  OBVIOUS
<1>3. q \in Int /\ t \in 0..(n - 1) /\ r * a - 1 = q * n + t
  BY <1>2, Division
<1> HIDE DEF q, t
<1>4. t + 1 \in 1..n /\ t + 1 = r * a - q * n
  <2>1. q * n \in Int /\ r * a \in Int /\ t \in Int
    BY <1>3
  <2> QED
    BY <1>3, <2>1
<1>5. r - (r * a - q * n) * c = r * (1 - a * c) + (q * c) * n
  BY <1>3
<1>6. 1 - a * c = b * n
  <2>1. a * c \in Int /\ b * n \in Int
    OBVIOUS
  <2> QED
    BY <1>1, <2>1
<1>7. r * (b * n) + (q * c) * n = (r * b + q * c) * n /\ r * b + q * c \in Int
  BY <1>3
<1>8. r - (t + 1) * c = (r * b + q * c) * n
  BY <1>4, <1>5, <1>6, <1>7, Zenon
<1>9. Divides(n, r - (t + 1) * c)
  BY <1>7, <1>8, Zenon DEF Divides
<1> QED
  BY <1>4, <1>9, Zenon

----------------------------------------------------------------------------
(* Whose turn it is.                                                       *)

\* Since a planet had its turn its calls have not fallen on the beginning of
\* a round: not the one of j dockings ago, for any j.
Waits ==
    \A p \in Planet \ Core : \A j \in 1..idle[p] :
        (turns + Counted(p) - 1 - j * Counted(Planets)) % Every # 0

\* A whole number of rounds makes no difference.
LEMMA WholeRounds ==
    ASSUME NEW n \in Nat \ {0}, NEW x \in Int, NEW q \in Int, (x - q * n) % n = 0
    PROVE  x % n = 0
<1>1. x - q * n \in Int
  OBVIOUS
<1>2. PICK e \in Int : x - q * n = e * n
  BY <1>1, NoRemainder, Zenon DEF Divides
<1>3. x = (e + q) * n /\ e + q \in Int
  <2>1. q * n \in Int /\ e * n \in Int /\ (e + q) * n = e * n + q * n
    OBVIOUS
  <2>2. x = e * n + q * n
    BY <1>2, <2>1
  <2> QED
    BY <2>1, <2>2
<1>4. Divides(n, x)
  BY <1>3, Zenon DEF Divides
<1> QED
  BY <1>4, NoRemainder

\* The constants of the counter.
LEMMA CounterFacts ==
    /\ Every \in Nat \ {0} /\ Counted(Planets) \in Nat
    /\ \A p \in Planet : Counted(p) \in Nat
<1>1. Planets \in Planet /\ Every \in Nat \ {0}
  BY GalaxyAssumption DEF Planet
<1> QED
  BY <1>1, CountedIsNat

\* A docking: what was j - 1 dockings ago is j dockings ago now.
LEMMA DockWaits == TypeOK /\ Waits /\ Dock => Waits'
<1> SUFFICES ASSUME TypeOK, Waits, Dock,
                    NEW p \in Planet \ Core, NEW j \in 1..idle'[p],
                    (turns' + Counted(p) - 1 - j * Counted(Planets)) % Every = 0
             PROVE  FALSE
  BY DEF Waits
<1> DEFINE c == Counted(Planets)
           k == Counted(p) - 1
           q == (turns + c) \div Every
<1>1. /\ turns \in Nat /\ idle[p] \in 0..Every /\ Every \in Nat \ {0}
      /\ c \in Nat /\ k \in Int
  <2>1. turns \in 0..(Every - 1) /\ idle[p] \in 0..Every
    BY DEF TypeOK
  <2> QED
    BY <2>1, CounterFacts
<1>2. turns' = (turns + c) % Every
      /\ idle'[p] = IF Due(p) THEN 0 ELSE IF idle[p] = Every THEN Every ELSE idle[p] + 1
  BY DEF Dock, count, TypeOK
<1>3. ~ Due(p) /\ j \in Nat /\ j - 1 \in 0..idle[p]
  <2>1. ~ Due(p)
    BY <1>2
  <2>2. idle'[p] = IF idle[p] = Every THEN Every ELSE idle[p] + 1
    BY <1>2, <2>1
  <2> QED
    BY <1>1, <2>1, <2>2
<1>4. (turns + k) % Every # 0
  <2>1. (turns + Counted(p) - 1) % Every # 0
    BY <1>3 DEF Due
  <2>2. turns + Counted(p) - 1 = turns + k
    BY <1>1, CounterFacts
  <2> QED
    BY <2>1, <2>2, Zenon
<1>5. j - 1 \in 1..idle[p] => (turns + k - (j - 1) * c) % Every # 0
  <2>1. ASSUME j - 1 \in 1..idle[p]
        PROVE  (turns + Counted(p) - 1 - (j - 1) * Counted(Planets)) % Every # 0
    BY <2>1, Zenon DEF Waits
  <2>2. turns + Counted(p) - 1 = turns + k
    BY <1>1, CounterFacts
  <2> QED
    BY <2>1, <2>2, Zenon
<1>6. (turns' + k - j * c) % Every = 0
  <2>1. turns' \in Int
    BY <1>1, <1>2, Division
  <2>2. turns' + Counted(p) - 1 = turns' + k
    BY <2>1, CounterFacts
  <2> QED
    BY <2>2, Zenon
<1>7. q \in Int /\ turns + c = q * Every + turns' /\ turns' \in Int
  <2>1. turns + c \in Int
    BY <1>1
  <2>2. /\ q \in Int /\ (turns + c) % Every \in 0..(Every - 1)
        /\ turns + c = q * Every + ((turns + c) % Every)
    BY <1>1, <2>1, Division
  <2> QED
    BY <1>1, <1>2, <2>2
<1> HIDE DEF c, k, q
<1>8. turns' + k - j * c = (turns + k - (j - 1) * c) - q * Every
  <2>1. (j - 1) * c = j * c - c /\ j * c \in Int /\ q * Every \in Int
    BY <1>1, <1>3, <1>7
  <2>2. \A u, v, w \in Int :
          turns + c = u + v => v + k - w = (turns + k - (w - c)) - u
    BY <1>1
  <2>3. turns' + k - j * c = (turns + k - (j * c - c)) - q * Every
    BY <1>7, <2>1, <2>2, Zenon
  <2> QED
    BY <2>1, <2>3, Zenon
<1>9. (turns + k - (j - 1) * c) % Every = 0
  <2>1. turns + k - (j - 1) * c \in Int
    BY <1>1, <1>3
  <2> QED
    BY <1>1, <1>6, <1>7, <1>8, <2>1, WholeRounds
<1>10. j - 1 = 0
  BY <1>3, <1>5, <1>9
<1>11. turns + k - (j - 1) * c = turns + k
  BY <1>1, <1>10
<1> QED
  BY <1>4, <1>9, <1>11, Zenon

\* Every step keeps count of who waits.
LEMMA NextWaits == TypeOK /\ Waits /\ [Next]_vars => Waits'
<1> SUFFICES ASSUME TypeOK, Waits, [Next]_vars PROVE Waits'
  OBVIOUS
<1>1. CASE NewCampaign
  <2>1. idle' = [p \in Planet |-> 0]
    BY <1>1 DEF NewCampaign, recreate
  <2>2. \A p \in Planet : 1..idle'[p] = {}
    BY <2>1
  <2> QED
    BY <2>2 DEF Waits
<1>2. CASE Travel \/ getPrice \/ UNCHANGED vars
  <2>1. idle' = idle /\ turns' = turns
    BY <1>2 DEF Travel, getPrice, vars
  <2> QED
    BY <2>1 DEF Waits
<1>3. CASE Dock
  BY <1>3, DockWaits
<1> QED
  BY <1>1, <1>2, <1>3 DEF Next

\* Whoever has waited through a whole round, where the number of those who
\* count has no factor in common with its length, has been due in it.
LEMMA WaitsReach == TypeOK /\ Waits => RoundsReachAll
<1> SUFFICES ASSUME TypeOK, Waits,
                    \A k \in 2..Every : Every % k = 0 => Counted(Planets) % k # 0,
                    NEW p \in Planet \ Core, ~ (idle[p] < Every)
             PROVE  FALSE
  BY DEF RoundsReachAll
<1>1. turns \in 0..(Every - 1) /\ idle[p] \in 0..Every
  BY DEF TypeOK
<1>2. idle[p] = Every /\ turns \in Int
  BY <1>1, CounterFacts
<1>3. turns + Counted(p) - 1 \in Int
  BY <1>2, CounterFacts
<1>4. PICK j \in 1..Every : Divides(Every, (turns + Counted(p) - 1) - j * Counted(Planets))
  BY <1>3, CounterFacts, Reaches
<1>5. (turns + Counted(p) - 1) - j * Counted(Planets) \in Int
  BY <1>3, CounterFacts
<1>6. (turns + Counted(p) - 1 - j * Counted(Planets)) % Every = 0
  <2>1. \A x \in Int : Divides(Every, x) => x % Every = 0
    BY CounterFacts, NoRemainder
  <2>2. \A x, y, z \in Int : (x + y) - z = x + (y - z)
    OBVIOUS
  <2>3. Counted(p) - 1 \in Int /\ j * Counted(Planets) \in Int
    BY CounterFacts
  <2>4. (turns + Counted(p) - 1) - j * Counted(Planets)
          = turns + Counted(p) - 1 - j * Counted(Planets)
    BY <1>2, <2>2, <2>3, Zenon
  <2> QED
    BY <1>4, <1>5, <2>1, <2>4, Zenon
<1> QED
  BY <1>2, <1>4, <1>6, Zenon DEF Waits

----------------------------------------------------------------------------
\* The strengthened invariant: types, nobody on the fence, prices of the
\* ruler's.
THEOREM GalaxyInvariance == Spec => []IInv
<1> QED
  BY InitIInv, NextIInv, PTL DEF Spec

\* A planet's prices are always made under the laws of its present ruler.
THEOREM PricesFollowRuler == Spec => []GovernmentPriced
<1>1. IInv => GovernmentPriced
  BY DEF IInv
<1> QED
  BY <1>1, GalaxyInvariance, PTL

\* Every planet that counts has its turn within a round of dockings, if their
\* number has no factor in common with the length of the round.
THEOREM RoundsCorrect == Spec => []RoundsReachAll
<1>1. Init => Waits
  <2>1. Init => \A p \in Planet : 1..idle[p] = {}
    BY DEF Init
  <2> QED
    BY <2>1 DEF Waits
<1>2. IInv => TypeOK
  BY DEF IInv
<1>3. IInv /\ Waits => RoundsReachAll
  BY <1>2, WaitsReach
<1>4. IInv /\ Waits /\ [Next]_vars => Waits'
  BY <1>2, NextWaits
<1> QED
  BY <1>1, <1>3, <1>4, GalaxyInvariance, PTL DEF Spec
=============================================================================
