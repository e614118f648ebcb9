-------------------------- MODULE EnemyWavesProofs --------------------------
(***************************************************************************)
(* The waves of an orbit, for planets of any sentiment and activity.  The  *)
(* invariant says where the totals come from: while the ship is in orbit   *)
(* they are those that were drawn for this planet and this standing.       *)
(***************************************************************************)
EXTENDS EnemyWaves, TLAPS

Drawn == ~docked => total \in Totals(sentiment, name, status)

IInv == TypeOK /\ OneNavy /\ Drawn

----------------------------------------------------------------------------
(* The arithmetic of EnemyWaves::reset.                                    *)

\* Both navies multiply the same quotient, with opposite signs.
LEMMA BaseFacts ==
    ASSUME NEW s \in 0..100, NEW r \in Status, NEW e \in Status
    PROVE  /\ Base("rebel", s, r) \in Int /\ Base("empire", s, e) \in Int
           /\ s <= 50 => Base("rebel", s, r) <= 0
           /\ s >= 50 => Base("empire", s, e) <= 0
           /\ s >= 62 /\ r # 0 => Base("rebel", s, r) > 0
           /\ s <= 38 /\ e # 0 => Base("empire", s, e) > 0
<1> DEFINE up == (s - 50) \div 12
           dn == (50 - s) \div 12
<1>1. s \in Int /\ 0 <= s /\ s <= 100
  OBVIOUS
<1>2. s >= 50 => up \in Int /\ up >= 0 /\ (s >= 62 => up > 0)
  BY <1>1
<1>3. s <= 50 => dn \in Int /\ dn >= 0 /\ (s <= 38 => dn > 0)
  BY <1>1
<1>4. -(s - 50) = 50 - s /\ -(50 - s) = s - 50
  BY <1>1
<1>5. TruncDiv(s - 50, 12) = IF s >= 50 THEN up ELSE -dn
  BY <1>1, <1>4 DEF TruncDiv
<1>6. TruncDiv(50 - s, 12) = IF s <= 50 THEN dn ELSE -up
  BY <1>1, <1>4 DEF TruncDiv
<1>7. Base("rebel", s, r) = (IF s >= 50 THEN up ELSE -dn) * r
  BY <1>5 DEF Base
<1>8. Base("empire", s, e) = (IF s <= 50 THEN dn ELSE -up) * e
  BY <1>6 DEF Base
<1> HIDE DEF up, dn
<1>9. r \in {0, 1, 2} /\ e \in {0, 1, 2}
  BY DEF Status
<1>a. up = 0 \/ s # 50
  BY <1>1 DEF up
<1>b. dn = 0 \/ s # 50
  BY <1>1 DEF dn
<1> QED BY <1>1, <1>2, <1>3, <1>7, <1>8, <1>9, <1>a, <1>b

\* The correction of one keeps the sign.
LEMMA VariedFacts ==
    ASSUME NEW n \in Int, NEW v \in Varied(n)
    PROVE  v \in Int /\ (n <= 0 => v <= 0) /\ (n > 0 => v > 0)
  BY DEF Varied

\* What the draw promises: the types, one navy at most, and the ruler's fleet
\* well inside its space.
LEMMA TotalsFacts ==
    ASSUME NEW s \in 0..100, NEW nm \in Name, NEW st \in [Navy -> Status],
           NEW t \in Totals(s, nm, st)
    PROVE  /\ t \in [Kind -> Int]
           /\ t["rebel"] <= 0 \/ t["empire"] <= 0
           /\ nm = "any" /\ st[Ruler(s)] # 0 /\ (s <= 38 \/ s >= 62)
                => t[Ruler(s)] > 0
<1>1. CASE nm # "any"
  BY <1>1 DEF Totals, Name, Kind, Navy
<1>2. CASE nm = "any"
  <2>1. PICK a \in UNION {(4 + act \div 10)..(5 + act \div 10) : act \in Activity},
             r \in Varied(Base("rebel", s, st["rebel"])),
             e \in Varied(Base("empire", s, st["empire"])) :
               t = [alien |-> a, rebel |-> r, empire |-> e]
    BY <1>2 DEF Totals
  <2>2. st["rebel"] \in Status /\ st["empire"] \in Status
    BY DEF Navy
  <2>3. /\ Base("rebel", s, st["rebel"]) \in Int /\ Base("empire", s, st["empire"]) \in Int
        /\ s <= 50 => Base("rebel", s, st["rebel"]) <= 0
        /\ s >= 50 => Base("empire", s, st["empire"]) <= 0
        /\ s >= 62 /\ st["rebel"] # 0 => Base("rebel", s, st["rebel"]) > 0
        /\ s <= 38 /\ st["empire"] # 0 => Base("empire", s, st["empire"]) > 0
    BY <2>2, BaseFacts
  <2>4. /\ r \in Int /\ e \in Int
        /\ s <= 50 => r <= 0
        /\ s >= 50 => e <= 0
        /\ s >= 62 /\ st["rebel"] # 0 => r > 0
        /\ s <= 38 /\ st["empire"] # 0 => e > 0
    BY <2>3, VariedFacts
  <2>5. a \in Int
    <3>1. PICK act \in Activity : a \in (4 + act \div 10)..(5 + act \div 10)
      BY <2>1
    <3>2. act \div 10 \in Int
      BY PlanetAssumption DEF PlanetAssumption
    <3> QED BY <3>1, <3>2
  <2>6. t \in [Kind -> Int]
    BY <2>1, <2>4, <2>5 DEF Kind, Navy
  <2>7. t["rebel"] = r /\ t["empire"] = e
    BY <2>1
  <2>8. /\ s >= 62 => Ruler(s) = "rebel"
        /\ s <= 38 => Ruler(s) = "empire"
    BY DEF Ruler
  <2>9. t["rebel"] <= 0 \/ t["empire"] <= 0
    BY <2>4, <2>7
  <2>10. ASSUME st[Ruler(s)] # 0, s <= 38 \/ s >= 62 PROVE t[Ruler(s)] > 0
    BY <2>4, <2>7, <2>8, <2>10
  <2> QED BY <2>6, <2>9, <2>10
<1> QED BY <1>1, <1>2

----------------------------------------------------------------------------
(* getNextWave.                                                            *)

\* There is a wave to draw whenever the early return does not say otherwise.
LEMMA ChoicesFacts ==
    ASSUME NEW t \in [Kind -> Int], NEW d \in [Kind -> Nat], NEW n \in SUBSET Navy
    PROVE  /\ \A c \in Choices(t, d, n) : /\ c[1] \in Kind /\ c[2] \in SUBSET Navy
                                          /\ d[c[1]] < t[c[1]]
           /\ Choices(t, d, n) # {} <=> ~AllDone(t, d)
<1>1. "rebel" \in Kind /\ "empire" \in Kind
  BY DEF Kind, Navy
<1>2. \A k \in Kind : Left(t, d, k) <=> ~(d[k] >= t[k])
  BY DEF Left
<1>3. \A c \in Choices(t, d, n) : /\ c[1] \in Kind /\ c[2] \in SUBSET Navy
                                  /\ d[c[1]] < t[c[1]]
  BY <1>1 DEF Choices, Left
<1>4. (\E k \in Kind : Left(t, d, k)) => Choices(t, d, n) # {}
  BY DEF Choices
<1>5. Choices(t, d, n) # {} => \E k \in Kind : Left(t, d, k)
  BY <1>3 DEF Left
<1> QED BY <1>2, <1>3, <1>4, <1>5 DEF AllDone

\* A wave is taken within its total.
LEMMA NextWaveFacts ==
    ASSUME NEW t \in [Kind -> Int], NEW d \in [Kind -> Nat], NEW n \in SUBSET Navy,
           \A k \in Kind : d[k] > 0 => d[k] <= t[k],
           getNextWave(t, d, n)
    PROVE  /\ total' = t /\ done' \in [Kind -> Nat] /\ next' \in SUBSET Navy
           /\ \A k \in Kind : done'[k] > 0 => done'[k] <= t[k]
<1>1. PICK c \in Choices(t, d, n) : done' = [d EXCEPT ![c[1]] = @ + 1] /\ next' = c[2]
  BY DEF getNextWave
<1>2. c[1] \in Kind /\ c[2] \in SUBSET Navy /\ d[c[1]] < t[c[1]]
  BY ChoicesFacts
<1>3. d[c[1]] \in Nat /\ t[c[1]] \in Int
  BY <1>2
<1>4. done' \in [Kind -> Nat]
  BY <1>1, <1>2, <1>3
<1>5. ASSUME NEW k \in Kind, done'[k] > 0 PROVE done'[k] <= t[k]
  <2>1. CASE k = c[1]
    BY <2>1, <1>1, <1>2, <1>3
  <2>2. CASE k # c[1]
    BY <2>2, <1>1, <1>5
  <2> QED BY <2>1, <2>2
<1> QED BY <1>1, <1>2, <1>4, <1>5 DEF getNextWave

\* StageManager::reset, wherever it is called from.
LEMMA ResetFacts ==
    ASSUME NEW s \in Sentiment, NEW nm \in Name, NEW st \in [Navy -> Status],
           NEW n \in SUBSET Navy, reset(s, nm, st, n)
    PROVE  /\ total' \in [Kind -> Int] /\ done' \in [Kind -> Nat] /\ next' \in SUBSET Navy
           /\ \A k \in Kind : done'[k] > 0 => done'[k] <= total'[k]
           /\ OneNavy' /\ total' \in Totals(s, nm, st) /\ docked' = FALSE
<1>1. PICK t \in Totals(s, nm, st) : getNextWave(t, NothingDone, n)
  BY DEF reset
<1>2. s \in 0..100
  BY PlanetAssumption DEF PlanetAssumption
<1>3. t \in [Kind -> Int] /\ (t["rebel"] <= 0 \/ t["empire"] <= 0)
  BY <1>2, TotalsFacts
<1>4. NothingDone \in [Kind -> Nat] /\ \A k \in Kind : ~(NothingDone[k] > 0)
  BY DEF NothingDone
<1>5. /\ total' = t /\ done' \in [Kind -> Nat] /\ next' \in SUBSET Navy
      /\ \A k \in Kind : done'[k] > 0 => done'[k] <= t[k]
  BY <1>1, <1>3, <1>4, NextWaveFacts
<1> QED BY <1>3, <1>5 DEF OneNavy, reset

----------------------------------------------------------------------------
\* The first state has the invariant.
LEMMA InitIInv == Init => IInv
<1> SUFFICES ASSUME Init PROVE IInv
  OBVIOUS
<1>1. TypeOK
  BY DEF Init, TypeOK, NothingDone, Kind, Navy, Status, Name
<1>2. OneNavy /\ Drawn
  BY DEF Init, OneNavy, Drawn, Kind, Navy
<1> QED BY <1>1, <1>2 DEF IInv

\* Every step keeps the invariant.
LEMMA NextIInv == IInv /\ [Next]_vars => IInv'
<1> SUFFICES ASSUME IInv, [Next]_vars PROVE IInv'
  OBVIOUS
<1> USE DEF IInv
<1>r. Ruler(sentiment) \in Navy
  BY DEF Ruler, Navy
<1>1. CASE Launch
  <2>1. /\ reset(sentiment, name, status, next)
        /\ status' = status /\ sentiment' = sentiment /\ name' = name
    BY <1>1 DEF Launch, planetVars
  <2> QED BY <2>1, ResetFacts DEF TypeOK, Drawn
<1>2. CASE Refuse
  <2>1. /\ reset(sentiment, name, status', next \cup {Ruler(sentiment)})
        /\ status' = [status EXCEPT ![Ruler(sentiment)] = 1]
        /\ sentiment' = sentiment /\ name' = name
    BY <1>2 DEF Refuse, planetVars
  <2>2. status' \in [Navy -> Status] /\ next \cup {Ruler(sentiment)} \in SUBSET Navy
    BY <1>r, <2>1 DEF TypeOK, Status
  <2> QED BY <2>1, <2>2, ResetFacts DEF TypeOK, Drawn
<1>3. CASE Jump
  <2>1. /\ reset(sentiment', name', status, next) /\ status' = status
        /\ sentiment' \in Sentiment /\ name' \in Name
    BY <1>3 DEF Jump
  <2> QED BY <2>1, ResetFacts DEF TypeOK, Drawn
<1>4. CASE NextWave
  <2>1. /\ getNextWave(total, done, next) /\ ~docked
        /\ status' = status /\ sentiment' = sentiment /\ name' = name /\ docked' = docked
    BY <1>4 DEF NextWave, planetVars
  <2>2. /\ total' = total /\ done' \in [Kind -> Nat] /\ next' \in SUBSET Navy
        /\ \A k \in Kind : done'[k] > 0 => done'[k] <= total[k]
    BY <2>1, NextWaveFacts DEF TypeOK
  <2> QED BY <2>1, <2>2 DEF TypeOK, Drawn, OneNavy
<1>5. CASE Dock
  <2>1. status' \in [Navy -> Status]
    BY <1>5 DEF Dock, TypeOK, Status
  <2> QED BY <1>5, <2>1 DEF Dock, TypeOK, Drawn, OneNavy, Name
<1>6. CASE AnswerUleg
  <2>1. status' \in [Navy -> Status]
    BY <1>6 DEF AnswerUleg, TypeOK, Status
  <2> QED BY <1>6, <2>1 DEF AnswerUleg, planetVars, TypeOK, Drawn, OneNavy
<1>7. CASE Load
  BY <1>7 DEF Load, TypeOK, Drawn, OneNavy
<1>8. CASE UNCHANGED vars
  BY <1>8 DEF vars, planetVars, TypeOK, Drawn, OneNavy
<1> QED BY <1>1, <1>2, <1>3, <1>4, <1>5, <1>6, <1>7, <1>8 DEF Next

\* The totals of an orbit are those drawn for its planet and the player's
\* standing, and no wave is fought beyond them (EnemyWaves::reset and
\* getNextWave), for planets of any sentiment.
THEOREM WavesInvariance == Spec => []IInv
  BY InitIInv, NextIInv, PTL DEF Spec

\* Every variable stays in its range and no kind is drawn beyond its total.
THEOREM WavesTyped == Spec => []TypeOK
<1>1. IInv => TypeOK
  BY DEF IInv
<1> QED BY <1>1, WavesInvariance, PTL

\* The status board and the stage manager never disagree, and the loop that
\* draws a wave at random always finds one.
THEOREM BoardCorrect == Spec => []BoardAgreesWithStage
<1>1. IInv => BoardAgreesWithStage
  <2> SUFFICES ASSUME IInv PROVE BoardAgreesWithStage
    OBVIOUS
  <2>1. total \in [Kind -> Int] /\ done \in [Kind -> Nat] /\ next \in SUBSET Navy
    BY DEF IInv, TypeOK
  <2>2. Choices(total, done, next) # {} <=> ~AllDone(total, done)
    BY <2>1, ChoicesFacts
  <2>3. \A k \in Kind : total[k] - done[k] > 0 <=> ~(done[k] >= total[k])
    BY <2>1
  <2>4. CountsLeft <=> ~AllDone(total, done)
    BY <2>3 DEF CountsLeft, AllDone
  <2> QED BY <2>2, <2>4 DEF BoardAgreesWithStage
<1> QED BY <1>1, WavesInvariance, PTL

\* The navies never meet in one orbit.
THEOREM OneNavyCorrect == Spec => []OneNavy
<1>1. IInv => OneNavy
  BY DEF IInv
<1> QED BY <1>1, WavesInvariance, PTL

\* Well inside its space a navy sends a wave against whoever it has a quarrel
\* with, for every sentiment up to 38 and from 62 on.
THEOREM SpaceGuarded == Spec => []DeepSpaceIsGuarded
<1>1. IInv => DeepSpaceIsGuarded
  <2> SUFFICES ASSUME IInv, ~docked, name = "any", status[Ruler(sentiment)] # 0,
                      sentiment <= 38 \/ sentiment >= 62
               PROVE  total[Ruler(sentiment)] > 0
    BY DEF DeepSpaceIsGuarded
  <2>1. sentiment \in 0..100 /\ name \in Name /\ status \in [Navy -> Status]
    BY PlanetAssumption DEF PlanetAssumption, IInv, TypeOK
  <2>2. total \in Totals(sentiment, name, status)
    BY DEF IInv, Drawn
  <2> QED BY <2>1, <2>2, TotalsFacts
<1> QED BY <1>1, WavesInvariance, PTL

\* A refused surrender is answered at once by the ruler's fleet, if the ruler
\* sends any wave at all.
THEOREM RefusalAnswered == Spec => RefusalIsAnswered
<1> DEFINE Answer == status' # status /\ docked /\ ~docked' =>
                       LET r == Ruler(sentiment) IN total'[r] > 0 => done'[r] = 1
<1>1. IInv /\ IInv' /\ [Next]_vars => [Answer]_vars
  <2> SUFFICES ASSUME IInv, IInv', Next, status' # status, docked, ~docked',
                      total'[Ruler(sentiment)] > 0
               PROVE  done'[Ruler(sentiment)] = 1
    OBVIOUS
  <2>1. Refuse
    BY DEF Next, Launch, Jump, NextWave, Dock, AnswerUleg, Load
  <2> DEFINE r == Ruler(sentiment)
             n == next \cup {r}
  <2>2. PICK t \in Totals(sentiment, name, status') : getNextWave(t, NothingDone, n)
    BY <2>1 DEF Refuse, reset
  <2>3. r \in Navy /\ r \in Kind
    BY DEF Ruler, Navy, Kind
  <2>4. total' = t /\ t \in [Kind -> Int]
    BY <2>2 DEF getNextWave, IInv, TypeOK
  <2>5. t[r] > 0 /\ (t["rebel"] <= 0 \/ t["empire"] <= 0)
    BY <2>4 DEF IInv, OneNavy
  <2>6. \A k \in Kind : Left(t, NothingDone, k) <=> t[k] > 0
    BY <2>4 DEF Left, NothingDone
  <2>7. \A c \in Choices(t, NothingDone, n) : c[1] = r
    <3>1. CASE r = "rebel"
      BY <3>1, <2>3, <2>5, <2>6 DEF Choices
    <3>2. CASE r = "empire"
      <4>1. ~(t["rebel"] > 0) /\ "rebel" \in Kind
        BY <3>2, <2>4, <2>5 DEF Kind, Navy
      <4>2. ~Left(t, NothingDone, "rebel") /\ Left(t, NothingDone, "empire") /\ "empire" \in n
        BY <4>1, <3>2, <2>3, <2>5, <2>6
      <4> QED BY <4>2, <3>2 DEF Choices
    <3> QED BY <3>1, <3>2, <2>3 DEF Navy
  <2>8. done' = [NothingDone EXCEPT ![r] = @ + 1]
    BY <2>2, <2>7 DEF getNextWave
  <2> QED BY <2>3, <2>8 DEF NothingDone
<1> QED BY <1>1, WavesInvariance, PTL DEF Spec, RefusalIsAnswered
=============================================================================
