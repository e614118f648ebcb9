----------------------------- MODULE EnemyWaves -----------------------------
(***************************************************************************)
(* StageManager's EnemyWaves: how many waves of aliens, rebels and Empire  *)
(* ships an orbit holds, in which order they come, and what the player's   *)
(* standing with the two navies has to do with it.  Which level of the     *)
(* pack a wave plays is left out.                                          *)
(***************************************************************************)
EXTENDS Integers

CONSTANTS
    Sentiment,   \* Planet::_rebelSentiment of the planets, within 0..100
    Activity     \* Planet::_alienActivity of the planets, within 0..100

ASSUME PlanetAssumption == Sentiment \subseteq 0..100 /\ Activity \subseteq 0..100

VARIABLES
    total, done,     \* _alienTotal .. _empireDone, by kind of enemy
    next,            \* the kinds whose _rebelsAreNext / _empireIsNext is set
    status,          \* Game::_rebelStatus and _empireStatus
    sentiment, name, \* of Game::_currentPlanet
    docked           \* Game::_landed

planetVars == <<sentiment, name>>
vars == <<total, done, next, status, planetVars, docked>>

Navy   == {"rebel", "empire"}
Kind   == Navy \cup {"alien"}
Status == {0, 1, 2}        \* psClean, psFugitive, psTerrorist
Name   == {"any", "ARMADA", "CLOAKED"}

\* Integer division as C++ does it: towards zero.
TruncDiv(n, d) == IF n >= 0 THEN n \div d ELSE -((-n) \div d)

\* The planet belongs to the navy: illegalTradeCheck and -Decision.
Ruler(s) == IF s <= 50 THEN "empire" ELSE "rebel"

\* Mutant: the distance from 50 without its sign.
Mut_Base(k, s, st) == TruncDiv(IF s > 50 THEN s - 50 ELSE 50 - s, 12) * st

\* The waves a planet of sentiment s sends for a navy the player stands with
\* at st; four waves and more vary by one.
Base(k, s, st) ==
    (IF k = "rebel" THEN TruncDiv(s - 50, 12) ELSE TruncDiv(50 - s, 12)) * st

Varied(n) == IF n > 3 THEN (n - 1)..(n + 1) ELSE {n}

Totals(s, nm, st) ==
    IF nm = "ARMADA" THEN {[alien |-> 0, rebel |-> 0, empire |-> 35]}
    ELSE IF nm = "CLOAKED" THEN {[alien |-> 99, rebel |-> 0, empire |-> 0]}
    ELSE {[alien |-> a, rebel |-> r, empire |-> e] :
             a \in UNION {(4 + act \div 10)..(5 + act \div 10) : act \in Activity},
             r \in Varied(Base("rebel", s, st["rebel"])),
             e \in Varied(Base("empire", s, st["empire"]))}

NothingDone == [k \in Kind |-> 0]
Left(t, d, k) == d[k] < t[k]

\* Mutants: a kind is drawn although its waves are done; marks are ignored.
Mut_Choices(t, d, n) == {<<k, n>> : k \in {kk \in Kind : t[kk] > 0}}
Mut_ChoicesUnmarked(t, d, n) == {<<k, n>> : k \in {kk \in Kind : Left(t, d, kk)}}

\* EnemyWaves::getNextWave: the wave it may take, with the marks left after
\* it.  A marked navy that still has waves comes first, rebels before Empire.
Choices(t, d, n) ==
    IF "rebel" \in n /\ Left(t, d, "rebel") THEN {<<"rebel", n \ {"rebel"}>>}
    ELSE IF "empire" \in n /\ Left(t, d, "empire") THEN {<<"empire", n \ {"empire"}>>}
    ELSE {<<k, n>> : k \in {kk \in Kind : Left(t, d, kk)}}

\* Mutant: the rebels are forgotten in the early return.
Mut_AllDone(t, d) == \A k \in {"alien", "empire"} : d[k] >= t[k]

\* The early return of getNextWave: no wave is left.
AllDone(t, d) == \A k \in Kind : d[k] >= t[k]

getNextWave(t, d, n) ==
    /\ ~AllDone(t, d)
    /\ \E c \in Choices(t, d, n) :
         done' = [d EXCEPT ![c[1]] = @ + 1] /\ next' = c[2]
    /\ total' = t

\* getCounts: what the status board shows.
CountsLeft == \E k \in Kind : total[k] - done[k] > 0

----------------------------------------------------------------------------
\* StageManager::reset: the totals are drawn for the current planet and the
\* first wave is taken at once.  Marks of an earlier refusal are not cleared.
reset(s, nm, st, n) ==
    /\ \E t \in Totals(s, nm, st) : getNextWave(t, NothingDone, n)
    /\ docked' = FALSE

Launch ==
    /\ docked
    /\ reset(sentiment, name, status, next)
    /\ UNCHANGED <<status, planetVars>>

\* Mutant: the fugitive is declared after the waves have been drawn.
Mut_Refuse ==
    /\ docked /\ status[Ruler(sentiment)] = 0
    /\ status' = [status EXCEPT ![Ruler(sentiment)] = 1]
    /\ reset(sentiment, name, status, next \cup {Ruler(sentiment)})
    /\ UNCHANGED planetVars

\* Game::illegalTradeDecision(false), then startNewGame: the ruler's agents
\* were refused, the player is a fugitive and the ruler's fleet is next.
\* Game::illegalTradeCheck asks only a player who is clean with the ruler.
Refuse ==
    /\ docked /\ status[Ruler(sentiment)] = 0
    /\ status' = [status EXCEPT ![Ruler(sentiment)] = 1]
    /\ reset(sentiment, name, status', next \cup {Ruler(sentiment)})
    /\ UNCHANGED planetVars

Jump ==
    /\ ~docked
    /\ sentiment' \in Sentiment /\ name' \in Name
    /\ reset(sentiment', name', status, next)
    /\ UNCHANGED status

NextWave ==
    /\ ~docked
    /\ getNextWave(total, done, next)
    /\ UNCHANGED <<status, planetVars, docked>>

\* Once getNextWave returns -1 the station is reached: the moods of the
\* planets move (Map::update), and the quest may change names and standing
\* (Game::reachedSpecialPlanet).
Dock ==
    /\ ~docked /\ AllDone(total, done)
    /\ docked' = TRUE
    /\ sentiment' \in Sentiment /\ name' = "any"
    /\ status' = IF name = "ARMADA" THEN [status EXCEPT !["empire"] = 2] ELSE status
    /\ UNCHANGED <<total, done, next>>

\* Game::ulegAccept and ulegRefuse.
AnswerUleg ==
    /\ docked
    /\ \E st \in {0, 2} : status' = [status EXCEPT !["rebel"] = st]
    /\ UNCHANGED <<total, done, next, planetVars, docked>>

\* Game::loadGame and startNewCampaign: another standing, another planet,
\* the same EnemyWaves.
Load ==
    /\ docked' = TRUE
    /\ status' \in [Navy -> Status]
    /\ sentiment' \in Sentiment /\ name' \in Name
    /\ UNCHANGED <<total, done, next>>

Init ==
    /\ total = [k \in Kind |-> IF k = "alien" THEN -1 ELSE 0]
    /\ done = NothingDone
    /\ next = {}
    /\ status = [n \in Navy |-> 0]
    /\ sentiment \in Sentiment /\ name = "any"
    /\ docked = TRUE

Next == Launch \/ Refuse \/ Jump \/ NextWave \/ Dock \/ AnswerUleg \/ Load

Spec == Init /\ [][Next]_vars

----------------------------------------------------------------------------
(* Properties.                                                             *)

\* No wave is fought beyond the total drawn for its kind (a total may be
\* negative: a navy the planet does not belong to).
TypeOK ==
    /\ total \in [Kind -> Int]
    /\ done \in [Kind -> Nat]
    /\ \A k \in Kind : done[k] > 0 => done[k] <= total[k]
    /\ next \subseteq Navy
    /\ status \in [Navy -> Status]
    /\ sentiment \in Sentiment /\ name \in Name
    /\ docked \in BOOLEAN

\* The board and the stage manager agree: getCounts takes the approach to
\* the station back exactly while getNextWave has a wave to send, and its
\* random draw, which loops until it hits a kind with waves left, has one.
BoardAgreesWithStage ==
    ~docked => /\ CountsLeft <=> ~AllDone(total, done)
               /\ CountsLeft <=> Choices(total, done, next) # {}

\* The two navies never meet in one orbit, whatever the player did to both.
OneNavy == total["rebel"] <= 0 \/ total["empire"] <= 0

\* Who refuses to surrender meets the ruler's fleet first: the wave that
\* starts with the launch is the ruler's whenever the ruler sends any, even
\* if a mark of another navy is left over from elsewhere.
RefusalIsAnswered ==
    [][ status' # status /\ docked /\ ~docked' =>
          LET r == Ruler(sentiment) IN total'[r] > 0 => done'[r] = 1 ]_vars

\* Well inside its space a navy attacks whoever it has a quarrel with: the
\* random correction of EnemyWaves::reset never leaves it without a wave.
DeepSpaceIsGuarded ==
    ~docked /\ name = "any" /\ status[Ruler(sentiment)] # 0
        /\ (sentiment <= 38 \/ sentiment >= 62)
    => total[Ruler(sentiment)] > 0

\* "fleet will attack you whenever you are in orbit of ... planets"
\* (Game.cpp, illegalTradeCheck): every orbit of a navy's planet.
FugitiveIsAttacked ==
    ~docked /\ name = "any" /\ status[Ruler(sentiment)] # 0 => total[Ruler(sentiment)] > 0
=============================================================================
