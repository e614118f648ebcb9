\* Rounds of the fight with waves of two critters or the boss.
CONSTANTS
    Size <- Sizes
    WaveSizes <- Two
    Skills <- Skill
    Rookie = "rookie"
    MaxBullets <- JustOne
    MaxAttacking <- JustOne
    Toughness <- Tough
    MaxLeak = 1
SPECIFICATION Spec
INVARIANTS
    TypeOK
    ListsAreSound
    EnemiesCounted
    LeaderNeverStuck
PROPERTIES
    OnlyResetLeaks
    SpentIsHarmless
    FollowsWave
