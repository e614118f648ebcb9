\* Safety: every interleaving of clock, loop and input on a two-planet galaxy.
CONSTANTS
    xen = xen
    torres = torres
    NoPlanet = NoPlanet
    Planet <- TwoPlanets
    Home <- xen
    Cost <- UnitCost
    MaxFuel = 2
    StartFuel = 1
    MaxWaves = 2
    MaxEnemies = 1
    FrameCap = FALSE
SPECIFICATION Spec
INVARIANTS
    TypeOK
    ClockRunsInGame
    DockedIsNotFlying
    OneManoeuvre
    GameHasPlanet
    JumpAffordable
    NoStaleApproach
PROPERTIES
    JumpDoesNotRepair
    FollowsVoyage
