\* Liveness, with a frame-rate cap and a single wave of a single enemy.
CONSTANTS
    xen = xen
    torres = torres
    NoPlanet = NoPlanet
    Planet <- TwoPlanets
    Home <- xen
    Cost <- UnitCost
    MaxFuel = 1
    StartFuel = 1
    MaxWaves = 1
    MaxEnemies = 1
    FrameCap = TRUE
SPECIFICATION FairSpec
PROPERTIES
    JumpArrives
    ClearedOrbitDocks
    QuitEnds
