\* The fixed strange bug of getCounts, with the board hidden.
CONSTANTS
    xen = xen
    torres = torres
    NoPlanet = NoPlanet
    Planet <- TwoPlanets
    Home <- xen
    Cost <- UnitCost
    MaxFuel = 2
    StartFuel = 1
    MaxWaves = 2
    MaxEnemies = 1
    FrameCap = FALSE
SPECIFICATION Spec
INVARIANTS
    NeverStaleApproach
