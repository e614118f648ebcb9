\* The GAME OVER screen promises that ESC is the only way out.
CONSTANTS
    xen = xen
    torres = torres
    NoPlanet = NoPlanet
    Planet <- TwoPlanets
    Home <- xen
    Cost <- UnitCost
    MaxFuel = 2
    StartFuel = 1
    MaxWaves = 2
    MaxEnemies = 1
    FrameCap = FALSE
SPECIFICATION Spec
PROPERTIES
    GameOverIsFinal
