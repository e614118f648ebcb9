\* Three planets that drift, and XEN.
CONSTANTS
    Planets = 4
    Core <- Xen
    Births <- Fates
    Every = 10
SPECIFICATION Spec
INVARIANTS
    GovernmentPriced
    RoundsReachAll
