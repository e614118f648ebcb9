\* Every order of waves, refusals, jumps and loads over five planets.
CONSTANTS
    Sentiment <- Planets
    Activity <- NoAliens
SPECIFICATION Spec
INVARIANTS
    TypeOK
    BoardAgreesWithStage
    OneNavy
    DeepSpaceIsGuarded
PROPERTIES
    RefusalIsAnswered
