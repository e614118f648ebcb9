\* What the fugitive is told, checked over all planets.
CONSTANTS
    Sentiment <- Planets
    Activity <- NoAliens
SPECIFICATION Spec
INVARIANTS
    FugitiveIsAttacked
