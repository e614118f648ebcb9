\* What the message box says of a save, on a disk that may be full.
CONSTANTS
    MaxMoney <- Purse
SPECIFICATION Spec
INVARIANTS
    SavedCanBeLoaded
