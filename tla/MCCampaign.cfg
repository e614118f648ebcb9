\* The whole story with a namesake of RISAR or without, one save slot, its
\* file whole or cut.
CONSTANTS
    MaxMoney <- Purse
SPECIFICATION Spec
INVARIANTS
    TypeOK
    QuestGoesOn
    OneBetrayal
PROPERTIES
    SaveIsFaithful
    StoryAdvances
    TerroristForEver
