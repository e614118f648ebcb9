\* The purse holds two pieces of money, things cost one or both: buying cheap
\* and selling dear pays for any cargo.
CONSTANTS
    Capacity = 1
    Tank = 1
    Magazine = 1
    Full = 2
    Boost = 1
    Harm = 2
    Prices = {1, 2}
    Fee = 1
    Start <- Beginning
    MaxMoney = 2
    Found = 1
    Traded <- Merchandise
SPECIFICATION Spec
INVARIANTS
    TypeOK
    ShieldWithinUpgrade
    WeaponsFollowHold
PROPERTIES
    NoContrabandUnasked
