SPECIFICATION FairSpec
CONSTANTS
    GemPayment = {g1}
    PremiumPayment = {p1, p2}
    HeartPayment = {h1}
    RepairPayment = {s1}
    MaxPayments = 2
    Delivery = {d1, d2}
    PackGems = 2
    Cost = 1
    MaxSpends = 2
    MaxCrashes = 1
    MaxMonths = 6
CHECK_DEADLOCK FALSE
INVARIANTS
    BalanceIsLedger
    SuccessMeansServed
PROPERTIES
    PaidIsServed
