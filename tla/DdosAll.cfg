CONSTANTS
    Senders = {1, 2}
    Concurrency = 2
    Loads <- MCLoads
SPECIFICATION FairSpec
INVARIANTS RateHonoured SpendBounded SlotsExact
PROPERTIES RotationFollowsMoney FloodEnds
