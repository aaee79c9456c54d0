CONSTANTS
    Accts = {a1, a2}
    NoAcct = NoAcct
    Amount = 4
    InitialBalances = {1}
    Leftovers = {0}
    InitialProxies = {a1}
    MaxDeposits = 2
    MaxErrors = 1
    MaxDrops = 1
SPECIFICATION FairSpec
INVARIANT Accounted
PROPERTIES PublishedFunded AllFunded StopEnds
