CONSTANTS
    Accts = {a1}
    NoAcct = NoAcct
    Amount = 4
    InitialBalances = {0}
    Leftovers = {0}
    InitialProxies = {}
    MaxDeposits = 2
    MaxErrors = 0
    MaxDrops = 1
SPECIFICATION Spec
INVARIANT LossReported
