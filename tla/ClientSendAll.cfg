CONSTANTS
    Accounts = {a1, a2}
    Deployers = {a2}
    Endpoints = {"rpc", "front"}
    FaultKinds = {"lost", "replyLost", "late"}
    MaxNonce = 4
    MaxFaults = 1
    MaxDrops = 0
    Threads = {t1, t2}
    NoThread = NoThread
    MaxCalls = 2
SPECIFICATION FairSpec
INVARIANT SendLeavesNoGap
PROPERTIES LedgerSpec CallEnds
