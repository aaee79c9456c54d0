CONSTANTS
    Accounts = {a1}
    Deployers = {a1}
    Endpoints = {"rpc"}
    FaultKinds = {"lost"}
    MaxNonce = 6
    MaxFaults = 1
    MaxDrops = 0
    Threads = {t1, t2}
    NoThread = NoThread
    MaxCalls = 2
SPECIFICATION Spec
INVARIANT NoPermanentGap
