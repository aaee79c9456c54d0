CONSTANTS
    Accounts = {a1}
    Endpoints = {"rpc", "front"}
    FaultKinds = {}
    MaxNonce = 6
    MaxFaults = 0
    MaxDrops = 1
    Threads = {t1, t2}
    NoThread = NoThread
    MaxSends = 3
    MaxResyncs = 0
SPECIFICATION Spec
INVARIANT NoCollision
