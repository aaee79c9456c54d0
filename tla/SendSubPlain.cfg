CONSTANTS
    Accounts = {a1}
    Endpoints = {"rpc"}
    FaultKinds = {"lost", "replyLost", "late"}
    MaxNonce = 6
    MaxFaults = 2
    MaxDrops = 0
    Threads = {t1, t2}
    NoThread = NoThread
    MaxSends = 3
    MaxResyncs = 2
SPECIFICATION FairSpec
INVARIANT NoGap
PROPERTY SendEnds
