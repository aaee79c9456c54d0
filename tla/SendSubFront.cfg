CONSTANTS
    Accounts = {a1}
    Endpoints = {"rpc", "front"}
    FaultKinds = {"lost"}
    MaxNonce = 6
    MaxFaults = 1
    MaxDrops = 1
    Threads = {t1, t2}
    NoThread = NoThread
    MaxSends = 3
    MaxResyncs = 1
SYMMETRY Symmetry
SPECIFICATION Spec
INVARIANTS InOrderArrival NoCollisionInOrder OneCorrectionSuffices
PROPERTY LedgerUntilDropped
