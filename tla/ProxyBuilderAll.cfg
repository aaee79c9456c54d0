CONSTANTS
    front = front
    rpc = rpc
    Endpoints <- TwoEndpoints
    Policies = {"create", "keep", "revert", "drop", "reject"}
    MaxIterations = 2
    Troubles = {
        {"sendFails"}, {"sendFails", "clearFails", "unknown", "sick"}, {"late"}, {"probesLate"},
        {"readFails", "stop"}}
SPECIFICATION FairSpec
INVARIANTS VerdictsExact ControlCleared Accounted
PROPERTY IterationEnds
