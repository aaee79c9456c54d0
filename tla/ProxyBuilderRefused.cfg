CONSTANTS
    front = front
    rpc = rpc
    Endpoints <- TwoEndpoints
    Policies = {"create", "keep", "revert", "drop", "reject"}
    MaxIterations = 2
    Troubles = {{"refused"}}
SPECIFICATION Spec
INVARIANT DivergenceReal
