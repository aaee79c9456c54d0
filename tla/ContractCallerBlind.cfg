CONSTANTS
    Rounds = 2
    MaxPasses = 2
    MaxDue = 1
    Troubles = {{"blackout"}}
SPECIFICATION CallerSpec
INVARIANT NoFalseAlarm
