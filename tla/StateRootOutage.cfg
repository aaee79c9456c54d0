CONSTANTS
    Threads = {writer}
    Attack = 5
    Cooldown = 4
    Threshold = 2
    MinBlock = 2
    Lookback = 5
    MaxRounds = 2
    MaxAge = 6
    Troubles = {{"miss"}}
SPECIFICATION Spec
INVARIANT SpanOfOneStall
