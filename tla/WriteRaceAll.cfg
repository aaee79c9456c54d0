CONSTANTS
    MaxRounds = 3
    Late = FALSE
    ChainFaults = {"vanish", "innerRan"}
SPECIFICATION Spec
INVARIANTS NoFalseAlarm VanishReported
