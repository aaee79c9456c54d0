CONSTANTS
    Rounds = 2
    MaxPasses = 2
    MaxDue = 1
    Troubles = {
        {"late", "lost"}, {"lost", "readFails"}, {"drop", "lost", "revert", "partial"},
        {"empty", "wrong", "stranger"}, {"empty", "wrong", "readFails"}, {"revert", "partial", "wrong"},
        {"sendFails"}, {"deployFails", "lost"}, {"pollRaises", "stop"}}
SPECIFICATION FairCallerSpec
INVARIANTS NoFalseAlarm PassMeansDelivered FaultsReported
PROPERTY SuiteRuns
