CONSTANTS
    Deposit = 5
    Spend = 1
    Fee = 1
    Seed = 4
    InitialBalances = {0, 6}
    MaxDeposits = 3
    Troubles = {
        {"creditLate", "creditLost", "depositFails"}, {"creditLate", "double", "depositFails"},
        {"creditLate", "creditStale", "creditLost", "spendFails"},
        {"receiptLate", "creditLost", "double", "free", "readFails"},
        {"receiptLate", "spendLate", "creditLate"},
        {"double", "free", "depositFails", "spendFails", "readFails"}}
SPECIFICATION FairBalanceSpec
INVARIANTS NoFalseAlarmIfRemembered LossExact AnomalyReported
PROPERTY HoldEnds
