CONSTANTS
    Deposit = 5
    Spend = 1
    Fee = 1
    Seed = 4
    InitialBalances = {0, 6}
    MaxDeposits = 3
    Troubles = {{"creditLate", "spendFails"}}
SPECIFICATION BalanceSpec
INVARIANT NobodyAccused
