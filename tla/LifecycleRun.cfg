CONSTANTS
    Workers = {1, 2, 3}
    Enabled = {1, 3}
    MayHang = {3}
    Mode = "run"
    MaxFailures = 1
    MaxFindings = 1
SPECIFICATION FairSpec
INVARIANT ReportReflectsReality
PROPERTIES ReportWritten StopReachesAll SetupRecovers
