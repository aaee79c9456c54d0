CONSTANTS
    Workers = {1, 2}
    Enabled = {1, 2}
    MayHang = {}
    Mode = "serve"
    MaxFailures = 0
    MaxFindings = 1
SPECIFICATION Spec
INVARIANT ReportReflectsReality
