SPECIFICATION JobFairSpec
CONSTANTS
    w = w
    Threads = {w}
    Worker = w
    Events = {"tool_failed"}
    Reports = {1}
    DiskMayFail = TRUE
    MaxLines = 3
    Reasons = {"done", "error", "failed", "Error"}
    MaxFinals = 2
INVARIANTS EndRecorded ShownAgrees
PROPERTIES EndStaysShown EndShown
