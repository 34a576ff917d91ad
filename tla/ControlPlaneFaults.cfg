SPECIFICATION PlaneSpec
CONSTANTS
    p1 = p1  p2 = p2   task = task
    Threads = {p1, p2}
    Events = {"llm_failed", "delegation_progress"}
    Reports = {1}
    DiskMayFail = TRUE
    MaxLines = 3
    SessionIds = {task}
    Sinks <- MCSinks
    MaxEvents = 2
    MaxLives = 2
SYMMETRY Alike
INVARIANTS LogSequenced MetricsFollowLog FinishOnce EventsAccounted
