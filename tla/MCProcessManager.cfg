SPECIFICATION PmSpec
CONSTANTS
    app = app
    uploader = uploader
    Procs = {app, uploader}
    Pids = {k1, k2, k3}
    Policy <- MCPolicy
    MaxProcesses = 2
    TicksPerSec = 1
    BackoffTicks = 1
    MaxAttempts = 1
    WindowSec = 0
    KillTicks = 1
    GraceTicks = 1
    ReuseAfterShutdown = FALSE
    ClockMaySet = TRUE
    MaxForeign = 1
    MaxClock = 1
SYMMETRY Symmetry
INVARIANTS ChildTable OnlyChildrenSignalled ShutdownLeavesNobody ShuttingDownMeansTermed KillAfterTerm
CHECK_DEADLOCK FALSE
