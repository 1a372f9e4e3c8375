SPECIFICATION LongRunSpec
CONSTANTS
    app = app
    uploader = uploader
    Procs = {app}
    Pids = {k1}
    Policy <- MCPolicy
    Mandatory = {app}
    MaxProcesses = 2
    TicksPerSec = 2
    BackoffTicks = 3
    MaxAttempts = 1
    WindowSec = 4
    KillTicks = 1
    GraceTicks = 1
    ReuseAfterShutdown = FALSE
    ClockMaySet = FALSE
    MaxForeign = 0
    MaxClock = 26
CHECK_DEADLOCK FALSE
INVARIANTS RestartRate
PROPERTY BackoffWithinASecond
