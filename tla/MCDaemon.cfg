SPECIFICATION FairSpec
CONSTANTS
    app = app
    uploader = uploader
    Procs = {app, uploader}
    Pids = {k1, k2}
    Policy <- MCPolicy
    Mandatory <- MCMandatory
    MaxProcesses = 2
    TicksPerSec = 1
    BackoffTicks = 1
    MaxAttempts = 1
    WindowSec = 1
    KillTicks = 1
    GraceTicks = 1
    ReuseAfterShutdown = FALSE
    ClockMaySet = FALSE
    MaxForeign = 0
    MaxClock = 1
PROPERTIES ZombiesCollected TermStops RestartHappens OneShot
CHECK_DEADLOCK FALSE
INVARIANTS NoLostWakeup NoMissedExit NoOrphans
