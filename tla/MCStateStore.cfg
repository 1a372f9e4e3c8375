SPECIFICATION StoreSpec
CONSTANTS
    defaults = defaults
    running = running
    fault = fault
    Values <- MCValues
    Default = defaults
    Torn = Torn
    Absent = Absent
    Down = Down
    ReadFaults = FALSE
INVARIANTS
    OnlySyncedExposed
    ServesWhatItStored
PROPERTIES
    StoreIsDurable
CHECK_DEADLOCK FALSE
