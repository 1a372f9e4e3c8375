SPECIFICATION LockSpec
CONSTANTS
    Instances = {d1, d2, d3, d4}
    Inodes = {n1, n2, n3, n4}
    None = None
SYMMETRY Symmetry
INVARIANTS
    AtMostOneDaemon
CHECK_DEADLOCK FALSE
