SPECIFICATION IpcSpec
CONSTANTS
    c1 = c1
    c2 = c2
    c3 = c3
    app = app
    net = net
    idle = idle
    Conns = {c1, c2}
    MaxClients = 2
    Names = {app, net}
    Values = {idle}
    Requests <- Requesting
    TxLimit = 3
    AllocMayFail = FALSE
    None = None
INVARIANTS
    IpcTypeOK NoGaps DeliveredAsSent
    EveryRequestAnswered
CHECK_DEADLOCK FALSE
