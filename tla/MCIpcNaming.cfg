SPECIFICATION IpcFairSpec
CONSTANTS
    c1 = c1
    c2 = c2
    c3 = c3
    app = app
    net = net
    idle = idle
    Conns = {c1, c2, c3}
    MaxClients = 2
    Names = {app, net}
    Values = {idle}
    Requests <- Naming
    TxLimit = 2
    AllocMayFail = FALSE
    None = None
INVARIANTS
    UniqueNames
    OneSlotEach
    SlotMapFresh
CHECK_DEADLOCK FALSE
PROPERTIES DeadClientsLeave RequestsServed
