SPECIFICATION SysFairSpec
CONSTANTS
    Sessions = {"EXP_TABLE"}
    Chunks <- MCChunks
    MaxChunks = 2
    NoChunk = NoChunk
    UMod = 8
    MaxChunkData = 2
    FileSizes = {0, 3, 6, 7, 8}
    Scenarios <- MCScenarios
    Commands <- MCCommands
    ExpIds = 2
    TxLimit = 2
    SockLimit = 2
    Attempts = 2
    CmdEvery = 1
    BulkEvery = 2
    DummyLen = 3
    None = None
INVARIANTS StateAgrees CommandsAccounted AssembledAsSent WholeFileSent
PROPERTIES SatChangesByCommand AppComesBack HeartbeatCatchesUp
CHECK_DEADLOCK FALSE
