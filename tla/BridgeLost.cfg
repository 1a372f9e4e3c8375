SPECIFICATION SysFairSpec
CONSTANTS
    Sessions = {"EXP_TABLE"}
    Chunks <- MCChunks
    MaxChunks = 2
    NoChunk = NoChunk
    UMod = 8
    MaxChunkData = 2
    FileSizes = {6}
    Scenarios <- UploadOnly
    Commands <- MCCommands
    ExpIds = 2
    TxLimit = 2
    SockLimit = 2
    Attempts = 2
    CmdEvery = 1
    BulkEvery = 2
    DummyLen = 3
    None = None
PROPERTY LinkReestablished
CHECK_DEADLOCK FALSE
