\* A client that sends its greeting, CONNECT request and data without
\* waiting for the replies (optimistic data).
CONSTANTS
    DefaultCapacity = 12
    IVLen = 2
    CryptoErrors = FALSE
    ClientScripts <- PipelinedSet
    ServerData <- MCServerData
    ClientCloses = {}
    ServerCloses = {}
SPECIFICATION Spec
INVARIANT RemoteStreamIntegrity
CHECK_DEADLOCK FALSE
