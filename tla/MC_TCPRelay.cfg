\* Patient SOCKS5 clients of every command, any segmentation, server and
\* client closes and resets, cipher errors.
CONSTANTS
    DefaultCapacity = 12
    IVLen = 2
    CryptoErrors = TRUE
    ClientScripts <- PatientScripts
    ServerData <- MCServerData
    ClientCloses = {"fin", "rst"}
    ServerCloses = {"fin", "rst"}
SPECIFICATION Spec
INVARIANT TypeOK
INVARIANT RemoteStreamIntegrity
INVARIANT ClientStreamIntegrity
PROPERTY RelayCompletes
PROPERTY ImplementsStreamRelay
PROPERTY RequestAnswered
\* One connection: once it is torn down and both peers are done the relay
\* idles, waiting for events that never come.
CHECK_DEADLOCK FALSE
