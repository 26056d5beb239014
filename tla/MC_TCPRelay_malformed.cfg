\* A client whose CONNECT request carries an unknown address type and that
\* then waits for an answer without closing.
CONSTANTS
    DefaultCapacity = 12
    IVLen = 2
    CryptoErrors = FALSE
    ClientScripts <- MalformedScripts
    ServerData <- MCServerData
    ClientCloses = {}
    ServerCloses = {}
SPECIFICATION Spec
PROPERTY MalformedRequestClosed
CHECK_DEADLOCK FALSE
