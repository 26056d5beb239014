\* Patient clients that may close their side (FIN) at any point.
CONSTANTS
    DefaultCapacity = 12
    IVLen = 2
    CryptoErrors = FALSE
    ClientScripts <- PatientScripts
    ServerData <- MCServerData
    ClientCloses = {"fin"}
    ServerCloses = {}
SPECIFICATION Spec
PROPERTY ClientCloseTearsDown
CHECK_DEADLOCK FALSE
