\* A client whose request carries an unknown address type followed by more
\* bytes than the default buffer capacity, or one that sends its first
\* data in the same read as its CONNECT request, more of it than the
\* default buffer capacity.
CONSTANTS
    DefaultCapacity = 12
    IVLen = 2
    CryptoErrors = FALSE
    ClientScripts <- OverrunScripts
    ServerData <- MCServerData
    ClientCloses = {}
    ServerCloses = {}
SPECIFICATION Spec
INVARIANT BuffersWithinCapacity
\* One connection: once both peers are done the relay idles.
CHECK_DEADLOCK FALSE
