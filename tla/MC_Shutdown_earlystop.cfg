\* The host may call stop() as soon as it has started the thread.
CONSTANTS
    c1 = c1
    c2 = c2
    Conns <- MCConns
    UDPMode = TRUE
    Plugin = TRUE
    StartupFailures = FALSE
    EarlyStop = TRUE
    PluginExitsOnTerm = TRUE
    Fronts <- QtFront
    QtBuild = TRUE
SPECIFICATION Spec
\* Once the host has returned from stop(), or if it never calls it and the
\* connections are done, nothing is left to happen: the program is idle
\* or finished, not deadlocked.
CHECK_DEADLOCK FALSE
PROPERTY StopReturns
