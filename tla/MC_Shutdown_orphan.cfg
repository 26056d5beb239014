\* Any start-up step after the flag reset may fail.
CONSTANTS
    c1 = c1
    c2 = c2
    Conns <- MCConns
    UDPMode = TRUE
    Plugin = TRUE
    StartupFailures = TRUE
    EarlyStop = FALSE
    PluginExitsOnTerm = TRUE
    Fronts <- QtFront
    QtBuild = TRUE
SPECIFICATION Spec
\* Once the host has returned from stop(), or if it never calls it and the
\* connections are done, nothing is left to happen: the program is idle
\* or finished, not deadlocked.
CHECK_DEADLOCK FALSE
INVARIANT PluginReaped
