\* Command lines with out-of-range ports and timeouts.
CONSTANTS
    Argvs <- MCArgvs
SPECIFICATION Spec
INVARIANT ProfileInRange
\* main() ends by exiting or by blocking in start_ssr_uv_local_server.
CHECK_DEADLOCK FALSE
