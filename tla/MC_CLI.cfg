\* Every short command line through main()'s option loop and checks.
CONSTANTS
    Argvs <- MCArgvs
SPECIFICATION Spec
INVARIANT TypeOK
\* main() ends by exiting or by blocking in start_ssr_uv_local_server.
CHECK_DEADLOCK FALSE
