\* One source sending either a datagram whose ATYP ADDR PORT DATA is longer
\* than BUF_DEFAULT_CAPACITY (scaled to 12), or a two-byte datagram,
\* shorter than the SOCKS5 UDP header.
CONSTANTS
    DefaultCapacity = 12
    IVLen = 2
    CryptoErrors = FALSE
    s1 = s1
    s2 = s2
    Sources <- MCSources
    ClientPackets <- OverrunPackets
    ReplyPayloads <- MCReplyPayloads
    MaxSends = 1
    MaxReplies = 1
    MaxSockets = 1
    Timeout = 1
SPECIFICATION Spec
\* The peers' budgets run out: the relay is then idle.
CHECK_DEADLOCK FALSE
INVARIANT NoHeapOverflow
