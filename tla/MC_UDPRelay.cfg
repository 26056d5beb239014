\* Two sources, well-formed, fragmented and malformed datagrams, valid and
\* malformed replies, cipher failures possible.
CONSTANTS
    DefaultCapacity = 12
    IVLen = 2
    CryptoErrors = TRUE
    s1 = s1
    s2 = s2
    Sources <- MCSources
    ClientPackets <- MCClientPackets
    ReplyPayloads <- MCReplyPayloads
    MaxSends = 3
    MaxReplies = 3
    MaxSockets = 3
    Timeout = 2
SPECIFICATION Spec
\* The peers' budgets run out and every session is evicted: the relay then
\* has nothing to do, which is its idle state, not a deadlock.
CHECK_DEADLOCK FALSE
INVARIANT TypeOK ForwardIntegrity ResponseIntegrity
PROPERTY EvictsOnlyIdle
