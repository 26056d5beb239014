---------------------------- MODULE MC_UDPRelay ----------------------------
(* Instances of UDPRelay for TLC.  Addresses are scaled as in the module: *)
(* <<0,0,0, 1,7, 8, 30>> is RSV RSV FRAG, IPv4 7 port 8, data 30.        *)
EXTENDS UDPRelay

CONSTANTS s1, s2

MCSources == {s1, s2}

V4Packet   == <<0, 0, 0, 1, 7, 8, 30>>
FragPacket == <<0, 0, 1, 1, 7, 8, 30>>
BadPacket  == <<0, 0, 0, 9, 7>>
\* more bytes after the header than BUF_DEFAULT_CAPACITY holds
BigPacket  == <<0, 0, 0, 1, 7, 8>> \o [i \in 1..11 |-> 30]
\* two bytes: shorter than RSV RSV FRAG
ShortPacket == <<0, 0>>

V4Reply     == <<1, 7, 8, 40>>
DomainReply == <<3, 1, 9, 8, 41>>
BadReply    == <<9, 40>>

MCClientPackets == {V4Packet, FragPacket, BadPacket, ShortPacket}
MCReplyPayloads == {V4Reply, BadReply}
OverrunPackets == {BigPacket, ShortPacket}
DomainReplies == {DomainReply}
=============================================================================
