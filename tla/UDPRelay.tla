------------------------------ MODULE UDPRelay ------------------------------
(***************************************************************************)
(* The UDP relay of src/src/UDPRelay.cpp: SOCKS5 UDP datagrams from client *)
(* source addresses, a session cache (socketCache) keyed by source, one    *)
(* outbound socket and inactivity timer per session, and the Shadowsocks  *)
(* server answering on those sockets.                                      *)
(*                                                                         *)
(* Every callback (udpServer's UDPDataEvent, a session socket's           *)
(* UDPDataEvent, a session timer) runs atomically on the loop.  Datagrams *)
(* in flight are sets: UDP may lose and reorder them, and a client that   *)
(* repeats a datagram is a client sending it again.  Time passes in      *)
(* Tick steps; a session's timer is due Timeout ticks after initTimer or  *)
(* its last resetTimeoutTimer, and the loop fires it only once due.       *)
(*                                                                         *)
(* Sessions are records [sock, left, buf], left being the ticks before   *)
(* the session's timer is due; sockets are numbered in the                *)
(* order sessions create them, and socks[i] says whose socket i is and    *)
(* whether it is still open.                                               *)
(***************************************************************************)
EXTENDS Crypto, FiniteSets, TLC

CONSTANTS
    Sources,        \* client source addresses (model values)
    ClientPackets,  \* datagrams a client may send: RSV RSV FRAG ATYP ADDR PORT DATA
    ReplyPayloads,  \* plaintexts ATYP ADDR PORT DATA the server may answer with
    MaxSends,       \* bound on datagrams the clients send
    MaxReplies,     \* bound on datagrams the server sends
    MaxSockets,     \* bound on sessions (outbound sockets) created
    Timeout         \* the session timer's period, in ticks (profile.timeout)

\* parseUDPRelayHeader: length of ATYP ADDR PORT at the front of s, or 0.
\* Addresses are scaled as in TCPRelay (IPv4 1 byte, IPv6 2, port 1); the
\* type is taken through ADDRTYPE_MASK (0x0F).
V4Len == 1
V6Len == 2
PortLen == 1
ParseUDPRelayHeader(s) ==
    LET atyp == s[1] % 16
        addr == CASE atyp = 1 /\ Len(s) >= 1 + V4Len + PortLen -> V4Len
                  [] atyp = 3 /\ Len(s) >= 2 /\ s[2] + 2 + PortLen <= Len(s) -> 1 + s[2]
                  [] atyp = 4 /\ Len(s) >= 1 + V6Len + PortLen -> V6Len
                  [] OTHER -> 0
    IN  IF Len(s) = 0 \/ addr = 0 THEN 0 ELSE 1 + addr + PortLen

\* The SOCKS5 UDP request header the relay strips: RSV RSV FRAG.
HeaderLen == 3
Frag(p) == p[3]
Payload(p) == SubSeq(p, HeaderLen + 1, Len(p))

NoSession == [sock |-> 0, left |-> 0, buf |-> NewBuf]

VARIABLES
    cache,          \* socketCache: source -> session, or NoSession
    socks,          \* outbound sockets: Seq of [owner, open]
    cliNet,         \* datagrams in flight to udpServer: [src, data]
    srvIn,          \* datagrams the server has received: [sock, data]
    srvNet,         \* datagrams in flight from the server: [sock, data]
    toClient,       \* datagrams udpServer has sent to clients: [dst, data]
    cliLog,         \* every datagram a client has sent: [src, data]
    srvLog,         \* every reply the server has sent: [sock, plain]
    sends, replies, \* counters for MaxSends and MaxReplies
    overflowed,     \* a localBuf write has gone past its allocation
    quiet           \* history: ticks since a datagram from or to each
                    \* source last passed the relay (saturating at Timeout)

vars == <<cache, socks, cliNet, srvIn, srvNet, toClient, cliLog, srvLog,
          sends, replies, overflowed, quiet>>

Owner(i) == socks[i].owner

TypeOK ==
    /\ \A s \in Sources :
          cache[s] = NoSession
          \/ /\ cache[s].sock \in 1..Len(socks) /\ cache[s].left \in 0..Timeout
             /\ cache[s].buf.data \in Seq(Int) /\ cache[s].buf.cap \in Nat
    /\ \A i \in 1..Len(socks) : socks[i].owner \in Sources /\ socks[i].open \in BOOLEAN
    /\ \A m \in srvIn \cup srvNet : m.sock \in 1..Len(socks) /\ m.data \in Seq(Int)
    /\ \A r \in toClient : r.dst \in Sources /\ r.data \in Seq(Int)
    /\ sends \in 0..MaxSends /\ replies \in 0..MaxReplies
    /\ overflowed \in BOOLEAN
    /\ quiet \in [Sources -> 0..Timeout]

Init ==
    /\ cache = [s \in Sources |-> NoSession]
    /\ socks = <<>>
    /\ cliNet = {} /\ srvIn = {} /\ srvNet = {} /\ toClient = {}
    /\ cliLog = {} /\ srvLog = {}
    /\ sends = 0 /\ replies = 0 /\ overflowed = FALSE
    /\ quiet = [s \in Sources |-> Timeout]

-----------------------------------------------------------------------------
-----------------------------------------------------------------------------
(* UDPRelay::panic: erase the source's session.  The UDPConnectionContext *)
(* it held goes with it, closing its socket and timer (spec.md 4.4,       *)
(* session eviction).                                                      *)
panic(s) ==
    /\ cache' = [cache EXCEPT ![s] = NoSession]
    /\ socks' = IF cache[s] = NoSession THEN socks
                ELSE [socks EXCEPT ![cache[s].sock].open = FALSE]

\* Variant of SessionFor that leaves a cached session's timer running.
SessionForNoReset(s) ==
    IF cache[s] /= NoSession THEN cache[s]
    ELSE [sock |-> Len(socks) + 1, left |-> Timeout, buf |-> NewBuf]

\* The session the packet is relayed through (serverRecv, lines 147-181):
\* the cached one with its timer reset (resetTimeoutTimer), or a new one
\* with a fresh socket and a timer started by initTimer.
SessionFor(s) ==
    IF cache[s] /= NoSession THEN [cache[s] EXCEPT !.left = Timeout]
    ELSE [sock |-> Len(socks) + 1, left |-> Timeout, buf |-> NewBuf]

NewSocks(s) ==
    IF cache[s] /= NoSession THEN socks
    ELSE Append(socks, [owner |-> s, open |-> TRUE])

\* Bytes a read past the end of a datagram may find there (scaled).
OOBBytes == {0, 1}

\* serverRecv reads FRAG at data[2] and ATYP at data[3] whatever the
\* datagram's length: past the end of a datagram shorter than the header
\* it reads whatever lies there (undefined behaviour, any of OOBBytes).
OOBFill(p) ==
    IF Len(p) >= HeaderLen THEN {<<>>}
    ELSE [1..(HeaderLen + 1 - Len(p)) -> OOBBytes]

\* data.length - offset is computed as size_t: for a datagram shorter than
\* the header it wraps to nearly 2^64, so parseUDPRelayHeader's length
\* checks all pass and copyFromBegin copies far past any allocation.
Wraps(p) == Len(p) < HeaderLen

\* The header checks of serverRecv on the bytes v it reads: the address
\* parses (lines 129-135) and FRAG is 0 (lines 142-146).
Accepted(v, wraps) ==
    /\ Frag(v) = 0
    /\ IF wraps THEN v[HeaderLen + 1] % 16 \in {1, 3, 4}
       ELSE ParseUDPRelayHeader(Payload(v)) /= 0

\* Variant of ServerRecv that encrypts the datagram with its SOCKS5 header.
ServerRecvNoStrip(d) ==
    /\ d \in cliNet
    /\ cliNet' = cliNet \ {d}
    /\ \E g \in OOBFill(d.data) :
       LET s   == d.src
           v   == d.data \o g
           ok  == Accepted(v, Wraps(d.data))
           ses == SessionFor(s)
           lb  == CopyFromBegin(NewBuf, d.data)
       IN  /\ (ok /\ cache[s] = NoSession) => Len(socks) < MaxSockets
           /\ IF ~ok
              THEN /\ panic(s)
                   /\ UNCHANGED <<srvIn, overflowed>>
              ELSE IF Wraps(d.data)
              THEN /\ overflowed' = TRUE
                   /\ cache' = [cache EXCEPT ![s] = ses]
                   /\ socks' = NewSocks(s)
                   /\ UNCHANGED srvIn
              ELSE /\ overflowed' = (overflowed \/ Overflowed(lb))
                   /\ \E r \in EncryptAllResults(lb) :
                        IF r.err /= "ok"
                        THEN /\ cache' = [cache EXCEPT ![s] = NoSession]
                             /\ socks' = [NewSocks(s) EXCEPT ![ses.sock].open = FALSE]
                             /\ UNCHANGED srvIn
                        ELSE /\ cache' = [cache EXCEPT ![s] = ses]
                             /\ socks' = NewSocks(s)
                             /\ srvIn' = srvIn \cup {[sock |-> ses.sock, data |-> r.buf.data]}
    /\ quiet' = [quiet EXCEPT ![d.src] = 0]
    /\ UNCHANGED <<srvNet, toClient, cliLog, srvLog, sends, replies>>

\* udpServer's UDPDataEvent: a fresh localBuf, then serverRecv.  A
\* datagram shorter than the header that passes the checks on the bytes
\* read past its end gets a session, then copyFromBegin writes the wrapped
\* length into localBuf: the step ends in that overflow.
ServerRecv(d) ==
    /\ d \in cliNet
    /\ cliNet' = cliNet \ {d}
    /\ \E g \in OOBFill(d.data) :
       LET s   == d.src
           v   == d.data \o g
           ok  == Accepted(v, Wraps(d.data))
           ses == SessionFor(s)
           lb  == CopyFromBegin(NewBuf, Payload(d.data))
       IN  /\ (ok /\ cache[s] = NoSession) => Len(socks) < MaxSockets
           /\ IF ~ok
              THEN /\ panic(s)
                   /\ UNCHANGED <<srvIn, overflowed>>
              ELSE IF Wraps(d.data)
              THEN /\ overflowed' = TRUE
                   /\ cache' = [cache EXCEPT ![s] = ses]
                   /\ socks' = NewSocks(s)
                   /\ UNCHANGED srvIn
              ELSE /\ overflowed' = (overflowed \/ Overflowed(lb))
                   /\ \E r \in EncryptAllResults(lb) :
                        IF r.err /= "ok"
                        THEN /\ cache' = [cache EXCEPT ![s] = NoSession]
                             /\ socks' = [NewSocks(s) EXCEPT ![ses.sock].open = FALSE]
                             /\ UNCHANGED srvIn
                        ELSE /\ cache' = [cache EXCEPT ![s] = ses]
                             /\ socks' = NewSocks(s)
                             /\ srvIn' = srvIn \cup {[sock |-> ses.sock, data |-> r.buf.data]}
    /\ quiet' = [quiet EXCEPT ![d.src] = 0]
    /\ UNCHANGED <<srvNet, toClient, cliLog, srvLog, sends, replies>>

\* Variant of RemoteRecv that addresses the response by the socket it
\* came in on rather than by the session's srcAddr.
RemoteRecvWrongAddr(m) ==
    /\ m \in srvNet /\ socks[m.sock].open
    /\ srvNet' = srvNet \ {m}
    /\ LET s == Owner(m.sock)
       IN  IF cache[s] = NoSession
           THEN /\ panic(s)
                /\ UNCHANGED <<toClient, quiet>>
           ELSE \E r \in DecryptAllResults(CopyEvent(cache[s].buf, m.data)) :
                  IF r.err /= "ok" \/ ParseUDPRelayHeader(r.buf.data) = 0
                  THEN /\ panic(s)
                       /\ UNCHANGED <<toClient, quiet>>
                  ELSE /\ toClient' = toClient \cup
                                {[dst |-> m.sock, data |-> <<0, 0, 0>> \o r.buf.data]}
                       /\ cache' = [cache EXCEPT ![s].buf = Clear(r.buf), ![s].left = Timeout]
                       /\ quiet' = [quiet EXCEPT ![s] = 0]
                       /\ UNCHANGED socks
    /\ UNCHANGED <<cliNet, srvIn, cliLog, srvLog, sends, replies, overflowed>>

\* Variant of RemoteRecv without the final setLength(0) of remoteBuf.
RemoteRecvNoReset(m) ==
    /\ m \in srvNet /\ socks[m.sock].open
    /\ srvNet' = srvNet \ {m}
    /\ LET s == Owner(m.sock)
       IN  IF cache[s] = NoSession
           THEN /\ panic(s)
                /\ UNCHANGED <<toClient, quiet>>
           ELSE \E r \in DecryptAllResults(CopyEvent(cache[s].buf, m.data)) :
                  IF r.err /= "ok" \/ ParseUDPRelayHeader(r.buf.data) = 0
                  THEN /\ panic(s)
                       /\ UNCHANGED <<toClient, quiet>>
                  ELSE /\ toClient' = toClient \cup
                                {[dst |-> s, data |-> <<0, 0, 0>> \o r.buf.data]}
                       /\ cache' = [cache EXCEPT ![s].buf = r.buf, ![s].left = Timeout]
                       /\ quiet' = [quiet EXCEPT ![s] = 0]
                       /\ UNCHANGED socks
    /\ UNCHANGED <<cliNet, srvIn, cliLog, srvLog, sends, replies, overflowed>>

\* A session socket's UDPDataEvent: remoteRecv(data, handle, addr).
RemoteRecv(m) ==
    /\ m \in srvNet /\ socks[m.sock].open
    /\ srvNet' = srvNet \ {m}
    /\ LET s == Owner(m.sock)
       IN  IF cache[s] = NoSession
           THEN /\ panic(s)
                /\ UNCHANGED <<toClient, quiet>>
           ELSE \E r \in DecryptAllResults(CopyEvent(cache[s].buf, m.data)) :
                  IF r.err /= "ok" \/ ParseUDPRelayHeader(r.buf.data) = 0
                  THEN /\ panic(s)
                       /\ UNCHANGED <<toClient, quiet>>
                  ELSE /\ toClient' = toClient \cup
                                {[dst |-> s, data |-> <<0, 0, 0>> \o r.buf.data]}
                       /\ cache' = [cache EXCEPT ![s].buf = Clear(r.buf), ![s].left = Timeout]
                       /\ quiet' = [quiet EXCEPT ![s] = 0]
                       /\ UNCHANGED socks
    /\ UNCHANGED <<cliNet, srvIn, cliLog, srvLog, sends, replies, overflowed>>

\* The session's inactivity timer expires: panic(addr).
TimerFire(s) ==
    /\ cache[s] /= NoSession /\ cache[s].left = 0
    /\ panic(s)
    /\ UNCHANGED <<cliNet, srvIn, srvNet, toClient, cliLog, srvLog, sends,
                   replies, overflowed, quiet>>

\* Time passes while the loop polls.  uv_run computes the poll timeout
\* from the nearest timer, so no time passes while a timer is due (it
\* runs first in the next iteration); a due timer may still be reset by
\* an I/O callback of the same poll.
Tick ==
    /\ \E s \in Sources : cache[s] /= NoSession
    /\ \A s \in Sources : cache[s] /= NoSession => cache[s].left > 0
    /\ cache' = [s \in Sources |->
                    IF cache[s] = NoSession THEN NoSession
                    ELSE [cache[s] EXCEPT !.left = @ - 1]]
    /\ quiet' = [s \in Sources |-> IF quiet[s] < Timeout THEN quiet[s] + 1 ELSE Timeout]
    /\ UNCHANGED <<socks, cliNet, srvIn, srvNet, toClient, cliLog, srvLog,
                   sends, replies, overflowed>>

-----------------------------------------------------------------------------
(* The peers and the network. *)

ClientSend(s, p) ==
    /\ sends < MaxSends
    /\ sends' = sends + 1
    /\ cliNet' = cliNet \cup {[src |-> s, data |-> p]}
    /\ cliLog' = cliLog \cup {[src |-> s, data |-> p]}
    /\ UNCHANGED <<cache, socks, srvIn, srvNet, toClient, srvLog, replies, overflowed,
                   quiet>>

\* The server answers a datagram it received, on the socket it came from.
ServerReply(m, p) ==
    /\ m \in srvIn /\ replies < MaxReplies
    /\ replies' = replies + 1
    /\ srvNet' = srvNet \cup {[sock |-> m.sock, data |-> IV \o EncSeq(p)]}
    /\ srvLog' = srvLog \cup {[sock |-> m.sock, plain |-> p]}
    /\ UNCHANGED <<cache, socks, cliNet, srvIn, toClient, cliLog, sends, overflowed,
                   quiet>>

\* A datagram is lost, or reaches a socket that is already closed.
Lose ==
    /\ \/ \E d \in cliNet : cliNet' = cliNet \ {d} /\ UNCHANGED srvNet
       \/ \E m \in srvNet : srvNet' = srvNet \ {m} /\ UNCHANGED cliNet
    /\ UNCHANGED <<cache, socks, srvIn, toClient, cliLog, srvLog, sends,
                   replies, overflowed, quiet>>

Next ==
    \/ \E d \in cliNet : ServerRecv(d)
    \/ \E m \in srvNet : RemoteRecv(m)
    \/ \E s \in Sources : TimerFire(s)
    \/ Tick
    \/ \E s \in Sources, p \in ClientPackets : ClientSend(s, p)
    \/ \E m \in srvIn, p \in ReplyPayloads : ServerReply(m, p)
    \/ Lose

\* Every session's timer is serviced by the loop once it is due.
Spec == Init /\ [][Next]_vars /\ \A s \in Sources : WF_vars(TimerFire(s))

-----------------------------------------------------------------------------
(* Properties. *)

\* Relay of client datagrams (serverRecv): every datagram the server gets
\* on a session socket is one encrypted packet, IV first, of the ATYP ADDR
\* PORT DATA of a datagram sent by that socket's own source.
ForwardIntegrity ==
    \A m \in srvIn :
        \E d \in cliLog : d.src = Owner(m.sock) /\ m.data = IV \o EncSeq(Payload(d.data))

\* Relay of replies (remoteRecv): every datagram a client gets is
\* RSV RSV FRAG = 0 0 0 before the plaintext of one reply the server sent
\* on a socket of that same client, whatever replies came before it on the
\* session, were lost, or reordered.
ResponseIntegrity ==
    \A r \in toClient :
        \E m \in srvLog : Owner(m.sock) = r.dst /\ r.data = <<0, 0, 0>> \o m.plain

\* Inactivity eviction (spec.md 4.4: the timer is reset on every packet,
\* and two packets of a source within the timeout reuse one session): the
\* session timer evicts a session only when no datagram from its source
\* and no reply to it has passed the relay for a whole timeout.  It needs
\* serverRecv's resetTimeoutTimer on a cached session (line 180) and
\* remoteRecv's (line 219) as traffic and ticks interleave.
EvictsOnlyIdle == [][\A s \in Sources : TimerFire(s) => quiet[s] = Timeout]_vars

\* serverRecv copies the datagram after its 3-byte header into the fresh
\* localBuf with copyFromBegin, which never checks the capacity, and takes
\* its length as data.length - 3, which wraps for a datagram shorter than
\* 3 bytes: no datagram, long or short, may write past the buffer.
NoHeapOverflow == ~overflowed

=============================================================================
