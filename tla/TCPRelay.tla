------------------------------ MODULE TCPRelay ------------------------------
(***************************************************************************)
(* One SOCKS5 client connection through TCPRelayImpl (src/src/local_uv.cpp)*)
(* and its ConnectionContext (src/src/ConnectionContext.cpp).              *)
(*                                                                         *)
(* The relay is a set of callbacks of one libuv loop, each an atomic       *)
(* action here.  Which callback handles the next client read is the uvw   *)
(* DataEvent listener registered on the client handle (variable handler): *)
(* once<> listeners are consumed when they fire, the stream listener is   *)
(* on<>, and a read with no listener is dropped by uvw.                    *)
(*                                                                         *)
(* The environment is a client that plays a script of bytes, cut into     *)
(* TCP segments at any points (waiting for reply bytes where the script   *)
(* says so), and a Shadowsocks server that accepts or refuses the connect,*)
(* sends its IV and data in any segments, and may close or reset.         *)
(* Bytes are small integers; SOCKS5 addresses are scaled down (see        *)
(* AddressComplete).                                                       *)
(***************************************************************************)
EXTENDS Crypto, SequencesExt, TLC

CONSTANTS
    ClientScripts,  \* set of [bytes: Seq, waits: pos :> reply bytes needed]
    ServerData,     \* plaintext the Shadowsocks server sends back
    ClientCloses,   \* ways the client may close: subset of {"fin", "rst"}
    ServerCloses    \* ways the server may close: subset of {"fin", "rst"}

ASSUME ClientCloses \subseteq {"fin", "rst"} /\ ServerCloses \subseteq {"fin", "rst"}

SVERSION == 5
MethodReply == <<SVERSION, 0>>                         \* handShakeReceive
ConnectReply == <<5, 0, 0, 1, 0, 0, 0, 0, 0, 0>>       \* ConnectEvent handler
UdpAssocReply == <<5, 0, 0, 1, 40, 40, 40, 40, 41, 41>> \* udpAsscResponse
SrvWire == IV \o EncSeq(ServerData)

\* socks5_address_parse (outside src/): is a whole ATYP ADDR PORT at the
\* front of s?  IPv4 addresses are scaled to 1 byte, IPv6 to 2 and ports
\* to 1; a domain is a length byte and that many bytes.  Unknown ATYP
\* never parses.
V4Len == 1
V6Len == 2
PortLen == 1
AddressComplete(s) ==
    /\ Len(s) >= 1
    /\ CASE s[1] = 1 -> Len(s) >= 1 + V4Len + PortLen
         [] s[1] = 3 -> Len(s) >= 2 /\ Len(s) >= 2 + s[2] + PortLen
         [] s[1] = 4 -> Len(s) >= 1 + V6Len + PortLen
         [] OTHER    -> FALSE

Handlers == {"none", "handShakeReceive", "handShakeSendCallBack",
             "readAllAddress", "sockStream"}

VARIABLES
    script,         \* the client's script, fixed for a behaviour
    cliSent,        \* how many script bytes the client has sent
    cliNet,         \* segments in flight from the client to the relay
    cliState,       \* client peer: "active", "fin" (sent FIN), "rst"
    toClient,       \* bytes the relay has written to the client
    conn,           \* ctx in inComingConnections: "none", "open", "gone"
    handler,        \* DataEvent listener on the client handle
    clientH,        \* relay's client handle: "open", "closing", "closed"
    localBuf,       \* ConnectionContext::localBuf
    remoteBuf,      \* ConnectionContext::remoteBuf
    eCtx, dCtx,     \* ConnectionContext::e_ctx, d_ctx
    remoteH,        \* remote handle: "none","connecting","connected","closing","closed"
    writePending,   \* the first remote write's WriteEvent is due
    toRemote,       \* bytes the relay has written to the server
    srvNet,         \* segments in flight from the server to the relay
    srvSent,        \* how many SrvWire bytes the server has sent
    srvState,       \* server peer: "idle", "up", "fin", "rst"
    overrun         \* a Buffer::copy(const Buffer&) has written past its allocation

cliVars == <<script, cliSent, cliNet, cliState>>
srvVars == <<srvNet, srvSent, srvState>>
ctxVars == <<localBuf, remoteBuf, eCtx, dCtx, overrun>>
vars == <<cliVars, toClient, conn, handler, clientH, ctxVars, remoteH,
          writePending, toRemote, srvVars>>

-----------------------------------------------------------------------------
(* Script helpers. *)
Bytes == script.bytes
GreetLen == 2 + Bytes[2]                       \* VER NMETHODS METHODS
HasRequest == Len(Bytes) >= GreetLen + 4
Cmd == IF HasRequest THEN Bytes[GreetLen + 2] ELSE 0
\* What follows VER CMD RSV: the Shadowsocks stream ATYP ADDR PORT DATA.
ClientPayload == IF HasRequest THEN SubSeq(Bytes, GreetLen + 4, Len(Bytes)) ELSE <<>>

NoBuf == [data |-> <<>>, cap |-> 0]            \* remoteBuf before ConnectEvent

TypeOK ==
    /\ cliSent \in 0..Len(Bytes)
    /\ cliState \in {"active", "fin", "rst"}
    /\ conn \in {"none", "open", "gone"}
    /\ handler \in Handlers
    /\ clientH \in {"open", "closing", "closed"}
    /\ remoteH \in {"none", "connecting", "connected", "closing", "closed"}
    /\ writePending \in BOOLEAN
    /\ srvState \in {"idle", "up", "fin", "rst"}
    /\ srvSent \in 0..Len(SrvWire)
    /\ \A b \in {localBuf, remoteBuf} : b.cap \in Nat /\ b.data \in Seq(Int)
    /\ eCtx.iv \in -1..IVLen /\ dCtx.iv \in -1..IVLen
    /\ overrun \in BOOLEAN

Init ==
    /\ script \in ClientScripts
    /\ cliSent = 0 /\ cliNet = <<>> /\ cliState = "active"
    /\ toClient = <<>>
    /\ conn = "none" /\ handler = "none" /\ clientH = "open"
    /\ localBuf = NewBuf /\ remoteBuf = NoBuf
    /\ eCtx = NoCtx /\ dCtx = NoCtx
    /\ remoteH = "none" /\ writePending = FALSE /\ toRemote = <<>>
    /\ overrun = FALSE
    /\ srvNet = <<>> /\ srvSent = 0 /\ srvState = "idle"

-----------------------------------------------------------------------------
\* Variant of TearDown whose destructor leaves the remote handle open.
TearDownKeepsRemote(clientNext) ==
    /\ conn' = "gone"
    /\ handler' = "none"
    /\ clientH' = clientNext
    /\ remoteH' = remoteH
    /\ writePending' = FALSE

(* panic(clientConnection) and ~ConnectionContext: erase the context from *)
(* inComingConnections; its destructor clears every listener of both      *)
(* handles and closes them.  A no-op for a context already erased.        *)
TearDown(clientNext) ==
    /\ conn' = "gone"
    /\ handler' = "none"
    /\ clientH' = clientNext
    /\ remoteH' = IF remoteH \in {"connecting", "connected"} THEN "closing" ELSE remoteH
    /\ writePending' = FALSE

panic ==
    IF conn = "open"
    THEN TearDown(IF clientH = "open" THEN "closing" ELSE clientH)
    ELSE UNCHANGED <<conn, handler, clientH, remoteH, writePending>>

\* libuv runs the completion of a write that finished at once in the
\* pending phase of the next loop iteration, before it polls for I/O: no
\* read, connect or error callback runs while that WriteEvent is due.
IOReady == ~writePending

\* A client segment is delivered to the listener on the client handle.
ClientReadable ==
    /\ IOReady /\ conn /= "none" /\ clientH = "open" /\ cliNet /= <<>>

Ev == Head(cliNet)

-----------------------------------------------------------------------------
(* ListenEvent handler in listen(): new client handle, context, close and *)
(* error listeners, once<DataEvent>(handShakeReceive), read().            *)
Accept ==
    /\ conn = "none"
    /\ conn' = "open"
    /\ handler' = "handShakeReceive"
    /\ UNCHANGED <<cliVars, toClient, clientH, ctxVars, remoteH, writePending,
                   toRemote, srvVars>>

\* startConnect and connectRemote: remote handle with error/close/end
\* listeners, connect(), on<DataEvent>(remoteRecv), once<ConnectEvent>;
\* preceded by construct_cipher.  The client keeps no DataEvent listener.
StartConnect(buf) ==
    /\ localBuf' = buf
    /\ eCtx' = FreshCtx /\ dCtx' = FreshCtx
    /\ remoteH' = "connecting"
    /\ handler' = "none"

\* handShakeReceive: the first read of the connection.
HandShakeReceive ==
    /\ ClientReadable /\ handler = "handShakeReceive"
    /\ cliNet' = Tail(cliNet)
    /\ IF Ev[1] = SVERSION /\ Len(Ev) > 1
       THEN /\ toClient' = toClient \o MethodReply
            /\ handler' = "handShakeSendCallBack"
            /\ UNCHANGED clientH
       ELSE /\ toClient' = IF Len(Ev) > 1 THEN toClient \o MethodReply ELSE toClient
            /\ clientH' = "closing"
            /\ handler' = "none"
    /\ UNCHANGED <<script, cliSent, cliState, conn, ctxVars, remoteH,
                   writePending, toRemote, srvVars>>

\* Variant of HandShakeSendCallBack that does not register
\* once<DataEvent>(handShakeSendCallBack) again after a short read.
HandShakeSendCallBackNoRearm ==
    /\ ClientReadable /\ handler = "handShakeSendCallBack"
    /\ cliNet' = Tail(cliNet)
    /\ LET n   == BufLen(localBuf)
           b1  == CopyEvent(localBuf, Ev)
           cmd == CASE n = 0 -> Ev[2]
                    [] n = 1 -> Ev[1]
                    [] OTHER -> At(localBuf, 1)
       IN  IF n + Len(Ev) >= 5
           THEN CASE cmd = 1 ->
                      IF BufLen(b1) /= 0 /\ AddressComplete(SubSeq(b1.data, 4, BufLen(b1)))
                      THEN /\ StartConnect(Drop(b1, 3))
                           /\ UNCHANGED <<toClient, clientH>>
                      ELSE /\ localBuf' = b1
                           /\ handler' = "readAllAddress"
                           /\ UNCHANGED <<toClient, clientH, eCtx, dCtx, remoteH>>
                  [] cmd = 3 ->
                      /\ localBuf' = b1
                      /\ toClient' = toClient \o UdpAssocReply
                      /\ handler' = "none"
                      /\ UNCHANGED <<clientH, eCtx, dCtx, remoteH>>
                  [] OTHER ->
                      /\ localBuf' = b1
                      /\ clientH' = "closing"
                      /\ handler' = "none"
                      /\ UNCHANGED <<toClient, eCtx, dCtx, remoteH>>
           ELSE /\ localBuf' = b1
                /\ handler' = "none"
                /\ UNCHANGED <<toClient, clientH, eCtx, dCtx, remoteH>>
    /\ UNCHANGED <<overrun, script, cliSent, cliState, conn, remoteBuf, writePending,
                   toRemote, srvVars>>

\* handShakeSendCallBack: accumulate VER CMD RSV ...; once 5 bytes are
\* there, take CMD from where it lies and dispatch on it.
HandShakeSendCallBack ==
    /\ ClientReadable /\ handler = "handShakeSendCallBack"
    /\ cliNet' = Tail(cliNet)
    /\ LET n   == BufLen(localBuf)
           b1  == CopyEvent(localBuf, Ev)
           cmd == CASE n = 0 -> Ev[2]
                    [] n = 1 -> Ev[1]
                    [] OTHER -> At(localBuf, 1)
       IN  IF n + Len(Ev) >= 5
           THEN CASE cmd = 1 ->
                      IF BufLen(b1) /= 0 /\ AddressComplete(SubSeq(b1.data, 4, BufLen(b1)))
                      THEN /\ StartConnect(Drop(b1, 3))
                           /\ UNCHANGED <<toClient, clientH>>
                      ELSE /\ localBuf' = b1
                           /\ handler' = "readAllAddress"
                           /\ UNCHANGED <<toClient, clientH, eCtx, dCtx, remoteH>>
                  [] cmd = 3 ->
                      /\ localBuf' = b1
                      /\ toClient' = toClient \o UdpAssocReply
                      /\ handler' = "none"
                      /\ UNCHANGED <<clientH, eCtx, dCtx, remoteH>>
                  [] OTHER ->
                      /\ localBuf' = b1
                      /\ clientH' = "closing"
                      /\ handler' = "none"
                      /\ UNCHANGED <<toClient, eCtx, dCtx, remoteH>>
           ELSE /\ localBuf' = b1
                /\ UNCHANGED <<handler, toClient, clientH, eCtx, dCtx, remoteH>>
    /\ UNCHANGED <<overrun, script, cliSent, cliState, conn, remoteBuf, writePending,
                   toRemote, srvVars>>

\* readAllAddress: keep reading until the address parses.
ReadAllAddress ==
    /\ ClientReadable /\ handler = "readAllAddress"
    /\ cliNet' = Tail(cliNet)
    /\ LET b1 == CopyEvent(localBuf, Ev)
       IN  IF AddressComplete(SubSeq(b1.data, 4, BufLen(b1)))
           THEN StartConnect(Drop(b1, 3))
           ELSE /\ localBuf' = b1
                /\ UNCHANGED <<handler, eCtx, dCtx, remoteH>>
    /\ UNCHANGED <<overrun, script, cliSent, cliState, toClient, conn, clientH, remoteBuf,
                   writePending, toRemote, srvVars>>

\* A client read while no DataEvent listener is registered: uvw publishes
\* it to nobody and the bytes are gone.
DropUnhandled ==
    /\ ClientReadable /\ handler = "none"
    /\ cliNet' = Tail(cliNet)
    /\ UNCHANGED <<script, cliSent, cliState, toClient, conn, handler, clientH,
                   ctxVars, remoteH, writePending, toRemote, srvVars>>

\* Variant of ConnectEvent that never registers once<WriteEvent>.
ConnectEventNoWriteListener ==
    /\ IOReady /\ remoteH = "connecting" /\ srvState = "idle"
    /\ srvState' = "up"
    /\ toClient' = toClient \o ConnectReply
    /\ localBuf' = Clear(localBuf)
    /\ overrun' = (overrun \/ Overflowed(CopyBuffer(NewBuf, localBuf)))
    /\ \E r \in EncryptResults(eCtx, CopyBuffer(NewBuf, localBuf)) :
         /\ remoteBuf' = r.buf
         /\ eCtx' = r.ctx
         /\ IF r.err = "ok"
            THEN /\ remoteH' = "connected"
                 /\ writePending' = FALSE
                 /\ toRemote' = toRemote \o r.buf.data
                 /\ UNCHANGED <<conn, handler, clientH>>
            ELSE /\ TearDown(IF clientH = "open" THEN "closing" ELSE clientH)
                 /\ UNCHANGED toRemote
    /\ UNCHANGED <<cliVars, dCtx, srvNet, srvSent>>

\* once<ConnectEvent> in connectRemote: read(), fake 10-byte reply, move
\* localBuf into a fresh remoteBuf, encrypt it, write it, wait for its
\* WriteEvent.
ConnectEvent ==
    /\ IOReady /\ remoteH = "connecting" /\ srvState = "idle"
    /\ srvState' = "up"
    /\ toClient' = toClient \o ConnectReply
    /\ localBuf' = Clear(localBuf)
    /\ overrun' = (overrun \/ Overflowed(CopyBuffer(NewBuf, localBuf)))
    /\ \E r \in EncryptResults(eCtx, CopyBuffer(NewBuf, localBuf)) :
         /\ remoteBuf' = r.buf
         /\ eCtx' = r.ctx
         /\ IF r.err = "ok"
            THEN /\ remoteH' = "connected"
                 /\ writePending' = TRUE
                 /\ toRemote' = toRemote \o r.buf.data
                 /\ UNCHANGED <<conn, handler, clientH>>
            ELSE /\ TearDown(IF clientH = "open" THEN "closing" ELSE clientH)
                 /\ UNCHANGED toRemote
    /\ UNCHANGED <<cliVars, dCtx, srvNet, srvSent>>

\* The remote's ErrorEvent while connecting (refused, unreachable).
ConnectError ==
    /\ IOReady /\ remoteH = "connecting" /\ srvState = "idle"
    /\ panic
    /\ UNCHANGED <<cliVars, toClient, ctxVars, toRemote, srvVars>>

\* Variant of WriteEvent that leaves the first chunk in remoteBuf.
WriteEventKeepsBuffer ==
    /\ writePending
    /\ writePending' = FALSE
    /\ handler' = "sockStream"
    /\ UNCHANGED <<overrun, cliVars, toClient, conn, clientH, localBuf, remoteBuf, eCtx,
                   dCtx, remoteH, toRemote, srvVars>>

\* once<WriteEvent> of the first remote write: stream mode from now on.
WriteEvent ==
    /\ writePending
    /\ writePending' = FALSE
    /\ handler' = "sockStream"
    /\ remoteBuf' = Clear(remoteBuf)
    /\ UNCHANGED <<overrun, cliVars, toClient, conn, clientH, localBuf, eCtx, dCtx,
                   remoteH, toRemote, srvVars>>

\* sockStream: client -> remote, encrypted and written whole.
SockStream ==
    /\ ClientReadable /\ handler = "sockStream"
    /\ cliNet' = Tail(cliNet)
    /\ \E r \in EncryptResults(eCtx, CopyEvent(remoteBuf, Ev)) :
         /\ eCtx' = r.ctx
         /\ IF r.err /= "ok"
            THEN /\ remoteBuf' = r.buf
                 /\ panic
                 /\ UNCHANGED toRemote
            ELSE /\ IF BufLen(r.buf) /= 0
                    THEN /\ toRemote' = toRemote \o r.buf.data
                         /\ remoteBuf' = Clear(r.buf)
                    ELSE /\ remoteBuf' = r.buf
                         /\ UNCHANGED toRemote
                 /\ UNCHANGED <<conn, handler, clientH, remoteH, writePending>>
    /\ UNCHANGED <<overrun, script, cliSent, cliState, toClient, localBuf, dCtx, srvVars>>

\* Variant of RemoteRecv that does not clear localBuf after the write.
RemoteRecvNoClear ==
    /\ IOReady /\ remoteH = "connected" /\ srvNet /= <<>>
    /\ srvNet' = Tail(srvNet)
    /\ \E r \in DecryptResults(dCtx, CopyEvent(localBuf, Head(srvNet))) :
         /\ dCtx' = r.ctx
         /\ localBuf' = r.buf
         /\ CASE r.err = "error" -> panic /\ UNCHANGED toClient
              [] r.err = "need_more" ->
                   UNCHANGED <<toClient, conn, handler, clientH, remoteH, writePending>>
              [] OTHER ->
                   /\ toClient' = toClient \o r.buf.data
                   /\ UNCHANGED <<conn, handler, clientH, remoteH, writePending>>
    /\ UNCHANGED <<overrun, cliVars, remoteBuf, eCtx, toRemote, srvSent, srvState>>

\* remoteRecv: remote -> client, decrypted into localBuf; need_more waits.
RemoteRecv ==
    /\ IOReady /\ remoteH = "connected" /\ srvNet /= <<>>
    /\ srvNet' = Tail(srvNet)
    /\ \E r \in DecryptResults(dCtx, CopyEvent(localBuf, Head(srvNet))) :
         /\ dCtx' = r.ctx
         /\ CASE r.err = "error" ->
                   /\ localBuf' = r.buf
                   /\ panic
                   /\ UNCHANGED toClient
              [] r.err = "need_more" ->
                   /\ localBuf' = r.buf
                   /\ UNCHANGED <<toClient, conn, handler, clientH, remoteH, writePending>>
              [] OTHER ->
                   /\ toClient' = toClient \o r.buf.data
                   /\ localBuf' = Clear(r.buf)
                   /\ UNCHANGED <<conn, handler, clientH, remoteH, writePending>>
    /\ UNCHANGED <<overrun, cliVars, remoteBuf, eCtx, toRemote, srvSent, srvState>>

\* The remote's EndEvent (server FIN after its data) or ErrorEvent.
RemoteEnd ==
    /\ IOReady /\ remoteH = "connected"
    /\ \/ srvState = "fin" /\ srvNet = <<>>
       \/ srvState = "rst"
    /\ panic
    /\ UNCHANGED <<cliVars, toClient, ctxVars, toRemote, srvVars>>

\* The client's ErrorEvent (connection reset): panic.
ClientError ==
    /\ IOReady /\ conn /= "none" /\ clientH = "open" /\ cliState = "rst"
    /\ panic
    /\ UNCHANGED <<cliVars, toClient, ctxVars, toRemote, srvVars>>

\* The client's CloseEvent: panic, which erases a context still present
\* (the relay closed the handle itself without tearing down).
ClientClosed ==
    /\ clientH = "closing"
    /\ IF conn = "open" THEN TearDown("closed")
       ELSE /\ clientH' = "closed"
            /\ UNCHANGED <<conn, handler, remoteH, writePending>>
    /\ UNCHANGED <<cliVars, toClient, ctxVars, toRemote, srvVars>>

\* The remote handle finishes closing; its listeners were cleared first.
RemoteClosed ==
    /\ remoteH = "closing"
    /\ remoteH' = "closed"
    /\ UNCHANGED <<cliVars, toClient, conn, handler, clientH, ctxVars,
                   writePending, toRemote, srvVars>>

-----------------------------------------------------------------------------
(* The peers. *)

\* The client sends its next k bytes as one segment, never past a point
\* where its script waits for reply bytes it has not yet received.
ClientSend ==
    /\ cliState = "active" /\ clientH = "open"
    /\ \E k \in 1..(Len(Bytes) - cliSent) :
         /\ \A p \in DOMAIN script.waits :
              cliSent + k > p => Len(toClient) >= script.waits[p]
         /\ cliNet' = Append(cliNet, SubSeq(Bytes, cliSent + 1, cliSent + k))
         /\ cliSent' = cliSent + k
    /\ UNCHANGED <<script, cliState, toClient, conn, handler, clientH, ctxVars,
                   remoteH, writePending, toRemote, srvVars>>

ClientFin ==
    /\ "fin" \in ClientCloses /\ cliState = "active"
    /\ cliState' = "fin"
    /\ UNCHANGED <<script, cliSent, cliNet, toClient, conn, handler, clientH,
                   ctxVars, remoteH, writePending, toRemote, srvVars>>

ClientRst ==
    /\ "rst" \in ClientCloses /\ cliState \in {"active", "fin"}
    /\ cliState' = "rst" /\ cliNet' = <<>>
    /\ UNCHANGED <<script, cliSent, toClient, conn, handler, clientH,
                   ctxVars, remoteH, writePending, toRemote, srvVars>>

\* The server answers once it has the address header.
ServerSend ==
    /\ srvState = "up" /\ Len(toRemote) > IVLen
    /\ \E k \in 1..(Len(SrvWire) - srvSent) :
         /\ srvNet' = Append(srvNet, SubSeq(SrvWire, srvSent + 1, srvSent + k))
         /\ srvSent' = srvSent + k
    /\ UNCHANGED <<cliVars, toClient, conn, handler, clientH, ctxVars, remoteH,
                   writePending, toRemote, srvState>>

ServerClose ==
    /\ srvState = "up"
    /\ \/ "fin" \in ServerCloses /\ srvState' = "fin" /\ UNCHANGED srvNet
       \/ "rst" \in ServerCloses /\ srvState' = "rst" /\ srvNet' = <<>>
    /\ UNCHANGED <<cliVars, toClient, conn, handler, clientH, ctxVars, remoteH,
                   writePending, toRemote, srvSent>>

-----------------------------------------------------------------------------
RelayNext ==
    \/ Accept \/ HandShakeReceive \/ HandShakeSendCallBack \/ ReadAllAddress
    \/ DropUnhandled \/ ConnectEvent \/ ConnectError \/ WriteEvent
    \/ SockStream \/ RemoteRecv \/ RemoteEnd \/ ClientError
    \/ ClientClosed \/ RemoteClosed

EnvNext == ClientSend \/ ClientFin \/ ClientRst \/ ServerSend \/ ServerClose

Next == RelayNext \/ EnvNext

\* The loop runs every callback whose event is ready; the peers owe nothing.
Fairness ==
    /\ WF_vars(Accept) /\ WF_vars(HandShakeReceive)
    /\ WF_vars(HandShakeSendCallBack) /\ WF_vars(ReadAllAddress)
    /\ WF_vars(DropUnhandled) /\ WF_vars(ConnectEvent \/ ConnectError)
    /\ WF_vars(WriteEvent) /\ WF_vars(SockStream) /\ WF_vars(RemoteRecv)
    /\ WF_vars(RemoteEnd) /\ WF_vars(ClientError)
    /\ WF_vars(ClientClosed) /\ WF_vars(RemoteClosed)

Spec == Init /\ [][Next]_vars /\ Fairness

-----------------------------------------------------------------------------
(* Properties. *)

\* What the client should see: the method reply, then for CONNECT the
\* fixed success reply and the server's plaintext, for UDP ASSOCIATE the
\* bound-address reply.
ExpectedToClient ==
    MethodReply \o (CASE Cmd = 1 -> ConnectReply \o ServerData
                      [] Cmd = 3 -> UdpAssocReply
                      [] OTHER   -> <<>>)

\* The Shadowsocks stream the server should receive: one IV, then the
\* encrypted ATYP ADDR PORT DATA the client sent after VER CMD RSV.
ExpectedToRemote == IV \o EncSeq(ClientPayload)

\* Client -> server integrity across handShakeSendCallBack, readAllAddress,
\* the ConnectEvent hand-over of localBuf and sockStream, for every way
\* the client's bytes are cut into reads: the server has received a prefix
\* of the expected stream, with nothing lost, repeated or reordered.
RemoteStreamIntegrity == IsPrefix(toRemote, ExpectedToRemote)

\* Server -> client integrity across the replies of handShakeReceive,
\* handShakeSendCallBack / udpAsscResponse and ConnectEvent and the
\* decryption in remoteRecv: the client has received a prefix of what it
\* should see, so the relay never answers a command the client did not
\* send, and server bytes come after the reply, in order, once each.
ClientStreamIntegrity == IsPrefix(toClient, ExpectedToClient)

\* The relay implements the connection's promise (StreamRelay): accepting
\* opens it, every callback either relays bytes that extend each direction
\* within its expected stream or changes nothing a peer sees, and after
\* panic / ~ConnectionContext nothing more reaches either peer (the
\* destructor's clear() and close() silence the remote's DataEvent).
Abstract == INSTANCE StreamRelay WITH
    phase    <- CASE conn = "none" -> "idle"
                  [] conn = "open" -> "open"
                  [] OTHER         -> "closed",
    up       <- toRemote,
    down     <- toClient,
    upWant   <- ExpectedToRemote,
    downWant <- ExpectedToClient
ImplementsStreamRelay == Abstract!Spec

\* spec.md 3: length <= capacity always.  No buffer operation of the
\* connection (readAllAddress's appends, ConnectEvent's copy of localBuf
\* into the fresh remoteBuf) has written past its allocation.
BuffersWithinCapacity ==
    ~Overflowed(localBuf) /\ ~Overflowed(remoteBuf) /\ ~overrun

\* The client's request VER CMD RSV ATYP ADDR PORT ends at RequestEnd of
\* its script (when its address parses at all), and the relay's answer to
\* it is the method reply followed by the command's reply.
RequestParses == HasRequest /\ AddressComplete(ClientPayload)
RequestEnd ==
    Min({k \in (GreetLen + 4)..Len(Bytes) :
            AddressComplete(SubSeq(Bytes, GreetLen + 4, k))})
Answer ==
    MethodReply \o (CASE Cmd = 1 -> ConnectReply
                      [] Cmd = 3 -> UdpAssocReply
                      [] OTHER   -> <<>>)

\* Every request is answered, whatever the server does: once a client
\* that waits for the method reply has sent a whole request, cut into
\* reads anywhere, the relay has sent it the reply for its command (after
\* the remote connect, for CONNECT) or has closed the client handle.
\* handShakeSendCallBack and readAllAddress must re-register their
\* once<DataEvent> listener after every partial read for this to hold.
RequestAnswered ==
    (RequestParses /\ cliSent >= RequestEnd)
        ~> (IsPrefix(Answer, toClient) \/ clientH /= "open")

\* Progress of a CONNECT: once the client has sent its whole script and the
\* server its whole answer, the relay delivers both streams in full, or
\* the connection is torn down.
Delivered == toRemote = ExpectedToRemote /\ toClient = ExpectedToClient
RelayCompletes ==
    (Cmd = 1 /\ cliSent = Len(Bytes) /\ srvSent = Len(SrvWire))
        ~> (Delivered \/ conn = "gone")

\* A request whose address type is none of IPv4, domain or IPv6.
Malformed == HasRequest /\ ClientPayload[1] \notin {1, 3, 4}

\* A malformed request is refused (spec.md 4.3 step 6 and section 7: a
\* parse failure tears the connection down): once the client has sent
\* it whole, the relay closes the client handle.  readAllAddress cannot
\* tell an address that is not yet whole from one that never parses.
MalformedRequestClosed ==
    (Malformed /\ cliSent = Len(Bytes)) ~> (clientH /= "open")

\* A connection whose client has closed is eventually torn down
\* (spec.md 4.3: peer-initiated close/end triggers teardown).
ClientCloseTearsDown == (cliState /= "active") ~> (conn = "gone")

=============================================================================
