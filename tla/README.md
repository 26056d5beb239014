# TLA+ models of shadowsocks-uvw

These modules model the local SOCKS5-to-Shadowsocks relay in `src/src/`
and check it with TLC. The relay is one libuv event loop driven through
uvw. Every callback runs to completion before the next one starts, so each
callback is one atomic action of a module. Concurrency comes from the order
in which the loop delivers events: client reads, remote connects and reads,
write completions, closes, errors and timer expiries, and the peers'
segmenting, losing and reordering of data.

## The system

| Part | Source | State | Operations |
|------|--------|-------|------------|
| Buffer | `Buffer.cpp` | `buffer_t` data, len, capacity | newBuf, copy (event / raw / Buffer), bufRealloc, drop, clear, setLength, copyFromBegin, ssEncrypt/ssDecrypt(All) |
| Cipher interface | `CipherEnv.cpp`, `Buffer.cpp` | per-direction cipher contexts (IV sent / IV received) | encrypt, decrypt (ok / need_more / error), encrypt_all, decrypt_all |
| ConnectionContext | `ConnectionContext.cpp` | client and remote handles, localBuf, remoteBuf, e_ctx, d_ctx | constructor, construct_cipher, setRemoteTcpHandle, destructor (clears and closes both handles) |
| TCP relay | `local_uv.cpp` (TCPRelayImpl) | inComingConnections; per connection, the DataEvent listener on the client | listen's accept handler, handShakeReceive, handShakeSendCallBack, readAllAddress, udpAsscResponse, startConnect / connectRemote (ConnectEvent, WriteEvent), sockStream, remoteRecv, panic, close / end / error listeners |
| UDP relay | `UDPRelay.cpp` | socketCache (source -> session: socket, timer, remoteBuf) | serverRecv, remoteRecv, panic, parseUDPRelayHeader, the session timer |
| Lifecycle | `local_uv.cpp` loopMain, `SSThread.cpp` | isStop, stop timer, loop handles, plugin process | loopMain, stop, stop timer tick, SSThread::run / stop |
| Command line | `ss_local.cpp` main | profile_t, opterr | getopt_long loop, port check, exit, start_ssr_uv_local_server |
| Qt logging | `qt_ui_log.cpp` | none | log forwarding |

How the parts interact:

- The TCP relay owns one ConnectionContext per accepted client. A context's
  buffers move bytes between the client and the remote through the cipher
  interface.
- The handshake is a chain of `once<DataEvent>` listeners on the client
  handle: handShakeReceive, then handShakeSendCallBack, then
  readAllAddress.
- Once the address parses, startConnect opens the remote. ConnectEvent
  writes the fake SOCKS5 reply and the first encrypted chunk.
- Only the WriteEvent of that first write installs the `on<DataEvent>`
  stream listener (sockStream) on the client.
- The UDP relay shares the loop and the cipher but no other state.
- loopMain creates everything. Its stop timer tears everything down once
  another thread sets isStop.

What is hard:

- the listener chain under arbitrary TCP segmentation;
- the window in which the client has no listener at all;
- buffer growth rules that do not check capacity;
- teardown racing pending callbacks;
- UDP sessions racing their timers and late replies;
- the cross-thread stop flag.

## Modules

- **`Buffer`**: a buffer is the record `[data, cap]`. Every Buffer method
  that changes state is an operator. The unchecked `memcpy`s keep every
  byte they write, so a write past the allocation shows up as
  `Len(data) > cap` (`Overflowed`). `At` is operator[], which reads modulo the
  capacity; handShakeSendCallBack uses it for the command byte.
- **`Crypto`** (extends Buffer): the cipher calls.
  - The algorithms are outside `src/` and follow spec.md 6. The first
    encrypt of a context prepends `IVLen` IV bytes, and every byte maps by a
    fixed keystream (`x + 100`).
  - Decrypt answers `need_more` and consumes the input until it has the
    whole IV.
  - Either call may fail when `CryptoErrors` is set.
  - Output grows the buffer by crypto's `brealloc` rule.
  - Results are sets of `[buf, ctx, err]`, and an action picks one of them.
- **`TCPRelay`** (extends Crypto): one client connection against two
  environment actors.
  - **Client:** plays a script of bytes and cuts it into segments at any
    points. It waits where the script says it needs reply bytes first. It
    may FIN or RST.
  - **Server:** accepts or refuses the connect, sends its IV and data in
    any segments, and may FIN or RST.
  - The variables mirror the code:
    - `conn` is the context's membership in inComingConnections.
    - `handler` is the DataEvent listener currently registered on the
      client handle.
    - `clientH` and `remoteH` are the handle states.
    - `localBuf`, `remoteBuf`, `eCtx` and `dCtx` are the context's fields.
    - `writePending` is the pending WriteEvent of the first remote write.
  - Each callback is one action: `Accept`, `HandShakeReceive`,
    `HandShakeSendCallBack`, `ReadAllAddress`, `ConnectEvent`,
    `ConnectError`, `WriteEvent`, `SockStream`, `RemoteRecv`, `RemoteEnd`,
    `ClientError`, `ClientClosed` and `RemoteClosed`.
  - A read with no listener is `DropUnhandled`. uvw publishes it to nobody.
  - `TearDown` is panic together with the context's destructor: it erases
    the context, clears all listeners and closes both handles.
  - libuv runs the completion of a write that finished at once in the next
    iteration's pending phase, before polling. `IOReady` encodes this: no
    I/O callback runs while that WriteEvent is due.
  - SOCKS5 addresses are scaled down: IPv4 is 1 byte, IPv6 2 and the port 1.
    `AddressComplete` stands for socks5_address_parse (outside `src/`).
- **`UDPRelay`** (extends Crypto): the UDP relay.
  - There are several client source addresses and a session cache.
  - Sockets are numbered in creation order. `socks[i]` records the owner of
    socket `i` and whether it is open.
  - The server answers on the socket a datagram came from.
  - Datagrams in flight are sets, which UDP may lose (`Lose`) or reorder.
  - `ServerRecv` is the udpServer handler with serverRecv, and
    `RemoteRecv` is a session socket's handler.
  - `TimerFire` is the session timer. Each session records `left`, the
    ticks before its timer is due. initTimer on creation and
    resetTimeoutTimer on every later datagram (line 180) and every relayed
    reply (line 219) set it to `Timeout`. `Tick` is time passing while the
    loop polls: it lowers every session's `left`, and it is not enabled
    while a timer is due, because uv_run polls no longer than the nearest
    timer. A due timer may still be reset by an I/O callback of the same
    poll.
  - `quiet` is a history variable: the ticks since a datagram from or to
    each source last passed the relay, saturating at `Timeout`.
  - UDPConnectionContext is outside `src/`. Its destruction on erase
    closes the socket and the timer, as spec.md 4.4 says of eviction.
  - `overflowed` records a localBuf write past the allocation. localBuf is
    reset at the end of the same callback, so the write is otherwise
    invisible between steps.
  - A datagram shorter than 3 bytes makes `data.length - 3` wrap in
    size_t. serverRecv then reads past the datagram: `OOBFill` chooses the
    bytes it finds there. The huge length passes the payload check
    (`Wraps`, `Accepted`), and copyFromBegin writes past localBuf.
- **`CLI`**: main() in `ss_local.cpp`. getopt_long is the collaborator,
  so `argv` is the sequence of `[c, arg]` pairs it returns. Numeric
  arguments are the integers atoi makes of them.
  - `GetOpt` is one iteration of the switch. `OptField` names the profile
    field each option sets, and `Converted` gives the value it stores.
    `-t`'s `atoi * 1000` is 32-bit int arithmetic (`MulWrap`). Help exits
    with success. `'?'` sets opterr. Options of the optstring that have
    no case (i, L, A) are ignored.
  - `OptionsDone` is getopt_long returning -1.
  - `Check` applies the port check, then either exits with failure or
    installs the handler and calls start_ssr_uv_local_server (`started`).
- **`Shutdown`**: start-up and shutdown of one relay instance, across the
  two threads that share `isStop`, driven by either front: the Qt
  SSThread (`front = "SSThread"`) or the console main() with its SIGINT
  handler (`front = "main"`).
  - `thread` is the loop thread's place in SSThread::run and loopMain:
    `Start` (QThread::start), `ResetFlag` (`isStop = false`, line 405),
    `Prepare` (loop, stop timer, cipher), `StartPlugin`, `OpenSockets`
    (resolve, initUDPRelay, listen), then `running`. Each step after the
    reset may return -1 early (`Abort`) when `StartupFailures` is set.
  - `StartPlugin` takes the port from `GetLocalPort`: getLocalPort's bind
    of port 0 may fail, and then it returns 0 and loopMain aborts after
    spawning the plugin. `OpenSockets` is `InitUDPRelay` (in UDP mode,
    udpServer becomes active) then `Listen` (tcpServer becomes active).
    uvw reports a failed bind or listen as an ErrorEvent, tcpServer has
    no ErrorEvent listener, and listen() still returns 0. So the loop can
    run with `listening` FALSE, and `Accept` never fires.
  - `h` maps each loop handle (stop timer, tcpServer, the UDP socket, the
    plugin's process handle, client connections) to `none`, `active`,
    `closing` (uv_close called) or `closed`. In a Qt build (`QtBuild`)
    Prepare also starts the statistics timer (`Stats`, local_uv.cpp:421),
    which the first stop tick closes with the server.
  - `Tick` is the stop timer's TimerEvent once `isStop` is set. The first
    tick closes the server, clears the connections, resets the UDP relay
    and sends SIGTERM to the plugin. Every tick counts the handles uv_walk
    finds not closing, and stops the loop only when the timer is the last.
    `UDPRelayClosed` is what resetting the UDP relay closes (~UDPRelay:
    the sessions and udpServer).
  - `plugin` is the external process. `PluginExit` is its exit, and
    `ExitEvent` is the process handle's listener closing the handle.
  - `host` is SSThread::stop on the caller's thread: `HostStop` sets
    `isStop` and waits when the thread is running, and `HostReturn` is
    wait() returning.
  - For the main front, `MainStart` installs the SIGINT handler and
    enters loopMain on the same thread; `Interrupt` is the user pressing
    Ctrl-C (`host = "waiting"`); `Sigint` is the signal's delivery: with
    the default disposition it kills the process (`killed`), with
    `sigintHandler` it calls `stop_ssr_uv_local_server`. The handler
    re-installs itself (ss_local.cpp:79), so `handler` stays armed.
    `MainReturn` is loopMain returning to main().
  - The unsynchronised `bool isStop` is treated as an atomic flag.
- **`StreamRelay`**: what one connection promises its peers, with no
  buffers, listeners or cipher. The connection is accepted (`Open`),
  relays bytes (`Relay`), and closes (`Close`). Closing may carry a last
  reply to the client. Each direction only grows and stays a prefix of
  the stream it should carry. TCPRelay instantiates it as `Abstract`
  with `phase` mapped from `conn`, `up` from `toRemote`, `down` from
  `toClient`, and the wanted streams from the client's script.
- **`RelayService`**: what one relay instance promises its host
  (spec.md 5 and 7), with no handles, threads or plugin. The relay is
  started (`Begin`), then either serves (`Serve`) or fails at start-up
  (`Fail`). A stop request (`RequestStop`) is never forgotten. Once
  stopped, the relay closes every connection and ends, at once
  (`Finish`) or after draining its other handles (`Drain`). Shutdown
  instantiates it as `Service`:
  - `svc` comes from `thread`: `serving` while the loop runs with
    tcpServer active, and `draining` once the first stop tick has closed
    it.
  - `stopReq` is `isStop` once loopMain has passed its flag reset.
  - `open` is the set of active connections.
- **`MC_TCPRelay`, `MC_UDPRelay`, `MC_Shutdown`, `MC_CLI`**: the scripts,
  packets, replies, connections and command lines the runs use.

Operators named `...KeepsBuffer`, `...NoClear`, `...NoStrip` and so on are
variants of the definition that follows them. Each has one plausible slip,
and each is used to show that a property detects that slip (see
`mutants` in PROJECT.json).

## Runs

| Run | Expect | Checks | Shows |
|-----|--------|--------|-------|
| `tcp_relay` (`MC_TCPRelay.cfg`) | pass | `TypeOK`, `RemoteStreamIntegrity`, `ClientStreamIntegrity`, `RelayCompletes`, `ImplementsStreamRelay`, `RequestAnswered` | See below. `RequestAnswered`: once a client has sent a parsable greeting and request, possibly split over several reads, the method reply and the command's reply are eventually sent, or the client is closed. It depends on handShakeSendCallBack re-registering its once<DataEvent> listener after a short read (local_uv.cpp:238). |
| `tcp_pipelined` | violation | `RemoteStreamIntegrity` | A client that sends data without waiting for the CONNECT reply loses it (local_uv.cpp:327). |
| `tcp_bad_atyp` | violation | `BuffersWithinCapacity` | Two ways to overrun a buffer. An unknown ATYP makes readAllAddress append until Buffer::copy writes past its reallocated buffer (Buffer.cpp:94). A client that sends 10 data bytes with its CONNECT request makes ConnectEvent copy localBuf into a fresh remoteBuf of the default capacity, with no size check (local_uv.cpp:319). |
| `tcp_client_fin` | violation | `ClientCloseTearsDown` | A client FIN is never acted on: there is no EndEvent listener on the client (local_uv.cpp:375). |
| `tcp_malformed` | violation | `MalformedRequestClosed` | A request with an unknown ATYP whose client then waits is never refused. readAllAddress keeps re-arming its listener while the address does not parse (local_uv.cpp:192), and the connection stays open, where spec.md 4.3 and 7 say it is closed. |
| `udp_relay` (`MC_UDPRelay.cfg`) | pass | `TypeOK`, `ForwardIntegrity`, `ResponseIntegrity`, `EvictsOnlyIdle` | See below. |
| `udp_overflow` | violation | `NoHeapOverflow` | Two ways to overrun localBuf in copyFromBegin. A datagram larger than the default capacity overruns it (UDPRelay.cpp:183). A 2-byte datagram wraps `data.length - 3`, so serverRecv reads past the datagram and then writes past localBuf (UDPRelay.cpp:130). |
| `shutdown` (`MC_Shutdown.cfg`) | pass | `StopReturns`, `ImplementsRelayService`, `StopReapsPlugin` | Under both fronts, with UDP, a plugin, the Qt statistics timer, connections coming and going, and every start-up step able to fail: a stop request (stop() after loopMain's flag reset, or Ctrl-C) ends with loopMain returning, or with the default SIGINT action killing a process that has not started the loop. The relay refines `RelayService`: a stop request, once loopMain has passed its reset, is never lost and is followed by draining and ending. When the stop timer stops the loop, the plugin has exited. A Ctrl-C swallowed by the flag reset is followed by another, which the re-armed handler catches. |
| `shutdown_earlystop` | violation | `StopReturns` | A stop() between QThread::start and `isStop = false` is lost, and stop() waits forever (local_uv.cpp:405). |
| `shutdown_orphan` | violation | `PluginReaped` | A start-up failure after the plugin is spawned returns from loopMain with the plugin still running (local_uv.cpp:470). |
| `cli_parse` (`MC_CLI.cfg`) | pass | `TypeOK` | Every command line of up to three options runs main()'s option loop and port check to an exit or to start_ssr_uv_local_server, with a well-formed profile. It is the passing run that fires every CLI action; `cli_range` is the run that says something about the profile. |
| `cli_range` | violation | `ProfileInRange` | main() starts the relay with a port outside 1..65535 (`-l 70000`) or with a timeout of 0 or wrapped negative by `-t`'s multiplication (ss_local.cpp:143, 149). |

What the `tcp_relay` run shows, over every segmentation of the client
scripts and every server behaviour:

- The bytes the server receives are always a prefix of one IV followed by
  the encrypted `ATYP ADDR PORT DATA`.
- The bytes the client receives are always a prefix of the method reply,
  the command's reply, and the server's plaintext.
- A CONNECT whose two peers have sent everything is delivered in full, or
  torn down.
- The relay refines `StreamRelay`: nothing reaches a peer before the
  accept or after the teardown, and neither direction ever shrinks.

What the `udp_relay` run shows:

- Every datagram is relayed exactly, in both directions, through the
  sender's own session.
- A session timer evicts a session only after a whole timeout in which
  no datagram from its source and no reply to it passed the relay. This
  needs both timer resets, as ticks interleave with datagrams, replies,
  loss and failures. Leaving out the reset for a cached session
  (`SessionForNoReset`) breaks it.

Findings from the violation runs:

- `tcp_pipelined`, `tcp_bad_atyp` (two bugs), `udp_overflow` (two
  bugs), `shutdown_earlystop`, `shutdown_orphan` and `cli_range` are code
  bugs. The two-bug runs give both inputs. TLC reports one trace; each
  input alone also violates the property.
- `tcp_client_fin` and `tcp_malformed` are divergences from spec.md.
- spec.md 4.4 says the UDP response header has ATYP = IPv4. serverRecv's
  reply path keeps the reply's own ATYP (UDPRelay.cpp:218). That is a
  single assignment, visible in the code, so no run checks it.
- Each finding is described in PROJECT.json `findings`.

## Bounds, and why they are enough

- **`DefaultCapacity = 12`** stands for BUF_DEFAULT_CAPACITY, which is
  defined in Buffer.hpp, outside the tree. Twelve exceeds the longest
  greeting, request and data a well-formed script sends (11 bytes), as
  the real default exceeds any well-formed SOCKS5 request. Normal requests therefore fit, and overflow needs the
  abnormal inputs the violation runs use.
- **`IVLen = 2`** is enough for the server's IV to be split across reads,
  which exercises `need_more`.
- **TCP scripts** (`MC_TCPRelay.tla`):
  - CONNECT with an IPv4 address and trailing data, and CONNECT with a
    domain address. With these, VER CMD RSV can be split at every offset
    that matters to `handShakeSendCallBack`: 0, 1 and 2 or more bytes
    already buffered.
  - UDP ASSOCIATE, BIND, a bad version, and an unknown ATYP with 9 junk
    bytes. The junk bytes let readAllAddress reallocate.
  - A server answer of two bytes, so data can follow an IV split across
    segments.
  - The pass run contains about 120,000 distinct states and finishes in
    about 20 s.
- **UDP** (`MC_UDPRelay.tla`):
  - Two sources, so one source's traffic, failures and timer interleave
    with another's.
  - Four client datagrams in total: well-formed, fragmented, malformed,
    and 2 bytes long (shorter than the header's first 3 bytes).
    `OOBBytes = {0, 1}` covers both outcomes of the wrapped-length read:
    a fragment byte that is 0, and one that is not.
  - Three server replies: valid and malformed.
  - At most three sessions. This lets a source have a session, lose it and
    create another, and lets two sources hold sessions at once.
  - `Timeout = 2`: a datagram can arrive when a session's timer is part
    way down, not only when it is fresh or due, so a missing reset shows.
  - The pass run contains about 529,000 distinct states and finishes in
    about 25 s.
- **TCP overrun** (`MC_TCPRelay_badatyp.cfg`): the unknown-ATYP script,
  and a CONNECT followed at once by 10 data bytes. The client may send it all before
  the connect completes, so localBuf holds more than the default capacity
  of remoteBuf.
- **CLI** (`MC_CLI.tla`): every sequence of up to three options drawn from
  `-p` and `-l` with 0, 1080 and 70000, `-t` with 0, 30 and 2147484 (just
  past the int limit after `* 1000`), `-s`, `-k` and `--password`, and
  `-u`, `-h`, `'?'` and the ignored `-i`. Three options are enough for an
  option to be overridden by a later one, and for help or `'?'` to come
  before or after the ports. About 24,000 distinct states.
- **Shutdown** (`MC_Shutdown.tla`): two connections, so a connection can
  be open, closing or closed when the stop lands; UDP mode and a plugin,
  so every kind of handle exists, including the Qt statistics timer; both
  fronts; `StartupFailures` on, so every early return (including
  getLocalPort's port 0 and a silent bind failure of tcpServer) meets
  every stop. About 1,900 distinct states.
- **Malformed request** (`MC_TCPRelay_malformed.cfg`): one script, a
  greeting and a request with ATYP 9, after which the client waits for a
  reply that never comes.
- **Deadlock checking is off** (`CHECK_DEADLOCK FALSE`) in every cfg. The
  peers' scripts and budgets are finite, so every behaviour ends with the
  relay idle, waiting on sockets. That is the program's normal resting
  state, not a deadlock. In Shutdown, a host that never calls stop()
  leaves the loop running forever, which is also normal.

## Fairness

- **Relay callbacks** have weak fairness. The loop runs every ready
  callback eventually: it polls all ready handles on every iteration, and
  no callback blocks.
- **ConnectEvent or ConnectError** have weak fairness. This stands for the
  OS eventually finishing or failing a connect.
- **The peers** have no fairness. A client or server may go silent, and
  the liveness properties are stated for behaviours in which they have
  finished.
- **The UDP session timer** has weak fairness. libuv fires a due timer.
  `Tick` has none: no property needs time to pass.
- **Shutdown**: the loop thread's start-up steps, the stop timer, handle
  close completions and the ExitEvent have weak fairness (the OS schedules
  the thread; libuv fires due timers and finishes closes in the next
  iteration). A waiting host wakes when the thread ends (`HostReturn`).
  The host is not obliged to call stop(). For the main front, `MainStart`,
  `Sigint` and `MainReturn` have weak fairness: a pending signal is
  delivered, and a user who has pressed Ctrl-C presses it again until the
  program ends (Sigint is enabled only while `isStop` is clear, so this
  is a retry, not a flood). The user is not obliged to press it at all.
  The plugin is assumed to exit
  once sent SIGTERM (`PluginExitsOnTerm`). A plugin that ignores SIGTERM
  keeps its process handle active and blocks shutdown; spec.md 5 accepts
  this dependence.
- **RelayService** asks weak fairness of start-up ending (`Serve` or
  `Fail`) and of a requested stop being carried out (`Drain` or
  `Finish`). Shutdown's fairness above implies both.

## What is not modelled, and why

- **The Qt traffic counters** (stat_update_cb): they feed only the UI.
  The statistics timer itself is a handle in Shutdown.
- **The data race on `isStop`**: modelled as an atomic flag. The ordering
  problem it hides, the lost stop, is checked.
- **More than one TCP connection at a time.** Connections share no state
  except the map, which is keyed by handle. The ConnectEvent and DataEvent
  listeners capture `ctx` by reference, and the model captures that through
  the destructor's `clear()`.
- **The cipher algorithms, address resolution, and the plugin process**:
  spec.md 1 puts them out of scope. The cipher is reduced to its interface.
- **Write queues and backpressure**: writes complete atomically.
- **UDP session isolation as a property**: panic erases by one key
  (UDPRelay.cpp:196), so a property that one source's failure leaves the
  others' sessions alone would restate that single assignment.
- **usage() and Qt logging**: they only print. They hold no relay state.
- **Async-signal-safety of the SIGINT handler**: it calls LOGI and
  fflush (ss_local.cpp:81), which are not async-signal-safe. The model
  treats signal delivery as one atomic step, so it cannot see a handler
  interrupting stdio. The handler's effect on `isStop` and its re-arming
  are modelled in Shutdown.
- **getopt_long, atoi and getLocalPort's port choice**: these are library
  or OS behaviour. A port another process takes between getLocalPort and
  the plugin's bind is outside the relay. getLocalPort's failure (port 0)
  is modelled.
- **A listen failure as a checked property**: Shutdown lets tcpServer's
  bind fail silently, and the shutdown run shows the relay still stops
  cleanly. That spec.md 7 wants start-up to abort instead is listed as a
  hazard (local_uv.cpp:396); the run cap leaves no slot for a violation
  run of it.
- **Profile contents in Shutdown**: SSThread::run hands loopMain a null
  `local_addr` when the host gives an empty one (SSThread.cpp:66), which
  startPlugin and udpAsscResponse dereference. This is a null pointer,
  not an interleaving, and is listed as a hazard (local_uv.cpp:136).

## Plan

1. Done:
   - Buffer, Crypto, TCPRelay, UDPRelay, Shutdown, and the StreamRelay
     refinement of TCPRelay.
   - The CLI front end, checked against a reference meaning.
   - History flags for the unchecked copies in ConnectEvent and in
     serverRecv's short-datagram path.
   - The console front and its SIGINT handler composed into Shutdown;
     the Qt statistics timer; the `RequestAnswered` liveness property.
   - The `MalformedRequestClosed` liveness check; the `RelayService`
     refinement of Shutdown; getLocalPort, initUDPRelay and listen with
     their failures; start-up failures merged into the shutdown run.
   - Four passing runs and eight violation runs.
2. Next:
   - Buffer operators checked against a reference definition over bounded
     inputs.
