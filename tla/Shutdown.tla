------------------------------ MODULE Shutdown ------------------------------
(***************************************************************************)
(* Start-up and shutdown of one relay instance, driven by one of its two  *)
(* fronts: SSThread::run calling TCPRelayImpl::loopMain on its own thread *)
(* with SSThread::stop called from the host thread, or ss_local's main()  *)
(* calling it through start_ssr_uv_local_server with SIGINT's handler     *)
(* calling stop_ssr_uv_local_server; the stop timer that tears the loop   *)
(* down, and the obfuscation plugin process (src/src/local_uv.cpp,        *)
(* src/src/SSThread.cpp, src/src/ss_local.cpp).                            *)
(*                                                                         *)
(* Two threads share only isStop (for main(), the signal handler and the *)
(* loop share it on one thread).  The loop thread runs loopMain's steps  *)
(* in order and, once the loop runs, its callbacks atomically.  Loop      *)
(* handles are the stop timer, the listening socket, the UDP relay's      *)
(* socket, the plugin's process handle and the client connections (a      *)
(* connection's client and remote handles close together, in the         *)
(* ConnectionContext destructor).  A handle is "none" (not created),      *)
(* "active", "closing" (uv_close called) or "closed".                      *)
(***************************************************************************)
EXTENDS Naturals, FiniteSets

CONSTANTS
    Conns,              \* client connections that may be accepted
    UDPMode,            \* profile.mode = 1: UDP relay enabled
    Plugin,             \* profile.plugin set
    StartupFailures,    \* start-up steps after the flag reset may fail
    EarlyStop,          \* the host may call stop() before loopMain starts
    PluginExitsOnTerm,  \* the plugin exits when sent SIGTERM
    Fronts,             \* the fronts that may drive the relay: "SSThread", "main"
    QtBuild             \* built with SSR_UVW_WITH_QT

\* SSThread is a QThread: that front exists only in the Qt build.
ASSUME "SSThread" \in Fronts => QtBuild

Timer == "stopTimer"
Server == "tcpServer"
Udp == "udpServer"
Proc == "pluginProcess"
Stats == "statisticsUpdateTimer"
Handles == {Timer, Server, Udp, Proc, Stats} \cup Conns

VARIABLES
    isStop,     \* TCPRelayImpl::isStop
    thread,     \* loop thread: "notStarted", "started", "prepare", "plugin",
                \* "sockets", "running", "finished"
    host,       \* SSThread: host thread in SSThread::stop: "idle", "waiting",
                \* "returned".  main: "idle" (running), "waiting" (the user
                \* has pressed Ctrl-C), "returned", "killed" (SIGINT's
                \* default action ended the process)
    h,          \* handle -> "none", "active", "closing", "closed"
    plugin,     \* plugin process: "none", "alive", "termSent", "exited"
    front,      \* the front driving this run of the relay
    handler,    \* SIGINT disposition in main: "default" or "sigintHandler"
    listening   \* tcpServer's bind and listen succeeded

vars == <<isStop, thread, host, h, plugin, front, handler, listening>>

Init ==
    /\ isStop = FALSE
    /\ thread = "notStarted"
    /\ host = "idle"
    /\ h = [x \in Handles |-> "none"]
    /\ plugin = "none"
    /\ front \in Fronts
    /\ handler = "default"
    /\ listening = FALSE

\* QThread::isRunning: from start() until run() has returned.
IsRunning == thread \notin {"notStarted", "finished"}

Running == thread = "running"

\* The handles uv_walk counts in a handle map: those not closing.
NotClosing(hs) == {x \in Handles : hs[x] = "active"}

-----------------------------------------------------------------------------
(* The loop thread: SSThread::run -> loopMain. *)

\* QThread::start from the host.
Start ==
    /\ front = "SSThread"
    /\ thread = "notStarted"
    /\ thread' = "started"
    /\ UNCHANGED <<isStop, host, h, plugin, front, handler, listening>>

\* loopMain line 405: isStop = false.
ResetFlag ==
    /\ thread = "started"
    /\ isStop' = FALSE
    /\ thread' = "prepare"
    /\ UNCHANGED <<host, h, plugin, front, handler, listening>>

\* Early return of loopMain: the thread ends, the loop never runs.
Abort == thread' = "finished"

\* In the Qt build: the statistics timer, started to fire every second.
StatsTimer == IF QtBuild THEN "active" ELSE "none"

\* Loop, stop timer, cipher (may fail: return -1), the statistics timer,
\* the stop timer started.
Prepare ==
    /\ thread = "prepare"
    /\ \/ /\ h' = [h EXCEPT ![Timer] = "active", ![Stats] = StatsTimer]
          /\ thread' = IF Plugin THEN "plugin" ELSE "sockets"
       \/ StartupFailures /\ Abort /\ UNCHANGED h
    /\ UNCHANGED <<isStop, host, plugin, front, handler, listening>>

\* getLocalPort: bind a temporary socket to port 0, read back the port the
\* OS chose and close it.  A failed bind reads back 0.  (1 stands for any
\* port the OS may choose.)
GetLocalPort == IF StartupFailures THEN {0, 1} ELSE {1}

\* startPlugin: take a port with getLocalPort, then spawn the plugin.  A
\* spawn error is published at once and its listener closes the handle;
\* loopMain then returns -1, as it does for a plugin port of 0, with the
\* plugin spawned.
StartPlugin ==
    /\ thread = "plugin"
    /\ \E pluginPort \in GetLocalPort :
         \/ /\ h' = [h EXCEPT ![Proc] = "active"]
            /\ plugin' = "alive"
            /\ IF pluginPort = 0 THEN Abort ELSE thread' = "sockets"
         \/ /\ StartupFailures
            /\ h' = [h EXCEPT ![Proc] = "closing"]
            /\ Abort /\ UNCHANGED plugin
    /\ UNCHANGED <<isStop, host, front, handler, listening>>

\* initUDPRelay in mode 1: udpServer is created (UDPRelay.cpp line 64),
\* then the local address is resolved; a failed resolve returns -1 and
\* leaves the socket open.
InitUDPRelay(hs) == IF UDPMode THEN [hs EXCEPT ![Udp] = "active"] ELSE hs

\* listen(): tcpServer is created before its local address is resolved,
\* and a failed resolve returns -1 leaving it open.  A bind or listen that
\* fails (address in use, which libuv reports from uv_listen) is published
\* by uvw as an ErrorEvent with no listener; listen() returns 0 and the
\* loop runs with a server that accepts nothing.
Listen(hs) == [hs EXCEPT ![Server] = "active"]

\* Variant of OpenSockets that clears isStop just before loop->run(), as
\* if loopMain's isStop = false had been moved down to there.
OpenSocketsResetsFlag ==
    /\ thread = "sockets"
    /\ LET opened == Listen(InitUDPRelay(h))
       IN  \/ /\ h' = opened
              /\ thread' = "running"
              /\ listening' = TRUE \/ (StartupFailures /\ listening' = FALSE)
              /\ isStop' = FALSE
           \/ /\ StartupFailures /\ Abort
              /\ h' \in {h, InitUDPRelay(h), opened}
              /\ UNCHANGED <<listening, isStop>>
    /\ UNCHANGED <<host, plugin, front, handler>>

\* Resolve the remote (or the plugin's local port); in mode 1 create the
\* UDPRelay, resolve the real remote and initUDPRelay; listen(); then
\* loop->run().  Each resolve may fail and return -1, leaving open the
\* sockets already created.
OpenSockets ==
    /\ thread = "sockets"
    /\ LET opened == Listen(InitUDPRelay(h))
       IN  \/ /\ h' = opened
              /\ thread' = "running"
              /\ listening' = TRUE \/ (StartupFailures /\ listening' = FALSE)
           \/ /\ StartupFailures /\ Abort
              /\ h' \in {h, InitUDPRelay(h), opened}
              /\ UNCHANGED listening
    /\ UNCHANGED <<isStop, host, plugin, front, handler>>

-----------------------------------------------------------------------------
(* Loop callbacks, once loop->run() has started. *)

\* udpRelay.reset(nullptr) in mode 1: ~UDPRelay clears the session cache
\* (each session closes its socket and timer, handles of their own that
\* are closed at once) and clears and closes udpServer.
UDPRelayClosed == IF UDPMode THEN {Udp} ELSE {}

\* The first tick that sees isStop: in the Qt build the statistics timer's
\* stop() and close(), tcpServer->close(),
\* inComingConnections.clear() (each destructor closes its handles),
\* udpRelay.reset() in mode 1, pluginProcess->kill(SIGTERM).
StopHandles(hs) ==
    [x \in Handles |->
        IF x \in {Server, Stats} \cup UDPRelayClosed \/ (x \in Conns /\ hs[x] = "active")
        THEN IF hs[x] = "active" THEN "closing" ELSE hs[x]
        ELSE hs[x]]

\* Variant of Tick that waits for zero handles, counting itself out.
TickCountsZero ==
    /\ Running /\ h[Timer] = "active" /\ isStop
    /\ LET first == h[Server] = "active"
           hs    == IF first THEN StopHandles(h) ELSE h
           pl    == IF first /\ plugin = "alive" THEN "termSent" ELSE plugin
       IN  /\ plugin' = pl
           /\ IF Cardinality(NotClosing(hs)) = 0
              THEN /\ h' = [hs EXCEPT ![Timer] = "closing"]
                   /\ thread' = "finished"
              ELSE /\ h' = hs
                   /\ UNCHANGED thread
    /\ UNCHANGED <<isStop, host, front, handler, listening>>

\* Variant of Tick that closes the process handle instead of killing the
\* plugin.
TickClosesProcess ==
    /\ Running /\ h[Timer] = "active" /\ isStop
    /\ LET first == h[Server] = "active"
           hs    == IF first THEN [StopHandles(h) EXCEPT ![Proc] =
                                     IF @ = "active" THEN "closing" ELSE @]
                    ELSE h
       IN  /\ UNCHANGED plugin
           /\ IF Cardinality(NotClosing(hs)) = 1
              THEN /\ h' = [hs EXCEPT ![Timer] = "closing"]
                   /\ thread' = "finished"
              ELSE /\ h' = hs
                   /\ UNCHANGED thread
    /\ UNCHANGED <<isStop, host, front, handler, listening>>

\* The stop timer's TimerEvent (every 500 ms) once isStop is set.  After
\* the teardown it counts the handles uv_walk finds not closing and stops
\* the loop only when the timer itself is the last one.
Tick ==
    /\ Running /\ h[Timer] = "active" /\ isStop
    /\ LET first == h[Server] = "active"
           hs    == IF first THEN StopHandles(h) ELSE h
           pl    == IF first /\ plugin = "alive" THEN "termSent" ELSE plugin
       IN  /\ plugin' = pl
           /\ IF Cardinality(NotClosing(hs)) = 1
              THEN /\ h' = [hs EXCEPT ![Timer] = "closing"]
                   /\ thread' = "finished"
              ELSE /\ h' = hs
                   /\ UNCHANGED thread
    /\ UNCHANGED <<isStop, host, front, handler, listening>>

\* The ListenEvent handler accepts a client connection.
Accept(c) ==
    /\ Running /\ h[Server] = "active" /\ listening /\ h[c] = "none"
    /\ h' = [h EXCEPT ![c] = "active"]
    /\ UNCHANGED <<isStop, thread, host, plugin, front, handler, listening>>

\* A connection tears itself down (panic on close, end or error).
ConnPanic(c) ==
    /\ Running /\ h[c] = "active"
    /\ h' = [h EXCEPT ![c] = "closing"]
    /\ UNCHANGED <<isStop, thread, host, plugin, front, handler, listening>>

\* libuv completes a close in the loop's closing phase.
CloseDone(x) ==
    /\ Running /\ h[x] = "closing"
    /\ h' = [h EXCEPT ![x] = "closed"]
    /\ UNCHANGED <<isStop, thread, host, plugin, front, handler, listening>>

\* The plugin process ends, on SIGTERM or by itself.
PluginExit ==
    /\ plugin \in {"alive", "termSent"}
    /\ plugin' = "exited"
    /\ UNCHANGED <<isStop, thread, host, h, front, handler, listening>>

\* The process handle's ExitEvent: h.close().
ExitEvent ==
    /\ Running /\ plugin = "exited" /\ h[Proc] = "active"
    /\ h' = [h EXCEPT ![Proc] = "closing"]
    /\ UNCHANGED <<isStop, thread, host, plugin, front, handler, listening>>

-----------------------------------------------------------------------------
(* The host thread: SSThread::stop (also run by ~SSThread). *)

\* if (isRunning()) { tcpRelay->stop(); wait(); }
HostStop ==
    /\ front = "SSThread"
    /\ host = "idle"
    /\ EarlyStop \/ thread \notin {"started"}
    /\ IF IsRunning
       THEN isStop' = TRUE /\ host' = "waiting"
       ELSE host' = "returned" /\ UNCHANGED isStop
    /\ UNCHANGED <<thread, h, plugin, front, handler, listening>>

\* QThread::wait returns once run() has returned.
HostReturn ==
    /\ front = "SSThread"
    /\ host = "waiting" /\ thread = "finished"
    /\ host' = "returned"
    /\ UNCHANGED <<isStop, thread, h, plugin, front, handler, listening>>

-----------------------------------------------------------------------------
(* The main() front of ss_local.cpp and its SIGINT handler. *)

\* main: signal(SIGINT, sigintHandler), then start_ssr_uv_local_server(p),
\* which runs loopMain of the default instance on main's own thread.
MainStart ==
    /\ front = "main" /\ thread = "notStarted"
    /\ handler' = "sigintHandler"
    /\ thread' = "started"
    /\ UNCHANGED <<isStop, host, h, plugin, front, listening>>

\* The user presses Ctrl-C.  From then on SIGINT may arrive again until
\* the program has ended.
Interrupt ==
    /\ front = "main" /\ host = "idle"
    /\ host' = "waiting"
    /\ UNCHANGED <<isStop, thread, h, plugin, front, handler, listening>>

\* stop_ssr_uv_local_server: getDefaultInstance().stop(), isStop = true.
StopDefaultInstance == isStop' = TRUE

\* stop_ssr_uv_local_server: stopDefaultInstance(), then return 0.
stop_ssr_uv_local_server == StopDefaultInstance

\* Variant of Sigint whose handler does not re-install itself: under
\* System V signal() semantics the disposition is back to the default
\* once the handler has run.
SigintNoRearm ==
    /\ front = "main" /\ host = "waiting"
    /\ \/ /\ handler = "default"
          /\ host' = "killed"
          /\ UNCHANGED <<isStop, handler>>
       \/ /\ handler = "sigintHandler" /\ ~isStop
          /\ stop_ssr_uv_local_server
          /\ handler' = "default"
          /\ UNCHANGED host
    /\ UNCHANGED <<thread, h, plugin, front, listening>>

\* A SIGINT is delivered.  Under the default disposition it ends the
\* process at once.  sigintHandler re-installs itself (signal(SIGINT,
\* sigintHandler)) and calls stop_ssr_uv_local_server.  A SIGINT while
\* isStop is already set changes nothing.
Sigint ==
    /\ front = "main" /\ host = "waiting"
    /\ \/ /\ handler = "default"
          /\ host' = "killed"
          /\ UNCHANGED <<isStop, handler>>
       \/ /\ handler = "sigintHandler" /\ ~isStop
          /\ stop_ssr_uv_local_server
          /\ UNCHANGED <<host, handler>>
    /\ UNCHANGED <<thread, h, plugin, front, listening>>

\* start_ssr_uv_local_server returns loopMain's result and main returns.
MainReturn ==
    /\ front = "main" /\ thread = "finished" /\ host \in {"idle", "waiting"}
    /\ host' = "returned"
    /\ UNCHANGED <<isStop, thread, h, plugin, front, handler, listening>>

Next ==
    \/ Start \/ ResetFlag \/ Prepare \/ StartPlugin \/ OpenSockets
    \/ Tick
    \/ \E c \in Conns : Accept(c) \/ ConnPanic(c)
    \/ \E x \in Handles : CloseDone(x)
    \/ PluginExit \/ ExitEvent
    \/ HostStop \/ HostReturn
    \/ MainStart \/ Interrupt \/ Sigint \/ MainReturn

\* The loop thread is scheduled, the periodic timer fires and closes
\* complete; a plugin that honours SIGTERM exits once sent it; a waiting
\* host wakes; main goes on to start the loop and returns when it has
\* ended.  Nothing obliges the host to call stop() or the user to press
\* Ctrl-C; a user who has pressed it presses it again until the program
\* ends (weak fairness of Sigint: it is only enabled, and only changes
\* anything, while isStop is clear).
Fairness ==
    /\ WF_vars(ResetFlag) /\ WF_vars(Prepare) /\ WF_vars(StartPlugin)
    /\ WF_vars(OpenSockets) /\ WF_vars(Tick) /\ WF_vars(ExitEvent)
    /\ \A x \in Handles : WF_vars(CloseDone(x))
    /\ WF_vars(HostReturn)
    /\ WF_vars(MainStart) /\ WF_vars(Sigint) /\ WF_vars(MainReturn)
    /\ PluginExitsOnTerm => WF_vars(plugin = "termSent" /\ PluginExit)

Spec == Init /\ [][Next]_vars /\ Fairness

-----------------------------------------------------------------------------
(* Properties. *)

\* Asking the relay to stop ends it: once the SSThread host waits in
\* SSThread::stop, or the user of main() has pressed Ctrl-C, the stop flag
\* is seen, the stop timer tears everything down and the host returns,
\* however the request interleaves with loopMain's start-up and its
\* isStop = false.  SIGINT's default action may end main only before the
\* relay has started; afterwards every SIGINT goes through the handler.
StopReturns ==
    host = "waiting" ~>
        (host = "returned" \/ (host = "killed" /\ thread = "notStarted"))

\* The stop timer has ended the loop (it closed itself and stopped it).
StoppedByTimer == thread = "finished" /\ h[Timer] = "closing"

\* When the stop timer has ended the loop, the plugin it spawned has been
\* sent SIGTERM and has exited: closing the process handle alone would
\* let the loop stop with the plugin still running.
StopReapsPlugin == StoppedByTimer => plugin \in {"none", "exited"}

\* However loopMain ends, by the stop timer or by an early return after a
\* failed start-up step, the plugin process it spawned is not left running.
PluginReaped == thread = "finished" => plugin \in {"none", "exited"}

\* The relay keeps the promise of RelayService.  Its phase follows the
\* loop thread and the listening socket; a stop request counts from
\* loopMain's isStop = false on, and from then on isStop is never cleared
\* before the loop has ended; the connections served are the active
\* client handles.  So the loop ends only on a stop request or a failed
\* start-up step, accepts nothing once the stop timer has closed the
\* server, and closes every connection before it ends.
Service == INSTANCE RelayService WITH
    svc     <- CASE thread = "notStarted"               -> "idle"
                 [] thread = "finished"                 -> "ended"
                 [] thread = "running" /\ h[Server] = "active" -> "serving"
                 [] thread = "running"                  -> "draining"
                 [] OTHER                               -> "starting",
    stopReq <- isStop /\ thread \notin {"notStarted", "started"},
    open    <- {c \in Conns : h[c] = "active"}
ImplementsRelayService == Service!Spec

=============================================================================
