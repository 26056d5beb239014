---------------------------- MODULE RelayService ----------------------------
(***************************************************************************)
(* What one relay instance promises its host (spec.md 5 and 7, "Process-  *)
(* level control surface"): start(profile) starts up, then serves until   *)
(* stopped; a start-up-fatal error ends it without serving; stop() only   *)
(* records a request, which is never forgotten; once stopped, the relay   *)
(* closes its listening socket and every connection and then ends.  No   *)
(* handles, threads, timers or plugin.                                    *)
(***************************************************************************)
CONSTANT Conns      \* client connections that may be accepted

VARIABLES
    svc,        \* "idle", "starting", "serving", "draining", "ended"
    stopReq,    \* a stop has been requested and not yet acted on
    open        \* the client connections being served

avars == <<svc, stopReq, open>>

Init ==
    /\ svc = "idle"
    /\ stopReq = FALSE
    /\ open = {}

Begin ==
    /\ svc = "idle"
    /\ svc' = "starting"
    /\ UNCHANGED <<stopReq, open>>

\* Start-up succeeds: the relay accepts clients.
Serve ==
    /\ svc = "starting"
    /\ svc' = "serving"
    /\ UNCHANGED <<stopReq, open>>

\* A start-up-fatal error: start() returns without serving.
Fail ==
    /\ svc = "starting"
    /\ svc' = "ended"
    /\ UNCHANGED <<stopReq, open>>

\* stop(): idempotent, from any context, once start() has been called.
RequestStop ==
    /\ svc /= "idle"
    /\ stopReq' = TRUE
    /\ UNCHANGED <<svc, open>>

Connect(c) ==
    /\ svc = "serving" /\ c \notin open
    /\ open' = open \cup {c}
    /\ UNCHANGED <<svc, stopReq>>

Disconnect(c) ==
    /\ svc \in {"serving", "draining"} /\ c \in open
    /\ open' = open \ {c}
    /\ UNCHANGED <<svc, stopReq>>

\* The stop is acted on: no more clients, every connection closed; the
\* relay ends at once or after the rest of its handles have gone.
Drain ==
    /\ svc = "serving" /\ stopReq
    /\ svc' = "draining"
    /\ open' = {}
    /\ UNCHANGED stopReq

Finish ==
    /\ svc \in {"serving", "draining"} /\ stopReq
    /\ svc' = "ended"
    /\ open' = {}
    /\ UNCHANGED stopReq

Next ==
    \/ Begin \/ Serve \/ Fail \/ RequestStop \/ Drain \/ Finish
    \/ \E c \in Conns : Connect(c) \/ Disconnect(c)

\* Start-up runs to its end, and a requested stop is carried out.  Nobody
\* is obliged to start the relay or to stop it.
Spec ==
    /\ Init /\ [][Next]_avars
    /\ WF_avars(Serve \/ Fail) /\ WF_avars(Drain \/ Finish)

=============================================================================
