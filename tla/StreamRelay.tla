---------------------------- MODULE StreamRelay ----------------------------
(***************************************************************************)
(* What one relayed SOCKS5 connection promises its two peers (spec.md 4.2 *)
(* and 4.3), with no buffers, listeners or cipher in sight.  A connection *)
(* is accepted, then carries bytes in both directions, then is closed.    *)
(* Each direction only ever grows, and is at every moment a prefix of the *)
(* stream that direction should carry (upWant: to the server, downWant:   *)
(* to the client).  Once closed, nothing more is delivered.  Closing may  *)
(* carry a last answer to the client in the same step (a reply written   *)
(* just before the teardown).                                              *)
(***************************************************************************)
EXTENDS Sequences, SequencesExt

VARIABLES
    phase,      \* "idle" (not accepted), "open", "closed"
    up,         \* bytes delivered to the server
    down,       \* bytes delivered to the client
    upWant,     \* the stream the server should receive
    downWant    \* the stream the client should receive

vars == <<phase, up, down, upWant, downWant>>

\* t extends s and stays within what the direction should carry.
Grows(s, t, want) == IsPrefix(s, t) /\ IsPrefix(t, want)

Init == phase = "idle" /\ up = <<>> /\ down = <<>>

Open ==
    /\ phase = "idle" /\ phase' = "open"
    /\ UNCHANGED <<up, down, upWant, downWant>>

Relay ==
    /\ phase = "open"
    /\ Grows(up, up', upWant) /\ Grows(down, down', downWant)
    /\ <<up', down'>> /= <<up, down>>
    /\ UNCHANGED <<phase, upWant, downWant>>

Close ==
    /\ phase = "open" /\ phase' = "closed"
    /\ Grows(down, down', downWant)
    /\ UNCHANGED <<up, upWant, downWant>>

Next == Open \/ Relay \/ Close

Spec == Init /\ [][Next]_vars

=============================================================================
