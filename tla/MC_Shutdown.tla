---------------------------- MODULE MC_Shutdown ----------------------------
(* Instances of Shutdown for TLC: two client connections. *)
EXTENDS Shutdown

CONSTANTS c1, c2

MCConns == {c1, c2}

\* Both fronts, or the Qt front alone.
MCFronts == {"SSThread", "main"}
QtFront == {"SSThread"}
=============================================================================
