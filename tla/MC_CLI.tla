------------------------------- MODULE MC_CLI -------------------------------
(***************************************************************************)
(* Command lines for CLI: every sequence of up to three options that       *)
(* getopt_long returns, over an alphabet holding each kind of option once *)
(* (every field setter, a flag, help, '?', an ignored option) and the      *)
(* numeric arguments that matter: 0 (also atoi of a non-number), a        *)
(* working value, and one past the range the field is used in.            *)
(***************************************************************************)
EXTENDS CLI, SequencesExt

Text == "x"

\* Numeric arguments of -p and -l: unset/non-numeric, a port, > 65535.
PortArgs == {0, 1080, 70000}
\* -t seconds: 0, a normal timeout, one whose milliseconds exceed int.
SecondArgs == {0, 30, 2147484}

Ports == {[c |-> c, arg |-> a] : c \in {"p", "l"}, a \in PortArgs}
Timeouts == {[c |-> "t", arg |-> a] : a \in SecondArgs}
Texts == {[c |-> c, arg |-> Text] : c \in {"s", "k", "password"}}
Others == {[c |-> c, arg |-> 0] : c \in {"u", "h", "?", "i"}}

\* Three options suffice for both ports and one more option in any order.
MCArgvs == SeqOf(Ports \cup Timeouts \cup Texts \cup Others, 3)

=============================================================================
