-------------------------------- MODULE CLI --------------------------------
(***************************************************************************)
(* The command-line front end, main() of src/src/ss_local.cpp: the         *)
(* getopt_long loop that fills a profile_t from the options, the check     *)
(* that both ports were given, and the hand-over to                        *)
(* start_ssr_uv_local_server (modelled from there on by Shutdown).        *)
(*                                                                         *)
(* getopt_long is the collaborator: the model's argv is the sequence of   *)
(* [c, arg] pairs it returns.  Text arguments are model values; numeric   *)
(* ones are the integer whose decimal text they are (a non-numeric text   *)
(* is the 0 atoi makes of it).  int is 32 bits wide: -t's atoi(optarg) *   *)
(* 1000 wraps as the build's imul does (signed overflow is undefined      *)
(* behaviour; the wrapped product is what the build stores).              *)
(***************************************************************************)
EXTENDS Integers, Sequences, TLC

CONSTANTS
    Argvs       \* the option sequences getopt_long may return

IntMax == 2147483647
IntMin == -IntMax - 1

\* a + b in 32-bit two's complement, for a, b in IntMin..IntMax.
AddWrap(a, b) ==
    CASE a > 0 /\ b > IntMax - a -> (a - IntMax - 1) + (b - IntMax - 1)
      [] a < 0 /\ b < IntMin - a -> (a + IntMax + 1) + (b + IntMax + 1)
      [] OTHER                   -> a + b

\* a * k in 32-bit two's complement, for k >= 0, by doubling.
RECURSIVE MulWrap(_, _)
MulWrap(a, k) ==
    IF k = 0 THEN 0
    ELSE AddWrap(MulWrap(AddWrap(a, a), k \div 2), IF k % 2 = 1 THEN a ELSE 0)

\* The profile main() starts from (p {} then the defaults it assigns).
Defaults ==
    [method |-> "chacha20-ietf-poly1305", local_addr |-> "0.0.0.0",
     remote_host |-> "127.0.0.1", remote_port |-> 0, local_port |-> 0,
     timeout |-> 60000, mtu |-> 1500, plugin |-> "null",
     plugin_opts |-> "null", password |-> "shadowsocksr-uvw", key |-> "null",
     mode |-> 0, verbose |-> 0, ipv6first |-> 0]

\* The profile field each option of the switch sets.
OptField ==
    ("mtu" :> "mtu") @@ ("plugin" :> "plugin") @@ ("plugin-opts" :> "plugin_opts")
    @@ ("password" :> "password") @@ ("key" :> "key") @@ ("s" :> "remote_host")
    @@ ("p" :> "remote_port") @@ ("l" :> "local_port") @@ ("k" :> "password")
    @@ ("t" :> "timeout") @@ ("m" :> "method") @@ ("6" :> "ipv6first")
    @@ ("b" :> "local_addr") @@ ("u" :> "mode") @@ ("v" :> "verbose")

NumericOpts == {"mtu", "p", "l"}
FlagOpts == {"6", "u", "v"}
HelpOpts == {"help", "h"}

\* The value the switch stores for option o.
Converted(o) ==
    CASE o.c \in NumericOpts -> o.arg
      [] o.c = "t"           -> MulWrap(o.arg, 1000)
      [] o.c \in FlagOpts    -> 1
      [] OTHER               -> o.arg

VARIABLES
    argv,       \* what getopt_long returns, in order
    i,          \* the next getopt_long call returns argv[i]
    p,          \* profile_t p
    opterr,     \* opterr, set on an unrecognised option or a missing port
    pc          \* "parse", "check", "exitSuccess", "exitFailure", "started"

vars == <<argv, i, p, opterr, pc>>

TypeOK ==
    /\ argv \in Argvs
    /\ i \in 1..(Len(argv) + 1)
    /\ DOMAIN p = DOMAIN Defaults
    /\ opterr \in {0, 1}
    /\ pc \in {"parse", "check", "exitSuccess", "exitFailure", "started"}

Init ==
    /\ argv \in Argvs
    /\ i = 1
    /\ p = Defaults
    /\ opterr = 0
    /\ pc = "parse"

\* Variant of GetOpt that also steps over the argument of an option that
\* takes one, as if optarg were the next element of argv.
GetOptTakesNext ==
    /\ pc = "parse" /\ i <= Len(argv)
    /\ LET o == argv[i]
       IN  /\ i' = IF o.c \in DOMAIN OptField \ FlagOpts THEN i + 2 ELSE i + 1
           /\ CASE o.c \in DOMAIN OptField ->
                  p' = [p EXCEPT ![OptField[o.c]] = Converted(o)] /\ UNCHANGED <<opterr, pc>>
             [] o.c \in HelpOpts -> pc' = "exitSuccess" /\ UNCHANGED <<p, opterr>>
             [] o.c = "?" -> opterr' = 1 /\ UNCHANGED <<p, pc>>
             [] OTHER -> UNCHANGED <<p, opterr, pc>>
    /\ UNCHANGED argv

\* One iteration of the getopt_long loop: the switch on c.  -h / --help
\* print usage and exit(EXIT_SUCCESS); '?' sets opterr; an option of the
\* optstring the switch has no case for (i, L, A) is ignored.
GetOpt ==
    /\ pc = "parse" /\ i <= Len(argv)
    /\ i' = i + 1
    /\ LET o == argv[i]
       IN  CASE o.c \in DOMAIN OptField ->
                  p' = [p EXCEPT ![OptField[o.c]] = Converted(o)] /\ UNCHANGED <<opterr, pc>>
             [] o.c \in HelpOpts -> pc' = "exitSuccess" /\ UNCHANGED <<p, opterr>>
             [] o.c = "?" -> opterr' = 1 /\ UNCHANGED <<p, pc>>
             [] OTHER -> UNCHANGED <<p, opterr, pc>>
    /\ UNCHANGED argv

\* getopt_long returns -1.
OptionsDone ==
    /\ pc = "parse" /\ i > Len(argv)
    /\ pc' = "check"
    /\ UNCHANGED <<argv, i, p, opterr>>

\* A missing port is an error; on error usage() and exit(EXIT_FAILURE),
\* otherwise install sigintHandler and call start_ssr_uv_local_server(p).
Check ==
    /\ pc = "check"
    /\ LET err == IF p.local_port = 0 \/ p.remote_port = 0 THEN 1 ELSE opterr
       IN  /\ opterr' = err
           /\ pc' = IF err = 1 THEN "exitFailure" ELSE "started"
    /\ UNCHANGED <<argv, i, p>>

Next == GetOpt \/ OptionsDone \/ Check

Spec == Init /\ [][Next]_vars

-----------------------------------------------------------------------------
(* Properties. *)

\* The relay is only started with ports a socket can bind (1..65535; the
\* port is narrowed to 16 bits by htons) and a positive timeout, which
\* UDPRelay arms every session timer with.
ProfileInRange ==
    pc = "started" =>
        /\ p.local_port \in 1..65535 /\ p.remote_port \in 1..65535
        /\ p.timeout > 0

=============================================================================
