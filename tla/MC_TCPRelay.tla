---------------------------- MODULE MC_TCPRelay ----------------------------
(***************************************************************************)
(* Instantiates TCPRelay for TLC.  Scripts of SOCKS5 clients: the greeting *)
(* 05 01 00, a request VER CMD RSV ATYP ADDR PORT (ADDR and PORT scaled,   *)
(* see TCPRelay!AddressComplete), then data.  A patient client waits for   *)
(* the method reply before its request and for the command reply before    *)
(* its data, as RFC 1928 clients do; a pipelining client does not wait.    *)
(***************************************************************************)
EXTENDS TCPRelay

Greeting == <<5, 1, 0>>

\* CONNECT to an IPv4 address, then two data bytes.
ConnectV4 == [bytes |-> Greeting \o <<5, 1, 0, 1, 7, 8>> \o <<30, 31>>,
              waits |-> (3 :> 2) @@ (9 :> 12)]
\* CONNECT to a one-letter domain name, then one data byte.
ConnectDomain == [bytes |-> Greeting \o <<5, 1, 0, 3, 1, 9, 8>> \o <<30>>,
                  waits |-> (3 :> 2) @@ (10 :> 12)]
\* UDP ASSOCIATE.
UdpAssociate == [bytes |-> Greeting \o <<5, 3, 0, 1, 7, 8>>, waits |-> (3 :> 2)]
\* BIND, which the relay does not support.
Bind == [bytes |-> Greeting \o <<5, 2, 0, 1, 7, 8>>, waits |-> (3 :> 2)]
\* A SOCKS4-style greeting.
BadVersion == [bytes |-> <<4, 1, 0>>, waits |-> <<>>]


\* CONNECT sent without waiting for any reply (optimistic data).
PipelinedConnect == [bytes |-> ConnectV4.bytes, waits |-> <<>>]

\* A request with an unknown address type, followed by more bytes.
BadAddressType == [bytes |-> Greeting \o <<5, 1, 0, 9>> \o <<50, 51, 52, 53, 54, 55, 56, 57, 58>>,
                   waits |-> (3 :> 2)]

\* The same request, short enough to fit the buffer, whose client then
\* waits for an answer.
BadAddressTypeShort == [bytes |-> Greeting \o <<5, 1, 0, 9, 50, 51>>, waits |-> (3 :> 2)]

\* CONNECT whose first data goes out with the request, before the reply:
\* ATYP ADDR PORT and ten data bytes, more than BUF_DEFAULT_CAPACITY.
EagerConnect == [bytes |-> Greeting \o <<5, 1, 0, 1, 7, 8>> \o [i \in 1..10 |-> 30],
                 waits |-> (3 :> 2)]

PatientScripts == {ConnectV4, ConnectDomain, UdpAssociate, Bind, BadVersion,
                   BadAddressType}

PipelinedSet == {PipelinedConnect}
OverrunScripts == {BadAddressType, EagerConnect}
MalformedScripts == {BadAddressTypeShort}

MCServerData == <<20, 21>>
=============================================================================
