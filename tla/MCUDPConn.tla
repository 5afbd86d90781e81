----------------------------- MODULE MCUDPConn -----------------------------
(* Small instances of UDPConn for TLC. *)
EXTENDS UDPConn

CONSTANTS t1, t2, c1, gc, lo, lan, pub, pub6, any, any6, mcast

AllIPs == {lo, lan, pub, pub6, any, any6, mcast}
Scopes == [ip \in AllIPs |-> CASE ip \in {lo, any, any6} -> 0 [] ip = lan -> 2 [] OTHER -> 3]

\* Lookups fail, or return an address or two of both families.
Lookups == {<<lo>>, <<pub6>>, <<pub, pub6>>, <<pub6, lan>>}

\* Every way to open the relay socket, for every way to find the relay's address.
Asking(dsts, proxies) ==
    [proxyDial: BOOLEAN, relayDial: BOOLEAN, relayListen: BOOLEAN, useProxyHost: BOOLEAN,
     localPort: BOOLEAN, dst: dsts, proxy: proxies]

\* The DST asked for matters to associateDST only.
SomeDialers == Asking({"unknown"}, {lan, pub6, Name, "empty", "bad"})
               \cup Asking({"host", "port"}, {"bad"})

=============================================================================
