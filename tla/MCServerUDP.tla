---------------------------- MODULE MCServerUDP ----------------------------
(* Small instances of ServerUDP for TLC. *)
EXTENDS ServerUDP

CONSTANTS a, n

\* One IP is allowed at port 2 only.
HighPort == {<<a, 2>>}

\* Each Filtering; room for everything, or for some of the three entries the
\* instance can make; an IdleTimeout that expires soon, or after bytes on the
\* control conn.
MCConfigs ==
    {[filtering |-> "port", maxTargets |-> 3, idle |-> 1],
     [filtering |-> "address", maxTargets |-> 2, idle |-> 2],
     [filtering |-> "none", maxTargets |-> 1, idle |-> 1]}

=============================================================================
