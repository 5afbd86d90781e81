----------------------------- MODULE MCConnect -----------------------------
(***************************************************************************)
(* Connect with a public address, two the host may gain (one of them also  *)
(* embedded in a NAT64 address), a private one and the address the client  *)
(* connected to.                                                           *)
(***************************************************************************)
EXTENDS Connect, TLC

CONSTANTS r1, r2, pub, gained, nat, priv, here, loop, any

MCIPs == {pub, gained, nat, priv, here, loop, any}
MCEmbedded == [ip \in MCIPs |-> IF ip = nat THEN gained ELSE NoIP]

Connecting(ip) == [cmd |-> "connect", host |-> ip, port0 |-> FALSE]

\* The race of two addresses beside another request; the other commands.
MCAsks ==
    r1 :> ({Connecting(Name), Connecting(gained), Connecting(any)}
            \cup [cmd: {"resolve", "ptr"}, host: {Name, priv, pub}, port0: {FALSE}]
            \cup {[Connecting(pub) EXCEPT !.cmd = "other"], [Connecting(pub) EXCEPT !.port0 = TRUE]}) @@
    r2 :> {Connecting(pub)}

MCAnswers == {<<gained, nat>>, <<priv, pub>>, <<priv, here>>}

\* Racing attempts, one of whose Dialers has a LocalAddr; literals vetted early and
\* dials in order; AllowAll; a Dial of the user's.
MCConfig == [filter |-> "default", custom |-> FALSE, inner |-> FALSE, egress |-> NoIP, control |-> TRUE]
MCConfigs ==
    {MCConfig, [MCConfig EXCEPT !.inner = TRUE, !.egress = here],
     [MCConfig EXCEPT !.control = FALSE],
     [MCConfig EXCEPT !.filter = "all", !.control = FALSE],
     [MCConfig EXCEPT !.custom = TRUE]}
=============================================================================
