----------------------------- MODULE MCListener -----------------------------
(* Small instances of Listener for TLC. *)
EXTENDS Listener

CONSTANTS a1, a2, c1

name1 == [ZeroAddr EXCEPT !.name = <<97>>, !.port = 80]  \* the shortest there is
v4 == [ZeroAddr EXCEPT !.ip = <<10, 0, 0, 1>>, !.port = 443]
v4any == [ZeroAddr EXCEPT !.ip = <<0, 0, 0, 0>>, !.port = 0]
v6 == [ZeroAddr EXCEPT !.ip = <<32, 1, 0, 0, 0, 0, 0, 0, 0, 0, 0, 0, 0, 0, 0, 1>>, !.port = 80]

\* An IPv4-mapped IPv6 address, which is an IPv4 one once it is read.
mapped == [ZeroAddr EXCEPT !.ip = <<0, 0, 0, 0, 0, 0, 0, 0, 0, 0, 255, 255, 10, 0, 0, 2>>, !.port = 1]

User == <<117, 115>>
Pw == <<112>>

Call(by, cmd) ==
    [by |-> by, cmd |-> cmd, version |-> 5, mode |-> "pipelined", auth |-> "none",
     offerNoAuth |-> FALSE, target |-> name1, cancel |-> FALSE, budget |-> "none",
     settable |-> TRUE]

\* Every mode with every kind of authentication.
Dials ==
    {[Call("Dial", 1) EXCEPT !.mode = m, !.auth = a, !.offerNoAuth = o, !.budget = "conn"] :
       m \in {"sequential", "pipelined"}, o \in BOOLEAN,
       a \in {"none", "userpass", "custom", "interactive", "bad"}}
    \cup {[Call("Dial", 1) EXCEPT !.budget = "ctx", !.settable = s] : s \in BOOLEAN}

\* SOCKS4 and 4a, and what they cannot ask for.
Calls4 ==
    {[Call("Request", cmd) EXCEPT !.version = 4, !.auth = a, !.target = t, !.offerNoAuth = o] :
       cmd \in {1, 3}, a \in {"userid", "userpass"}, t \in {name1, v4, v4any, v6}, o \in BOOLEAN}

\* Cancellation, over conns with and without deadlines.
Requests ==
    {[Call("Request", cmd) EXCEPT !.cancel = TRUE, !.settable = s, !.mode = "early", !.target = v6] :
       cmd \in {3, 240}, s \in BOOLEAN}
    \cup {[Call("Request", 1) EXCEPT !.version = 6], [Call("Request", 1) EXCEPT !.target = ZeroAddr]}

Lookups == {[Call("Lookup", 240) EXCEPT !.budget = "conn"]}

Listens ==
    {[Call("Listen", 2) EXCEPT !.mode = "early", !.target = v4, !.version = v, !.cancel = (v = 4)] :
       v \in {4, 5}}

AllCalls == Dials \cup Calls4 \cup Requests \cup Lookups \cup Listens

SomeBounds == {[name1 EXCEPT !.port = 0], v4, mapped}
\* The last is longer than readNext allows.
SomeCustom == {<<1, 0>>, <<1, 1>>, <<2, 0, 9>>, <<70>> \o [i \in 1 .. 70 |-> 0]}

=============================================================================
