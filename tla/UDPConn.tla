------------------------------- MODULE UDPConn -------------------------------
(***************************************************************************)
(* A UDP association of the client (go/socks0: udp.go, relayaddr.go and    *)
(* what dialer.go does for it): how a Dialer sets one up, what it closes   *)
(* when a step fails, which relay address it settles on, and the life of   *)
(* the UDPConn: the watcher of the control conn, Close, the cleanup of an  *)
(* unreachable UDPConn, and the calls that read and write datagrams.       *)
(*                                                                         *)
(* An IP is its class: its scope, its family and whether it is a unicast   *)
(* address.  A datagram is what the read path asks of it.                  *)
(***************************************************************************)
EXTENDS Integers, Sequences, FiniteSets

CONSTANTS
    Threads,    \* goroutines that read and write
    Closers,    \* goroutines that call Close
    Cleanup,    \* the goroutine the GC's cleanup starts
    IPs,
    Scope,      \* Scope[ip]: 0 loopback, 1 link-local, 2 private, 3 global
    IPv4,       \* the IPv4 addresses; the rest are IPv6
    Any,        \* 0.0.0.0 and ::
    Group,      \* multicast and broadcast
    Name,       \* a host that is a name, the proxy's or BND
    NoIP,       \* no IP
    Answers,    \* what a lookup may return; <<>> is its failure
    Dialers,    \* the options a Dialer may have
    NoDialer

DialerType ==
    [proxyDial: BOOLEAN, relayDial: BOOLEAN, relayListen: BOOLEAN, useProxyHost: BOOLEAN,
     localPort: BOOLEAN,
     dst: {"unknown", "host", "port"}, \* the DST asked for; "port": with a port
     proxy: IPs \cup {Name, "empty", "bad"}] \* ProxyAddr's host, none, no host:port

ASSUME UDPConnAssumption ==
    /\ IsFiniteSet(Threads) /\ IsFiniteSet(Closers) /\ Cleanup \notin Closers
    /\ "none" \notin Threads
    /\ Scope \in [IPs -> 0 .. 3]
    /\ IPv4 \subseteq IPs /\ Any \subseteq IPs /\ Group \subseteq IPs
    /\ Name \notin IPs \cup {NoIP, "empty", "bad"} /\ NoIP \notin IPs
    /\ Answers \subseteq Seq(IPs)
    /\ NoDialer \notin Dialers
    /\ Dialers \subseteq DialerType

VARIABLES
    apc,                \* where the setup is
    d, bound, peer, ra, \* its Dialer, BND, the control conn's peer, the relay address
    found,              \* what the lookup of the proxy's name returned
    relayIP,            \* the IP datagrams are sent to
    control, pre, sock, \* the conns: "none", "open", "closed"
    pc,                 \* the relay socket is unconnected (s.pc)
    ipTarget,           \* it is connected, to an IP
    dead,               \* s.control = nil
    err, closed, done,  \* s.err, s.closed, s.done is closed
    ctlEnd,             \* the proxy ended the control conn
    stubborn,           \* the control conn's Read ignores its deadline and Close
    wpc,                \* the watcher
    cpc,                \* the calls of close
    reachable, cleanup, \* the UDPConn; its cleanup was not stopped
    tpc, raw, seen,     \* the calls, their I/O error, the ended they have read
    rmu, wmu,           \* who holds them
    rbuf, wbuf          \* whose datagram is in them

setupvars == <<d, bound, peer, ra, found, relayIP>>
kindvars == <<pc, ipTarget, dead, stubborn>>
refvars == <<reachable, cleanup>>
callvars == <<tpc, raw, seen, rmu, wmu, rbuf, wbuf>>
vars == <<apc, setupvars, control, pre, sock, kindvars, err, closed, done, ctlEnd,
          wpc, cpc, refvars, callvars>>

None == "none"
Conn == {None, "open", "closed"}
\* via: the source IP; "opaque": a PacketConn's address that is no *net.UDPAddr.
Datagrams == [via: {"relay", "other", "opaque"}, hdr: {"target", "else", "frag", "bad"}]
NoDatagram == [via |-> None, hdr |-> None]
Raw == {"nil", "useClosed", "other"}
Err == {"nil", "config", "assoc", "closed"}

TypeOK ==
    /\ apc \in {"config", "new", "prebind", "connect", "relayAddr", "open", "opened",
                "failed", "live"}
    /\ d \in Dialers \cup {NoDialer}
    /\ bound \in IPs \cup {Name, NoIP} /\ peer \in IPs \cup {NoIP}
    /\ ra \in IPs \cup {Name, NoIP} /\ relayIP \in IPs \cup {NoIP}
    /\ found \in Answers \cup {<<>>}
    /\ {control, pre, sock} \subseteq Conn
    /\ {pc, dead, closed, done, ctlEnd, stubborn, ipTarget, reachable, cleanup} \subseteq BOOLEAN
    /\ err \in Err
    /\ wpc \in {None, "read", "lock", "closeRelay", "done", "exited"}
    /\ cpc \in [Closers \cup {Cleanup} ->
                  {"idle", "lock", "control", "relay", "wait", "returned", "already"}]
    /\ tpc \in [Threads -> {"idle", "rlock", "read", "copy", "wlock", "write",
                            "ioErr", "explain"}]
    /\ raw \in [Threads -> Raw] /\ seen \in [Threads -> Err]
    /\ {rmu, wmu} \subseteq Threads \cup {None}
    /\ rmu # None => tpc[rmu] \in {"read", "copy", "ioErr", "explain"}
    /\ wmu # None => tpc[wmu] = "write"
    /\ rbuf \in Datagrams \cup {NoDatagram} /\ wbuf \in Threads \cup {None}

Init ==
    /\ \/ apc = "config" /\ d \in Dialers
       \/ apc = "new" /\ d = NoDialer
    /\ bound = NoIP /\ peer = NoIP /\ ra = NoIP /\ found = <<>> /\ relayIP = NoIP
    /\ control = None /\ pre = None /\ sock = None
    /\ pc = FALSE /\ dead = FALSE
    /\ ipTarget = FALSE /\ stubborn = FALSE
    /\ err = "nil" /\ closed = FALSE /\ done = FALSE
    /\ ctlEnd = FALSE
    /\ wpc = None
    /\ cpc = [c \in Closers \cup {Cleanup} |-> "idle"]
    /\ reachable = TRUE /\ cleanup = FALSE
    /\ tpc = [t \in Threads |-> "idle"]
    /\ raw = [t \in Threads |-> "nil"] /\ seen = [t \in Threads |-> "nil"]
    /\ rmu = None /\ wmu = None
    /\ rbuf = NoDatagram /\ wbuf = None

Closed(c) == IF c = "open" THEN "closed" ELSE c

-----------------------------------------------------------------------------
(* The setup: associate.                                                   *)

livevars == <<stubborn, err, closed, done, ctlEnd, wpc, cpc, refvars, callvars>>

\* associateDST: options that contradict one another.
BadOptions ==
    \/ d.dst = "port" /\ ~d.relayDial /\ ~d.relayListen
    \/ d.relayDial /\ d.relayListen
    \/ d.localPort /\ (d.relayDial \/ d.dst # "unknown")

\* newConn fails for the network, the Config or a target that does not resolve.
NewConn == apc' \in {"prebind", "failed"}

\* ListenUDP or DialContext, up to associate's newConn.
Configure ==
    /\ apc = "config"
    /\ IF BadOptions THEN apc' = "failed" ELSE NewConn
    /\ UNCHANGED <<setupvars, control, pre, sock, pc, ipTarget, dead, livevars>>

\* setRequestDST: with AssociateLocalPort, prebind opens the relay socket early.
\* It may return neither or both of a socket and an error, or no UDP socket.
Prebind ==
    /\ apc = "prebind"
    /\ \/ ~d.localPort /\ apc' = "connect" /\ UNCHANGED pre
       \/ d.localPort /\ apc' = "connect" /\ pre' = "open"
       \/ d.localPort /\ apc' = "failed" /\ pre' \in {None, "closed"}
    /\ UNCHANGED <<setupvars, control, sock, pc, ipTarget, dead, livevars>>

\* Mutant: only the control conn is dealt with.
ConnectFailsLeavingPre ==
    /\ control' \in {None, "closed"}
    /\ UNCHANGED pre

\* dialProxy and the handshake close the control conn; associate closes pre.
ConnectFails ==
    /\ control' \in {None, "closed"}
    /\ pre' = Closed(pre)

\* connect: the handshake is over, with the proxy's BND.
Connect ==
    /\ apc = "connect"
    /\ \/ /\ d.proxyDial \/ d.proxy # "bad"
          /\ apc' = "relayAddr"
          /\ control' = "open"
          /\ bound' \in IPs \cup {Name}
          /\ peer' \in (IPs \ (Any \cup Group)) \cup {NoIP}
          /\ ~d.proxyDial => peer' # NoIP /\ (d.proxy \in IPs \ Any => peer' = d.proxy)
          /\ UNCHANGED pre
       \/ /\ apc' = "failed"
          /\ ConnectFails
          /\ UNCHANGED <<bound, peer>>
    /\ UNCHANGED <<d, ra, found, relayIP, sock, pc, ipTarget, dead, livevars>>

\* openRelay after relay failed, which has closed pre.
RelayFails ==
    /\ apc' = "failed"
    /\ control' = "closed"
    /\ pre' = Closed(pre)

\* Where the addresses of a family are in a lookup's answer, and the first of them:
\* slices.IndexFunc and pickRelayIP's loop.
At(ips, family) == {i \in 1 .. Len(ips) : ips[i] \in family}
FirstOf(ips, family) ==
    ips[CHOOSE i \in At(ips, family) : \A j \in At(ips, family) : i <= j]

\* pickRelayIP.
PickRelayIP(ips) ==
    LET family == IF bound \in IPv4 THEN IPv4 ELSE IPs \ IPv4
    IN IF (bound \notin IPv4 \/ peer \in IPv4) /\ \E i \in 1 .. Len(ips) : ips[i] = peer
       THEN peer
       ELSE IF At(ips, family) # {} THEN FirstOf(ips, family) ELSE ips[1]

\* resolveProxyHost, with the answer ips; NoIP is an error.
ResolveProxyHost(ips) ==
    IF ~d.proxyDial /\ peer # NoIP
    THEN IF At(ips, IPv4) # {} THEN FirstOf(ips, IPv4) ELSE peer
    ELSE IF ips = <<>> THEN NoIP ELSE PickRelayIP(ips)

\* substitute: an unspecified BND, or any if force, is replaced by the proxy's
\* host; the first that applies.
Substitute(ips) ==
    CASE ~d.useProxyHost /\ bound \notin Any -> bound
      [] OTHER ->
         CASE d.proxy = "bad" -> NoIP
           [] d.proxy \in IPs -> d.proxy
           [] OTHER ->
              CASE ~d.proxyDial /\ peer # NoIP /\ (bound \notin IPv4 \/ peer \in IPv4) -> peer
                [] d.proxy = "empty" -> NoIP
                [] d.proxyDial /\ d.relayDial -> Name
                [] OTHER -> ResolveProxyHost(ips)

\* The proxy's IP that the relay is compared with: ProxyAddr's, else the peer's.
ProxyIP == IF d.proxy \in IPs THEN d.proxy ELSE peer

\* checkRelay.
CheckRelay(ip) ==
    \/ ip = ProxyIP
    \/ /\ ip \notin Group \cup Any
       /\ Scope[ip] >= IF ProxyIP = NoIP THEN 3 ELSE Scope[ProxyIP]

\* relayAddr.
RelayAddr ==
    /\ apc = "relayAddr"
    /\ \E ips \in Answers \cup {<<>>} :
        LET a == Substitute(ips) IN
        /\ found' = ips
        /\ \/ /\ a = Name \/ (a \in IPs /\ CheckRelay(a))
              /\ ra' = a
              /\ apc' = "open"
              /\ UNCHANGED <<control, pre>>
           \/ /\ a \notin IPs \cup {Name} \/ (a \in IPs /\ ~CheckRelay(a))
              /\ RelayFails
              /\ UNCHANGED ra
    /\ UNCHANGED <<d, bound, peer, relayIP, sock, pc, ipTarget, dead, livevars>>

\* relayControl checks every address the net package tries; a RelayDial has none.
RelayControl(ip) == d.relayDial \/ CheckRelay(ip)

\* dialRelay: a connected socket; who dials resolves a name.
DialRelay ==
    /\ apc = "open"
    /\ ~d.relayListen /\ pre = None
    /\ \/ /\ relayIP' \in IF ra = Name THEN IPs ELSE {ra}
          /\ RelayControl(relayIP')
          /\ sock' = "open"
          /\ apc' = "opened"
          /\ UNCHANGED <<control, pre>>
       \/ sock' \in {None, "closed"} /\ RelayFails /\ UNCHANGED relayIP
    /\ UNCHANGED <<d, bound, peer, ra, found, pc, ipTarget, dead, livevars>>

\* Mutant: the address a BND name resolves to is not checked.
ListenIPUnchecked(ips) == IF ra # Name THEN ra ELSE IF ips = <<>> THEN NoIP ELSE ips[1]

\* The address listenRelay sends to: a name's first, if the policy allows it.
ListenIP(ips) ==
    IF ra # Name THEN ra
    ELSE IF ips # <<>> /\ CheckRelay(ips[1]) THEN ips[1] ELSE NoIP

\* listenRelay: an unconnected socket, the one prebind opened or RelayListen's.
ListenRelay ==
    /\ apc = "open"
    /\ d.relayListen \/ pre # None
    /\ \E ips \in Answers \cup {<<>>} :
        \/ /\ ListenIP(ips) # NoIP
           /\ pc' = TRUE
           /\ relayIP' = ListenIP(ips)
           /\ sock' = "open" /\ pre' = None
           /\ apc' = "opened"
           /\ UNCHANGED control
        \/ /\ ListenIP(ips) = NoIP \/ pre = None
           /\ sock' \in IF ListenIP(ips) = NoIP THEN {None} ELSE {None, "closed"}
           /\ RelayFails
           /\ UNCHANGED <<relayIP, pc>>
    /\ UNCHANGED <<d, bound, peer, ra, found, ipTarget, dead, livevars>>

\* start: the watcher runs, and the cleanup is set.  The setup's locals are gone.
Start ==
    /\ apc = "opened"
    /\ apc' = "live"
    /\ d' = NoDialer /\ bound' = NoIP /\ peer' = NoIP /\ ra' = NoIP
    /\ found' = <<>> /\ relayIP' = NoIP
    /\ ipTarget' \in BOOLEAN
    /\ stubborn' \in BOOLEAN
    /\ wpc' = "read"
    /\ cleanup' = TRUE
    /\ UNCHANGED <<control, pre, sock, pc, dead, err, closed, done, ctlEnd, cpc, reachable,
                   callvars>>

\* NewUDPConn over a caller's conns; without both it is dead.
NewUDPConn ==
    /\ apc = "new"
    /\ apc' = "live"
    /\ ipTarget' \in BOOLEAN
    /\ stubborn' \in BOOLEAN
    /\ \/ /\ control' = "open" /\ sock' = "open"
          /\ wpc' = "read"
          /\ cleanup' = TRUE
          /\ UNCHANGED <<dead, err, done>>
       \/ /\ control' \in {None, "closed"} /\ sock' \in {None, "closed"}
          /\ None \in {control', sock'}
          /\ dead' = TRUE /\ err' = "config" /\ done' = TRUE
          /\ UNCHANGED <<wpc, cleanup>>
    /\ UNCHANGED <<setupvars, pre, pc, closed, ctlEnd, cpc, reachable,
                   callvars>>

-----------------------------------------------------------------------------
(* The watcher.                                                            *)

conns == <<apc, setupvars, pre, kindvars>>

\* The proxy closes the control conn, or it breaks.
ControlEnds ==
    /\ apc = "live" /\ ~dead /\ ~ctlEnd
    /\ ctlEnd' = TRUE
    /\ UNCHANGED <<conns, control, sock, err, closed, done, wpc, cpc, refvars, callvars>>

\* Read returns an error; what it reads before is thrown away.
WatchRead ==
    /\ wpc = "read"
    /\ ctlEnd \/ (~stubborn /\ control = "closed")
    /\ wpc' = "lock"
    /\ UNCHANGED <<conns, control, sock, err, closed, done, ctlEnd, cpc, refvars, callvars>>

\* Mutant: the last reason wins.
ReasonLast(e) == e

\* The first reason stays.
Reason(e) == IF err = "nil" THEN e ELSE err

WatchLock ==
    /\ wpc = "lock"
    /\ err' = Reason("assoc")
    /\ wpc' = "closeRelay"
    /\ UNCHANGED <<conns, control, sock, closed, done, ctlEnd, cpc, refvars, callvars>>

\* closeRelay: relayOnce closes the socket once.
WatchCloseRelay ==
    /\ wpc = "closeRelay"
    /\ sock' = "closed"
    /\ wpc' = "done"
    /\ UNCHANGED <<conns, control, err, closed, done, ctlEnd, cpc, refvars, callvars>>

WatchDone ==
    /\ wpc = "done"
    /\ done' = TRUE
    /\ wpc' = "exited"
    /\ UNCHANGED <<conns, control, sock, err, closed, ctlEnd, cpc, refvars, callvars>>

Watch == WatchRead \/ WatchLock \/ WatchCloseRelay \/ WatchDone

-----------------------------------------------------------------------------
(* close, by Close or by the cleanup.                                      *)

GoClose(c, p) == cpc' = [cpc EXCEPT ![c] = p]

\* Close stops the cleanup; closed.Swap lets one caller on.
Swap(c) ==
    /\ apc = "live"
    /\ cpc[c] \in {"idle", "returned"}
    /\ IF c = Cleanup THEN ~reachable /\ cleanup ELSE reachable
    /\ cleanup' = FALSE
    /\ closed' = TRUE
    /\ GoClose(c, IF closed THEN "already" ELSE "lock")
    /\ UNCHANGED <<conns, control, sock, err, done, ctlEnd, wpc, reachable, callvars>>

CloseLock(c) ==
    /\ cpc[c] = "lock"
    /\ err' = Reason("closed")
    /\ GoClose(c, IF dead THEN "returned" ELSE "control")
    /\ UNCHANGED <<conns, control, sock, closed, done, ctlEnd, wpc, refvars, callvars>>

\* SetReadDeadline in the past, and Close: either ends the watcher's Read.
CloseControl(c) ==
    /\ cpc[c] = "control"
    /\ control' = "closed"
    /\ GoClose(c, "relay")
    /\ UNCHANGED <<conns, sock, err, closed, done, ctlEnd, wpc, refvars, callvars>>

\* Mutant: the relay socket is left to the watcher.
CloseRelayLater(c) ==
    /\ cpc[c] = "relay"
    /\ GoClose(c, "wait")
    /\ UNCHANGED <<conns, control, sock, err, closed, done, ctlEnd, wpc, refvars, callvars>>

CloseRelay(c) ==
    /\ cpc[c] = "relay"
    /\ sock' = "closed"
    /\ GoClose(c, "wait")
    /\ UNCHANGED <<conns, control, err, closed, done, ctlEnd, wpc, refvars, callvars>>

\* The watcher's done, or closeWait is over: a stubborn Read keeps the watcher.
CloseWait(c) ==
    /\ cpc[c] = "wait"
    /\ GoClose(c, "returned")
    /\ UNCHANGED <<conns, control, sock, err, closed, done, ctlEnd, wpc, refvars, callvars>>

CloseStep(c) ==
    CloseLock(c) \/ CloseControl(c) \/ CloseRelay(c) \/ CloseWait(c)

\* The program forgets the UDPConn: KeepAlive holds it during calls.
Forget ==
    /\ apc = "live" /\ reachable
    /\ \A t \in Threads : tpc[t] = "idle"
    /\ \A c \in Closers : cpc[c] \in {"idle", "returned", "already"}
    /\ reachable' = FALSE
    /\ UNCHANGED <<conns, control, sock, err, closed, done, ctlEnd, wpc, cpc, cleanup, callvars>>

-----------------------------------------------------------------------------
(* Calls.  One on a dead UDPConn, or with an address, a length or a target  *)
(* that writeTo, Write or WriteTo refuses, returns at once.                 *)

shared == <<conns, control, sock, err, closed, done, ctlEnd, wpc, cpc, refvars>>

GoCall(t, p) == tpc' = [tpc EXCEPT ![t] = p]

Begin(t) ==
    /\ apc = "live" /\ ~dead /\ reachable
    /\ tpc[t] = "idle"
    /\ \E p \in {"rlock", "wlock"} : GoCall(t, p)
    /\ UNCHANGED <<shared, raw, seen, rmu, wmu, rbuf, wbuf>>

RLock(t) ==
    /\ tpc[t] = "rlock"
    /\ rmu = None
    /\ rmu' = t
    /\ GoCall(t, "read")
    /\ UNCHANGED <<shared, raw, seen, wmu, rbuf, wbuf>>

\* The relay socket fails: it is closed, an ICMP error, a deadline, ...
Fails(t) ==
    /\ \E e \in IF sock = "closed" THEN {"useClosed"} ELSE {"other"} :
         raw' = [raw EXCEPT ![t] = e]
    /\ GoCall(t, "ioErr")

\* readRelay: an unconnected socket's datagrams must come from the relay's IP, if
\* it tells; the kernel sees to it for a connected one.
FromRelay(g) == g.via # "other"

\* readFrom's switch: malformed, fragmented or, for an IP target, another source.
Dropped(g) == g.hdr \in {"bad", "frag"} \/ (ipTarget /\ g.hdr = "else")

\* readRelay and the switch of readFrom: a datagram, one it drops, or an error.
ReadRelay(t) ==
    /\ tpc[t] = "read"
    /\ \/ /\ sock = "open"
          /\ \E g \in Datagrams :
               /\ pc \/ g.via = "relay"
               /\ IF FromRelay(g) /\ ~Dropped(g)
                  THEN rbuf' = g /\ GoCall(t, "copy")
                  ELSE UNCHANGED <<rbuf, tpc>>
          /\ UNCHANGED raw
       \/ Fails(t) /\ UNCHANGED rbuf
    /\ UNCHANGED <<shared, seen, rmu, wmu, wbuf>>

\* The payload is copied to the caller's b, and rmu is released.
Copy(t) ==
    /\ tpc[t] = "copy"
    /\ GoCall(t, "idle")
    /\ rmu' = None
    /\ rbuf' = NoDatagram
    /\ UNCHANGED <<shared, raw, seen, wmu, wbuf>>

WLock(t) ==
    /\ tpc[t] = "wlock"
    /\ wmu = None
    /\ wmu' = t
    /\ wbuf' = t
    /\ GoCall(t, "write")
    /\ UNCHANGED <<shared, raw, seen, rmu, rbuf>>

\* Mutant: an error returns before the unlock.
WriteRelayKeepsLock(t) ==
    /\ tpc[t] = "write"
    /\ \/ sock = "open" /\ GoCall(t, "idle") /\ UNCHANGED raw /\ wmu' = None
       \/ Fails(t) /\ UNCHANGED wmu
    /\ wbuf' = None
    /\ UNCHANGED <<shared, seen, rmu, rbuf>>

\* The write of wbuf to the relay; wmu is released.
WriteRelay(t) ==
    /\ tpc[t] = "write"
    /\ \/ sock = "open" /\ GoCall(t, "idle") /\ UNCHANGED raw
       \/ Fails(t)
    /\ wmu' = None
    /\ wbuf' = None
    /\ UNCHANGED <<shared, seen, rmu, rbuf>>

\* ioErr reads s.err.  awaitEnd only makes this step late, for a refusal that
\* beats the EOF of the control conn.
IoErr(t) ==
    /\ tpc[t] = "ioErr"
    /\ seen' = [seen EXCEPT ![t] = err]
    /\ GoCall(t, "explain")
    /\ UNCHANGED <<shared, raw, rmu, wmu, rbuf, wbuf>>

\* The error ioErr gives: closed is loaded again.
Result(t) ==
    CASE closed -> "closed"
      [] ~closed /\ seen[t] # "nil" -> seen[t]
      [] OTHER -> raw[t]

\* The call returns; readFrom releases rmu only now.
Explain(t) ==
    /\ tpc[t] = "explain"
    /\ GoCall(t, "idle")
    /\ raw' = [raw EXCEPT ![t] = "nil"]
    /\ seen' = [seen EXCEPT ![t] = "nil"]
    /\ rmu' = IF rmu = t THEN None ELSE rmu
    /\ rbuf' = IF rmu = t THEN NoDatagram ELSE rbuf
    /\ UNCHANGED <<shared, wmu, wbuf>>

CallStep(t) ==
    ReadRelay(t) \/ Copy(t) \/ WriteRelay(t) \/ IoErr(t) \/ Explain(t)

-----------------------------------------------------------------------------

Setup ==
    \/ Configure \/ Prebind \/ Connect \/ RelayAddr \/ DialRelay \/ ListenRelay
    \/ Start \/ NewUDPConn

Next ==
    \/ Setup
    \/ ControlEnds \/ Watch
    \/ \E c \in Closers \cup {Cleanup} : Swap(c) \/ CloseStep(c)
    \/ Forget
    \/ \E t \in Threads : Begin(t) \/ RLock(t) \/ WLock(t) \/ CallStep(t)

Spec == Init /\ [][Next]_vars

\* The goroutines run, I/O on a closed socket returns, Go's mutexes starve nobody
\* and the cleanup of a UDPConn that was forgotten is run.
FairSpec ==
    /\ Spec
    /\ WF_vars(Watch)
    /\ \A c \in Closers \cup {Cleanup} : WF_vars(CloseStep(c))
    /\ WF_vars(Swap(Cleanup))
    /\ \A t \in Threads :
         /\ WF_vars(CallStep(t) /\ (tpc[t] \in {"read", "write"} => sock = "closed"))
         /\ SF_vars(RLock(t)) /\ SF_vars(WLock(t))

-----------------------------------------------------------------------------
(* Properties.                                                             *)

\* The relay's address obeys the policy against the proxy's whichever way it was
\* found: BND, its substitute, a name resolved late.  A RelayDial given a name is
\* the documented exception.  And a proxy that bound 0.0.0.0, "an IPv4-only
\* socket", is sent IPv4 whenever its name has such an address.
RelayVetted ==
    apc = "opened" /\ ~(d.relayDial /\ ra = Name) =>
        /\ relayIP # ProxyIP =>
             /\ relayIP \notin Any \cup Group
             /\ Scope[relayIP] = 3 \/ (ProxyIP # NoIP /\ Scope[ProxyIP] <= Scope[relayIP])
        /\ bound \in Any \cap IPv4 /\ d.proxy = Name /\ At(found, IPv4) # {} =>
             relayIP \in IPv4

NothingOpen == "open" \notin {control, pre, sock}

\* A setup that failed leaves no conn open, nor does a Close that returned, however
\* the watcher races it; and Done means the relay is closed.
NoneLeftOpen ==
    /\ apc = "failed" => NothingOpen
    /\ \A c \in Closers \cup {Cleanup} : cpc[c] = "returned" => NothingOpen
    /\ done => sock # "open" /\ err # "nil"

\* What a call returns is true.  A read gives a datagram of the relay, whole and of
\* the target; a failed call does not blame the socket the library closed, and
\* says the proxy ended the association only if it did; so does Err, although
\* Close breaks the watcher's read too.
ResultsTrue ==
    /\ err = "assoc" => ctlEnd
    /\ \A t \in Threads :
         /\ tpc[t] = "copy" => rbuf.via # "other" /\ ~Dropped(rbuf)
         /\ tpc[t] = "write" => wbuf = t
         /\ tpc[t] = "explain" => Result(t) # "useClosed"

\* Everything ends: every call once the association has ended, Close although the
\* control conn's Read ignores it, Done after the proxy's EOF, and the conns of a
\* UDPConn the program forgot.
EverythingEnds ==
    /\ \A t \in Threads : (closed \/ ctlEnd) /\ tpc[t] # "idle" ~> tpc[t] = "idle"
    /\ \A c \in Closers : cpc[c] # "idle" ~> cpc[c] \in {"returned", "already"}
    /\ ctlEnd ~> done
    /\ ~reachable ~> NothingOpen

=============================================================================
