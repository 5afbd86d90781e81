------------------------------- MODULE Connect -------------------------------
(***************************************************************************)
(* CONNECT and RESOLVE on the server (go/socks0/server: connect.go,        *)
(* filter.go, ownhost.go, resolve.go): how a target is dialled so that     *)
(* every address passes the Filter and the own-host check before a packet  *)
(* is sent to it, which reply the client gets, and what becomes of the     *)
(* target's conn.                                                          *)
(*                                                                         *)
(* net.Dialer races two addresses of a name (Happy Eyeballs): an attempt   *)
(* is a goroutine <<q, i>> of request q, and <<q, 0>> is the handler's.    *)
(* The host's addresses change while requests are served; the listing of   *)
(* them is cached, and shared by all requests.  Time is a clock that may   *)
(* tick between any two steps.                                             *)
(***************************************************************************)
EXTENDS Integers, Sequences, FiniteSets, Functions

CONSTANTS
    Reqs,
    Asks,           \* Asks[q]: what q's client may ask for: see AskType
    Configs,        \* see ConfigType
    IPs, NoIP,
    Name,           \* a name
    Answers,        \* the addresses a lookup of it may give, in order
    Special,        \* IPs that classify denies
    Loopback, Unspecified,
    Embedded,       \* Embedded[ip]: the IPv4 in a NAT64 or 6to4 address, or NoIP
    SelfAddrs,      \* Server.SelfAddrs
    LocalAddr,      \* the IP the client connected to
    Mobile,         \* IPs the host may gain and lose
    DialErrs,       \* how a connect may fail
    UserErrs,       \* how a Dial, ControlContext or Resolver of the user's may
    TTL,            \* hostTTL
    MaxNow,         \* bound: how far the clock runs
    MaxChanges      \* bound: changes of the host's addresses

AskType == [cmd: {"connect", "resolve", "ptr", "other"}, host: IPs \cup {Name}, port0: BOOLEAN]
\* custom: ConnectHandler.Dial is set.  inner: the Dialer has a ControlContext or
\* a LocalAddr of its own; egress: that LocalAddr's IP.  control: net.Dialer runs
\* ControlContext (it does not on plan9).
ConfigType == [filter: {"default", "all"}, custom: BOOLEAN, inner: BOOLEAN,
               egress: IPs \cup {NoIP}, control: BOOLEAN]
\* Errors, by what ReplyFor tells apart.  access: EACCES, EPERM.  denied: the
\* Filter's; notAllowed: another that is ErrNotAllowed, an upstream's 02 for one;
\* identd: an upstream's SOCKS4 5C or 5D; otherRep: an upstream's other REP.
Errnos == {"access", "netUnreach", "hostUnreach", "refused", "timeout", "other"}
Errs == Errnos \cup {"nil", "denied", "notAllowed", "identd", "otherRep", "unsupported", "notFound"}

ASSUME ConnectAssumption ==
    /\ "none" \notin Reqs
    /\ \A q \in Reqs : Asks[q] \subseteq AskType
    /\ Configs \subseteq ConfigType /\ \A c \in Configs : c.egress # NoIP => c.inner
    /\ NoIP \notin IPs /\ Name \notin IPs
    /\ Answers \subseteq UNION {[1 .. n -> IPs] : n \in 1 .. 2}
    /\ Special \subseteq IPs /\ SelfAddrs \subseteq IPs /\ LocalAddr \in IPs
    /\ Loopback \cup Unspecified \subseteq Special
    /\ Mobile \subseteq IPs \ (Loopback \cup Unspecified)
    /\ Embedded \in [IPs -> IPs \cup {NoIP}] /\ \A ip \in Unspecified : Embedded[ip] = NoIP
    /\ DialErrs \subseteq Errnos /\ UserErrs \subseteq Errs \ {"nil", "denied"}
    /\ TTL \in Nat \ {0} /\ MaxNow \in Nat /\ MaxChanges \in Nat

Attempts == Reqs \X (1 .. 2)
Actors == Reqs \X (0 .. 2)

VARIABLES
    cfg, ask,
    now, changes,
    host,           \* since when the host has an IP; Never
    cached, mu,     \* cachedHostAddrs and who holds hostMu
    qpc,            \* where a handler is
    control,        \* its dial runs ControlContext
    addrs,          \* the addresses it dials
    winner,         \* the attempt whose conn it got; 0: none
    err, replies,
    vpc,            \* where an actor's vet and dial are
    seen,           \* the listing it uses
    checked,        \* when it found it current; or Never
    missed,         \* history: the host had its address for hostTTL then
    busy, scratch,  \* the conn's scratch: in use, and then its LocalAddr
    using,          \* who uses it
    verdict,        \* of its address: the error, or "ok"
    sock,           \* its conn
    self,           \* history: it is a conn to this host
    disclosed       \* history: the addresses RESOLVE answered

hostvars == <<now, changes, host>>
listvars == <<cached, mu, seen, checked, missed>>
scrvars == <<busy, scratch, using>>
handlervars == <<qpc, control, addrs, winner, err, replies>>
sockvars == <<sock, self>>
vars == <<cfg, ask, hostvars, listvars, handlervars, vpc, scrvars, verdict, sockvars, disclosed>>

Never == MaxNow + 1
None == <<"none", 0>>
\* No listing yet; one that was made expires after 0.
NoListing == [failed |-> TRUE, ips |-> {}, expires |-> 0]
Listings == [failed: BOOLEAN, ips: SUBSET IPs, expires: 0 .. MaxNow + TTL]

TypeOK ==
    /\ cfg \in Configs /\ ask \in [Reqs -> AskType]
    /\ now \in 0 .. MaxNow /\ changes \in 0 .. MaxChanges
    /\ host \in [IPs -> 0 .. Never]
    /\ cached \in Listings
    /\ mu \in Actors \cup {None}
    /\ mu # None => vpc[mu] \in {"list", "store"}
    /\ qpc \in [Reqs -> {"start", "early", "dial", "race", "ask", "reply", "relay", "fail",
                         "returned"}]
    /\ control \in [Reqs -> BOOLEAN]
    /\ addrs \in [Reqs -> UNION {[1 .. n -> IPs] : n \in 0 .. 2}]
    /\ winner \in [Reqs -> 0 .. 2]
    /\ err \in [Reqs -> Errs]
    /\ replies \in [Reqs -> Seq(0 .. 8)]
    /\ vpc \in [Actors -> {"idle", "load", "try", "lock", "list", "store", "judge", "ask", "asked", "vetted", "connecting", "ended"}]
    /\ seen \in [Actors -> Listings]
    /\ checked \in [Actors -> 0 .. Never] /\ missed \in [Actors -> BOOLEAN]
    /\ busy \in [Reqs -> BOOLEAN] /\ scratch \in [Reqs -> IPs \cup {NoIP}]
    /\ using \in [Actors -> BOOLEAN]
    /\ \A q \in Reqs : busy[q] <=> \E i \in 0 .. 2 : using[<<q, i>>]
    /\ verdict \in [Actors -> Errs \cup {"ok"}]
    /\ sock \in [Actors -> {"none", "open", "closed"}]
    /\ self \in [Actors -> BOOLEAN]
    /\ disclosed \subseteq IPs

Init ==
    /\ cfg \in Configs
    /\ ask \in {f \in [Reqs -> UNION {Asks[q] : q \in Reqs}] : \A q \in Reqs : f[q] \in Asks[q]}
    /\ now = 0 /\ changes = 0
    /\ host = [ip \in IPs |-> IF ip \in Loopback \cup {LocalAddr} THEN 0 ELSE Never]
    /\ cached = NoListing /\ mu = None
    /\ qpc = [q \in Reqs |-> "start"]
    /\ control = [q \in Reqs |-> FALSE]
    /\ addrs = [q \in Reqs |-> <<>>]
    /\ winner = [q \in Reqs |-> 0]
    /\ err = [q \in Reqs |-> "nil"]
    /\ replies = [q \in Reqs |-> <<>>]
    /\ vpc = [a \in Actors |-> "idle"]
    /\ seen = [a \in Actors |-> NoListing]
    /\ checked = [a \in Actors |-> Never] /\ missed = [a \in Actors |-> FALSE]
    /\ busy = [q \in Reqs |-> FALSE] /\ scratch = [q \in Reqs |-> NoIP]
    /\ using = [a \in Actors |-> FALSE]
    /\ verdict = [a \in Actors |-> "nil"]
    /\ sock = [a \in Actors |-> "none"] /\ self = [a \in Actors |-> FALSE]
    /\ disclosed = {}

\* The address an actor is about: the handler's is the literal it was asked for
\* or, after the dial, the remote address.
IPOf(a) ==
    LET q == a[1] IN
    IF a[2] # 0 THEN addrs[q][a[2]]
    ELSE IF winner[q] # 0 THEN addrs[q][winner[q]]
    ELSE ask[q].host

-----------------------------------------------------------------------------
(* The Filter.                                                             *)

\* The IP and, of an address that embeds one, that IPv4.
Both(ip) == {ip, Embedded[ip]} \ {NoIP}

\* Request.isSelf.
isSelf(local, ip) == Both(ip) \cap ({local} \cup SelfAddrs) # {}

\* classify: an address that embeds an IPv4 is judged by it.
classify(ip) == (IF Embedded[ip] = NoIP THEN ip ELSE Embedded[ip]) \in Special

\* DefaultFilter or AllowAll, for a request whose LocalAddr is local.
allow(local, ip, port0) ==
    cfg.filter = "default" => ~isSelf(local, ip) /\ ~port0 /\ ~classify(ip)

HasIP(ip) == host[ip] # Never

-----------------------------------------------------------------------------
(* vet: the Filter, then the own-host check (ownhost.go).                  *)

GoV(a, at) == vpc' = [vpc EXCEPT ![a] = at]

\* Mutant: a listing is current at its expiry.
CurrentAtExpiry(h) == h # NoListing /\ now <= h.expires
Current(h) == h # NoListing /\ now < h.expires

\* vet: the Filter and, if it allows the address, currentHostAddrs: the cached
\* listing if it is current.
Load(a) ==
    /\ vpc[a] = "load"
    /\ IF allow(LocalAddr, IPOf(a), ask[a[1]].port0)
       THEN /\ seen' = [seen EXCEPT ![a] = cached]
            /\ checked' = [checked EXCEPT ![a] = IF Current(cached) THEN now ELSE Never]
            /\ GoV(a, IF Current(cached) THEN "judge" ELSE "try")
            /\ UNCHANGED verdict
       ELSE /\ GoV(a, "vetted") /\ verdict' = [verdict EXCEPT ![a] = "denied"]
            /\ UNCHANGED <<seen, checked>>
    /\ UNCHANGED <<cfg, ask, hostvars, cached, mu, missed, handlervars, scrvars, sockvars, disclosed>>

\* With hostMu: another goroutine may have made the listing.  Its time to live
\* counts from before the listing.
Check(a) ==
    /\ checked' = [checked EXCEPT ![a] = now]
    /\ IF Current(cached)
       THEN seen' = [seen EXCEPT ![a] = cached] /\ mu' = None /\ GoV(a, "judge")
       ELSE /\ seen' = [seen EXCEPT ![a] = [NoListing EXCEPT !.expires = now + TTL]]
            /\ mu' = a /\ GoV(a, "list")

\* TryLock: while another goroutine makes the listing, the one at hand will do.
TryLock(a) ==
    /\ vpc[a] = "try"
    /\ IF mu = None THEN Check(a)
       ELSE /\ GoV(a, IF seen[a] # NoListing THEN "judge" ELSE "lock")
            /\ UNCHANGED <<mu, seen, checked>>
    /\ UNCHANGED <<cfg, ask, hostvars, cached, missed, handlervars, scrvars, verdict, sockvars,
                   disclosed>>

Lock(a) ==
    /\ vpc[a] = "lock" /\ mu = None /\ Check(a)
    /\ UNCHANGED <<cfg, ask, hostvars, cached, missed, handlervars, scrvars, verdict, sockvars,
                   disclosed>>

\* Mutant: listHostAddrs takes hostMu, which its caller holds.
ListLocks(a) ==
    /\ vpc[a] = "list" /\ mu = None /\ GoV(a, "store")
    /\ \E failed \in BOOLEAN :
         seen' = [seen EXCEPT ![a] =
                    [failed |-> failed, expires |-> @.expires,
                     ips |-> IF failed THEN {} ELSE {ip \in IPs : HasIP(ip)}]]
    /\ UNCHANGED <<cfg, ask, hostvars, cached, mu, checked, missed, handlervars, scrvars, verdict,
                   sockvars, disclosed>>
\* listHostAddrs: interfaceAddrs may fail.
List(a) ==
    /\ vpc[a] = "list" /\ GoV(a, "store")
    /\ \E failed \in BOOLEAN :
         seen' = [seen EXCEPT ![a] =
                    [failed |-> failed, expires |-> @.expires,
                     ips |-> IF failed THEN {} ELSE {ip \in IPs : HasIP(ip)}]]
    /\ UNCHANGED <<cfg, ask, hostvars, cached, mu, checked, missed, handlervars, scrvars, verdict,
                   sockvars, disclosed>>

Store(a) ==
    /\ vpc[a] = "store" /\ GoV(a, "judge")
    /\ cached' = seen[a] /\ mu' = None
    /\ UNCHANGED <<cfg, ask, hostvars, seen, checked, missed, handlervars, scrvars, verdict,
                   sockvars, disclosed>>

\* ownHost: without a listing, the kernel's source address for ip tells; it is ip
\* if the host has it.  routed: sourceFor got one.
ownHost(a, routed) ==
    IF seen[a].failed THEN routed /\ HasIP(IPOf(a))
    ELSE Both(IPOf(a)) \cap (seen[a].ips \cup Loopback \cup Unspecified) # {}

\* The addresses of a that the check can tell: the route lookup misses an embedded
\* one and, if it fails too, nothing tells.
Known(a, routed) ==
    CASE ~seen[a].failed -> Both(IPOf(a))
      [] seen[a].failed /\ routed -> {IPOf(a)}
      [] seen[a].failed /\ ~routed -> {}

\* checkOwnHost has nothing to ask for another host, nor for an address that is
\* not known to be this one's.
Judge(a) ==
    /\ vpc[a] = "judge"
    /\ \E routed \in BOOLEAN :
         /\ IF ownHost(a, routed) THEN GoV(a, "ask") /\ UNCHANGED verdict
            ELSE GoV(a, "vetted") /\ verdict' = [verdict EXCEPT ![a] = "ok"]
         /\ missed' = [missed EXCEPT ![a] =
                         \E ip \in Known(a, routed) :
                             HasIP(ip) /\ checked[a] # Never /\ host[ip] + TTL <= checked[a]]
    /\ seen' = [seen EXCEPT ![a] = NoListing] /\ checked' = [checked EXCEPT ![a] = Never]
    /\ UNCHANGED <<cfg, ask, hostvars, cached, mu, handlervars, scrvars, sockvars, disclosed>>

\* Mutant: the scratch is taken although it is in use.
SwapAlways(a) == TRUE
\* The compare-and-swap of the conn's scratch.
Swap(a) == ~busy[a[1]]

\* checkOwnHost: a request with LocalAddr set to the address, in the conn's
\* scratch or, if that is in use, a new one.
Ask(a) ==
    LET q == a[1] IN
    /\ vpc[a] = "ask" /\ GoV(a, "asked")
    /\ using' = [using EXCEPT ![a] = Swap(a)]
    /\ busy' = [busy EXCEPT ![q] = TRUE]
    /\ scratch' = (IF Swap(a) THEN [scratch EXCEPT ![q] = IPOf(a)] ELSE scratch)
    /\ UNCHANGED <<cfg, ask, hostvars, listvars, handlervars, verdict, sockvars, disclosed>>

\* The Filter is asked again, and the scratch is free.
Asked(a) ==
    LET q == a[1]
        local == IF using[a] THEN scratch[q] ELSE IPOf(a)
    IN
    /\ vpc[a] = "asked" /\ GoV(a, "vetted")
    /\ verdict' = [verdict EXCEPT ![a] =
                     IF allow(local, IPOf(a), ask[q].port0) THEN "ok" ELSE "denied"]
    /\ using' = [using EXCEPT ![a] = FALSE]
    /\ busy' = [busy EXCEPT ![q] = @ /\ ~using[a]]
    /\ scratch' = [scratch EXCEPT ![q] = IF using[a] THEN NoIP ELSE @]
    /\ UNCHANGED <<cfg, ask, hostvars, listvars, handlervars, sockvars, disclosed>>

Vet(a) ==
    \/ Load(a) \/ TryLock(a) \/ Lock(a) \/ List(a) \/ Store(a)
    \/ Judge(a) \/ Ask(a) \/ Asked(a)

-----------------------------------------------------------------------------
(* The handlers: Mux, ConnectHandler.                                      *)

GoQ(q, at) == qpc' = [qpc EXCEPT ![q] = at]
FailQ(q, e) == GoQ(q, "fail") /\ err' = [err EXCEPT ![q] = e]

Handler(q) == <<q, 0>>

\* vetEarly: an IP literal, unless the Dialer has something to say.
vetEarly(q) == ask[q].host \in IPs \ Unspecified /\ ~cfg.inner

Serve(q) ==
    /\ qpc[q] = "start" /\ ask[q].cmd = "connect" /\ ~cfg.custom
    /\ IF vetEarly(q)
       THEN GoQ(q, "early") /\ GoV(Handler(q), "load") /\ UNCHANGED control
       ELSE GoQ(q, "dial") /\ control' = [control EXCEPT ![q] = TRUE] /\ UNCHANGED vpc
    /\ UNCHANGED <<cfg, ask, hostvars, listvars, addrs, winner, err, replies, scrvars, verdict,
                   sockvars, disclosed>>

\* A denied literal is dialled as before: its dial will fail.
Early(q) ==
    /\ qpc[q] = "early" /\ vpc[Handler(q)] = "vetted"
    /\ GoQ(q, "dial") /\ GoV(Handler(q), "idle")
    /\ control' = [control EXCEPT ![q] = verdict[Handler(q)] # "ok"]
    /\ UNCHANGED <<cfg, ask, hostvars, listvars, addrs, winner, err, replies, scrvars, verdict,
                   sockvars, disclosed>>

\* dialCustom: the target policy is the user's Dial's.
DialCustom(q) ==
    /\ qpc[q] = "start" /\ ask[q].cmd = "connect" /\ cfg.custom
    /\ \/ /\ GoQ(q, "reply") /\ winner' = [winner EXCEPT ![q] = 1]
          /\ sock' = [sock EXCEPT ![<<q, 1>>] = "open"] /\ UNCHANGED err
       \/ \E e \in {"denied"} \cup UserErrs : FailQ(q, e) /\ UNCHANGED <<winner, sock>>
    /\ UNCHANGED <<cfg, ask, hostvars, listvars, control, addrs, replies, vpc, scrvars, verdict,
                   self, disclosed>>

\* DialContext's lookup.  Some systems dial loopback for the unspecified address.
\* No address may be of the LocalAddr's family.
Dial(q) ==
    /\ qpc[q] = "dial"
    /\ \/ /\ GoQ(q, "race") /\ UNCHANGED err
          /\ \E ips \in CASE ask[q].host = Name -> Answers
                          [] ask[q].host \in Unspecified ->
                               {<<ip>> : ip \in {ask[q].host} \cup Loopback}
                          [] OTHER -> {<<ask[q].host>>} :
               addrs' = [addrs EXCEPT ![q] = ips]
       \/ ask[q].host = Name /\ FailQ(q, "notFound") /\ UNCHANGED addrs
       \/ cfg.egress # NoIP /\ cfg.control /\ FailQ(q, "other") /\ UNCHANGED addrs
    /\ UNCHANGED <<cfg, ask, hostvars, listvars, control, winner, replies, vpc, scrvars, verdict,
                   sockvars, disclosed>>

-----------------------------------------------------------------------------
(* The attempts of net.Dialer, with dialControl; or dialVetted's, one      *)
(* after the other, once every address has been vetted.                    *)

InOrder(q) == control[q] /\ ~cfg.control
Earlier(a) == {b \in Attempts : b[1] = a[1] /\ b[2] < a[2]}
Tried(q) == {a \in Attempts : a[1] = q /\ a[2] \in DOMAIN addrs[q]}

\* A literal that passed vetEarly needs no ControlContext.
Start(a) ==
    LET q == a[1] IN
    /\ qpc[q] = "race" /\ a \in Tried(q) /\ vpc[a] = "idle"
    /\ winner[q] = 0
    /\ \A b \in Earlier(a) : IF InOrder(q) THEN vpc[b] = "vetted" ELSE vpc[b] # "idle"
    /\ IF control[q] THEN GoV(a, "load") /\ UNCHANGED verdict
       ELSE GoV(a, "vetted") /\ verdict' = [verdict EXCEPT ![a] = "ok"]
    /\ UNCHANGED <<cfg, ask, hostvars, listvars, handlervars, scrvars, sockvars, disclosed>>

\* The next address of dialVetted is dialled when the one before has failed.
MayEnd(a) ==
    InOrder(a[1]) => /\ \A b \in Tried(a[1]) : vpc[b] \in {"vetted", "connecting", "ended"}
                     /\ \A b \in Earlier(a) : vpc[b] = "ended"

Denied(a) ==
    /\ vpc[a] = "vetted" /\ a[2] # 0 /\ MayEnd(a) /\ verdict[a] # "ok"
    /\ GoV(a, "ended")
    /\ UNCHANGED <<cfg, ask, hostvars, listvars, handlervars, scrvars, verdict, sockvars, disclosed>>

\* connect: a packet is sent.
Connect(a) ==
    /\ vpc[a] = "vetted" /\ a[2] # 0 /\ MayEnd(a) /\ verdict[a] = "ok"
    /\ InOrder(a[1]) => winner[a[1]] = 0
    /\ GoV(a, "connecting")
    /\ self' = [self EXCEPT ![a] = HasIP(IPOf(a)) \/ IPOf(a) \in Unspecified]
    /\ UNCHANGED <<cfg, ask, hostvars, listvars, handlervars, scrvars, verdict, sock, disclosed>>

\* net.Dialer takes the first conn, and closes one that comes later.
Connected(a) ==
    LET q == a[1] IN
    /\ vpc[a] = "connecting" /\ GoV(a, "ended")
    /\ IF winner[q] = 0
       THEN winner' = [winner EXCEPT ![q] = a[2]] /\ sock' = [sock EXCEPT ![a] = "open"]
       ELSE sock' = [sock EXCEPT ![a] = "closed"] /\ UNCHANGED winner
    /\ UNCHANGED <<cfg, ask, hostvars, listvars, qpc, control, addrs, err, replies, scrvars, verdict,
                   self, disclosed>>

\* The Dialer's own ControlContext.
Inner == cfg.inner /\ cfg.control

\* It fails, or is cancelled once another has won, or cannot be bound to the
\* LocalAddr, or the Dialer's own ControlContext fails.
ConnectFails(a) ==
    /\ \/ vpc[a] = "connecting"
       \/ vpc[a] = "vetted" /\ a[2] # 0 /\ MayEnd(a) /\ verdict[a] = "ok"
            /\ (winner[a[1]] # 0 \/ Inner \/ cfg.egress # NoIP)
    /\ GoV(a, "ended")
    /\ \E e \in DialErrs \cup (IF Inner THEN UserErrs ELSE {}) :
         verdict' = [verdict EXCEPT ![a] = e]
    /\ self' = [self EXCEPT ![a] = FALSE]
    /\ UNCHANGED <<cfg, ask, hostvars, listvars, handlervars, scrvars, sock, disclosed>>

\* The first error; of dialVetted the first dial's, if there was one.
FirstErr(q) ==
    LET dialled == {a \in Tried(q) : InOrder(q) /\ verdict[a] # "denied"}
        among == IF dialled = {} THEN Tried(q) ELSE dialled
    IN verdict[CHOOSE a \in among : \A b \in among : a[2] <= b[2]]

RaceLost(q) ==
    /\ qpc[q] = "race" /\ winner[q] = 0 /\ \A a \in Tried(q) : vpc[a] = "ended"
    /\ FailQ(q, FirstErr(q))
    /\ UNCHANGED <<cfg, ask, hostvars, listvars, control, addrs, winner, replies, vpc, scrvars,
                   verdict, sockvars, disclosed>>

-----------------------------------------------------------------------------
(* dialFiltered after the dial, and ServeSOCKS.                            *)

\* Mutant: the target's conn is not checked after the dial.
PostUnchecked(q) ==
    /\ qpc[q] = "race" /\ winner[q] # 0 /\ GoQ(q, "reply")
    /\ UNCHANGED <<cfg, ask, hostvars, listvars, control, addrs, winner, err, replies, vpc, scrvars,
                   verdict, sockvars, disclosed>>
\* Whether the conn's local IP is the remote one: the kernel's choice for this host,
\* unless the Dialer names another.
SameIP(a) ==
    CASE cfg.egress = NoIP -> {self[a]}
      [] cfg.egress # NoIP /\ IPOf(a) \in Unspecified -> BOOLEAN
      [] cfg.egress # NoIP /\ IPOf(a) \notin Unspecified -> {IPOf(a) = cfg.egress}

\* If it is, this host is asked about, by an address the listing missed.
Post(q) ==
    /\ qpc[q] = "race" /\ winner[q] # 0
    /\ \E same \in SameIP(<<q, winner[q]>>) :
         IF same THEN GoQ(q, "ask") /\ GoV(Handler(q), "ask")
         ELSE GoQ(q, "reply") /\ UNCHANGED vpc
    /\ UNCHANGED <<cfg, ask, hostvars, listvars, control, addrs, winner, err, replies, scrvars,
                   verdict, sockvars, disclosed>>

CloseTarget(q) == sock' = [sock EXCEPT ![<<q, winner[q]>>] = "closed"]

PostAsked(q) ==
    /\ qpc[q] = "ask" /\ vpc[Handler(q)] = "vetted" /\ GoV(Handler(q), "ended")
    /\ IF verdict[Handler(q)] = "ok"
       THEN GoQ(q, "reply") /\ UNCHANGED <<err, sock>>
       ELSE FailQ(q, "denied") /\ CloseTarget(q)
    /\ UNCHANGED <<cfg, ask, hostvars, listvars, control, addrs, winner, replies, scrvars, verdict,
                   self, disclosed>>

AddReply(q, rep) == replies' = [replies EXCEPT ![q] = Append(@, rep)]

\* Reply fails if the client is gone.
Reply(q) ==
    /\ qpc[q] = "reply"
    /\ \/ AddReply(q, 0) /\ GoQ(q, "relay") /\ UNCHANGED sock
       \/ GoQ(q, "returned") /\ CloseTarget(q) /\ UNCHANGED replies
    /\ UNCHANGED <<cfg, ask, hostvars, listvars, control, addrs, winner, err, vpc, scrvars, verdict,
                   self, disclosed>>

\* Relay closes both conns (module Relay).
RelayEnds(q) ==
    /\ qpc[q] = "relay" /\ GoQ(q, "returned") /\ CloseTarget(q)
    /\ UNCHANGED <<cfg, ask, hostvars, listvars, control, addrs, winner, err, replies, vpc, scrvars,
                   verdict, self, disclosed>>

\* errnoReply and the timeouts; plan9 has no errno rows.
errnoReply(e) ==
    CASE e = "timeout" -> 6
      [] e = "other" \/ (e # "timeout" /\ ~cfg.control) -> 1
      [] e = "access" /\ cfg.control -> 2
      [] e = "netUnreach" /\ cfg.control -> 3
      [] e = "hostUnreach" /\ cfg.control -> 4
      [] e = "refused" /\ cfg.control -> 5

\* ReplyFor, with upstreamReply; 8 stands for an upstream's other REP.
ReplyFor(e) ==
    CASE e \in Errnos -> errnoReply(e)
      [] e \in {"denied", "notAllowed", "identd"} -> 2
      [] e = "notFound" -> 4
      [] e = "unsupported" -> 7
      [] e = "otherRep" -> 8

\* Mutant: a denied name is not allowed.
ErrReplyDenied(q) == ReplyFor(err[q])
\* A name that is not allowed is unreachable; other errors are left to
\* fallbackReply.  It is no reply if the client is gone.
ErrReply(q) ==
    IF ask[q].cmd = "connect" /\ ask[q].host = Name /\ err[q] \in {"denied", "notAllowed"} THEN 4
    ELSE ReplyFor(err[q])

Fail(q) ==
    /\ qpc[q] = "fail" /\ GoQ(q, "returned")
    /\ AddReply(q, ErrReply(q)) \/ UNCHANGED replies
    /\ UNCHANGED <<cfg, ask, hostvars, listvars, control, addrs, winner, err, vpc, scrvars, verdict,
                   sockvars, disclosed>>

-----------------------------------------------------------------------------
(* ResolveHandler, and commands with no handler.                           *)

\* allowIP: network ip4 or ip6, whose port means nothing.
allowIP(ip) == allow(LocalAddr, ip, FALSE)

\* lookupAllowed: the first address that the Filter allows.
FirstAllowed(ips) ==
    LET ok == {i \in DOMAIN ips : allowIP(ips[i])}
    IN IF ok = {} THEN NoIP ELSE ips[CHOOSE i \in ok : \A j \in ok : i <= j]

Answer(q, ip) ==
    /\ GoQ(q, "returned") /\ UNCHANGED err
    /\ \/ AddReply(q, 0) /\ disclosed' = disclosed \cup ({ip} \ {NoIP})
       \/ UNCHANGED <<replies, disclosed>>
FailLookup(q, e) == FailQ(q, e) /\ UNCHANGED <<replies, disclosed>>

Resolve(q) ==
    /\ qpc[q] = "start" /\ ask[q].cmd = "resolve"
    /\ \/ /\ ask[q].host \in IPs
          /\ IF allowIP(ask[q].host) THEN Answer(q, ask[q].host) ELSE FailLookup(q, "denied")
       \/ /\ ask[q].host = Name
          /\ \/ \E e \in {"notFound"} \cup UserErrs : FailLookup(q, e)
             \/ \E ips \in Answers :
                  IF FirstAllowed(ips) = NoIP THEN FailLookup(q, "notFound")
                  ELSE Answer(q, FirstAllowed(ips))
    /\ UNCHANGED <<cfg, ask, hostvars, listvars, control, addrs, winner, vpc, scrvars, verdict,
                   sockvars>>

\* resolvePTR: the Resolver may have no LookupAddr, or no name for the address, or
\* none that is a name.
ResolvePTR(q) ==
    /\ qpc[q] = "start" /\ ask[q].cmd = "ptr"
    /\ \/ ask[q].host = Name /\ FailLookup(q, "notFound")
       \/ ask[q].host \in IPs /\ ~allowIP(ask[q].host) /\ FailLookup(q, "denied")
       \/ /\ ask[q].host \in IPs /\ allowIP(ask[q].host)
          /\ \/ \E e \in {"unsupported", "notFound", "other"} \cup UserErrs : FailLookup(q, e)
             \/ Answer(q, NoIP)
    /\ UNCHANGED <<cfg, ask, hostvars, listvars, control, addrs, winner, vpc, scrvars, verdict,
                   sockvars>>

\* notSupported, in Mux and in each handler.
NotSupported(q) ==
    /\ qpc[q] = "start" /\ ask[q].cmd = "other" /\ FailQ(q, "unsupported")
    /\ UNCHANGED <<cfg, ask, hostvars, listvars, control, addrs, winner, replies, vpc, scrvars,
                   verdict, sockvars, disclosed>>

-----------------------------------------------------------------------------
Tick ==
    /\ now < MaxNow /\ now' = now + 1
    /\ UNCHANGED <<cfg, ask, changes, host, listvars, handlervars, vpc, scrvars, verdict, sockvars,
                   disclosed>>

\* An interface gains or loses an address.
HostChanges ==
    /\ changes < MaxChanges /\ changes' = changes + 1
    /\ \E ip \in Mobile : host' = [host EXCEPT ![ip] = IF HasIP(ip) THEN Never ELSE now]
    /\ UNCHANGED <<cfg, ask, now, listvars, handlervars, vpc, scrvars, verdict, sockvars, disclosed>>

AttemptStep(a) ==
    Vet(a) \/ Start(a) \/ Denied(a) \/ Connect(a) \/ Connected(a) \/ ConnectFails(a)

HandlerStep(q) ==
    \/ Vet(Handler(q)) \/ Serve(q) \/ DialCustom(q) \/ Early(q) \/ Dial(q) \/ RaceLost(q) \/ Post(q) \/ PostAsked(q)
    \/ Reply(q) \/ Fail(q) \/ Resolve(q) \/ ResolvePTR(q) \/ NotSupported(q)

Next ==
    \/ \E a \in Attempts : AttemptStep(a)
    \/ \E q \in Reqs : HandlerStep(q) \/ RelayEnds(q)
    \/ Tick \/ HostChanges

Spec == Init /\ [][Next]_vars

\* Goroutines run, lookups end, and dials end within DialTimeout.  A relay need
\* not end.
FairSpec ==
    /\ Spec
    /\ \A a \in Attempts : WF_vars(AttemptStep(a))
    /\ \A q \in Reqs : WF_vars(HandlerStep(q))

-----------------------------------------------------------------------------
(* Properties.                                                             *)

\* Who vetted the address that a dials.
VettedBy(a) == IF control[a[1]] THEN a ELSE Handler(a[1])

\* No packet goes to an address the Filter denies, whichever address of a name
\* the dial tries.  Nor, under DefaultFilter, to one the host has had for hostTTL
\* when the listing was found current, directly or embedded in a NAT64 or 6to4
\* address: the listings that checks share, and the scratch they race for, serve
\* no older or other address.  The exceptions are a listing another goroutine was
\* making anew, and what cannot be told without one: an embedded address and,
\* when the route lookup fails too (out of descriptors), any address, which the
\* check then lets pass.
TargetsVetted ==
    \A a \in Attempts : vpc[a] = "connecting" =>
        /\ allow(LocalAddr, IPOf(a), ask[a[1]].port0)
        /\ cfg.filter = "default" => ~missed[VettedBy(a)]

\* Under DefaultFilter the host itself is never relayed to, although the listing
\* may have missed or not told the address or the race of two addresses may have
\* used a stale one: the check after the dial finds it by the conn's local IP.  A
\* Dialer whose LocalAddr is another address hides it from that check, and then
\* only the one before the dial stands.  And of the conns a request dialled, none
\* is left open when it has returned, wherever it failed.
TargetConns ==
    \A q \in Reqs :
        /\ cfg.filter = "default" /\ qpc[q] \in {"reply", "relay"} /\ winner[q] # 0 =>
             LET w == <<q, winner[q]>> IN
             self[w] => cfg.egress \notin {NoIP, IPOf(w)} /\ ~missed[VettedBy(w)]
        /\ qpc[q] = "returned" => \A i \in 1 .. 2 : sock[<<q, i>>] # "open"

\* A client that sent a name cannot tell a denied one from an unknown one: CONNECT
\* says 04 if every address tried was denied, and the Filter's denial never says
\* 02 for a name (connect.go: "A name the Filter denies gets 04, not 02, so
\* internal names look unknown"): a 02 is of a connect to an allowed address that
\* the system or the user's ControlContext forbade, or of what the user's Dial or
\* Resolver says.  RESOLVE discloses allowed addresses only.  Success is not said
\* of a dial that failed.
NoOracle ==
    /\ \A q \in Reqs : replies[q] # <<>> =>
         LET rep == replies[q][1] IN
         /\ ask[q].host = Name /\ rep = 2 =>
              /\ err[q] # "denied"
              /\ ask[q].cmd = "connect" /\ ~cfg.custom =>
                   \E a \in Tried(q) :
                       verdict[a] = err[q] /\ allow(LocalAddr, IPOf(a), ask[q].port0)
         /\ ask[q].host = Name /\ addrs[q] # <<>>
              /\ (\A ip \in Range(addrs[q]) : ~allow(LocalAddr, ip, ask[q].port0)) => rep = 4
         /\ rep = 0 <=> err[q] = "nil"
    /\ \A ip \in disclosed : allowIP(ip)

\* Every request is answered or relayed, although the checks of all requests wait
\* for one goroutine's listing, and the last one leaves hostMu and the scratch
\* free.
RequestsEnd ==
    <>[](mu = None /\ \A q \in Reqs : qpc[q] \in {"relay", "returned"} /\ ~busy[q])

=============================================================================
