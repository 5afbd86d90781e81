----------------------------- MODULE ServerUDP -----------------------------
(***************************************************************************)
(* UDP ASSOCIATE on the server (go/socks0/server/udp.go): up relays the    *)
(* client's datagrams to targets, down the targets' to the client, and     *)
(* watchControl ends the association with its control conn or when idle.   *)
(*                                                                         *)
(* A target is an IP and a port, a header a host (an IP or a name) and a   *)
(* port, and the filter the set of targets it allows.  Time is a clock of  *)
(* ticks that stands still while a goroutine can run.                      *)
(***************************************************************************)
EXTENDS Integers, FiniteSets

CONSTANTS
    IPs,         \* targets' IPs
    Names,       \* names a header may have
    DstPorts,    \* targets' ports
    Ports,       \* ports of the client's IP; none is 0
    Allowed,     \* the targets the Filter allows
    Configs,     \* see ConfigType
    TTL,         \* nameTTL
    LookupTimeout,
    MaxNow       \* bound: how far the clock runs

\* UDPAssociateHandler's Filtering, MaxTargets and IdleTimeout.
ConfigType == [filtering: {"port", "address", "none"}, maxTargets: Nat, idle: Nat \ {0}]

ASSUME UDPAssumption ==
    /\ Allowed \subseteq IPs \X DstPorts
    /\ IPs \cap (Names \cup {"denied", "failed"}) = {}
    /\ 0 \notin Ports
    /\ Configs \subseteq ConfigType
    /\ LookupTimeout \in Nat /\ TTL \in Nat /\ MaxNow \in Nat
    /\ LookupTimeout < TTL

Targets == IPs \X DstPorts
Headers == (IPs \cup Names) \X DstPorts
None == <<"none", 0>>

\* What resolve gives instead of an IP: the filter's denial, or a lookup error.
Errors == {"denied", "failed"}

VARIABLES
    cfg,          \* the handler's fields
    now,
    clientPort,   \* a.clientPort; 0: not locked
    targets,      \* a.targets: the targets judged, and whether they are allowed
    ips,          \* a.ips
    names,        \* a.names
    prev,         \* a.prevHeader
    lastMove,
    open,         \* the sockets that are not closed
    upc, job,     \* where up is, and the datagram it has
    dpc, dfrom, dport,
    wpc, wdl,     \* watchControl and its read deadline
    returned,
    reached,      \* what targets were sent: the client's port and the target
    got           \* what the client was sent: port and source

judgevars == <<targets, ips, names, prev>>
upvars == <<upc, job>>
downvars == <<dpc, dfrom, dport>>
watchvars == <<wpc, wdl, returned>>
vars == <<cfg, now, clientPort, judgevars, lastMove, open, upvars, downvars, watchvars,
          reached, got>>

\* An entry that was never made.
NoEntry == [known |-> FALSE, ip |-> "failed", exp |-> 0]
NoVerdict == [hdr |-> None, dst |-> None, err |-> "failed", exp |-> 0]
NoJob == [port |-> 0, hdr |-> None, ip |-> "failed", lock |-> 0, at |-> 0, exp |-> 0]
Forever == MaxNow + TTL + 1

\* The target of the datagram up has, once its host is an IP.
Dst == <<job.ip, job.hdr[2]>>

EntryType == [known: BOOLEAN, ip: IPs \cup Errors, exp: 0 .. Forever]
VerdictType == [hdr: Headers \cup {None}, dst: Targets \cup {None},
                err: Errors \cup {"nil"}, exp: 0 .. Forever]
JobType == [port: Ports \cup {0}, hdr: Headers \cup {None}, ip: IPs \cup Errors,
            lock: Ports \cup {0}, at: 0 .. MaxNow, exp: 0 .. Forever]

TypeOK ==
    /\ cfg \in Configs
    /\ now \in 0 .. MaxNow
    /\ clientPort \in Ports \cup {0}
    /\ targets \in [Targets -> {"unknown", "ok", "denied"}]
    /\ ips \subseteq IPs
    /\ names \in [Names -> EntryType]
    /\ prev \in VerdictType
    /\ lastMove \in 0 .. now
    /\ open \subseteq {"client", "target"}
    /\ upc \in {"read", "header", "resolve", "admit", "forward", "write", "ended"}
    /\ job \in JobType
    /\ upc \in {"forward", "write"} => Dst \in Targets
    /\ dpc \in {"read", "check", "write", "ended"}
    /\ dfrom \in Targets \cup {None} /\ dport \in Ports \cup {0}
    /\ wpc \in {"arm", "read", "close", "wait"}
    /\ wdl \in 0 .. MaxNow + cfg.idle
    /\ returned \in BOOLEAN
    /\ reached \subseteq Ports \X Targets
    /\ got \subseteq Ports \X Targets

Init ==
    /\ cfg \in Configs
    /\ now = 0
    /\ clientPort \in Ports \cup {0} \* DST.PORT, if DST is the client's own address
    /\ targets = [t \in Targets |-> "unknown"]
    /\ ips = {}
    /\ names = [n \in Names |-> NoEntry]
    /\ prev = NoVerdict
    /\ lastMove = 0
    /\ open = {"client", "target"}
    /\ upc = "read" /\ job = NoJob
    /\ dpc = "read" /\ dfrom = None /\ dport = 0
    /\ wpc = "arm" /\ wdl = 0
    /\ returned = FALSE
    /\ reached = {}
    /\ got = {}

GoUp(p) == upc' = p

\* a.drop, and the next datagram.
Drop == upc' = "read" /\ job' = NoJob

-----------------------------------------------------------------------------
(* up.                                                                     *)

\* The datagram is the client's: its locked port, if there is one.
RightPort(p) == clientPort = 0 \/ p = clientPort

\* A datagram from a port of the client's IP.  One from elsewhere, from another
\* port, or too large is dropped: nothing changes.
UpRead ==
    \E p \in Ports, hdr \in Headers :
        /\ upc = "read" /\ "client" \in open
        /\ RightPort(p)
        /\ job' = [NoJob EXCEPT !.port = p, !.hdr = hdr, !.lock = clientPort]
        /\ GoUp("header")
        /\ UNCHANGED <<cfg, now, clientPort, judgevars, lastMove, open, downvars, watchvars,
                       reached, got>>

\* headerVerdict.matches.
PrevMatches == prev.hdr = job.hdr /\ now < prev.exp

Size == Cardinality({t \in Targets : targets[t] # "unknown"})
          + Cardinality({n \in Names : names[n].known})

\* Mutant: one too many.
FullLate == Size > cfg.maxTargets

Full == Size >= cfg.maxTargets

\* Mutant: the cached error is forgotten.
PrevPassesAlways == TRUE

PrevPasses == prev.err = "nil"

\* header: the previous verdict, or judge, which looks a name up in names.  A
\* malformed header or a fragment is dropped.
UpHeader ==
    /\ upc = "header"
    /\ \/ /\ PrevMatches
          /\ IF PrevPasses
             THEN job' = [job EXCEPT !.ip = prev.dst[1]] /\ GoUp("forward")
             ELSE Drop
       \/ /\ ~PrevMatches /\ job.hdr[1] \in IPs
          /\ job' = [job EXCEPT !.ip = job.hdr[1], !.exp = Forever]
          /\ GoUp("admit")
       \/ /\ ~PrevMatches /\ job.hdr[1] \in Names
          /\ LET e == names[job.hdr[1]]
             IN \/ /\ e.known /\ now < e.exp
                   /\ job' = [job EXCEPT !.ip = e.ip, !.exp = e.exp]
                   /\ GoUp("admit")
                \/ ~e.known /\ Full /\ Drop
                \/ /\ e.known => now >= e.exp
                   /\ e.known \/ ~Full
                   /\ job' = [job EXCEPT !.at = now]
                   /\ GoUp("resolve")
    /\ UNCHANGED <<cfg, now, clientPort, judgevars, lastMove, open, downvars, watchvars,
                   reached, got>>

\* What lookupAllowed and resolve may give for a name and port: an IP the filter
\* allows at that port, its denial of one, or a lookup error.
Resolved(port) ==
    {ip \in IPs : <<ip, port>> \in Allowed} \cup {"failed"}
      \cup {e \in {"denied"} : \E ip \in IPs : <<ip, port>> \notin Allowed}

\* The entry of names is the name's, whatever the port.
UpResolve ==
    /\ upc = "resolve"
    /\ \E ip \in Resolved(job.hdr[2]) :
         /\ names' = [names EXCEPT ![job.hdr[1]] =
                        [known |-> TRUE, ip |-> ip, exp |-> job.at + TTL]]
         /\ job' = [job EXCEPT !.ip = ip, !.exp = job.at + TTL]
    /\ GoUp("admit")
    /\ UNCHANGED <<cfg, now, clientPort, targets, ips, prev, lastMove, open, downvars,
                   watchvars, reached, got>>

\* Mutant: a verdict keeps the error of the one before.
RememberDst(err) == prev' = [prev EXCEPT !.hdr = job.hdr, !.dst = Dst, !.exp = job.exp]

\* a.prevHeader gets the verdict.
Remember(err) ==
    prev' = [hdr |-> job.hdr, dst |-> IF job.ip \in IPs THEN Dst ELSE None,
             err |-> err, exp |-> job.exp]

\* Mutant: a name's IP was vetted when it was resolved.
VettedOnce == job.hdr[1] \in Names \/ Dst \in Allowed

\* filter.vet of the very IP:port that is sent to.
Vetted == Dst \in Allowed

\* admit, and the verdict header caches unless there are too many targets.
UpAdmit ==
    /\ upc = "admit"
    /\ \/ /\ job.ip \in Errors
          /\ Remember(job.ip) /\ Drop
          /\ UNCHANGED <<targets, ips>>
       \/ /\ job.ip \in IPs /\ targets[Dst] # "unknown"
          /\ Remember(IF targets[Dst] = "ok" THEN "nil" ELSE "denied")
          /\ IF targets[Dst] = "ok" THEN GoUp("forward") /\ UNCHANGED job ELSE Drop
          /\ UNCHANGED <<targets, ips>>
       \/ /\ job.ip \in IPs /\ targets[Dst] = "unknown" /\ Full
          /\ Drop
          /\ UNCHANGED <<targets, ips, prev>>
       \/ /\ job.ip \in IPs /\ targets[Dst] = "unknown" /\ ~Full /\ Vetted
          /\ targets' = [targets EXCEPT ![Dst] = "ok"]
          /\ ips' = ips \cup {job.ip}
          /\ Remember("nil")
          /\ GoUp("forward")
          /\ UNCHANGED job
       \/ /\ job.ip \in IPs /\ targets[Dst] = "unknown" /\ ~Full /\ ~Vetted
          /\ targets' = [targets EXCEPT ![Dst] = "denied"]
          /\ Remember("denied") /\ Drop
          /\ UNCHANGED ips
    /\ UNCHANGED <<cfg, now, clientPort, names, lastMove, open, downvars, watchvars,
                   reached, got>>

PortLocked == IF job.lock = 0 THEN job.port ELSE clientPort

\* The port is locked and the move stamped before the datagram goes out.
UpForward ==
    /\ upc = "forward"
    /\ clientPort' = PortLocked
    /\ lastMove' = now
    /\ GoUp("write")
    /\ UNCHANGED <<cfg, now, judgevars, open, job, downvars, watchvars, reached, got>>

UpWrite ==
    /\ upc = "write"
    /\ reached' = IF "target" \in open THEN reached \cup {<<job.port, Dst>>} ELSE reached
    /\ Drop
    /\ UNCHANGED <<cfg, now, clientPort, judgevars, lastMove, open, downvars, watchvars, got>>

UpEnds ==
    /\ upc = "read" /\ "client" \notin open
    /\ GoUp("ended")
    /\ UNCHANGED <<cfg, now, clientPort, judgevars, lastMove, open, job, downvars, watchvars,
                   reached, got>>

-----------------------------------------------------------------------------
(* down.                                                                   *)

\* A datagram for the target socket, from anyone; the port is loaded.
DownRead ==
    /\ dpc = "read" /\ "target" \in open
    /\ dfrom' \in Targets
    /\ dport' = clientPort
    /\ dpc' = "check"
    /\ UNCHANGED <<cfg, now, clientPort, judgevars, lastMove, open, upvars, watchvars,
                   reached, got>>

\* Mutant: a target that was judged counts, allowed or not.
SolicitedJudged(t) == cfg.filtering = "none" \/ targets[t] # "unknown"

Solicited(t) ==
    CASE cfg.filtering = "none" -> TRUE
      [] cfg.filtering = "address" -> t[1] \in ips
      [] cfg.filtering = "port" -> targets[t] = "ok"

DownCheck ==
    /\ dpc = "check"
    /\ IF dport # 0 /\ Solicited(dfrom)
       THEN dpc' = "write" /\ lastMove' = now /\ UNCHANGED <<dfrom, dport>>
       ELSE dpc' = "read" /\ dfrom' = None /\ dport' = 0 /\ UNCHANGED lastMove
    /\ UNCHANGED <<cfg, now, clientPort, judgevars, open, upvars, watchvars, reached, got>>

DownWrite ==
    /\ dpc = "write"
    /\ got' = IF "client" \in open THEN got \cup {<<dport, dfrom>>} ELSE got
    /\ dpc' = "read" /\ dfrom' = None /\ dport' = 0
    /\ UNCHANGED <<cfg, now, clientPort, judgevars, lastMove, open, upvars, watchvars, reached>>

DownEnds ==
    /\ dpc = "read" /\ "target" \notin open
    /\ dpc' = "ended"
    /\ UNCHANGED <<cfg, now, clientPort, judgevars, lastMove, open, upvars, dfrom, dport,
                   watchvars, reached, got>>

-----------------------------------------------------------------------------
(* watchControl and run.                                                   *)

\* Mutant: bytes on the control conn keep the association.
IdleDeadlineNow == now + cfg.idle

IdleDeadline == lastMove + cfg.idle

WatchArm ==
    /\ wpc = "arm"
    /\ wdl' = IdleDeadline
    /\ wpc' = "read"
    /\ UNCHANGED <<cfg, now, clientPort, judgevars, lastMove, open, upvars, downvars,
                   returned, reached, got>>

IdleNow == now - lastMove >= cfg.idle

\* The control conn gives bytes, which are discarded, ends, or is closed by
\* ctx or by a relay goroutine's panic, which also closes the sockets.
WatchRead ==
    /\ wpc = "read"
    /\ \/ now < wdl /\ wpc' \in {"arm", "close"} /\ UNCHANGED open
       \/ now < wdl /\ wpc' = "close" /\ open' = {}
       \/ now >= wdl /\ wpc' = (IF IdleNow THEN "close" ELSE "arm") /\ UNCHANGED open
    /\ UNCHANGED <<cfg, now, clientPort, judgevars, lastMove, upvars, downvars, wdl,
                   returned, reached, got>>

\* Mutant: run leaves the target socket open.
StillOpenTarget == open \ {"client"}

StillOpen == {}

CloseSockets ==
    /\ wpc = "close"
    /\ open' = StillOpen
    /\ wpc' = "wait"
    /\ UNCHANGED <<cfg, now, clientPort, judgevars, lastMove, upvars, downvars, wdl,
                   returned, reached, got>>

Return ==
    /\ wpc = "wait" /\ upc = "ended" /\ dpc = "ended"
    /\ ~returned
    /\ returned' = TRUE
    /\ UNCHANGED <<cfg, now, clientPort, judgevars, lastMove, open, upvars, downvars, wpc,
                   wdl, reached, got>>

Tick ==
    /\ now < MaxNow
    /\ upc \in {"read", "resolve"} /\ dpc = "read" /\ open # {}
    /\ wpc = "read" /\ now < wdl
    /\ upc = "resolve" => now < job.at + LookupTimeout
    /\ now' = now + 1
    /\ UNCHANGED <<cfg, clientPort, judgevars, lastMove, open, upvars, downvars, watchvars,
                   reached, got>>

Up ==
    \/ UpHeader \/ UpResolve \/ UpAdmit \/ UpForward \/ UpWrite \/ UpEnds
Down == DownCheck \/ DownWrite \/ DownEnds
Watch == WatchArm \/ CloseSockets \/ Return

Next == UpRead \/ DownRead \/ WatchRead \/ Up \/ Down \/ Watch \/ Tick

Spec == Init /\ [][Next]_vars

\* The goroutines run, and a lookup ends by its timeout.
FairSpec == Spec /\ WF_vars(Up) /\ WF_vars(Down) /\ WF_vars(Watch)

-----------------------------------------------------------------------------
(* Properties.                                                             *)

\* No datagram reaches an IP:port the filter denies: not through a name that was
\* resolved for another port, nor the cached verdict of an earlier header.  And
\* targets hear one port of the client's IP only, the locked one.  The previous
\* header's verdict, used without a lookup or a filter call, is the one judge
\* would give now; and what a name's datagram is sent to is what the name resolved
\* to within its TTL: neither a long lookup nor the cached header stretches it.
OnlyAllowedReached ==
    /\ \A m \in reached : m[1] = clientPort /\ m[2] \in Allowed
    /\ prev.hdr # None /\ now < prev.exp =>
          LET host == prev.hdr[1]
              ip == IF host \in Names THEN names[host].ip ELSE host
          IN /\ host \in Names => names[host].exp = prev.exp
             /\ ip \in Errors => prev.err = ip
             /\ ip \in IPs =>
                  /\ prev.dst = <<ip, prev.hdr[2]>>
                  /\ prev.err = "nil" <=> targets[prev.dst] = "ok"
    /\ upc \in {"forward", "write"} /\ job.hdr[1] \in Names =>
          names[job.hdr[1]].ip = job.ip /\ now < names[job.hdr[1]].exp

\* The filtering of answers is exact.  A target that was sent a datagram can answer:
\* its reply is not dropped as unsolicited, however early it comes.  And the client
\* hears only from targets its filtering mode lets in, at the port that was locked
\* when the datagram came.
AnswersFiltered ==
    /\ \A m \in reached : clientPort # 0 /\ Solicited(m[2])
    /\ \A m \in got :
         /\ m[1] = clientPort
         /\ cfg.filtering = "port" => m[2] \in Allowed /\ targets[m[2]] = "ok"
         /\ cfg.filtering = "address" =>
              \E t \in Allowed : t[1] = m[2][1] /\ targets[t] = "ok"

\* What a client can hold is bounded: MaxTargets bounds its targets, names and
\* failures included (S6), and an association whose sockets are open has relayed
\* a datagram within IdleTimeout, although bytes on the control conn postpone the
\* watcher's deadline.
AssociationBounded ==
    /\ Size <= cfg.maxTargets
    /\ open # {} /\ wpc # "close" => now <= lastMove + cfg.idle

\* An association whose control conn ended is taken down.
EndsAll == wpc = "close" ~> returned

=============================================================================
