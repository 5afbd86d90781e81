------------------------------ MODULE Listener ------------------------------
(***************************************************************************)
(* A BIND of the client (go/socks0/bind.go) on top of the handshake that   *)
(* Listen runs: the Listener, its Accept, which reads the second reply     *)
(* with the handshake's own reader and hands out the conn, and the calls   *)
(* of Close, SetDeadline and Accept that may come at the same time.        *)
(***************************************************************************)
EXTENDS Handshake

CONSTANTS
    Accepters,      \* goroutines that call Accept
    Closers,        \* goroutines that call Close
    MaxDeadlines    \* calls of SetDeadline

ASSUME ListenerAssumption ==
    IsFiniteSet(Accepters) /\ IsFiniteSet(Closers) /\ MaxDeadlines \in Nat

VARIABLES
    state, closed,  \* l.state, l.closed
    apc, aerr,      \* the calls of Accept, and what readSecondReply returned
    peer,           \* its address
    cpc,            \* the calls of Close
    deadlines       \* calls of SetDeadline left

lvars == <<state, closed, apc, aerr, peer, cpc, deadlines>>
vars == <<hsvars, lvars>>

TypeOK ==
    /\ HandshakeTypeOK
    /\ state \in {"listening", "accepting", "done"}
    /\ closed \in BOOLEAN
    /\ apc \in [Accepters -> {"idle", "read", "lock", "close", "clear", "conn", "err", "refused"}]
    /\ aerr \in {"nil", "closed", "eof", "reset", "timeout", "protocol", "reply", "longAuth"}
    /\ peer \in Addrs
    /\ cpc \in [Closers -> {"idle", "close", "returned", "already"}]
    /\ deadlines \in 0 .. MaxDeadlines

Init ==
    /\ Init0
    /\ state = "listening" /\ closed = FALSE
    /\ apc = [a \in Accepters |-> "idle"] /\ aerr = "nil" /\ peer = ZeroAddr
    /\ cpc = [c \in Closers |-> "idle"]
    /\ deadlines = MaxDeadlines

\* Listen has returned the Listener.
Listening == cfg.by = "Listen" /\ pc \in {"ok", "accept", "accepted"}

-----------------------------------------------------------------------------
(* Accept.                                                                 *)

\* Up to the unlock; readSecondReply forgets the first reply's bytes.
Accept(a) ==
    /\ Listening /\ apc[a] = "idle"
    /\ \/ /\ state # "listening"
          /\ apc' = [apc EXCEPT ![a] = "refused"]
          /\ UNCHANGED <<state, pc, rbuf, msgStart>>
       \/ /\ state = "listening" /\ state' = "accepting"
          /\ apc' = [apc EXCEPT ![a] = "read"]
          /\ pc' = "accept" /\ rbuf' = <<>> /\ msgStart' = 0
    /\ UNCHANGED <<cfg, method, readErr, readStage, part, bound, he, connvars, wrote, proxyvars,
                   closed, aerr, peer, cpc, deadlines>>

\* readSecondReply returns.
GotSecondReply(a) ==
    LET p == Parse(Pending) IN
    /\ apc[a] = "read" /\ ~Lacking
    /\ apc' = [apc EXCEPT ![a] = "lock"]
    /\ pc' = "accepted"
    /\ aerr' = nextReplyErr
    /\ IF nextReplyErr = "nil" THEN peer' = p.addr /\ msgStart' = msgStart + p.n
       ELSE UNCHANGED <<peer, msgStart>>
    /\ UNCHANGED <<cfg, method, rbuf, readErr, readStage, part, bound, he, connvars, wrote,
                   proxyvars, state, closed, cpc, deadlines>>

\* Mutant: Accept does not look at closed again.
AcceptedAnyway(a) ==
    /\ apc[a] = "lock"
    /\ state' = "done"
    /\ apc' = [apc EXCEPT ![a] = IF aerr = "nil" THEN "clear" ELSE "close"]
    /\ UNCHANGED <<hsvars, closed, aerr, peer, cpc, deadlines>>

\* Under the mutex again: Close may have come first.
Accepted(a) ==
    /\ apc[a] = "lock"
    /\ state' = "done"
    /\ aerr' = (IF closed THEN "closed" ELSE aerr)
    /\ apc' = [apc EXCEPT ![a] = IF aerr' = "nil" THEN "clear" ELSE "close"]
    /\ UNCHANGED <<hsvars, closed, peer, cpc, deadlines>>

AcceptFails(a) ==
    /\ apc[a] = "close" /\ apc' = [apc EXCEPT ![a] = "err"]
    /\ conn' = "closed"
    /\ UNCHANGED <<cfg, pc, hvars, he, deadline, late, ctx, watch, wrote, proxyvars,
                   state, closed, aerr, peer, cpc, deadlines>>

\* The listener's deadline is not the conn's.
AcceptReturns(a) ==
    /\ apc[a] = "clear" /\ apc' = [apc EXCEPT ![a] = "conn"]
    /\ deadline' = "none"
    /\ UNCHANGED <<cfg, pc, hvars, he, conn, late, ctx, watch, wrote, proxyvars,
                   state, closed, aerr, peer, cpc, deadlines>>

-----------------------------------------------------------------------------
(* Close and SetDeadline.                                                  *)

\* Mutant: Close leaves the conn to a pending Accept.
CloseWithoutUnblock(c) ==
    /\ Listening /\ cpc[c] = "idle"
    /\ \/ closed /\ cpc' = [cpc EXCEPT ![c] = "already"] /\ UNCHANGED <<closed, state>>
       \/ /\ ~closed /\ state # "listening" \* Accept will close the conn
          /\ closed' = (state = "accepting") /\ UNCHANGED state
          /\ cpc' = [cpc EXCEPT ![c] = "returned"]
       \/ /\ ~closed /\ state = "listening"
          /\ closed' = TRUE /\ state' = "done" /\ cpc' = [cpc EXCEPT ![c] = "close"]
    /\ UNCHANGED <<hsvars, apc, aerr, peer, deadlines>>

\* Close under the mutex.  Once closed is set, only the conn is left to close.
Close(c) ==
    /\ Listening /\ cpc[c] = "idle"
    /\ \/ closed /\ cpc' = [cpc EXCEPT ![c] = "already"] /\ UNCHANGED <<closed, state>>
       \/ /\ ~closed /\ state = "done"
          /\ cpc' = [cpc EXCEPT ![c] = "returned"] /\ UNCHANGED <<closed, state>>
       \/ /\ ~closed /\ state # "done"
          /\ closed' = TRUE /\ state' = (IF state = "listening" THEN "done" ELSE state)
          /\ cpc' = [cpc EXCEPT ![c] = "close"]
    /\ UNCHANGED <<hsvars, apc, aerr, peer, deadlines>>

CloseConn(c) ==
    /\ cpc[c] = "close" /\ cpc' = [cpc EXCEPT ![c] = "returned"]
    /\ conn' = "closed"
    /\ UNCHANGED <<cfg, pc, hvars, he, deadline, late, ctx, watch, wrote, proxyvars,
                   state, closed, apc, aerr, peer, deadlines>>

\* SetDeadline holds the mutex while it sets the conn's deadline.
SetDeadline(t) ==
    /\ Listening /\ deadlines > 0 /\ deadlines' = deadlines - 1
    /\ deadline' = (IF state # "done" /\ cfg.settable THEN t ELSE deadline)
    /\ UNCHANGED <<cfg, pc, hvars, he, conn, late, ctx, watch, wrote, proxyvars,
                   state, closed, apc, aerr, peer, cpc>>

DeadlinePasses ==
    /\ deadline = "future" /\ deadline' = "past"
    /\ UNCHANGED <<cfg, pc, hvars, he, conn, late, ctx, watch, wrote, proxyvars, lvars>>

AcceptStep(a) == GotSecondReply(a) \/ Accepted(a) \/ AcceptFails(a) \/ AcceptReturns(a)

Next ==
    \/ (HandshakeStep \/ HandshakeEnv \/ ReadNext) /\ UNCHANGED lvars
    \/ \E a \in Accepters : Accept(a) \/ AcceptStep(a)
    \/ \E c \in Closers : Close(c) \/ CloseConn(c)
    \/ \E t \in {"none", "future", "past"} : SetDeadline(t)
    \/ DeadlinePasses

Spec == Init /\ [][Next]_vars

\* Goroutines run when they can.  A Read returns when there is something to
\* return, and a proxy that has not fallen silent answers.
FairSpec ==
    /\ Spec
    /\ WF_vars((HandshakeStep \/ ReadNext) /\ UNCHANGED lvars)
    /\ WF_vars(ProxySend /\ UNCHANGED lvars)
    /\ WF_vars((\E a \in Accepters : AcceptStep(a)) \/ (\E c \in Closers : CloseConn(c)))

-----------------------------------------------------------------------------
(* Properties.                                                             *)

Prefix == {"method", "auth", "reply"}
HasConn == \E a \in Accepters : apc[a] = "conn"
Over == {"ok", "failed", "accept", "accepted"}

\* The message a failed stage is about, and whether all of it was read.
Of(kind) == {i \in DOMAIN sent : sent[i].kind = kind}
EndOf(i) == sent[i].at + Len(sent[i].bytes)
Refused(i) == ~sent[i].bad /\ sent[i].code # Granted

\* An Addr "compares as sent: an IP is unmapped" (addr.go).
AsSent(a) == [a EXCEPT !.ip = Unmap(@)]

\* The outcome says what the proxy sent.  Success needs every message, in full
\* and granting; a failure names the message that was cut, malformed or that
\* refused, and no timeout or cut hides a refusal that was read.
OutcomeTrue ==
    /\ pc \in {"clear", "ok", "accept", "accepted"} =>
         /\ \A i \in DOMAIN sent : sent[i].kind \in Prefix => Good(sent[i])
         /\ \E i \in Of("reply") : bound = AsSent(sent[i].addr)
         /\ Version = 5 /\ method # MethodNoAuth => Of("auth") # {}
    /\ pc = "failed" /\ he.stage \in Prefix =>
         /\ he.err \in {"protocol", "method", "auth", "reply"} =>
              \E i \in Of(he.stage) : ~Good(sent[i]) \/ ~checkBound(AsSent(sent[i].addr))
         /\ he.err = "eof" =>
              /\ \A i \in Of(he.stage) : EndOf(i) > taken
              /\ \A i \in DOMAIN sent : sent[i].kind \in Prefix /\ EndOf(i) <= taken => Good(sent[i])
    /\ pc = "failed" =>
         /\ \A i \in Of("reply") : Refused(i) /\ taken >= sent[i].at + 2 => he.err = "reply"
         /\ \A i \in Of("auth") : ~Good(sent[i]) /\ ~sent[i].bad /\ taken >= EndOf(i) => he.err = "auth"
    /\ HasConn => \E i \in Of("second") : Good(sent[i]) /\ peer = AsSent(sent[i].addr)
    /\ aerr = "reply" => \E i \in Of("second") : Refused(i)

\* The conn that Request, DialContext or Accept hands back is as the caller
\* expects it: open, without a deadline, and with no goroutine left that could
\* still unblock or close it when ctx is cancelled or the Listener is closed.
\* One Accept at most gets it, and none after Close took it.  A failed dial, a
\* failed Accept and Close leave no conn open; Request never closes the caller's,
\* except where a deadline cannot unblock it.
ConnOwned ==
    /\ (pc = "ok" /\ cfg.by \in {"Request", "Dial"}) \/ HasConn =>
         conn = "open" /\ deadline = "none" /\ watch \notin {"armed", "fired"}
    /\ Cardinality({a \in Accepters : apc[a] \in {"clear", "conn"}}) <= 1
    /\ HasConn => ~closed
    /\ pc = "failed" =>
         IF cfg.by = "Request" THEN conn = "open" \/ (conn = "closed" /\ ~cfg.settable /\ Fired)
         ELSE conn # "open"
    /\ pc = "ok" /\ cfg.by = "Lookup" => conn = "closed"
    /\ (\E a \in Accepters : apc[a] = "err") => conn = "closed"
    /\ closed /\ (\A c \in Closers : cpc[c] # "close") => conn = "closed"

\* p reads m alone as the whole of it, and never asks for more of a part of m
\* than m has: a reader that trusts it does not read what follows.
ReadsExactly(p(_), m) ==
    /\ p(m \o <<1, 2>>).err = "nil" /\ p(m \o <<1, 2>>).n = Len(m)
    /\ \A k \in 0 .. Len(m) - 1 :
         LET r == p(SubSeq(m, 1, k)) IN r.err = "incomplete" /\ r.n > k /\ r.n <= Len(m)

\* No byte of the wire is read by the wrong reader.  wire's parsers and encoders
\* agree on the messages of this handshake: the server reads back what the client
\* was configured to send, and no more.  And readNext "never reads past the
\* replies" (handshake.go), as Request promises "reading nothing past the first
\* reply": whatever segments the replies come in, the next byte of the conn is the
\* peer's data, or the second reply's.
WireExact ==
    /\ pc = "write" =>
         IF Version = 4
         THEN /\ ReadsExactly(ParseRequest4, out)
              /\ ParseRequest4(out).addr = cfg.target /\ ParseRequest4(out).user = UserID
         ELSE /\ ReadsExactly(ParseGreeting, greeting)
              /\ Has(ParseGreeting(greeting).methods, Offered)
              /\ UserPass => /\ ReadsExactly(ParseUserPass, authRequest)
                             /\ ParseUserPass(authRequest).user = Username
                             /\ ParseUserPass(authRequest).pass = Pass
              /\ LET request == AppendRequest(cfg.cmd, cfg.target) IN
                 ReadsExactly(ParseRequest, request) /\ ParseRequest(request).addr = cfg.target
    /\ \A i \in DOMAIN sent :
         sent[i].kind \notin Prefix \cup (IF pc \in {"accept", "accepted"} THEN {"second"} ELSE {})
         => taken <= sent[i].at
    /\ pc = "ok" => \E i \in Of("reply") : taken = EndOf(i)
    /\ HasConn => \E i \in Of("second") : taken = EndOf(i)

\* A call that something should end: a handshake whose proxy has not fallen
\* silent, or that ctx or the HandshakeTimeout unblocked; an Accept whose conn
\* ended, whose Listener was closed or whose deadline is past.
Accepting == \E a \in Accepters : apc[a] \in {"read", "lock", "close", "clear"}
Released ==
    \/ /\ pc \notin Over
       /\ proxy # "silent" \/ Fired \/ (deadline = "budget" /\ late)
    \/ /\ Accepting
       /\ closed \/ proxy \in {"EOF", "reset"} \/ deadline = "past"

\* No such call goes on for ever: it ends, or the reason goes away, which only a
\* proxy that falls silent and SetDeadline can do.
CallsEnd == []<>~Released

=============================================================================
