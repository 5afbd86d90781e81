------------------------------ MODULE Handshake ------------------------------
(***************************************************************************)
(* The client's handshake over one conn to the proxy (go/socks0:           *)
(* handshake.go, request.go, config.go, resolve.go, what dialer.go and     *)
(* conn.go's handshakeOver do around it): ModeSequential and ModePipelined *)
(* of SOCKS4 and SOCKS5, run by Request, DialContext, LookupNetIP and      *)
(* Listen.  ModeEarly's handshake of a Conn is ClientConn's.               *)
(*                                                                         *)
(* The messages are the bytes of module Wire.  The proxy answers what it   *)
(* has been sent, in messages that arrive in any segments; it may refuse,  *)
(* send nonsense, fall silent or end the conn in the middle of a message.  *)
(***************************************************************************)
EXTENDS Wire, FiniteSets

CONSTANTS
    Configs,        \* the calls: see ConfigType
    Methods,        \* METHODs a proxy may select
    Statuses,       \* its RFC 1929 STATUSes
    Reps, Reps4,    \* its REPs, and its CDs
    Bounds,         \* its BNDs
    Username, Password,
    CustomReplies,  \* what a custom Pipeliner's server may answer
    MaxReplyBytes

CmdConnect == 1
CmdBind == 2
CmdUDPAssociate == 3
CmdTorResolve == 240

MethodCustom == 128

Cmds == {CmdConnect, CmdBind, CmdUDPAssociate, CmdTorResolve}
Versions == {4, 5, 6}

ConfigType ==
    [by: {"Request", "Dial", "Lookup", "Listen"}, cmd: Cmds,
     version: Versions, mode: {"sequential", "pipelined", "early"},
     \* userid: a UserPass without Password.  custom: another Pipeliner.
     \* interactive: no Pipeliner.  bad: one whose values init refuses.
     auth: {"none", "userid", "userpass", "custom", "interactive", "bad"},
     offerNoAuth: BOOLEAN,
     target: Addrs,
     cancel: BOOLEAN,                  \* the caller's ctx can be cancelled
     budget: {"none", "conn", "ctx"},  \* the HandshakeTimeout, as dialTimeout applies it
     settable: BOOLEAN]                \* the conn can set deadlines

ASSUME HandshakeAssumption ==
    /\ \A c \in Configs :
         /\ c \in ConfigType
         /\ c.mode = "early" => c.cmd # CmdConnect
         /\ c.by = "Listen" => c.cmd = CmdBind
         /\ c.by = "Lookup" => c.cmd = CmdTorResolve
         /\ c.by = "Dial" => c.cmd = CmdConnect
         /\ c.by = "Request" => c.budget = "none"
         /\ IsValid(c.target) => c.target \in ValidAddrs /\ Unmap(c.target.ip) = c.target.ip
    /\ Methods \cup Statuses \cup Reps \cup Reps4 \subseteq Bytes
    /\ Bounds \subseteq ValidAddrs
    /\ \A u \in {Username, Password} : u \in Seq(Bytes) /\ Len(u) <= 255
    /\ \A r \in CustomReplies : r \in Seq(Bytes) /\ Len(r) > 1 /\ Len(r) = 1 + r[1]
    /\ MaxReplyBytes \in Nat \ {0}

VARIABLES
    cfg,
    pc,                     \* where the call is
    method, rbuf, msgStart, \* h.method, the bytes read, where the next message starts
    readErr, readStage,
    part,                   \* Authenticate's own buffer, and the bytes it waits for
    bound,
    he,                     \* the *HandshakeError
    conn,                   \* "none", "open", "closed"
    deadline, late,         \* the conn's deadline; the HandshakeTimeout has passed
    ctx, watch,             \* ctx is live or done; its AfterFunc
    wrote,                  \* what the proxy got: 0 nothing, 1 greeting, 2 auth, 3 request
    sent, stream, taken,    \* its messages, their bytes, how many of them were read
    proxy                   \* "sending", "silent", or how it ended: "EOF", "reset"

hvars == <<method, rbuf, msgStart, readErr, readStage, part, bound>>
connvars == <<conn, deadline, late, ctx, watch>>
proxyvars == <<sent, stream, taken, proxy>>
hsvars == <<cfg, pc, hvars, he, connvars, wrote, proxyvars>>

\* A message of the proxy: its METHOD, STATUS, REP or CD, its BND, its bytes and
\* how many bytes the proxy had sent before it.  A bad one is malformed.
MessageType ==
    [kind: {"method", "auth", "reply", "second", "data"}, bad: BOOLEAN,
     code: Bytes, addr: Addrs, bytes: Seq(Bytes), at: Nat]

NoErr == [stage |-> "none", err |-> "nil"]
Stages == {"config", "dial", "greeting", "authReq", "request", "method", "auth", "reply"}
Errs == {"config", "dial", "reset", "timeout", "closed", "eof", "protocol", "method",
         "auth", "reply", "longAuth", "ctx", "deadline"}
\* isServerMsgErr: errors that say what the proxy sent (eof: a cut message).
ServerMsgErrs == {"eof", "protocol", "method", "auth", "reply"}

HandshakeTypeOK ==
    /\ cfg \in Configs
    /\ pc \in {"config", "dial", "write", "method", "auth", "authWrite", "authRead",
               "request", "reply", "settle", "clear", "ok", "failed", "accept", "accepted"}
    /\ method \in Bytes
    /\ rbuf \in Seq(Bytes) /\ Len(rbuf) <= MaxReplyBytes
    /\ msgStart \in 0 .. Len(rbuf)
    /\ readErr \in {"nil", "EOF", "reset", "timeout", "closed"}
    /\ readStage \in Stages
    /\ part \in [b: Seq(Bytes), need: Nat]
    /\ bound \in Addrs
    /\ he = NoErr \/ he \in [stage: Stages, err: Errs]
    /\ conn \in {"none", "open", "closed"}
    /\ deadline \in {"none", "budget", "future", "past"}
    /\ late \in BOOLEAN
    /\ ctx \in {"live", "done"}
    /\ watch \in {"none", "armed", "fired", "ran", "stopped"}
    /\ wrote \in 0 .. 3
    /\ sent \in Seq(MessageType)
    /\ stream \in Seq(Bytes) /\ taken \in 0 .. Len(stream)
    /\ proxy \in {"sending", "silent", "EOF", "reset"}

-----------------------------------------------------------------------------
(* The configuration: init, init5, setAuth, init4, setTarget.              *)

Mode == IF cfg.mode = "early" /\ cfg.cmd # CmdConnect THEN "pipelined" ELSE cfg.mode
Version == IF cfg.version = 4 THEN 4 ELSE 5
UserPass == cfg.auth \in {"userid", "userpass"}
Pass == IF cfg.auth = "userpass" THEN Password ELSE <<>>
HasPipe == UserPass \/ cfg.auth = "custom"
Sequential5 == Mode = "sequential" /\ Version = 5

\* h.offered.
Offered ==
    CASE cfg.auth = "none" -> MethodNoAuth
      [] UserPass -> MethodUserPass
      [] OTHER -> MethodCustom

\* setAuth, asUserPass and preparePipelined refuse a nil *UserPass,
\* MethodNoAcceptable and values that are too long.
init5OK ==
    /\ cfg.offerNoAuth => Mode = "sequential"
    /\ cfg.auth # "bad"
    /\ cfg.auth = "interactive" => Mode = "sequential"

init4OK ==
    /\ ~cfg.offerNoAuth
    /\ cfg.cmd \in {CmdConnect, CmdBind}
    /\ cfg.auth \in {"none", "userid"}

UserID == IF cfg.auth = "userid" THEN Username ELSE <<>>

\* init and then setTarget, which encodes the request.
initOK ==
    CASE cfg.version = 5 -> init5OK /\ IsValid(cfg.target)
      [] cfg.version = 4 -> init4OK /\ checkRequest4(cfg.target, UserID)
      [] OTHER -> FALSE

\* The custom Pipeliner's request is two bytes; its reply is a length and that
\* many bytes, the first 0 if it grants access.
CustomRequest == <<7, 7>>
ParseCustom(b) ==
    IF b = <<>> THEN Incomplete(1)
    ELSE IF Len(b) < 1 + b[1] THEN Incomplete(1 + b[1])
    ELSE [err |-> "nil", n |-> 1 + b[1], status |-> b[2]]

\* h.out: append5, or AppendRequest4.
greeting ==
    AppendGreeting(IF cfg.offerNoAuth /\ Offered # MethodNoAuth
                   THEN <<Offered, MethodNoAuth>> ELSE <<Offered>>)
authRequest ==
    CASE UserPass -> AppendUserPass(Username, Pass)
      [] cfg.auth = "custom" -> CustomRequest
      [] OTHER -> <<>>
pipelinedAuth == IF Mode = "sequential" THEN <<>> ELSE authRequest
out ==
    IF Version = 4 THEN AppendRequest4(cfg.cmd, cfg.target, UserID)
    ELSE greeting \o pipelinedAuth \o AppendRequest(cfg.cmd, cfg.target)

\* Pipeliner.ParseReply, with statusErr.
ParseAuthReply(b) ==
    LET p == IF UserPass THEN ParseUserPassStatus(b) ELSE ParseCustom(b)
    IN IF p.err = "nil" /\ p.status # 0 THEN [err |-> "auth", n |-> p.n] ELSE p

\* What ParseReply asks for when it has nothing yet.
authMin == IF HasPipe THEN ParseAuthReply(<<>>).n ELSE 0

\* The stage to blame when the write ended after n bytes of out.
writeStage(n) ==
    CASE Version = 4 -> "request"
      [] Version = 5 /\ n < Len(greeting) -> "greeting"
      [] Version = 5 /\ n >= Len(greeting) /\ n < Len(greeting \o pipelinedAuth) -> "authReq"
      [] OTHER -> "request"

Init0 ==
    /\ cfg \in Configs
    /\ pc = "config"
    /\ method = 0 /\ rbuf = <<>> /\ msgStart = 0 /\ readErr = "nil"
    /\ readStage = (IF Version = 4 THEN "reply" ELSE "method")
    /\ part = [b |-> <<>>, need |-> 0]
    /\ bound = ZeroAddr
    /\ he = NoErr
    /\ conn = (IF cfg.by = "Request" THEN "open" ELSE "none")
    /\ deadline = "none" /\ late = FALSE
    /\ ctx = "live" /\ watch = "none"
    /\ wrote = 0 /\ sent = <<>> /\ stream = <<>> /\ taken = 0 /\ proxy = "sending"

Fail(stage, err) == he' = [stage |-> stage, err |-> err]

Cancellable == cfg.cancel \/ cfg.budget = "ctx"

\* handshakeOver's AfterFunc, if ctx has a Done.
StartWatch == watch' = IF Cancellable THEN "armed" ELSE watch

\* newConn, or Request up to handshakeOver.
Configure ==
    /\ pc = "config"
    /\ \/ ~initOK /\ pc' = "failed" /\ Fail("config", "config") /\ UNCHANGED watch
       \/ initOK /\ cfg.by = "Request" /\ pc' = "write" /\ StartWatch /\ UNCHANGED he
       \/ initOK /\ cfg.by # "Request" /\ pc' = "dial" /\ UNCHANGED <<he, watch>>
    /\ UNCHANGED <<cfg, hvars, conn, deadline, late, ctx, wrote, proxyvars>>

\* connect, dialProxy, dialErr: a ProxyDial may return both a conn and an error,
\* and one that ignores ctx may return a conn after ctx is done.
Dial ==
    /\ pc = "dial"
    /\ \/ pc' = "failed" /\ Fail("dial", "dial")
          /\ conn' \in {"none", "closed"} /\ UNCHANGED <<deadline, watch>>
       \/ ctx = "done" /\ pc' = "failed" /\ Fail("dial", "ctx")
          /\ conn' = "closed" /\ UNCHANGED <<deadline, watch>>
       \/ ctx = "live" /\ pc' = "write" /\ conn' = "open"
          /\ deadline' = (IF cfg.budget = "conn" /\ cfg.settable THEN "budget" ELSE "none")
          /\ StartWatch /\ UNCHANGED he
    /\ UNCHANGED <<cfg, hvars, late, ctx, wrote, proxyvars>>

-----------------------------------------------------------------------------
(* The conn.                                                               *)

Min2(a, b) == IF a < b THEN a ELSE b
Max2(a, b) == IF a > b THEN a ELSE b

Expired == deadline = "past" \/ (deadline = "budget" /\ late)

\* Why I/O on the conn fails at once, if it does.
IOError ==
    CASE conn = "closed" -> "closed"
      [] conn # "closed" /\ Expired -> "timeout"
      [] OTHER -> "nil"

\* What a Read into want bytes may return.  Bytes that were not read when the
\* proxy stops stand for bytes that never arrived.
ReadResults(want) ==
    CASE IOError # "nil" -> {[m |-> 0, err |-> IOError]}
      [] IOError = "nil" /\ proxy \in {"EOF", "reset"} -> {[m |-> 0, err |-> proxy]}
      [] IOError = "nil" /\ proxy = "sending" ->
           [m: 1 .. Min2(want, Len(stream) - taken), err: {"nil", "EOF"}]
      [] OTHER -> {}

\* A Read that returned r.
DidRead(r) ==
    /\ taken' = taken + r.m
    /\ proxy' = (IF r.err = "EOF" THEN "EOF" ELSE proxy)

IOErrs == {"EOF", "reset", "timeout", "closed"}
Segment(r) == SubSeq(stream, taken + 1, taken + r.m)

\* firstWrite and Write: either everything is written, or n bytes and an error.
WriteFails(n, len, err) ==
    /\ n \in 0 .. len - 1
    /\ err = (IF IOError = "nil" THEN "reset" ELSE IOError)

-----------------------------------------------------------------------------
(* run, runSequential and readReplies.                                     *)

AfterWrite == IF Version = 4 THEN "reply" ELSE "method"

\* All of out, or the greeting in ModeSequential.
Write ==
    /\ pc = "write"
    /\ \/ /\ IOError = "nil" /\ pc' = AfterWrite
          /\ wrote' = (IF Sequential5 THEN 1 ELSE 3) /\ UNCHANGED he
       \/ \E n \in 0 .. Len(out), err \in IOErrs :
             /\ WriteFails(n, Len(IF Sequential5 THEN greeting ELSE out), err)
             /\ Fail(IF Sequential5 THEN "greeting" ELSE writeStage(n), err)
             /\ pc' = "settle" /\ UNCHANGED wrote
    /\ UNCHANGED <<cfg, hvars, connvars, proxyvars>>

\* ModeSequential's request.
WriteRequest ==
    /\ pc = "request"
    /\ \/ IOError = "nil" /\ pc' = "reply" /\ wrote' = 3 /\ UNCHANGED he
       \/ \E err \in IOErrs :
             WriteFails(0, 1, err) /\ Fail("request", err) /\ pc' = "settle" /\ UNCHANGED wrote
    /\ UNCHANGED <<cfg, hvars, connvars, proxyvars>>

\* authenticate: the Authenticator's request.  countingWriter tells a request
\* that was not written in full, if authLen is known, from what came after.
AuthWrite ==
    /\ pc = "authWrite"
    /\ \/ IOError = "nil" /\ pc' = "authRead" /\ wrote' = 2 /\ UNCHANGED he
       \/ \E err \in IOErrs :
             /\ WriteFails(0, 1, err) /\ Fail(IF HasPipe THEN "authReq" ELSE "auth", err)
             /\ pc' = "settle" /\ UNCHANGED wrote
    /\ UNCHANGED <<cfg, hvars, connvars, proxyvars>>

\* neterr.Truncated and readFailure: an EOF cuts the message short.
Truncated(err) == IF err = "EOF" THEN "eof" ELSE err

\* wire.read for UserPass.Authenticate: io.ReadFull of what the parser lacks.
AuthRead ==
    LET p == ParseAuthReply(part.b)
        waiting == Len(part.b) < part.need
    IN
    /\ pc = "authRead"
    /\ \/ /\ ~waiting /\ p.err = "incomplete"
          /\ part' = [part EXCEPT !.need = p.n]
          /\ UNCHANGED <<pc, he, taken, proxy>>
       \/ /\ ~waiting /\ p.err = "nil" /\ pc' = "request"
          /\ UNCHANGED <<part, he, taken, proxy>>
       \/ /\ ~waiting /\ p.err \in {"auth", "protocol"}
          /\ pc' = "settle" /\ Fail("auth", p.err)
          /\ UNCHANGED <<part, taken, proxy>>
       \/ /\ waiting
          /\ \E r \in ReadResults(part.need - Len(part.b)) :
               /\ DidRead(r)
               /\ part' = [part EXCEPT !.b = @ \o Segment(r)]
               /\ LET q == ParseAuthReply(part'.b) IN
                  IF r.err = "nil" \/ Len(part'.b) = part.need \* ReadFull has them all
                  THEN UNCHANGED <<pc, he>>
                  ELSE /\ pc' = "settle"
                       /\ Fail("auth", IF q.err = "incomplete" THEN Truncated(r.err) ELSE q.err)
    /\ UNCHANGED <<cfg, method, rbuf, msgStart, readErr, readStage, bound, connvars, wrote, sent, stream>>

-----------------------------------------------------------------------------
(* readNext, and what follows each message.                                *)

Pending == SubSeq(rbuf, msgStart + 1, Len(rbuf))

\* The message readNext is after.
Parse(b) ==
    CASE pc = "method" -> ParseMethodSelection(b)
      [] pc = "auth" -> ParseAuthReply(b)
      [] pc \in {"reply", "accept"} ->
           IF Version = 4 THEN ParseReply4(b) ELSE ParseReply(b, cfg.cmd = CmdTorResolve)

\* Mutant: the shortest reply is taken to be an IPv4 one.
AheadOfIPv4 ==
    CASE pc = "method" /\ ~Sequential5 -> 10 + authMin
      [] pc = "auth" -> 10
      [] OTHER -> 0

\* The bytes sure to follow the message: the shortest reply is longer than 5.
ahead ==
    CASE pc = "method" /\ ~Sequential5 -> 5 + authMin
      [] pc = "auth" -> 5
      [] OTHER -> 0

need == msgStart + Max2(Parse(Pending).n, Len(Pending) + 1) + ahead

Reading == pc \in {"method", "auth", "reply", "accept"}
\* Mutant: a custom Pipeliner may ask for any length.
LackingUnbounded == Parse(Pending).err = "incomplete" /\ readErr = "nil"
\* More is read unless it is more than maxReplyBytes.  (The first buffer, of
\* 24 + authMin bytes, is taken to be no longer than that.)
Lacking == Parse(Pending).err = "incomplete" /\ readErr = "nil" /\ need <= MaxReplyBytes

\* A Read of at most the missing bytes and those ahead.
ReadNext ==
    /\ Reading /\ Lacking
    /\ \E r \in ReadResults(need - Len(rbuf)) :
         /\ DidRead(r)
         /\ rbuf' = rbuf \o Segment(r)
         /\ readErr' = r.err
    /\ UNCHANGED <<cfg, pc, method, msgStart, readStage, part, bound, he, connvars, wrote, sent, stream>>

\* What readNext returns once it has a message, or cannot have it.
readNextErr ==
    LET p == Parse(Pending) IN
    CASE p.err # "incomplete" -> p.err
      [] p.err = "incomplete" /\ readErr # "nil" -> Truncated(readErr)
      [] OTHER -> "longAuth"

Goto(stage, at) == pc' = at /\ readStage' = stage /\ UNCHANGED he
FailRead(err) == pc' = "settle" /\ Fail(readStage, err) /\ UNCHANGED readStage

\* h.offerNoAuth lets the proxy skip the authentication.
MethodOK(m) ==
    m = Offered \/ (cfg.offerNoAuth /\ m = MethodNoAuth)

\* readMethod, and where the replies go on.
GotMethod ==
    LET p == Parse(Pending) IN
    /\ pc = "method" /\ ~Lacking
    /\ IF readNextErr # "nil"
       THEN FailRead(readNextErr) /\ UNCHANGED <<msgStart, method>>
       ELSE /\ msgStart' = msgStart + p.n /\ method' = p.method
            /\ \/ ~MethodOK(p.method) /\ FailRead("method")
               \/ MethodOK(p.method) /\ Sequential5
                  /\ Goto(readStage, IF cfg.auth # "none" /\ p.method = Offered
                                     THEN "authWrite" ELSE "request")
               \/ MethodOK(p.method) /\ ~Sequential5
                  /\ Goto(IF HasPipe THEN "auth" ELSE "reply", IF HasPipe THEN "auth" ELSE "reply")
    /\ UNCHANGED <<cfg, rbuf, readErr, part, bound, connvars, wrote, proxyvars>>

GotAuth ==
    /\ pc = "auth" /\ ~Lacking
    /\ IF readNextErr # "nil"
       THEN FailRead(readNextErr) /\ UNCHANGED msgStart
       ELSE msgStart' = msgStart + Parse(Pending).n /\ Goto("reply", "reply")
    /\ UNCHANGED <<cfg, method, rbuf, readErr, part, bound, connvars, wrote, proxyvars>>

\* Mutant: a refusal counts once the whole reply is there.
RefusedInFull ==
    IF readNextErr = "nil" /\ Parse(Pending).rep # (IF Version = 4 THEN Reply4Granted ELSE ReplySucceeded)
    THEN "reply" ELSE readNextErr

\* nextReply: a refusal counts as soon as VER and REP are there.
nextReplyErr ==
    LET p == Parse(Pending)
        gotVerRep == Len(Pending) > 1 /\ Pending[1] = (IF Version = 4 THEN 0 ELSE Version5)
    IN IF gotVerRep /\ p.rep # (IF Version = 4 THEN Reply4Granted ELSE ReplySucceeded)
       THEN "reply" ELSE readNextErr

\* checkBound: a BND that the command cannot use.
checkBound(a) ==
    /\ cfg.cmd \in {CmdUDPAssociate, CmdBind} => a.port # 0
    /\ cfg.cmd = CmdTorResolve => a.ip # <<>>

GotReply ==
    LET p == Parse(Pending) IN
    /\ pc = "reply" /\ ~Lacking
    /\ readStage' = "reply"
    /\ IF nextReplyErr # "nil"
       THEN pc' = "settle" /\ Fail("reply", nextReplyErr) /\ UNCHANGED <<msgStart, bound>>
       ELSE /\ msgStart' = msgStart + p.n
            /\ pc' = "settle"
            /\ IF checkBound(p.addr)
               THEN bound' = p.addr /\ UNCHANGED he
               ELSE Fail("reply", "protocol") /\ UNCHANGED bound
    /\ UNCHANGED <<cfg, method, rbuf, readErr, part, connvars, wrote, proxyvars>>

-----------------------------------------------------------------------------
(* handshakeOver's end, connect's, and ctx.                                *)

Fired == watch \in {"fired", "ran"}

\* Mutant: the AfterFunc is left to run.
NoStop == UNCHANGED watch

\* stop: the AfterFunc will not start any more, unless it already has.
StopWatch == watch' = IF watch = "armed" THEN "stopped" ELSE watch

\* blame, given that stop said whether ctx fired.
blame ==
    CASE he.err \in ServerMsgErrs -> he
      [] he.err \notin ServerMsgErrs /\ Fired ->
           [stage |-> IF he = NoErr THEN readStage ELSE he.stage, err |-> "ctx"]
      [] he.err = "timeout" /\ ~Fired /\ cfg.budget = "conn" /\ late ->
           [he EXCEPT !.err = "deadline"]
      [] OTHER -> he

\* closeOnErr: a Dialer's conn is closed, a caller of Request keeps its own.
Settle ==
    /\ pc = "settle"
    /\ StopWatch
    /\ he' = blame
    /\ IF blame # NoErr
       THEN pc' = "failed" /\ conn' = (IF cfg.by = "Request" THEN conn ELSE "closed")
       ELSE pc' = (IF cfg.by = "Request" THEN "ok" ELSE "clear") /\ UNCHANGED conn
    /\ UNCHANGED <<cfg, hvars, deadline, late, ctx, wrote, proxyvars>>

\* connect clears the deadline; its deferred cancel then ends the budget's ctx.
\* lookup closes the conn.
Clear ==
    /\ pc = "clear"
    /\ pc' = "ok" /\ deadline' = "none"
    /\ ctx' = (IF cfg.budget = "ctx" THEN "done" ELSE ctx)
    /\ conn' = (IF cfg.by = "Lookup" THEN "closed" ELSE conn)
    /\ UNCHANGED <<cfg, hvars, he, late, watch, wrote, proxyvars>>

CtxDone ==
    /\ Cancellable /\ ctx = "live" /\ ctx' = "done"
    /\ UNCHANGED <<cfg, pc, hvars, he, conn, deadline, late, watch, wrote, proxyvars>>

FireWatch ==
    /\ watch = "armed" /\ ctx = "done" /\ watch' = "fired"
    /\ UNCHANGED <<cfg, pc, hvars, he, conn, deadline, late, ctx, wrote, proxyvars>>

\* unblock: a past deadline or, on a conn that has none, Close.
Unblock ==
    /\ watch = "fired" /\ watch' = "ran"
    /\ IF cfg.settable THEN deadline' = "past" /\ UNCHANGED conn
       ELSE conn' = "closed" /\ UNCHANGED deadline
    /\ UNCHANGED <<cfg, pc, hvars, he, late, ctx, wrote, proxyvars>>

\* The HandshakeTimeout passes.
BudgetPasses ==
    /\ deadline = "budget" /\ ~late /\ late' = TRUE
    /\ UNCHANGED <<cfg, pc, hvars, he, conn, deadline, ctx, watch, wrote, proxyvars>>

-----------------------------------------------------------------------------
(* The proxy: it answers what it has been sent.                            *)

Message(kind, code, addr, bytes) ==
    [kind |-> kind, bad |-> FALSE, code |-> code, addr |-> addr, bytes |-> bytes, at |-> Len(stream)]
Malformed(kind, bytes) ==
    [kind |-> kind, bad |-> TRUE, code |-> 0, addr |-> ZeroAddr, bytes |-> bytes, at |-> Len(stream)]

\* Methods it may select, or a message of another version.
MethodMsgs ==
    {Message("method", m, ZeroAddr, AppendMethodSelection(m)) : m \in Methods}
    \cup {Malformed("method", <<72, 84>>)}

AuthMsgs ==
    CASE UserPass -> {Message("auth", st, ZeroAddr, AppendUserPassStatus(st)) : st \in Statuses}
                     \cup {Malformed("auth", <<5, 0>>)}
      [] OTHER -> {Message("auth", r[2], ZeroAddr, r) : r \in CustomReplies}

Granted == IF Version = 4 THEN Reply4Granted ELSE ReplySucceeded

BadReply(atyp) == <<5, 0, 0, atyp, 0, 0, 0, 0, 0, 0>>

\* Replies with any REP and BND; one with an unknown ATYP, one with an empty
\* name, or Tor's ATYP 0.
ReplyMsgs(kind) ==
    IF Version = 4
    THEN {Message(kind, r, a, AppendReply4(r, a)) : r \in Reps4, a \in {b \in Bounds : Len(b.ip) = 4}}
    ELSE {Message(kind, r, a, AppendReply(r, a)) : r \in Reps, a \in Bounds}
         \cup {Malformed(kind, BadReply(atyp)) :
                 atyp \in IF cfg.cmd = CmdTorResolve THEN {0} ELSE {3, 9}}

Last1 == sent[Len(sent)]
\* The message lets the handshake go on.
Good(m) ==
    /\ ~m.bad
    /\ CASE m.kind = "method" -> MethodOK(m.code)
         [] m.kind = "auth" -> m.code = 0
         [] m.kind \in {"reply", "second"} -> m.code = Granted
         [] OTHER -> FALSE

\* The messages that may come next.  The peer's data follows the last reply.
NextMessages ==
    LET replies == IF wrote = 3 THEN ReplyMsgs("reply") ELSE {}
        data == {Message("data", 0, ZeroAddr, <<42>>)}
    IN CASE sent = <<>> /\ Version = 4 -> replies
         [] sent = <<>> /\ Version = 5 -> IF wrote >= 1 THEN MethodMsgs ELSE {}
         [] sent # <<>> ->
              CASE ~Good(Last1) -> {}
                [] Good(Last1) /\ Last1.kind = "method" ->
                     IF Last1.code = MethodNoAuth THEN replies
                     ELSE IF wrote >= 2 THEN AuthMsgs ELSE {}
                [] Good(Last1) /\ Last1.kind = "auth" -> replies
                [] Good(Last1) /\ Last1.kind = "reply" ->
                     IF cfg.cmd = CmdBind THEN ReplyMsgs("second") ELSE data
                [] Good(Last1) /\ Last1.kind = "second" -> data
                [] OTHER -> {}

ProxySend ==
    /\ proxy = "sending"
    /\ \E m \in NextMessages : sent' = Append(sent, m) /\ stream' = stream \o m.bytes
    /\ UNCHANGED <<cfg, pc, hvars, he, connvars, wrote, taken, proxy>>

ProxyStops ==
    /\ proxy = "sending" /\ pc # "config"
    /\ proxy' \in {"silent", "EOF", "reset"}
    /\ UNCHANGED <<cfg, pc, hvars, he, connvars, wrote, sent, stream, taken>>

HandshakeStep ==
    \/ Configure \/ Dial \/ Write \/ WriteRequest \/ AuthWrite \/ AuthRead
    \/ GotMethod \/ GotAuth \/ GotReply \/ Settle \/ Clear
    \/ FireWatch \/ Unblock

HandshakeEnv == CtxDone \/ BudgetPasses \/ ProxySend \/ ProxyStops

=============================================================================
