--------------------------- MODULE ListenerProofs ---------------------------
(***************************************************************************)
(* Proofs about Listener and the Handshake below it, for every call and    *)
(* configuration, any replies of the proxy in any segments, and any number *)
(* of goroutines that call Accept and Close.                               *)
(***************************************************************************)
EXTENDS Listener, TLAPS, FiniteSetTheorems, SequenceTheorems

-----------------------------------------------------------------------------
(* Who has the conn: the inductive invariant.                              *)

\* The values of the variables that say who has the conn.
Control ==
    /\ cfg \in Configs
    /\ pc \in {"config", "dial", "write", "method", "auth", "authWrite", "authRead",
               "request", "reply", "settle", "clear", "ok", "failed", "accept", "accepted"}
    /\ conn \in {"none", "open", "closed"}
    /\ deadline \in {"none", "budget", "future", "past"}
    /\ watch \in {"none", "armed", "fired", "ran", "stopped"}
    /\ state \in {"listening", "accepting", "done"}
    /\ closed \in BOOLEAN
    /\ apc \in [Accepters -> {"idle", "read", "lock", "close", "clear", "conn", "err", "refused"}]
    /\ cpc \in [Closers -> {"idle", "close", "returned", "already"}]

\* handshakeOver's stages, and connect's after it.
Running == {"write", "method", "auth", "authWrite", "authRead", "request", "reply", "settle"}
Succeeded == {"clear", "ok", "accept", "accepted"}

\* Whose the conn is until the call returns.  ctx's AfterFunc is stopped, or the
\* call fails.
Dialled ==
    /\ pc \in {"config", "dial"} =>
         watch = "none" /\ conn = (IF cfg.by = "Request" THEN "open" ELSE "none")
    /\ pc = "dial" => cfg.by # "Request"
    /\ pc \in Running => conn = "open" \/ (conn = "closed" /\ ~cfg.settable /\ Fired)
    /\ pc = "failed" =>
         IF cfg.by = "Request" THEN conn = "open" \/ (conn = "closed" /\ ~cfg.settable /\ Fired)
         ELSE conn # "open"
    /\ pc \in Succeeded => watch \notin {"armed", "fired", "ran"}
    /\ pc = "clear" => cfg.by # "Request" /\ conn = "open"
    /\ pc = "ok" /\ cfg.by = "Lookup" => conn = "closed"
    /\ pc = "ok" /\ cfg.by \in {"Request", "Dial"} => conn = "open"

\* A deadline that Listen's caller did not set is the budget's or ctx's.
DeadlineOf ==
    /\ deadline = "future" => cfg.by = "Listen" /\ pc \in Succeeded \ {"clear"}
    /\ cfg.by = "Request" => deadline = "none" \/ watch = "ran"
    /\ pc = "ok" /\ cfg.by \in {"Request", "Dial"} => deadline = "none"
    /\ \A a \in Accepters : apc[a] = "conn" => deadline = "none"

\* What l.mu guards: one Accept has the conn, until Close or a failure takes it.
Taking == {"read", "lock", "close", "clear", "conn", "err"}
Guarded ==
    /\ pc \in {"accept", "accepted"} => cfg.by = "Listen"
    /\ \A a \in Accepters : apc[a] # "idle" => pc \in {"ok", "accept", "accepted"} /\ cfg.by = "Listen"
    /\ \A a, b \in Accepters : apc[a] \in Taking /\ apc[b] \in Taking => a = b
    /\ \A a \in Accepters :
         /\ apc[a] \in Taking => state # "listening"
         /\ apc[a] \in {"read", "lock"} <=> apc[a] \in Taking /\ state = "accepting"
         /\ apc[a] \in {"clear", "conn"} => ~closed
         /\ apc[a] = "err" => conn = "closed"
    /\ \A c \in Closers :
         cpc[c] = "close" => closed /\ pc \in {"ok", "accept", "accepted"} /\ cfg.by = "Listen"
    /\ closed /\ (\A c \in Closers : cpc[c] # "close") => conn = "closed"
    /\ closed => state # "listening"
    /\ Listening /\ ~closed /\ (\A a \in Accepters : apc[a] # "err") => conn = "open"

OwnerInv == Control /\ Dialled /\ DeadlineOf /\ Guarded

\* A call whose ctx fired fails (blame).
LEMMA FiredFails ==
    ASSUME Fired
    PROVE  blame # NoErr
<1>1. CASE he.err \in ServerMsgErrs
  <2>1. blame = he
    BY <1>1 DEF blame, ServerMsgErrs
  <2>2. NoErr.err \notin ServerMsgErrs
    BY DEF NoErr, ServerMsgErrs
  <2> QED
    BY <1>1, <2>1, <2>2
<1>2. CASE he.err \notin ServerMsgErrs
  <2>1. blame = [stage |-> IF he = NoErr THEN readStage ELSE he.stage, err |-> "ctx"]
    BY <1>2 DEF blame
  <2>2. blame.err # NoErr.err
    BY <2>1 DEF NoErr
  <2> QED
    BY <2>2
<1> QED
  BY <1>1, <1>2

\* A step of the handshake that leaves the conn alone.
LEMMA OwnerKept ==
    ASSUME OwnerInv, UNCHANGED <<cfg, conn, deadline, watch, lvars>>,
           pc' = pc \/ (pc \in Running /\ pc' \in Running)
    PROVE  OwnerInv'
<1>1. Control'
  BY DEF OwnerInv, Control, lvars, Running
<1>2. Dialled'
  BY DEF OwnerInv, Control, Dialled, Running, Succeeded, Fired, lvars
<1>3. DeadlineOf'
  BY DEF OwnerInv, DeadlineOf, Running, Succeeded, lvars
<1>4. Guarded'
  BY DEF OwnerInv, Guarded, Running, Listening, lvars
<1> QED
  BY <1>1, <1>2, <1>3, <1>4 DEF OwnerInv

\* While the handshake runs nobody has a Listener.
LEMMA NoListener ==
    ASSUME OwnerInv, pc \in Running \cup {"config", "dial", "clear", "failed"}
    PROVE  /\ \A a \in Accepters : apc[a] = "idle"
           /\ \A c \in Closers : cpc[c] # "close"
           /\ deadline # "future"
BY DEF OwnerInv, Control, DeadlineOf, Guarded, Running, Succeeded

\* A call starts with the invariant.
LEMMA OwnerInit == Init => OwnerInv
<1> SUFFICES ASSUME Init PROVE OwnerInv
  OBVIOUS
<1>1. Control
  BY Zenon DEF Init, Init0, Control
<1>2. Dialled
  BY DEF Init, Init0, Dialled, Running, Succeeded
<1>3. DeadlineOf
  BY DEF Init, Init0, DeadlineOf
<1>4. Guarded
  BY DEF Init, Init0, Guarded, Taking, Listening
<1> QED
  BY <1>1, <1>2, <1>3, <1>4 DEF OwnerInv

\* Up to handshakeOver.
LEMMA ConfigureOwner == ASSUME OwnerInv, Configure, UNCHANGED lvars PROVE OwnerInv'
<1> USE DEF Configure, OwnerInv, StartWatch
<1>1. Control'
  BY DEF Control, lvars
<1>2. Dialled'
  BY DEF Control, Dialled, Running, Succeeded, Fired
<1>3. DeadlineOf'
  BY DEF DeadlineOf, Dialled, Succeeded, lvars
<1>4. Guarded'
  BY NoListener DEF Guarded, Listening, lvars
<1> QED
  BY <1>1, <1>2, <1>3, <1>4

\* Dial makes the conn that the call owns.
LEMMA DialOwner == ASSUME OwnerInv, Dial, UNCHANGED lvars PROVE OwnerInv'
<1> USE DEF Dial, OwnerInv, StartWatch
<1>1. Control'
  BY DEF Control, lvars
<1>2. Dialled'
  BY DEF Control, Dialled, Running, Succeeded, Fired
<1>3. DeadlineOf'
  <2>1. cfg' = cfg /\ cfg.by # "Request" /\ pc' \in {"failed", "write"} /\ apc' = apc
    BY DEF Dialled, lvars
  <2>2. deadline # "future" /\ \A a \in Accepters : apc[a] = "idle"
    BY NoListener
  <2>3. deadline' # "future"
    BY <2>2
  <2> QED
    BY <2>1, <2>2, <2>3 DEF DeadlineOf
<1>4. Guarded'
  <2>1. cfg' = cfg /\ pc' \in {"failed", "write"} /\ UNCHANGED <<apc, cpc, closed, state>>
    BY DEF lvars
  <2>2. (\A a \in Accepters : apc[a] = "idle") /\ (\A c \in Closers : cpc[c] # "close")
    BY NoListener
  <2> QED
    BY <2>1, <2>2 DEF Guarded, Dialled, Listening
<1> QED
  BY <1>1, <1>2, <1>3, <1>4

\* stop keeps an AfterFunc from starting; one that started makes the call fail.
LEMMA SettleOwner == ASSUME OwnerInv, Settle, UNCHANGED lvars PROVE OwnerInv'
<1> USE DEF Settle, OwnerInv
<1>1. watch' \notin {"armed"} /\ (watch # "armed" => watch' = watch)
      /\ (watch = "armed" => watch' = "stopped")
  BY DEF StopWatch
<1>2. pc' \in {"ok", "clear"} => ~Fired /\ conn' = conn
  BY FiredFails
<1>3. Control'
  BY <1>1 DEF Control, lvars
<1>4. Dialled'
  BY <1>1, <1>2 DEF Control, Dialled, Running, Succeeded, Fired
<1>5. DeadlineOf'
  BY <1>1, <1>2, NoListener DEF DeadlineOf, Running, Succeeded, Fired, lvars
<1>6. Guarded'
  BY <1>2, NoListener DEF Guarded, Dialled, Running, Fired, Listening, lvars
<1> QED
  BY <1>3, <1>4, <1>5, <1>6

\* Clear takes the deadline away before the conn is handed over.
LEMMA ClearOwner == ASSUME OwnerInv, Clear, UNCHANGED lvars PROVE OwnerInv'
<1> USE DEF Clear, OwnerInv
<1>1. Control'
  BY DEF Control, lvars
<1>2. Dialled'
  BY DEF Control, Dialled, Running, Succeeded
<1>3. DeadlineOf'
  BY DEF DeadlineOf, lvars
<1>4. Guarded'
  BY NoListener DEF Guarded, Dialled, Listening, lvars
<1> QED
  BY <1>1, <1>2, <1>3, <1>4

\* ctx's AfterFunc: nobody has the conn, or the call is going to fail.
LEMMA WatchOwner == ASSUME OwnerInv, FireWatch \/ Unblock, UNCHANGED lvars PROVE OwnerInv'
<1> USE DEF FireWatch, Unblock, OwnerInv
<1>1. pc \notin Succeeded /\ pc' = pc /\ cfg' = cfg
  BY DEF Dialled
<1>2. (\A a \in Accepters : apc[a] = "idle") /\ (\A c \in Closers : cpc[c] # "close")
  BY <1>1, NoListener DEF Control, Running, Succeeded
<1>3. Control'
  BY DEF Control, lvars
<1>4. Dialled'
  BY <1>1 DEF Control, Dialled, Running, Succeeded, Fired
<1>5. DeadlineOf'
  BY <1>1, <1>2 DEF DeadlineOf, Succeeded, lvars
<1>6. Guarded'
  BY <1>1, <1>2 DEF Guarded, Succeeded, Listening, lvars
<1> QED
  BY <1>3, <1>4, <1>5, <1>6

-----------------------------------------------------------------------------
(* Accept, Close and SetDeadline.                                          *)

\* One Accept at most takes the Listener from "listening".
LEMMA AcceptOwner == ASSUME OwnerInv, NEW a \in Accepters, Accept(a) PROVE OwnerInv'
<1> USE DEF Accept, OwnerInv, connvars
<1>1. Control'
  BY DEF Control
<1>2. Dialled'
  BY DEF Control, Listening, Dialled, Running, Succeeded
<1>3. DeadlineOf'
  BY DEF Control, DeadlineOf, Listening, Succeeded
<1>4. Guarded'
  BY DEF Control, Guarded, Listening, Taking
<1> QED
  BY <1>1, <1>2, <1>3, <1>4

\* The Accept that read the second reply is still the only one.
LEMMA GotSecondReplyOwner ==
    ASSUME OwnerInv, NEW a \in Accepters, GotSecondReply(a)
    PROVE  OwnerInv'
<1>1. /\ apc[a] = "read" /\ apc' = [apc EXCEPT ![a] = "lock"] /\ pc' = "accepted"
      /\ UNCHANGED <<cfg, connvars, state, closed, cpc>>
  BY DEF GotSecondReply
<1> USE <1>1 DEF OwnerInv, connvars
<1>2. Control'
  BY DEF Control
<1>3. pc \in {"ok", "accept", "accepted"} /\ cfg.by = "Listen"
  BY DEF Guarded
<1>4. Dialled'
  BY <1>3 DEF Dialled, Running, Succeeded
<1>5. DeadlineOf'
  BY <1>3 DEF Control, DeadlineOf, Succeeded
<1>6. Guarded'
  BY <1>3 DEF Control, Guarded, Listening, Taking
<1> QED
  BY <1>2, <1>4, <1>5, <1>6

\* Accept under the mutex again sees what Close did.
LEMMA AcceptedOwner == ASSUME OwnerInv, NEW a \in Accepters, Accepted(a) PROVE OwnerInv'
<1> USE DEF Accepted, OwnerInv, hsvars, connvars
<1>1. Control'
  BY DEF Control
<1>2. Dialled'
  BY DEF Dialled, Fired
<1>3. DeadlineOf'
  BY DEF Control, DeadlineOf
<1>4. Guarded'
  BY DEF Control, Guarded, Listening, Taking
<1> QED
  BY <1>1, <1>2, <1>3, <1>4

\* Accept closes the conn, or clears the listener's deadline and hands it over.
LEMMA AcceptEndsOwner ==
    ASSUME OwnerInv, NEW a \in Accepters, AcceptFails(a) \/ AcceptReturns(a)
    PROVE  OwnerInv'
<1> USE DEF AcceptFails, AcceptReturns, OwnerInv
<1>1. pc \in {"ok", "accept", "accepted"} /\ cfg.by = "Listen" /\ pc' = pc /\ cfg' = cfg
      /\ watch' = watch
  BY DEF Guarded
<1>2. Control'
  BY DEF Control
<1>3. Dialled'
  BY <1>1 DEF Dialled, Running, Succeeded
<1>4. DeadlineOf'
  BY <1>1 DEF Control, DeadlineOf, Guarded, Taking
<1>5. Guarded'
  BY DEF Control, Guarded, Listening, Taking
<1> QED
  BY <1>2, <1>3, <1>4, <1>5

\* Close leaves the conn to nobody.
LEMMA CloseOwner ==
    ASSUME OwnerInv, NEW c \in Closers, Close(c) \/ CloseConn(c)
    PROVE  OwnerInv'
<1> USE DEF Close, CloseConn, OwnerInv, hsvars, connvars
<1>1. /\ UNCHANGED <<cfg, pc, watch, deadline, apc>>
      /\ cfg.by = "Listen" /\ pc \in {"ok", "accept", "accepted"}
  BY DEF Guarded, Listening
<1>2. Control'
  <2>1. CASE Close(c)
    <3>1. closed' \in BOOLEAN /\ state' \in {"listening", "accepting", "done"} /\ conn' = conn
      BY <2>1, Zenon DEF Control
    <3>2. cpc' \in [Closers -> {"idle", "close", "returned", "already"}]
      BY <2>1 DEF Control
    <3> QED
      BY <1>1, <3>1, <3>2 DEF Control
  <2>2. CASE CloseConn(c)
    BY <2>2 DEF Control
  <2> QED
    BY <2>1, <2>2, Zenon
<1>3. Dialled'
  BY <1>1 DEF Dialled, Running, Succeeded, Fired, Listening
<1>4. DeadlineOf'
  BY <1>1 DEF DeadlineOf
<1>5. Guarded'
  BY <1>1 DEF Control, Guarded, Listening, Taking
<1> QED
  BY <1>2, <1>3, <1>4, <1>5

\* SetDeadline leaves a conn alone that Accept has handed over.
LEMMA DeadlineOwner ==
    ASSUME OwnerInv,
           DeadlinePasses \/ \E t \in {"none", "future", "past"} : SetDeadline(t)
    PROVE  OwnerInv'
<1> USE DEF DeadlinePasses, SetDeadline, OwnerInv
<1>1. UNCHANGED <<cfg, pc, conn, watch, state, closed, apc, cpc>>
  BY DEF lvars
<1>2. Control'
  BY <1>1 DEF Control
<1>3. Dialled'
  BY <1>1 DEF Dialled, Fired
<1>4. DeadlineOf'
  BY <1>1 DEF Control, DeadlineOf, Guarded, Listening, Succeeded, Taking
<1>5. Guarded'
  BY <1>1 DEF Guarded, Listening
<1> QED
  BY <1>2, <1>3, <1>4, <1>5

-----------------------------------------------------------------------------
(* The theorem.                                                            *)

\* The steps of the handshake and of the proxy that leave the conn alone.
LEMMA ExchangeOwner ==
    ASSUME OwnerInv, UNCHANGED lvars,
           \/ Write \/ WriteRequest \/ AuthWrite \/ AuthRead
           \/ GotMethod \/ GotAuth \/ GotReply
           \/ CtxDone \/ BudgetPasses \/ ProxySend \/ ProxyStops \/ ReadNext
    PROVE  OwnerInv'
<1> DEFINE Kept ==
             /\ UNCHANGED <<cfg, conn, deadline, watch>>
             /\ pc' = pc \/ (pc \in Running /\ pc' \in Running)
<1>1. CASE Write \/ WriteRequest \/ AuthWrite
  <2>1. Kept
    BY <1>1 DEF Write, WriteRequest, AuthWrite, AfterWrite, connvars, Running
  <2> QED
    BY <2>1, OwnerKept
<1>2. CASE AuthRead
  <2>1. pc = "authRead" /\ pc' \in {"authRead", "request", "settle"} /\ UNCHANGED <<cfg, connvars>>
    BY <1>2 DEF AuthRead
  <2> QED
    BY <2>1, OwnerKept DEF connvars, Running
<1>3. CASE GotMethod
  <2>1. /\ pc = "method" /\ UNCHANGED <<cfg, connvars>>
        /\ pc' \in {"settle", "authWrite", "request", "auth", "reply"}
    BY <1>3 DEF GotMethod, Goto, FailRead
  <2> QED
    BY <2>1, OwnerKept DEF connvars, Running
<1>4. CASE GotAuth \/ GotReply
  <2>1. /\ pc \in {"auth", "reply"} /\ UNCHANGED <<cfg, connvars>>
        /\ pc' \in {"settle", "reply"}
    BY <1>4 DEF GotAuth, GotReply, Goto, FailRead
  <2> QED
    BY <2>1, OwnerKept DEF connvars, Running
<1>5. CASE CtxDone \/ BudgetPasses \/ ProxySend \/ ProxyStops \/ ReadNext
  <2>1. UNCHANGED <<cfg, pc, conn, deadline, watch>>
    BY <1>5 DEF CtxDone, BudgetPasses, ProxySend, ProxyStops, ReadNext, connvars
  <2> QED
    BY <2>1, OwnerKept
<1> QED
  BY <1>1, <1>2, <1>3, <1>4, <1>5

\* Every step keeps the invariant.
LEMMA OwnerNext == OwnerInv /\ [Next]_vars => OwnerInv'
<1> SUFFICES ASSUME OwnerInv, [Next]_vars PROVE OwnerInv'
  OBVIOUS
<1>1. CASE (HandshakeStep \/ HandshakeEnv \/ ReadNext) /\ UNCHANGED lvars
  BY <1>1, ConfigureOwner, DialOwner, SettleOwner, ClearOwner, WatchOwner, ExchangeOwner
     DEF HandshakeStep, HandshakeEnv
<1>2. CASE \E a \in Accepters : Accept(a) \/ AcceptStep(a)
  BY <1>2, AcceptOwner, GotSecondReplyOwner, AcceptedOwner, AcceptEndsOwner DEF AcceptStep
<1>3. CASE \E c \in Closers : Close(c) \/ CloseConn(c)
  BY <1>3, CloseOwner
<1>4. CASE DeadlinePasses \/ \E t \in {"none", "future", "past"} : SetDeadline(t)
  BY <1>4, DeadlineOwner
<1>5. CASE UNCHANGED vars
  BY <1>5, OwnerKept DEF vars, hsvars, connvars
<1> QED
  BY <1>1, <1>2, <1>3, <1>4, <1>5 DEF Next

\* At most one Accept is past Accept's second critical section with the conn.
LEMMA OneTaker ==
    ASSUME OwnerInv
    PROVE  Cardinality({a \in Accepters : apc[a] \in {"clear", "conn"}}) <= 1
<1> DEFINE S == {a \in Accepters : apc[a] \in {"clear", "conn"}}
<1>1. CASE S = {}
  BY <1>1, FS_EmptySet
<1>2. CASE S # {}
  <2>1. PICK a \in S : TRUE
    BY <1>2
  <2>2. S = {a}
    BY <2>1 DEF OwnerInv, Guarded, Taking
  <2> QED
    BY <2>2, FS_Singleton
<1> QED
  BY <1>1, <1>2

\* The invariant says what a caller of Request, DialContext, Listen and Accept expects.
LEMMA OwnerImplies == OwnerInv => ConnOwned
<1> SUFFICES ASSUME OwnerInv PROVE ConnOwned
  OBVIOUS
<1>1. (pc = "ok" /\ cfg.by \in {"Request", "Dial"}) =>
        conn = "open" /\ deadline = "none" /\ watch \notin {"armed", "fired"}
  BY DEF OwnerInv, Dialled, DeadlineOf, Succeeded
<1>2. ASSUME NEW a \in Accepters, apc[a] = "conn"
      PROVE  conn = "open" /\ deadline = "none" /\ watch \notin {"armed", "fired"} /\ ~closed
  <2>1. pc \in {"ok", "accept", "accepted"} /\ cfg.by = "Listen" /\ ~closed
    BY <1>2 DEF OwnerInv, Guarded
  <2>2. \A b \in Accepters : apc[b] # "err"
    BY <1>2 DEF OwnerInv, Guarded, Taking
  <2> QED
    BY <1>2, <2>1, <2>2 DEF OwnerInv, Guarded, Dialled, DeadlineOf, Listening, Succeeded
<1>3. pc = "failed" =>
        IF cfg.by = "Request" THEN conn = "open" \/ (conn = "closed" /\ ~cfg.settable /\ Fired)
        ELSE conn # "open"
  BY DEF OwnerInv, Dialled
<1>4. pc = "ok" /\ cfg.by = "Lookup" => conn = "closed"
  BY DEF OwnerInv, Dialled
<1>5. /\ (\E a \in Accepters : apc[a] = "err") => conn = "closed"
      /\ closed /\ (\A c \in Closers : cpc[c] # "close") => conn = "closed"
  BY DEF OwnerInv, Guarded
<1> QED
  BY <1>1, <1>2, <1>3, <1>4, <1>5, OneTaker DEF ConnOwned, HasConn

\* The inductive invariant: whose the conn is, through Request, DialContext,
\* LookupNetIP, Listen and whatever calls of Accept, Close and SetDeadline race.
THEOREM Ownership == Spec => []OwnerInv
<1>1. Init => OwnerInv
  BY OwnerInit
<1> QED
  BY <1>1, OwnerNext, PTL DEF Spec

\* The conn a call hands back is open, has no deadline and nobody who could still
\* unblock or close it; one Accept at most gets the Listener's, none after Close,
\* and whatever fails leaves no conn open (bind.go, dialer.go, handshakeOver).
THEOREM ConnHandedOver == Spec => []ConnOwned
BY Ownership, OwnerImplies, PTL

-----------------------------------------------------------------------------
(* The messages.  The bytes of the messages, and what a parser makes of    *)
(* the first of them: what it asks for is never more than the message has. *)

\* b has the bytes of m, as many as it has.
Agree(b, m) == \A j \in 1 .. Len(b) : j <= Len(m) => b[j] = m[j]

\* The elements of a concatenation.
LEMMA Concat ==
    ASSUME NEW S, NEW s \in Seq(S), NEW t \in Seq(S)
    PROVE  /\ s \o t \in Seq(S)
           /\ Len(s \o t) = Len(s) + Len(t)
           /\ \A j \in 1 .. Len(s) : (s \o t)[j] = s[j]
           /\ \A j \in 1 .. Len(t) : (s \o t)[Len(s) + j] = t[j]
OBVIOUS

\* A sequence of one byte.
LEMMA OneByte ==
    ASSUME NEW S, NEW x \in S
    PROVE  <<x>> \in Seq(S) /\ Len(<<x>>) = 1 /\ <<x>>[1] = x
OBVIOUS

\* A sequence of two bytes.
LEMMA TwoBytes ==
    ASSUME NEW S, NEW x \in S, NEW y \in S
    PROVE  <<x, y>> \in Seq(S) /\ Len(<<x, y>>) = 2 /\ <<x, y>>[1] = x /\ <<x, y>>[2] = y
OBVIOUS

\* A valid Addr is a name or an IP, never both, and ATYP says which (Addr.append).
LEMMA AddrFacts ==
    ASSUME NEW a \in ValidAddrs
    PROVE  /\ a.ip \in Seq(Bytes) /\ a.name \in Seq(Bytes) /\ a.port \in Ports
           /\ a = [ip |-> a.ip, name |-> a.name, port |-> a.port]
           /\ IsName(a) => a.ip = <<>> /\ ATYP(a) = 3 /\ Len(a.name) \in 1 .. 255
           /\ ~IsName(a) => /\ a.name = <<>>
                            /\ \/ Len(a.ip) = 4 /\ ATYP(a) = 1
                               \/ Len(a.ip) = 16 /\ ATYP(a) = 4
<1>1. a \in Addrs /\ \/ a.name = <<>> /\ Len(a.ip) \in {4, 16}
                     \/ a.ip = <<>> /\ Len(a.name) \in 1 .. 255
  BY DEF ValidAddrs
<1>2. /\ a.ip \in Seq(Bytes) /\ a.name \in Seq(Bytes) /\ a.port \in Ports
      /\ a = [ip |-> a.ip, name |-> a.name, port |-> a.port]
  BY <1>1 DEF Addrs
<1>3. ASSUME IsName(a)
      PROVE  a.ip = <<>> /\ ATYP(a) = 3 /\ Len(a.name) \in 1 .. 255
  <2>1. a.name # <<>>
    BY <1>3 DEF IsName
  <2>2. ATYP(a) = 3
    BY <1>3 DEF ATYP, ATYPDomain
  <2> QED
    BY <1>1, <2>1, <2>2
<1>4. ASSUME ~IsName(a)
      PROVE  a.name = <<>> /\ (\/ Len(a.ip) = 4 /\ ATYP(a) = 1
                               \/ Len(a.ip) = 16 /\ ATYP(a) = 4)
  <2>1. a.name = <<>>
    BY <1>4 DEF IsName
  <2>2. Len(a.ip) \in {4, 16}
    <3>1. Len(<<>>) = 0
      OBVIOUS
    <3> QED
      BY <1>1, <2>1, <3>1
  <2>3. CASE Len(a.ip) = 4
    BY <1>4, <2>1, <2>3 DEF ATYP, ATYPIPv4
  <2>4. CASE Len(a.ip) = 16
    BY <1>4, <2>1, <2>4 DEF ATYP, ATYPIPv6
  <2> QED
    BY <2>1, <2>2, <2>3, <2>4
<1> QED
  BY <1>2, <1>3, <1>4

\* The address part of a message.
Host(a) == IF IsName(a) THEN <<Len(a.name)>> \o a.name ELSE a.ip

\* What Addr.append writes between ATYP and the port.
LEMMA HostFacts ==
    ASSUME NEW a \in ValidAddrs
    PROVE  /\ Host(a) \in Seq(Bytes)
           /\ IsName(a) => /\ Len(Host(a)) = 1 + Len(a.name) /\ Host(a)[1] = Len(a.name)
                           /\ \A j \in 1 .. Len(a.name) : Host(a)[1 + j] = a.name[j]
           /\ ~IsName(a) => Host(a) = a.ip
<1>1. a.ip \in Seq(Bytes) /\ a.name \in Seq(Bytes)
  BY AddrFacts
<1>2. ASSUME IsName(a)
      PROVE  /\ Host(a) \in Seq(Bytes)
             /\ Len(Host(a)) = 1 + Len(a.name) /\ Host(a)[1] = Len(a.name)
             /\ \A j \in 1 .. Len(a.name) : Host(a)[1 + j] = a.name[j]
  <2>1. Len(a.name) \in 1 .. 255
    BY <1>2, AddrFacts
  <2>2. Len(a.name) \in Bytes
    BY <2>1 DEF Bytes
  <2> DEFINE l == <<Len(a.name)>>
  <2>3. l \in Seq(Bytes) /\ Len(l) = 1 /\ l[1] = Len(a.name)
    BY <2>2, OneByte
  <2>4. Host(a) = l \o a.name
    BY <1>2 DEF Host
  <2> HIDE DEF l
  <2>5. /\ l \o a.name \in Seq(Bytes)
        /\ Len(l \o a.name) = Len(l) + Len(a.name)
        /\ \A j \in 1 .. Len(l) : (l \o a.name)[j] = l[j]
        /\ \A j \in 1 .. Len(a.name) : (l \o a.name)[Len(l) + j] = a.name[j]
    BY <1>1, <2>3, Concat
  <2> QED
    BY <2>3, <2>4, <2>5
<1> QED
  BY <1>1, <1>2 DEF Host

\* A port is two bytes, the high one first.
LEMMA Port ==
    ASSUME NEW p \in Ports
    PROVE  /\ Uint16(p) \in Seq(Bytes) /\ Len(Uint16(p)) = 2
           /\ Uint16(p)[1] * 256 + Uint16(p)[2] = p
<1>1. p \in Int /\ 0 <= p /\ p <= 65535
  BY SMTT(30) DEF Ports
<1>2. p % 256 \in 0 .. 255
  BY <1>1
<1>0. p \in Int
  BY <1>1
<1>3. PICK q \in Int : q = p \div 256 /\ 256 * q <= p /\ p < 256 * q + 256
  BY <1>0
<1>4. p = 256 * q + (p % 256)
  BY <1>1, <1>3
<1>5. q \in Bytes /\ p % 256 \in Bytes /\ q * 256 + (p % 256) = p
  BY <1>1, <1>2, <1>3, <1>4 DEF Bytes
<1>6. Uint16(p) = <<q, p % 256>>
  BY <1>3 DEF Uint16
<1> DEFINE r == p % 256
<1>7. q \in Bytes /\ r \in Bytes /\ q * 256 + r = p
  BY <1>5
<1> HIDE DEF r
<1>8. <<q, r>> \in Seq(Bytes) /\ Len(<<q, r>>) = 2 /\ <<q, r>>[1] = q /\ <<q, r>>[2] = r
  BY <1>7, TwoBytes
<1>9. Uint16(p) = <<q, r>>
  BY <1>6 DEF r
<1> QED
  BY <1>7, <1>8, <1>9

\* The elements of three sequences, one after the other.
LEMMA Concat3 ==
    ASSUME NEW S, NEW s \in Seq(S), NEW t \in Seq(S), NEW u \in Seq(S)
    PROVE  /\ s \o t \o u \in Seq(S)
           /\ Len(s \o t \o u) = Len(s) + Len(t) + Len(u)
           /\ \A j \in 1 .. Len(s) : (s \o t \o u)[j] = s[j]
           /\ \A j \in 1 .. Len(t) : (s \o t \o u)[Len(s) + j] = t[j]
           /\ \A j \in 1 .. Len(u) : (s \o t \o u)[Len(s) + Len(t) + j] = u[j]
<1> DEFINE st == s \o t
<1>1. /\ st \in Seq(S) /\ Len(st) = Len(s) + Len(t)
      /\ \A j \in 1 .. Len(s) : st[j] = s[j]
      /\ \A j \in 1 .. Len(t) : st[Len(s) + j] = t[j]
  BY Concat
<1>0. st \in Seq(S)
  BY <1>1
<1> HIDE DEF st
<1>2. /\ st \o u \in Seq(S) /\ Len(st \o u) = Len(st) + Len(u)
      /\ \A j \in 1 .. Len(st) : (st \o u)[j] = st[j]
      /\ \A j \in 1 .. Len(u) : (st \o u)[Len(st) + j] = u[j]
  BY <1>0, Concat
<1>3. Len(s) \in Nat /\ Len(t) \in Nat /\ Len(u) \in Nat
  OBVIOUS
<1>4. \A j \in 1 .. Len(s) : (st \o u)[j] = s[j]
  BY <1>1, <1>2, <1>3
<1>5. \A j \in 1 .. Len(t) : (st \o u)[Len(s) + j] = t[j]
  BY <1>1, <1>2, <1>3
<1>6. \A j \in 1 .. Len(u) : (st \o u)[Len(s) + Len(t) + j] = u[j]
  BY <1>1, <1>2, <1>3
<1> QED
  BY <1>1, <1>2, <1>4, <1>5, <1>6 DEF st

\* The bytes of a request or reply of SOCKS5 (appendAddrMessage), one by one.
LEMMA AddrMessage ==
    ASSUME NEW a \in ValidAddrs, NEW code \in Bytes
    PROVE  /\ AppendReply(code, a) \in Seq(Bytes)
           /\ Len(AppendReply(code, a)) = 6 + Len(Host(a)) /\ Len(Host(a)) \in 2 .. 256
           /\ AppendReply(code, a)[1] = 5 /\ AppendReply(code, a)[2] = code
           /\ AppendReply(code, a)[4] = ATYP(a)
           /\ \A j \in 1 .. Len(Host(a)) : AppendReply(code, a)[4 + j] = Host(a)[j]
           /\ AppendReply(code, a)[Len(Host(a)) + 5] * 256
              + AppendReply(code, a)[Len(Host(a)) + 6] = a.port
<1> DEFINE header == <<5, code, 0>>
           t == <<ATYP(a)>>
           p == Uint16(a.port)
           hd == header \o t
           host == Host(a)
<1>0. /\ header \in Seq(Bytes) /\ Len(header) = 3 /\ header[1] = 5 /\ header[2] = code
  <2>1. 5 \in Bytes /\ 0 \in Bytes
    BY DEF Bytes
  <2> QED
    BY <2>1
<1>1. ATYP(a) \in Bytes
  BY AddrFacts DEF Bytes
<1>2. t \in Seq(Bytes) /\ Len(t) = 1 /\ t[1] = ATYP(a)
  BY <1>1, OneByte
<1>3. p \in Seq(Bytes) /\ Len(p) = 2 /\ p[1] * 256 + p[2] = a.port
  BY AddrFacts, Port
<1>4. host \in Seq(Bytes) /\ Len(host) \in 2 .. 256
  <2> HIDE DEF header, t, p, hd
  <2>1. ASSUME IsName(a)
        PROVE  Len(host) \in 2 .. 256
    <3>1. PICK k \in 1 .. 255 : k = Len(a.name)
      BY <2>1, AddrFacts
    <3>2. Len(host) = 1 + k
      BY <2>1, <3>1, HostFacts
    <3> HIDE DEF host
    <3> QED
      BY <3>2
  <2>2. ASSUME ~IsName(a)
        PROVE  Len(host) \in 2 .. 256
    <3>1. Len(a.ip) = 4 \/ Len(a.ip) = 16
      BY <2>2, AddrFacts
    <3>2. host = a.ip
      BY <2>2, HostFacts
    <3> HIDE DEF host
    <3> QED
      BY <3>1, <3>2
  <2>3. host \in Seq(Bytes)
    BY HostFacts
  <2> QED
    BY <2>1, <2>2, <2>3
<1>5. appendAddrMessage(header, a) = hd \o host \o p
  BY DEF appendAddrMessage, Host
<1> HIDE DEF header, t, p, host
<1>6. /\ hd \in Seq(Bytes) /\ Len(hd) = 4
      /\ hd[1] = 5 /\ hd[2] = code /\ hd[4] = ATYP(a)
  <2>1. /\ hd \in Seq(Bytes) /\ Len(hd) = Len(header) + Len(t)
        /\ \A j \in 1 .. Len(header) : hd[j] = header[j]
        /\ \A j \in 1 .. Len(t) : hd[Len(header) + j] = t[j]
    <3>1. header \in Seq(Bytes) /\ t \in Seq(Bytes)
      BY <1>0, <1>2
    <3>2. /\ header \o t \in Seq(Bytes) /\ Len(header \o t) = Len(header) + Len(t)
          /\ \A j \in 1 .. Len(header) : (header \o t)[j] = header[j]
          /\ \A j \in 1 .. Len(t) : (header \o t)[Len(header) + j] = t[j]
      BY <3>1, Concat
    <3> QED
      BY <3>2
  <2> HIDE DEF hd
  <2>2. hd[3 + 1] = t[1]
    BY <2>1, <1>0, <1>2
  <2> QED
    BY <1>0, <1>2, <2>1, <2>2
<1> HIDE DEF hd
<1>7. /\ hd \o host \o p \in Seq(Bytes)
      /\ Len(hd \o host \o p) = Len(hd) + Len(host) + Len(p)
      /\ \A j \in 1 .. Len(hd) : (hd \o host \o p)[j] = hd[j]
      /\ \A j \in 1 .. Len(host) : (hd \o host \o p)[Len(hd) + j] = host[j]
      /\ \A j \in 1 .. Len(p) : (hd \o host \o p)[Len(hd) + Len(host) + j] = p[j]
  <2>1. p \in Seq(Bytes) /\ host \in Seq(Bytes) /\ hd \in Seq(Bytes)
    BY <1>3, <1>4, <1>6
  <2> QED
    BY <2>1, Concat3
<1> DEFINE m == hd \o host \o p
<1> HIDE DEF m
<1>8. /\ m \in Seq(Bytes)
      /\ Len(m) = 4 + Len(host) + 2
      /\ \A j \in 1 .. 4 : m[j] = hd[j]
      /\ \A j \in 1 .. Len(host) : m[4 + j] = host[j]
      /\ \A j \in 1 .. 2 : m[4 + Len(host) + j] = p[j]
  BY <1>3, <1>6, <1>7, Zenon DEF m
<1>9. m[4 + Len(host) + 1] = p[1] /\ m[4 + Len(host) + 2] = p[2]
  BY <1>8
<1>10. m[Len(host) + 5] * 256 + m[Len(host) + 6] = a.port
  BY <1>3, <1>4, <1>9
<1>11. AppendReply(code, a) = m
  BY <1>5, Zenon DEF m, header, AppendReply, Version5
<1>12. m[1] = 5 /\ m[2] = code /\ m[4] = ATYP(a)
  BY <1>6, <1>8
<1>13. /\ m \in Seq(Bytes) /\ Len(m) = 6 + Len(host) /\ Len(host) \in 2 .. 256
       /\ \A j \in 1 .. Len(host) : m[4 + j] = host[j]
  BY <1>4, <1>8
<1> QED
  BY <1>10, <1>11, <1>12, <1>13 DEF host

\* The bytes i .. k of b are s.
LEMMA Slice ==
    ASSUME NEW S, NEW b \in Seq(S), NEW s \in Seq(S), NEW i \in Nat, NEW k \in Nat,
           1 <= i, k <= Len(b), k - i + 1 = Len(s),
           \A j \in 1 .. Len(s) : b[i + j - 1] = s[j]
    PROVE  SubSeq(b, i, k) = s
<1> DEFINE t == SubSeq(b, i, k)
<1>0. \A j \in i .. k : b[j] \in S
  OBVIOUS
<1>1. /\ t \in Seq(S) /\ Len(t) = (IF i <= k THEN k - i + 1 ELSE 0)
      /\ \A j \in 1 .. k - i + 1 : t[j] = b[i + j - 1]
  BY <1>0, SubSeqProperties
<1> HIDE DEF t
<1>2. Len(s) \in Nat
  OBVIOUS
<1>3. Len(t) = Len(s)
  BY <1>1, <1>2
<1>4. \A j \in 1 .. Len(t) : t[j] = s[j]
  BY <1>1, <1>3
<1>5. t = s
  BY <1>1, <1>3, <1>4, SeqEqual, Zenon
<1> QED
  BY <1>5 DEF t

\* The length of an address message, and the address in it.
LEMMA AddrLen ==
    ASSUME NEW b \in Seq(Bytes), NEW tor \in BOOLEAN
    PROVE  /\ b[4] = 1 => addrMessageLen(b, tor) = 10
           /\ b[4] = 4 => addrMessageLen(b, tor) = 22
           /\ b[4] = 3 /\ Len(b) < 5 => addrMessageLen(b, tor) = 5
           /\ b[4] = 3 /\ Len(b) >= 5 =>
                addrMessageLen(b, tor) = IF b[5] = 0 THEN 0 ELSE 7 + b[5]
           /\ b[4] = 0 => addrMessageLen(b, tor) = IF tor THEN 10 ELSE 0
           /\ b[4] \notin {0, 1, 3, 4} => addrMessageLen(b, tor) = 0
<1>1. b[4] = 1 => addrMessageLen(b, tor) = 10
  BY DEF addrMessageLen, ATYPIPv4, ATYPIPv6, ATYPDomain
<1>2. b[4] = 4 => addrMessageLen(b, tor) = 22
  BY DEF addrMessageLen, ATYPIPv4, ATYPIPv6, ATYPDomain
<1>3. b[4] = 3 /\ Len(b) < 5 => addrMessageLen(b, tor) = 5
  BY DEF addrMessageLen, ATYPIPv4, ATYPIPv6, ATYPDomain
<1>4. b[4] = 3 /\ Len(b) >= 5 /\ b[5] = 0 => addrMessageLen(b, tor) = 0
  BY DEF addrMessageLen, ATYPIPv4, ATYPIPv6, ATYPDomain
<1>5. b[4] = 3 /\ Len(b) >= 5 /\ b[5] # 0 => addrMessageLen(b, tor) = 7 + b[5]
  BY DEF addrMessageLen, ATYPIPv4, ATYPIPv6, ATYPDomain
<1>6. b[4] = 0 /\ tor => addrMessageLen(b, tor) = 10
  BY DEF addrMessageLen, ATYPIPv4, ATYPIPv6, ATYPDomain
<1>7. b[4] = 0 /\ ~tor => addrMessageLen(b, tor) = 0
  BY DEF addrMessageLen, ATYPIPv4, ATYPIPv6, ATYPDomain
<1>8. b[4] \notin {0, 1, 3, 4} => addrMessageLen(b, tor) = 0
  BY DEF addrMessageLen, ATYPIPv4, ATYPIPv6, ATYPDomain
<1> HIDE DEF addrMessageLen
<1> QED
  BY <1>1, <1>2, <1>3, <1>4, <1>5, <1>6, <1>7, <1>8

\* What parseAddrMessage makes of the address, by ATYP.
LEMMA AddrAtFacts ==
    ASSUME NEW b \in Seq(Bytes), NEW n \in Nat
    PROVE  /\ b[4] = 1 \/ b[4] = 4 =>
                AddrAt(b, n) = [ip |-> Unmap(SubSeq(b, 5, n - 2)), name |-> <<>>, port |-> PortAt(b, n)]
           /\ b[4] = 3 =>
                AddrAt(b, n) = [ip |-> <<>>, name |-> SubSeq(b, 6, n - 2), port |-> PortAt(b, n)]
           /\ b[4] \notin {1, 3, 4} => AddrAt(b, n) = ZeroAddr
BY DEF AddrAt, ATYPIPv4, ATYPIPv6, ATYPDomain

\* What of a message m is there yet: as parser's result r of the first bytes b.
Partial(r, b, m) == r.err = "incomplete" /\ r.n \in Len(b) + 1 .. Len(m)

\* The parser's answer on what has come of an address message.
LEMMA ReadsAddr ==
    ASSUME NEW a \in ValidAddrs, NEW code \in Bytes, NEW tor \in BOOLEAN,
           NEW b \in Seq(Bytes), Agree(b, AppendReply(code, a))
    PROVE  LET m == AppendReply(code, a)
               r == parseAddrMessage(b, tor)
           IN /\ Len(b) < Len(m) => Partial(r, b, m)
              /\ Len(b) >= Len(m) => /\ r.err = "nil" /\ r.n = Len(m)
                                     /\ r.addr = [a EXCEPT !.ip = Unmap(@)]
<1> DEFINE m == AppendReply(code, a)
           h == Len(Host(a))
           L == Len(b)
           M == 6 + h
           N == addrMessageLen(b, tor)
           r == parseAddrMessage(b, tor)
<1>1. /\ Len(m) = M /\ M \in Nat /\ L \in Nat /\ h \in 2 .. 256
      /\ m[4] = ATYP(a)
      /\ \A j \in 1 .. h : m[4 + j] = Host(a)[j]
      /\ m[h + 5] * 256 + m[h + 6] = a.port
  BY AddrMessage
<1>2. \A j \in 1 .. L : j <= M => b[j] = m[j]
  BY <1>1 DEF Agree
<1> HIDE DEF m, h, L
<1>3. L >= 4 => b[4] = ATYP(a)
  BY <1>1, <1>2
<1>4. \A j \in 1 .. h : 4 + j <= L => b[4 + j] = Host(a)[j]
  BY <1>1, <1>2
<1>5. L >= 4 => N # 0 /\ (L < M => N \in L + 1 .. M) /\ (L >= M => N = M)
  <2>1. ASSUME L >= 4, IsName(a)
        PROVE  N # 0 /\ (L < M => N \in L + 1 .. M) /\ (L >= M => N = M)
    <3>1. b[4] = 3
      BY <1>3, <2>1, AddrFacts
    <3>2. PICK k \in 1 .. 255 : k = Len(a.name)
      BY <2>1, AddrFacts
    <3>3. h = 1 + k /\ Host(a)[1] = k
      BY <2>1, <3>2, HostFacts DEF h
    <3>4. CASE L >= 5
      <4>1. b[5] = k
        <5>1. 1 \in 1 .. h /\ 4 + 1 <= L
          BY <1>1, <3>4
        <5> HIDE DEF M, N, r
        <5> QED
          BY <1>4, <3>3, <5>1
      <4>2. N = 7 + k
        <5> HIDE DEF M
        <5>1. k # 0
          OBVIOUS
        <5> QED
          BY <3>1, <3>4, <4>1, <5>1, AddrLen DEF L, N
      <4> QED
        BY <1>1, <3>2, <3>3, <4>2
    <3>5. CASE L < 5
      <4>2. N = 5
        BY <3>1, <3>5, AddrLen DEF L, N
      <4> QED
        BY <1>1, <2>1, <3>5, <4>2
    <3> QED
      BY <1>1, <3>4, <3>5
  <2>2. ASSUME L >= 4, ~IsName(a)
        PROVE  N # 0 /\ (L < M => N \in L + 1 .. M) /\ (L >= M => N = M)
    <3>1. Host(a) = a.ip /\ (\/ Len(a.ip) = 4 /\ ATYP(a) = 1
                             \/ Len(a.ip) = 16 /\ ATYP(a) = 4)
      BY <2>2, AddrFacts, HostFacts
    <3>a. h = Len(a.ip)
      BY <3>1 DEF h
    <3>2. CASE h = 4
      <4>1. b[4] = 1
        BY <1>3, <2>2, <3>1, <3>a, <3>2
      <4>2. N = 10
        BY <4>1, AddrLen DEF N
      <4> QED
        BY <1>1, <3>2, <4>2
    <3>3. CASE h = 16
      <4>1. b[4] = 4
        BY <1>3, <2>2, <3>1, <3>a, <3>3
      <4>2. N = 22
        BY <4>1, AddrLen DEF N
      <4> QED
        BY <1>1, <3>3, <4>2
    <3> QED
      BY <3>1, <3>a, <3>2, <3>3
  <2> QED
    BY <2>1, <2>2
<1> HIDE DEF N
<1>6. L < M => Partial(r, b, m)
  <2> SUFFICES ASSUME L < M PROVE Partial(r, b, m)
    OBVIOUS
  <2>1. CASE L < 4
    <3>1. r = Address("incomplete", 5, ZeroAddr)
      BY <2>1 DEF parseAddrMessage, L
    <3>2. 5 \in L + 1 .. M
      BY <1>1, <2>1
    <3> QED
      BY <1>1, <3>1, <3>2 DEF Partial, Address, L
  <2>2. CASE L >= 4
    <3>1. r = Address("incomplete", N, ZeroAddr)
      <4>1. ~(L < 4) /\ N # 0 /\ L < N
        BY <1>1, <1>5, <2>2
      <4> QED
        BY <4>1 DEF parseAddrMessage, L, N
    <3>2. N \in L + 1 .. M
      BY <1>5, <2>2
    <3> QED
      BY <1>1, <3>1, <3>2 DEF Partial, Address, L
  <2> QED
    BY <1>1, <2>1, <2>2
<1>7. L >= M => /\ r.err = "nil" /\ r.n = M
                /\ r.addr = [a EXCEPT !.ip = Unmap(@)]
  <2> SUFFICES ASSUME L >= M
               PROVE  /\ r.err = "nil" /\ r.n = M
                      /\ r.addr = [a EXCEPT !.ip = Unmap(@)]
    OBVIOUS
  <2>1. L >= 4 /\ N = M
    BY <1>1, <1>5
  <2>2. r = Address("nil", M, AddrAt(b, M))
    <3>1. ~(L < 4) /\ N # 0 /\ ~(L < N)
      BY <1>1, <2>1
    <3> QED
      BY <2>1, <3>1 DEF parseAddrMessage, L, N
  <2>3. PortAt(b, M) = a.port
    <3>1. b[h + 5] = m[h + 5] /\ b[h + 6] = m[h + 6]
      BY <1>1, <1>2
    <3>2. M - 1 = h + 5 /\ M = h + 6
      BY <1>1
    <3> QED
      BY <1>1, <3>1, <3>2 DEF PortAt
  <2>4. AddrAt(b, M) = [a EXCEPT !.ip = Unmap(@)]
    <3>1. CASE IsName(a)
      <4>1. b[4] = 3 /\ a.ip = <<>>
        BY <1>3, <2>1, <3>1, AddrFacts
      <4>2. SubSeq(b, 6, M - 2) = a.name
        <5>1. PICK k \in 1 .. 255 : k = Len(a.name)
          BY <3>1, AddrFacts
        <5>2. h = 1 + k /\ \A j \in 1 .. k : Host(a)[1 + j] = a.name[j]
          BY <3>1, <5>1, HostFacts DEF h
        <5>3. \A j \in 1 .. k : b[6 + j - 1] = a.name[j]
          <6> TAKE j \in 1 .. k
          <6>1. 1 + j \in 1 .. h /\ 4 + (1 + j) <= L /\ 6 + j - 1 = 4 + (1 + j)
            BY <1>1, <5>2
          <6> QED
            BY <1>4, <5>2, <6>1
        <5>4. M - 2 \in Nat /\ M - 2 <= L /\ M - 2 - 6 + 1 = k
          BY <1>1, <5>2
        <5>5. a.name \in Seq(Bytes)
          BY AddrFacts
        <5> QED
          BY <5>1, <5>3, <5>4, <5>5, Slice DEF L
      <4>3. Unmap(<<>>) = <<>>
        BY DEF Unmap
      <4>4. AddrAt(b, M) = [ip |-> <<>>, name |-> a.name, port |-> a.port]
        BY <1>1, <2>3, <4>1, <4>2, AddrAtFacts, Zenon
      <4>5. a = [ip |-> a.ip, name |-> a.name, port |-> a.port]
        BY AddrFacts
      <4> QED
        BY <4>1, <4>3, <4>4, <4>5
    <3>2. CASE ~IsName(a)
      <4>1. (b[4] = 1 \/ b[4] = 4) /\ a.name = <<>>
        BY <1>3, <2>1, <3>2, AddrFacts
      <4>2. SubSeq(b, 5, M - 2) = a.ip
        <5>1. Host(a) = a.ip /\ h = Len(a.ip) /\ a.ip \in Seq(Bytes)
          BY <3>2, HostFacts, AddrFacts DEF h
        <5>2. \A j \in 1 .. h : b[5 + j - 1] = a.ip[j]
          <6> TAKE j \in 1 .. h
          <6>1. 4 + j <= L /\ 5 + j - 1 = 4 + j
            BY <1>1
          <6> QED
            BY <1>4, <5>1, <6>1
        <5>3. M - 2 \in Nat /\ M - 2 <= L /\ M - 2 - 5 + 1 = h
          BY <1>1
        <5> QED
          BY <5>1, <5>2, <5>3, Slice DEF L
      <4>3. AddrAt(b, M) = [ip |-> Unmap(a.ip), name |-> <<>>, port |-> a.port]
        BY <1>1, <2>3, <4>1, <4>2, AddrAtFacts, Zenon
      <4>4. a = [ip |-> a.ip, name |-> a.name, port |-> a.port]
        BY AddrFacts
      <4> QED
        BY <4>1, <4>3, <4>4
    <3> QED
      BY <3>1, <3>2
  <2> HIDE DEF M
  <2> QED
    BY <2>2, <2>4 DEF Address
<1> QED
  BY <1>1, <1>6, <1>7 DEF m, L

\* ParseReply and ParseRequest on what has come of a reply and of a request.
LEMMA ReadsReply ==
    ASSUME NEW a \in ValidAddrs, NEW code \in Bytes, NEW tor \in BOOLEAN,
           NEW b \in Seq(Bytes), Agree(b, AppendReply(code, a))
    PROVE  LET m == AppendReply(code, a)
               r == ParseReply(b, tor)
           IN /\ Len(b) < Len(m) => Partial(r, b, m)
              /\ Len(b) >= Len(m) => /\ r.err = "nil" /\ r.n = Len(m)
                                     /\ r.addr = [a EXCEPT !.ip = Unmap(@)]
              /\ Len(b) > 1 => b[1] = 5 /\ r.rep = code
              /\ b = <<>> \/ b[1] = 5
<1> DEFINE m == AppendReply(code, a)
           p == parseAddrMessage(b, tor)
           r == ParseReply(b, tor)
<1>1. Len(m) \in Nat /\ Len(m) >= 8 /\ m[1] = 5 /\ m[2] = code
  <2>1. Len(m) = 6 + Len(Host(a)) /\ Len(Host(a)) \in 2 .. 256 /\ m[1] = 5 /\ m[2] = code
    BY AddrMessage
  <2>2. PICK h \in 2 .. 256 : Len(Host(a)) = h
    BY <2>1
  <2>3. Len(m) = 6 + h /\ m[1] = 5 /\ m[2] = code
    BY <2>1, <2>2
  <2> HIDE DEF m
  <2> QED
    BY <2>3
<1>2. \A j \in 1 .. Len(b) : j <= Len(m) => b[j] = m[j]
  BY DEF Agree
<1>3. /\ Len(b) < Len(m) => Partial(p, b, m)
      /\ Len(b) >= Len(m) => /\ p.err = "nil" /\ p.n = Len(m)
                             /\ p.addr = [a EXCEPT !.ip = Unmap(@)]
  BY ReadsAddr
<1> HIDE DEF m, p
<1>4. Len(b) > 1 => b[1] = 5 /\ b[2] = code
  BY <1>1, <1>2
<1>5. b = <<>> \/ b[1] = 5
  BY <1>1, <1>2
<1>6. r = WithRep(Rep(b), p)
  BY <1>5 DEF ParseReply, checkVersion, Version5, p
<1>7. /\ r.err = p.err /\ r.n = p.n /\ r.addr = p.addr
      /\ Len(b) > 1 => r.rep = code
  BY <1>4, <1>6 DEF WithRep, Rep
<1> HIDE DEF r
<1> QED
  BY <1>3, <1>4, <1>5, <1>7 DEF m, r, Partial

\* ParseRequest of the first bytes of a request.
LEMMA ReadsRequest ==
    ASSUME NEW a \in ValidAddrs, NEW code \in Bytes,
           NEW b \in Seq(Bytes), Agree(b, AppendRequest(code, a))
    PROVE  LET m == AppendRequest(code, a)
               r == ParseRequest(b)
           IN /\ Len(b) < Len(m) => Partial(r, b, m)
              /\ Len(b) >= Len(m) => /\ r.err = "nil" /\ r.n = Len(m)
                                     /\ r.addr = [a EXCEPT !.ip = Unmap(@)]
<1> DEFINE m == AppendReply(code, a)
           p == parseAddrMessage(b, FALSE)
<1>0. AppendRequest(code, a) = m
  BY DEF AppendRequest, AppendReply
<1>1. Agree(b, m)
  BY <1>0
<1>2. FALSE \in BOOLEAN
  OBVIOUS
<1>3. /\ Len(b) < Len(m) => Partial(p, b, m)
      /\ Len(b) >= Len(m) => /\ p.err = "nil" /\ p.n = Len(m)
                             /\ p.addr = [a EXCEPT !.ip = Unmap(@)]
  BY <1>1, <1>2, ReadsAddr, Zenon
<1>4. b = <<>> \/ b[1] = 5
  <2>1. Len(m) = 6 + Len(Host(a)) /\ Len(Host(a)) \in 2 .. 256 /\ m[1] = 5
    BY AddrMessage
  <2>2. PICK h \in 2 .. 256 : Len(Host(a)) = h
    BY <2>1
  <2>3. Len(m) = 6 + h /\ m[1] = 5
    BY <2>1, <2>2
  <2>4. \A j \in 1 .. Len(b) : j <= Len(m) => b[j] = m[j]
    BY <1>1 DEF Agree
  <2> HIDE DEF m
  <2> QED
    BY <2>3, <2>4
<1>5. ParseRequest(b) = p
  BY <1>4, Zenon DEF ParseRequest, checkVersion, Version5
<1> QED
  BY <1>0, <1>3, <1>5, Zenon

\* A sequence of the first bytes of a message of two.
LEMMA AgreeTwo ==
    ASSUME NEW x \in Bytes, NEW y \in Bytes, NEW b \in Seq(Bytes), Agree(b, <<x, y>>)
    PROVE  /\ Len(<<x, y>>) = 2 /\ Len(b) \in Nat
           /\ b = <<>> \/ b[1] = x
           /\ b = <<>> <=> Len(b) = 0
           /\ Len(b) >= 2 => b[2] = y
<1> DEFINE m == <<x, y>>
<1>1. Len(m) = 2 /\ m[1] = x /\ m[2] = y
  OBVIOUS
<1>2. \A j \in 1 .. Len(b) : j <= Len(m) => b[j] = m[j]
  BY DEF Agree
<1> HIDE DEF m
<1>3. \A j \in 1 .. Len(b) : j <= 2 => b[j] = m[j]
  BY <1>1, <1>2
<1> QED
  BY <1>1, <1>3 DEF m

\* ParseMethodSelection of the first bytes of a METHOD.
LEMMA ReadsMethodSelection ==
    ASSUME NEW c \in Bytes, NEW b \in Seq(Bytes), Agree(b, AppendMethodSelection(c))
    PROVE  LET m == AppendMethodSelection(c)
               r == ParseMethodSelection(b)
           IN /\ Len(m) = 2
              /\ Len(b) < 2 => Partial(r, b, m)
              /\ Len(b) >= 2 => r.err = "nil" /\ r.n = 2 /\ r.method = c
<1> DEFINE m == <<5, c>>
           r == ParseMethodSelection(b)
<1>1. AppendMethodSelection(c) = m /\ 5 \in Bytes
  BY DEF AppendMethodSelection, Version5, Bytes
<1>2. Agree(b, m)
  BY <1>1
<1>3. Len(m) = 2 /\ Len(b) \in Nat /\ (b = <<>> \/ b[1] = 5) /\ (Len(b) >= 2 => b[2] = c)
  BY <1>1, <1>2, AgreeTwo
<1>4. checkVersion(b, Version5)
  BY <1>3 DEF checkVersion, Version5
<1>5. Len(b) < 2 => r = Incomplete(2)
  BY <1>4 DEF ParseMethodSelection
<1>6. Len(b) >= 2 => r = [err |-> "nil", n |-> 2, method |-> b[2]]
  BY <1>3, <1>4 DEF ParseMethodSelection
<1> HIDE DEF m, r
<1>7. Len(b) < 2 => Partial(r, b, m)
  BY <1>3, <1>5 DEF Partial, Incomplete
<1> QED
  BY <1>1, <1>3, <1>6, <1>7 DEF r

\* ParseUserPassStatus of the first bytes of a STATUS.
LEMMA ReadsUserPassStatus ==
    ASSUME NEW c \in Bytes, NEW b \in Seq(Bytes), Agree(b, AppendUserPassStatus(c))
    PROVE  LET m == AppendUserPassStatus(c)
               r == ParseUserPassStatus(b)
           IN /\ Len(m) = 2
              /\ Len(b) < 2 => Partial(r, b, m)
              /\ Len(b) >= 2 => r.err = "nil" /\ r.n = 2 /\ r.status = c
<1> DEFINE m == <<1, c>>
           r == ParseUserPassStatus(b)
<1>1. AppendUserPassStatus(c) = m /\ 1 \in Bytes
  BY DEF AppendUserPassStatus, UserPassVersion, Bytes
<1>2. Agree(b, m)
  BY <1>1
<1>3. Len(m) = 2 /\ Len(b) \in Nat /\ (b = <<>> \/ b[1] = 1) /\ (Len(b) >= 2 => b[2] = c)
  BY <1>1, <1>2, AgreeTwo
<1>4. checkVersion(b, UserPassVersion)
  BY <1>3 DEF checkVersion, UserPassVersion
<1>5. Len(b) < 2 => r = Incomplete(2)
  BY <1>4 DEF ParseUserPassStatus
<1>6. Len(b) >= 2 => r = [err |-> "nil", n |-> 2, status |-> b[2]]
  BY <1>3, <1>4 DEF ParseUserPassStatus
<1> HIDE DEF m, r
<1>7. Len(b) < 2 => Partial(r, b, m)
  BY <1>3, <1>5 DEF Partial, Incomplete
<1> QED
  BY <1>1, <1>3, <1>6, <1>7 DEF r

\* A message of another version is refused with its first byte.
LEMMA ReadsOtherVersion ==
    ASSUME NEW b \in Seq(Bytes), NEW x \in Bytes, NEW y \in Bytes, Agree(b, <<x, y>>)
    PROVE  /\ Len(<<x, y>>) = 2
           /\ Len(b) = 0 => /\ Partial(ParseMethodSelection(b), b, <<x, y>>)
                            /\ Partial(ParseUserPassStatus(b), b, <<x, y>>)
           /\ Len(b) > 0 => /\ x # 5 => ParseMethodSelection(b).err = "protocol"
                            /\ x # 1 => ParseUserPassStatus(b).err = "protocol"
<1> DEFINE m == <<x, y>>
           r == ParseMethodSelection(b)
           s == ParseUserPassStatus(b)
<1>1. /\ Len(m) = 2 /\ Len(b) \in Nat /\ (b = <<>> \/ b[1] = x)
      /\ b = <<>> <=> Len(b) = 0
  BY AgreeTwo
<1>2. b = <<>> => r = Incomplete(2) /\ s = Incomplete(2)
  BY DEF ParseMethodSelection, ParseUserPassStatus, checkVersion
<1>3. b # <<>> => /\ x # 5 => r = Protocol
                  /\ x # 1 => s = Protocol
  BY <1>1 DEF ParseMethodSelection, ParseUserPassStatus, checkVersion, Version5, UserPassVersion
<1> HIDE DEF m, r, s
<1>4. Len(b) = 0 => Partial(r, b, m) /\ Partial(s, b, m)
  BY <1>1, <1>2 DEF Partial, Incomplete
<1>5. Len(b) > 0 => /\ x # 5 => r.err = "protocol"
                    /\ x # 1 => s.err = "protocol"
  BY <1>1, <1>3 DEF Protocol
<1> QED
  BY <1>1, <1>4, <1>5 DEF m, r, s

-----------------------------------------------------------------------------
(* The parsers' results.  What the parsers and the readers over them       *)
(* return, whatever the bytes: a proxy may send nonsense.                  *)

\* Replies that no parser accepts: an ATYP that it does not know, or an empty name.
LEMMA ReadsMalformed ==
    ASSUME NEW t \in Bytes, NEW tor \in BOOLEAN, NEW b \in Seq(Bytes),
           Agree(b, BadReply(t))
    PROVE  LET m == BadReply(t)
               r == ParseReply(b, tor)
           IN /\ Len(m) = 10 /\ m \in Seq(Bytes)
              /\ t \in {3, 9} => (Len(b) < 10 /\ Partial(r, b, m)) \/ r.err = "protocol"
              /\ t = 0 /\ tor => /\ Len(b) < 10 => Partial(r, b, m)
                                 /\ Len(b) >= 10 => r.err = "nil" /\ r.n = 10 /\ r.addr = ZeroAddr
              /\ Len(b) > 1 => r.rep = 0
<1> DEFINE m == BadReply(t)
           L == Len(b)
           N == addrMessageLen(b, tor)
           p == parseAddrMessage(b, tor)
           r == ParseReply(b, tor)
<1>1. /\ Len(m) = 10 /\ m[1] = 5 /\ m[2] = 0 /\ m[4] = t /\ m[5] = 0
      /\ m \in Seq(Bytes)
  <2>1. 5 \in Bytes /\ 0 \in Bytes
    BY DEF Bytes
  <2> QED
    BY <2>1 DEF BadReply
<1>2. L \in Nat /\ \A j \in 1 .. L : j <= Len(m) => b[j] = m[j]
  BY DEF Agree
<1> HIDE DEF m, L
<1>3. /\ b # <<>> => L > 0 /\ b[1] = 5
      /\ L > 1 => b[2] = 0
      /\ L >= 4 => b[4] = t
      /\ L >= 5 => b[5] = 0
  <2>1. \A j \in 1 .. L : j <= 10 => b[j] = m[j]
    BY <1>1, <1>2
  <2>2. b # <<>> => L > 0
    BY DEF L
  <2> QED
    BY <1>1, <1>2, <2>1, <2>2
<1>4. r = WithRep(Rep(b), p)
  BY <1>3 DEF ParseReply, checkVersion, Version5
<1>5. r.err = p.err /\ r.n = p.n /\ r.addr = p.addr /\ (L > 1 => r.rep = 0)
  BY <1>3, <1>4 DEF WithRep, Rep, L
<1> HIDE DEF r, N
<1>6. L < 4 => p = Address("incomplete", 5, ZeroAddr)
  BY DEF parseAddrMessage, L
<1>7. L >= 4 => p = IF N = 0 THEN Address("protocol", 0, ZeroAddr)
                    ELSE IF L < N THEN Address("incomplete", N, ZeroAddr)
                    ELSE Address("nil", N, AddrAt(b, N))
  <2>1. L >= 4 => ~(L < 4)
    BY <1>2
  <2> QED
    BY <2>1 DEF parseAddrMessage, L, N
<1> HIDE DEF p
<1>8. L < 4 => Partial(r, b, m)
  BY <1>1, <1>2, <1>5, <1>6 DEF Partial, Address, L
<1>9. t = 3 /\ L >= 4 => (Partial(r, b, m) /\ L < 10) \/ r.err = "protocol"
  <2> SUFFICES ASSUME t = 3, L >= 4
               PROVE  (Partial(r, b, m) /\ L < 10) \/ r.err = "protocol"
    OBVIOUS
  <2>1. CASE L < 5
    <3>1. N = 5
      BY <1>3, <2>1, AddrLen DEF N, L
    <3>2. p = Address("incomplete", 5, ZeroAddr)
      BY <1>7, <2>1, <3>1
    <3> QED
      BY <1>1, <1>2, <1>5, <2>1, <3>2 DEF Partial, Address, L
  <2>2. CASE L >= 5
    <3>1. N = 0
      BY <1>3, <2>2, AddrLen DEF N, L
    <3>2. p = Address("protocol", 0, ZeroAddr)
      BY <1>7, <2>2, <3>1
    <3> QED
      BY <1>5, <3>2 DEF Address
  <2> QED
    BY <1>2, <2>1, <2>2
<1>10. t = 9 /\ L >= 4 => r.err = "protocol"
  <2> SUFFICES ASSUME t = 9, L >= 4 PROVE r.err = "protocol"
    OBVIOUS
  <2>1. N = 0
    BY <1>3, AddrLen DEF N, L
  <2>2. p = Address("protocol", 0, ZeroAddr)
    BY <1>7, <2>1
  <2> QED
    BY <1>5, <2>2 DEF Address
<1>11. t = 0 /\ tor /\ L >= 4 => /\ L < 10 => Partial(r, b, m)
                                 /\ L >= 10 => r.err = "nil" /\ r.n = 10 /\ r.addr = ZeroAddr
  <2> SUFFICES ASSUME t = 0, tor, L >= 4
               PROVE  /\ L < 10 => Partial(r, b, m)
                      /\ L >= 10 => r.err = "nil" /\ r.n = 10 /\ r.addr = ZeroAddr
    OBVIOUS
  <2>1. N = 10
    BY <1>3, AddrLen, Zenon DEF N, L
  <2>2. L < 10 => p = Address("incomplete", 10, ZeroAddr)
    BY <1>7, <2>1
  <2>3. L >= 10 => p = Address("nil", 10, ZeroAddr)
    <3>1. AddrAt(b, 10) = ZeroAddr
      BY <1>3, AddrAtFacts
    <3>2. L >= 10 => ~(L < 10)
      BY <1>2
    <3> QED
      BY <1>7, <2>1, <3>1, <3>2
  <2>4. L < 10 => Partial(r, b, m)
    BY <1>1, <1>2, <1>5, <2>2 DEF Partial, Address, L
  <2> QED
    BY <1>5, <2>3, <2>4 DEF Address
<1>12. L < 4 \/ L >= 4
  BY <1>2
<1>13. t \in {3, 9} => (L < 10 /\ Partial(r, b, m)) \/ r.err = "protocol"
  BY <1>2, <1>8, <1>9, <1>10, <1>12
<1>14. t = 0 /\ tor => /\ L < 10 => Partial(r, b, m)
                       /\ L >= 10 => r.err = "nil" /\ r.n = 10 /\ r.addr = ZeroAddr
  BY <1>2, <1>8, <1>11, <1>12
<1> QED
  BY <1>1, <1>5, <1>13, <1>14 DEF m, r, L

\* ParseReply4 on what has come of a reply.
LEMMA ReadsReply4 ==
    ASSUME NEW a \in ValidAddrs, NEW code \in Bytes,
           NEW b \in Seq(Bytes), Len(a.ip) = 4, Agree(b, AppendReply4(code, a))
    PROVE  LET m == AppendReply4(code, a)
               r == ParseReply4(b)
           IN /\ Len(m) = 8 /\ m \in Seq(Bytes)
              /\ Len(b) < 8 => Partial(r, b, m)
              /\ Len(b) >= 8 => /\ r.err = "nil" /\ r.n = 8
                                /\ r.addr = [a EXCEPT !.ip = Unmap(@)]
              /\ Len(b) > 1 => b[1] = 0 /\ r.rep = code
<1> DEFINE m == AppendReply4(code, a)
           q == Uint16(a.port)
           r == ParseReply4(b)
           h == <<0, code>>
<1>1. /\ q \in Seq(Bytes) /\ Len(q) = 2 /\ q[1] * 256 + q[2] = a.port
  BY AddrFacts, Port
<1>2. /\ a.ip \in Seq(Bytes) /\ Len(a.ip) = 4 /\ a.ip # <<>> /\ a.name = <<>>
      /\ a = [ip |-> a.ip, name |-> a.name, port |-> a.port]
  <2>1. a.ip # <<>>
    <3> SUFFICES ASSUME a.ip = <<>> PROVE FALSE
      OBVIOUS
    <3>1. Len(a.ip) = Len(<<>>)
      OBVIOUS
    <3>2. Len(<<>>) = 0
      OBVIOUS
    <3> QED
      BY <3>1, <3>2
  <2>2. ~IsName(a) => a.name = <<>>
    BY AddrFacts
  <2>3. ~IsName(a)
    BY <2>1, AddrFacts
  <2> QED
    BY <2>1, <2>2, <2>3, AddrFacts
<1>3. h \in Seq(Bytes) /\ Len(h) = 2 /\ h[1] = 0 /\ h[2] = code
  <2>1. 0 \in Bytes
    BY DEF Bytes
  <2> QED
    BY <2>1
<1>4. m = h \o q \o a.ip
  BY <1>2 DEF AppendReply4
<1> HIDE DEF m, q, h
<1> DEFINE ip == a.ip
<1> HIDE DEF ip
<1>5. /\ h \o q \o ip \in Seq(Bytes)
      /\ Len(h \o q \o ip) = Len(h) + Len(q) + Len(ip)
      /\ \A j \in 1 .. Len(h) : (h \o q \o ip)[j] = h[j]
      /\ \A j \in 1 .. Len(q) : (h \o q \o ip)[Len(h) + j] = q[j]
      /\ \A j \in 1 .. Len(ip) : (h \o q \o ip)[Len(h) + Len(q) + j] = ip[j]
  <2>1. h \in Seq(Bytes) /\ q \in Seq(Bytes) /\ ip \in Seq(Bytes)
    BY <1>1, <1>2, <1>3 DEF ip
  <2> QED
    BY <2>1, Concat3
<1>6. m = h \o q \o ip /\ Len(ip) = 4
  BY <1>2, <1>4 DEF ip
<1>7. /\ m \in Seq(Bytes) /\ Len(m) = 8 /\ m[1] = 0 /\ m[2] = code
      /\ m[3] * 256 + m[4] = a.port
      /\ \A j \in 1 .. 4 : m[4 + j] = ip[j]
  <2>1. /\ m \in Seq(Bytes) /\ Len(m) = 2 + 2 + 4
        /\ \A j \in 1 .. 2 : m[j] = h[j]
        /\ \A j \in 1 .. 2 : m[2 + j] = q[j]
        /\ \A j \in 1 .. 4 : m[2 + 2 + j] = ip[j]
    BY <1>1, <1>3, <1>5, <1>6, Zenon
  <2>2. m[2 + 1] = q[1] /\ m[2 + 2] = q[2]
    BY <2>1
  <2>3. m[3] * 256 + m[4] = a.port
    BY <1>1, <2>2
  <2> QED
    BY <1>3, <2>1, <2>3
<1>8. Len(b) \in Nat /\ \A j \in 1 .. Len(b) : j <= Len(m) => b[j] = m[j]
  BY DEF Agree, m
<1>9. \A j \in 1 .. Len(b) : j <= 8 => b[j] = m[j]
  BY <1>7, <1>8
<1>10. /\ b # <<>> => b[1] = 0
       /\ Len(b) > 1 => b[1] = 0 /\ b[2] = code
  BY <1>7, <1>9
<1>11. checkVersion(b, 0)
  BY <1>10 DEF checkVersion
<1>12. Len(b) < 8 => r = WithRep(Rep(b), Address("incomplete", 8, ZeroAddr))
  BY <1>11 DEF ParseReply4
<1>13. Len(b) >= 8 => r = WithRep(Rep(b), Address("nil", 8,
         [ip |-> SubSeq(b, 5, 8), name |-> <<>>, port |-> PortAt(b, 4)]))
  <2>1. Len(b) >= 8 => ~(Len(b) < 8)
    BY <1>8
  <2> QED
    BY <1>11, <2>1 DEF ParseReply4
<1> HIDE DEF r
<1>14. Len(b) >= 8 => SubSeq(b, 5, 8) = ip
  <2> SUFFICES ASSUME Len(b) >= 8 PROVE SubSeq(b, 5, 8) = ip
    OBVIOUS
  <2>1. \A j \in 1 .. 4 : b[5 + j - 1] = ip[j]
    <3> TAKE j \in 1 .. 4
    <3>1. 4 + j \in 1 .. Len(b) /\ 4 + j <= 8 /\ 5 + j - 1 = 4 + j
      BY <1>8
    <3> QED
      BY <1>7, <1>9, <3>1
  <2>2. ip \in Seq(Bytes) /\ Len(ip) = 4 /\ 8 - 5 + 1 = 4 /\ 5 \in Nat /\ 8 \in Nat
    BY <1>2 DEF ip
  <2> QED
    BY <1>8, <2>1, <2>2, Slice
<1>15. Len(b) >= 8 => PortAt(b, 4) = a.port
  <2> SUFFICES ASSUME Len(b) >= 8 PROVE PortAt(b, 4) = a.port
    OBVIOUS
  <2>1. b[3] = m[3] /\ b[4] = m[4]
    BY <1>8, <1>9
  <2> QED
    BY <1>7, <2>1 DEF PortAt
<1>16. Unmap(a.ip) = a.ip
  BY <1>2 DEF Unmap
<1>17. Len(b) > 1 => b[1] = 0 /\ r.rep = code
  BY <1>8, <1>10, <1>12, <1>13 DEF WithRep, Rep
<1>18. Len(b) < 8 => Partial(r, b, m)
  BY <1>7, <1>8, <1>12 DEF Partial, WithRep, Address
<1>19. Len(b) >= 8 => r.err = "nil" /\ r.n = 8 /\ r.addr = [a EXCEPT !.ip = Unmap(@)]
  <2> SUFFICES ASSUME Len(b) >= 8
               PROVE  r.err = "nil" /\ r.n = 8 /\ r.addr = [a EXCEPT !.ip = Unmap(@)]
    OBVIOUS
  <2>1. r = WithRep(Rep(b), Address("nil", 8, [ip |-> a.ip, name |-> <<>>, port |-> a.port]))
    BY <1>13, <1>14, <1>15, Zenon DEF ip
  <2> QED
    BY <1>2, <1>16, <2>1 DEF WithRep, Address
<1> QED
  BY <1>7, <1>17, <1>18, <1>19 DEF m, r

\* A custom Pipeliner's reply.
LEMMA ReadsCustom ==
    ASSUME NEW m \in Seq(Bytes), Len(m) > 1, Len(m) = 1 + m[1],
           NEW b \in Seq(Bytes), Agree(b, m)
    PROVE  LET r == ParseCustom(b)
           IN /\ Len(b) < Len(m) => Partial(r, b, m)
              /\ Len(b) >= Len(m) => r.err = "nil" /\ r.n = Len(m) /\ r.status = m[2]
<1> DEFINE r == ParseCustom(b)
<1>1. Len(b) \in Nat /\ Len(m) \in Nat /\ \A j \in 1 .. Len(b) : j <= Len(m) => b[j] = m[j]
  BY DEF Agree
<1>2. b # <<>> => b[1] = m[1] /\ Len(b) >= 1
  BY <1>1
<1>3. Len(b) >= 2 => b[2] = m[2]
  BY <1>1
<1>4. b = <<>> => r = Incomplete(1)
  BY DEF ParseCustom
<1>5. b # <<>> /\ Len(b) < Len(m) => r = Incomplete(Len(m))
  BY <1>2 DEF ParseCustom
<1>6. Len(b) >= Len(m) => r = [err |-> "nil", n |-> Len(m), status |-> b[2]]
  <2>1. Len(b) >= Len(m) => ~(Len(b) < Len(m)) /\ b # <<>>
    <3>1. b = <<>> => Len(b) = 0
      OBVIOUS
    <3> QED
      BY <1>1, <3>1
  <2> QED
    BY <1>2, <2>1 DEF ParseCustom
<1> HIDE DEF r
<1>7. Len(b) < Len(m) => Partial(r, b, m)
  <2>1. b = <<>> => Len(b) = 0
    OBVIOUS
  <2>2. b = <<>> => Partial(r, b, m)
    BY <1>1, <1>4, <2>1 DEF Partial, Incomplete
  <2>3. b # <<>> /\ Len(b) < Len(m) => Partial(r, b, m)
    BY <1>1, <1>5 DEF Partial, Incomplete
  <2> QED
    BY <2>2, <2>3
<1>8. Len(b) >= Len(m) => r.err = "nil" /\ r.n = Len(m) /\ r.status = m[2]
  BY <1>1, <1>3, <1>6
<1> QED
  BY <1>7, <1>8 DEF r

\* What a slice of a sequence is.
LEMMA SliceFacts ==
    ASSUME NEW S, NEW b \in Seq(S), NEW i \in Nat, NEW k \in Nat, 1 <= i, k <= Len(b), i <= k + 1
    PROVE  /\ SubSeq(b, i, k) \in Seq(S) /\ Len(SubSeq(b, i, k)) = k - i + 1
           /\ \A j \in 1 .. k - i + 1 : SubSeq(b, i, k)[j] = b[i + j - 1]
<1> DEFINE t == SubSeq(b, i, k)
<1>0. \A j \in i .. k : b[j] \in S
  OBVIOUS
<1>1. /\ t \in Seq(S) /\ Len(t) = (IF i <= k THEN k - i + 1 ELSE 0)
      /\ \A j \in 1 .. k - i + 1 : t[j] = b[i + j - 1]
  BY <1>0, SubSeqProperties
<1> HIDE DEF t
<1>2. Len(t) = k - i + 1
  BY <1>1
<1> QED
  BY <1>1, <1>2, Zenon DEF t

\* What of b follows its first m bytes.
LEMMA SliceRest ==
    ASSUME NEW S, NEW b \in Seq(S), NEW m \in Nat, m <= Len(b)
    PROVE  /\ SubSeq(b, m + 1, Len(b)) \in Seq(S) /\ Len(SubSeq(b, m + 1, Len(b))) = Len(b) - m
           /\ \A j \in 1 .. Len(b) - m : SubSeq(b, m + 1, Len(b))[j] = b[m + j]
<1> DEFINE i == m + 1
           k == Len(b)
           t == SubSeq(b, i, k)
<1>1. i \in Nat /\ k \in Nat /\ 1 <= i /\ k <= Len(b) /\ i <= k + 1
  OBVIOUS
<1>2. k - i + 1 = k - m /\ \A j \in 1 .. k - m : i + j - 1 = m + j
  OBVIOUS
<1> HIDE DEF i, k
<1>3. /\ t \in Seq(S) /\ Len(t) = k - i + 1
      /\ \A j \in 1 .. k - i + 1 : t[j] = b[i + j - 1]
  BY <1>1, SliceFacts
<1> HIDE DEF t
<1>4. Len(t) = k - m /\ \A j \in 1 .. k - m : t[j] = b[i + j - 1]
  BY <1>2, <1>3
<1>5. \A j \in 1 .. k - m : t[j] = b[m + j]
  BY <1>2, <1>4
<1> QED
  BY <1>3, <1>4, <1>5 DEF i, k, t

\* Unmap returns an IP.
LEMMA UnmapType ==
    ASSUME NEW ip \in Seq(Bytes)
    PROVE  Unmap(ip) \in Seq(Bytes)
<1>1. ASSUME Len(ip) = 16 PROVE SubSeq(ip, 13, 16) \in Seq(Bytes)
  <2>1. 13 \in Nat /\ 16 \in Nat /\ 1 <= 13 /\ 16 <= Len(ip) /\ 13 <= 16 + 1
    BY <1>1
  <2> QED
    BY <2>1, SliceFacts
<1> QED
  BY <1>1 DEF Unmap

\* A number of 16 bits is a port.
LEMMA SmallPort == \A n \in Nat : n <= 65535 => n \in Ports
<1> DEFINE top == 65535
<1>1. Ports = 0 .. top /\ top \in Nat
  BY DEF Ports
<1> HIDE DEF top
<1>2. \A n \in Nat : n <= top => n \in Ports
  BY <1>1
<1> QED
  BY <1>2 DEF top

\* Two bytes are a port.
LEMMA TwoBytePort == \A x \in Bytes, y \in Bytes : x * 256 + y \in Ports
<1> SUFFICES ASSUME NEW x \in Bytes, NEW y \in Bytes PROVE x * 256 + y \in Ports
  OBVIOUS
<1>1. x \in Int /\ 0 <= x /\ x <= 255 /\ y \in Int /\ 0 <= y /\ y <= 255
  BY DEF Bytes
<1> DEFINE p == x * 256 + y
<1>2. p \in Nat /\ p <= 65535
  BY <1>1
<1> HIDE DEF p
<1>3. p \in Ports
  BY <1>2, SmallPort
<1> QED
  BY <1>3 DEF p

\* A parser reads a port.
LEMMA PortType ==
    ASSUME NEW b \in Seq(Bytes), NEW n \in Nat, 2 <= n, n <= Len(b)
    PROVE  PortAt(b, n) \in Ports
<1>1. b[n - 1] \in Bytes /\ b[n] \in Bytes
  OBVIOUS
<1> QED
  BY <1>1, TwoBytePort DEF PortAt

\* An Addr of an IP, a name and a port.
LEMMA AddrType ==
    ASSUME NEW ip \in Seq(Bytes), NEW name \in Seq(Bytes), NEW port \in Ports
    PROVE  [ip |-> ip, name |-> name, port |-> port] \in Addrs
BY DEF Addrs

\* The zero Addr is an Addr.
LEMMA ZeroAddrType == ZeroAddr \in Addrs /\ Unmap(<<>>) = <<>>
<1>1. <<>> \in Seq(Bytes)
  OBVIOUS
<1>2. 0 \in Ports
  BY DEF Ports
<1>3. ZeroAddr \in Addrs
  BY <1>1, <1>2, AddrType, Zenon DEF ZeroAddr
<1>4. Len(<<>>) # 16
  OBVIOUS
<1> QED
  BY <1>3, <1>4 DEF Unmap

\* The fields of a parser's result.
LEMMA AddressFacts ==
    ASSUME NEW e, NEW n, NEW a
    PROVE  Address(e, n, a).err = e /\ Address(e, n, a).n = n /\ Address(e, n, a).addr = a
BY DEF Address

\* What parseAddrMessage returns for any bytes.
LEMMA AddrMessageTypes ==
    ASSUME NEW b \in Seq(Bytes), NEW tor \in BOOLEAN
    PROVE  /\ parseAddrMessage(b, tor).err \in {"nil", "incomplete", "protocol"}
           /\ parseAddrMessage(b, tor).n \in Nat /\ parseAddrMessage(b, tor).addr \in Addrs
           /\ parseAddrMessage(b, tor).err = "nil" => parseAddrMessage(b, tor).n <= Len(b)
<1> DEFINE N == addrMessageLen(b, tor)
           L == Len(b)
           r == parseAddrMessage(b, tor)
<1>1. L \in Nat
  OBVIOUS
<1>2. CASE L < 4
  <2>1. r = Address("incomplete", 5, ZeroAddr)
    BY <1>2 DEF parseAddrMessage
  <2> HIDE DEF r
  <2> QED
    BY <2>1, ZeroAddrType, AddressFacts DEF r
<1>3. CASE L >= 4
  <2>1. \/ N = 0
        \/ N = 5 /\ L < 5
        \/ N \in {10, 22} /\ b[4] # 3
        \/ N \in 8 .. 262 /\ b[4] = 3
    <3>1. PICK x \in Bytes : x = b[4]
      BY <1>3
    <3>2. CASE x = 3 /\ L >= 5
      <4>0. 5 \in 1 .. L
        BY <1>1, <3>2
      <4>1. PICK y \in Bytes : y = b[5]
        BY <4>0
      <4>2. N = IF y = 0 THEN 0 ELSE 7 + y
        BY <3>1, <3>2, <4>1, AddrLen, Zenon
      <4>3. y # 0 => 7 + y \in 8 .. 262
        BY DEF Bytes
      <4> HIDE DEF N
      <4> QED
        BY <3>1, <3>2, <4>2, <4>3
    <3>3. CASE x = 3 /\ L < 5
      BY <3>1, <3>3, AddrLen, Zenon
    <3>4. CASE x # 3
      BY <3>1, <3>4, AddrLen
    <3> QED
      BY <1>1, <3>2, <3>3, <3>4
  <2>2. r = IF N = 0 THEN Address("protocol", 0, ZeroAddr)
            ELSE IF L < N THEN Address("incomplete", N, ZeroAddr)
            ELSE Address("nil", N, AddrAt(b, N))
    BY <1>3 DEF parseAddrMessage
  <2> HIDE DEF r, N
  <2>3. N \in Nat
    <3>1. N \in 8 .. 262 => N \in Nat
      OBVIOUS
    <3>2. N \in {10, 22} => N \in Nat
      OBVIOUS
    <3>3. N = 0 \/ N = 5 => N \in Nat
      OBVIOUS
    <3> QED
      BY <2>1, <3>1, <3>2, <3>3
  <2>4. CASE N = 0
    BY <2>2, <2>4, ZeroAddrType, AddressFacts DEF r
  <2>5. CASE N # 0 /\ L < N
    BY <2>2, <2>3, <2>5, ZeroAddrType, AddressFacts DEF r
  <2>6. CASE N # 0 /\ ~(L < N)
    <3>1. N <= L /\ ~(N = 5 /\ L < 5) /\ N # 0
      BY <1>1, <2>3, <2>6
    <3>2. PortAt(b, N) \in Ports
      <4>0. \A k \in 8 .. 262 : 2 <= k
        OBVIOUS
      <4>1. N \in Nat /\ 2 <= N /\ N <= L
        BY <2>1, <2>3, <3>1, <4>0
      <4> QED
        BY <4>1, PortType
    <3>3. AddrAt(b, N) \in Addrs
      <4>1. CASE b[4] = 1 \/ b[4] = 4
        <5>1. SubSeq(b, 5, N - 2) \in Seq(Bytes)
          <6>1. N \in {10, 22}
            BY <2>1, <3>1, <4>1
          <6>2. N - 2 \in Nat /\ 5 <= (N - 2) + 1 /\ N - 2 <= L
            BY <1>1, <3>1, <6>1
          <6> QED
            BY <6>2, SliceFacts
        <5>2. Unmap(SubSeq(b, 5, N - 2)) \in Seq(Bytes)
          BY <5>1, UnmapType, Zenon
        <5>3. <<>> \in Seq(Bytes)
          OBVIOUS
        <5> QED
          BY <2>3, <3>2, <4>1, <5>2, <5>3, AddrAtFacts, AddrType, Zenon
      <4>2. CASE b[4] = 3
        <5>1. SubSeq(b, 6, N - 2) \in Seq(Bytes)
          <6>1. N \in 8 .. 262
            BY <2>1, <3>1, <4>2
          <6>2. N - 2 \in Nat /\ 6 <= (N - 2) + 1 /\ N - 2 <= L
            BY <1>1, <3>1, <6>1
          <6> QED
            BY <6>2, SliceFacts
        <5>3. <<>> \in Seq(Bytes)
          OBVIOUS
        <5> QED
          BY <2>3, <3>2, <4>2, <5>1, <5>3, AddrAtFacts, AddrType, Zenon
      <4>3. CASE b[4] \notin {1, 3, 4}
        BY <2>3, <4>3, AddrAtFacts, ZeroAddrType
      <4> QED
        BY <4>1, <4>2, <4>3
    <3> QED
      BY <2>2, <2>3, <2>6, <3>1, <3>3, AddressFacts DEF r
  <2> QED
    BY <2>4, <2>5, <2>6
<1> QED
  BY <1>1, <1>2, <1>3

\* What each parser of the client returns for any bytes.
LEMMA ReplyTypes ==
    ASSUME NEW b \in Seq(Bytes), NEW tor \in BOOLEAN
    PROVE  /\ ParseReply(b, tor).err \in {"nil", "incomplete", "protocol"}
           /\ ParseReply(b, tor).n \in Nat /\ ParseReply(b, tor).addr \in Addrs
           /\ ParseReply(b, tor).err = "nil" => ParseReply(b, tor).n <= Len(b)
<1> DEFINE p == parseAddrMessage(b, tor)
           q == Address("protocol", 0, ZeroAddr)
           r == ParseReply(b, tor)
<1>1. /\ p.err \in {"nil", "incomplete", "protocol"} /\ p.n \in Nat /\ p.addr \in Addrs
      /\ p.err = "nil" => p.n <= Len(b)
  BY AddrMessageTypes
<1>2. q.err = "protocol" /\ q.n = 0 /\ q.addr \in Addrs
  BY ZeroAddrType DEF Address
<1>3. r = WithRep(Rep(b), p) \/ r = WithRep(0, q)
  BY DEF ParseReply
<1> HIDE DEF p, q, r
<1>4. \/ r.err = p.err /\ r.n = p.n /\ r.addr = p.addr
      \/ r.err = q.err /\ r.n = q.n /\ r.addr = q.addr
  BY <1>3 DEF WithRep
<1>5. CASE r.err = p.err /\ r.n = p.n /\ r.addr = p.addr
  BY <1>1, <1>5 DEF r
<1>6. CASE r.err = q.err /\ r.n = q.n /\ r.addr = q.addr
  BY <1>2, <1>6 DEF r
<1> QED
  BY <1>4, <1>5, <1>6

\* What ParseReply4 returns, whatever the bytes.
LEMMA Reply4Types ==
    ASSUME NEW b \in Seq(Bytes)
    PROVE  /\ ParseReply4(b).err \in {"nil", "incomplete", "protocol"}
           /\ ParseReply4(b).n \in Nat /\ ParseReply4(b).addr \in Addrs
           /\ ParseReply4(b).err = "nil" => ParseReply4(b).n <= Len(b)
<1> DEFINE r == ParseReply4(b)
           a == [ip |-> SubSeq(b, 5, 8), name |-> <<>>, port |-> PortAt(b, 4)]
<1>1. CASE ~checkVersion(b, 0)
  <2>1. r = WithRep(0, Address("protocol", 0, ZeroAddr))
    BY <1>1 DEF ParseReply4
  <2> HIDE DEF r
  <2>2. r.err = "protocol" /\ r.n = 0 /\ r.addr = ZeroAddr
    BY <2>1 DEF WithRep, Address
  <2> QED
    BY <2>2, ZeroAddrType DEF r
<1>2. CASE checkVersion(b, 0) /\ Len(b) < 8
  <2>1. r = WithRep(Rep(b), Address("incomplete", 8, ZeroAddr))
    BY <1>2 DEF ParseReply4
  <2> HIDE DEF r
  <2>2. r.err = "incomplete" /\ r.n = 8 /\ r.addr = ZeroAddr
    BY <2>1 DEF WithRep, Address
  <2> QED
    BY <2>2, ZeroAddrType DEF r
<1>3. CASE checkVersion(b, 0) /\ ~(Len(b) < 8)
  <2>1. r = WithRep(Rep(b), Address("nil", 8, a))
    BY <1>3 DEF ParseReply4
  <2>2. a \in Addrs
    <3>1. SubSeq(b, 5, 8) \in Seq(Bytes) /\ PortAt(b, 4) \in Ports
      BY <1>3, SliceFacts, PortType
    <3>2. <<>> \in Seq(Bytes)
      OBVIOUS
    <3> QED
      BY <3>1, <3>2, AddrType, Zenon
  <2> HIDE DEF r, a
  <2>3. r.err = "nil" /\ r.n = 8 /\ r.addr = a
    BY <2>1 DEF WithRep, Address
  <2> QED
    BY <1>3, <2>2, <2>3 DEF r
<1> QED
  BY <1>1, <1>2, <1>3

\* What ParseMethodSelection returns, whatever the bytes.
LEMMA MethodSelectionTypes ==
    ASSUME NEW b \in Seq(Bytes)
    PROVE  /\ ParseMethodSelection(b).err \in {"nil", "incomplete", "protocol"}
           /\ ParseMethodSelection(b).n \in Nat
           /\ ParseMethodSelection(b).err = "nil" =>
                ParseMethodSelection(b).n <= Len(b) /\ ParseMethodSelection(b).method \in Bytes
<1> DEFINE r == ParseMethodSelection(b)
<1>1. \/ r = Protocol \/ r = Incomplete(2)
      \/ Len(b) >= 2 /\ r = [err |-> "nil", n |-> 2, method |-> b[2]]
  BY DEF ParseMethodSelection
<1> HIDE DEF r
<1>2. CASE r = Protocol
  BY <1>2 DEF Protocol, r
<1>3. CASE r = Incomplete(2)
  BY <1>3 DEF Incomplete, r
<1>4. CASE Len(b) >= 2 /\ r = [err |-> "nil", n |-> 2, method |-> b[2]]
  <2>1. b[2] \in Bytes
    BY <1>4
  <2> QED
    BY <1>4, <2>1 DEF r
<1> QED
  BY <1>1, <1>2, <1>3, <1>4

\* What a Pipeliner's ParseReply returns, whatever the bytes.
LEMMA AuthReplyTypes ==
    ASSUME NEW b \in Seq(Bytes)
    PROVE  /\ ParseAuthReply(b).err \in {"nil", "incomplete", "protocol", "auth"}
           /\ ParseAuthReply(b).n \in Nat
           /\ ParseAuthReply(b).err = "nil" => ParseAuthReply(b).n <= Len(b)
<1> DEFINE p == IF UserPass THEN ParseUserPassStatus(b) ELSE ParseCustom(b)
<1>1. \/ p = Protocol \/ \E k \in Nat : p = Incomplete(k)
      \/ p.err = "nil" /\ p.n \in Nat /\ p.n <= Len(b)
  <2>1. CASE UserPass
    <3>1. \/ ParseUserPassStatus(b) = Protocol \/ ParseUserPassStatus(b) = Incomplete(2)
          \/ Len(b) >= 2 /\ ParseUserPassStatus(b) = [err |-> "nil", n |-> 2, status |-> b[2]]
      BY DEF ParseUserPassStatus
    <3> QED
      BY <2>1, <3>1
  <2>2. CASE ~UserPass
    <3>1. CASE b = <<>>
      BY <2>2, <3>1 DEF ParseCustom
    <3>2. CASE b # <<>>
      <4>1. Len(b) \in Nat /\ Len(b) >= 1 /\ b[1] \in Bytes
        BY <3>2
      <4>2. PICK x \in Bytes : x = b[1]
        BY <4>1
      <4>3. x \in Nat
        BY DEF Bytes
      <4>4. PICK k \in Nat : k = 1 + b[1]
        BY <4>2, <4>3
      <4>5. ParseCustom(b) = IF Len(b) < k THEN Incomplete(k)
                             ELSE [err |-> "nil", n |-> k, status |-> b[2]]
        BY <3>2, <4>4 DEF ParseCustom
      <4>6. CASE Len(b) < k
        <5>1. ParseCustom(b) = Incomplete(k)
          BY <4>5, <4>6
        <5> QED
          BY <2>2, <5>1
      <4>7. CASE ~(Len(b) < k)
        <5>1. ParseCustom(b) = [err |-> "nil", n |-> k, status |-> b[2]] /\ k <= Len(b)
          BY <4>1, <4>5, <4>7
        <5>2. p = ParseCustom(b)
          BY <2>2
        <5> HIDE DEF p
        <5> QED
          BY <5>1, <5>2
      <4> QED
        BY <4>6, <4>7
    <3> QED
      BY <3>1, <3>2
  <2> QED
    BY <2>1, <2>2
<1> HIDE DEF p
<1>2. ParseAuthReply(b) = IF p.err = "nil" /\ p.status # 0 THEN [err |-> "auth", n |-> p.n] ELSE p
  BY DEF ParseAuthReply, p
<1> QED
  BY <1>1, <1>2 DEF Protocol, Incomplete

\* What Pending, Parse, readNextErr and nextReplyErr are, whatever was read.
LEMMA ReaderTypes ==
    ASSUME TypeOK, Reading
    PROVE  /\ Pending \in Seq(Bytes) /\ Len(Pending) = Len(rbuf) - msgStart
           /\ Parse(Pending).err \in {"nil", "incomplete", "protocol", "auth"}
           /\ Parse(Pending).n \in Nat
           /\ Parse(Pending).err = "nil" => Parse(Pending).n <= Len(Pending)
           /\ Parse(Pending).err = "nil" /\ pc = "method" => Parse(Pending).method \in Bytes
           /\ pc \in {"reply", "accept"} =>
                Parse(Pending).addr \in Addrs /\ Parse(Pending).err # "auth"
<1>1. /\ rbuf \in Seq(Bytes) /\ msgStart \in 0 .. Len(rbuf)
      /\ pc \in {"method", "auth", "reply", "accept"}
  BY DEF TypeOK, HandshakeTypeOK, Reading
<1>2. Pending \in Seq(Bytes) /\ Len(Pending) = Len(rbuf) - msgStart
  <2>1. msgStart \in Nat /\ msgStart <= Len(rbuf)
    BY <1>1
  <2> QED
    BY <1>1, <2>1, SliceRest DEF Pending
<1>3. CASE pc = "method"
  <2>1. Parse(Pending) = ParseMethodSelection(Pending)
    BY <1>3 DEF Parse
  <2> QED
    BY <1>2, <1>3, <2>1, MethodSelectionTypes
<1>4. CASE pc = "auth"
  <2>1. Parse(Pending) = ParseAuthReply(Pending)
    BY <1>4 DEF Parse
  <2> QED
    BY <1>2, <1>4, <2>1, AuthReplyTypes
<1>5. CASE pc \in {"reply", "accept"} /\ Version = 4
  <2>1. Parse(Pending) = ParseReply4(Pending)
    BY <1>5 DEF Parse
  <2> QED
    BY <1>2, <1>5, <2>1, Reply4Types
<1>6. CASE pc \in {"reply", "accept"} /\ Version # 4
  <2>1. Parse(Pending) = ParseReply(Pending, cfg.cmd = CmdTorResolve)
    BY <1>6 DEF Parse
  <2>2. (cfg.cmd = CmdTorResolve) \in BOOLEAN
    OBVIOUS
  <2> QED
    BY <1>2, <1>6, <2>1, <2>2, ReplyTypes, Zenon
<1> QED
  BY <1>1, <1>3, <1>4, <1>5, <1>6

\* The errors readNext and nextReply return.
LEMMA ReaderErrs ==
    ASSUME TypeOK, Reading, ~Lacking
    PROVE  /\ readNextErr \in {"nil", "eof", "reset", "timeout", "closed", "protocol", "auth", "longAuth"}
           /\ nextReplyErr \in {"nil", "eof", "reset", "timeout", "closed", "protocol", "auth",
                                "longAuth", "reply"}
           /\ readNextErr = "nil" => Parse(Pending).err = "nil"
           /\ pc \in {"reply", "accept"} => readNextErr # "auth" /\ nextReplyErr # "auth"
           /\ nextReplyErr = "nil" => readNextErr = "nil"
<1>1. /\ Parse(Pending).err \in {"nil", "incomplete", "protocol", "auth"}
      /\ pc \in {"reply", "accept"} => Parse(Pending).err # "auth"
  BY ReaderTypes
<1>2. readErr \in {"nil", "EOF", "reset", "timeout", "closed"}
  BY DEF TypeOK, HandshakeTypeOK
<1> DEFINE e == Parse(Pending).err
<1>3. readNextErr = IF e # "incomplete" THEN e
                    ELSE IF readErr # "nil" THEN Truncated(readErr) ELSE "longAuth"
  BY DEF readNextErr
<1> HIDE DEF e
<1>4. /\ readNextErr \in {"nil", "eof", "reset", "timeout", "closed", "protocol", "auth", "longAuth"}
      /\ readNextErr = "nil" => e = "nil"
      /\ readNextErr = "auth" => e = "auth"
  BY <1>1, <1>2, <1>3 DEF Truncated, e
<1>5. nextReplyErr = "reply" \/ nextReplyErr = readNextErr
  BY DEF nextReplyErr
<1> QED
  BY <1>1, <1>4, <1>5 DEF e

-----------------------------------------------------------------------------
(* What the proxy sends.  Each message of the proxy has a shape: the bytes *)
(* of its code and Addr, or bytes that every parser refuses before it has  *)
(* read past them.                                                         *)

\* What the bytes of a message of the proxy are.
MethodShape(m) ==
    /\ m.kind = "method"
    /\ \/ ~m.bad /\ m.bytes = AppendMethodSelection(m.code)
       \/ m.bad /\ m.bytes = <<72, 84>>
AuthShape(m) ==
    /\ m.kind = "auth"
    /\ \/ UserPass /\ ~m.bad /\ m.bytes = AppendUserPassStatus(m.code)
       \/ UserPass /\ m.bad /\ m.bytes = <<5, 0>>
       \/ /\ ~UserPass /\ ~m.bad
          /\ Len(m.bytes) > 1 /\ Len(m.bytes) = 1 + m.bytes[1] /\ m.code = m.bytes[2]
ReplyShape(m) ==
    /\ m.kind \in {"reply", "second"}
    /\ \/ Version = 4 /\ ~m.bad /\ m.addr \in ValidAddrs /\ Len(m.addr.ip) = 4
          /\ m.bytes = AppendReply4(m.code, m.addr)
       \/ Version # 4 /\ ~m.bad /\ m.addr \in ValidAddrs /\ m.bytes = AppendReply(m.code, m.addr)
       \/ Version # 4 /\ m.bad /\ m.code = 0 /\ m.addr = ZeroAddr
          /\ \E t \in (IF cfg.cmd = CmdTorResolve THEN {0} ELSE {3, 9}) :
               m.bytes = BadReply(t)
Shape(m) == MethodShape(m) \/ AuthShape(m) \/ ReplyShape(m) \/ m.kind = "data"

Kinds == {"method", "auth", "reply", "second", "data"}

\* A message the proxy sends.
LEMMA MessageFields ==
    ASSUME NEW k \in Kinds, NEW c \in Bytes, NEW a \in Addrs, NEW b \in Seq(Bytes),
           stream \in Seq(Bytes)
    PROVE  /\ Message(k, c, a, b) \in MessageType
           /\ Message(k, c, a, b).kind = k /\ ~Message(k, c, a, b).bad
           /\ Message(k, c, a, b).code = c /\ Message(k, c, a, b).addr = a
           /\ Message(k, c, a, b).bytes = b /\ Message(k, c, a, b).at = Len(stream)
<1>1. Len(stream) \in Nat
  OBVIOUS
<1>2. Message(k, c, a, b) \in MessageType
  BY <1>1 DEF Message, MessageType, Kinds
<1> QED
  BY <1>2 DEF Message

\* A malformed one.
LEMMA MalformedFields ==
    ASSUME NEW k \in Kinds, NEW b \in Seq(Bytes), stream \in Seq(Bytes)
    PROVE  /\ Malformed(k, b) \in MessageType
           /\ Malformed(k, b).kind = k /\ Malformed(k, b).bad
           /\ Malformed(k, b).code = 0 /\ Malformed(k, b).addr = ZeroAddr
           /\ Malformed(k, b).bytes = b /\ Malformed(k, b).at = Len(stream)
<1>1. Len(stream) \in Nat /\ 0 \in Bytes /\ ZeroAddr \in Addrs
  BY ZeroAddrType DEF Bytes
<1>2. Malformed(k, b) \in MessageType
  BY <1>1 DEF Malformed, MessageType, Kinds
<1> QED
  BY <1>2 DEF Malformed

\* Every METHOD the proxy may send has its shape.
LEMMA MethodMessages ==
    ASSUME stream \in Seq(Bytes), NEW m \in MethodMsgs
    PROVE  m \in MessageType /\ MethodShape(m) /\ m.at = Len(stream)
<1>1. Methods \subseteq Bytes
  BY HandshakeAssumption
<1>2. ZeroAddr \in Addrs /\ "method" \in Kinds
  BY ZeroAddrType DEF Kinds
<1>3. ASSUME NEW c \in Methods, m = Message("method", c, ZeroAddr, AppendMethodSelection(c))
      PROVE  m \in MessageType /\ MethodShape(m) /\ m.at = Len(stream)
  <2>1. c \in Bytes /\ 5 \in Bytes
    BY <1>1 DEF Bytes
  <2>2. AppendMethodSelection(c) \in Seq(Bytes)
    BY <2>1 DEF AppendMethodSelection, Version5
  <2> QED
    BY <1>2, <1>3, <2>1, <2>2, MessageFields DEF MethodShape
<1>4. ASSUME m = Malformed("method", <<72, 84>>)
      PROVE  m \in MessageType /\ MethodShape(m) /\ m.at = Len(stream)
  <2>1. 72 \in Bytes /\ 84 \in Bytes /\ 0 \in Bytes
    BY DEF Bytes
  <2>2. <<72, 84>> \in Seq(Bytes)
    BY <2>1
  <2> DEFINE b == <<72, 84>>
  <2>3. b \in Seq(Bytes) /\ m = Malformed("method", b)
    BY <1>4, <2>2
  <2> HIDE DEF b
  <2>4. /\ m \in MessageType /\ m.kind = "method" /\ m.bad /\ m.bytes = b
        /\ m.at = Len(stream)
    BY <1>2, <2>3, MalformedFields
  <2> QED
    BY <2>4 DEF MethodShape, b
<1> QED
  BY <1>3, <1>4 DEF MethodMsgs

\* Every answer of the proxy's authentication has its shape.
LEMMA AuthMessages ==
    ASSUME stream \in Seq(Bytes), NEW m \in AuthMsgs
    PROVE  m \in MessageType /\ AuthShape(m) /\ m.at = Len(stream)
<1>1. /\ Statuses \subseteq Bytes
      /\ \A r \in CustomReplies : r \in Seq(Bytes) /\ Len(r) > 1 /\ Len(r) = 1 + r[1]
  BY HandshakeAssumption
<1>2. ZeroAddr \in Addrs /\ "auth" \in Kinds /\ 0 \in Bytes
  BY ZeroAddrType DEF Kinds, Bytes
<1>3. ASSUME UserPass, NEW c \in Statuses, m = Message("auth", c, ZeroAddr, AppendUserPassStatus(c))
      PROVE  m \in MessageType /\ AuthShape(m) /\ m.at = Len(stream)
  <2>1. c \in Bytes /\ 1 \in Bytes
    BY <1>1 DEF Bytes
  <2>2. AppendUserPassStatus(c) \in Seq(Bytes)
    BY <2>1 DEF AppendUserPassStatus, UserPassVersion
  <2> QED
    BY <1>2, <1>3, <2>1, <2>2, MessageFields DEF AuthShape
<1>4. ASSUME UserPass, m = Malformed("auth", <<5, 0>>)
      PROVE  m \in MessageType /\ AuthShape(m) /\ m.at = Len(stream)
  <2>1. 5 \in Bytes
    BY DEF Bytes
  <2>2. <<5, 0>> \in Seq(Bytes)
    BY <1>2, <2>1
  <2> QED
    BY <1>2, <1>4, <2>2, MalformedFields, ZenonT(40) DEF AuthShape
<1>5. ASSUME ~UserPass, NEW r \in CustomReplies, m = Message("auth", r[2], ZeroAddr, r)
      PROVE  m \in MessageType /\ AuthShape(m) /\ m.at = Len(stream)
  <2>1. r \in Seq(Bytes) /\ Len(r) > 1 /\ Len(r) = 1 + r[1]
    BY <1>1
  <2>2. r[2] \in Bytes
    BY <2>1
  <2> QED
    BY <1>2, <1>5, <2>1, <2>2, MessageFields DEF AuthShape
<1> QED
  BY <1>3, <1>4, <1>5 DEF AuthMsgs

\* Every reply the proxy may send has its shape.
LEMMA ReplyMessages ==
    ASSUME stream \in Seq(Bytes), NEW kind \in {"reply", "second"}, NEW m \in ReplyMsgs(kind)
    PROVE  m \in MessageType /\ ReplyShape(m) /\ m.kind = kind /\ m.at = Len(stream)
<1>1. Reps \subseteq Bytes /\ Reps4 \subseteq Bytes /\ Bounds \subseteq ValidAddrs
  BY HandshakeAssumption
<1>2. kind \in Kinds /\ 0 \in Bytes /\ 5 \in Bytes /\ ZeroAddr \in Addrs
  BY ZeroAddrType DEF Kinds, Bytes
<1>3. \A a \in Bounds : a \in ValidAddrs /\ a \in Addrs
  BY <1>1 DEF ValidAddrs
<1>4. ASSUME Version = 4, NEW r \in Reps4, NEW a \in Bounds, Len(a.ip) = 4,
             m = Message(kind, r, a, AppendReply4(r, a))
      PROVE  m \in MessageType /\ ReplyShape(m) /\ m.kind = kind /\ m.at = Len(stream)
  <2>1. r \in Bytes /\ a \in ValidAddrs /\ a \in Addrs
    BY <1>1, <1>3
  <2>2. AppendReply4(r, a) \in Seq(Bytes)
    <3>1. <<>> \in Seq(Bytes) /\ Agree(<<>>, AppendReply4(r, a))
      BY DEF Agree
    <3> QED
      BY <1>4, <2>1, <3>1, ReadsReply4, Zenon
  <2> QED
    BY <1>2, <1>4, <2>1, <2>2, MessageFields DEF ReplyShape
<1>5. ASSUME Version # 4, NEW r \in Reps, NEW a \in Bounds,
             m = Message(kind, r, a, AppendReply(r, a))
      PROVE  m \in MessageType /\ ReplyShape(m) /\ m.kind = kind /\ m.at = Len(stream)
  <2>1. r \in Bytes /\ a \in ValidAddrs /\ a \in Addrs
    BY <1>1, <1>3
  <2>2. AppendReply(r, a) \in Seq(Bytes)
    BY <2>1, AddrMessage
  <2> QED
    BY <1>2, <1>5, <2>1, <2>2, MessageFields DEF ReplyShape
<1>6. ASSUME Version # 4, NEW t \in (IF cfg.cmd = CmdTorResolve THEN {0} ELSE {3, 9}),
             m = Malformed(kind, BadReply(t))
      PROVE  m \in MessageType /\ ReplyShape(m) /\ m.kind = kind /\ m.at = Len(stream)
  <2>1. t \in Bytes
    BY DEF Bytes
  <2>2. BadReply(t) \in Seq(Bytes)
    BY <1>2, <2>1 DEF BadReply
  <2> QED
    BY <1>2, <1>6, <2>2, MalformedFields DEF ReplyShape
<1>7. CASE Version = 4
  <2>1. \E r \in Reps4, a \in {b \in Bounds : Len(b.ip) = 4} :
          m = Message(kind, r, a, AppendReply4(r, a))
    BY <1>7 DEF ReplyMsgs
  <2> QED
    BY <1>4, <1>7, <2>1
<1>8. CASE Version # 4
  <2>1. \/ \E r \in Reps, a \in Bounds : m = Message(kind, r, a, AppendReply(r, a))
        \/ \E t \in (IF cfg.cmd = CmdTorResolve THEN {0} ELSE {3, 9}) :
             m = Malformed(kind, BadReply(t))
    BY <1>8 DEF ReplyMsgs
  <2> QED
    BY <1>5, <1>6, <1>8, <2>1
<1> QED
  BY <1>7, <1>8

-----------------------------------------------------------------------------
(* The inductive invariant.  HSInv: where a call is says which message of  *)
(* the proxy is read next (Cur), where it starts in the stream (Base) and  *)
(* what of it was read (Got).  Aligned ties the client's buffers to the    *)
(* stream: without it, no step could say that the message it parses is the *)
(* one the proxy sent, nor that a count of bytes taken is the end of a     *)
(* message.                                                                *)

\* Where in the conversation the first reply is, and what each message is.
ReplyAt ==
    IF Version = 4 THEN 1
    ELSE IF sent # <<>> /\ sent[1].code = MethodNoAuth THEN 2 ELSE 3
KindAt(i) ==
    CASE i < ReplyAt -> IF i = 1 THEN "method" ELSE "auth"
      [] i = ReplyAt -> "reply"
      [] i = ReplyAt + 1 /\ cfg.cmd = CmdBind -> "second"
      [] OTHER -> "data"

\* The proxy answers in order, only after what lets the handshake go on, and the
\* stream is its messages, one after the other.
Talk ==
    /\ \A i \in 1 .. Len(sent) :
         /\ sent[i].kind = KindAt(i) /\ Shape(sent[i])
         /\ i < Len(sent) => Good(sent[i]) /\ sent[i + 1].at = EndOf(i)
         /\ \A k \in 1 .. Len(sent) : i < k => EndOf(i) <= sent[k].at
         /\ \A j \in 1 .. Len(sent[i].bytes) : stream[sent[i].at + j] = sent[i].bytes[j]
    /\ sent # <<>> => sent[1].at = 0
    /\ Len(stream) = IF sent = <<>> THEN 0 ELSE EndOf(Len(sent))

\* The handshake goes on, or has succeeded.
Live == pc # "failed" /\ (pc = "settle" => he = NoErr)

\* The message that is read next, where it starts, and what of it was read.
Cur ==
    CASE pc \in {"config", "dial", "write", "method"} -> 1
      [] pc \in {"auth", "authWrite", "authRead"} -> 2
      [] pc \in {"request", "reply"} -> ReplyAt
      [] OTHER -> ReplyAt + 1
Base == IF Cur = 1 THEN 0 ELSE EndOf(Cur - 1)
Got == IF pc = "authRead" THEN part.b ELSE Pending

\* How a call gets where it is.
Paths ==
    /\ pc \notin {"config", "failed"} => initOK
    /\ pc \in {"method", "auth", "authWrite", "authRead", "request"} => Version # 4
    /\ pc \in {"authWrite", "authRead", "request"} => Sequential5
    /\ pc = "auth" => ~Sequential5 /\ HasPipe
    /\ pc \in {"auth", "authWrite", "authRead"} => method # MethodNoAuth
    /\ pc \in {"config", "dial", "write"} => readStage = (IF Version = 4 THEN "reply" ELSE "method")
    /\ pc \in {"method", "auth"} => readStage = pc
    /\ pc \in {"config", "dial", "write", "method", "authWrite"} => part = [b |-> <<>>, need |-> 0]
    /\ pc \in {"config", "dial"} => he = NoErr
    /\ readErr = "EOF" => proxy = "EOF"
    /\ pc \in {"accept", "accepted"} => cfg.cmd = CmdBind
    /\ Live => he = NoErr
    /\ \A a \in Accepters : /\ apc[a] = "read" => pc = "accept"
                            /\ apc[a] \in {"lock", "close", "clear", "conn", "err"} => pc = "accepted"
                            /\ apc[a] \in {"clear", "conn"} => aerr = "nil"
    /\ pc # "accepted" => aerr = "nil"
    /\ state = "listening" => pc \notin {"accept", "accepted"}

\* What UserPass.Authenticate, or the custom one, waits for.
NeedOK ==
    /\ Len(part.b) <= part.need
    /\ \/ part.need = 0
       \/ UserPass /\ part.need = 2
       \/ ~UserPass /\ (part.need = 1 \/ (part.b # <<>> /\ part.need = 1 + part.b[1]))

\* Every message up to here let the handshake go on, and what was read but not
\* used is the start of the next.
Aligned ==
    Live =>
      /\ Cur - 1 <= Len(sent) /\ \A i \in 1 .. Cur - 1 : Good(sent[i])
      /\ Version # 4 /\ Cur > 1 => sent[1].code = method
      /\ pc # "accepted" =>
           taken = Base + Len(Got) /\ \A j \in 1 .. Len(Got) : Got[j] = stream[Base + j]
      /\ ~Reading /\ pc # "accepted" => msgStart = Len(rbuf)
      /\ pc \in {"config", "dial", "write"} => rbuf = <<>>

\* Nothing is read that follows the replies; in ModeSequential, that follows the
\* message that is read.
Stop == IF Sequential5 \/ pc = "accept" THEN Cur ELSE ReplyAt
Bounded ==
    /\ Live /\ pc # "accepted" /\ Stop <= Len(sent) => taken <= EndOf(Stop)
    /\ pc \notin {"accept", "accepted"} /\ ReplyAt <= Len(sent) => taken <= EndOf(ReplyAt)
    /\ pc \in {"accept", "accepted"} /\ ReplyAt < Len(sent) => taken <= EndOf(ReplyAt + 1)

\* What a handshake and an Accept that succeeded return.
Returned ==
    /\ pc \in {"clear", "ok", "accept", "accepted"} \/ (pc = "settle" /\ he = NoErr) =>
         bound = AsSent(sent[ReplyAt].addr)
    /\ pc = "accepted" /\ aerr = "nil" =>
         /\ ReplyAt < Len(sent) /\ Good(sent[ReplyAt + 1])
         /\ peer = AsSent(sent[ReplyAt + 1].addr) /\ taken = EndOf(ReplyAt + 1)
    /\ aerr = "reply" => ReplyAt < Len(sent) /\ Refused(ReplyAt + 1)

\* What is wrong is blamed on the proxy's message that is.
Blame ==
    ~Live =>
      /\ he.stage \in Prefix =>
           /\ he.err \in {"protocol", "method", "auth", "reply"} =>
                \E i \in Of(he.stage) : ~Good(sent[i]) \/ ~checkBound(AsSent(sent[i].addr))
           /\ he.err = "eof" =>
                /\ proxy = "EOF"
                /\ \A i \in Of(he.stage) : EndOf(i) > taken
                /\ \A i \in DOMAIN sent : sent[i].kind \in Prefix /\ EndOf(i) <= taken => Good(sent[i])
      /\ \A i \in Of("reply") : Refused(i) /\ taken >= sent[i].at + 2 => he.err = "reply"
      /\ \A i \in Of("auth") : ~Good(sent[i]) /\ ~sent[i].bad /\ taken >= EndOf(i) => he.err = "auth"

HSInv == TypeOK /\ Paths /\ NeedOK /\ Talk /\ Aligned /\ Bounded /\ Returned /\ Blame

\* How many bytes a message has at least.
LEMMA MessageLengths ==
    ASSUME NEW m \in MessageType, Shape(m)
    PROVE  /\ m.bytes \in Seq(Bytes) /\ Len(m.bytes) \in Nat /\ m.at \in Nat
           /\ m.code \in Bytes /\ m.addr \in Addrs /\ m.bad \in BOOLEAN
           /\ m.kind = "method" => Len(m.bytes) = 2
           /\ m.kind = "auth" => Len(m.bytes) >= 2 /\ (UserPass => Len(m.bytes) = 2)
           /\ m.kind \in {"reply", "second"} => Len(m.bytes) >= 8
<1>1. /\ m.bytes \in Seq(Bytes) /\ m.at \in Nat
      /\ m.code \in Bytes /\ m.addr \in Addrs /\ m.bad \in BOOLEAN
  BY DEF MessageType
<1>2. Len(m.bytes) \in Nat
  BY <1>1
<1>3. ASSUME m.kind = "method" PROVE Len(m.bytes) = 2
  <2>1. m.bytes = AppendMethodSelection(m.code) \/ m.bytes = <<72, 84>>
    BY <1>3 DEF Shape, MethodShape, AuthShape, ReplyShape
  <2>2. Len(AppendMethodSelection(m.code)) = 2 /\ Len(<<72, 84>>) = 2
    BY DEF AppendMethodSelection
  <2> QED
    BY <2>1, <2>2
<1>4. ASSUME m.kind = "auth" PROVE Len(m.bytes) >= 2 /\ (UserPass => Len(m.bytes) = 2)
  <2>1. \/ UserPass /\ (m.bytes = AppendUserPassStatus(m.code) \/ m.bytes = <<5, 0>>)
        \/ ~UserPass /\ Len(m.bytes) > 1
    BY <1>4 DEF Shape, MethodShape, AuthShape, ReplyShape
  <2>2. Len(AppendUserPassStatus(m.code)) = 2 /\ Len(<<5, 0>>) = 2
    BY DEF AppendUserPassStatus
  <2>3. CASE UserPass
    <3>1. Len(m.bytes) = 2
      BY <2>1, <2>2, <2>3
    <3> QED
      BY <3>1
  <2>4. CASE ~UserPass
    BY <1>2, <2>1, <2>4
  <2> QED
    BY <2>3, <2>4
<1>5. ASSUME m.kind \in {"reply", "second"} PROVE Len(m.bytes) >= 8
  <2>1. ReplyShape(m)
    BY <1>5 DEF Shape, MethodShape, AuthShape, ReplyShape
  <2>2. <<>> \in Seq(Bytes) /\ \A s : Agree(<<>>, s)
    BY DEF Agree
  <2>3. CASE m.addr \in ValidAddrs /\ Len(m.addr.ip) = 4 /\ m.bytes = AppendReply4(m.code, m.addr)
    <3>1. Len(AppendReply4(m.code, m.addr)) = 8
      BY <1>1, <2>2, <2>3, ReadsReply4, Zenon
    <3> QED
      BY <2>3, <3>1
  <2>4. CASE m.addr \in ValidAddrs /\ m.bytes = AppendReply(m.code, m.addr)
    <3>1. /\ Len(AppendReply(m.code, m.addr)) = 6 + Len(Host(m.addr))
          /\ Len(Host(m.addr)) \in 2 .. 256
      BY <1>1, <2>4, AddrMessage
    <3>2. PICK h \in 2 .. 256 : h = Len(Host(m.addr))
      BY <3>1
    <3>3. Len(m.bytes) = 6 + h
      BY <2>4, <3>1, <3>2
    <3> QED
      BY <3>3
  <2>5. CASE \E t \in (IF cfg.cmd = CmdTorResolve THEN {0} ELSE {3, 9}) : m.bytes = BadReply(t)
    <3>1. \A t : Len(BadReply(t)) = 10
      BY DEF BadReply
    <3>2. Len(m.bytes) = 10
      BY <2>5, <3>1
    <3> QED
      BY <3>2
  <2> QED
    BY <2>1, <2>3, <2>4, <2>5 DEF ReplyShape
<1> QED
  BY <1>1, <1>2, <1>3, <1>4, <1>5

\* The proxy's next message.
LEMMA NextMessage ==
    ASSUME stream \in Seq(Bytes), sent \in Seq(MessageType), NEW m \in NextMessages,
           \A i \in 1 .. Len(sent) : sent[i].kind = KindAt(i)
    PROVE  /\ m \in MessageType /\ Shape(m) /\ m.at = Len(stream)
           /\ sent = <<>> => m.kind = IF Version = 4 THEN "reply" ELSE "method"
           /\ sent # <<>> => Good(Last1) /\ m.kind = KindAt(Len(sent) + 1)
<1> DEFINE data == Message("data", 0, ZeroAddr, <<42>>)
<1>1. data \in MessageType /\ data.kind = "data" /\ data.at = Len(stream)
  <2>1. 42 \in Bytes /\ 0 \in Bytes
    BY DEF Bytes
  <2> DEFINE b == <<42>>
  <2>2. b \in Seq(Bytes) /\ "data" \in Kinds /\ 0 \in Bytes /\ ZeroAddr \in Addrs
    BY <2>1, ZeroAddrType DEF Kinds
  <2>3. data = Message("data", 0, ZeroAddr, b)
    OBVIOUS
  <2> HIDE DEF b, data
  <2> QED
    BY <2>2, <2>3, MessageFields
<1> HIDE DEF data
<1>2. Version = 4 \/ Version = 5
  BY DEF Version
<1>3. ASSUME m \in ReplyMsgs("reply")
      PROVE  m \in MessageType /\ Shape(m) /\ m.at = Len(stream) /\ m.kind = "reply"
  BY <1>3, ReplyMessages DEF Shape
<1>4. ASSUME m \in MethodMsgs
      PROVE  m \in MessageType /\ Shape(m) /\ m.at = Len(stream) /\ m.kind = "method"
  BY <1>4, MethodMessages DEF Shape, MethodShape
<1>5. ASSUME m \in AuthMsgs
      PROVE  m \in MessageType /\ Shape(m) /\ m.at = Len(stream) /\ m.kind = "auth"
  BY <1>5, AuthMessages DEF Shape, AuthShape
<1>6. ASSUME m \in ReplyMsgs("second")
      PROVE  m \in MessageType /\ Shape(m) /\ m.at = Len(stream) /\ m.kind = "second"
  BY <1>6, ReplyMessages DEF Shape
<1>7. ASSUME m = data
      PROVE  m \in MessageType /\ Shape(m) /\ m.at = Len(stream) /\ m.kind = "data"
  BY <1>1, <1>7 DEF Shape
<1>8. CASE sent = <<>>
  <2>1. CASE Version = 4
    <3>1. m \in ReplyMsgs("reply")
      BY <1>8, <2>1 DEF NextMessages
    <3> QED
      BY <1>3, <1>8, <2>1, <3>1
  <2>2. CASE Version = 5
    <3>1. m \in MethodMsgs
      BY <1>8, <2>2 DEF NextMessages
    <3> QED
      BY <1>4, <1>8, <2>2, <3>1
  <2> QED
    BY <1>2, <2>1, <2>2
<1>9. CASE sent # <<>>
  <2> DEFINE n == Len(sent)
             k == Last1.kind
  <2>1. n \in Nat /\ n >= 1 /\ Last1 = sent[n] /\ k = KindAt(n)
    BY <1>9 DEF Last1
  <2>2. ReplyAt \in {1, 2, 3}
    BY DEF ReplyAt
  <2>3. /\ k = "method" => n < ReplyAt /\ n = 1
        /\ k = "auth" => n < ReplyAt /\ n # 1
        /\ k = "reply" => n = ReplyAt
        /\ k = "second" => n = ReplyAt + 1 /\ cfg.cmd = CmdBind
    BY <2>1, <2>2 DEF KindAt
  <2> HIDE DEF n, k
  <2>4. /\ Good(Last1)
        /\ \/ k = "method" /\ Last1.code = MethodNoAuth /\ m \in ReplyMsgs("reply")
           \/ k = "method" /\ Last1.code # MethodNoAuth /\ m \in AuthMsgs
           \/ k = "auth" /\ m \in ReplyMsgs("reply")
           \/ k = "reply" /\ cfg.cmd = CmdBind /\ m \in ReplyMsgs("second")
           \/ k = "reply" /\ cfg.cmd # CmdBind /\ m = data
           \/ k = "second" /\ m = data
    BY <1>9 DEF NextMessages, k, data
  <2>5. CASE k = "method" /\ Last1.code = MethodNoAuth /\ m \in ReplyMsgs("reply")
    <3>1. ReplyAt = 2 /\ n = 1
      BY <1>9, <2>1, <2>2, <2>3, <2>5 DEF ReplyAt
    <3>2. KindAt(n + 1) = "reply"
      BY <3>1 DEF KindAt
    <3> QED
      BY <1>3, <1>9, <2>4, <2>5, <3>2 DEF n
  <2>6. CASE k = "method" /\ Last1.code # MethodNoAuth /\ m \in AuthMsgs
    <3>1. ReplyAt = 3 /\ n = 1
      BY <1>9, <2>1, <2>2, <2>3, <2>6 DEF ReplyAt
    <3>2. KindAt(n + 1) = "auth"
      BY <3>1 DEF KindAt
    <3> QED
      BY <1>5, <1>9, <2>4, <2>6, <3>2 DEF n
  <2>7. CASE k = "auth" /\ m \in ReplyMsgs("reply")
    <3>1. ReplyAt = 3 /\ n = 2
      BY <2>1, <2>2, <2>3, <2>7
    <3>2. KindAt(n + 1) = "reply"
      BY <3>1 DEF KindAt
    <3> QED
      BY <1>3, <1>9, <2>4, <2>7, <3>2 DEF n
  <2>8. CASE k = "reply" /\ cfg.cmd = CmdBind /\ m \in ReplyMsgs("second")
    <3>1. ~(n + 1 < ReplyAt) /\ n + 1 # ReplyAt /\ n + 1 = ReplyAt + 1
      BY <2>2, <2>3, <2>8
    <3>2. KindAt(n + 1) = "second"
      BY <2>8, <3>1 DEF KindAt
    <3> QED
      BY <1>6, <1>9, <2>4, <2>8, <3>2 DEF n
  <2>9. CASE k = "reply" /\ cfg.cmd # CmdBind /\ m = data
    <3>1. ~(n + 1 < ReplyAt) /\ n + 1 # ReplyAt
      BY <2>2, <2>3, <2>9
    <3>2. KindAt(n + 1) = "data"
      BY <2>9, <3>1 DEF KindAt
    <3> QED
      BY <1>7, <1>9, <2>4, <2>9, <3>2 DEF n
  <2>10. CASE k = "second" /\ m = data
    <3>1. ~(n + 1 < ReplyAt) /\ n + 1 # ReplyAt /\ n + 1 # ReplyAt + 1
      BY <2>2, <2>3, <2>10
    <3>2. KindAt(n + 1) = "data"
      BY <3>1 DEF KindAt
    <3> QED
      BY <1>7, <1>9, <2>4, <2>10, <3>2 DEF n
  <2> QED
    BY <2>4, <2>5, <2>6, <2>7, <2>8, <2>9, <2>10
<1> QED
  BY <1>8, <1>9

-----------------------------------------------------------------------------
(* Types.                                                                  *)

\* The type invariant in parts: what is read, what is sent, and the rest.
ReadOK ==
    /\ method \in Bytes
    /\ rbuf \in Seq(Bytes) /\ Len(rbuf) <= MaxReplyBytes
    /\ msgStart \in 0 .. Len(rbuf)
    /\ part \in [b: Seq(Bytes), need: Nat]
    /\ bound \in Addrs /\ peer \in Addrs
SentOK ==
    /\ sent \in Seq(MessageType)
    /\ stream \in Seq(Bytes) /\ taken \in 0 .. Len(stream)
ErrOK ==
    /\ he = NoErr \/ he \in [stage: Stages, err: Errs]
    /\ readStage \in Stages
    /\ readErr \in {"nil", "EOF", "reset", "timeout", "closed"}
    /\ aerr \in {"nil", "closed", "eof", "reset", "timeout", "protocol", "reply", "longAuth"}
PlaceOK ==
    /\ cfg \in Configs
    /\ pc \in {"config", "dial", "write", "method", "auth", "authWrite", "authRead",
               "request", "reply", "settle", "clear", "ok", "failed", "accept", "accepted"}
    /\ wrote \in 0 .. 3
    /\ proxy \in {"sending", "silent", "EOF", "reset"}
    /\ apc \in [Accepters -> {"idle", "read", "lock", "close", "clear", "conn", "err", "refused"}]
    /\ cpc \in [Closers -> {"idle", "close", "returned", "already"}]
    /\ deadlines \in 0 .. MaxDeadlines
ConnOK ==
    /\ conn \in {"none", "open", "closed"}
    /\ deadline \in {"none", "budget", "future", "past"}
    /\ late \in BOOLEAN
    /\ ctx \in {"live", "done"}
    /\ watch \in {"none", "armed", "fired", "ran", "stopped"}
    /\ state \in {"listening", "accepting", "done"}
    /\ closed \in BOOLEAN

\* TypeOK in five parts: a step disturbs one or two of them.
LEMMA TypeParts == TypeOK <=> ReadOK /\ SentOK /\ ErrOK /\ PlaceOK /\ ConnOK
BY DEF TypeOK, HandshakeTypeOK, ReadOK, SentOK, ErrOK, PlaceOK, ConnOK

\* A call starts with the right types.
LEMMA TypeInit == Init => TypeOK
<1> SUFFICES ASSUME Init PROVE TypeOK
  OBVIOUS
<1>1. <<>> \in Seq(Bytes) /\ <<>> \in Seq(MessageType) /\ Len(<<>>) = 0
  OBVIOUS
<1>2. ZeroAddr \in Addrs /\ 0 \in Bytes /\ MaxReplyBytes \in Nat \ {0} /\ MaxDeadlines \in Nat
  BY ZeroAddrType, HandshakeAssumption, ListenerAssumption DEF Bytes
<1>3. part = [b |-> <<>>, need |-> 0]
  BY DEF Init, Init0
<1>4. ReadOK
  BY <1>1, <1>2, <1>3 DEF ReadOK, Init, Init0
<1>5. SentOK
  BY <1>1 DEF SentOK, Init, Init0
<1>6. ErrOK
  BY DEF ErrOK, Init, Init0, Stages
<1>7. PlaceOK
  BY <1>2 DEF PlaceOK, Init, Init0
<1>8. ConnOK
  BY Zenon DEF ConnOK, Init, Init0
<1> QED
  BY <1>4, <1>5, <1>6, <1>7, <1>8, TypeParts

\* A Read: what it returns and what it leaves.
LEMMA ReadFacts ==
    ASSUME TypeOK, NEW w \in Nat, NEW r \in ReadResults(w), DidRead(r)
    PROVE  /\ r.m \in Nat /\ r.m <= Len(stream) - taken
           /\ r.err \in {"nil", "EOF", "reset", "timeout", "closed"}
           /\ r.m <= w
           /\ taken' = taken + r.m /\ taken' \in 0 .. Len(stream)
           /\ proxy' \in {"sending", "silent", "EOF", "reset"}
           /\ r.err = "EOF" => proxy' = "EOF"
           /\ proxy = "EOF" => proxy' = "EOF"
           /\ Segment(r) \in Seq(Bytes) /\ Len(Segment(r)) = r.m
           /\ \A j \in 1 .. r.m : Segment(r)[j] = stream[taken + j]
<1>1. stream \in Seq(Bytes) /\ taken \in 0 .. Len(stream) /\ proxy \in {"sending", "silent", "EOF", "reset"}
  BY DEF TypeOK, HandshakeTypeOK
<1>2. \/ r.m = 0 /\ r.err \in {"EOF", "reset", "timeout", "closed"}
      \/ r.m \in 1 .. Min2(w, Len(stream) - taken) /\ r.err \in {"nil", "EOF"}
  <2>1. \/ r \in {[m |-> 0, err |-> IOError]} /\ IOError # "nil"
        \/ r \in {[m |-> 0, err |-> proxy]} /\ proxy \in {"EOF", "reset"}
        \/ r \in [m: 1 .. Min2(w, Len(stream) - taken), err: {"nil", "EOF"}]
    BY DEF ReadResults
  <2>2. IOError \in {"closed", "timeout", "nil"}
    BY DEF IOError
  <2> QED
    BY <2>1, <2>2
<1>3. r.m \in Nat /\ r.m <= Len(stream) - taken /\ r.m <= w
  BY <1>1, <1>2 DEF Min2
<1>4. r.err \in {"nil", "EOF", "reset", "timeout", "closed"}
  BY <1>2
<1>5. taken' = taken + r.m /\ taken' \in 0 .. Len(stream)
  BY <1>1, <1>3 DEF DidRead
<1>6. /\ proxy' \in {"sending", "silent", "EOF", "reset"}
      /\ r.err = "EOF" => proxy' = "EOF"
      /\ proxy = "EOF" => proxy' = "EOF"
  BY <1>1 DEF DidRead
<1>7. /\ Segment(r) \in Seq(Bytes) /\ Len(Segment(r)) = r.m
      /\ \A j \in 1 .. r.m : Segment(r)[j] = stream[taken + j]
  <2> DEFINE i == taken + 1
             k == taken + r.m
  <2>1. i \in Nat /\ k \in Nat /\ 1 <= i /\ k <= Len(stream) /\ i <= k + 1 /\ k - i + 1 = r.m
    BY <1>1, <1>3
  <2>2. \A j \in 1 .. r.m : i + j - 1 = taken + j
    BY <1>1, <1>3
  <2>3. Segment(r) = SubSeq(stream, i, k)
    BY DEF Segment
  <2> HIDE DEF i, k
  <2>4. /\ SubSeq(stream, i, k) \in Seq(Bytes) /\ Len(SubSeq(stream, i, k)) = k - i + 1
        /\ \A j \in 1 .. k - i + 1 : SubSeq(stream, i, k)[j] = stream[i + j - 1]
    BY <1>1, <2>1, SliceFacts
  <2> QED
    BY <2>1, <2>2, <2>3, <2>4
<1> QED
  BY <1>3, <1>4, <1>5, <1>6, <1>7

\* What Authenticate's buffer may parse to.
LEMMA AuthReadFacts ==
    ASSUME TypeOK, NeedOK
    PROVE  /\ part.b \in Seq(Bytes) /\ part.need \in Nat /\ Len(part.b) \in Nat
           /\ part = [b |-> part.b, need |-> part.need]
           /\ ParseAuthReply(part.b).err \in {"nil", "incomplete", "protocol", "auth"}
           /\ ParseAuthReply(part.b).n \in Nat
<1>1. part \in [b: Seq(Bytes), need: Nat]
  BY DEF TypeOK, HandshakeTypeOK
<1>2. part.b \in Seq(Bytes) /\ part.need \in Nat /\ part = [b |-> part.b, need |-> part.need]
  BY <1>1
<1> QED
  BY <1>2, AuthReplyTypes

\* Authenticate does not stop for a whole message before it has all it waits for.
LEMMA AuthShort ==
    ASSUME NEW b \in Seq(Bytes), NEW n \in Nat, Len(b) < n,
           \/ UserPass /\ n = 2
           \/ ~UserPass /\ (n = 1 \/ (b # <<>> /\ n = 1 + b[1]))
    PROVE  ParseAuthReply(b).err \in {"incomplete", "protocol"}
<1>1. CASE UserPass
  <2>1. ParseUserPassStatus(b) = Protocol \/ ParseUserPassStatus(b) = Incomplete(2)
    BY <1>1 DEF ParseUserPassStatus
  <2>2. ParseUserPassStatus(b).err \in {"incomplete", "protocol"}
    BY <2>1 DEF Protocol, Incomplete
  <2> QED
    BY <1>1, <2>2 DEF ParseAuthReply
<1>2. CASE ~UserPass
  <2>1. ParseCustom(b).err = "incomplete"
    <3>1. CASE b = <<>>
      BY <3>1 DEF ParseCustom, Incomplete
    <3>2. CASE b # <<>>
      <4>1. n = 1 + b[1]
        <5>1. Len(b) >= 1
          BY <3>2
        <5> QED
          BY <1>2, <3>2, <5>1
      <4> QED
        BY <3>2, <4>1 DEF ParseCustom, Incomplete
    <3> QED
      BY <3>1, <3>2
  <2> QED
    BY <1>2, <2>1 DEF ParseAuthReply
<1> QED
  BY <1>1, <1>2

\* blame (Settle) is a HandshakeError.
LEMMA BlameTypes ==
    ASSUME TypeOK
    PROVE  blame = NoErr \/ blame \in [stage: Stages, err: Errs]
<1>1. (he = NoErr \/ he \in [stage: Stages, err: Errs]) /\ readStage \in Stages
  BY DEF TypeOK, HandshakeTypeOK
<1>2. "ctx" \in Errs /\ "deadline" \in Errs
  BY DEF Errs
<1>3. CASE blame = he
  BY <1>1, <1>3
<1>4. CASE blame = [stage |-> IF he = NoErr THEN readStage ELSE he.stage, err |-> "ctx"]
  BY <1>1, <1>2, <1>4
<1>5. CASE he.err = "timeout" /\ blame = [he EXCEPT !.err = "deadline"]
  <2>1. he # NoErr
    BY <1>5 DEF NoErr
  <2> QED
    BY <1>1, <1>2, <1>5, <2>1
<1> QED
  BY <1>3, <1>4, <1>5 DEF blame

\* A part of TypeOK holds when its variables stay as they are.
LEMMA SameParts ==
    ASSUME TypeOK
    PROVE  /\ UNCHANGED <<method, rbuf, msgStart, part, bound, peer>> => ReadOK'
           /\ UNCHANGED <<sent, stream, taken>> => SentOK'
           /\ UNCHANGED <<he, readStage, readErr, aerr>> => ErrOK'
           /\ UNCHANGED <<cfg, pc, wrote, proxy, apc, cpc, deadlines>> => PlaceOK'
           /\ UNCHANGED <<conn, deadline, late, ctx, watch, state, closed>> => ConnOK'
<1>1. ReadOK /\ SentOK /\ ErrOK /\ PlaceOK /\ ConnOK
  BY TypeParts
<1>2. UNCHANGED <<method, rbuf, msgStart, part, bound, peer>> => ReadOK'
  BY <1>1 DEF ReadOK
<1>3. UNCHANGED <<sent, stream, taken>> => SentOK'
  BY <1>1 DEF SentOK
<1>4. UNCHANGED <<he, readStage, readErr, aerr>> => ErrOK'
  BY <1>1 DEF ErrOK
<1>5. UNCHANGED <<cfg, pc, wrote, proxy, apc, cpc, deadlines>> => PlaceOK'
  BY <1>1 DEF PlaceOK
<1>6. UNCHANGED <<conn, deadline, late, ctx, watch, state, closed>> => ConnOK'
  BY <1>1 DEF ConnOK
<1> QED
  BY <1>2, <1>3, <1>4, <1>5, <1>6

\* The five parts are TypeOK.
LEMMA TypeAll == ReadOK' /\ SentOK' /\ ErrOK' /\ PlaceOK' /\ ConnOK' => TypeOK'
BY DEF TypeOK, HandshakeTypeOK, ReadOK, SentOK, ErrOK, PlaceOK, ConnOK

\* A failure of the handshake is a *HandshakeError.
LEMMA FailType ==
    ASSUME NEW s \in Stages, NEW e \in Errs, Fail(s, e)
    PROVE  he' \in [stage: Stages, err: Errs] /\ he'.stage = s /\ he'.err = e /\ he' # NoErr
<1>1. he' = [stage |-> s, err |-> e]
  BY DEF Fail
<1>2. "none" \notin Stages
  BY DEF Stages
<1> QED
  BY <1>1, <1>2 DEF NoErr

\* What the readers and the conn report is an error of the handshake.
LEMMA ReadErrsAreErrs ==
    /\ {"eof", "reset", "timeout", "closed", "protocol", "auth", "longAuth", "reply",
        "method", "config", "dial", "ctx", "deadline"} \subseteq Errs
    /\ IOErrs \ {"EOF"} \subseteq Errs
    /\ {"config", "dial", "greeting", "authReq", "request", "method", "auth", "reply"} \subseteq Stages
    /\ \A e \in {"EOF", "reset", "timeout", "closed"} : Truncated(e) \in Errs \ {"nil"}
BY DEF Errs, IOErrs, Stages, Truncated

\* init keeps the types.
LEMMA ConfigureType == ASSUME TypeOK, Configure, UNCHANGED lvars PROVE TypeOK'
<1> USE DEF Configure, StartWatch, lvars, hvars, proxyvars
<1>1. ReadOK' /\ SentOK'
  BY SameParts
<1>2. ErrOK'
  <2>1. (he' = NoErr \/ he' \in [stage: Stages, err: Errs])
    <3>1. he' = he \/ Fail("config", "config")
      OBVIOUS
    <3>2. CASE he' = he
      BY <3>2 DEF TypeOK, HandshakeTypeOK
    <3>3. CASE Fail("config", "config")
      BY <3>3, FailType, ReadErrsAreErrs
    <3> QED
      BY <3>1, <3>2, <3>3
  <2>2. UNCHANGED <<readStage, readErr, aerr>>
    OBVIOUS
  <2> QED
    BY <2>1, <2>2, TypeParts DEF ErrOK
<1>3. PlaceOK'
  BY TypeParts DEF PlaceOK
<1>4. ConnOK'
  BY TypeParts DEF ConnOK
<1> QED
  BY <1>1, <1>2, <1>3, <1>4, TypeAll

\* Dial keeps the types.
LEMMA DialType == ASSUME TypeOK, Dial, UNCHANGED lvars PROVE TypeOK'
<1> USE DEF Dial, StartWatch, lvars, hvars, proxyvars
<1>1. ReadOK' /\ SentOK'
  BY SameParts
<1>2. ErrOK'
  <2>1. (he' = NoErr \/ he' \in [stage: Stages, err: Errs])
    <3>1. he' = he \/ Fail("dial", "dial") \/ Fail("dial", "ctx")
      OBVIOUS
    <3>2. CASE he' = he
      BY <3>2 DEF TypeOK, HandshakeTypeOK
    <3>3. CASE Fail("dial", "dial") \/ Fail("dial", "ctx")
      BY <3>3, FailType, ReadErrsAreErrs
    <3> QED
      BY <3>1, <3>2, <3>3
  <2>2. UNCHANGED <<readStage, readErr, aerr>>
    OBVIOUS
  <2> QED
    BY <2>1, <2>2, TypeParts DEF ErrOK
<1>3. PlaceOK'
  BY TypeParts DEF PlaceOK
<1>4. ConnOK'
  BY TypeParts DEF ConnOK
<1> QED
  BY <1>1, <1>2, <1>3, <1>4, TypeAll

\* Write, WriteRequest and AuthWrite.
LEMMA WriteType ==
    ASSUME TypeOK, Write \/ WriteRequest \/ AuthWrite, UNCHANGED lvars
    PROVE  /\ TypeOK'
           /\ \/ /\ he' = he /\ pc' # "settle"
                 /\ pc = "write" => pc' = AfterWrite
                 /\ pc = "request" => pc' = "reply"
                 /\ pc = "authWrite" => pc' = "authRead"
              \/ /\ pc' = "settle" /\ he' # NoErr
                 /\ he'.stage \in Prefix => he'.stage = "auth"
                 /\ he'.err \in {"reset", "timeout", "closed"}
<1>1. ReadOK' /\ SentOK'
  BY SameParts DEF Write, WriteRequest, AuthWrite, hvars, proxyvars, lvars
<1>2. PlaceOK'
  BY TypeParts DEF PlaceOK, Write, WriteRequest, AuthWrite, hvars, proxyvars, lvars, AfterWrite
<1>3. ConnOK'
  BY SameParts DEF Write, WriteRequest, AuthWrite, connvars, lvars
<1>4. \/ /\ he' = he /\ pc' # "settle"
         /\ pc = "write" => pc' = AfterWrite
         /\ pc = "request" => pc' = "reply"
         /\ pc = "authWrite" => pc' = "authRead"
      \/ \E s \in {"greeting", "authReq", "request", "auth"}, e \in {"reset", "timeout", "closed"} :
           Fail(s, e) /\ pc' = "settle"
  <2>0. IOError \in {"closed", "timeout", "nil"}
    BY DEF IOError
  <2>1. CASE Write
    <3>1. CASE IOError = "nil" /\ pc' = AfterWrite /\ UNCHANGED he
      BY <2>1, <3>1 DEF Write, AfterWrite
    <3>2. ASSUME NEW n \in 0 .. Len(out), NEW err \in IOErrs,
                 WriteFails(n, Len(IF Sequential5 THEN greeting ELSE out), err),
                 Fail(IF Sequential5 THEN "greeting" ELSE writeStage(n), err), pc' = "settle"
          PROVE  \E s \in {"greeting", "authReq", "request", "auth"}, e \in {"reset", "timeout", "closed"} :
                   Fail(s, e) /\ pc' = "settle"
      <4>1. writeStage(n) \in {"greeting", "authReq", "request"}
        BY DEF writeStage
      <4>2. err \in {"reset", "timeout", "closed"}
        BY <2>0, <3>2 DEF WriteFails
      <4> QED
        BY <3>2, <4>1, <4>2
    <3> QED
      BY <2>1, <3>1, <3>2 DEF Write
  <2>2. CASE WriteRequest
    BY <2>0, <2>2 DEF WriteRequest, WriteFails
  <2>3. CASE AuthWrite
    BY <2>0, <2>3 DEF AuthWrite, WriteFails
  <2> QED
    BY <2>1, <2>2, <2>3
<1>5. CASE he' = he
  <2>1. ErrOK'
    BY <1>5, SameParts DEF Write, WriteRequest, AuthWrite, hvars, lvars
  <2>2. he' = he => he'.stage = he.stage
    OBVIOUS
  <2>3. TypeOK'
    BY <1>1, <1>2, <1>3, <2>1, TypeAll
  <2>4. CASE \E s \in {"greeting", "authReq", "request", "auth"}, e \in {"reset", "timeout", "closed"} :
               Fail(s, e) /\ pc' = "settle"
    <3>1. PICK s \in {"greeting", "authReq", "request", "auth"}, e \in {"reset", "timeout", "closed"} :
            Fail(s, e) /\ pc' = "settle"
      BY <2>4
    <3>2. s \in Stages /\ e \in Errs
      BY ReadErrsAreErrs
    <3>3. he'.stage = s /\ he'.err = e /\ he' # NoErr
      BY <3>1, <3>2, FailType
    <3> QED
      BY <2>3, <3>1, <3>3 DEF Prefix
  <2> QED
    BY <1>4, <2>3, <2>4
<1>6. ASSUME NEW s \in {"greeting", "authReq", "request", "auth"}, NEW e \in {"reset", "timeout", "closed"},
             Fail(s, e), pc' = "settle"
      PROVE  /\ TypeOK'
             /\ pc' = "settle" /\ he' # NoErr
             /\ he'.stage \in Prefix => he'.stage = "auth"
             /\ he'.err \in {"reset", "timeout", "closed"}
  <2>1. s \in Stages /\ e \in Errs
    BY ReadErrsAreErrs
  <2>2. he' \in [stage: Stages, err: Errs] /\ he'.stage = s /\ he'.err = e /\ he' # NoErr
    BY <1>6, <2>1, FailType
  <2>3. UNCHANGED <<readStage, readErr, aerr>>
    BY DEF Write, WriteRequest, AuthWrite, hvars, lvars
  <2>4. ErrOK'
    BY <2>2, <2>3, TypeParts DEF ErrOK
  <2>5. TypeOK'
    BY <1>1, <1>2, <1>3, <2>4, TypeAll
  <2> QED
    BY <1>6, <2>2, <2>5 DEF Prefix
<1> QED
  BY <1>4, <1>5, <1>6

\* A buffer and a need are what Authenticate keeps.
LEMMA PartType == \A x \in Seq(Bytes), y \in Nat : [b |-> x, need |-> y] \in [b: Seq(Bytes), need: Nat]
OBVIOUS

\* A Read of Authenticate: what it leaves.
LEMMA AuthReadSome ==
    ASSUME TypeOK, NeedOK, Len(part.b) < part.need, NEW r \in ReadResults(part.need - Len(part.b)), DidRead(r),
           part' = [part EXCEPT !.b = @ \o Segment(r)]
    PROVE  /\ part' = [b |-> part.b \o Segment(r), need |-> part.need]
           /\ part' \in [b: Seq(Bytes), need: Nat]
           /\ part'.b = part.b \o Segment(r) /\ part'.need = part.need
           /\ Len(part'.b) = Len(part.b) + r.m /\ Len(part'.b) <= part.need
           /\ Len(part'.b) < part.need => ParseAuthReply(part'.b).err \in {"incomplete", "protocol"}
           /\ \A j \in 1 .. Len(part.b) : part'.b[j] = part.b[j]
           /\ \A j \in 1 .. r.m : part'.b[Len(part.b) + j] = stream[taken + j]
<1>1. part.b \in Seq(Bytes) /\ part.need \in Nat /\ part = [b |-> part.b, need |-> part.need]
  BY AuthReadFacts
<1>2. Len(part.b) \in Nat /\ part.need - Len(part.b) \in Nat
  BY <1>1
<1>3. /\ Segment(r) \in Seq(Bytes) /\ Len(Segment(r)) = r.m /\ r.m \in Nat /\ r.m <= part.need - Len(part.b)
      /\ \A j \in 1 .. r.m : Segment(r)[j] = stream[taken + j]
  BY <1>2, ReadFacts
<1>4. part' = [b |-> part.b \o Segment(r), need |-> part.need]
  BY <1>1, Zenon
<1>5. part'.b = part.b \o Segment(r) /\ part'.need = part.need
  BY <1>4
<1> DEFINE g == Segment(r)
           a == part.b
           n == part.need
<1>d. a \in Seq(Bytes) /\ g \in Seq(Bytes) /\ Len(a) \in Nat /\ Len(g) = r.m /\ Len(g) \in Nat
  BY <1>1, <1>2, <1>3
<1>e. part'.b = a \o g /\ part' = [b |-> a \o g, need |-> n]
  BY <1>4, <1>5, Zenon
<1>f. Len(a) + r.m <= n
  BY <1>1, <1>2, <1>3
<1>g. \A j \in 1 .. r.m : g[j] = stream[taken + j]
  BY <1>3
<1> HIDE DEF g, a, n
<1>6. /\ a \o g \in Seq(Bytes) /\ Len(a \o g) = Len(a) + Len(g)
      /\ \A j \in 1 .. Len(a) : (a \o g)[j] = a[j]
      /\ \A j \in 1 .. Len(g) : (a \o g)[Len(a) + j] = g[j]
  BY <1>d, Concat
<1>h. /\ Len(part'.b) = Len(a) + r.m
      /\ \A j \in 1 .. Len(a) : part'.b[j] = a[j]
      /\ \A j \in 1 .. r.m : part'.b[Len(a) + j] = stream[taken + j]
  BY <1>6, <1>d, <1>e, <1>g, Zenon
<1>7. /\ Len(part'.b) = Len(part.b) + r.m /\ Len(part'.b) <= part.need
      /\ \A j \in 1 .. Len(part.b) : part'.b[j] = part.b[j]
      /\ \A j \in 1 .. r.m : part'.b[Len(part.b) + j] = stream[taken + j]
  BY <1>h, <1>f, Zenon DEF a, n
<1>8. part' \in [b: Seq(Bytes), need: Nat]
  <2>1. a \o g \in Seq(Bytes) /\ n \in Nat
    BY <1>1, <1>6 DEF n
  <2>2. [b |-> a \o g, need |-> n] \in [b: Seq(Bytes), need: Nat]
    BY <2>1, PartType
  <2> QED
    BY <1>e, <2>2, Zenon
<1>j. part'.b \in Seq(Bytes) /\ Len(part'.b) \in Nat
  <2>1. part'.b \in Seq(Bytes)
    BY <1>e, <1>6, Zenon
  <2>2. \A s \in Seq(Bytes) : Len(s) \in Nat
    OBVIOUS
  <2> QED
    BY <2>1, <2>2
<1>k. n \in Nat /\ a = part.b /\ n = part.need
  BY <1>1 DEF a, n
<1>i. /\ a \in Seq(Bytes) /\ n \in Nat /\ a = part.b /\ n = part.need /\ part'.b \in Seq(Bytes)
      /\ Len(part'.b) \in Nat
  BY <1>d, <1>j, <1>k
<1>9. ASSUME Len(part'.b) < part.need
      PROVE  ParseAuthReply(part'.b).err \in {"incomplete", "protocol"}
  <2> DEFINE c == part'.b
  <2>1. c \in Seq(Bytes) /\ n \in Nat /\ Len(c) < n /\ Len(a) \in Nat /\ Len(a) < n
    BY <1>2, <1>9, <1>i
  <2>2. a # <<>> => c # <<>> /\ c[1] = a[1]
    <3>1. ASSUME a # <<>> PROVE 1 \in 1 .. Len(a)
      BY <1>i, <3>1
    <3>2. a # <<>> => c[1] = a[1]
      BY <1>h, <3>1, Zenon
    <3>3. a # <<>> => Len(c) >= 1
      BY <1>d, <1>h, <1>3, <3>1
    <3>4. Len(c) >= 1 => c # <<>>
      OBVIOUS
    <3> QED
      BY <3>2, <3>3, <3>4
  <2>3. \/ UserPass /\ n = 2
        \/ ~UserPass /\ (n = 1 \/ (a # <<>> /\ n = 1 + a[1]))
    <3>1. \/ part.need = 0
          \/ UserPass /\ part.need = 2
          \/ ~UserPass /\ (part.need = 1 \/ (part.b # <<>> /\ part.need = 1 + part.b[1]))
      BY DEF NeedOK
    <3>2. n # 0
      BY <2>1
    <3> QED
      BY <1>i, <3>1, <3>2
  <2>4. \/ UserPass /\ n = 2
        \/ ~UserPass /\ (n = 1 \/ (c # <<>> /\ n = 1 + c[1]))
    BY <2>2, <2>3
  <2> HIDE DEF c, n, a
  <2>5. ParseAuthReply(c).err \in {"incomplete", "protocol"}
    BY <2>1, <2>4, AuthShort
  <2> QED
    BY <2>5 DEF c
<1> QED
  BY <1>4, <1>5, <1>7, <1>8, <1>9, Zenon

\* What Authenticate's step may be.
LEMMA AuthReadSteps ==
    ASSUME TypeOK, NeedOK, AuthRead
    PROVE  \/ /\ Len(part.b) >= part.need /\ ParseAuthReply(part.b).err = "incomplete"
              /\ part' = [b |-> part.b, need |-> ParseAuthReply(part.b).n]
              /\ UNCHANGED <<pc, he, taken, proxy>>
           \/ /\ Len(part.b) >= part.need /\ ParseAuthReply(part.b).err = "nil" /\ pc' = "request"
              /\ UNCHANGED <<part, he, taken, proxy>>
           \/ /\ Len(part.b) >= part.need /\ ParseAuthReply(part.b).err \in {"auth", "protocol"}
              /\ pc' = "settle" /\ Fail("auth", ParseAuthReply(part.b).err)
              /\ UNCHANGED <<part, taken, proxy>>
           \/ \E r \in ReadResults(part.need - Len(part.b)) :
                /\ Len(part.b) < part.need /\ DidRead(r) /\ part' = [part EXCEPT !.b = @ \o Segment(r)]
                /\ \/ UNCHANGED <<pc, he>>
                   \/ /\ Len(part'.b) < part.need /\ pc' = "settle"
                      /\ \/ ParseAuthReply(part'.b).err = "protocol" /\ Fail("auth", "protocol")
                         \/ /\ ParseAuthReply(part'.b).err = "incomplete" /\ r.err # "nil"
                            /\ Fail("auth", Truncated(r.err))
<1>1. part = [b |-> part.b, need |-> part.need] /\ part.need \in Nat /\ Len(part.b) \in Nat
  BY AuthReadFacts
<1>2. CASE /\ ~(Len(part.b) < part.need) /\ ParseAuthReply(part.b).err = "incomplete"
           /\ part' = [part EXCEPT !.need = ParseAuthReply(part.b).n]
           /\ UNCHANGED <<pc, he, taken, proxy>>
  <2>1. part' = [b |-> part.b, need |-> ParseAuthReply(part.b).n]
    BY <1>1, <1>2
  <2>2. Len(part.b) >= part.need
    BY <1>1, <1>2
  <2> QED
    BY <1>2, <2>1, <2>2, Zenon
<1>3. CASE /\ ~(Len(part.b) < part.need) /\ ParseAuthReply(part.b).err = "nil" /\ pc' = "request"
           /\ UNCHANGED <<part, he, taken, proxy>>
  <2>2. Len(part.b) >= part.need
    BY <1>1, <1>3
  <2> QED
    BY <1>3, <2>2
<1>4. CASE /\ ~(Len(part.b) < part.need) /\ ParseAuthReply(part.b).err \in {"auth", "protocol"}
           /\ pc' = "settle" /\ Fail("auth", ParseAuthReply(part.b).err)
           /\ UNCHANGED <<part, taken, proxy>>
  <2>2. Len(part.b) >= part.need
    BY <1>1, <1>4
  <2> QED
    BY <1>4, <2>2
<1>5. ASSUME Len(part.b) < part.need, NEW r \in ReadResults(part.need - Len(part.b)), DidRead(r),
             part' = [part EXCEPT !.b = @ \o Segment(r)],
             IF r.err = "nil" \/ Len(part'.b) = part.need
             THEN UNCHANGED <<pc, he>>
             ELSE /\ pc' = "settle"
                  /\ Fail("auth", IF ParseAuthReply(part'.b).err = "incomplete" THEN Truncated(r.err)
                                  ELSE ParseAuthReply(part'.b).err)
      PROVE  \/ UNCHANGED <<pc, he>>
             \/ /\ Len(part'.b) < part.need /\ pc' = "settle"
                /\ \/ ParseAuthReply(part'.b).err = "protocol" /\ Fail("auth", "protocol")
                   \/ /\ ParseAuthReply(part'.b).err = "incomplete" /\ r.err # "nil"
                      /\ Fail("auth", Truncated(r.err))
  <2>1. CASE r.err = "nil" \/ Len(part'.b) = part.need
    BY <1>5, <2>1
  <2>2. CASE ~(r.err = "nil" \/ Len(part'.b) = part.need)
    <3>1. Len(part'.b) <= part.need /\ part'.b \in Seq(Bytes)
          /\ (Len(part'.b) < part.need => ParseAuthReply(part'.b).err \in {"incomplete", "protocol"})
      <4>1. part' \in [b: Seq(Bytes), need: Nat] /\ Len(part'.b) <= part.need
            /\ (Len(part'.b) < part.need => ParseAuthReply(part'.b).err \in {"incomplete", "protocol"})
        BY <1>5, AuthReadSome, Zenon
      <4> QED
        BY <4>1
    <3>2. Len(part'.b) < part.need
      <4>1. Len(part'.b) \in Nat
        BY <3>1
      <4> QED
        BY <1>1, <2>2, <3>1, <4>1
    <3>3. ParseAuthReply(part'.b).err \in {"incomplete", "protocol"}
      BY <3>1, <3>2
    <3>4. CASE ParseAuthReply(part'.b).err = "incomplete"
      BY <1>5, <2>2, <3>2, <3>4
    <3>5. CASE ParseAuthReply(part'.b).err = "protocol"
      BY <1>5, <2>2, <3>2, <3>5
    <3> QED
      BY <3>3, <3>4, <3>5
  <2> QED
    BY <2>1, <2>2
<1> QED
  BY <1>2, <1>3, <1>4, <1>5, Zenon DEF AuthRead

\* A Read of Authenticate keeps the types.
LEMMA AuthReadType == ASSUME TypeOK, NeedOK, AuthRead, UNCHANGED lvars PROVE TypeOK'
<1>0. part.b \in Seq(Bytes) /\ ParseAuthReply(part.b).n \in Nat
  BY AuthReadFacts
<1>1. /\ part' \in [b: Seq(Bytes), need: Nat]
      /\ taken' \in 0 .. Len(stream) /\ proxy' \in {"sending", "silent", "EOF", "reset"}
      /\ he' = NoErr \/ he' \in [stage: Stages, err: Errs]
      /\ pc' \in {"authRead", "request", "settle"}
  <2>0. /\ part \in [b: Seq(Bytes), need: Nat] /\ taken \in 0 .. Len(stream)
        /\ proxy \in {"sending", "silent", "EOF", "reset"}
        /\ he = NoErr \/ he \in [stage: Stages, err: Errs]
    BY DEF TypeOK, HandshakeTypeOK
  <2>1. pc = "authRead" /\ "auth" \in Stages
    BY DEF AuthRead, Stages
  <2>2. CASE /\ part' = [b |-> part.b, need |-> ParseAuthReply(part.b).n]
             /\ UNCHANGED <<pc, he, taken, proxy>>
    <3>1. part' \in [b: Seq(Bytes), need: Nat]
      BY <1>0, <2>2
    <3> QED
      BY <2>0, <2>1, <2>2, <3>1
  <2>3. CASE pc' = "request" /\ UNCHANGED <<part, he, taken, proxy>>
    BY <2>0, <2>3
  <2>4. CASE /\ ParseAuthReply(part.b).err \in {"auth", "protocol"}
             /\ pc' = "settle" /\ Fail("auth", ParseAuthReply(part.b).err)
             /\ UNCHANGED <<part, taken, proxy>>
    <3>1. he' \in [stage: Stages, err: Errs]
      BY <2>1, <2>4, FailType, ReadErrsAreErrs
    <3> QED
      BY <2>0, <2>4, <3>1
  <2>5. ASSUME Len(part.b) < part.need, NEW r \in ReadResults(part.need - Len(part.b)), DidRead(r),
               part' = [part EXCEPT !.b = @ \o Segment(r)],
               \/ UNCHANGED <<pc, he>>
               \/ /\ pc' = "settle"
                  /\ \/ Fail("auth", "protocol")
                     \/ r.err # "nil" /\ Fail("auth", Truncated(r.err))
        PROVE  /\ part' \in [b: Seq(Bytes), need: Nat]
               /\ taken' \in 0 .. Len(stream) /\ proxy' \in {"sending", "silent", "EOF", "reset"}
               /\ he' = NoErr \/ he' \in [stage: Stages, err: Errs]
               /\ pc' \in {"authRead", "request", "settle"}
    <3>1. part' \in [b: Seq(Bytes), need: Nat]
      BY <2>5, AuthReadSome, Zenon
    <3>2. part.need - Len(part.b) \in Nat
      BY <2>5, AuthReadFacts
    <3>3. /\ taken' \in 0 .. Len(stream) /\ proxy' \in {"sending", "silent", "EOF", "reset"}
          /\ r.err \in {"nil", "EOF", "reset", "timeout", "closed"}
      BY <2>5, <3>2, ReadFacts
    <3>4. he' = he \/ \E e \in Errs : Fail("auth", e)
      BY <2>5, <3>3, ReadErrsAreErrs
    <3>5. he' = NoErr \/ he' \in [stage: Stages, err: Errs]
      BY <2>0, <2>1, <3>4, FailType
    <3>6. pc' \in {"authRead", "request", "settle"}
      BY <2>1, <2>5
    <3> QED
      BY <3>1, <3>3, <3>5, <3>6
  <2> QED
    BY <2>2, <2>3, <2>4, <2>5, AuthReadSteps
<1>2. UNCHANGED <<cfg, method, rbuf, msgStart, readErr, readStage, bound, connvars, wrote, sent, stream>>
  BY DEF AuthRead
<1>3. ReadOK'
  BY <1>1, <1>2, TypeParts DEF ReadOK, lvars
<1>4. SentOK'
  BY <1>1, <1>2, TypeParts DEF SentOK
<1>5. ErrOK'
  BY <1>1, <1>2, TypeParts DEF ErrOK, lvars
<1>6. PlaceOK'
  BY <1>1, <1>2, TypeParts DEF PlaceOK, lvars
<1>7. ConnOK'
  BY <1>2, SameParts DEF connvars, lvars
<1> QED
  BY <1>3, <1>4, <1>5, <1>6, <1>7, TypeAll

\* readNext asks for more than it has.
LEMMA NeedFacts ==
    ASSUME TypeOK, Reading
    PROVE  /\ authMin \in Nat /\ ahead \in Nat /\ need \in Nat
           /\ need >= Len(rbuf) + 1 /\ need - Len(rbuf) \in Nat /\ Len(rbuf) \in Nat
<1>1. authMin \in Nat
  <2>1. <<>> \in Seq(Bytes)
    OBVIOUS
  <2>2. ParseAuthReply(<<>>).n \in Nat
    BY <2>1, AuthReplyTypes, Zenon
  <2> QED
    BY <2>2 DEF authMin
<1>2. ahead \in Nat
  BY <1>1 DEF ahead
<1>3. /\ rbuf \in Seq(Bytes) /\ msgStart \in 0 .. Len(rbuf)
  BY DEF TypeOK, HandshakeTypeOK
<1>4. Parse(Pending).n \in Nat /\ Len(Pending) = Len(rbuf) - msgStart
  BY ReaderTypes
<1> DEFINE p == Parse(Pending).n
           k == Len(Pending)
           L == Len(rbuf)
<1>5. need = msgStart + Max2(p, k + 1) + ahead
  BY DEF need
<1>6. L \in Nat /\ msgStart \in Nat /\ p \in Nat /\ k = L - msgStart /\ msgStart <= L
  BY <1>3, <1>4
<1> HIDE DEF p, k, L
<1>7. need \in Nat /\ need >= L + 1 /\ need - L \in Nat
  BY <1>2, <1>5, <1>6 DEF Max2
<1> QED
  BY <1>1, <1>2, <1>6, <1>7 DEF L

\* A Read of readNext: what it leaves.
LEMMA ReadNextSome ==
    ASSUME TypeOK, Reading, Lacking, NEW r \in ReadResults(need - Len(rbuf)), DidRead(r),
           rbuf' = rbuf \o Segment(r)
    PROVE  /\ rbuf' \in Seq(Bytes) /\ Len(rbuf') = Len(rbuf) + r.m /\ Len(rbuf') <= need
           /\ need <= MaxReplyBytes
           /\ \A j \in 1 .. Len(rbuf) : rbuf'[j] = rbuf[j]
           /\ \A j \in 1 .. r.m : rbuf'[Len(rbuf) + j] = stream[taken + j]
<1>1. need \in Nat /\ need - Len(rbuf) \in Nat /\ Len(rbuf) \in Nat
  BY NeedFacts
<1>2. rbuf \in Seq(Bytes)
  BY DEF TypeOK, HandshakeTypeOK
<1>3. /\ Segment(r) \in Seq(Bytes) /\ Len(Segment(r)) = r.m /\ r.m \in Nat /\ r.m <= need - Len(rbuf)
      /\ \A j \in 1 .. r.m : Segment(r)[j] = stream[taken + j]
  BY <1>1, ReadFacts
<1> DEFINE g == Segment(r)
<1>a. g \in Seq(Bytes)
  BY <1>3
<1>4. g \in Seq(Bytes) /\ Len(g) = r.m /\ \A j \in 1 .. r.m : g[j] = stream[taken + j]
  BY <1>3
<1>5. rbuf' = rbuf \o g
  OBVIOUS
<1> HIDE DEF g
<1>6. /\ rbuf \o g \in Seq(Bytes) /\ Len(rbuf \o g) = Len(rbuf) + Len(g)
      /\ \A j \in 1 .. Len(rbuf) : (rbuf \o g)[j] = rbuf[j]
      /\ \A j \in 1 .. Len(g) : (rbuf \o g)[Len(rbuf) + j] = g[j]
  BY <1>2, <1>a, Concat
<1>7. /\ rbuf' \in Seq(Bytes) /\ Len(rbuf') = Len(rbuf) + r.m
      /\ \A j \in 1 .. Len(rbuf) : rbuf'[j] = rbuf[j]
      /\ \A j \in 1 .. r.m : rbuf'[Len(rbuf) + j] = stream[taken + j]
  BY <1>4, <1>5, <1>6
<1>8. Len(rbuf') <= need
  <2>1. Len(rbuf) + r.m <= need
    BY <1>1, <1>3
  <2> QED
    BY <1>7, <2>1
<1>9. need <= MaxReplyBytes
  BY DEF Lacking
<1> QED
  BY <1>7, <1>8, <1>9, Zenon

\* A Read of readNext keeps the types.
LEMMA ReadNextType == ASSUME TypeOK, ReadNext, UNCHANGED lvars PROVE TypeOK'
<1>1. Reading /\ Lacking
  BY DEF ReadNext
<1>2. PICK r \in ReadResults(need - Len(rbuf)) : DidRead(r) /\ rbuf' = rbuf \o Segment(r) /\ readErr' = r.err
  BY DEF ReadNext
<1>3. UNCHANGED <<cfg, pc, method, msgStart, readStage, part, bound, he, connvars, wrote, sent, stream>>
  BY DEF ReadNext
<1>4. need - Len(rbuf) \in Nat /\ need \in Nat /\ Len(rbuf) \in Nat
  BY <1>1, NeedFacts
<1>5. rbuf' \in Seq(Bytes) /\ Len(rbuf') = Len(rbuf) + r.m /\ Len(rbuf') <= need /\ need <= MaxReplyBytes
  BY <1>1, <1>2, ReadNextSome
<1>6. /\ r.m \in Nat /\ taken' \in 0 .. Len(stream)
      /\ r.err \in {"nil", "EOF", "reset", "timeout", "closed"}
      /\ proxy' \in {"sending", "silent", "EOF", "reset"}
  BY <1>2, <1>4, ReadFacts
<1>7. ReadOK'
  <2>1. MaxReplyBytes \in Nat
    BY HandshakeAssumption
  <2>2. Len(rbuf') <= MaxReplyBytes
    BY <1>4, <1>5, <1>6, <2>1
  <2>3. msgStart \in 0 .. Len(rbuf)
    BY DEF TypeOK, HandshakeTypeOK
  <2>4. msgStart' \in 0 .. Len(rbuf')
    BY <1>3, <1>4, <1>5, <1>6, <2>3
  <2>5. /\ method' \in Bytes /\ part' \in [b: Seq(Bytes), need: Nat]
        /\ bound' \in Addrs /\ peer' \in Addrs
    BY <1>3, TypeParts DEF ReadOK, lvars
  <2> QED
    BY <1>5, <2>2, <2>4, <2>5 DEF ReadOK
<1>8. SentOK'
  BY <1>3, <1>6, TypeParts DEF SentOK
<1>9. ErrOK'
  BY <1>2, <1>3, <1>6, TypeParts DEF ErrOK, lvars
<1>10. PlaceOK'
  BY <1>3, <1>6, TypeParts DEF PlaceOK, lvars
<1>11. ConnOK'
  BY <1>3, SameParts DEF connvars, lvars
<1> QED
  BY <1>7, <1>8, <1>9, <1>10, <1>11, TypeAll

\* What a step that uses a message may be.
LEMMA GotMethodSteps ==
    ASSUME TypeOK, GotMethod
    PROVE  \/ /\ readNextErr # "nil" /\ pc' = "settle" /\ Fail(readStage, readNextErr)
              /\ UNCHANGED <<readStage, msgStart, method>>
           \/ /\ readNextErr = "nil" /\ ~MethodOK(Parse(Pending).method)
              /\ pc' = "settle" /\ Fail(readStage, "method") /\ UNCHANGED readStage
              /\ msgStart' = msgStart + Parse(Pending).n /\ method' = Parse(Pending).method
           \/ /\ readNextErr = "nil" /\ MethodOK(Parse(Pending).method)
              /\ \/ /\ Sequential5 /\ readStage' = readStage
                    /\ pc' = IF cfg.auth # "none" /\ Parse(Pending).method = Offered
                             THEN "authWrite" ELSE "request"
                 \/ /\ ~Sequential5 /\ readStage' = pc'
                    /\ pc' = IF HasPipe THEN "auth" ELSE "reply"
              /\ UNCHANGED he
              /\ msgStart' = msgStart + Parse(Pending).n /\ method' = Parse(Pending).method
BY DEF GotMethod, FailRead, Goto

\* The METHOD keeps the types.
LEMMA GotMethodType == ASSUME TypeOK, GotMethod, UNCHANGED lvars PROVE TypeOK'
<1>1. Reading /\ pc = "method" /\ ~Lacking
  BY DEF GotMethod, Reading
<1>2. /\ msgStart \in 0 .. Len(rbuf) /\ rbuf \in Seq(Bytes) /\ method \in Bytes /\ readStage \in Stages
      /\ he = NoErr \/ he \in [stage: Stages, err: Errs]
  BY DEF TypeOK, HandshakeTypeOK
<1>3. /\ readNextErr \in {"nil", "eof", "reset", "timeout", "closed", "protocol", "auth", "longAuth"}
      /\ readNextErr = "nil" => Parse(Pending).err = "nil"
  BY <1>1, ReaderErrs
<1>4. /\ Parse(Pending).n \in Nat
      /\ Parse(Pending).err = "nil" => Parse(Pending).n <= Len(Pending) /\ Parse(Pending).method \in Bytes
      /\ Len(Pending) = Len(rbuf) - msgStart
  BY <1>1, ReaderTypes
<1>5. readNextErr # "nil" => readNextErr \in Errs
  BY <1>3, ReadErrsAreErrs
<1>6. UNCHANGED <<cfg, rbuf, readErr, part, bound, connvars, wrote, proxyvars>>
  BY DEF GotMethod
<1>7. /\ msgStart' \in 0 .. Len(rbuf) /\ method' \in Bytes
  <2>1. CASE UNCHANGED <<msgStart, method>>
    BY <1>2, <2>1
  <2>2. CASE /\ readNextErr = "nil"
             /\ msgStart' = msgStart + Parse(Pending).n /\ method' = Parse(Pending).method
    <3>1. Len(rbuf) \in Nat
      BY <1>2
    <3>2. msgStart + Parse(Pending).n <= Len(rbuf)
      BY <1>2, <1>3, <1>4, <2>2, <3>1
    <3> QED
      BY <1>2, <1>3, <1>4, <2>2, <3>1, <3>2
  <2> QED
    BY <2>1, <2>2, GotMethodSteps
<1>8. /\ he' = NoErr \/ he' \in [stage: Stages, err: Errs]
      /\ readStage' \in Stages
  BY <1>2, <1>5, GotMethodSteps, FailType, ReadErrsAreErrs
<1>9. pc' \in {"settle", "authWrite", "request", "auth", "reply"}
  BY GotMethodSteps
<1>10. ReadOK'
  BY <1>6, <1>7, TypeParts DEF ReadOK, lvars
<1>11. SentOK'
  BY <1>6, SameParts DEF proxyvars
<1>12. ErrOK'
  BY <1>6, <1>8, TypeParts DEF ErrOK, lvars
<1>13. PlaceOK'
  BY <1>6, <1>9, TypeParts DEF PlaceOK, lvars, proxyvars
<1>14. ConnOK'
  BY <1>6, SameParts DEF connvars, lvars
<1> QED
  BY <1>10, <1>11, <1>12, <1>13, <1>14, TypeAll

\* The authentication's answer keeps the types.
LEMMA GotAuthType == ASSUME TypeOK, GotAuth, UNCHANGED lvars PROVE TypeOK'
<1>1. Reading /\ pc = "auth" /\ ~Lacking
  BY DEF GotAuth, Reading
<1>2. /\ msgStart \in 0 .. Len(rbuf) /\ rbuf \in Seq(Bytes) /\ readStage \in Stages
      /\ he = NoErr \/ he \in [stage: Stages, err: Errs]
  BY DEF TypeOK, HandshakeTypeOK
<1>3. /\ readNextErr \in {"nil", "eof", "reset", "timeout", "closed", "protocol", "auth", "longAuth"}
      /\ readNextErr = "nil" => Parse(Pending).err = "nil"
  BY <1>1, ReaderErrs
<1>4. /\ Parse(Pending).n \in Nat
      /\ Parse(Pending).err = "nil" => Parse(Pending).n <= Len(Pending)
      /\ Len(Pending) = Len(rbuf) - msgStart
  BY <1>1, ReaderTypes
<1>6. UNCHANGED <<cfg, method, rbuf, readErr, part, bound, connvars, wrote, proxyvars>>
  BY DEF GotAuth
<1>s. \/ readNextErr # "nil" /\ pc' = "settle" /\ Fail(readStage, readNextErr) /\ UNCHANGED <<readStage, msgStart>>
      \/ /\ readNextErr = "nil" /\ pc' = "reply" /\ readStage' = "reply" /\ he' = he
         /\ msgStart' = msgStart + Parse(Pending).n
  BY DEF GotAuth, FailRead, Goto
<1>7. msgStart' \in 0 .. Len(rbuf)
  <2>1. Len(rbuf) \in Nat
    BY <1>2
  <2>2. readNextErr = "nil" => msgStart + Parse(Pending).n <= Len(rbuf)
    BY <1>2, <1>3, <1>4, <2>1
  <2> QED
    BY <1>2, <1>3, <1>4, <2>1, <2>2, <1>s
<1>8. /\ he' = NoErr \/ he' \in [stage: Stages, err: Errs]
      /\ readStage' \in Stages
  <2>1. readNextErr # "nil" => readNextErr \in Errs
    BY <1>3, ReadErrsAreErrs
  <2> QED
    BY <1>2, <1>s, <2>1, FailType, ReadErrsAreErrs
<1>9. pc' \in {"settle", "reply"}
  BY <1>s
<1>10. ReadOK'
  BY <1>6, <1>7, TypeParts DEF ReadOK, lvars
<1>11. SentOK'
  BY <1>6, SameParts DEF proxyvars
<1>12. ErrOK'
  BY <1>6, <1>8, TypeParts DEF ErrOK, lvars
<1>13. PlaceOK'
  BY <1>6, <1>9, TypeParts DEF PlaceOK, lvars, proxyvars
<1>14. ConnOK'
  BY <1>6, SameParts DEF connvars, lvars
<1> QED
  BY <1>10, <1>11, <1>12, <1>13, <1>14, TypeAll

\* The reply is granted and bound, refused, or bound to an Addr checkBound refuses.
LEMMA GotReplySteps ==
    ASSUME GotReply
    PROVE  /\ pc = "reply" /\ ~Lacking /\ pc' = "settle" /\ readStage' = "reply"
           /\ \/ nextReplyErr # "nil" /\ Fail("reply", nextReplyErr) /\ UNCHANGED <<msgStart, bound>>
              \/ /\ nextReplyErr = "nil" /\ checkBound(Parse(Pending).addr)
                 /\ msgStart' = msgStart + Parse(Pending).n
                 /\ bound' = Parse(Pending).addr /\ he' = he
              \/ /\ nextReplyErr = "nil" /\ ~checkBound(Parse(Pending).addr)
                 /\ msgStart' = msgStart + Parse(Pending).n
                 /\ Fail("reply", "protocol") /\ bound' = bound
BY DEF GotReply

\* The reply keeps the types.
LEMMA GotReplyType == ASSUME TypeOK, GotReply, UNCHANGED lvars PROVE TypeOK'
<1>1. Reading /\ pc = "reply" /\ ~Lacking
  BY GotReplySteps DEF Reading
<1>2. /\ msgStart \in 0 .. Len(rbuf) /\ rbuf \in Seq(Bytes) /\ bound \in Addrs
      /\ he = NoErr \/ he \in [stage: Stages, err: Errs]
  BY DEF TypeOK, HandshakeTypeOK
<1>3. /\ nextReplyErr \in {"nil", "eof", "reset", "timeout", "closed", "protocol", "auth", "longAuth", "reply"}
      /\ nextReplyErr = "nil" => Parse(Pending).err = "nil"
  BY <1>1, ReaderErrs
<1>4. /\ Parse(Pending).n \in Nat
      /\ Parse(Pending).err = "nil" => Parse(Pending).n <= Len(Pending)
      /\ Len(Pending) = Len(rbuf) - msgStart /\ Parse(Pending).addr \in Addrs
  BY <1>1, ReaderTypes
<1>6. UNCHANGED <<cfg, method, rbuf, readErr, part, connvars, wrote, proxyvars>>
  BY DEF GotReply
<1>7. msgStart' \in 0 .. Len(rbuf) /\ bound' \in Addrs
  <2>1. Len(rbuf) \in Nat
    BY <1>2
  <2>2. nextReplyErr = "nil" => msgStart + Parse(Pending).n <= Len(rbuf)
    BY <1>2, <1>3, <1>4, <2>1
  <2>3. msgStart' \in 0 .. Len(rbuf)
    BY <1>2, <1>3, <1>4, <2>1, <2>2, GotReplySteps
  <2>4. bound' \in Addrs
    BY <1>2, <1>4, GotReplySteps
  <2> QED
    BY <2>3, <2>4
<1>8. /\ he' = NoErr \/ he' \in [stage: Stages, err: Errs]
      /\ readStage' \in Stages
  <2>1. nextReplyErr # "nil" => nextReplyErr \in Errs
    BY <1>3, ReadErrsAreErrs
  <2> QED
    BY <1>2, <2>1, GotReplySteps, FailType, ReadErrsAreErrs
<1>10. ReadOK'
  BY <1>6, <1>7, TypeParts DEF ReadOK, lvars
<1>11. SentOK'
  BY <1>6, SameParts DEF proxyvars
<1>12. ErrOK'
  BY <1>6, <1>8, TypeParts DEF ErrOK, lvars
<1>13. PlaceOK'
  BY <1>6, GotReplySteps, TypeParts DEF PlaceOK, lvars, proxyvars
<1>14. ConnOK'
  BY <1>6, SameParts DEF connvars, lvars
<1> QED
  BY <1>10, <1>11, <1>12, <1>13, <1>14, TypeAll

\* The end of handshakeOver keeps the types.
LEMMA SettleType == ASSUME TypeOK, Settle, UNCHANGED lvars PROVE TypeOK'
<1>1. he' = NoErr \/ he' \in [stage: Stages, err: Errs]
  BY BlameTypes DEF Settle
<1>2. ReadOK' /\ SentOK'
  BY SameParts DEF Settle, hvars, proxyvars, lvars
<1>3. ErrOK'
  BY <1>1, TypeParts DEF ErrOK, Settle, hvars, lvars
<1>4. PlaceOK'
  BY TypeParts DEF PlaceOK, Settle, proxyvars, lvars
<1>5. ConnOK'
  BY TypeParts DEF ConnOK, Settle, StopWatch, lvars
<1> QED
  BY <1>2, <1>3, <1>4, <1>5, TypeAll

\* The steps that only the conn, ctx and the callers see.
LEMMA ConnStepsType ==
    ASSUME TypeOK,
           \/ (Clear \/ CtxDone \/ FireWatch \/ Unblock \/ BudgetPasses) /\ UNCHANGED lvars
           \/ \E c \in Closers : Close(c) \/ CloseConn(c)
           \/ \E t \in {"none", "future", "past"} : SetDeadline(t)
           \/ DeadlinePasses
    PROVE  /\ TypeOK'
           /\ UNCHANGED <<cfg, hvars, he, wrote, proxyvars, apc, aerr, peer>>
           /\ pc' = IF pc = "clear" /\ Clear THEN "ok" ELSE pc
<1>1. UNCHANGED <<cfg, hvars, he, wrote, proxyvars, apc, aerr, peer>>
  BY DEF Clear, CtxDone, FireWatch, Unblock, BudgetPasses, Close, CloseConn, SetDeadline, DeadlinePasses,
         lvars, hsvars
<1>2. pc' = IF pc = "clear" /\ Clear THEN "ok" ELSE pc
  BY DEF Clear, CtxDone, FireWatch, Unblock, BudgetPasses, Close, CloseConn, SetDeadline, DeadlinePasses,
         lvars, hsvars
<1>3. ReadOK' /\ SentOK' /\ ErrOK'
  BY <1>1, SameParts DEF hvars, proxyvars
<1>4. cpc' \in [Closers -> {"idle", "close", "returned", "already"}]
  BY TypeParts DEF PlaceOK, Clear, CtxDone, FireWatch, Unblock, BudgetPasses, Close, CloseConn, SetDeadline,
         DeadlinePasses, lvars, hsvars
<1>5. deadlines' \in 0 .. MaxDeadlines
  <2>1. deadlines \in 0 .. MaxDeadlines /\ MaxDeadlines \in Nat
    BY ListenerAssumption, TypeParts DEF PlaceOK
  <2>2. deadlines' = deadlines \/ (deadlines > 0 /\ deadlines' = deadlines - 1)
    BY DEF Clear, CtxDone, FireWatch, Unblock, BudgetPasses, Close, CloseConn, SetDeadline,
           DeadlinePasses, lvars, hsvars
  <2> QED
    BY <2>1, <2>2
<1>6. PlaceOK'
  BY <1>1, <1>2, <1>4, <1>5, TypeParts DEF PlaceOK, proxyvars
<1>7. ConnOK'
  BY TypeParts, Zenon DEF ConnOK, Clear, CtxDone, FireWatch, Unblock, BudgetPasses, Close, CloseConn, SetDeadline,
         DeadlinePasses, lvars, hsvars, connvars
<1> QED
  BY <1>1, <1>2, <1>3, <1>6, <1>7, TypeAll

\* Accept keeps the types.
LEMMA AcceptType == ASSUME TypeOK, NEW a \in Accepters, Accept(a) PROVE TypeOK'
<1>1. UNCHANGED <<cfg, method, readErr, readStage, part, bound, he, connvars, wrote, proxyvars,
                  closed, aerr, peer, cpc, deadlines>>
  BY DEF Accept
<1>2. rbuf' \in Seq(Bytes) /\ Len(rbuf') <= MaxReplyBytes /\ msgStart' \in 0 .. Len(rbuf')
  <2>1. MaxReplyBytes \in Nat
    BY HandshakeAssumption
  <2>2. (rbuf' = rbuf /\ msgStart' = msgStart) \/ (rbuf' = <<>> /\ msgStart' = 0)
    BY DEF Accept
  <2>3. <<>> \in Seq(Bytes) /\ Len(<<>>) = 0
    OBVIOUS
  <2>4. rbuf \in Seq(Bytes) /\ Len(rbuf) <= MaxReplyBytes /\ msgStart \in 0 .. Len(rbuf)
    BY DEF TypeOK, HandshakeTypeOK
  <2>5. CASE rbuf' = rbuf /\ msgStart' = msgStart
    BY <2>4, <2>5
  <2>6. CASE rbuf' = <<>> /\ msgStart' = 0
    BY <2>1, <2>3, <2>6
  <2> QED
    BY <2>2, <2>5, <2>6
<1>3. ReadOK'
  BY <1>1, <1>2, TypeParts DEF ReadOK
<1>4. SentOK' /\ ErrOK'
  BY <1>1, SameParts DEF proxyvars
<1>5. PlaceOK'
  BY <1>1, TypeParts DEF PlaceOK, Accept, proxyvars
<1>6. ConnOK'
  BY <1>1, TypeParts DEF ConnOK, Accept, connvars
<1> QED
  BY <1>3, <1>4, <1>5, <1>6, TypeAll

\* Accept's states and what it has read: every other step of Accept.
LEMMA AcceptStepsType ==
    ASSUME TypeOK, NEW a \in Accepters, Accepted(a) \/ AcceptFails(a) \/ AcceptReturns(a)
    PROVE  TypeOK' /\ UNCHANGED <<cfg, pc, hvars, he, wrote, proxyvars, peer>>
<1>1. UNCHANGED <<cfg, pc, hvars, he, wrote, proxyvars, peer, cpc, deadlines>>
  BY DEF Accepted, AcceptFails, AcceptReturns, hsvars
<1>2. ReadOK' /\ SentOK'
  BY <1>1, SameParts DEF hvars, proxyvars
<1>3. aerr' = aerr \/ aerr' = "closed"
  BY DEF Accepted, AcceptFails, AcceptReturns
<1>4. ErrOK'
  BY <1>1, <1>3, TypeParts DEF ErrOK, hvars
<1>5. PlaceOK'
  BY <1>1, TypeParts DEF PlaceOK, proxyvars, Accepted, AcceptFails, AcceptReturns
<1>6. ConnOK'
  BY TypeParts DEF ConnOK, Accepted, AcceptFails, AcceptReturns, hsvars, connvars
<1> QED
  BY <1>1, <1>2, <1>4, <1>5, <1>6, TypeAll

\* The second reply keeps the types.
LEMMA GotSecondReplyType ==
    ASSUME TypeOK, pc = "accept", NEW a \in Accepters, GotSecondReply(a)
    PROVE  TypeOK'
<1>1. Reading /\ ~Lacking
  BY DEF GotSecondReply, Reading
<1>2. UNCHANGED <<cfg, method, rbuf, readErr, readStage, part, bound, he, connvars, wrote,
                   proxyvars, state, closed, cpc, deadlines>>
  BY DEF GotSecondReply
<1>3. /\ nextReplyErr \in {"nil", "eof", "reset", "timeout", "closed", "protocol", "longAuth", "reply"}
      /\ nextReplyErr = "nil" => Parse(Pending).err = "nil"
  BY <1>1, ReaderErrs
<1>4. /\ Parse(Pending).n \in Nat
      /\ Parse(Pending).err = "nil" => Parse(Pending).n <= Len(Pending)
      /\ Len(Pending) = Len(rbuf) - msgStart /\ Parse(Pending).addr \in Addrs
  BY <1>1, ReaderTypes
<1>5. msgStart' \in 0 .. Len(rbuf) /\ peer' \in Addrs
  <2>1. msgStart \in 0 .. Len(rbuf) /\ Len(rbuf) \in Nat /\ peer \in Addrs
    <3>1. rbuf \in Seq(Bytes) /\ msgStart \in 0 .. Len(rbuf) /\ peer \in Addrs
      BY DEF TypeOK, HandshakeTypeOK
    <3> QED
      BY <3>1
  <2>2. CASE UNCHANGED <<peer, msgStart>>
    BY <2>1, <2>2
  <2>3. CASE nextReplyErr = "nil" /\ peer' = Parse(Pending).addr /\ msgStart' = msgStart + Parse(Pending).n
    <3>1. msgStart + Parse(Pending).n <= Len(rbuf)
      BY <1>3, <1>4, <2>1, <2>3
    <3> QED
      BY <1>4, <2>1, <2>3, <3>1
  <2> QED
    BY <2>2, <2>3 DEF GotSecondReply
<1>6. ReadOK'
  BY <1>2, <1>5, TypeParts DEF ReadOK
<1>7. SentOK'
  BY <1>2, SameParts DEF proxyvars
<1>8. aerr' = nextReplyErr
  BY DEF GotSecondReply
<1>9. ErrOK'
  BY <1>2, <1>3, <1>8, TypeParts DEF ErrOK
<1>10. PlaceOK'
  BY <1>2, TypeParts DEF PlaceOK, proxyvars, GotSecondReply
<1>11. ConnOK'
  BY <1>2, SameParts DEF connvars, GotSecondReply
<1> QED
  BY <1>6, <1>7, <1>9, <1>10, <1>11, TypeAll

\* The proxy's next message, and the stream after it.
LEMMA SendSteps ==
    ASSUME TypeOK, ProxySend, \A i \in 1 .. Len(sent) : sent[i].kind = KindAt(i)
    PROVE  \E m \in MessageType :
             /\ Shape(m) /\ m.at = Len(stream) /\ m.bytes \in Seq(Bytes)
             /\ sent = <<>> => m.kind = IF Version = 4 THEN "reply" ELSE "method"
             /\ sent # <<>> => Good(Last1) /\ m.kind = KindAt(Len(sent) + 1)
             /\ sent' = Append(sent, m) /\ sent' \in Seq(MessageType)
             /\ Len(sent') = Len(sent) + 1 /\ sent'[Len(sent) + 1] = m
             /\ \A i \in 1 .. Len(sent) : sent'[i] = sent[i]
             /\ stream' \in Seq(Bytes) /\ Len(stream') = Len(stream) + Len(m.bytes)
             /\ \A j \in 1 .. Len(stream) : stream'[j] = stream[j]
             /\ \A j \in 1 .. Len(m.bytes) : stream'[Len(stream) + j] = m.bytes[j]
<1>1. stream \in Seq(Bytes) /\ sent \in Seq(MessageType)
  BY DEF TypeOK, HandshakeTypeOK
<1>2. PICK m \in NextMessages : sent' = Append(sent, m) /\ stream' = stream \o m.bytes
  BY Zenon DEF ProxySend
<1>3. /\ m \in MessageType /\ Shape(m) /\ m.at = Len(stream)
      /\ sent = <<>> => m.kind = IF Version = 4 THEN "reply" ELSE "method"
      /\ sent # <<>> => Good(Last1) /\ m.kind = KindAt(Len(sent) + 1)
  BY <1>1, NextMessage
<1>4. m.bytes \in Seq(Bytes)
  BY <1>3, MessageLengths
<1>5. /\ sent' \in Seq(MessageType)
      /\ Len(sent') = Len(sent) + 1 /\ sent'[Len(sent) + 1] = m
      /\ \A i \in 1 .. Len(sent) : sent'[i] = sent[i]
  <2>1. \A s \in Seq(MessageType), x \in MessageType :
          /\ Append(s, x) \in Seq(MessageType)
          /\ Len(Append(s, x)) = Len(s) + 1 /\ Append(s, x)[Len(s) + 1] = x
          /\ \A i \in 1 .. Len(s) : Append(s, x)[i] = s[i]
    OBVIOUS
  <2> QED
    BY <1>1, <1>2, <1>3, <2>1
<1> DEFINE b == m.bytes
<1>6. b \in Seq(Bytes) /\ stream' = stream \o b
  BY <1>2, <1>4
<1>7. b \in Seq(Bytes)
  BY <1>4
<1> HIDE DEF b
<1>8. /\ stream \o b \in Seq(Bytes) /\ Len(stream \o b) = Len(stream) + Len(b)
      /\ \A j \in 1 .. Len(stream) : (stream \o b)[j] = stream[j]
      /\ \A j \in 1 .. Len(b) : (stream \o b)[Len(stream) + j] = b[j]
  BY <1>1, <1>7, Concat
<1>9. /\ stream' \in Seq(Bytes) /\ Len(stream') = Len(stream) + Len(m.bytes)
      /\ \A j \in 1 .. Len(stream) : stream'[j] = stream[j]
      /\ \A j \in 1 .. Len(m.bytes) : stream'[Len(stream) + j] = m.bytes[j]
  BY <1>6, <1>8 DEF b
<1> QED
  BY <1>2, <1>3, <1>4, <1>5, <1>9, Zenon

\* The proxy keeps the types.
LEMMA ProxyType ==
    ASSUME TypeOK, ProxySend \/ ProxyStops, UNCHANGED lvars,
           \A i \in 1 .. Len(sent) : sent[i].kind = KindAt(i)
    PROVE  TypeOK'
<1>1. UNCHANGED <<cfg, pc, hvars, he, connvars, wrote, taken>>
  BY DEF ProxySend, ProxyStops
<1>2. ReadOK' /\ ErrOK' /\ ConnOK'
  BY <1>1, SameParts DEF hvars, lvars, connvars
<1>3. PlaceOK'
  BY <1>1, TypeParts DEF PlaceOK, ProxySend, ProxyStops, lvars
<1>4. SentOK'
  <2>1. CASE ProxyStops
    BY <2>1, TypeParts DEF ProxyStops, SentOK
  <2>2. CASE ProxySend
    <3>1. stream \in Seq(Bytes) /\ taken \in 0 .. Len(stream)
      BY DEF TypeOK, HandshakeTypeOK
    <3>2. PICK m \in MessageType :
            /\ m.bytes \in Seq(Bytes) /\ sent' \in Seq(MessageType)
            /\ stream' \in Seq(Bytes) /\ Len(stream') = Len(stream) + Len(m.bytes)
      BY <2>2, SendSteps
    <3>3. taken' \in 0 .. Len(stream')
      <4>1. Len(stream) \in Nat /\ Len(m.bytes) \in Nat
        BY <3>1, <3>2
      <4> QED
        BY <1>1, <3>1, <3>2, <4>1
    <3> QED
      BY <3>2, <3>3 DEF SentOK
  <2> QED
    BY <2>1, <2>2
<1> QED
  BY <1>2, <1>3, <1>4, TypeAll

\* The type invariant is kept, if Authenticate waits for what it can have and the
\* proxy's messages come in order.
LEMMA TypeNext ==
    ASSUME TypeOK, NeedOK, [Next]_vars,
           \A i \in 1 .. Len(sent) : sent[i].kind = KindAt(i),
           \A a \in Accepters : apc[a] = "read" => pc = "accept"
    PROVE  TypeOK'
<1>1. CASE HandshakeStep /\ UNCHANGED lvars
  BY <1>1, ConfigureType, DialType, WriteType, AuthReadType, GotMethodType, GotAuthType, GotReplyType,
     SettleType, ConnStepsType DEF HandshakeStep
<1>2. CASE (HandshakeEnv \/ ReadNext) /\ UNCHANGED lvars
  BY <1>2, ConnStepsType, ProxyType, ReadNextType DEF HandshakeEnv
<1>3. CASE \E a \in Accepters : Accept(a) \/ AcceptStep(a)
  <2>1. PICK a \in Accepters : Accept(a) \/ AcceptStep(a)
    BY <1>3
  <2>2. CASE GotSecondReply(a)
    <3>1. pc = "accept"
      BY <2>2 DEF GotSecondReply
    <3> QED
      BY <2>2, <3>1, GotSecondReplyType
  <2> QED
    BY <2>1, <2>2, AcceptType, AcceptStepsType DEF AcceptStep
<1>4. CASE \/ \E c \in Closers : Close(c) \/ CloseConn(c)
           \/ \E t \in {"none", "future", "past"} : SetDeadline(t)
           \/ DeadlinePasses
  BY <1>4, ConnStepsType
<1>5. CASE UNCHANGED vars
  BY <1>5, SameParts, TypeAll DEF vars, hsvars, hvars, connvars, proxyvars, lvars
<1> QED
  BY <1>1, <1>2, <1>3, <1>4, <1>5 DEF Next

-----------------------------------------------------------------------------
(* The conversation.                                                       *)

\* What a message lets the handshake do is the configuration's.
LEMMA SameCfg ==
    ASSUME cfg' = cfg
    PROVE  /\ Version' = Version /\ Mode' = Mode /\ UserPass' = UserPass /\ Sequential5' = Sequential5
           /\ HasPipe' = HasPipe /\ initOK' = initOK /\ Granted' = Granted
           /\ authMin' = authMin
           /\ \A m : MethodOK(m)' <=> MethodOK(m)
           /\ \A m : Good(m)' <=> Good(m)
           /\ \A m : Shape(m)' <=> Shape(m)
           /\ \A a : checkBound(a)' <=> checkBound(a)
<1>1. /\ Version' = Version /\ Mode' = Mode /\ UserPass' = UserPass /\ Sequential5' = Sequential5
      /\ HasPipe' = HasPipe /\ Granted' = Granted
  BY DEF Version, Mode, UserPass, Sequential5, HasPipe, Granted
<1>2. initOK' = initOK
  BY <1>1 DEF initOK, init5OK, init4OK, UserID
<1>3. authMin' = authMin
  BY <1>1 DEF authMin, ParseAuthReply
<1>4. \A m : MethodOK(m)' <=> MethodOK(m)
  BY <1>1 DEF MethodOK, Offered
<1>5. \A m : Good(m)' <=> Good(m)
  BY <1>1, <1>4 DEF Good
<1>6. \A m : Shape(m)' <=> Shape(m)
  BY <1>1 DEF Shape, MethodShape, AuthShape, ReplyShape
<1>7. \A a : checkBound(a)' <=> checkBound(a)
  BY DEF checkBound
<1> QED
  BY <1>1, <1>2, <1>3, <1>4, <1>5, <1>6, <1>7

\* Where the messages are, when none of them changes.
LEMMA SameSent ==
    ASSUME cfg' = cfg, sent' = sent
    PROVE  /\ ReplyAt' = ReplyAt
           /\ \A i : KindAt(i)' = KindAt(i)
           /\ \A i : EndOf(i)' = EndOf(i)
           /\ \A i : Refused(i)' <=> Refused(i)
           /\ \A k : Of(k)' = Of(k)
<1>1. Version' = Version /\ Granted' = Granted
  BY SameCfg
<1>2. ReplyAt' = ReplyAt
  BY <1>1 DEF ReplyAt
<1> QED
  BY <1>1, <1>2 DEF KindAt, EndOf, Refused, Of

\* The conversation stays as it is when the proxy says nothing.
LEMMA SameTalk ==
    ASSUME cfg' = cfg, sent' = sent, stream' = stream, Talk
    PROVE  Talk'
<1>1. /\ \A i : KindAt(i)' = KindAt(i)
      /\ \A i : EndOf(i)' = EndOf(i)
      /\ \A m : Good(m)' <=> Good(m)
      /\ \A m : Shape(m)' <=> Shape(m)
  BY SameCfg, SameSent
<1> QED
  BY <1>1 DEF Talk

\* The messages are where the stream has them.
LEMMA TalkFacts ==
    ASSUME TypeOK, Talk
    PROVE  /\ Len(sent) \in Nat /\ Len(stream) \in Nat /\ taken \in Nat /\ taken <= Len(stream)
           /\ ReplyAt \in {1, 2, 3}
           /\ \A i \in 1 .. Len(sent) :
                /\ sent[i] \in MessageType /\ Shape(sent[i]) /\ sent[i].kind = KindAt(i)
                /\ sent[i].at \in Nat /\ Len(sent[i].bytes) \in Nat /\ sent[i].bytes \in Seq(Bytes)
                /\ EndOf(i) \in Nat /\ sent[i].at <= EndOf(i) /\ EndOf(i) <= Len(stream)
                /\ EndOf(i) = sent[i].at + Len(sent[i].bytes)
<1>1. sent \in Seq(MessageType) /\ stream \in Seq(Bytes) /\ taken \in 0 .. Len(stream)
  BY DEF TypeOK, HandshakeTypeOK
<1>2. Len(sent) \in Nat /\ Len(stream) \in Nat /\ taken \in Nat /\ taken <= Len(stream)
  BY <1>1
<1>3. ReplyAt \in {1, 2, 3}
  BY DEF ReplyAt
<1>4. ASSUME NEW i \in 1 .. Len(sent)
      PROVE  /\ sent[i] \in MessageType /\ Shape(sent[i]) /\ sent[i].kind = KindAt(i)
             /\ sent[i].at \in Nat /\ Len(sent[i].bytes) \in Nat /\ sent[i].bytes \in Seq(Bytes)
             /\ EndOf(i) \in Nat /\ sent[i].at <= EndOf(i)
             /\ EndOf(i) = sent[i].at + Len(sent[i].bytes)
  <2>1. sent[i] \in MessageType
    BY <1>1
  <2>2. Shape(sent[i]) /\ sent[i].kind = KindAt(i)
    BY DEF Talk
  <2>3. sent[i].at \in Nat /\ Len(sent[i].bytes) \in Nat /\ sent[i].bytes \in Seq(Bytes)
    BY <2>1, <2>2, MessageLengths
  <2>4. EndOf(i) \in Nat /\ sent[i].at <= EndOf(i) /\ EndOf(i) = sent[i].at + Len(sent[i].bytes)
    BY <2>3 DEF EndOf
  <2> QED
    BY <2>1, <2>2, <2>3, <2>4
<1>5. ASSUME NEW i \in 1 .. Len(sent) PROVE EndOf(i) <= Len(stream)
  <2> DEFINE n == Len(sent)
  <2>1. n \in 1 .. Len(sent) /\ n \in Nat /\ i \in Nat /\ i <= n
    BY <1>2
  <2>2. sent # <<>>
    BY <1>2
  <2>3. Len(stream) = EndOf(n)
    BY <2>2 DEF Talk
  <2>4. i < n => EndOf(i) <= sent[n].at
    BY <2>1 DEF Talk
  <2>5. EndOf(i) \in Nat /\ EndOf(n) \in Nat /\ sent[n].at \in Nat /\ sent[n].at <= EndOf(n)
    BY <1>4, <2>1
  <2> HIDE DEF n
  <2>6. CASE i = n
    BY <2>3, <2>5, <2>6
  <2>7. CASE i < n
    BY <2>3, <2>4, <2>5, <2>7
  <2> QED
    BY <2>1, <2>6, <2>7
<1> QED
  BY <1>2, <1>3, <1>4, <1>5

\* A message the proxy sends comes after those it has sent.
LEMMA SendTalk ==
    ASSUME TypeOK, Talk, ProxySend
    PROVE  /\ Talk'
           /\ sent' # <<>> /\ Len(sent') = Len(sent) + 1 /\ Len(sent) \in Nat
           /\ \A i \in 1 .. Len(sent) : sent'[i] = sent[i] /\ EndOf(i)' = EndOf(i)
           /\ \A i \in 1 .. Len(sent) : Good(sent[i])
           /\ sent # <<>> => ReplyAt' = ReplyAt
           /\ sent'[Len(sent) + 1].at = Len(stream)
           /\ \A j \in 1 .. Len(stream) : stream'[j] = stream[j]
<1>n. PICK n \in Nat : n = Len(sent)
  BY TalkFacts
<1>L. PICK L \in Nat : L = Len(stream)
  BY TalkFacts
<1>1. n \in Nat /\ L \in Nat /\ cfg' = cfg
  BY DEF ProxySend
<1>2. \A i \in 1 .. Len(sent) : sent[i].kind = KindAt(i)
  BY TalkFacts
<1>3. PICK m \in MessageType :
        /\ Shape(m) /\ m.at = Len(stream) /\ m.bytes \in Seq(Bytes)
        /\ sent = <<>> => m.kind = IF Version = 4 THEN "reply" ELSE "method"
        /\ sent # <<>> => Good(Last1) /\ m.kind = KindAt(Len(sent) + 1)
        /\ sent' = Append(sent, m) /\ sent' \in Seq(MessageType)
        /\ Len(sent') = Len(sent) + 1 /\ sent'[Len(sent) + 1] = m
        /\ \A i \in 1 .. Len(sent) : sent'[i] = sent[i]
        /\ stream' \in Seq(Bytes) /\ Len(stream') = Len(stream) + Len(m.bytes)
        /\ \A j \in 1 .. Len(stream) : stream'[j] = stream[j]
        /\ \A j \in 1 .. Len(m.bytes) : stream'[Len(stream) + j] = m.bytes[j]
  BY <1>2, SendSteps, Zenon
<1>4. /\ Shape(m) /\ m.at = L /\ Len(sent') = n + 1 /\ sent'[n + 1] = m
      /\ \A i \in 1 .. n : sent'[i] = sent[i]
      /\ Len(stream') = L + Len(m.bytes) /\ Len(m.bytes) \in Nat
      /\ \A j \in 1 .. L : stream'[j] = stream[j]
      /\ \A j \in 1 .. Len(m.bytes) : stream'[L + j] = m.bytes[j]
  BY <1>3, <1>n, <1>L
<1>5. sent' # <<>>
  BY <1>1, <1>4
<1>6. sent = <<>> <=> n = 0
  BY <1>n DEF TypeOK, HandshakeTypeOK
<1>7. /\ \A i \in 1 .. n : /\ Shape(sent[i]) /\ sent[i].kind = KindAt(i)
                           /\ sent[i].at \in Nat /\ Len(sent[i].bytes) \in Nat
                           /\ EndOf(i) \in Nat /\ EndOf(i) <= L /\ sent[i].at <= EndOf(i)
                           /\ EndOf(i) = sent[i].at + Len(sent[i].bytes)
  BY <1>n, <1>L, TalkFacts
<1>8. /\ \A i \in 1 .. n : EndOf(i)' = EndOf(i)
      /\ EndOf(n + 1)' = L + Len(m.bytes)
  BY <1>4, Zenon DEF EndOf
<1>9. sent # <<>> => Good(sent[n])
  BY <1>3, <1>n DEF Last1
<1>10. /\ \A i \in 1 .. n : i < n => Good(sent[i]) /\ sent[i + 1].at = EndOf(i)
       /\ \A i \in 1 .. n : \A k \in 1 .. n : i < k => EndOf(i) <= sent[k].at
       /\ \A i \in 1 .. n : \A j \in 1 .. Len(sent[i].bytes) : stream[sent[i].at + j] = sent[i].bytes[j]
       /\ sent # <<>> => sent[1].at = 0
       /\ L = IF sent = <<>> THEN 0 ELSE EndOf(n)
  BY <1>n, <1>L DEF Talk
<1>11. \A m1 : (Good(m1)' <=> Good(m1)) /\ (Shape(m1)' <=> Shape(m1))
  BY <1>1, SameCfg
<1>12. Version' = Version
  BY <1>1, SameCfg
<1>13. /\ sent # <<>> => ReplyAt' = ReplyAt /\ \A i : KindAt(i)' = KindAt(i)
  <2> SUFFICES ASSUME sent # <<>> PROVE ReplyAt' = ReplyAt /\ \A i : KindAt(i)' = KindAt(i)
    OBVIOUS
  <2>1. sent'[1] = sent[1]
    BY <1>1, <1>4, <1>6
  <2>2. ReplyAt' = ReplyAt
    BY <1>5, <1>12, <2>1 DEF ReplyAt
  <2> QED
    BY <1>1, <2>2 DEF KindAt
<1>14. m.kind = KindAt(n + 1)'
  <2>1. CASE sent # <<>>
    BY <1>3, <1>13, <1>n, <2>1
  <2>2. CASE sent = <<>>
    <3>1. n + 1 = 1
      BY <1>6, <2>2
    <3>2. m.kind = IF Version = 4 THEN "reply" ELSE "method"
      BY <1>3, <2>2
    <3>3. Version = 4 => ReplyAt' = 1
      BY <1>12 DEF ReplyAt
    <3>4. Version # 4 => ReplyAt' \in {2, 3}
      BY <1>12 DEF ReplyAt
    <3>5. KindAt(1)' = IF Version = 4 THEN "reply" ELSE "method"
      BY <3>3, <3>4 DEF KindAt
    <3> QED
      BY <3>1, <3>2, <3>5
  <2> QED
    BY <2>1, <2>2
<1>15. \A i \in 1 .. n + 1 : sent'[i].kind = KindAt(i)' /\ Shape(sent[i])'
  <2> TAKE i \in 1 .. n + 1
  <2>1. CASE i = n + 1
    BY <1>4, <1>11, <1>14, <2>1
  <2>2. CASE i \in 1 .. n
    <3>1. sent # <<>>
      BY <1>6, <2>2
    <3> QED
      BY <1>4, <1>7, <1>11, <1>13, <2>2, <3>1
  <2> QED
    BY <1>1, <2>1, <2>2
<1>16. \A i \in 1 .. n + 1 : i < n + 1 => Good(sent[i])' /\ sent'[i + 1].at = EndOf(i)'
  <2> TAKE i \in 1 .. n + 1
  <2> SUFFICES ASSUME i < n + 1 PROVE Good(sent[i])' /\ sent'[i + 1].at = EndOf(i)'
    OBVIOUS
  <2>1. i \in 1 .. n /\ n # 0
    BY <1>1
  <2>2. CASE i = n
    BY <1>4, <1>6, <1>8, <1>9, <1>10, <1>11, <2>1, <2>2
  <2>3. CASE i < n
    <3>1. i + 1 \in 1 .. n
      BY <1>1, <2>1, <2>3
    <3> QED
      BY <1>4, <1>8, <1>10, <1>11, <2>1, <2>3, <3>1
  <2> QED
    BY <1>1, <2>1, <2>2, <2>3
<1>17. \A i \in 1 .. n + 1 : \A k \in 1 .. n + 1 : i < k => EndOf(i)' <= sent'[k].at
  <2> TAKE i \in 1 .. n + 1
  <2> TAKE k \in 1 .. n + 1
  <2> SUFFICES ASSUME i < k PROVE EndOf(i)' <= sent'[k].at
    OBVIOUS
  <2>1. i \in 1 .. n
    BY <1>1
  <2>2. CASE k = n + 1
    BY <1>4, <1>7, <1>8, <2>1, <2>2
  <2>3. CASE k \in 1 .. n
    BY <1>4, <1>8, <1>10, <2>1, <2>3
  <2> QED
    BY <1>1, <2>2, <2>3
<1>18. \A i \in 1 .. n + 1 : \A j \in 1 .. Len(sent'[i].bytes) : stream'[sent'[i].at + j] = sent'[i].bytes[j]
  <2> TAKE i \in 1 .. n + 1
  <2>1. CASE i = n + 1
    BY <1>4, <2>1
  <2>2. CASE i \in 1 .. n
    <3> TAKE j \in 1 .. Len(sent'[i].bytes)
    <3>1. sent'[i] = sent[i] /\ j \in 1 .. Len(sent[i].bytes)
      BY <1>4, <2>2, Zenon
    <3>2. stream[sent[i].at + j] = sent[i].bytes[j]
      BY <1>10, <2>2, <3>1
    <3>3. sent[i].at + j \in 1 .. L
      BY <1>1, <1>7, <2>2, <3>1
    <3> QED
      BY <1>4, <3>1, <3>2, <3>3
  <2> QED
    BY <1>1, <2>1, <2>2
<1>19. sent'[1].at = 0
  <2>1. CASE n = 0
    BY <1>4, <1>6, <1>10, <2>1
  <2>2. CASE n # 0
    <3>1. 1 \in 1 .. n
      BY <1>1, <2>2
    <3> QED
      BY <1>4, <1>6, <1>10, <2>2, <3>1
  <2> QED
    BY <2>1, <2>2
<1>20. Len(stream') = EndOf(Len(sent))'
  BY <1>4, <1>8
<1>21. Talk'
  <2>1. Len(sent') = n + 1
    BY <1>4
  <2> QED
    BY <1>5, <1>15, <1>16, <1>17, <1>18, <1>19, <1>20, <2>1 DEF Talk
<1>22. \A i \in 1 .. n : Good(sent[i])
  <2> TAKE i \in 1 .. n
  <2>1. i < n \/ i = n
    BY <1>1
  <2>2. n # 0
    BY <1>1
  <2> QED
    BY <1>6, <1>9, <1>10, <2>1, <2>2
<1>23. sent'[n + 1].at = L
  BY <1>4
<1> QED
  BY <1>1, <1>4, <1>5, <1>8, <1>13, <1>21, <1>22, <1>23, <1>n, <1>L

\* What Authenticate asks for when it lacks bytes.
LEMMA AuthLacks ==
    ASSUME NEW b \in Seq(Bytes), ParseAuthReply(b).err = "incomplete"
    PROVE  /\ Len(b) < ParseAuthReply(b).n
           /\ \/ UserPass /\ ParseAuthReply(b).n = 2
              \/ ~UserPass /\ (ParseAuthReply(b).n = 1 \/ (b # <<>> /\ ParseAuthReply(b).n = 1 + b[1]))
<1>1. CASE UserPass
  <2> DEFINE p == ParseUserPassStatus(b)
  <2>1. \/ p = Protocol
        \/ Len(b) < 2 /\ p = Incomplete(2)
        \/ p = [err |-> "nil", n |-> 2, status |-> b[2]]
    BY DEF ParseUserPassStatus
  <2>2. ParseAuthReply(b) = p \/ ParseAuthReply(b) = [err |-> "auth", n |-> p.n]
    BY <1>1 DEF ParseAuthReply
  <2>3. ParseAuthReply(b) = p /\ p.err = "incomplete"
    BY <2>2
  <2>4. Len(b) < 2 /\ p.n = 2
    BY <2>1, <2>3 DEF Protocol, Incomplete
  <2> QED
    BY <1>1, <2>3, <2>4
<1>2. CASE ~UserPass
  <2> DEFINE p == ParseCustom(b)
  <2>1. \/ b = <<>> /\ p = Incomplete(1)
        \/ b # <<>> /\ Len(b) < 1 + b[1] /\ p = Incomplete(1 + b[1])
        \/ p = [err |-> "nil", n |-> 1 + b[1], status |-> b[2]]
    BY DEF ParseCustom
  <2>2. ParseAuthReply(b) = p \/ ParseAuthReply(b) = [err |-> "auth", n |-> p.n]
    BY <1>2 DEF ParseAuthReply
  <2>3. ParseAuthReply(b) = p /\ p.err = "incomplete"
    BY <2>2
  <2>4. Len(b) < p.n /\ (p.n = 1 \/ (b # <<>> /\ p.n = 1 + b[1]))
    BY <2>1, <2>3 DEF Incomplete
  <2> QED
    BY <1>2, <2>3, <2>4
<1> QED
  BY <1>1, <1>2

\* Every step keeps what Authenticate waits for.
LEMMA NeedNext ==
    ASSUME TypeOK, NeedOK, [Next]_vars
    PROVE  NeedOK'
<1>1. part.b \in Seq(Bytes) /\ part.need \in Nat /\ Len(part.b) \in Nat
  BY AuthReadFacts
<1>2. CASE AuthRead
  <2>1. UserPass' = UserPass
    BY <1>2, SameCfg DEF AuthRead
  <2>2. CASE /\ ParseAuthReply(part.b).err = "incomplete"
             /\ part' = [b |-> part.b, need |-> ParseAuthReply(part.b).n]
    <3>1. /\ Len(part.b) < ParseAuthReply(part.b).n
          /\ \/ UserPass /\ ParseAuthReply(part.b).n = 2
             \/ ~UserPass /\ (ParseAuthReply(part.b).n = 1
                              \/ (part.b # <<>> /\ ParseAuthReply(part.b).n = 1 + part.b[1]))
      BY <1>1, <2>2, AuthLacks
    <3>2. part'.b = part.b /\ part'.need = ParseAuthReply(part.b).n
      BY <2>2
    <3>3. ParseAuthReply(part.b).n \in Nat
      BY AuthReadFacts
    <3>4. Len(part'.b) <= part'.need
      BY <1>1, <3>1, <3>2, <3>3
    <3> QED
      BY <2>1, <3>1, <3>2, <3>4 DEF NeedOK
  <2>3. CASE UNCHANGED part
    BY <2>1, <2>3 DEF NeedOK
  <2>4. ASSUME Len(part.b) < part.need, NEW r \in ReadResults(part.need - Len(part.b)), DidRead(r),
               part' = [part EXCEPT !.b = @ \o Segment(r)]
        PROVE  NeedOK'
    <3>1. /\ part'.need = part.need /\ Len(part'.b) <= part.need /\ Len(part'.b) = Len(part.b) + r.m
          /\ \A j \in 1 .. Len(part.b) : part'.b[j] = part.b[j]
      BY <2>4, AuthReadSome, Zenon
    <3>2. part.b # <<>> => part'.b # <<>> /\ part'.b[1] = part.b[1]
      <4>1. part.b # <<>> => 1 \in 1 .. Len(part.b)
        BY <1>1
      <4>2. r.m \in Nat
        <5>1. part.need - Len(part.b) \in Nat
          BY <1>1, <2>4
        <5> QED
          BY <2>4, <5>1, ReadFacts
      <4>3. part.b # <<>> => part'.b[1] = part.b[1] /\ Len(part'.b) # 0
        BY <1>1, <3>1, <4>1, <4>2
      <4>4. part'.b = <<>> => Len(part'.b) = 0
        OBVIOUS
      <4> QED
        BY <4>3, <4>4
    <3> QED
      BY <2>1, <3>1, <3>2 DEF NeedOK
  <2> QED
    BY <1>2, <2>2, <2>3, <2>4, AuthReadSteps
<1>3. CASE UNCHANGED <<cfg, part>>
  <2>1. UserPass' = UserPass
    BY <1>3, SameCfg
  <2> QED
    BY <1>3, <2>1 DEF NeedOK
<1>4. AuthRead \/ UNCHANGED <<cfg, part>>
  BY DEF Next, HandshakeStep, HandshakeEnv, Configure, Dial, Write, WriteRequest, AuthWrite,
         GotMethod, GotAuth, GotReply, Settle, Clear, FireWatch, Unblock, CtxDone, BudgetPasses, ProxySend,
         ProxyStops, ReadNext, Accept, AcceptStep, GotSecondReply, Accepted, AcceptFails, AcceptReturns,
         Close, CloseConn, SetDeadline, DeadlinePasses, vars, hsvars, hvars
<1> QED
  BY <1>2, <1>3, <1>4

-----------------------------------------------------------------------------
(* What the client reads of it.                                            *)

\* What the reader makes of the part of a message that it has.
LEMMA MethodRead ==
    ASSUME NEW m \in MessageType, Shape(m), m.kind = "method",
           NEW b \in Seq(Bytes), Agree(b, m.bytes)
    PROVE  LET r == ParseMethodSelection(b)
           IN /\ r.err \in {"nil", "incomplete", "protocol"}
              /\ r.err = "nil" => /\ ~m.bad /\ Len(b) >= Len(m.bytes)
                                  /\ r.n = Len(m.bytes) /\ r.method = m.code
              /\ r.err = "incomplete" => Len(b) < Len(m.bytes) /\ Partial(r, b, m.bytes)
              /\ r.err = "protocol" => m.bad
<1> DEFINE r == ParseMethodSelection(b)
<1>1. /\ m.code \in Bytes /\ m.bad \in BOOLEAN /\ Len(m.bytes) = 2
  BY MessageLengths
<1>2. r.err \in {"nil", "incomplete", "protocol"}
  BY MethodSelectionTypes
<1>3. \/ ~m.bad /\ m.bytes = AppendMethodSelection(m.code)
      \/ m.bad /\ m.bytes = <<72, 84>>
  BY DEF Shape, MethodShape, AuthShape, ReplyShape
<1>4. Len(b) \in Nat
  OBVIOUS
<1>5. CASE ~m.bad /\ m.bytes = AppendMethodSelection(m.code)
  <2>1. /\ Len(b) < 2 => Partial(r, b, m.bytes)
        /\ Len(b) >= 2 => r.err = "nil" /\ r.n = 2 /\ r.method = m.code
    BY <1>1, <1>5, ReadsMethodSelection
  <2> HIDE DEF r
  <2>2. Partial(r, b, m.bytes) => r.err = "incomplete"
    BY DEF Partial
  <2> QED
    BY <1>1, <1>2, <1>4, <1>5, <2>1, <2>2 DEF r
<1>6. CASE m.bad /\ m.bytes = <<72, 84>>
  <2>1. 72 \in Bytes /\ 84 \in Bytes
    BY DEF Bytes
  <2>2. /\ Len(b) = 0 => Partial(r, b, <<72, 84>>)
        /\ Len(b) > 0 => r.err = "protocol"
    BY <1>6, <2>1, ReadsOtherVersion
  <2> HIDE DEF r
  <2>3. Len(b) = 0 => Partial(r, b, m.bytes) /\ r.err = "incomplete"
    BY <1>6, <2>2 DEF Partial
  <2> QED
    BY <1>1, <1>2, <1>4, <1>6, <2>2, <2>3 DEF r
<1> QED
  BY <1>3, <1>5, <1>6

\* A Pipeliner's ParseReply of the first bytes of the answer to the authentication.
LEMMA AuthMessageRead ==
    ASSUME NEW m \in MessageType, Shape(m), m.kind = "auth",
           NEW b \in Seq(Bytes), Agree(b, m.bytes)
    PROVE  LET r == ParseAuthReply(b)
           IN /\ r.err \in {"nil", "incomplete", "protocol", "auth"}
              /\ r.err = "nil" => /\ ~m.bad /\ m.code = 0 /\ Len(b) >= Len(m.bytes)
                                  /\ r.n = Len(m.bytes)
              /\ r.err = "incomplete" => Len(b) < Len(m.bytes) /\ Partial(r, b, m.bytes)
              /\ r.err = "protocol" => m.bad
              /\ r.err = "auth" => ~m.bad /\ m.code # 0
<1> DEFINE r == ParseAuthReply(b)
<1>1. /\ m.code \in Bytes /\ m.bad \in BOOLEAN /\ Len(m.bytes) \in Nat /\ m.bytes \in Seq(Bytes)
      /\ UserPass => Len(m.bytes) = 2
  BY MessageLengths
<1>2. r.err \in {"nil", "incomplete", "protocol", "auth"}
  BY AuthReplyTypes
<1>3. Len(b) \in Nat
  OBVIOUS
<1>4. \/ UserPass /\ ~m.bad /\ m.bytes = AppendUserPassStatus(m.code)
      \/ UserPass /\ m.bad /\ m.bytes = <<5, 0>>
      \/ /\ ~UserPass /\ ~m.bad
         /\ Len(m.bytes) > 1 /\ Len(m.bytes) = 1 + m.bytes[1] /\ m.code = m.bytes[2]
  BY DEF Shape, MethodShape, AuthShape, ReplyShape
<1>5. CASE UserPass /\ ~m.bad /\ m.bytes = AppendUserPassStatus(m.code)
  <2> DEFINE p == ParseUserPassStatus(b)
  <2>1. /\ Len(b) < 2 => Partial(p, b, m.bytes)
        /\ Len(b) >= 2 => p.err = "nil" /\ p.n = 2 /\ p.status = m.code
    BY <1>1, <1>5, ReadsUserPassStatus
  <2>2. r = IF p.err = "nil" /\ p.status # 0 THEN [err |-> "auth", n |-> p.n] ELSE p
    BY <1>5 DEF ParseAuthReply
  <2> HIDE DEF r, p
  <2>3. CASE Len(b) < 2
    <3>1. p.err = "incomplete" /\ r = p
      BY <2>1, <2>2, <2>3 DEF Partial
    <3> QED
      BY <1>1, <1>5, <2>1, <2>3, <3>1, Zenon DEF r
  <2>4. CASE Len(b) >= 2
    <3>1. /\ m.code = 0 => r.err = "nil" /\ r.n = 2
          /\ m.code # 0 => r.err = "auth"
      BY <2>1, <2>2, <2>4
    <3> QED
      BY <1>1, <1>5, <2>4, <3>1, Zenon DEF r
  <2> QED
    BY <1>3, <2>3, <2>4
<1>6. CASE UserPass /\ m.bad /\ m.bytes = <<5, 0>>
  <2> DEFINE p == ParseUserPassStatus(b)
  <2>1. 5 \in Bytes /\ 0 \in Bytes
    BY DEF Bytes
  <2>2. /\ Len(b) = 0 => Partial(p, b, <<5, 0>>)
        /\ Len(b) > 0 => p.err = "protocol"
    BY <1>6, <2>1, ReadsOtherVersion
  <2>3. r = IF p.err = "nil" /\ p.status # 0 THEN [err |-> "auth", n |-> p.n] ELSE p
    BY <1>6 DEF ParseAuthReply
  <2> HIDE DEF r, p
  <2>4. Len(b) = 0 => p.err = "incomplete" /\ Partial(p, b, m.bytes)
    BY <1>6, <2>2 DEF Partial
  <2>5. r = p
    BY <1>3, <2>2, <2>3, <2>4
  <2> QED
    BY <1>1, <1>3, <1>6, <2>2, <2>4, <2>5 DEF r
<1>7. CASE /\ ~UserPass /\ ~m.bad
           /\ Len(m.bytes) > 1 /\ Len(m.bytes) = 1 + m.bytes[1] /\ m.code = m.bytes[2]
  <2> DEFINE p == ParseCustom(b)
             s == m.bytes
  <2>0. s \in Seq(Bytes) /\ Len(s) > 1 /\ Len(s) = 1 + s[1] /\ Agree(b, s) /\ m.code = s[2] /\ Len(s) \in Nat
    BY <1>1, <1>7
  <2>1. r = IF p.err = "nil" /\ p.status # 0 THEN [err |-> "auth", n |-> p.n] ELSE p
    BY <1>7 DEF ParseAuthReply
  <2> HIDE DEF r, p, s
  <2>2. /\ Len(b) < Len(s) => Partial(p, b, s)
        /\ Len(b) >= Len(s) => p.err = "nil" /\ p.n = Len(s) /\ p.status = s[2]
    BY <2>0, ReadsCustom DEF p
  <2>3. CASE Len(b) < Len(s)
    <3>1. p.err = "incomplete" /\ r = p
      BY <2>1, <2>2, <2>3 DEF Partial
    <3> QED
      BY <1>7, <2>2, <2>3, <3>1 DEF r, s
  <2>4. CASE Len(b) >= Len(s)
    <3>1. /\ s[2] = 0 => r.err = "nil" /\ r.n = Len(s)
          /\ s[2] # 0 => r.err = "auth"
      BY <2>1, <2>2, <2>4
    <3> QED
      BY <1>7, <2>0, <2>4, <3>1 DEF r, s
  <2> QED
    BY <1>3, <2>0, <2>3, <2>4
<1> QED
  BY <1>4, <1>5, <1>6, <1>7

\* The parser of the replies.
ReplyParse(b) == IF Version = 4 THEN ParseReply4(b) ELSE ParseReply(b, cfg.cmd = CmdTorResolve)

\* ParseReply and ParseReply4 of the first bytes of a reply.
LEMMA ReplyRead ==
    ASSUME NEW m \in MessageType, Shape(m), m.kind \in {"reply", "second"},
           NEW b \in Seq(Bytes), Agree(b, m.bytes)
    PROVE  LET r == ReplyParse(b)
           IN /\ r.err \in {"nil", "incomplete", "protocol"}
              /\ r.err = "nil" => /\ Len(b) >= Len(m.bytes)
                                  /\ r.n = Len(m.bytes) /\ r.addr = AsSent(m.addr)
                                  /\ m.bad => cfg.cmd = CmdTorResolve /\ r.addr = ZeroAddr
              /\ r.err = "incomplete" => Len(b) < Len(m.bytes) /\ Partial(r, b, m.bytes)
              /\ r.err = "protocol" => m.bad
              /\ Len(b) > 1 => r.rep = m.code
              /\ Len(b) > 1 /\ ~m.bad => b[1] = IF Version = 4 THEN 0 ELSE Version5
              /\ m.bad => m.code = Granted
<1> DEFINE r == ReplyParse(b)
           s == m.bytes
           tor == cfg.cmd = CmdTorResolve
           A == AsSent(m.addr)
<1>1. /\ m.code \in Bytes /\ m.bad \in BOOLEAN /\ Len(m.bytes) \in Nat /\ m.bytes \in Seq(Bytes)
      /\ m.addr \in Addrs
  BY MessageLengths
<1>2. r.err \in {"nil", "incomplete", "protocol"}
  BY ReplyTypes, Reply4Types, Zenon DEF ReplyParse
<1>3. Len(b) \in Nat /\ tor \in BOOLEAN
  OBVIOUS
<1>4. \/ Version = 4 /\ ~m.bad /\ m.addr \in ValidAddrs /\ Len(m.addr.ip) = 4
         /\ m.bytes = AppendReply4(m.code, m.addr)
      \/ Version # 4 /\ ~m.bad /\ m.addr \in ValidAddrs /\ m.bytes = AppendReply(m.code, m.addr)
      \/ Version # 4 /\ m.bad /\ m.code = 0 /\ m.addr = ZeroAddr
         /\ \E t \in (IF cfg.cmd = CmdTorResolve THEN {0} ELSE {3, 9}) :
              m.bytes = BadReply(t)
  BY DEF Shape, MethodShape, AuthShape, ReplyShape
<1>5. [m.addr EXCEPT !.ip = Unmap(@)] = AsSent(m.addr)
  BY DEF AsSent
<1>6. CASE Version = 4 /\ ~m.bad /\ m.addr \in ValidAddrs /\ Len(m.addr.ip) = 4
           /\ m.bytes = AppendReply4(m.code, m.addr)
  <2>1. r = ParseReply4(b)
    BY <1>6 DEF ReplyParse
  <2>2. /\ Len(s) = 8
        /\ Len(b) < 8 => Partial(r, b, s)
        /\ Len(b) >= 8 => r.err = "nil" /\ r.n = 8 /\ r.addr = A
        /\ Len(b) > 1 => b[1] = 0 /\ r.rep = m.code
    BY <1>1, <1>5, <1>6, <2>1, ReadsReply4
  <2> HIDE DEF r, s, A
  <2>3. Len(b) < 8 => r.err = "incomplete"
    BY <2>2 DEF Partial
  <2> QED
    BY <1>2, <1>3, <1>6, <2>2, <2>3 DEF r, s, A
<1>7. CASE Version # 4 /\ ~m.bad /\ m.addr \in ValidAddrs /\ m.bytes = AppendReply(m.code, m.addr)
  <2>1. r = ParseReply(b, tor)
    BY <1>7 DEF ReplyParse
  <2> HIDE DEF tor
  <2>2. /\ Len(b) < Len(s) => Partial(r, b, s)
        /\ Len(b) >= Len(s) => r.err = "nil" /\ r.n = Len(s) /\ r.addr = A
        /\ Len(b) > 1 => b[1] = 5 /\ r.rep = m.code
    BY <1>1, <1>3, <1>5, <1>7, <2>1, ReadsReply
  <2>0. Len(s) \in Nat
    BY <1>1
  <2> HIDE DEF r, s, A
  <2>3. Len(b) < Len(s) => r.err = "incomplete"
    BY <2>2 DEF Partial
  <2> QED
    BY <1>2, <1>3, <1>7, <2>0, <2>2, <2>3 DEF r, s, A, Version5
<1>8. ASSUME Version # 4, m.bad, m.code = 0, m.addr = ZeroAddr,
             NEW t \in (IF cfg.cmd = CmdTorResolve THEN {0} ELSE {3, 9}), m.bytes = BadReply(t)
      PROVE  /\ r.err = "nil" => Len(b) >= Len(s) /\ r.n = Len(s) /\ r.addr = A /\ tor /\ r.addr = ZeroAddr
             /\ r.err = "incomplete" => Len(b) < Len(s) /\ Partial(r, b, s)
             /\ Len(b) > 1 => r.rep = m.code
             /\ m.code = Granted
  <2>1. r = ParseReply(b, tor)
    BY <1>8 DEF ReplyParse
  <2>2. t \in Bytes
    BY <1>8 DEF Bytes
  <2>a. (tor /\ t = 0) \/ (~tor /\ t \in {3, 9})
    BY <1>8
  <2> HIDE DEF tor
  <2>3. /\ Len(s) = 10
        /\ t \in {3, 9} => (Len(b) < 10 /\ Partial(r, b, s)) \/ r.err = "protocol"
        /\ t = 0 /\ tor => /\ Len(b) < 10 => Partial(r, b, s)
                           /\ Len(b) >= 10 => r.err = "nil" /\ r.n = 10 /\ r.addr = ZeroAddr
        /\ Len(b) > 1 => r.rep = 0
    BY <1>3, <1>8, <2>1, <2>2, ReadsMalformed
  <2>5. A = ZeroAddr
    BY <1>8, ZeroAddrType DEF AsSent, ZeroAddr
  <2>6. m.code = Granted
    BY <1>8 DEF Granted, ReplySucceeded
  <2> HIDE DEF r, s, A
  <2>7. Partial(r, b, s) => r.err = "incomplete"
    BY DEF Partial
  <2> QED
    BY <1>3, <1>8, <2>3, <2>a, <2>5, <2>6, <2>7
<1> QED
  BY <1>2, <1>4, <1>6, <1>7, <1>8

\* Where the handshake is in the conversation.
LEMMA AtCur ==
    ASSUME TypeOK, Talk, Aligned, Live
    PROVE  /\ Cur \in 1 .. 4 /\ Cur - 1 <= Len(sent) /\ Base \in Nat
           /\ Cur <= Len(sent) => sent[Cur].at = Base
           /\ Cur > Len(sent) => Base = Len(stream)
           /\ \A i \in 1 .. Len(sent) : i < Cur => Good(sent[i]) /\ EndOf(i) <= Base
           /\ \A i \in 1 .. Len(sent) : i >= Cur => Base <= sent[i].at
           /\ \A i \in 1 .. Len(sent) : Cur = i + 1 => Base = EndOf(i)
<1>1. ReplyAt \in {1, 2, 3}
  BY DEF ReplyAt
<1>2. Cur \in 1 .. 4
  BY <1>1 DEF Cur
<1>3. PICK c \in 1 .. 4 : c = Cur
  BY <1>2
<1>4. PICK n \in Nat : n = Len(sent)
  BY TalkFacts
<1>5. c - 1 <= n /\ \A i \in 1 .. c - 1 : Good(sent[i])
  BY <1>3, <1>4 DEF Aligned
<1>6. \A i \in 1 .. n : /\ sent[i].at \in Nat /\ EndOf(i) \in Nat /\ sent[i].at <= EndOf(i)
  BY <1>4, TalkFacts
<1>7. /\ \A i \in 1 .. n : i < n => sent[i + 1].at = EndOf(i)
      /\ \A i \in 1 .. n : \A k \in 1 .. n : i < k => EndOf(i) <= sent[k].at
      /\ sent # <<>> => sent[1].at = 0
      /\ Len(stream) = IF sent = <<>> THEN 0 ELSE EndOf(n)
  BY <1>4, Zenon DEF Talk
<1>8. sent = <<>> <=> n = 0
  BY <1>4 DEF TypeOK, HandshakeTypeOK
<1>9. Base = IF c = 1 THEN 0 ELSE EndOf(c - 1)
  BY <1>3 DEF Base
<1>10. Base \in Nat
  BY <1>5, <1>6, <1>9
<1>11. c <= n => sent[c].at = Base
  <2>1. CASE c = 1
    BY <1>7, <1>8, <1>9, <2>1
  <2>2. CASE c # 1
    <3>1. c <= n => c - 1 \in 1 .. n /\ c - 1 < n /\ (c - 1) + 1 = c
      BY <2>2
    <3> QED
      BY <1>7, <1>9, <2>2, <3>1
  <2> QED
    BY <2>1, <2>2
<1>12. c > n => Base = Len(stream)
  <2>1. CASE c = 1
    BY <1>7, <1>8, <1>9, <2>1
  <2>2. CASE c # 1
    <3>1. c > n => c - 1 = n /\ n # 0
      BY <1>5, <2>2
    <3> QED
      BY <1>7, <1>8, <1>9, <2>2, <3>1
  <2> QED
    BY <2>1, <2>2
<1>13. \A i \in 1 .. n : i < c => Good(sent[i]) /\ EndOf(i) <= Base
  <2> TAKE i \in 1 .. n
  <2> SUFFICES ASSUME i < c PROVE Good(sent[i]) /\ EndOf(i) <= Base
    OBVIOUS
  <2>1. i \in 1 .. c - 1 /\ c # 1 /\ c - 1 \in 1 .. n
    BY <1>5
  <2>2. i = c - 1 \/ i < c - 1
    BY <2>1
  <2>3. i < c - 1 => EndOf(i) <= sent[c - 1].at
    BY <1>7, <2>1
  <2>4. EndOf(i) <= EndOf(c - 1)
    BY <1>6, <2>1, <2>2, <2>3
  <2> QED
    BY <1>5, <1>9, <2>1, <2>4
<1>14. \A i \in 1 .. n : i >= c => Base <= sent[i].at
  <2> TAKE i \in 1 .. n
  <2> SUFFICES ASSUME i >= c PROVE Base <= sent[i].at
    OBVIOUS
  <2>1. CASE c = 1
    BY <1>6, <1>9, <2>1
  <2>2. CASE c # 1
    <3>1. c - 1 \in 1 .. n /\ c - 1 < i
      BY <2>2
    <3> QED
      BY <1>7, <1>9, <2>2, <3>1
  <2> QED
    BY <2>1, <2>2
<1>15. \A i \in 1 .. n : c = i + 1 => Base = EndOf(i)
  <2> TAKE i \in 1 .. n
  <2>1. c = i + 1 => c # 1 /\ c - 1 = i
    OBVIOUS
  <2> QED
    BY <1>9, <2>1
<1> QED
  BY <1>2, <1>3, <1>4, <1>5, <1>10, <1>11, <1>12, <1>13, <1>14, <1>15

\* What was read but not used is the start of the message there.
LEMMA GotFacts ==
    ASSUME TypeOK, NeedOK, Talk, Aligned, Live, pc # "accepted"
    PROVE  /\ Got \in Seq(Bytes) /\ Len(Got) \in Nat /\ taken = Base + Len(Got)
           /\ Cur <= Len(sent) => Agree(Got, sent[Cur].bytes)
           /\ Cur > Len(sent) => Len(Got) = 0
           /\ Len(Pending) = Len(rbuf) - msgStart
           /\ Pending \in Seq(Bytes)
<1>1. /\ rbuf \in Seq(Bytes) /\ msgStart \in 0 .. Len(rbuf)
  BY DEF TypeOK, HandshakeTypeOK
<1>2. Pending \in Seq(Bytes) /\ Len(Pending) = Len(rbuf) - msgStart
  <2>1. msgStart \in Nat /\ msgStart <= Len(rbuf)
    BY <1>1
  <2> QED
    BY <1>1, <2>1, SliceRest DEF Pending
<1>3. part.b \in Seq(Bytes)
  BY AuthReadFacts
<1>4. Got \in Seq(Bytes)
  BY <1>2, <1>3 DEF Got
<1>5. Len(Got) \in Nat
  BY <1>4
<1>6. taken = Base + Len(Got) /\ \A j \in 1 .. Len(Got) : Got[j] = stream[Base + j]
  BY DEF Aligned
<1>7. Cur \in 1 .. 4 /\ Base \in Nat /\ Len(sent) \in Nat /\ Len(stream) \in Nat /\ taken <= Len(stream)
      /\ (Cur <= Len(sent) => sent[Cur].at = Base) /\ (Cur > Len(sent) => Base = Len(stream))
  BY AtCur, TalkFacts
<1>8. Cur <= Len(sent) => Agree(Got, sent[Cur].bytes)
  <2> SUFFICES ASSUME Cur <= Len(sent) PROVE Agree(Got, sent[Cur].bytes)
    OBVIOUS
  <2>1. PICK c \in 1 .. 4 : c = Cur
    BY <1>7
  <2>2. c \in 1 .. Len(sent) /\ sent[c].at = Base
    BY <1>7, <2>1
  <2>3. \A j \in 1 .. Len(sent[c].bytes) : stream[Base + j] = sent[c].bytes[j]
    BY <2>2 DEF Talk
  <2>4. Len(sent[c].bytes) \in Nat
    BY <2>2, TalkFacts
  <2>5. \A j \in 1 .. Len(Got) : j <= Len(sent[c].bytes) => Got[j] = sent[c].bytes[j]
    BY <1>5, <1>6, <2>3, <2>4
  <2> QED
    BY <2>1, <2>5 DEF Agree
<1>9. Cur > Len(sent) => Len(Got) = 0
  BY <1>5, <1>6, <1>7
<1> QED
  BY <1>2, <1>4, <1>5, <1>6, <1>8, <1>9

\* The kind of the message that is read.
LEMMA CurKind ==
    ASSUME TypeOK, Paths, Talk, Aligned, Live
    PROVE  /\ pc = "method" => Cur = 1 /\ ReplyAt \in {2, 3} /\ KindAt(Cur) = "method"
           /\ pc \in {"auth", "authWrite", "authRead"} => Cur = 2 /\ ReplyAt = 3 /\ KindAt(Cur) = "auth"
           /\ pc \in {"request", "reply"} => Cur = ReplyAt /\ KindAt(Cur) = "reply"
           /\ pc = "accept" => Cur = ReplyAt + 1 /\ KindAt(Cur) = "second" /\ cfg.cmd = CmdBind
<1>1. ReplyAt \in {1, 2, 3}
  BY DEF ReplyAt
<1>2. ASSUME pc = "method"
      PROVE  Cur = 1 /\ ReplyAt \in {2, 3} /\ KindAt(Cur) = "method"
  <2>1. Cur = 1 /\ Version # 4
    BY <1>2 DEF Cur, Paths
  <2>2. ReplyAt \in {2, 3}
    BY <2>1 DEF ReplyAt
  <2> QED
    BY <2>1, <2>2 DEF KindAt
<1>3. ASSUME pc \in {"auth", "authWrite", "authRead"}
      PROVE  Cur = 2 /\ ReplyAt = 3 /\ KindAt(Cur) = "auth"
  <2>1. Cur = 2 /\ Version # 4 /\ method # MethodNoAuth
    BY <1>3 DEF Cur, Paths
  <2>2. sent[1].code = method
    BY <2>1 DEF Aligned
  <2>3. ReplyAt = 3
    BY <2>1, <2>2 DEF ReplyAt
  <2> QED
    BY <2>1, <2>3 DEF KindAt
<1>4. ASSUME pc \in {"request", "reply"}
      PROVE  Cur = ReplyAt /\ KindAt(Cur) = "reply"
  <2>1. Cur = ReplyAt
    BY <1>4 DEF Cur
  <2> QED
    BY <1>1, <2>1 DEF KindAt
<1>5. ASSUME pc = "accept"
      PROVE  Cur = ReplyAt + 1 /\ KindAt(Cur) = "second" /\ cfg.cmd = CmdBind
  <2>1. Cur = ReplyAt + 1 /\ cfg.cmd = CmdBind
    BY <1>5 DEF Cur, Paths
  <2> QED
    BY <1>1, <2>1 DEF KindAt
<1> QED
  BY <1>2, <1>3, <1>4, <1>5

\* A parser that has nothing waits for more.
LEMMA EmptyParse ==
    ASSUME TypeOK, Paths, Reading, NEW b \in Seq(Bytes), Len(b) = 0
    PROVE  Parse(b).err = "incomplete"
<1>1. b = <<>>
  OBVIOUS
<1>2. CASE pc = "method"
  BY <1>1, <1>2 DEF Parse, ParseMethodSelection, checkVersion, Incomplete
<1>3. CASE pc = "auth"
  <2>1. ParseUserPassStatus(b).err = "incomplete"
    BY <1>1 DEF ParseUserPassStatus, checkVersion, Incomplete
  <2>2. ParseCustom(b).err = "incomplete"
    BY <1>1 DEF ParseCustom, Incomplete
  <2>3. ParseAuthReply(b).err = "incomplete"
    BY <2>1, <2>2 DEF ParseAuthReply
  <2> QED
    BY <1>3, <2>3 DEF Parse
<1>4. CASE pc \in {"reply", "accept"}
  <2>1. Address("incomplete", 8, ZeroAddr).err = "incomplete" /\ Address("incomplete", 5, ZeroAddr).err = "incomplete"
    BY AddressFacts
  <2>2. ParseReply4(b).err = "incomplete"
    BY <1>1, <2>1 DEF ParseReply4, checkVersion, WithRep
  <2>3. parseAddrMessage(b, cfg.cmd = CmdTorResolve).err = "incomplete"
    BY <1>1, <2>1 DEF parseAddrMessage
  <2>4. ParseReply(b, cfg.cmd = CmdTorResolve).err = "incomplete"
    BY <1>1, <2>3 DEF ParseReply, checkVersion, WithRep
  <2> QED
    BY <1>4, <2>2, <2>4 DEF Parse
<1> QED
  BY <1>2, <1>3, <1>4 DEF Reading

\* What readNext has of the message, and what it makes of it.
LEMMA ReaderAt ==
    ASSUME TypeOK, NeedOK, Paths, Talk, Aligned, Reading
    PROVE  /\ Cur > Len(sent) => Len(Pending) = 0 /\ Parse(Pending).err = "incomplete"
           /\ Parse(Pending).err \in {"nil", "incomplete", "protocol", "auth"}
           /\ Parse(Pending).err = "nil" =>
                /\ Cur \in 1 .. Len(sent) /\ Len(Pending) >= Len(sent[Cur].bytes)
                /\ Parse(Pending).n = Len(sent[Cur].bytes)
                /\ pc = "method" => ~sent[Cur].bad /\ Parse(Pending).method = sent[Cur].code
                /\ pc = "auth" => ~sent[Cur].bad /\ sent[Cur].code = 0
                /\ pc \in {"reply", "accept"} =>
                     /\ Parse(Pending).addr = AsSent(sent[Cur].addr)
                     /\ sent[Cur].bad => cfg.cmd = CmdTorResolve /\ Parse(Pending).addr = ZeroAddr
           /\ Parse(Pending).err = "incomplete" /\ Cur <= Len(sent) =>
                /\ Len(Pending) < Len(sent[Cur].bytes)
                /\ Parse(Pending).n \in Len(Pending) + 1 .. Len(sent[Cur].bytes)
           /\ Parse(Pending).err = "protocol" => Cur \in 1 .. Len(sent) /\ sent[Cur].bad
           /\ Parse(Pending).err = "auth" =>
                /\ pc = "auth" /\ Cur \in 1 .. Len(sent) /\ ~sent[Cur].bad /\ sent[Cur].code # 0
           /\ pc \in {"reply", "accept"} /\ Cur <= Len(sent) =>
                /\ Len(Pending) > 1 => Parse(Pending).rep = sent[Cur].code
                /\ Len(Pending) > 1 /\ ~sent[Cur].bad =>
                     Pending[1] = IF Version = 4 THEN 0 ELSE Version5
                /\ sent[Cur].bad => sent[Cur].code = Granted
<1>1. Live /\ pc # "accepted" /\ pc \in {"method", "auth", "reply", "accept"} /\ Got = Pending
  BY DEF Reading, Live, Got
<1>2. /\ Cur \in 1 .. 4 /\ Len(sent) \in Nat
      /\ Pending \in Seq(Bytes) /\ Len(Pending) \in Nat
      /\ Cur <= Len(sent) => Agree(Pending, sent[Cur].bytes)
      /\ Cur > Len(sent) => Len(Pending) = 0
  BY <1>1, AtCur, GotFacts, TalkFacts
<1>3. CASE Cur > Len(sent)
  <2>1. Len(Pending) = 0 /\ Parse(Pending).err = "incomplete"
    BY <1>2, <1>3, EmptyParse, Zenon
  <2>2. ~(Cur <= Len(sent))
    BY <1>2, <1>3
  <2> QED
    BY <2>1, <2>2
<1>4. CASE Cur <= Len(sent)
  <2>1. PICK c \in 1 .. Len(sent) : c = Cur
    BY <1>2, <1>4
  <2>2. PICK m \in MessageType : m = sent[c]
    BY TalkFacts
  <2>3. Shape(m) /\ m.kind = KindAt(c) /\ Agree(Pending, m.bytes) /\ Len(m.bytes) \in Nat
    BY <1>2, <1>4, <2>1, <2>2, TalkFacts
  <2>4. ~(Cur > Len(sent))
    BY <1>2, <1>4
  <2>5. CASE pc = "method"
    <3>1. m.kind = "method"
      BY <1>1, <2>1, <2>3, <2>5, CurKind
    <3> DEFINE r == ParseMethodSelection(Pending)
    <3>2. Parse(Pending) = r
      BY <2>5 DEF Parse
    <3>3. /\ r.err \in {"nil", "incomplete", "protocol"}
          /\ r.err = "nil" => /\ ~m.bad /\ Len(Pending) >= Len(m.bytes)
                              /\ r.n = Len(m.bytes) /\ r.method = m.code
          /\ r.err = "incomplete" => Len(Pending) < Len(m.bytes) /\ Partial(r, Pending, m.bytes)
          /\ r.err = "protocol" => m.bad
      BY <1>2, <2>3, <3>1, MethodRead
    <3> HIDE DEF r
    <3> QED
      BY <2>1, <2>2, <2>4, <2>5, <3>2, <3>3 DEF Partial
  <2>6. CASE pc = "auth"
    <3>1. m.kind = "auth"
      BY <1>1, <2>1, <2>3, <2>6, CurKind
    <3> DEFINE r == ParseAuthReply(Pending)
    <3>2. Parse(Pending) = r
      BY <2>6 DEF Parse
    <3>3. /\ r.err \in {"nil", "incomplete", "protocol", "auth"}
          /\ r.err = "nil" => /\ ~m.bad /\ m.code = 0 /\ Len(Pending) >= Len(m.bytes)
                              /\ r.n = Len(m.bytes)
          /\ r.err = "incomplete" => Len(Pending) < Len(m.bytes) /\ Partial(r, Pending, m.bytes)
          /\ r.err = "protocol" => m.bad
          /\ r.err = "auth" => ~m.bad /\ m.code # 0
      BY <1>2, <2>3, <3>1, AuthMessageRead
    <3> HIDE DEF r
    <3> QED
      BY <2>1, <2>2, <2>4, <2>6, <3>2, <3>3 DEF Partial
  <2>7. CASE pc \in {"reply", "accept"}
    <3>1. m.kind \in {"reply", "second"}
      BY <1>1, <2>1, <2>3, <2>7, CurKind
    <3> DEFINE r == ReplyParse(Pending)
    <3>2. Parse(Pending) = r
      BY <2>7 DEF Parse, ReplyParse
    <3>3. /\ r.err \in {"nil", "incomplete", "protocol"}
          /\ r.err = "nil" => /\ Len(Pending) >= Len(m.bytes)
                              /\ r.n = Len(m.bytes) /\ r.addr = AsSent(m.addr)
                              /\ m.bad => cfg.cmd = CmdTorResolve /\ r.addr = ZeroAddr
          /\ r.err = "incomplete" => Len(Pending) < Len(m.bytes) /\ Partial(r, Pending, m.bytes)
          /\ r.err = "protocol" => m.bad
          /\ Len(Pending) > 1 => r.rep = m.code
          /\ Len(Pending) > 1 /\ ~m.bad => Pending[1] = IF Version = 4 THEN 0 ELSE Version5
          /\ m.bad => m.code = Granted
      BY <1>2, <2>3, <3>1, ReplyRead
    <3> HIDE DEF r
    <3> QED
      BY <2>1, <2>2, <2>4, <2>7, <3>2, <3>3 DEF Partial
  <2> QED
    BY <1>1, <2>5, <2>6, <2>7
<1> QED
  BY <1>2, <1>3, <1>4

\* A pipelined handshake offers one method, and authenticates unless it is NoAuth.
LEMMA OfferFacts ==
    ASSUME TypeOK, initOK, Version # 4
    PROVE  /\ cfg.auth = "none" <=> Offered = MethodNoAuth
           /\ ~Sequential5 => /\ ~cfg.offerNoAuth /\ (HasPipe <=> Offered # MethodNoAuth)
                              /\ \A m : MethodOK(m) => m = Offered
           /\ \A m : MethodOK(m) /\ ~(cfg.auth # "none" /\ m = Offered) => m = MethodNoAuth
<1>1. cfg \in Configs
  BY DEF TypeOK, HandshakeTypeOK
<1>2. cfg \in ConfigType
  BY <1>1, HandshakeAssumption
<1>3. cfg.auth \in {"none", "userid", "userpass", "custom", "interactive", "bad"}
      /\ cfg.offerNoAuth \in BOOLEAN
  BY <1>2 DEF ConfigType
<1>4. cfg.auth = "none" <=> Offered = MethodNoAuth
  BY <1>3 DEF Offered, UserPass, MethodNoAuth, MethodUserPass, MethodCustom
<1>5. init5OK
  BY DEF initOK, Version
<1>6. Version = 5
  BY DEF Version
<1>7. ~Sequential5 => ~cfg.offerNoAuth /\ (HasPipe <=> Offered # MethodNoAuth)
  BY <1>3, <1>4, <1>5, <1>6 DEF Sequential5, init5OK, HasPipe, UserPass
<1> QED
  BY <1>4, <1>7 DEF MethodOK

\* What Authenticate waits for first.
LEMMA AuthMinFacts ==
    /\ UserPass => authMin = 2
    /\ HasPipe /\ ~UserPass => authMin = 1
    /\ ~HasPipe => authMin = 0
<1>1. Len(<<>>) = 0
  OBVIOUS
<1>2. UserPass => ParseAuthReply(<<>>).n = 2
  <2>1. ParseUserPassStatus(<<>>) = Incomplete(2)
    BY <1>1 DEF ParseUserPassStatus, checkVersion
  <2>2. Incomplete(2).err = "incomplete" /\ Incomplete(2).n = 2
    BY DEF Incomplete
  <2> QED
    BY <2>1, <2>2 DEF ParseAuthReply
<1>3. ~UserPass => ParseAuthReply(<<>>).n = 1
  <2>1. ParseCustom(<<>>) = Incomplete(1)
    BY DEF ParseCustom
  <2>2. Incomplete(1).err = "incomplete" /\ Incomplete(1).n = 1
    BY DEF Incomplete
  <2> QED
    BY <2>1, <2>2 DEF ParseAuthReply
<1> QED
  BY <1>2, <1>3 DEF authMin, HasPipe

\* How much of the conversation is sure to follow the message that is read.
LEMMA Follows ==
    ASSUME TypeOK, Paths, Talk, Aligned, Reading, Stop <= Len(sent)
    PROVE  /\ Cur \in 1 .. Len(sent) /\ Stop \in 1 .. Len(sent)
           /\ EndOf(Cur) + ahead <= EndOf(Stop)
<1>1. Live /\ pc \in {"method", "auth", "reply", "accept"}
  BY DEF Reading, Live
<1>2. /\ Cur \in 1 .. 4 /\ Len(sent) \in Nat /\ ReplyAt \in {1, 2, 3}
      /\ \A i \in 1 .. Len(sent) : /\ sent[i] \in MessageType /\ Shape(sent[i]) /\ sent[i].kind = KindAt(i)
                                   /\ EndOf(i) \in Nat /\ sent[i].at \in Nat /\ Len(sent[i].bytes) \in Nat
                                   /\ EndOf(i) = sent[i].at + Len(sent[i].bytes)
  BY <1>1, AtCur, TalkFacts
<1>3. \A i \in 1 .. Len(sent) :
        /\ KindAt(i) = "auth" => Len(sent[i].bytes) >= 2
        /\ KindAt(i) = "reply" => Len(sent[i].bytes) >= 8
  BY <1>2, MessageLengths
<1>4. \A i \in 1 .. Len(sent) : \A k \in 1 .. Len(sent) : i < k => EndOf(i) <= sent[k].at
  BY DEF Talk
<1>5. CASE Stop = Cur /\ ahead = 0
  BY <1>2, <1>5
<1>6. CASE pc = "method" /\ ~Sequential5
  <2>1. Cur = 1 /\ ReplyAt \in {2, 3} /\ Stop = ReplyAt
    BY <1>1, <1>6, CurKind DEF Stop
  <2>2. ahead = 5 + authMin
    BY <1>6 DEF ahead
  <2>3. Version # 4 /\ initOK
    BY <1>6 DEF Paths
  <2>4. 1 \in 1 .. Len(sent) /\ ReplyAt \in 1 .. Len(sent) /\ KindAt(ReplyAt) = "reply" /\ sent # <<>>
    BY <1>2, <2>1 DEF KindAt
  <2>5. CASE ReplyAt = 2
    <3>1. Good(sent[1]) /\ sent[1].kind = "method"
      BY <1>2, <2>1, <2>4, <2>5 DEF Talk, KindAt
    <3>2. MethodOK(sent[1].code)
      BY <3>1 DEF Good
    <3>3. sent[1].code = MethodNoAuth
      BY <2>3, <2>4, <2>5 DEF ReplyAt
    <3>4. ~HasPipe
      BY <1>6, <2>3, <3>2, <3>3, OfferFacts
    <3>5. authMin = 0
      BY <3>4, AuthMinFacts
    <3>6. EndOf(1) <= sent[2].at /\ Len(sent[2].bytes) >= 8 /\ EndOf(2) = sent[2].at + Len(sent[2].bytes)
      BY <1>2, <1>3, <1>4, <2>4, <2>5
    <3> QED
      BY <1>2, <2>1, <2>2, <2>4, <2>5, <3>5, <3>6
  <2>6. CASE ReplyAt = 3
    <3>1. KindAt(2) = "auth" /\ 2 \in 1 .. Len(sent) /\ 3 \in 1 .. Len(sent)
      BY <1>2, <2>4, <2>6 DEF KindAt
    <3>2. authMin \in {0, 1, 2}
      BY AuthMinFacts DEF HasPipe
    <3>3. /\ EndOf(1) <= sent[2].at /\ Len(sent[2].bytes) >= 2 /\ EndOf(2) = sent[2].at + Len(sent[2].bytes)
          /\ EndOf(2) <= sent[3].at /\ Len(sent[3].bytes) >= 8 /\ EndOf(3) = sent[3].at + Len(sent[3].bytes)
      BY <1>2, <1>3, <1>4, <2>4, <2>6, <3>1
    <3> DEFINE e1 == EndOf(1)
               e2 == EndOf(2)
               e3 == EndOf(3)
               a2 == sent[2].at
               a3 == sent[3].at
               l2 == Len(sent[2].bytes)
               l3 == Len(sent[3].bytes)
               am == authMin
    <3>4. e1 \in Nat /\ e2 \in Nat /\ e3 \in Nat /\ a2 \in Nat /\ a3 \in Nat /\ l2 \in Nat /\ l3 \in Nat
      BY <1>2, <2>4, <3>1
    <3>5. am \in {0, 1, 2} /\ e1 <= a2 /\ l2 >= 2 /\ e2 = a2 + l2 /\ e2 <= a3 /\ l3 >= 8 /\ e3 = a3 + l3
      BY <3>2, <3>3
    <3>6. Cur = 1 /\ Stop = 3 /\ ahead = 5 + am
      BY <2>1, <2>2, <2>6
    <3> SUFFICES e1 + (5 + am) <= e3
      BY <2>4, <3>1, <3>6
    <3> HIDE DEF e1, e2, e3, a2, a3, l2, l3, am
    <3> QED
      BY <3>4, <3>5
  <2> QED
    BY <2>1, <2>5, <2>6
<1>7. CASE pc = "auth"
  <2>1. Cur = 2 /\ ReplyAt = 3 /\ ~Sequential5
    BY <1>1, <1>7, CurKind DEF Paths
  <2>2. Stop = 3 /\ ahead = 5
    BY <1>7, <2>1 DEF Stop, ahead
  <2>3. 2 \in 1 .. Len(sent) /\ 3 \in 1 .. Len(sent) /\ KindAt(3) = "reply"
    BY <1>2, <2>1, <2>2 DEF KindAt
  <2>4. EndOf(2) <= sent[3].at /\ Len(sent[3].bytes) >= 8 /\ EndOf(3) = sent[3].at + Len(sent[3].bytes)
    BY <1>2, <1>3, <1>4, <2>3
  <2> QED
    BY <1>2, <2>1, <2>2, <2>3, <2>4
<1>8. CASE pc \in {"reply", "accept"} \/ (pc = "method" /\ Sequential5)
  <2>1. ahead = 0
    BY <1>8 DEF ahead
  <2>2. Stop = Cur
    BY <1>8 DEF Stop, Cur
  <2> QED
    BY <1>5, <2>1, <2>2
<1> QED
  BY <1>1, <1>6, <1>7, <1>8

\* readNext never asks for a byte that follows the replies.
LEMMA NoOverread ==
    ASSUME TypeOK, NeedOK, Paths, Talk, Aligned, Reading, Lacking, Stop <= Len(sent),
           NEW k \in Nat, k <= need - Len(rbuf)
    PROVE  taken + k <= EndOf(Stop)
<1>1. Live /\ pc # "accepted" /\ Got = Pending
  BY DEF Reading, Live, Got
<1>2. /\ Cur \in 1 .. Len(sent) /\ Stop \in 1 .. Len(sent)
      /\ EndOf(Cur) + ahead <= EndOf(Stop)
  BY Follows
<1>3. /\ taken = Base + Len(Pending) /\ Base \in Nat /\ Len(Pending) \in Nat
      /\ Len(Pending) = Len(rbuf) - msgStart
      /\ sent[Cur].at = Base /\ EndOf(Cur) = sent[Cur].at + Len(sent[Cur].bytes)
      /\ EndOf(Cur) \in Nat /\ EndOf(Stop) \in Nat /\ Len(sent[Cur].bytes) \in Nat
  BY <1>1, <1>2, AtCur, GotFacts, TalkFacts
<1>4. Parse(Pending).n \in Len(Pending) + 1 .. Len(sent[Cur].bytes)
  BY <1>2, ReaderAt DEF Lacking
<1>5. ahead \in Nat /\ Len(rbuf) \in Nat /\ msgStart \in Nat
  <2>1. rbuf \in Seq(Bytes) /\ msgStart \in 0 .. Len(rbuf)
    BY DEF TypeOK, HandshakeTypeOK
  <2> QED
    BY <2>1, NeedFacts
<1> DEFINE p == Parse(Pending).n
           g == Len(Pending)
           l == Len(sent[Cur].bytes)
           R == Len(rbuf)
           eC == EndOf(Cur)
           eS == EndOf(Stop)
<1>6. need = msgStart + Max2(p, g + 1) + ahead
  BY DEF need
<1>7. /\ g \in Nat /\ l \in Nat /\ p \in g + 1 .. l /\ R \in Nat /\ g = R - msgStart /\ taken = Base + g
      /\ eC = Base + l /\ eC + ahead <= eS /\ eS \in Nat /\ k <= need - R
  BY <1>2, <1>3, <1>4, <1>5, Zenon
<1> HIDE DEF p, g, l, R, eC, eS
<1>8. Max2(p, g + 1) = p
  BY <1>7 DEF Max2
<1>9. need = msgStart + p + ahead
  BY <1>6, <1>8
<1>10. taken + k <= eS
  BY <1>3, <1>5, <1>7, <1>9
<1> QED
  BY <1>10 DEF eS

\* Nor does Authenticate.
LEMMA NoOverreadAuth ==
    ASSUME TypeOK, NeedOK, Paths, Talk, Aligned, pc = "authRead", Len(part.b) < part.need,
           Cur <= Len(sent), NEW k \in Nat, k <= part.need - Len(part.b)
    PROVE  taken + k <= EndOf(Cur)
<1>1. Live /\ pc # "accepted" /\ Got = part.b
  BY DEF Live, Got
<1>2. Cur = 2 /\ KindAt(2) = "auth" /\ 2 \in 1 .. Len(sent)
  <2>1. Cur = 2 /\ KindAt(Cur) = "auth" /\ Len(sent) \in Nat
    BY <1>1, CurKind, TalkFacts
  <2> QED
    BY <2>1
<1>3. PICK m \in MessageType : m = sent[2]
  BY <1>2, TalkFacts
<1>4. /\ taken = Base + Len(part.b) /\ Base \in Nat /\ Len(part.b) \in Nat /\ m.at = Base
      /\ Agree(part.b, m.bytes) /\ EndOf(2) = m.at + Len(m.bytes) /\ Shape(m) /\ m.kind = "auth"
      /\ part.b \in Seq(Bytes) /\ part.need \in Nat
  BY <1>1, <1>2, <1>3, AtCur, GotFacts, TalkFacts, AuthReadFacts, Zenon
<1>5. Len(m.bytes) \in Nat /\ Len(m.bytes) >= 2 /\ (UserPass => Len(m.bytes) = 2)
  BY <1>4, MessageLengths, Zenon
<1>6. part.need <= Len(m.bytes)
  <2>1. \/ UserPass /\ part.need = 2
        \/ ~UserPass /\ part.need = 1
        \/ ~UserPass /\ part.b # <<>> /\ part.need = 1 + part.b[1]
    <3>1. part.need # 0
      BY <1>4
    <3> QED
      BY <3>1 DEF NeedOK
  <2>2. CASE ~UserPass /\ part.b # <<>> /\ part.need = 1 + part.b[1]
    <3>1. 1 \in 1 .. Len(part.b)
      BY <1>4, <2>2
    <3>2. part.b[1] = m.bytes[1]
      BY <1>4, <1>5, <3>1 DEF Agree
    <3>3. Len(m.bytes) = 1 + m.bytes[1]
      BY <1>4, <2>2 DEF Shape, MethodShape, AuthShape, ReplyShape
    <3>4. part.need = Len(m.bytes)
      BY <2>2, <3>2, <3>3
    <3> QED
      BY <1>5, <3>4
  <2> QED
    BY <1>5, <2>1, <2>2
<1>7. taken + k <= EndOf(2)
  BY <1>4, <1>5, <1>6
<1> QED
  BY <1>2, <1>7

\* What readNext and nextReply say of the message.
LEMMA ReadErrAt ==
    ASSUME TypeOK, NeedOK, Paths, Talk, Aligned, Reading, ~Lacking
    PROVE  /\ readNextErr = "nil" => Parse(Pending).err = "nil"
           /\ readNextErr = "protocol" => Cur \in 1 .. Len(sent) /\ sent[Cur].bad
           /\ readNextErr = "auth" =>
                pc = "auth" /\ Cur \in 1 .. Len(sent) /\ ~sent[Cur].bad /\ sent[Cur].code # 0
           /\ readNextErr \notin {"nil", "protocol", "auth"} => Parse(Pending).err = "incomplete"
           /\ readNextErr = "eof" => proxy = "EOF"
<1>1. Parse(Pending).err \in {"nil", "incomplete", "protocol", "auth"}
  BY ReaderAt
<1>2. readErr \in {"nil", "EOF", "reset", "timeout", "closed"} /\ (readErr = "EOF" => proxy = "EOF")
  BY DEF TypeOK, HandshakeTypeOK, Paths
<1> DEFINE e == Parse(Pending).err
<1>3. readNextErr = IF e # "incomplete" THEN e
                    ELSE IF readErr # "nil" THEN Truncated(readErr) ELSE "longAuth"
  BY DEF readNextErr
<1> HIDE DEF e
<1>4. /\ readNextErr = "nil" => e = "nil"
      /\ readNextErr = "protocol" => e = "protocol"
      /\ readNextErr = "auth" => e = "auth"
      /\ readNextErr \notin {"nil", "protocol", "auth"} => e = "incomplete"
      /\ readNextErr = "eof" => readErr = "EOF"
  BY <1>1, <1>2, <1>3 DEF Truncated, e
<1> QED
  BY <1>2, <1>4, ReaderAt DEF e

\* nextReply returns a refusal only of a reply that is one, and then always.
LEMMA ReplyErrAt ==
    ASSUME TypeOK, NeedOK, Paths, Talk, Aligned, pc \in {"reply", "accept"}, ~Lacking
    PROVE  /\ nextReplyErr = "nil" => Parse(Pending).err = "nil" /\ sent[Cur].code = Granted
           /\ nextReplyErr = "reply" => Cur \in 1 .. Len(sent) /\ Refused(Cur)
           /\ nextReplyErr # "reply" => nextReplyErr = readNextErr
           /\ Cur <= Len(sent) /\ Refused(Cur) /\ Len(Pending) > 1 => nextReplyErr = "reply"
<1>1. Reading
  BY DEF Reading
<1> DEFINE p == Parse(Pending)
           got == Len(Pending) > 1 /\ Pending[1] = (IF Version = 4 THEN 0 ELSE Version5)
<1>2. nextReplyErr = IF got /\ p.rep # Granted THEN "reply" ELSE readNextErr
  BY DEF nextReplyErr, Granted
<1>3. readNextErr \in {"nil", "eof", "reset", "timeout", "closed", "protocol", "auth", "longAuth"}
      /\ (readNextErr = "nil" => p.err = "nil")
  BY <1>1, ReaderErrs
<1>4. Len(Pending) \in Nat /\ Cur \in Nat /\ Len(sent) \in Nat /\ Cur >= 1
  <2>1. Live /\ pc # "accepted"
    BY DEF Live
  <2>2. Cur \in 1 .. 4 /\ Len(sent) \in Nat /\ Pending \in Seq(Bytes)
    BY <2>1, AtCur, TalkFacts, GotFacts
  <2> QED
    BY <2>2
<1>5. /\ Cur > Len(sent) => Len(Pending) = 0 /\ p.err = "incomplete"
      /\ p.err = "nil" => Cur \in 1 .. Len(sent) /\ Len(Pending) >= Len(sent[Cur].bytes)
      /\ Cur <= Len(sent) =>
           /\ Len(Pending) > 1 => p.rep = sent[Cur].code
           /\ Len(Pending) > 1 /\ ~sent[Cur].bad =>
                Pending[1] = IF Version = 4 THEN 0 ELSE Version5
           /\ sent[Cur].bad => sent[Cur].code = Granted
  BY <1>1, ReaderAt
<1>6. Cur \in 1 .. Len(sent) => Len(sent[Cur].bytes) >= 8 /\ Len(sent[Cur].bytes) \in Nat
  <2> SUFFICES ASSUME Cur \in 1 .. Len(sent) PROVE Len(sent[Cur].bytes) >= 8 /\ Len(sent[Cur].bytes) \in Nat
    OBVIOUS
  <2>1. sent[Cur].kind = KindAt(Cur) /\ sent[Cur] \in MessageType /\ Shape(sent[Cur])
    BY TalkFacts
  <2>2. KindAt(Cur) \in {"reply", "second"}
    BY CurKind DEF Live
  <2> QED
    BY <2>1, <2>2, MessageLengths
<1> HIDE DEF p
<1>7. nextReplyErr = "nil" => p.err = "nil" /\ sent[Cur].code = Granted
  <2> SUFFICES ASSUME nextReplyErr = "nil" PROVE p.err = "nil" /\ sent[Cur].code = Granted
    OBVIOUS
  <2>1. readNextErr = "nil" /\ ~(got /\ p.rep # Granted)
    BY <1>2
  <2>2. p.err = "nil"
    BY <1>3, <2>1
  <2>3. Cur \in 1 .. Len(sent) /\ Cur <= Len(sent) /\ Len(Pending) > 1
    BY <1>4, <1>5, <1>6, <2>2
  <2>4. CASE sent[Cur].bad
    BY <1>5, <2>2, <2>3, <2>4
  <2>5. CASE ~sent[Cur].bad
    <3>1. got /\ p.rep = sent[Cur].code
      BY <1>5, <2>3, <2>5
    <3> QED
      BY <2>1, <2>2, <3>1
  <2> QED
    BY <2>4, <2>5
<1>8. nextReplyErr = "reply" => Cur \in 1 .. Len(sent) /\ Refused(Cur)
  <2> SUFFICES ASSUME nextReplyErr = "reply" PROVE Cur \in 1 .. Len(sent) /\ Refused(Cur)
    OBVIOUS
  <2>1. got /\ p.rep # Granted
    BY <1>2, <1>3
  <2>2. Len(Pending) > 1
    BY <2>1
  <2>3. Cur <= Len(sent) /\ Cur \in 1 .. Len(sent)
    BY <1>4, <1>5, <2>2
  <2>4. sent[Cur].code # Granted
    BY <1>5, <2>1, <2>2, <2>3
  <2>5. ~sent[Cur].bad
    BY <1>5, <2>3, <2>4
  <2> QED
    BY <2>3, <2>4, <2>5 DEF Refused
<1>9. Cur <= Len(sent) /\ Refused(Cur) /\ Len(Pending) > 1 => nextReplyErr = "reply"
  BY <1>2, <1>5 DEF Refused
<1>10. nextReplyErr # "reply" => nextReplyErr = readNextErr
  BY <1>2
<1> QED
  BY <1>7, <1>8, <1>9, <1>10 DEF p

-----------------------------------------------------------------------------
(* Every step keeps HSInv.                                                 *)

\* Where the call is does not depend on anything else.
LEMMA SameView ==
    ASSUME UNCHANGED <<cfg, pc, hvars, he, proxyvars>>
    PROVE  /\ Live' <=> Live
           /\ Cur' = Cur /\ Base' = Base /\ Got' = Got /\ Stop' = Stop
           /\ Pending' = Pending /\ (Reading' <=> Reading)
<1> USE DEF hvars, proxyvars
<1>1. /\ ReplyAt' = ReplyAt /\ (\A i : EndOf(i)' = EndOf(i)) /\ (Sequential5' <=> Sequential5)
  BY SameSent, SameCfg
<1>2. Live' <=> Live
  BY DEF Live, NoErr
<1>3. Cur' = Cur
  BY <1>1 DEF Cur
<1>4. Base' = Base
  <2> DEFINE e(i) == EndOf(i)
  <2>1. EndOf(Cur - 1)' = EndOf(Cur - 1)
    BY <1>3 DEF EndOf
  <2> QED
    BY <1>3, <2>1 DEF Base
<1>5. Pending' = Pending /\ (Reading' <=> Reading)
  BY DEF Pending, Reading
<1>6. Got' = Got
  BY <1>5 DEF Got
<1>7. Stop' = Stop
  BY <1>1, <1>3 DEF Stop
<1> QED
  BY <1>2, <1>3, <1>4, <1>5, <1>6, <1>7

\* What ctx, the deadlines, Close and SetDeadline do leaves the conversation alone.
LEMMA Frame ==
    ASSUME HSInv, UNCHANGED <<cfg, pc, hvars, he, proxyvars>>
    PROVE  Talk' /\ Aligned' /\ Bounded' /\ Blame'
<1> USE DEF hvars, proxyvars
<1>1. /\ Live' <=> Live
      /\ Cur' = Cur /\ Base' = Base /\ Got' = Got /\ Stop' = Stop
      /\ Pending' = Pending /\ (Reading' <=> Reading)
  BY SameView
<1>2. /\ ReplyAt' = ReplyAt /\ (\A i : EndOf(i)' = EndOf(i)) /\ (Version' = Version)
      /\ (\A m : Good(m)' <=> Good(m)) /\ (\A a : checkBound(a)' <=> checkBound(a))
      /\ (\A i : Refused(i)' <=> Refused(i)) /\ (\A k : Of(k)' = Of(k))
  BY SameSent, SameCfg
<1>3. Talk'
  BY SameTalk DEF HSInv
<1>4. Aligned'
  BY <1>1, <1>2 DEF HSInv, Aligned
<1>5. Bounded'
  BY <1>1, <1>2 DEF HSInv, Bounded
<1>6. Blame'
  BY <1>1, <1>2 DEF HSInv, Blame
<1> QED
  BY <1>3, <1>4, <1>5, <1>6

\* A step that leaves the conversation alone leaves the results alone.
LEMMA FrameRest ==
    ASSUME HSInv, UNCHANGED <<cfg, pc, hvars, he, proxyvars, apc, aerr, peer>>,
           state' = state \/ state' # "listening"
    PROVE  Paths' /\ Returned'
<1> USE DEF hvars, proxyvars
<1>1. /\ Live' <=> Live
  BY SameView
<1>2. /\ ReplyAt' = ReplyAt /\ (\A i : EndOf(i)' = EndOf(i)) /\ (Version' = Version)
      /\ (\A m : Good(m)' <=> Good(m)) /\ (initOK' <=> initOK) /\ (Sequential5' <=> Sequential5)
      /\ (\A i : Refused(i)' <=> Refused(i)) /\ (HasPipe' <=> HasPipe)
  BY SameSent, SameCfg
<1>3. Paths'
  BY <1>1, <1>2 DEF HSInv, Paths
<1>4. Returned'
  BY <1>1, <1>2 DEF HSInv, Returned
<1> QED
  BY <1>3, <1>4

\* The Listener's own steps come after the handshake, or leave it alone.
LEMMA ClearKeeps ==
    ASSUME HSInv, Clear, UNCHANGED lvars
    PROVE  Paths' /\ Talk' /\ Aligned' /\ Bounded' /\ Returned' /\ Blame'
<1> USE DEF hvars, proxyvars
<1>1. pc = "clear" /\ pc' = "ok" /\ UNCHANGED <<cfg, hvars, he, proxyvars, state, apc, aerr, peer>>
  BY DEF Clear, lvars
<1>2. Live /\ Live' /\ ~Reading /\ ~Reading'
  BY <1>1 DEF Live, Reading
<1>3. /\ ReplyAt' = ReplyAt /\ (\A i : EndOf(i)' = EndOf(i)) /\ (Version' = Version)
      /\ (\A m : Good(m)' <=> Good(m)) /\ (initOK' <=> initOK) /\ (Sequential5' <=> Sequential5)
      /\ (\A i : Refused(i)' <=> Refused(i)) /\ (HasPipe' <=> HasPipe)
  BY <1>1, SameSent, SameCfg
<1>4. Cur' = Cur /\ Cur = ReplyAt + 1
  BY <1>1, <1>3 DEF Cur
<1>5. EndOf(Cur - 1)' = EndOf(Cur - 1) /\ Base' = Base
  BY <1>1, <1>4 DEF EndOf, Base
<1>6. Got' = Got /\ Stop' = Stop
  BY <1>1, <1>3, <1>4 DEF Got, Pending, Stop
<1>7. Talk'
  BY <1>1, SameTalk DEF HSInv
<1>8. Paths'
  BY <1>1, <1>2, <1>3 DEF HSInv, Paths
<1>9. Aligned'
  BY <1>1, <1>2, <1>3, <1>4, <1>5, <1>6 DEF HSInv, Aligned
<1>10. Bounded'
  BY <1>1, <1>2, <1>3, <1>6 DEF HSInv, Bounded
<1>11. Returned'
  BY <1>1, <1>2, <1>3 DEF HSInv, Returned
<1>12. Blame'
  BY <1>2 DEF Blame
<1> QED
  BY <1>7, <1>8, <1>9, <1>10, <1>11, <1>12

\* The ends of Accept keep the invariant.
LEMMA AcceptEndsKeep ==
    ASSUME HSInv, OwnerInv, NEW a \in Accepters, Accepted(a) \/ AcceptFails(a) \/ AcceptReturns(a)
    PROVE  Paths' /\ Talk' /\ Aligned' /\ Bounded' /\ Returned' /\ Blame'
<1> USE DEF hvars, proxyvars
<1>1. UNCHANGED <<cfg, pc, hvars, he, proxyvars, peer>>
  BY DEF Accepted, AcceptFails, AcceptReturns, hsvars
<1>2. Talk' /\ Aligned' /\ Bounded' /\ Blame'
  BY <1>1, Frame
<1>3. state' = state \/ state' # "listening"
  BY DEF Accepted, AcceptFails, AcceptReturns
<1>4. /\ ReplyAt' = ReplyAt /\ (\A i : EndOf(i)' = EndOf(i)) /\ (Version' = Version)
      /\ (\A m : Good(m)' <=> Good(m)) /\ (initOK' <=> initOK) /\ (Sequential5' <=> Sequential5)
      /\ (\A i : Refused(i)' <=> Refused(i)) /\ (HasPipe' <=> HasPipe) /\ (Live' <=> Live)
  BY <1>1, SameSent, SameCfg, SameView
<1>5. /\ apc \in [Accepters -> {"idle", "read", "lock", "close", "clear", "conn", "err", "refused"}]
      /\ apc[a] \in {"lock", "close", "clear"}
      /\ \A b \in Accepters : apc[b] \in Taking => a = b
  BY DEF Accepted, AcceptFails, AcceptReturns, OwnerInv, Control, Guarded, Taking
<1>6. pc = "accepted"
  BY <1>5 DEF HSInv, Paths
<1>7. /\ apc'[a] \in {"clear", "close", "err", "conn"}
      /\ apc'[a] \in {"clear", "conn"} => aerr' = "nil"
      /\ \A b \in Accepters : b # a => apc'[b] = apc[b]
      /\ aerr' = aerr \/ aerr' = "closed"
  BY <1>5 DEF Accepted, AcceptFails, AcceptReturns, HSInv, Paths
<1>8. Paths'
  BY <1>1, <1>3, <1>4, <1>5, <1>6, <1>7 DEF HSInv, Paths, Taking
<1>9. Returned'
  BY <1>1, <1>4, <1>6, <1>7 DEF HSInv, Returned
<1> QED
  BY <1>2, <1>8, <1>9

\* The proxy stops: nothing was blamed on a cut before.
LEMMA StopsKeeps ==
    ASSUME HSInv, ProxyStops, UNCHANGED lvars
    PROVE  Paths' /\ Talk' /\ Aligned' /\ Bounded' /\ Returned' /\ Blame'
<1> USE DEF hvars
<1>1. UNCHANGED <<cfg, pc, hvars, he, sent, stream, taken, state, apc, aerr, peer>> /\ proxy = "sending"
  BY DEF ProxyStops, lvars
<1>2. /\ ReplyAt' = ReplyAt /\ (\A i : EndOf(i)' = EndOf(i)) /\ (Version' = Version)
      /\ (\A m : Good(m)' <=> Good(m)) /\ (initOK' <=> initOK) /\ (Sequential5' <=> Sequential5)
      /\ (\A i : Refused(i)' <=> Refused(i)) /\ (HasPipe' <=> HasPipe) /\ (\A k : Of(k)' = Of(k))
      /\ (\A a : checkBound(a)' <=> checkBound(a))
  BY <1>1, SameSent, SameCfg
<1>3. (Live' <=> Live) /\ (Reading' <=> Reading)
  BY <1>1 DEF Live, Reading, NoErr
<1>4. Cur' = Cur
  BY <1>1, <1>2 DEF Cur
<1>5. EndOf(Cur - 1)' = EndOf(Cur - 1) /\ Base' = Base
  BY <1>1, <1>4 DEF EndOf, Base
<1>6. Got' = Got /\ Stop' = Stop
  BY <1>1, <1>2, <1>4 DEF Got, Pending, Stop
<1>7. Talk'
  BY <1>1, SameTalk DEF HSInv
<1>8. Paths'
  BY <1>1, <1>2, <1>3 DEF HSInv, Paths
<1>9. Aligned'
  BY <1>1, <1>2, <1>3, <1>4, <1>5, <1>6 DEF HSInv, Aligned
<1>10. Bounded'
  BY <1>1, <1>2, <1>3, <1>6 DEF HSInv, Bounded
<1>11. Returned'
  BY <1>1, <1>2, <1>3 DEF HSInv, Returned
<1>12. Blame'
  BY <1>1, <1>2, <1>3 DEF HSInv, Blame
<1> QED
  BY <1>7, <1>8, <1>9, <1>10, <1>11, <1>12

\* What the proxy sends comes after everything it sent, and after all that was read.
LEMMA SendKeeps ==
    ASSUME HSInv, ProxySend, UNCHANGED lvars
    PROVE  Paths' /\ Talk' /\ Aligned' /\ Bounded' /\ Returned' /\ Blame'
<1>1. UNCHANGED <<cfg, pc, hvars, he, taken, proxy, state, apc, aerr, peer>> /\ proxy = "sending"
  BY DEF ProxySend, lvars
<1> USE DEF hvars
<1>2. /\ Talk'
      /\ sent' # <<>> /\ Len(sent') = Len(sent) + 1 /\ Len(sent) \in Nat
      /\ \A i \in 1 .. Len(sent) : sent'[i] = sent[i] /\ EndOf(i)' = EndOf(i)
      /\ sent # <<>> => ReplyAt' = ReplyAt
      /\ sent'[Len(sent) + 1].at = Len(stream)
      /\ \A j \in 1 .. Len(stream) : stream'[j] = stream[j]
  BY SendTalk DEF HSInv
<1>3. /\ Len(stream) \in Nat /\ taken \in Nat /\ taken <= Len(stream) /\ ReplyAt \in {1, 2, 3}
      /\ sent \in Seq(MessageType)
  BY TalkFacts DEF HSInv, TypeOK, HandshakeTypeOK
<1>4. sent' \in Seq(MessageType)
  <2>1. \A i \in 1 .. Len(sent) : sent[i].kind = KindAt(i)
    BY DEF HSInv, Talk
  <2>2. TypeOK'
    BY <2>1, ProxyType DEF HSInv
  <2> QED
    BY <2>2 DEF TypeOK, HandshakeTypeOK
<1>5. PICK n \in Nat : n = Len(sent)
  BY <1>3
<1>6. /\ n + 1 \in 1 .. Len(sent') /\ Shape(sent[n + 1])' /\ sent'[n + 1] \in MessageType
      /\ Len(sent') = n + 1
  BY <1>2, <1>4, <1>5 DEF Talk
<1>7. /\ Version' = Version /\ (\A m : Good(m)' <=> Good(m)) /\ (initOK' <=> initOK)
      /\ (Sequential5' <=> Sequential5) /\ (HasPipe' <=> HasPipe)
      /\ (\A a : checkBound(a)' <=> checkBound(a)) /\ (\A m : Shape(m)' <=> Shape(m))
      /\ Granted' = Granted
  BY <1>1, SameCfg
<1>8. (Live' <=> Live) /\ (Reading' <=> Reading) /\ Got' = Got
  BY <1>1 DEF Live, Reading, NoErr, Got, Pending
<1>9. Shape(sent'[n + 1])
  BY <1>6, <1>7
<1>10. /\ EndOf(n + 1)' \in Nat /\ EndOf(n + 1)' >= Len(stream)
       /\ sent'[n + 1].kind = "auth" => EndOf(n + 1)' > Len(stream)
  <2>1. /\ Len(sent'[n + 1].bytes) \in Nat
        /\ sent'[n + 1].kind = "auth" => Len(sent'[n + 1].bytes) >= 2
    BY <1>6, <1>9, MessageLengths
  <2>2. EndOf(n + 1)' = Len(stream) + Len(sent'[n + 1].bytes)
    BY <1>2, <1>5, Zenon DEF EndOf
  <2> QED
    BY <1>3, <2>1, <2>2
<1>11. \A k : Of(k) \subseteq Of(k)' /\ \A i \in Of(k)' : i \in Of(k) \/ (i = n + 1 /\ sent'[i].kind = k)
  BY <1>2, <1>3, <1>4, <1>5 DEF Of
<1>12. ReplyAt' \in {1, 2, 3} /\ (sent = <<>> => n = 0)
  BY <1>3, <1>5 DEF ReplyAt
<1>13. Live => Cur' = Cur /\ Base' = Base /\ Cur \in 1 .. 4 /\ Cur - 1 <= n
  <2> SUFFICES ASSUME Live PROVE Cur' = Cur /\ Base' = Base /\ Cur \in 1 .. 4 /\ Cur - 1 <= n
    OBVIOUS
  <2>1. Cur - 1 <= Len(sent) /\ Cur \in 1 .. 4
    BY AtCur DEF HSInv
  <2>2. Cur' = Cur
    <3>1. CASE sent # <<>>
      BY <1>1, <1>2, <3>1 DEF Cur
    <3>2. CASE sent = <<>>
      <4>1. Len(sent) = 0
        BY <3>2
      <4>2. Cur = 1
        BY <2>1, <4>1
      <4>3. CASE pc \in {"config", "dial", "write", "method"}
        BY <1>1, <4>2, <4>3 DEF Cur
      <4>4. CASE pc \in {"request", "reply"}
        BY <1>1, <1>7, <3>2, <4>2, <4>4 DEF Cur, ReplyAt
      <4>5. CASE pc \in {"auth", "authWrite", "authRead"}
        BY <4>2, <4>5 DEF Cur
      <4>6. CASE pc \notin {"config", "dial", "write", "method", "request", "reply", "auth", "authWrite", "authRead"}
        BY <1>3, <4>2, <4>6 DEF Cur
      <4> QED
        BY <4>3, <4>4, <4>5, <4>6
    <3> QED
      BY <3>1, <3>2
  <2>3. Cur = 1 \/ (Cur - 1 \in 1 .. n)
    BY <1>5, <2>1
  <2>4. Base' = Base
    <3>1. CASE Cur = 1
      BY <2>2, <3>1 DEF Base
    <3>2. CASE Cur # 1
      <4>1. PICK c \in 1 .. n : c = Cur - 1
        BY <2>3, <3>2
      <4>2. EndOf(c)' = EndOf(c)
        BY <1>2, <1>5, <4>1
      <4>3. Cur' - 1 = c
        BY <2>2, <4>1
      <4>4. Base' = EndOf(c)'
        BY <2>2, <3>2, <4>3 DEF Base, EndOf
      <4> QED
        BY <3>2, <4>1, <4>2, <4>4 DEF Base
    <3> QED
      BY <3>1, <3>2
  <2> QED
    BY <1>5, <2>1, <2>2, <2>4
<1>14. Paths'
  BY <1>1, <1>7, <1>8 DEF HSInv, Paths
<1>15. Aligned'
  <2> SUFFICES ASSUME Live'
               PROVE  /\ Cur' - 1 <= Len(sent') /\ \A i \in 1 .. Cur' - 1 : Good(sent[i])'
                      /\ Version' # 4 /\ Cur' > 1 => sent'[1].code = method'
                      /\ pc' # "accepted" =>
                           taken' = Base' + Len(Got') /\ \A j \in 1 .. Len(Got') : Got'[j] = stream'[Base' + j]
                      /\ ~Reading' /\ pc' # "accepted" => msgStart' = Len(rbuf')
                      /\ pc' \in {"config", "dial", "write"} => rbuf' = <<>>
    BY DEF Aligned
  <2>1. Live /\ Aligned
    BY <1>8 DEF HSInv
  <2>2. Cur' = Cur /\ Base' = Base /\ Cur \in 1 .. 4 /\ Cur - 1 <= n
    BY <1>13, <2>1
  <2>3. Cur' - 1 <= Len(sent') /\ \A i \in 1 .. Cur' - 1 : Good(sent[i])'
    <3>1. \A i \in 1 .. Cur - 1 : i \in 1 .. Len(sent) /\ Good(sent[i])
      BY <1>5, <2>1, <2>2 DEF Aligned
    <3>2. \A i \in 1 .. Cur - 1 : Good(sent'[i])
      BY <1>2, <3>1
    <3> QED
      BY <1>5, <1>6, <1>7, <2>2, <3>2
  <2>4. Version' # 4 /\ Cur' > 1 => sent'[1].code = method'
    BY <1>1, <1>2, <1>5, <1>7, <2>1, <2>2 DEF Aligned
  <2>5. pc # "accepted" => \A j \in 1 .. Len(Got) : Got[j] = stream'[Base + j]
    <3> SUFFICES ASSUME pc # "accepted", NEW j \in 1 .. Len(Got) PROVE Got[j] = stream'[Base + j]
      OBVIOUS
    <3>1. Got[j] = stream[Base + j] /\ taken = Base + Len(Got)
      BY <2>1 DEF Aligned
    <3>2. Base \in Nat /\ Len(Got) \in Nat
      BY <2>1, AtCur, GotFacts DEF HSInv
    <3>3. Base + j \in 1 .. Len(stream)
      BY <1>3, <3>1, <3>2
    <3> QED
      BY <1>2, <3>1, <3>3
  <2> QED
    BY <1>1, <1>8, <2>1, <2>2, <2>3, <2>4, <2>5 DEF Aligned
<1>16. Bounded'
  <2>1. \A i \in Nat \ {0} : i <= Len(sent') /\ (i <= Len(sent) => taken <= EndOf(i)) => taken <= EndOf(i)'
    <3> SUFFICES ASSUME NEW i \in Nat \ {0}, i <= Len(sent'), i <= Len(sent) => taken <= EndOf(i)
                 PROVE  taken <= EndOf(i)'
      OBVIOUS
    <3>1. CASE i <= Len(sent)
      BY <1>2, <3>1
    <3>2. CASE i = n + 1
      BY <1>3, <1>10, <3>2
    <3> QED
      BY <1>5, <1>6, <3>1, <3>2
  <2>2. Live => Stop \in Nat \ {0} /\ Stop' \in Nat \ {0} /\ (Stop' <= Len(sent) => Stop' = Stop)
    <3> SUFFICES ASSUME Live
                 PROVE  Stop \in Nat \ {0} /\ Stop' \in Nat \ {0} /\ (Stop' <= Len(sent) => Stop' = Stop)
      OBVIOUS
    <3>1. Cur' = Cur /\ Cur \in 1 .. 4
      BY <1>13
    <3>2. CASE Sequential5 \/ pc = "accept"
      BY <1>1, <1>7, <3>1, <3>2 DEF Stop
    <3>3. CASE ~(Sequential5 \/ pc = "accept")
      <4>1. Stop = ReplyAt /\ Stop' = ReplyAt'
        BY <1>1, <1>7, <3>3 DEF Stop
      <4> QED
        BY <1>2, <1>3, <1>5, <1>12, <4>1
    <3> QED
      BY <3>2, <3>3
  <2>3. Live' /\ pc' # "accepted" /\ Stop' <= Len(sent') => taken' <= EndOf(Stop)'
    <3> SUFFICES ASSUME Live, pc # "accepted", Stop' <= Len(sent') PROVE taken <= EndOf(Stop)'
      BY <1>1, <1>8
    <3>1. PICK s \in Nat \ {0} : s = Stop'
      BY <2>2
    <3>2. s <= Len(sent) => taken <= EndOf(s)
      BY <2>2, <3>1 DEF HSInv, Bounded
    <3>3. taken <= EndOf(s)'
      BY <2>1, <3>1, <3>2
    <3> QED
      BY <3>1, <3>3 DEF EndOf
  <2>4. \A p \in Nat \ {0} : p <= Len(sent) => sent # <<>>
    BY <1>5, <1>12
  <2>5. PICK r \in {1, 2, 3} : r = ReplyAt'
    BY <1>12
  <2>6. pc \notin {"accept", "accepted"} /\ r <= Len(sent') => taken <= EndOf(r)'
    <3>1. pc \notin {"accept", "accepted"} /\ r <= Len(sent) => taken <= EndOf(r)
      BY <1>2, <2>4, <2>5 DEF HSInv, Bounded
    <3> QED
      BY <2>1, <3>1
  <2>7. pc \in {"accept", "accepted"} /\ r < Len(sent') => taken <= EndOf(r + 1)'
    <3>1. pc \in {"accept", "accepted"} /\ r + 1 <= Len(sent) => taken <= EndOf(r + 1)
      BY <1>2, <1>5, <2>4, <2>5 DEF HSInv, Bounded
    <3>2. r + 1 \in Nat \ {0} /\ (r < Len(sent') => r + 1 <= Len(sent'))
      BY <1>6, <1>5
    <3> QED
      BY <2>1, <3>1, <3>2
  <2>8. EndOf(ReplyAt)' = EndOf(r)' /\ EndOf(ReplyAt + 1)' = EndOf(r + 1)'
    BY <2>5 DEF EndOf
  <2> QED
    BY <1>1, <2>3, <2>5, <2>6, <2>7, <2>8 DEF Bounded
<1>17. Returned'
  <2>1. Live /\ Cur = ReplyAt + 1 => ReplyAt \in 1 .. n /\ sent # <<>> /\ ReplyAt' = ReplyAt
    BY <1>2, <1>3, <1>12, <1>13
  <2>2. pc \in {"clear", "ok", "accept", "accepted"} \/ (pc = "settle" /\ he = NoErr) => Live /\ Cur = ReplyAt + 1
    BY DEF Live, Cur
  <2>3. pc \in {"clear", "ok", "accept", "accepted"} \/ (pc = "settle" /\ he = NoErr) =>
          sent'[ReplyAt'] = sent[ReplyAt]
    BY <1>2, <1>5, <2>1, <2>2
  <2>4. ReplyAt < Len(sent) => /\ ReplyAt' = ReplyAt /\ ReplyAt' < Len(sent') /\ ReplyAt + 1 \in 1 .. Len(sent)
                               /\ sent'[ReplyAt' + 1] = sent[ReplyAt + 1] /\ EndOf(ReplyAt + 1)' = EndOf(ReplyAt + 1)
    <3> SUFFICES ASSUME ReplyAt < Len(sent)
                 PROVE  /\ ReplyAt' = ReplyAt /\ ReplyAt' < Len(sent') /\ ReplyAt + 1 \in 1 .. Len(sent)
                        /\ sent'[ReplyAt' + 1] = sent[ReplyAt + 1] /\ EndOf(ReplyAt + 1)' = EndOf(ReplyAt + 1)
      OBVIOUS
    <3>1. PICK r \in {1, 2, 3} : r = ReplyAt
      BY <1>3
    <3>2. r + 1 \in 1 .. Len(sent) /\ sent # <<>>
      BY <1>5, <1>12, <3>1
    <3>3. ReplyAt' = r /\ r < Len(sent')
      BY <1>2, <3>1, <3>2
    <3>4. sent'[r + 1] = sent[r + 1] /\ EndOf(r + 1)' = EndOf(r + 1)
      BY <1>2, <3>2
    <3>5. EndOf(ReplyAt + 1)' = EndOf(r + 1)'
      BY <3>3 DEF EndOf
    <3> QED
      BY <3>1, <3>2, <3>3, <3>4, <3>5
  <2>6. pc' \in {"clear", "ok", "accept", "accepted"} \/ (pc' = "settle" /\ he' = NoErr) =>
         bound' = AsSent(sent'[ReplyAt'].addr)
    BY <1>1, <2>3 DEF HSInv, Returned
  <2>7. ReplyAt < Len(sent) => (Good(sent[ReplyAt + 1])' <=> Good(sent[ReplyAt + 1]))
    BY <1>7, <2>4
  <2>8. pc' = "accepted" /\ aerr' = "nil" =>
         /\ ReplyAt' < Len(sent') /\ Good(sent[ReplyAt + 1])'
         /\ peer' = AsSent(sent'[ReplyAt' + 1].addr) /\ taken' = EndOf(ReplyAt + 1)'
    BY <1>1, <2>4, <2>7 DEF HSInv, Returned
  <2>9. aerr' = "reply" => ReplyAt' < Len(sent') /\ Refused(ReplyAt + 1)'
    BY <1>1, <1>7, <2>4 DEF HSInv, Returned, Refused
  <2> QED
    BY <2>6, <2>8, <2>9 DEF Returned
<1>18. Blame'
  <2> SUFFICES ASSUME ~Live
               PROVE  /\ he.stage \in Prefix =>
                           /\ he.err \in {"protocol", "method", "auth", "reply"} =>
                                \E i \in Of(he.stage)' : ~Good(sent[i])' \/ ~checkBound(AsSent(sent[i].addr))'
                           /\ he.err # "eof"
                      /\ \A i \in Of("reply")' : Refused(i)' /\ taken >= sent'[i].at + 2 => he.err = "reply"
                      /\ \A i \in Of("auth")' : ~Good(sent[i])' /\ ~sent'[i].bad /\ taken >= EndOf(i)' => he.err = "auth"
    BY <1>1, <1>8 DEF Blame, Of
  <2>1. Blame
    BY DEF HSInv
  <2>2. \A k : \A i \in Of(k) : i \in 1 .. Len(sent) /\ sent'[i] = sent[i] /\ EndOf(i)' = EndOf(i)
    BY <1>2, <1>3 DEF Of
  <2>3. he.stage \in Prefix => he.err # "eof"
    BY <1>1, <2>1 DEF Blame
  <2>4. he.stage \in Prefix /\ he.err \in {"protocol", "method", "auth", "reply"} =>
          \E i \in Of(he.stage)' : ~Good(sent[i])' \/ ~checkBound(AsSent(sent[i].addr))'
    <3> SUFFICES ASSUME he.stage \in Prefix, he.err \in {"protocol", "method", "auth", "reply"}
                 PROVE  \E i \in Of(he.stage)' : ~Good(sent[i])' \/ ~checkBound(AsSent(sent[i].addr))'
      OBVIOUS
    <3>1. PICK i \in Of(he.stage) : ~Good(sent[i]) \/ ~checkBound(AsSent(sent[i].addr))
      BY <2>1 DEF Blame
    <3>2. PICK k \in Prefix : k = he.stage
      OBVIOUS
    <3>3. sent'[i] = sent[i] /\ i \in Of(k)'
      BY <1>11, <2>2, <3>1, <3>2
    <3>4. ~Good(sent[i])' \/ ~checkBound(AsSent(sent[i].addr))'
      BY <1>7, <3>1, <3>3
    <3>5. Of(he.stage)' = Of(k)'
      BY <1>1, <3>2 DEF Of
    <3> QED
      BY <3>3, <3>4, <3>5
  <2>5. \A i \in Of("reply")' : Refused(i)' /\ taken >= sent'[i].at + 2 => he.err = "reply"
    <3> SUFFICES ASSUME NEW i \in Of("reply")', Refused(i)', taken >= sent'[i].at + 2 PROVE he.err = "reply"
      OBVIOUS
    <3>1. CASE i \in Of("reply")
      <4>1. sent'[i] = sent[i]
        BY <2>2, <3>1
      <4>2. Refused(i)
        BY <1>7, <4>1 DEF Refused
      <4> QED
        BY <2>1, <3>1, <4>1, <4>2 DEF Blame
    <3>2. CASE i = n + 1
      BY <1>2, <1>3, <1>5, <3>2
    <3> QED
      BY <1>11, <3>1, <3>2
  <2>6. \A i \in Of("auth")' : ~Good(sent[i])' /\ ~sent'[i].bad /\ taken >= EndOf(i)' => he.err = "auth"
    <3> SUFFICES ASSUME NEW i \in Of("auth")', ~Good(sent[i])', ~sent'[i].bad, taken >= EndOf(i)' PROVE he.err = "auth"
      OBVIOUS
    <3>1. CASE i \in Of("auth")
      <4>1. sent'[i] = sent[i] /\ EndOf(i)' = EndOf(i)
        BY <2>2, <3>1
      <4>2. ~Good(sent[i])
        BY <1>7, <4>1
      <4> QED
        BY <2>1, <3>1, <4>1, <4>2 DEF Blame
    <3>2. CASE i = n + 1 /\ sent'[i].kind = "auth"
      <4>1. EndOf(i)' = EndOf(n + 1)'
        BY <3>2 DEF EndOf
      <4>2. taken >= EndOf(n + 1)'
        BY <4>1
      <4> QED
        BY <1>3, <1>10, <3>2, <4>2
    <3> QED
      BY <1>11, <3>1, <3>2
  <2> QED
    BY <2>3, <2>4, <2>5, <2>6
<1> QED
  BY <1>2, <1>14, <1>15, <1>16, <1>17, <1>18

\* Each message that a handshake waits for is one kind.
LEMMA KindPlaces ==
    ASSUME ReplyAt \in {1, 2, 3}, Version # 4 => ReplyAt # 1, NEW i \in Nat, i >= 1
    PROVE  /\ KindAt(i) = "method" <=> i = 1 /\ ReplyAt # 1
           /\ KindAt(i) = "auth" <=> i = 2 /\ ReplyAt = 3
           /\ KindAt(i) = "reply" <=> i = ReplyAt
           /\ KindAt(i) \in Prefix <=> i <= ReplyAt
           /\ i > ReplyAt => KindAt(i) \in {"second", "data"}
BY DEF KindAt, Prefix

\* An answer is two bytes at least.
LEMMA AnswerFacts ==
    ASSUME TypeOK, Talk, NEW i \in 1 .. Len(sent)
    PROVE  /\ sent[i].kind = KindAt(i) /\ sent[i].at \in Nat /\ EndOf(i) \in Nat
           /\ EndOf(i) = sent[i].at + Len(sent[i].bytes) /\ Len(sent[i].bytes) \in Nat
           /\ i <= ReplyAt => Len(sent[i].bytes) >= 2
<1>1. /\ sent[i] \in MessageType /\ Shape(sent[i]) /\ sent[i].kind = KindAt(i)
      /\ sent[i].at \in Nat /\ Len(sent[i].bytes) \in Nat /\ EndOf(i) \in Nat
      /\ EndOf(i) = sent[i].at + Len(sent[i].bytes)
      /\ ReplyAt \in {1, 2, 3} /\ Len(sent) \in Nat
  BY TalkFacts
<1>2. /\ sent[i].kind = "method" => Len(sent[i].bytes) = 2
      /\ sent[i].kind = "auth" => Len(sent[i].bytes) >= 2
      /\ sent[i].kind = "reply" => Len(sent[i].bytes) >= 8
  BY <1>1, MessageLengths
<1>3. i <= ReplyAt => sent[i].kind \in {"method", "auth", "reply"}
  BY <1>1 DEF KindAt
<1> DEFINE l == Len(sent[i].bytes)
<1>4. i <= ReplyAt => l = 2 \/ l >= 2 \/ l >= 8
  BY <1>2, <1>3
<1>5. l \in Nat
  BY <1>1
<1> HIDE DEF l
<1>6. i <= ReplyAt => l >= 2
  BY <1>4, <1>5
<1> QED
  BY <1>1, <1>6 DEF l

\* A failure that the message being read explains, or that nothing read explains.
LEMMA Fails ==
    ASSUME HSInv, Live, UNCHANGED <<cfg, sent, stream>>, ~Live', taken' \in Nat,
           \A i \in 1 .. Len(sent) : i > Cur /\ i <= ReplyAt => taken' <= sent[i].at,
           he'.stage \in Prefix /\ he'.err \in {"protocol", "method", "auth", "reply"} =>
             /\ Cur \in 1 .. Len(sent) /\ KindAt(Cur) = he'.stage
             /\ ~Good(sent[Cur]) \/ ~checkBound(AsSent(sent[Cur].addr)),
           he'.stage \in Prefix /\ he'.err = "eof" =>
             proxy' = "EOF" /\ KindAt(Cur) = he'.stage /\ (Cur <= Len(sent) => taken' < EndOf(Cur)),
           Cur = ReplyAt /\ Cur <= Len(sent) /\ Refused(Cur) /\ taken' >= sent[Cur].at + 2 => he'.err = "reply",
           /\ Cur <= Len(sent) /\ KindAt(Cur) = "auth" /\ ~Good(sent[Cur]) /\ ~sent[Cur].bad
           /\ taken' >= EndOf(Cur)
           => he'.err = "auth"
    PROVE  Blame'
<1>1. /\ ReplyAt' = ReplyAt /\ (\A i : EndOf(i)' = EndOf(i))
      /\ (\A m : Good(m)' <=> Good(m)) /\ (\A a : checkBound(a)' <=> checkBound(a))
      /\ (\A i : Refused(i)' <=> Refused(i)) /\ (\A k : Of(k)' = Of(k))
  BY SameSent, SameCfg
<1>2. /\ Cur \in 1 .. 4 /\ Cur - 1 <= Len(sent) /\ Len(sent) \in Nat /\ ReplyAt \in {1, 2, 3}
      /\ Version # 4 => ReplyAt # 1
      /\ \A i \in 1 .. Len(sent) : i < Cur => Good(sent[i])
  BY AtCur, TalkFacts DEF HSInv, ReplyAt
<1>3. \A i \in 1 .. Len(sent) :
        /\ sent[i].kind = KindAt(i) /\ sent[i].at \in Nat /\ EndOf(i) \in Nat
        /\ EndOf(i) = sent[i].at + Len(sent[i].bytes) /\ Len(sent[i].bytes) \in Nat
        /\ i <= ReplyAt => Len(sent[i].bytes) >= 2
  BY AnswerFacts DEF HSInv
<1>4. \A k : \A i \in Of(k) : i \in 1 .. Len(sent) /\ KindAt(i) = k
  BY <1>3 DEF Of, HSInv, TypeOK, HandshakeTypeOK
<1>5. \A i \in 1 .. Len(sent) : i \in Of(KindAt(i))
  BY <1>3 DEF Of, HSInv, TypeOK, HandshakeTypeOK
<1>6. \A i \in 1 .. Len(sent) :
        /\ KindAt(i) = "auth" <=> i = 2 /\ ReplyAt = 3
        /\ KindAt(i) = "reply" <=> i = ReplyAt
        /\ KindAt(i) = "method" <=> i = 1 /\ ReplyAt # 1
        /\ KindAt(i) \in Prefix <=> i <= ReplyAt
  BY <1>2, KindPlaces
<1>7. \A i \in Of("reply") : Refused(i) /\ taken' >= sent[i].at + 2 => he'.err = "reply"
  <2> SUFFICES ASSUME NEW i \in Of("reply"), Refused(i), taken' >= sent[i].at + 2 PROVE he'.err = "reply"
    OBVIOUS
  <2>1. i \in 1 .. Len(sent) /\ i = ReplyAt /\ sent[i].kind = "reply"
    BY <1>3, <1>4, <1>6
  <2>2. ~Good(sent[i])
    BY <2>1 DEF Refused, Good
  <2>3. i >= Cur
    BY <1>2, <2>1, <2>2
  <2>4. ~(i > Cur)
    BY <1>3, <2>1
  <2> QED
    BY <1>2, <2>1, <2>3, <2>4
<1>8. \A i \in Of("auth") : ~Good(sent[i]) /\ ~sent[i].bad /\ taken' >= EndOf(i) => he'.err = "auth"
  <2> SUFFICES ASSUME NEW i \in Of("auth"), ~Good(sent[i]), ~sent[i].bad, taken' >= EndOf(i) PROVE he'.err = "auth"
    OBVIOUS
  <2>1. i \in 1 .. Len(sent) /\ KindAt(i) = "auth" /\ i <= ReplyAt
    BY <1>4, <1>6
  <2>2. i >= Cur
    BY <1>2, <2>1
  <2>3. ~(i > Cur)
    BY <1>3, <2>1
  <2>4. i = Cur
    BY <1>2, <2>1, <2>2, <2>3
  <2> QED
    BY <2>1, <2>4
<1>9. he'.stage \in Prefix /\ he'.err \in {"protocol", "method", "auth", "reply"} =>
        \E i \in Of(he'.stage) : ~Good(sent[i]) \/ ~checkBound(AsSent(sent[i].addr))
  BY <1>5
<1>10. he'.stage \in Prefix /\ he'.err = "eof" =>
         /\ proxy' = "EOF"
         /\ \A i \in Of(he'.stage) : EndOf(i) > taken'
         /\ \A i \in DOMAIN sent : sent[i].kind \in Prefix /\ EndOf(i) <= taken' => Good(sent[i])
  <2> SUFFICES ASSUME he'.stage \in Prefix, he'.err = "eof"
               PROVE  /\ \A i \in Of(he'.stage) : EndOf(i) > taken'
                      /\ \A i \in 1 .. Len(sent) : sent[i].kind \in Prefix /\ EndOf(i) <= taken' => Good(sent[i])
    BY DEF HSInv, TypeOK, HandshakeTypeOK
  <2>1. KindAt(Cur) = he'.stage /\ (Cur <= Len(sent) => taken' < EndOf(Cur))
    OBVIOUS
  <2>2. ASSUME NEW i \in Of(he'.stage) PROVE EndOf(i) > taken'
    <3>1. i \in 1 .. Len(sent) /\ KindAt(i) = KindAt(Cur) /\ KindAt(Cur) \in {"method", "auth", "reply"}
      BY <1>4, <2>1, <2>2 DEF Prefix
    <3>2. i = Cur
      BY <1>2, <3>1, KindPlaces
    <3> QED
      BY <1>2, <1>3, <2>1, <3>1, <3>2
  <2>3. ASSUME NEW i \in 1 .. Len(sent), sent[i].kind \in Prefix, EndOf(i) <= taken' PROVE Good(sent[i])
    <3>1. i <= ReplyAt /\ EndOf(i) >= sent[i].at + 2 /\ EndOf(i) \in Nat /\ sent[i].at \in Nat
      BY <1>3, <1>6, <2>3
    <3>2. ~(i > Cur)
      BY <2>3, <3>1
    <3>3. i # Cur
      BY <1>3, <2>1, <2>3
    <3> QED
      BY <1>2, <3>2, <3>3
  <2> QED
    BY <2>2, <2>3
<1> HIDE DEF Prefix
<1>11. \A i : AsSent(sent[i].addr)' = AsSent(sent[i].addr)
  BY DEF AsSent
<1>12. Of(he.stage)' = Of(he'.stage)
  BY DEF Of
<1> QED
  BY <1>1, <1>7, <1>8, <1>9, <1>10, <1>11, <1>12 DEF Blame

\* A failure before the message is read at all.
LEMMA FailsUnread ==
    ASSUME HSInv, Live, UNCHANGED <<cfg, sent, stream, taken>>, ~Live', pc # "accepted", Len(Got) = 0,
           he'.stage \in Prefix => he'.err \notin {"protocol", "method", "auth", "reply", "eof"}
    PROVE  Blame'
<1>1. /\ Cur \in 1 .. 4 /\ Base \in Nat /\ Len(sent) \in Nat
      /\ \A i \in 1 .. Len(sent) : i >= Cur => Base <= sent[i].at
  BY AtCur, TalkFacts, Zenon DEF HSInv
<1>2. taken = Base /\ taken \in Nat
  BY <1>1 DEF HSInv, Aligned
<1>3. \A i \in 1 .. Len(sent) : sent[i].at \in Nat /\ EndOf(i) = sent[i].at + Len(sent[i].bytes)
                                /\ sent[i] \in MessageType /\ Shape(sent[i]) /\ sent[i].kind = KindAt(i)
  BY TalkFacts DEF HSInv
<1>4. \A i \in 1 .. Len(sent) : KindAt(i) = "auth" => Len(sent[i].bytes) \in Nat /\ Len(sent[i].bytes) >= 2
  BY <1>3, MessageLengths
<1>5. ~(Cur = ReplyAt /\ Cur <= Len(sent) /\ Refused(Cur) /\ taken' >= sent[Cur].at + 2)
  BY <1>1, <1>2, <1>3
<1>6. ~(Cur <= Len(sent) /\ KindAt(Cur) = "auth" /\ ~Good(sent[Cur]) /\ ~sent[Cur].bad /\ taken' >= EndOf(Cur))
  BY <1>1, <1>2, <1>3, <1>4
<1>7. \A i \in 1 .. Len(sent) : i > Cur /\ i <= ReplyAt => taken' <= sent[i].at
  BY <1>1, <1>2
<1>8. taken' \in Nat /\ ~(he'.stage \in Prefix /\ he'.err \in {"protocol", "method", "auth", "reply"})
      /\ ~(he'.stage \in Prefix /\ he'.err = "eof")
  BY <1>2
<1> QED
  BY <1>5, <1>6, <1>7, <1>8, Fails

\* What a step of the handshake that fails keeps, besides what it blames.
LEMMA FailedRest ==
    ASSUME HSInv, UNCHANGED <<cfg, sent, stream, aerr, apc, state>>, ~Live', pc' \in {"settle", "failed"},
           pc \notin {"accept", "accepted", "failed"}, pc' = "failed" \/ pc # "config",
           readErr' = "EOF" => proxy' = "EOF",
           ReplyAt <= Len(sent) => taken' <= EndOf(ReplyAt)
    PROVE  Paths' /\ Talk' /\ Aligned' /\ Bounded' /\ Returned'
<1>1. /\ ReplyAt' = ReplyAt /\ (\A i : EndOf(i)' = EndOf(i)) /\ (initOK' <=> initOK)
  BY SameSent, SameCfg
<1>2. Talk'
  BY SameTalk DEF HSInv
<1>3. aerr = "nil" /\ \A a \in Accepters : apc[a] \notin {"read", "lock", "close", "clear", "conn", "err"}
  BY DEF HSInv, Paths
<1>4. pc' = "settle" => initOK
  BY DEF HSInv, Paths, Live
<1>5. Paths'
  BY <1>1, <1>3, <1>4 DEF Paths
<1>6. Aligned'
  BY DEF Aligned
<1>7. Bounded'
  BY <1>1 DEF Bounded
<1>8. Returned'
  BY <1>3 DEF Returned, Live
<1> QED
  BY <1>2, <1>5, <1>6, <1>7, <1>8

\* What a step of the handshake that goes on keeps, once it reads no further than it may.
LEMMA GoesOn ==
    ASSUME HSInv, UNCHANGED <<cfg, sent, stream, aerr>>, Live',
           pc # "accepted", pc' \notin {"accept", "accepted"},
           pc' \in {"clear", "ok", "settle"} => bound' = AsSent(sent[ReplyAt].addr),
           Stop' <= Len(sent) => taken' <= EndOf(Stop'),
           ReplyAt <= Len(sent) => taken' <= EndOf(ReplyAt)
    PROVE  Talk' /\ Bounded' /\ Returned' /\ Blame'
<1>1. /\ ReplyAt' = ReplyAt /\ (\A i : EndOf(i)' = EndOf(i))
  BY SameSent
<1>2. Talk'
  BY SameTalk DEF HSInv
<1>3. aerr = "nil"
  BY DEF HSInv, Paths
<1>4. EndOf(Stop)' = EndOf(Stop') /\ EndOf(ReplyAt)' = EndOf(ReplyAt)
  BY <1>1 DEF EndOf
<1>5. Bounded'
  BY <1>1, <1>4 DEF Bounded
<1>6. Returned'
  BY <1>1, <1>3 DEF Returned
<1>7. Blame'
  BY DEF Blame
<1> QED
  BY <1>2, <1>5, <1>6, <1>7

\* Nothing is unread when the handshake writes, so that what is read next starts
\* with the message that answers.
LEMMA Stays ==
    ASSUME HSInv, Live, Live',
           UNCHANGED <<cfg, sent, stream, taken, method, rbuf, msgStart, aerr>>,
           Cur' = Cur, ~Reading, Len(Got) = 0, Len(Got') = 0,
           pc \notin {"accept", "accepted", "clear", "ok", "settle"},
           pc' \notin {"accept", "accepted", "clear", "ok", "settle"},
           pc' \in {"config", "dial", "write"} => pc \in {"config", "dial", "write"}
    PROVE  Talk' /\ Aligned' /\ Bounded' /\ Returned' /\ Blame'
<1>1. /\ ReplyAt' = ReplyAt /\ (\A i : EndOf(i)' = EndOf(i)) /\ (Version' = Version)
      /\ (\A m : Good(m)' <=> Good(m)) /\ (Sequential5' <=> Sequential5)
  BY SameSent, SameCfg
<1>2. Stop' = Stop
  BY <1>1 DEF Stop
<1>3. EndOf(Cur - 1)' = EndOf(Cur - 1) /\ Base' = Base
  BY DEF EndOf, Base
<1>4. /\ Stop <= Len(sent) => taken <= EndOf(Stop)
      /\ ReplyAt <= Len(sent) => taken <= EndOf(ReplyAt)
  BY DEF HSInv, Bounded
<1>5. Talk' /\ Bounded' /\ Returned' /\ Blame'
  BY <1>2, <1>4, GoesOn
<1>6. Aligned'
  <2>1. /\ Cur - 1 <= Len(sent) /\ \A i \in 1 .. Cur - 1 : Good(sent[i])
        /\ Version # 4 /\ Cur > 1 => sent[1].code = method
        /\ taken = Base + Len(Got) /\ msgStart = Len(rbuf)
        /\ pc \in {"config", "dial", "write"} => rbuf = <<>>
    BY DEF HSInv, Aligned
  <2>2. taken' = Base' + Len(Got') /\ \A j \in 1 .. Len(Got') : FALSE
    BY <1>3, <2>1
  <2> QED
    BY <1>1, <2>1, <2>2 DEF Aligned
<1> QED
  BY <1>5, <1>6

\* Between two messages nothing is left that was read and not used.
LEMMA NothingUnread ==
    ASSUME TypeOK, Aligned, Live, ~Reading, pc \notin {"accepted", "authRead"}
    PROVE  Len(Got) = 0 /\ Len(Pending) = 0 /\ msgStart = Len(rbuf)
<1>1. msgStart = Len(rbuf) /\ rbuf \in Seq(Bytes)
  BY DEF Aligned, TypeOK, HandshakeTypeOK
<1>2. Pending = SubSeq(rbuf, Len(rbuf) + 1, Len(rbuf)) /\ Len(Pending) = 0
  BY <1>1 DEF Pending
<1> QED
  BY <1>1, <1>2 DEF Got

\* init keeps the invariant.
LEMMA ConfigureKeeps ==
    ASSUME HSInv, Configure, UNCHANGED lvars
    PROVE  Paths' /\ Talk' /\ Aligned' /\ Bounded' /\ Returned' /\ Blame'
<1>1. /\ pc = "config" /\ UNCHANGED <<cfg, method, rbuf, msgStart, readErr, readStage, part, bound, taken, sent,
                                      stream, proxy, state, apc, aerr, peer>>
      /\ he = NoErr /\ Live /\ ~Reading
  BY DEF Configure, lvars, hvars, proxyvars, HSInv, Paths, Live, Reading
<1>2. Len(Got) = 0 /\ Len(Pending) = 0
  BY <1>1, NothingUnread DEF HSInv
<1>3. ReplyAt <= Len(sent) => taken <= EndOf(ReplyAt)
  BY <1>1 DEF HSInv, Bounded
<1>4. CASE ~initOK
  <2>1. pc' = "failed" /\ he'.stage = "config"
    BY <1>4 DEF Configure, Fail
  <2>2. ~Live' /\ he'.stage \notin Prefix
    BY <2>1 DEF Live, Prefix
  <2>3. Blame'
    BY <1>1, <1>2, <2>2, FailsUnread
  <2>4. readErr' = "EOF" => proxy' = "EOF"
    BY <1>1 DEF HSInv, Paths
  <2> QED
    BY <1>1, <1>3, <2>1, <2>2, <2>3, <2>4, FailedRest
<1>5. CASE initOK
  <2>1. pc' \in {"write", "dial"} /\ he' = he
    BY <1>5 DEF Configure
  <2>2. Live' /\ Cur = 1 /\ Cur' = 1 /\ Got' = Got
    BY <1>1, <2>1, Zenon DEF Live, NoErr, Cur, Got, Pending
  <2>3. Talk' /\ Aligned' /\ Bounded' /\ Returned' /\ Blame'
    BY <1>1, <1>2, <2>1, <2>2, Stays
  <2>4. (initOK' <=> initOK) /\ Version' = Version
    BY <1>1, SameCfg
  <2>5. Paths'
    BY <1>1, <1>5, <2>1, <2>4 DEF HSInv, Paths
  <2> QED
    BY <2>3, <2>5
<1> QED
  BY <1>4, <1>5

\* Dial keeps the invariant.
LEMMA DialKeeps ==
    ASSUME HSInv, Dial, UNCHANGED lvars
    PROVE  Paths' /\ Talk' /\ Aligned' /\ Bounded' /\ Returned' /\ Blame'
<1>1. /\ pc = "dial" /\ UNCHANGED <<cfg, method, rbuf, msgStart, readErr, readStage, part, bound, taken, sent,
                                    stream, proxy, state, apc, aerr, peer>>
      /\ he = NoErr /\ Live /\ ~Reading
  BY DEF Dial, lvars, hvars, proxyvars, HSInv, Paths, Live, Reading
<1>2. Len(Got) = 0 /\ Len(Pending) = 0
  BY <1>1, NothingUnread DEF HSInv
<1>3. ReplyAt <= Len(sent) => taken <= EndOf(ReplyAt)
  BY <1>1 DEF HSInv, Bounded
<1>4. (pc' = "failed" /\ he'.stage = "dial") \/ (pc' = "write" /\ he' = he)
  BY DEF Dial, Fail
<1>5. CASE pc' = "failed" /\ he'.stage = "dial"
  <2>1. ~Live' /\ he'.stage \notin Prefix
    BY <1>5 DEF Live, Prefix
  <2>2. Blame'
    BY <1>1, <1>2, <2>1, FailsUnread
  <2>3. readErr' = "EOF" => proxy' = "EOF"
    BY <1>1 DEF HSInv, Paths
  <2> QED
    BY <1>1, <1>3, <1>5, <2>1, <2>2, <2>3, FailedRest
<1>6. CASE pc' = "write" /\ he' = he
  <2>1. Live' /\ Cur = 1 /\ Cur' = 1 /\ Got' = Got
    BY <1>1, <1>6 DEF Live, NoErr, Cur, Got, Pending
  <2>2. Talk' /\ Aligned' /\ Bounded' /\ Returned' /\ Blame'
    BY <1>1, <1>2, <1>6, <2>1, Stays
  <2>3. (initOK' <=> initOK) /\ Version' = Version
    BY <1>1, SameCfg
  <2>4. Paths'
    BY <1>1, <1>6, <2>3 DEF HSInv, Paths
  <2> QED
    BY <2>2, <2>4
<1> QED
  BY <1>4, <1>5, <1>6

\* The writes keep the invariant.
LEMMA WriteKeeps ==
    ASSUME HSInv, Write \/ WriteRequest \/ AuthWrite, UNCHANGED lvars
    PROVE  Paths' /\ Talk' /\ Aligned' /\ Bounded' /\ Returned' /\ Blame'
<1>1. /\ pc \in {"write", "request", "authWrite"}
      /\ UNCHANGED <<cfg, method, rbuf, msgStart, readErr, readStage, part, bound, taken, sent,
                     stream, proxy, state, apc, aerr, peer>>
  BY DEF Write, WriteRequest, AuthWrite, lvars, hvars, proxyvars
<1>2. he = NoErr /\ Live /\ ~Reading
  BY <1>1 DEF HSInv, Paths, Live, Reading
<1>3. Len(Got) = 0 /\ Len(Pending) = 0
  BY <1>1, <1>2, NothingUnread DEF HSInv
<1>4. ReplyAt <= Len(sent) => taken <= EndOf(ReplyAt)
  BY <1>1 DEF HSInv, Bounded
<1>5. \/ /\ he' = he /\ pc' # "settle"
         /\ pc = "write" => pc' = AfterWrite
         /\ pc = "request" => pc' = "reply"
         /\ pc = "authWrite" => pc' = "authRead"
      \/ /\ pc' = "settle" /\ he' # NoErr
         /\ he'.stage \in Prefix => he'.stage = "auth"
         /\ he'.err \in {"reset", "timeout", "closed"}
  BY WriteType DEF HSInv
<1>6. CASE pc' = "settle"
  <2>1. he' # NoErr /\ he'.err \in {"reset", "timeout", "closed"}
    BY <1>5, <1>6
  <2>2. ~Live'
    BY <1>6, <2>1 DEF Live, NoErr
  <2>3. Blame'
    BY <1>1, <1>2, <1>3, <2>1, <2>2, FailsUnread
  <2>4. readErr' = "EOF" => proxy' = "EOF"
    BY <1>1 DEF HSInv, Paths
  <2> QED
    BY <1>1, <1>4, <1>6, <2>2, <2>3, <2>4, FailedRest
<1>7. CASE pc' # "settle"
  <2>1. he' = he /\ pc' \in {"reply", "method", "authRead"}
    BY <1>1, <1>5, <1>7 DEF AfterWrite
  <2>2. Live'
    BY <1>2, <2>1 DEF Live, NoErr
  <2>3. ReplyAt' = ReplyAt /\ Version' = Version /\ (initOK' <=> initOK) /\ (Sequential5' <=> Sequential5)
    BY <1>1, SameSent, SameCfg
  <2>4. Cur' = Cur
    <3>1. CASE pc = "write"
      <4>1. Cur = 1
        BY <3>1 DEF Cur
      <4>2. pc' = "method" \/ (pc' = "reply" /\ ReplyAt = 1)
        BY <1>5, <1>7, <3>1 DEF AfterWrite, ReplyAt
      <4> QED
        BY <2>3, <4>1, <4>2 DEF Cur
    <3>2. CASE pc = "request"
      BY <1>5, <1>7, <2>3, <3>2 DEF Cur
    <3>3. CASE pc = "authWrite"
      BY <1>5, <1>7, <3>3 DEF Cur
    <3> QED
      BY <1>1, <3>1, <3>2, <3>3
  <2>5. Len(Got') = 0
    <3>1. CASE pc' = "authRead"
      <4>1. pc = "authWrite"
        BY <1>1, <1>5, <1>7, <3>1 DEF AfterWrite
      <4>2. part.b = <<>>
        BY <4>1 DEF HSInv, Paths
      <4> QED
        BY <1>1, <3>1, <4>2 DEF Got
    <3>2. CASE pc' # "authRead"
      BY <1>1, <1>3, <3>2, Zenon DEF Got, Pending
    <3> QED
      BY <3>1, <3>2
  <2>6. Talk' /\ Aligned' /\ Bounded' /\ Returned' /\ Blame'
    BY <1>1, <1>2, <1>3, <2>1, <2>2, <2>4, <2>5, Stays
  <2>7. /\ pc' = "method" => pc = "write" /\ Version # 4
        /\ pc' = "authRead" => pc = "authWrite"
    BY <1>1, <1>5, <1>7 DEF AfterWrite
  <2>8. Paths'
    BY <1>1, <1>2, <2>1, <2>3, <2>7 DEF HSInv, Paths
  <2> QED
    BY <2>6, <2>8
<1> QED
  BY <1>6, <1>7

\* Where the conversation is while more of the message is read.
LEMMA ReadingOn ==
    ASSUME HSInv, UNCHANGED <<cfg, pc, sent>>, Reading \/ pc = "authRead"
    PROVE  /\ Cur' = Cur /\ Base' = Base /\ Stop' = Stop /\ ReplyAt' = ReplyAt
           /\ Live /\ Cur \in 1 .. Len(sent) + 1 /\ Len(sent) \in Nat
           /\ pc # "accept" => Cur <= ReplyAt
           /\ pc = "accept" => Cur = ReplyAt + 1
           /\ Stop = Cur \/ Stop = ReplyAt
<1>1. ReplyAt' = ReplyAt /\ (Sequential5' <=> Sequential5)
  BY SameSent, SameCfg
<1>2. Cur' = Cur
  BY <1>1 DEF Cur
<1>3. Base' = Base
  BY <1>2 DEF Base, EndOf
<1>4. Stop' = Stop /\ (Stop = Cur \/ Stop = ReplyAt)
  BY <1>1, <1>2 DEF Stop
<1>5. Live
  BY DEF Live, Reading
<1>6. /\ Cur \in 1 .. 4 /\ Cur - 1 <= Len(sent) /\ Len(sent) \in Nat /\ ReplyAt \in {1, 2, 3}
  BY <1>5, AtCur, TalkFacts DEF HSInv
<1>7. /\ pc = "method" => Cur = 1 /\ ReplyAt \in {2, 3}
      /\ pc \in {"auth", "authRead"} => Cur = 2 /\ ReplyAt = 3
      /\ pc = "reply" => Cur = ReplyAt
      /\ pc = "accept" => Cur = ReplyAt + 1
  BY <1>5, CurKind DEF HSInv
<1> QED
  BY <1>1, <1>2, <1>3, <1>4, <1>5, <1>6, <1>7 DEF Reading

\* What was read up to the end of a message is before the end of the first reply.
LEMMA BeforeReply ==
    ASSUME HSInv, NEW c \in Nat \ {0}, c <= ReplyAt, NEW t \in Nat, c <= Len(sent) => t <= EndOf(c)
    PROVE  ReplyAt <= Len(sent) => t <= EndOf(ReplyAt)
<1> SUFFICES ASSUME ReplyAt <= Len(sent) PROVE t <= EndOf(ReplyAt)
  OBVIOUS
<1>1. ReplyAt \in {1, 2, 3} /\ Len(sent) \in Nat
  BY TalkFacts DEF HSInv
<1>2. c \in 1 .. Len(sent) /\ ReplyAt \in 1 .. Len(sent)
  BY <1>1
<1>3. CASE c = ReplyAt
  BY <1>2, <1>3
<1>4. CASE c < ReplyAt
  <2>1. EndOf(c) <= sent[ReplyAt].at
    BY <1>2, <1>4 DEF HSInv, Talk
  <2>2. EndOf(c) \in Nat /\ EndOf(ReplyAt) \in Nat /\ sent[ReplyAt].at <= EndOf(ReplyAt) /\ sent[ReplyAt].at \in Nat
    BY <1>2, TalkFacts DEF HSInv
  <2> QED
    BY <1>2, <2>1, <2>2
<1> QED
  BY <1>1, <1>3, <1>4

\* A Read of readNext keeps the invariant.
LEMMA ReadNextKeeps ==
    ASSUME HSInv, ReadNext, UNCHANGED lvars
    PROVE  Paths' /\ Talk' /\ Aligned' /\ Bounded' /\ Returned' /\ Blame'
<1>1. PICK r \in ReadResults(need - Len(rbuf)) : DidRead(r) /\ rbuf' = rbuf \o Segment(r) /\ readErr' = r.err
  BY DEF ReadNext
<1>2. /\ Reading /\ Lacking
      /\ UNCHANGED <<cfg, pc, method, msgStart, readStage, part, bound, he, sent, stream, state, apc, aerr, peer>>
  BY DEF ReadNext, lvars
<1>3. need - Len(rbuf) \in Nat /\ Len(rbuf) \in Nat
  BY <1>2, NeedFacts DEF HSInv
<1>4. /\ r.m \in Nat /\ r.m <= need - Len(rbuf) /\ taken' = taken + r.m /\ taken' \in Nat
      /\ r.err = "EOF" => proxy' = "EOF"
      /\ proxy = "EOF" => proxy' = "EOF"
  BY <1>1, <1>3, ReadFacts DEF HSInv
<1>5. /\ rbuf' \in Seq(Bytes) /\ Len(rbuf') = Len(rbuf) + r.m
      /\ \A j \in 1 .. Len(rbuf) : rbuf'[j] = rbuf[j]
      /\ \A j \in 1 .. r.m : rbuf'[Len(rbuf) + j] = stream[taken + j]
  BY <1>1, <1>2, ReadNextSome, Zenon DEF HSInv
<1>6. /\ Cur' = Cur /\ Base' = Base /\ Stop' = Stop /\ ReplyAt' = ReplyAt
      /\ Live /\ Cur \in 1 .. Len(sent) + 1 /\ Len(sent) \in Nat
      /\ pc # "accept" => Cur <= ReplyAt
      /\ pc = "accept" => Cur = ReplyAt + 1
      /\ Stop = Cur \/ Stop = ReplyAt
  BY <1>2, ReadingOn
<1>7. Live' /\ (Reading' <=> Reading) /\ pc \notin {"accepted", "config", "dial", "write", "authRead"}
  BY <1>2, <1>6 DEF Live, NoErr, Reading
<1>8. /\ (\A m : Good(m)' <=> Good(m)) /\ Version' = Version /\ (initOK' <=> initOK)
      /\ (Sequential5' <=> Sequential5) /\ (HasPipe' <=> HasPipe)
      /\ (\A i : EndOf(i)' = EndOf(i))
  BY <1>2, SameCfg, SameSent
<1>9. Paths'
  BY <1>1, <1>2, <1>4, <1>6, <1>7, <1>8 DEF HSInv, Paths
<1>10. Stop <= Len(sent) => taken' <= EndOf(Stop)
  BY <1>2, <1>4, NoOverread DEF HSInv
<1>11. ASSUME pc # "accept" PROVE Talk' /\ Bounded' /\ Returned' /\ Blame'
  <2>1. ReplyAt <= Len(sent) => taken' <= EndOf(ReplyAt)
    BY <1>4, <1>6, <1>10, <1>11, BeforeReply
  <2> QED
    BY <1>2, <1>6, <1>7, <1>10, <1>11, <2>1, GoesOn DEF Reading
<1>12. ASSUME pc = "accept" PROVE Talk' /\ Bounded' /\ Returned' /\ Blame'
  <2>1. Talk'
    BY <1>2, SameTalk DEF HSInv
  <2>2. Stop = Cur /\ Cur = ReplyAt + 1 /\ ReplyAt \in {1, 2, 3}
    BY <1>6, <1>12, TalkFacts DEF Stop, HSInv
  <2>3. EndOf(Stop)' = EndOf(Stop) /\ EndOf(ReplyAt + 1)' = EndOf(ReplyAt + 1)
    BY <1>6, <1>8 DEF EndOf
  <2>4. Bounded'
    BY <1>2, <1>6, <1>10, <1>12, <2>2, <2>3 DEF Bounded
  <2>5. Returned'
    BY <1>2, <1>6, <1>12 DEF HSInv, Returned, Paths
  <2>6. Blame'
    BY <1>7 DEF Blame
  <2> QED
    BY <2>1, <2>4, <2>5, <2>6
<1>13. Aligned'
  <2>1. /\ Cur - 1 <= Len(sent) /\ \A i \in 1 .. Cur - 1 : Good(sent[i])
        /\ Version # 4 /\ Cur > 1 => sent[1].code = method
        /\ taken = Base + Len(Got) /\ \A j \in 1 .. Len(Got) : Got[j] = stream[Base + j]
    BY <1>6, <1>7 DEF HSInv, Aligned
  <2>2. msgStart \in Nat /\ msgStart <= Len(rbuf) /\ rbuf \in Seq(Bytes) /\ taken \in Nat
    BY DEF HSInv, TypeOK, HandshakeTypeOK
  <2>3. Got = Pending /\ Got' = Pending' /\ Base \in Nat
    BY <1>2, <1>6, <1>7, AtCur DEF Got, HSInv
  <2>4. /\ Len(Pending) = Len(rbuf) - msgStart
        /\ \A j \in 1 .. Len(rbuf) - msgStart : Pending[j] = rbuf[msgStart + j]
    BY <2>2, SliceRest, Zenon DEF Pending
  <2>5. /\ Len(Pending') = Len(rbuf') - msgStart
        /\ \A j \in 1 .. Len(rbuf') - msgStart : Pending'[j] = rbuf'[msgStart + j]
    <3>1. msgStart <= Len(rbuf')
      BY <1>3, <1>4, <1>5, <2>2
    <3>2. Pending' = SubSeq(rbuf', msgStart + 1, Len(rbuf'))
      BY <1>2 DEF Pending
    <3> QED
      BY <1>5, <2>2, <3>1, <3>2, SliceRest, SMTT(30)
  <2> DEFINE R == Len(rbuf)
             m == r.m
             s == msgStart
             t == taken
             B == Base
             p == Pending
             q == Pending'
             x == rbuf
             y == rbuf'
  <2>6. /\ R \in Nat /\ m \in Nat /\ s \in Nat /\ s <= R /\ t \in Nat /\ B \in Nat /\ t = B + (R - s)
        /\ Len(p) = R - s /\ Len(q) = R + m - s
    BY <1>3, <1>4, <1>5, <2>1, <2>2, <2>3, <2>4, <2>5
  <2>7. \A j \in 1 .. R - s : p[j] = x[s + j]
    BY <2>4
  <2>8. \A j \in 1 .. R - s : p[j] = stream[B + j]
    BY <2>1, <2>3, <2>4
  <2>9. \A j \in 1 .. R + m - s : q[j] = y[s + j]
    <3>1. Len(y) = R + m
      BY <1>5
    <3>2. \A j \in 1 .. Len(y) - s : q[j] = y[s + j]
      BY <2>5
    <3> HIDE DEF R, m, s, t, B, p, q, x, y
    <3>3. Len(y) - s = R + m - s
      BY <2>6, <3>1
    <3> QED
      BY <3>2, <3>3, Zenon
  <2>10. (\A j \in 1 .. R : y[j] = x[j]) /\ \A j \in 1 .. m : y[R + j] = stream[t + j]
    BY <1>5
  <2>11. t + m = B + Len(q) /\ \A j \in 1 .. Len(q) : q[j] = stream[B + j]
    <3> HIDE DEF R, m, s, t, B, p, q, x, y
    <3>1. t + m = B + Len(q)
      BY <2>6
    <3>2. ASSUME NEW j \in 1 .. R + m - s PROVE q[j] = stream[B + j]
      <4>1. CASE j <= R - s
        <5>1. j \in 1 .. R - s /\ s + j \in 1 .. R
          BY <2>6, <4>1
        <5> QED
          BY <2>7, <2>8, <2>9, <2>10, <5>1
      <4>2. CASE ~(j <= R - s)
        <5>1. PICK k \in 1 .. m : s + j = R + k /\ t + k = B + j
          <6>1. s + j - R \in 1 .. m
            BY <2>6, <4>2
          <6> QED
            BY <2>6, <6>1
        <5> QED
          BY <2>9, <2>10, <5>1
      <4> QED
        BY <4>1, <4>2
    <3> QED
      BY <2>6, <3>1, <3>2
  <2>12. taken' = Base' + Len(Got') /\ \A j \in 1 .. Len(Got') : Got'[j] = stream[Base + j]
    BY <1>4, <1>6, <2>3, <2>11, Zenon
  <2> QED
    BY <1>2, <1>6, <1>7, <1>8, <2>1, <2>12 DEF Aligned
<1> QED
  BY <1>9, <1>11, <1>12, <1>13

\* An Authenticator that has nothing waits for more.
LEMMA AuthEmpty ==
    ASSUME NEW b \in Seq(Bytes), Len(b) = 0
    PROVE  ParseAuthReply(b).err = "incomplete"
<1>1. b = <<>>
  OBVIOUS
<1> QED
  BY <1>1 DEF ParseAuthReply, ParseUserPassStatus, ParseCustom, checkVersion, Incomplete

\* What an Authenticator that has b of its message knows.
LEMMA AuthHas ==
    ASSUME TypeOK, Talk, NEW c \in 1 .. Len(sent), sent[c].kind = "auth",
           NEW b \in Seq(Bytes), Agree(b, sent[c].bytes)
    PROVE  /\ ParseAuthReply(b).err \in {"nil", "incomplete", "protocol", "auth"}
           /\ ParseAuthReply(b).err = "nil" => Good(sent[c]) /\ Len(b) >= Len(sent[c].bytes)
           /\ ParseAuthReply(b).err = "incomplete" => Len(b) < Len(sent[c].bytes)
           /\ ParseAuthReply(b).err = "protocol" => sent[c].bad
           /\ ParseAuthReply(b).err = "auth" => ~sent[c].bad /\ ~Good(sent[c])
<1>1. sent[c] \in MessageType /\ Shape(sent[c])
  BY TalkFacts
<1> DEFINE e == ParseAuthReply(b).err
<1>2. /\ e \in {"nil", "incomplete", "protocol", "auth"}
      /\ e = "nil" => /\ ~sent[c].bad /\ sent[c].code = 0 /\ Len(b) >= Len(sent[c].bytes)
      /\ e = "incomplete" => Len(b) < Len(sent[c].bytes)
      /\ e = "protocol" => sent[c].bad
      /\ e = "auth" => ~sent[c].bad /\ sent[c].code # 0
  BY <1>1, AuthMessageRead
<1> HIDE DEF e
<1>3. /\ e = "nil" => Good(sent[c])
      /\ e = "auth" => ~Good(sent[c])
  BY <1>2 DEF Good
<1> QED
  BY <1>2, <1>3 DEF e

\* A Read of Authenticate continues the message.
LEMMA AuthReadGot ==
    ASSUME HSInv, pc = "authRead",
           Len(part.b) < part.need, NEW r \in ReadResults(part.need - Len(part.b)), DidRead(r),
           part' = [part EXCEPT !.b = @ \o Segment(r)]
    PROVE  /\ part'.b \in Seq(Bytes) /\ Len(part'.b) \in Nat /\ taken' \in Nat
           /\ taken' = Base + Len(part'.b)
           /\ \A j \in 1 .. Len(part'.b) : part'.b[j] = stream[Base + j]
           /\ Cur <= Len(sent) => Agree(part'.b, sent[Cur].bytes) /\ taken' <= EndOf(Cur)
           /\ Cur > Len(sent) => Len(part'.b) = 0
           /\ r.err = "EOF" => proxy' = "EOF"
           /\ proxy = "EOF" => proxy' = "EOF"
           /\ r.err \in {"nil", "EOF", "reset", "timeout", "closed"}
<1>1. /\ part.b \in Seq(Bytes) /\ part.need \in Nat /\ Len(part.b) \in Nat /\ part.need - Len(part.b) \in Nat
  BY AuthReadFacts DEF HSInv
<1>2. /\ r.m \in Nat /\ r.m <= Len(stream) - taken /\ r.m <= part.need - Len(part.b)
      /\ taken' = taken + r.m /\ taken' \in Nat
      /\ r.err = "EOF" => proxy' = "EOF"
      /\ proxy = "EOF" => proxy' = "EOF"
      /\ r.err \in {"nil", "EOF", "reset", "timeout", "closed"}
  BY <1>1, ReadFacts DEF HSInv
<1>3. /\ part'.b \in Seq(Bytes) /\ Len(part'.b) = Len(part.b) + r.m
      /\ \A j \in 1 .. Len(part.b) : part'.b[j] = part.b[j]
      /\ \A j \in 1 .. r.m : part'.b[Len(part.b) + j] = stream[taken + j]
  <2>1. part' \in [b: Seq(Bytes), need: Nat]
    BY AuthReadSome, Zenon DEF HSInv
  <2>2. /\ Len(part'.b) = Len(part.b) + r.m
        /\ \A j \in 1 .. Len(part.b) : part'.b[j] = part.b[j]
        /\ \A j \in 1 .. r.m : part'.b[Len(part.b) + j] = stream[taken + j]
    BY AuthReadSome, Zenon DEF HSInv
  <2>3. part'.b \in Seq(Bytes)
    BY <2>1, Zenon
  <2> QED
    BY <2>2, <2>3, Zenon
<1>4. Live /\ Got = part.b /\ pc # "accepted"
  BY DEF Live, Got
<1>5. /\ Base \in Nat /\ Len(stream) \in Nat /\ taken \in Nat
      /\ Cur > Len(sent) => Base = Len(stream)
      /\ Cur <= Len(sent) => sent[Cur].at = Base
      /\ Cur \in 1 .. 4 /\ Len(sent) \in Nat
  BY <1>4, AtCur, TalkFacts DEF HSInv
<1>6. taken = Base + Len(part.b) /\ \A j \in 1 .. Len(part.b) : part.b[j] = stream[Base + j]
  BY <1>4 DEF HSInv, Aligned
<1> DEFINE p == part.b
           q == part'.b
           m == r.m
           B == Base
           t == taken
           L == Len(p)
<1>7. /\ q \in Seq(Bytes) /\ Len(q) = L + m /\ m \in Nat /\ L \in Nat /\ B \in Nat /\ t = B + L
      /\ \A j \in 1 .. L : q[j] = p[j]
      /\ \A j \in 1 .. m : q[L + j] = stream[t + j]
      /\ \A j \in 1 .. L : p[j] = stream[B + j]
  BY <1>1, <1>2, <1>3, <1>5, <1>6, Zenon
<1>8. t + m = B + Len(q) /\ Len(q) \in Nat /\ \A j \in 1 .. Len(q) : q[j] = stream[B + j]
  <2> HIDE DEF p, q, m, B, t, L
  <2>1. ASSUME NEW j \in 1 .. L + m PROVE q[j] = stream[B + j]
    <3>1. CASE j <= L
      BY <1>7, <3>1
    <3>2. CASE ~(j <= L)
      <4>1. PICK k \in 1 .. m : j = L + k /\ t + k = B + j
        <5>1. j - L \in 1 .. m
          BY <1>7, <3>2
        <5> QED
          BY <1>7, <5>1
      <4> QED
        BY <1>7, <4>1
    <3> QED
      BY <3>1, <3>2
  <2> QED
    BY <1>7, <2>1
<1>9. Cur > Len(sent) => Len(q) = 0
  BY <1>2, <1>3, <1>5, <1>6, <1>1, SMTT(30)
<1>10. Cur <= Len(sent) => taken' <= EndOf(Cur)
  BY <1>2, NoOverreadAuth DEF HSInv
<1>11. Cur <= Len(sent) => Agree(q, sent[Cur].bytes)
  <2> SUFFICES ASSUME Cur <= Len(sent), NEW j \in 1 .. Len(q), j <= Len(sent[Cur].bytes)
               PROVE  q[j] = sent[Cur].bytes[j]
    BY DEF Agree
  <2>1. /\ Cur \in 1 .. Len(sent) /\ sent[Cur].at = B /\ Len(sent[Cur].bytes) \in Nat
    BY <1>5, TalkFacts DEF HSInv
  <2>2. \A k \in 1 .. Len(sent[Cur].bytes) : stream[sent[Cur].at + k] = sent[Cur].bytes[k]
    BY <2>1, Zenon DEF HSInv, Talk
  <2>3. j \in 1 .. Len(sent[Cur].bytes)
    BY <2>1
  <2>4. stream[B + j] = sent[Cur].bytes[j]
    BY <2>1, <2>2, <2>3
  <2> HIDE DEF q, B
  <2> QED
    BY <1>8, <2>4
<1> QED
  BY <1>2, <1>3, <1>7, <1>8, <1>9, <1>10, <1>11, Zenon

\* An answer that is not good is the last one.
LEMMA LastBad ==
    ASSUME TypeOK, Talk, NEW c \in 1 .. Len(sent), ~Good(sent[c])
    PROVE  c = Len(sent)
<1>1. Len(sent) \in Nat
  BY TalkFacts
<1>2. c < Len(sent) => Good(sent[c])
  BY DEF Talk
<1> QED
  BY <1>1, <1>2

\* A refusal, or nonsense, that Authenticate met.
LEMMA AuthRefused ==
    ASSUME HSInv, pc = "authRead", UNCHANGED <<cfg, sent, stream>>, pc' = "settle",
           NEW b \in Seq(Bytes), taken' \in Nat,
           Cur <= Len(sent) => Agree(b, sent[Cur].bytes), Cur > Len(sent) => Len(b) = 0,
           NEW e \in {"auth", "protocol"}, ParseAuthReply(b).err = e, Fail("auth", e)
    PROVE  Blame' /\ ~Live'
<1>1. he'.stage = "auth" /\ he'.err = e /\ he' # NoErr
  BY DEF Fail, NoErr
<1>2. Live /\ ~Live'
  BY <1>1 DEF Live, NoErr
<1>3. Cur = 2 /\ ReplyAt = 3 /\ KindAt(Cur) = "auth"
  BY <1>2, CurKind DEF HSInv
<1>4. Len(sent) \in Nat
  BY TalkFacts DEF HSInv
<1>5. Cur \in 1 .. Len(sent)
  BY <1>3, <1>4, AuthEmpty
<1>6. sent[Cur].kind = "auth"
  BY <1>3, <1>5, TalkFacts DEF HSInv
<1>7. /\ e = "protocol" => sent[Cur].bad
      /\ e = "auth" => ~sent[Cur].bad /\ ~Good(sent[Cur])
  BY <1>5, <1>6, AuthHas DEF HSInv
<1>8. ~Good(sent[Cur])
  BY <1>7 DEF Good
<1>9. Cur = Len(sent)
  BY <1>5, <1>8, LastBad DEF HSInv
<1>10. \A i \in 1 .. Len(sent) : i > Cur /\ i <= ReplyAt => taken' <= sent[i].at
  BY <1>4, <1>9
<1>11. he'.stage \in Prefix /\ he'.err \in {"protocol", "method", "auth", "reply"} =>
             /\ Cur \in 1 .. Len(sent) /\ KindAt(Cur) = he'.stage
             /\ ~Good(sent[Cur]) \/ ~checkBound(AsSent(sent[Cur].addr))
  BY <1>1, <1>3, <1>5, <1>8
<1>12. ~(he'.stage \in Prefix /\ he'.err = "eof") /\ Cur # ReplyAt
  BY <1>1, <1>3
<1>13. ~sent[Cur].bad => he'.err = "auth"
  BY <1>1, <1>7
<1>14. Blame'
  BY <1>2, <1>10, <1>11, <1>12, <1>13, Fails
<1> QED
  BY <1>2, <1>14

\* A Read of Authenticate that ended before the message did.
LEMMA AuthCut ==
    ASSUME HSInv, pc = "authRead", UNCHANGED <<cfg, sent, stream>>, pc' = "settle",
           NEW b \in Seq(Bytes), taken' \in Nat, taken' = Base + Len(b),
           Cur <= Len(sent) => Agree(b, sent[Cur].bytes),
           ParseAuthReply(b).err = "incomplete",
           NEW e \in {"EOF", "reset", "timeout", "closed"}, e = "EOF" => proxy' = "EOF",
           Fail("auth", Truncated(e))
    PROVE  Blame' /\ ~Live'
<1>1. /\ he'.stage = "auth" /\ he'.err \in {"eof", "reset", "timeout", "closed"}
      /\ he' # NoErr /\ (he'.err = "eof" => e = "EOF")
  BY DEF Fail, NoErr, Truncated
<1>2. Live /\ ~Live'
  BY <1>1 DEF Live, NoErr
<1>3. Cur = 2 /\ ReplyAt = 3 /\ KindAt(Cur) = "auth"
  BY <1>2, CurKind DEF HSInv
<1>4. Len(sent) \in Nat /\ Base \in Nat /\ (Cur <= Len(sent) => sent[Cur].at = Base)
  BY <1>2, TalkFacts, AtCur DEF HSInv
<1>5. Cur <= Len(sent) => taken' < EndOf(Cur)
  <2> SUFFICES ASSUME Cur <= Len(sent) PROVE taken' < EndOf(Cur)
    OBVIOUS
  <2>1. Cur \in 1 .. Len(sent)
    BY <1>3, <1>4
  <2>2. sent[Cur].kind = "auth" /\ EndOf(Cur) = sent[Cur].at + Len(sent[Cur].bytes) /\ Len(sent[Cur].bytes) \in Nat
    BY <1>3, <2>1, TalkFacts, Zenon DEF HSInv
  <2>3. Len(b) < Len(sent[Cur].bytes)
    BY <2>1, <2>2, AuthHas DEF HSInv
  <2> QED
    BY <1>4, <2>2, <2>3
<1>6. ASSUME NEW i \in 1 .. Len(sent), i > Cur, i <= ReplyAt PROVE taken' <= sent[i].at
  <2>1. Cur \in 1 .. Len(sent) /\ Cur < i
    BY <1>3, <1>4, <1>6
  <2>2. EndOf(Cur) <= sent[i].at /\ EndOf(Cur) \in Nat /\ sent[i].at \in Nat
    BY <2>1, TalkFacts, Zenon DEF HSInv, Talk
  <2> QED
    BY <1>5, <2>1, <2>2
<1>7. /\ ~(he'.stage \in Prefix /\ he'.err \in {"protocol", "method", "auth", "reply"}) /\ Cur # ReplyAt
      /\ he'.stage \in Prefix /\ he'.err = "eof" =>
             proxy' = "EOF" /\ KindAt(Cur) = he'.stage /\ (Cur <= Len(sent) => taken' < EndOf(Cur))
  BY <1>1, <1>3, <1>5
<1>8. ~(Cur <= Len(sent) /\ taken' >= EndOf(Cur))
  <2>1. Cur <= Len(sent) => EndOf(Cur) \in Nat
    BY <1>3, <1>4, TalkFacts DEF HSInv
  <2> QED
    BY <1>5, <2>1
<1>9. Blame'
  BY <1>2, <1>6, <1>7, <1>8, Fails
<1> QED
  BY <1>2, <1>9

\* A Read of Authenticate keeps the invariant.
LEMMA AuthReadKeeps ==
    ASSUME HSInv, AuthRead, UNCHANGED lvars
    PROVE  Paths' /\ Talk' /\ Aligned' /\ Bounded' /\ Returned' /\ Blame'
<1>1. /\ pc = "authRead" /\ UNCHANGED <<cfg, method, rbuf, msgStart, readErr, readStage, bound, sent, stream,
                                        state, apc, aerr, peer>>
  BY DEF AuthRead, lvars
<1>2. Live /\ he = NoErr /\ Got = part.b /\ ~Reading
  BY <1>1 DEF Live, HSInv, Paths, Got, Reading
<1>3. Cur = 2 /\ ReplyAt = 3 /\ KindAt(Cur) = "auth" /\ Sequential5 /\ Stop = Cur /\ initOK /\ Version # 4
  BY <1>1, <1>2, CurKind DEF HSInv, Paths, Stop
<1>4. /\ part.b \in Seq(Bytes) /\ Len(part.b) \in Nat /\ taken = Base + Len(part.b) /\ taken \in Nat
      /\ \A j \in 1 .. Len(part.b) : part.b[j] = stream[Base + j]
      /\ Cur <= Len(sent) => Agree(part.b, sent[Cur].bytes)
      /\ Cur > Len(sent) => Len(part.b) = 0
      /\ msgStart = Len(rbuf) /\ Base \in Nat
  BY <1>1, <1>2, GotFacts, AtCur, TalkFacts DEF HSInv, Aligned
<1>5. /\ ReplyAt' = ReplyAt /\ (\A i : EndOf(i)' = EndOf(i)) /\ (\A m : Good(m)' <=> Good(m))
      /\ Version' = Version /\ (initOK' <=> initOK) /\ (Sequential5' <=> Sequential5) /\ (HasPipe' <=> HasPipe)
  BY <1>1, SameSent, SameCfg
<1>6. Cur <= Len(sent) => taken <= EndOf(Cur)
  BY <1>1, <1>2, <1>3 DEF HSInv, Bounded
<1>7. /\ Cur - 1 <= Len(sent) /\ \A i \in 1 .. Cur - 1 : Good(sent[i])
      /\ sent[1].code = method /\ Len(sent) \in Nat /\ method # MethodNoAuth
  BY <1>1, <1>2, <1>3, TalkFacts DEF HSInv, Aligned, Paths
<1>8. ASSUME pc' = pc, he' = he, taken' \in Nat, taken' = Base + Len(part'.b),
             \A j \in 1 .. Len(part'.b) : part'.b[j] = stream[Base + j],
             Cur <= Len(sent) => taken' <= EndOf(Cur), proxy = "EOF" => proxy' = "EOF"
      PROVE  Paths' /\ Talk' /\ Aligned' /\ Bounded' /\ Returned' /\ Blame'
  <2>1. Cur' = Cur /\ Base' = Base /\ Stop' = Stop
    BY <1>1, <1>8, ReadingOn
  <2>2. Live' /\ ~Reading' /\ Got' = part'.b
    BY <1>1, <1>2, <1>8 DEF Live, NoErr, Reading, Got
  <2>3. ReplyAt <= Len(sent) => taken' <= EndOf(ReplyAt)
    BY <1>3, <1>8, BeforeReply
  <2>4. Talk' /\ Bounded' /\ Returned' /\ Blame'
    BY <1>1, <1>3, <1>8, <2>1, <2>2, <2>3, GoesOn
  <2>5. Paths'
    BY <1>1, <1>2, <1>3, <1>5, <1>8 DEF HSInv, Paths
  <2>6. Aligned'
    BY <1>1, <1>4, <1>5, <1>7, <1>8, <2>1, <2>2 DEF Aligned
  <2> QED
    BY <2>4, <2>5, <2>6
<1>9. ASSUME pc' = "settle", ~Live', Blame', taken' \in Nat, Cur <= Len(sent) => taken' <= EndOf(Cur),
             proxy = "EOF" => proxy' = "EOF"
      PROVE  Paths' /\ Talk' /\ Aligned' /\ Bounded' /\ Returned' /\ Blame'
  <2>1. ReplyAt <= Len(sent) => taken' <= EndOf(ReplyAt)
    BY <1>3, <1>9, BeforeReply
  <2>2. readErr' = "EOF" => proxy' = "EOF"
    BY <1>1, <1>9 DEF HSInv, Paths
  <2> QED
    BY <1>1, <1>9, <2>1, <2>2, FailedRest
<1>10. CASE /\ part' = [b |-> part.b, need |-> ParseAuthReply(part.b).n]
            /\ UNCHANGED <<pc, he, taken, proxy>>
  <2>1. part'.b = part.b
    BY <1>10
  <2> QED
    BY <1>4, <1>6, <1>8, <1>10, <2>1
<1>11. CASE /\ ParseAuthReply(part.b).err = "nil" /\ pc' = "request"
            /\ UNCHANGED <<part, he, taken, proxy>>
  <2>1. Cur \in 1 .. Len(sent)
    BY <1>3, <1>4, <1>7, <1>11, AuthEmpty
  <2>2. /\ sent[Cur].kind = "auth" /\ EndOf(Cur) = sent[Cur].at + Len(sent[Cur].bytes)
        /\ sent[Cur].at = Base /\ Len(sent[Cur].bytes) \in Nat /\ EndOf(Cur) \in Nat
    BY <1>2, <1>3, <2>1, TalkFacts, AtCur DEF HSInv
  <2>3. Good(sent[Cur]) /\ Len(part.b) >= Len(sent[Cur].bytes)
    BY <1>4, <1>11, <2>1, <2>2, AuthHas DEF HSInv
  <2>4. taken = EndOf(2)
    BY <1>3, <1>4, <1>6, <2>1, <2>2, <2>3
  <2>5. Live' /\ Cur' = 3 /\ ~Reading' /\ Stop' = 3
    BY <1>2, <1>3, <1>5, <1>11 DEF Live, NoErr, Cur, Reading, Stop
  <2>6. Base' = EndOf(2) /\ Got' = Pending /\ Len(Pending) = 0
    <3>1. Base' = EndOf(2)'
      BY <2>5 DEF Base, EndOf
    <3>2. Got' = Pending
      BY <1>1, <1>11 DEF Got, Pending
    <3>3. Len(Pending) = 0
      <4>1. Len(Pending) = Len(rbuf) - msgStart
        BY <1>1, <1>2, GotFacts DEF HSInv
      <4>2. msgStart \in Nat
        BY DEF HSInv, TypeOK, HandshakeTypeOK
      <4> QED
        BY <1>4, <4>1, <4>2
    <3> QED
      BY <1>5, <3>1, <3>2, <3>3
  <2>7. Aligned'
    <3>1. Cur' - 1 <= Len(sent) /\ \A i \in 1 .. Cur' - 1 : Good(sent[i])
      BY <1>3, <1>7, <2>1, <2>3, <2>5
    <3>2. taken' = Base' + Len(Got') /\ \A j \in 1 .. Len(Got') : FALSE
      BY <1>4, <1>11, <2>4, <2>6
    <3> QED
      BY <1>1, <1>4, <1>5, <1>7, <1>11, <2>5, <3>1, <3>2 DEF Aligned
  <2>8. ReplyAt <= Len(sent) => taken <= EndOf(ReplyAt)
    BY <1>1 DEF HSInv, Bounded
  <2>9. Talk' /\ Bounded' /\ Returned' /\ Blame'
    BY <1>1, <1>3, <1>11, <2>5, <2>8, GoesOn
  <2>10. Paths'
    BY <1>1, <1>2, <1>3, <1>5, <1>11, <2>5 DEF HSInv, Paths
  <2> QED
    BY <2>7, <2>9, <2>10
<1>12. CASE /\ ParseAuthReply(part.b).err \in {"auth", "protocol"}
            /\ pc' = "settle" /\ Fail("auth", ParseAuthReply(part.b).err)
            /\ UNCHANGED <<part, taken, proxy>>
  <2>1. PICK e \in {"auth", "protocol"} : ParseAuthReply(part.b).err = e /\ Fail("auth", e)
    BY <1>12
  <2>2. Blame' /\ ~Live'
    BY <1>1, <1>4, <1>12, <2>1, AuthRefused
  <2> QED
    BY <1>4, <1>6, <1>9, <1>12, <2>2
<1>13. ASSUME NEW r \in ReadResults(part.need - Len(part.b)),
              Len(part.b) < part.need, DidRead(r), part' = [part EXCEPT !.b = @ \o Segment(r)],
              \/ UNCHANGED <<pc, he>>
              \/ /\ Len(part'.b) < part.need /\ pc' = "settle"
                 /\ \/ ParseAuthReply(part'.b).err = "protocol" /\ Fail("auth", "protocol")
                    \/ /\ ParseAuthReply(part'.b).err = "incomplete" /\ r.err # "nil"
                       /\ Fail("auth", Truncated(r.err))
       PROVE  Paths' /\ Talk' /\ Aligned' /\ Bounded' /\ Returned' /\ Blame'
  <2>1. /\ part'.b \in Seq(Bytes) /\ Len(part'.b) \in Nat /\ taken' \in Nat
        /\ taken' = Base + Len(part'.b)
        /\ \A j \in 1 .. Len(part'.b) : part'.b[j] = stream[Base + j]
        /\ Cur <= Len(sent) => Agree(part'.b, sent[Cur].bytes) /\ taken' <= EndOf(Cur)
        /\ Cur > Len(sent) => Len(part'.b) = 0
        /\ r.err = "EOF" => proxy' = "EOF"
        /\ proxy = "EOF" => proxy' = "EOF"
        /\ r.err \in {"nil", "EOF", "reset", "timeout", "closed"}
    BY <1>1, <1>13, AuthReadGot
  <2>2. CASE UNCHANGED <<pc, he>>
    BY <1>8, <2>1, <2>2
  <2>3. CASE pc' = "settle" /\ ParseAuthReply(part'.b).err = "protocol" /\ Fail("auth", "protocol")
    <3>1. Blame' /\ ~Live'
      BY <1>1, <2>1, <2>3, AuthRefused
    <3> QED
      BY <1>9, <2>1, <2>3, <3>1
  <2>4. CASE /\ pc' = "settle" /\ ParseAuthReply(part'.b).err = "incomplete" /\ r.err # "nil"
             /\ Fail("auth", Truncated(r.err))
    <3>1. Blame' /\ ~Live'
      BY <1>1, <2>1, <2>4, AuthCut
    <3> QED
      BY <1>9, <2>1, <2>4, <3>1
  <2> QED
    BY <1>13, <2>2, <2>3, <2>4
<1> QED
  BY <1>10, <1>11, <1>12, <1>13, AuthReadSteps DEF HSInv

\* readNext has a message: what is left of what was read starts the next one.
LEMMA Consumed ==
    ASSUME HSInv, Reading, Parse(Pending).err = "nil",
           UNCHANGED <<cfg, sent, stream, rbuf, taken>>,
           msgStart' = msgStart + Parse(Pending).n,
           Live', Cur' = Cur + 1, Good(sent[Cur]),
           pc' \notin {"authRead", "accepted", "config", "dial", "write"},
           Version # 4 => sent[1].code = method',
           Stop = Cur \/ Reading'
    PROVE  Aligned' /\ (Stop = Cur => taken = EndOf(Cur))
<1>1. Live /\ pc \notin {"accepted", "authRead", "config", "dial", "write"}
  BY DEF Live, Reading
<1>2. Got = Pending /\ Got' = Pending'
  BY <1>1 DEF Got
<1>3. /\ Cur \in 1 .. Len(sent) /\ Parse(Pending).n = Len(sent[Cur].bytes)
      /\ Len(Pending) >= Len(sent[Cur].bytes)
  BY ReaderAt DEF HSInv
<1>4. /\ Base \in Nat /\ sent[Cur].at = Base /\ Len(sent) \in Nat /\ taken \in Nat
      /\ Len(sent[Cur].bytes) \in Nat /\ EndOf(Cur) = Base + Len(sent[Cur].bytes)
      /\ \A i \in 1 .. Len(sent) : i < Cur => Good(sent[i])
  BY <1>1, <1>3, AtCur, TalkFacts DEF HSInv
<1>5. /\ taken = Base + Len(Pending) /\ \A j \in 1 .. Len(Pending) : Pending[j] = stream[Base + j]
  BY <1>1, <1>2 DEF HSInv, Aligned
<1>6. /\ msgStart \in Nat /\ msgStart <= Len(rbuf) /\ rbuf \in Seq(Bytes) /\ Len(rbuf) \in Nat
  BY DEF HSInv, TypeOK, HandshakeTypeOK
<1>7. \A i : EndOf(i)' = EndOf(i)
  BY SameSent
<1>8. Base' = EndOf(Cur)
  <2>1. Cur \in Nat /\ Cur' = Cur + 1 /\ Cur' # 1 /\ Cur' - 1 = Cur
    BY <1>3, <1>4
  <2>2. Base' = EndOf(Cur - 1)'
    BY <2>1 DEF Base
  <2>3. EndOf(Cur - 1)' = EndOf(Cur)
    BY <2>1 DEF EndOf
  <2> QED
    BY <2>2, <2>3
<1>9. /\ Len(Pending) = Len(rbuf) - msgStart
      /\ \A j \in 1 .. Len(rbuf) - msgStart : Pending[j] = rbuf[msgStart + j]
  BY <1>6, SliceRest DEF Pending
<1> DEFINE l == Len(sent[Cur].bytes)
           R == Len(rbuf)
           s == msgStart
           B == Base
           t == taken
           p == Pending
           q == Pending'
           x == rbuf
<1>10. msgStart' = s + l
  BY <1>3
<1>11. /\ l \in Nat /\ R \in Nat /\ s \in Nat /\ B \in Nat /\ s <= R /\ l <= R - s /\ t = B + (R - s)
       /\ Len(p) = R - s
  BY <1>3, <1>4, <1>5, <1>6, <1>9
<1>12. /\ Len(q) = R - (s + l)
       /\ \A j \in 1 .. R - (s + l) : q[j] = x[s + l + j]
  <2> DEFINE a == s + l
  <2>1. q = SubSeq(x, a + 1, Len(x)) /\ x \in Seq(Bytes) /\ R = Len(x)
    BY <1>6, <1>10 DEF Pending
  <2>2. a \in Nat /\ a <= R
    BY <1>11
  <2> HIDE DEF l, R, s, B, t, p, q, x, a
  <2>3. Len(q) = R - a /\ \A j \in 1 .. R - a : q[j] = x[a + j]
    BY <2>1, <2>2, SliceRest
  <2> QED
    BY <2>3 DEF a
<1>13. \A j \in 1 .. R - s : x[s + j] = stream[B + j]
  BY <1>5, <1>9
<1>14. t = B + l + Len(q) /\ \A j \in 1 .. Len(q) : q[j] = stream[B + l + j]
  <2> HIDE DEF l, R, s, B, t, p, q, x
  <2>1. t = B + l + Len(q)
    BY <1>11, <1>12
  <2>2. ASSUME NEW j \in 1 .. R - (s + l) PROVE q[j] = stream[B + l + j]
    <3>1. PICK k \in 1 .. R - s : k = l + j
      BY <1>11
    <3>2. s + l + j = s + k /\ B + l + j = B + k
      BY <1>11, <3>1
    <3> QED
      BY <1>12, <1>13, <3>2
  <2> QED
    BY <1>12, <2>1, <2>2
<1>15. taken' = Base' + Len(Got') /\ \A j \in 1 .. Len(Got') : Got'[j] = stream[Base' + j]
  BY <1>2, <1>4, <1>8, <1>14
<1>16. Stop = Cur => taken = EndOf(Cur) /\ msgStart' = Len(rbuf)
  <2> SUFFICES ASSUME Stop = Cur PROVE taken = EndOf(Cur) /\ msgStart' = Len(rbuf)
    OBVIOUS
  <2>1. taken <= EndOf(Cur)
    BY <1>1, <1>3, <1>4 DEF HSInv, Bounded
  <2>2. t <= B + l
    BY <1>4, <2>1
  <2>3. EndOf(Cur) = B + l
    BY <1>4
  <2>4. t = B + l /\ s + l = R
    <3> HIDE DEF l, R, s, B, t, p, q, x
    <3> QED
      BY <1>11, <2>2
  <2> QED
    BY <1>10, <2>3, <2>4
<1>17. Cur' - 1 <= Len(sent) /\ \A i \in 1 .. Cur' - 1 : Good(sent[i])
  <2>1. Cur' - 1 = Cur
    BY <1>3
  <2>2. \A i \in 1 .. Cur : i \in 1 .. Len(sent) /\ (i < Cur \/ i = Cur)
    BY <1>3
  <2> QED
    BY <1>3, <1>4, <2>1, <2>2
<1>18. /\ (\A m : Good(m)' <=> Good(m)) /\ Version' = Version
  BY SameCfg
<1> QED
  BY <1>15, <1>16, <1>17, <1>18 DEF Aligned

\* readNext gave up in the middle of a message.
LEMMA ReadCut ==
    ASSUME HSInv, Reading, ~Lacking, pc # "accept", UNCHANGED <<cfg, sent, stream, taken, proxy>>,
           pc' = "settle", Parse(Pending).err = "incomplete",
           he'.stage = KindAt(Cur), he' # NoErr,
           he'.err \notin {"protocol", "method", "auth", "reply"}, he'.err = "eof" => proxy = "EOF",
           ~(pc = "reply" /\ Cur <= Len(sent) /\ Refused(Cur) /\ Len(Pending) > 1)
    PROVE  Blame' /\ ~Live'
<1>1. Live /\ ~Live' /\ pc \notin {"accepted", "authRead"}
  BY DEF Live, Reading, NoErr
<1>2. /\ Cur \in 1 .. 4 /\ Len(sent) \in Nat /\ Base \in Nat /\ taken \in Nat /\ (Cur <= Len(sent) => sent[Cur].at = Base)
  BY <1>1, TalkFacts, AtCur DEF HSInv
<1>3. taken = Base + Len(Pending) /\ Len(Pending) \in Nat
  BY <1>1, GotFacts DEF HSInv, Aligned, Got
<1>4. \A i \in 1 .. Len(sent) : /\ EndOf(i) = sent[i].at + Len(sent[i].bytes) /\ Len(sent[i].bytes) \in Nat
                                /\ EndOf(i) \in Nat /\ sent[i].at \in Nat
                                /\ \A k \in 1 .. Len(sent) : i < k => EndOf(i) <= sent[k].at
  BY TalkFacts DEF HSInv, Talk
<1>5. Cur <= Len(sent) => taken < EndOf(Cur)
  <2>1. Cur <= Len(sent) => Len(Pending) < Len(sent[Cur].bytes)
    BY ReaderAt DEF HSInv
  <2>2. Cur <= Len(sent) => /\ EndOf(Cur) = Base + Len(sent[Cur].bytes) /\ Len(sent[Cur].bytes) \in Nat
    BY <1>2, <1>4
  <2> QED
    BY <1>2, <1>3, <2>1, <2>2
<1>6. ASSUME NEW i \in 1 .. Len(sent), i > Cur PROVE taken <= sent[i].at
  <2>1. Cur \in 1 .. Len(sent) /\ Cur < i
    BY <1>2, <1>6
  <2>2. EndOf(Cur) <= sent[i].at /\ EndOf(Cur) \in Nat /\ sent[i].at \in Nat
    BY <1>4, <2>1
  <2> QED
    BY <1>2, <1>5, <2>1, <2>2
<1>7. ~(Cur <= Len(sent) /\ taken >= EndOf(Cur))
  BY <1>2, <1>4, <1>5
<1>8. ~(Cur = ReplyAt /\ Cur <= Len(sent) /\ Refused(Cur) /\ taken >= sent[Cur].at + 2)
  <2> SUFFICES ASSUME Cur = ReplyAt, Cur <= Len(sent), Refused(Cur), taken >= sent[Cur].at + 2 PROVE FALSE
    OBVIOUS
  <2>1. pc = "reply"
    <3>1. pc = "method" => Cur = 1 /\ ReplyAt \in {2, 3}
      BY <1>1, CurKind DEF HSInv
    <3>2. pc = "auth" => Cur = 2 /\ ReplyAt = 3
      BY <1>1, CurKind DEF HSInv
    <3> QED
      BY <3>1, <3>2 DEF Reading
  <2>2. Len(Pending) >= 2
    BY <1>2, <1>3
  <2> QED
    BY <1>3, <2>1, <2>2
<1>9. /\ taken' \in Nat /\ ~(he'.stage \in Prefix /\ he'.err \in {"protocol", "method", "auth", "reply"})
      /\ he'.stage \in Prefix /\ he'.err = "eof" =>
           proxy' = "EOF" /\ KindAt(Cur) = he'.stage /\ (Cur <= Len(sent) => taken' < EndOf(Cur))
  BY <1>2, <1>5
<1>10. Blame'
  BY <1>1, <1>6, <1>7, <1>8, <1>9, Fails
<1> QED
  BY <1>1, <1>10

\* The message itself says no, or is malformed.
LEMMA ReadRefused ==
    ASSUME HSInv, Reading, pc # "accept", UNCHANGED <<cfg, sent, stream, taken>>, pc' = "settle",
           he'.stage = KindAt(Cur), he' # NoErr,
           he'.err \in {"protocol", "method", "auth", "reply"},
           Cur \in 1 .. Len(sent),
           ~Good(sent[Cur]) \/ (Cur = ReplyAt /\ ~checkBound(AsSent(sent[Cur].addr))),
           Cur = ReplyAt /\ Refused(Cur) /\ Len(Pending) > 1 => he'.err = "reply",
           KindAt(Cur) = "auth" /\ ~sent[Cur].bad => he'.err = "auth"
    PROVE  Blame' /\ ~Live'
<1>1. Live /\ ~Live' /\ pc \notin {"accepted", "authRead"}
  BY DEF Live, Reading, NoErr
<1>2. /\ Len(sent) \in Nat /\ Base \in Nat /\ taken \in Nat /\ sent[Cur].at = Base /\ ReplyAt \in {1, 2, 3}
  BY <1>1, TalkFacts, AtCur DEF HSInv
<1>3. taken = Base + Len(Pending) /\ Len(Pending) \in Nat
  BY <1>1, GotFacts DEF HSInv, Aligned, Got
<1>4. Cur = Len(sent) \/ Cur = ReplyAt
  BY LastBad DEF HSInv
<1>5. \A i \in 1 .. Len(sent) : i > Cur /\ i <= ReplyAt => FALSE
  BY <1>2, <1>4
<1>6. Cur = ReplyAt /\ Refused(Cur) /\ taken >= sent[Cur].at + 2 => he'.err = "reply"
  <2>1. taken >= sent[Cur].at + 2 => Len(Pending) > 1
    BY <1>2, <1>3
  <2> QED
    BY <2>1
<1>7. taken' \in Nat /\ ~(he'.stage \in Prefix /\ he'.err = "eof")
  BY <1>2
<1>8. Blame'
  BY <1>1, <1>5, <1>6, <1>7, Fails
<1> QED
  BY <1>1, <1>8

\* What a reader that goes on, or gives up, starts from.
LEMMA ReaderFacts ==
    ASSUME HSInv, Reading, pc # "accept", UNCHANGED <<cfg, sent, stream>>
    PROVE  /\ Live /\ he = NoErr /\ initOK /\ Cur \in 1 .. 4 /\ Cur <= ReplyAt /\ ReplyAt \in {1, 2, 3}
           /\ KindAt(Cur) = pc /\ Len(sent) \in Nat /\ taken \in Nat
           /\ pc = "method" => Cur = 1
           /\ pc = "auth" => Cur = 2 /\ ReplyAt = 3
           /\ pc = "reply" => Cur = ReplyAt
           /\ pc # "reply" => Version # 4
           /\ ReplyAt <= Len(sent) => taken <= EndOf(ReplyAt)
           /\ Stop <= Len(sent) => taken <= EndOf(Stop)
           /\ Stop = IF Sequential5 THEN Cur ELSE ReplyAt
           /\ ReplyAt' = ReplyAt /\ (\A m : Good(m)' <=> Good(m)) /\ (\A i : EndOf(i)' = EndOf(i))
           /\ Version' = Version /\ (initOK' <=> initOK) /\ (Sequential5' <=> Sequential5) /\ (HasPipe' <=> HasPipe)
<1>1. Live /\ pc \in {"method", "auth", "reply"}
  BY DEF Reading, Live
<1>2. /\ pc = "method" => Cur = 1 /\ ReplyAt \in {2, 3} /\ KindAt(Cur) = "method"
      /\ pc = "auth" => Cur = 2 /\ ReplyAt = 3 /\ KindAt(Cur) = "auth"
      /\ pc = "reply" => Cur = ReplyAt /\ KindAt(Cur) = "reply"
  BY <1>1, CurKind DEF HSInv
<1>3. Len(sent) \in Nat /\ taken \in Nat /\ ReplyAt \in {1, 2, 3}
  BY TalkFacts DEF HSInv
<1>4. Cur \in 1 .. 4 /\ Cur <= ReplyAt /\ KindAt(Cur) = pc
  BY <1>1, <1>2, <1>3
<1>5. he = NoErr /\ initOK /\ (pc # "reply" => Version # 4)
  BY <1>1 DEF HSInv, Paths
<1>6. /\ ReplyAt <= Len(sent) => taken <= EndOf(ReplyAt)
      /\ Stop <= Len(sent) => taken <= EndOf(Stop)
  BY <1>1 DEF HSInv, Bounded
<1>7. Stop = IF Sequential5 THEN Cur ELSE ReplyAt
  BY DEF Stop
<1>8. /\ ReplyAt' = ReplyAt /\ (\A m : Good(m)' <=> Good(m)) /\ (\A i : EndOf(i)' = EndOf(i))
      /\ Version' = Version /\ (initOK' <=> initOK) /\ (Sequential5' <=> Sequential5) /\ (HasPipe' <=> HasPipe)
  BY SameCfg, SameSent
<1> QED
  BY <1>1, <1>2, <1>3, <1>4, <1>5, <1>6, <1>7, <1>8

\* After a message that the handshake waited for in full, in ModeSequential, or
\* read ahead of, nothing is read past the reader's stop.
LEMMA NextBound ==
    ASSUME HSInv, Reading, pc # "accept", UNCHANGED <<cfg, sent, stream, taken>>,
           Cur' = Cur + 1, Cur \in 1 .. Len(sent), Stop = Cur => taken = EndOf(Cur),
           pc' # "accept", Stop' <= Len(sent)
    PROVE  taken' <= EndOf(Stop')
<1>1. /\ Stop = IF Sequential5 THEN Cur ELSE ReplyAt
      /\ (Sequential5' <=> Sequential5) /\ ReplyAt' = ReplyAt /\ Len(sent) \in Nat /\ taken \in Nat
      /\ ReplyAt <= Len(sent) => taken <= EndOf(ReplyAt)
  BY ReaderFacts
<1>2. CASE Sequential5
  <2>1. Stop' = Cur + 1 /\ Stop = Cur
    BY <1>1, <1>2 DEF Stop
  <2>2. Cur + 1 \in 1 .. Len(sent) /\ Cur < Cur + 1
    BY <1>1, <2>1
  <2>3. EndOf(Cur) <= sent[Cur + 1].at
    BY <2>2 DEF HSInv, Talk
  <2>4. /\ EndOf(Cur) \in Nat /\ EndOf(Cur + 1) \in Nat /\ sent[Cur + 1].at \in Nat
        /\ sent[Cur + 1].at <= EndOf(Cur + 1)
    BY <2>2, TalkFacts DEF HSInv
  <2> QED
    BY <2>1, <2>3, <2>4
<1>3. CASE ~Sequential5
  <2>1. Stop' = ReplyAt
    BY <1>1, <1>3 DEF Stop
  <2> QED
    BY <1>1, <2>1
<1> QED
  BY <1>2, <1>3

\* The METHOD keeps the invariant.
LEMMA GotMethodKeeps ==
    ASSUME HSInv, GotMethod, UNCHANGED lvars
    PROVE  Paths' /\ Talk' /\ Aligned' /\ Bounded' /\ Returned' /\ Blame'
<1>1. /\ pc = "method" /\ ~Lacking /\ Reading /\ pc # "accept"
      /\ UNCHANGED <<cfg, rbuf, readErr, part, bound, sent, stream, taken, proxy, state, apc, aerr, peer>>
  BY DEF GotMethod, lvars, proxyvars, Reading
<1>2. /\ Live /\ he = NoErr /\ initOK /\ Cur = 1 /\ ReplyAt \in {1, 2, 3}
      /\ KindAt(Cur) = "method" /\ Len(sent) \in Nat /\ taken \in Nat /\ Version # 4
      /\ ReplyAt <= Len(sent) => taken <= EndOf(ReplyAt)
      /\ Stop = IF Sequential5 THEN Cur ELSE ReplyAt
      /\ ReplyAt' = ReplyAt /\ Version' = Version /\ (initOK' <=> initOK)
      /\ (Sequential5' <=> Sequential5) /\ (HasPipe' <=> HasPipe)
  BY <1>1, ReaderFacts
<1>3. readStage = "method" /\ part = [b |-> <<>>, need |-> 0] /\ (readErr = "EOF" => proxy = "EOF")
  BY <1>1 DEF HSInv, Paths
<1>4. ASSUME pc' = "settle", Blame', ~Live'
      PROVE  Paths' /\ Talk' /\ Aligned' /\ Bounded' /\ Returned' /\ Blame'
  BY <1>1, <1>2, <1>3, <1>4, FailedRest
<1>5. CASE readNextErr # "nil" /\ pc' = "settle" /\ Fail(readStage, readNextErr)
  <2>1. he'.stage = KindAt(Cur) /\ he'.err = readNextErr /\ he' # NoErr
    BY <1>2, <1>3, <1>5 DEF Fail, NoErr
  <2>2. /\ readNextErr \in {"nil", "eof", "reset", "timeout", "closed", "protocol", "auth", "longAuth"}
        /\ readNextErr = "protocol" => Cur \in 1 .. Len(sent) /\ sent[Cur].bad
        /\ readNextErr # "auth"
        /\ readNextErr \notin {"nil", "protocol", "auth"} => Parse(Pending).err = "incomplete"
        /\ readNextErr = "eof" => proxy = "EOF"
    BY <1>1, ReadErrAt, ReaderErrs DEF HSInv
  <2>3. CASE readNextErr = "protocol"
    <3>1. Cur \in 1 .. Len(sent) /\ ~Good(sent[Cur]) /\ Cur # ReplyAt
      BY <1>2, <2>2, <2>3 DEF Good, KindAt
    <3>2. Blame' /\ ~Live'
      BY <1>1, <1>2, <1>5, <2>1, <2>3, <3>1, ReadRefused
    <3> QED
      BY <1>4, <1>5, <3>2
  <2>4. CASE readNextErr # "protocol"
    <3>1. Blame' /\ ~Live'
      BY <1>1, <1>5, <2>1, <2>2, <2>4, ReadCut
    <3> QED
      BY <1>4, <1>5, <3>1
  <2> QED
    BY <2>3, <2>4
<1>6. ASSUME readNextErr = "nil"
      PROVE  /\ Parse(Pending).err = "nil" /\ Cur \in 1 .. Len(sent) /\ ~sent[Cur].bad
             /\ Parse(Pending).method = sent[Cur].code /\ sent[Cur].kind = "method"
             /\ Good(sent[Cur]) <=> MethodOK(sent[Cur].code)
  <2>1. Parse(Pending).err = "nil"
    BY <1>1, <1>6, ReadErrAt DEF HSInv
  <2>2. /\ Cur \in 1 .. Len(sent) /\ ~sent[Cur].bad /\ Parse(Pending).method = sent[Cur].code
    BY <1>1, <2>1, ReaderAt DEF HSInv
  <2>3. sent[Cur].kind = "method"
    BY <1>2, <2>2, TalkFacts DEF HSInv
  <2> QED
    BY <2>1, <2>2, <2>3 DEF Good
<1>7. CASE /\ readNextErr = "nil" /\ ~MethodOK(Parse(Pending).method)
           /\ pc' = "settle" /\ Fail(readStage, "method")
  <2>1. he'.stage = KindAt(Cur) /\ he'.err = "method" /\ he' # NoErr
    BY <1>2, <1>3, <1>7 DEF Fail, NoErr
  <2>2. Cur \in 1 .. Len(sent) /\ ~Good(sent[Cur]) /\ Cur # ReplyAt
    BY <1>2, <1>6, <1>7 DEF KindAt
  <2>3. Blame' /\ ~Live'
    BY <1>1, <1>2, <1>7, <2>1, <2>2, ReadRefused
  <2> QED
    BY <1>4, <1>7, <2>3
<1>8. CASE /\ readNextErr = "nil" /\ MethodOK(Parse(Pending).method)
           /\ \/ /\ Sequential5 /\ readStage' = readStage
                 /\ pc' = IF cfg.auth # "none" /\ Parse(Pending).method = Offered
                          THEN "authWrite" ELSE "request"
              \/ /\ ~Sequential5 /\ readStage' = pc'
                 /\ pc' = IF HasPipe THEN "auth" ELSE "reply"
           /\ UNCHANGED he
           /\ msgStart' = msgStart + Parse(Pending).n /\ method' = Parse(Pending).method
  <2> DEFINE m == sent[1].code
  <2>1. /\ Parse(Pending).err = "nil" /\ Cur \in 1 .. Len(sent) /\ Good(sent[Cur]) /\ method' = m
        /\ MethodOK(m) /\ sent # <<>>
    BY <1>2, <1>6, <1>8
  <2>2. /\ cfg.auth = "none" <=> Offered = MethodNoAuth
        /\ ~Sequential5 => /\ HasPipe <=> Offered # MethodNoAuth
                           /\ MethodOK(m) => m = Offered
        /\ MethodOK(m) /\ ~(cfg.auth # "none" /\ m = Offered) => m = MethodNoAuth
    BY <1>2, OfferFacts DEF HSInv
  <2>3. /\ pc' \in {"auth", "authWrite"} => m # MethodNoAuth
        /\ pc' \in {"request", "reply"} => m = MethodNoAuth
        /\ pc' \in {"auth", "authWrite", "request", "reply"}
    BY <1>6, <1>8, <2>1, <2>2, <1>2
  <2>4. ReplyAt = IF m = MethodNoAuth THEN 2 ELSE 3
    BY <1>2, <2>1 DEF ReplyAt
  <2>5. Cur' = 2
    BY <1>2, <2>3, <2>4 DEF Cur
  <2>6. Live' /\ (Sequential5 \/ Reading')
    BY <1>2, <1>8, <2>3 DEF Live, Reading
  <2>7. Aligned' /\ (Stop = Cur => taken = EndOf(Cur))
    BY <1>1, <1>2, <1>8, <2>1, <2>3, <2>5, <2>6, Consumed
  <2>8. Stop' <= Len(sent) => taken' <= EndOf(Stop')
    BY <1>1, <1>2, <2>1, <2>3, <2>5, <2>7, NextBound
  <2>9. Talk' /\ Bounded' /\ Returned' /\ Blame'
    BY <1>1, <1>2, <2>3, <2>6, <2>8, GoesOn
  <2>10. /\ pc' \in {"authWrite", "request"} => Sequential5
         /\ pc' = "auth" => ~Sequential5 /\ HasPipe /\ readStage' = "auth"
    BY <1>8
  <2>11. Paths'
    BY <1>1, <1>2, <1>3, <1>8, <2>1, <2>3, <2>10 DEF HSInv, Paths
  <2> QED
    BY <2>7, <2>9, <2>11
<1> QED
  BY <1>5, <1>7, <1>8, GotMethodSteps DEF HSInv

\* The authentication's answer keeps the invariant.
LEMMA GotAuthKeeps ==
    ASSUME HSInv, GotAuth, UNCHANGED lvars
    PROVE  Paths' /\ Talk' /\ Aligned' /\ Bounded' /\ Returned' /\ Blame'
<1>1. /\ pc = "auth" /\ ~Lacking /\ Reading /\ pc # "accept"
      /\ UNCHANGED <<cfg, method, rbuf, readErr, part, bound, sent, stream, taken, proxy, state, apc, aerr, peer>>
  BY DEF GotAuth, lvars, proxyvars, Reading
<1>2. /\ Live /\ he = NoErr /\ initOK /\ Cur = 2 /\ ReplyAt = 3
      /\ KindAt(Cur) = "auth" /\ Len(sent) \in Nat /\ taken \in Nat /\ Version # 4
      /\ ReplyAt <= Len(sent) => taken <= EndOf(ReplyAt)
      /\ Stop = IF Sequential5 THEN Cur ELSE ReplyAt
      /\ ReplyAt' = ReplyAt /\ Version' = Version /\ (initOK' <=> initOK)
      /\ (Sequential5' <=> Sequential5) /\ (HasPipe' <=> HasPipe)
  BY <1>1, ReaderFacts
<1>3. readStage = "auth" /\ (readErr = "EOF" => proxy = "EOF")
  BY <1>1 DEF HSInv, Paths
<1>4. ASSUME pc' = "settle", Blame', ~Live'
      PROVE  Paths' /\ Talk' /\ Aligned' /\ Bounded' /\ Returned' /\ Blame'
  BY <1>1, <1>2, <1>3, <1>4, FailedRest
<1>5. CASE readNextErr # "nil"
  <2>0. pc' = "settle" /\ Fail(readStage, readNextErr)
    BY <1>5 DEF GotAuth, FailRead
  <2>1. he'.stage = KindAt(Cur) /\ he'.err = readNextErr /\ he' # NoErr
    BY <1>2, <1>3, <2>0 DEF Fail, NoErr
  <2>2. /\ readNextErr \in {"nil", "eof", "reset", "timeout", "closed", "protocol", "auth", "longAuth"}
        /\ readNextErr = "protocol" => Cur \in 1 .. Len(sent) /\ sent[Cur].bad
        /\ readNextErr = "auth" => Cur \in 1 .. Len(sent) /\ ~sent[Cur].bad /\ sent[Cur].code # 0
        /\ readNextErr \notin {"nil", "protocol", "auth"} => Parse(Pending).err = "incomplete"
        /\ readNextErr = "eof" => proxy = "EOF"
    BY <1>1, ReadErrAt, ReaderErrs DEF HSInv
  <2>3. CASE readNextErr \in {"protocol", "auth"}
    <3>1. sent[Cur].kind = "auth" /\ Cur \in 1 .. Len(sent)
      BY <1>2, <2>2, <2>3, TalkFacts DEF HSInv
    <3>2. ~Good(sent[Cur]) /\ Cur # ReplyAt /\ (~sent[Cur].bad => readNextErr = "auth")
      BY <1>2, <2>2, <2>3, <3>1 DEF Good
    <3>3. Blame' /\ ~Live'
      BY <1>1, <1>2, <2>0, <2>1, <2>3, <3>1, <3>2, ReadRefused
    <3> QED
      BY <1>4, <2>0, <3>3
  <2>4. CASE readNextErr \notin {"protocol", "auth"}
    <3>1. Blame' /\ ~Live'
      BY <1>1, <1>5, <2>0, <2>1, <2>2, <2>4, ReadCut
    <3> QED
      BY <1>4, <2>0, <3>1
  <2> QED
    BY <2>3, <2>4
<1>6. CASE readNextErr = "nil"
  <2>1. /\ msgStart' = msgStart + Parse(Pending).n /\ pc' = "reply" /\ readStage' = "reply" /\ he' = he
    BY <1>6 DEF GotAuth, Goto
  <2>2. Parse(Pending).err = "nil"
    BY <1>1, <1>6, ReadErrAt DEF HSInv
  <2>3. Cur \in 1 .. Len(sent) /\ ~sent[Cur].bad /\ sent[Cur].code = 0
    BY <1>1, <2>2, ReaderAt DEF HSInv
  <2>4. sent[Cur].kind = "auth"
    BY <1>2, <2>3, TalkFacts DEF HSInv
  <2>5. Good(sent[Cur])
    BY <2>3, <2>4 DEF Good
  <2>6. Cur' = 3 /\ Live' /\ Reading'
    BY <1>2, <2>1 DEF Cur, Live, Reading
  <2>7. sent[1].code = method
    BY <1>1, <1>2 DEF HSInv, Aligned
  <2>8. Aligned' /\ (Stop = Cur => taken = EndOf(Cur))
    BY <1>1, <1>2, <2>1, <2>2, <2>5, <2>6, <2>7, Consumed
  <2>9. Stop' <= Len(sent) => taken' <= EndOf(Stop')
    BY <1>1, <1>2, <2>1, <2>3, <2>6, <2>8, NextBound
  <2>10. Talk' /\ Bounded' /\ Returned' /\ Blame'
    BY <1>1, <1>2, <2>1, <2>6, <2>9, GoesOn
  <2>11. Paths'
    BY <1>1, <1>2, <1>3, <2>1 DEF HSInv, Paths
  <2> QED
    BY <2>8, <2>10, <2>11
<1> QED
  BY <1>5, <1>6

\* The reply keeps the invariant.
LEMMA GotReplyKeeps ==
    ASSUME HSInv, GotReply, UNCHANGED lvars
    PROVE  Paths' /\ Talk' /\ Aligned' /\ Bounded' /\ Returned' /\ Blame'
<1>1. /\ pc = "reply" /\ ~Lacking /\ Reading /\ pc # "accept" /\ pc' = "settle" /\ readStage' = "reply"
      /\ UNCHANGED <<cfg, method, rbuf, readErr, part, sent, stream, taken, proxy, state, apc, aerr, peer>>
  BY GotReplySteps DEF GotReply, lvars, proxyvars, Reading
<1>2. /\ Live /\ he = NoErr /\ initOK /\ Cur = ReplyAt /\ ReplyAt \in {1, 2, 3}
      /\ KindAt(Cur) = "reply" /\ Len(sent) \in Nat /\ taken \in Nat
      /\ ReplyAt <= Len(sent) => taken <= EndOf(ReplyAt)
      /\ Stop = IF Sequential5 THEN Cur ELSE ReplyAt
      /\ ReplyAt' = ReplyAt /\ Version' = Version /\ (initOK' <=> initOK)
      /\ (Sequential5' <=> Sequential5) /\ (HasPipe' <=> HasPipe)
  BY <1>1, ReaderFacts
<1>3. readErr = "EOF" => proxy = "EOF"
  BY <1>1 DEF HSInv, Paths
<1>4. ASSUME Blame', ~Live'
      PROVE  Paths' /\ Talk' /\ Aligned' /\ Bounded' /\ Returned' /\ Blame'
  BY <1>1, <1>2, <1>3, <1>4, FailedRest
<1>5. Cur \in 1 .. Len(sent) => sent[Cur].kind = "reply"
  BY <1>2, TalkFacts DEF HSInv
<1>6. CASE nextReplyErr # "nil" /\ Fail("reply", nextReplyErr)
  <2>1. he'.stage = KindAt(Cur) /\ he'.err = nextReplyErr /\ he' # NoErr
    BY <1>2, <1>6 DEF Fail, NoErr
  <2>2. /\ nextReplyErr \in {"nil", "eof", "reset", "timeout", "closed", "protocol", "longAuth", "reply"}
        /\ nextReplyErr = "protocol" => Cur \in 1 .. Len(sent) /\ sent[Cur].bad
        /\ nextReplyErr = "reply" => Cur \in 1 .. Len(sent) /\ Refused(Cur)
        /\ nextReplyErr \notin {"nil", "protocol", "reply"} => Parse(Pending).err = "incomplete"
        /\ nextReplyErr = "eof" => proxy = "EOF"
        /\ Cur <= Len(sent) /\ Refused(Cur) /\ Len(Pending) > 1 => nextReplyErr = "reply"
    BY <1>1, ReadErrAt, ReplyErrAt, ReaderErrs DEF HSInv
  <2>3. CASE nextReplyErr \in {"protocol", "reply"}
    <3>1. Cur \in 1 .. Len(sent) /\ ~Good(sent[Cur])
      BY <1>5, <2>2, <2>3 DEF Good, Refused
    <3>2. Cur <= Len(sent)
      BY <1>2, <3>1
    <3>3. Blame' /\ ~Live'
      BY <1>1, <1>2, <2>1, <2>2, <2>3, <3>1, <3>2, ReadRefused
    <3> QED
      BY <1>4, <3>3
  <2>4. CASE nextReplyErr \notin {"protocol", "reply"}
    <3>1. Blame' /\ ~Live'
      BY <1>1, <1>6, <2>1, <2>2, <2>4, ReadCut
    <3> QED
      BY <1>4, <3>1
  <2> QED
    BY <2>3, <2>4
<1>7. ASSUME nextReplyErr = "nil"
      PROVE  /\ Parse(Pending).err = "nil" /\ Cur \in 1 .. Len(sent) /\ sent[Cur].code = Granted
             /\ Parse(Pending).addr = AsSent(sent[Cur].addr)
             /\ checkBound(Parse(Pending).addr) => Good(sent[Cur])
             /\ ~Refused(Cur)
  <2>1. Parse(Pending).err = "nil" /\ sent[Cur].code = Granted
    BY <1>1, <1>7, ReplyErrAt DEF HSInv
  <2>2. /\ Cur \in 1 .. Len(sent) /\ Parse(Pending).addr = AsSent(sent[Cur].addr)
        /\ sent[Cur].bad => cfg.cmd = CmdTorResolve /\ Parse(Pending).addr = ZeroAddr
    BY <1>1, <2>1, ReaderAt DEF HSInv
  <2>3. checkBound(Parse(Pending).addr) => ~sent[Cur].bad
    BY <2>2 DEF checkBound, ZeroAddr
  <2>4. checkBound(Parse(Pending).addr) => Good(sent[Cur])
    BY <1>5, <2>1, <2>2, <2>3 DEF Good
  <2> QED
    BY <2>1, <2>2, <2>4 DEF Refused
<1>8. CASE nextReplyErr = "nil" /\ ~checkBound(Parse(Pending).addr) /\ Fail("reply", "protocol")
  <2>1. he'.stage = KindAt(Cur) /\ he'.err = "protocol" /\ he' # NoErr
    BY <1>2, <1>8 DEF Fail, NoErr
  <2>2. /\ Cur \in 1 .. Len(sent) /\ Cur = ReplyAt /\ ~checkBound(AsSent(sent[Cur].addr))
        /\ ~Refused(Cur) /\ KindAt(Cur) # "auth"
    BY <1>2, <1>7, <1>8
  <2>3. Blame' /\ ~Live'
    BY <1>1, <2>1, <2>2, ReadRefused
  <2> QED
    BY <1>4, <2>3
<1>9. CASE /\ nextReplyErr = "nil" /\ checkBound(Parse(Pending).addr)
           /\ msgStart' = msgStart + Parse(Pending).n
           /\ bound' = Parse(Pending).addr /\ he' = he
  <2>1. /\ Parse(Pending).err = "nil" /\ Cur \in 1 .. Len(sent) /\ Good(sent[Cur])
        /\ bound' = AsSent(sent[ReplyAt].addr)
    BY <1>2, <1>7, <1>9
  <2>2. Live' /\ Cur' = Cur + 1
    BY <1>1, <1>2, <1>9 DEF Live, NoErr, Cur
  <2>3. Version # 4 => sent[1].code = method
    <3>1. Version # 4 => Cur > 1
      BY <1>2 DEF ReplyAt
    <3> QED
      BY <1>2, <3>1 DEF HSInv, Aligned
  <2>4. Stop = Cur
    BY <1>2
  <2>5. Aligned' /\ taken = EndOf(Cur)
    BY <1>1, <1>9, <2>1, <2>2, <2>3, <2>4, Consumed
  <2>6. Stop' <= Len(sent) => taken' <= EndOf(Stop')
    BY <1>1, <2>1, <2>2, <2>5, NextBound
  <2>7. Talk' /\ Bounded' /\ Returned' /\ Blame'
    BY <1>1, <1>2, <2>1, <2>2, <2>6, GoesOn
  <2>8. Paths'
    BY <1>1, <1>2, <1>3, <1>9 DEF HSInv, Paths
  <2> QED
    BY <2>5, <2>7, <2>8
<1> QED
  BY <1>6, <1>8, <1>9, GotReplySteps

\* blame leaves what the proxy said, and keeps the stage of any other error.
LEMMA BlameKeeps ==
    ASSUME TypeOK, he # NoErr
    PROVE  /\ blame # NoErr
           /\ he.err \in ServerMsgErrs => blame = he
           /\ he.err \notin ServerMsgErrs => blame.err \notin ServerMsgErrs
<1>1. he \in [stage: Stages, err: Errs]
  BY DEF TypeOK, HandshakeTypeOK
<1>2. he.err \in Errs /\ he.err # "nil"
  BY <1>1 DEF Errs
<1> DEFINE d == [he EXCEPT !.err = "deadline"]
           c == [stage |-> IF he = NoErr THEN readStage ELSE he.stage, err |-> "ctx"]
<1>3. d.err = "deadline" /\ c.err = "ctx"
  BY <1>1
<1>4. blame = he \/ (he.err \notin ServerMsgErrs /\ (blame = c \/ blame = d))
  BY DEF blame, ServerMsgErrs
<1>5. d.err \notin ServerMsgErrs /\ c.err \notin ServerMsgErrs
  BY <1>3 DEF ServerMsgErrs
<1>6. NoErr.err = "nil"
  BY DEF NoErr
<1>7. d # NoErr /\ c # NoErr
  BY <1>3, <1>6, Zenon
<1> HIDE DEF c, d
<1> QED
  BY <1>4, <1>5, <1>7

\* The end of handshakeOver keeps the invariant.
LEMMA SettleKeeps ==
    ASSUME HSInv, Settle, UNCHANGED lvars
    PROVE  Paths' /\ Talk' /\ Aligned' /\ Bounded' /\ Returned' /\ Blame'
<1>1. /\ pc = "settle" /\ he' = blame
      /\ UNCHANGED <<cfg, method, rbuf, msgStart, readErr, readStage, part, bound, taken, sent, stream,
                     proxy, state, apc, aerr, peer>>
      /\ blame # NoErr => pc' = "failed"
      /\ blame = NoErr => pc' \in {"ok", "clear"}
  BY DEF Settle, lvars, hvars, proxyvars
<1>2. /\ ReplyAt' = ReplyAt /\ (\A i : EndOf(i)' = EndOf(i)) /\ Version' = Version
      /\ (\A m : Good(m)' <=> Good(m)) /\ (initOK' <=> initOK) /\ (Sequential5' <=> Sequential5)
      /\ (\A i : Refused(i)' <=> Refused(i)) /\ (HasPipe' <=> HasPipe)
      /\ (\A a : checkBound(a)' <=> checkBound(a)) /\ (\A k : Of(k)' = Of(k))
  BY <1>1, SameSent, SameCfg
<1>3. readErr = "EOF" => proxy = "EOF"
  BY DEF HSInv, Paths
<1>4. ReplyAt <= Len(sent) => taken <= EndOf(ReplyAt)
  BY <1>1 DEF HSInv, Bounded
<1>5. taken \in Nat /\ Len(sent) \in Nat /\ ReplyAt \in {1, 2, 3}
  BY TalkFacts DEF HSInv
<1>6. CASE he = NoErr
  <2>1. Live /\ Cur = ReplyAt + 1 /\ ~Reading
    BY <1>1, <1>6 DEF Live, Cur, Reading
  <2>2. CASE blame = NoErr
    <3>1. Live' /\ pc' \in {"ok", "clear"} /\ Cur' = ReplyAt + 1 /\ ~Reading'
      BY <1>1, <1>2, <2>2 DEF Live, Cur, Reading
    <3>2. EndOf(Cur - 1)' = EndOf(Cur - 1) /\ Base' = Base
      BY <1>1, <2>1, <3>1 DEF EndOf, Base
    <3>3. Got' = Got
      BY <1>1, <3>1, Zenon DEF Got, Pending
    <3>4. Aligned'
      BY <1>1, <1>2, <2>1, <3>1, <3>2, <3>3 DEF HSInv, Aligned
    <3>5. Stop' = Stop
      BY <1>1, <1>2, <2>1, <3>1 DEF Stop
    <3>6. bound = AsSent(sent[ReplyAt].addr)
      BY <1>1, <1>6 DEF HSInv, Returned
    <3>7. Stop' <= Len(sent) => taken' <= EndOf(Stop')
      BY <1>1, <2>1, <3>5 DEF HSInv, Bounded
    <3>8. Talk' /\ Bounded' /\ Returned' /\ Blame'
      BY <1>1, <1>4, <3>1, <3>6, <3>7, GoesOn
    <3>9. Paths'
      BY <1>1, <1>2, <1>6, <2>2, <3>1 DEF HSInv, Paths
    <3> QED
      BY <3>4, <3>8, <3>9
  <2>3. CASE blame # NoErr
    <3>1. pc' = "failed" /\ ~Live'
      BY <1>1, <2>3 DEF Live
    <3>2. blame.err \notin {"protocol", "method", "auth", "reply", "eof"}
      <4>1. he.err = "nil"
        BY <1>6 DEF NoErr
      <4>2. blame = [stage |-> readStage, err |-> "ctx"]
        BY <1>6, <2>3, <4>1 DEF blame, ServerMsgErrs
      <4> QED
        BY <4>2
    <3>3. KindAt(Cur) # "auth" /\ Cur # ReplyAt /\ \A i \in 1 .. Len(sent) : ~(i > Cur /\ i <= ReplyAt)
      BY <1>5, <2>1 DEF KindAt
    <3>4. ~(he'.stage \in Prefix /\ he'.err = "eof")
          /\ ~(he'.stage \in Prefix /\ he'.err \in {"protocol", "method", "auth", "reply"})
      BY <1>1, <3>2
    <3>5. Blame'
      BY <1>1, <1>5, <2>1, <3>1, <3>3, <3>4, Fails
    <3> QED
      BY <1>1, <1>3, <1>4, <3>1, <3>5, FailedRest
  <2> QED
    BY <2>2, <2>3
<1>7. CASE he # NoErr
  <2>1. /\ blame # NoErr
        /\ he.err \in ServerMsgErrs => blame = he
        /\ he.err \notin ServerMsgErrs => blame.err \notin ServerMsgErrs
    BY <1>7, BlameKeeps DEF HSInv
  <2>2. pc' = "failed" /\ ~Live' /\ ~Live
    BY <1>1, <1>7, <2>1 DEF Live
  <2>3. /\ he'.err \in ServerMsgErrs => he' = he
        /\ he.err \in ServerMsgErrs => he' = he
    BY <1>1, <2>1
  <2>4. Blame'
    <3>1. /\ he'.stage \in Prefix =>
               /\ he'.err \in {"protocol", "method", "auth", "reply"} =>
                    \E i \in Of(he'.stage) : ~Good(sent[i]) \/ ~checkBound(AsSent(sent[i].addr))
               /\ he'.err = "eof" =>
                    /\ proxy = "EOF"
                    /\ \A i \in Of(he'.stage) : EndOf(i) > taken
                    /\ \A i \in DOMAIN sent : sent[i].kind \in Prefix /\ EndOf(i) <= taken => Good(sent[i])
      <4> SUFFICES ASSUME he'.stage \in Prefix, he'.err \in {"protocol", "method", "auth", "reply", "eof"}
                   PROVE  /\ he'.err \in {"protocol", "method", "auth", "reply"} =>
                               \E i \in Of(he'.stage) : ~Good(sent[i]) \/ ~checkBound(AsSent(sent[i].addr))
                          /\ he'.err = "eof" =>
                               /\ proxy = "EOF"
                               /\ \A i \in Of(he'.stage) : EndOf(i) > taken
                               /\ \A i \in DOMAIN sent : sent[i].kind \in Prefix /\ EndOf(i) <= taken => Good(sent[i])
        BY Zenon
      <4>1. he' = he
        BY <2>3 DEF ServerMsgErrs
      <4> QED
        BY <2>2, <4>1 DEF HSInv, Blame
    <3>2. /\ \A i \in Of("reply") : Refused(i) /\ taken >= sent[i].at + 2 => he'.err = "reply"
          /\ \A i \in Of("auth") : ~Good(sent[i]) /\ ~sent[i].bad /\ taken >= EndOf(i) => he'.err = "auth"
      BY <2>2, <2>3 DEF HSInv, Blame, ServerMsgErrs
    <3>3. \A i : AsSent(sent[i].addr)' = AsSent(sent[i].addr)
      BY <1>1 DEF AsSent
    <3>4. Of(he.stage)' = Of(he'.stage)
      BY <1>1 DEF Of
    <3> QED
      BY <1>1, <1>2, <3>1, <3>2, <3>3, <3>4 DEF Blame
  <2> QED
    BY <1>1, <1>3, <1>4, <2>2, <2>4, FailedRest
<1> QED
  BY <1>6, <1>7

\* Accept forgets the first reply's bytes and keeps the invariant.
LEMMA AcceptKeeps ==
    ASSUME HSInv, OwnerInv, NEW a \in Accepters, Accept(a)
    PROVE  Paths' /\ Talk' /\ Aligned' /\ Bounded' /\ Returned' /\ Blame'
<1>1. /\ UNCHANGED <<cfg, method, readErr, readStage, part, bound, he, sent, stream, taken, proxy, aerr, peer>>
      /\ Listening /\ apc[a] = "idle"
  BY DEF Accept, proxyvars
<1>2. /\ apc \in [Accepters -> {"idle", "read", "lock", "close", "clear", "conn", "err", "refused"}]
      /\ state = "listening" => \A b \in Accepters : apc[b] \notin Taking
  BY DEF OwnerInv, Control, Guarded
<1>3. /\ ReplyAt' = ReplyAt /\ (\A i : EndOf(i)' = EndOf(i)) /\ Version' = Version
      /\ (\A m : Good(m)' <=> Good(m)) /\ (initOK' <=> initOK) /\ (Sequential5' <=> Sequential5)
      /\ (\A i : Refused(i)' <=> Refused(i)) /\ (HasPipe' <=> HasPipe)
  BY <1>1, SameSent, SameCfg
<1>4. CASE state # "listening"
  <2>1. UNCHANGED <<cfg, pc, hvars, he, proxyvars>> /\ state' = state
        /\ apc' = [apc EXCEPT ![a] = "refused"]
    BY <1>4 DEF Accept, hvars, proxyvars
  <2>2. Talk' /\ Aligned' /\ Bounded' /\ Blame'
    BY <2>1, Frame
  <2>3. Live' <=> Live
    BY <2>1, SameView
  <2>4. \A b \in Accepters : apc'[b] = apc[b] \/ apc'[b] = "refused"
    BY <1>2, <2>1
  <2>5. UNCHANGED <<pc, readStage, part, method, readErr, proxy>>
    BY <2>1 DEF hvars, proxyvars
  <2>6. Paths'
    BY <1>1, <1>3, <2>1, <2>3, <2>4, <2>5 DEF HSInv, Paths
  <2>7. Returned'
    BY <1>1, <1>3, <2>1, <2>3 DEF HSInv, Returned
  <2> QED
    BY <2>2, <2>6, <2>7
<1>5. CASE state = "listening"
  <2>1. /\ state' = "accepting" /\ apc' = [apc EXCEPT ![a] = "read"]
        /\ pc' = "accept" /\ rbuf' = <<>> /\ msgStart' = 0
    BY <1>5 DEF Accept
  <2>2. pc = "ok"
    BY <1>1, <1>5 DEF Listening, HSInv, Paths
  <2>3. Live /\ Live' /\ Reading' /\ ~Reading /\ Cur = ReplyAt + 1 /\ Cur' = ReplyAt + 1 /\ Stop' = ReplyAt + 1
    BY <1>1, <1>3, <2>1, <2>2 DEF Live, Reading, Cur, Stop
  <2>4. Base' = Base
    BY <1>1, <2>3 DEF Base, EndOf
  <2>5. Len(Got) = 0
    BY <2>2, <2>3, NothingUnread DEF HSInv
  <2>6. Got' = <<>>
    BY <2>1 DEF Got, Pending
  <2>7. /\ ReplyAt <= Len(sent) /\ \A i \in 1 .. ReplyAt : Good(sent[i])
        /\ Version # 4 => sent[1].code = method
        /\ taken = Base
    <3>1. ReplyAt \in {1, 2, 3} /\ (Version # 4 => ReplyAt \in {2, 3}) /\ taken \in Nat
      BY TalkFacts DEF HSInv, ReplyAt
    <3>2. /\ Cur - 1 <= Len(sent) /\ \A i \in 1 .. Cur - 1 : Good(sent[i])
          /\ Version # 4 /\ Cur > 1 => sent[1].code = method
          /\ taken = Base + Len(Got)
      BY <2>2, <2>3 DEF HSInv, Aligned
    <3>3. Base \in Nat
      BY <2>3, AtCur DEF HSInv
    <3>4. Cur - 1 = ReplyAt /\ Cur > 1
      BY <2>3, <3>1
    <3> QED
      BY <2>5, <3>1, <3>2, <3>3, <3>4
  <2>8. Base = EndOf(ReplyAt) /\ ReplyAt \in {1, 2, 3} /\ Len(sent) \in Nat
    BY <2>3, TalkFacts DEF Base, HSInv
  <2>9. Aligned'
    <3>1. taken' = Base' + Len(Got') /\ \A j \in 1 .. Len(Got') : FALSE
      BY <1>1, <2>4, <2>6, <2>7, <2>8, TalkFacts DEF HSInv
    <3>2. Cur' - 1 = ReplyAt
      BY <2>3, <2>8
    <3> QED
      BY <1>1, <1>3, <2>1, <2>3, <2>7, <3>1, <3>2 DEF Aligned
  <2>10. Talk'
    BY <1>1, SameTalk DEF HSInv
  <2>11. ReplyAt + 1 <= Len(sent) => taken <= EndOf(ReplyAt + 1)
    <3> SUFFICES ASSUME ReplyAt + 1 <= Len(sent) PROVE taken <= EndOf(ReplyAt + 1)
      OBVIOUS
    <3>1. ReplyAt \in 1 .. Len(sent) /\ ReplyAt + 1 \in 1 .. Len(sent) /\ ReplyAt < ReplyAt + 1
      BY <2>8
    <3>2. EndOf(ReplyAt) <= sent[ReplyAt + 1].at
      BY <3>1, Zenon DEF HSInv, Talk
    <3>3. sent[ReplyAt + 1].at <= EndOf(ReplyAt + 1) /\ sent[ReplyAt + 1].at \in Nat /\ EndOf(ReplyAt + 1) \in Nat
          /\ EndOf(ReplyAt) \in Nat
      BY <3>1, TalkFacts DEF HSInv
    <3> QED
      BY <2>7, <2>8, <3>2, <3>3
  <2>12. Bounded'
    <3>1. EndOf(Stop)' = EndOf(ReplyAt + 1) /\ EndOf(ReplyAt + 1)' = EndOf(ReplyAt + 1)
      BY <1>1, <1>3, <2>3 DEF EndOf
    <3>2. ReplyAt < Len(sent) <=> ReplyAt + 1 <= Len(sent)
      BY <2>8
    <3> QED
      BY <1>1, <1>3, <2>1, <2>3, <2>11, <3>1, <3>2 DEF Bounded
  <2>13. aerr = "nil"
    BY <2>2 DEF HSInv, Paths
  <2>14. Returned'
    BY <1>1, <1>3, <2>1, <2>2, <2>13 DEF HSInv, Returned
  <2>15. Blame'
    BY <2>3 DEF Blame
  <2>16. cfg.cmd = CmdBind
    BY <1>1, HandshakeAssumption DEF Listening, HSInv, TypeOK, HandshakeTypeOK
  <2>17. \A b \in Accepters : apc'[b] = "read" \/ apc'[b] \notin Taking
    BY <1>2, <1>5, <2>1
  <2>18. Paths'
    BY <1>1, <1>3, <2>1, <2>2, <2>3, <2>13, <2>16, <2>17 DEF HSInv, Paths, Taking
  <2> QED
    BY <2>9, <2>10, <2>12, <2>14, <2>15, <2>18
<1> QED
  BY <1>4, <1>5

\* The second reply keeps the invariant.
LEMMA GotSecondReplyKeeps ==
    ASSUME HSInv, OwnerInv, NEW a \in Accepters, GotSecondReply(a)
    PROVE  Paths' /\ Talk' /\ Aligned' /\ Bounded' /\ Returned' /\ Blame'
<1>1. /\ UNCHANGED <<cfg, method, rbuf, readErr, readStage, part, bound, he, sent, stream, taken, proxy, state>>
      /\ apc[a] = "read" /\ ~Lacking /\ pc' = "accepted" /\ aerr' = nextReplyErr
      /\ apc' = [apc EXCEPT ![a] = "lock"]
      /\ nextReplyErr = "nil" => peer' = Parse(Pending).addr
  BY DEF GotSecondReply, proxyvars
<1>2. pc = "accept" /\ Reading
  BY <1>1 DEF HSInv, Paths, Reading
<1>3. /\ apc \in [Accepters -> {"idle", "read", "lock", "close", "clear", "conn", "err", "refused"}]
      /\ \A b \in Accepters : apc[b] \in Taking => a = b
  BY <1>1 DEF OwnerInv, Control, Guarded, Taking
<1>4. /\ ReplyAt' = ReplyAt /\ (\A i : EndOf(i)' = EndOf(i)) /\ Version' = Version
      /\ (\A m : Good(m)' <=> Good(m)) /\ (initOK' <=> initOK) /\ (Sequential5' <=> Sequential5)
      /\ (\A i : Refused(i)' <=> Refused(i)) /\ (HasPipe' <=> HasPipe)
  BY <1>1, SameSent, SameCfg
<1>5. Live /\ Live' /\ ~Reading' /\ Cur = ReplyAt + 1 /\ Cur' = ReplyAt + 1 /\ Stop = Cur
  BY <1>1, <1>2, <1>4 DEF Live, Reading, Cur, Stop
<1>6. /\ ReplyAt \in {1, 2, 3} /\ Len(sent) \in Nat /\ taken \in Nat /\ Base \in Nat
      /\ Cur <= Len(sent) => sent[Cur].at = Base
      /\ KindAt(Cur) = "second" /\ cfg.cmd = CmdBind
  BY <1>2, <1>5, TalkFacts, AtCur, CurKind DEF HSInv
<1>7. Talk'
  BY <1>1, SameTalk DEF HSInv
<1>8. Aligned'
  <2>1. /\ Cur - 1 <= Len(sent) /\ \A i \in 1 .. Cur - 1 : Good(sent[i])
        /\ Version # 4 /\ Cur > 1 => sent[1].code = method
    BY <1>5 DEF HSInv, Aligned
  <2> QED
    BY <1>1, <1>4, <1>5, <2>1 DEF Aligned
<1>9. Bounded'
  <2>1. ReplyAt < Len(sent) => taken <= EndOf(ReplyAt + 1)
    BY <1>2 DEF HSInv, Bounded
  <2>2. EndOf(ReplyAt + 1)' = EndOf(ReplyAt + 1)
    BY <1>1, <1>4 DEF EndOf
  <2> QED
    BY <1>1, <1>4, <2>1, <2>2 DEF Bounded
<1>10. nextReplyErr = "nil" =>
         /\ ReplyAt < Len(sent) /\ Good(sent[ReplyAt + 1])
         /\ peer' = AsSent(sent[ReplyAt + 1].addr) /\ taken = EndOf(ReplyAt + 1)
  <2> SUFFICES ASSUME nextReplyErr = "nil"
               PROVE  /\ Cur \in 1 .. Len(sent) /\ Good(sent[Cur])
                      /\ peer' = AsSent(sent[Cur].addr) /\ taken = EndOf(Cur)
    BY <1>5, <1>6
  <2>1. Parse(Pending).err = "nil" /\ sent[Cur].code = Granted
    BY <1>1, <1>2, ReplyErrAt DEF HSInv
  <2>2. /\ Cur \in 1 .. Len(sent) /\ Len(Pending) >= Len(sent[Cur].bytes)
        /\ Parse(Pending).addr = AsSent(sent[Cur].addr)
        /\ sent[Cur].bad => cfg.cmd = CmdTorResolve
    BY <1>2, <2>1, ReaderAt DEF HSInv
  <2>3. ~sent[Cur].bad
    BY <1>6, <2>2 DEF CmdBind, CmdTorResolve
  <2>4. sent[Cur].kind = "second"
    BY <1>6, <2>2, TalkFacts, Zenon DEF HSInv
  <2>5. Good(sent[Cur])
    BY <2>1, <2>3, <2>4 DEF Good
  <2>6. taken = Base + Len(Pending) /\ Len(Pending) \in Nat
    BY <1>2, <1>5, GotFacts DEF HSInv, Got
  <2>7. EndOf(Cur) = Base + Len(sent[Cur].bytes) /\ Len(sent[Cur].bytes) \in Nat
    BY <1>6, <2>2, TalkFacts DEF HSInv
  <2>8. taken <= EndOf(Cur)
    BY <1>2, <1>5, <2>2 DEF HSInv, Bounded
  <2>9. taken = EndOf(Cur)
    BY <1>6, <2>2, <2>6, <2>7, <2>8
  <2> QED
    BY <1>1, <2>2, <2>5, <2>9
<1>11. nextReplyErr = "reply" => ReplyAt < Len(sent) /\ Refused(ReplyAt + 1)
  <2>1. nextReplyErr = "reply" => Cur \in 1 .. Len(sent) /\ Refused(Cur)
    BY <1>1, <1>2, ReplyErrAt DEF HSInv
  <2> QED
    BY <1>5, <1>6, <2>1
<1>12. Returned'
  <2>1. bound = AsSent(sent[ReplyAt].addr)
    BY <1>2 DEF HSInv, Returned
  <2>2. Refused(ReplyAt + 1)' <=> Refused(ReplyAt + 1)
    BY <1>1, <1>4 DEF Refused, Granted, Version
  <2> QED
    BY <1>1, <1>4, <1>10, <1>11, <2>1, <2>2 DEF Returned
<1>13. Blame'
  BY <1>5 DEF Blame
<1>14. apc'[a] = "lock" /\ \A b \in Accepters : b # a => apc'[b] = apc[b] /\ apc[b] \notin Taking
  BY <1>1, <1>3
<1>15. Paths'
  BY <1>1, <1>2, <1>4, <1>5, <1>14 DEF HSInv, Paths, Taking
<1> QED
  BY <1>7, <1>8, <1>9, <1>12, <1>13, <1>15

\* The conn, its deadline, ctx and the callers say nothing of the conversation.
LEMMA FrameKeeps ==
    ASSUME HSInv,
           \/ (CtxDone \/ FireWatch \/ Unblock \/ BudgetPasses) /\ UNCHANGED lvars
           \/ \E c \in Closers : Close(c) \/ CloseConn(c)
           \/ \E t \in {"none", "future", "past"} : SetDeadline(t)
           \/ DeadlinePasses
           \/ UNCHANGED vars
    PROVE  Paths' /\ Talk' /\ Aligned' /\ Bounded' /\ Returned' /\ Blame'
<1>1. /\ UNCHANGED <<cfg, pc, hvars, he, proxyvars, apc, aerr, peer>>
      /\ state' = state \/ state' # "listening"
  <2>1. CASE (CtxDone \/ FireWatch \/ Unblock \/ BudgetPasses) /\ UNCHANGED lvars
    BY <2>1 DEF CtxDone, FireWatch, Unblock, BudgetPasses, lvars
  <2>2. CASE \E c \in Closers : Close(c) \/ CloseConn(c)
    BY <2>2 DEF Close, CloseConn, hsvars
  <2>3. CASE \E t \in {"none", "future", "past"} : SetDeadline(t)
    BY <2>3 DEF SetDeadline
  <2>4. CASE DeadlinePasses
    BY <2>4 DEF DeadlinePasses, lvars
  <2>5. CASE UNCHANGED vars
    BY <2>5 DEF vars, hsvars, lvars
  <2> QED
    BY <2>1, <2>2, <2>3, <2>4, <2>5
<1> QED
  BY <1>1, Frame, FrameRest

\* A call starts with the invariant.
LEMMA HSInit == Init => HSInv
<1> SUFFICES ASSUME Init PROVE HSInv
  OBVIOUS
<1>1. TypeOK
  BY TypeInit
<1>2. /\ pc = "config" /\ rbuf = <<>> /\ msgStart = 0 /\ readErr = "nil" /\ he = NoErr
      /\ readStage = (IF Version = 4 THEN "reply" ELSE "method")
      /\ part = [b |-> <<>>, need |-> 0] /\ sent = <<>> /\ stream = <<>> /\ taken = 0
      /\ state = "listening" /\ aerr = "nil" /\ \A a \in Accepters : apc[a] = "idle"
  BY DEF Init, Init0
<1>3. Live /\ Cur = 1 /\ Base = 0 /\ ReplyAt \in {1, 2, 3} /\ Len(sent) = 0 /\ Len(rbuf) = 0
  BY <1>2 DEF Live, Cur, Base, ReplyAt
<1>4. Got = <<>>
  BY <1>2, <1>3 DEF Got, Pending
<1>5. Paths
  BY <1>2, <1>3 DEF Paths
<1>6. NeedOK
  BY <1>2 DEF NeedOK
<1>7. Talk
  BY <1>2, <1>3 DEF Talk
<1>8. Aligned
  BY <1>2, <1>3, <1>4 DEF Aligned
<1>9. Bounded
  BY <1>2, <1>3 DEF Bounded, Stop
<1>10. Returned
  BY <1>2 DEF Returned
<1>11. Blame
  BY <1>3 DEF Blame
<1> QED
  BY <1>1, <1>5, <1>6, <1>7, <1>8, <1>9, <1>10, <1>11 DEF HSInv

\* Every step keeps the invariant.
LEMMA HSNext == HSInv /\ OwnerInv /\ [Next]_vars => HSInv'
<1> SUFFICES ASSUME HSInv, OwnerInv, [Next]_vars PROVE HSInv'
  OBVIOUS
<1>1. TypeOK'
  BY TypeNext, Zenon DEF HSInv, Talk, Paths
<1>2. NeedOK'
  BY NeedNext DEF HSInv
<1>3. Paths' /\ Talk' /\ Aligned' /\ Bounded' /\ Returned' /\ Blame'
  <2>1. CASE HandshakeStep /\ UNCHANGED lvars
    <3>1. CASE Write \/ WriteRequest \/ AuthWrite
      BY <2>1, <3>1, WriteKeeps
    <3>2. CASE FireWatch \/ Unblock
      BY <2>1, <3>2, FrameKeeps
    <3> QED
      BY <2>1, <3>1, <3>2, ConfigureKeeps, DialKeeps, AuthReadKeeps, GotMethodKeeps, GotAuthKeeps,
         GotReplyKeeps, SettleKeeps, ClearKeeps DEF HandshakeStep
  <2>2. CASE HandshakeEnv /\ UNCHANGED lvars
    <3>1. CASE CtxDone \/ BudgetPasses
      BY <2>2, <3>1, FrameKeeps
    <3> QED
      BY <2>2, <3>1, SendKeeps, StopsKeeps DEF HandshakeEnv
  <2>3. CASE ReadNext /\ UNCHANGED lvars
    BY <2>3, ReadNextKeeps
  <2>4. ASSUME NEW a \in Accepters, Accept(a) \/ AcceptStep(a)
        PROVE  Paths' /\ Talk' /\ Aligned' /\ Bounded' /\ Returned' /\ Blame'
    BY <2>4, AcceptKeeps, GotSecondReplyKeeps, AcceptEndsKeep DEF AcceptStep
  <2>5. CASE \/ \E c \in Closers : Close(c) \/ CloseConn(c)
             \/ \E t \in {"none", "future", "past"} : SetDeadline(t)
             \/ DeadlinePasses
             \/ UNCHANGED vars
    BY <2>5, FrameKeeps
  <2> QED
    BY <2>1, <2>2, <2>3, <2>4, <2>5 DEF Next
<1> QED
  BY <1>1, <1>2, <1>3 DEF HSInv

\* The invariant of the conversation.
THEOREM Conversation == Spec => []HSInv
<1>1. Init => HSInv
  BY HSInit
<1>2. HSInv /\ OwnerInv /\ [Next]_vars => HSInv'
  BY HSNext
<1> QED
  BY <1>1, <1>2, Ownership, PTL DEF Spec

\* Listener's variables, the handshake's included, keep their types.
THEOREM TypeCorrect == Spec => []TypeOK
<1>1. HSInv => TypeOK
  BY DEF HSInv
<1> QED
  BY <1>1, Conversation, PTL

-----------------------------------------------------------------------------
(* What HSInv says.                                                        *)

\* Where the conversation is once the first reply was read.
LEMMA AfterReply ==
    ASSUME HSInv, pc \in {"clear", "ok", "accept", "accepted"}
    PROVE  /\ Live /\ Cur = ReplyAt + 1 /\ ReplyAt \in 1 .. Len(sent) /\ Len(sent) \in Nat
           /\ \A i \in 1 .. ReplyAt : Good(sent[i])
           /\ Version # 4 => sent[1].code = method
           /\ ReplyAt \in Of("reply") /\ bound = AsSent(sent[ReplyAt].addr)
<1>1. Live /\ Cur = ReplyAt + 1
  BY DEF Live, Cur
<1>2. /\ ReplyAt \in {1, 2, 3} /\ Len(sent) \in Nat
      /\ \A i \in 1 .. Len(sent) : sent[i].kind = KindAt(i)
  BY TalkFacts DEF HSInv
<1>3. Cur - 1 = ReplyAt /\ Cur > 1
  BY <1>1, <1>2
<1>4. /\ ReplyAt <= Len(sent) /\ \A i \in 1 .. ReplyAt : Good(sent[i])
      /\ Version # 4 => sent[1].code = method
  BY <1>1, <1>3 DEF HSInv, Aligned
<1>5. ReplyAt \in 1 .. Len(sent) /\ KindAt(ReplyAt) = "reply"
  BY <1>2, <1>4 DEF KindAt
<1>6. ReplyAt \in Of("reply")
  BY <1>2, <1>5 DEF Of, HSInv, TypeOK, HandshakeTypeOK
<1>7. bound = AsSent(sent[ReplyAt].addr)
  BY DEF HSInv, Returned
<1> QED
  BY <1>1, <1>2, <1>4, <1>5, <1>6, <1>7

\* Each message is of the kind of its place.
LEMMA Places ==
    ASSUME HSInv
    PROVE  /\ DOMAIN sent = 1 .. Len(sent) /\ Len(sent) \in Nat /\ ReplyAt \in {1, 2, 3}
           /\ \A i \in 1 .. Len(sent) :
                /\ sent[i].kind = KindAt(i)
                /\ sent[i].kind \in Prefix <=> i <= ReplyAt
                /\ sent[i].kind = "auth" <=> i = 2 /\ ReplyAt = 3
                /\ i = ReplyAt + 1 /\ cfg.cmd = CmdBind => sent[i].kind = "second"
<1>1. /\ DOMAIN sent = 1 .. Len(sent) /\ Len(sent) \in Nat /\ ReplyAt \in {1, 2, 3}
      /\ \A i \in 1 .. Len(sent) : sent[i].kind = KindAt(i)
  BY TalkFacts DEF HSInv, TypeOK, HandshakeTypeOK
<1>2. Version # 4 => ReplyAt # 1
  BY DEF ReplyAt
<1>3. \A i \in 1 .. Len(sent) :
        /\ KindAt(i) \in Prefix <=> i <= ReplyAt
        /\ KindAt(i) = "auth" <=> i = 2 /\ ReplyAt = 3
  BY <1>1, <1>2, KindPlaces
<1>4. \A i \in 1 .. Len(sent) : i = ReplyAt + 1 /\ cfg.cmd = CmdBind => KindAt(i) = "second"
  BY <1>1 DEF KindAt
<1> QED
  BY <1>1, <1>3, <1>4

\* The second reply, once Accept has read it.
LEMMA SecondReply ==
    ASSUME HSInv, pc = "accepted", ReplyAt < Len(sent)
    PROVE  ReplyAt + 1 \in Of("second")
<1>1. cfg.cmd = CmdBind
  BY DEF HSInv, Paths
<1> QED
  BY <1>1, Places DEF Of

\* Accept has handed out a conn only after a second reply that grants it.
LEMMA HasConnReturned ==
    ASSUME HSInv, HasConn
    PROVE  /\ ReplyAt + 1 \in Of("second") /\ Good(sent[ReplyAt + 1])
           /\ peer = AsSent(sent[ReplyAt + 1].addr) /\ taken = EndOf(ReplyAt + 1)
<1>1. pc = "accepted" /\ aerr = "nil"
  BY DEF HasConn, HSInv, Paths
<1> QED
  BY <1>1, SecondReply DEF HSInv, Returned

\* The invariant says that the outcome is true.
LEMMA HSInvOutcome == HSInv => OutcomeTrue
<1> SUFFICES ASSUME HSInv PROVE OutcomeTrue
  OBVIOUS
<1>1. ASSUME pc \in {"clear", "ok", "accept", "accepted"}
      PROVE  /\ \A i \in DOMAIN sent : sent[i].kind \in Prefix => Good(sent[i])
             /\ \E i \in Of("reply") : bound = AsSent(sent[i].addr)
             /\ Version = 5 /\ method # MethodNoAuth => Of("auth") # {}
  <2>1. \A i \in DOMAIN sent : sent[i].kind \in Prefix => Good(sent[i])
    BY <1>1, AfterReply, Places
  <2>2. \E i \in Of("reply") : bound = AsSent(sent[i].addr)
    BY <1>1, AfterReply
  <2>3. Version = 5 /\ method # MethodNoAuth => Of("auth") # {}
    <3> SUFFICES ASSUME Version = 5, method # MethodNoAuth PROVE 2 \in Of("auth")
      OBVIOUS
    <3>1. ReplyAt = 3
      BY <1>1, AfterReply DEF ReplyAt
    <3>2. 2 \in 1 .. Len(sent)
      BY <1>1, <3>1, AfterReply
    <3> QED
      BY <3>1, <3>2, Places DEF Of
  <2> QED
    BY <2>1, <2>2, <2>3
<1>2. pc = "failed" => ~Live
  BY DEF Live
<1>3. HasConn => \E i \in Of("second") : Good(sent[i]) /\ peer = AsSent(sent[i].addr)
  BY HasConnReturned
<1>4. aerr = "reply" => \E i \in Of("second") : Refused(i)
  <2> SUFFICES ASSUME aerr = "reply" PROVE ReplyAt + 1 \in Of("second") /\ Refused(ReplyAt + 1)
    OBVIOUS
  <2>1. pc = "accepted"
    BY DEF HSInv, Paths
  <2>2. ReplyAt < Len(sent) /\ Refused(ReplyAt + 1)
    BY DEF HSInv, Returned
  <2> QED
    BY <2>1, <2>2, SecondReply
<1> QED
  BY <1>1, <1>2, <1>3, <1>4 DEF OutcomeTrue, HSInv, Blame

\* The outcome of Request, DialContext, LookupNetIP, Listen and Accept says what the
\* proxy sent (handshake.go's readNext and nextReply, request.go, bind.go): success
\* needs every message in full and granting, a failure names the message that was
\* cut, malformed or that refused, and neither a timeout nor a cut hides a refusal
\* that was read.
THEOREM OutcomeHolds == Spec => []OutcomeTrue
BY Conversation, HSInvOutcome, PTL

\* Nothing is read past the reply.
LEMMA NotPast ==
    ASSUME HSInv
    PROVE  /\ \A i \in DOMAIN sent :
                sent[i].kind \notin Prefix \cup (IF pc \in {"accept", "accepted"} THEN {"second"} ELSE {})
                => taken <= sent[i].at
           /\ pc = "ok" => \E i \in Of("reply") : taken = EndOf(i)
           /\ HasConn => \E i \in Of("second") : taken = EndOf(i)
<1>1. ASSUME NEW i \in DOMAIN sent,
             sent[i].kind \notin Prefix \cup (IF pc \in {"accept", "accepted"} THEN {"second"} ELSE {})
      PROVE  taken <= sent[i].at
  <2>1. /\ i \in 1 .. Len(sent) /\ Len(sent) \in Nat /\ ReplyAt \in {1, 2, 3} /\ i > ReplyAt
        /\ i = ReplyAt + 1 /\ cfg.cmd = CmdBind => sent[i].kind = "second"
    BY <1>1, Places
  <2>2. /\ \A j, k \in 1 .. Len(sent) : j < k => EndOf(j) <= sent[k].at
        /\ taken \in Nat /\ \A j \in 1 .. Len(sent) : EndOf(j) \in Nat /\ sent[j].at \in Nat
    BY TalkFacts, Zenon DEF HSInv, Talk
  <2>3. CASE pc \in {"accept", "accepted"}
    <3>1. cfg.cmd = CmdBind
      BY <2>3 DEF HSInv, Paths
    <3>2. ReplyAt + 1 \in 1 .. Len(sent) /\ ReplyAt + 1 < i
      BY <1>1, <2>1, <2>3, <3>1
    <3>3. ReplyAt < Len(sent)
      BY <2>1, <3>2
    <3>4. taken <= EndOf(ReplyAt + 1)
      BY <2>3, <3>3 DEF HSInv, Bounded
    <3>5. EndOf(ReplyAt + 1) <= sent[i].at
      BY <2>1, <2>2, <3>2
    <3> QED
      BY <2>1, <2>2, <3>2, <3>4, <3>5
  <2>4. CASE pc \notin {"accept", "accepted"}
    <3>1. ReplyAt \in 1 .. Len(sent) /\ ReplyAt <= Len(sent)
      BY <2>1
    <3>2. taken <= EndOf(ReplyAt)
      BY <2>4, <3>1 DEF HSInv, Bounded
    <3>3. EndOf(ReplyAt) <= sent[i].at
      BY <2>1, <2>2, <3>1
    <3> QED
      BY <2>1, <2>2, <3>1, <3>2, <3>3
  <2> QED
    BY <2>3, <2>4
<1>2. pc = "ok" => \E i \in Of("reply") : taken = EndOf(i)
  <2> SUFFICES ASSUME pc = "ok" PROVE ReplyAt \in Of("reply") /\ taken = EndOf(ReplyAt)
    OBVIOUS
  <2>1. Live /\ ReplyAt \in Of("reply") /\ Cur = ReplyAt + 1 /\ ReplyAt \in 1 .. Len(sent) /\ Len(sent) \in Nat
    BY AfterReply
  <2>2. Base = EndOf(ReplyAt)
    BY <2>1 DEF Base
  <2>3. Len(Got) = 0
    BY <2>1, NothingUnread DEF Reading, HSInv
  <2>4. EndOf(ReplyAt) \in Nat
    BY <2>1, TalkFacts DEF HSInv
  <2>5. taken = Base + Len(Got)
    BY <2>1 DEF HSInv, Aligned
  <2> QED
    BY <2>1, <2>2, <2>3, <2>4, <2>5
<1>3. HasConn => \E i \in Of("second") : taken = EndOf(i)
  BY HasConnReturned
<1> QED
  BY <1>1, <1>2, <1>3

-----------------------------------------------------------------------------
(* What the client sends.  The server's parsers read back what the client  *)
(* writes.                                                                 *)

\* x is s, t and u, one after the other.
Joined(x, s, t, u) ==
    /\ x \in Seq(Bytes) /\ Len(x) = Len(s) + Len(t) + Len(u)
    /\ \A j \in 1 .. Len(s) : x[j] = s[j]
    /\ \A j \in 1 .. Len(t) : x[Len(s) + j] = t[j]
    /\ \A j \in 1 .. Len(u) : x[Len(s) + Len(t) + j] = u[j]

\* Concat3 of bytes.
LEMMA ConcatJoins ==
    ASSUME NEW s \in Seq(Bytes), NEW t \in Seq(Bytes), NEW u \in Seq(Bytes)
    PROVE  Joined(s \o t \o u, s, t, u)
<1>1. /\ s \o t \o u \in Seq(Bytes) /\ Len(s \o t \o u) = Len(s) + Len(t) + Len(u)
      /\ \A j \in 1 .. Len(s) : (s \o t \o u)[j] = s[j]
      /\ \A j \in 1 .. Len(t) : (s \o t \o u)[Len(s) + j] = t[j]
      /\ \A j \in 1 .. Len(u) : (s \o t \o u)[Len(s) + Len(t) + j] = u[j]
  BY Concat3
<1> QED
  BY <1>1 DEF Joined

\* The elements of four sequences of bytes, one after the other.
LEMMA Concat4 ==
    ASSUME NEW s \in Seq(Bytes), NEW t \in Seq(Bytes), NEW u \in Seq(Bytes), NEW v \in Seq(Bytes), NEW x
    PROVE  x = s \o t \o u \o v =>
             /\ x \in Seq(Bytes)
             /\ Len(x) = Len(s) + Len(t) + Len(u) + Len(v)
             /\ \A j \in 1 .. Len(s) : x[j] = s[j]
             /\ \A j \in 1 .. Len(t) : x[Len(s) + j] = t[j]
             /\ \A j \in 1 .. Len(u) : x[Len(s) + Len(t) + j] = u[j]
             /\ \A j \in 1 .. Len(v) : x[Len(s) + Len(t) + Len(u) + j] = v[j]
<1> DEFINE w == s \o t \o u
           a == Len(s)
           b == Len(t)
           c == Len(u)
           d == Len(v)
<1>0. ASSUME x = s \o t \o u \o v
      PROVE  /\ x \in Seq(Bytes) /\ Len(x) = a + b + c + d
             /\ \A j \in 1 .. a : x[j] = s[j]
             /\ \A j \in 1 .. b : x[a + j] = t[j]
             /\ \A j \in 1 .. c : x[a + b + j] = u[j]
             /\ \A j \in 1 .. d : x[a + b + c + j] = v[j]
  <2> HIDE DEF a, b, c, d
  <2>1. /\ w \in Seq(Bytes) /\ Len(w) = Len(s) + Len(t) + Len(u)
        /\ \A j \in 1 .. Len(s) : w[j] = s[j]
        /\ \A j \in 1 .. Len(t) : w[Len(s) + j] = t[j]
        /\ \A j \in 1 .. Len(u) : w[Len(s) + Len(t) + j] = u[j]
    <3>1. Joined(w, s, t, u)
      BY ConcatJoins
    <3> HIDE DEF w
    <3> QED
      BY <3>1, Zenon DEF Joined
  <2>2. w \in Seq(Bytes) /\ x = w \o v
    BY <1>0, <2>1
  <2> HIDE DEF w
  <2>3. /\ w \o v \in Seq(Bytes) /\ Len(w \o v) = Len(w) + Len(v)
        /\ \A j \in 1 .. Len(w) : (w \o v)[j] = w[j]
        /\ \A j \in 1 .. Len(v) : (w \o v)[Len(w) + j] = v[j]
    BY <2>2, Concat
  <2>4. a \in Nat /\ b \in Nat /\ c \in Nat /\ d \in Nat
    BY DEF a, b, c, d
  <2>5. /\ Len(w) = a + b + c
        /\ \A j \in 1 .. a + b + c : x[j] = w[j]
        /\ \A j \in 1 .. a : w[j] = s[j]
        /\ \A j \in 1 .. b : w[a + j] = t[j]
        /\ \A j \in 1 .. c : w[a + b + j] = u[j]
    BY <2>1, <2>2, <2>3 DEF a, b, c
  <2>6. x \in Seq(Bytes) /\ Len(x) = a + b + c + d /\ \A j \in 1 .. d : x[a + b + c + j] = v[j]
    BY <2>1, <2>2, <2>3, Zenon DEF a, b, c, d
  <2>7. /\ \A j \in 1 .. a : j \in 1 .. a + b + c
        /\ \A j \in 1 .. b : a + j \in 1 .. a + b + c
        /\ \A j \in 1 .. c : a + b + j \in 1 .. a + b + c
    BY <2>4
  <2>8. \A j \in 1 .. a : x[j] = s[j]
    BY <2>5, <2>7, Zenon
  <2>9. \A j \in 1 .. b : x[a + j] = t[j]
    BY <2>5, <2>7, Zenon
  <2>10. \A j \in 1 .. c : x[a + b + j] = u[j]
    BY <2>5, <2>7, Zenon
  <2> QED
    BY <2>6, <2>8, <2>9, <2>10
<1> QED
  BY <1>0, Zenon

\* What a reader may be handed of a message: a part, the whole, and more.
LEMMA ReaderInputs ==
    ASSUME NEW m \in Seq(Bytes)
    PROVE  /\ m \o <<1, 2>> \in Seq(Bytes) /\ Len(m \o <<1, 2>>) = Len(m) + 2 /\ Agree(m \o <<1, 2>>, m)
           /\ Agree(m, m) /\ Len(m) \in Nat
           /\ \A k \in 0 .. Len(m) - 1 :
                SubSeq(m, 1, k) \in Seq(Bytes) /\ Len(SubSeq(m, 1, k)) = k /\ Agree(SubSeq(m, 1, k), m)
<1> DEFINE e == <<1, 2>>
<1>1. e \in Seq(Bytes) /\ Len(e) = 2
  <2>1. 1 \in Bytes /\ 2 \in Bytes
    BY DEF Bytes
  <2> QED
    BY <2>1, TwoBytes
<1> HIDE DEF e
<1>2. Len(m) \in Nat
  OBVIOUS
<1>3. /\ m \o e \in Seq(Bytes) /\ Len(m \o e) = Len(m) + 2
      /\ \A j \in 1 .. Len(m) : (m \o e)[j] = m[j]
  <2>1. e \in Seq(Bytes)
    BY <1>1
  <2>2. /\ m \o e \in Seq(Bytes) /\ Len(m \o e) = Len(m) + Len(e)
        /\ \A j \in 1 .. Len(m) : (m \o e)[j] = m[j]
    BY <2>1, Concat
  <2> QED
    BY <1>1, <2>2
<1>4. Agree(m \o e, m)
  BY <1>2, <1>3 DEF Agree
<1>5. Agree(m, m)
  BY DEF Agree
<1>6. ASSUME NEW k \in 0 .. Len(m) - 1
      PROVE  SubSeq(m, 1, k) \in Seq(Bytes) /\ Len(SubSeq(m, 1, k)) = k /\ Agree(SubSeq(m, 1, k), m)
  <2>1. k \in Nat /\ 1 \in Nat /\ 1 <= 1 /\ k <= Len(m) /\ 1 <= k + 1 /\ k - 1 + 1 = k
    BY <1>2
  <2>2. /\ SubSeq(m, 1, k) \in Seq(Bytes) /\ Len(SubSeq(m, 1, k)) = k - 1 + 1
        /\ \A j \in 1 .. k - 1 + 1 : SubSeq(m, 1, k)[j] = m[1 + j - 1]
    BY <2>1, SliceFacts
  <2>3. \A j \in 1 .. k : j <= Len(m) => SubSeq(m, 1, k)[j] = m[j]
    BY <2>1, <2>2
  <2> QED
    BY <2>1, <2>2, <2>3 DEF Agree
<1> QED
  BY <1>2, <1>3, <1>4, <1>5, <1>6 DEF e

\* The server reads the greeting back.
LEMMA ReadsGreeting ==
    ASSUME NEW s \in Seq(Bytes), Len(s) \in 1 .. 255,
           NEW b \in Seq(Bytes), Agree(b, AppendGreeting(s))
    PROVE  LET m == AppendGreeting(s)
               r == ParseGreeting(b)
           IN /\ Len(b) < Len(m) => Partial(r, b, m)
              /\ Len(b) >= Len(m) => r.err = "nil" /\ r.n = Len(m) /\ r.methods = s
<1> DEFINE m == AppendGreeting(s)
           h == <<5, Len(s)>>
           r == ParseGreeting(b)
           L == Len(b)
           n == Len(s)
<1>1. h \in Seq(Bytes) /\ Len(h) = 2 /\ h[1] = 5 /\ h[2] = Len(s)
  <2>1. 5 \in Bytes /\ Len(s) \in Bytes
    BY DEF Bytes
  <2> QED
    BY <2>1, TwoBytes
<1>2. m = h \o s
  BY DEF AppendGreeting, Version5
<1> HIDE DEF m, h
<1>3. /\ m \in Seq(Bytes) /\ Len(m) = 2 + n
      /\ \A j \in 1 .. 2 : m[j] = h[j]
      /\ \A j \in 1 .. n : m[2 + j] = s[j]
  <2>1. h \in Seq(Bytes)
    BY <1>1
  <2>2. /\ h \o s \in Seq(Bytes) /\ Len(h \o s) = Len(h) + Len(s)
        /\ \A j \in 1 .. Len(h) : (h \o s)[j] = h[j]
        /\ \A j \in 1 .. Len(s) : (h \o s)[Len(h) + j] = s[j]
    BY <2>1, Concat
  <2> QED
    BY <1>1, <1>2, <2>2, Zenon
<1>4. m[1] = 5 /\ m[2] = n
  BY <1>1, <1>3, SMTT(30)
<1>5. L \in Nat /\ n \in 1 .. 255 /\ \A j \in 1 .. L : j <= 2 + n => b[j] = m[j]
  BY <1>3 DEF Agree, m
<1>6. (b # <<>> => b[1] = 5) /\ (L >= 2 => b[2] = n)
  BY <1>4, <1>5
<1>7. checkVersion(b, Version5)
  BY <1>6 DEF checkVersion, Version5
<1>8. L < 2 => r = Incomplete(3)
  BY <1>7 DEF ParseGreeting
<1>9. L >= 2 => r = IF L < 2 + n THEN Incomplete(2 + n)
                    ELSE [err |-> "nil", n |-> 2 + n, methods |-> SubSeq(b, 3, 2 + n)]
  <2> SUFFICES ASSUME L >= 2
               PROVE  r = IF L < 2 + n THEN Incomplete(2 + n)
                          ELSE [err |-> "nil", n |-> 2 + n, methods |-> SubSeq(b, 3, 2 + n)]
    OBVIOUS
  <2>0. L >= 2
    OBVIOUS
  <2> HIDE DEF r
  <2>1. ~(L < 2) /\ b[2] = n /\ n # 0
    <3> HIDE DEF L, n
    <3> QED
      BY <1>5, <1>6, <2>0
  <2> QED
    BY <1>7, <2>1 DEF ParseGreeting, r
<1> HIDE DEF r
<1>10. L >= 2 + n => SubSeq(b, 3, 2 + n) = s
  <2> SUFFICES ASSUME L >= 2 + n PROVE SubSeq(b, 3, 2 + n) = s
    OBVIOUS
  <2> DEFINE k == 2 + n
  <2>1. \A j \in 1 .. n : b[3 + j - 1] = s[j]
    <3> TAKE j \in 1 .. n
    <3>1. 2 + j \in 1 .. L /\ 2 + j <= 2 + n /\ 3 + j - 1 = 2 + j
      BY <1>5
    <3> QED
      BY <1>3, <1>5, <3>1
  <2>2. k \in Nat /\ k <= Len(b) /\ k - 3 + 1 = Len(s) /\ 3 \in Nat /\ 1 <= 3
    BY <1>5
  <2> HIDE DEF k
  <2>3. \A j \in 1 .. Len(s) : b[3 + j - 1] = s[j]
    BY <2>1
  <2>4. SubSeq(b, 3, k) = s
    BY <2>2, <2>3, Slice, Zenon
  <2> QED
    BY <2>4 DEF k
<1> DEFINE M == 2 + n
<1>11. L < M => r.err = "incomplete" /\ r.n \in L + 1 .. M
  <2>1. CASE L < 2
    <3>1. r = Incomplete(3)
      BY <1>8, <2>1
    <3>2. r.err = "incomplete" /\ r.n = 3
      BY <3>1 DEF Incomplete
    <3> HIDE DEF L, n
    <3> QED
      BY <1>5, <2>1, <3>2
  <2>2. CASE L >= 2
    <3>1. L < M => r = Incomplete(M)
      BY <1>9, <2>2
    <3> HIDE DEF M
    <3>2. L < M => r.err = "incomplete" /\ r.n = M
      BY <3>1 DEF Incomplete
    <3>3. M \in Nat
      BY <1>5 DEF M
    <3> QED
      BY <1>5, <3>2, <3>3
  <2> QED
    BY <1>5, <2>1, <2>2
<1>12. L >= M => r.err = "nil" /\ r.n = M /\ r.methods = s
  <2> SUFFICES ASSUME L >= M PROVE r.err = "nil" /\ r.n = M /\ r.methods = s
    OBVIOUS
  <2>1. L >= 2 /\ ~(L < M)
    BY <1>5
  <2>2. r = [err |-> "nil", n |-> M, methods |-> s]
    BY <1>9, <1>10, <2>1, Zenon
  <2> HIDE DEF M
  <2> QED
    BY <2>2
<1>13. Len(m) = M /\ M \in Nat
  BY <1>3, <1>5, SMTT(30)
<1> HIDE DEF M, L
<1>14. L < M => Partial(r, b, m)
  BY <1>11, <1>13 DEF Partial, L
<1> QED
  BY <1>12, <1>13, <1>14 DEF m, r, L

\* A length of at most 255 fits in a byte.
LEMMA SmallByte == \A n \in Nat : n <= 255 => n \in Bytes
BY DEF Bytes

\* The request of RFC 1929, byte by byte.
LEMMA UserPassMessage ==
    ASSUME NEW u \in Seq(Bytes), Len(u) <= 255, NEW p \in Seq(Bytes), Len(p) <= 255
    PROVE  /\ AppendUserPass(u, p) \in Seq(Bytes)
           /\ Len(AppendUserPass(u, p)) = 3 + Len(u) + Len(p)
           /\ AppendUserPass(u, p)[1] = 1 /\ AppendUserPass(u, p)[2] = Len(u)
           /\ \A j \in 1 .. Len(u) : AppendUserPass(u, p)[2 + j] = u[j]
           /\ AppendUserPass(u, p)[3 + Len(u)] = Len(p)
           /\ \A j \in 1 .. Len(p) : AppendUserPass(u, p)[3 + Len(u) + j] = p[j]
<1>0. Len(u) \in Nat /\ Len(p) \in Nat /\ Len(u) \in Bytes /\ Len(p) \in Bytes /\ 1 \in Bytes
  <2>1. Len(u) \in Nat /\ Len(p) \in Nat
    OBVIOUS
  <2> QED
    BY <2>1, SmallByte
<1> DEFINE U == Len(u)
           P == Len(p)
<1>1. U \in Nat /\ P \in Nat /\ U \in Bytes /\ P \in Bytes /\ 1 \in Bytes
  BY <1>0
<1> DEFINE h == <<1, Len(u)>>
           l == <<Len(p)>>
           m == h \o u \o l \o p
<1>2. h \in Seq(Bytes) /\ Len(h) = 2 /\ h[1] = 1 /\ h[2] = U
  BY <1>1, TwoBytes
<1>3. l \in Seq(Bytes) /\ Len(l) = 1 /\ l[1] = P
  BY <1>1, OneByte
<1>4. AppendUserPass(u, p) = m
  BY DEF AppendUserPass, UserPassVersion
<1> HIDE DEF h, l
<1>5. /\ m \in Seq(Bytes)
      /\ Len(m) = Len(h) + Len(u) + Len(l) + Len(p)
      /\ \A j \in 1 .. Len(h) : m[j] = h[j]
      /\ \A j \in 1 .. Len(u) : m[Len(h) + j] = u[j]
      /\ \A j \in 1 .. Len(l) : m[Len(h) + Len(u) + j] = l[j]
      /\ \A j \in 1 .. Len(p) : m[Len(h) + Len(u) + Len(l) + j] = p[j]
  <2>1. h \in Seq(Bytes) /\ u \in Seq(Bytes) /\ l \in Seq(Bytes) /\ p \in Seq(Bytes)
    BY <1>2, <1>3
  <2>2. m = h \o u \o l \o p
    OBVIOUS
  <2> HIDE DEF m, U, P
  <2> QED
    BY <2>1, <2>2, Concat4
<1> HIDE DEF m, U, P
<1>6. /\ Len(m) = 2 + U + 1 + P
      /\ \A j \in 1 .. 2 : m[j] = h[j]
      /\ \A j \in 1 .. U : m[2 + j] = u[j]
      /\ \A j \in 1 .. 1 : m[2 + U + j] = l[j]
      /\ \A j \in 1 .. P : m[2 + U + 1 + j] = p[j]
  BY <1>2, <1>3, <1>5 DEF U, P
<1>7. m[1] = 1 /\ m[2] = U
  BY <1>2, <1>6
<1>8. m[2 + U + 1] = P
  BY <1>3, <1>6
<1>9. Len(m) = 3 + U + P /\ m[3 + U] = P /\ \A j \in 1 .. P : m[3 + U + j] = p[j]
  <2>1. 2 + U + 1 = 3 + U
    BY <1>1
  <2> QED
    BY <1>1, <1>6, <1>8, <2>1
<1> QED
  BY <1>4, <1>5, <1>6, <1>7, <1>9 DEF U, P

\* ParseUserPass of the first bytes of the request of RFC 1929.
LEMMA ReadsUserPass ==
    ASSUME NEW u \in Seq(Bytes), Len(u) <= 255, NEW p \in Seq(Bytes), Len(p) <= 255,
           NEW b \in Seq(Bytes), Agree(b, AppendUserPass(u, p))
    PROVE  LET m == AppendUserPass(u, p)
               r == ParseUserPass(b)
           IN /\ Len(b) < Len(m) => Partial(r, b, m)
              /\ Len(b) >= Len(m) => r.err = "nil" /\ r.n = Len(m) /\ r.user = u /\ r.pass = p
<1> DEFINE m == AppendUserPass(u, p)
           r == ParseUserPass(b)
           L == Len(b)
           U == Len(u)
           P == Len(p)
<1>1. /\ m \in Seq(Bytes) /\ Len(m) = 3 + U + P /\ m[1] = 1 /\ m[2] = U
      /\ \A j \in 1 .. U : m[2 + j] = u[j]
      /\ m[3 + U] = P
      /\ \A j \in 1 .. P : m[3 + U + j] = p[j]
  BY UserPassMessage
<1>2. L \in Nat /\ U \in Nat /\ P \in Nat /\ \A j \in 1 .. L : j <= Len(m) => b[j] = m[j]
  BY DEF Agree
<1> HIDE DEF m, L, U, P
<1>3. \A j \in 1 .. L : j <= 3 + U + P => b[j] = m[j]
  BY <1>1, <1>2
<1>4. (L >= 1 => b[1] = 1) /\ (L >= 2 => b[2] = U) /\ (L >= 3 + U => b[3 + U] = P)
  BY <1>1, <1>2, <1>3
<1>5. checkVersion(b, UserPassVersion)
  <2>1. b # <<>> => L >= 1
    BY DEF L
  <2> QED
    BY <1>4, <2>1 DEF checkVersion, UserPassVersion
<1>6. L < 2 => r = Incomplete(3)
  BY <1>5 DEF ParseUserPass, L
<1>7. L >= 2 /\ L <= 2 + U => r = Incomplete(2 + U + 1)
  <2> SUFFICES ASSUME L >= 2, L <= 2 + U PROVE r = Incomplete(2 + U + 1)
    OBVIOUS
  <2>1. ~(L < 2) /\ b[2] = U
    BY <1>2, <1>4
  <2> QED
    BY <1>5, <2>1 DEF ParseUserPass, L
<1>8. L >= 3 + U => r = IF L < 3 + U + P THEN Incomplete(3 + U + P)
                        ELSE [err |-> "nil", n |-> 3 + U + P,
                              user |-> SubSeq(b, 3, 2 + U), pass |-> SubSeq(b, 2 + U + 2, 3 + U + P)]
  <2> SUFFICES ASSUME L >= 3 + U
               PROVE  r = IF L < 3 + U + P THEN Incomplete(3 + U + P)
                          ELSE [err |-> "nil", n |-> 3 + U + P,
                                user |-> SubSeq(b, 3, 2 + U), pass |-> SubSeq(b, 2 + U + 2, 3 + U + P)]
    OBVIOUS
  <2> HIDE DEF r
  <2>1. /\ ~(L < 2) /\ ~(L <= 2 + U) /\ b[2] = U /\ b[2 + U + 1] = P
        /\ 2 + U + 1 + P = 3 + U + P
    <3>1. 2 + U + 1 = 3 + U
      BY <1>2
    <3> QED
      BY <1>2, <1>4, <3>1
  <2> DEFINE N == 3 + U + P
             x == SubSeq(b, 3, 2 + U)
             y == SubSeq(b, 2 + U + 2, N)
  <2>2. r = LET plenAt == 2 + b[2] IN
           IF Len(b) <= plenAt THEN Incomplete(plenAt + 1)
           ELSE LET n == plenAt + 1 + b[plenAt + 1] IN
                IF Len(b) < n THEN Incomplete(n)
                ELSE [err |-> "nil", n |-> n,
                      user |-> SubSeq(b, 3, plenAt), pass |-> SubSeq(b, plenAt + 2, n)]
    BY <1>5, <2>1 DEF ParseUserPass, L, r
  <2>3. r = LET n == 2 + U + 1 + b[2 + U + 1] IN
                IF Len(b) < n THEN Incomplete(n)
                ELSE [err |-> "nil", n |-> n,
                      user |-> SubSeq(b, 3, 2 + U), pass |-> SubSeq(b, 2 + U + 2, n)]
    BY <2>1, <2>2, Zenon DEF L
  <2>4. 2 + U + 1 + b[2 + U + 1] = 3 + U + P
    BY <2>1
  <2> QED
    BY <2>3, <2>4, Zenon DEF L
<1> HIDE DEF r
<1>9. L >= 3 + U + P => SubSeq(b, 3, 2 + U) = u
  <2> SUFFICES ASSUME L >= 3 + U + P PROVE SubSeq(b, 3, 2 + U) = u
    OBVIOUS
  <2> DEFINE k == 2 + U
  <2>1. \A j \in 1 .. U : b[3 + j - 1] = u[j]
    <3> TAKE j \in 1 .. U
    <3>1. 2 + j \in 1 .. L /\ 2 + j <= 3 + U + P /\ 3 + j - 1 = 2 + j
      BY <1>2
    <3> QED
      BY <1>1, <1>3, <3>1
  <2>2. k \in Nat /\ k <= L /\ k - 3 + 1 = U /\ 3 \in Nat /\ 1 <= 3
    BY <1>2
  <2> HIDE DEF k
  <2>3. SubSeq(b, 3, k) = u
    BY <2>1, <2>2, Slice, Zenon DEF L, U
  <2> QED
    BY <2>3 DEF k
<1>10. L >= 3 + U + P => SubSeq(b, 2 + U + 2, 3 + U + P) = p
  <2> SUFFICES ASSUME L >= 3 + U + P PROVE SubSeq(b, 2 + U + 2, 3 + U + P) = p
    OBVIOUS
  <2> DEFINE i == 2 + U + 2
             k == 3 + U + P
  <2>1. \A j \in 1 .. P : b[i + j - 1] = p[j]
    <3> TAKE j \in 1 .. P
    <3>1. 3 + U + j \in 1 .. L /\ 3 + U + j <= 3 + U + P /\ i + j - 1 = 3 + U + j
      BY <1>2
    <3> QED
      BY <1>1, <1>3, <3>1
  <2>2. k \in Nat /\ k <= L /\ k - i + 1 = P /\ i \in Nat /\ 1 <= i
    BY <1>2
  <2> HIDE DEF k, i
  <2>3. SubSeq(b, i, k) = p
    BY <2>1, <2>2, Slice DEF L, P
  <2> QED
    BY <2>3 DEF k, i
<1> DEFINE M == 3 + U + P
<1>11. L < M => r.err = "incomplete" /\ r.n \in L + 1 .. M
  <2>1. CASE L < 2
    <3>1. r.err = "incomplete" /\ r.n = 3
      BY <1>6, <2>1 DEF Incomplete
    <3> QED
      BY <1>2, <2>1, <3>1
  <2>2. CASE L >= 2 /\ L <= 2 + U
    <3> DEFINE k == 2 + U + 1
    <3>1. r = Incomplete(k)
      BY <1>7, <2>2
    <3>2. k \in L + 1 .. M
      BY <1>2, <2>2
    <3> HIDE DEF k
    <3>3. r.err = "incomplete" /\ r.n = k
      BY <3>1 DEF Incomplete
    <3> QED
      BY <3>2, <3>3
  <2>3. CASE L >= 3 + U
    <3>1. L < M => r = Incomplete(M)
      BY <1>8, <2>3
    <3>2. M \in Nat
      BY <1>2
    <3> HIDE DEF M
    <3>3. L < M => r.err = "incomplete" /\ r.n = M
      BY <3>1 DEF Incomplete
    <3> QED
      BY <1>2, <3>2, <3>3
  <2> QED
    BY <1>2, <2>1, <2>2, <2>3
<1>12. L >= M => r.err = "nil" /\ r.n = M /\ r.user = u /\ r.pass = p
  <2> SUFFICES ASSUME L >= M PROVE r.err = "nil" /\ r.n = M /\ r.user = u /\ r.pass = p
    OBVIOUS
  <2>1. L >= 3 + U /\ ~(L < M)
    BY <1>2
  <2>2. r = [err |-> "nil", n |-> M, user |-> u, pass |-> p]
    BY <1>8, <1>9, <1>10, <2>1, Zenon
  <2> HIDE DEF M
  <2> QED
    BY <2>2
<1>13. Len(m) = M /\ M \in Nat
  BY <1>1, <1>2
<1> HIDE DEF M
<1>14. L < M => Partial(r, b, m)
  BY <1>11, <1>13 DEF Partial, L
<1> QED
  BY <1>12, <1>13, <1>14 DEF m, r, L

\* The least element of a set that has one.
LEMMA Least ==
    ASSUME NEW N, NEW l \in Nat, N \subseteq Nat, l \in N, \A j \in N : l <= j
    PROVE  (CHOOSE i \in N : \A j \in N : i <= j) = l
<1> DEFINE c == CHOOSE i \in N : \A j \in N : i <= j
<1>1. c \in N /\ \A j \in N : c <= j
  BY Zenon
<1> HIDE DEF c
<1>2. c <= l /\ l <= c /\ c \in Nat
  BY <1>1
<1>3. c = l
  BY <1>2
<1> QED
  BY <1>3 DEF c

\* b has s and a NUL after the first start bytes, as far as it goes; r is what
\* cstring makes of it.
Terminated(b, start, s) ==
    /\ \A j \in 1 .. Len(s) : start + j <= Len(b) => b[start + j] = s[j]
    /\ start + Len(s) + 1 <= Len(b) => b[start + Len(s) + 1] = 0
ReadsString(r, b, start, s, after) ==
    /\ Len(b) < start + Len(s) + 1 =>
         r.err = "incomplete" /\ r.n \in Len(b) + 1 .. start + Len(s) + 1 + after
    /\ Len(b) >= start + Len(s) + 1 =>
         r = [err |-> "nil", n |-> start + Len(s) + 1, str |-> s]

\* cstring reads back a string without NUL that ends with one.
LEMMA CString ==
    ASSUME NEW b \in Seq(Bytes), NEW start \in Nat, start <= Len(b),
           NEW s \in Seq(Bytes), Len(s) <= 255, ~Has(s, 0),
           NEW min \in Nat, min <= Len(s), NEW after \in Nat,
           Terminated(b, start, s)
    PROVE  ReadsString(cstring(b, start, min, after), b, start, s, after)
<1> DEFINE L == Len(b)
           l == Len(s)
           r == cstring(b, start, min, after)
           nuls == {i \in 0 .. L - start - 1 : b[start + i + 1] = 0}
           have == L - start
           lacking == IF min > have THEN min - have ELSE 0
<1>1. L \in Nat /\ l \in Nat /\ l <= 255 /\ start <= L /\ min <= l
  OBVIOUS
<1>2. \A j \in 1 .. l : s[j] # 0
  BY DEF Has
<1>3. /\ \A j \in 1 .. l : start + j <= L => b[start + j] = s[j]
      /\ start + l + 1 <= L => b[start + l + 1] = 0
  BY DEF Terminated
<1>4. r = IF nuls = {}
          THEN IF have > 255 THEN Protocol ELSE Incomplete(L + lacking + 1 + after)
          ELSE LET i == CHOOSE i \in nuls : \A j \in nuls : i <= j IN
               IF i > 255 \/ i < min THEN Protocol
               ELSE [err |-> "nil", n |-> start + i + 1, str |-> SubSeq(b, start + 1, start + i)]
  BY DEF cstring
<1> HIDE DEF r
<1>5. nuls \subseteq Nat
  BY <1>1
<1>6. \A i \in nuls : l <= i
  <2> SUFFICES ASSUME NEW i \in nuls, ~(l <= i) PROVE FALSE
    OBVIOUS
  <2>1. i \in 0 .. L - start - 1 /\ b[start + i + 1] = 0
    OBVIOUS
  <2> HIDE DEF L, l, nuls, have, lacking
  <2>2. i + 1 \in 1 .. l /\ start + (i + 1) <= L /\ start + (i + 1) = start + i + 1
    BY <1>1, <2>1
  <2> QED
    BY <1>2, <1>3, <2>1, <2>2
<1>7. L < start + l + 1 => /\ r.err = "incomplete"
                           /\ r.n \in L + 1 .. start + l + 1 + after
  <2> SUFFICES ASSUME L < start + l + 1
               PROVE  r.err = "incomplete" /\ r.n \in L + 1 .. start + l + 1 + after
    OBVIOUS
  <2>1. nuls = {}
    <3> SUFFICES ASSUME NEW i \in nuls PROVE FALSE
      BY Zenon
    <3>1. i \in 0 .. L - start - 1
      OBVIOUS
    <3>2. l <= i
      BY <1>6
    <3> HIDE DEF L, l, nuls, have, lacking
    <3> QED
      BY <1>1, <3>1, <3>2
  <2>2. ~(have > 255)
    <3>1. have = L - start
      OBVIOUS
    <3> HIDE DEF L, l, nuls, have, lacking
    <3> QED
      BY <1>1, <3>1
  <2>3. r = Incomplete(L + lacking + 1 + after)
    BY <1>4, <2>1, <2>2
  <2>4. L + lacking + 1 + after \in L + 1 .. start + l + 1 + after
    <3>1. have = L - start /\ lacking = IF min > have THEN min - have ELSE 0
      OBVIOUS
    <3> HIDE DEF L, l, nuls, have, lacking
    <3> QED
      BY <1>1, <3>1
  <2> HIDE DEF L, l, nuls, have, lacking
  <2>5. r.err = "incomplete" /\ r.n = L + lacking + 1 + after
    BY <2>3 DEF Incomplete
  <2> QED
    BY <2>4, <2>5
<1>8. L >= start + l + 1 => r = [err |-> "nil", n |-> start + l + 1, str |-> s]
  <2> SUFFICES ASSUME L >= start + l + 1 PROVE r = [err |-> "nil", n |-> start + l + 1, str |-> s]
    OBVIOUS
  <2>1. l \in 0 .. L - start - 1
    <3> HIDE DEF L, l, nuls, have, lacking
    <3> QED
      BY <1>1
  <2>2. b[start + l + 1] = 0
    <3>1. start + l + 1 <= L
      BY <1>1
    <3> QED
      BY <1>3, <3>1
  <2>3. l \in nuls
    BY <2>1, <2>2
  <2> HIDE DEF L, l, nuls, have, lacking
  <2>4. (CHOOSE i \in nuls : \A j \in nuls : i <= j) = l
    BY <1>1, <1>5, <1>6, <2>3, Least, Zenon
  <2>5. ~(l > 255 \/ l < min) /\ nuls # {}
    BY <1>1, <2>3
  <2>6. r = [err |-> "nil", n |-> start + l + 1, str |-> SubSeq(b, start + 1, start + l)]
    BY <1>4, <2>4, <2>5, Zenon
  <2> DEFINE i == start + 1
             k == start + l
  <2>7. i \in Nat /\ k \in Nat /\ 1 <= i /\ k <= L /\ k - i + 1 = l
    BY <1>1
  <2>8. \A j \in 1 .. l : b[i + j - 1] = s[j]
    <3> TAKE j \in 1 .. l
    <3>1. start + j <= L /\ i + j - 1 = start + j
      BY <1>1
    <3> QED
      BY <1>3, <3>1
  <2> HIDE DEF i, k
  <2>9. SubSeq(b, i, k) = s
    BY <2>7, <2>8, Slice, Zenon DEF L, l
  <2> QED
    BY <2>6, <2>9, Zenon DEF i, k
<1> QED
  BY <1>7, <1>8 DEF r, L, l, ReadsString

\* Of a SOCKS4 request: the address, and what of the name follows USERID.
Host4(a) == IF Len(a.ip) = 4 THEN a.ip ELSE <<0, 0, 0, 1>>
Name4(a) == IF IsName(a) THEN a.name \o <<0>> ELSE <<>>

\* The address of a SOCKS4 request.
LEMMA Host4Facts ==
    ASSUME NEW a \in ValidAddrs, Len(a.ip) # 16
    PROVE  /\ Host4(a) \in Seq(Bytes) /\ Len(Host4(a)) = 4
           /\ IsName(a) => Host4(a) = <<0, 0, 0, 1>>
           /\ ~IsName(a) => Host4(a) = a.ip
<1> DEFINE z == <<0, 0, 0, 1>>
<1>1. z \in Seq(Bytes) /\ Len(z) = 4
  <2>1. 0 \in Bytes /\ 1 \in Bytes
    BY DEF Bytes
  <2> QED
    BY <2>1
<1>2. Len(<<>>) = 0
  OBVIOUS
<1>3. /\ a.ip \in Seq(Bytes)
      /\ IsName(a) => a.ip = <<>>
      /\ ~IsName(a) => Len(a.ip) = 4
  BY AddrFacts
<1>4. Host4(a) = IF Len(a.ip) = 4 THEN a.ip ELSE z
  BY DEF Host4
<1> HIDE DEF z
<1>5. CASE Len(a.ip) = 4
  <2>1. ~IsName(a)
    BY <1>2, <1>3, <1>5, Zenon
  <2> QED
    BY <1>3, <1>4, <1>5, <2>1
<1>6. CASE Len(a.ip) # 4
  <2>1. Host4(a) = z
    BY <1>4, <1>6
  <2> QED
    BY <1>1, <1>3, <1>6, <2>1 DEF z
<1> QED
  BY <1>5, <1>6

\* The name of a SOCKS4a request and its NUL.
LEMMA Name4Facts ==
    ASSUME NEW a \in ValidAddrs
    PROVE  /\ Name4(a) \in Seq(Bytes)
           /\ IsName(a) => /\ Len(Name4(a)) = Len(a.name) + 1 /\ Name4(a)[Len(a.name) + 1] = 0
                           /\ \A j \in 1 .. Len(a.name) : Name4(a)[j] = a.name[j]
           /\ ~IsName(a) => Len(Name4(a)) = 0
<1>1. a.name \in Seq(Bytes)
  BY AddrFacts
<1> DEFINE z == <<0>>
           s == a.name
<1>2. z \in Seq(Bytes) /\ Len(z) = 1 /\ z[1] = 0
  <2>1. 0 \in Bytes
    BY DEF Bytes
  <2> QED
    BY <2>1, OneByte
<1>3. CASE IsName(a)
  <2>1. Name4(a) = s \o z
    BY <1>3 DEF Name4
  <2> HIDE DEF z, s
  <2>2. s \in Seq(Bytes) /\ z \in Seq(Bytes)
    BY <1>1, <1>2 DEF s
  <2>3. /\ s \o z \in Seq(Bytes) /\ Len(s \o z) = Len(s) + Len(z)
        /\ \A j \in 1 .. Len(s) : (s \o z)[j] = s[j]
        /\ \A j \in 1 .. Len(z) : (s \o z)[Len(s) + j] = z[j]
    BY <2>2, Concat
  <2>4. (s \o z)[Len(s) + 1] = 0
    BY <1>2, <2>3
  <2> QED
    BY <1>2, <1>3, <2>1, <2>3, <2>4 DEF s
<1>4. CASE ~IsName(a)
  BY <1>4 DEF Name4
<1> QED
  BY <1>3, <1>4

\* The SOCKS4 request, byte by byte.
LEMMA Request4Message ==
    ASSUME NEW a \in ValidAddrs, Len(a.ip) # 16, NEW cmd \in Bytes, NEW u \in Seq(Bytes)
    PROVE  LET m == AppendRequest4(cmd, a, u) IN
           /\ m \in Seq(Bytes) /\ Len(m) = 9 + Len(u) + Len(Name4(a))
           /\ m[1] = 4 /\ m[3] * 256 + m[4] = a.port
           /\ \A j \in 1 .. 4 : m[4 + j] = Host4(a)[j]
           /\ \A j \in 1 .. Len(u) : m[8 + j] = u[j]
           /\ m[9 + Len(u)] = 0
           /\ \A j \in 1 .. Len(Name4(a)) : m[9 + Len(u) + j] = Name4(a)[j]
<1> DEFINE c == <<4, cmd>>
           p == Uint16(a.port)
           host == Host4(a)
           hd == c \o p \o host
           z == <<0>>
           t == Name4(a)
           m == AppendRequest4(cmd, a, u)
<1>1. c \in Seq(Bytes) /\ Len(c) = 2 /\ c[1] = 4
  <2>1. 4 \in Bytes
    BY DEF Bytes
  <2> QED
    BY <2>1, TwoBytes
<1>2. p \in Seq(Bytes) /\ Len(p) = 2 /\ p[1] * 256 + p[2] = a.port
  BY AddrFacts, Port
<1>3. host \in Seq(Bytes) /\ Len(host) = 4
  BY Host4Facts
<1>4. z \in Seq(Bytes) /\ Len(z) = 1 /\ z[1] = 0
  <2>1. 0 \in Bytes
    BY DEF Bytes
  <2> QED
    BY <2>1, OneByte
<1>5. t \in Seq(Bytes)
  BY Name4Facts
<1>6. m = hd \o u \o z \o t
  BY DEF AppendRequest4, Host4, Name4, Version4
<1> HIDE DEF c, p, host, z, t, m
<1>7. /\ hd \in Seq(Bytes) /\ Len(hd) = Len(c) + Len(p) + Len(host)
      /\ \A j \in 1 .. Len(c) : hd[j] = c[j]
      /\ \A j \in 1 .. Len(p) : hd[Len(c) + j] = p[j]
      /\ \A j \in 1 .. Len(host) : hd[Len(c) + Len(p) + j] = host[j]
  <2>1. c \in Seq(Bytes) /\ p \in Seq(Bytes) /\ host \in Seq(Bytes)
    BY <1>1, <1>2, <1>3
  <2> QED
    BY <2>1, Concat3
<1> HIDE DEF hd
<1>8. /\ hd \in Seq(Bytes) /\ Len(hd) = 8 /\ hd[1] = 4 /\ hd[3] * 256 + hd[4] = a.port
      /\ \A j \in 1 .. 4 : hd[4 + j] = host[j]
  <2>1. /\ \A j \in 1 .. 2 : hd[j] = c[j]
        /\ \A j \in 1 .. 2 : hd[2 + j] = p[j]
        /\ \A j \in 1 .. 4 : hd[2 + 2 + j] = host[j]
        /\ Len(hd) = 2 + 2 + 4
    BY <1>1, <1>2, <1>3, <1>7
  <2>2. hd[2 + 1] = p[1] /\ hd[2 + 2] = p[2]
    BY <2>1
  <2>3. hd[3] = p[1] /\ hd[4] = p[2]
    BY <2>2
  <2>4. hd[1] = 4
    BY <1>1, <2>1
  <2>5. \A j \in 1 .. 4 : hd[4 + j] = host[j]
    BY <2>1
  <2>6. hd[3] * 256 + hd[4] = a.port
    BY <1>2, <2>3
  <2>7. hd \in Seq(Bytes) /\ Len(hd) = 8
    <3>1. Len(c) + Len(p) + Len(host) = 8
      BY <1>1, <1>2, <1>3
    <3> QED
      BY <1>7, <3>1, Zenon
  <2> QED
    BY <2>4, <2>5, <2>6, <2>7
<1>9. /\ m \in Seq(Bytes)
      /\ Len(m) = Len(hd) + Len(u) + Len(z) + Len(t)
      /\ \A j \in 1 .. Len(hd) : m[j] = hd[j]
      /\ \A j \in 1 .. Len(u) : m[Len(hd) + j] = u[j]
      /\ \A j \in 1 .. Len(z) : m[Len(hd) + Len(u) + j] = z[j]
      /\ \A j \in 1 .. Len(t) : m[Len(hd) + Len(u) + Len(z) + j] = t[j]
  <2>1. hd \in Seq(Bytes) /\ u \in Seq(Bytes) /\ z \in Seq(Bytes) /\ t \in Seq(Bytes)
    BY <1>4, <1>5, <1>7
  <2> QED
    BY <1>6, <2>1, Concat4
<1> DEFINE U == Len(u)
           T == Len(t)
<1>10. U \in Nat /\ T \in Nat
  BY <1>5
<1>11. /\ Len(m) = 8 + U + 1 + T
       /\ \A j \in 1 .. 8 : m[j] = hd[j]
       /\ \A j \in 1 .. U : m[8 + j] = u[j]
       /\ \A j \in 1 .. 1 : m[8 + U + j] = z[j]
       /\ \A j \in 1 .. T : m[8 + U + 1 + j] = t[j]
  BY <1>4, <1>8, <1>9
<1> HIDE DEF U, T
<1>12. 8 + U + 1 + T = 9 + U + T /\ 8 + U + 1 = 9 + U
  BY <1>10
<1>13. m[9 + U] = 0
  <2>1. m[8 + U + 1] = z[1]
    BY <1>11
  <2> QED
    BY <1>4, <1>12, <2>1
<1>14. m[1] = 4 /\ m[3] * 256 + m[4] = a.port
  BY <1>8, <1>11
<1>15. \A j \in 1 .. 4 : m[4 + j] = host[j]
  BY <1>8, <1>11
<1>16. \A j \in 1 .. T : m[9 + U + j] = t[j]
  BY <1>10, <1>11, <1>12
<1>17. Len(m) = 9 + U + T
  BY <1>11, <1>12
<1>18. \A j \in 1 .. U : m[8 + j] = u[j]
  BY <1>11
<1> QED
  BY <1>9, <1>13, <1>14, <1>15, <1>16, <1>17, <1>18, Zenon DEF m, host, t, U, T

\* The address of a SOCKS4 request says whether a name follows USERID.
LEMMA Is4a ==
    ASSUME NEW a \in ValidAddrs, NEW u, checkRequest4(a, u)
    PROVE  /\ Len(a.ip) # 16 /\ ~Has(u, 0) /\ ~Has(a.name, 0) /\ Len(u) <= 255
           /\ IsName(a) => isSOCKS4aIP(Host4(a)) /\ Host4(a)[4] # 0
           /\ ~IsName(a) => ~isSOCKS4aIP(Host4(a))
<1>1. Len(a.ip) # 16 /\ ~Has(u, 0) /\ ~Has(a.name, 0) /\ Len(u) <= 255 /\ ~isSOCKS4aIP(a.ip)
  BY DEF checkRequest4
<1>2. /\ IsName(a) => Host4(a) = <<0, 0, 0, 1>>
      /\ ~IsName(a) => Host4(a) = a.ip
  BY <1>1, Host4Facts
<1>3. isSOCKS4aIP(<<0, 0, 0, 1>>)
  <2>1. <<0, 0, 0, 1>> \in Seq(Int) /\ Len(<<0, 0, 0, 1>>) = 4
    OBVIOUS
  <2> DEFINE z == <<0, 0, 0, 1>>
             y == <<0, 0, 0>>
  <2>2. y \in Seq(Int) /\ Len(y) = 3 /\ z[1] = y[1] /\ z[2] = y[2] /\ z[3] = y[3]
    OBVIOUS
  <2>3. z \in Seq(Int) /\ Len(z) = 4
    BY <2>1
  <2> HIDE DEF z, y
  <2>4. \A j \in 1 .. Len(y) : z[1 + j - 1] = y[j]
    BY <2>2
  <2>5. 1 \in Nat /\ 3 \in Nat /\ 1 <= 1 /\ 3 <= Len(z) /\ 3 - 1 + 1 = Len(y)
    BY <2>2, <2>3
  <2>6. SubSeq(z, 1, 3) = y
    BY <2>2, <2>3, <2>4, <2>5, Slice
  <2> QED
    BY <2>3, <2>6 DEF isSOCKS4aIP, z, y
<1>4. <<0, 0, 0, 1>>[4] # 0
  OBVIOUS
<1> QED
  BY <1>1, <1>2, <1>3, <1>4

\* The server reads the SOCKS4 request back.
LEMMA ReadsRequest4 ==
    ASSUME NEW a \in ValidAddrs, NEW u \in Seq(Bytes), checkRequest4(a, u), NEW cmd \in Bytes,
           NEW b \in Seq(Bytes), Agree(b, AppendRequest4(cmd, a, u))
    PROVE  LET m == AppendRequest4(cmd, a, u)
               r == ParseRequest4(b)
           IN /\ Len(b) < Len(m) => Partial(r, b, m)
              /\ Len(b) >= Len(m) => r.err = "nil" /\ r.n = Len(m) /\ r.addr = a /\ r.user = u
<1> DEFINE m == AppendRequest4(cmd, a, u)
           r == ParseRequest4(b)
           L == Len(b)
           U == Len(u)
           T == Len(Name4(a))
           K == Len(a.name)
           M == 9 + U + T
           host == Host4(a)
           nm == Name4(a)
           is4a == isSOCKS4aIP(SubSeq(b, 5, 8)) /\ b[8] # 0
           after == IF is4a THEN 2 ELSE 0
           user == cstring(b, 8, 0, after)
<1>1. /\ Len(a.ip) # 16 /\ ~Has(u, 0) /\ ~Has(a.name, 0) /\ Len(u) <= 255
      /\ IsName(a) => isSOCKS4aIP(host) /\ host[4] # 0
      /\ ~IsName(a) => ~isSOCKS4aIP(host)
  BY Is4a
<1>2. /\ m \in Seq(Bytes) /\ Len(m) = M
      /\ m[1] = 4 /\ m[3] * 256 + m[4] = a.port
      /\ \A j \in 1 .. 4 : m[4 + j] = host[j]
      /\ \A j \in 1 .. U : m[8 + j] = u[j]
      /\ m[9 + U] = 0
      /\ \A j \in 1 .. T : m[9 + U + j] = nm[j]
  BY <1>1, Request4Message, ZenonT(40)
<1>3. host \in Seq(Bytes) /\ Len(host) = 4 /\ (~IsName(a) => host = a.ip)
  BY <1>1, Host4Facts
<1>4. /\ nm \in Seq(Bytes)
      /\ IsName(a) => /\ T = K + 1 /\ nm[K + 1] = 0
                      /\ \A j \in 1 .. K : nm[j] = a.name[j]
      /\ ~IsName(a) => T = 0
  BY Name4Facts
<1>5. /\ a.name \in Seq(Bytes)
      /\ a = [ip |-> a.ip, name |-> a.name, port |-> a.port]
      /\ IsName(a) => a.ip = <<>> /\ K \in 1 .. 255
      /\ ~IsName(a) => a.name = <<>>
  BY AddrFacts
<1>6. /\ L \in Nat /\ U \in Nat /\ T \in Nat /\ K \in Nat /\ U <= 255
      /\ \A j \in 1 .. L : j <= Len(m) => b[j] = m[j]
  BY <1>1, <1>4, <1>5, SMTT(30) DEF Agree
<1> HIDE DEF m, L, U, T, K, host, nm
<1>7. M \in Nat /\ M = 9 + U + T
  BY <1>6
<1>8. \A j \in 1 .. L : j <= M => b[j] = m[j]
  BY <1>2, <1>6
<1> HIDE DEF M
<1>12. (IsName(a) => T = K + 1 /\ K \in 1 .. 255) /\ (~IsName(a) => T = 0)
  BY <1>4, <1>5, Zenon
<1>9. checkVersion(b, Version4)
  <2>1. b # <<>> => L >= 1
    BY DEF L
  <2>2. L >= 1 => b[1] = 4
    BY <1>2, <1>6, <1>7, <1>8
  <2> QED
    BY <2>1, <2>2 DEF checkVersion, Version4
<1>10. CASE L < 8
  <2>1. r = Incomplete(9)
    BY <1>9, <1>10 DEF ParseRequest4, L
  <2>2. r.err = "incomplete" /\ r.n = 9
    BY <2>1 DEF Incomplete
  <2> HIDE DEF r
  <2>3. L < M /\ r.n \in L + 1 .. M
    BY <1>6, <1>7, <1>10, <2>2
  <2> QED
    BY <1>2, <1>6, <1>7, <2>2, <2>3 DEF Partial, L, m, r
<1>11. CASE L >= 8
  <2>1. b[3] * 256 + b[4] = a.port /\ \A j \in 1 .. 4 : b[4 + j] = host[j]
    <3>1. \A j \in 1 .. 8 : b[j] = m[j]
      BY <1>6, <1>7, <1>8, <1>11
    <3>2. \A j \in 1 .. 4 : b[4 + j] = host[j]
      BY <1>2, <3>1
    <3>3. b[3] = m[3] /\ b[4] = m[4]
      BY <3>1
    <3> QED
      BY <1>2, <3>2, <3>3
  <2>2. SubSeq(b, 5, 8) = host
    <3>1. \A j \in 1 .. 4 : b[5 + j - 1] = host[j]
      BY <2>1
    <3>2. 5 \in Nat /\ 8 \in Nat /\ 1 <= 5 /\ 8 <= Len(b) /\ 8 - 5 + 1 = Len(host)
      BY <1>3, <1>11 DEF L
    <3>3. \A j \in 1 .. Len(host) : b[5 + j - 1] = host[j]
      BY <1>3, <3>1
    <3> QED
      BY <1>3, <3>2, <3>3, Slice
  <2>3. b[8] = host[4]
    BY <2>1
  <2>4. PortAt(b, 4) = a.port
    <3>1. PortAt(b, 4) = b[3] * 256 + b[4]
      BY DEF PortAt
    <3> QED
      BY <2>1, <3>1
  <2>5. is4a <=> IsName(a)
    BY <1>1, <2>2, <2>3, Zenon
  <2>6. after = IF IsName(a) THEN 2 ELSE 0
    BY <2>5
  <2>7. r = IF user.err # "nil" THEN user
            ELSE IF ~is4a
            THEN [err |-> "nil", n |-> user.n, user |-> user.str,
                  addr |-> [ip |-> SubSeq(b, 5, 8), name |-> <<>>, port |-> PortAt(b, 4)]]
            ELSE LET name == cstring(b, user.n, 1, 0) IN
                 IF name.err # "nil" THEN name
                 ELSE [err |-> "nil", n |-> name.n, user |-> user.str,
                       addr |-> [ip |-> <<>>, name |-> name.str, port |-> PortAt(b, 4)]]
    <3>1. ~(Len(b) < 8)
      BY <1>6, <1>11 DEF L
    <3> QED
      BY <1>9, <3>1 DEF ParseRequest4
  <2> HIDE DEF r, is4a, after
  <2>8. after \in Nat /\ after <= T
    <3>1. T \in Nat /\ K \in Nat
      BY <1>6
    <3> QED
      BY <1>12, <2>6, <3>1
  <2>9. /\ \A j \in 1 .. U : 8 + j <= L => b[8 + j] = u[j]
        /\ 8 + U + 1 <= L => b[8 + U + 1] = 0
    <3>1. ASSUME NEW j \in 1 .. U, 8 + j <= L PROVE b[8 + j] = u[j]
      <4>1. 8 + j \in 1 .. L /\ 8 + j <= M
        BY <1>6, <1>7, <3>1
      <4> QED
        BY <1>2, <1>8, <4>1, Zenon
    <3>2. ASSUME 8 + U + 1 <= L PROVE b[8 + U + 1] = 0
      <4>1. 8 + U + 1 \in 1 .. L /\ 8 + U + 1 <= M /\ 8 + U + 1 = 9 + U
        BY <1>6, <1>7, <3>2
      <4> QED
        BY <1>2, <1>8, <4>1
    <3> QED
      BY <3>1, <3>2
  <2>15. Terminated(b, 8, u)
    BY <2>9 DEF Terminated, L, U
  <2>16. 8 \in Nat /\ 8 <= Len(b) /\ 0 \in Nat /\ 0 <= Len(u) /\ after \in Nat /\ Len(u) <= 255
    BY <1>1, <1>6, <1>11, <2>8 DEF L, U
  <2>17. ReadsString(user, b, 8, u, after)
    BY <1>1, <2>15, <2>16, CString
  <2> HIDE DEF user
  <2>10. /\ L < 8 + U + 1 => user.err = "incomplete" /\ user.n \in L + 1 .. 8 + U + 1 + after
         /\ L >= 8 + U + 1 => user = [err |-> "nil", n |-> 8 + U + 1, str |-> u]
    BY <2>17 DEF ReadsString, L, U
  <2>11. /\ L < 9 + U => user.err = "incomplete" /\ user.n \in L + 1 .. M
         /\ L >= 9 + U => user = [err |-> "nil", n |-> 9 + U, str |-> u]
    <3>1. 8 + U + 1 = 9 + U
      BY <1>6
    <3>2. /\ L < 9 + U => user.err = "incomplete" /\ user.n \in L + 1 .. 9 + U + after
          /\ L >= 9 + U => user = [err |-> "nil", n |-> 9 + U, str |-> u]
      BY <2>10, <3>1
    <3>3. L < 9 + U => user.n \in L + 1 .. M
      BY <1>6, <1>7, <2>8, <3>2
    <3> QED
      BY <3>2, <3>3
  <2>12. CASE L < 9 + U
    <3>1. r = user
      BY <2>7, <2>11, <2>12
    <3>2. r.err = "incomplete" /\ r.n \in L + 1 .. M /\ L < M
      BY <1>6, <1>7, <2>11, <2>12, <3>1
    <3> QED
      BY <1>2, <1>6, <1>7, <3>2 DEF Partial, L, m, r
  <2>13. CASE L >= 9 + U /\ ~IsName(a)
    <3>1. user.err = "nil" /\ user.n = 9 + U /\ user.str = u
      BY <2>11, <2>13
    <3>2. M = 9 + U
      BY <1>4, <1>6, <1>7, <2>13
    <3>3. r = [err |-> "nil", n |-> M, user |-> u,
               addr |-> [ip |-> a.ip, name |-> a.name, port |-> a.port]]
      BY <1>3, <1>5, <2>2, <2>4, <2>5, <2>7, <2>13, <3>1, <3>2, Zenon
    <3>4. r.err = "nil" /\ r.n = M /\ r.addr = a /\ r.user = u
      BY <1>5, <3>3
    <3>5. ~(L < M)
      BY <1>6, <2>13, <3>2
    <3> QED
      BY <1>2, <3>4, <3>5 DEF L, m, r
  <2>14. CASE L >= 9 + U /\ IsName(a)
    <3> DEFINE st == 9 + U
               name == cstring(b, st, 1, 0)
    <3>1. user.err = "nil" /\ user.n = st /\ user.str = u
      BY <2>11, <2>14
    <3>2. st \in Nat /\ st <= L /\ K \in 1 .. 255 /\ M = st + K + 1
      
      <4>1. K \in 1 .. 255 /\ T = K + 1 /\ U \in Nat /\ L \in Nat /\ M = 9 + U + T /\ L >= 9 + U
        BY <1>6, <1>7, <1>12, <2>14
      <4> QED
        BY <4>1
    <3>3. r = IF name.err # "nil" THEN name
              ELSE [err |-> "nil", n |-> name.n, user |-> u,
                    addr |-> [ip |-> <<>>, name |-> name.str, port |-> a.port]]
      BY <2>4, <2>5, <2>7, <2>14, <3>1
    <3>4. /\ \A j \in 1 .. K : st + j <= L => b[st + j] = a.name[j]
          /\ st + K + 1 <= L => b[st + K + 1] = 0
      <4>0. T = K + 1 /\ nm[K + 1] = 0 /\ \A j \in 1 .. K : nm[j] = a.name[j]
        BY <1>4, <2>14
      <4>1. ASSUME NEW j \in 1 .. K + 1, st + j <= L PROVE b[st + j] = nm[j]
        <5>1. st + j \in 1 .. L /\ st + j <= M
          BY <1>6, <3>2, <4>1
        <5>2. b[st + j] = m[st + j]
          BY <1>8, <5>1
        <5>3. m[9 + U + j] = nm[j]
          BY <1>2, <4>0, <4>1
        <5> QED
          BY <5>2, <5>3
      <4>2. \A j \in 1 .. K : j \in 1 .. K + 1
        BY <1>6
      <4>3. K + 1 \in 1 .. K + 1 /\ st + (K + 1) = st + K + 1
        <5>1. K \in Nat /\ st \in Nat
          BY <1>6, <3>2
        <5> HIDE DEF st, name
        <5> QED
          BY <5>1
      <4> HIDE DEF st
      <4>4. \A j \in 1 .. K : st + j <= L => b[st + j] = a.name[j]
        BY <4>0, <4>1, <4>2, Zenon
      <4>5. st + K + 1 <= L => b[st + K + 1] = 0
        BY <4>0, <4>1, <4>3
      <4> QED
        BY <4>4, <4>5
    <3> HIDE DEF st, name
    <3>5. /\ L < st + K + 1 => name.err = "incomplete" /\ name.n \in L + 1 .. st + K + 1 + 0
          /\ L >= st + K + 1 => name = [err |-> "nil", n |-> st + K + 1, str |-> a.name]
      <4>1. Terminated(b, st, a.name)
        BY <3>4 DEF Terminated, L, K
      <4>2. /\ st \in Nat /\ st <= Len(b) /\ 1 \in Nat /\ 1 <= Len(a.name) /\ 0 \in Nat
            /\ Len(a.name) <= 255
        <5>1. st \in Nat /\ st <= L /\ 1 <= K /\ K <= 255
          BY <3>2
        <5> QED
          BY <5>1 DEF L, K
      <4>3. a.name \in Seq(Bytes) /\ ~Has(a.name, 0)
        BY <1>1, <1>5
      <4>4. ReadsString(name, b, st, a.name, 0)
        BY <4>1, <4>2, <4>3, CString DEF name
      <4> QED
        BY <4>4 DEF ReadsString, L, K
    <3>6. /\ L < M => name.err = "incomplete" /\ name.n \in L + 1 .. M
          /\ L >= M => name = [err |-> "nil", n |-> M, str |-> a.name]
      <4>1. st + K + 1 + 0 = M /\ st + K + 1 = M
        BY <3>2
      <4> QED
        BY <3>5, <4>1
    <3>7. CASE L < M
      <4>1. r = name
        BY <3>3, <3>6, <3>7
      <4>2. r.err = "incomplete" /\ r.n \in L + 1 .. M
        BY <3>6, <3>7, <4>1
      <4> QED
        BY <1>2, <1>6, <1>7, <3>7, <4>2 DEF Partial, L, m, r
    <3>8. CASE L >= M
      <4>1. name.err = "nil" /\ name.n = M /\ name.str = a.name
        BY <3>6, <3>8
      <4>2. a.ip = <<>>
        BY <1>5, <2>14
      <4>3. r = [err |-> "nil", n |-> M, user |-> u,
                 addr |-> [ip |-> a.ip, name |-> a.name, port |-> a.port]]
        BY <3>3, <4>1, <4>2
      <4>4. r.err = "nil" /\ r.n = M /\ r.addr = a /\ r.user = u
        BY <1>5, <4>3
      <4>5. ~(L < M)
        BY <1>6, <1>7, <3>8
      <4> QED
        BY <1>2, <4>4, <4>5 DEF L, m, r
    <3> QED
      BY <1>6, <1>7, <3>7, <3>8
  <2> QED
    BY <1>6, <2>12, <2>13, <2>14
<1> QED
  BY <1>6, <1>10, <1>11

\* What a parser says of a part of a message.
LEMMA PartialExact ==
    ASSUME NEW m \in Seq(Bytes), NEW k \in 0 .. Len(m) - 1, NEW r, Partial(r, SubSeq(m, 1, k), m)
    PROVE  r.err = "incomplete" /\ r.n > k /\ r.n <= Len(m)
<1>1. Len(SubSeq(m, 1, k)) = k /\ Len(m) \in Nat
  BY ReaderInputs
<1>2. r.err = "incomplete" /\ r.n \in k + 1 .. Len(m)
  BY <1>1 DEF Partial
<1> DEFINE n == r.n
           M == Len(m)
<1>3. n \in k + 1 .. M /\ M \in Nat /\ k \in 0 .. M - 1
  BY <1>1, <1>2
<1> HIDE DEF n, M
<1>4. n > k /\ n <= M
  BY <1>3
<1> QED
  BY <1>2, <1>4 DEF n, M

\* ParseGreeting takes the greeting and nothing after it.
LEMMA GreetingExact ==
    ASSUME NEW s \in Seq(Bytes), Len(s) \in 1 .. 255
    PROVE  /\ ReadsExactly(ParseGreeting, AppendGreeting(s))
           /\ ParseGreeting(AppendGreeting(s)).methods = s
<1> DEFINE m == AppendGreeting(s)
<1>1. m \in Seq(Bytes)
  <2> DEFINE h == <<5, Len(s)>>
  <2>1. h \in Seq(Bytes)
    <3>1. 5 \in Bytes /\ Len(s) \in Bytes
      BY DEF Bytes
    <3> QED
      BY <3>1, TwoBytes
  <2>2. m = h \o s
    BY DEF AppendGreeting, Version5
  <2> HIDE DEF h, m
  <2> QED
    BY <2>1, <2>2, Concat
<1> DEFINE e == <<1, 2>>
           M == Len(m)
<1>2. \A b \in Seq(Bytes) : Agree(b, m) =>
        /\ Len(b) < M => Partial(ParseGreeting(b), b, m)
        /\ Len(b) >= M => ParseGreeting(b).err = "nil" /\ ParseGreeting(b).n = M /\ ParseGreeting(b).methods = s
  BY ReadsGreeting
<1> HIDE DEF m
<1>3. /\ m \o e \in Seq(Bytes) /\ Len(m \o e) = M + 2 /\ Agree(m \o e, m)
      /\ Agree(m, m) /\ M \in Nat
      /\ \A k \in 0 .. M - 1 :
           SubSeq(m, 1, k) \in Seq(Bytes) /\ Len(SubSeq(m, 1, k)) = k /\ Agree(SubSeq(m, 1, k), m)
  BY <1>1, ReaderInputs
<1> HIDE DEF e, M
<1>4. ParseGreeting(m \o e).err = "nil" /\ ParseGreeting(m \o e).n = M
  <2>1. M + 2 >= M
    BY <1>3
  <2> QED
    BY <1>2, <1>3, <2>1, Zenon
<1>5. ParseGreeting(m).methods = s
  <2>1. Len(m) >= M
    BY <1>3 DEF M
  <2> QED
    BY <1>1, <1>2, <1>3, <2>1
<1>6. ASSUME NEW k \in 0 .. M - 1
      PROVE  LET r == ParseGreeting(SubSeq(m, 1, k)) IN r.err = "incomplete" /\ r.n > k /\ r.n <= M
  <2>1. k < M
    BY <1>3
  <2>2. Partial(ParseGreeting(SubSeq(m, 1, k)), SubSeq(m, 1, k), m)
    BY <1>2, <1>3, <2>1, Zenon
  <2> QED
    BY <1>1, <2>2, PartialExact DEF M
<1> QED
  BY <1>4, <1>5, <1>6 DEF ReadsExactly, m, e, M

\* ParseUserPass takes the request of RFC 1929 and nothing after it.
LEMMA UserPassExact ==
    ASSUME NEW u \in Seq(Bytes), Len(u) <= 255, NEW p \in Seq(Bytes), Len(p) <= 255
    PROVE  /\ ReadsExactly(ParseUserPass, AppendUserPass(u, p))
           /\ ParseUserPass(AppendUserPass(u, p)).user = u
           /\ ParseUserPass(AppendUserPass(u, p)).pass = p
<1> DEFINE m == AppendUserPass(u, p)
<1>1. m \in Seq(Bytes)
  BY UserPassMessage
<1> DEFINE e == <<1, 2>>
           M == Len(m)
<1>2. \A b \in Seq(Bytes) : Agree(b, m) =>
        /\ Len(b) < M => Partial(ParseUserPass(b), b, m)
        /\ Len(b) >= M => ParseUserPass(b).err = "nil" /\ ParseUserPass(b).n = M /\ ParseUserPass(b).user = u /\ ParseUserPass(b).pass = p
  BY ReadsUserPass
<1> HIDE DEF m
<1>3. /\ m \o e \in Seq(Bytes) /\ Len(m \o e) = M + 2 /\ Agree(m \o e, m)
      /\ Agree(m, m) /\ M \in Nat
      /\ \A k \in 0 .. M - 1 :
           SubSeq(m, 1, k) \in Seq(Bytes) /\ Len(SubSeq(m, 1, k)) = k /\ Agree(SubSeq(m, 1, k), m)
  BY <1>1, ReaderInputs
<1> HIDE DEF e, M
<1>4. ParseUserPass(m \o e).err = "nil" /\ ParseUserPass(m \o e).n = M
  <2>1. M + 2 >= M
    BY <1>3
  <2> QED
    BY <1>2, <1>3, <2>1, Zenon
<1>5. ParseUserPass(m).user = u /\ ParseUserPass(m).pass = p
  <2>1. Len(m) >= M
    BY <1>3 DEF M
  <2> QED
    BY <1>1, <1>2, <1>3, <2>1
<1>6. ASSUME NEW k \in 0 .. M - 1
      PROVE  LET r == ParseUserPass(SubSeq(m, 1, k)) IN r.err = "incomplete" /\ r.n > k /\ r.n <= M
  <2>1. k < M
    BY <1>3
  <2>2. Partial(ParseUserPass(SubSeq(m, 1, k)), SubSeq(m, 1, k), m)
    BY <1>2, <1>3, <2>1, Zenon
  <2> QED
    BY <1>1, <2>2, PartialExact DEF M
<1> QED
  BY <1>4, <1>5, <1>6 DEF ReadsExactly, m, e, M

\* ParseRequest takes the request of SOCKS5 and nothing after it.
LEMMA RequestExact ==
    ASSUME NEW a \in ValidAddrs, NEW cmd \in Bytes
    PROVE  /\ ReadsExactly(ParseRequest, AppendRequest(cmd, a))
           /\ ParseRequest(AppendRequest(cmd, a)).addr = [a EXCEPT !.ip = Unmap(@)]
<1> DEFINE m == AppendRequest(cmd, a)
<1>1. m \in Seq(Bytes)
  BY AddrMessage, Zenon DEF AppendRequest, AppendReply
<1> DEFINE e == <<1, 2>>
           M == Len(m)
<1>2. \A b \in Seq(Bytes) : Agree(b, m) =>
        /\ Len(b) < M => Partial(ParseRequest(b), b, m)
        /\ Len(b) >= M => ParseRequest(b).err = "nil" /\ ParseRequest(b).n = M /\ ParseRequest(b).addr = [a EXCEPT !.ip = Unmap(@)]
  BY ReadsRequest
<1> HIDE DEF m
<1>3. /\ m \o e \in Seq(Bytes) /\ Len(m \o e) = M + 2 /\ Agree(m \o e, m)
      /\ Agree(m, m) /\ M \in Nat
      /\ \A k \in 0 .. M - 1 :
           SubSeq(m, 1, k) \in Seq(Bytes) /\ Len(SubSeq(m, 1, k)) = k /\ Agree(SubSeq(m, 1, k), m)
  BY <1>1, ReaderInputs
<1> HIDE DEF e, M
<1>4. ParseRequest(m \o e).err = "nil" /\ ParseRequest(m \o e).n = M
  <2>1. M + 2 >= M
    BY <1>3
  <2> QED
    BY <1>2, <1>3, <2>1, Zenon
<1>5. ParseRequest(m).addr = [a EXCEPT !.ip = Unmap(@)]
  <2>1. Len(m) >= M
    BY <1>3 DEF M
  <2> QED
    BY <1>1, <1>2, <1>3, <2>1
<1>6. ASSUME NEW k \in 0 .. M - 1
      PROVE  LET r == ParseRequest(SubSeq(m, 1, k)) IN r.err = "incomplete" /\ r.n > k /\ r.n <= M
  <2>1. k < M
    BY <1>3
  <2>2. Partial(ParseRequest(SubSeq(m, 1, k)), SubSeq(m, 1, k), m)
    BY <1>2, <1>3, <2>1, Zenon
  <2> QED
    BY <1>1, <2>2, PartialExact DEF M
<1> QED
  BY <1>4, <1>5, <1>6 DEF ReadsExactly, m, e, M

\* ParseRequest4 takes the request of SOCKS4 and SOCKS4a and nothing after it.
LEMMA Request4Exact ==
    ASSUME NEW a \in ValidAddrs, NEW u \in Seq(Bytes), checkRequest4(a, u), NEW cmd \in Bytes
    PROVE  /\ ReadsExactly(ParseRequest4, AppendRequest4(cmd, a, u))
           /\ ParseRequest4(AppendRequest4(cmd, a, u)).addr = a
           /\ ParseRequest4(AppendRequest4(cmd, a, u)).user = u
<1> DEFINE m == AppendRequest4(cmd, a, u)
<1>1. m \in Seq(Bytes)
  BY Is4a, Request4Message
<1> DEFINE e == <<1, 2>>
           M == Len(m)
<1>2. \A b \in Seq(Bytes) : Agree(b, m) =>
        /\ Len(b) < M => Partial(ParseRequest4(b), b, m)
        /\ Len(b) >= M => ParseRequest4(b).err = "nil" /\ ParseRequest4(b).n = M /\ ParseRequest4(b).addr = a /\ ParseRequest4(b).user = u
  BY ReadsRequest4
<1> HIDE DEF m
<1>3. /\ m \o e \in Seq(Bytes) /\ Len(m \o e) = M + 2 /\ Agree(m \o e, m)
      /\ Agree(m, m) /\ M \in Nat
      /\ \A k \in 0 .. M - 1 :
           SubSeq(m, 1, k) \in Seq(Bytes) /\ Len(SubSeq(m, 1, k)) = k /\ Agree(SubSeq(m, 1, k), m)
  BY <1>1, ReaderInputs
<1> HIDE DEF e, M
<1>4. ParseRequest4(m \o e).err = "nil" /\ ParseRequest4(m \o e).n = M
  <2>1. M + 2 >= M
    BY <1>3
  <2> QED
    BY <1>2, <1>3, <2>1, Zenon
<1>5. ParseRequest4(m).addr = a /\ ParseRequest4(m).user = u
  <2>1. Len(m) >= M
    BY <1>3 DEF M
  <2> QED
    BY <1>1, <1>2, <1>3, <2>1
<1>6. ASSUME NEW k \in 0 .. M - 1
      PROVE  LET r == ParseRequest4(SubSeq(m, 1, k)) IN r.err = "incomplete" /\ r.n > k /\ r.n <= M
  <2>1. k < M
    BY <1>3
  <2>2. Partial(ParseRequest4(SubSeq(m, 1, k)), SubSeq(m, 1, k), m)
    BY <1>2, <1>3, <2>1, Zenon
  <2> QED
    BY <1>1, <2>2, PartialExact DEF M
<1> QED
  BY <1>4, <1>5, <1>6 DEF ReadsExactly, m, e, M

\* What init has accepted can be said on the wire.
LEMMA Sayable ==
    ASSUME HSInv, pc = "write"
    PROVE  /\ cfg.target \in ValidAddrs /\ [cfg.target EXCEPT !.ip = Unmap(@)] = cfg.target
           /\ cfg.cmd \in Bytes
           /\ Username \in Seq(Bytes) /\ Len(Username) <= 255
           /\ Pass \in Seq(Bytes) /\ Len(Pass) <= 255
           /\ UserID \in Seq(Bytes)
           /\ Version = 4 => checkRequest4(cfg.target, UserID)
<1>1. initOK /\ cfg \in Configs
  BY DEF HSInv, Paths, TypeOK, HandshakeTypeOK
<1>2. cfg \in ConfigType /\ (IsValid(cfg.target) => cfg.target \in ValidAddrs /\ Unmap(cfg.target.ip) = cfg.target.ip)
  BY <1>1, HandshakeAssumption
<1>3. IsValid(cfg.target) /\ (Version = 4 => checkRequest4(cfg.target, UserID))
  BY <1>1 DEF initOK, checkRequest4, Version
<1>4. cfg.target \in ValidAddrs /\ [cfg.target EXCEPT !.ip = Unmap(@)] = cfg.target
  <2>1. cfg.target \in ValidAddrs /\ Unmap(cfg.target.ip) = cfg.target.ip
    BY <1>2, <1>3
  <2> DEFINE t == cfg.target
  <2>2. t = [ip |-> t.ip, name |-> t.name, port |-> t.port] /\ Unmap(t.ip) = t.ip
    BY <2>1, AddrFacts
  <2> HIDE DEF t
  <2>3. [t EXCEPT !.ip = Unmap(@)] = t
    BY <2>2
  <2> QED
    BY <2>1, <2>3 DEF t
<1>5. cfg.cmd \in Bytes
  BY <1>2 DEF ConfigType, Cmds, CmdConnect, CmdBind, CmdUDPAssociate, CmdTorResolve, Bytes
<1>6. Username \in Seq(Bytes) /\ Len(Username) <= 255 /\ Password \in Seq(Bytes) /\ Len(Password) <= 255
  BY HandshakeAssumption
<1>7. <<>> \in Seq(Bytes) /\ Len(<<>>) = 0
  OBVIOUS
<1>8. Pass \in Seq(Bytes) /\ Len(Pass) <= 255
  <2> DEFINE z == <<>>
  <2>1. Pass = Password \/ Pass = z
    BY DEF Pass
  <2>2. z \in Seq(Bytes) /\ Len(z) <= 255
    BY <1>7
  <2> HIDE DEF z
  <2>3. CASE Pass = Password
    BY <1>6, <2>3
  <2>4. CASE Pass = z
    BY <2>2, <2>4
  <2> QED
    BY <2>1, <2>3, <2>4
<1>9. UserID \in Seq(Bytes)
  BY <1>6, <1>7 DEF UserID
<1> QED
  BY <1>3, <1>4, <1>5, <1>6, <1>8, <1>9

\* The server reads back what the client is about to write.
LEMMA ReadBack ==
    ASSUME HSInv, pc = "write"
    PROVE  IF Version = 4
           THEN /\ ReadsExactly(ParseRequest4, out)
                /\ ParseRequest4(out).addr = cfg.target /\ ParseRequest4(out).user = UserID
           ELSE /\ ReadsExactly(ParseGreeting, greeting)
                /\ Has(ParseGreeting(greeting).methods, Offered)
                /\ UserPass => /\ ReadsExactly(ParseUserPass, authRequest)
                               /\ ParseUserPass(authRequest).user = Username
                               /\ ParseUserPass(authRequest).pass = Pass
                /\ LET request == AppendRequest(cfg.cmd, cfg.target) IN
                   ReadsExactly(ParseRequest, request) /\ ParseRequest(request).addr = cfg.target
<1>1. /\ cfg.target \in ValidAddrs /\ [cfg.target EXCEPT !.ip = Unmap(@)] = cfg.target
      /\ cfg.cmd \in Bytes
      /\ Username \in Seq(Bytes) /\ Len(Username) <= 255
      /\ Pass \in Seq(Bytes) /\ Len(Pass) <= 255
      /\ UserID \in Seq(Bytes)
      /\ Version = 4 => checkRequest4(cfg.target, UserID)
  BY Sayable
<1>2. CASE Version = 4
  <2>1. /\ ReadsExactly(ParseRequest4, AppendRequest4(cfg.cmd, cfg.target, UserID))
        /\ ParseRequest4(AppendRequest4(cfg.cmd, cfg.target, UserID)).addr = cfg.target
        /\ ParseRequest4(AppendRequest4(cfg.cmd, cfg.target, UserID)).user = UserID
    BY <1>1, <1>2, Request4Exact, Zenon
  <2>2. out = AppendRequest4(cfg.cmd, cfg.target, UserID)
    BY <1>2 DEF out
  <2> QED
    BY <1>2, <2>1, <2>2, Zenon
<1>3. CASE Version # 4
  <2>1. ReadsExactly(ParseGreeting, greeting) /\ Has(ParseGreeting(greeting).methods, Offered)
    <3>1. Offered \in Bytes /\ MethodNoAuth \in Bytes
      BY DEF Offered, MethodNoAuth, MethodUserPass, MethodCustom, Bytes
    <3>2. PICK s \in Seq(Bytes) : Len(s) \in 1 .. 255 /\ s[1] = Offered /\ greeting = AppendGreeting(s)
      <4> DEFINE two == <<Offered, MethodNoAuth>>
                 one == <<Offered>>
      <4>1. two \in Seq(Bytes) /\ Len(two) = 2 /\ two[1] = Offered
        BY <3>1, TwoBytes
      <4>2. one \in Seq(Bytes) /\ Len(one) = 1 /\ one[1] = Offered
        BY <3>1, OneByte
      <4>3. greeting = AppendGreeting(two) \/ greeting = AppendGreeting(one)
        BY DEF greeting
      <4> HIDE DEF two, one
      <4> QED
        BY <4>1, <4>2, <4>3
    <3>3. ReadsExactly(ParseGreeting, AppendGreeting(s)) /\ ParseGreeting(AppendGreeting(s)).methods = s
      BY <3>2, GreetingExact, Zenon
    <3>4. Has(s, Offered)
      BY <3>2 DEF Has
    <3> QED
      BY <3>2, <3>3, <3>4
  <2>2. ASSUME UserPass
        PROVE  /\ ReadsExactly(ParseUserPass, authRequest)
               /\ ParseUserPass(authRequest).user = Username
               /\ ParseUserPass(authRequest).pass = Pass
    <3>1. authRequest = AppendUserPass(Username, Pass)
      BY <2>2 DEF authRequest, UserPass
    <3>2. /\ ReadsExactly(ParseUserPass, AppendUserPass(Username, Pass))
          /\ ParseUserPass(AppendUserPass(Username, Pass)).user = Username
          /\ ParseUserPass(AppendUserPass(Username, Pass)).pass = Pass
      BY <1>1, UserPassExact, Zenon
    <3> QED
      BY <3>1, <3>2
  <2>3. /\ ReadsExactly(ParseRequest, AppendRequest(cfg.cmd, cfg.target))
        /\ ParseRequest(AppendRequest(cfg.cmd, cfg.target)).addr = cfg.target
    BY <1>1, RequestExact, Zenon
  <2> QED
    BY <1>3, <2>1, <2>2, <2>3, Zenon
<1> QED
  BY <1>2, <1>3, Zenon

\* The invariant says that no byte is read by the wrong reader.
LEMMA HSInvWire == HSInv => WireExact
<1> SUFFICES ASSUME HSInv PROVE WireExact
  OBVIOUS
<1>1. pc = "write" =>
        IF Version = 4
        THEN /\ ReadsExactly(ParseRequest4, out)
             /\ ParseRequest4(out).addr = cfg.target /\ ParseRequest4(out).user = UserID
        ELSE /\ ReadsExactly(ParseGreeting, greeting)
             /\ Has(ParseGreeting(greeting).methods, Offered)
             /\ UserPass => /\ ReadsExactly(ParseUserPass, authRequest)
                            /\ ParseUserPass(authRequest).user = Username
                            /\ ParseUserPass(authRequest).pass = Pass
             /\ LET request == AppendRequest(cfg.cmd, cfg.target) IN
                ReadsExactly(ParseRequest, request) /\ ParseRequest(request).addr = cfg.target
  BY ReadBack, Zenon
<1>2. /\ \A i \in DOMAIN sent :
           sent[i].kind \notin Prefix \cup (IF pc \in {"accept", "accepted"} THEN {"second"} ELSE {})
           => taken <= sent[i].at
      /\ pc = "ok" => \E i \in Of("reply") : taken = EndOf(i)
      /\ HasConn => \E i \in Of("second") : taken = EndOf(i)
  BY NotPast
<1> QED
  BY <1>1, <1>2, Zenon DEF WireExact

\* No byte of the wire is read by the wrong reader: the server's parsers
\* (wire/parse.go) read back exactly what the client's encoders (wire/encode.go)
\* wrote, and readNext "never reads past the replies" (handshake.go), whatever
\* segments they come in.
THEOREM WireHolds == Spec => []WireExact
BY Conversation, HSInvWire, PTL

=============================================================================
