----------------------------- MODULE ClientConn -----------------------------
(***************************************************************************)
(* socks0.Conn: the client's lazy handshake (go/socks0/conn.go), with the  *)
(* order of the handshake engine's I/O and hooks (handshake.go).           *)
(*                                                                         *)
(* Any call may come first and must run the handshake, or wait for the one *)
(* that does.  In ModeEarly (L2) one call writes the handshake, glued to   *)
(* its data, another may read the replies at the same time; else (L0, L1)  *)
(* one call does both.  ctx cancellation, the handshake timer, Close and   *)
(* the deadline setters come at any moment.                                *)
(*                                                                         *)
(* The fields c.mu guards are one record h, and the ...Locked methods are  *)
(* operators from record to record, so that an action is one critical      *)
(* section, one I/O call on the underlying conn, or one hook.              *)
(***************************************************************************)
EXTENDS Integers, FiniteSets

CONSTANTS
    Threads,       \* goroutines that call the Conn
    Configs,       \* what a Conn may be like: see ConfigType
    HasDeadlines   \* the underlying conn can set deadlines

OpKinds == {"Read", "Write", "ReadFrom", "HandshakeContext", "CloseWrite", "Close"}

ConfigType ==
    [mode: {"early", "whole"},            \* L2; L0 or L1
     ops: [Threads -> SUBSET OpKinds],    \* the calls a thread makes, over and over
     replyTimeout: BOOLEAN,               \* replyBudget gives a reply deadline
     deadlines: SUBSET {"none", "some"}]  \* the deadlines callers set

ASSUME ConnAssumption ==
    /\ Configs \subseteq ConfigType
    /\ HasDeadlines \in BOOLEAN

VARIABLES
    h,        \* the configuration, the fields guarded by c.mu, the fast paths, the
              \* conn's deadlines
    pc,       \* where the call of a thread is
    op,       \* which call it is
    nxt,      \* where it goes after running HandshakeDone
    he,       \* the error of its handshake I/O
    intact,   \* the copy of the handshake it holds has its credentials
    ctxDone,  \* the threads whose ctx is cancelled
    aborter,  \* the AfterFunc goroutine of a cancelled ctx
    hsOut,    \* what the proxy has been sent of the handshake
    wiped,    \* the credentials in h.out were wiped
    blanked,  \* the handshake was written with wiped credentials
    replies,  \* the replies were consumed, all successful
    hooks,    \* the ClientTrace hooks that ran
    doneRuns  \* how often HandshakeDone ran

iovars == <<hsOut, wiped, blanked, replies>>
hookvars == <<hooks, doneRuns>>
callvars == <<op, nxt, he, intact, ctxDone, aborter>>
vars == <<h, pc, callvars, iovars, hookvars>>

Errors == {"nil", "reply", "io", "ctx", "closed"}
Deadlines == {"none", "some", "past"}
Asleep == {"sleepClaim", "sleepRead", "sleepWritten", "sleepRun"}
PCs == Asleep \cup
    {"idle", "abort", "check", "close", "ncClose", "claim", "peek", "copy",
     "earlyBuf", "source", "sending", "wrote", "sentLock", "waitWritten", "await",
     "claimRead", "reading", "gotReply", "readDone", "run", "ran", "hook",
     "dataRead", "dataWrite", "halfClose"}

\* One call writes the handshake, another may read its replies.
Early == h.cfg.mode = "early"

ConnRecord ==
    [cfg: Configs, phase: {"idle", "sending", "sent"}, busy: BOOLEAN, done: BOOLEAN,
     closed: BOOLEAN, abortErr: Errors, err: Errors, readDL: Deadlines,
     replyDL: BOOLEAN, readReady: BOOLEAN, writeReady: BOOLEAN, wake: BOOLEAN,
     rdl: Deadlines, wdl: Deadlines, open: BOOLEAN]

TypeOK ==
    /\ h \in ConnRecord
    /\ h.replyDL => h.busy
    /\ pc \in [Threads -> PCs]
    /\ op \in [Threads -> OpKinds]
    /\ nxt \in [Threads -> PCs]
    /\ he \in [Threads -> Errors]
    /\ intact \in [Threads -> BOOLEAN]
    /\ ctxDone \in SUBSET Threads
    /\ aborter \in [Threads -> {"none", "pending", "hook"}]
    /\ hsOut \in {"none", "part", "all"}
    /\ wiped \in BOOLEAN
    /\ blanked \in BOOLEAN
    /\ replies \in BOOLEAN
    /\ hooks \in SUBSET {"WroteHandshake", "GotReply", "HandshakeDone"}
    /\ doneRuns \in Nat

Init ==
    /\ \E cfg \in Configs :
         h = [cfg |-> cfg, phase |-> "idle", busy |-> FALSE, done |-> FALSE,
              closed |-> FALSE, abortErr |-> "nil", err |-> "nil", readDL |-> "none",
              replyDL |-> FALSE, readReady |-> FALSE, writeReady |-> FALSE,
              wake |-> FALSE, rdl |-> "none", wdl |-> "none", open |-> TRUE]
    /\ pc = [t \in Threads |-> "idle"]
    /\ op = [t \in Threads |-> "Read"]
    /\ nxt = [t \in Threads |-> "idle"]
    /\ he = [t \in Threads |-> "nil"]
    /\ intact = [t \in Threads |-> TRUE]
    /\ ctxDone = {}
    /\ aborter = [t \in Threads |-> "none"]
    /\ hsOut = "none"
    /\ wiped = FALSE
    /\ blanked = FALSE
    /\ replies = FALSE
    /\ hooks = {}
    /\ doneRuns = 0

-----------------------------------------------------------------------------
(* The ...Locked methods.  s.wake says that the section broadcast.         *)

\* storeReadyLocked.
StoreReady(s) ==
    LET ok == s.err = "nil" /\ ~s.closed
    IN [s EXCEPT !.readReady = ok /\ s.done,
                 !.writeReady = ok /\ s.phase = "sent"]

Broadcast(s) == [s EXCEPT !.wake = TRUE]

\* A deadline on the underlying conn, if it can set one.
DeadlineTo(old, d) == IF HasDeadlines THEN d ELSE old

\* Mutant: no past deadlines for the calls still in handshake I/O.
FailLockedQuietly(s, e) ==
    StoreReady(Broadcast([s EXCEPT !.done = TRUE, !.err = e]))

FailLocked(s, e) ==
    LET f == StoreReady(Broadcast([s EXCEPT !.done = TRUE, !.err = e]))
    IN [f EXCEPT
          !.rdl = IF s.busy THEN DeadlineTo(@, "past") ELSE @,
          !.wdl = IF s.phase = "sending" THEN DeadlineTo(@, "past") ELSE @]

\* Mutant: nobody is told that the handshake is over.
EstablishSilently(s) == StoreReady([s EXCEPT !.done = TRUE])

\* Mutant: the fast paths keep what they were.
EstablishUnstored(s) == Broadcast([s EXCEPT !.done = TRUE])

EstablishLocked(s) == StoreReady(Broadcast([s EXCEPT !.done = TRUE]))

\* Mutant: a handshake that is over ends again.
EndLockedAgain(s, e) ==
    IF e = "nil" THEN EstablishLocked(s) ELSE FailLocked(s, e)

\* endLocked's effect ...
EndLocked(s, e) ==
    IF s.done THEN s
    ELSE IF e = "nil" THEN EstablishLocked(s) ELSE FailLocked(s, e)

\* ... and its result: HandshakeDone must run now.
EndHook(s) == ~s.done /\ s.phase = "sent"

\* A server message stands, else the cause explains the failure.
Blame(e, cause) == IF e # "reply" /\ cause # "nil" THEN cause ELSE e

Settles(s) == s.abortErr # "nil" /\ s.phase = "sent" /\ ~s.busy

SettleLocked(s) ==
    Broadcast(IF Settles(s) THEN EndLocked(s, Blame("nil", s.abortErr)) ELSE s)

SettleHook(s) == Settles(s) /\ EndHook(s)

CheckLocked(s) == IF s.closed THEN "closed" ELSE s.err

\* unblock: past deadlines, or Close.
Unblock(s) ==
    IF HasDeadlines THEN [s EXCEPT !.rdl = "past", !.wdl = "past"]
                    ELSE [s EXCEPT !.open = FALSE]

\* abortWith takes effect at most once, and not on a handshake that is over.
Aborts(s) == ~s.done /\ s.abortErr = "nil"

AbortLocked(s) ==
    IF Aborts(s) THEN SettleLocked(Unblock([s EXCEPT !.abortErr = "ctx"])) ELSE s

AbortHook(s) == Aborts(s) /\ SettleHook([s EXCEPT !.abortErr = "ctx"])

\* endIOLocked: the call's ctx may have been cancelled during its I/O.
EndIOLocked(s, t) ==
    [s EXCEPT !.busy = FALSE,
              !.abortErr = IF @ = "nil" /\ t \in ctxDone THEN "ctx" ELSE @]

SetReplyDeadline(s) ==
    IF s.cfg.replyTimeout
    THEN [s EXCEPT !.replyDL = TRUE, !.rdl = DeadlineTo(@, "some")]
    ELSE s

\* Mutant: an aborted reader leaves the reply deadline pending.
ClearReplyDeadlineUnaborted(s) ==
    IF s.replyDL /\ s.abortErr = "nil"
    THEN [s EXCEPT !.replyDL = FALSE, !.rdl = DeadlineTo(@, s.readDL)]
    ELSE s

ClearReplyDeadline(s) ==
    IF s.replyDL
    THEN [s EXCEPT !.replyDL = FALSE,
                   !.rdl = IF s.abortErr = "nil" THEN DeadlineTo(@, s.readDL) ELSE @]
    ELSE s

Awake(p) ==
    CASE p = "sleepClaim"   -> "await"
      [] p = "sleepRead"    -> "claimRead"
      [] p = "sleepWritten" -> "waitWritten"
      [] p = "sleepRun"     -> "run"
      [] OTHER              -> p

\* The end of a critical section of thread t that leaves c.mu's fields at s:
\* the sleepers s woke run again, and t goes on at p, after HandshakeDone if
\* hook.
Unlock(t, s, hook, p) ==
    /\ h' = [s EXCEPT !.wake = FALSE]
    /\ pc' = [u \in Threads |->
                IF u = t THEN IF hook THEN "hook" ELSE p
                ELSE IF s.wake THEN Awake(pc[u]) ELSE pc[u]]
    /\ nxt' = [nxt EXCEPT ![t] = IF hook THEN p ELSE @]

\* The same for a goroutine that is no caller.
UnlockOther(s) ==
    /\ h' = [s EXCEPT !.wake = FALSE]
    /\ pc' = [u \in Threads |-> IF s.wake THEN Awake(pc[u]) ELSE pc[u]]

Go(t, p) == pc' = [pc EXCEPT ![t] = p]

-----------------------------------------------------------------------------
(* The calls.                                                              *)

\* Where a call goes on once the handshake is established ...
AfterHandshake(o) ==
    CASE o = "Read" -> "dataRead"
      [] o \in {"Write", "ReadFrom"} -> "dataWrite"
      [] o = "CloseWrite" -> "halfClose"
      [] OTHER -> "idle"

\* ... and where it starts if no fast path applies.
Entry(o) ==
    IF o = "Close" THEN "close"
    ELSE IF o = "CloseWrite" THEN "check"
    ELSE IF ~Early THEN "run"
    ELSE CASE o = "Read" -> "await"
           [] o = "ReadFrom" -> "peek"
           [] OTHER -> "claim"

FastPath(o) ==
    \/ o \in {"Read", "HandshakeContext"} /\ h.readReady
    \/ o \in {"Write", "ReadFrom"} /\ h.writeReady

\* A call begins.  HandshakeContext with a ctx already done aborts first.
Begin(t) ==
    \E o \in h.cfg.ops[t], cancelled \in BOOLEAN :
        /\ pc[t] = "idle"
        /\ cancelled => o = "HandshakeContext" /\ ~FastPath(o)
        /\ op' = [op EXCEPT ![t] = o]
        /\ ctxDone' = IF cancelled THEN ctxDone \cup {t} ELSE ctxDone \ {t}
        /\ Go(t, IF FastPath(o) THEN AfterHandshake(o)
                 ELSE IF cancelled THEN "abort" ELSE Entry(o))
        /\ UNCHANGED <<h, nxt, he, intact, aborter, iovars, hookvars>>

\* HandshakeContext's abortWith of a ctx that is done at the call.
AbortNow(t) ==
    /\ pc[t] = "abort"
    /\ Unlock(t, AbortLocked(h), AbortHook(h), Entry(op[t]))
    /\ UNCHANGED <<op, he, intact, ctxDone, aborter, iovars, hookvars>>

\* CloseWrite's first section.
Check(t) ==
    /\ pc[t] = "check"
    /\ Go(t, IF CheckLocked(h) # "nil" THEN "idle"
             ELSE IF h.readReady THEN "halfClose"
             ELSE IF Early THEN "claim" ELSE "run")
    /\ UNCHANGED <<h, callvars, iovars, hookvars>>

\* Mutant: the claim does not look at the phase.
ClaimableAgain(s) == s.phase # "sent"

\* claim takes the handshake only while nobody has.
Claimable(s) == s.phase = "idle"

\* claim: this call writes the handshake (Write copies it first), or another
\* one has taken that on.  A ReadFrom that lost the claim wipes its copy, and
\* h.out with it.
Claim(t) ==
    /\ pc[t] = "claim"
    /\ \/ /\ CheckLocked(h) # "nil"
          /\ Unlock(t, h, FALSE, "idle")
          /\ UNCHANGED wiped
       \/ /\ CheckLocked(h) = "nil" /\ Claimable(h)
          /\ Unlock(t, Broadcast([h EXCEPT !.phase = "sending"]), FALSE,
                    IF op[t] = "Write" THEN "earlyBuf" ELSE "sending")
          /\ UNCHANGED wiped
       \/ /\ CheckLocked(h) = "nil" /\ ~Claimable(h)
          /\ Unlock(t, h, FALSE,
                    IF op[t] \in {"Write", "ReadFrom"} THEN "waitWritten" ELSE "await")
          /\ wiped' = (wiped \/ op[t] = "ReadFrom")
    /\ UNCHANGED <<op, he, intact, ctxDone, aborter, hsOut, blanked, replies, hookvars>>

\* readFromEarly's first section.
Peek(t) ==
    /\ pc[t] = "peek"
    /\ Go(t, IF CheckLocked(h) # "nil" THEN "idle"
             ELSE IF h.phase = "idle" THEN "copy" ELSE "waitWritten")
    /\ UNCHANGED <<h, callvars, iovars, hookvars>>

\* earlyBuf copies h.out, which another call may be sending and wiping.
Copy(t) ==
    /\ pc[t] \in {"copy", "earlyBuf"}
    /\ intact' = [intact EXCEPT ![t] = ~wiped]
    /\ Go(t, IF pc[t] = "earlyBuf" THEN "sending" ELSE "source")
    /\ UNCHANGED <<h, op, nxt, he, ctxDone, aborter, iovars, hookvars>>

\* readSome: the source gives data or EOF, or an error and nothing to send.
Source(t) ==
    /\ pc[t] = "source"
    /\ Go(t, "claim") \/ Go(t, "idle")
    /\ UNCHANGED <<h, callvars, iovars, hookvars>>

\* The write of the handshake on the conn, and the wipe of its credentials.
\* It may fail at any time; it succeeds on an open conn before its deadline.
SendIO(t) ==
    /\ pc[t] = "sending"
    /\ wiped' = TRUE
    /\ blanked' = IF op[t] \in {"Write", "ReadFrom"} /\ Early THEN ~intact[t] ELSE wiped
    /\ \/ /\ h.open /\ h.wdl # "past"
          /\ hsOut' = "all"
          /\ he' = [he EXCEPT ![t] = "nil"]
       \/ /\ hsOut' \in IF h.open THEN {"none", "part"} ELSE {"none"}
          /\ he' = [he EXCEPT ![t] = "io"]
    /\ Go(t, "wrote")
    /\ UNCHANGED <<h, op, nxt, intact, ctxDone, aborter, replies, hookvars>>

\* The WroteHandshake hook; run then reads the replies, or fails.
WroteHook(t) ==
    /\ pc[t] = "wrote"
    /\ hooks' = hooks \cup {"WroteHandshake"}
    /\ Go(t, IF Early THEN "sentLock" ELSE IF he[t] = "nil" THEN "reading" ELSE "ran")
    /\ UNCHANGED <<h, callvars, iovars, doneRuns>>

\* Mutant: send does not run the HandshakeDone a reader left to it.
OwedNever(s) == FALSE

\* The handshake ended while send was writing: its HandshakeDone is send's.
Owed(s) == s.done

\* send's section after a write that failed within the handshake.
SendFailed(t) ==
    /\ pc[t] = "sentLock"
    /\ he[t] # "nil"
    /\ LET s0 == [h EXCEPT !.phase = "sent"]
           e  == Blame(he[t], s0.abortErr)
           s1 == EndLocked(s0, e)
           s2 == IF s1.err = "nil" THEN StoreReady([s1 EXCEPT !.err = e]) ELSE s1
       IN Unlock(t, s2, EndHook(s0) \/ Owed(h), "idle")
    /\ UNCHANGED <<op, he, intact, ctxDone, aborter, iovars, hookvars>>

\* send's section after a write that covered the handshake; Write and
\* ReadFrom may have more data, the others await the replies.
SendDone(t) ==
    /\ pc[t] = "sentLock"
    /\ he[t] = "nil"
    /\ LET s == StoreReady([h EXCEPT !.phase = "sent"])
       IN \E p \in IF op[t] \in {"Write", "ReadFrom"} THEN {"idle", "dataWrite"}
                                                     ELSE {"await"} :
             Unlock(t, SettleLocked(s), SettleHook(s) \/ Owed(h), p)
    /\ UNCHANGED <<op, he, intact, ctxDone, aborter, iovars, hookvars>>

\* Mutant: it is enough that somebody claimed the handshake.
UnwrittenClaimed(s) == s.phase = "idle" /\ ~s.done /\ ~s.closed

\* waitWritten's condition.
Unwritten(s) == s.phase # "sent" /\ ~s.done /\ ~s.closed

WaitWritten(t) ==
    /\ pc[t] = "waitWritten"
    /\ Go(t, IF Unwritten(h) THEN "sleepWritten"
             ELSE IF CheckLocked(h) # "nil" THEN "idle" ELSE "dataWrite")
    /\ UNCHANGED <<h, callvars, iovars, hookvars>>

\* waitClaimedLocked's condition.
Unclaimed(s) == s.phase = "idle" /\ ~s.done /\ ~s.closed

\* A Read before the first Write sleeps, until its deadline if it has one.
WaitClaimed(t) ==
    /\ pc[t] = "await"
    /\ Unclaimed(h)
    /\ Go(t, "sleepClaim") \/ (h.readDL = "some" /\ Go(t, "idle"))
    /\ UNCHANGED <<h, callvars, iovars, hookvars>>

\* waitLocked's timer.
DeadlineWake(t) ==
    /\ pc[t] = "sleepClaim"
    /\ h.readDL = "some"
    /\ Go(t, "await")
    /\ UNCHANGED <<h, callvars, iovars, hookvars>>

\* claimReadLocked: this call reads the replies, waits for the one that does,
\* ends an aborted handshake, or finds it over.
ClaimRead(t) ==
    /\ pc[t] = "claimRead" \/ (pc[t] = "await" /\ ~Unclaimed(h))
    /\ IF CheckLocked(h) # "nil" THEN Unlock(t, h, FALSE, "idle")
       ELSE IF h.done THEN Unlock(t, h, FALSE, AfterHandshake(op[t]))
       ELSE IF Settles(h) THEN Unlock(t, SettleLocked(h), SettleHook(h), "claimRead")
       ELSE IF h.abortErr = "nil" /\ ~h.busy
            THEN Unlock(t, SetReplyDeadline([h EXCEPT !.busy = TRUE]), FALSE, "reading")
       ELSE Unlock(t, h, FALSE, "sleepRead")
    /\ UNCHANGED <<op, he, intact, ctxDone, aborter, iovars, hookvars>>

\* Reading the replies.  The proxy answers what it was sent; I/O errors come at
\* any time, and at the latest when the conn is closed or past its deadline.
ReadIO(t) ==
    /\ pc[t] = "reading"
    /\ \/ /\ h.open /\ h.rdl # "past"
          /\ hsOut = "all"
          /\ he' = [he EXCEPT ![t] = "nil"]
          /\ replies' = TRUE
          /\ Go(t, "gotReply")
       \/ /\ h.open /\ h.rdl # "past"
          /\ hsOut # "none"
          /\ he' = [he EXCEPT ![t] = "reply"]
          /\ UNCHANGED replies
          /\ Go(t, "gotReply")
       \/ /\ he' = [he EXCEPT ![t] = "io"]
          /\ UNCHANGED replies
          /\ Go(t, IF Early THEN "readDone" ELSE "ran")
    /\ UNCHANGED <<h, op, nxt, intact, ctxDone, aborter, hsOut, wiped, blanked, hookvars>>

\* The hooks for what was read: GotMethod, AuthDone, GotReply.
ReplyHook(t) ==
    /\ pc[t] = "gotReply"
    /\ hooks' = hooks \cup {"GotReply"}
    /\ Go(t, IF Early THEN "readDone" ELSE "ran")
    /\ UNCHANGED <<h, callvars, iovars, doneRuns>>

\* awaitReplies' section after the I/O.
ReadEnd(t) ==
    /\ pc[t] = "readDone"
    /\ LET s1 == ClearReplyDeadline(EndIOLocked(h, t))
           s2 == EndLocked(s1, Blame(he[t], s1.abortErr))
       IN Unlock(t, s2, EndHook(s1),
                 IF CheckLocked(s2) = "nil" THEN AfterHandshake(op[t]) ELSE "idle")
    /\ UNCHANGED <<op, he, intact, ctxDone, aborter, iovars, hookvars>>

RunTaken(s) == s.phase # "idle"

\* claimRunLocked (L0, L1): one call runs the whole handshake.
Run(t) ==
    /\ pc[t] = "run"
    /\ IF CheckLocked(h) # "nil" THEN Unlock(t, h, FALSE, "idle")
       ELSE IF h.done THEN Unlock(t, h, FALSE, AfterHandshake(op[t]))
       ELSE IF RunTaken(h) THEN Unlock(t, h, FALSE, "sleepRun")
       ELSE IF h.abortErr # "nil"
            THEN Unlock(t, EndLocked(h, h.abortErr), FALSE, "idle")
       ELSE Unlock(t, [h EXCEPT !.phase = "sending", !.busy = TRUE], FALSE, "sending")
    /\ UNCHANGED <<op, he, intact, ctxDone, aborter, iovars, hookvars>>

\* run's section after the I/O.
RunEnd(t) ==
    /\ pc[t] = "ran"
    /\ LET s1 == [EndIOLocked(h, t) EXCEPT !.phase = "sent"]
           s2 == EndLocked(s1, Blame(he[t], s1.abortErr))
       IN Unlock(t, s2, EndHook(s1),
                 IF CheckLocked(s2) = "nil" THEN AfterHandshake(op[t]) ELSE "idle")
    /\ UNCHANGED <<op, he, intact, ctxDone, aborter, iovars, hookvars>>

\* unlockDone's HandshakeDone, after c.mu was released.
DoneHook(t) ==
    /\ pc[t] = "hook"
    /\ hooks' = hooks \cup {"HandshakeDone"}
    /\ doneRuns' = doneRuns + 1
    /\ Go(t, nxt[t])
    /\ UNCHANGED <<h, callvars, iovars>>

\* The data part of a call: Read or WriteTo, Write or ReadFrom, CloseWrite.
DataIO(t) ==
    /\ pc[t] \in {"dataRead", "dataWrite", "halfClose"}
    /\ Go(t, "idle")
    /\ UNCHANGED <<h, callvars, iovars, hookvars>>

\* Close's section, then the conn's Close.
Close(t) ==
    /\ pc[t] = "close"
    /\ IF h.closed THEN Unlock(t, h, FALSE, "idle")
       ELSE LET s == StoreReady([h EXCEPT !.closed = TRUE,
                        !.abortErr = IF @ = "nil" /\ ~h.done THEN "closed" ELSE @])
            IN Unlock(t, SettleLocked(s), SettleHook(s), "ncClose")
    /\ UNCHANGED <<op, he, intact, ctxDone, aborter, iovars, hookvars>>

CloseConn(t) ==
    /\ pc[t] = "ncClose"
    /\ h' = [h EXCEPT !.open = FALSE]
    /\ Go(t, "idle")
    /\ UNCHANGED <<callvars, iovars, hookvars>>

-----------------------------------------------------------------------------
(* Cancellation, the handshake timer and the deadline setters.             *)

\* The ctx of a HandshakeContext call under way is cancelled.
Cancel(t) ==
    /\ pc[t] # "idle"
    /\ op[t] = "HandshakeContext"
    /\ t \notin ctxDone
    /\ aborter[t] = "none"
    /\ ctxDone' = ctxDone \cup {t}
    /\ aborter' = [aborter EXCEPT ![t] = "pending"]
    /\ UNCHANGED <<h, pc, op, nxt, he, intact, iovars, hookvars>>

\* AfterFunc's abortWith, possibly after the call has returned.
AbortLater(t) ==
    /\ aborter[t] = "pending"
    /\ UnlockOther(AbortLocked(h))
    /\ aborter' = [aborter EXCEPT ![t] = IF AbortHook(h) THEN "hook" ELSE "none"]
    /\ UNCHANGED <<op, nxt, he, intact, ctxDone, iovars, hookvars>>

AbortLaterHook(t) ==
    /\ aborter[t] = "hook"
    /\ aborter' = [aborter EXCEPT ![t] = "none"]
    /\ hooks' = hooks \cup {"HandshakeDone"}
    /\ doneRuns' = doneRuns + 1
    /\ UNCHANGED <<h, pc, op, nxt, he, intact, ctxDone, iovars>>

\* runTimed's timer.
HandshakeExpired ==
    /\ ~Early
    /\ h.busy
    /\ UnlockOther(AbortLocked(h))
    /\ UNCHANGED <<callvars, iovars, hookvars>>

\* Mutant: the caller's deadline replaces the past one of an abort.
KeepsUnblockedNever(s) == FALSE

\* The setters leave the conn alone while an aborted handshake must fail.
KeepsUnblocked(s) == s.abortErr # "nil" /\ ~s.done

SetReadDeadline(d) ==
    /\ LET s == Broadcast([h EXCEPT !.readDL = d])
       IN UnlockOther(
            IF KeepsUnblocked(h) THEN s
            ELSE [s EXCEPT !.rdl = DeadlineTo(@, IF h.replyDL THEN "some" ELSE d)])
    /\ UNCHANGED <<callvars, iovars, hookvars>>

SetWriteDeadline(d) ==
    /\ ~KeepsUnblocked(h)
    /\ h' = [h EXCEPT !.wdl = DeadlineTo(@, d)]
    /\ UNCHANGED <<pc, callvars, iovars, hookvars>>

-----------------------------------------------------------------------------

\* The critical sections and hooks of a call: they never block.
Section(t) ==
    \/ AbortNow(t) \/ Check(t) \/ Claim(t) \/ Peek(t) \/ Copy(t)
    \/ WroteHook(t) \/ SendFailed(t) \/ SendDone(t) \/ WaitWritten(t)
    \/ WaitClaimed(t) \/ DeadlineWake(t) \/ ClaimRead(t) \/ ReplyHook(t)
    \/ ReadEnd(t) \/ Run(t) \/ RunEnd(t) \/ DoneHook(t)
    \/ Close(t) \/ CloseConn(t)

Aborting(t) == AbortLater(t) \/ AbortLaterHook(t)

Next ==
    \/ \E t \in Threads : Begin(t) \/ Section(t)
    \/ \E t \in Threads : Source(t) \/ SendIO(t) \/ ReadIO(t) \/ DataIO(t)
    \/ \E t \in Threads : Cancel(t) \/ Aborting(t)
    \/ HandshakeExpired
    \/ \E d \in h.cfg.deadlines : SetReadDeadline(d) \/ SetWriteDeadline(d)

Spec == Init /\ [][Next]_vars

\* I/O on the conn ends if the conn is closed or the deadline is past or set.
IOEnds(t) ==
    \/ (~h.open \/ h.wdl # "none") /\ SendIO(t)
    \/ (~h.open \/ h.rdl # "none") /\ ReadIO(t)
    \/ ~h.open /\ DataIO(t)

Fairness ==
    \A t \in Threads : WF_vars(Section(t)) /\ WF_vars(Aborting(t)) /\ WF_vars(IOEnds(t))

FairSpec == Spec /\ Fairness

-----------------------------------------------------------------------------
(* Properties.                                                             *)

SendPCs == {"earlyBuf", "sending", "wrote", "sentLock"}
ReadPCs == {"reading", "gotReply", "readDone", "ran"}

\* The handshake comes first, and once.  One call works on the write and one on
\* the replies: it is claimed by the thread that is writing it, and busy has one
\* owner.  The fast paths, read without c.mu, are current after every section
\* that changes done, err, closed or the phase.  So data keeps its place: a call
\* that writes data, on the fast path or after waitWritten, finds the handshake
\* sent in full, and one that reads data, or half-closes, the replies consumed.
HandshakeFirst ==
    /\ Cardinality({t \in Threads : pc[t] \in SendPCs}) <= 1
    /\ Cardinality({t \in Threads : pc[t] \in ReadPCs}) <= 1
    /\ h.phase = "sending" <=>
         \E t \in Threads : pc[t] \in SendPCs \/
             (~Early /\ pc[t] \in {"reading", "gotReply", "ran"})
    /\ h.readReady = (h.err = "nil" /\ ~h.closed /\ h.done)
    /\ h.writeReady = (h.err = "nil" /\ ~h.closed /\ h.phase = "sent")
    /\ \A t \in Threads :
        /\ pc[t] = "dataWrite" => hsOut = "all"
        /\ pc[t] \in {"dataRead", "halfClose"} => replies

\* handshake.go: "wipe zeroes written credentials": the handshake goes out with
\* its credentials, although calls copy, send and wipe h.out outside c.mu.
SendsIntact == ~blanked

\* No call is left behind.  One asleep on c.wake still has the reason it went to
\* sleep for: the section that removes the reason broadcasts.  And a failed
\* handshake leaves none in its I/O without a deadline that ends it: failLocked's
\* past one, or a later one of a caller that clears none (DESIGN.md: "past deadlines unblock
\* the other calls").
NoneStranded ==
    \A t \in Threads :
        /\ pc[t] = "sleepClaim" => Unclaimed(h)
        /\ pc[t] = "sleepWritten" => Unwritten(h)
        /\ pc[t] = "sleepRun" => h.phase # "idle" /\ ~h.done /\ ~h.closed
        /\ pc[t] = "sleepRead" =>
             ~h.done /\ ~h.closed /\ (h.busy \/ (h.abortErr # "nil" /\ h.phase # "sent"))
        /\ h.err # "nil" /\ h.open /\ "none" \notin h.cfg.deadlines =>
             /\ pc[t] = "reading" => h.rdl # "none"
             /\ pc[t] = "sending" => h.wdl # "none"

\* conn.go: "c.phase only advances", "endLocked ends the handshake once", and
\* handshake errors "are sticky"; HandshakeDone runs at most once, after
\* WroteHandshake, whoever ends it: send, the reader, Close, or an abort.
EndsOnce ==
    [][/\ h.phase = "sent" => h'.phase = "sent"
       /\ h.phase = "sending" => h'.phase # "idle"
       /\ h.done => h'.done
       /\ h.err # "nil" => h'.err = h.err
       /\ doneRuns' # doneRuns => doneRuns' = 1 /\ "WroteHandshake" \in hooks]_vars

\* Close makes every call return, wherever it is blocked, but for a ReadFrom
\* waiting for its source.  An aborted handshake, once claimed, ends, whatever
\* deadlines callers set.  And HandshakeDone runs if WroteHandshake ran and the
\* handshake is over.  (None of these conditions is taken back by any step.)
EndUnblocks ==
    /\ \A t \in Threads : []<>~(h.closed /\ pc[t] \notin {"idle", "source"})
    /\ []<>~(IF h.done THEN "WroteHandshake" \in hooks /\ doneRuns = 0
                        ELSE h.abortErr # "nil" /\ h.phase # "idle")

=============================================================================
