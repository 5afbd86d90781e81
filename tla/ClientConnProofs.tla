-------------------------- MODULE ClientConnProofs --------------------------
(***************************************************************************)
(* Proofs about ClientConn, for any number of goroutines that call the     *)
(* Conn, in both modes, whatever they call.                                *)
(***************************************************************************)
EXTENDS ClientConn, TLAPS, FiniteSetTheorems

-----------------------------------------------------------------------------
(* The inductive invariant.                                                *)

EarlyPCs ==
    {"claim", "peek", "copy", "earlyBuf", "source", "sentLock", "waitWritten", "await", "claimRead",
     "readDone", "sleepClaim", "sleepRead", "sleepWritten"}
WholePCs == {"run", "ran", "sleepRun"}

\* Where a call goes on after HandshakeDone.
HookPCs ==
    {"idle", "close", "check", "peek", "ncClose", "claim", "run", "await", "claimRead", "dataRead",
     "dataWrite", "halfClose"}

\* Where a call is, HandshakeDone aside.
At(t) == IF pc[t] = "hook" THEN nxt[t] ELSE pc[t]

\* The calls of an early conn and those of another keep to their own code.
ModeOf(t) ==
    /\ At(t) \in EarlyPCs => Early
    /\ At(t) \in WholePCs => ~Early
    /\ pc[t] = "hook" => nxt[t] \in HookPCs
InMode == \A t \in Threads : ModeOf(t)

\* Who works on the handshake while the phase is "sending", and while busy.
Writers == IF Early THEN SendPCs ELSE SendPCs \cup {"reading", "gotReply", "ran"}
Readers ==
    IF Early THEN {"reading", "gotReply", "readDone"}
    ELSE {"sending", "wrote", "reading", "gotReply", "ran"}

OneWriter ==
    /\ \A t, u \in Threads : pc[t] \in Writers /\ pc[u] \in Writers => t = u
    /\ h.phase = "sending" <=> \E t \in Threads : pc[t] \in Writers
OneReader ==
    /\ \A t, u \in Threads : pc[t] \in Readers /\ pc[u] \in Readers => t = u
    /\ h.busy <=> \E t \in Threads : pc[t] \in Readers
Alone == OneWriter /\ OneReader

\* The fast paths are what storeReadyLocked would store, and only a handshake that
\* is over has an error.
Stored ==
    /\ h.readReady = (h.err = "nil" /\ ~h.closed /\ h.done)
    /\ h.writeReady = (h.err = "nil" /\ ~h.closed /\ h.phase = "sent")
    /\ h.err # "nil" => h.done
    /\ ~Early => ~h.replyDL /\ (h.phase = "sending" => ~h.done)

\* What a call knows of the exchange.
Knows(t) ==
    /\ pc[t] \in {"earlyBuf", "sending"} => hsOut = "none"
    /\ pc[t] \in {"wrote", "sentLock"} => (he[t] = "nil" <=> hsOut = "all")
    /\ pc[t] \in {"gotReply", "readDone", "ran"} /\ he[t] = "nil" => replies
    /\ At(t) = "dataWrite" => hsOut = "all"
    /\ At(t) \in {"dataRead", "halfClose"} => replies

\* What was sent and what was answered.
Exchanged ==
    /\ h.phase = "idle" => hsOut = "none"
    /\ replies => hsOut = "all"
    /\ h.phase = "sent" /\ h.err = "nil" => hsOut = "all"
    /\ h.done /\ h.err = "nil" => replies
    /\ \A t \in Threads : Knows(t)

\* Who sleeps has a reason to.
Reason(t) ==
    /\ pc[t] = "sleepClaim" => Unclaimed(h)
    /\ pc[t] = "sleepWritten" => Unwritten(h)
    /\ pc[t] = "sleepRun" => h.phase # "idle" /\ ~h.done /\ ~h.closed
    /\ pc[t] = "sleepRead" =>
         ~h.done /\ ~h.closed /\ (h.busy \/ (h.abortErr # "nil" /\ h.phase # "sent"))
Sleeping == \A t \in Threads : Reason(t)

\* A failed handshake leaves nobody in its I/O without a deadline, and nobody on
\* the way to it.
Held(t) ==
    /\ pc[t] = "reading" => h.rdl # "none"
    /\ pc[t] \in {"earlyBuf", "sending"} => h.wdl # "none"
Unblocked ==
    HasDeadlines /\ h.err # "nil" /\ h.open /\ "none" \notin h.cfg.deadlines =>
        \A t \in Threads : Held(t)

\* HandshakeDone has run, or is one goroutine's to run, or nobody's yet.
NoHook ==
    doneRuns = 0 /\ \A t \in Threads : pc[t] # "hook" /\ aborter[t] # "hook"
OneHook ==
    /\ doneRuns \in {0, 1}
    /\ \A t, u \in Threads :
         /\ pc[t] = "hook" /\ pc[u] = "hook" => t = u
         /\ aborter[t] = "hook" /\ aborter[u] = "hook" => t = u
         /\ ~(pc[t] = "hook" /\ aborter[u] = "hook")
    /\ \A t \in Threads : pc[t] = "hook" \/ aborter[t] = "hook" => doneRuns = 0

\* It is for a handshake that is over and was written ...
HookLast == ~h.done \/ h.phase # "sent" => NoHook

\* ... and whose WroteHandshake ran.
PastWrite(t) == pc[t] = "sentLock" \/ (~Early /\ pc[t] \in {"reading", "gotReply", "ran"})
Wrote ==
    /\ h.phase = "sent" => "WroteHandshake" \in hooks
    /\ \A t \in Threads : PastWrite(t) => "WroteHandshake" \in hooks

Once == OneHook /\ HookLast /\ Wrote

IndInv ==
    TypeOK /\ InMode /\ Alone /\ Stored /\ Exchanged /\ Sleeping /\ Unblocked /\ Once

-----------------------------------------------------------------------------
(* The ...Locked methods.                                                  *)

\* Two records that agree but for wake.
Agree(r, s) ==
    /\ r.cfg = s.cfg /\ r.phase = s.phase /\ r.busy = s.busy /\ r.done = s.done
    /\ r.closed = s.closed /\ r.abortErr = s.abortErr /\ r.err = s.err
    /\ r.readDL = s.readDL /\ r.replyDL = s.replyDL /\ r.readReady = s.readReady
    /\ r.writeReady = s.writeReady /\ r.rdl = s.rdl /\ r.wdl = s.wdl /\ r.open = s.open

\* What the end of a handshake leaves alone.
Spared(r, s) ==
    /\ r.cfg = s.cfg /\ r.phase = s.phase /\ r.busy = s.busy /\ r.closed = s.closed
    /\ r.abortErr = s.abortErr /\ r.readDL = s.readDL /\ r.replyDL = s.replyDL
    /\ r.open = s.open

\* The fast paths are what storeReadyLocked stores.
Fresh(r) ==
    /\ r.readReady = (r.err = "nil" /\ ~r.closed /\ r.done)
    /\ r.writeReady = (r.err = "nil" /\ ~r.closed /\ r.phase = "sent")

\* Broadcast sets wake.
LEMMA BroadcastSets ==
    ASSUME NEW s \in ConnRecord
    PROVE  Broadcast(s) \in ConnRecord /\ Agree(Broadcast(s), s) /\ Broadcast(s).wake
BY DEF Broadcast, ConnRecord, Agree

\* storeReadyLocked changes the fast paths alone.
LEMMA StoreReadySets ==
    ASSUME NEW s \in ConnRecord
    PROVE  /\ StoreReady(s) \in ConnRecord /\ Spared(StoreReady(s), s)
           /\ StoreReady(s).done = s.done /\ StoreReady(s).err = s.err
           /\ StoreReady(s).rdl = s.rdl /\ StoreReady(s).wdl = s.wdl
           /\ StoreReady(s).wake = s.wake
           /\ Fresh(StoreReady(s))
BY DEF StoreReady, ConnRecord, Spared, Fresh

\* establishLocked.
LEMMA EstablishSets ==
    ASSUME NEW s \in ConnRecord
    PROVE  LET r == EstablishLocked(s) IN
           /\ r \in ConnRecord /\ Spared(r, s) /\ Fresh(r) /\ r.wake
           /\ r.done /\ r.err = s.err /\ r.rdl = s.rdl /\ r.wdl = s.wdl
<1> DEFINE d == [s EXCEPT !.done = TRUE]
<1>1. d \in ConnRecord /\ Spared(d, s) /\ d.done /\ d.err = s.err /\ d.rdl = s.rdl /\ d.wdl = s.wdl
  BY DEF ConnRecord, Spared
<1> HIDE DEF d
<1>2. Broadcast(d) \in ConnRecord /\ Agree(Broadcast(d), d) /\ Broadcast(d).wake
  BY <1>1, BroadcastSets
<1>3. EstablishLocked(s) = StoreReady(Broadcast(d))
  BY DEF EstablishLocked, d
<1> DEFINE b == Broadcast(d)
           r == StoreReady(b)
<1> HIDE DEF b
<1>4. /\ r \in ConnRecord /\ Spared(r, b) /\ Fresh(r) /\ r.wake = b.wake
      /\ r.done = b.done /\ r.err = b.err /\ r.rdl = b.rdl /\ r.wdl = b.wdl
  BY <1>2, StoreReadySets DEF b
<1> HIDE DEF r
<1>5. Spared(r, s) /\ r.err = s.err /\ r.rdl = s.rdl /\ r.wdl = s.wdl /\ r.done /\ r.wake
  BY <1>1, <1>2, <1>4 DEF Agree, Spared, b
<1> QED
  BY <1>3, <1>4, <1>5 DEF r, b

\* failLocked.
LEMMA FailSets ==
    ASSUME NEW s \in ConnRecord, NEW e \in Errors
    PROVE  LET r == FailLocked(s, e) IN
           /\ r \in ConnRecord /\ Spared(r, s) /\ Fresh(r) /\ r.wake
           /\ r.done /\ r.err = e
           /\ r.rdl \in {s.rdl, "past"} /\ r.wdl \in {s.wdl, "past"}
           /\ HasDeadlines /\ s.busy => r.rdl = "past"
           /\ HasDeadlines /\ s.phase = "sending" => r.wdl = "past"
<1> DEFINE d == [s EXCEPT !.done = TRUE, !.err = e]
           f == StoreReady(Broadcast(d))
<1>1. d \in ConnRecord /\ Spared(d, s) /\ d.done /\ d.err = e /\ d.rdl = s.rdl /\ d.wdl = s.wdl
  BY DEF ConnRecord, Spared
<1>2. Broadcast(d) \in ConnRecord /\ Agree(Broadcast(d), d) /\ Broadcast(d).wake
  BY <1>1, BroadcastSets
<1> HIDE DEF d
<1>3. /\ f \in ConnRecord /\ Spared(f, s) /\ Fresh(f) /\ f.wake /\ f.done /\ f.err = e
      /\ f.rdl = s.rdl /\ f.wdl = s.wdl
  <2> DEFINE b == Broadcast(d)
  <2> HIDE DEF b
  <2>1. LET r == StoreReady(b) IN
        /\ r \in ConnRecord /\ Spared(r, b) /\ Fresh(r) /\ r.wake = b.wake
        /\ r.done = b.done /\ r.err = b.err /\ r.rdl = b.rdl /\ r.wdl = b.wdl
    BY <1>2, StoreReadySets DEF b
  <2>2. f = StoreReady(b)
    BY DEF b
  <2> QED
    BY <1>1, <1>2, <2>1, <2>2 DEF Agree, Spared, b
<1>4. FailLocked(s, e) =
        [f EXCEPT !.rdl = IF s.busy THEN DeadlineTo(@, "past") ELSE @,
                  !.wdl = IF s.phase = "sending" THEN DeadlineTo(@, "past") ELSE @]
  BY DEF FailLocked, d
<1> HIDE DEF f
<1> DEFINE x == IF s.busy THEN DeadlineTo(f.rdl, "past") ELSE f.rdl
           y == IF s.phase = "sending" THEN DeadlineTo(f.wdl, "past") ELSE f.wdl
<1>5. s.rdl \in Deadlines /\ s.wdl \in Deadlines /\ "past" \in Deadlines
  BY DEF ConnRecord, Deadlines
<1>6. /\ x \in {s.rdl, "past"} /\ y \in {s.wdl, "past"} /\ x \in Deadlines /\ y \in Deadlines
      /\ HasDeadlines /\ s.busy => x = "past"
      /\ HasDeadlines /\ s.phase = "sending" => y = "past"
  BY <1>3, <1>5 DEF DeadlineTo
<1>7. FailLocked(s, e) = [f EXCEPT !.rdl = x, !.wdl = y]
  BY <1>3, <1>4 DEF ConnRecord
<1> HIDE DEF x, y
<1> DEFINE r == [f EXCEPT !.rdl = x, !.wdl = y]
<1>8. /\ r \in ConnRecord /\ r.rdl = x /\ r.wdl = y
      /\ r.cfg = f.cfg /\ r.phase = f.phase /\ r.busy = f.busy /\ r.closed = f.closed
      /\ r.abortErr = f.abortErr /\ r.readDL = f.readDL /\ r.replyDL = f.replyDL
      /\ r.open = f.open /\ r.readReady = f.readReady /\ r.writeReady = f.writeReady
      /\ r.wake = f.wake /\ r.done = f.done /\ r.err = f.err
  BY <1>3, <1>6 DEF ConnRecord
<1> HIDE DEF r
<1>9. Spared(r, s) /\ Fresh(r) /\ r.wake /\ r.done /\ r.err = e
  BY <1>3, <1>8 DEF Spared, Fresh
<1> QED
  BY <1>6, <1>7, <1>8, <1>9 DEF r

\* endLocked ends a handshake that is not over, once.
LEMMA EndSets ==
    ASSUME NEW s \in ConnRecord, NEW e \in Errors
    PROVE  LET r == EndLocked(s, e) IN
           /\ r \in ConnRecord /\ Spared(r, s)
           /\ r.done
           /\ s.done => r = s
           /\ ~s.done => r.wake /\ Fresh(r) /\ r.err = IF e = "nil" THEN s.err ELSE e
           /\ r.rdl \in {s.rdl, "past"} /\ r.wdl \in {s.wdl, "past"}
           /\ HasDeadlines /\ ~s.done /\ e # "nil" /\ s.busy => r.rdl = "past"
           /\ HasDeadlines /\ ~s.done /\ e # "nil" /\ s.phase = "sending" => r.wdl = "past"
<1>1. s.done \in BOOLEAN /\ (s.done => Spared(s, s))
  BY DEF ConnRecord, Spared
<1> QED
  BY <1>1, EstablishSets, FailSets DEF EndLocked

\* A cause, if there is one, is an error.
LEMMA BlameIsError ==
    ASSUME NEW e \in Errors, NEW c \in Errors
    PROVE  /\ Blame(e, c) \in Errors
           /\ e # "nil" => Blame(e, c) # "nil"
           /\ c # "nil" => Blame(e, c) # "nil"
           /\ Blame(e, c) = "nil" => e = "nil"
BY DEF Blame, Errors

\* settleLocked ends an aborted handshake that nobody works on, and broadcasts.
LEMMA SettleSets ==
    ASSUME NEW s \in ConnRecord
    PROVE  LET r == SettleLocked(s) IN
           /\ r \in ConnRecord /\ Spared(r, s) /\ r.wake
           /\ ~Settles(s) => Agree(r, s)
           /\ Settles(s) => r.done
           /\ Settles(s) /\ ~s.done => Fresh(r) /\ r.err = s.abortErr
           /\ s.done => Agree(r, s)
           /\ r.rdl \in {s.rdl, "past"} /\ r.wdl \in {s.wdl, "past"}
<1>1. s.abortErr \in Errors /\ "nil" \in Errors /\ s.done \in BOOLEAN
  BY DEF ConnRecord, Errors
<1>2. Spared(s, s) /\ Agree(s, s)
  BY DEF Spared, Agree
<1>3. CASE Settles(s)
  <2> DEFINE b == Blame("nil", s.abortErr)
             f == EndLocked(s, b)
  <2>1. b = s.abortErr /\ b # "nil"
    BY <1>3 DEF Blame, Settles
  <2>2. /\ f \in ConnRecord /\ Spared(f, s) /\ f.done /\ (s.done => f = s)
        /\ ~s.done => Fresh(f) /\ f.err = s.abortErr
        /\ f.rdl \in {s.rdl, "past"} /\ f.wdl \in {s.wdl, "past"}
    BY <1>1, <2>1, EndSets
  <2>3. SettleLocked(s) = Broadcast(f)
    BY <1>3 DEF SettleLocked
  <2> HIDE DEF f
  <2>4. Broadcast(f) \in ConnRecord /\ Agree(Broadcast(f), f) /\ Broadcast(f).wake
    BY <2>2, BroadcastSets
  <2>5. Spared(Broadcast(f), s) /\ (~s.done => Fresh(Broadcast(f)))
    BY <2>2, <2>4 DEF Agree, Spared, Fresh
  <2>6. s.done => Agree(Broadcast(f), s)
    BY <2>2, <2>4
  <2> QED
    BY <1>1, <1>3, <2>2, <2>3, <2>4, <2>5, <2>6 DEF Agree
<1>4. CASE ~Settles(s)
  <2>1. SettleLocked(s) = Broadcast(s)
    BY <1>4 DEF SettleLocked
  <2> QED
    BY <1>2, <1>4, <2>1, BroadcastSets DEF Agree, Spared
<1> QED
  BY <1>3, <1>4

\* abortWith records its cause once, unblocks the I/O, and ends a handshake that
\* nobody works on.
LEMMA AbortSets ==
    ASSUME NEW s \in ConnRecord
    PROVE  LET r == AbortLocked(s) IN
           /\ r \in ConnRecord
           /\ r.cfg = s.cfg /\ r.phase = s.phase /\ r.busy = s.busy /\ r.closed = s.closed
           /\ r.replyDL = s.replyDL
           /\ ~Aborts(s) => r = s
           /\ Aborts(s) => r.wake /\ r.abortErr # "nil"
           /\ Aborts(s) /\ HasDeadlines => r.rdl = "past" /\ r.wdl = "past"
           /\ r.open => s.open
           /\ Aborts(s) /\ s.phase = "sent" /\ ~s.busy => Fresh(r) /\ r.done /\ r.err = "ctx"
           /\ ~(Aborts(s) /\ s.phase = "sent" /\ ~s.busy) =>
                /\ r.done = s.done /\ r.err = s.err
                /\ r.readReady = s.readReady /\ r.writeReady = s.writeReady
           /\ AbortHook(s) <=> (Aborts(s) /\ s.phase = "sent" /\ ~s.busy)
<1> DEFINE a == [s EXCEPT !.abortErr = "ctx"]
           b == Unblock(a)
<1>1. /\ a \in ConnRecord /\ a.abortErr = "ctx"
      /\ a.cfg = s.cfg /\ a.phase = s.phase /\ a.busy = s.busy /\ a.closed = s.closed
      /\ a.replyDL = s.replyDL /\ a.open = s.open /\ a.done = s.done /\ a.err = s.err
      /\ a.readReady = s.readReady /\ a.writeReady = s.writeReady
  BY DEF ConnRecord, Errors
<1> HIDE DEF a
<1>2. /\ b \in ConnRecord /\ b.abortErr = "ctx"
      /\ b.cfg = s.cfg /\ b.phase = s.phase /\ b.busy = s.busy /\ b.closed = s.closed
      /\ b.replyDL = s.replyDL /\ b.done = s.done /\ b.err = s.err
      /\ b.readReady = s.readReady /\ b.writeReady = s.writeReady
  BY <1>1 DEF ConnRecord, Unblock, Deadlines
<1>3. (b.open => s.open) /\ (HasDeadlines => b.rdl = "past" /\ b.wdl = "past")
  BY <1>1 DEF ConnRecord, Unblock
<1> HIDE DEF b
<1> DEFINE r == SettleLocked(b)
<1>4. /\ r \in ConnRecord /\ Spared(r, b) /\ r.wake
      /\ ~Settles(b) => Agree(r, b)
      /\ Settles(b) => r.done
      /\ Settles(b) /\ ~b.done => Fresh(r) /\ r.err = b.abortErr
      /\ r.rdl \in {b.rdl, "past"} /\ r.wdl \in {b.wdl, "past"}
  BY <1>2, SettleSets
<1>5. s.done \in BOOLEAN /\ s.busy \in BOOLEAN
  BY DEF ConnRecord
<1>6. Settles(b) <=> s.phase = "sent" /\ ~s.busy
  BY <1>2 DEF Settles
<1>7. AbortHook(s) <=> (Aborts(s) /\ s.phase = "sent" /\ ~s.busy)
  <2>1. SettleHook(a) <=> (s.phase = "sent" /\ ~s.busy /\ ~s.done)
    BY <1>1, <1>5 DEF SettleHook, Settles, EndHook
  <2> QED
    BY <2>1 DEF AbortHook, Aborts, a
<1>8. Aborts(s) => AbortLocked(s) = r
  BY DEF AbortLocked, r, b, a
<1>9. ~Aborts(s) => AbortLocked(s) = s
  BY DEF AbortLocked
<1> HIDE DEF r
<1>10. Aborts(s) => ~s.done
  BY DEF Aborts
<1>11. CASE Aborts(s)
  <2>1. AbortLocked(s) = r
    BY <1>8, <1>11
  <2>2. /\ r.cfg = s.cfg /\ r.phase = s.phase /\ r.busy = s.busy /\ r.closed = s.closed
        /\ r.replyDL = s.replyDL /\ r.abortErr = "ctx" /\ (r.open => s.open)
        /\ HasDeadlines => r.rdl = "past" /\ r.wdl = "past"
    BY <1>2, <1>3, <1>4 DEF Spared
  <2>3. s.phase = "sent" /\ ~s.busy => Fresh(r) /\ r.done /\ r.err = "ctx"
    BY <1>2, <1>4, <1>6, <1>10, <1>11
  <2>4. ~(s.phase = "sent" /\ ~s.busy) =>
          /\ r.done = s.done /\ r.err = s.err
          /\ r.readReady = s.readReady /\ r.writeReady = s.writeReady
    BY <1>2, <1>4, <1>6 DEF Agree
  <2> QED
    BY <1>4, <1>7, <1>11, <2>1, <2>2, <2>3, <2>4
<1>12. CASE ~Aborts(s)
  BY <1>7, <1>9, <1>12
<1> QED
  BY <1>11, <1>12

\* endIOLocked.
LEMMA EndIOSets ==
    ASSUME NEW s \in ConnRecord, NEW t
    PROVE  LET r == EndIOLocked(s, t) IN
           /\ r \in ConnRecord /\ ~r.busy
           /\ r.cfg = s.cfg /\ r.phase = s.phase /\ r.closed = s.closed
           /\ r.replyDL = s.replyDL /\ r.done = s.done /\ r.err = s.err
           /\ r.readReady = s.readReady /\ r.writeReady = s.writeReady /\ r.open = s.open
           /\ r.rdl = s.rdl /\ r.wdl = s.wdl /\ r.wake = s.wake
<1> DEFINE a == IF s.abortErr = "nil" /\ t \in ctxDone THEN "ctx" ELSE s.abortErr
<1>1. a \in Errors
  BY DEF ConnRecord, Errors
<1>2. EndIOLocked(s, t) = [s EXCEPT !.busy = FALSE, !.abortErr = a]
  BY DEF EndIOLocked, ConnRecord
<1> HIDE DEF a
<1> QED
  BY <1>1, <1>2 DEF ConnRecord

\* setReplyDeadline concerns the deadlines alone.
LEMMA SetReplyDeadlineSets ==
    ASSUME NEW s \in ConnRecord
    PROVE  LET r == SetReplyDeadline(s) IN
           /\ r \in ConnRecord
           /\ r.cfg = s.cfg /\ r.phase = s.phase /\ r.closed = s.closed /\ r.busy = s.busy
           /\ r.done = s.done /\ r.err = s.err /\ r.abortErr = s.abortErr
           /\ r.readReady = s.readReady /\ r.writeReady = s.writeReady /\ r.open = s.open
           /\ r.wdl = s.wdl /\ r.wake = s.wake
<1> DEFINE x == DeadlineTo(s.rdl, "some")
<1>1. x \in Deadlines
  BY DEF ConnRecord, Deadlines, DeadlineTo
<1>2. SetReplyDeadline(s) = s \/ SetReplyDeadline(s) = [s EXCEPT !.replyDL = TRUE, !.rdl = x]
  BY DEF SetReplyDeadline, ConnRecord
<1> HIDE DEF x
<1> QED
  BY <1>1, <1>2 DEF ConnRecord

\* clearReplyDeadline concerns the deadlines alone, and leaves none pending.
LEMMA ClearReplyDeadlineSets ==
    ASSUME NEW s \in ConnRecord
    PROVE  LET r == ClearReplyDeadline(s) IN
           /\ r \in ConnRecord /\ ~r.replyDL
           /\ r.cfg = s.cfg /\ r.phase = s.phase /\ r.closed = s.closed /\ r.busy = s.busy
           /\ r.done = s.done /\ r.err = s.err /\ r.abortErr = s.abortErr
           /\ r.readReady = s.readReady /\ r.writeReady = s.writeReady /\ r.open = s.open
           /\ r.wdl = s.wdl /\ r.wake = s.wake
<1> DEFINE x == IF s.abortErr = "nil" THEN DeadlineTo(s.rdl, s.readDL) ELSE s.rdl
<1>1. x \in Deadlines
  BY DEF ConnRecord, Deadlines, DeadlineTo
<1>2. IF s.replyDL THEN ClearReplyDeadline(s) = [s EXCEPT !.replyDL = FALSE, !.rdl = x]
      ELSE ClearReplyDeadline(s) = s
  BY DEF ClearReplyDeadline, ConnRecord
<1> HIDE DEF x
<1> QED
  BY <1>1, <1>2 DEF ConnRecord

-----------------------------------------------------------------------------
(* Critical sections.                                                      *)

Woken == {"await", "claimRead", "waitWritten", "run"}

\* A call goes on where it was, or was asleep and is awake.
Stays(u) == pc'[u] = pc[u] \/ (pc[u] \in Asleep /\ pc'[u] = Awake(pc[u]))

\* Who is woken is no longer asleep.
LEMMA AwakeKinds ==
    /\ \A p \in Asleep : Awake(p) \in Woken
    /\ \A p : p \notin Asleep => Awake(p) = p
    /\ Awake("sleepRun") = "run"
    /\ \A p \in Asleep : p # "sleepRun" => Awake(p) \in {"await", "claimRead", "waitWritten"}
BY DEF Awake, Asleep, Woken

\* The end of a critical section of thread t.
LEMMA UnlockSets ==
    ASSUME TypeOK, NEW t \in Threads, NEW s \in ConnRecord, NEW hook \in BOOLEAN, NEW p \in PCs,
           Unlock(t, s, hook, p)
    PROVE  /\ h' \in ConnRecord /\ Agree(h', s) /\ ~h'.wake
           /\ pc' \in [Threads -> PCs] /\ nxt' \in [Threads -> PCs]
           /\ pc'[t] = IF hook THEN "hook" ELSE p
           /\ nxt'[t] = IF hook THEN p ELSE nxt[t]
           /\ \A u \in Threads : u # t => Stays(u) /\ nxt'[u] = nxt[u]
           /\ s.wake => \A u \in Threads : u # t => pc'[u] \notin Asleep
<1>1. h' \in ConnRecord /\ Agree(h', s) /\ ~h'.wake
  BY DEF Unlock, ConnRecord, Agree
<1>2. pc' = [u \in Threads |->
                IF u = t THEN IF hook THEN "hook" ELSE p
                ELSE IF s.wake THEN Awake(pc[u]) ELSE pc[u]]
  BY DEF Unlock
<1>3. pc \in [Threads -> PCs] /\ nxt \in [Threads -> PCs]
  BY DEF TypeOK
<1>4. "hook" \in PCs /\ \A q \in PCs : Awake(q) \in PCs
  BY AwakeKinds DEF PCs, Woken
<1>5. pc' \in [Threads -> PCs]
  BY <1>2, <1>3, <1>4
<1>6. /\ nxt' \in [Threads -> PCs] /\ nxt'[t] = IF hook THEN p ELSE nxt[t]
      /\ \A u \in Threads : u # t => nxt'[u] = nxt[u]
  BY <1>3 DEF Unlock
<1>7. \A u \in Threads : u # t => Stays(u)
  BY <1>2, AwakeKinds DEF Stays
<1>8. s.wake => \A u \in Threads : u # t => pc'[u] \notin Asleep
  BY <1>2, AwakeKinds DEF Woken, Asleep
<1> QED
  BY <1>1, <1>2, <1>5, <1>6, <1>7, <1>8

\* The end of a critical section of another goroutine.
LEMMA UnlockOtherSets ==
    ASSUME TypeOK, NEW s \in ConnRecord, UnlockOther(s)
    PROVE  /\ h' \in ConnRecord /\ Agree(h', s) /\ ~h'.wake
           /\ pc' \in [Threads -> PCs]
           /\ \A u \in Threads : Stays(u)
           /\ s.wake => \A u \in Threads : pc'[u] \notin Asleep
<1>1. h' \in ConnRecord /\ Agree(h', s) /\ ~h'.wake
  BY DEF UnlockOther, ConnRecord, Agree
<1>2. pc' = [u \in Threads |-> IF s.wake THEN Awake(pc[u]) ELSE pc[u]]
  BY DEF UnlockOther
<1>3. pc \in [Threads -> PCs]
  BY DEF TypeOK
<1>4. \A q \in PCs : Awake(q) \in PCs
  BY AwakeKinds DEF PCs, Woken
<1>5. pc' \in [Threads -> PCs]
  BY <1>2, <1>3, <1>4
<1>6. \A u \in Threads : Stays(u)
  BY <1>2, AwakeKinds DEF Stays
<1>7. s.wake => \A u \in Threads : pc'[u] \notin Asleep
  BY <1>2, AwakeKinds DEF Woken, Asleep
<1> QED
  BY <1>1, <1>5, <1>6, <1>7

-----------------------------------------------------------------------------
(* What each section does.                                                 *)

\* What a section of t leaves alone, and that it woke the others.
Rest(t) == \A u \in Threads : u # t => Stays(u) /\ nxt'[u] = nxt[u]
Woke(t) == \A u \in Threads : u # t => pc'[u] \notin Asleep

\* The types of the calls' state, which most steps keep.
Typed == h' \in ConnRecord /\ pc' \in [Threads -> PCs] /\ nxt' \in [Threads -> PCs]

\* Where a call starts, and where it goes on.
LEMMA EntryKinds ==
    ASSUME NEW o \in OpKinds
    PROVE  /\ Entry(o) \in {"close", "check", "run", "await", "peek", "claim"}
           /\ Entry(o) = "run" => ~Early
           /\ Entry(o) \in {"await", "peek", "claim"} => Early
           /\ AfterHandshake(o) \in {"dataRead", "dataWrite", "halfClose", "idle"}
BY DEF Entry, AfterHandshake, OpKinds

\* The end of an abort, of a call or of another goroutine.
Aborted ==
    /\ h' \in ConnRecord
    /\ h'.cfg = h.cfg /\ h'.phase = h.phase /\ h'.busy = h.busy /\ h'.closed = h.closed
    /\ h'.replyDL = h.replyDL
    /\ ~Aborts(h) => Agree(h', h)
    /\ Aborts(h) => h'.abortErr # "nil"
    /\ Aborts(h) /\ HasDeadlines => h'.rdl = "past" /\ h'.wdl = "past"
    /\ h'.open => h.open
    /\ AbortHook(h) => Fresh(h') /\ h'.done /\ h'.err = "ctx"
    /\ ~AbortHook(h) =>
         /\ h'.done = h.done /\ h'.err = h.err
         /\ h'.readReady = h.readReady /\ h'.writeReady = h.writeReady
    /\ AbortHook(h) <=> (Aborts(h) /\ h.phase = "sent" /\ ~h.busy)

\* abortWith leaves c.mu's fields like that.
LEMMA AbortedBy ==
    ASSUME h \in ConnRecord, h' \in ConnRecord, Agree(h', AbortLocked(h))
    PROVE  Aborted
<1> DEFINE r == AbortLocked(h)
<1>1. /\ r \in ConnRecord
      /\ r.cfg = h.cfg /\ r.phase = h.phase /\ r.busy = h.busy /\ r.closed = h.closed
      /\ r.replyDL = h.replyDL
      /\ ~Aborts(h) => r = h
      /\ Aborts(h) => r.wake /\ r.abortErr # "nil"
      /\ Aborts(h) /\ HasDeadlines => r.rdl = "past" /\ r.wdl = "past"
      /\ r.open => h.open
      /\ Aborts(h) /\ h.phase = "sent" /\ ~h.busy => Fresh(r) /\ r.done /\ r.err = "ctx"
      /\ ~(Aborts(h) /\ h.phase = "sent" /\ ~h.busy) =>
           /\ r.done = h.done /\ r.err = h.err
           /\ r.readReady = h.readReady /\ r.writeReady = h.writeReady
      /\ AbortHook(h) <=> (Aborts(h) /\ h.phase = "sent" /\ ~h.busy)
  BY AbortSets
<1>2. Agree(h', r)
  OBVIOUS
<1> HIDE DEF r
<1> QED
  BY <1>1, <1>2 DEF Aborted, Agree, Fresh

\* HandshakeContext's abortWith.
LEMMA AbortNowDoes ==
    ASSUME TypeOK, NEW t \in Threads, AbortNow(t)
    PROVE  /\ Typed /\ Rest(t) /\ Aborted
           /\ pc'[t] = IF AbortHook(h) THEN "hook" ELSE Entry(op[t])
           /\ nxt'[t] = IF AbortHook(h) THEN Entry(op[t]) ELSE nxt[t]
           /\ Aborts(h) => Woke(t)
<1>1. h \in ConnRecord /\ op[t] \in OpKinds
  BY DEF TypeOK
<1>2. Entry(op[t]) \in PCs
  BY <1>1, EntryKinds DEF PCs
<1>3. AbortLocked(h) \in ConnRecord /\ AbortHook(h) \in BOOLEAN /\ (Aborts(h) => AbortLocked(h).wake)
  BY <1>1, AbortSets DEF AbortHook
<1>4. Unlock(t, AbortLocked(h), AbortHook(h), Entry(op[t]))
  BY DEF AbortNow
<1>5. /\ h' \in ConnRecord /\ Agree(h', AbortLocked(h))
      /\ pc' \in [Threads -> PCs] /\ nxt' \in [Threads -> PCs]
      /\ pc'[t] = IF AbortHook(h) THEN "hook" ELSE Entry(op[t])
      /\ nxt'[t] = IF AbortHook(h) THEN Entry(op[t]) ELSE nxt[t]
      /\ \A u \in Threads : u # t => Stays(u) /\ nxt'[u] = nxt[u]
      /\ AbortLocked(h).wake => \A u \in Threads : u # t => pc'[u] \notin Asleep
  BY <1>2, <1>3, <1>4, UnlockSets
<1> QED
  BY <1>1, <1>3, <1>5, AbortedBy DEF Rest, Woke, Typed

\* AfterFunc's abortWith, and the handshake timer's.
LEMMA AbortOtherDoes ==
    ASSUME TypeOK, UnlockOther(AbortLocked(h))
    PROVE  /\ Aborted /\ pc' \in [Threads -> PCs]
           /\ \A u \in Threads : Stays(u)
           /\ Aborts(h) => \A u \in Threads : pc'[u] \notin Asleep
<1>1. h \in ConnRecord
  BY DEF TypeOK
<1>2. AbortLocked(h) \in ConnRecord /\ (Aborts(h) => AbortLocked(h).wake)
  BY <1>1, AbortSets
<1>3. /\ h' \in ConnRecord /\ Agree(h', AbortLocked(h))
      /\ pc' \in [Threads -> PCs]
      /\ \A u \in Threads : Stays(u)
      /\ AbortLocked(h).wake => \A u \in Threads : pc'[u] \notin Asleep
  BY <1>2, UnlockOtherSets
<1> QED
  BY <1>1, <1>2, <1>3, AbortedBy

\* A section that leaves h as it was.
LEMMA UnlockOnly ==
    ASSUME TypeOK, NEW t \in Threads, NEW p \in PCs, Unlock(t, h, FALSE, p)
    PROVE  Typed /\ Rest(t) /\ Agree(h', h) /\ pc'[t] = p /\ nxt'[t] = nxt[t]
<1>1. h \in ConnRecord
  BY DEF TypeOK
<1>2. /\ h' \in ConnRecord /\ Agree(h', h)
      /\ pc' \in [Threads -> PCs] /\ nxt' \in [Threads -> PCs]
      /\ pc'[t] = p /\ nxt'[t] = nxt[t]
      /\ \A u \in Threads : u # t => Stays(u) /\ nxt'[u] = nxt[u]
  BY <1>1, UnlockSets, ZenonT(60)
<1> QED
  BY <1>2 DEF Rest, Typed

\* A section that ends with HandshakeDone, or without.
LEMMA UnlockHook ==
    ASSUME TypeOK, NEW t \in Threads, NEW s \in ConnRecord, NEW p \in PCs, NEW hook,
           Unlock(t, s, hook, p)
    PROVE  /\ Typed /\ Rest(t) /\ Agree(h', s) /\ (s.wake => Woke(t))
           /\ hook => pc'[t] = "hook" /\ nxt'[t] = p
           /\ ~hook => pc'[t] = p /\ nxt'[t] = nxt[t]
<1>1. CASE hook
  <2>1. Unlock(t, s, TRUE, p)
    BY <1>1 DEF Unlock
  <2>2. /\ h' \in ConnRecord /\ Agree(h', s)
        /\ pc' \in [Threads -> PCs] /\ nxt' \in [Threads -> PCs]
        /\ pc'[t] = "hook" /\ nxt'[t] = p
        /\ \A u \in Threads : u # t => Stays(u) /\ nxt'[u] = nxt[u]
        /\ s.wake => \A u \in Threads : u # t => pc'[u] \notin Asleep
    BY <2>1, UnlockSets, ZenonT(60)
  <2> QED
    BY <1>1, <2>2 DEF Rest, Typed, Woke
<1>2. CASE ~hook
  <2>1. Unlock(t, s, FALSE, p)
    BY <1>2 DEF Unlock
  <2>2. /\ h' \in ConnRecord /\ Agree(h', s)
        /\ pc' \in [Threads -> PCs] /\ nxt' \in [Threads -> PCs]
        /\ pc'[t] = p /\ nxt'[t] = nxt[t]
        /\ \A u \in Threads : u # t => Stays(u) /\ nxt'[u] = nxt[u]
        /\ s.wake => \A u \in Threads : u # t => pc'[u] \notin Asleep
    BY <2>1, UnlockSets, ZenonT(60)
  <2> QED
    BY <1>2, <2>2 DEF Rest, Typed, Woke
<1> QED
  BY <1>1, <1>2

\* claim: it fails, it takes the handshake, or it finds it taken.
LEMMA ClaimDoes ==
    ASSUME TypeOK, NEW t \in Threads, Claim(t)
    PROVE  /\ Typed /\ Rest(t) /\ nxt'[t] = nxt[t]
           /\ h'.cfg = h.cfg /\ h'.busy = h.busy /\ h'.done = h.done /\ h'.closed = h.closed
           /\ h'.abortErr = h.abortErr /\ h'.err = h.err /\ h'.replyDL = h.replyDL
           /\ h'.readReady = h.readReady /\ h'.writeReady = h.writeReady
           /\ h'.rdl = h.rdl /\ h'.wdl = h.wdl /\ h'.open = h.open
           /\ \/ /\ h'.phase = h.phase /\ pc'[t] = "idle"
              \/ /\ h.err = "nil" /\ ~h.closed
                 /\ h.phase = "idle" /\ h'.phase = "sending"
                 /\ pc'[t] \in {"earlyBuf", "sending"} /\ Woke(t)
              \/ /\ h'.phase = h.phase /\ pc'[t] \in {"waitWritten", "await"}
<1>1. h \in ConnRecord
  BY DEF TypeOK
<1>2. CASE CheckLocked(h) # "nil" /\ Unlock(t, h, FALSE, "idle")
  BY <1>2, UnlockOnly DEF PCs, Agree
<1>3. CASE CheckLocked(h) = "nil" /\ Claimable(h)
           /\ Unlock(t, Broadcast([h EXCEPT !.phase = "sending"]), FALSE,
                     IF op[t] = "Write" THEN "earlyBuf" ELSE "sending")
  <2> DEFINE s == [h EXCEPT !.phase = "sending"]
             p == IF op[t] = "Write" THEN "earlyBuf" ELSE "sending"
  <2>1. /\ s \in ConnRecord /\ s.phase = "sending"
        /\ s.cfg = h.cfg /\ s.busy = h.busy /\ s.done = h.done /\ s.closed = h.closed
        /\ s.abortErr = h.abortErr /\ s.err = h.err /\ s.replyDL = h.replyDL
        /\ s.readReady = h.readReady /\ s.writeReady = h.writeReady
        /\ s.rdl = h.rdl /\ s.wdl = h.wdl /\ s.open = h.open
    BY <1>1 DEF ConnRecord
  <2> HIDE DEF s
  <2>2. Broadcast(s) \in ConnRecord /\ Agree(Broadcast(s), s) /\ Broadcast(s).wake
    BY <2>1, BroadcastSets
  <2>3. p \in PCs /\ p \in {"earlyBuf", "sending"}
    BY DEF PCs
  <2>4. Unlock(t, Broadcast(s), FALSE, p)
    BY <1>3 DEF s
  <2> HIDE DEF p
  <2>5. Typed /\ Rest(t) /\ Agree(h', Broadcast(s)) /\ pc'[t] = p /\ nxt'[t] = nxt[t] /\ Woke(t)
    BY <2>2, <2>3, <2>4, UnlockSets DEF Rest, Typed, Woke
  <2>6. h.err = "nil" /\ ~h.closed /\ h.phase = "idle"
    BY <1>1, <1>3 DEF CheckLocked, Claimable, ConnRecord
  <2> QED
    BY <2>1, <2>2, <2>3, <2>5, <2>6 DEF Agree
<1>4. CASE CheckLocked(h) = "nil" /\ ~Claimable(h)
           /\ Unlock(t, h, FALSE, IF op[t] \in {"Write", "ReadFrom"} THEN "waitWritten" ELSE "await")
  <2> DEFINE p == IF op[t] \in {"Write", "ReadFrom"} THEN "waitWritten" ELSE "await"
  <2>1. p \in PCs /\ p \in {"waitWritten", "await"}
    BY DEF PCs
  <2>2. Unlock(t, h, FALSE, p)
    BY <1>4
  <2> HIDE DEF p
  <2> QED
    BY <2>1, <2>2, UnlockOnly DEF Agree
<1> QED
  BY <1>2, <1>3, <1>4 DEF Claim

\* send after a write that failed: the handshake is over, and HandshakeDone is its
\* to run, whoever ended it.
LEMMA SendFailedDoes ==
    ASSUME TypeOK, NEW t \in Threads, SendFailed(t), h.done /\ h.err = "nil" => FALSE
    PROVE  /\ Typed /\ Rest(t) /\ pc'[t] = "hook" /\ nxt'[t] = "idle"
           /\ h'.phase = "sent" /\ h'.done /\ h'.err # "nil"
           /\ h'.cfg = h.cfg /\ h'.busy = h.busy /\ h'.closed = h.closed /\ h'.open = h.open
           /\ h'.abortErr = h.abortErr /\ h'.replyDL = h.replyDL
           /\ h.done => h'.err = h.err /\ h'.readReady = h.readReady /\ h'.writeReady = h.writeReady
           /\ h.done => h'.rdl = h.rdl
           /\ HasDeadlines /\ ~h.done /\ h.busy => h'.rdl = "past"
           /\ ~h.done => Fresh(h') /\ Woke(t)
<1> DEFINE s0 == [h EXCEPT !.phase = "sent"]
           e  == Blame(he[t], s0.abortErr)
           s1 == EndLocked(s0, e)
           s2 == IF s1.err = "nil" THEN StoreReady([s1 EXCEPT !.err = e]) ELSE s1
<1>1. h \in ConnRecord /\ he[t] \in Errors /\ he[t] # "nil"
  BY DEF TypeOK, SendFailed
<1>2. /\ s0 \in ConnRecord /\ s0.phase = "sent"
      /\ s0.cfg = h.cfg /\ s0.busy = h.busy /\ s0.done = h.done /\ s0.closed = h.closed
      /\ s0.abortErr = h.abortErr /\ s0.err = h.err /\ s0.replyDL = h.replyDL
      /\ s0.readReady = h.readReady /\ s0.writeReady = h.writeReady
      /\ s0.rdl = h.rdl /\ s0.wdl = h.wdl /\ s0.open = h.open
      /\ s0.abortErr \in Errors /\ s0.done \in BOOLEAN
  BY <1>1 DEF ConnRecord
<1>3. Unlock(t, s2, EndHook(s0) \/ Owed(h), "idle")
  BY DEF SendFailed
<1> HIDE DEF s0
<1>4. e \in Errors /\ e # "nil"
  BY <1>1, <1>2, BlameIsError
<1> HIDE DEF e
<1>5. /\ s1 \in ConnRecord /\ Spared(s1, s0) /\ s1.done
      /\ s0.done => s1 = s0
      /\ ~s0.done => s1.wake /\ Fresh(s1) /\ s1.err = e
      /\ HasDeadlines /\ ~s0.done /\ s0.busy => s1.rdl = "past"
  BY <1>2, <1>4, EndSets
<1>6. s1.err # "nil"
  BY <1>2, <1>4, <1>5
<1>7. s2 = s1
  BY <1>6
<1>8. (EndHook(s0) \/ Owed(h)) = TRUE
  BY <1>2 DEF EndHook, Owed
<1> HIDE DEF s1, s2
<1>9. Unlock(t, s1, TRUE, "idle")
  BY <1>3, <1>7, <1>8
<1>10. "idle" \in PCs
  BY DEF PCs
<1>11. /\ Typed /\ Rest(t) /\ Agree(h', s1) /\ pc'[t] = "hook" /\ nxt'[t] = "idle"
       /\ s1.wake => Woke(t)
  BY <1>5, <1>9, <1>10, UnlockHook
<1> QED
  BY <1>2, <1>5, <1>6, <1>11 DEF Agree, Spared, Fresh

\* send after a write that covered the handshake.
LEMMA SendDoneDoes ==
    ASSUME TypeOK, NEW t \in Threads, SendDone(t)
    PROVE  /\ Typed /\ Rest(t) /\ Woke(t)
           /\ h'.phase = "sent" /\ Fresh(h')
           /\ h'.cfg = h.cfg /\ h'.busy = h.busy /\ h'.closed = h.closed /\ h'.open = h.open
           /\ h'.abortErr = h.abortErr /\ h'.replyDL = h.replyDL
           /\ h'.rdl \in {h.rdl, "past"}
           /\ h.done => h'.done /\ h'.err = h.err
           /\ ~h.done => h'.err = IF h'.done THEN h.abortErr ELSE h.err
           /\ h'.done => h.done \/ (h'.err # "nil" /\ ~h.busy)
           /\ \E p \in {"idle", "dataWrite", "await"} :
                /\ pc'[t] = IF h'.done THEN "hook" ELSE p
                /\ nxt'[t] = IF h'.done THEN p ELSE nxt[t]
<1> DEFINE s0 == [h EXCEPT !.phase = "sent"]
           s  == StoreReady(s0)
           r  == SettleLocked(s)
<1>1. h \in ConnRecord
  BY DEF TypeOK
<1>2. /\ s0 \in ConnRecord /\ s0.phase = "sent"
      /\ s0.cfg = h.cfg /\ s0.busy = h.busy /\ s0.done = h.done /\ s0.closed = h.closed
      /\ s0.abortErr = h.abortErr /\ s0.err = h.err /\ s0.replyDL = h.replyDL
      /\ s0.rdl = h.rdl /\ s0.wdl = h.wdl /\ s0.open = h.open /\ h.done \in BOOLEAN
  BY <1>1 DEF ConnRecord
<1>3. PICK p \in IF op[t] \in {"Write", "ReadFrom"} THEN {"idle", "dataWrite"} ELSE {"await"} :
        Unlock(t, SettleLocked(s), SettleHook(s) \/ Owed(h), p)
  BY DEF SendDone
<1> HIDE DEF s0
<1>4. /\ s \in ConnRecord /\ Spared(s, s0) /\ s.done = s0.done /\ s.err = s0.err
      /\ s.rdl = s0.rdl /\ s.wdl = s0.wdl /\ Fresh(s)
  BY <1>2, StoreReadySets
<1> HIDE DEF s
<1>5. /\ r \in ConnRecord /\ Spared(r, s) /\ r.wake
      /\ ~Settles(s) => Agree(r, s)
      /\ Settles(s) => r.done
      /\ Settles(s) /\ ~s.done => Fresh(r) /\ r.err = s.abortErr
      /\ s.done => Agree(r, s)
      /\ r.rdl \in {s.rdl, "past"}
  BY <1>4, SettleSets
<1> HIDE DEF r
<1>6. r.done <=> (SettleHook(s) \/ Owed(h))
  <2>1. SettleHook(s) <=> Settles(s) /\ ~s.done
    BY DEF SettleHook, EndHook, Settles
  <2> QED
    BY <1>2, <1>4, <1>5, <2>1 DEF Owed, Agree, Spared
<1>7. Fresh(r)
  BY <1>4, <1>5 DEF Fresh, Agree
<1>8. p \in {"idle", "dataWrite", "await"} /\ p \in PCs
  BY <1>3 DEF PCs
<1>10. Unlock(t, r, SettleHook(s) \/ Owed(h), p)
  BY <1>3 DEF r
<1>11. /\ Typed /\ Rest(t) /\ Agree(h', r) /\ Woke(t)
       /\ pc'[t] = IF SettleHook(s) \/ Owed(h) THEN "hook" ELSE p
       /\ nxt'[t] = IF SettleHook(s) \/ Owed(h) THEN p ELSE nxt[t]
  BY <1>5, <1>8, <1>10, UnlockHook
<1>12. h'.done <=> (SettleHook(s) \/ Owed(h))
  BY <1>6, <1>11 DEF Agree
<1>13. \E q \in {"idle", "dataWrite", "await"} :
         /\ pc'[t] = IF h'.done THEN "hook" ELSE q
         /\ nxt'[t] = IF h'.done THEN q ELSE nxt[t]
  BY <1>8, <1>11, <1>12
<1>14. /\ h'.phase = "sent" /\ Fresh(h')
       /\ h'.cfg = h.cfg /\ h'.busy = h.busy /\ h'.closed = h.closed /\ h'.open = h.open
       /\ h'.abortErr = h.abortErr /\ h'.replyDL = h.replyDL
       /\ h'.rdl \in {h.rdl, "past"}
  BY <1>2, <1>4, <1>5, <1>7, <1>11 DEF Agree, Spared, Fresh
<1>15. h.done => h'.done /\ h'.err = h.err
  BY <1>2, <1>4, <1>5, <1>11 DEF Agree
<1>16. ~h.done => h'.err = IF h'.done THEN h.abortErr ELSE h.err
  BY <1>2, <1>4, <1>5, <1>11 DEF Agree, Spared
<1>17. h'.done => h.done \/ (h'.err # "nil" /\ ~h.busy)
  BY <1>2, <1>4, <1>5, <1>11 DEF Agree, Settles, Spared
<1> QED
  BY <1>11, <1>13, <1>14, <1>15, <1>16, <1>17

\* claimReadLocked: the handshake is over; it settles; the replies are this call's
\* to read; or the call sleeps.
LEMMA ClaimReadDoes ==
    ASSUME TypeOK, NEW t \in Threads, ClaimRead(t)
    PROVE  /\ Typed /\ Rest(t)
           /\ h'.cfg = h.cfg /\ h'.phase = h.phase /\ h'.closed = h.closed
           /\ h'.abortErr = h.abortErr /\ h'.open = h.open
           /\ \/ /\ Agree(h', h) /\ nxt'[t] = nxt[t]
                 /\ \/ pc'[t] = "idle"
                    \/ h.done /\ h.err = "nil" /\ pc'[t] = AfterHandshake(op[t])
                    \/ /\ pc'[t] = "sleepRead" /\ ~h.done /\ ~h.closed
                       /\ h.busy \/ (h.abortErr # "nil" /\ h.phase # "sent")
              \/ /\ h.phase = "sent" /\ ~h.busy /\ ~h.done /\ h'.busy = h.busy
                 /\ h'.replyDL = h.replyDL /\ Woke(t) /\ h'.done /\ Fresh(h') /\ h'.err # "nil"
                 /\ pc'[t] = "hook" /\ nxt'[t] = "claimRead"
              \/ /\ ~h.busy /\ h'.busy /\ pc'[t] = "reading" /\ nxt'[t] = nxt[t]
                 /\ ~h.done /\ h.err = "nil" /\ ~h.closed
                 /\ h'.done = h.done /\ h'.err = h.err
                 /\ h'.readReady = h.readReady /\ h'.writeReady = h.writeReady
<1>1. h \in ConnRecord /\ op[t] \in OpKinds
  BY DEF TypeOK
<1>2. /\ {"idle", "sleepRead", "reading", "claimRead"} \subseteq PCs /\ AfterHandshake(op[t]) \in PCs
      /\ h.done \in BOOLEAN /\ h.busy \in BOOLEAN /\ h.closed \in BOOLEAN
  BY <1>1, EntryKinds DEF PCs, Asleep, ConnRecord
<1>3. CASE CheckLocked(h) # "nil"
  <2>1. Unlock(t, h, FALSE, "idle")
    BY <1>3 DEF ClaimRead
  <2> QED
    BY <1>2, <2>1, UnlockOnly DEF Agree
<1>4. ASSUME CheckLocked(h) = "nil"
      PROVE  h.err = "nil" /\ ~h.closed
  BY <1>1, <1>4 DEF CheckLocked, ConnRecord
<1>5. CASE CheckLocked(h) = "nil" /\ h.done
  <2>1. Unlock(t, h, FALSE, AfterHandshake(op[t]))
    BY <1>5 DEF ClaimRead
  <2> QED
    BY <1>2, <1>4, <1>5, <2>1, UnlockOnly DEF Agree
<1>6. CASE CheckLocked(h) = "nil" /\ ~h.done /\ Settles(h)
  <2> DEFINE r == SettleLocked(h)
  <2>1. Unlock(t, r, SettleHook(h), "claimRead")
    BY <1>6 DEF ClaimRead
  <2>2. SettleHook(h) = TRUE
    BY <1>6 DEF SettleHook, EndHook, Settles
  <2>3. /\ r \in ConnRecord /\ Spared(r, h) /\ r.wake /\ r.done /\ Fresh(r)
        /\ r.err = h.abortErr
    BY <1>1, <1>6, SettleSets
  <2> HIDE DEF r
  <2>4. /\ Typed /\ Rest(t) /\ Agree(h', r) /\ Woke(t)
        /\ pc'[t] = "hook" /\ nxt'[t] = "claimRead"
    BY <1>2, <2>1, <2>2, <2>3, UnlockHook
  <2>5. h.phase = "sent" /\ ~h.busy /\ h.abortErr # "nil"
    BY <1>6 DEF Settles
  <2> QED
    BY <1>6, <2>3, <2>4, <2>5 DEF Agree, Spared, Fresh
<1>7. CASE CheckLocked(h) = "nil" /\ ~h.done /\ ~Settles(h) /\ h.abortErr = "nil" /\ ~h.busy
  <2> DEFINE s == [h EXCEPT !.busy = TRUE]
             r == SetReplyDeadline(s)
  <2>1. Unlock(t, r, FALSE, "reading")
    BY <1>7 DEF ClaimRead
  <2>2. /\ s \in ConnRecord /\ s.busy
        /\ s.cfg = h.cfg /\ s.phase = h.phase /\ s.done = h.done /\ s.closed = h.closed
        /\ s.abortErr = h.abortErr /\ s.err = h.err
        /\ s.readReady = h.readReady /\ s.writeReady = h.writeReady /\ s.open = h.open
    BY <1>1 DEF ConnRecord
  <2> HIDE DEF s
  <2>3. /\ r \in ConnRecord
        /\ r.cfg = s.cfg /\ r.phase = s.phase /\ r.closed = s.closed /\ r.busy = s.busy
        /\ r.done = s.done /\ r.err = s.err /\ r.abortErr = s.abortErr
        /\ r.readReady = s.readReady /\ r.writeReady = s.writeReady /\ r.open = s.open
    BY <2>2, SetReplyDeadlineSets
  <2> HIDE DEF r
  <2>4. /\ Typed /\ Rest(t) /\ Agree(h', r)
        /\ pc'[t] = "reading" /\ nxt'[t] = nxt[t]
    BY <1>2, <2>1, <2>3, UnlockSets DEF Rest, Typed
  <2> QED
    BY <1>4, <1>7, <2>2, <2>3, <2>4 DEF Agree
<1>8. CASE CheckLocked(h) = "nil" /\ ~h.done /\ ~Settles(h) /\ ~(h.abortErr = "nil" /\ ~h.busy)
  <2>1. Unlock(t, h, FALSE, "sleepRead")
    BY <1>8 DEF ClaimRead
  <2>2. h.busy \/ (h.abortErr # "nil" /\ h.phase # "sent")
    BY <1>8 DEF Settles
  <2> QED
    BY <1>2, <1>4, <1>8, <2>1, <2>2, UnlockOnly DEF Agree
<1> QED
  BY <1>3, <1>5, <1>6, <1>7, <1>8

\* Where a call goes on after its section ended the handshake, or found it over.
Returns(t) ==
    \E p \in {"idle", AfterHandshake(op[t])} :
        /\ (pc'[t] = p /\ nxt'[t] = nxt[t]) \/ (pc'[t] = "hook" /\ nxt'[t] = p)
        /\ p = "idle" \/ (h'.err = "nil" /\ h'.done)

\* awaitReplies after its I/O: the handshake is over, and not without error unless
\* the replies were successful.
LEMMA ReadEndDoes ==
    ASSUME TypeOK, NEW t \in Threads, ReadEnd(t), ~h.done => h.err = "nil"
    PROVE  /\ Typed /\ Rest(t) /\ Returns(t)
           /\ h'.cfg = h.cfg /\ h'.phase = h.phase /\ h'.closed = h.closed /\ h'.open = h.open
           /\ ~h'.busy /\ ~h'.replyDL /\ h'.done
           /\ h.done => /\ h'.err = h.err /\ h'.wdl = h.wdl
                        /\ h'.readReady = h.readReady /\ h'.writeReady = h.writeReady
           /\ ~h.done => Fresh(h') /\ Woke(t) /\ (h'.err = "nil" => he[t] = "nil")
           /\ HasDeadlines /\ ~h.done /\ h'.err # "nil" /\ h.phase = "sending" => h'.wdl = "past"
           /\ pc'[t] = "hook" <=> ~h.done /\ h.phase = "sent"
<1> DEFINE s0 == EndIOLocked(h, t)
           s1 == ClearReplyDeadline(s0)
           e  == Blame(he[t], s1.abortErr)
           s2 == EndLocked(s1, e)
           p  == IF CheckLocked(s2) = "nil" THEN AfterHandshake(op[t]) ELSE "idle"
<1>1. h \in ConnRecord /\ he[t] \in Errors /\ op[t] \in OpKinds
  BY DEF TypeOK
<1>2. Unlock(t, s2, EndHook(s1), p)
  BY DEF ReadEnd
<1>3. /\ s0 \in ConnRecord /\ ~s0.busy
      /\ s0.cfg = h.cfg /\ s0.phase = h.phase /\ s0.closed = h.closed
      /\ s0.replyDL = h.replyDL /\ s0.done = h.done /\ s0.err = h.err
      /\ s0.readReady = h.readReady /\ s0.writeReady = h.writeReady /\ s0.open = h.open
      /\ s0.rdl = h.rdl /\ s0.wdl = h.wdl /\ s0.wake = h.wake
  BY <1>1, EndIOSets
<1> HIDE DEF s0
<1>4. /\ s1 \in ConnRecord /\ ~s1.replyDL
      /\ s1.cfg = s0.cfg /\ s1.phase = s0.phase /\ s1.closed = s0.closed /\ s1.busy = s0.busy
      /\ s1.done = s0.done /\ s1.err = s0.err /\ s1.abortErr = s0.abortErr
      /\ s1.readReady = s0.readReady /\ s1.writeReady = s0.writeReady /\ s1.open = s0.open
      /\ s1.wdl = s0.wdl /\ s1.wake = s0.wake
  BY <1>3, ClearReplyDeadlineSets
<1> HIDE DEF s1
<1>5. s1.abortErr \in Errors /\ s1.done \in BOOLEAN
  BY <1>4 DEF ConnRecord
<1>6. e \in Errors /\ (e = "nil" => he[t] = "nil")
  BY <1>1, <1>5, BlameIsError
<1> HIDE DEF e
<1>7. /\ s2 \in ConnRecord /\ Spared(s2, s1) /\ s2.done
      /\ s1.done => s2 = s1
      /\ ~s1.done => s2.wake /\ Fresh(s2) /\ s2.err = IF e = "nil" THEN s1.err ELSE e
      /\ HasDeadlines /\ ~s1.done /\ e # "nil" /\ s1.phase = "sending" => s2.wdl = "past"
  BY <1>4, <1>6, EndSets
<1> HIDE DEF s2
<1>8. p \in {"idle", AfterHandshake(op[t])} /\ (p = "idle" \/ s2.err = "nil") /\ p \in PCs /\ p # "hook"
  BY <1>1, <1>7, EntryKinds DEF CheckLocked, PCs, ConnRecord, Errors
<1> HIDE DEF p
<1>9. /\ Typed /\ Rest(t) /\ Agree(h', s2) /\ (s2.wake => Woke(t))
      /\ EndHook(s1) => pc'[t] = "hook" /\ nxt'[t] = p
      /\ ~EndHook(s1) => pc'[t] = p /\ nxt'[t] = nxt[t]
  BY <1>2, <1>7, <1>8, UnlockHook
<1>10. EndHook(s1) <=> ~h.done /\ h.phase = "sent"
  BY <1>3, <1>4 DEF EndHook
<1>11. h'.err = s2.err /\ h'.done = s2.done
  BY <1>9 DEF Agree
<1>12. Returns(t)
  <2>1. p = "idle" \/ (h'.err = "nil" /\ h'.done)
    BY <1>7, <1>8, <1>11
  <2>2. (pc'[t] = p /\ nxt'[t] = nxt[t]) \/ (pc'[t] = "hook" /\ nxt'[t] = p)
    BY <1>9
  <2> QED
    BY <1>8, <2>1, <2>2 DEF Returns
<1>13. pc'[t] = "hook" <=> ~h.done /\ h.phase = "sent"
  BY <1>8, <1>9, <1>10
<1>14. /\ h'.cfg = h.cfg /\ h'.phase = h.phase /\ h'.closed = h.closed /\ h'.open = h.open
       /\ ~h'.busy /\ ~h'.replyDL /\ h'.done
  BY <1>3, <1>4, <1>7, <1>9 DEF Agree, Spared
<1>15. ASSUME h.done
       PROVE  /\ h'.err = h.err /\ h'.wdl = h.wdl
              /\ h'.readReady = h.readReady /\ h'.writeReady = h.writeReady
  BY <1>3, <1>4, <1>7, <1>9, <1>15 DEF Agree
<1>16. ASSUME ~h.done
       PROVE  /\ Fresh(h') /\ Woke(t) /\ (h'.err = "nil" => he[t] = "nil")
              /\ HasDeadlines /\ h'.err # "nil" /\ h.phase = "sending" => h'.wdl = "past"
  BY <1>3, <1>4, <1>6, <1>7, <1>9, <1>16 DEF Agree, Fresh
<1> QED
  BY <1>9, <1>12, <1>13, <1>14, <1>15, <1>16

\* claimRunLocked: the handshake is over, or runs; its abort ends it; or this call
\* runs it.
LEMMA RunDoes ==
    ASSUME TypeOK, NEW t \in Threads, Run(t)
    PROVE  /\ Typed /\ Rest(t) /\ nxt'[t] = nxt[t]
           /\ h'.cfg = h.cfg /\ h'.closed = h.closed /\ h'.abortErr = h.abortErr
           /\ h'.replyDL = h.replyDL /\ h'.open = h.open
           /\ \/ /\ Agree(h', h)
                 /\ \/ pc'[t] = "idle"
                    \/ h.done /\ h.err = "nil" /\ pc'[t] = AfterHandshake(op[t])
                    \/ pc'[t] = "sleepRun" /\ h.phase # "idle" /\ ~h.done /\ ~h.closed
              \/ /\ h.phase = "idle" /\ ~h.done /\ h'.phase = h.phase /\ h'.busy = h.busy
                 /\ Woke(t) /\ h'.done /\ Fresh(h') /\ h'.err # "nil" /\ pc'[t] = "idle"
              \/ /\ h.phase = "idle" /\ h'.phase = "sending" /\ h'.busy /\ pc'[t] = "sending"
                 /\ ~h.done /\ h.err = "nil" /\ ~h.closed /\ h'.done = h.done /\ h'.err = h.err
                 /\ h'.readReady = h.readReady /\ h'.writeReady = h.writeReady
<1>1. h \in ConnRecord /\ op[t] \in OpKinds
  BY DEF TypeOK
<1>2. /\ {"idle", "sleepRun", "sending"} \subseteq PCs /\ AfterHandshake(op[t]) \in PCs
      /\ h.done \in BOOLEAN /\ h.busy \in BOOLEAN /\ h.closed \in BOOLEAN
  BY <1>1, EntryKinds DEF PCs, Asleep, ConnRecord
<1>3. CASE CheckLocked(h) # "nil"
  <2>1. Unlock(t, h, FALSE, "idle")
    BY <1>3 DEF Run
  <2> QED
    BY <1>2, <2>1, UnlockOnly DEF Agree
<1>4. ASSUME CheckLocked(h) = "nil"
      PROVE  h.err = "nil" /\ ~h.closed
  BY <1>1, <1>4 DEF CheckLocked, ConnRecord
<1>5. CASE CheckLocked(h) = "nil" /\ h.done
  <2>1. Unlock(t, h, FALSE, AfterHandshake(op[t]))
    BY <1>5 DEF Run
  <2> QED
    BY <1>2, <1>4, <1>5, <2>1, UnlockOnly DEF Agree
<1>6. CASE CheckLocked(h) = "nil" /\ ~h.done /\ RunTaken(h)
  <2>1. Unlock(t, h, FALSE, "sleepRun")
    BY <1>6 DEF Run
  <2> QED
    BY <1>2, <1>4, <1>6, <2>1, UnlockOnly DEF Agree, RunTaken
<1>7. CASE CheckLocked(h) = "nil" /\ ~h.done /\ ~RunTaken(h) /\ h.abortErr # "nil"
  <2> DEFINE r == EndLocked(h, h.abortErr)
  <2>1. Unlock(t, r, FALSE, "idle")
    BY <1>7 DEF Run
  <2>2. h.abortErr \in Errors
    BY <1>1 DEF ConnRecord
  <2>3. /\ r \in ConnRecord /\ Spared(r, h) /\ r.wake /\ r.done /\ Fresh(r)
        /\ r.err = h.abortErr
    BY <1>1, <1>7, <2>2, EndSets
  <2> HIDE DEF r
  <2>4. /\ Typed /\ Rest(t) /\ Agree(h', r) /\ Woke(t)
        /\ pc'[t] = "idle" /\ nxt'[t] = nxt[t]
    BY <1>2, <2>1, <2>3, UnlockHook
  <2> QED
    BY <1>7, <2>3, <2>4 DEF Agree, Spared, Fresh, RunTaken
<1>8. CASE CheckLocked(h) = "nil" /\ ~h.done /\ ~RunTaken(h) /\ h.abortErr = "nil"
  <2> DEFINE s == [h EXCEPT !.phase = "sending", !.busy = TRUE]
  <2>1. Unlock(t, s, FALSE, "sending")
    BY <1>8 DEF Run
  <2>2. /\ s \in ConnRecord /\ s.busy /\ s.phase = "sending"
        /\ s.cfg = h.cfg /\ s.done = h.done /\ s.closed = h.closed /\ s.replyDL = h.replyDL
        /\ s.abortErr = h.abortErr /\ s.err = h.err
        /\ s.readReady = h.readReady /\ s.writeReady = h.writeReady /\ s.open = h.open
    BY <1>1 DEF ConnRecord
  <2> HIDE DEF s
  <2>3. /\ Typed /\ Rest(t) /\ Agree(h', s)
        /\ pc'[t] = "sending" /\ nxt'[t] = nxt[t]
    BY <1>2, <2>1, <2>2, UnlockHook
  <2> QED
    BY <1>4, <1>8, <2>2, <2>3 DEF Agree, RunTaken
<1> QED
  BY <1>3, <1>5, <1>6, <1>7, <1>8

\* run after its I/O, on a handshake that nobody else ends.
LEMMA RunEndDoes ==
    ASSUME TypeOK, NEW t \in Threads, RunEnd(t), ~h.done, h.err = "nil"
    PROVE  /\ Typed /\ Rest(t) /\ Returns(t) /\ pc'[t] = "hook"
           /\ h'.cfg = h.cfg /\ h'.phase = "sent" /\ h'.closed = h.closed /\ h'.open = h.open
           /\ h'.replyDL = h.replyDL /\ ~h'.busy /\ h'.done
           /\ Fresh(h') /\ Woke(t) /\ (h'.err = "nil" => he[t] = "nil")
<1> DEFINE s0 == EndIOLocked(h, t)
           s1 == [s0 EXCEPT !.phase = "sent"]
           e  == Blame(he[t], s1.abortErr)
           s2 == EndLocked(s1, e)
           p  == IF CheckLocked(s2) = "nil" THEN AfterHandshake(op[t]) ELSE "idle"
<1>1. h \in ConnRecord /\ he[t] \in Errors /\ op[t] \in OpKinds
  BY DEF TypeOK
<1>2. Unlock(t, s2, EndHook(s1), p)
  BY DEF RunEnd
<1>3. /\ s0 \in ConnRecord /\ ~s0.busy
      /\ s0.cfg = h.cfg /\ s0.phase = h.phase /\ s0.closed = h.closed
      /\ s0.replyDL = h.replyDL /\ s0.done = h.done /\ s0.err = h.err /\ s0.open = h.open
  BY <1>1, EndIOSets
<1> HIDE DEF s0
<1>4. /\ s1 \in ConnRecord /\ s1.phase = "sent"
      /\ s1.cfg = s0.cfg /\ s1.closed = s0.closed /\ s1.busy = s0.busy
      /\ s1.done = s0.done /\ s1.err = s0.err /\ s1.replyDL = s0.replyDL /\ s1.open = s0.open
      /\ s1.abortErr \in Errors
  BY <1>3 DEF ConnRecord
<1> HIDE DEF s1
<1>6. e \in Errors /\ (e = "nil" => he[t] = "nil")
  BY <1>1, <1>4, BlameIsError
<1> HIDE DEF e
<1>7. /\ s2 \in ConnRecord /\ Spared(s2, s1) /\ s2.done /\ s2.wake /\ Fresh(s2) /\ s2.err = e
  BY <1>3, <1>4, <1>6, EndSets
<1> HIDE DEF s2
<1>8. p \in {"idle", AfterHandshake(op[t])} /\ (p = "idle" \/ s2.err = "nil") /\ p \in PCs
  BY <1>1, <1>7, EntryKinds DEF CheckLocked, PCs, ConnRecord, Errors
<1> HIDE DEF p
<1>9. EndHook(s1)
  BY <1>3, <1>4 DEF EndHook
<1>10. /\ Typed /\ Rest(t) /\ Agree(h', s2) /\ Woke(t)
       /\ pc'[t] = "hook" /\ nxt'[t] = p
  BY <1>2, <1>7, <1>8, <1>9, UnlockHook
<1>11. h'.err = s2.err /\ h'.done = s2.done
  BY <1>10 DEF Agree
<1>12. Returns(t)
  BY <1>7, <1>8, <1>10, <1>11 DEF Returns
<1> QED
  BY <1>3, <1>4, <1>6, <1>7, <1>10, <1>11, <1>12 DEF Agree, Spared, Fresh

\* Close: it was closed, or it aborts the handshake and closes.
LEMMA CloseDoes ==
    ASSUME TypeOK, NEW t \in Threads, Close(t)
    PROVE  /\ Typed /\ Rest(t)
           /\ h'.cfg = h.cfg /\ h'.phase = h.phase /\ h'.busy = h.busy /\ h'.open = h.open
           /\ h'.replyDL = h.replyDL
           /\ \/ Agree(h', h) /\ pc'[t] = "idle" /\ nxt'[t] = nxt[t]
              \/ /\ h'.closed /\ Fresh(h') /\ Woke(t)
                 /\ h.done => h'.done /\ h'.err = h.err
                 /\ \/ /\ ~h.done /\ h'.done /\ h'.err # "nil" /\ h.phase = "sent" /\ ~h.busy
                       /\ pc'[t] = "hook" /\ nxt'[t] = "ncClose"
                    \/ /\ h'.done = h.done /\ h'.err = h.err
                       /\ h'.rdl = h.rdl /\ h'.wdl = h.wdl
                       /\ pc'[t] = "ncClose" /\ nxt'[t] = nxt[t]
<1> DEFINE a == IF h.abortErr = "nil" /\ ~h.done THEN "closed" ELSE h.abortErr
           c == [h EXCEPT !.closed = TRUE, !.abortErr = a]
           s == StoreReady(c)
           r == SettleLocked(s)
<1>1. h \in ConnRecord
  BY DEF TypeOK
<1>2. "idle" \in PCs /\ "ncClose" \in PCs /\ h.done \in BOOLEAN
  BY <1>1 DEF PCs, ConnRecord
<1>3. CASE h.closed
  <2>1. Unlock(t, h, FALSE, "idle")
    BY <1>3 DEF Close
  <2> QED
    BY <1>2, <2>1, UnlockOnly DEF Agree
<1>4. CASE ~h.closed
  <2>1. [h EXCEPT !.closed = TRUE, !.abortErr = IF @ = "nil" /\ ~h.done THEN "closed" ELSE @] = c
    BY <1>1 DEF ConnRecord
  <2>2. Unlock(t, r, SettleHook(s), "ncClose")
    BY <1>4, <2>1 DEF Close
  <2>3. a \in Errors /\ (~h.done => a # "nil")
    BY <1>1 DEF ConnRecord, Errors
  <2> HIDE DEF a
  <2>4. /\ c \in ConnRecord /\ c.closed /\ c.abortErr = a
        /\ c.cfg = h.cfg /\ c.phase = h.phase /\ c.busy = h.busy /\ c.open = h.open
        /\ c.replyDL = h.replyDL /\ c.done = h.done /\ c.err = h.err
        /\ c.rdl = h.rdl /\ c.wdl = h.wdl
    BY <1>1, <2>3 DEF ConnRecord
  <2> HIDE DEF c
  <2>5. /\ s \in ConnRecord /\ Spared(s, c) /\ s.done = c.done /\ s.err = c.err
        /\ s.rdl = c.rdl /\ s.wdl = c.wdl /\ Fresh(s)
    BY <2>4, StoreReadySets
  <2> HIDE DEF s
  <2>6. /\ r \in ConnRecord /\ Spared(r, s) /\ r.wake
        /\ ~Settles(s) => Agree(r, s)
        /\ Settles(s) => r.done
        /\ Settles(s) /\ ~s.done => Fresh(r) /\ r.err = s.abortErr
        /\ s.done => Agree(r, s)
    BY <2>5, SettleSets
  <2> HIDE DEF r
  <2>7. /\ Typed /\ Rest(t) /\ Agree(h', r) /\ Woke(t)
        /\ SettleHook(s) => pc'[t] = "hook" /\ nxt'[t] = "ncClose"
        /\ ~SettleHook(s) => pc'[t] = "ncClose" /\ nxt'[t] = nxt[t]
    BY <1>2, <2>2, <2>6, UnlockHook
  <2>8. SettleHook(s) <=> Settles(s) /\ ~h.done
    BY <2>4, <2>5 DEF SettleHook, EndHook, Settles
  <2>9. /\ h'.cfg = h.cfg /\ h'.phase = h.phase /\ h'.busy = h.busy /\ h'.open = h.open
        /\ h'.replyDL = h.replyDL /\ h'.closed
    BY <2>4, <2>5, <2>6, <2>7 DEF Agree, Spared
  <2>10. ASSUME SettleHook(s)
         PROVE  /\ Fresh(h') /\ ~h.done /\ h'.done /\ h'.err # "nil"
                /\ h.phase = "sent" /\ ~h.busy
    <3>1. s.phase = "sent" /\ ~s.busy /\ s.abortErr # "nil" /\ ~h.done /\ Settles(s)
      BY <2>8, <2>10 DEF Settles
    <3> QED
      BY <2>4, <2>5, <2>6, <2>7, <3>1 DEF Agree, Spared, Fresh
  <2>11. ASSUME ~SettleHook(s)
         PROVE  /\ Fresh(h') /\ h'.done = h.done /\ h'.err = h.err
                /\ h'.rdl = h.rdl /\ h'.wdl = h.wdl
    <3>1. Agree(r, s)
      BY <1>2, <2>4, <2>5, <2>6, <2>8, <2>11
    <3> QED
      BY <2>4, <2>5, <2>7, <3>1 DEF Agree, Spared, Fresh
  <2> QED
    BY <2>7, <2>9, <2>10, <2>11
<1> QED
  BY <1>3, <1>4

\* SetReadDeadline concerns the deadlines alone, and leaves none unset unless the
\* caller asked for that.
LEMMA SetReadDeadlineDoes ==
    ASSUME TypeOK, NEW d \in h.cfg.deadlines, SetReadDeadline(d)
    PROVE  /\ h' \in ConnRecord /\ pc' \in [Threads -> PCs]
           /\ \A u \in Threads : Stays(u) /\ pc'[u] \notin Asleep
           /\ h'.cfg = h.cfg /\ h'.phase = h.phase /\ h'.closed = h.closed /\ h'.busy = h.busy
           /\ h'.done = h.done /\ h'.err = h.err /\ h'.abortErr = h.abortErr
           /\ h'.readReady = h.readReady /\ h'.writeReady = h.writeReady /\ h'.open = h.open
           /\ h'.wdl = h.wdl /\ h'.replyDL = h.replyDL
           /\ h'.rdl = h.rdl \/ h'.rdl = "some" \/ h'.rdl = d
<1> DEFINE a == [h EXCEPT !.readDL = d]
           s == Broadcast(a)
           x == DeadlineTo(s.rdl, IF h.replyDL THEN "some" ELSE d)
           r == IF KeepsUnblocked(h) THEN s
                ELSE [s EXCEPT !.rdl = DeadlineTo(@, IF h.replyDL THEN "some" ELSE d)]
<1>1. h \in ConnRecord
  BY DEF TypeOK
<1>2. h.cfg \in ConfigType
  BY <1>1, ConnAssumption DEF ConnRecord
<1>3. d \in Deadlines
  BY <1>2 DEF ConfigType, Deadlines
<1>4. UnlockOther(r)
  BY DEF SetReadDeadline
<1>5. /\ a \in ConnRecord
      /\ a.cfg = h.cfg /\ a.phase = h.phase /\ a.closed = h.closed /\ a.busy = h.busy
      /\ a.done = h.done /\ a.err = h.err /\ a.abortErr = h.abortErr
      /\ a.readReady = h.readReady /\ a.writeReady = h.writeReady /\ a.open = h.open
      /\ a.rdl = h.rdl /\ a.wdl = h.wdl /\ a.replyDL = h.replyDL
  BY <1>1, <1>3 DEF ConnRecord
<1> HIDE DEF a
<1>6. s \in ConnRecord /\ Agree(s, a) /\ s.wake
  BY <1>5, BroadcastSets
<1> HIDE DEF s
<1>7. x \in Deadlines /\ x \in {h.rdl, "some", d}
  BY <1>1, <1>3, <1>5, <1>6 DEF DeadlineTo, Deadlines, ConnRecord, Agree
<1>8. r = s \/ r = [s EXCEPT !.rdl = x]
  BY <1>6 DEF ConnRecord
<1> HIDE DEF x, r
<1>9. /\ r \in ConnRecord /\ r.wake
      /\ r.cfg = s.cfg /\ r.phase = s.phase /\ r.closed = s.closed /\ r.busy = s.busy
      /\ r.done = s.done /\ r.err = s.err /\ r.abortErr = s.abortErr
      /\ r.readReady = s.readReady /\ r.writeReady = s.writeReady /\ r.open = s.open
      /\ r.wdl = s.wdl /\ r.replyDL = s.replyDL /\ r.rdl \in {s.rdl, x}
  BY <1>6, <1>7, <1>8 DEF ConnRecord
<1>10. /\ h' \in ConnRecord /\ Agree(h', r)
       /\ pc' \in [Threads -> PCs]
       /\ \A u \in Threads : Stays(u)
       /\ \A u \in Threads : pc'[u] \notin Asleep
  BY <1>4, <1>9, UnlockOtherSets
<1> QED
  BY <1>5, <1>6, <1>7, <1>9, <1>10 DEF Agree

-----------------------------------------------------------------------------
(* Types.                                                                  *)

\* A write that failed finds no established handshake: there are no replies to one
\* that was not sent.
LEMMA FailedUnestablished ==
    ASSUME TypeOK, Exchanged, NEW t \in Threads, SendFailed(t)
    PROVE  ~(h.done /\ h.err = "nil")
BY DEF SendFailed, Exchanged, Knows

\* A call that runs the whole handshake ends it itself.
LEMMA RanAlone ==
    ASSUME TypeOK, InMode, Alone, Stored, NEW t \in Threads, pc[t] = "ran"
    PROVE  ~Early /\ h.phase = "sending" /\ ~h.done /\ h.err = "nil" /\ ~h.replyDL
<1>1. ~Early
  BY DEF InMode, ModeOf, At, WholePCs
<1>2. h.phase = "sending"
  BY <1>1 DEF Alone, OneWriter, Writers
<1> QED
  BY <1>1, <1>2 DEF Stored

\* SetWriteDeadline.
LEMMA SetWriteDeadlineDoes ==
    ASSUME TypeOK, NEW d \in h.cfg.deadlines, SetWriteDeadline(d)
    PROVE  /\ h' \in ConnRecord
           /\ h'.cfg = h.cfg /\ h'.phase = h.phase /\ h'.closed = h.closed /\ h'.busy = h.busy
           /\ h'.done = h.done /\ h'.err = h.err /\ h'.abortErr = h.abortErr
           /\ h'.readReady = h.readReady /\ h'.writeReady = h.writeReady /\ h'.open = h.open
           /\ h'.rdl = h.rdl /\ h'.replyDL = h.replyDL
           /\ h'.wdl = h.wdl \/ h'.wdl = d
<1> DEFINE x == DeadlineTo(h.wdl, d)
<1>1. h \in ConnRecord
  BY DEF TypeOK
<1>2. h.cfg \in ConfigType
  BY <1>1, ConnAssumption DEF ConnRecord
<1>3. d \in Deadlines
  BY <1>2 DEF ConfigType, Deadlines
<1>4. x \in Deadlines /\ x \in {h.wdl, d}
  BY <1>1, <1>3 DEF DeadlineTo, ConnRecord
<1>5. h' = [h EXCEPT !.wdl = x]
  BY <1>1 DEF SetWriteDeadline, ConnRecord
<1> HIDE DEF x
<1> QED
  BY <1>1, <1>4, <1>5 DEF ConnRecord

\* The conn's Close.
LEMMA CloseConnDoes ==
    ASSUME TypeOK, NEW t \in Threads, CloseConn(t)
    PROVE  /\ h' \in ConnRecord /\ ~h'.open
           /\ h'.cfg = h.cfg /\ h'.phase = h.phase /\ h'.closed = h.closed /\ h'.busy = h.busy
           /\ h'.done = h.done /\ h'.err = h.err /\ h'.abortErr = h.abortErr
           /\ h'.readReady = h.readReady /\ h'.writeReady = h.writeReady
           /\ h'.rdl = h.rdl /\ h'.wdl = h.wdl /\ h'.replyDL = h.replyDL
BY DEF CloseConn, TypeOK, ConnRecord

\* A call goes on, with h as it was.
Walks(t, p) ==
    /\ h' = h /\ pc'[t] = p /\ nxt' = nxt
    /\ \A u \in Threads : u # t => pc'[u] = pc[u]

\* So does a step that only goes on.
LEMMA GoWalks ==
    ASSUME TypeOK, NEW t \in Threads, NEW p \in PCs, Go(t, p), h' = h, nxt' = nxt
    PROVE  Typed /\ Walks(t, p)
BY DEF TypeOK, Go, Typed, Walks

\* The steps of a call that leave h alone, and where they lead.
LEMMA WalksDo ==
    ASSUME TypeOK, NEW t \in Threads
    PROVE  /\ Begin(t) => \E o \in OpKinds, p \in PCs :
                Typed /\ Walks(t, p) /\ pc[t] = "idle" /\ op'[t] = o
                /\ \/ p = AfterHandshake(o) /\ FastPath(o)
                   \/ p \in {"abort", Entry(o)}
           /\ Check(t) => \E p \in {"idle", "halfClose", "claim", "run"} :
                Typed /\ Walks(t, p) /\ pc[t] = "check"
                /\ (p = "claim" => Early) /\ (p = "run" => ~Early) /\ (p = "halfClose" => h.readReady)
           /\ Peek(t) => \E p \in {"idle", "copy", "waitWritten"} :
                Typed /\ Walks(t, p) /\ pc[t] = "peek"
           /\ Copy(t) => \E p \in {"sending", "source"} :
                Typed /\ Walks(t, p) /\ pc[t] = (IF p = "sending" THEN "earlyBuf" ELSE "copy")
           /\ Source(t) => \E p \in {"claim", "idle"} :
                Typed /\ Walks(t, p) /\ pc[t] = "source"
           /\ SendIO(t) => Typed /\ Walks(t, "wrote") /\ pc[t] = "sending"
           /\ WroteHook(t) =>
                /\ Typed /\ pc[t] = "wrote"
                /\ Walks(t, IF Early THEN "sentLock" ELSE IF he[t] = "nil" THEN "reading" ELSE "ran")
           /\ WaitWritten(t) => \E p \in {"sleepWritten", "idle", "dataWrite"} :
                Typed /\ Walks(t, p) /\ pc[t] = "waitWritten"
                /\ (p = "sleepWritten" => Unwritten(h))
                /\ (p = "dataWrite" => ~Unwritten(h) /\ CheckLocked(h) = "nil")
           /\ WaitClaimed(t) => \E p \in {"sleepClaim", "idle"} :
                Typed /\ Walks(t, p) /\ pc[t] = "await" /\ Unclaimed(h)
           /\ DeadlineWake(t) => Typed /\ Walks(t, "await") /\ pc[t] = "sleepClaim"
           /\ ReadIO(t) => \E p \in {"gotReply", IF Early THEN "readDone" ELSE "ran"} :
                Typed /\ Walks(t, p) /\ pc[t] = "reading"
           /\ ReplyHook(t) =>
                Typed /\ Walks(t, IF Early THEN "readDone" ELSE "ran") /\ pc[t] = "gotReply"
           /\ DoneHook(t) => Typed /\ Walks(t, nxt[t]) /\ pc[t] = "hook"
           /\ DataIO(t) =>
                Typed /\ Walks(t, "idle") /\ pc[t] \in {"dataRead", "dataWrite", "halfClose"}
<1> USE DEF callvars
<1>0. /\ {"idle", "halfClose", "claim", "run", "copy", "waitWritten", "sending", "source", "wrote",
          "sentLock", "reading", "ran", "sleepWritten", "dataWrite", "sleepClaim", "await",
          "gotReply", "readDone", "abort"} \subseteq PCs
      /\ h \in ConnRecord
  BY DEF PCs, Asleep, TypeOK
<1>1. ASSUME Begin(t)
      PROVE  \E o \in OpKinds, p \in PCs :
                Typed /\ Walks(t, p) /\ pc[t] = "idle" /\ op'[t] = o
                /\ \/ p = AfterHandshake(o) /\ FastPath(o)
                   \/ p \in {"abort", Entry(o)}
  <2>1. h.cfg.ops[t] \subseteq OpKinds
    <3>1. h.cfg \in ConfigType
      BY <1>0, ConnAssumption DEF ConnRecord
    <3> QED
      BY <3>1 DEF ConfigType
  <2>2. PICK o \in h.cfg.ops[t], cancelled \in BOOLEAN :
          /\ pc[t] = "idle"
          /\ op' = [op EXCEPT ![t] = o]
          /\ Go(t, IF FastPath(o) THEN AfterHandshake(o)
                   ELSE IF cancelled THEN "abort" ELSE Entry(o))
          /\ h' = h /\ nxt' = nxt
    BY <1>1 DEF Begin
  <2> DEFINE p == IF FastPath(o) THEN AfterHandshake(o)
                  ELSE IF cancelled THEN "abort" ELSE Entry(o)
  <2>3. o \in OpKinds
    BY <2>1, <2>2
  <2>4. AfterHandshake(o) \in PCs /\ Entry(o) \in PCs
    BY <2>3, EntryKinds DEF PCs
  <2>5. /\ p \in PCs
        /\ (p = AfterHandshake(o) /\ FastPath(o)) \/ p \in {"abort", Entry(o)}
    BY <1>0, <2>4
  <2>6. Go(t, p) /\ op'[t] = o
    BY <2>2 DEF TypeOK
  <2> HIDE DEF p
  <2>7. Typed /\ Walks(t, p)
    BY <2>2, <2>5, <2>6, GoWalks
  <2> QED
    BY <2>2, <2>3, <2>5, <2>6, <2>7
<1>2. ASSUME Check(t)
      PROVE  \E p \in {"idle", "halfClose", "claim", "run"} :
                Typed /\ Walks(t, p) /\ pc[t] = "check"
                /\ (p = "claim" => Early) /\ (p = "run" => ~Early) /\ (p = "halfClose" => h.readReady)
  <2> DEFINE p == IF CheckLocked(h) # "nil" THEN "idle"
                  ELSE IF h.readReady THEN "halfClose"
                  ELSE IF Early THEN "claim" ELSE "run"
  <2>1. /\ p \in {"idle", "halfClose", "claim", "run"}
        /\ (p = "claim" => Early) /\ (p = "run" => ~Early) /\ (p = "halfClose" => h.readReady)
    OBVIOUS
  <2>2. Go(t, p) /\ h' = h /\ nxt' = nxt /\ pc[t] = "check"
    BY <1>2 DEF Check
  <2> HIDE DEF p
  <2>3. p \in PCs
    BY <1>0, <2>1
  <2>4. Typed /\ Walks(t, p)
    BY <2>2, <2>3, GoWalks
  <2> QED
    BY <2>1, <2>2, <2>4
<1>3. ASSUME Peek(t)
      PROVE  \E p \in {"idle", "copy", "waitWritten"} :
                Typed /\ Walks(t, p) /\ pc[t] = "peek"
  BY <1>0, <1>3, GoWalks DEF Peek
<1>4. ASSUME Copy(t)
      PROVE  \E p \in {"sending", "source"} :
                Typed /\ Walks(t, p) /\ pc[t] = (IF p = "sending" THEN "earlyBuf" ELSE "copy")
  BY <1>0, <1>4, GoWalks DEF Copy
<1>5. ASSUME Source(t)
      PROVE  \E p \in {"claim", "idle"} : Typed /\ Walks(t, p) /\ pc[t] = "source"
  BY <1>0, <1>5, GoWalks DEF Source
<1>6. ASSUME SendIO(t)
      PROVE  Typed /\ Walks(t, "wrote") /\ pc[t] = "sending"
  <2>1. Go(t, "wrote") /\ h' = h /\ nxt' = nxt /\ pc[t] = "sending"
    BY <1>6 DEF SendIO
  <2> QED
    BY <1>0, <2>1, GoWalks
<1>7. ASSUME WroteHook(t)
      PROVE  /\ Typed /\ pc[t] = "wrote"
             /\ Walks(t, IF Early THEN "sentLock" ELSE IF he[t] = "nil" THEN "reading" ELSE "ran")
  BY <1>0, <1>7, GoWalks DEF WroteHook
<1>8. ASSUME WaitWritten(t)
      PROVE  \E p \in {"sleepWritten", "idle", "dataWrite"} :
                Typed /\ Walks(t, p) /\ pc[t] = "waitWritten"
                /\ (p = "sleepWritten" => Unwritten(h))
                /\ (p = "dataWrite" => ~Unwritten(h) /\ CheckLocked(h) = "nil")
  <2> DEFINE p == IF Unwritten(h) THEN "sleepWritten"
                  ELSE IF CheckLocked(h) # "nil" THEN "idle" ELSE "dataWrite"
  <2>1. /\ p \in {"sleepWritten", "idle", "dataWrite"}
        /\ (p = "sleepWritten" => Unwritten(h))
        /\ (p = "dataWrite" => ~Unwritten(h) /\ CheckLocked(h) = "nil")
    OBVIOUS
  <2>2. Go(t, p) /\ h' = h /\ nxt' = nxt /\ pc[t] = "waitWritten"
    BY <1>8 DEF WaitWritten
  <2> HIDE DEF p
  <2>3. p \in PCs
    BY <1>0, <2>1
  <2>4. Typed /\ Walks(t, p)
    BY <2>2, <2>3, GoWalks
  <2> QED
    BY <2>1, <2>2, <2>4
<1>9. ASSUME WaitClaimed(t)
      PROVE  \E p \in {"sleepClaim", "idle"} :
                Typed /\ Walks(t, p) /\ pc[t] = "await" /\ Unclaimed(h)
  BY <1>0, <1>9, GoWalks DEF WaitClaimed
<1>10. ASSUME DeadlineWake(t)
       PROVE  Typed /\ Walks(t, "await") /\ pc[t] = "sleepClaim"
  BY <1>0, <1>10, GoWalks DEF DeadlineWake
<1>11. ASSUME ReadIO(t)
       PROVE  \E p \in {"gotReply", IF Early THEN "readDone" ELSE "ran"} :
                Typed /\ Walks(t, p) /\ pc[t] = "reading"
  <2>1. PICK p \in {"gotReply", IF Early THEN "readDone" ELSE "ran"} : Go(t, p)
    BY <1>11 DEF ReadIO
  <2>2. h' = h /\ nxt' = nxt /\ pc[t] = "reading"
    BY <1>11 DEF ReadIO
  <2>3. p \in PCs
    BY <1>0, <2>1
  <2> QED
    BY <2>1, <2>2, <2>3, GoWalks
<1>12. ASSUME ReplyHook(t)
       PROVE  Typed /\ Walks(t, IF Early THEN "readDone" ELSE "ran") /\ pc[t] = "gotReply"
  BY <1>0, <1>12, GoWalks DEF ReplyHook
<1>13. ASSUME DoneHook(t)
       PROVE  Typed /\ Walks(t, nxt[t]) /\ pc[t] = "hook"
  <2>1. nxt[t] \in PCs
    BY DEF TypeOK
  <2> QED
    BY <2>1, <1>13, GoWalks DEF DoneHook
<1>14. ASSUME DataIO(t)
       PROVE  Typed /\ Walks(t, "idle") /\ pc[t] \in {"dataRead", "dataWrite", "halfClose"}
  BY <1>0, <1>14, GoWalks DEF DataIO
<1> QED
  BY <1>1, <1>2, <1>3, <1>4, <1>5, <1>6, <1>7, <1>8, <1>9, <1>10, <1>11, <1>12, <1>13, <1>14

\* The rest of the state.
CallTypes ==
    /\ op \in [Threads -> OpKinds]
    /\ he \in [Threads -> Errors]
    /\ intact \in [Threads -> BOOLEAN]
    /\ ctxDone \in SUBSET Threads
    /\ aborter \in [Threads -> {"none", "pending", "hook"}]
    /\ hsOut \in {"none", "part", "all"}
    /\ wiped \in BOOLEAN
    /\ blanked \in BOOLEAN
    /\ replies \in BOOLEAN
    /\ hooks \in SUBSET {"WroteHandshake", "GotReply", "HandshakeDone"}
    /\ doneRuns \in Nat

\* Every step keeps the types of the rest.
LEMMA CallTypesStep ==
    ASSUME TypeOK, [Next]_vars
    PROVE  CallTypes'
<1> USE DEF callvars, iovars, hookvars
<1>0. CallTypes /\ h \in ConnRecord
  BY DEF TypeOK, CallTypes
<1>1. CASE UNCHANGED vars
  BY <1>0, <1>1 DEF CallTypes, vars
<1>2. ASSUME NEW t \in Threads, Begin(t)
      PROVE  CallTypes'
  <2>1. h.cfg.ops[t] \subseteq OpKinds
    <3>1. h.cfg \in ConfigType
      BY <1>0, ConnAssumption DEF ConnRecord
    <3> QED
      BY <3>1 DEF ConfigType
  <2>2. PICK o \in h.cfg.ops[t], cancelled \in BOOLEAN :
          /\ op' = [op EXCEPT ![t] = o]
          /\ ctxDone' = IF cancelled THEN ctxDone \cup {t} ELSE ctxDone \ {t}
    BY <1>2 DEF Begin
  <2>3. UNCHANGED <<he, intact, aborter, iovars, hookvars>>
    BY <1>2 DEF Begin
  <2> QED
    BY <1>0, <2>1, <2>2, <2>3 DEF CallTypes
<1>3. ASSUME NEW t \in Threads, Claim(t)
      PROVE  CallTypes'
  <2>1. wiped' \in BOOLEAN
    BY <1>0, <1>3 DEF Claim, CallTypes
  <2>2. UNCHANGED <<op, he, intact, ctxDone, aborter, hsOut, blanked, replies, hookvars>>
    BY <1>3 DEF Claim
  <2> QED
    BY <1>0, <2>1, <2>2 DEF CallTypes
<1>4. ASSUME NEW t \in Threads, Copy(t)
      PROVE  CallTypes'
  BY <1>0, <1>4 DEF CallTypes, Copy
<1>5. ASSUME NEW t \in Threads, SendIO(t)
      PROVE  CallTypes'
  <2>1. hsOut' \in {"none", "part", "all"} /\ he' \in [Threads -> Errors]
    BY <1>0, <1>5 DEF CallTypes, SendIO, Errors
  <2>2. wiped' \in BOOLEAN /\ blanked' \in BOOLEAN
    BY <1>0, <1>5 DEF CallTypes, SendIO
  <2>3. UNCHANGED <<op, intact, ctxDone, aborter, replies, hookvars>>
    BY <1>5 DEF SendIO
  <2> QED
    BY <1>0, <2>1, <2>2, <2>3 DEF CallTypes
<1>6. ASSUME NEW t \in Threads, ReadIO(t)
      PROVE  CallTypes'
  <2>1. replies' \in BOOLEAN /\ he' \in [Threads -> Errors]
    BY <1>0, <1>6 DEF CallTypes, ReadIO, Errors
  <2>2. UNCHANGED <<op, intact, ctxDone, aborter, hsOut, wiped, blanked, hookvars>>
    BY <1>6 DEF ReadIO
  <2> QED
    BY <1>0, <2>1, <2>2 DEF CallTypes
<1>7. ASSUME NEW t \in Threads, WroteHook(t) \/ ReplyHook(t) \/ DoneHook(t)
      PROVE  CallTypes'
  <2>1. UNCHANGED <<callvars, iovars>>
    BY <1>7 DEF WroteHook, ReplyHook, DoneHook
  <2>2. /\ hooks' \in SUBSET {"WroteHandshake", "GotReply", "HandshakeDone"}
        /\ doneRuns' \in Nat
    <3>1. hooks' \in {hooks, hooks \cup {"WroteHandshake"}, hooks \cup {"GotReply"},
                       hooks \cup {"HandshakeDone"}}
      BY <1>7 DEF WroteHook, ReplyHook, DoneHook
    <3>2. doneRuns' \in {doneRuns, doneRuns + 1}
      BY <1>7 DEF WroteHook, ReplyHook, DoneHook
    <3>3. hooks \in SUBSET {"WroteHandshake", "GotReply", "HandshakeDone"} /\ doneRuns \in Nat
      BY <1>0 DEF CallTypes
    <3> QED
      BY <3>1, <3>2, <3>3
  <2> QED
    BY <1>0, <2>1, <2>2 DEF CallTypes
<1>8. ASSUME NEW t \in Threads, Cancel(t) \/ AbortLater(t) \/ AbortLaterHook(t)
      PROVE  CallTypes'
  <2>1. UNCHANGED <<op, he, intact, iovars>>
    BY <1>8 DEF Cancel, AbortLater, AbortLaterHook
  <2>2. ctxDone' \in SUBSET Threads
    BY <1>0, <1>8 DEF CallTypes, Cancel, AbortLater, AbortLaterHook
  <2>3. aborter' \in [Threads -> {"none", "pending", "hook"}]
    BY <1>0, <1>8 DEF CallTypes, Cancel, AbortLater, AbortLaterHook
  <2>4. /\ hooks' \in SUBSET {"WroteHandshake", "GotReply", "HandshakeDone"}
        /\ doneRuns' \in Nat
    <3>1. hooks' \in {hooks, hooks \cup {"WroteHandshake"}, hooks \cup {"GotReply"},
                       hooks \cup {"HandshakeDone"}}
      BY <1>8 DEF Cancel, AbortLater, AbortLaterHook
    <3>2. doneRuns' \in {doneRuns, doneRuns + 1}
      BY <1>8 DEF Cancel, AbortLater, AbortLaterHook
    <3>3. hooks \in SUBSET {"WroteHandshake", "GotReply", "HandshakeDone"} /\ doneRuns \in Nat
      BY <1>0 DEF CallTypes
    <3> QED
      BY <3>1, <3>2, <3>3
  <2> QED
    BY <1>0, <2>1, <2>2, <2>3, <2>4 DEF CallTypes
<1>9. ASSUME NEW t \in Threads,
             \/ AbortNow(t) \/ SendFailed(t) \/ SendDone(t) \/ ClaimRead(t) \/ ReadEnd(t)
             \/ Run(t) \/ RunEnd(t) \/ Close(t)
      PROVE  CallTypes'
  <2>1. UNCHANGED <<op, he, intact, ctxDone, aborter, iovars, hookvars>>
    BY <1>9 DEF AbortNow, SendFailed, SendDone, ClaimRead, ReadEnd, Run, RunEnd, Close
  <2> QED
    BY <1>0, <2>1 DEF CallTypes
<1>10. ASSUME NEW t \in Threads,
             \/ Check(t) \/ Peek(t) \/ WaitWritten(t) \/ WaitClaimed(t) \/ DeadlineWake(t)
             \/ CloseConn(t) \/ Source(t) \/ DataIO(t)
      PROVE  CallTypes'
  <2>1. UNCHANGED <<callvars, iovars, hookvars>>
    BY <1>10 DEF Check, Peek, WaitWritten, WaitClaimed, DeadlineWake, CloseConn, Source, DataIO
  <2> QED
    BY <1>0, <2>1 DEF CallTypes
<1>11. ASSUME \/ HandshakeExpired
              \/ \E d \in h.cfg.deadlines : SetReadDeadline(d) \/ SetWriteDeadline(d)
       PROVE  CallTypes'
  <2>1. UNCHANGED <<callvars, iovars, hookvars>>
    BY <1>11 DEF HandshakeExpired, SetReadDeadline, SetWriteDeadline
  <2> QED
    BY <1>0, <2>1 DEF CallTypes
<1> QED
  BY <1>1, <1>2, <1>3, <1>4, <1>5, <1>6, <1>7, <1>8, <1>9, <1>10, <1>11
  DEF Next, Section, Aborting

\* Every step keeps the configuration, the types of h and of the calls, and has a
\* reply deadline only while a call reads.
LEMMA TypedStep ==
    ASSUME IndInv, [Next]_vars
    PROVE  Typed /\ h'.cfg = h.cfg /\ (h'.replyDL => h'.busy)
<1> USE DEF callvars, iovars, hookvars
<1>0. /\ TypeOK /\ InMode /\ Alone /\ Stored /\ Exchanged
      /\ h \in ConnRecord /\ (h.replyDL => h.busy)
      /\ pc \in [Threads -> PCs] /\ nxt \in [Threads -> PCs]
  BY DEF IndInv, TypeOK
<1>1. CASE UNCHANGED vars
  BY <1>0, <1>1 DEF Typed, vars
<1>2. ASSUME NEW t \in Threads,
             \/ Begin(t) \/ Check(t) \/ Peek(t) \/ Copy(t) \/ Source(t) \/ SendIO(t)
             \/ WroteHook(t) \/ WaitWritten(t) \/ WaitClaimed(t) \/ DeadlineWake(t)
             \/ ReadIO(t) \/ ReplyHook(t) \/ DoneHook(t) \/ DataIO(t)
      PROVE  Typed /\ h'.cfg = h.cfg /\ (h'.replyDL => h'.busy)
  <2>1. Typed /\ \E p \in PCs \cup {nxt[t]} \cup {pc'[t]} : Walks(t, p)
    BY <1>0, <1>2, WalksDo DEF Walks
  <2>2. h' = h
    BY <2>1 DEF Walks
  <2> QED
    BY <1>0, <2>1, <2>2
<1>3. ASSUME NEW t \in Threads, AbortNow(t)
      PROVE  Typed /\ h'.cfg = h.cfg /\ (h'.replyDL => h'.busy)
  BY <1>0, <1>3, AbortNowDoes DEF Aborted
<1>4. ASSUME NEW t \in Threads, Claim(t)
      PROVE  Typed /\ h'.cfg = h.cfg /\ (h'.replyDL => h'.busy)
  BY <1>0, <1>4, ClaimDoes
<1>5. ASSUME NEW t \in Threads, SendFailed(t)
      PROVE  Typed /\ h'.cfg = h.cfg /\ (h'.replyDL => h'.busy)
  BY <1>0, <1>5, SendFailedDoes, FailedUnestablished
<1>6. ASSUME NEW t \in Threads, SendDone(t)
      PROVE  Typed /\ h'.cfg = h.cfg /\ (h'.replyDL => h'.busy)
  BY <1>0, <1>6, SendDoneDoes
<1>7. ASSUME NEW t \in Threads, ClaimRead(t)
      PROVE  Typed /\ h'.cfg = h.cfg /\ (h'.replyDL => h'.busy)
  BY <1>0, <1>7, ClaimReadDoes DEF Agree
<1>8. ASSUME NEW t \in Threads, ReadEnd(t)
      PROVE  Typed /\ h'.cfg = h.cfg /\ (h'.replyDL => h'.busy)
  <2>1. ~h.done => h.err = "nil"
    BY <1>0 DEF Stored
  <2> QED
    BY <1>0, <1>8, <2>1, ReadEndDoes
<1>9. ASSUME NEW t \in Threads, Run(t)
      PROVE  Typed /\ h'.cfg = h.cfg /\ (h'.replyDL => h'.busy)
  BY <1>0, <1>9, RunDoes DEF Agree
<1>10. ASSUME NEW t \in Threads, RunEnd(t)
       PROVE  Typed /\ h'.cfg = h.cfg /\ (h'.replyDL => h'.busy)
  <2>1. pc[t] = "ran"
    BY <1>10 DEF RunEnd
  <2>2. ~h.done /\ h.err = "nil" /\ ~h.replyDL
    BY <1>0, <2>1, RanAlone
  <2> QED
    BY <1>0, <1>10, <2>2, RunEndDoes
<1>11. ASSUME NEW t \in Threads, Close(t)
       PROVE  Typed /\ h'.cfg = h.cfg /\ (h'.replyDL => h'.busy)
  BY <1>0, <1>11, CloseDoes
<1>12. ASSUME NEW t \in Threads, CloseConn(t)
       PROVE  Typed /\ h'.cfg = h.cfg /\ (h'.replyDL => h'.busy)
  <2>1. Go(t, "idle") /\ nxt' = nxt
    BY <1>12 DEF CloseConn
  <2>2. pc' \in [Threads -> PCs]
    BY <1>0, <2>1 DEF Go, PCs
  <2> QED
    BY <1>0, <1>12, <2>1, <2>2, CloseConnDoes DEF Typed
<1>13. ASSUME NEW t \in Threads, AbortLater(t)
       PROVE  Typed /\ h'.cfg = h.cfg /\ (h'.replyDL => h'.busy)
  <2>1. UnlockOther(AbortLocked(h)) /\ nxt' = nxt
    BY <1>13 DEF AbortLater
  <2> QED
    BY <1>0, <2>1, AbortOtherDoes DEF Aborted, Typed
<1>14. ASSUME HandshakeExpired
       PROVE  Typed /\ h'.cfg = h.cfg /\ (h'.replyDL => h'.busy)
  <2>1. UnlockOther(AbortLocked(h)) /\ nxt' = nxt
    BY <1>14 DEF HandshakeExpired
  <2> QED
    BY <1>0, <2>1, AbortOtherDoes DEF Aborted, Typed
<1>15. ASSUME NEW t \in Threads, Cancel(t) \/ AbortLaterHook(t)
       PROVE  Typed /\ h'.cfg = h.cfg /\ (h'.replyDL => h'.busy)
  BY <1>0, <1>15 DEF Cancel, AbortLaterHook, Typed
<1>16. ASSUME NEW d \in h.cfg.deadlines, SetReadDeadline(d)
       PROVE  Typed /\ h'.cfg = h.cfg /\ (h'.replyDL => h'.busy)
  <2>1. nxt' = nxt
    BY <1>16 DEF SetReadDeadline
  <2> QED
    BY <1>0, <1>16, <2>1, SetReadDeadlineDoes DEF Typed
<1>17. ASSUME NEW d \in h.cfg.deadlines, SetWriteDeadline(d)
       PROVE  Typed /\ h'.cfg = h.cfg /\ (h'.replyDL => h'.busy)
  <2>1. nxt' = nxt /\ pc' = pc
    BY <1>17 DEF SetWriteDeadline
  <2> QED
    BY <1>0, <1>17, <2>1, SetWriteDeadlineDoes DEF Typed
<1> QED
  BY <1>1, <1>2, <1>3, <1>4, <1>5, <1>6, <1>7, <1>8, <1>9, <1>10, <1>11, <1>12, <1>13, <1>14,
     <1>15, <1>16, <1>17
  DEF Next, Section, Aborting

\* TypeOK is inductive.
LEMMA TypeStep ==
    ASSUME IndInv, [Next]_vars
    PROVE  TypeOK'
BY CallTypesStep, TypedStep DEF IndInv, TypeOK, CallTypes, Typed

-----------------------------------------------------------------------------
(* The two modes.                                                          *)

\* What a call that walks leaves alone.
LEMMA WalksRest ==
    ASSUME NEW t \in Threads, NEW p, Walks(t, p)
    PROVE  Rest(t)
BY DEF Walks, Rest, Stays

\* A call that stays keeps to its own code.
LEMMA ModeStays ==
    ASSUME NEW u \in Threads, ModeOf(u), Stays(u), nxt'[u] = nxt[u], h'.cfg = h.cfg
    PROVE  ModeOf(u)'
<1>1. Early' = Early
  BY DEF Early
<1>2. CASE pc'[u] = pc[u]
  BY <1>1, <1>2 DEF ModeOf, At
<1>3. CASE pc[u] \in Asleep /\ pc'[u] = Awake(pc[u])
  <2>1. pc[u] # "hook" /\ pc'[u] # "hook" /\ At(u) = pc[u] /\ At(u)' = pc'[u]
    BY <1>3, AwakeKinds DEF Asleep, Woken, At
  <2>2. CASE pc[u] = "sleepRun"
    BY <1>1, <1>3, <2>1, <2>2, AwakeKinds DEF ModeOf, EarlyPCs, WholePCs
  <2>3. CASE pc[u] # "sleepRun"
    <3>1. pc'[u] \in {"await", "claimRead", "waitWritten"} /\ pc[u] \in EarlyPCs
      BY <1>3, <2>3, AwakeKinds DEF Asleep, EarlyPCs
    <3> QED
      BY <1>1, <2>1, <3>1 DEF ModeOf, WholePCs
  <2> QED
    BY <2>2, <2>3
<1> QED
  BY <1>2, <1>3 DEF Stays

\* So do the others when t goes on ...
LEMMA ModeOthers ==
    ASSUME InMode, NEW t \in Threads, Rest(t), h'.cfg = h.cfg, ModeOf(t)'
    PROVE  InMode'
BY ModeStays DEF InMode, Rest

\* ... and everyone when no caller does.
LEMMA ModeAll ==
    ASSUME InMode, \A u \in Threads : Stays(u), nxt' = nxt, h'.cfg = h.cfg
    PROVE  InMode'
BY ModeStays DEF InMode

\* A place of the code of the mode.
InCode(p) == (p \in EarlyPCs => Early) /\ (p \in WholePCs => ~Early)

\* A call that is, or will be, at a place of its mode.
LEMMA ModeHere ==
    ASSUME NEW t \in Threads, NEW p, InCode(p), h'.cfg = h.cfg,
           \/ pc'[t] = p /\ p # "hook"
           \/ pc'[t] = "hook" /\ nxt'[t] = p /\ p \in HookPCs
    PROVE  ModeOf(t)'
<1>1. Early' = Early
  BY DEF Early
<1>2. At(t)' = p
  BY DEF At
<1> QED
  BY <1>1, <1>2 DEF ModeOf, InCode

\* The places that belong to no mode.
LEMMA Everywhere ==
    \A p \in {"idle", "abort", "check", "close", "ncClose", "sending", "wrote", "reading",
              "gotReply", "hook", "dataRead", "dataWrite", "halfClose"} : InCode(p)
BY DEF InCode, EarlyPCs, WholePCs

\* InMode is inductive.
LEMMA ModeStep ==
    ASSUME IndInv, [Next]_vars
    PROVE  InMode'
<1> USE DEF callvars, iovars, hookvars
<1>0. TypeOK /\ InMode /\ Alone /\ Stored /\ Exchanged /\ h'.cfg = h.cfg
  BY TypedStep DEF IndInv
<1>1. CASE UNCHANGED vars
  BY <1>0, <1>1, ModeAll DEF vars, Stays
<1>2. ASSUME NEW t \in Threads, NEW p, InCode(p), Rest(t),
             \/ pc'[t] = p /\ p # "hook"
             \/ pc'[t] = "hook" /\ nxt'[t] = p /\ p \in HookPCs
      PROVE  InMode'
  BY <1>0, <1>2, ModeHere, ModeOthers
<1>3. ASSUME NEW t \in Threads, NEW p, InCode(p), Walks(t, p), p # "hook"
      PROVE  InMode'
  BY <1>2, <1>3, WalksRest DEF Walks
<1>4. \A t \in Threads : /\ pc[t] \in EarlyPCs => Early
                         /\ pc[t] \in WholePCs => ~Early
                         /\ op[t] \in OpKinds
                         /\ pc[t] = "hook" => nxt[t] \in HookPCs /\ InCode(nxt[t])
  <2> SUFFICES ASSUME NEW t \in Threads
               PROVE  /\ pc[t] \in EarlyPCs => Early
                      /\ pc[t] \in WholePCs => ~Early
                      /\ op[t] \in OpKinds
                      /\ pc[t] = "hook" => nxt[t] \in HookPCs /\ InCode(nxt[t])
    OBVIOUS
  <2>1. op[t] \in OpKinds /\ ModeOf(t)
    BY <1>0 DEF TypeOK, InMode
  <2>2. "hook" \notin EarlyPCs \cup WholePCs
    BY DEF EarlyPCs, WholePCs
  <2> QED
    BY <2>1, <2>2 DEF ModeOf, At, InCode
<1>5. \A o \in OpKinds : /\ InCode(Entry(o)) /\ InCode(AfterHandshake(o))
                         /\ Entry(o) \in HookPCs /\ AfterHandshake(o) \in HookPCs
                         /\ Entry(o) # "hook" /\ AfterHandshake(o) # "hook"
  BY EntryKinds DEF InCode, EarlyPCs, WholePCs, HookPCs
<1>6. ASSUME NEW t \in Threads,
             \/ Begin(t) \/ Check(t) \/ Peek(t) \/ Copy(t) \/ Source(t) \/ SendIO(t)
             \/ WroteHook(t) \/ WaitWritten(t) \/ WaitClaimed(t) \/ DeadlineWake(t)
             \/ ReadIO(t) \/ ReplyHook(t) \/ DoneHook(t) \/ DataIO(t)
      PROVE  \E p : InCode(p) /\ Walks(t, p) /\ p # "hook"
  <2>0. /\ pc[t] \in EarlyPCs => Early
        /\ pc[t] \in WholePCs => ~Early
        /\ pc[t] = "hook" => nxt[t] \in HookPCs /\ InCode(nxt[t])
        /\ "hook" \notin HookPCs
    BY <1>4 DEF HookPCs
  <2>1. CASE Begin(t)
    BY <1>0, <1>5, <2>1, WalksDo, Everywhere
  <2>2. CASE Check(t) \/ Peek(t) \/ Copy(t) \/ Source(t) \/ SendIO(t) \/ DataIO(t)
    <3>1. PICK p : /\ Walks(t, p)
                   /\ \/ p \in {"idle", "halfClose", "wrote", "sending"}
                      \/ p = "claim" /\ Early
                      \/ p = "run" /\ ~Early
                      \/ p \in {"copy", "waitWritten"} /\ pc[t] = "peek"
                      \/ p = "source" /\ pc[t] = "copy"
                      \/ p = "claim" /\ pc[t] = "source"
      BY <1>0, <2>2, WalksDo
    <3> QED
      BY <2>0, <3>1 DEF InCode, EarlyPCs, WholePCs
  <2>3. CASE WroteHook(t) \/ ReadIO(t) \/ ReplyHook(t)
    <3>1. PICK p : /\ Walks(t, p)
                   /\ \/ p \in {"reading", "gotReply"}
                      \/ p \in {"sentLock", "readDone"} /\ Early
                      \/ p = "ran" /\ ~Early
      BY <1>0, <2>3, WalksDo
    <3> QED
      BY <3>1 DEF InCode, EarlyPCs, WholePCs
  <2>4. CASE WaitWritten(t) \/ WaitClaimed(t) \/ DeadlineWake(t)
    <3>1. PICK p : /\ Walks(t, p)
                   /\ pc[t] \in {"waitWritten", "await", "sleepClaim"}
                   /\ p \in {"sleepWritten", "idle", "dataWrite", "sleepClaim", "await"}
      BY <1>0, <2>4, WalksDo
    <3> QED
      BY <2>0, <3>1 DEF InCode, EarlyPCs, WholePCs
  <2>5. CASE DoneHook(t)
    <3>1. Walks(t, nxt[t]) /\ pc[t] = "hook"
      BY <1>0, <2>5, WalksDo
    <3> QED
      BY <2>0, <3>1
  <2> QED
    BY <1>6, <2>1, <2>2, <2>3, <2>4, <2>5
<1>7. ASSUME NEW t \in Threads, AbortNow(t)
      PROVE  InMode'
  <2>1. /\ Rest(t)
        /\ pc'[t] = IF AbortHook(h) THEN "hook" ELSE Entry(op[t])
        /\ nxt'[t] = IF AbortHook(h) THEN Entry(op[t]) ELSE nxt[t]
    BY <1>0, <1>7, AbortNowDoes
  <2> QED
    BY <1>2, <1>4, <1>5, <2>1
<1>8. ASSUME NEW t \in Threads, Claim(t)
      PROVE  InMode'
  <2>1. Rest(t) /\ pc'[t] \in {"idle", "earlyBuf", "sending", "waitWritten", "await"} /\ pc[t] = "claim"
    BY <1>0, <1>8, ClaimDoes DEF Claim
  <2>2. Early
    BY <1>4, <2>1 DEF EarlyPCs
  <2>3. InCode(pc'[t]) /\ pc'[t] # "hook"
    BY <2>1, <2>2 DEF InCode, WholePCs
  <2> QED
    BY <1>2, <2>1, <2>3
<1>9. ASSUME NEW t \in Threads, SendFailed(t)
      PROVE  InMode'
  <2>1. Rest(t) /\ pc'[t] = "hook" /\ nxt'[t] = "idle"
    BY <1>0, <1>9, SendFailedDoes, FailedUnestablished
  <2> QED
    BY <1>2, <2>1, Everywhere DEF HookPCs
<1>10. ASSUME NEW t \in Threads, SendDone(t)
       PROVE  InMode'
  <2>1. Rest(t) /\ pc[t] = "sentLock"
    BY <1>0, <1>10, SendDoneDoes DEF SendDone
  <2>2. PICK p \in {"idle", "dataWrite", "await"} :
          \/ pc'[t] = p
          \/ pc'[t] = "hook" /\ nxt'[t] = p
    BY <1>0, <1>10, SendDoneDoes
  <2>3. Early
    BY <1>4, <2>1 DEF EarlyPCs
  <2>4. InCode(p) /\ p # "hook" /\ p \in HookPCs
    BY <2>2, <2>3 DEF InCode, WholePCs, HookPCs
  <2> QED
    BY <1>2, <2>1, <2>2, <2>4
<1>11. ASSUME NEW t \in Threads, ClaimRead(t)
       PROVE  InMode'
  <2>1. /\ Rest(t) /\ pc[t] \in {"claimRead", "await"}
        /\ \/ pc'[t] \in {"idle", AfterHandshake(op[t]), "sleepRead", "reading"}
           \/ pc'[t] = "hook" /\ nxt'[t] = "claimRead"
    BY <1>0, <1>11, ClaimReadDoes DEF ClaimRead
  <2>2. Early
    BY <1>4, <2>1 DEF EarlyPCs
  <2>3. /\ \A p \in {"idle", AfterHandshake(op[t]), "sleepRead", "reading"} : InCode(p) /\ p # "hook"
        /\ InCode("claimRead") /\ "claimRead" \in HookPCs
    BY <1>4, <1>5, <2>2 DEF InCode, WholePCs, HookPCs
  <2> QED
    BY <1>2, <2>1, <2>3
<1>12. ASSUME NEW t \in Threads, NEW p \in {"idle", AfterHandshake(op[t])}, Rest(t),
              pc'[t] = p \/ (pc'[t] = "hook" /\ nxt'[t] = p)
       PROVE  InMode'
  <2>1. InCode(p) /\ p # "hook" /\ p \in HookPCs
    BY <1>4, <1>5, Everywhere DEF HookPCs
  <2> QED
    BY <1>2, <1>12, <2>1
<1>13. ASSUME NEW t \in Threads, ReadEnd(t)
       PROVE  InMode'
  <2>1. ~h.done => h.err = "nil"
    BY <1>0 DEF Stored
  <2>2. Rest(t) /\ Returns(t)
    BY <1>0, <1>13, <2>1, ReadEndDoes
  <2> QED
    BY <1>12, <2>2 DEF Returns
<1>14. ASSUME NEW t \in Threads, Run(t)
       PROVE  InMode'
  <2>1. /\ Rest(t) /\ pc[t] = "run"
        /\ pc'[t] \in {"idle", AfterHandshake(op[t]), "sleepRun", "sending"}
    BY <1>0, <1>14, RunDoes DEF Run
  <2>2. ~Early
    BY <1>4, <2>1 DEF WholePCs
  <2>3. \A p \in {"idle", AfterHandshake(op[t]), "sleepRun", "sending"} : InCode(p) /\ p # "hook"
    BY <1>4, <1>5, <2>2 DEF InCode, EarlyPCs
  <2> QED
    BY <1>2, <2>1, <2>3
<1>15. ASSUME NEW t \in Threads, RunEnd(t)
       PROVE  InMode'
  <2>1. pc[t] = "ran"
    BY <1>15 DEF RunEnd
  <2>2. ~h.done /\ h.err = "nil"
    BY <1>0, <2>1, RanAlone
  <2>3. Rest(t) /\ Returns(t)
    BY <1>0, <1>15, <2>2, RunEndDoes
  <2> QED
    BY <1>12, <2>3 DEF Returns
<1>16. ASSUME NEW t \in Threads, Close(t)
       PROVE  InMode'
  <2>1. /\ Rest(t)
        /\ pc'[t] \in {"idle", "ncClose"} \/ (pc'[t] = "hook" /\ nxt'[t] = "ncClose")
    BY <1>0, <1>16, CloseDoes
  <2> QED
    BY <1>2, <2>1, Everywhere DEF HookPCs
<1>17. ASSUME NEW t \in Threads, CloseConn(t)
       PROVE  InMode'
  <2>1. Rest(t) /\ pc'[t] = "idle"
    BY <1>0, <1>17 DEF CloseConn, Go, Rest, Stays, TypeOK
  <2> QED
    BY <1>2, <2>1, Everywhere
<1>18. ASSUME UnlockOther(AbortLocked(h)), nxt' = nxt
       PROVE  InMode'
  BY <1>0, <1>18, AbortOtherDoes, ModeAll
<1>19. ASSUME NEW t \in Threads, Cancel(t) \/ AbortLaterHook(t)
       PROVE  InMode'
  BY <1>0, <1>19, ModeAll DEF Cancel, AbortLaterHook, Stays
<1>20. ASSUME NEW d \in h.cfg.deadlines, SetReadDeadline(d)
       PROVE  InMode'
  <2>1. nxt' = nxt
    BY <1>20 DEF SetReadDeadline
  <2> QED
    BY <1>0, <1>20, <2>1, SetReadDeadlineDoes, ModeAll
<1>21. ASSUME NEW d \in h.cfg.deadlines, SetWriteDeadline(d)
       PROVE  InMode'
  BY <1>0, <1>21, ModeAll DEF SetWriteDeadline, Stays
<1>22. ASSUME NEW t \in Threads, AbortLater(t)
       PROVE  InMode'
  BY <1>18, <1>22 DEF AbortLater
<1>23. ASSUME HandshakeExpired
       PROVE  InMode'
  BY <1>18, <1>23 DEF HandshakeExpired
<1> QED
  BY <1>1, <1>3, <1>6, <1>7, <1>8, <1>9, <1>10, <1>11, <1>13, <1>14, <1>15, <1>16, <1>17,
     <1>19, <1>20, <1>21, <1>22, <1>23
  DEF Next, Section, Aborting

-----------------------------------------------------------------------------
(* One writer, one reader.                                                 *)

\* Who sleeps or is woken works on nothing.
LEMMA StaysOut ==
    ASSUME NEW u \in Threads, Stays(u), h'.cfg = h.cfg
    PROVE  /\ Writers' = Writers /\ Readers' = Readers
           /\ pc'[u] \in Writers <=> pc[u] \in Writers
           /\ pc'[u] \in Readers <=> pc[u] \in Readers
<1>1. Writers' = Writers /\ Readers' = Readers
  BY DEF Writers, Readers, Early
<1>2. pc'[u] # pc[u] => pc[u] \in Asleep /\ pc'[u] \in Woken
  BY AwakeKinds DEF Stays
<1>3. \A p \in Asleep \cup Woken : p \notin Writers /\ p \notin Readers
  BY DEF Writers, Readers, Asleep, Woken, SendPCs
<1> QED
  BY <1>1, <1>2, <1>3

\* A step of t keeps one writer: nothing changes, t begins, or t ends.
LEMMA WriterKept ==
    ASSUME OneWriter, NEW t \in Threads, Rest(t), h'.cfg = h.cfg,
           \/ /\ pc'[t] \in Writers <=> pc[t] \in Writers
              /\ h'.phase = "sending" <=> h.phase = "sending"
           \/ h.phase # "sending" /\ h'.phase = "sending" /\ pc'[t] \in Writers
           \/ pc[t] \in Writers /\ pc'[t] \notin Writers /\ h'.phase # "sending"
    PROVE  OneWriter'
<1>1. \A u \in Threads : u # t => (pc'[u] \in Writers <=> pc[u] \in Writers)
  BY StaysOut DEF Rest
<1>2. Writers' = Writers
  BY DEF Writers, Early
<1> QED
  BY <1>1, <1>2 DEF OneWriter

\* The same of the reader.
LEMMA ReaderKept ==
    ASSUME OneReader, NEW t \in Threads, Rest(t), h'.cfg = h.cfg,
           \/ /\ pc'[t] \in Readers <=> pc[t] \in Readers
              /\ h'.busy <=> h.busy
           \/ ~h.busy /\ h'.busy /\ pc'[t] \in Readers
           \/ pc[t] \in Readers /\ pc'[t] \notin Readers /\ ~h'.busy
    PROVE  OneReader'
<1>1. \A u \in Threads : u # t => (pc'[u] \in Readers <=> pc[u] \in Readers)
  BY StaysOut DEF Rest
<1>2. Readers' = Readers
  BY DEF Readers, Early
<1> QED
  BY <1>1, <1>2 DEF OneReader

\* A step of no caller.
LEMMA AloneKept ==
    ASSUME Alone, \A u \in Threads : Stays(u), h'.cfg = h.cfg, h'.phase = h.phase, h'.busy = h.busy
    PROVE  Alone'
<1>1. \A u \in Threads : /\ pc'[u] \in Writers <=> pc[u] \in Writers
                         /\ pc'[u] \in Readers <=> pc[u] \in Readers
  BY StaysOut
<1>2. Writers' = Writers /\ Readers' = Readers
  BY DEF Writers, Readers, Early
<1> QED
  BY <1>1, <1>2 DEF Alone, OneWriter, OneReader

\* The places of a call that works on nothing.
Free ==
    {"idle", "abort", "check", "close", "ncClose", "claim", "peek", "copy", "source", "waitWritten",
     "await", "claimRead", "run", "hook", "dataRead", "dataWrite", "halfClose"} \cup Asleep

\* They are neither a writer's nor a reader's.
LEMMA FreeWorksNot ==
    \A p \in Free : p \notin Writers /\ p \notin Readers
BY DEF Free, Writers, Readers, SendPCs, Asleep

\* Alone is inductive.
LEMMA AloneStep ==
    ASSUME IndInv, [Next]_vars
    PROVE  Alone'
<1> USE DEF callvars, iovars, hookvars
<1>0. TypeOK /\ InMode /\ Alone /\ Stored /\ Exchanged /\ h'.cfg = h.cfg /\ OneWriter /\ OneReader
  BY TypedStep DEF IndInv, Alone
<1>1. CASE UNCHANGED vars
  BY <1>0, <1>1, AloneKept DEF vars, Stays
<1>2. ASSUME NEW t \in Threads, Rest(t),
             pc'[t] \in Writers <=> pc[t] \in Writers,
             h'.phase = "sending" <=> h.phase = "sending",
             pc'[t] \in Readers <=> pc[t] \in Readers,
             h'.busy <=> h.busy
      PROVE  Alone'
  BY <1>0, <1>2, WriterKept, ReaderKept DEF Alone
<1>3. ASSUME NEW t \in Threads, Rest(t), pc[t] \in Free, pc'[t] \in Free,
             h'.phase = h.phase, h'.busy = h.busy
      PROVE  Alone'
  BY <1>2, <1>3, FreeWorksNot
<1>4. \A t \in Threads : /\ pc[t] \in EarlyPCs => Early
                         /\ pc[t] \in WholePCs => ~Early
                         /\ AfterHandshake(op[t]) \in Free /\ Entry(op[t]) \in Free
                         /\ pc[t] = "hook" => nxt[t] \in Free
  <2> SUFFICES ASSUME NEW t \in Threads
               PROVE  /\ pc[t] \in EarlyPCs => Early
                      /\ pc[t] \in WholePCs => ~Early
                      /\ AfterHandshake(op[t]) \in Free /\ Entry(op[t]) \in Free
                      /\ pc[t] = "hook" => nxt[t] \in Free
    OBVIOUS
  <2>1. op[t] \in OpKinds /\ ModeOf(t)
    BY <1>0 DEF TypeOK, InMode
  <2>2. "hook" \notin EarlyPCs \cup WholePCs /\ HookPCs \subseteq Free
    BY DEF EarlyPCs, WholePCs, HookPCs, Free
  <2> QED
    BY <2>1, <2>2, EntryKinds DEF ModeOf, At, Free
<1>5. ASSUME NEW t \in Threads,
             \/ Begin(t) \/ Check(t) \/ Peek(t) \/ Source(t) \/ WaitWritten(t) \/ WaitClaimed(t)
             \/ DeadlineWake(t) \/ DoneHook(t) \/ DataIO(t)
      PROVE  Alone'
  <2>1. CASE Begin(t)
    <3>1. PICK o \in OpKinds, p \in PCs :
            Walks(t, p) /\ pc[t] = "idle" /\ p \in {AfterHandshake(o), "abort", Entry(o)}
      BY <1>0, <2>1, WalksDo
    <3>2. p \in Free /\ "idle" \in Free
      BY <3>1, EntryKinds DEF Free
    <3> QED
      BY <1>3, <3>1, <3>2, WalksRest DEF Walks
  <2>2. CASE DoneHook(t)
    <3>1. Walks(t, nxt[t]) /\ pc[t] = "hook" /\ nxt[t] \in Free /\ "hook" \in Free
      BY <1>0, <1>4, <2>2, WalksDo DEF Free
    <3> QED
      BY <1>3, <3>1, WalksRest DEF Walks
  <2>3. CASE Check(t) \/ Peek(t) \/ Source(t) \/ WaitWritten(t) \/ WaitClaimed(t) \/ DeadlineWake(t)
             \/ DataIO(t)
    <3>1. PICK p : /\ Walks(t, p)
                   /\ p \in {"idle", "halfClose", "claim", "run", "copy", "waitWritten",
                             "sleepWritten", "dataWrite", "sleepClaim", "await"}
                   /\ pc[t] \in {"check", "peek", "source", "waitWritten", "await", "sleepClaim",
                                 "dataRead", "dataWrite", "halfClose"}
      BY <1>0, <2>3, WalksDo
    <3>2. p \in Free /\ pc[t] \in Free
      BY <3>1 DEF Free, Asleep
    <3> QED
      BY <1>3, <3>1, <3>2, WalksRest DEF Walks
  <2> QED
    BY <1>5, <2>1, <2>2, <2>3
<1>6. ASSUME NEW t \in Threads,
             Copy(t) \/ SendIO(t) \/ WroteHook(t) \/ ReadIO(t) \/ ReplyHook(t)
      PROVE  Alone'
  <2>1. PICK p : /\ Walks(t, p)
                 /\ \/ pc[t] = "copy" /\ p = "source"
                    \/ pc[t] = "earlyBuf" /\ p = "sending"
                    \/ pc[t] = "sending" /\ p = "wrote"
                    \/ pc[t] = "wrote" /\ Early /\ p = "sentLock"
                    \/ pc[t] = "wrote" /\ ~Early /\ p \in {"reading", "ran"}
                    \/ pc[t] = "reading" /\ p = "gotReply"
                    \/ pc[t] \in {"reading", "gotReply"} /\ Early /\ p = "readDone"
                    \/ pc[t] \in {"reading", "gotReply"} /\ ~Early /\ p = "ran"
    BY <1>0, <1>6, WalksDo
  <2>2. pc[t] = "earlyBuf" => Early
    BY <1>4 DEF EarlyPCs
  <2>3. (p \in Writers <=> pc[t] \in Writers) /\ (p \in Readers <=> pc[t] \in Readers)
    BY <2>1, <2>2 DEF Writers, Readers, SendPCs
  <2>4. Rest(t) /\ h' = h /\ pc'[t] = p
    BY <2>1, WalksRest DEF Walks
  <2> QED
    BY <1>2, <2>3, <2>4
<1>7. ASSUME NEW t \in Threads, AbortNow(t)
      PROVE  Alone'
  <2>1. Rest(t) /\ Aborted /\ pc[t] = "abort" /\ pc'[t] \in {"hook", Entry(op[t])}
    BY <1>0, <1>7, AbortNowDoes DEF AbortNow
  <2>2. pc[t] \in Free /\ pc'[t] \in Free
    BY <1>4, <2>1 DEF Free
  <2> QED
    BY <1>3, <2>1, <2>2 DEF Aborted
<1>8. ASSUME NEW t \in Threads, Claim(t)
      PROVE  Alone'
  <2>1. /\ Rest(t) /\ h'.busy = h.busy /\ pc[t] = "claim"
        /\ \/ h'.phase = h.phase /\ pc'[t] \in {"idle", "waitWritten", "await"}
           \/ h.phase = "idle" /\ h'.phase = "sending" /\ pc'[t] \in {"earlyBuf", "sending"}
    BY <1>0, <1>8, ClaimDoes DEF Claim
  <2>2. Early /\ pc[t] \in Free
    BY <1>4, <2>1 DEF EarlyPCs, Free
  <2>3. CASE h'.phase = h.phase /\ pc'[t] \in {"idle", "waitWritten", "await"}
    BY <1>3, <2>1, <2>2, <2>3 DEF Free
  <2>4. CASE h.phase = "idle" /\ h'.phase = "sending" /\ pc'[t] \in {"earlyBuf", "sending"}
    <3>1. pc'[t] \in Writers /\ pc'[t] \notin Readers /\ pc[t] \notin Readers
      BY <2>2, <2>4, FreeWorksNot DEF Writers, Readers, SendPCs
    <3> QED
      BY <1>0, <2>1, <2>4, <3>1, WriterKept, ReaderKept DEF Alone
  <2> QED
    BY <2>1, <2>3, <2>4
<1>9. ASSUME NEW t \in Threads, SendFailed(t) \/ SendDone(t)
      PROVE  Alone'
  <2>1. /\ Rest(t) /\ h'.busy = h.busy /\ pc[t] = "sentLock" /\ h'.phase = "sent"
        /\ pc'[t] \in {"hook", "idle", "dataWrite", "await"}
    BY <1>0, <1>9, SendFailedDoes, SendDoneDoes, FailedUnestablished DEF SendFailed, SendDone
  <2>2. Early /\ pc'[t] \in Free
    BY <1>4, <2>1 DEF EarlyPCs, Free
  <2>3. pc[t] \in Writers /\ pc'[t] \notin Writers /\ pc'[t] \notin Readers /\ pc[t] \notin Readers
    BY <2>1, <2>2, FreeWorksNot DEF Writers, Readers, SendPCs
  <2> QED
    BY <1>0, <2>1, <2>3, WriterKept, ReaderKept DEF Alone
<1>10. ASSUME NEW t \in Threads, ClaimRead(t)
       PROVE  Alone'
  <2>1. /\ Rest(t) /\ pc[t] \in {"claimRead", "await"} /\ h'.phase = h.phase
        /\ \/ /\ pc'[t] \in {"idle", AfterHandshake(op[t]), "sleepRead", "hook"}
              /\ h'.busy = h.busy
           \/ pc'[t] = "reading" /\ ~h.busy /\ h'.busy
    BY <1>0, <1>10, ClaimReadDoes DEF ClaimRead, Agree
  <2>2. Early /\ pc[t] \in Free
    BY <1>4, <2>1 DEF EarlyPCs, Free
  <2>3. CASE pc'[t] \in {"idle", AfterHandshake(op[t]), "sleepRead", "hook"} /\ h'.busy = h.busy
    <3>1. pc'[t] \in Free
      BY <1>4, <2>3 DEF Free, Asleep
    <3> QED
      BY <1>3, <2>1, <2>2, <2>3, <3>1
  <2>4. CASE pc'[t] = "reading" /\ ~h.busy /\ h'.busy
    <3>1. pc'[t] \in Readers /\ pc'[t] \notin Writers /\ pc[t] \notin Writers
      BY <2>2, <2>4, FreeWorksNot DEF Writers, Readers, SendPCs
    <3> QED
      BY <1>0, <2>1, <2>4, <3>1, WriterKept, ReaderKept DEF Alone
  <2> QED
    BY <2>1, <2>3, <2>4
<1>11. ASSUME NEW t \in Threads, ReadEnd(t)
       PROVE  Alone'
  <2>1. ~h.done => h.err = "nil"
    BY <1>0 DEF Stored
  <2>2. Rest(t) /\ Returns(t) /\ ~h'.busy /\ h'.phase = h.phase /\ pc[t] = "readDone"
    BY <1>0, <1>11, <2>1, ReadEndDoes DEF ReadEnd
  <2>3. Early /\ pc'[t] \in Free
    BY <1>4, <2>2 DEF EarlyPCs, Free, Returns
  <2>4. pc[t] \in Readers /\ pc'[t] \notin Readers /\ pc'[t] \notin Writers /\ pc[t] \notin Writers
    BY <2>2, <2>3, FreeWorksNot DEF Writers, Readers, SendPCs
  <2> QED
    BY <1>0, <2>2, <2>4, WriterKept, ReaderKept DEF Alone
<1>12. ASSUME NEW t \in Threads, Run(t)
       PROVE  Alone'
  <2>1. /\ Rest(t) /\ pc[t] = "run"
        /\ \/ /\ pc'[t] \in {"idle", AfterHandshake(op[t]), "sleepRun"}
              /\ h'.busy = h.busy /\ h'.phase = h.phase
           \/ pc'[t] = "sending" /\ h.phase = "idle" /\ h'.phase = "sending" /\ h'.busy
    BY <1>0, <1>12, RunDoes DEF Run, Agree
  <2>2. ~Early /\ pc[t] \in Free
    BY <1>4, <2>1 DEF WholePCs, Free
  <2>3. CASE pc'[t] \in {"idle", AfterHandshake(op[t]), "sleepRun"}
             /\ h'.busy = h.busy /\ h'.phase = h.phase
    <3>1. pc'[t] \in Free
      BY <1>4, <2>3 DEF Free, Asleep
    <3> QED
      BY <1>3, <2>1, <2>2, <2>3, <3>1
  <2>4. CASE pc'[t] = "sending" /\ h.phase = "idle" /\ h'.phase = "sending" /\ h'.busy
    <3>1. pc'[t] \in Readers /\ pc'[t] \in Writers
      BY <2>2, <2>4 DEF Writers, Readers, SendPCs
    <3>2. ~h.busy
      <4>1. \A u \in Threads : pc[u] \notin Writers
        BY <1>0, <2>4 DEF OneWriter
      <4>2. \A u \in Threads : pc[u] \notin Readers
        BY <2>2, <4>1 DEF Writers, Readers, SendPCs
      <4> QED
        BY <1>0, <4>2 DEF OneReader
    <3> QED
      BY <1>0, <2>1, <2>4, <3>1, <3>2, WriterKept, ReaderKept DEF Alone
  <2> QED
    BY <2>1, <2>3, <2>4
<1>13. ASSUME NEW t \in Threads, RunEnd(t)
       PROVE  Alone'
  <2>1. pc[t] = "ran"
    BY <1>13 DEF RunEnd
  <2>2. ~h.done /\ h.err = "nil" /\ ~Early
    BY <1>0, <2>1, RanAlone
  <2>3. Rest(t) /\ pc'[t] = "hook" /\ ~h'.busy /\ h'.phase = "sent"
    BY <1>0, <1>13, <2>2, RunEndDoes
  <2>4. pc[t] \in Readers /\ pc[t] \in Writers /\ pc'[t] \notin Readers /\ pc'[t] \notin Writers
    BY <2>1, <2>2, <2>3 DEF Writers, Readers, SendPCs
  <2> QED
    BY <1>0, <2>3, <2>4, WriterKept, ReaderKept DEF Alone
<1>14. ASSUME NEW t \in Threads, Close(t)
       PROVE  Alone'
  <2>1. /\ Rest(t) /\ h'.phase = h.phase /\ h'.busy = h.busy /\ pc[t] = "close"
        /\ pc'[t] \in {"idle", "ncClose", "hook"}
    BY <1>0, <1>14, CloseDoes DEF Close
  <2> QED
    BY <1>3, <2>1 DEF Free
<1>15. ASSUME NEW t \in Threads, CloseConn(t)
       PROVE  Alone'
  <2>1. Rest(t) /\ pc'[t] = "idle" /\ pc[t] = "ncClose"
    BY <1>0, <1>15 DEF CloseConn, Go, Rest, Stays, TypeOK
  <2>2. h'.phase = h.phase /\ h'.busy = h.busy
    BY <1>0, <1>15, CloseConnDoes
  <2> QED
    BY <1>3, <2>1, <2>2 DEF Free
<1>16. ASSUME UnlockOther(AbortLocked(h))
       PROVE  Alone'
  BY <1>0, <1>16, AbortOtherDoes, AloneKept DEF Aborted
<1>17. ASSUME NEW t \in Threads, Cancel(t) \/ AbortLaterHook(t)
       PROVE  Alone'
  BY <1>0, <1>17, AloneKept DEF Cancel, AbortLaterHook, Stays
<1>18. ASSUME NEW d \in h.cfg.deadlines, SetReadDeadline(d)
       PROVE  Alone'
  BY <1>0, <1>18, SetReadDeadlineDoes, AloneKept
<1>19. ASSUME NEW d \in h.cfg.deadlines, SetWriteDeadline(d)
       PROVE  Alone'
  <2>1. pc' = pc
    BY <1>19 DEF SetWriteDeadline
  <2> QED
    BY <1>0, <1>19, <2>1, SetWriteDeadlineDoes, AloneKept DEF Stays
<1>20. ASSUME NEW t \in Threads, AbortLater(t)
       PROVE  Alone'
  BY <1>16, <1>20 DEF AbortLater
<1>21. ASSUME HandshakeExpired
       PROVE  Alone'
  BY <1>16, <1>21 DEF HandshakeExpired
<1> QED
  BY <1>1, <1>5, <1>6, <1>7, <1>8, <1>9, <1>10, <1>11, <1>12, <1>13, <1>14, <1>15,
     <1>17, <1>18, <1>19, <1>20, <1>21
  DEF Next, Section, Aborting

-----------------------------------------------------------------------------
(* The fast paths.                                                         *)

\* A step that leaves alone what Stored is about.
LEMMA StoredKept ==
    ASSUME Stored, h'.cfg = h.cfg, h'.phase = h.phase, h'.done = h.done, h'.err = h.err,
           h'.closed = h.closed, h'.replyDL = h.replyDL,
           h'.readReady = h.readReady, h'.writeReady = h.writeReady
    PROVE  Stored'
BY DEF Stored, Early

\* A section that stored them.
LEMMA StoredFresh ==
    ASSUME Fresh(h'), h'.cfg = h.cfg, h'.err # "nil" => h'.done,
           ~Early => ~h'.replyDL /\ (h'.phase = "sending" => ~h'.done)
    PROVE  Stored'
BY DEF Stored, Early, Fresh

\* An abort.
LEMMA StoredAborted ==
    ASSUME TypeOK, Stored, Aborted
    PROVE  Stored'
<1>1. CASE AbortHook(h)
  BY <1>1, StoredFresh DEF Stored, Aborted
<1>2. CASE ~AbortHook(h)
  BY <1>2, StoredKept DEF Aborted
<1> QED
  BY <1>1, <1>2

\* Stored is inductive.
LEMMA StoredStep ==
    ASSUME IndInv, [Next]_vars
    PROVE  Stored'
<1> USE DEF callvars, iovars, hookvars
<1>0. TypeOK /\ InMode /\ Alone /\ Stored /\ Exchanged /\ h'.cfg = h.cfg
  BY TypedStep DEF IndInv
<1>1. CASE UNCHANGED h
  BY <1>0, <1>1, StoredKept
<1>2. \A t \in Threads : /\ pc[t] \in EarlyPCs => Early
                         /\ pc[t] \in WholePCs => ~Early
  BY <1>0 DEF InMode, ModeOf, At, EarlyPCs, WholePCs
<1>3. ASSUME NEW t \in Threads,
             \/ Begin(t) \/ Check(t) \/ Peek(t) \/ Copy(t) \/ Source(t) \/ SendIO(t)
             \/ WroteHook(t) \/ WaitWritten(t) \/ WaitClaimed(t) \/ DeadlineWake(t)
             \/ ReadIO(t) \/ ReplyHook(t) \/ DoneHook(t) \/ DataIO(t)
             \/ Cancel(t) \/ AbortLaterHook(t)
      PROVE  Stored'
  <2>1. h' = h
    BY <1>0, <1>3, WalksDo DEF Walks, Cancel, AbortLaterHook
  <2> QED
    BY <1>1, <2>1
<1>4. ASSUME NEW t \in Threads, AbortNow(t)
      PROVE  Stored'
  BY <1>0, <1>4, AbortNowDoes, StoredAborted
<1>5. ASSUME UnlockOther(AbortLocked(h))
      PROVE  Stored'
  BY <1>0, <1>5, AbortOtherDoes, StoredAborted
<1>6. ASSUME NEW t \in Threads, Claim(t)
      PROVE  Stored'
  <2>1. Early
    BY <1>2, <1>6 DEF Claim, EarlyPCs
  <2>2. /\ h'.done = h.done /\ h'.closed = h.closed /\ h'.err = h.err
        /\ h'.readReady = h.readReady /\ h'.writeReady = h.writeReady
        /\ h'.phase = h.phase \/ (h.phase = "idle" /\ h'.phase = "sending")
    BY <1>0, <1>6, ClaimDoes
  <2> QED
    BY <1>0, <2>1, <2>2 DEF Stored, Early
<1>7. ASSUME NEW t \in Threads, SendFailed(t)
      PROVE  Stored'
  <2>1. Early
    BY <1>2, <1>7 DEF SendFailed, EarlyPCs
  <2>2. /\ h'.phase = "sent" /\ h'.done /\ h'.err # "nil" /\ h'.closed = h.closed
        /\ h.done => h'.err = h.err /\ h'.readReady = h.readReady /\ h'.writeReady = h.writeReady
        /\ ~h.done => Fresh(h')
    BY <1>0, <1>7, SendFailedDoes, FailedUnestablished
  <2>3. CASE h.done
    BY <1>0, <2>1, <2>2, <2>3 DEF Stored, Early
  <2>4. CASE ~h.done
    BY <1>0, <2>1, <2>2, <2>4, StoredFresh
  <2> QED
    BY <2>3, <2>4
<1>8. ASSUME NEW t \in Threads, SendDone(t)
      PROVE  Stored'
  <2>1. Early
    BY <1>2, <1>8 DEF SendDone, EarlyPCs
  <2>2. /\ Fresh(h')
        /\ h.done => h'.done /\ h'.err = h.err
        /\ ~h.done => h'.err = IF h'.done THEN h.abortErr ELSE h.err
    BY <1>0, <1>8, SendDoneDoes
  <2>3. h'.err # "nil" => h'.done
    BY <1>0, <2>2 DEF Stored
  <2> QED
    BY <1>0, <2>1, <2>2, <2>3, StoredFresh
<1>9. ASSUME NEW t \in Threads, ClaimRead(t)
      PROVE  Stored'
  <2>1. Early
    BY <1>2, <1>9 DEF ClaimRead, EarlyPCs
  <2>2. /\ h'.phase = h.phase /\ h'.closed = h.closed
        /\ \/ h'.done /\ Fresh(h')
           \/ /\ h'.done = h.done /\ h'.err = h.err
              /\ h'.readReady = h.readReady /\ h'.writeReady = h.writeReady
    BY <1>0, <1>9, ClaimReadDoes DEF Agree
  <2>3. CASE h'.done /\ Fresh(h')
    BY <1>0, <2>1, <2>3, StoredFresh
  <2>4. CASE /\ h'.done = h.done /\ h'.err = h.err
             /\ h'.readReady = h.readReady /\ h'.writeReady = h.writeReady
    BY <1>0, <2>1, <2>2, <2>4 DEF Stored, Early
  <2> QED
    BY <2>2, <2>3, <2>4
<1>10. ASSUME NEW t \in Threads, ReadEnd(t)
       PROVE  Stored'
  <2>1. Early
    BY <1>2, <1>10 DEF ReadEnd, EarlyPCs
  <2>2. ~h.done => h.err = "nil"
    BY <1>0 DEF Stored
  <2>3. /\ h'.phase = h.phase /\ h'.closed = h.closed /\ h'.done
        /\ h.done => /\ h'.err = h.err
                     /\ h'.readReady = h.readReady /\ h'.writeReady = h.writeReady
        /\ ~h.done => Fresh(h')
    BY <1>0, <1>10, <2>2, ReadEndDoes
  <2>4. CASE h.done
    BY <1>0, <2>1, <2>3, <2>4 DEF Stored, Early
  <2>5. CASE ~h.done
    BY <1>0, <2>1, <2>3, <2>5, StoredFresh
  <2> QED
    BY <2>4, <2>5
<1>11. ASSUME NEW t \in Threads, Run(t)
       PROVE  Stored'
  <2>1. ~Early
    BY <1>2, <1>11 DEF Run, WholePCs
  <2>2. ~h.replyDL
    BY <1>0, <2>1 DEF Stored
  <2>3. /\ h'.closed = h.closed /\ h'.replyDL = h.replyDL
        /\ \/ Agree(h', h)
           \/ h.phase = "idle" /\ h'.phase = h.phase /\ h'.done /\ Fresh(h')
           \/ /\ h.phase = "idle" /\ h'.phase = "sending" /\ ~h.done
              /\ h'.done = h.done /\ h'.err = h.err
              /\ h'.readReady = h.readReady /\ h'.writeReady = h.writeReady
    BY <1>0, <1>11, RunDoes
  <2>4. CASE Agree(h', h)
    BY <1>0, <2>4, StoredKept DEF Agree
  <2>5. CASE h.phase = "idle" /\ h'.phase = h.phase /\ h'.done /\ Fresh(h')
    BY <1>0, <2>2, <2>3, <2>5, StoredFresh
  <2>6. CASE /\ h.phase = "idle" /\ h'.phase = "sending" /\ ~h.done
             /\ h'.done = h.done /\ h'.err = h.err
             /\ h'.readReady = h.readReady /\ h'.writeReady = h.writeReady
    BY <1>0, <2>2, <2>3, <2>6 DEF Stored, Early
  <2> QED
    BY <2>3, <2>4, <2>5, <2>6
<1>12. ASSUME NEW t \in Threads, RunEnd(t)
       PROVE  Stored'
  <2>1. pc[t] = "ran"
    BY <1>12 DEF RunEnd
  <2>2. ~h.done /\ h.err = "nil" /\ ~h.replyDL
    BY <1>0, <2>1, RanAlone
  <2>3. Fresh(h') /\ h'.done /\ h'.phase = "sent" /\ h'.replyDL = h.replyDL
    BY <1>0, <1>12, <2>2, RunEndDoes
  <2> QED
    BY <1>0, <2>2, <2>3, StoredFresh
<1>13. ASSUME NEW t \in Threads, Close(t)
       PROVE  Stored'
  <2>1. /\ h'.phase = h.phase /\ h'.replyDL = h.replyDL
        /\ \/ Agree(h', h)
           \/ /\ Fresh(h')
              /\ \/ h'.done /\ h.phase = "sent"
                 \/ h'.done = h.done /\ h'.err = h.err
    BY <1>0, <1>13, CloseDoes
  <2>2. CASE Agree(h', h)
    BY <1>0, <2>2, StoredKept DEF Agree
  <2>3. CASE Fresh(h') /\ h'.done /\ h.phase = "sent"
    BY <1>0, <2>1, <2>3, StoredFresh DEF Stored
  <2>4. CASE Fresh(h') /\ h'.done = h.done /\ h'.err = h.err
    BY <1>0, <2>1, <2>4, StoredFresh DEF Stored
  <2> QED
    BY <2>1, <2>2, <2>3, <2>4
<1>14. ASSUME NEW t \in Threads, CloseConn(t)
       PROVE  Stored'
  BY <1>0, <1>14, CloseConnDoes, StoredKept
<1>15. ASSUME NEW d \in h.cfg.deadlines, SetReadDeadline(d)
       PROVE  Stored'
  BY <1>0, <1>15, SetReadDeadlineDoes, StoredKept
<1>16. ASSUME NEW d \in h.cfg.deadlines, SetWriteDeadline(d)
       PROVE  Stored'
  BY <1>0, <1>16, SetWriteDeadlineDoes, StoredKept
<1>17. ASSUME NEW t \in Threads, AbortLater(t)
       PROVE  Stored'
  BY <1>5, <1>17 DEF AbortLater
<1>18. ASSUME HandshakeExpired
       PROVE  Stored'
  BY <1>5, <1>18 DEF HandshakeExpired
<1> QED
  BY <1>1, <1>3, <1>4, <1>6, <1>7, <1>8, <1>9, <1>10, <1>11, <1>12, <1>13, <1>14, <1>15,
     <1>16, <1>17, <1>18
  DEF Next, Section, Aborting, vars

-----------------------------------------------------------------------------
(* What was exchanged.                                                     *)

\* A call that stays knows what it knew.
LEMMA KnowsStays ==
    ASSUME NEW u \in Threads, Knows(u), Stays(u), nxt'[u] = nxt[u], he'[u] = he[u],
           hsOut' = hsOut, replies' = replies
    PROVE  Knows(u)'
<1>1. CASE pc'[u] = pc[u]
  BY <1>1 DEF Knows, At
<1>2. CASE pc[u] \in Asleep /\ pc'[u] = Awake(pc[u])
  <2>1. pc'[u] \in Woken
    BY <1>2, AwakeKinds
  <2> QED
    BY <2>1 DEF Knows, At, Woken
<1> QED
  BY <1>1, <1>2 DEF Stays

\* A call that works on nothing knows of the exchange what its data needs.
LEMMA KnowsFree ==
    ASSUME NEW t \in Threads, NEW p, pc'[t] \in Free,
           pc'[t] = p \/ (pc'[t] = "hook" /\ nxt'[t] = p),
           p = "hook" => FALSE,
           p = "dataWrite" => hsOut' = "all",
           p \in {"dataRead", "halfClose"} => replies'
    PROVE  Knows(t)'
<1>1. At(t)' = p
  BY DEF At
<1>2. pc'[t] \notin {"earlyBuf", "sending", "wrote", "sentLock", "gotReply", "readDone", "ran"}
  BY DEF Free, Asleep
<1> QED
  BY <1>1, <1>2 DEF Knows

\* A section of t, with the exchange as it was.
LEMMA ExchangedSection ==
    ASSUME Exchanged, NEW t \in Threads, Rest(t), UNCHANGED <<he, hsOut, replies>>, Knows(t)',
           h'.phase = "idle" => h.phase = "idle",
           h'.phase = "sent" /\ h'.err = "nil" =>
             (h.phase = "sent" /\ h.err = "nil") \/ hsOut = "all",
           h'.done /\ h'.err = "nil" => (h.done /\ h.err = "nil") \/ replies
    PROVE  Exchanged'
<1>1. \A u \in Threads : u # t => Knows(u)'
  BY KnowsStays DEF Exchanged, Rest
<1> QED
  BY <1>1 DEF Exchanged

\* A step of no caller.
LEMMA ExchangedOther ==
    ASSUME Exchanged, \A u \in Threads : Stays(u), UNCHANGED <<nxt, he, hsOut, replies>>,
           h'.phase = h.phase,
           h'.err = "nil" => h.err = "nil",
           h'.done /\ h'.err = "nil" => h.done
    PROVE  Exchanged'
<1>1. \A u \in Threads : Knows(u)'
  BY KnowsStays DEF Exchanged
<1> QED
  BY <1>1 DEF Exchanged

\* A call on a fast path has been told that its data may pass.
LEMMA FastPathTells ==
    ASSUME TypeOK, Stored, Exchanged, NEW o \in OpKinds, FastPath(o)
    PROVE  /\ AfterHandshake(o) = "dataWrite" => hsOut = "all"
           /\ AfterHandshake(o) = "dataRead" => replies
           /\ AfterHandshake(o) # "halfClose"
<1>1. h.readReady => replies
  BY DEF Stored, Exchanged
<1>2. h.writeReady => hsOut = "all"
  BY DEF Stored, Exchanged
<1>3. /\ AfterHandshake(o) = "dataWrite" => o \in {"Write", "ReadFrom"}
      /\ AfterHandshake(o) = "dataRead" => o = "Read"
      /\ AfterHandshake(o) = "halfClose" => o = "CloseWrite"
  BY DEF AfterHandshake, OpKinds
<1> QED
  BY <1>1, <1>2, <1>3 DEF FastPath

\* Exchanged is inductive.
LEMMA ExchangedStep ==
    ASSUME IndInv, [Next]_vars
    PROVE  Exchanged'
<1> USE DEF callvars, iovars, hookvars
<1>0. /\ TypeOK /\ InMode /\ Alone /\ Stored /\ Exchanged /\ OneWriter
      /\ h'.cfg = h.cfg /\ he \in [Threads -> Errors] /\ hsOut \in {"none", "part", "all"}
  BY TypedStep DEF IndInv, Alone, TypeOK
<1>1. CASE UNCHANGED vars
  BY <1>0, <1>1, ExchangedOther DEF vars, Stays
<1>2. \A t \in Threads : /\ pc[t] \in EarlyPCs => Early
                         /\ pc[t] \in WholePCs => ~Early
                         /\ op[t] \in OpKinds /\ Knows(t)
  BY <1>0 DEF InMode, ModeOf, At, EarlyPCs, WholePCs, Exchanged, TypeOK
<1>3. ASSUME NEW t \in Threads, NEW p, Walks(t, p), UNCHANGED <<he, hsOut, replies>>, Knows(t)'
      PROVE  Exchanged'
  BY <1>0, <1>3, WalksRest, ExchangedSection DEF Walks
<1>4. ASSUME NEW t \in Threads, NEW p \in Free, Walks(t, p), UNCHANGED <<he, hsOut, replies>>,
             p # "hook",
             p = "dataWrite" => hsOut = "all",
             p \in {"dataRead", "halfClose"} => replies
      PROVE  Exchanged'
  BY <1>3, <1>4, KnowsFree DEF Walks
<1>5. ASSUME NEW t \in Threads, Begin(t)
      PROVE  Exchanged'
  <2>1. PICK o \in OpKinds, p \in PCs :
          Walks(t, p) /\ \/ p = AfterHandshake(o) /\ FastPath(o)
                         \/ p \in {"abort", Entry(o)}
    BY <1>0, <1>5, WalksDo
  <2>2. p \in Free /\ p # "hook"
    BY <2>1, EntryKinds DEF Free
  <2>3. (p = "dataWrite" => hsOut = "all") /\ (p \in {"dataRead", "halfClose"} => replies)
    BY <1>0, <2>1, EntryKinds, FastPathTells
  <2>4. UNCHANGED <<he, hsOut, replies>>
    BY <1>5 DEF Begin
  <2> QED
    BY <1>4, <2>1, <2>2, <2>3, <2>4
<1>6. ASSUME NEW t \in Threads, Check(t)
      PROVE  Exchanged'
  <2>1. PICK p \in {"idle", "halfClose", "claim", "run"} :
          Walks(t, p) /\ (p = "halfClose" => h.readReady)
    BY <1>0, <1>6, WalksDo
  <2>2. p = "halfClose" => replies
    BY <1>0, <2>1 DEF Stored, Exchanged
  <2>3. UNCHANGED <<he, hsOut, replies>>
    BY <1>6 DEF Check
  <2>4. p \in Free
    BY <2>1 DEF Free
  <2> QED
    BY <1>4, <2>1, <2>2, <2>3, <2>4
<1>7. ASSUME NEW t \in Threads,
             Peek(t) \/ Source(t) \/ WaitClaimed(t) \/ DeadlineWake(t) \/ DataIO(t)
      PROVE  Exchanged'
  <2>1. PICK p \in {"idle", "copy", "waitWritten", "claim", "sleepClaim", "await"} : Walks(t, p)
    BY <1>0, <1>7, WalksDo
  <2>2. p \in Free
    BY <2>1 DEF Free, Asleep
  <2>3. UNCHANGED <<he, hsOut, replies>>
    BY <1>7 DEF Peek, Source, WaitClaimed, DeadlineWake, DataIO
  <2> QED
    BY <1>4, <2>1, <2>2, <2>3
<1>8. ASSUME NEW t \in Threads, WaitWritten(t)
      PROVE  Exchanged'
  <2>1. PICK p \in {"sleepWritten", "idle", "dataWrite"} :
          Walks(t, p) /\ (p = "dataWrite" => ~Unwritten(h) /\ CheckLocked(h) = "nil")
    BY <1>0, <1>8, WalksDo
  <2>2. p = "dataWrite" => hsOut = "all"
    <3>1. ASSUME ~Unwritten(h), CheckLocked(h) = "nil"
          PROVE  hsOut = "all"
      <4>1. h.err = "nil" /\ ~h.closed
        BY <1>0, <3>1 DEF CheckLocked, TypeOK, ConnRecord
      <4>2. h.phase = "sent" \/ h.done
        BY <3>1, <4>1 DEF Unwritten
      <4> QED
        BY <1>0, <4>1, <4>2 DEF Exchanged
    <3> QED
      BY <2>1, <3>1
  <2>3. UNCHANGED <<he, hsOut, replies>>
    BY <1>8 DEF WaitWritten
  <2>4. p \in Free
    BY <2>1 DEF Free, Asleep
  <2> QED
    BY <1>4, <2>1, <2>2, <2>3, <2>4
<1>9. ASSUME NEW t \in Threads, Copy(t)
      PROVE  Exchanged'
  <2>1. PICK p \in {"sending", "source"} :
          Walks(t, p) /\ pc[t] = (IF p = "sending" THEN "earlyBuf" ELSE "copy")
    BY <1>0, <1>9, WalksDo
  <2>2. UNCHANGED <<he, hsOut, replies>>
    BY <1>9 DEF Copy
  <2>3. Knows(t)'
    BY <1>2, <2>1, <2>2 DEF Knows, At, Walks
  <2> QED
    BY <1>3, <2>1, <2>2, <2>3
<1>10. ASSUME NEW t \in Threads, WroteHook(t)
       PROVE  Exchanged'
  <2>1. /\ pc[t] = "wrote"
        /\ Walks(t, IF Early THEN "sentLock" ELSE IF he[t] = "nil" THEN "reading" ELSE "ran")
    BY <1>0, <1>10, WalksDo
  <2>2. UNCHANGED <<he, hsOut, replies>>
    BY <1>10 DEF WroteHook
  <2>3. Knows(t)'
    BY <1>2, <2>1, <2>2 DEF Knows, At, Walks
  <2> QED
    BY <1>3, <2>1, <2>2, <2>3
<1>11. ASSUME NEW t \in Threads, ReplyHook(t)
       PROVE  Exchanged'
  <2>1. /\ pc[t] = "gotReply" /\ Walks(t, IF Early THEN "readDone" ELSE "ran")
    BY <1>0, <1>11, WalksDo
  <2>2. UNCHANGED <<he, hsOut, replies>>
    BY <1>11 DEF ReplyHook
  <2>3. Knows(t)'
    BY <1>2, <2>1, <2>2 DEF Knows, At, Walks
  <2> QED
    BY <1>3, <2>1, <2>2, <2>3
<1>12. ASSUME NEW t \in Threads, DoneHook(t)
       PROVE  Exchanged'
  <2>1. pc[t] = "hook" /\ Walks(t, nxt[t])
    BY <1>0, <1>12, WalksDo
  <2>2. UNCHANGED <<he, hsOut, replies>>
    BY <1>12 DEF DoneHook
  <2>3. nxt[t] \in HookPCs
    BY <1>0, <2>1 DEF InMode, ModeOf
  <2>4. nxt[t] \in Free /\ nxt[t] # "hook"
    BY <2>3 DEF HookPCs, Free
  <2>5. (nxt[t] = "dataWrite" => hsOut = "all") /\ (nxt[t] \in {"dataRead", "halfClose"} => replies)
    BY <1>2, <2>1 DEF Knows, At
  <2> QED
    BY <1>4, <2>1, <2>2, <2>4, <2>5
<1>13. ASSUME NEW t \in Threads, SendIO(t)
       PROVE  Exchanged'
  <2>1. pc[t] = "sending" /\ Walks(t, "wrote")
    BY <1>0, <1>13, WalksDo
  <2>2. /\ replies' = replies
        /\ \A u \in Threads : u # t => he'[u] = he[u]
        /\ he'[t] = "nil" <=> hsOut' = "all"
    BY <1>0, <1>13 DEF SendIO
  <2>3. hsOut = "none" /\ ~replies
    BY <1>0, <1>2, <2>1 DEF Knows, Exchanged
  <2>4. h.phase = "sending" /\ \A u \in Threads : u # t => pc[u] \notin SendPCs
    BY <1>0, <2>1 DEF OneWriter, Writers, SendPCs
  <2>5. Knows(t)'
    BY <2>1, <2>2 DEF Knows, At, Walks
  <2>6. ASSUME NEW u \in Threads, u # t
        PROVE  Knows(u)'
    <3>1. pc'[u] = pc[u] /\ nxt'[u] = nxt[u] /\ pc[u] \notin SendPCs /\ he'[u] = he[u]
      BY <2>1, <2>2, <2>4, <2>6 DEF Walks
    <3>2. Knows(u)
      BY <1>2
    <3> QED
      BY <2>2, <2>3, <3>1, <3>2 DEF Knows, At, SendPCs
  <2>7. h' = h
    BY <2>1 DEF Walks
  <2>8. ~(h.done /\ h.err = "nil")
    BY <1>0, <2>3 DEF Exchanged
  <2> QED
    BY <2>2, <2>3, <2>4, <2>5, <2>6, <2>7, <2>8 DEF Exchanged
<1>14. ASSUME NEW t \in Threads, ReadIO(t)
       PROVE  Exchanged'
  <2>1. PICK p \in {"gotReply", IF Early THEN "readDone" ELSE "ran"} :
          pc[t] = "reading" /\ Walks(t, p)
    BY <1>0, <1>14, WalksDo
  <2>2. /\ hsOut' = hsOut /\ (replies => replies') /\ (replies' => replies \/ hsOut = "all")
        /\ \A u \in Threads : u # t => he'[u] = he[u]
        /\ he'[t] = "nil" => replies'
    BY <1>0, <1>14 DEF ReadIO
  <2>3. Knows(t)'
    BY <2>1, <2>2 DEF Knows, At, Walks
  <2>4. ASSUME NEW u \in Threads, u # t
        PROVE  Knows(u)'
    <3>1. pc'[u] = pc[u] /\ nxt'[u] = nxt[u] /\ he'[u] = he[u]
      BY <2>1, <2>2, <2>4 DEF Walks
    <3>2. Knows(u)
      BY <1>2
    <3> QED
      BY <2>2, <3>1, <3>2 DEF Knows, At
  <2>5. h' = h
    BY <2>1 DEF Walks
  <2> QED
    BY <1>0, <2>2, <2>3, <2>4, <2>5 DEF Exchanged
<1>15. ASSUME NEW t \in Threads, AbortNow(t)
       PROVE  Exchanged'
  <2>1. /\ Rest(t) /\ Aborted
        /\ pc'[t] = IF AbortHook(h) THEN "hook" ELSE Entry(op[t])
        /\ nxt'[t] = IF AbortHook(h) THEN Entry(op[t]) ELSE nxt[t]
    BY <1>0, <1>15, AbortNowDoes
  <2>2. UNCHANGED <<he, hsOut, replies>>
    BY <1>15 DEF AbortNow
  <2>3. /\ Entry(op[t]) \in Free /\ "hook" \in Free /\ Entry(op[t]) # "hook"
        /\ Entry(op[t]) \notin {"dataRead", "dataWrite", "halfClose"}
    BY <1>2, EntryKinds DEF Free
  <2>4. Knows(t)'
    BY <2>1, <2>3, KnowsFree
  <2>5. /\ h'.phase = h.phase
        /\ h'.err = "nil" => h'.done = h.done /\ h.err = "nil"
    BY <2>1 DEF Aborted
  <2> QED
    BY <1>0, <2>1, <2>2, <2>4, <2>5, ExchangedSection
<1>16. ASSUME UnlockOther(AbortLocked(h)), UNCHANGED <<nxt, he, hsOut, replies>>
       PROVE  Exchanged'
  <2>1. Aborted /\ \A u \in Threads : Stays(u)
    BY <1>0, <1>16, AbortOtherDoes
  <2>2. /\ h'.phase = h.phase
        /\ h'.err = "nil" => h'.done = h.done /\ h.err = "nil"
    BY <2>1 DEF Aborted
  <2> QED
    BY <1>0, <1>16, <2>1, <2>2, ExchangedOther
<1>17. ASSUME NEW t \in Threads, Claim(t)
       PROVE  Exchanged'
  <2>1. /\ Rest(t) /\ h'.done = h.done /\ h'.err = h.err
        /\ \/ h'.phase = h.phase /\ pc'[t] \in {"idle", "waitWritten", "await"}
           \/ h.phase = "idle" /\ h'.phase = "sending" /\ pc'[t] \in {"earlyBuf", "sending"}
    BY <1>0, <1>17, ClaimDoes
  <2>2. UNCHANGED <<he, hsOut, replies>>
    BY <1>17 DEF Claim
  <2>3. h.phase = "idle" => hsOut = "none"
    BY <1>0 DEF Exchanged
  <2>4. Knows(t)'
    BY <2>1, <2>2, <2>3 DEF Knows, At
  <2> QED
    BY <1>0, <2>1, <2>2, <2>4, ExchangedSection
<1>18. ASSUME NEW t \in Threads, SendFailed(t)
       PROVE  Exchanged'
  <2>1. Rest(t) /\ pc'[t] = "hook" /\ nxt'[t] = "idle" /\ h'.phase = "sent" /\ h'.err # "nil"
    BY <1>0, <1>18, SendFailedDoes, FailedUnestablished
  <2>2. UNCHANGED <<he, hsOut, replies>>
    BY <1>18 DEF SendFailed
  <2>3. Knows(t)'
    BY <2>1, KnowsFree DEF Free
  <2> QED
    BY <1>0, <2>1, <2>2, <2>3, ExchangedSection
<1>19. ASSUME NEW t \in Threads, SendDone(t)
       PROVE  Exchanged'
  <2>1. pc[t] = "sentLock" /\ he[t] = "nil" /\ UNCHANGED <<he, hsOut, replies>>
    BY <1>19 DEF SendDone
  <2>2. hsOut = "all"
    BY <1>2, <2>1 DEF Knows
  <2>3. /\ Rest(t) /\ h'.phase = "sent"
        /\ h.done => h'.err = h.err
        /\ h'.done => h.done \/ h'.err # "nil"
    BY <1>0, <1>19, SendDoneDoes
  <2>4. PICK p \in {"idle", "dataWrite", "await"} :
          pc'[t] = p \/ (pc'[t] = "hook" /\ nxt'[t] = p)
    BY <1>0, <1>19, SendDoneDoes
  <2>5. pc'[t] \in Free
    BY <2>4 DEF Free
  <2>6. Knows(t)'
    BY <2>1, <2>2, <2>4, <2>5, KnowsFree
  <2> QED
    BY <1>0, <2>1, <2>2, <2>3, <2>6, ExchangedSection
<1>20. ASSUME NEW t \in Threads, ClaimRead(t)
       PROVE  Exchanged'
  <2>1. /\ Rest(t) /\ h'.phase = h.phase
        /\ \/ h'.done = h.done /\ h'.err = h.err
           \/ h'.done /\ h'.err # "nil"
        /\ \/ pc'[t] \in {"idle", "sleepRead", "reading"}
           \/ h.done /\ h.err = "nil" /\ pc'[t] = AfterHandshake(op[t])
           \/ pc'[t] = "hook" /\ nxt'[t] = "claimRead"
    BY <1>0, <1>20, ClaimReadDoes DEF Agree
  <2>2. UNCHANGED <<he, hsOut, replies>>
    BY <1>20 DEF ClaimRead
  <2>3. h.done /\ h.err = "nil" => replies /\ hsOut = "all"
    BY <1>0 DEF Exchanged
  <2>4. AfterHandshake(op[t]) \in {"dataRead", "dataWrite", "halfClose", "idle"}
    BY <1>2, EntryKinds
  <2>5. Knows(t)'
    BY <2>1, <2>2, <2>3, <2>4 DEF Knows, At
  <2> QED
    BY <1>0, <2>1, <2>2, <2>5, ExchangedSection
<1>21. ASSUME NEW t \in Threads, Returns(t), UNCHANGED <<he, hsOut, replies>>,
              h'.err = "nil" => replies
       PROVE  Knows(t)'
  <2>1. PICK p \in {"idle", AfterHandshake(op[t])} :
          /\ pc'[t] = p \/ (pc'[t] = "hook" /\ nxt'[t] = p)
          /\ p = "idle" \/ h'.err = "nil"
    BY <1>21 DEF Returns
  <2>2. p \in Free /\ p # "hook" /\ "hook" \in Free
    BY <1>2, <2>1, EntryKinds DEF Free
  <2>3. p # "idle" => replies /\ hsOut = "all"
    BY <1>0, <1>21, <2>1 DEF Exchanged
  <2> QED
    BY <1>21, <2>1, <2>2, <2>3, KnowsFree
<1>22. ASSUME NEW t \in Threads, ReadEnd(t)
       PROVE  Exchanged'
  <2>1. ~h.done => h.err = "nil"
    BY <1>0 DEF Stored
  <2>2. /\ Rest(t) /\ Returns(t) /\ h'.phase = h.phase
        /\ h.done => h'.err = h.err
        /\ ~h.done => (h'.err = "nil" => he[t] = "nil")
    BY <1>0, <1>22, <2>1, ReadEndDoes
  <2>3. pc[t] = "readDone" /\ UNCHANGED <<he, hsOut, replies>>
    BY <1>22 DEF ReadEnd
  <2>4. he[t] = "nil" => replies
    BY <1>2, <2>3 DEF Knows
  <2>5. h'.err = "nil" => replies
    BY <1>0, <2>2, <2>4 DEF Exchanged
  <2>6. Knows(t)'
    BY <1>21, <2>2, <2>3, <2>5
  <2>7. h'.err = "nil" => hsOut = "all"
    BY <1>0, <2>5 DEF Exchanged
  <2> QED
    BY <1>0, <2>2, <2>3, <2>5, <2>6, <2>7, ExchangedSection
<1>23. ASSUME NEW t \in Threads, RunEnd(t)
       PROVE  Exchanged'
  <2>1. pc[t] = "ran" /\ UNCHANGED <<he, hsOut, replies>>
    BY <1>23 DEF RunEnd
  <2>2. ~h.done /\ h.err = "nil"
    BY <1>0, <2>1, RanAlone
  <2>3. /\ Rest(t) /\ Returns(t) /\ h'.phase = "sent"
        /\ h'.err = "nil" => he[t] = "nil"
    BY <1>0, <1>23, <2>2, RunEndDoes
  <2>4. he[t] = "nil" => replies
    BY <1>2, <2>1 DEF Knows
  <2>5. Knows(t)'
    BY <1>21, <2>1, <2>3, <2>4
  <2>6. h'.err = "nil" => replies /\ hsOut = "all"
    BY <1>0, <2>3, <2>4 DEF Exchanged
  <2> QED
    BY <1>0, <2>1, <2>3, <2>5, <2>6, ExchangedSection
<1>24. ASSUME NEW t \in Threads, Run(t)
       PROVE  Exchanged'
  <2>1. /\ Rest(t)
        /\ \/ /\ h'.phase = h.phase
              /\ \/ h'.done = h.done /\ h'.err = h.err
                 \/ h'.done /\ h'.err # "nil"
              /\ \/ pc'[t] \in {"idle", "sleepRun"}
                 \/ h.done /\ h.err = "nil" /\ pc'[t] = AfterHandshake(op[t])
           \/ /\ h.phase = "idle" /\ h'.phase = "sending" /\ pc'[t] = "sending"
              /\ h'.done = h.done /\ h'.err = h.err
    BY <1>0, <1>24, RunDoes DEF Agree
  <2>2. UNCHANGED <<he, hsOut, replies>>
    BY <1>24 DEF Run
  <2>3. (h.done /\ h.err = "nil" => replies /\ hsOut = "all") /\ (h.phase = "idle" => hsOut = "none")
    BY <1>0 DEF Exchanged
  <2>4. AfterHandshake(op[t]) \in {"dataRead", "dataWrite", "halfClose", "idle"}
    BY <1>2, EntryKinds
  <2>5. Knows(t)'
    BY <2>1, <2>2, <2>3, <2>4 DEF Knows, At
  <2> QED
    BY <1>0, <2>1, <2>2, <2>5, ExchangedSection
<1>25. ASSUME NEW t \in Threads, Close(t)
       PROVE  Exchanged'
  <2>1. /\ Rest(t) /\ h'.phase = h.phase
        /\ \/ h'.done = h.done /\ h'.err = h.err
           \/ h'.done /\ h'.err # "nil"
        /\ \/ pc'[t] \in {"idle", "ncClose"}
           \/ pc'[t] = "hook" /\ nxt'[t] = "ncClose"
    BY <1>0, <1>25, CloseDoes DEF Agree
  <2>2. UNCHANGED <<he, hsOut, replies>>
    BY <1>25 DEF Close
  <2>3. Knows(t)'
    BY <2>1 DEF Knows, At
  <2> QED
    BY <1>0, <2>1, <2>2, <2>3, ExchangedSection
<1>26. ASSUME NEW t \in Threads, CloseConn(t)
       PROVE  Exchanged'
  <2>1. Rest(t) /\ pc'[t] = "idle"
    BY <1>0, <1>26 DEF CloseConn, Go, Rest, Stays, TypeOK
  <2>2. h'.phase = h.phase /\ h'.done = h.done /\ h'.err = h.err
    BY <1>0, <1>26, CloseConnDoes
  <2>3. UNCHANGED <<he, hsOut, replies>>
    BY <1>26 DEF CloseConn
  <2>4. Knows(t)'
    BY <2>1 DEF Knows, At
  <2> QED
    BY <1>0, <2>1, <2>2, <2>3, <2>4, ExchangedSection
<1>27. ASSUME NEW t \in Threads, Cancel(t) \/ AbortLaterHook(t)
       PROVE  Exchanged'
  <2>1. UNCHANGED <<h, pc, nxt, he, hsOut, replies>>
    BY <1>27 DEF Cancel, AbortLaterHook
  <2> QED
    BY <1>0, <2>1, ExchangedOther DEF Stays
<1>28. ASSUME NEW d \in h.cfg.deadlines, SetReadDeadline(d)
       PROVE  Exchanged'
  <2>1. UNCHANGED <<nxt, he, hsOut, replies>>
    BY <1>28 DEF SetReadDeadline
  <2> QED
    BY <1>0, <1>28, <2>1, SetReadDeadlineDoes, ExchangedOther
<1>29. ASSUME NEW d \in h.cfg.deadlines, SetWriteDeadline(d)
       PROVE  Exchanged'
  <2>1. UNCHANGED <<pc, nxt, he, hsOut, replies>>
    BY <1>29 DEF SetWriteDeadline
  <2> QED
    BY <1>0, <1>29, <2>1, SetWriteDeadlineDoes, ExchangedOther DEF Stays
<1>30. ASSUME NEW t \in Threads, AbortLater(t)
       PROVE  Exchanged'
  BY <1>16, <1>30 DEF AbortLater
<1>31. ASSUME HandshakeExpired
       PROVE  Exchanged'
  BY <1>16, <1>31 DEF HandshakeExpired
<1> QED
  BY <1>1, <1>5, <1>6, <1>7, <1>8, <1>9, <1>10, <1>11, <1>12, <1>13, <1>14, <1>15, <1>17, <1>18,
     <1>19, <1>20, <1>22, <1>23, <1>24, <1>25, <1>26, <1>27, <1>28, <1>29, <1>30, <1>31
  DEF Next, Section, Aborting

-----------------------------------------------------------------------------
(* The sleepers.                                                           *)

\* Nobody sleeps on a handshake that is over, or a conn that is closed.
LEMMA NobodySleeps ==
    ASSUME Sleeping, h.done \/ h.closed, NEW u \in Threads
    PROVE  pc[u] \notin Asleep
BY DEF Sleeping, Reason, Unclaimed, Unwritten, Asleep

\* A section that woke the others, or found nobody asleep.
LEMMA SleepingWoke ==
    ASSUME NEW t \in Threads, Woke(t), Reason(t)'
    PROVE  Sleeping'
<1>1. \A u \in Threads : u # t => Reason(u)'
  BY DEF Woke, Reason, Asleep
<1> QED
  BY <1>1 DEF Sleeping

\* Where nobody sleeps, nobody falls asleep but t.
LEMMA StillAwake ==
    ASSUME Sleeping, h.done \/ h.closed, NEW t \in Threads, Rest(t)
    PROVE  Woke(t)
<1> SUFFICES ASSUME NEW u \in Threads, u # t PROVE pc'[u] \notin Asleep
  BY DEF Woke
<1>1. pc[u] \notin Asleep /\ Stays(u)
  BY NobodySleeps DEF Rest
<1> QED
  BY <1>1 DEF Stays

\* A step that takes no reason away.
LEMMA ReasonStays ==
    ASSUME NEW u \in Threads, Reason(u), Stays(u), h'.done = h.done, h'.closed = h.closed,
           h'.phase = h.phase, h.busy => h'.busy, h'.abortErr = h.abortErr
    PROVE  Reason(u)'
<1>1. pc'[u] = pc[u] \/ pc'[u] \notin Asleep
  BY AwakeKinds DEF Stays, Woken, Asleep
<1>2. CASE pc'[u] = pc[u]
  BY <1>2 DEF Reason, Unclaimed, Unwritten
<1>3. CASE pc'[u] \notin Asleep
  BY <1>3 DEF Reason, Asleep
<1> QED
  BY <1>1, <1>2, <1>3

\* A section of t that takes none away ...
LEMMA SleepingSection ==
    ASSUME Sleeping, NEW t \in Threads, Rest(t), Reason(t)', h'.done = h.done,
           h'.closed = h.closed, h'.phase = h.phase, h.busy => h'.busy, h'.abortErr = h.abortErr
    PROVE  Sleeping'
BY ReasonStays DEF Sleeping, Rest

\* ... and one of no caller.
LEMMA SleepingOther ==
    ASSUME Sleeping, \A u \in Threads : Stays(u), h'.done = h.done,
           h'.closed = h.closed, h'.phase = h.phase, h.busy => h'.busy, h'.abortErr = h.abortErr
    PROVE  Sleeping'
BY ReasonStays DEF Sleeping

\* Sleeping is inductive.
LEMMA SleepingStep ==
    ASSUME IndInv, [Next]_vars
    PROVE  Sleeping'
<1> USE DEF callvars, iovars, hookvars
<1>0. TypeOK /\ InMode /\ Alone /\ Stored /\ Exchanged /\ Sleeping /\ h'.cfg = h.cfg
  BY TypedStep DEF IndInv
<1>1. CASE UNCHANGED vars
  BY <1>0, <1>1, SleepingOther DEF vars, Stays
<1>2. \A t \in Threads : /\ pc[t] \in EarlyPCs => Early
                         /\ pc[t] \in WholePCs => ~Early
                         /\ AfterHandshake(op[t]) \notin Asleep /\ Entry(op[t]) \notin Asleep
                         /\ pc[t] = "hook" => nxt[t] \notin Asleep
  <2> SUFFICES ASSUME NEW t \in Threads
               PROVE  /\ pc[t] \in EarlyPCs => Early
                      /\ pc[t] \in WholePCs => ~Early
                      /\ AfterHandshake(op[t]) \notin Asleep /\ Entry(op[t]) \notin Asleep
                      /\ pc[t] = "hook" => nxt[t] \notin Asleep
    OBVIOUS
  <2>1. op[t] \in OpKinds /\ ModeOf(t)
    BY <1>0 DEF TypeOK, InMode
  <2>2. "hook" \notin EarlyPCs \cup WholePCs /\ HookPCs \cap Asleep = {}
    BY DEF EarlyPCs, WholePCs, HookPCs, Asleep
  <2> QED
    BY <2>1, <2>2, EntryKinds DEF ModeOf, At, Asleep
<1>3. ASSUME NEW t \in Threads, NEW p, Walks(t, p),
             \/ p \notin Asleep
             \/ p = "sleepClaim" /\ Unclaimed(h)
             \/ p = "sleepWritten" /\ Unwritten(h)
      PROVE  Sleeping'
  <2>1. Reason(t)'
    BY <1>3 DEF Walks, Reason, Asleep, Unclaimed, Unwritten
  <2> QED
    BY <1>0, <1>3, <2>1, WalksRest, SleepingSection DEF Walks
<1>4. ASSUME NEW t \in Threads,
             \/ Begin(t) \/ Check(t) \/ Peek(t) \/ Copy(t) \/ Source(t) \/ SendIO(t)
             \/ WroteHook(t) \/ WaitWritten(t) \/ WaitClaimed(t) \/ DeadlineWake(t)
             \/ ReadIO(t) \/ ReplyHook(t) \/ DoneHook(t) \/ DataIO(t)
      PROVE  Sleeping'
  <2>1. CASE Begin(t)
    <3>1. PICK o \in OpKinds, p \in PCs : Walks(t, p) /\ p \in {AfterHandshake(o), "abort", Entry(o)}
      BY <1>0, <2>1, WalksDo
    <3>2. p \notin Asleep
      BY <3>1, EntryKinds DEF Asleep
    <3> QED
      BY <1>3, <3>1, <3>2
  <2>2. CASE DoneHook(t)
    BY <1>0, <1>2, <1>3, <2>2, WalksDo
  <2>3. CASE WaitWritten(t) \/ WaitClaimed(t)
    <3>1. PICK p : /\ Walks(t, p)
                   /\ \/ p \in {"idle", "dataWrite"}
                      \/ p = "sleepClaim" /\ Unclaimed(h)
                      \/ p = "sleepWritten" /\ Unwritten(h)
      BY <1>0, <2>3, WalksDo
    <3> QED
      BY <1>3, <3>1 DEF Asleep
  <2>4. CASE \/ Check(t) \/ Peek(t) \/ Copy(t) \/ Source(t) \/ SendIO(t) \/ WroteHook(t)
             \/ DeadlineWake(t) \/ ReadIO(t) \/ ReplyHook(t) \/ DataIO(t)
    <3>1. PICK p \in {"idle", "halfClose", "claim", "run", "copy", "waitWritten", "sending", "source",
                      "wrote", "sentLock", "reading", "ran", "await", "gotReply", "readDone"} :
            Walks(t, p)
      BY <1>0, <2>4, WalksDo
    <3> QED
      BY <1>3, <3>1 DEF Asleep
  <2> QED
    BY <1>4, <2>1, <2>2, <2>3, <2>4
<1>5. ASSUME NEW t \in Threads, Woke(t), pc'[t] \notin Asleep
      PROVE  Sleeping'
  <2>1. Reason(t)'
    BY <1>5 DEF Reason, Asleep
  <2> QED
    BY <1>5, <2>1, SleepingWoke
<1>6. ASSUME NEW t \in Threads, Rest(t), Agree(h', h), pc'[t] \notin Asleep
      PROVE  Sleeping'
  <2>1. Reason(t)'
    BY <1>6 DEF Reason, Asleep
  <2> QED
    BY <1>0, <1>6, <2>1, SleepingSection DEF Agree
<1>7. ASSUME NEW t \in Threads, AbortNow(t)
      PROVE  Sleeping'
  <2>1. /\ Rest(t) /\ Aborted /\ pc'[t] \in {"hook", Entry(op[t])}
        /\ Aborts(h) => Woke(t)
    BY <1>0, <1>7, AbortNowDoes
  <2>2. pc'[t] \notin Asleep
    BY <1>2, <2>1 DEF Asleep
  <2> QED
    BY <1>5, <1>6, <2>1, <2>2 DEF Aborted
<1>8. ASSUME UnlockOther(AbortLocked(h))
      PROVE  Sleeping'
  <2>1. /\ Aborted /\ \A u \in Threads : Stays(u)
        /\ Aborts(h) => \A u \in Threads : pc'[u] \notin Asleep
    BY <1>0, <1>8, AbortOtherDoes
  <2>2. CASE Aborts(h)
    BY <2>1, <2>2 DEF Sleeping, Reason, Asleep
  <2>3. CASE ~Aborts(h)
    BY <1>0, <2>1, <2>3, SleepingOther DEF Aborted, Agree
  <2> QED
    BY <2>2, <2>3
<1>9. ASSUME NEW t \in Threads, Claim(t)
      PROVE  Sleeping'
  <2>1. /\ Rest(t) /\ pc'[t] \in {"idle", "earlyBuf", "sending", "waitWritten", "await"}
        /\ h'.done = h.done /\ h'.closed = h.closed /\ h'.busy = h.busy /\ h'.abortErr = h.abortErr
        /\ Woke(t) \/ h'.phase = h.phase
    BY <1>0, <1>9, ClaimDoes
  <2>2. pc'[t] \notin Asleep /\ Reason(t)'
    BY <2>1 DEF Asleep, Reason
  <2> QED
    BY <1>0, <1>5, <2>1, <2>2, SleepingSection
<1>10. ASSUME NEW t \in Threads, SendFailed(t)
       PROVE  Sleeping'
  <2>1. Rest(t) /\ pc'[t] = "hook" /\ (~h.done => Woke(t))
    BY <1>0, <1>10, SendFailedDoes, FailedUnestablished
  <2>2. Woke(t)
    BY <1>0, <2>1, StillAwake
  <2> QED
    BY <1>5, <2>1, <2>2 DEF Asleep
<1>11. ASSUME NEW t \in Threads, SendDone(t)
       PROVE  Sleeping'
  <2>1. Woke(t) /\ pc'[t] \in {"hook", "idle", "dataWrite", "await"}
    BY <1>0, <1>11, SendDoneDoes
  <2> QED
    BY <1>5, <2>1 DEF Asleep
<1>12. ASSUME NEW t \in Threads, ClaimRead(t)
       PROVE  Sleeping'
  <2>1. /\ Rest(t)
        /\ \/ Agree(h', h) /\ pc'[t] \in {"idle", AfterHandshake(op[t])}
           \/ /\ Agree(h', h) /\ pc'[t] = "sleepRead" /\ ~h.done /\ ~h.closed
              /\ h.busy \/ (h.abortErr # "nil" /\ h.phase # "sent")
           \/ Woke(t) /\ pc'[t] = "hook"
           \/ /\ ~h.busy /\ h'.busy /\ pc'[t] = "reading"
              /\ h'.done = h.done /\ h'.closed = h.closed /\ h'.phase = h.phase
              /\ h'.abortErr = h.abortErr
    BY <1>0, <1>12, ClaimReadDoes
  <2>2. CASE Agree(h', h) /\ pc'[t] \in {"idle", AfterHandshake(op[t])}
    BY <1>2, <1>6, <2>1, <2>2 DEF Asleep
  <2>3. CASE /\ Agree(h', h) /\ pc'[t] = "sleepRead" /\ ~h.done /\ ~h.closed
             /\ h.busy \/ (h.abortErr # "nil" /\ h.phase # "sent")
    <3>1. Reason(t)'
      BY <2>3 DEF Reason, Agree
    <3> QED
      BY <1>0, <2>1, <2>3, <3>1, SleepingSection DEF Agree
  <2>4. CASE Woke(t) /\ pc'[t] = "hook"
    BY <1>5, <2>4 DEF Asleep
  <2>5. CASE /\ ~h.busy /\ h'.busy /\ pc'[t] = "reading"
             /\ h'.done = h.done /\ h'.closed = h.closed /\ h'.phase = h.phase
             /\ h'.abortErr = h.abortErr
    <3>1. Reason(t)'
      BY <2>5 DEF Reason
    <3> QED
      BY <1>0, <2>1, <2>5, <3>1, SleepingSection
  <2> QED
    BY <2>1, <2>2, <2>3, <2>4, <2>5
<1>13. ASSUME NEW t \in Threads, Returns(t)
       PROVE  pc'[t] \notin Asleep
  BY <1>2, <1>13 DEF Returns, Asleep
<1>14. ASSUME NEW t \in Threads, ReadEnd(t)
       PROVE  Sleeping'
  <2>1. ~h.done => h.err = "nil"
    BY <1>0 DEF Stored
  <2>2. Rest(t) /\ Returns(t) /\ (~h.done => Woke(t))
    BY <1>0, <1>14, <2>1, ReadEndDoes
  <2>3. Woke(t)
    BY <1>0, <2>2, StillAwake
  <2> QED
    BY <1>5, <1>13, <2>2, <2>3
<1>15. ASSUME NEW t \in Threads, Run(t)
       PROVE  Sleeping'
  <2>1. /\ Rest(t) /\ pc[t] = "run"
        /\ \/ Agree(h', h) /\ pc'[t] \in {"idle", AfterHandshake(op[t])}
           \/ Agree(h', h) /\ pc'[t] = "sleepRun" /\ h.phase # "idle" /\ ~h.done /\ ~h.closed
           \/ Woke(t) /\ pc'[t] = "idle"
           \/ /\ h'.phase = "sending" /\ pc'[t] = "sending"
              /\ h'.done = h.done /\ h'.closed = h.closed
    BY <1>0, <1>15, RunDoes DEF Run
  <2>2. CASE Agree(h', h) /\ pc'[t] \in {"idle", AfterHandshake(op[t])}
    BY <1>2, <1>6, <2>1, <2>2 DEF Asleep
  <2>3. CASE Agree(h', h) /\ pc'[t] = "sleepRun" /\ h.phase # "idle" /\ ~h.done /\ ~h.closed
    <3>1. Reason(t)'
      BY <2>3 DEF Reason, Agree
    <3> QED
      BY <1>0, <2>1, <2>3, <3>1, SleepingSection DEF Agree
  <2>4. CASE Woke(t) /\ pc'[t] = "idle"
    BY <1>5, <2>4 DEF Asleep
  <2>5. CASE /\ h'.phase = "sending" /\ pc'[t] = "sending"
             /\ h'.done = h.done /\ h'.closed = h.closed
    <3> SUFFICES ASSUME NEW u \in Threads PROVE Reason(u)'
      BY DEF Sleeping
    <3>1. pc[u] \notin {"sleepClaim", "sleepRead", "sleepWritten"}
      BY <1>2, <2>1 DEF EarlyPCs, WholePCs
    <3>2. pc'[u] = "sleepRun" \/ pc'[u] \notin Asleep
      BY <2>1, <2>5, <3>1, AwakeKinds DEF Rest, Stays, Asleep, Woken
    <3>3. pc'[u] = "sleepRun" => pc[u] = "sleepRun"
      BY <2>1, <2>5, AwakeKinds DEF Rest, Stays, Woken
    <3> QED
      BY <1>0, <2>5, <3>2, <3>3 DEF Sleeping, Reason, Asleep
  <2> QED
    BY <2>1, <2>2, <2>3, <2>4, <2>5
<1>16. ASSUME NEW t \in Threads, RunEnd(t)
       PROVE  Sleeping'
  <2>1. pc[t] = "ran"
    BY <1>16 DEF RunEnd
  <2>2. ~h.done /\ h.err = "nil"
    BY <1>0, <2>1, RanAlone
  <2>3. Woke(t) /\ pc'[t] = "hook"
    BY <1>0, <1>16, <2>2, RunEndDoes
  <2> QED
    BY <1>5, <2>3 DEF Asleep
<1>17. ASSUME NEW t \in Threads, Close(t)
       PROVE  Sleeping'
  <2>1. /\ Rest(t) /\ pc'[t] \in {"idle", "ncClose", "hook"}
        /\ Agree(h', h) \/ Woke(t)
    BY <1>0, <1>17, CloseDoes
  <2> QED
    BY <1>5, <1>6, <2>1 DEF Asleep
<1>18. ASSUME NEW t \in Threads, CloseConn(t)
       PROVE  Sleeping'
  <2>1. Rest(t) /\ pc'[t] = "idle"
    BY <1>0, <1>18 DEF CloseConn, Go, Rest, Stays, TypeOK
  <2>2. Reason(t)'
    BY <2>1 DEF Reason
  <2> QED
    BY <1>0, <1>18, <2>1, <2>2, CloseConnDoes, SleepingSection
<1>19. ASSUME NEW t \in Threads, Cancel(t) \/ AbortLaterHook(t)
       PROVE  Sleeping'
  <2>1. UNCHANGED <<h, pc>>
    BY <1>19 DEF Cancel, AbortLaterHook
  <2> QED
    BY <1>0, <2>1, SleepingOther DEF Stays
<1>20. ASSUME NEW d \in h.cfg.deadlines, SetReadDeadline(d)
       PROVE  Sleeping'
  BY <1>0, <1>20, SetReadDeadlineDoes, SleepingOther
<1>21. ASSUME NEW d \in h.cfg.deadlines, SetWriteDeadline(d)
       PROVE  Sleeping'
  <2>1. pc' = pc
    BY <1>21 DEF SetWriteDeadline
  <2> QED
    BY <1>0, <1>21, <2>1, SetWriteDeadlineDoes, SleepingOther DEF Stays
<1>22. ASSUME NEW t \in Threads, AbortLater(t)
       PROVE  Sleeping'
  BY <1>8, <1>22 DEF AbortLater
<1>23. ASSUME HandshakeExpired
       PROVE  Sleeping'
  BY <1>8, <1>23 DEF HandshakeExpired
<1> QED
  BY <1>1, <1>4, <1>7, <1>9, <1>10, <1>11, <1>12, <1>14, <1>15, <1>16, <1>17, <1>18, <1>19,
     <1>20, <1>21, <1>22, <1>23
  DEF Next, Section, Aborting

-----------------------------------------------------------------------------
(* The deadlines of a failed handshake.                                    *)

\* A call in the handshake's I/O is a reader, or a writer.
LEMMA InIO ==
    ASSUME Alone, NEW t \in Threads
    PROVE  /\ pc[t] = "reading" => pc[t] \in Readers /\ h.busy
           /\ pc[t] \in {"earlyBuf", "sending"} => pc[t] \in Writers /\ h.phase = "sending"
           /\ pc[t] = "reading" /\ ~Early => h.phase = "sending"
<1>1. /\ pc[t] = "reading" => pc[t] \in Readers
      /\ pc[t] \in {"earlyBuf", "sending"} => pc[t] \in Writers
      /\ pc[t] = "reading" /\ ~Early => pc[t] \in Writers
  BY DEF Readers, Writers, SendPCs
<1> QED
  BY <1>1 DEF Alone, OneReader, OneWriter

\* A call that stays is in the I/O it was in.
LEMMA InIOStays ==
    ASSUME NEW u \in Threads, Stays(u)
    PROVE  /\ pc'[u] = "reading" => pc[u] = "reading"
           /\ pc'[u] \in {"earlyBuf", "sending"} => pc[u] \in {"earlyBuf", "sending"}
BY AwakeKinds DEF Stays, Woken

\* A step that leaves the deadlines of those in I/O set.
LEMMA HeldStays ==
    ASSUME NEW u \in Threads, Held(u), Stays(u), h.rdl # "none" => h'.rdl # "none",
           h.wdl # "none" => h'.wdl # "none"
    PROVE  Held(u)'
BY InIOStays DEF Held

\* A section of t that does so ...
LEMMA UnblockedSection ==
    ASSUME Unblocked, NEW t \in Threads, Rest(t), h'.cfg = h.cfg,
           h'.err # "nil" => h.err # "nil",
           h'.open => h.open,
           h.rdl # "none" => h'.rdl # "none",
           h.wdl # "none" => h'.wdl # "none",
           pc'[t] \notin {"reading", "earlyBuf", "sending"}
    PROVE  Unblocked'
<1> SUFFICES ASSUME HasDeadlines, h'.err # "nil", h'.open, "none" \notin h'.cfg.deadlines,
                    NEW u \in Threads
             PROVE  Held(u)'
  BY DEF Unblocked
<1>1. Held(u)
  BY DEF Unblocked
<1>2. CASE u = t
  BY <1>2 DEF Held
<1>3. CASE u # t
  BY <1>1, <1>3, HeldStays DEF Rest
<1> QED
  BY <1>2, <1>3

\* ... and a step of no caller.
LEMMA UnblockedOther ==
    ASSUME Unblocked, \A u \in Threads : Stays(u), h'.cfg = h.cfg, h'.err = h.err,
           h'.open => h.open,
           "none" \notin h.cfg.deadlines => (h.rdl # "none" => h'.rdl # "none"),
           "none" \notin h.cfg.deadlines => (h.wdl # "none" => h'.wdl # "none")
    PROVE  Unblocked'
<1> SUFFICES ASSUME HasDeadlines, h'.err # "nil", h'.open, "none" \notin h'.cfg.deadlines,
                    NEW u \in Threads
             PROVE  Held(u)'
  BY DEF Unblocked
<1>1. Held(u)
  BY DEF Unblocked
<1> QED
  BY <1>1, HeldStays

\* A section after which nobody is in the I/O of a failed handshake without a deadline.
LEMMA UnblockedAfter ==
    ASSUME NEW t \in Threads, Rest(t), pc'[t] \notin {"reading", "earlyBuf", "sending"},
           HasDeadlines /\ h'.err # "nil" /\ h'.open =>
               \A u \in Threads : u # t => /\ pc[u] = "reading" => h'.rdl # "none"
                                           /\ pc[u] \in {"earlyBuf", "sending"} => h'.wdl # "none"
    PROVE  Unblocked'
<1> SUFFICES ASSUME HasDeadlines, h'.err # "nil", h'.open, NEW u \in Threads
             PROVE  Held(u)'
  BY DEF Unblocked
<1>1. CASE u = t
  BY <1>1 DEF Held
<1>2. CASE u # t
  BY <1>2, InIOStays DEF Held, Rest
<1> QED
  BY <1>1, <1>2

\* Unblocked is inductive.
LEMMA UnblockedStep ==
    ASSUME IndInv, [Next]_vars
    PROVE  Unblocked'
<1> USE DEF callvars, iovars, hookvars
<1>0. /\ TypeOK /\ InMode /\ Alone /\ Stored /\ Exchanged /\ Unblocked /\ h'.cfg = h.cfg
      /\ OneReader /\ OneWriter
  BY TypedStep DEF IndInv, Alone
<1>1. CASE UNCHANGED vars
  BY <1>0, <1>1, UnblockedOther DEF vars, Stays
<1>2. \A t \in Threads : /\ pc[t] \in EarlyPCs => Early
                         /\ pc[t] \in WholePCs => ~Early
                         /\ AfterHandshake(op[t]) \in Free /\ Entry(op[t]) \in Free
                         /\ pc[t] = "hook" => nxt[t] \in Free
  <2> SUFFICES ASSUME NEW t \in Threads
               PROVE  /\ pc[t] \in EarlyPCs => Early
                      /\ pc[t] \in WholePCs => ~Early
                      /\ AfterHandshake(op[t]) \in Free /\ Entry(op[t]) \in Free
                      /\ pc[t] = "hook" => nxt[t] \in Free
    OBVIOUS
  <2>1. op[t] \in OpKinds /\ ModeOf(t)
    BY <1>0 DEF TypeOK, InMode
  <2>2. "hook" \notin EarlyPCs \cup WholePCs /\ HookPCs \subseteq Free
    BY DEF EarlyPCs, WholePCs, HookPCs, Free
  <2> QED
    BY <2>1, <2>2, EntryKinds DEF ModeOf, At, Free
<1>3. \A p \in Free : p \notin {"reading", "earlyBuf", "sending"}
  BY DEF Free, Asleep
<1>4. ASSUME NEW t \in Threads, NEW p, Walks(t, p), p \notin {"reading", "earlyBuf", "sending"}
      PROVE  Unblocked'
  BY <1>0, <1>4, WalksRest, UnblockedSection DEF Walks
<1>5. ASSUME NEW t \in Threads,
             \/ Begin(t) \/ Check(t) \/ Peek(t) \/ Source(t) \/ SendIO(t)
             \/ WaitWritten(t) \/ WaitClaimed(t) \/ DeadlineWake(t)
             \/ ReadIO(t) \/ ReplyHook(t) \/ DoneHook(t) \/ DataIO(t)
      PROVE  Unblocked'
  <2>1. CASE Begin(t)
    <3>1. PICK o \in OpKinds, p \in PCs : Walks(t, p) /\ p \in {AfterHandshake(o), "abort", Entry(o)}
      BY <1>0, <2>1, WalksDo
    <3>2. p \notin {"reading", "earlyBuf", "sending"}
      BY <3>1, EntryKinds
    <3> QED
      BY <1>4, <3>1, <3>2
  <2>2. CASE DoneHook(t)
    BY <1>0, <1>2, <1>3, <1>4, <2>2, WalksDo
  <2>3. CASE \/ Check(t) \/ Peek(t) \/ Source(t) \/ SendIO(t) \/ WaitWritten(t) \/ WaitClaimed(t)
             \/ DeadlineWake(t) \/ ReadIO(t) \/ ReplyHook(t) \/ DataIO(t)
    <3>1. PICK p \in {"idle", "halfClose", "claim", "run", "copy", "waitWritten", "sleepClaim",
                      "sleepWritten", "dataWrite", "wrote", "ran", "await", "gotReply", "readDone"} :
            Walks(t, p)
      BY <1>0, <2>3, WalksDo
    <3> QED
      BY <1>4, <3>1
  <2> QED
    BY <1>5, <2>1, <2>2, <2>3
<1>6. ASSUME NEW t \in Threads, Copy(t)
      PROVE  Unblocked'
  <2>1. PICK p \in {"sending", "source"} :
          Walks(t, p) /\ pc[t] = (IF p = "sending" THEN "earlyBuf" ELSE "copy")
    BY <1>0, <1>6, WalksDo
  <2>2. \A u \in Threads : Held(u) => Held(u)'
    BY <2>1 DEF Held, Walks
  <2>3. h' = h
    BY <2>1 DEF Walks
  <2> QED
    BY <1>0, <2>2, <2>3 DEF Unblocked
<1>7. ASSUME NEW t \in Threads, WroteHook(t)
      PROVE  Unblocked'
  <2>1. /\ pc[t] = "wrote"
        /\ Walks(t, IF Early THEN "sentLock" ELSE IF he[t] = "nil" THEN "reading" ELSE "ran")
    BY <1>0, <1>7, WalksDo
  <2>2. CASE Early
    BY <1>4, <2>1, <2>2
  <2>3. CASE ~Early
    <3>1. pc[t] \in Writers
      BY <2>1 DEF Writers, SendPCs
    <3>2. h.phase = "sending"
      BY <1>0, <3>1 DEF OneWriter
    <3>3. h.err = "nil" /\ h' = h
      BY <1>0, <2>1, <2>3, <3>2 DEF Stored, Walks
    <3> QED
      BY <3>3 DEF Unblocked
  <2> QED
    BY <2>2, <2>3
<1>8. ASSUME Aborted, Aborts(h)
      PROVE  Unblocked'
  BY <1>8 DEF Unblocked, Aborted, Held
<1>9. ASSUME NEW t \in Threads, AbortNow(t)
      PROVE  Unblocked'
  <2>1. Rest(t) /\ Aborted /\ pc'[t] \in {"hook", Entry(op[t])}
    BY <1>0, <1>9, AbortNowDoes
  <2>2. pc'[t] \notin {"reading", "earlyBuf", "sending"}
    BY <1>2, <1>3, <2>1
  <2>3. CASE ~Aborts(h)
    BY <1>0, <2>1, <2>2, <2>3, UnblockedSection DEF Aborted, Agree
  <2> QED
    BY <1>8, <2>1, <2>3
<1>10. ASSUME UnlockOther(AbortLocked(h))
       PROVE  Unblocked'
  <2>1. Aborted /\ \A u \in Threads : Stays(u)
    BY <1>0, <1>10, AbortOtherDoes
  <2>2. CASE ~Aborts(h)
    BY <1>0, <2>1, <2>2, UnblockedOther DEF Aborted, Agree
  <2> QED
    BY <1>8, <2>1, <2>2
<1>11. ASSUME NEW t \in Threads, Claim(t)
       PROVE  Unblocked'
  <2>1. /\ Rest(t) /\ h'.err = h.err /\ h'.rdl = h.rdl /\ h'.wdl = h.wdl /\ h'.open = h.open
        /\ h.err = "nil" \/ pc'[t] \in {"idle", "waitWritten", "await"}
    BY <1>0, <1>11, ClaimDoes
  <2>2. CASE h.err = "nil"
    BY <2>1, <2>2 DEF Unblocked
  <2>3. CASE pc'[t] \in {"idle", "waitWritten", "await"}
    BY <1>0, <2>1, <2>3, UnblockedSection
  <2> QED
    BY <2>1, <2>2, <2>3
<1>12. ASSUME NEW t \in Threads, SendFailed(t) \/ SendDone(t)
       PROVE  Unblocked'
  <2>1. /\ Rest(t) /\ pc[t] = "sentLock" /\ pc'[t] \in {"hook", "idle", "dataWrite", "await"}
        /\ h'.open = h.open
        /\ h.done => h'.err = h.err /\ h'.rdl \in {h.rdl, "past"}
        /\ ~h.done => h'.err = h.err \/ ~h.busy \/ (HasDeadlines => h'.rdl = "past")
    BY <1>0, <1>12, SendFailedDoes, SendDoneDoes, FailedUnestablished DEF SendFailed, SendDone
  <2>2. ~h.done => h.err = "nil"
    BY <1>0 DEF Stored
  <2>3. pc[t] \in Writers
    BY <2>1 DEF Writers, SendPCs
  <2>4. ASSUME NEW u \in Threads, u # t, HasDeadlines, h'.err # "nil", h'.open,
               "none" \notin h.cfg.deadlines
        PROVE  Held(u)'
    <3>1. pc[u] \notin {"earlyBuf", "sending"}
      BY <1>0, <2>3, <2>4, InIO DEF OneWriter
    <3>2. pc[u] = "reading" => h.busy
      BY <1>0, InIO
    <3>3. h.done => Held(u)
      BY <1>0, <2>1, <2>4 DEF Unblocked
    <3>4. pc[u] = "reading" => h'.rdl # "none"
      BY <2>1, <2>2, <2>4, <3>2, <3>3 DEF Held
    <3> QED
      BY <2>1, <2>4, <3>1, <3>4, InIOStays DEF Held, Rest
  <2>5. Held(t)'
    BY <2>1 DEF Held
  <2> QED
    BY <1>0, <2>4, <2>5 DEF Unblocked
<1>13. ASSUME NEW t \in Threads, ClaimRead(t)
       PROVE  Unblocked'
  <2>1. /\ Rest(t) /\ h'.open = h.open
        /\ \/ Agree(h', h) /\ pc'[t] \in {"idle", AfterHandshake(op[t]), "sleepRead"}
           \/ pc'[t] = "hook" /\ h.phase = "sent" /\ ~h.busy
           \/ h.err = "nil" /\ h'.err = h.err
    BY <1>0, <1>13, ClaimReadDoes
  <2>2. CASE Agree(h', h) /\ pc'[t] \in {"idle", AfterHandshake(op[t]), "sleepRead"}
    <3>1. pc'[t] \notin {"reading", "earlyBuf", "sending"}
      BY <1>2, <1>3, <2>2
    <3> QED
      BY <1>0, <2>1, <2>2, <3>1, UnblockedSection DEF Agree
  <2>3. CASE pc'[t] = "hook" /\ h.phase = "sent" /\ ~h.busy
    BY <1>0, <2>1, <2>3, InIO, UnblockedAfter
  <2>4. CASE h.err = "nil" /\ h'.err = h.err
    BY <2>4 DEF Unblocked
  <2> QED
    BY <2>1, <2>2, <2>3, <2>4
<1>14. ASSUME NEW t \in Threads, Returns(t)
       PROVE  pc'[t] \notin {"reading", "earlyBuf", "sending"}
  BY <1>2, <1>3, <1>14 DEF Returns
<1>15. ASSUME NEW t \in Threads, ReadEnd(t)
       PROVE  Unblocked'
  <2>1. ~h.done => h.err = "nil"
    BY <1>0 DEF Stored
  <2>2. /\ Rest(t) /\ Returns(t) /\ h'.phase = h.phase /\ h'.open = h.open
        /\ h.done => h'.err = h.err /\ h'.wdl = h.wdl
        /\ HasDeadlines /\ ~h.done /\ h'.err # "nil" /\ h.phase = "sending" => h'.wdl = "past"
    BY <1>0, <1>15, <2>1, ReadEndDoes
  <2>3. pc[t] = "readDone"
    BY <1>15 DEF ReadEnd
  <2>4. Early
    BY <1>2, <2>3 DEF EarlyPCs
  <2>5. pc[t] \in Readers
    BY <2>3, <2>4 DEF Readers
  <2>6. ASSUME NEW u \in Threads, u # t, HasDeadlines, h'.err # "nil", h'.open,
               "none" \notin h.cfg.deadlines
        PROVE  Held(u)'
    <3>1. pc[u] # "reading"
      BY <1>0, <2>5, <2>6, InIO DEF OneReader
    <3>2. pc[u] \in {"earlyBuf", "sending"} => h.phase = "sending"
      BY <1>0, InIO
    <3>3. h.done => Held(u)
      BY <1>0, <2>2, <2>6 DEF Unblocked
    <3>4. pc[u] \in {"earlyBuf", "sending"} => h'.wdl # "none"
      BY <2>2, <2>6, <3>2, <3>3 DEF Held
    <3> QED
      BY <2>2, <2>6, <3>1, <3>4, InIOStays DEF Held, Rest
  <2>7. Held(t)'
    BY <1>14, <2>2 DEF Held
  <2> QED
    BY <1>0, <2>6, <2>7 DEF Unblocked
<1>16. ASSUME NEW t \in Threads, Run(t)
       PROVE  Unblocked'
  <2>1. /\ Rest(t) /\ pc[t] = "run" /\ h'.open = h.open
        /\ \/ Agree(h', h) /\ pc'[t] \in {"idle", AfterHandshake(op[t]), "sleepRun"}
           \/ h.phase = "idle" /\ pc'[t] = "idle"
           \/ h.err = "nil" /\ h'.err = h.err
    BY <1>0, <1>16, RunDoes DEF Run
  <2>2. ~Early
    BY <1>2, <2>1 DEF WholePCs
  <2>3. CASE Agree(h', h) /\ pc'[t] \in {"idle", AfterHandshake(op[t]), "sleepRun"}
    <3>1. pc'[t] \notin {"reading", "earlyBuf", "sending"}
      BY <1>2, <1>3, <2>3
    <3> QED
      BY <1>0, <2>1, <2>3, <3>1, UnblockedSection DEF Agree
  <2>4. CASE h.phase = "idle" /\ pc'[t] = "idle"
    BY <1>0, <2>1, <2>2, <2>4, InIO, UnblockedAfter
  <2>5. CASE h.err = "nil" /\ h'.err = h.err
    BY <2>5 DEF Unblocked
  <2> QED
    BY <2>1, <2>3, <2>4, <2>5
<1>17. ASSUME NEW t \in Threads, RunEnd(t)
       PROVE  Unblocked'
  <2>1. pc[t] = "ran"
    BY <1>17 DEF RunEnd
  <2>2. ~h.done /\ h.err = "nil" /\ ~Early
    BY <1>0, <2>1, RanAlone
  <2>3. Rest(t) /\ pc'[t] = "hook"
    BY <1>0, <1>17, <2>2, RunEndDoes
  <2>4. pc[t] \in Readers /\ pc[t] \in Writers
    BY <2>1, <2>2 DEF Readers, Writers
  <2>5. \A u \in Threads : u # t => pc[u] \notin {"reading", "earlyBuf", "sending"}
    BY <1>0, <2>4, InIO DEF OneReader, OneWriter
  <2> QED
    BY <2>3, <2>5, UnblockedAfter
<1>18. ASSUME NEW t \in Threads, Close(t)
       PROVE  Unblocked'
  <2>1. /\ Rest(t) /\ pc'[t] \in {"idle", "ncClose", "hook"} /\ h'.open = h.open
        /\ \/ h'.err = h.err /\ h'.rdl = h.rdl /\ h'.wdl = h.wdl
           \/ h.phase = "sent" /\ ~h.busy
    BY <1>0, <1>18, CloseDoes DEF Agree
  <2>2. CASE h'.err = h.err /\ h'.rdl = h.rdl /\ h'.wdl = h.wdl
    BY <1>0, <2>1, <2>2, UnblockedSection
  <2>3. CASE h.phase = "sent" /\ ~h.busy
    BY <1>0, <2>1, <2>3, InIO, UnblockedAfter
  <2> QED
    BY <2>1, <2>2, <2>3
<1>19. ASSUME NEW t \in Threads, CloseConn(t)
       PROVE  Unblocked'
  BY <1>0, <1>19, CloseConnDoes DEF Unblocked
<1>20. ASSUME NEW t \in Threads, Cancel(t) \/ AbortLaterHook(t)
       PROVE  Unblocked'
  <2>1. UNCHANGED <<h, pc>>
    BY <1>20 DEF Cancel, AbortLaterHook
  <2> QED
    BY <1>0, <2>1, UnblockedOther DEF Stays
<1>21. ASSUME NEW d \in h.cfg.deadlines, SetReadDeadline(d)
       PROVE  Unblocked'
  BY <1>0, <1>21, SetReadDeadlineDoes, UnblockedOther
<1>22. ASSUME NEW d \in h.cfg.deadlines, SetWriteDeadline(d)
       PROVE  Unblocked'
  <2>1. pc' = pc
    BY <1>22 DEF SetWriteDeadline
  <2> QED
    BY <1>0, <1>22, <2>1, SetWriteDeadlineDoes, UnblockedOther DEF Stays
<1>23. ASSUME NEW t \in Threads, AbortLater(t)
       PROVE  Unblocked'
  BY <1>10, <1>23 DEF AbortLater
<1>24. ASSUME HandshakeExpired
       PROVE  Unblocked'
  BY <1>10, <1>24 DEF HandshakeExpired
<1> QED
  BY <1>1, <1>5, <1>6, <1>7, <1>9, <1>11, <1>12, <1>13, <1>15, <1>16, <1>17, <1>18, <1>19,
     <1>20, <1>21, <1>22, <1>23, <1>24
  DEF Next, Section, Aborting

-----------------------------------------------------------------------------
(* HandshakeDone.                                                          *)

\* A call that stays has the hook it had.
LEMMA HookStays ==
    ASSUME NEW u \in Threads, Stays(u)
    PROVE  pc'[u] = "hook" <=> pc[u] = "hook"
BY AwakeKinds DEF Stays, Asleep, Woken

\* A section of t that has nothing to do with HandshakeDone.
LEMMA HookKept ==
    ASSUME OneHook, HookLast, NEW t \in Threads, Rest(t), UNCHANGED <<aborter, doneRuns>>,
           pc'[t] # "hook", pc[t] # "hook",
           h.done /\ h.phase = "sent" => h'.done /\ h'.phase = "sent"
    PROVE  OneHook' /\ HookLast'
<1>1. \A u \in Threads : pc'[u] = "hook" <=> pc[u] = "hook"
  BY HookStays DEF Rest
<1>2. OneHook'
  BY <1>1 DEF OneHook
<1>3. NoHook => NoHook'
  BY <1>1 DEF NoHook
<1> QED
  BY <1>2, <1>3 DEF HookLast

\* A step of no caller that has not.
LEMMA HookKeptOther ==
    ASSUME OneHook, HookLast, \A u \in Threads : Stays(u), doneRuns' = doneRuns,
           \A u \in Threads : aborter'[u] = "hook" <=> aborter[u] = "hook",
           h.done /\ h.phase = "sent" => h'.done /\ h'.phase = "sent"
    PROVE  OneHook' /\ HookLast'
<1>1. \A u \in Threads : pc'[u] = "hook" <=> pc[u] = "hook"
  BY HookStays
<1>2. OneHook'
  BY <1>1 DEF OneHook
<1>3. NoHook => NoHook'
  BY <1>1 DEF NoHook
<1> QED
  BY <1>2, <1>3 DEF HookLast

\* A section of t that takes HandshakeDone on, which nobody had.
LEMMA HookTaken ==
    ASSUME NoHook, NEW t \in Threads, Rest(t), UNCHANGED <<aborter, doneRuns>>,
           pc'[t] = "hook", h'.done, h'.phase = "sent"
    PROVE  OneHook' /\ HookLast'
<1>1. \A u \in Threads : pc'[u] = "hook" <=> u = t
  BY HookStays DEF Rest, NoHook
<1>2. OneHook'
  BY <1>1 DEF OneHook, NoHook
<1> QED
  BY <1>2 DEF HookLast

\* The same of an AfterFunc.
LEMMA HookTakenOther ==
    ASSUME NoHook, NEW t \in Threads, \A u \in Threads : Stays(u), doneRuns' = doneRuns,
           \A u \in Threads : u # t => aborter'[u] = aborter[u],
           h'.done, h'.phase = "sent"
    PROVE  OneHook' /\ HookLast'
<1>1. \A u \in Threads : pc'[u] # "hook" /\ (aborter'[u] = "hook" => u = t)
  BY HookStays DEF NoHook
<1>2. OneHook'
  BY <1>1 DEF OneHook, NoHook
<1> QED
  BY <1>2 DEF HookLast

\* Who has it runs it, and nobody has it after.
LEMMA HookRun ==
    ASSUME OneHook, HookLast, doneRuns' = doneRuns + 1, h' = h,
           \A u \in Threads : pc'[u] # "hook" /\ aborter'[u] # "hook",
           \E t \in Threads : pc[t] = "hook" \/ aborter[t] = "hook"
    PROVE  OneHook' /\ HookLast' /\ doneRuns' = 1 /\ h.phase = "sent"
<1>1. doneRuns = 0 /\ ~NoHook
  BY DEF OneHook, NoHook
<1>2. h.done /\ h.phase = "sent"
  BY <1>1 DEF HookLast
<1>3. doneRuns' = 1
  BY <1>1
<1>4. OneHook'
  BY <1>3 DEF OneHook
<1> QED
  BY <1>2, <1>3, <1>4 DEF HookLast

\* A thread that is past its write.
LEMMA WroteKept ==
    ASSUME Wrote, NEW t \in Threads, Rest(t), hooks' = hooks, h'.cfg = h.cfg, ~PastWrite(t)',
           h'.phase = "sent" => h.phase = "sent" \/ PastWrite(t)
    PROVE  Wrote'
<1>1. ASSUME NEW u \in Threads, PastWrite(u)'
      PROVE  PastWrite(u)
  <2>1. u # t /\ Stays(u)
    BY <1>1 DEF Rest
  <2>2. pc'[u] = pc[u]
    BY <1>1, <2>1, AwakeKinds DEF PastWrite, Stays, Woken
  <2> QED
    BY <1>1, <2>2 DEF PastWrite, Early
<1> QED
  BY <1>1 DEF Wrote

\* The same of a step of no caller.
LEMMA WroteKeptOther ==
    ASSUME Wrote, \A u \in Threads : Stays(u), hooks \subseteq hooks', h'.cfg = h.cfg,
           h'.phase = h.phase
    PROVE  Wrote'
<1>1. ASSUME NEW u \in Threads, PastWrite(u)'
      PROVE  PastWrite(u)
  <2>1. pc'[u] = pc[u]
    BY <1>1, AwakeKinds DEF PastWrite, Stays, Woken
  <2> QED
    BY <1>1, <2>1 DEF PastWrite, Early
<1> QED
  BY <1>1 DEF Wrote

\* A call at none of these places is not past a write.
LEMMA NotPast ==
    ASSUME NEW t \in Threads, pc'[t] \in Free
    PROVE  ~PastWrite(t)'
BY DEF PastWrite, Free, Asleep

\* Once is inductive.
LEMMA OnceStep ==
    ASSUME IndInv, [Next]_vars
    PROVE  Once'
<1> USE DEF callvars, iovars, hookvars
<1>0. /\ TypeOK /\ InMode /\ Alone /\ Stored /\ Exchanged /\ h'.cfg = h.cfg
      /\ OneHook /\ HookLast /\ Wrote /\ OneWriter
  BY TypedStep DEF IndInv, Once, Alone
<1>1. CASE UNCHANGED vars
  BY <1>0, <1>1, HookKeptOther, WroteKeptOther DEF vars, Stays, Once
<1>2. \A t \in Threads : /\ pc[t] \in EarlyPCs => Early
                         /\ pc[t] \in WholePCs => ~Early
                         /\ AfterHandshake(op[t]) \in Free \ {"hook"} /\ Entry(op[t]) \in Free \ {"hook"}
                         /\ pc[t] = "hook" => nxt[t] \in Free \ {"hook"}
  <2> SUFFICES ASSUME NEW t \in Threads
               PROVE  /\ pc[t] \in EarlyPCs => Early
                      /\ pc[t] \in WholePCs => ~Early
                      /\ AfterHandshake(op[t]) \in Free \ {"hook"} /\ Entry(op[t]) \in Free \ {"hook"}
                      /\ pc[t] = "hook" => nxt[t] \in Free \ {"hook"}
    OBVIOUS
  <2>1. op[t] \in OpKinds /\ ModeOf(t)
    BY <1>0 DEF TypeOK, InMode
  <2>2. "hook" \notin EarlyPCs \cup WholePCs /\ HookPCs \subseteq Free \ {"hook"}
    BY DEF EarlyPCs, WholePCs, HookPCs, Free
  <2> QED
    BY <2>1, <2>2, EntryKinds DEF ModeOf, At, Free
<1>3. ASSUME NEW t \in Threads, NEW p, Walks(t, p), UNCHANGED <<aborter, hookvars>>,
             p \in Free \ {"hook"}, pc[t] # "hook"
      PROVE  Once'
  <2>1. Rest(t) /\ pc'[t] = p /\ h' = h
    BY <1>3, WalksRest DEF Walks
  <2>2. OneHook' /\ HookLast'
    BY <1>0, <1>3, <2>1, HookKept
  <2>3. Wrote'
    BY <1>0, <1>3, <2>1, NotPast, WroteKept
  <2> QED
    BY <2>2, <2>3 DEF Once
<1>4. ASSUME NEW t \in Threads,
             \/ Begin(t) \/ Check(t) \/ Peek(t) \/ Source(t)
             \/ WaitWritten(t) \/ WaitClaimed(t) \/ DeadlineWake(t) \/ DataIO(t)
      PROVE  Once'
  <2>0. UNCHANGED <<aborter, hookvars>>
    BY <1>4 DEF Begin, Check, Peek, Source, WaitWritten, WaitClaimed, DeadlineWake, DataIO
  <2>1. CASE Begin(t)
    <3>1. PICK o \in OpKinds, p \in PCs :
            Walks(t, p) /\ pc[t] = "idle" /\ p \in {AfterHandshake(o), "abort", Entry(o)}
      BY <1>0, <2>1, WalksDo
    <3>2. p \in Free \ {"hook"}
      BY <3>1, EntryKinds DEF Free
    <3> QED
      BY <1>3, <2>0, <3>1, <3>2
  <2>2. CASE \/ Check(t) \/ Peek(t) \/ Source(t) \/ WaitWritten(t) \/ WaitClaimed(t)
             \/ DeadlineWake(t) \/ DataIO(t)
    <3>1. PICK p \in {"idle", "halfClose", "claim", "run", "copy", "waitWritten", "sleepClaim",
                      "sleepWritten", "dataWrite", "await"} :
            Walks(t, p) /\ pc[t] # "hook"
      BY <1>0, <2>2, WalksDo
    <3>2. p \in Free \ {"hook"}
      BY <3>1 DEF Free, Asleep
    <3> QED
      BY <1>3, <2>0, <3>1, <3>2
  <2> QED
    BY <1>4, <2>1, <2>2
<1>5. ASSUME NEW t \in Threads, Copy(t) \/ SendIO(t)
      PROVE  Once'
  <2>1. PICK p \in {"sending", "source", "wrote"} : Walks(t, p) /\ pc[t] # "hook"
    BY <1>0, <1>5, WalksDo
  <2>2. UNCHANGED <<aborter, hookvars>>
    BY <1>5 DEF Copy, SendIO
  <2>3. Rest(t) /\ pc'[t] = p /\ h' = h
    BY <2>1, WalksRest DEF Walks
  <2>4. OneHook' /\ HookLast'
    BY <1>0, <2>1, <2>2, <2>3, HookKept
  <2>5. ~PastWrite(t)'
    BY <2>1, <2>3 DEF PastWrite
  <2>6. Wrote'
    BY <1>0, <2>2, <2>3, <2>5, WroteKept
  <2> QED
    BY <2>4, <2>6 DEF Once
<1>6. ASSUME NEW t \in Threads, WroteHook(t)
      PROVE  Once'
  <2>1. /\ pc[t] = "wrote"
        /\ Walks(t, IF Early THEN "sentLock" ELSE IF he[t] = "nil" THEN "reading" ELSE "ran")
    BY <1>0, <1>6, WalksDo
  <2>2. UNCHANGED <<aborter, doneRuns>> /\ "WroteHandshake" \in hooks'
    BY <1>6 DEF WroteHook
  <2>3. Rest(t) /\ h' = h /\ pc'[t] # "hook"
    BY <2>1, WalksRest DEF Walks
  <2>4. OneHook' /\ HookLast'
    BY <1>0, <2>1, <2>2, <2>3, HookKept
  <2>5. Wrote'
    BY <2>2 DEF Wrote
  <2> QED
    BY <2>4, <2>5 DEF Once
<1>7. ASSUME NEW t \in Threads, ReadIO(t) \/ ReplyHook(t)
      PROVE  Once'
  <2>1. PICK p \in {"gotReply", IF Early THEN "readDone" ELSE "ran"} :
          pc[t] \in {"reading", "gotReply"} /\ Walks(t, p)
    BY <1>0, <1>7, WalksDo
  <2>2. UNCHANGED <<aborter, doneRuns>> /\ hooks \subseteq hooks'
    BY <1>7 DEF ReadIO, ReplyHook
  <2>3. Rest(t) /\ h' = h /\ pc'[t] = p /\ pc'[t] # "hook"
    BY <2>1, WalksRest DEF Walks
  <2>4. OneHook' /\ HookLast'
    BY <1>0, <2>1, <2>2, <2>3, HookKept
  <2>5. \A u \in Threads : PastWrite(u)' => PastWrite(u)
    BY <2>1 DEF PastWrite, Walks, Early
  <2>6. Wrote'
    BY <1>0, <2>2, <2>3, <2>5 DEF Wrote
  <2> QED
    BY <2>4, <2>6 DEF Once
<1>8. ASSUME NEW t \in Threads, DoneHook(t)
      PROVE  Once'
  <2>1. pc[t] = "hook" /\ Walks(t, nxt[t])
    BY <1>0, <1>8, WalksDo
  <2>2. aborter' = aborter /\ doneRuns' = doneRuns + 1 /\ hooks \subseteq hooks'
    BY <1>8 DEF DoneHook
  <2>3. h' = h /\ pc'[t] = nxt[t] /\ nxt[t] \in Free \ {"hook"}
    BY <1>2, <2>1 DEF Walks
  <2>4. \A u \in Threads : pc'[u] # "hook" /\ aborter'[u] # "hook"
    BY <1>0, <2>1, <2>2, <2>3 DEF OneHook, Walks
  <2>5. OneHook' /\ HookLast'
    BY <1>0, <2>1, <2>2, <2>3, <2>4, HookRun
  <2>6. ~PastWrite(t)'
    BY <2>3, NotPast
  <2>7. \A u \in Threads : PastWrite(u)' => PastWrite(u)
    BY <2>1, <2>6 DEF PastWrite, Walks, Early
  <2>8. Wrote'
    BY <1>0, <2>2, <2>3, <2>7 DEF Wrote
  <2> QED
    BY <2>5, <2>8 DEF Once
<1>9. ASSUME NEW t \in Threads, AbortLaterHook(t)
      PROVE  Once'
  <2>1. aborter[t] = "hook" /\ UNCHANGED <<h, pc>> /\ doneRuns' = doneRuns + 1 /\ hooks \subseteq hooks'
    BY <1>9 DEF AbortLaterHook
  <2>2. aborter'[t] = "none" /\ \A u \in Threads : u # t => aborter'[u] = aborter[u]
    BY <1>0, <1>9 DEF AbortLaterHook, TypeOK
  <2>3. \A u \in Threads : pc'[u] # "hook" /\ aborter'[u] # "hook"
    BY <1>0, <2>1, <2>2 DEF OneHook
  <2>4. OneHook' /\ HookLast'
    BY <1>0, <2>1, <2>3, HookRun
  <2>5. Wrote'
    BY <1>0, <2>1, WroteKeptOther DEF Stays
  <2> QED
    BY <2>4, <2>5 DEF Once
<1>10. ASSUME NEW t \in Threads, Rest(t), UNCHANGED <<aborter, hookvars>>, pc[t] # "hook",
              pc'[t] \in Free,
              \/ /\ pc'[t] # "hook"
                 /\ h.done /\ h.phase = "sent" => h'.done /\ h'.phase = "sent"
              \/ /\ pc'[t] = "hook" /\ h'.done /\ h'.phase = "sent"
                 /\ ~h.done \/ h.phase # "sent",
              h'.phase = "sent" => h.phase = "sent" \/ PastWrite(t)
       PROVE  Once'
  <2>1. OneHook' /\ HookLast'
    <3>1. CASE /\ pc'[t] # "hook"
               /\ h.done /\ h.phase = "sent" => h'.done /\ h'.phase = "sent"
      BY <1>0, <1>10, <3>1, HookKept
    <3>2. CASE /\ pc'[t] = "hook" /\ h'.done /\ h'.phase = "sent"
               /\ ~h.done \/ h.phase # "sent"
      <4>1. NoHook
        BY <1>0, <3>2 DEF HookLast
      <4> QED
        BY <1>10, <3>2, <4>1, HookTaken
    <3> QED
      BY <1>10, <3>1, <3>2
  <2>2. Wrote'
    BY <1>0, <1>10, NotPast, WroteKept
  <2> QED
    BY <2>1, <2>2 DEF Once
<1>11. ASSUME NEW t \in Threads, AbortNow(t)
       PROVE  Once'
  <2>1. /\ Rest(t) /\ Aborted
        /\ pc'[t] = IF AbortHook(h) THEN "hook" ELSE Entry(op[t])
    BY <1>0, <1>11, AbortNowDoes
  <2>2. pc[t] # "hook" /\ UNCHANGED <<aborter, hookvars>>
    BY <1>11 DEF AbortNow
  <2>3. pc'[t] \in Free
    BY <1>2, <2>1 DEF Free
  <2>4. CASE AbortHook(h)
    <3>1. h'.done /\ h'.phase = "sent" /\ h.phase = "sent" /\ ~h.done
      BY <2>1, <2>4 DEF Aborted, Aborts
    <3> QED
      BY <1>10, <2>1, <2>2, <2>3, <2>4, <3>1
  <2>5. CASE ~AbortHook(h)
    <3>1. pc'[t] # "hook" /\ h'.done = h.done /\ h'.phase = h.phase
      BY <1>2, <2>1, <2>5 DEF Aborted
    <3> QED
      BY <1>10, <2>1, <2>2, <2>3, <3>1
  <2> QED
    BY <2>4, <2>5
<1>12. ASSUME NEW t \in Threads, AbortLater(t)
       PROVE  Once'
  <2>1. UnlockOther(AbortLocked(h)) /\ UNCHANGED hookvars /\ aborter[t] = "pending"
    BY <1>12 DEF AbortLater
  <2>2. /\ aborter'[t] = IF AbortHook(h) THEN "hook" ELSE "none"
        /\ \A u \in Threads : u # t => aborter'[u] = aborter[u]
    BY <1>0, <1>12 DEF AbortLater, TypeOK
  <2>3. Aborted /\ \A u \in Threads : Stays(u)
    BY <1>0, <2>1, AbortOtherDoes
  <2>4. Wrote'
    BY <1>0, <2>1, <2>3, WroteKeptOther DEF Aborted
  <2>5. CASE AbortHook(h)
    <3>1. h'.done /\ h'.phase = "sent" /\ ~h.done
      BY <2>3, <2>5 DEF Aborted, Aborts
    <3>2. NoHook
      BY <1>0, <3>1 DEF HookLast
    <3>3. OneHook' /\ HookLast'
      BY <2>1, <2>2, <2>3, <3>1, <3>2, HookTakenOther
    <3> QED
      BY <2>4, <3>3 DEF Once
  <2>6. CASE ~AbortHook(h)
    <3>1. h'.done = h.done /\ h'.phase = h.phase
      BY <2>3, <2>6 DEF Aborted
    <3>2. \A u \in Threads : aborter'[u] = "hook" <=> aborter[u] = "hook"
      BY <2>1, <2>2, <2>6
    <3>3. OneHook' /\ HookLast'
      BY <1>0, <2>1, <2>3, <3>1, <3>2, HookKeptOther
    <3> QED
      BY <2>4, <3>3 DEF Once
  <2> QED
    BY <2>5, <2>6
<1>13. ASSUME HandshakeExpired
       PROVE  Once'
  <2>1. /\ UnlockOther(AbortLocked(h)) /\ UNCHANGED <<callvars, hookvars>> /\ h.busy
    BY <1>13 DEF HandshakeExpired
  <2>2. Aborted /\ \A u \in Threads : Stays(u)
    BY <1>0, <2>1, AbortOtherDoes
  <2>3. h'.done = h.done /\ h'.phase = h.phase
    BY <2>1, <2>2 DEF Aborted
  <2>4. OneHook' /\ HookLast'
    BY <1>0, <2>1, <2>2, <2>3, HookKeptOther
  <2>5. Wrote'
    BY <1>0, <2>1, <2>2, <2>3, WroteKeptOther
  <2> QED
    BY <2>4, <2>5 DEF Once
<1>14. ASSUME NEW t \in Threads, Claim(t)
       PROVE  Once'
  <2>1. /\ Rest(t) /\ pc[t] = "claim" /\ h'.done = h.done
        /\ \/ h'.phase = h.phase /\ pc'[t] \in {"idle", "waitWritten", "await"}
           \/ h.phase = "idle" /\ h'.phase = "sending" /\ pc'[t] \in {"earlyBuf", "sending"}
    BY <1>0, <1>14, ClaimDoes DEF Claim
  <2>2. UNCHANGED <<aborter, hookvars>>
    BY <1>14 DEF Claim
  <2>3. OneHook' /\ HookLast'
    BY <1>0, <2>1, <2>2, HookKept
  <2>4. ~PastWrite(t)'
    BY <2>1 DEF PastWrite
  <2>5. Wrote'
    BY <1>0, <2>1, <2>2, <2>4, WroteKept
  <2> QED
    BY <2>3, <2>5 DEF Once
<1>15. ASSUME NEW t \in Threads, SendFailed(t)
       PROVE  Once'
  <2>1. Rest(t) /\ pc'[t] = "hook" /\ h'.done /\ h'.phase = "sent"
    BY <1>0, <1>15, SendFailedDoes, FailedUnestablished
  <2>2. pc[t] = "sentLock" /\ UNCHANGED <<aborter, hookvars>>
    BY <1>15 DEF SendFailed
  <2>3. pc[t] \in Writers
    BY <2>2 DEF Writers, SendPCs
  <2>4. h.phase # "sent"
    BY <1>0, <2>3 DEF OneWriter
  <2>5. PastWrite(t) /\ "hook" \in Free
    BY <2>2 DEF PastWrite, Free
  <2> QED
    BY <1>10, <2>1, <2>2, <2>4, <2>5
<1>16. ASSUME NEW t \in Threads, SendDone(t)
       PROVE  Once'
  <2>1. /\ Rest(t) /\ h'.phase = "sent" /\ (h.done => h'.done)
        /\ pc'[t] = "hook" <=> h'.done
        /\ pc'[t] \in {"hook", "idle", "dataWrite", "await"}
    BY <1>0, <1>16, SendDoneDoes
  <2>2. pc[t] = "sentLock" /\ UNCHANGED <<aborter, hookvars>>
    BY <1>16 DEF SendDone
  <2>3. pc[t] \in Writers
    BY <2>2 DEF Writers, SendPCs
  <2>4. h.phase # "sent"
    BY <1>0, <2>3 DEF OneWriter
  <2>5. PastWrite(t) /\ pc'[t] \in Free
    BY <2>1, <2>2 DEF PastWrite, Free
  <2> QED
    BY <1>10, <2>1, <2>2, <2>4, <2>5
<1>17. ASSUME NEW t \in Threads, ClaimRead(t)
       PROVE  Once'
  <2>1. /\ Rest(t) /\ h'.phase = h.phase
        /\ \/ h'.done = h.done /\ pc'[t] \in {"idle", AfterHandshake(op[t]), "sleepRead", "reading"}
           \/ pc'[t] = "hook" /\ h'.done /\ ~h.done /\ h.phase = "sent"
    BY <1>0, <1>17, ClaimReadDoes DEF Agree
  <2>2. pc[t] \in {"claimRead", "await"} /\ UNCHANGED <<aborter, hookvars>>
    BY <1>17 DEF ClaimRead
  <2>3. CASE pc'[t] = "reading" /\ h'.done = h.done
    <3>1. Early
      BY <1>2, <2>2 DEF EarlyPCs
    <3>2. ~PastWrite(t)'
      BY <1>0, <2>3, <3>1 DEF PastWrite, Early
    <3>3. OneHook' /\ HookLast'
      BY <1>0, <2>1, <2>2, <2>3, HookKept
    <3>4. Wrote'
      BY <1>0, <2>1, <2>2, <3>2, WroteKept
    <3> QED
      BY <3>3, <3>4 DEF Once
  <2>4. CASE pc'[t] # "reading"
    <3>1. /\ pc'[t] \in Free
          /\ \/ pc'[t] # "hook" /\ h'.done = h.done
             \/ pc'[t] = "hook" /\ h'.done /\ ~h.done /\ h.phase = "sent"
      BY <1>2, <2>1, <2>4 DEF Free, Asleep
    <3> QED
      BY <1>10, <2>1, <2>2, <3>1
  <2> QED
    BY <2>1, <2>3, <2>4
<1>18. ASSUME NEW t \in Threads, ReadEnd(t)
       PROVE  Once'
  <2>1. ~h.done => h.err = "nil"
    BY <1>0 DEF Stored
  <2>2. /\ Rest(t) /\ Returns(t) /\ h'.phase = h.phase /\ h'.done
        /\ pc'[t] = "hook" <=> ~h.done /\ h.phase = "sent"
    BY <1>0, <1>18, <2>1, ReadEndDoes
  <2>3. pc[t] = "readDone" /\ UNCHANGED <<aborter, hookvars>>
    BY <1>18 DEF ReadEnd
  <2>4. pc'[t] \in Free
    BY <1>2, <2>2 DEF Returns, Free
  <2> QED
    BY <1>10, <2>2, <2>3, <2>4
<1>19. ASSUME NEW t \in Threads, Run(t)
       PROVE  Once'
  <2>1. /\ Rest(t) /\ pc[t] = "run"
        /\ \/ h'.phase = h.phase /\ h'.done = h.done
              /\ pc'[t] \in {"idle", AfterHandshake(op[t]), "sleepRun"}
           \/ h'.phase = h.phase /\ h.phase = "idle" /\ pc'[t] = "idle"
           \/ h.phase = "idle" /\ h'.phase = "sending" /\ pc'[t] = "sending"
    BY <1>0, <1>19, RunDoes DEF Run, Agree
  <2>2. UNCHANGED <<aborter, hookvars>>
    BY <1>19 DEF Run
  <2>3. CASE pc'[t] = "sending" /\ h.phase = "idle" /\ h'.phase = "sending"
    <3>1. ~PastWrite(t)'
      BY <2>3 DEF PastWrite
    <3>2. OneHook' /\ HookLast'
      BY <1>0, <2>1, <2>2, <2>3, HookKept
    <3>3. Wrote'
      BY <1>0, <2>1, <2>2, <2>3, <3>1, WroteKept
    <3> QED
      BY <3>2, <3>3 DEF Once
  <2>4. CASE h'.phase = h.phase
    <3>1. pc'[t] \in Free \ {"hook"} /\ (h'.done = h.done \/ h.phase = "idle")
      BY <1>2, <2>1, <2>4 DEF Free, Asleep
    <3> QED
      BY <1>10, <2>1, <2>2, <2>4, <3>1
  <2> QED
    BY <2>1, <2>3, <2>4
<1>20. ASSUME NEW t \in Threads, RunEnd(t)
       PROVE  Once'
  <2>1. pc[t] = "ran" /\ UNCHANGED <<aborter, hookvars>>
    BY <1>20 DEF RunEnd
  <2>2. ~h.done /\ h.err = "nil" /\ ~Early
    BY <1>0, <2>1, RanAlone
  <2>3. Rest(t) /\ pc'[t] = "hook" /\ h'.done /\ h'.phase = "sent"
    BY <1>0, <1>20, <2>2, RunEndDoes
  <2>4. PastWrite(t) /\ pc'[t] \in Free
    BY <2>1, <2>2, <2>3 DEF PastWrite, Free
  <2> QED
    BY <1>10, <2>1, <2>2, <2>3, <2>4
<1>21. ASSUME NEW t \in Threads, Close(t)
       PROVE  Once'
  <2>1. /\ Rest(t) /\ h'.phase = h.phase
        /\ \/ h'.done = h.done /\ pc'[t] \in {"idle", "ncClose"}
           \/ pc'[t] = "hook" /\ h'.done /\ ~h.done /\ h.phase = "sent"
    BY <1>0, <1>21, CloseDoes DEF Agree
  <2>2. pc[t] = "close" /\ UNCHANGED <<aborter, hookvars>>
    BY <1>21 DEF Close
  <2>3. pc'[t] \in Free
    BY <2>1 DEF Free
  <2> QED
    BY <1>10, <2>1, <2>2, <2>3
<1>22. ASSUME NEW t \in Threads, CloseConn(t)
       PROVE  Once'
  <2>1. Rest(t) /\ pc'[t] = "idle"
    BY <1>0, <1>22 DEF CloseConn, Go, Rest, Stays, TypeOK
  <2>2. h'.phase = h.phase /\ h'.done = h.done
    BY <1>0, <1>22, CloseConnDoes
  <2>3. pc[t] = "ncClose" /\ UNCHANGED <<aborter, hookvars>>
    BY <1>22 DEF CloseConn
  <2>4. pc'[t] \in Free
    BY <2>1 DEF Free
  <2> QED
    BY <1>10, <2>1, <2>2, <2>3, <2>4
<1>23. ASSUME NEW t \in Threads, Cancel(t)
       PROVE  Once'
  <2>1. UNCHANGED <<h, pc, hookvars>>
    BY <1>23 DEF Cancel
  <2>2. \A u \in Threads : aborter'[u] = "hook" <=> aborter[u] = "hook"
    BY <1>0, <1>23 DEF Cancel, TypeOK
  <2> QED
    BY <1>0, <2>1, <2>2, HookKeptOther, WroteKeptOther DEF Stays, Once
<1>24. ASSUME NEW d \in h.cfg.deadlines, SetReadDeadline(d)
       PROVE  Once'
  <2>1. UNCHANGED <<aborter, hookvars>>
    BY <1>24 DEF SetReadDeadline
  <2>2. h'.phase = h.phase /\ h'.done = h.done /\ \A u \in Threads : Stays(u)
    BY <1>0, <1>24, SetReadDeadlineDoes
  <2> QED
    BY <1>0, <2>1, <2>2, HookKeptOther, WroteKeptOther DEF Once
<1>25. ASSUME NEW d \in h.cfg.deadlines, SetWriteDeadline(d)
       PROVE  Once'
  <2>1. UNCHANGED <<pc, aborter, hookvars>>
    BY <1>25 DEF SetWriteDeadline
  <2>2. h'.phase = h.phase /\ h'.done = h.done
    BY <1>0, <1>25, SetWriteDeadlineDoes
  <2> QED
    BY <1>0, <2>1, <2>2, HookKeptOther, WroteKeptOther DEF Stays, Once
<1> QED
  BY <1>1, <1>4, <1>5, <1>6, <1>7, <1>8, <1>9, <1>11, <1>12, <1>13, <1>14, <1>15, <1>16, <1>17,
     <1>18, <1>19, <1>20, <1>21, <1>22, <1>23, <1>24, <1>25
  DEF Next, Section, Aborting


-----------------------------------------------------------------------------
(* What holds of every behaviour.                                          *)

\* A Conn starts with no handshake and no call.
LEMMA IndInvInit == Init => IndInv
<1> SUFFICES ASSUME Init PROVE IndInv
  OBVIOUS
<1>1. PICK cfg \in Configs :
        h = [cfg |-> cfg, phase |-> "idle", busy |-> FALSE, done |-> FALSE,
             closed |-> FALSE, abortErr |-> "nil", err |-> "nil", readDL |-> "none",
             replyDL |-> FALSE, readReady |-> FALSE, writeReady |-> FALSE,
             wake |-> FALSE, rdl |-> "none", wdl |-> "none", open |-> TRUE]
  BY DEF Init
<1>2. /\ h.phase = "idle" /\ ~h.busy /\ ~h.done /\ ~h.closed /\ h.err = "nil" /\ ~h.replyDL
      /\ h.readReady = FALSE /\ h.writeReady = FALSE
  BY <1>1
<1>3. h \in ConnRecord
  BY <1>1 DEF ConnRecord, Errors, Deadlines
<1>4. /\ \A t \in Threads : pc[t] = "idle" /\ aborter[t] = "none"
      /\ hsOut = "none" /\ replies = FALSE /\ doneRuns = 0
  BY DEF Init
<1>5. TypeOK
  BY <1>2, <1>3 DEF Init, TypeOK, PCs, OpKinds, Errors
<1>6. InMode
  BY <1>4 DEF InMode, ModeOf, At, EarlyPCs, WholePCs
<1>7. Alone
  BY <1>2, <1>4 DEF Alone, OneWriter, OneReader, Writers, Readers, SendPCs
<1>8. Stored
  BY <1>2 DEF Stored
<1>9. Exchanged
  BY <1>2, <1>4 DEF Exchanged, Knows, At
<1>10. Sleeping
  BY <1>4 DEF Sleeping, Reason
<1>11. Unblocked
  BY <1>2 DEF Unblocked
<1>12. Once
  BY <1>2, <1>4 DEF Once, OneHook, HookLast, NoHook, Wrote, PastWrite
<1> QED
  BY <1>5, <1>6, <1>7, <1>8, <1>9, <1>10, <1>11, <1>12 DEF IndInv

\* IndInv is inductive.
THEOREM Invariance == Spec => []IndInv
<1>1. IndInv /\ [Next]_vars => IndInv'
  BY TypeStep, ModeStep, AloneStep, StoredStep, ExchangedStep, SleepingStep, UnblockedStep, OnceStep
  DEF IndInv
<1> QED
  BY <1>1, IndInvInit, PTL DEF Spec

\* The fields c.mu guards, the places of the calls and their locals keep their
\* types, and a reply deadline is pending only while a call reads the replies.
THEOREM TypeCorrect == Spec => []TypeOK
<1>1. IndInv => TypeOK
  BY DEF IndInv
<1> QED
  BY <1>1, Invariance, PTL

\* A set that holds no two elements has at most one.
LEMMA AtMostOne ==
    ASSUME NEW S, \A x, y \in S : x = y
    PROVE  Cardinality(S) <= 1
<1>1. CASE S = {}
  BY <1>1, FS_EmptySet
<1>2. CASE S # {}
  <2>1. PICK x \in S : TRUE
    BY <1>2
  <2>2. S = {x}
    BY <2>1
  <2> QED
    BY <2>2, FS_Singleton
<1> QED
  BY <1>1, <1>2

\* In each mode the calls that write the handshake and those that read the replies
\* are of the writers and the readers the invariant counts.
LEMMA CallsCounted ==
    ASSUME IndInv, NEW t \in Threads
    PROVE  /\ pc[t] \in SendPCs => pc[t] \in Writers
           /\ pc[t] \in ReadPCs => pc[t] \in Readers
           /\ pc[t] \in Writers <=>
                pc[t] \in SendPCs \/ (~Early /\ pc[t] \in {"reading", "gotReply", "ran"})
<1>1. /\ pc[t] = "readDone" => Early
      /\ pc[t] = "ran" => ~Early
  BY DEF IndInv, InMode, ModeOf, At, EarlyPCs, WholePCs
<1>2. CASE Early
  BY <1>1, <1>2 DEF Writers, Readers, SendPCs, ReadPCs
<1>3. CASE ~Early
  BY <1>1, <1>3 DEF Writers, Readers, SendPCs, ReadPCs
<1> QED
  BY <1>2, <1>3

\* The handshake comes first, and once: whatever calls race for a new Conn, one of
\* them sends the handshake and one reads the replies, the fast paths that skip
\* c.mu are current, and no call writes data before the handshake went out in
\* full, or reads data or half-closes before the replies were consumed.
THEOREM HandshakeComesFirst == Spec => []HandshakeFirst
<1>1. ASSUME IndInv PROVE HandshakeFirst
  <2>0. OneWriter /\ OneReader /\ Stored /\ Exchanged
    BY <1>1 DEF IndInv, Alone
  <2>1. Cardinality({t \in Threads : pc[t] \in SendPCs}) <= 1
    <3>1. \A t, u \in {v \in Threads : pc[v] \in SendPCs} : t = u
      BY <1>1, <2>0, CallsCounted DEF OneWriter
    <3> QED
      BY <3>1, AtMostOne
  <2>2. Cardinality({t \in Threads : pc[t] \in ReadPCs}) <= 1
    <3>1. \A t, u \in {v \in Threads : pc[v] \in ReadPCs} : t = u
      BY <1>1, <2>0, CallsCounted DEF OneReader
    <3> QED
      BY <3>1, AtMostOne
  <2>3. h.phase = "sending" <=>
          \E t \in Threads : pc[t] \in SendPCs \/
              (~Early /\ pc[t] \in {"reading", "gotReply", "ran"})
    BY <1>1, <2>0, CallsCounted DEF OneWriter
  <2>4. /\ h.readReady = (h.err = "nil" /\ ~h.closed /\ h.done)
        /\ h.writeReady = (h.err = "nil" /\ ~h.closed /\ h.phase = "sent")
    BY <2>0 DEF Stored
  <2>5. \A t \in Threads :
          /\ pc[t] = "dataWrite" => hsOut = "all"
          /\ pc[t] \in {"dataRead", "halfClose"} => replies
    BY <2>0 DEF Exchanged, Knows, At
  <2> QED
    BY <2>1, <2>2, <2>3, <2>4, <2>5 DEF HandshakeFirst
<1>2. IndInv => HandshakeFirst
  BY <1>1
<1> QED
  BY <1>2, Invariance, PTL

\* No wakeup is lost, and on a conn that can set deadlines a failed handshake
\* leaves no call in its I/O without one.
THEOREM NoCallStranded ==
    ASSUME HasDeadlines
    PROVE  Spec => []NoneStranded
<1>1. IndInv => NoneStranded
  BY DEF IndInv, Sleeping, Reason, Unblocked, Held, NoneStranded
<1> QED
  BY <1>1, Invariance, PTL

-----------------------------------------------------------------------------
(* The handshake ends once.                                                *)

\* The phase, the end of the handshake and its error never go back.
Onward ==
    /\ h.phase = "sent" => h'.phase = "sent"
    /\ h.phase = "sending" => h'.phase # "idle"
    /\ h.done => h'.done
    /\ h.err # "nil" => h'.err = h.err

\* No step takes the handshake back.
LEMMA OnwardStep ==
    ASSUME IndInv, [Next]_vars
    PROVE  Onward
<1>0. TypeOK /\ InMode /\ Alone /\ Stored /\ Exchanged /\ (h.err # "nil" => h.done)
  BY DEF IndInv, Stored
<1>1. CASE h' = h
  BY <1>1 DEF Onward
<1>2. ASSUME Aborted
      PROVE  Onward
  BY <1>0, <1>2 DEF Aborted, Aborts, Onward
<1>3. ASSUME NEW t \in Threads, AbortNow(t) \/ AbortLater(t)
      PROVE  Onward
  BY <1>0, <1>2, <1>3, AbortNowDoes, AbortOtherDoes DEF AbortLater
<1>4. CASE HandshakeExpired
  BY <1>0, <1>2, <1>4, AbortOtherDoes DEF HandshakeExpired
<1>5. ASSUME NEW t \in Threads, Claim(t)
      PROVE  Onward
  BY <1>0, <1>5, ClaimDoes DEF Onward
<1>6. ASSUME NEW t \in Threads, SendFailed(t)
      PROVE  Onward
  BY <1>0, <1>6, SendFailedDoes, FailedUnestablished DEF Onward
<1>7. ASSUME NEW t \in Threads, SendDone(t)
      PROVE  Onward
  BY <1>0, <1>7, SendDoneDoes DEF Onward
<1>8. ASSUME NEW t \in Threads, ClaimRead(t)
      PROVE  Onward
  BY <1>0, <1>8, ClaimReadDoes DEF Onward, Agree
<1>9. ASSUME NEW t \in Threads, ReadEnd(t)
      PROVE  Onward
  <2>1. ~h.done => h.err = "nil"
    BY <1>0
  <2> QED
    BY <1>0, <1>9, <2>1, ReadEndDoes DEF Onward
<1>10. ASSUME NEW t \in Threads, Run(t)
       PROVE  Onward
  BY <1>0, <1>10, RunDoes DEF Onward, Agree
<1>11. ASSUME NEW t \in Threads, RunEnd(t)
       PROVE  Onward
  <2>1. ~h.done /\ h.err = "nil"
    BY <1>0, <1>11, RanAlone DEF RunEnd
  <2> QED
    BY <1>0, <1>11, <2>1, RunEndDoes DEF Onward
<1>12. ASSUME NEW t \in Threads, Close(t)
       PROVE  Onward
  BY <1>0, <1>12, CloseDoes DEF Onward, Agree
<1>13. ASSUME NEW t \in Threads, CloseConn(t)
       PROVE  Onward
  BY <1>0, <1>13, CloseConnDoes DEF Onward
<1>14. ASSUME NEW d \in h.cfg.deadlines, SetReadDeadline(d) \/ SetWriteDeadline(d)
       PROVE  Onward
  BY <1>0, <1>14, SetReadDeadlineDoes, SetWriteDeadlineDoes DEF Onward
<1>15. ASSUME NEW t \in Threads,
              \/ Begin(t) \/ Check(t) \/ Peek(t) \/ Copy(t) \/ Source(t) \/ SendIO(t)
              \/ WroteHook(t) \/ WaitWritten(t) \/ WaitClaimed(t) \/ DeadlineWake(t)
              \/ ReadIO(t) \/ ReplyHook(t) \/ DoneHook(t) \/ DataIO(t)
              \/ Cancel(t) \/ AbortLaterHook(t)
       PROVE  h' = h
  BY <1>15
  DEF Begin, Check, Peek, Copy, Source, SendIO, WroteHook, WaitWritten, WaitClaimed,
      DeadlineWake, ReadIO, ReplyHook, DoneHook, DataIO, Cancel, AbortLaterHook
<1>16. CASE UNCHANGED vars
  BY <1>1, <1>16 DEF vars
<1> QED
  BY <1>1, <1>3, <1>4, <1>5, <1>6, <1>7, <1>8, <1>9, <1>10, <1>11, <1>12, <1>13, <1>14, <1>15,
     <1>16
  DEF Next, Section, Aborting

\* HandshakeDone runs at most once, after WroteHandshake.
HookOnce == doneRuns' # doneRuns => doneRuns' = 1 /\ "WroteHandshake" \in hooks

\* Only who has HandshakeDone to run runs it.
LEMMA HookOnceStep ==
    ASSUME IndInv, [Next]_vars
    PROVE  HookOnce
<1> USE DEF callvars, iovars, hookvars
<1>0. TypeOK /\ InMode /\ OneHook /\ HookLast /\ Wrote
  BY DEF IndInv, Once
<1>1. ASSUME NEW t \in Threads, DoneHook(t)
      PROVE  HookOnce
  <2>1. pc[t] = "hook" /\ h' = h /\ aborter' = aborter /\ doneRuns' = doneRuns + 1
    BY <1>1 DEF DoneHook
  <2>2. nxt[t] # "hook"
    BY <1>0, <2>1 DEF InMode, ModeOf, HookPCs
  <2>3. \A u \in Threads : pc'[u] # "hook" /\ aborter'[u] # "hook"
    BY <1>0, <1>1, <2>1, <2>2 DEF DoneHook, Go, OneHook, TypeOK
  <2>4. doneRuns' = 1 /\ h.phase = "sent"
    BY <1>0, <2>1, <2>3, HookRun
  <2> QED
    BY <1>0, <2>4 DEF HookOnce, Wrote
<1>2. ASSUME NEW t \in Threads, AbortLaterHook(t)
      PROVE  HookOnce
  <2>1. aborter[t] = "hook" /\ UNCHANGED <<h, pc>> /\ doneRuns' = doneRuns + 1
    BY <1>2 DEF AbortLaterHook
  <2>2. \A u \in Threads : pc'[u] # "hook" /\ aborter'[u] # "hook"
    BY <1>0, <1>2, <2>1 DEF AbortLaterHook, OneHook, TypeOK
  <2>3. doneRuns' = 1 /\ h.phase = "sent"
    BY <1>0, <2>1, <2>2, HookRun
  <2> QED
    BY <1>0, <2>3 DEF HookOnce, Wrote
<1>3. ASSUME doneRuns' = doneRuns
      PROVE  HookOnce
  BY <1>3 DEF HookOnce
<1>4. ASSUME NEW t \in Threads,
             \/ Begin(t) \/ Check(t) \/ Peek(t) \/ Copy(t) \/ Source(t) \/ SendIO(t)
             \/ WroteHook(t) \/ WaitWritten(t) \/ WaitClaimed(t) \/ DeadlineWake(t)
             \/ ReadIO(t) \/ ReplyHook(t) \/ DataIO(t) \/ Cancel(t)
      PROVE  doneRuns' = doneRuns
  BY <1>4
  DEF Begin, Check, Peek, Copy, Source, SendIO, WroteHook, WaitWritten, WaitClaimed,
      DeadlineWake, ReadIO, ReplyHook, DataIO, Cancel
<1>5. ASSUME NEW t \in Threads,
             \/ AbortNow(t) \/ Claim(t) \/ SendFailed(t) \/ SendDone(t) \/ ClaimRead(t)
             \/ ReadEnd(t) \/ Run(t) \/ RunEnd(t) \/ Close(t) \/ CloseConn(t) \/ AbortLater(t)
      PROVE  doneRuns' = doneRuns
  BY <1>5
  DEF AbortNow, Claim, SendFailed, SendDone, ClaimRead, ReadEnd, Run, RunEnd, Close, CloseConn,
      AbortLater
<1>6. ASSUME \/ HandshakeExpired
             \/ \E d \in h.cfg.deadlines : SetReadDeadline(d) \/ SetWriteDeadline(d)
      PROVE  doneRuns' = doneRuns
  BY <1>6 DEF HandshakeExpired, SetReadDeadline, SetWriteDeadline
<1>7. CASE UNCHANGED vars
  BY <1>3, <1>7 DEF vars
<1> QED
  BY <1>1, <1>2, <1>3, <1>4, <1>5, <1>6, <1>7 DEF Next, Section, Aborting

\* The handshake ends once, whoever ends it: the phase only advances, an ended
\* handshake stays ended with the error it ended with, and HandshakeDone runs at
\* most once, after WroteHandshake.
THEOREM HandshakeEndsOnce == Spec => EndsOnce
<1>1. IndInv /\ [Next]_vars => [Onward /\ HookOnce]_vars
  BY OnwardStep, HookOnceStep
<1> QED
  BY <1>1, Invariance, PTL DEF Spec, EndsOnce, Onward, HookOnce

=============================================================================
