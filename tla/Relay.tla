------------------------------- MODULE Relay -------------------------------
(***************************************************************************)
(* Relayer.Relay (go/socks0/server/relay.go): two goroutines copy between  *)
(* a client and a target, with an idle timeout, a half-close timeout, and  *)
(* an error, a panic or ctx that closes both conns.                        *)
(*                                                                         *)
(* Time is a clock of ticks.  It advances only while every goroutine is    *)
(* blocked in I/O short of its deadline, so timers fire on time, and the   *)
(* goroutines interleave freely within a tick.                             *)
(***************************************************************************)
EXTENDS Integers

CONSTANTS
    Idles,       \* the values of IdleTimeout; 0: none
    HalfClose,   \* HalfCloseTimeout; 0: none
    MaxBytes,    \* bound: bytes each peer sends
    MaxNow,      \* bound: how far the clock runs
    HalfClosers, \* the conns that can CloseWrite
    Stalls,      \* a peer may stop reading, so that a write blocks
    Faults,      \* I/O may fail, the second goroutine may panic
    CtxCancels   \* ctx may be cancelled

Dirs == {"up", "down"}
Ends == {"client", "target"}
Src(d) == IF d = "up" THEN "client" ELSE "target"
Dst(d) == IF d = "up" THEN "target" ELSE "client"

ASSUME RelayAssumption ==
    /\ Idles \subseteq Nat /\ HalfClose \in Nat
    /\ MaxBytes \in Nat /\ MaxNow \in Nat
    /\ HalfClosers \in SUBSET Ends
    /\ Stalls \in BOOLEAN /\ Faults \in BOOLEAN /\ CtxCancels \in BOOLEAN

VARIABLES
    idle,         \* rl.IdleTimeout
    now,          \* the clock
    sent, fin,    \* what a peer has sent, and its FIN
    open,         \* a conn is not closed
    shut,         \* CloseWrite was done on a conn
    rdl, wdl,     \* a conn's deadlines
    pc,           \* where the copy of a direction is
    arming,       \* the deadline it computed and has not set yet
    moved,        \* bytes it has read
    outcome,      \* how it ended
    lastMove, halfCloseAt,
    once, err,    \* relayState.once and err
    cut,          \* when a read deadline first ended the relay
    ctxDone,
    returned

\* Past every deadline.
Never == MaxNow + idle + HalfClose + 1

netvars == <<sent, fin>>
connvars == <<open, shut>>
dlvars == <<rdl, wdl>>
dirvars == <<pc, arming, moved, outcome>>
endvars == <<once, err, cut, ctxDone, returned>>
vars == <<idle, now, netvars, connvars, dlvars, dirvars, lastMove, halfCloseAt, endvars>>

TypeOK ==
    /\ idle \in Idles
    /\ now \in 0 .. MaxNow
    /\ sent \in [Ends -> 0 .. MaxBytes] /\ fin \in [Ends -> BOOLEAN]
    /\ open \in [Ends -> BOOLEAN] /\ shut \in [Ends -> BOOLEAN]
    /\ rdl \in [Ends -> 0 .. Never] /\ wdl \in [Ends -> 0 .. Never]
    /\ pc \in [Dirs -> {"arm", "set", "read", "write", "eof", "deadlines",
                        "closeWrite", "ended"}]
    /\ arming \in [Dirs -> 0 .. Never]
    /\ moved \in [Dirs -> 0 .. MaxBytes]
    /\ \A d \in Dirs : moved[d] <= sent[Src(d)]
    /\ outcome \in [Dirs -> {"none", "eof", "error"}]
    /\ lastMove \in 0 .. now
    /\ halfCloseAt \in 0 .. Never
    /\ once \in BOOLEAN
    /\ err \in {"nil", "timeout", "io", "ctx", "panic"}
    /\ cut \in {-1} \cup 0 .. MaxNow
    /\ ctxDone \in BOOLEAN /\ returned \in BOOLEAN

LoopTop == IF idle > 0 THEN "arm" ELSE "read"

Init ==
    /\ idle \in Idles
    /\ now = 0
    /\ sent = [c \in Ends |-> 0] /\ fin = [c \in Ends |-> FALSE]
    /\ open = [c \in Ends |-> TRUE] /\ shut = [c \in Ends |-> FALSE]
    /\ rdl = [c \in Ends |-> Never] /\ wdl = [c \in Ends |-> Never]
    /\ pc = [d \in Dirs |-> LoopTop]
    /\ arming = [d \in Dirs |-> 0]
    /\ moved = [d \in Dirs |-> 0]
    /\ outcome = [d \in Dirs |-> "none"]
    /\ lastMove = 0
    /\ halfCloseAt = 0
    /\ once = FALSE /\ err = "nil" /\ cut = -1
    /\ ctxDone = FALSE /\ returned = FALSE

Go(d, p) == pc' = [pc EXCEPT ![d] = p]

-----------------------------------------------------------------------------
(* The peers and the clock.                                                *)

PeerSends(c) ==
    /\ ~fin[c] /\ ~returned
    /\ \/ sent[c] < MaxBytes /\ sent' = [sent EXCEPT ![c] = @ + 1] /\ UNCHANGED fin
       \/ fin' = [fin EXCEPT ![c] = TRUE] /\ UNCHANGED sent
    /\ UNCHANGED <<idle, now, connvars, dlvars, dirvars, lastMove, halfCloseAt, endvars>>

\* A direction that only its peers or the clock can move.
Blocked(d) ==
    \/ pc[d] = "ended"
    \/ /\ pc[d] = "read" /\ open[Src(d)]
       /\ moved[d] = sent[Src(d)] /\ ~fin[Src(d)]
       /\ now < rdl[Src(d)]
    \/ /\ pc[d] = "write" /\ open[Dst(d)]
       /\ Stalls
       /\ now < wdl[Dst(d)]

Tick ==
    /\ now < MaxNow
    /\ ~returned
    /\ \A d \in Dirs : Blocked(d)
    /\ now' = now + 1
    /\ UNCHANGED <<idle, netvars, connvars, dlvars, dirvars, lastMove, halfCloseAt, endvars>>

-----------------------------------------------------------------------------
(* copy and copyIdle.                                                      *)

\* Mutant: the error is recorded, the conns stay open.
FailKeepsOpen(e) ==
    /\ once' = TRUE
    /\ err' = IF once THEN err ELSE e
    /\ UNCHANGED open

\* Mutant: the conns are closed, the error is dropped.
FailSilently(e) ==
    /\ once' = TRUE
    /\ open' = [c \in Ends |-> FALSE]
    /\ UNCHANGED err

\* fail: the first error stays, both conns are closed.
Fail(e) ==
    /\ once' = TRUE
    /\ err' = IF once THEN err ELSE e
    /\ open' = [c \in Ends |-> FALSE]

\* copy ends with an error.
CopyFails(d, e) ==
    /\ Fail(e)
    /\ outcome' = [outcome EXCEPT ![d] = "error"]
    /\ Go(d, "ended")

\* readDeadline reads lastMove and halfCloseAt ...
Arm(d) ==
    /\ pc[d] = "arm"
    /\ LET idleAt == lastMove + idle
       IN arming' = [arming EXCEPT ![d] =
            IF halfCloseAt # 0 /\ halfCloseAt < idleAt THEN halfCloseAt ELSE idleAt]
    /\ Go(d, "set")
    /\ UNCHANGED <<idle, now, netvars, connvars, dlvars, moved, outcome, lastMove,
                   halfCloseAt, endvars>>

\* ... and the deadline is set later.
SetReadDeadline(d) ==
    /\ pc[d] = "set"
    /\ rdl' = [rdl EXCEPT ![Src(d)] = arming[d]]
    /\ Go(d, "read")
    /\ UNCHANGED <<idle, now, netvars, connvars, wdl, arming, moved, outcome, lastMove,
                   halfCloseAt, endvars>>

\* Mutant: the deadline is stored for the time of the move.
MoveTimeAhead == now + idle

MoveTime == now

\* Bytes are read; copyIdle stamps them and gives their write its deadline.
Read(d) ==
    /\ pc[d] = "read"
    /\ open[Src(d)] /\ now < rdl[Src(d)]
    /\ moved[d] < sent[Src(d)]
    /\ moved' = [moved EXCEPT ![d] = sent[Src(d)]]
    /\ IF idle > 0
       THEN lastMove' = MoveTime /\ wdl' = [wdl EXCEPT ![Dst(d)] = now + idle]
       ELSE UNCHANGED <<lastMove, wdl>>
    /\ Go(d, "write")
    /\ UNCHANGED <<idle, now, netvars, connvars, rdl, arming, outcome, halfCloseAt, endvars>>

ReadEOF(d) ==
    /\ pc[d] = "read"
    /\ open[Src(d)] /\ now < rdl[Src(d)]
    /\ fin[Src(d)] /\ moved[d] = sent[Src(d)]
    /\ outcome' = [outcome EXCEPT ![d] = "eof"]
    /\ Go(d, "eof")
    /\ UNCHANGED <<idle, now, netvars, connvars, dlvars, arming, moved, lastMove,
                   halfCloseAt, endvars>>

\* otherDirectionMoved, of a read that timed out.
OtherDirectionMoved == idle > 0 /\ now - lastMove < idle /\ halfCloseAt = 0

ReadTimeout(d) ==
    /\ pc[d] = "read"
    /\ open[Src(d)] /\ now >= rdl[Src(d)]
    /\ IF OtherDirectionMoved
       THEN Go(d, "arm") /\ UNCHANGED <<once, err, cut, open, outcome>>
       ELSE CopyFails(d, "timeout") /\ cut' = IF once THEN cut ELSE now
    /\ UNCHANGED <<idle, now, netvars, shut, dlvars, arming, moved, lastMove, halfCloseAt,
                   ctxDone, returned>>

\* Once half-closed, every read re-arms its deadline.
Write(d) ==
    /\ pc[d] = "write"
    /\ open[Dst(d)] /\ ~shut[Dst(d)] /\ now < wdl[Dst(d)]
    /\ Go(d, IF idle > 0 /\ halfCloseAt # 0 THEN "arm" ELSE "read")
    /\ UNCHANGED <<idle, now, netvars, connvars, dlvars, arming, moved, outcome, lastMove,
                   halfCloseAt, endvars>>

WriteTimeout(d) ==
    /\ pc[d] = "write"
    /\ open[Dst(d)] /\ now >= wdl[Dst(d)]
    /\ CopyFails(d, "timeout")
    /\ UNCHANGED <<idle, now, netvars, shut, dlvars, arming, moved, lastMove, halfCloseAt,
                   cut, ctxDone, returned>>

\* A conn is closed or breaks, or a Reader or Writer of the second goroutine
\* panics.
CopyBreaks(d) ==
    /\ \/ pc[d] = "read" /\ (Faults \/ ~open[Src(d)]) /\ CopyFails(d, "io")
       \/ pc[d] = "write" /\ (Faults \/ ~open[Dst(d)]) /\ CopyFails(d, "io")
       \/ d = "down" /\ pc[d] \in {"read", "write"} /\ Faults /\ CopyFails(d, "panic")
    /\ UNCHANGED <<idle, now, netvars, shut, dlvars, arming, moved, lastMove, halfCloseAt,
                   cut, ctxDone, returned>>

\* After EOF, the other direction gets until halfCloseAt.
HalfCloseAt(d) ==
    /\ pc[d] = "eof"
    /\ halfCloseAt' = IF HalfClose > 0 /\ halfCloseAt = 0 THEN now + HalfClose ELSE halfCloseAt
    /\ Go(d, IF HalfClose > 0 THEN "deadlines" ELSE "closeWrite")
    /\ UNCHANGED <<idle, now, netvars, connvars, dlvars, arming, moved, outcome, lastMove, endvars>>

\* Mutant: only the source of the direction that ended gets the deadline.
SetDeadlinesSource(d) ==
    /\ pc[d] = "deadlines"
    /\ rdl' = [rdl EXCEPT ![Src(d)] = now + HalfClose]
    /\ wdl' = [wdl EXCEPT ![Src(d)] = now + HalfClose]
    /\ Go(d, "closeWrite")
    /\ UNCHANGED <<idle, now, netvars, connvars, arming, moved, outcome, lastMove,
                   halfCloseAt, endvars>>

SetDeadlines(d) ==
    /\ pc[d] = "deadlines"
    /\ rdl' = [c \in Ends |-> now + HalfClose]
    /\ wdl' = [c \in Ends |-> now + HalfClose]
    /\ Go(d, "closeWrite")
    /\ UNCHANGED <<idle, now, netvars, connvars, arming, moved, outcome, lastMove,
                   halfCloseAt, endvars>>

\* The EOF is passed on, or both conns are closed.
CloseWrite(d) ==
    /\ pc[d] = "closeWrite"
    /\ \/ /\ Dst(d) \in HalfClosers /\ open[Dst(d)]
          /\ shut' = [shut EXCEPT ![Dst(d)] = TRUE]
          /\ UNCHANGED <<once, err, open>>
       \/ /\ Dst(d) \notin HalfClosers \/ ~open[Dst(d)] \/ Faults
          /\ Fail("nil")
          /\ UNCHANGED shut
    /\ Go(d, "ended")
    /\ UNCHANGED <<idle, now, netvars, dlvars, arming, moved, outcome, lastMove,
                   halfCloseAt, cut, ctxDone, returned>>

-----------------------------------------------------------------------------

\* The AfterFunc on ctx.
CtxDone ==
    /\ CtxCancels
    /\ ~ctxDone /\ ~returned
    /\ ctxDone' = TRUE
    /\ Fail("ctx")
    /\ UNCHANGED <<idle, now, netvars, shut, dlvars, dirvars, lastMove, halfCloseAt, cut, returned>>

\* Relay returns after both directions, with both conns closed and ctx's error
\* before any other.
Return ==
    /\ \A d \in Dirs : pc[d] = "ended"
    /\ ~returned
    /\ returned' = TRUE
    /\ once' = TRUE
    /\ open' = [c \in Ends |-> FALSE]
    /\ err' = IF err # "nil" /\ ctxDone THEN "ctx" ELSE err
    /\ UNCHANGED <<idle, now, netvars, shut, dlvars, dirvars, lastMove, halfCloseAt, cut, ctxDone>>

CopyStep(d) ==
    \/ Arm(d) \/ SetReadDeadline(d) \/ Read(d) \/ ReadEOF(d) \/ ReadTimeout(d)
    \/ Write(d) \/ WriteTimeout(d) \/ CopyBreaks(d)
    \/ HalfCloseAt(d) \/ SetDeadlines(d) \/ CloseWrite(d)

Next ==
    \/ \E c \in Ends : PeerSends(c)
    \/ Tick
    \/ \E d \in Dirs : CopyStep(d)
    \/ CtxDone
    \/ Return

Spec == Init /\ [][Next]_vars

\* The goroutines run; reads and writes of a closed conn return.
FairSpec == Spec /\ \A d \in Dirs : WF_vars(CopyStep(d) /\ ~Blocked(d)) /\ WF_vars(Return)

-----------------------------------------------------------------------------
(* Properties.                                                             *)

AllEnded == \A d \in Dirs : pc[d] = "ended"

\* The timeouts bound the relay.  With an idle timeout, a relay that goes on has
\* moved a byte within the last idle ticks, although deadlines are armed before
\* the bytes that postpone them, or halfCloseAt has replaced that deadline.
\* Without one, HalfCloseTimeout "bounds the remaining direction after the other
\* ended with EOF", blocked in a read or in a write.  And a read deadline closes
\* the relay only "after no byte moved either way this long", although it was
\* armed before bytes that moved since.
TimeoutsExact ==
    /\ ~AllEnded =>
         /\ idle > 0 => now <= lastMove + idle \/ now <= halfCloseAt
         /\ idle = 0 /\ halfCloseAt # 0 => now <= halfCloseAt
    /\ cut >= 0 /\ halfCloseAt = 0 => cut - lastMove >= idle

\* An error, a panic or ctx ends both directions, wherever they are blocked, and
\* what Relay returns tells it: nil only if each direction ended in EOF, or was
\* closed by the other one, which could not pass its EOF on.
FailureEndsBoth ==
    /\ once ~> returned
    /\ [](returned =>
            IF err = "nil"
            THEN \A d, o \in Dirs : d # o /\ outcome[d] = "error" =>
                   outcome[o] = "eof" /\ ~shut[Dst(o)]
            ELSE ctxDone \/ \E d \in Dirs : outcome[d] = "error")

=============================================================================
