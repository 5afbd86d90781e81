---------------------------- MODULE RelayProofs ----------------------------
(***************************************************************************)
(* Proofs about Relay, for every idle and half-close timeout, every clock, *)
(* and every way in which peers stall, I/O fails and ctx is cancelled.     *)
(***************************************************************************)
EXTENDS Relay, TLAPS

-----------------------------------------------------------------------------
(* The inductive invariant.                                                *)

Copying == {"arm", "set", "read", "write"}
HalfClosing == {"deadlines", "closeWrite", "ended"}

\* Where a copy is goes with how it ended, only copyIdle arms deadlines, and a
\* direction shuts its own destination, last.
Stages ==
    \A d \in Dirs :
        /\ outcome[d] = "none" <=> pc[d] \in Copying
        /\ outcome[d] = "eof" => pc[d] \in {"eof"} \cup HalfClosing
        /\ outcome[d] = "error" => pc[d] = "ended"
        /\ idle = 0 => pc[d] \notin {"arm", "set"}
        /\ shut[Dst(d)] => pc[d] = "ended"

\* once closes both conns for good, and err goes with what was cut.  When the
\* first to close them had no error, it had an EOF that it did not pass on.
Closing ==
    /\ once => \A c \in Ends : ~open[c]
    /\ ~once => ~ctxDone /\ ~returned /\ \A d \in Dirs : outcome[d] # "error"
    /\ returned => AllEnded
    /\ err # "nil" => ctxDone \/ \E d \in Dirs : outcome[d] = "error"
    /\ once /\ err = "nil" =>
         \/ \A d \in Dirs : outcome[d] = "eof"
         \/ \E d \in Dirs : outcome[d] = "eof" /\ pc[d] = "ended" /\ ~shut[Dst(d)]

\* halfCloseAt is the first EOF's, and the clock stands still until both conns
\* have the deadline.
HalfClosed ==
    /\ halfCloseAt # 0 => \E d \in Dirs : outcome[d] = "eof" /\ pc[d] \in HalfClosing
    /\ \A d, o \in Dirs :
         outcome[d] = "none" /\ pc[o] = "deadlines" => halfCloseAt = now + HalfClose

\* A deadline that copyIdle lets stand.
Within(t) == t <= lastMove + idle \/ t <= halfCloseAt

\* The deadlines that are set, and those that are about to be, are not too late.
Deadlines ==
    \A d \in Dirs :
        /\ idle > 0 =>
             /\ pc[d] = "set" => arming[d] <= lastMove + idle
             /\ pc[d] \in {"read", "write"} => Within(rdl[Src(d)])
             /\ pc[d] = "write" => Within(wdl[Dst(d)])
        /\ idle = 0 /\ halfCloseAt # 0 /\ pc[d] \in {"read", "write"} =>
             \/ \E o \in Dirs : pc[o] = "deadlines"
             \/ rdl[Src(d)] <= halfCloseAt /\ wdl[Dst(d)] <= halfCloseAt

\* The clock has not passed them.
OnTime ==
    ~AllEnded =>
        /\ idle > 0 => now <= lastMove + idle \/ now <= halfCloseAt
        /\ idle = 0 /\ halfCloseAt # 0 => now <= halfCloseAt

\* A read deadline that ended the relay ended it rightly.
CutRight ==
    /\ cut >= 0 => once
    /\ cut >= 0 /\ halfCloseAt = 0 => cut - lastMove >= idle

IndInv ==
    /\ TypeOK /\ Stages /\ Closing /\ HalfClosed /\ Deadlines /\ OnTime /\ CutRight

-----------------------------------------------------------------------------
(* Types.                                                                  *)

\* A direction copies from one conn to the other.
LEMMA Directions ==
    /\ \A d \in Dirs : Src(d) \in Ends /\ Dst(d) \in Ends /\ Src(d) # Dst(d)
    /\ \A d, o \in Dirs : d # o => Dst(d) # Dst(o) /\ Src(d) # Src(o)
BY DEF Dirs, Ends, Src, Dst

\* What arithmetic needs to know of the clock and the deadlines.
LEMMA Clock ==
    ASSUME TypeOK
    PROVE  /\ idle \in Nat /\ HalfClose \in Nat /\ MaxNow \in Nat
           /\ now \in Nat /\ now <= MaxNow /\ lastMove \in Nat /\ lastMove <= now
           /\ halfCloseAt \in Nat /\ halfCloseAt <= Never /\ cut \in Int
           /\ Never \in Nat /\ Never = MaxNow + idle + HalfClose + 1
           /\ \A d \in Dirs : /\ arming[d] \in Nat
                             /\ rdl[Src(d)] \in Nat /\ wdl[Dst(d)] \in Nat
BY RelayAssumption, Directions DEF TypeOK, Never

\* A relay starts with every variable of its type.
LEMMA TypeInit == Init => TypeOK
<1> SUFFICES ASSUME Init PROVE TypeOK
  OBVIOUS
<1>1. /\ idle \in Idles /\ idle \in Nat /\ HalfClose \in Nat /\ MaxNow \in Nat
      /\ MaxBytes \in Nat /\ Never \in Nat
  BY RelayAssumption DEF Init, Never
<1>2. rdl \in [Ends -> 0 .. Never] /\ wdl \in [Ends -> 0 .. Never]
  BY <1>1 DEF Init
<1>3. /\ sent \in [Ends -> 0 .. MaxBytes] /\ moved \in [Dirs -> 0 .. MaxBytes]
      /\ arming \in [Dirs -> 0 .. Never] /\ \A d \in Dirs : moved[d] <= sent[Src(d)]
  BY <1>1, Directions DEF Init
<1>4. pc \in [Dirs -> {"arm", "read"}] /\ outcome \in [Dirs -> {"none"}]
  BY DEF Init, LoopTop
<1>5. fin \in [Ends -> BOOLEAN] /\ open \in [Ends -> BOOLEAN] /\ shut \in [Ends -> BOOLEAN]
  BY DEF Init
<1>6. /\ now \in 0 .. MaxNow /\ lastMove \in 0 .. now /\ halfCloseAt \in 0 .. Never
      /\ err = "nil" /\ cut = -1
  BY <1>1 DEF Init
<1>7. once \in BOOLEAN /\ ctxDone \in BOOLEAN /\ returned \in BOOLEAN
  BY DEF Init
<1> QED
  BY <1>1, <1>2, <1>3, <1>4, <1>5, <1>6, <1>7 DEF TypeOK

\* The deadlines keep their types: a deadline is at most a timeout ahead.
LEMMA TypeStep ==
    ASSUME TypeOK, [Next]_vars
    PROVE  TypeOK'
<1>0. /\ idle \in Nat /\ HalfClose \in Nat /\ MaxNow \in Nat /\ MaxBytes \in Nat
      /\ now \in Nat /\ now <= MaxNow /\ lastMove \in Nat /\ lastMove <= now
      /\ Never \in Nat /\ Never = MaxNow + idle + HalfClose + 1
  BY Clock, RelayAssumption
<1>1. idle' = idle /\ Never' = Never
  <2>1. idle' = idle
    BY DEF Next, CopyStep, vars, PeerSends, Tick, Arm, SetReadDeadline, Read, ReadEOF,
           ReadTimeout, Write, WriteTimeout, CopyBreaks, HalfCloseAt, SetDeadlines,
           CloseWrite, CtxDone, Return
  <2> QED
    BY <2>1 DEF Never
<1>2. ASSUME NEW c \in Ends, PeerSends(c) PROVE TypeOK'
  <2>1. sent' \in [Ends -> 0 .. MaxBytes] /\ \A e \in Ends : sent[e] <= sent'[e]
    BY <1>0, <1>2 DEF PeerSends, TypeOK
  <2>2. fin' \in [Ends -> BOOLEAN]
    BY <1>2 DEF PeerSends, TypeOK
  <2>3. UNCHANGED <<idle, now, connvars, dlvars, dirvars, lastMove, halfCloseAt, endvars>>
    BY <1>2 DEF PeerSends
  <2>4. \A d \in Dirs : moved'[d] <= sent'[Src(d)]
    BY <1>0, <2>1, <2>3, Directions DEF TypeOK, dirvars
  <2> QED
    BY <1>0, <1>1, <2>1, <2>2, <2>3, <2>4 DEF TypeOK, connvars, dlvars, dirvars, endvars
<1>3. CASE Tick
  BY <1>0, <1>1, <1>3 DEF Tick, TypeOK, netvars, connvars, dlvars, dirvars, endvars
<1>4. ASSUME NEW d \in Dirs, CopyStep(d) PROVE TypeOK'
  <2> USE <1>0, <1>1, Directions DEF TypeOK, netvars, connvars, dlvars, dirvars, endvars, Go
  <2>1. CASE Arm(d)
    <3>1. arming' \in [Dirs -> 0 .. Never]
      BY <2>1 DEF Arm
    <3> QED
      BY <2>1, <3>1 DEF Arm
  <2>2. CASE SetReadDeadline(d)
    BY <2>2 DEF SetReadDeadline
  <2>3. CASE Read(d)
    <3>1. /\ moved' = [moved EXCEPT ![d] = sent[Src(d)]] /\ pc' = [pc EXCEPT ![d] = "write"]
          /\ UNCHANGED <<idle, now, netvars, connvars, rdl, arming, outcome, halfCloseAt, endvars>>
      BY <2>3 DEF Read
    <3>2. lastMove' \in 0 .. now /\ wdl' \in [Ends -> 0 .. Never]
      BY <2>3 DEF Read, MoveTime
    <3>3. moved' \in [Dirs -> 0 .. MaxBytes] /\ \A o \in Dirs : moved'[o] <= sent[Src(o)]
      BY <3>1
    <3> QED
      BY <3>1, <3>2, <3>3
  <2>4. CASE ReadEOF(d)
    BY <2>4 DEF ReadEOF
  <2>5. CASE ReadTimeout(d)
    <3>1. UNCHANGED <<idle, now, netvars, shut, dlvars, arming, moved, lastMove, halfCloseAt,
                      ctxDone, returned>>
      BY <2>5 DEF ReadTimeout
    <3>2. /\ pc' \in [Dirs -> {"arm", "set", "read", "write", "eof", "deadlines",
                              "closeWrite", "ended"}]
          /\ outcome' \in [Dirs -> {"none", "eof", "error"}]
          /\ open' \in [Ends -> BOOLEAN]
      <4>1. CASE OtherDirectionMoved
        BY <2>5, <4>1 DEF ReadTimeout
      <4>2. CASE ~OtherDirectionMoved
        <5>1. /\ pc' = [pc EXCEPT ![d] = "ended"] /\ outcome' = [outcome EXCEPT ![d] = "error"]
              /\ open' = [c \in Ends |-> FALSE]
          BY <2>5, <4>2, Zenon DEF ReadTimeout, CopyFails, Fail
        <5> QED
          BY <5>1
      <4> QED
        BY <4>1, <4>2
    <3>3. once' \in BOOLEAN /\ err' \in {"nil", "timeout", "io", "ctx", "panic"}
      BY <2>5 DEF ReadTimeout, CopyFails, Fail
    <3>4. cut' \in {-1} \cup 0 .. MaxNow
      BY <2>5 DEF ReadTimeout
    <3> QED
      BY <3>1, <3>2, <3>3, <3>4
  <2>6. CASE Write(d)
    BY <2>6 DEF Write
  <2>7. CASE WriteTimeout(d)
    BY <2>7 DEF WriteTimeout, CopyFails, Fail
  <2>8. CASE CopyBreaks(d)
    BY <2>8 DEF CopyBreaks, CopyFails, Fail
  <2>9. CASE HalfCloseAt(d)
    BY <2>9 DEF HalfCloseAt
  <2>10. CASE SetDeadlines(d)
    BY <2>10 DEF SetDeadlines
  <2>11. CASE CloseWrite(d)
    BY <2>11 DEF CloseWrite, Fail
  <2> QED
    BY <1>4, <2>1, <2>2, <2>3, <2>4, <2>5, <2>6, <2>7, <2>8, <2>9, <2>10, <2>11 DEF CopyStep
<1>5. CASE CtxDone
  BY <1>0, <1>1, <1>5 DEF CtxDone, Fail, TypeOK, netvars, dlvars, dirvars
<1>6. CASE Return
  BY <1>0, <1>1, <1>6 DEF Return, TypeOK, netvars, dlvars, dirvars
<1>7. CASE UNCHANGED vars
  BY <1>0, <1>1, <1>7 DEF vars, TypeOK, netvars, connvars, dlvars, dirvars, endvars
<1> QED
  BY <1>2, <1>3, <1>4, <1>5, <1>6, <1>7 DEF Next

-----------------------------------------------------------------------------
(* Stages and closing.                                                     *)

\* What a step leaves alone: only a direction's own step moves it.
LEMMA Aside ==
    ASSUME [Next]_vars, ~\E d \in Dirs : CopyStep(d)
    PROVE  UNCHANGED <<idle, shut, dlvars, dirvars, lastMove, halfCloseAt, cut>>
BY DEF Next, vars, PeerSends, Tick, CtxDone, Return, netvars, connvars, dlvars, dirvars, endvars

\* A direction goes through its stages in order.
LEMMA StagesStep ==
    ASSUME TypeOK, Stages, [Next]_vars
    PROVE  Stages'
<1>0. /\ pc \in [Dirs -> {"arm", "set", "read", "write", "eof", "deadlines",
                         "closeWrite", "ended"}]
      /\ outcome \in [Dirs -> {"none", "eof", "error"}] /\ idle \in Nat
      /\ shut \in [Ends -> BOOLEAN]
  BY Clock DEF TypeOK
<1>1. ASSUME NEW d \in Dirs, CopyStep(d) PROVE Stages'
  <2> USE <1>0, Directions DEF Stages, Go, Copying, HalfClosing, CopyFails, Fail, connvars
  <2>1. CASE Arm(d) \/ SetReadDeadline(d)
    BY <2>1 DEF Arm, SetReadDeadline
  <2>2. CASE Read(d) \/ ReadEOF(d)
    BY <2>2 DEF Read, ReadEOF
  <2>3. CASE ReadTimeout(d)
    BY <2>3 DEF ReadTimeout, OtherDirectionMoved
  <2>4. CASE Write(d)
    BY <2>4 DEF Write
  <2>5. CASE WriteTimeout(d) \/ CopyBreaks(d)
    BY <2>5 DEF WriteTimeout, CopyBreaks
  <2>6. CASE HalfCloseAt(d)
    BY <2>6 DEF HalfCloseAt
  <2>7. CASE SetDeadlines(d) \/ CloseWrite(d)
    BY <2>7 DEF SetDeadlines, CloseWrite
  <2> QED
    BY <1>1, <2>1, <2>2, <2>3, <2>4, <2>5, <2>6, <2>7 DEF CopyStep
<1>2. CASE ~\E d \in Dirs : CopyStep(d)
  BY <1>2, Aside DEF Stages, dirvars
<1> QED
  BY <1>1, <1>2

\* The first to close the conns decides the error, and nothing is read, shut or
\* cancelled after what it excludes.
LEMMA ClosingStep ==
    ASSUME TypeOK, Stages, Closing, [Next]_vars
    PROVE  Closing'
<1>0. /\ pc \in [Dirs -> {"arm", "set", "read", "write", "eof", "deadlines",
                         "closeWrite", "ended"}]
      /\ outcome \in [Dirs -> {"none", "eof", "error"}]
      /\ open \in [Ends -> BOOLEAN] /\ shut \in [Ends -> BOOLEAN]
      /\ once \in BOOLEAN
  BY DEF TypeOK
<1>1. ASSUME NEW d \in Dirs, CopyStep(d) PROVE Closing'
  <2>0. ~returned /\ ~returned' /\ ctxDone' = ctxDone
    BY <1>1 DEF Closing, AllEnded, CopyStep, Arm, SetReadDeadline, Read, ReadEOF, ReadTimeout,
                Write, WriteTimeout, CopyBreaks, HalfCloseAt, SetDeadlines, CloseWrite, endvars
  <2>1. ASSUME UNCHANGED <<once, err, open, shut>>,
               outcome' = outcome \/ (pc[d] = "read" /\ outcome' = [outcome EXCEPT ![d] = "eof"]),
               \E p : pc' = [pc EXCEPT ![d] = p],
               pc[d] # "ended"
        PROVE  Closing'
    BY <1>0, <2>0, <2>1 DEF Closing, Stages, Copying
  <2>2. ASSUME NEW e, CopyFails(d, e), e # "nil", pc[d] \in {"read", "write"}, UNCHANGED shut
        PROVE  Closing'
    <3>1. /\ once' /\ (\A c \in Ends : ~open'[c]) /\ outcome'[d] = "error"
          /\ \A o \in Dirs : o # d => outcome'[o] = outcome[o] /\ pc'[o] = pc[o]
      BY <1>0, <2>2 DEF CopyFails, Fail, Go
    <3>2. err' = "nil" => once /\ err = "nil"
      BY <2>2 DEF CopyFails, Fail
    <3>3. outcome[d] = "none"
      BY <2>2 DEF Stages, Copying
    <3>4. once' /\ err' = "nil" =>
            \E o \in Dirs : outcome'[o] = "eof" /\ pc'[o] = "ended" /\ ~shut'[Dst(o)]
      BY <2>2, <3>1, <3>2, <3>3 DEF Closing
    <3> QED
      BY <2>0, <3>1, <3>4 DEF Closing
  <2>3. ASSUME pc[d] = "closeWrite", pc' = [pc EXCEPT ![d] = "ended"], UNCHANGED outcome,
               open[Dst(d)], UNCHANGED <<once, err, open>>
        PROVE  Closing'
    <3>1. ~once
      BY <2>3, Directions DEF Closing
    <3> QED
      BY <1>0, <2>0, <2>3, <3>1 DEF Closing
  <2>4. ASSUME pc[d] = "closeWrite", pc' = [pc EXCEPT ![d] = "ended"], UNCHANGED <<outcome, shut>>,
               Fail("nil")
        PROVE  Closing'
    <3>1. outcome[d] = "eof" /\ ~shut[Dst(d)]
      BY <1>0, <2>4 DEF Stages, Copying
    <3>2. once' /\ (\A c \in Ends : ~open'[c]) /\ (err' = err \/ err' = "nil")
      BY <2>4 DEF Fail
    <3>3. outcome'[d] = "eof" /\ pc'[d] = "ended" /\ ~shut'[Dst(d)]
      BY <1>0, <2>4, <3>1
    <3> QED
      BY <2>0, <2>4, <3>2, <3>3 DEF Closing
  <2> QED
    BY <1>1, <2>1, <2>2, <2>3, <2>4
    DEF CopyStep, Arm, SetReadDeadline, Read, ReadEOF, ReadTimeout, Write, WriteTimeout,
        CopyBreaks, HalfCloseAt, SetDeadlines, CloseWrite, Go, endvars, connvars
<1>2. CASE CtxDone
  BY <1>0, <1>2 DEF CtxDone, Fail, Closing, AllEnded, dirvars
<1>3. CASE Return
  BY <1>0, <1>3 DEF Return, Stages, Copying, HalfClosing, Closing, AllEnded, dirvars
<1>4. CASE UNCHANGED <<once, err, open, shut, ctxDone, returned, dirvars>>
  BY <1>4 DEF Closing, AllEnded, dirvars
<1> QED
  BY <1>1, <1>2, <1>3, <1>4 DEF Next, vars, PeerSends, Tick, endvars, connvars

-----------------------------------------------------------------------------
(* Deadlines.                                                              *)

\* Only HalfCloseAt gives halfCloseAt a value, at the first EOF.
LEMMA HalfClosedStep ==
    ASSUME TypeOK, Stages, HalfClosed, [Next]_vars
    PROVE  HalfClosed'
<1>0. /\ pc \in [Dirs -> {"arm", "set", "read", "write", "eof", "deadlines",
                         "closeWrite", "ended"}]
      /\ outcome \in [Dirs -> {"none", "eof", "error"}]
      /\ now \in Nat /\ HalfClose \in Nat /\ halfCloseAt \in Nat
  BY Clock DEF TypeOK
<1>1. ASSUME NEW d \in Dirs, CopyStep(d) PROVE HalfClosed'
  <2>1. CASE HalfCloseAt(d)
    <3>1. /\ pc[d] = "eof" /\ UNCHANGED <<now, outcome>>
          /\ halfCloseAt' = IF HalfClose > 0 /\ halfCloseAt = 0 THEN now + HalfClose ELSE halfCloseAt
          /\ pc' = [pc EXCEPT ![d] = IF HalfClose > 0 THEN "deadlines" ELSE "closeWrite"]
      BY <2>1 DEF HalfCloseAt, Go
    <3>2. outcome[d] = "eof" /\ pc'[d] \in HalfClosing
      BY <1>0, <3>1 DEF Stages, Copying, HalfClosing
    <3>3. ASSUME NEW x \in Dirs, NEW o \in Dirs, outcome'[x] = "none", pc'[o] = "deadlines"
          PROVE  halfCloseAt' = now' + HalfClose
      <4>1. x # d /\ x \notin {y \in Dirs : pc[y] \in HalfClosing}
        BY <1>0, <3>1, <3>2, <3>3 DEF Stages, Copying, HalfClosing
      <4>2. CASE o = d
        <5>1. halfCloseAt = 0
          BY <1>0, <3>1, <4>1 DEF HalfClosed, HalfClosing, Dirs
        <5> QED
          BY <1>0, <3>1, <3>3, <4>2, <5>1
      <4>3. CASE o # d
        BY <1>0, <3>1, <3>3, <4>1, <4>3 DEF Stages, Copying, Dirs
      <4> QED
        BY <4>2, <4>3
    <3> QED
      BY <3>1, <3>2, <3>3 DEF HalfClosed
  <2>2. ASSUME UNCHANGED <<now, halfCloseAt>>, pc[d] # "eof",
               NEW p, pc' = [pc EXCEPT ![d] = p], p # "deadlines",
               pc[d] \in HalfClosing => p \in HalfClosing,
               NEW r, outcome' = [outcome EXCEPT ![d] = r],
               r = outcome[d] \/ (pc[d] \in Copying /\ r # "none")
        PROVE  HalfClosed'
    <3>1. \A x \in Dirs : outcome'[x] = "none" => outcome[x] = "none"
      BY <1>0, <2>2
    <3>2. \A x \in Dirs : pc'[x] = "deadlines" => pc[x] = "deadlines"
      BY <1>0, <2>2
    <3>3. \A x \in Dirs : outcome[x] = "eof" /\ pc[x] \in HalfClosing =>
                           outcome'[x] = "eof" /\ pc'[x] \in HalfClosing
      BY <1>0, <2>2 DEF Copying, HalfClosing
    <3> QED
      BY <2>2, <3>1, <3>2, <3>3 DEF HalfClosed
  <2>3. CASE Arm(d) \/ SetReadDeadline(d) \/ Read(d) \/ Write(d)
    BY <1>0, <2>2, <2>3 DEF Arm, SetReadDeadline, Read, Write, Go, Copying, HalfClosing
  <2>4. CASE ReadEOF(d) \/ ReadTimeout(d) \/ WriteTimeout(d) \/ CopyBreaks(d)
    BY <1>0, <2>2, <2>4
    DEF ReadEOF, ReadTimeout, WriteTimeout, CopyBreaks, CopyFails, Go, Copying, HalfClosing
  <2>5. CASE SetDeadlines(d) \/ CloseWrite(d)
    BY <1>0, <2>2, <2>5 DEF SetDeadlines, CloseWrite, Go, HalfClosing
  <2> QED
    BY <1>1, <2>1, <2>3, <2>4, <2>5 DEF CopyStep
<1>2. CASE Tick
  BY <1>0, <1>2 DEF Tick, Blocked, HalfClosed, dirvars
<1>3. CASE UNCHANGED <<now, halfCloseAt, dirvars>>
  BY <1>3 DEF HalfClosed, dirvars
<1> QED
  BY <1>1, <1>2, <1>3 DEF Next, vars, PeerSends, CtxDone, Return

\* What was within a bound is within a later one.
LEMMA Bounds ==
    \A a, b, c, u \in Nat : a <= b => (u <= a => u <= b) /\ (u <= a + c => u <= b + c)
OBVIOUS

\* Nothing makes the last move or the half-close deadline earlier.
LEMMA Later ==
    ASSUME TypeOK, [Next]_vars
    PROVE  /\ lastMove <= lastMove' /\ halfCloseAt <= halfCloseAt'
           /\ lastMove' \in Nat /\ halfCloseAt' \in Nat /\ idle' = idle /\ HalfClose \in Nat
           /\ \A t \in Nat : Within(t) => Within(t)'
<1>0. /\ idle \in Nat /\ HalfClose \in Nat /\ now \in Nat
      /\ lastMove \in Nat /\ lastMove <= now /\ halfCloseAt \in Nat
  BY Clock
<1>1. lastMove <= lastMove' /\ lastMove' \in Nat
  BY <1>0 DEF Next, CopyStep, vars, PeerSends, Tick, Arm, SetReadDeadline, Read, MoveTime,
         ReadEOF, ReadTimeout, Write, WriteTimeout, CopyBreaks, HalfCloseAt, SetDeadlines,
         CloseWrite, CtxDone, Return
<1>2. halfCloseAt <= halfCloseAt' /\ halfCloseAt' \in Nat
  BY <1>0 DEF Next, CopyStep, vars, PeerSends, Tick, Arm, SetReadDeadline, Read,
         ReadEOF, ReadTimeout, Write, WriteTimeout, CopyBreaks, HalfCloseAt, SetDeadlines,
         CloseWrite, CtxDone, Return
<1>3. idle' = idle
  BY DEF Next, CopyStep, vars, PeerSends, Tick, Arm, SetReadDeadline, Read,
         ReadEOF, ReadTimeout, Write, WriteTimeout, CopyBreaks, HalfCloseAt, SetDeadlines,
         CloseWrite, CtxDone, Return
<1>4. ASSUME NEW u \in Nat, Within(u) PROVE Within(u)'
  <2>1. CASE u <= lastMove + idle
    BY <1>0, <1>1, <1>3, <2>1, Bounds DEF Within
  <2>2. CASE u <= halfCloseAt
    BY <1>0, <1>2, <2>2, Bounds DEF Within
  <2> QED
    BY <1>4, <2>1, <2>2 DEF Within
<1> QED
  BY <1>0, <1>1, <1>2, <1>3, <1>4

\* A deadline armed before bytes that moved since is early, never late.
LEMMA DeadlinesStep ==
    ASSUME TypeOK, Stages, HalfClosed, Deadlines, [Next]_vars
    PROVE  Deadlines'
<1>0. /\ pc \in [Dirs -> {"arm", "set", "read", "write", "eof", "deadlines",
                         "closeWrite", "ended"}]
      /\ outcome \in [Dirs -> {"none", "eof", "error"}]
      /\ rdl \in [Ends -> 0 .. Never] /\ wdl \in [Ends -> 0 .. Never]
      /\ arming \in [Dirs -> 0 .. Never]
      /\ now \in Nat /\ HalfClose \in Nat /\ halfCloseAt \in Nat /\ idle \in Nat
      /\ lastMove \in Nat /\ Never \in Nat
  BY Clock DEF TypeOK
<1>1. ASSUME NEW d \in Dirs, CopyStep(d) PROVE Deadlines'
  <2> USE <1>0, Later, Directions DEF Go
  <2>1. CASE Arm(d)
    <3>1. arming'[d] <= lastMove + idle /\ UNCHANGED <<idle, rdl, wdl, lastMove, halfCloseAt>>
      BY <2>1 DEF Arm, dlvars
    <3>2. /\ pc'[d] = "set"
          /\ \A o \in Dirs : o # d => pc'[o] = pc[o] /\ arming'[o] = arming[o]
      BY <2>1 DEF Arm
    <3> QED
      BY <2>1, <3>1, <3>2 DEF Deadlines, Within, Arm
  <2>2. CASE SetReadDeadline(d)
    <3>1. /\ pc[d] = "set" /\ rdl' = [rdl EXCEPT ![Src(d)] = arming[d]]
          /\ pc' = [pc EXCEPT ![d] = "read"]
          /\ UNCHANGED <<idle, wdl, arming, lastMove, halfCloseAt>>
      BY <2>2 DEF SetReadDeadline
    <3>2. idle > 0 /\ arming[d] <= lastMove + idle
      BY <3>1 DEF Stages, Deadlines
    <3> QED
      BY <3>1, <3>2 DEF Deadlines, Within
  <2>3. CASE Read(d)
    <3>1. /\ pc[d] = "read" /\ pc' = [pc EXCEPT ![d] = "write"]
          /\ UNCHANGED <<idle, rdl, arming, halfCloseAt>>
      BY <2>3 DEF Read
    <3>2. CASE idle > 0
      <4>1. lastMove' = now /\ wdl' = [wdl EXCEPT ![Dst(d)] = now + idle]
        BY <2>3, <3>2 DEF Read, MoveTime
      <4> QED
        BY <3>1, <3>2, <4>1 DEF Deadlines, Within
    <3>3. CASE idle = 0
      <4>1. UNCHANGED <<lastMove, wdl>>
        BY <2>3, <3>3 DEF Read
      <4> QED
        BY <3>1, <3>3, <4>1 DEF Deadlines
    <3> QED
      BY <3>2, <3>3
  <2>4. CASE HalfCloseAt(d)
    BY <2>4 DEF HalfCloseAt, Deadlines, Within, dlvars
  <2>5. CASE SetDeadlines(d)
    <3>1. /\ pc[d] = "deadlines" /\ rdl' = [c \in Ends |-> now + HalfClose]
          /\ wdl' = [c \in Ends |-> now + HalfClose] /\ pc' = [pc EXCEPT ![d] = "closeWrite"]
          /\ UNCHANGED <<idle, arming, lastMove, halfCloseAt>>
      BY <2>5 DEF SetDeadlines
    <3>2. \A o \in Dirs : pc[o] \in Copying => halfCloseAt = now + HalfClose
      BY <3>1 DEF HalfClosed, Stages
    <3> QED
      BY <3>1, <3>2 DEF Deadlines, Within, Copying
  <2>6. CASE Write(d)
    BY <2>6 DEF Write, Deadlines, Within, dlvars
  <2>7. ASSUME UNCHANGED <<idle, rdl, wdl, arming, lastMove, halfCloseAt>>,
               NEW p, pc' = [pc EXCEPT ![d] = p], p \notin {"set", "read", "write"},
               pc[d] # "deadlines"
        PROVE  Deadlines'
    BY <2>7 DEF Deadlines, Within
  <2> QED
    BY <1>1, <2>1, <2>2, <2>3, <2>4, <2>5, <2>6, <2>7
    DEF CopyStep, ReadEOF, ReadTimeout, WriteTimeout, CopyBreaks, CopyFails, CloseWrite, dlvars
<1>2. CASE ~\E d \in Dirs : CopyStep(d)
  BY <1>2, Aside DEF Deadlines, Within, dirvars, dlvars
<1> QED
  BY <1>1, <1>2

\* The clock advances only while every direction that goes on is short of its
\* deadline.
LEMMA OnTimeStep ==
    ASSUME TypeOK, Stages, HalfClosed, Deadlines, OnTime, [Next]_vars
    PROVE  OnTime'
<1>0. /\ pc \in [Dirs -> {"arm", "set", "read", "write", "eof", "deadlines",
                         "closeWrite", "ended"}]
      /\ now \in Nat /\ HalfClose \in Nat /\ halfCloseAt \in Nat /\ idle \in Nat
      /\ lastMove \in Nat
      /\ \A d \in Dirs : rdl[Src(d)] \in Nat /\ wdl[Dst(d)] \in Nat
  BY Clock DEF TypeOK
<1>1. CASE Tick
  <2>1. /\ now' = now + 1 /\ UNCHANGED <<idle, lastMove, halfCloseAt, pc>>
        /\ \A d \in Dirs : Blocked(d)
    BY <1>1 DEF Tick, dirvars
  <2>2. ASSUME NEW d \in Dirs, pc[d] # "ended"
        PROVE  /\ idle > 0 => now + 1 <= lastMove + idle \/ now + 1 <= halfCloseAt
               /\ idle = 0 /\ halfCloseAt # 0 => now + 1 <= halfCloseAt
    <3>1. \/ pc[d] = "read" /\ now < rdl[Src(d)]
          \/ pc[d] = "write" /\ now < wdl[Dst(d)]
      BY <2>1, <2>2 DEF Blocked
    <3>2. \A o \in Dirs : pc[o] # "deadlines"
      BY <2>1 DEF Blocked
    <3> QED
      BY <1>0, <3>1, <3>2 DEF Deadlines, Within
  <2> QED
    BY <2>1, <2>2 DEF OnTime, AllEnded
<1>2. CASE now' = now
  <2>1. /\ lastMove <= lastMove' /\ halfCloseAt <= halfCloseAt' /\ idle' = idle
        /\ lastMove' \in Nat /\ halfCloseAt' \in Nat
    BY Later
  <2>2. AllEnded => AllEnded'
    BY DEF AllEnded, Next, vars, CopyStep, PeerSends, Tick, Arm, SetReadDeadline, Read,
           ReadEOF, ReadTimeout, Write, WriteTimeout, CopyBreaks, HalfCloseAt, SetDeadlines,
           CloseWrite, CtxDone, Return, dirvars
  <2>3. halfCloseAt = 0 => halfCloseAt' = 0 \/ now <= halfCloseAt'
    BY <1>0 DEF Next, CopyStep, vars, PeerSends, Tick, Arm, SetReadDeadline, Read,
         ReadEOF, ReadTimeout, Write, WriteTimeout, CopyBreaks, HalfCloseAt, SetDeadlines,
         CloseWrite, CtxDone, Return
  <2>4. ASSUME ~AllEnded', idle > 0
        PROVE  now <= lastMove' + idle \/ now <= halfCloseAt'
    <3>1. now <= lastMove + idle \/ now <= halfCloseAt
      BY <2>2, <2>4 DEF OnTime
    <3> QED
      BY <1>0, <2>1, <3>1, Bounds
  <2>5. ASSUME ~AllEnded', idle = 0, halfCloseAt' # 0
        PROVE  now <= halfCloseAt'
    BY <1>0, <2>1, <2>2, <2>3, <2>5 DEF OnTime
  <2> QED
    BY <1>2, <2>1, <2>4, <2>5 DEF OnTime
<1> QED
  BY <1>1, <1>2 DEF Next, CopyStep, vars, PeerSends, Arm, SetReadDeadline, Read,
     ReadEOF, ReadTimeout, Write, WriteTimeout, CopyBreaks, HalfCloseAt, SetDeadlines,
     CloseWrite, CtxDone, Return

\* A read deadline closes the relay only when neither direction moved, and then
\* nothing moves any more.
LEMMA CutRightStep ==
    ASSUME TypeOK, Closing, CutRight, [Next]_vars
    PROVE  CutRight'
<1>0. /\ idle \in Nat /\ now \in Nat /\ lastMove \in Nat /\ lastMove <= now
      /\ halfCloseAt \in Nat /\ cut \in Int /\ once \in BOOLEAN
  BY Clock DEF TypeOK
<1>1. /\ idle' = idle /\ halfCloseAt <= halfCloseAt' /\ lastMove' \in Nat /\ halfCloseAt' \in Nat
  BY Later
<1>2. once => once'
  BY DEF Next, CopyStep, vars, PeerSends, Tick, Arm, SetReadDeadline, Read, ReadEOF,
         ReadTimeout, Write, WriteTimeout, CopyBreaks, CopyFails, Fail, HalfCloseAt,
         SetDeadlines, CloseWrite, CtxDone, Return, endvars
<1>3. once => lastMove' = lastMove
  BY Directions
  DEF Closing, Next, CopyStep, vars, PeerSends, Tick, Arm, SetReadDeadline, Read, ReadEOF,
      ReadTimeout, Write, WriteTimeout, CopyBreaks, HalfCloseAt, SetDeadlines, CloseWrite,
      CtxDone, Return
<1>4. \/ cut' = cut
      \/ /\ cut' = now /\ once' /\ ~OtherDirectionMoved /\ UNCHANGED <<lastMove, halfCloseAt>>
  BY DEF Next, CopyStep, vars, PeerSends, Tick, Arm, SetReadDeadline, Read, ReadEOF,
         ReadTimeout, Write, WriteTimeout, CopyBreaks, CopyFails, Fail, HalfCloseAt,
         SetDeadlines, CloseWrite, CtxDone, Return, endvars
<1> QED
  BY <1>0, <1>1, <1>2, <1>3, <1>4 DEF CutRight, OtherDirectionMoved

-----------------------------------------------------------------------------
(* The theorems.                                                           *)

\* A relay that starts satisfies the invariant.
LEMMA IndInvInit == Init => IndInv
<1> SUFFICES ASSUME Init PROVE IndInv
  OBVIOUS
<1>1. TypeOK
  BY TypeInit
<1>2. idle \in Nat /\ MaxNow \in Nat /\ HalfClose \in Nat
  BY RelayAssumption DEF Init
<1>3. \A d \in Dirs : pc[d] = LoopTop /\ outcome[d] = "none"
  BY DEF Init
<1>4. Stages
  BY <1>2, <1>3, Directions DEF Init, Stages, Copying, LoopTop
<1>5. Closing
  BY <1>3 DEF Init, Closing
<1>6. HalfClosed /\ Deadlines /\ OnTime /\ CutRight
  <2>1. HalfClosed
    BY <1>3 DEF Init, HalfClosed, LoopTop
  <2>2. Deadlines
    BY <1>2, <1>3 DEF Init, Deadlines, LoopTop
  <2>3. OnTime /\ CutRight
    BY <1>2 DEF Init, OnTime, CutRight
  <2> QED
    BY <2>1, <2>2, <2>3
<1> QED
  BY <1>1, <1>4, <1>5, <1>6 DEF IndInv

\* Every step of a relay preserves the invariant.
LEMMA IndInvStep == IndInv /\ [Next]_vars => IndInv'
BY TypeStep, StagesStep, ClosingStep, HalfClosedStep, DeadlinesStep, OnTimeStep, CutRightStep
DEF IndInv

\* The inductive invariant holds.
THEOREM Invariance == Spec => []IndInv
BY IndInvInit, IndInvStep, PTL DEF Spec

\* The variables of a relay keep their types: no deadline is further ahead than
\* the timeouts, and no byte is copied that was not sent.
THEOREM TypeCorrect == Spec => []TypeOK
<1>1. IndInv => TypeOK
  BY DEF IndInv
<1> QED
  BY <1>1, Invariance, PTL

\* The timeouts bound the relay, and close it only for idleness.
THEOREM Timeouts == Spec => []TimeoutsExact
<1>1. IndInv => TimeoutsExact
  BY DEF IndInv, OnTime, CutRight, TimeoutsExact
<1> QED
  BY <1>1, Invariance, PTL

\* What FailureEndsBoth says of the error: nil only if each direction ended in EOF,
\* or was closed by the other one, which could not pass its EOF on.
ErrTellsCut ==
    returned =>
        IF err = "nil"
        THEN \A d, o \in Dirs : d # o /\ outcome[d] = "error" =>
               outcome[o] = "eof" /\ ~shut[Dst(o)]
        ELSE ctxDone \/ \E d \in Dirs : outcome[d] = "error"

\* What Relay returns tells whether a direction was cut.
THEOREM ErrorTells == Spec => []ErrTellsCut
<1>1. IndInv => ErrTellsCut
  <2> SUFFICES ASSUME IndInv, returned PROVE ErrTellsCut
    BY DEF ErrTellsCut
  <2>1. ASSUME err = "nil", NEW d \in Dirs, NEW o \in Dirs, d # o, outcome[d] = "error"
        PROVE  outcome[o] = "eof" /\ ~shut[Dst(o)]
    <3>1. once
      BY DEF IndInv, Closing
    <3> QED
      BY <2>1, <3>1 DEF IndInv, Closing, Dirs
  <2> QED
    BY <2>1 DEF IndInv, Closing, ErrTellsCut
<1> QED
  BY <1>1, Invariance, PTL

=============================================================================
