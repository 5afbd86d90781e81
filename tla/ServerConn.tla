----------------------------- MODULE ServerConn -----------------------------
(***************************************************************************)
(* One conn of the server, from its first byte to its end                  *)
(* (go/socks0/server: conn.go, request.go, tunnel.go, auth.go and the      *)
(* client watcher of bind.go).                                             *)
(*                                                                         *)
(* The serving goroutine runs the handshake, then the handler; the handler *)
(* may let another goroutine Reply or read the Conn.  Everything shares    *)
(* one pooled buffer `in` with the unread bytes in [r, w), and the order   *)
(* in which it is read, moved, lent out, cleared and pooled is the point.  *)
(*                                                                         *)
(* The client's stream is a sequence of byte positions; a byte in `in` is  *)
(* its position, 0 a cleared byte.  The handshake messages end at MsgEnd.  *)
(***************************************************************************)
EXTENDS Integers, Sequences, FiniteSets

CONSTANTS
    Kinds,      \* the client's messages: "greeting", "auth", "request", "request4"
    MsgEnd,     \* MsgEnd[k]: position of the last byte of message k
    Total,      \* the most bytes the client sends
    InSize,     \* inSize
    AuthLen,    \* length of what an Authenticator writes after a message
    OutMax,     \* 2 + maxAuthMsg, what AuthConn.Write queues at most
    Bind,       \* the request is a BIND
    Settings    \* the clients and networks a conn may meet

HsLen == MsgEnd[Len(MsgEnd)]
MsgStart(k) == IF k = 1 THEN 0 ELSE MsgEnd[k - 1]
MsgLen(k) == MsgEnd[k] - MsgStart(k)

ASSUME ServerConnAssumption ==
    /\ Kinds \in Seq({"greeting", "auth", "request", "request4"})
    /\ MsgEnd \in Seq(Nat)
    /\ Len(MsgEnd) > 0 /\ Len(MsgEnd) = Len(Kinds)
    /\ \A i \in 1 .. Len(Kinds) : Kinds[i] \in {"request", "request4"} <=> i = Len(Kinds)
    /\ \A k \in 1 .. Len(MsgEnd) : MsgLen(k) \in 1 .. InSize
    /\ Total \in Nat
    /\ InSize \in Nat
    /\ AuthLen \in Nat \ {0} /\ OutMax \in Nat /\ AuthLen + 2 <= OutMax
    /\ Bind \in BOOLEAN
    /\ Settings \subseteq [pipelined: BOOLEAN, faults: BOOLEAN]

VARIABLES
    setting,         \* which client and network this conn has
    avail, fin,      \* bytes the client has sent, and its FIN
    taken,           \* how many of them were read from nc
    open,            \* nc is not closed
    in, inUsed,      \* bufp.in and its high-water mark
    bufp,            \* sc.bufp # nil
    r, w,            \* unread input is in[r+1 .. w]
    readErr,         \* sticky read error
    out, writeErr,   \* queued output and the sticky write error
    sent,            \* the output written to the client
    lastMsg,         \* bounds of the last AuthConn message
    mark,            \* authenticate's mark
    linger, exposed,
    pc, k,           \* where the serving goroutine is, in which message
    need, had,       \* fill's need, next's len(b)
    active,          \* serve has set r
    replied, listening, done, reading, handedOff, drained,
    conn,            \* Reply returned a Conn
    rpc, cnt,        \* where the reader of the Conn is, what it copied
    delivered, eof,  \* what it was given
    endBuf,          \* end's b # nil
    kept,            \* user code has a slice of the buffer
    pooled           \* how often putBuffers took the buffer

clientvars == <<setting, avail, fin>>
inputvars == <<taken, in, inUsed, r, w, readErr>>
outvars == <<out, writeErr, sent>>
authvars == <<lastMsg, mark>>
callvars == <<k, need, had>>
replyvars == <<active, replied, listening, conn>>
tunnelvars == <<reading, handedOff, drained, rpc, cnt, delivered, eof>>
bufvars == <<bufp, exposed, endBuf, kept, pooled>>
vars == <<clientvars, inputvars, outvars, authvars, callvars, replyvars,
          tunnelvars, bufvars, open, linger, pc, done>>

\* The client does not wait for answers (L1, L2).
Pipelined == setting.pipelined

\* Reads and writes may fail, messages may be bad.
Faults == setting.faults

PCs == {"parse", "fill", "read", "auth", "answered", "lastFlush", "failFlush", "handler", "peekFill",
        "peekRead", "bind", "finish", "end", "ending", "ended"}
Out == {"sel", "status", "reject", "ok", "fail"}

TypeOK ==
    /\ setting \in Settings
    /\ avail \in 0 .. Total /\ fin \in BOOLEAN
    /\ taken \in 0 .. avail
    /\ open \in BOOLEAN
    /\ in \in [1 .. InSize -> 0 .. Total]
    /\ inUsed \in 0 .. InSize
    /\ bufp \in BOOLEAN
    /\ r \in 0 .. InSize /\ w \in 0 .. InSize /\ r <= w
    /\ readErr \in {"nil", "eof", "io"}
    /\ out \in Seq(Out) /\ sent \in Seq(Out)
    /\ writeErr \in BOOLEAN
    /\ lastMsg \in (0 .. InSize) \X (0 .. InSize)
    /\ mark \in Nat
    /\ pc \in PCs
    /\ k \in 1 .. Len(MsgEnd)
    /\ need \in 0 .. InSize /\ had \in 0 .. InSize
    /\ {linger, exposed, active, replied, listening, done, reading, handedOff,
        drained, conn, eof, endBuf, kept} \subseteq BOOLEAN
    /\ rpc \in {"idle", "copy", "consume", "slice", "direct"}
    /\ cnt \in 0 .. InSize
    /\ delivered \in Seq(0 .. Total)
    /\ pooled \in Nat

Init ==
    /\ setting \in Settings
    /\ avail = 0 /\ fin = FALSE
    /\ taken = 0
    /\ open = TRUE
    /\ in = [i \in 1 .. InSize |-> 0]
    /\ inUsed = 0
    /\ bufp = TRUE
    /\ r = 0 /\ w = 0
    /\ readErr = "nil"
    /\ out = <<>> /\ writeErr = FALSE /\ sent = <<>>
    /\ lastMsg = <<0, 0>>
    /\ mark = 0
    /\ linger = FALSE /\ exposed = FALSE
    /\ pc = "parse"
    /\ k = 1
    /\ need = 0 /\ had = 0
    /\ active = FALSE /\ replied = FALSE /\ listening = FALSE /\ done = FALSE
    /\ reading = FALSE /\ handedOff = FALSE /\ drained = FALSE
    /\ conn = FALSE
    /\ rpc = "idle" /\ cnt = 0
    /\ delivered = <<>> /\ eof = FALSE
    /\ endBuf = FALSE /\ kept = FALSE
    /\ pooled = 0

-----------------------------------------------------------------------------
(* The client.                                                             *)

KindsUpTo(kind, j) == Cardinality({i \in 1 .. j : Kinds[i] = kind})

\* The length of the server's answers to messages 1 .. j.
AnswerEnd(j) ==
    2 * KindsUpTo("greeting", j) + AuthLen * KindsUpTo("auth", j)
      + KindsUpTo("request", j) + KindsUpTo("request4", j)

\* A client that does not pipeline sends a message after the answers to all
\* the ones before it.
MaySend(n) ==
    Pipelined \/ \A j \in 1 .. Len(MsgEnd) : MsgEnd[j] < n => Len(sent) >= AnswerEnd(j)

ClientSend ==
    /\ ~fin
    /\ \E n \in avail + 1 .. Total : MaySend(n) /\ avail' = n
    /\ UNCHANGED <<setting, fin, inputvars, outvars, authvars, callvars, replyvars,
                   tunnelvars, bufvars, open, linger, pc, done>>

ClientFin ==
    /\ ~fin
    /\ Faults \/ avail = Total
    /\ fin' = TRUE
    /\ UNCHANGED <<setting, avail, inputvars, outvars, authvars, callvars, replyvars,
                   tunnelvars, bufvars, open, linger, pc, done>>

-----------------------------------------------------------------------------
(* The buffer and the conn.                                                *)

Greater(a, b) == IF a > b THEN a ELSE b
Smaller(a, b) == IF a < b THEN a ELSE b

\* buffers.read at w, with its high-water mark.
Store(n) ==
    /\ in' = [i \in 1 .. InSize |-> IF i \in w + 1 .. w + n THEN taken + (i - w) ELSE in[i]]
    /\ inUsed' = Greater(inUsed, w + n)
    /\ w' = w + n
    /\ taken' = taken + n

\* A read of nc into the buffer.  An error may come with the last bytes.
ReadConn ==
    \/ \E n \in 1 .. Smaller(InSize - w, avail - taken) :
         /\ open
         /\ Store(n)
         /\ readErr' \in {"nil"} \cup (IF fin /\ taken + n = avail THEN {"eof"} ELSE {})
    \/ /\ open /\ fin /\ taken = avail
       /\ readErr' = "eof"
       /\ UNCHANGED <<taken, in, inUsed, w>>
    \/ /\ Faults \/ ~open
       /\ readErr' = "io"
       /\ UNCHANGED <<taken, in, inUsed, w>>

\* Mutant: the bounds move, the bytes do not.
CompactNoCopy ==
    /\ w' = w - r
    /\ r' = 0
    /\ UNCHANGED in

\* copy(in, in[r:w]): the unread bytes move to the front.
Compact ==
    /\ in' = [i \in 1 .. InSize |-> IF i <= w - r THEN in[r + i] ELSE in[i]]
    /\ w' = w - r
    /\ r' = 0

Flush ==
    \/ (writeErr \/ out = <<>>) /\ UNCHANGED outvars
    \/ /\ ~writeErr /\ out # <<>>
       /\ out' = <<>>
       /\ \/ open /\ sent' = sent \o out /\ UNCHANGED writeErr
          \/ (Faults \/ ~open) /\ writeErr' = TRUE /\ UNCHANGED sent

\* Mutant: bytes are cleared up to w, not to the high-water mark.
PutBuffersToW ==
    /\ in' = [i \in 1 .. InSize |-> IF i <= w THEN 0 ELSE in[i]]
    /\ inUsed' = 0
    /\ pooled' = pooled + 1

\* putBuffers clears what was used and pools the buffer.
PutBuffers ==
    /\ in' = [i \in 1 .. InSize |-> IF i <= inUsed THEN 0 ELSE in[i]]
    /\ inUsed' = 0
    /\ pooled' = pooled + 1

\* clearLastMsg's effect on the buffer, and on what it holds.
ClearLastMsg ==
    /\ in' = [i \in 1 .. InSize |-> IF i \in lastMsg[1] + 1 .. lastMsg[2] THEN 0 ELSE in[i]]
    /\ lastMsg' = <<0, 0>>

Units(x, n) == [i \in 1 .. n |-> x]

-----------------------------------------------------------------------------
(* The handshake.                                                          *)

\* next: parse has less than a message and asks for more, at least a byte.
ParseIncomplete ==
    /\ pc = "parse"
    /\ w - r < MsgLen(k)
    /\ need' \in w - r + 1 .. MsgLen(k)
    /\ had' = w - r
    /\ pc' = "fill"
    /\ UNCHANGED <<clientvars, inputvars, outvars, authvars, k, replyvars,
                   tunnelvars, bufvars, open, linger, done>>

MustCompact == r + need > InSize

\* Mutant: fill reads before it has flushed.
UnflushedNever == FALSE

Unflushed == out # <<>>

\* One pass of fill's loop up to its blocking read: a flush, or a compaction.
FillFlush ==
    /\ pc \in {"fill", "peekFill"}
    /\ w - r < need
    /\ readErr = "nil" /\ ~writeErr
    /\ Unflushed
    /\ Flush
    /\ UNCHANGED <<clientvars, inputvars, authvars, callvars, replyvars,
                   tunnelvars, bufvars, open, linger, pc, done>>

FillBlocks ==
    /\ pc \in {"fill", "peekFill"}
    /\ w - r < need
    /\ readErr = "nil" /\ ~writeErr
    /\ ~Unflushed
    /\ IF MustCompact THEN Compact ELSE UNCHANGED <<in, r, w>>
    /\ pc' = IF pc = "fill" THEN "read" ELSE "peekRead"
    /\ UNCHANGED <<clientvars, taken, inUsed, readErr, outvars, authvars, callvars,
                   replyvars, tunnelvars, bufvars, open, linger, done>>

FillRead ==
    /\ pc \in {"read", "peekRead"}
    /\ ReadConn
    /\ pc' = IF pc = "read" THEN "fill" ELSE "peekFill"
    /\ UNCHANGED <<clientvars, r, outvars, authvars, callvars, replyvars,
                   tunnelvars, bufvars, open, linger, done>>

FillReturns == w - r >= need \/ readErr # "nil" \/ writeErr

\* authenticate: only rejections send their status.
UnsentStatus == IF Len(out) >= mark THEN SubSeq(out, 1, mark) ELSE out

\* The handshake fails without an answer of its own.
HandshakeFails ==
    /\ pc' = "failFlush"
    /\ IF Kinds[k] = "auth"
       THEN ClearLastMsg /\ out' = UnsentStatus
       ELSE UNCHANGED <<in, lastMsg, out>>
    /\ UNCHANGED <<writeErr, sent>>

\* fill returned to next: parse again, or fail if no byte came with the error.
FillToNext ==
    /\ pc = "fill"
    /\ FillReturns
    /\ IF w - r < need /\ w - r = had
       THEN HandshakeFails
       ELSE pc' = "parse" /\ UNCHANGED <<in, lastMsg, outvars>>
    /\ UNCHANGED <<clientvars, taken, inUsed, r, w, readErr, mark, callvars,
                   replyvars, tunnelvars, bufvars, open, linger, done>>

\* authorize4: SOCKS4's user id is lent to Server.UserID.
LendUserID ==
    \E lent \in BOOLEAN :
        /\ lent => Kinds[k] = "request4"
        /\ exposed' = (exposed \/ lent) /\ kept' = (kept \/ lent)

\* The message is malformed or too long.  A whole request with a bad address, or
\* one of SOCKS4 that is not authorized, is answered (replyNow).
ParseBad ==
    /\ pc = "parse"
    /\ Faults
    /\ \/ HandshakeFails /\ UNCHANGED <<replied, linger, exposed, kept>>
       \/ /\ Kinds[k] \in {"request", "request4"}
          /\ replied' = TRUE
          /\ pc' = "failFlush"
          /\ \/ ~writeErr /\ open /\ sent' = sent \o out \o <<"fail">>
                /\ out' = <<>> /\ linger' = TRUE /\ UNCHANGED writeErr
             \/ writeErr' = TRUE /\ linger' = FALSE /\ out' = <<>> /\ UNCHANGED sent
          /\ LendUserID
          /\ UNCHANGED <<in, lastMsg>>
    /\ UNCHANGED <<clientvars, taken, inUsed, r, w, readErr, mark, callvars, active,
                   listening, conn, tunnelvars, bufp, endBuf, pooled, open, done>>

\* Mutant: what is there is taken for the message.
ConsumeShort == r' = r + MsgLen(k)

\* next returns message k.
Consume == w - r >= MsgLen(k) /\ r' = r + MsgLen(k)

NextMessage == k' = k + 1 /\ pc' = "parse"

\* readGreeting, whose methods a GotGreeting hook may keep, and choose: a method is selected, or none is acceptable.
Greeting ==
    /\ pc = "parse"
    /\ Kinds[k] = "greeting"
    /\ Consume
    /\ \E lent \in BOOLEAN : exposed' = (exposed \/ lent) /\ kept' = (kept \/ lent)
    /\ \/ /\ out' = out \o Units("sel", 2)
          /\ mark' = Len(out')
          /\ NextMessage
          /\ UNCHANGED linger
       \/ /\ Faults
          /\ out' = out \o Units("reject", 2)
          /\ linger' = TRUE
          /\ pc' = "failFlush"
          /\ UNCHANGED <<k, mark>>
    /\ UNCHANGED <<clientvars, taken, in, inUsed, w, readErr, writeErr, sent,
                   lastMsg, need, had, replyvars, tunnelvars, bufp, endBuf,
                   pooled, open, done>>

\* AuthConn.readMessage; ReadMessage and UserPass.Check lend the slice out.
AuthMessage ==
    /\ pc = "parse"
    /\ Kinds[k] = "auth"
    /\ Consume
    /\ lastMsg' = <<r, r'>>
    /\ \E lent \in BOOLEAN : exposed' = (exposed \/ lent) /\ kept' = (kept \/ lent)
    /\ pc' = "auth"
    /\ UNCHANGED <<clientvars, taken, in, inUsed, w, readErr, outvars, mark, callvars,
                   replyvars, tunnelvars, bufp, endBuf, pooled, open, linger, done>>

\* AuthConn.Write: the answer, of at most maxAuthMsg bytes, is queued, after a
\* flush if it would be too much.
AuthWrite ==
    /\ pc = "auth"
    /\ pc' = "answered"
    /\ \E x \in {"status"} \cup (IF Faults THEN {"reject"} ELSE {}) :
         IF Len(out) + AuthLen > OutMax
         THEN /\ out' = Units(x, AuthLen)
              /\ \/ ~writeErr /\ open /\ sent' = sent \o out /\ UNCHANGED writeErr
                 \/ (Faults \/ ~open) /\ writeErr' = TRUE /\ UNCHANGED sent
         ELSE out' = out \o Units(x, AuthLen) /\ UNCHANGED <<writeErr, sent>>
    /\ UNCHANGED <<clientvars, inputvars, authvars, callvars, replyvars,
                   tunnelvars, bufvars, open, linger, done>>

Answer == out[Len(out)]

\* The authenticator reads its next message, or admits the client.
AuthGoesOn ==
    /\ pc = "answered"
    /\ Answer = "status"
    /\ ClearLastMsg
    /\ NextMessage
    /\ UNCHANGED <<clientvars, taken, inUsed, r, w, readErr, outvars, mark, need, had,
                   replyvars, tunnelvars, bufvars, open, linger, done>>

\* It returns ErrAuthFailed.
AuthRejects ==
    /\ pc = "answered"
    /\ Answer = "reject"
    /\ ClearLastMsg
    /\ linger' = TRUE
    /\ pc' = "failFlush"
    /\ UNCHANGED <<clientvars, taken, inUsed, r, w, readErr, outvars, mark, callvars,
                   replyvars, tunnelvars, bufvars, open, done>>

\* It returns another error, before or after it wrote.
AuthErrors ==
    /\ pc = "auth" \/ (pc = "answered" /\ Answer # "reject")
    /\ Faults
    /\ HandshakeFails
    /\ UNCHANGED <<clientvars, taken, inUsed, r, w, readErr, mark, callvars,
                   replyvars, tunnelvars, bufvars, open, linger, done>>

\* The request is admitted.
RequestRead ==
    /\ pc = "parse"
    /\ Kinds[k] \in {"request", "request4"}
    /\ Consume
    /\ LendUserID
    /\ pc' = "lastFlush"
    /\ UNCHANGED <<clientvars, taken, in, inUsed, w, readErr, outvars, authvars,
                   callvars, replyvars, tunnelvars, bufp, endBuf, pooled, open,
                   linger, done>>

\* handshake's flush, then activate: the handler runs, or the conn was shut.
LastFlush ==
    /\ pc = "lastFlush"
    /\ Flush
    /\ \/ ~writeErr' /\ pc' = "handler" /\ active' = TRUE
       \/ (writeErr' \/ Faults) /\ pc' = "end" /\ UNCHANGED active
    /\ UNCHANGED <<clientvars, inputvars, authvars, callvars, replied, listening,
                   conn, tunnelvars, bufvars, open, linger, done>>

\* serve's flush of a handshake that failed.
FailFlush ==
    /\ pc = "failFlush"
    /\ Flush
    /\ pc' = "end"
    /\ UNCHANGED <<clientvars, inputvars, authvars, callvars, replyvars,
                   tunnelvars, bufvars, open, linger, done>>

-----------------------------------------------------------------------------
(* The handler's calls.                                                    *)

\* lockLive succeeds.
Live == ~replied /\ ~done /\ bufp

\* A slice of n unread bytes reaches user code.
Lend(n) == exposed' = (exposed \/ n > 0) /\ kept' = (kept \/ n > 0)

Early ==
    /\ pc = "handler"
    /\ Live
    /\ Lend(w - r)
    /\ UNCHANGED <<clientvars, inputvars, outvars, authvars, callvars, replyvars,
                   tunnelvars, bufp, endBuf, pooled, open, linger, pc, done>>

\* Peek(n), n cut to the buffer's size.
Peek ==
    /\ pc = "handler"
    /\ Live
    /\ need' \in 1 .. InSize
    /\ pc' = "peekFill"
    /\ UNCHANGED <<clientvars, inputvars, outvars, authvars, k, had, replyvars,
                   tunnelvars, bufvars, open, linger, done>>

\* Peek returns what there is: fill is done, or ctx or the deadline interrupted
\* its read, which is not sticky.
PeekReturn ==
    /\ \/ pc = "peekFill" /\ FillReturns
       \/ pc = "peekRead"
    /\ Lend(Smaller(w - r, need))
    /\ pc' = "handler"
    /\ UNCHANGED <<clientvars, inputvars, outvars, authvars, callvars, replyvars,
                   tunnelvars, bufp, endBuf, pooled, open, linger, done>>

\* BIND's first reply.
ReplyListening ==
    /\ pc = "handler"
    /\ Bind /\ Live /\ ~listening
    /\ \/ /\ open
          /\ sent' = Append(sent, "ok")
          /\ listening' = TRUE
          /\ UNCHANGED <<open, replied>>
       \/ /\ Faults \/ ~open
          /\ replied' = TRUE
          /\ open' = FALSE
          /\ UNCHANGED <<sent, listening>>
    /\ linger' = FALSE
    /\ UNCHANGED <<clientvars, inputvars, out, writeErr, authvars, callvars, active, conn,
                   tunnelvars, bufvars, pc, done>>

\* BindHandler waits for a peer while watchClient reads the client.
BindAccept ==
    /\ pc = "handler"
    /\ listening /\ Live
    /\ pc' = "bind"
    /\ UNCHANGED <<clientvars, inputvars, outvars, authvars, callvars, replyvars,
                   tunnelvars, bufvars, open, linger, done>>

\* readUntilGone's pass, until the buffer is full or the client is gone.
WatchClient ==
    /\ pc = "bind"
    /\ readErr = "nil"
    /\ IF w = InSize
       THEN r > 0 /\ Compact /\ UNCHANGED <<taken, inUsed, readErr>>
       ELSE ReadConn /\ UNCHANGED r
    /\ UNCHANGED <<clientvars, outvars, authvars, callvars, replyvars, tunnelvars,
                   bufvars, open, linger, pc, done>>

\* Accept returned; stopWatch has waited for the watcher.
StopWatch ==
    /\ pc = "bind"
    /\ pc' = "handler"
    /\ UNCHANGED <<clientvars, inputvars, outvars, authvars, callvars, replyvars,
                   tunnelvars, bufvars, open, linger, done>>

\* The handler, or another goroutine it started, replies: not during Peek.
Reply ==
    /\ pc \in {"handler", "finish", "end"} /\ active
    /\ Live
    /\ replied' = TRUE
    /\ \/ open /\ sent' = Append(sent, "ok") /\ conn' = TRUE
          /\ linger' = FALSE /\ UNCHANGED open
       \/ open /\ sent' = Append(sent, "fail") /\ linger' = TRUE /\ UNCHANGED <<open, conn>>
       \/ (Faults \/ ~open) /\ open' = FALSE /\ linger' = FALSE /\ UNCHANGED <<sent, conn>>
    /\ UNCHANGED <<clientvars, inputvars, out, writeErr, authvars, callvars, active,
                   listening, tunnelvars, bufvars, pc, done>>

HandlerReturn ==
    /\ pc = "handler"
    /\ pc' = "finish"
    /\ UNCHANGED <<clientvars, inputvars, outvars, authvars, callvars, replyvars,
                   tunnelvars, bufvars, open, linger, done>>

-----------------------------------------------------------------------------
(* The end of the conn.                                                    *)

\* Mutant: the fallback does not look at replied.
FallbackDueAnyway == bufp

FallbackDue == Live

\* finish's fallbackReply: never success.
Finish ==
    /\ pc = "finish"
    /\ pc' = "end"
    /\ IF FallbackDue
       THEN /\ replied' = TRUE
            /\ \/ open /\ sent' = Append(sent, "fail") /\ linger' = TRUE
               \/ (Faults \/ ~open) /\ linger' = FALSE /\ UNCHANGED sent
       ELSE UNCHANGED <<replied, sent, linger>>
    /\ UNCHANGED <<clientvars, inputvars, out, writeErr, authvars, callvars, active,
                   listening, conn, tunnelvars, bufvars, open, done>>

\* Mutant: the buffer a reader uses is pooled.
EndKeepsNever == FALSE

\* end leaves the buffer to the reader that is copying out of it.
EndKeeps == reading

\* end's section.
End ==
    /\ pc = "end"
    /\ done' = TRUE
    /\ endBuf' = (bufp /\ ~EndKeeps /\ ~exposed)
    /\ bufp' = (bufp /\ EndKeeps)
    /\ pc' = "ending"
    /\ UNCHANGED <<clientvars, inputvars, outvars, authvars, callvars, replyvars,
                   tunnelvars, exposed, kept, pooled, open, linger>>

\* lingerClose drains the client through the buffer, or another one, then nc is
\* closed and the buffer pooled: putBuffers clears what was read into it.
EndClose ==
    /\ pc = "ending"
    /\ taken' \in IF linger /\ open THEN taken .. avail ELSE {taken}
    /\ open' = FALSE
    /\ IF endBuf THEN PutBuffers ELSE UNCHANGED <<in, inUsed, pooled>>
    /\ pc' = "ended"
    /\ UNCHANGED <<clientvars, r, w, readErr, outvars, authvars, callvars, replyvars,
                   tunnelvars, bufp, exposed, endBuf, kept, linger, done>>

\* Close of the Conn, of the Server, or by the parent context.
CloseConn ==
    /\ Faults
    /\ open
    /\ open' = FALSE
    /\ UNCHANGED <<clientvars, inputvars, outvars, authvars, callvars, replyvars,
                   tunnelvars, bufvars, linger, pc, done>>

-----------------------------------------------------------------------------
(* The reader of the Conn: Read, WriteTo (a take after each write) and     *)
(* NetConn.                                                                *)

Releasable == bufp /\ ~reading' /\ (~handedOff \/ done)

\* releaseLocked.
ReleaseLocked ==
    IF Releasable
    THEN /\ bufp' = FALSE
         /\ IF exposed THEN UNCHANGED <<in, inUsed, pooled>> ELSE PutBuffers
    ELSE UNCHANGED <<bufp, in, inUsed, pooled>>

\* takeBuffered, unless drained: the bytes, the sticky error, or nc.
TakeBuffered ==
    /\ conn
    /\ rpc = "idle"
    /\ ~drained /\ ~done
    /\ \/ /\ ~handedOff /\ bufp /\ r < w
          /\ reading' = TRUE
          /\ rpc' = "copy"
          /\ UNCHANGED <<drained, eof, bufp, in, inUsed, pooled>>
       \/ /\ ~handedOff /\ ~(bufp /\ r < w)
          /\ readErr # "nil"
          /\ eof' = (eof \/ readErr = "eof")
          /\ UNCHANGED <<drained, reading, rpc, bufp, in, inUsed, pooled>>
       \/ /\ ~handedOff /\ ~(bufp /\ r < w)
          /\ readErr = "nil"
          /\ UNCHANGED <<reading, eof>>
          /\ ReleaseLocked
          /\ drained' = TRUE
          /\ rpc' = "direct"
    /\ UNCHANGED <<clientvars, taken, r, w, readErr, outvars, authvars, callvars,
                   replyvars, handedOff, cnt, delivered, exposed, endBuf, kept,
                   open, linger, pc, done>>

\* Outside sc.mu, the copy to the caller or the write to its Writer.
CopyOut ==
    /\ rpc = "copy"
    /\ cnt' \in 1 .. w - r
    /\ delivered' = delivered \o [i \in 1 .. cnt' |-> in[r + i]]
    /\ rpc' = "consume"
    /\ UNCHANGED <<clientvars, inputvars, outvars, authvars, callvars, replyvars,
                   reading, handedOff, drained, eof, bufvars, open, linger, pc, done>>

Consumed ==
    /\ rpc = "consume"
    /\ reading' = FALSE
    /\ r' = r + cnt
    /\ IF r' = w \/ done THEN ReleaseLocked ELSE UNCHANGED <<bufp, in, inUsed, pooled>>
    /\ rpc' = "idle"
    /\ UNCHANGED <<clientvars, taken, w, readErr, outvars, authvars, callvars,
                   replyvars, handedOff, drained, cnt, delivered, eof, exposed,
                   endBuf, kept, open, linger, pc, done>>

\* The fast path of a drained Conn, and of one that was handed off.
GoDirect ==
    /\ conn
    /\ rpc = "idle"
    /\ drained
    /\ rpc' = "direct"
    /\ UNCHANGED <<clientvars, inputvars, outvars, authvars, callvars, replyvars,
                   reading, handedOff, drained, cnt, delivered, eof, bufvars,
                   open, linger, pc, done>>

\* nc.Read by the reader itself.
DirectRead ==
    /\ rpc = "direct"
    /\ rpc' = "idle"
    /\ \/ \E n \in 1 .. avail - taken :
            /\ open
            /\ delivered' = delivered \o [i \in 1 .. n |-> taken + i]
            /\ taken' = taken + n
            /\ UNCHANGED eof
       \/ /\ open /\ fin /\ taken = avail
          /\ eof' = TRUE
          /\ UNCHANGED <<taken, delivered>>
       \/ /\ Faults \/ ~open
          /\ UNCHANGED <<taken, delivered, eof>>
    /\ UNCHANGED <<clientvars, in, inUsed, r, w, readErr, outvars, authvars, callvars,
                   replyvars, reading, handedOff, drained, cnt, bufvars, open,
                   linger, pc, done>>

\* NetConn: the caller gets the unread bytes and nc.  It is the handler's to
\* call: "after ServeSOCKS returned" the Conn "is closed".
NetConn ==
    /\ conn
    /\ rpc = "idle"
    /\ ~done
    /\ handedOff' = TRUE
    /\ drained' = TRUE
    /\ LET n == IF handedOff \/ ~bufp THEN 0 ELSE w - r
       IN Lend(n) /\ rpc' = IF n > 0 THEN "slice" ELSE "idle"
    /\ UNCHANGED <<clientvars, inputvars, outvars, authvars, callvars, replyvars,
                   reading, cnt, delivered, eof, bufp, endBuf, pooled, open,
                   linger, pc, done>>

\* The caller consumes the slice first, as it must.
ReadSlice ==
    /\ rpc = "slice"
    /\ delivered' = delivered \o [i \in 1 .. w - r |-> in[r + i]]
    /\ rpc' = "idle"
    /\ UNCHANGED <<clientvars, inputvars, outvars, authvars, callvars, replyvars,
                   reading, handedOff, drained, cnt, eof, bufvars, open, linger,
                   pc, done>>

-----------------------------------------------------------------------------

Handshake ==
    \/ ParseIncomplete \/ FillFlush \/ FillBlocks \/ FillRead \/ FillToNext
    \/ ParseBad \/ Greeting \/ AuthMessage \/ AuthWrite \/ AuthGoesOn
    \/ AuthRejects \/ AuthErrors \/ RequestRead \/ LastFlush \/ FailFlush

Handler ==
    \/ Early \/ Peek \/ PeekReturn \/ ReplyListening \/ BindAccept
    \/ WatchClient \/ StopWatch \/ Reply \/ HandlerReturn

Ending == Finish \/ End \/ EndClose \/ CloseConn

Reader ==
    \/ TakeBuffered \/ CopyOut \/ Consumed \/ GoDirect \/ DirectRead
    \/ NetConn \/ ReadSlice

Next == ClientSend \/ ClientFin \/ Handshake \/ Handler \/ Ending \/ Reader

Spec == Init /\ [][Next]_vars

\* The client sends what it may, and the handshake's steps are taken; its
\* read returns when there is something to read.
FairSpec == Spec /\ WF_vars(ClientSend) /\ WF_vars(Handshake)

-----------------------------------------------------------------------------
(* Properties.                                                             *)

\* Every read path gives the reader of the Conn the bytes after the request in
\* order, each once (I2, I3, I4), and the end of the stream only after them
\* (I6), whatever was buffered by the handshake, Peek or the BIND watcher.
Stream == INSTANCE ByteStream WITH Start <- HsLen

StreamKept == Stream!Spec

\* The buffer is whole.  The unread bytes in it are the last ones read from nc,
\* and start at the current message, or after what the reader has had: no
\* compaction, clearing or early release moves or loses one.  A read always has
\* room: the message fill waits for fits behind w.  And (B2) it is pooled at most
\* once, never while user code or a reader has a slice of it, and with every byte
\* of this conn cleared; no authentication message is left among the bytes it has
\* shown once the handler runs, although messages are moved and overwritten.
BufferSafe ==
    /\ bufp /\ ~done /\ ~handedOff =>
         /\ pc \in {"read", "peekRead"} => w < InSize
         /\ \A i \in r + 1 .. w : in[i] = taken - (w - i)
         /\ pc = "parse" => taken - (w - r) = MsgStart(k)
         /\ pc = "handler" /\ rpc # "consume" /\ ~drained =>
              taken - (w - r) = HsLen + Len(delivered)
    /\ pooled <= 1
    /\ pooled = 1 =>
         /\ ~kept
         /\ rpc \notin {"copy", "slice"}
         /\ in = [i \in 1 .. InSize |-> 0]
    /\ pc = "handler" =>
         \A i \in 1 .. w, j \in 1 .. Len(MsgEnd) :
             Kinds[j] = "auth" => in[i] \notin MsgStart(j) + 1 .. MsgEnd[j]

Finals == {i \in DOMAIN sent : sent[i] \in {"ok", "fail"}}

\* One final reply at most goes out, after BIND's first one, and a conn exists
\* only if it was a success; a client that was refused gets a lingering close
\* (S1), so that the refusal is not destroyed by a reset.
OneFinalReply ==
    /\ Cardinality(Finals) <= IF listening THEN 2 ELSE 1
    /\ conn => \E i \in Finals : sent[i] = "ok" /\ \A j \in Finals : j <= i
    /\ pc = "ending" /\ sent # <<>> /\ sent[Len(sent)] \in {"fail", "reject"} => linger

\* auth.go: any error but ErrAuthFailed "closes the conn without sending what
\* was queued": no part of an unfinished answer goes out.
NoPartialStatus ==
    pc = "ended" => Len(SelectSeq(sent, LAMBDA x : x = "status")) % AuthLen = 0

\* A client that waits for every answer completes the handshake if nothing fails:
\* fill never blocks in a read with output queued (I7).
HandshakeCompletes == ~Pipelined /\ ~Faults => <>(pc = "handler")

=============================================================================
