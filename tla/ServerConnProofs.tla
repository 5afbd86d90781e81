-------------------------- MODULE ServerConnProofs --------------------------
(***************************************************************************)
(* Proofs about ServerConn, for every handshake, every size of the buffer  *)
(* and every stream: what a conn does to the bytes behind its request, its *)
(* one buffer and its replies.                                             *)
(***************************************************************************)
EXTENDS ServerConn, TLAPS, SequenceTheorems, FiniteSetTheorems

-----------------------------------------------------------------------------
(* The inductive invariant.                                                *)

\* Where the handshake goes on, and where the handler runs with the request.
HsPCs == {"parse", "fill", "read", "auth", "answered", "lastFlush"}
PeekPCs == {"peekFill", "peekRead", "bind"}

\* The stages of a conn.  Until the handler runs there is no Conn, and until there
\* is one nothing reads it; a call of the handler that blocks keeps replies out.
Stages ==
    /\ pc \in HsPCs \cup {"failFlush"} => ~active
    /\ pc \in HsPCs => ~replied /\ ~linger
    /\ pc \in PeekPCs => Live
    /\ pc \in PeekPCs \cup {"handler", "finish"} => active
    /\ active \/ pc = "lastFlush" => k = Len(MsgEnd)
    /\ done <=> pc \in {"ending", "ended"}
    /\ ~active => ~conn /\ ~listening
    /\ conn => replied /\ ~linger
    /\ ~conn => rpc = "idle" /\ ~reading /\ ~drained /\ ~handedOff /\ delivered = <<>>
    /\ ~conn /\ ~done => bufp

\* How many bytes of the stream are in front of the unread ones in the buffer.
Shown == taken - (w - r)

\* The messages before this one lie before it.
Ascending == \A j \in 1 .. k - 1 : MsgEnd[j] <= MsgStart(k)

\* Where in the stream the conn is.
Place ==
    /\ pc \in {"parse", "fill", "read"} => Shown = MsgStart(k)
    /\ pc \in {"auth", "answered"} =>
         Kinds[k] = "auth" /\ Shown = MsgEnd[k] /\ MsgLen(k) <= r /\ lastMsg = <<r - MsgLen(k), r>>
    /\ pc \notin {"auth", "answered"} => lastMsg = <<0, 0>>
    /\ pc = "lastFlush" \/ (active /\ ~conn /\ ~done) => Shown = HsLen

\* Where in the stream the reader of the Conn is.
Reached ==
    conn =>
        /\ rpc = "idle" /\ ~drained /\ ~done => Shown = HsLen + Len(delivered)
        /\ rpc \in {"copy", "slice"} => Shown = HsLen + Len(delivered) /\ r < w
        /\ rpc = "consume" => Shown + cnt = HsLen + Len(delivered) /\ cnt \in 1 .. w - r
        /\ rpc \in {"idle", "direct"} /\ drained => taken = HsLen + Len(delivered)
        /\ rpc \in {"direct", "slice"} => drained
        /\ handedOff => drained
        /\ drained /\ ~handedOff => ~bufp
        /\ ~bufp /\ ~done /\ ~handedOff => r = w

\* The unread bytes in the buffer are the last ones read from nc, for as long as
\* anybody may read them.
Unread ==
    (bufp /\ ~drained) \/ rpc = "slice" => \A i \in r + 1 .. w : in[i] = taken - (w - i)

\* A read has room, and an end of the stream was seen at its end.
Reads ==
    /\ w <= taken
    /\ pc \in {"read", "peekRead"} => w < InSize /\ readErr = "nil"
    /\ readErr = "eof" => fin /\ taken = avail

\* What is behind w in the stream is nowhere before it in the buffer, and the
\* authentication messages are cleared.
Cleared ==
    /\ pc \in HsPCs => \A i \in 1 .. w : in[i] <= taken - (w - i)
    /\ pc \in HsPCs \cup PeekPCs \cup {"handler"} =>
         \A i \in 1 .. w, j \in 1 .. k - 1 :
             Kinds[j] = "auth" => in[i] \notin MsgStart(j) + 1 .. MsgEnd[j]

\* The buffer is pooled once, clean, by the last who has it.
Pooled ==
    /\ pooled \in {0, 1}
    /\ bufp => pooled = 0 /\ w <= inUsed
    /\ \A i \in 1 .. InSize : i > inUsed => in[i] = 0
    /\ pc = "ending" /\ endBuf => ~bufp /\ ~exposed /\ pooled = 0
    /\ kept => exposed
    /\ pooled = 1 => ~exposed /\ inUsed = 0
    /\ rpc \in {"copy", "consume"} => bufp /\ ~drained
    /\ reading <=> rpc \in {"copy", "consume"}
    /\ rpc = "slice" => exposed
    /\ done /\ bufp => reading

Refusals == {"fail", "reject"}

\* Output without a reply, and output without a refusal of the handshake.
Clean(s) == \A i \in DOMAIN s : s[i] \notin {"ok", "fail"}
Polite(s) == \A i \in DOMAIN s : s[i] # "reject"

\* What is queued is no reply, and refuses only the client that a linger awaits;
\* the handler starts with nothing queued.
Queued ==
    /\ Clean(out)
    /\ pc \in HsPCs /\ ~(pc = "answered" /\ Answer = "reject") => Polite(out)
    /\ pc = "failFlush" /\ ~linger => Polite(out)
    /\ pc = "answered" => out # <<>>
    /\ active => out = <<>>

\* Output that refuses nothing.
Friendly(s) == \A i \in DOMAIN s : s[i] \notin Refusals

\* The replies that went out.
Replies ==
    /\ sent # <<>> /\ sent[Len(sent)] \in Refusals => linger
    /\ pc \in HsPCs \/ (active /\ ~replied) => Friendly(sent)
    /\ Cardinality(Finals) <= IF listening THEN 2 ELSE 1
    /\ ~replied /\ ~listening => Finals = {}
    /\ ~replied => Cardinality(Finals) <= 1
    /\ conn => sent # <<>> /\ sent[Len(sent)] = "ok"

IndInv ==
    /\ TypeOK /\ Stages /\ Ascending /\ Place /\ Reached /\ Unread /\ Reads
    /\ Cleared /\ Pooled /\ Queued /\ Replies

-----------------------------------------------------------------------------
(* The operators the steps are built from.                                 *)

\* What the constants are.
LEMMA Constants ==
    /\ MsgEnd \in Seq(Nat) /\ Len(MsgEnd) \in Nat \ {0} /\ HsLen \in Nat
    /\ Total \in Nat /\ InSize \in Nat /\ AuthLen \in Nat /\ AuthLen # 0
    /\ \A j \in 1 .. Len(MsgEnd) :
         /\ MsgEnd[j] \in Nat /\ MsgStart(j) \in Nat /\ MsgLen(j) \in 1 .. InSize
         /\ MsgLen(j) = MsgEnd[j] - MsgStart(j)
         /\ Kinds[j] \in {"greeting", "auth", "request", "request4"}
         /\ Kinds[j] \in {"request", "request4"} <=> j = Len(MsgEnd)
    /\ MsgStart(1) = 0
    /\ \A j \in 1 .. Len(MsgEnd) - 1 : MsgStart(j + 1) = MsgEnd[j]
<1>1. /\ MsgEnd \in Seq(Nat) /\ Len(MsgEnd) \in Nat \ {0}
      /\ Total \in Nat /\ InSize \in Nat /\ AuthLen \in Nat /\ AuthLen # 0
  BY ServerConnAssumption
<1>2. \A j \in 1 .. Len(MsgEnd) : MsgEnd[j] \in Nat
  BY <1>1
<1>3. \A j \in 1 .. Len(MsgEnd) : MsgStart(j) \in Nat
  BY <1>1, <1>2 DEF MsgStart
<1>4. \A j \in 1 .. Len(MsgEnd) :
         /\ Kinds[j] \in {"greeting", "auth", "request", "request4"}
         /\ Kinds[j] \in {"request", "request4"} <=> j = Len(MsgEnd)
  BY ServerConnAssumption
<1>5. MsgStart(1) = 0 /\ \A j \in 1 .. Len(MsgEnd) - 1 : MsgStart(j + 1) = MsgEnd[j]
  BY <1>1 DEF MsgStart
<1>6. HsLen \in Nat
  BY <1>1, <1>2 DEF HsLen
<1>7. \A j \in 1 .. Len(MsgEnd) : MsgLen(j) \in 1 .. InSize /\ MsgLen(j) = MsgEnd[j] - MsgStart(j)
  BY ServerConnAssumption DEF MsgLen
<1> QED
  BY <1>1, <1>2, <1>3, <1>4, <1>5, <1>6, <1>7

\* The sizes of the buffer and of the stream.
LEMMA Sizes == InSize \in Nat /\ Total \in Nat /\ Len(MsgEnd) \in Nat
BY Constants

\* Units is a sequence.
LEMMA UnitsAre ==
    ASSUME NEW S, NEW x \in S, NEW n \in Nat
    PROVE  Units(x, n) \in Seq(S) /\ Len(Units(x, n)) = n /\ \A i \in 1 .. n : Units(x, n)[i] = x
<1>1. Units(x, n) \in [1 .. n -> S]
  BY DEF Units
<1> QED
  BY <1>1, IsASeq, LenProperties DEF Units

\* The elements of a concatenation.
LEMMA Joined ==
    ASSUME NEW S, NEW s \in Seq(S), NEW t \in Seq(S)
    PROVE  /\ s \o t \in Seq(S) /\ Len(s \o t) = Len(s) + Len(t)
           /\ \A i \in DOMAIN (s \o t) :
                \/ i \in DOMAIN s /\ (s \o t)[i] = s[i]
                \/ i - Len(s) \in DOMAIN t /\ (s \o t)[i] = t[i - Len(s)]
           /\ \A i \in DOMAIN s : i \in DOMAIN (s \o t) /\ (s \o t)[i] = s[i]
           /\ t # <<>> => (s \o t)[Len(s \o t)] = t[Len(t)]
           /\ t = <<>> => s \o t = s
<1>1. /\ s \o t \in Seq(S) /\ Len(s \o t) = Len(s) + Len(t)
      /\ \A i \in 1 .. Len(s) + Len(t) :
           (s \o t)[i] = IF i <= Len(s) THEN s[i] ELSE t[i - Len(s)]
  BY ConcatProperties
<1>2. /\ DOMAIN s = 1 .. Len(s) /\ DOMAIN t = 1 .. Len(t)
      /\ DOMAIN (s \o t) = 1 .. Len(s) + Len(t)
      /\ Len(s) \in Nat /\ Len(t) \in Nat
  BY <1>1
<1>3. t # <<>> => Len(t) >= 1
  BY <1>2, EmptySeq
<1>4. t # <<>> => (s \o t)[Len(s \o t)] = t[Len(t)]
  BY <1>1, <1>2, <1>3
<1>5. t = <<>> => s \o t = s
  BY ConcatEmptySeq
<1>6. \A i \in DOMAIN s : i \in DOMAIN (s \o t) /\ (s \o t)[i] = s[i]
  BY <1>1, <1>2
<1>7. ASSUME NEW i \in 1 .. Len(s) + Len(t)
      PROVE  \/ i \in 1 .. Len(s) /\ (s \o t)[i] = s[i]
             \/ i - Len(s) \in 1 .. Len(t) /\ (s \o t)[i] = t[i - Len(s)]
  <2>1. CASE i <= Len(s)
    BY <1>1, <1>2, <2>1
  <2>2. CASE ~(i <= Len(s))
    BY <1>1, <1>2, <2>2
  <2> QED
    BY <2>1, <2>2
<1> QED
  BY <1>1, <1>2, <1>4, <1>5, <1>6, <1>7, ZenonT(60)
-----------------------------------------------------------------------------
(* Types.                                                                  *)

StreamType ==
    /\ setting \in Settings
    /\ avail \in 0 .. Total /\ taken \in 0 .. avail
    /\ readErr \in {"nil", "eof", "io"}

MsgType == lastMsg \in (0 .. InSize) \X (0 .. InSize)

BufferType ==
    /\ in \in [1 .. InSize -> 0 .. Total]
    /\ inUsed \in 0 .. InSize
    /\ r \in 0 .. InSize /\ w \in 0 .. InSize /\ r <= w
    /\ MsgType
    /\ pooled \in Nat

OutType == out \in Seq(Out) /\ sent \in Seq(Out) /\ mark \in Nat

PlaceType ==
    /\ pc \in PCs
    /\ k \in 1 .. Len(MsgEnd)
    /\ need \in 0 .. InSize /\ had \in 0 .. InSize
    /\ rpc \in {"idle", "copy", "consume", "slice", "direct"}
    /\ cnt \in 0 .. InSize
    /\ delivered \in Seq(0 .. Total)

ServeFlags ==
    /\ fin \in BOOLEAN /\ open \in BOOLEAN /\ bufp \in BOOLEAN /\ writeErr \in BOOLEAN
    /\ linger \in BOOLEAN /\ active \in BOOLEAN /\ replied \in BOOLEAN
    /\ listening \in BOOLEAN /\ done \in BOOLEAN

ReaderFlags ==
    /\ exposed \in BOOLEAN /\ reading \in BOOLEAN /\ handedOff \in BOOLEAN
    /\ drained \in BOOLEAN /\ conn \in BOOLEAN /\ eof \in BOOLEAN /\ endBuf \in BOOLEAN
    /\ kept \in BOOLEAN

\* The type invariant in parts.
LEMMA TypeParts ==
    TypeOK <=> StreamType /\ BufferType /\ OutType /\ PlaceType /\ ServeFlags /\ ReaderFlags
<1>1. TypeOK => StreamType /\ BufferType /\ OutType /\ PlaceType
  BY DEF TypeOK, StreamType, BufferType, MsgType, OutType, PlaceType
<1>2. TypeOK => ServeFlags /\ ReaderFlags
  BY ZenonT(60) DEF TypeOK, ServeFlags, ReaderFlags
<1>3. ServeFlags /\ ReaderFlags =>
        {linger, exposed, active, replied, listening, done, reading, handedOff,
         drained, conn, eof, endBuf, kept} \subseteq BOOLEAN
  BY DEF ServeFlags, ReaderFlags
<1>4. StreamType /\ BufferType /\ OutType /\ PlaceType /\ ServeFlags /\ ReaderFlags => TypeOK
  BY <1>3 DEF TypeOK, StreamType, BufferType, MsgType, OutType, PlaceType, ServeFlags
<1> QED
  BY <1>1, <1>2, <1>4

\* They make up the type invariant of the next state.
LEMMA TypeMade ==
    ASSUME StreamType', BufferType', OutType', PlaceType', ServeFlags', ReaderFlags'
    PROVE  TypeOK'
<1>1. {linger, exposed, active, replied, listening, done, reading, handedOff,
       drained, conn, eof, endBuf, kept}' \subseteq BOOLEAN
  BY DEF ServeFlags, ReaderFlags
<1> QED
  BY <1>1 DEF TypeOK, StreamType, BufferType, MsgType, OutType, PlaceType, ServeFlags

\* A flush sends the output or drops it.
LEMMA FlushDoes ==
    ASSUME OutType, ServeFlags, Flush
    PROVE  /\ out' \in Seq(Out) /\ sent' \in Seq(Out) /\ writeErr' \in BOOLEAN
           /\ out' = out \/ out' = <<>>
           /\ sent' = sent \/ (sent' = sent \o out /\ out' = <<>> /\ out # <<>>)
<1>1. sent \o out \in Seq(Out)
  BY Joined DEF OutType
<1>2. <<>> \in Seq(Out)
  BY EmptySeq
<1> QED
  BY <1>1, <1>2 DEF OutType, ServeFlags, Flush, outvars


\* The next n bytes of the stream are stored behind w.
Stored(n) ==
    /\ n \in Nat
    /\ w' = w + n /\ taken' = taken + n
    /\ w' <= InSize /\ taken' <= avail
    /\ inUsed' = IF n > 0 /\ w + n > inUsed THEN w + n ELSE inUsed
    /\ in' \in [1 .. InSize -> 0 .. Total]
    /\ \A i \in 1 .. InSize : in'[i] = IF w < i /\ i <= w + n THEN taken + (i - w) ELSE in[i]

\* A read into the buffer stores the next bytes behind w, or none.
LEMMA ReadDoes ==
    ASSUME StreamType, BufferType, ReadConn
    PROVE  /\ readErr' \in {"nil", "eof", "io"}
           /\ readErr' = "eof" => fin /\ taken' = avail
           /\ \E n \in Nat : Stored(n)
<1> USE Sizes DEF StreamType, BufferType
<1>1. ASSUME NEW n \in 1 .. Smaller(InSize - w, avail - taken), Store(n)
      PROVE  Stored(n)
  <2>1. n \in Nat /\ n > 0 /\ n <= InSize - w /\ n <= avail - taken
    BY <1>1 DEF Smaller
  <2>2. in' \in [1 .. InSize -> 0 .. Total]
    BY <1>1, <2>1 DEF Store
  <2>3. \A i \in 1 .. InSize : in'[i] = IF w < i /\ i <= w + n THEN taken + (i - w) ELSE in[i]
    BY <1>1, <2>1 DEF Store
  <2>4. inUsed' = IF w + n > inUsed THEN w + n ELSE inUsed
    BY <1>1, <2>1 DEF Store, Greater
  <2> QED
    BY <1>1, <2>1, <2>2, <2>3, <2>4 DEF Store, Stored
<1>2. ASSUME UNCHANGED <<taken, in, inUsed, w>>
      PROVE  Stored(0)
  BY <1>2 DEF Stored
<1>3. ASSUME NEW n \in 1 .. Smaller(InSize - w, avail - taken), Store(n),
             readErr' \in {"nil"} \cup (IF fin /\ taken + n = avail THEN {"eof"} ELSE {})
      PROVE  /\ readErr' \in {"nil", "eof", "io"}
             /\ readErr' = "eof" => fin /\ taken' = avail
  BY <1>3 DEF Store
<1> QED
  BY <1>1, <1>2, <1>3 DEF ReadConn, Smaller

\* The unread bytes were moved to the front.
Compacted ==
    /\ r' = 0 /\ w' = w - r
    /\ in' \in [1 .. InSize -> 0 .. Total]
    /\ \A i \in 1 .. InSize : in'[i] = IF i <= w - r THEN in[r + i] ELSE in[i]

\* A compaction does that.
LEMMA CompactDoes ==
    ASSUME BufferType, Compact
    PROVE  Compacted
<1> USE Sizes DEF BufferType, Compact
<1>1. \A i \in 1 .. InSize : i <= w - r => r + i \in 1 .. InSize
  OBVIOUS
<1>2. in' \in [1 .. InSize -> 0 .. Total]
  BY <1>1
<1> QED
  BY <1>2 DEF Compacted

\* The last message is cleared, and nothing else.
LEMMA ClearDoes ==
    ASSUME BufferType, ClearLastMsg
    PROVE  /\ in' \in [1 .. InSize -> 0 .. Total] /\ lastMsg' = <<0, 0>>
           /\ \A i \in 1 .. InSize : in'[i] = IF lastMsg[1] < i /\ i <= lastMsg[2] THEN 0 ELSE in[i]
<1> USE Sizes DEF BufferType, ClearLastMsg
<1>1. lastMsg[1] \in Nat /\ lastMsg[2] \in Nat
  BY DEF MsgType
<1> QED
  BY <1>1

\* What a failed handshake does.
LEMMA FailDoes ==
    ASSUME BufferType, OutType, HandshakeFails
    PROVE  /\ pc' = "failFlush" /\ lastMsg' \in {lastMsg, <<0, 0>>}
           /\ Kinds[k] # "auth" => UNCHANGED <<in, lastMsg, out>>
           /\ Kinds[k] = "auth" => ClearLastMsg
           /\ in' \in [1 .. InSize -> 0 .. Total]
           /\ \A i \in 1 .. InSize : in'[i] \in {in[i], 0}
           /\ out' \in Seq(Out) /\ UNCHANGED <<writeErr, sent>>
           /\ Len(out') <= Len(out) /\ \A i \in 1 .. Len(out') : out'[i] = out[i]
<1> USE DEF HandshakeFails
<1>1. CASE Kinds[k] = "auth"
  <2>1. ASSUME Len(out) >= mark
        PROVE  /\ SubSeq(out, 1, mark) \in Seq(Out) /\ Len(SubSeq(out, 1, mark)) = mark
               /\ \A i \in 1 .. mark : SubSeq(out, 1, mark)[i] = out[i]
    BY <2>1, SubSeqProperties DEF OutType
  <2>2. /\ out' \in Seq(Out) /\ Len(out') <= Len(out)
        /\ \A i \in 1 .. Len(out') : out'[i] = out[i]
    BY <1>1, <2>1 DEF UnsentStatus, OutType
  <2> QED
    BY <1>1, <2>2, ClearDoes
<1>2. CASE Kinds[k] # "auth"
  BY <1>2 DEF BufferType, OutType
<1> QED
  BY <1>1, <1>2

\* putBuffers leaves a clean buffer.
LEMMA PutDoes ==
    ASSUME BufferType, PutBuffers, \A i \in 1 .. InSize : i > inUsed => in[i] = 0
    PROVE  /\ in' = [i \in 1 .. InSize |-> 0] /\ in' \in [1 .. InSize -> 0 .. Total]
           /\ inUsed' = 0 /\ pooled' = pooled + 1
<1> USE Sizes DEF BufferType, PutBuffers
<1>1. \A i \in 1 .. InSize : in'[i] = 0
  OBVIOUS
<1> QED
  BY <1>1

\* A release that is due drops the buffer and pools it clean, unless user code has
\* seen it.
LEMMA ReleaseDoes ==
    ASSUME BufferType, ReleaseLocked, \A i \in 1 .. InSize : i > inUsed => in[i] = 0
    PROVE  \/ UNCHANGED <<bufp, in, inUsed, pooled>> /\ ~Releasable
           \/ ~bufp' /\ bufp' \in BOOLEAN /\ Releasable /\ exposed /\ UNCHANGED <<in, inUsed, pooled>>
           \/ /\ ~bufp' /\ bufp' \in BOOLEAN /\ Releasable /\ ~exposed
              /\ in' = [i \in 1 .. InSize |-> 0] /\ in' \in [1 .. InSize -> 0 .. Total]
              /\ inUsed' = 0 /\ pooled' = pooled + 1
BY PutDoes DEF ReleaseLocked

\* Reads take what the client has sent.
LEMMA StreamTypeStep ==
    ASSUME StreamType, BufferType, ServeFlags, [Next]_vars
    PROVE  StreamType'
<1> USE Sizes DEF StreamType
<1>1. CASE FillRead \/ (WatchClient /\ ReadConn)
  BY <1>1, ReadDoes DEF FillRead, WatchClient, Stored, clientvars
<1>2. CASE ClientSend \/ EndClose \/ DirectRead
  BY <1>2 DEF ClientSend, EndClose, DirectRead, clientvars, inputvars
<1>3. CASE WatchClient /\ ~ReadConn
  BY <1>3 DEF WatchClient, clientvars, inputvars
<1>4. CASE ClientFin \/ ParseIncomplete \/ FillFlush \/ FillBlocks \/ FillToNext \/ ParseBad
           \/ Greeting \/ AuthMessage \/ AuthWrite \/ AuthGoesOn \/ AuthRejects \/ AuthErrors
           \/ RequestRead \/ LastFlush \/ FailFlush \/ Early \/ Peek \/ PeekReturn
           \/ ReplyListening \/ BindAccept \/ StopWatch \/ Reply \/ HandlerReturn \/ Finish
           \/ End \/ CloseConn \/ TakeBuffered \/ CopyOut \/ Consumed \/ GoDirect \/ NetConn
           \/ ReadSlice
  BY <1>4 DEF ClientFin, ParseIncomplete, FillFlush, FillBlocks, FillToNext, ParseBad,
      Greeting, AuthMessage, AuthWrite, AuthGoesOn, AuthRejects, AuthErrors, RequestRead,
      LastFlush, FailFlush, Early, Peek, PeekReturn, ReplyListening, BindAccept, StopWatch,
      Reply, HandlerReturn, Finish, End, CloseConn, TakeBuffered, CopyOut, Consumed, GoDirect,
      NetConn, ReadSlice, clientvars, inputvars
<1> QED
  BY <1>1, <1>2, <1>3, <1>4 DEF Next, Handshake, Handler, Ending, Reader, vars, clientvars, inputvars

\* Reading, compacting and clearing stay inside the buffer.
LEMMA BufferTypeStep ==
    ASSUME IndInv, StreamType, BufferType, OutType, PlaceType, [Next]_vars
    PROVE  BufferType'
<1> USE Sizes
<1>0. ASSUME lastMsg' \in {lastMsg, <<0, 0>>}
      PROVE  MsgType'
  BY <1>0 DEF MsgType, BufferType
<1>1. CASE FillRead \/ (WatchClient /\ w # InSize)
  <2>1. PICK n \in Nat : Stored(n)
    BY <1>1, ReadDoes DEF FillRead, WatchClient
  <2>2. r' = r /\ lastMsg' = lastMsg /\ pooled' = pooled
    BY <1>1 DEF FillRead, WatchClient, authvars, bufvars
  <2> QED
    BY <1>0, <2>1, <2>2 DEF Stored, BufferType
<1>2. CASE FillBlocks \/ (WatchClient /\ w = InSize)
  <2>1. Compact \/ UNCHANGED <<in, r, w>>
    BY <1>2 DEF FillBlocks, WatchClient
  <2>2. inUsed' = inUsed /\ lastMsg' = lastMsg /\ pooled' = pooled
    BY <1>2 DEF FillBlocks, WatchClient, authvars, bufvars
  <2>3. Compacted \/ UNCHANGED <<in, r, w>>
    BY <2>1, CompactDoes
  <2>4. MsgType'
    BY <1>0, <2>2
  <2>5. in' \in [1 .. InSize -> 0 .. Total]
    BY <2>3 DEF BufferType, Compacted
  <2>6. r' \in 0 .. InSize /\ w' \in 0 .. InSize /\ r' <= w'
    BY <2>3 DEF BufferType, Compacted
  <2> QED
    BY <2>2, <2>4, <2>5, <2>6 DEF BufferType
<1>3. CASE FillToNext \/ ParseBad \/ AuthErrors
  <2>1. UNCHANGED <<inUsed, r, w, pooled>> /\ (HandshakeFails \/ UNCHANGED <<in, lastMsg>>)
    BY <1>3 DEF FillToNext, ParseBad, AuthErrors, bufvars
  <2>2. in' \in [1 .. InSize -> 0 .. Total] /\ lastMsg' \in {lastMsg, <<0, 0>>}
    <3>1. CASE HandshakeFails
      BY <3>1, FailDoes
    <3>2. CASE UNCHANGED <<in, lastMsg>>
      BY <3>2 DEF BufferType
    <3> QED
      BY <2>1, <3>1, <3>2
  <2> QED
    BY <1>0, <2>1, <2>2 DEF BufferType
<1>4. CASE AuthGoesOn \/ AuthRejects
  <2>1. UNCHANGED <<inUsed, r, w, pooled>> /\ ClearLastMsg
    BY <1>4 DEF AuthGoesOn, AuthRejects, bufvars
  <2>2. in' \in [1 .. InSize -> 0 .. Total] /\ lastMsg' = <<0, 0>>
    BY <2>1, ClearDoes
  <2> QED
    BY <1>0, <2>1, <2>2 DEF BufferType
<1>5. CASE Greeting \/ AuthMessage \/ RequestRead
  <2>0. Consume
    BY <1>5 DEF Greeting, AuthMessage, RequestRead
  <2>1. r' = r + MsgLen(k) /\ r' <= w /\ r' \in Nat
    <3>1. MsgLen(k) \in Nat
      BY Constants DEF PlaceType
    <3> QED
      BY <2>0, <3>1 DEF Consume, BufferType
  <2>2. UNCHANGED <<in, inUsed, w, pooled>> /\ lastMsg' \in {lastMsg, <<r, r'>>}
    BY <1>5 DEF Greeting, AuthMessage, RequestRead, authvars
  <2>3. MsgType'
    BY <2>1, <2>2 DEF BufferType, MsgType
  <2> QED
    BY <2>1, <2>2, <2>3 DEF BufferType
<1>6. CASE EndClose \/ TakeBuffered
  <2>1. UNCHANGED <<r, w, lastMsg>>
    BY <1>6 DEF EndClose, TakeBuffered, authvars
  <2>2. PutBuffers \/ UNCHANGED <<in, inUsed, pooled>>
    BY <1>6 DEF EndClose, TakeBuffered, ReleaseLocked
  <2>3. \A i \in 1 .. InSize : i > inUsed => in[i] = 0
    BY DEF IndInv, Pooled
  <2>4. PutBuffers => in' \in [1 .. InSize -> 0 .. Total] /\ inUsed' = 0 /\ pooled' = pooled + 1
    BY <2>3, PutDoes
  <2> QED
    BY <1>0, <2>1, <2>2, <2>4 DEF BufferType
<1>7. CASE Consumed
  <2>1. r' = r + cnt /\ cnt \in 1 .. w - r
    BY <1>7 DEF Consumed, IndInv, Reached, Stages
  <2>2. PutBuffers \/ UNCHANGED <<in, inUsed, pooled>>
    BY <1>7 DEF Consumed, ReleaseLocked
  <2>3. w' = w /\ lastMsg' = lastMsg
    BY <1>7 DEF Consumed, authvars
  <2>4. /\ in' \in [1 .. InSize -> 0 .. Total] /\ inUsed' \in 0 .. InSize /\ pooled' \in Nat
    <3>1. \A i \in 1 .. InSize : i > inUsed => in[i] = 0
      BY DEF IndInv, Pooled
    <3>2. PutBuffers => in' \in [1 .. InSize -> 0 .. Total] /\ inUsed' = 0 /\ pooled' = pooled + 1
      BY <3>1, PutDoes
    <3> QED
      BY <2>2, <3>2 DEF BufferType
  <2>5. r' \in 0 .. InSize /\ r' <= w'
    BY <2>1, <2>3 DEF BufferType
  <2> QED
    BY <1>0, <2>3, <2>4, <2>5 DEF BufferType
<1>8. CASE ClientSend \/ ClientFin \/ ParseIncomplete \/ FillFlush \/ AuthWrite \/ LastFlush
           \/ FailFlush \/ Early \/ Peek \/ PeekReturn \/ ReplyListening \/ BindAccept
           \/ StopWatch \/ Reply \/ HandlerReturn \/ Finish \/ End \/ CloseConn \/ CopyOut
           \/ GoDirect \/ DirectRead \/ NetConn \/ ReadSlice
  <2>1. UNCHANGED <<in, inUsed, r, w, lastMsg, pooled>>
    BY <1>8 DEF ClientSend, ClientFin, ParseIncomplete, FillFlush, AuthWrite, LastFlush,
        FailFlush, Early, Peek, PeekReturn, ReplyListening, BindAccept, StopWatch, Reply,
        HandlerReturn, Finish, End, CloseConn, CopyOut, GoDirect, DirectRead, NetConn,
        ReadSlice, inputvars, authvars, bufvars
  <2> QED
    BY <1>0, <2>1 DEF BufferType
<1> QED
  BY <1>1, <1>2, <1>3, <1>4, <1>5, <1>6, <1>7, <1>8
  DEF Next, Handshake, Handler, Ending, Reader, vars, inputvars, authvars, bufvars, BufferType, MsgType

\* Output is queued and sent.
LEMMA OutTypeStep ==
    ASSUME BufferType, OutType, ServeFlags, [Next]_vars
    PROVE  OutType'
<1>1. CASE FillFlush \/ LastFlush \/ FailFlush
  BY <1>1, FlushDoes DEF OutType, FillFlush, LastFlush, FailFlush, authvars
<1>2. CASE FillToNext \/ AuthErrors \/ (ParseBad /\ HandshakeFails)
  <2>1. mark' = mark /\ (HandshakeFails \/ UNCHANGED outvars)
    BY <1>2 DEF FillToNext, AuthErrors, ParseBad
  <2> QED
    BY <2>1, FailDoes DEF OutType, outvars
<1>3. CASE ParseBad /\ ~HandshakeFails
  <2>1. sent \o out \o <<"fail">> \in Seq(Out)
    <3>1. <<"fail">> \in Seq(Out) /\ sent \o out \in Seq(Out)
      BY Joined DEF OutType, Out
    <3> QED
      BY <3>1, Joined
  <2>2. mark' = mark /\ out' = <<>> /\ (sent' = sent \o out \o <<"fail">> \/ sent' = sent)
    BY <1>3 DEF ParseBad
  <2> QED
    BY <2>1, <2>2, EmptySeq DEF OutType
<1>4. CASE Greeting
  <2>1. \A x \in Out : Units(x, 2) \in Seq(Out)
    BY UnitsAre
  <2>2. PICK x \in Out : out' = out \o Units(x, 2)
    BY <1>4 DEF Greeting, Out
  <2>3. out' \in Seq(Out)
    BY <2>1, <2>2, Joined DEF OutType
  <2> QED
    BY <1>4, <2>3 DEF Greeting, OutType
<1>5. CASE AuthWrite
  <2>1. PICK x \in Out : out' = Units(x, AuthLen) \/ out' = out \o Units(x, AuthLen)
    BY <1>5 DEF AuthWrite, Out
  <2>2. Units(x, AuthLen) \in Seq(Out)
    BY UnitsAre, Constants
  <2>3. out' \in Seq(Out) /\ sent \o out \in Seq(Out)
    BY <2>1, <2>2, Joined DEF OutType
  <2>4. mark' = mark /\ (sent' = sent \/ sent' = sent \o out)
    BY <1>5 DEF AuthWrite, authvars
  <2> QED
    BY <2>3, <2>4 DEF OutType
<1>6. CASE ReplyListening \/ Reply \/ Finish
  <2>1. UNCHANGED <<out, mark>> /\ (sent' = sent \/ \E x \in {"ok", "fail"} : sent' = Append(sent, x))
    BY <1>6 DEF ReplyListening, Reply, Finish, authvars
  <2>2. \A x \in {"ok", "fail"} : Append(sent, x) \in Seq(Out)
    BY AppendProperties DEF OutType, Out
  <2> QED
    BY <2>1, <2>2 DEF OutType
<1>7. CASE ClientSend \/ ClientFin \/ ParseIncomplete \/ FillBlocks \/ FillRead \/ AuthMessage
           \/ AuthGoesOn \/ AuthRejects \/ RequestRead \/ Early \/ Peek \/ PeekReturn
           \/ BindAccept \/ WatchClient \/ StopWatch \/ HandlerReturn \/ End \/ EndClose
           \/ CloseConn \/ TakeBuffered \/ CopyOut \/ Consumed \/ GoDirect \/ DirectRead
           \/ NetConn \/ ReadSlice
  <2>1. UNCHANGED <<out, sent, mark>>
    BY <1>7 DEF ClientSend, ClientFin, ParseIncomplete, FillBlocks, FillRead, AuthMessage,
        AuthGoesOn, AuthRejects, RequestRead, Early, Peek, PeekReturn, BindAccept, WatchClient,
        StopWatch, HandlerReturn, End, EndClose, CloseConn, TakeBuffered, CopyOut, Consumed,
        GoDirect, DirectRead, NetConn, ReadSlice, outvars, authvars
  <2> QED
    BY <2>1 DEF OutType
<1> QED
  BY <1>1, <1>2, <1>3, <1>4, <1>5, <1>6, <1>7
  DEF Next, Handshake, Handler, Ending, Reader, vars, outvars, authvars, OutType

\* A message with a message behind it is not the last one.
LEMMA NotLast ==
    ASSUME k \in 1 .. Len(MsgEnd), Kinds[k] \in {"greeting", "auth"}
    PROVE  k + 1 \in 1 .. Len(MsgEnd) /\ MsgStart(k + 1) = MsgEnd[k]
<1>1. k # Len(MsgEnd)
  BY Constants
<1> QED
  BY <1>1, Constants

\* A slice of the buffer.
LEMMA SliceIs ==
    ASSUME BufferType, NEW n \in 0 .. w - r
    PROVE  [i \in 1 .. n |-> in[r + i]] \in Seq(0 .. Total) /\ Len([i \in 1 .. n |-> in[r + i]]) = n
<1>1. n \in Nat /\ \A i \in 1 .. n : in[r + i] \in 0 .. Total
  BY Constants DEF BufferType
<1>2. [i \in 1 .. n |-> in[r + i]] \in [1 .. n -> 0 .. Total]
  BY <1>1
<1> QED
  BY <1>1, <1>2, IsASeq, LenProperties

\* The counters and the bytes handed over.
LEMMA PlaceTypeStep ==
    ASSUME IndInv, StreamType, BufferType, PlaceType, [Next]_vars
    PROVE  PlaceType'
<1> USE Sizes DEF PlaceType
<1>1. CASE ParseIncomplete
  <2>1. MsgLen(k) \in 1 .. InSize
    BY Constants
  <2>2. need' \in 0 .. InSize /\ had' \in 0 .. InSize
    BY <1>1, <2>1 DEF ParseIncomplete, BufferType
  <2> QED
    BY <1>1, <2>2 DEF ParseIncomplete, tunnelvars, PCs
<1>2. CASE Greeting \/ AuthGoesOn
  <2>1. k' \in 1 .. Len(MsgEnd)
    <3>1. Kinds[k] \in {"greeting", "auth"}
      BY <1>2 DEF Greeting, AuthGoesOn, IndInv, Place
    <3> QED
      BY <1>2, <3>1, NotLast DEF Greeting, AuthGoesOn, NextMessage
  <2>2. pc' \in PCs /\ UNCHANGED <<need, had, rpc, cnt, delivered>>
    BY <1>2 DEF Greeting, AuthGoesOn, NextMessage, tunnelvars, PCs
  <2> QED
    BY <2>1, <2>2
<1>3. CASE CopyOut
  <2>1. rpc' \in {"consume"} /\ cnt' \in 1 .. w - r /\ cnt' \in 0 .. InSize
    BY <1>3 DEF CopyOut, BufferType
  <2>2. ASSUME NEW n \in 0 .. w - r, cnt' = n
        PROVE  delivered' \in Seq(0 .. Total)
    BY <1>3, <2>2, SliceIs, Joined DEF CopyOut
  <2>3. delivered' \in Seq(0 .. Total)
    BY <2>1, <2>2 DEF BufferType
  <2> QED
    BY <1>3, <2>1, <2>3 DEF CopyOut, callvars
<1>4. CASE ReadSlice
  <2>1. [i \in 1 .. w - r |-> in[r + i]] \in Seq(0 .. Total)
    BY SliceIs DEF BufferType
  <2>2. delivered' \in Seq(0 .. Total)
    BY <1>4, <2>1, Joined DEF ReadSlice
  <2> QED
    BY <1>4, <2>2 DEF ReadSlice, callvars
<1>5. CASE DirectRead
  <2>1. ASSUME NEW n \in 1 .. avail - taken
        PROVE  [i \in 1 .. n |-> taken + i] \in Seq(0 .. Total)
    BY DEF StreamType
  <2>2. ASSUME NEW n \in 1 .. avail - taken, delivered' = delivered \o [i \in 1 .. n |-> taken + i]
        PROVE  delivered' \in Seq(0 .. Total)
    BY <2>1, <2>2, Joined
  <2>3. delivered' = delivered \/ \E n \in 1 .. avail - taken :
                                    delivered' = delivered \o [i \in 1 .. n |-> taken + i]
    BY <1>5 DEF DirectRead
  <2>4. delivered' \in Seq(0 .. Total)
    BY <2>2, <2>3
  <2> QED
    BY <1>5, <2>4 DEF DirectRead, callvars
<1>6. CASE Peek \/ TakeBuffered \/ Consumed \/ GoDirect \/ NetConn
  <2>1. /\ UNCHANGED <<k, had, cnt, delivered>>
        /\ rpc' \in {rpc, "idle", "copy", "slice", "direct"}
    BY <1>6 DEF Peek, TakeBuffered, Consumed, GoDirect, NetConn, callvars, tunnelvars
  <2>2. need' \in {need} \cup (1 .. InSize) /\ pc' \in {pc, "peekFill"}
    BY <1>6 DEF Peek, TakeBuffered, Consumed, GoDirect, NetConn, callvars
  <2> QED
    BY <2>1, <2>2 DEF PCs
<1>7. CASE ClientSend \/ ClientFin \/ FillFlush \/ FillBlocks \/ FillRead \/ FillToNext
           \/ ParseBad \/ AuthMessage \/ AuthWrite \/ AuthRejects \/ AuthErrors \/ RequestRead
           \/ LastFlush \/ FailFlush \/ Early \/ PeekReturn \/ ReplyListening \/ BindAccept
           \/ WatchClient \/ StopWatch \/ Reply \/ HandlerReturn \/ Finish \/ End \/ EndClose
           \/ CloseConn
  <2>1. UNCHANGED <<k, need, had, rpc, cnt, delivered>>
    BY <1>7 DEF ClientSend, ClientFin, FillFlush, FillBlocks, FillRead, FillToNext, ParseBad,
        AuthMessage, AuthWrite, AuthRejects, AuthErrors, RequestRead, LastFlush, FailFlush,
        Early, PeekReturn, ReplyListening, BindAccept, WatchClient, StopWatch, Reply,
        HandlerReturn, Finish, End, EndClose, CloseConn, callvars, tunnelvars
  <2>2. pc' \in PCs
    BY <1>7 DEF ClientSend, ClientFin, FillFlush, FillBlocks, FillRead, FillToNext, ParseBad,
        AuthMessage, AuthWrite, AuthRejects, AuthErrors, RequestRead, LastFlush, FailFlush,
        Early, PeekReturn, ReplyListening, BindAccept, WatchClient, StopWatch, Reply,
        HandlerReturn, Finish, End, EndClose, CloseConn, HandshakeFails, PCs
  <2> QED
    BY <2>1, <2>2
<1> QED
  BY <1>1, <1>2, <1>3, <1>4, <1>5, <1>6, <1>7
  DEF Next, Handshake, Handler, Ending, Reader, vars, callvars, tunnelvars

\* The flags of the serving goroutine and its conn.
LEMMA ServeFlagsStep ==
    ASSUME ServeFlags, OutType, [Next]_vars
    PROVE  ServeFlags'
<1> USE DEF ServeFlags
<1>1. CASE FillFlush \/ LastFlush \/ FailFlush
  <2>1. writeErr' \in BOOLEAN
    BY <1>1, FlushDoes DEF FillFlush, LastFlush, FailFlush
  <2> QED
    BY <1>1, <2>1 DEF FillFlush, LastFlush, FailFlush, clientvars, replyvars, bufvars
<1>2. CASE End
  BY <1>2 DEF End, clientvars, outvars, replyvars
<1>3. CASE TakeBuffered \/ Consumed
  <2>1. bufp' \in BOOLEAN
    BY <1>3 DEF TakeBuffered, Consumed, ReleaseLocked
  <2> QED
    BY <1>3, <2>1 DEF TakeBuffered, Consumed, clientvars, outvars, replyvars
<1>4. CASE ClientFin \/ Greeting \/ AuthRejects \/ EndClose \/ CloseConn
  <2>1. /\ UNCHANGED <<bufp, writeErr, active, replied, listening, done>>
        /\ fin' \in {fin, TRUE} /\ open' \in {open, FALSE} /\ linger' \in {linger, TRUE}
    BY <1>4 DEF ClientFin, Greeting, AuthRejects, EndClose, CloseConn, clientvars, outvars,
        replyvars, bufvars
  <2> QED
    BY <2>1
<1>7. CASE ReplyListening \/ Reply \/ Finish
  BY <1>7 DEF ReplyListening, Reply, Finish, clientvars, outvars, replyvars, bufvars
<1>8. CASE ParseBad \/ AuthWrite
  <2>1. UNCHANGED <<fin, open, bufp, active, listening, done>>
    BY <1>8 DEF ParseBad, AuthWrite, clientvars, replyvars, bufvars
  <2>2. writeErr' \in {writeErr, TRUE} /\ replied' \in {replied, TRUE} /\ linger' \in {linger, TRUE, FALSE}
    BY <1>8 DEF ParseBad, AuthWrite, HandshakeFails, replyvars
  <2> QED
    BY <2>1, <2>2
<1>5. CASE FillToNext \/ AuthErrors
  BY <1>5 DEF FillToNext, AuthErrors, HandshakeFails, clientvars, outvars, replyvars, bufvars
<1>6. CASE ClientSend \/ ParseIncomplete \/ FillBlocks \/ FillRead \/ AuthMessage
           \/ AuthGoesOn \/ RequestRead \/ Early \/ Peek \/ PeekReturn \/ BindAccept
           \/ WatchClient \/ StopWatch \/ HandlerReturn \/ CopyOut \/ GoDirect \/ DirectRead
           \/ NetConn \/ ReadSlice
  <2>1. /\ UNCHANGED <<fin, open, bufp, writeErr>>
        /\ UNCHANGED <<linger, active, replied, listening, done>>
    BY <1>6 DEF ClientSend, ParseIncomplete, FillBlocks, FillRead, AuthMessage, AuthGoesOn,
        RequestRead, Early, Peek, PeekReturn, BindAccept, WatchClient, StopWatch,
        HandlerReturn, CopyOut, GoDirect, DirectRead, NetConn, ReadSlice, clientvars, outvars,
        replyvars, bufvars
  <2> QED
    BY <2>1
<1> QED
  BY <1>1, <1>2, <1>3, <1>4, <1>5, <1>6, <1>7, <1>8
  DEF Next, Handshake, Handler, Ending, Reader, vars, clientvars, outvars, replyvars, bufvars

\* The flags of the reader and of the buffer.
LEMMA ReaderFlagsStep ==
    ASSUME ReaderFlags, ServeFlags, [Next]_vars
    PROVE  ReaderFlags'
<1> USE DEF ReaderFlags
<1>1. CASE \/ ParseBad \/ Greeting \/ AuthMessage \/ RequestRead \/ Early \/ PeekReturn
          \/ NetConn
  <2>1. exposed' \in BOOLEAN /\ kept' \in BOOLEAN
    BY <1>1 DEF ParseBad, Greeting, AuthMessage, RequestRead, Early, PeekReturn, NetConn, Lend,
        LendUserID
  <2> QED
    BY <1>1, <2>1 DEF ParseBad, Greeting, AuthMessage, RequestRead, Early, PeekReturn, NetConn,
        replyvars, tunnelvars
<1>2. CASE Reply \/ TakeBuffered \/ Consumed \/ DirectRead
  <2>1. /\ UNCHANGED <<exposed, handedOff, endBuf, kept>> /\ reading' \in {reading, TRUE, FALSE}
        /\ drained' \in {drained, TRUE} /\ conn' \in {conn, TRUE}
    BY <1>2 DEF Reply, TakeBuffered, Consumed, DirectRead, replyvars, tunnelvars, bufvars
  <2>2. eof' \in {eof, TRUE, FALSE}
    BY <1>2 DEF Reply, TakeBuffered, Consumed, DirectRead, tunnelvars
  <2> QED
    BY <2>1, <2>2
<1>4. CASE End
  BY <1>4 DEF End, replyvars, tunnelvars
<1>3. CASE ClientSend \/ ClientFin \/ ParseIncomplete \/ FillFlush \/ FillBlocks \/ FillRead
           \/ FillToNext \/ AuthWrite \/ AuthGoesOn \/ AuthRejects \/ AuthErrors
           \/ LastFlush \/ FailFlush \/ Peek \/ ReplyListening \/ BindAccept \/ WatchClient
           \/ StopWatch \/ HandlerReturn \/ Finish \/ EndClose \/ CloseConn \/ CopyOut
           \/ GoDirect \/ ReadSlice
  BY <1>3 DEF ClientSend, ClientFin, ParseIncomplete, FillFlush, FillBlocks, FillRead,
      FillToNext, AuthWrite, AuthGoesOn, AuthRejects, AuthErrors, LastFlush,
      FailFlush, Peek, ReplyListening, BindAccept, WatchClient, StopWatch, HandlerReturn,
      Finish, EndClose, CloseConn, CopyOut, GoDirect, ReadSlice, replyvars, tunnelvars,
      bufvars
<1> QED
  BY <1>1, <1>2, <1>3, <1>4
  DEF Next, Handshake, Handler, Ending, Reader, vars, replyvars, tunnelvars, bufvars

\* Every step keeps the types.
LEMMA TypeStep ==
    ASSUME IndInv, [Next]_vars
    PROVE  TypeOK'
<1>1. StreamType /\ BufferType /\ OutType /\ PlaceType /\ ServeFlags /\ ReaderFlags
  BY TypeParts DEF IndInv
<1> QED
  BY <1>1, StreamTypeStep, BufferTypeStep, OutTypeStep, PlaceTypeStep, ServeFlagsStep,
     ReaderFlagsStep, TypeMade

-----------------------------------------------------------------------------
(* Every step keeps each part of the invariant.                            *)

\* The steps that touch nothing but the client, the network, what is stored or
\* what is lent leave the stages alone.
LEMMA StagesStep ==
    ASSUME IndInv, [Next]_vars
    PROVE  Stages'
<1>1. ServeFlags /\ ReaderFlags /\ PlaceType /\ Stages
  BY TypeParts DEF IndInv
<1> USE <1>1 DEF Stages, ServeFlags, ReaderFlags, PlaceType, HsPCs, PeekPCs, Live
<1>2. CASE ClientSend \/ ClientFin \/ CloseConn \/ FillFlush \/ Early \/ WatchClient
  <2>1. /\ UNCHANGED <<pc, active, replied, linger, k, done, conn, listening>>
        /\ UNCHANGED <<rpc, reading, drained, handedOff, delivered, bufp>>
    BY <1>2 DEF ClientSend, ClientFin, CloseConn, FillFlush, Early, WatchClient, callvars,
        replyvars, tunnelvars, bufvars
  <2> QED
    BY <2>1
<1>3. CASE ParseIncomplete \/ FillBlocks \/ FillRead \/ AuthMessage \/ AuthWrite \/ FailFlush
           \/ Peek \/ PeekReturn \/ BindAccept \/ StopWatch \/ HandlerReturn
  <2>1. /\ UNCHANGED <<active, replied, linger, k, done, conn, listening>>
        /\ UNCHANGED <<rpc, reading, drained, handedOff, delivered, bufp>>
    BY <1>3 DEF ParseIncomplete, FillBlocks, FillRead, AuthMessage, AuthWrite, FailFlush, Peek,
        PeekReturn, BindAccept, StopWatch, HandlerReturn, callvars, replyvars, tunnelvars,
        bufvars
  <2>2. \/ pc \in {"parse", "fill", "read", "auth"} /\ pc' \in {"fill", "read", "auth", "answered"}
        \/ pc = "failFlush" /\ pc' = "end"
        \/ pc = "handler" /\ Live /\ pc' \in PeekPCs
        \/ pc \in PeekPCs /\ pc' \in PeekPCs
        \/ pc \in PeekPCs /\ pc' = "handler"
        \/ pc = "handler" /\ pc' = "finish"
    BY <1>3 DEF ParseIncomplete, FillBlocks, FillRead, AuthMessage, AuthWrite, FailFlush, Peek,
        PeekReturn, BindAccept, StopWatch, HandlerReturn
  <2> QED
    BY <2>1, <2>2
<1>4. CASE FillToNext \/ AuthErrors
  <2>1. /\ UNCHANGED <<active, replied, linger, k, done, conn, listening>>
        /\ UNCHANGED <<rpc, reading, drained, handedOff, delivered, bufp>>
    BY <1>4 DEF FillToNext, AuthErrors, callvars, replyvars, tunnelvars, bufvars
  <2>2. pc \in {"fill", "auth", "answered"} /\ pc' \in {"parse", "failFlush"}
    BY <1>4 DEF FillToNext, AuthErrors, HandshakeFails
  <2> QED
    BY <2>1, <2>2
<1>5. CASE ParseBad \/ AuthRejects
  <2>1. /\ UNCHANGED <<active, k, done, conn, listening>>
        /\ UNCHANGED <<rpc, reading, drained, handedOff, delivered, bufp>>
    BY <1>5 DEF ParseBad, AuthRejects, callvars, replyvars, tunnelvars, bufvars
  <2>2. pc \in {"parse", "answered"} /\ pc' = "failFlush"
    BY <1>5 DEF ParseBad, AuthRejects, HandshakeFails
  <2> QED
    BY <2>1, <2>2
<1>6. CASE Greeting \/ AuthGoesOn
  <2>1. /\ UNCHANGED <<active, replied, done, conn, listening>>
        /\ UNCHANGED <<rpc, reading, drained, handedOff, delivered, bufp>>
    BY <1>6 DEF Greeting, AuthGoesOn, callvars, replyvars, tunnelvars, bufvars
  <2>2. pc \in {"parse", "answered"} /\ ((pc' = "parse" /\ linger' = linger) \/ pc' = "failFlush")
    BY <1>6 DEF Greeting, AuthGoesOn, NextMessage
  <2> QED
    BY <2>1, <2>2
<1>7. CASE RequestRead
  <2>1. k = Len(MsgEnd)
    BY <1>7, Constants DEF RequestRead
  <2> QED
    BY <1>7, <2>1 DEF RequestRead, callvars, replyvars, tunnelvars, bufvars
<1>8. CASE LastFlush
  BY <1>8 DEF LastFlush, callvars, replyvars, tunnelvars, bufvars
<1>9. CASE ReplyListening
  BY <1>9 DEF ReplyListening, callvars, replyvars, tunnelvars, bufvars
<1>10. CASE Reply
  BY <1>10 DEF Reply, callvars, replyvars, tunnelvars, bufvars
<1>11. CASE Finish
  BY <1>11 DEF Finish, FallbackDue, callvars, replyvars, tunnelvars, bufvars
<1>12. CASE End
  BY <1>12 DEF End, callvars, replyvars, tunnelvars, bufvars
<1>13. CASE EndClose
  BY <1>13 DEF EndClose, callvars, replyvars, tunnelvars, bufvars
<1>14. CASE TakeBuffered \/ CopyOut \/ Consumed \/ GoDirect \/ DirectRead \/ NetConn
            \/ ReadSlice
  <2>1. conn /\ UNCHANGED <<pc, active, replied, linger, k, done, conn, listening>>
    BY <1>14 DEF TakeBuffered, CopyOut, Consumed, GoDirect, DirectRead, NetConn, ReadSlice,
        callvars, replyvars
  <2> QED
    BY <2>1
<1> QED
  BY <1>2, <1>3, <1>4, <1>5, <1>6, <1>7, <1>8, <1>9, <1>10, <1>11, <1>12, <1>13, <1>14
  DEF Next, Handshake, Handler, Ending, Reader, vars, callvars, replyvars, tunnelvars, bufvars

\* Messages are taken one after the other.
LEMMA AscendingStep ==
    ASSUME IndInv, [Next]_vars
    PROVE  Ascending'
<1>1. PlaceType /\ Ascending /\ Place
  BY TypeParts DEF IndInv
<1>2. CASE UNCHANGED k
  BY <1>1, <1>2 DEF Ascending
<1>3. ASSUME NextMessage, Kinds[k] \in {"greeting", "auth"}
      PROVE  Ascending'
  <2>1. MsgStart(k + 1) = MsgEnd[k] /\ MsgStart(k) <= MsgEnd[k]
    BY <1>1, <1>3, NotLast, Constants DEF PlaceType
  <2>2. \A j \in 1 .. k : MsgEnd[j] <= MsgStart(k + 1)
    <3>1. \A j \in 1 .. Len(MsgEnd) : MsgEnd[j] \in Nat /\ MsgStart(j) \in Nat
      BY Constants
    <3>2. k \in 1 .. Len(MsgEnd) /\ Len(MsgEnd) \in Nat
      BY <1>1, Constants DEF PlaceType
    <3>3. \A j \in 1 .. k - 1 : MsgEnd[j] <= MsgStart(k)
      BY <1>1 DEF Ascending
    <3>4. \A j \in 1 .. k : j \in 1 .. k - 1 \/ j = k
      BY <3>2
    <3> QED
      BY <2>1, <3>1, <3>2, <3>3, <3>4
  <2>3. k' = k + 1 /\ k \in Nat
    BY <1>1, <1>3 DEF NextMessage, PlaceType
  <2> QED
    BY <2>2, <2>3 DEF Ascending, MsgStart
<1>4. CASE Greeting \/ AuthGoesOn
  <2>1. UNCHANGED k \/ (NextMessage /\ Kinds[k] \in {"greeting", "auth"})
    BY <1>1, <1>4 DEF Greeting, AuthGoesOn, Place
  <2> QED
    BY <2>1, <1>2, <1>3
<1>5. CASE ClientSend \/ ClientFin \/ ParseIncomplete \/ FillFlush \/ FillBlocks \/ FillRead
           \/ FillToNext \/ ParseBad \/ AuthMessage \/ AuthWrite \/ AuthRejects \/ AuthErrors
           \/ RequestRead \/ LastFlush \/ FailFlush \/ Early \/ Peek \/ PeekReturn
           \/ ReplyListening \/ BindAccept \/ WatchClient \/ StopWatch \/ Reply
           \/ HandlerReturn \/ Finish \/ End \/ EndClose \/ CloseConn \/ TakeBuffered
           \/ CopyOut \/ Consumed \/ GoDirect \/ DirectRead \/ NetConn \/ ReadSlice
  <2>1. UNCHANGED k
    BY <1>5 DEF ClientSend, ClientFin, ParseIncomplete, FillFlush, FillBlocks, FillRead,
        FillToNext, ParseBad, AuthMessage, AuthWrite, AuthRejects, AuthErrors, RequestRead,
        LastFlush, FailFlush, Early, Peek, PeekReturn, ReplyListening, BindAccept, WatchClient,
        StopWatch, Reply, HandlerReturn, Finish, End, EndClose, CloseConn, TakeBuffered,
        CopyOut, Consumed, GoDirect, DirectRead, NetConn, ReadSlice, callvars
  <2> QED
    BY <2>1, <1>2
<1> QED
  BY <1>2, <1>4, <1>5 DEF Next, Handshake, Handler, Ending, Reader, vars, callvars

\* Reading and compacting do not move the place in the stream.
LEMMA ShownKept ==
    ASSUME StreamType, BufferType, FillRead \/ FillBlocks \/ WatchClient
    PROVE  Shown' = Shown
<1> USE DEF StreamType, BufferType
<1>1. ASSUME ReadConn, r' = r
      PROVE  Shown' = Shown
  <2>1. PICK n \in Nat : Stored(n)
    BY <1>1, ReadDoes
  <2> QED
    BY <1>1, <2>1, Constants DEF Stored, Shown
<1>2. ASSUME Compact, taken' = taken
      PROVE  Shown' = Shown
  BY <1>2, Constants DEF Compact, Shown
<1>3. ASSUME UNCHANGED <<taken, r, w>>
      PROVE  Shown' = Shown
  BY <1>3 DEF Shown
<1> QED
  BY <1>1, <1>2, <1>3 DEF FillRead, FillBlocks, WatchClient

\* The place moves when a message is taken.
LEMMA PlaceStep ==
    ASSUME IndInv, [Next]_vars
    PROVE  Place'
<1>1. StreamType /\ BufferType /\ PlaceType /\ OutType /\ Stages /\ Place
  BY TypeParts DEF IndInv
<1>2. Shown \in Int
  BY <1>1, Constants DEF Shown, StreamType, BufferType
<1>3. ASSUME UNCHANGED <<pc, k, r, lastMsg, active, conn, done>>, Shown' = Shown
      PROVE  Place'
  BY <1>1, <1>3 DEF Place, MsgStart, MsgLen
<1>4. CASE FillRead \/ FillBlocks \/ WatchClient
  <2>1. Shown' = Shown
    BY <1>1, <1>4, ShownKept
  <2>2. UNCHANGED <<k, lastMsg, active, conn, done>>
    BY <1>4 DEF FillRead, FillBlocks, WatchClient, callvars, authvars, replyvars
  <2>3. \/ pc \in {"fill", "read"} /\ pc' \in {"fill", "read"}
        \/ pc \in PeekPCs /\ pc' \in PeekPCs
    BY <1>4 DEF FillRead, FillBlocks, WatchClient, PeekPCs
  <2> QED
    BY <1>1, <2>1, <2>2, <2>3 DEF Place, PeekPCs, MsgStart
<1>5. CASE ClientSend \/ ClientFin \/ FillFlush \/ Early \/ ReplyListening \/ CloseConn
  <2>1. UNCHANGED <<pc, k, r, w, taken, lastMsg, active, conn, done>>
    BY <1>5 DEF ClientSend, ClientFin, FillFlush, Early, ReplyListening, CloseConn, inputvars,
        callvars, authvars, replyvars
  <2>2. Shown' = Shown
    BY <2>1 DEF Shown
  <2> QED
    BY <1>3, <2>1, <2>2
<1>6. CASE ParseIncomplete \/ AuthWrite \/ LastFlush \/ Peek \/ PeekReturn \/ BindAccept
           \/ StopWatch \/ HandlerReturn \/ Finish \/ FailFlush \/ End
  <2>1. UNCHANGED <<k, r, w, taken, lastMsg, conn>>
    BY <1>6 DEF ParseIncomplete, AuthWrite, LastFlush, Peek, PeekReturn, BindAccept, StopWatch,
        HandlerReturn, Finish, FailFlush, End, inputvars, callvars, authvars, replyvars
  <2>2. Shown' = Shown
    BY <2>1 DEF Shown
  <2>3. \/ pc = "parse" /\ pc' = "fill" /\ UNCHANGED <<active, done>>
        \/ pc = "auth" /\ pc' = "answered" /\ UNCHANGED <<active, done>>
        \/ pc = "lastFlush" /\ pc' \in {"handler", "end"} /\ UNCHANGED done
        \/ /\ pc \in PeekPCs \cup {"handler", "finish", "failFlush"}
           /\ pc' \in PeekPCs \cup {"handler", "finish", "end"}
           /\ UNCHANGED <<active, done>>
        \/ pc = "end" /\ pc' = "ending" /\ done'
    BY <1>6 DEF ParseIncomplete, AuthWrite, LastFlush, Peek, PeekReturn, BindAccept, StopWatch,
        HandlerReturn, Finish, FailFlush, End, PeekPCs, replyvars
  <2>4. CASE done'
    BY <1>1, <2>1, <2>2, <2>3, <2>4 DEF Place, PeekPCs, Stages, MsgStart, MsgLen
  <2>5. CASE ~done'
    BY <1>1, <2>1, <2>2, <2>3, <2>5 DEF Place, PeekPCs, Stages, MsgStart, MsgLen
  <2> QED
    BY <2>4, <2>5
<1>7. CASE FillToNext \/ ParseBad \/ AuthErrors
  <2>1. UNCHANGED <<k, r, w, taken, active, conn, done>>
    BY <1>7 DEF FillToNext, ParseBad, AuthErrors, callvars, replyvars
  <2>2. Shown' = Shown
    BY <2>1 DEF Shown
  <2>3. \/ HandshakeFails /\ pc \in {"fill", "parse", "auth", "answered"}
        \/ pc = "fill" /\ pc' = "parse" /\ lastMsg' = lastMsg
        \/ pc = "parse" /\ pc' = "failFlush" /\ lastMsg' = lastMsg
    BY <1>7 DEF FillToNext, ParseBad, AuthErrors
  <2>4. ~active
    BY <1>1, <2>3 DEF Stages, HsPCs
  <2>5. CASE HandshakeFails /\ pc \in {"fill", "parse", "auth", "answered"}
    <3>1. pc' = "failFlush" /\ lastMsg' = <<0, 0>>
      BY <1>1, <2>5 DEF Place, HandshakeFails, ClearLastMsg
    <3> QED
      BY <2>1, <2>4, <3>1 DEF Place
  <2> QED
    BY <1>1, <2>1, <2>2, <2>3, <2>4, <2>5 DEF Place, MsgStart
<1>8. CASE AuthGoesOn \/ AuthRejects
  <2>1. UNCHANGED <<r, w, taken, active, conn, done>> /\ pc = "answered"
    BY <1>8 DEF AuthGoesOn, AuthRejects, callvars, replyvars
  <2>2. Shown' = Shown /\ Shown = MsgEnd[k] /\ Kinds[k] = "auth"
    BY <1>1, <2>1 DEF Shown, Place
  <2>3. ~active /\ lastMsg' = <<0, 0>>
    BY <1>1, <1>8, <2>1 DEF Stages, HsPCs, AuthGoesOn, AuthRejects, ClearLastMsg
  <2>4. \/ pc' = "parse" /\ k' = k + 1
        \/ pc' = "failFlush"
    BY <1>8 DEF AuthGoesOn, AuthRejects, NextMessage
  <2>5. MsgStart(k + 1) = MsgEnd[k]
    BY <1>1, <2>2, NotLast DEF PlaceType
  <2>6. pc' = "parse" => Shown' = MsgStart(k + 1) /\ k' = k + 1
    BY <2>2, <2>4, <2>5
  <2> QED
    BY <2>1, <2>3, <2>4, <2>6 DEF Place, MsgStart
<1>9. CASE Greeting \/ AuthMessage \/ RequestRead
  <2>1. /\ UNCHANGED <<w, taken, active, conn, done>> /\ pc = "parse" /\ Consume
        /\ ~active
    BY <1>1, <1>9 DEF Greeting, AuthMessage, RequestRead, Stages, HsPCs, callvars, replyvars
  <2>2. MsgLen(k) \in Nat /\ MsgLen(k) = MsgEnd[k] - MsgStart(k) /\ MsgEnd[k] \in Nat /\ MsgStart(k) \in Nat
    BY <1>1, Constants DEF PlaceType
  <2>3. Shown = MsgStart(k) /\ lastMsg = <<0, 0>> /\ r' = r + MsgLen(k)
    BY <1>1, <2>1 DEF Place, Consume
  <2>4. Shown' = MsgEnd[k]
    <3>1. taken \in Nat /\ w \in Nat /\ r \in Nat
      BY <1>1, Constants DEF StreamType, BufferType
    <3>2. Shown = taken - (w - r) /\ Shown' = taken' - (w' - r')
      BY DEF Shown
    <3>3. taken' = taken /\ w' = w
      BY <2>1
    <3>4. ASSUME NEW L \in Nat, r' = r + L
          PROVE  Shown' = Shown + L
      BY <3>1, <3>2, <3>3, <3>4
    <3>5. ASSUME NEW a \in Nat, NEW b \in Nat
          PROVE  a + (b - a) = b
      OBVIOUS
    <3> QED
      BY <2>2, <2>3, <3>4, <3>5
  <2>5. CASE Greeting
    <3>1. lastMsg' = lastMsg /\ (pc' = "failFlush" \/ (pc' = "parse" /\ k' = k + 1))
      BY <2>5 DEF Greeting, NextMessage
    <3>2. MsgStart(k + 1) = MsgEnd[k]
      BY <1>1, <2>5, NotLast DEF PlaceType, Greeting
    <3>3. pc' = "parse" => Shown' = MsgStart(k')
      BY <3>1, <3>2, <2>4
    <3> QED
      BY <3>1, <3>3, <2>1, <2>3 DEF Place, MsgStart
  <2>6. CASE AuthMessage
    <3>1. pc' = "auth" /\ k' = k /\ Kinds[k] = "auth" /\ lastMsg' = <<r, r'>>
      BY <2>6 DEF AuthMessage, callvars
    <3>2. ASSUME NEW L \in Nat, r' = r + L
          PROVE  L <= r' /\ lastMsg' = <<r' - L, r'>>
      <4>1. r \in Nat
        BY <1>1, Sizes DEF BufferType
      <4>2. L <= r' /\ r' - L = r
        BY <3>2, <4>1
      <4> QED
        BY <3>1, <4>2
    <3>3. MsgLen(k) <= r' /\ lastMsg' = <<r' - MsgLen(k), r'>>
      BY <2>2, <2>3, <3>2
    <3> QED
      BY <3>1, <3>3, <2>1, <2>4 DEF Place, MsgLen, MsgStart
  <2>7. CASE RequestRead
    <3>1. pc' = "lastFlush" /\ k' = k /\ k = Len(MsgEnd) /\ lastMsg' = lastMsg
      BY <1>1, <2>7, Constants DEF RequestRead, callvars, authvars, PlaceType
    <3> QED
      BY <3>1, <2>1, <2>3, <2>4 DEF Place, HsLen
  <2> QED
    BY <1>9, <2>5, <2>6, <2>7
<1>10. CASE Reply
  <2>1. UNCHANGED <<pc, k, r, w, taken, lastMsg, active, done>> /\ (conn' = conn \/ conn')
    BY <1>10 DEF Reply, inputvars, callvars, authvars
  <2>2. Shown' = Shown
    BY <2>1 DEF Shown
  <2>3. pc \in {"handler", "finish", "end"}
    BY <1>10 DEF Reply
  <2> QED
    BY <1>1, <2>1, <2>2, <2>3 DEF Place
<1>11. CASE EndClose
  <2>1. UNCHANGED <<lastMsg, done>> /\ pc = "ending" /\ pc' = "ended"
    BY <1>11 DEF EndClose, authvars
  <2> QED
    BY <1>1, <2>1 DEF Place, Stages
<1>12. CASE TakeBuffered \/ CopyOut \/ Consumed \/ GoDirect \/ DirectRead \/ NetConn
            \/ ReadSlice
  <2>1. UNCHANGED <<pc, lastMsg, active, conn>> /\ conn
    BY <1>1, <1>12 DEF TakeBuffered, CopyOut, Consumed, GoDirect, DirectRead, NetConn,
        ReadSlice, authvars, replyvars, Stages
  <2> QED
    BY <1>1, <2>1 DEF Place, Stages, HsPCs
<1> QED
  BY <1>3, <1>4, <1>5, <1>6, <1>7, <1>8, <1>9, <1>10, <1>11, <1>12
  DEF Next, Handshake, Handler, Ending, Reader, vars, inputvars, callvars, authvars, replyvars, Shown

\* The reader of the Conn moves on by what it is given.
LEMMA ReachedStep ==
    ASSUME IndInv, [Next]_vars
    PROVE  Reached'
<1>1. /\ StreamType /\ BufferType /\ PlaceType /\ ServeFlags /\ ReaderFlags
      /\ Stages /\ Place /\ Reached /\ Pooled
  BY TypeParts DEF IndInv
<1>2. taken \in Nat /\ w \in Nat /\ r \in Nat /\ r <= w /\ HsLen \in Nat /\ Len(delivered) \in Nat
  BY <1>1, Constants DEF StreamType, BufferType, PlaceType
<1>3. ASSUME UNCHANGED <<taken, w, r, cnt, delivered, rpc, drained, handedOff, bufp, done, conn>>
      PROVE  Reached'
  BY <1>1, <1>3 DEF Reached, Shown
<1>4. ASSUME ~conn, conn' = conn
      PROVE  Reached'
  BY <1>4 DEF Reached
<1>5. CASE ParseIncomplete \/ FillFlush \/ FillBlocks \/ FillRead \/ FillToNext \/ ParseBad
           \/ Greeting \/ AuthMessage \/ AuthWrite \/ AuthGoesOn \/ AuthRejects \/ AuthErrors
           \/ RequestRead \/ LastFlush \/ FailFlush \/ WatchClient
  <2>1. pc \in HsPCs \cup PeekPCs \cup {"failFlush"} /\ conn' = conn
    BY <1>5 DEF ParseIncomplete, FillFlush, FillBlocks, FillRead, FillToNext, ParseBad,
        Greeting, AuthMessage, AuthWrite, AuthGoesOn, AuthRejects, AuthErrors, RequestRead,
        LastFlush, FailFlush, WatchClient, HsPCs, PeekPCs, replyvars
  <2>2. ~conn
    BY <1>1, <2>1 DEF Stages, HsPCs, PeekPCs, Live
  <2> QED
    BY <1>4, <2>1, <2>2
<1>6. CASE ClientSend \/ ClientFin \/ Early \/ Peek \/ PeekReturn \/ ReplyListening
           \/ BindAccept \/ StopWatch \/ HandlerReturn \/ Finish \/ CloseConn
  <2>1. UNCHANGED <<taken, w, r, cnt, delivered, rpc, drained, handedOff, bufp, done, conn>>
    BY <1>6 DEF ClientSend, ClientFin, Early, Peek, PeekReturn, ReplyListening, BindAccept,
        StopWatch, HandlerReturn, Finish, CloseConn, inputvars, tunnelvars, replyvars, bufvars
  <2> QED
    BY <1>3, <2>1
<1>7. CASE Reply
  <2>1. /\ UNCHANGED <<taken, w, r, cnt, delivered, rpc, drained, handedOff, bufp, done>>
        /\ active /\ ~replied /\ ~done
    BY <1>7 DEF Reply, inputvars, tunnelvars, bufvars, Live
  <2>2. /\ ~conn /\ Shown = HsLen /\ rpc = "idle" /\ ~drained /\ ~handedOff
        /\ delivered = <<>> /\ bufp
    BY <1>1, <2>1 DEF Stages, Place
  <2>3. Len(delivered) = 0
    BY <2>2
  <2>4. Shown' = Shown
    BY <2>1 DEF Shown
  <2> QED
    BY <1>2, <2>1, <2>2, <2>3, <2>4 DEF Reached
<1>8. CASE End
  <2>1. /\ UNCHANGED <<taken, w, r, cnt, delivered, rpc, drained, handedOff, conn>>
        /\ done' /\ (bufp' => bufp)
    BY <1>8 DEF End, inputvars, tunnelvars, replyvars
  <2> QED
    BY <1>1, <2>1 DEF Reached, Shown
<1>9. CASE EndClose
  <2>1. UNCHANGED <<w, r, cnt, delivered, rpc, drained, handedOff, bufp, done, conn>>
    BY <1>9 DEF EndClose, tunnelvars, replyvars
  <2>2. conn => taken' = taken
    BY <1>1, <1>9 DEF EndClose, Stages
  <2> QED
    BY <1>1, <2>1, <2>2 DEF Reached, Shown
<1>10. CASE TakeBuffered
  <2>1. /\ UNCHANGED <<taken, w, r, cnt, delivered, handedOff, done, conn>>
        /\ conn /\ rpc = "idle" /\ ~drained /\ ~done
    BY <1>10 DEF TakeBuffered, replyvars
  <2>2. Shown = HsLen + Len(delivered) /\ Shown' = Shown
    BY <1>1, <2>1 DEF Reached, Shown
  <2>3. CASE ~handedOff /\ bufp /\ r < w
    <3>1. rpc' = "copy" /\ UNCHANGED <<drained, bufp>>
      BY <1>10, <2>3 DEF TakeBuffered
    <3> QED
      BY <1>1, <2>1, <2>2, <2>3, <3>1 DEF Reached
  <2>4. CASE ~handedOff /\ ~(bufp /\ r < w) /\ readErr # "nil"
    <3>1. UNCHANGED <<drained, bufp, rpc>>
      BY <1>10, <2>4 DEF TakeBuffered
    <3> QED
      BY <1>3, <2>1, <3>1
  <2>5. CASE ~handedOff /\ ~(bufp /\ r < w) /\ readErr = "nil"
    <3>1. rpc' = "direct" /\ drained' /\ ReleaseLocked /\ reading' = reading
      BY <1>10, <2>5 DEF TakeBuffered
    <3>2. ~reading
      BY <1>1, <2>1 DEF Pooled
    <3>3. ~bufp'
      BY <2>5, <3>1, <3>2 DEF ReleaseLocked, Releasable
    <3>4. r = w
      BY <1>1, <1>2, <2>1, <2>5 DEF Reached
    <3>5. taken = HsLen + Len(delivered)
      BY <1>2, <2>2, <3>4 DEF Shown
    <3> QED
      BY <2>1, <3>1, <3>3, <3>4, <3>5 DEF Reached
  <2> QED
    BY <1>10, <2>3, <2>4, <2>5 DEF TakeBuffered
<1>11. CASE CopyOut
  <2>1. /\ UNCHANGED <<taken, w, r, handedOff, drained, done, conn, bufp>>
        /\ rpc = "copy" /\ rpc' = "consume"
        /\ cnt' \in 1 .. w - r
    BY <1>11 DEF CopyOut, inputvars, replyvars, bufvars
  <2>2. conn /\ ~drained
    BY <1>1, <2>1 DEF Stages, Pooled
  <2>3. Shown = HsLen + Len(delivered) /\ Shown' = Shown
    BY <1>1, <2>1, <2>2 DEF Reached, Shown
  <2>4. ASSUME NEW n \in 0 .. w - r, cnt' = n
        PROVE  Len(delivered') = Len(delivered) + n
    BY <1>1, <1>11, <2>4, SliceIs, Joined DEF CopyOut, PlaceType
  <2>5. Len(delivered') = Len(delivered) + cnt'
    BY <1>2, <2>1, <2>4
  <2>6. Shown' + cnt' = HsLen + Len(delivered')
    BY <1>2, <2>1, <2>3, <2>5
  <2> QED
    BY <1>1, <2>1, <2>2, <2>6 DEF Reached
<1>12. CASE Consumed
  <2>1. /\ UNCHANGED <<taken, w, cnt, delivered, handedOff, drained, done, conn>>
        /\ rpc = "consume" /\ rpc' = "idle" /\ r' = r + cnt /\ ~reading'
    BY <1>12 DEF Consumed, replyvars
  <2>2. conn /\ ~drained /\ bufp /\ cnt \in 1 .. w - r /\ Shown + cnt = HsLen + Len(delivered)
    BY <1>1, <2>1 DEF Stages, Pooled, Reached
  <2>3. Shown' = HsLen + Len(delivered')
    BY <1>2, <2>1, <2>2 DEF Shown
  <2>4. ~bufp' /\ ~done => r' = w
    BY <1>12, <2>1, <2>2 DEF Consumed, ReleaseLocked
  <2> QED
    BY <1>1, <2>1, <2>2, <2>3, <2>4 DEF Reached
<1>13. CASE GoDirect
  <2>1. /\ UNCHANGED <<taken, w, r, cnt, delivered, drained, handedOff, bufp, done, conn>>
        /\ rpc = "idle" /\ rpc' = "direct" /\ drained
    BY <1>13 DEF GoDirect, inputvars, replyvars, bufvars
  <2> QED
    BY <1>1, <2>1 DEF Reached
<1>14. CASE DirectRead
  <2>1. /\ UNCHANGED <<w, r, cnt, drained, handedOff, bufp, done, conn>>
        /\ rpc = "direct" /\ rpc' = "idle"
    BY <1>14 DEF DirectRead, replyvars, bufvars
  <2>2. conn /\ drained /\ taken = HsLen + Len(delivered)
    BY <1>1, <2>1 DEF Stages, Reached
  <2>3. ASSUME NEW n \in 1 .. avail - taken, taken' = taken + n,
               delivered' = delivered \o [i \in 1 .. n |-> taken + i]
        PROVE  taken' = HsLen + Len(delivered')
    <3>1. n \in Nat /\ [i \in 1 .. n |-> taken + i] \in Seq(Nat) /\ delivered \in Seq(Nat)
      BY <1>1, <1>2, Constants DEF StreamType, PlaceType
    <3>2. Len(delivered') = Len(delivered) + n
      BY <2>3, <3>1, Joined
    <3> QED
      BY <1>2, <2>2, <2>3, <3>1, <3>2
  <2>4. taken' = HsLen + Len(delivered')
    BY <1>14, <2>2, <2>3 DEF DirectRead
  <2> QED
    BY <1>1, <2>1, <2>2, <2>4 DEF Reached
<1>15. CASE NetConn
  <2>1. /\ UNCHANGED <<taken, w, r, cnt, delivered, bufp, done, conn>>
        /\ conn /\ rpc = "idle" /\ ~done /\ handedOff' /\ drained'
        /\ rpc' = IF (IF handedOff \/ ~bufp THEN 0 ELSE w - r) > 0 THEN "slice" ELSE "idle"
    BY <1>15 DEF NetConn, inputvars, replyvars
  <2>2. CASE handedOff \/ ~bufp
    <3>1. rpc' = "idle"
      BY <2>1, <2>2
    <3>2. taken = HsLen + Len(delivered)
      BY <1>1, <1>2, <2>1, <2>2 DEF Reached, Shown
    <3> QED
      BY <1>1, <2>1, <3>1, <3>2 DEF Reached
  <2>3. CASE ~handedOff /\ bufp
    <3>1. ~drained /\ Shown = HsLen + Len(delivered) /\ Shown' = Shown
      BY <1>1, <2>1, <2>3 DEF Reached, Shown
    <3>2. CASE r = w
      <4>1. rpc' = "idle" /\ taken = HsLen + Len(delivered)
        BY <1>2, <2>1, <2>3, <3>1, <3>2 DEF Shown
      <4> QED
        BY <2>1, <4>1 DEF Reached
    <3>3. CASE r # w
      <4>1. rpc' = "slice" /\ r < w
        BY <1>2, <2>1, <2>3, <3>3
      <4> QED
        BY <2>1, <3>1, <4>1 DEF Reached
    <3> QED
      BY <3>2, <3>3
  <2> QED
    BY <2>2, <2>3
<1>16. CASE ReadSlice
  <2>1. /\ UNCHANGED <<taken, w, r, cnt, handedOff, drained, done, conn, bufp>>
        /\ rpc = "slice" /\ rpc' = "idle"
    BY <1>16 DEF ReadSlice, inputvars, replyvars, bufvars
  <2>2. conn /\ drained /\ Shown = HsLen + Len(delivered)
    BY <1>1, <2>1 DEF Stages, Reached
  <2>3. Len(delivered') = Len(delivered) + (w - r)
    <3>1. w - r \in 0 .. w - r
      BY <1>2
    <3> QED
      BY <1>1, <1>16, <3>1, SliceIs, Joined DEF ReadSlice, PlaceType
  <2>4. taken' = HsLen + Len(delivered')
    BY <1>2, <2>1, <2>2, <2>3 DEF Shown
  <2> QED
    BY <1>1, <2>1, <2>2, <2>4 DEF Reached
<1> QED
  BY <1>3, <1>5, <1>6, <1>7, <1>8, <1>9, <1>10, <1>11, <1>12, <1>13, <1>14, <1>15, <1>16
  DEF Next, Handshake, Handler, Ending, Reader, vars, inputvars, tunnelvars, replyvars, bufvars

\* The steps of the handshake and of a call that blocks happen before there is a
\* Conn, and with the buffer.
LEMMA BeforeConn ==
    ASSUME Stages, pc \in HsPCs \cup PeekPCs
    PROVE  ~conn /\ ~done /\ bufp /\ ~drained /\ ~handedOff /\ rpc = "idle" /\ ~reading
BY DEF Stages, HsPCs, PeekPCs, Live

\* No step loses or moves an unread byte.
LEMMA UnreadStep ==
    ASSUME IndInv, [Next]_vars
    PROVE  Unread'
<1>1. /\ StreamType /\ BufferType /\ PlaceType /\ OutType /\ ServeFlags /\ ReaderFlags
      /\ Stages /\ Place /\ Reached /\ Unread /\ Pooled
  BY TypeParts DEF IndInv
<1>2. taken \in Nat /\ w \in Nat /\ r \in Nat /\ r <= w /\ InSize \in Nat /\ w <= InSize
  BY <1>1, Constants DEF StreamType, BufferType
<1>3. ASSUME UNCHANGED <<in, taken, w>>, r' \in Nat, r <= r',
             (bufp' /\ ~drained') \/ rpc' = "slice" => (bufp /\ ~drained) \/ rpc = "slice"
      PROVE  Unread'
  <2>0. ASSUME NEW m \in Nat, r <= m
        PROVE  \A i \in m + 1 .. w : i \in r + 1 .. w
    BY <1>2, <2>0
  <2>1. \A i \in r' + 1 .. w : i \in r + 1 .. w
    BY <1>3, <2>0
  <2>2. CASE (bufp' /\ ~drained') \/ rpc' = "slice"
    <3>1. \A i \in r + 1 .. w : in[i] = taken - (w - i)
      BY <1>1, <1>3, <2>2 DEF Unread
    <3> QED
      BY <1>3, <2>1, <3>1 DEF Unread
  <2> QED
    BY <2>2 DEF Unread
<1>4. CASE FillRead \/ WatchClient \/ FillBlocks
  <2>1. \A i \in r + 1 .. w : in[i] = taken - (w - i)
    <3>1. pc \in HsPCs \cup PeekPCs
      BY <1>4 DEF FillRead, WatchClient, FillBlocks, HsPCs, PeekPCs
    <3> QED
      BY <1>1, <3>1, BeforeConn DEF Unread
  <2>2. CASE ReadConn /\ r' = r
    <3>1. PICK n \in Nat : Stored(n)
      BY <1>1, <2>2, ReadDoes
    <3>2. ASSUME NEW i \in r + 1 .. w + n
          PROVE  in'[i] = (taken + n) - ((w + n) - i)
      <4>1. i \in 1 .. InSize
        BY <1>2, <3>1 DEF Stored
      <4>2. CASE i <= w
        <5>1. in'[i] = in[i]
          BY <1>2, <3>1, <4>1, <4>2 DEF Stored
        <5>2. in[i] = taken - (w - i)
          BY <1>2, <2>1, <4>2
        <5> QED
          BY <1>2, <5>1, <5>2
      <4>3. CASE w < i
        BY <1>2, <3>1, <4>1, <4>3 DEF Stored
      <4> QED
        BY <1>2, <4>1, <4>2, <4>3
    <3>3. w' = w + n /\ taken' = taken + n
      BY <3>1 DEF Stored
    <3> QED
      BY <2>2, <3>2, <3>3 DEF Unread
  <2>3. CASE Compact /\ taken' = taken
    <3>1. Compacted
      BY <1>1, <2>3, CompactDoes
    <3>2. ASSUME NEW i \in 1 .. w - r
          PROVE  in'[i] = taken - ((w - r) - i)
      <4>1. i \in 1 .. InSize /\ r + i \in r + 1 .. w
        BY <1>2
      <4>2. in'[i] = in[r + i]
        BY <1>2, <3>1, <4>1 DEF Compacted
      <4>3. in[r + i] = taken - (w - (r + i))
        BY <2>1, <4>1
      <4> QED
        BY <1>2, <4>2, <4>3
    <3>3. r' = 0 /\ w' = w - r
      BY <3>1 DEF Compacted
    <3> QED
      BY <2>3, <3>2, <3>3 DEF Unread
  <2>4. CASE UNCHANGED <<in, r, w, taken, bufp, drained, rpc>>
    BY <1>2, <1>3, <2>4
  <2> QED
    BY <1>4, <2>2, <2>3, <2>4 DEF FillRead, WatchClient, FillBlocks, tunnelvars, bufvars
<1>5. CASE FillToNext \/ ParseBad \/ AuthErrors \/ AuthGoesOn \/ AuthRejects
  <2>1. UNCHANGED <<r, w, taken, bufp, drained, rpc>> /\ (ClearLastMsg \/ UNCHANGED in)
    BY <1>5 DEF FillToNext, ParseBad, AuthErrors, AuthGoesOn, AuthRejects, HandshakeFails,
        tunnelvars, bufvars
  <2>2. CASE ClearLastMsg
    <3>1. lastMsg[2] <= r
      BY <1>1, <1>2 DEF Place
    <3>2. \A i \in 1 .. InSize : in'[i] = IF lastMsg[1] < i /\ i <= lastMsg[2] THEN 0 ELSE in[i]
      BY <1>1, <2>2, ClearDoes
    <3>3. lastMsg[2] \in Nat
      BY <1>1, <1>2 DEF BufferType, MsgType
    <3>4. \A i \in r + 1 .. w : i \in 1 .. InSize /\ ~(i <= lastMsg[2])
      BY <1>2, <3>1, <3>3
    <3>5. \A i \in r + 1 .. w : in'[i] = in[i]
      BY <3>2, <3>4
    <3> QED
      BY <1>1, <2>1, <3>5 DEF Unread
  <2>3. CASE UNCHANGED in
    BY <1>2, <1>3, <2>1, <2>3
  <2> QED
    BY <2>1, <2>2, <2>3
<1>6. CASE Greeting \/ AuthMessage \/ RequestRead
  <2>1. UNCHANGED <<in, w, taken, bufp, drained, rpc>> /\ r' = r + MsgLen(k)
    BY <1>6 DEF Greeting, AuthMessage, RequestRead, Consume, tunnelvars
  <2>2. MsgLen(k) \in Nat
    BY <1>1, Constants DEF PlaceType
  <2> QED
    BY <1>2, <1>3, <2>1, <2>2
<1>7. CASE EndClose
  <2>1. UNCHANGED <<r, w, bufp, drained, rpc>> /\ pc = "ending"
    BY <1>7 DEF EndClose, tunnelvars
  <2>2. CASE endBuf
    <3>1. ~bufp /\ rpc # "slice"
      BY <1>1, <2>1, <2>2 DEF Pooled
    <3> QED
      BY <2>1, <3>1 DEF Unread
  <2>3. CASE ~endBuf
    <3>1. in' = in /\ (taken' = taken \/ linger)
      BY <1>7, <2>3 DEF EndClose
    <3>2. CASE linger
      <4>1. ~conn /\ done
        BY <1>1, <2>1, <3>2 DEF Stages
      <4>2. rpc = "idle" /\ ~bufp
        BY <1>1, <4>1 DEF Stages, Pooled
      <4> QED
        BY <2>1, <4>2 DEF Unread
    <3> QED
      BY <1>2, <1>3, <2>1, <3>1, <3>2
  <2> QED
    BY <2>2, <2>3
<1>8. CASE TakeBuffered
  <2>1. UNCHANGED <<r, w, taken>> /\ rpc = "idle"
    BY <1>8 DEF TakeBuffered
  <2>2. \/ UNCHANGED <<in, drained, bufp>> /\ rpc' # "slice"
        \/ drained' /\ rpc' # "slice"
    BY <1>8, <2>1 DEF TakeBuffered
  <2> QED
    BY <1>2, <1>3, <2>1, <2>2 DEF Unread
<1>9. CASE Consumed
  <2>1. /\ UNCHANGED <<w, taken, drained>> /\ rpc' = "idle" /\ r' = r + cnt
        /\ UNCHANGED <<bufp, in>> \/ ~bufp'
    BY <1>9 DEF Consumed, ReleaseLocked
  <2>2. cnt \in Nat
    BY <1>1, Constants DEF PlaceType
  <2>3. CASE ~bufp'
    BY <2>1, <2>3 DEF Unread
  <2>4. CASE UNCHANGED <<bufp, in>>
    <3>1. r' \in Nat /\ r <= r'
      BY <1>2, <2>1, <2>2
    <3> QED
      BY <1>3, <2>1, <2>4, <3>1
  <2> QED
    BY <2>1, <2>3, <2>4
<1>10. CASE DirectRead
  <2>1. UNCHANGED drained /\ rpc = "direct" /\ rpc' = "idle"
    BY <1>10 DEF DirectRead
  <2>2. drained
    BY <1>1, <2>1 DEF Reached, Stages
  <2> QED
    BY <2>1, <2>2 DEF Unread
<1>11. CASE NetConn
  <2>1. UNCHANGED <<in, r, w, taken, bufp>> /\ drained' /\ conn
    BY <1>11 DEF NetConn, inputvars
  <2>2. rpc' = "slice" => bufp /\ ~handedOff
    BY <1>11 DEF NetConn
  <2>3. rpc' = "slice" => bufp /\ ~drained
    BY <1>1, <2>1, <2>2 DEF Reached
  <2> QED
    BY <1>2, <1>3, <2>1, <2>3
<1>12. CASE ClientSend \/ ClientFin \/ ParseIncomplete \/ FillFlush \/ AuthWrite \/ LastFlush
            \/ FailFlush \/ Early \/ Peek \/ PeekReturn \/ ReplyListening \/ BindAccept
            \/ StopWatch \/ Reply \/ HandlerReturn \/ Finish \/ CloseConn \/ CopyOut
            \/ GoDirect \/ ReadSlice
  <2>1. UNCHANGED <<in, r, w, taken, drained, bufp>> /\ (rpc' = "slice" => rpc = "slice")
    BY <1>12 DEF ClientSend, ClientFin, ParseIncomplete, FillFlush, AuthWrite, LastFlush,
        FailFlush, Early, Peek, PeekReturn, ReplyListening, BindAccept, StopWatch, Reply,
        HandlerReturn, Finish, CloseConn, CopyOut, GoDirect, ReadSlice, inputvars,
        tunnelvars, bufvars
  <2> QED
    BY <1>2, <1>3, <2>1
<1>13. CASE End
  <2>1. UNCHANGED <<in, r, w, taken, drained, rpc>> /\ (bufp' => bufp)
    BY <1>13 DEF End, inputvars, tunnelvars
  <2> QED
    BY <1>2, <1>3, <2>1
<1> QED
  BY <1>1, <1>2, <1>3, <1>4, <1>5, <1>6, <1>7, <1>8, <1>9, <1>10, <1>11, <1>12, <1>13
  DEF Next, Handshake, Handler, Ending, Reader, vars, inputvars, tunnelvars, bufvars

\* A read has room, and an error is kept until the end.
LEMMA ReadsStep ==
    ASSUME IndInv, [Next]_vars
    PROVE  Reads'
<1>1. /\ StreamType /\ BufferType /\ PlaceType /\ ServeFlags
      /\ Stages /\ Reached /\ Reads
  BY TypeParts DEF IndInv
<1>2. taken \in Nat /\ avail \in Nat /\ w \in Nat /\ r \in Nat /\ r <= w /\ w <= InSize /\ InSize \in Nat
  BY <1>1, Constants DEF StreamType, BufferType
<1>3. CASE ClientSend
  <2>1. UNCHANGED <<w, taken, pc, readErr, fin>> /\ ~fin
    BY <1>3 DEF ClientSend, inputvars
  <2> QED
    BY <1>1, <2>1 DEF Reads
<1>4. CASE ClientFin
  BY <1>1, <1>4 DEF ClientFin, Reads, inputvars
<1>5. CASE FillRead \/ (WatchClient /\ w # InSize)
  <2>1. PICK n \in Nat : Stored(n)
    BY <1>1, <1>5, ReadDoes DEF FillRead, WatchClient
  <2>2. readErr' = "eof" => fin /\ taken' = avail
    BY <1>1, <1>5, ReadDoes DEF FillRead, WatchClient
  <2>3. UNCHANGED <<avail, fin>> /\ pc' \notin {"read", "peekRead"}
    BY <1>5 DEF FillRead, WatchClient, clientvars
  <2>4. w' <= taken'
    BY <1>1, <1>2, <2>1 DEF Stored, Reads
  <2> QED
    BY <2>2, <2>3, <2>4 DEF Reads
<1>6. CASE FillBlocks \/ (WatchClient /\ w = InSize)
  <2>1. UNCHANGED <<taken, avail, fin, readErr>> /\ readErr = "nil"
    BY <1>6 DEF FillBlocks, WatchClient, clientvars
  <2>2. CASE Compact
    <3>1. w' = w - r
      BY <2>2 DEF Compact
    <3>2. FillBlocks => w - r < need
      BY DEF FillBlocks
    <3>3. need \in Nat /\ need <= InSize
      BY <1>1, Constants DEF PlaceType
    <3>4. WatchClient => pc' \notin {"read", "peekRead"}
      BY DEF WatchClient
    <3>5. w' <= taken
      BY <1>1, <1>2, <3>1 DEF Reads
    <3>6. FillBlocks => w' < InSize
      BY <1>2, <3>1, <3>2, <3>3
    <3> QED
      BY <1>6, <2>1, <3>4, <3>5, <3>6 DEF Reads
  <2>3. CASE FillBlocks /\ ~Compact
    <3>1. w' = w /\ ~MustCompact /\ w - r < need
      BY <2>3 DEF FillBlocks
    <3>2. w < InSize
      BY <1>1, <1>2, <3>1, Constants DEF MustCompact, PlaceType
    <3> QED
      BY <1>1, <2>1, <3>1, <3>2 DEF Reads
  <2> QED
    BY <1>6, <2>2, <2>3 DEF WatchClient
<1>7. CASE EndClose
  <2>1. UNCHANGED <<w, readErr, avail, fin>> /\ pc' = "ended" /\ taken' \in taken .. avail
    BY <1>2, <1>1, <1>7 DEF EndClose, clientvars, StreamType
  <2> QED
    BY <1>1, <1>2, <2>1 DEF Reads
<1>8. CASE DirectRead
  <2>1. UNCHANGED <<w, readErr, avail, fin, pc>>
    BY <1>8 DEF DirectRead, clientvars
  <2>2. taken' = taken \/ \E n \in 1 .. avail - taken : taken' = taken + n
    BY <1>8 DEF DirectRead
  <2>3. taken' >= taken /\ (taken = avail => taken' = taken)
    BY <1>2, <2>2
  <2>4. w <= taken'
    BY <1>1, <1>2, <2>2 DEF Reads
  <2> QED
    BY <1>1, <2>1, <2>3, <2>4 DEF Reads
<1>9. CASE ParseIncomplete \/ FillFlush \/ FillToNext \/ ParseBad \/ Greeting \/ AuthMessage
           \/ AuthWrite \/ AuthGoesOn \/ AuthRejects \/ AuthErrors \/ RequestRead \/ LastFlush
           \/ FailFlush \/ Early \/ Peek \/ PeekReturn \/ ReplyListening \/ BindAccept
           \/ StopWatch \/ Reply \/ HandlerReturn \/ Finish \/ End \/ CloseConn
           \/ TakeBuffered \/ CopyOut \/ Consumed \/ GoDirect \/ NetConn \/ ReadSlice
  <2>1. UNCHANGED <<w, taken, readErr, avail, fin>>
    BY <1>9 DEF ParseIncomplete, FillFlush, FillToNext, ParseBad, Greeting, AuthMessage,
        AuthWrite, AuthGoesOn, AuthRejects, AuthErrors, RequestRead, LastFlush, FailFlush,
        Early, Peek, PeekReturn, ReplyListening, BindAccept, StopWatch, Reply, HandlerReturn,
        Finish, End, CloseConn, TakeBuffered, CopyOut, Consumed, GoDirect, NetConn, ReadSlice,
        clientvars, inputvars
  <2>2. pc' \in {"read", "peekRead"} => pc' = pc
    BY <1>9 DEF ParseIncomplete, FillFlush, FillToNext, ParseBad, Greeting, AuthMessage,
        AuthWrite, AuthGoesOn, AuthRejects, AuthErrors, RequestRead, LastFlush, FailFlush,
        Early, Peek, PeekReturn, ReplyListening, BindAccept, StopWatch, Reply, HandlerReturn,
        Finish, End, CloseConn, TakeBuffered, CopyOut, Consumed, GoDirect, NetConn, ReadSlice,
        HandshakeFails, NextMessage
  <2> QED
    BY <1>1, <2>1, <2>2 DEF Reads
<1> QED
  BY <1>1, <1>3, <1>4, <1>5, <1>6, <1>7, <1>8, <1>9
  DEF Next, Handshake, Handler, Ending, Reader, vars, clientvars, inputvars, Reads

\* The buffer is pooled by the last who has it.
LEMMA PooledStep ==
    ASSUME IndInv, [Next]_vars
    PROVE  Pooled'
<1>1. /\ StreamType /\ BufferType /\ PlaceType /\ OutType /\ ServeFlags /\ ReaderFlags
      /\ Stages /\ Reached /\ Pooled
  BY TypeParts DEF IndInv
<1>2. w \in Nat /\ r \in Nat /\ r <= w /\ w <= InSize /\ InSize \in Nat /\ inUsed \in Nat /\ pooled \in Nat
  BY <1>1, Constants DEF BufferType
<1>3. ASSUME UNCHANGED <<pooled, bufp, w, inUsed, endBuf, exposed, kept, rpc, reading, drained, done>>,
             \A i \in 1 .. InSize : in'[i] \in {in[i], 0}, pc' # "ending" \/ pc' = pc
      PROVE  Pooled'
  <2>1. \A i \in 1 .. InSize : i > inUsed => in'[i] = 0
    BY <1>1, <1>3 DEF Pooled
  <2> QED
    BY <1>1, <1>3, <2>1 DEF Pooled
<1>4. CASE FillRead \/ WatchClient \/ FillBlocks
  <2>1. bufp /\ rpc = "idle" /\ ~done /\ ~reading /\ pooled = 0 /\ w <= inUsed
    <3>1. pc \in HsPCs \cup PeekPCs
      BY <1>4 DEF FillRead, WatchClient, FillBlocks, HsPCs, PeekPCs
    <3> QED
      BY <1>1, <3>1, BeforeConn DEF Pooled
  <2>2. UNCHANGED <<pooled, bufp, endBuf, exposed, kept, rpc, reading, drained, done>> /\ pc' # "ending"
    BY <1>4 DEF FillRead, WatchClient, FillBlocks, tunnelvars, bufvars
  <2>3. w' <= inUsed' /\ \A i \in 1 .. InSize : i > inUsed' => in'[i] = 0
    <3>1. CASE ReadConn
      <4>1. PICK n \in Nat : Stored(n)
        BY <1>1, <3>1, ReadDoes
      <4>2. w' <= inUsed' /\ inUsed <= inUsed'
        BY <1>2, <2>1, <4>1 DEF Stored
      <4>3. ASSUME NEW i \in 1 .. InSize, i > inUsed'
            PROVE  in'[i] = 0
        <5>1. inUsed' \in Nat /\ w' = w + n
          BY <1>2, <4>1 DEF Stored
        <5>2. i > w + n /\ i > inUsed
          BY <1>2, <4>2, <4>3, <5>1
        <5>3. in'[i] = in[i]
          BY <1>2, <4>1, <5>2 DEF Stored
        <5> QED
          BY <1>1, <5>2, <5>3 DEF Pooled
      <4> QED
        BY <4>2, <4>3
    <3>2. CASE Compact /\ inUsed' = inUsed
      <4>1. Compacted
        BY <1>1, <3>2, CompactDoes
      <4>2. w' <= inUsed
        BY <1>2, <2>1, <4>1 DEF Compacted
      <4>3. ASSUME NEW i \in 1 .. InSize, i > inUsed
            PROVE  in'[i] = 0
        <5>1. in'[i] = in[i]
          BY <1>2, <2>1, <4>1, <4>3 DEF Compacted
        <5> QED
          BY <1>1, <4>3, <5>1 DEF Pooled
      <4> QED
        BY <3>2, <4>2, <4>3
    <3>3. CASE UNCHANGED <<in, w, inUsed>>
      BY <1>1, <2>1, <3>3 DEF Pooled
    <3> QED
      BY <1>4, <3>1, <3>2, <3>3 DEF FillRead, WatchClient, FillBlocks
  <2> QED
    BY <1>1, <2>1, <2>2, <2>3 DEF Pooled
<1>5. CASE FillToNext \/ ParseBad \/ AuthErrors \/ AuthGoesOn \/ AuthRejects
  <2>1. UNCHANGED <<pooled, bufp, w, inUsed, endBuf, rpc, reading, drained, done>>
    BY <1>5 DEF FillToNext, ParseBad, AuthErrors, AuthGoesOn, AuthRejects, tunnelvars, bufvars
  <2>2. (ClearLastMsg \/ UNCHANGED in) /\ pc' # "ending"
    BY <1>5 DEF FillToNext, ParseBad, AuthErrors, AuthGoesOn, AuthRejects, HandshakeFails,
        NextMessage
  <2>3. \A i \in 1 .. InSize : in'[i] \in {in[i], 0}
    BY <1>1, <2>2, ClearDoes
  <2>4. (kept' => exposed') /\ (exposed => exposed')
    <3>1. UNCHANGED <<exposed, kept>> \/ LendUserID
      BY <1>5 DEF FillToNext, ParseBad, AuthErrors, AuthGoesOn, AuthRejects, bufvars
    <3>2. CASE UNCHANGED <<exposed, kept>>
      BY <1>1, <3>2 DEF Pooled
    <3>3. CASE LendUserID
      <4>1. \E l \in BOOLEAN : exposed' = (exposed \/ l) /\ kept' = (kept \/ l)
        BY <3>3, Zenon DEF LendUserID
      <4> QED
        BY <1>1, <4>1 DEF Pooled
    <3> QED
      BY <3>1, <3>2, <3>3
  <2>5. bufp
    BY <1>1, <1>5 DEF FillToNext, ParseBad, AuthErrors, AuthGoesOn, AuthRejects, Stages, Live,
        HsPCs, PeekPCs
  <2>6. \A i \in 1 .. InSize : i > inUsed => in'[i] = 0
    BY <1>1, <2>3 DEF Pooled
  <2> QED
    BY <1>1, <2>1, <2>2, <2>4, <2>5, <2>6 DEF Pooled
<1>6. CASE Greeting \/ AuthMessage \/ RequestRead \/ Early \/ PeekReturn
  <2>1. bufp /\ ~done
    BY <1>1, <1>6 DEF Greeting, AuthMessage, RequestRead, Early, PeekReturn, Stages, Live,
        HsPCs, PeekPCs
  <2>2. UNCHANGED <<pooled, bufp, w, in, inUsed, endBuf, rpc, reading, drained, done>> /\ pc' # "ending"
    BY <1>6, <2>1, <1>1 DEF Greeting, AuthMessage, RequestRead, Early, PeekReturn, NextMessage,
        tunnelvars, inputvars, Stages
  <2>3. (kept' => exposed') /\ (exposed => exposed')
    <3>1. \E l \in BOOLEAN : exposed' = (exposed \/ l) /\ kept' = (kept \/ l)
      BY <1>6 DEF Greeting, AuthMessage, RequestRead, Early, PeekReturn, Lend, LendUserID
    <3> QED
      BY <1>1, <3>1 DEF Pooled
  <2> QED
    BY <1>1, <2>1, <2>2, <2>3 DEF Pooled
<1>7. CASE End
  <2>1. UNCHANGED <<pooled, w, in, inUsed, exposed, kept, rpc, reading, drained>> /\ done'
    BY <1>7 DEF End, inputvars, tunnelvars
  <2>2. bufp' = (bufp /\ reading) /\ endBuf' = (bufp /\ ~reading /\ ~exposed)
    BY <1>7 DEF End, EndKeeps
  <2> QED
    BY <1>1, <2>1, <2>2 DEF Pooled, ServeFlags, ReaderFlags
<1>8. CASE EndClose
  <2>1. /\ UNCHANGED <<bufp, w, endBuf, exposed, kept, rpc, reading, drained, done>>
        /\ pc' # "ending" /\ pc = "ending"
    BY <1>8 DEF EndClose, tunnelvars
  <2>2. CASE endBuf
    <3>1. PutBuffers /\ ~bufp /\ ~exposed /\ pooled = 0
      BY <1>1, <1>8, <2>1, <2>2 DEF EndClose, Pooled
    <3>2. in' = [i \in 1 .. InSize |-> 0] /\ inUsed' = 0 /\ pooled' = 1
      <4>1. \A i \in 1 .. InSize : i > inUsed => in[i] = 0
        BY <1>1 DEF Pooled
      <4> QED
        BY <1>1, <3>1, <4>1, PutDoes
    <3> QED
      BY <1>1, <2>1, <3>1, <3>2 DEF Pooled
  <2>3. CASE ~endBuf
    BY <1>3, <1>8, <2>1, <2>3 DEF EndClose
  <2> QED
    BY <2>2, <2>3
<1>9. ASSUME ReleaseLocked, ~reading', bufp => pooled = 0, rpc' \in {"idle", "direct"},
             UNCHANGED <<w, endBuf, exposed, kept, done, pc>>,
             ~(pc = "ending" /\ endBuf), done => ~bufp'
      PROVE  Pooled'
  <2>1. \A i \in 1 .. InSize : i > inUsed => in[i] = 0
    BY <1>1 DEF Pooled
  <2>2. CASE UNCHANGED <<bufp, in, inUsed, pooled>>
    BY <1>1, <1>9, <2>2 DEF Pooled
  <2>3. CASE ~bufp' /\ bufp' \in BOOLEAN /\ UNCHANGED <<in, inUsed, pooled>>
    BY <1>1, <1>9, <2>3 DEF Pooled
  <2>4. CASE /\ ~bufp' /\ bufp' \in BOOLEAN /\ Releasable /\ ~exposed
             /\ in' = [i \in 1 .. InSize |-> 0] /\ inUsed' = 0 /\ pooled' = pooled + 1
    <3>1. pooled' = 1
      BY <1>9, <2>4 DEF Releasable
    <3> QED
      BY <1>1, <1>9, <2>4, <3>1 DEF Pooled
  <2> QED
    BY <1>1, <1>9, <2>1, <2>2, <2>3, <2>4, ReleaseDoes
<1>10. CASE TakeBuffered
  <2>1. /\ UNCHANGED <<w, endBuf, exposed, kept, done, pc>>
        /\ rpc = "idle" /\ ~drained /\ ~done
    BY <1>10 DEF TakeBuffered
  <2>2. ~reading /\ pc # "ending" /\ (bufp => pooled = 0)
    BY <1>1, <2>1 DEF Stages, Pooled
  <2>3. \/ bufp /\ reading' /\ rpc' = "copy" /\ UNCHANGED <<drained, bufp, in, inUsed, pooled>>
        \/ UNCHANGED <<drained, reading, rpc, bufp, in, inUsed, pooled>>
        \/ reading' = reading /\ ReleaseLocked /\ rpc' = "direct"
    BY <1>10 DEF TakeBuffered
  <2>4. CASE bufp /\ reading' /\ rpc' = "copy" /\ UNCHANGED <<drained, bufp, in, inUsed, pooled>>
    BY <1>1, <2>1, <2>2, <2>4 DEF Pooled
  <2>5. CASE UNCHANGED <<drained, reading, rpc, bufp, in, inUsed, pooled>>
    BY <1>3, <2>1, <2>5
  <2>6. CASE reading' = reading /\ ReleaseLocked /\ rpc' = "direct"
    BY <1>9, <2>1, <2>2, <2>6
  <2> QED
    BY <2>3, <2>4, <2>5, <2>6
<1>11. CASE CopyOut
  <2>1. /\ UNCHANGED <<pooled, bufp, in, w, inUsed, endBuf, exposed, kept, reading, drained, done, pc>>
        /\ rpc = "copy" /\ rpc' = "consume"
    BY <1>11 DEF CopyOut, inputvars, bufvars
  <2> QED
    BY <1>1, <2>1 DEF Pooled
<1>12. CASE Consumed
  <2>1. /\ UNCHANGED <<w, endBuf, exposed, kept, done, pc, drained, handedOff>>
        /\ rpc = "consume" /\ rpc' = "idle" /\ ~reading'
    BY <1>12 DEF Consumed
  <2>2. bufp /\ pooled = 0 /\ ~(pc = "ending" /\ endBuf)
    BY <1>1, <2>1 DEF Pooled
  <2>3. CASE ReleaseLocked
    <3>1. done => ~bufp'
      BY <2>1, <2>2, <2>3 DEF ReleaseLocked, Releasable
    <3> QED
      BY <1>9, <2>1, <2>2, <2>3, <3>1
  <2>4. CASE UNCHANGED <<bufp, in, inUsed, pooled>> /\ ~done
    BY <1>1, <2>1, <2>2, <2>4 DEF Pooled
  <2> QED
    BY <1>12, <2>3, <2>4 DEF Consumed
<1>13. CASE NetConn
  <2>1. /\ UNCHANGED <<pooled, bufp, in, w, inUsed, endBuf, reading, done, pc>>
        /\ rpc = "idle" /\ ~done /\ conn
    BY <1>13 DEF NetConn, inputvars
  <2>2. ~reading /\ pc # "ending"
    BY <1>1, <2>1 DEF Pooled, Stages
  <2>3. CASE handedOff \/ ~bufp
    <3>1. rpc' = "idle" /\ exposed' = exposed /\ kept' = kept
      BY <1>1, <1>13, <2>3 DEF NetConn, Lend, ReaderFlags
    <3> QED
      BY <1>1, <2>1, <2>2, <3>1 DEF Pooled
  <2>4. CASE ~handedOff /\ bufp
    <3>1. /\ rpc' \in {"idle", "slice"} /\ (rpc' = "slice" => exposed')
          /\ (exposed => exposed') /\ (kept' => exposed')
      BY <1>1, <1>13, <2>4 DEF NetConn, Lend, Pooled
    <3> QED
      BY <1>1, <2>1, <2>2, <2>4, <3>1 DEF Pooled
  <2> QED
    BY <2>3, <2>4
<1>14. CASE GoDirect \/ DirectRead \/ ReadSlice
  <2>1. /\ UNCHANGED <<pooled, bufp, in, w, inUsed, endBuf, exposed, kept, reading, drained, done, pc>>
        /\ rpc \in {"idle", "direct", "slice"} /\ rpc' \in {"idle", "direct"}
    BY <1>14 DEF GoDirect, DirectRead, ReadSlice, inputvars, bufvars
  <2> QED
    BY <1>1, <2>1 DEF Pooled
<1>15. CASE ClientSend \/ ClientFin \/ ParseIncomplete \/ FillFlush \/ AuthWrite \/ LastFlush
            \/ FailFlush \/ Peek \/ ReplyListening \/ BindAccept \/ StopWatch \/ Reply
            \/ HandlerReturn \/ Finish \/ CloseConn
  <2>1. UNCHANGED <<pooled, bufp, in, w, inUsed, endBuf, exposed, kept, rpc, reading, drained, done>>
    BY <1>15 DEF ClientSend, ClientFin, ParseIncomplete, FillFlush, AuthWrite, LastFlush,
        FailFlush, Peek, ReplyListening, BindAccept, StopWatch, Reply, HandlerReturn, Finish,
        CloseConn, inputvars, tunnelvars, bufvars
  <2>2. pc' # "ending" \/ pc' = pc
    BY <1>15 DEF ClientSend, ClientFin, ParseIncomplete, FillFlush, AuthWrite, LastFlush,
        FailFlush, Peek, ReplyListening, BindAccept, StopWatch, Reply, HandlerReturn, Finish,
        CloseConn
  <2> QED
    BY <1>3, <2>1, <2>2
<1> QED
  BY <1>3, <1>4, <1>5, <1>6, <1>7, <1>8, <1>10, <1>11, <1>12, <1>13, <1>14, <1>15
  DEF Next, Handshake, Handler, Ending, Reader, vars, inputvars, tunnelvars, bufvars

\* Where the next byte comes from: behind every message that was taken.
LEMMA MessagesBehind ==
    ASSUME StreamType, BufferType, PlaceType, Stages, Ascending, Place,
           pc \in {"parse", "fill", "read"} \cup PeekPCs, NEW j \in 1 .. k - 1
    PROVE  MsgEnd[j] \in Nat /\ MsgEnd[j] <= taken
<1>1. taken \in Nat /\ w \in Nat /\ r \in Nat /\ r <= w /\ k \in 1 .. Len(MsgEnd)
  BY Constants DEF StreamType, BufferType, PlaceType
<1>2. Shown <= taken /\ Shown \in Int
  BY <1>1 DEF Shown
<1>3. /\ MsgStart(k) \in Nat /\ MsgEnd[k] \in Nat /\ MsgStart(k) <= MsgEnd[k]
      /\ MsgEnd[j] \in Nat /\ MsgEnd[j] <= MsgStart(k)
  <2>1. j \in 1 .. Len(MsgEnd)
    BY <1>1, Constants
  <2> QED
    BY <1>1, <2>1, Constants DEF Ascending
<1>4. CASE pc \in {"parse", "fill", "read"}
  <2>1. Shown = MsgStart(k)
    BY <1>4 DEF Place
  <2> QED
    BY <1>1, <1>2, <1>3, <2>1
<1>5. CASE pc \in PeekPCs
  <2>1. active /\ k = Len(MsgEnd) /\ ~conn /\ ~done
    BY <1>5 DEF Stages, Live
  <2>2. Shown = MsgEnd[k]
    BY <2>1 DEF Place, HsLen
  <2> QED
    BY <1>1, <1>2, <1>3, <2>2
<1> QED
  BY <1>4, <1>5

\* A message behind the reader cannot be in the buffer but for where it was left,
\* and there it is cleared.
LEMMA ClearedStep ==
    ASSUME IndInv, [Next]_vars
    PROVE  Cleared'
<1>1. /\ StreamType /\ BufferType /\ PlaceType /\ OutType /\ ServeFlags /\ ReaderFlags
      /\ Stages /\ Ascending /\ Place /\ Unread /\ Cleared /\ Pooled
  BY TypeParts DEF IndInv
<1>2. /\ taken \in Nat /\ w \in Nat /\ r \in Nat /\ r <= w /\ w <= InSize /\ InSize \in Nat
      /\ k \in 1 .. Len(MsgEnd) /\ Len(MsgEnd) \in Nat
  BY <1>1, Constants DEF StreamType, BufferType, PlaceType
<1>3. \A i \in 1 .. InSize : in[i] \in Nat
  BY <1>1, Constants DEF BufferType
<1> DEFINE Holds(b, i, j) == Kinds[j] = "auth" /\ b[i] \in MsgStart(j) + 1 .. MsgEnd[j]
<1>4. ASSUME UNCHANGED <<in, taken, w, k>>,
             pc' \in HsPCs => pc \in HsPCs,
             pc' \in HsPCs \cup PeekPCs \cup {"handler"} => pc \in HsPCs \cup PeekPCs \cup {"handler"}
      PROVE  Cleared'
  BY <1>1, <1>4 DEF Cleared, MsgStart
<1>5. ASSUME pc' \notin HsPCs \cup PeekPCs \cup {"handler"}
      PROVE  Cleared'
  BY <1>5 DEF Cleared
<1>6. CASE FillRead \/ WatchClient \/ FillBlocks
  <2>1. k' = k /\ pc \in {"parse", "fill", "read"} \cup PeekPCs
    BY <1>6 DEF FillRead, WatchClient, FillBlocks, PeekPCs, callvars
  <2>2. pc' \in HsPCs => pc \in HsPCs
    BY <1>6 DEF FillRead, WatchClient, FillBlocks, HsPCs
  <2>3. /\ pc \in HsPCs => \A i \in 1 .. w : in[i] <= taken - (w - i)
        /\ \A i \in 1 .. w, j \in 1 .. k - 1 : ~Holds(in, i, j)
    BY <1>1, <2>1 DEF Cleared, PeekPCs, HsPCs
  <2>4. CASE ReadConn
    <3>1. PICK n \in Nat : Stored(n)
      BY <1>1, <2>4, ReadDoes
    <3>2. w' = w + n /\ taken' = taken + n /\ w + n <= InSize
      BY <3>1 DEF Stored
    <3>3. ASSUME NEW i \in 1 .. w + n
          PROVE  /\ i \in 1 .. InSize
                 /\ i <= w => in'[i] = in[i]
                 /\ i > w => in'[i] = taken + (i - w)
      <4>1. i \in 1 .. InSize
        BY <1>2, <3>2
      <4> QED
        BY <1>2, <3>1, <4>1 DEF Stored
    <3>4. ASSUME pc' \in HsPCs, NEW i \in 1 .. w + n
          PROVE  in'[i] <= (taken + n) - ((w + n) - i)
      <4>1. CASE i <= w
        BY <1>2, <1>3, <2>2, <2>3, <3>3, <3>4, <4>1
      <4>2. CASE i > w
        BY <1>2, <3>3, <4>2
      <4> QED
        BY <1>2, <4>1, <4>2
    <3>5. ASSUME NEW i \in 1 .. w + n, NEW j \in 1 .. k - 1
          PROVE  ~Holds(in', i, j)
      <4>1. CASE i <= w
        BY <1>2, <2>3, <3>3, <4>1
      <4>2. CASE i > w
        <5>1. MsgEnd[j] \in Nat /\ MsgEnd[j] <= taken
          BY <1>1, <2>1, MessagesBehind
        <5>2. in'[i] > MsgEnd[j] /\ in'[i] \in Nat
          BY <1>2, <3>3, <4>2, <5>1
        <5> QED
          BY <5>1, <5>2
      <4> QED
        BY <1>2, <4>1, <4>2
    <3> QED
      BY <2>1, <3>2, <3>4, <3>5 DEF Cleared, MsgStart
  <2>5. CASE Compact /\ taken' = taken
    <3>1. Compacted
      BY <1>1, <2>5, CompactDoes
    <3>2. w' = w - r
      BY <3>1 DEF Compacted
    <3>3. ASSUME NEW i \in 1 .. w - r
          PROVE  r + i \in 1 .. w /\ in'[i] = in[r + i]
      <4>1. i \in 1 .. InSize /\ r + i \in 1 .. w
        BY <1>2
      <4> QED
        BY <1>2, <3>1, <4>1 DEF Compacted
    <3>4. ASSUME pc' \in HsPCs, NEW i \in 1 .. w - r
          PROVE  in'[i] <= taken - ((w - r) - i)
      <4>1. in[r + i] <= taken - (w - (r + i))
        BY <2>2, <2>3, <3>3, <3>4
      <4>2. w - (r + i) = (w - r) - i
        BY <1>2
      <4> QED
        BY <3>3, <4>1, <4>2
    <3>5. ASSUME NEW i \in 1 .. w - r, NEW j \in 1 .. k - 1
          PROVE  ~Holds(in', i, j)
      BY <2>3, <3>3
    <3> QED
      BY <2>1, <2>5, <3>2, <3>4, <3>5 DEF Cleared, MsgStart
  <2>6. CASE UNCHANGED <<in, w, taken>>
    <3>1. pc \in HsPCs \cup PeekPCs
      BY <2>1 DEF HsPCs
    <3> QED
      BY <1>4, <2>1, <2>2, <2>6, <3>1
  <2> QED
    BY <1>6, <2>4, <2>5, <2>6 DEF FillRead, WatchClient, FillBlocks
<1>7. CASE FillToNext \/ ParseBad \/ AuthErrors \/ AuthRejects
  <2>1. /\ k' = k /\ w' = w /\ taken' = taken
        /\ pc' = "failFlush" \/ (pc = "fill" /\ pc' = "parse" /\ UNCHANGED in)
    BY <1>7 DEF FillToNext, ParseBad, AuthErrors, AuthRejects, HandshakeFails, callvars
  <2> QED
    BY <1>4, <1>5, <2>1 DEF HsPCs, PeekPCs
<1>8. CASE AuthGoesOn
  <2>1. pc = "answered" /\ pc' = "parse" /\ k' = k + 1 /\ ClearLastMsg /\ UNCHANGED <<w, r, taken>>
    BY <1>8 DEF AuthGoesOn, NextMessage
  <2>2. /\ Kinds[k] = "auth" /\ Shown = MsgEnd[k] /\ MsgLen(k) <= r
        /\ lastMsg = <<r - MsgLen(k), r>>
    BY <1>1, <2>1 DEF Place
  <2>3. /\ MsgLen(k) \in Nat /\ MsgEnd[k] \in Nat /\ MsgStart(k) \in Nat
        /\ MsgLen(k) = MsgEnd[k] - MsgStart(k)
    BY <1>2, Constants
  <2>4. \A i \in 1 .. InSize : in'[i] = IF r - MsgLen(k) < i /\ i <= r THEN 0 ELSE in[i]
    BY <1>1, <2>1, <2>2, ClearDoes
  <2>5. /\ \A i \in 1 .. w : in[i] <= taken - (w - i)
        /\ \A i \in 1 .. w, j \in 1 .. k - 1 : ~Holds(in, i, j)
        /\ \A i \in r + 1 .. w : in[i] = taken - (w - i)
    <3>1. pc \in HsPCs \cup PeekPCs
      BY <2>1 DEF HsPCs
    <3>2. bufp /\ ~drained
      BY <1>1, <3>1, BeforeConn
    <3> QED
      BY <1>1, <2>1, <3>2 DEF Cleared, HsPCs, Unread
  <2>6. taken - w = MsgEnd[k] - r
    BY <1>2, <2>2, <2>3 DEF Shown
  <2>7. ASSUME NEW i \in 1 .. w
        PROVE  in'[i] \in Nat /\ in'[i] <= taken - (w - i) /\ in'[i] \in {0, in[i]}
    <3>1. i \in 1 .. InSize
      BY <1>2
    <3>2. 0 <= taken - (w - i) /\ in[i] <= taken - (w - i) /\ in[i] \in Nat
      BY <1>2, <1>3, <2>5, <3>1
    <3> QED
      BY <2>4, <3>1, <3>2
  <2>8. ASSUME NEW i \in 1 .. w, NEW j \in 1 .. k
        PROVE  ~Holds(in', i, j)
    <3>1. i \in 1 .. InSize /\ in[i] \in Nat
      BY <1>2, <1>3
    <3>2. j \in 1 .. Len(MsgEnd) /\ MsgStart(j) \in Nat
      BY <1>2, Constants
    <3>3. CASE in'[i] = 0
      BY <3>2, <3>3
    <3>4. CASE in'[i] = in[i] /\ j \in 1 .. k - 1
      BY <2>5, <3>4
    <3>5. CASE in'[i] = in[i] /\ in'[i] # 0 /\ j = k
      <4>1. CASE i <= r
        <5>1. i <= r - MsgLen(k)
          BY <1>2, <2>3, <2>4, <3>1, <3>5, <4>1
        <5>2. in[i] <= taken - (w - i)
          BY <2>5
        <5>3. in[i] <= MsgStart(k)
          BY <1>2, <2>3, <2>6, <3>1, <5>1, <5>2
        <5> QED
          BY <2>3, <3>1, <3>5, <5>3
      <4>2. CASE i > r
        <5>1. in[i] = taken - (w - i)
          BY <1>2, <2>5, <4>2
        <5>2. in[i] > MsgEnd[k]
          BY <1>2, <2>3, <2>6, <3>1, <4>2, <5>1
        <5> QED
          BY <2>3, <3>1, <3>5, <5>2
      <4> QED
        BY <1>2, <4>1, <4>2
    <3> QED
      BY <1>2, <2>7, <3>3, <3>4, <3>5
  <2>9. k' - 1 = k
    BY <1>2, <2>1
  <2> QED
    BY <2>1, <2>7, <2>8, <2>9 DEF Cleared, MsgStart, HsPCs
<1>9. CASE Greeting
  <2>1. UNCHANGED <<in, taken, w>> /\ pc = "parse"
    BY <1>9 DEF Greeting
  <2>2. CASE pc' = "failFlush"
    BY <1>5, <2>2 DEF HsPCs, PeekPCs
  <2>3. CASE pc' = "parse" /\ k' = k + 1
    <3>1. Kinds[k] # "auth"
      BY <1>9 DEF Greeting
    <3>2. \A i \in 1 .. w, j \in 1 .. k - 1 : ~Holds(in, i, j)
      BY <1>1, <2>1 DEF Cleared, HsPCs
    <3>3. \A j \in 1 .. k : j \in 1 .. k - 1 \/ j = k
      BY <1>2
    <3>4. \A i \in 1 .. w, j \in 1 .. k : ~Holds(in, i, j)
      BY <3>1, <3>2, <3>3
    <3>5. k' - 1 = k
      BY <1>2, <2>3
    <3> QED
      BY <1>1, <2>1, <2>3, <3>4, <3>5 DEF Cleared, MsgStart, HsPCs
  <2> QED
    BY <1>9, <2>2, <2>3 DEF Greeting, NextMessage
<1>10. CASE TakeBuffered \/ Consumed
  <2>1. /\ UNCHANGED <<taken, w, k, pc>> /\ conn
    BY <1>1, <1>10 DEF TakeBuffered, Consumed, callvars, Stages
  <2>2. pc \notin HsPCs
    BY <1>1, <2>1 DEF Stages
  <2>3. UNCHANGED in \/ PutBuffers
    BY <1>10 DEF TakeBuffered, Consumed, ReleaseLocked
  <2>4. CASE UNCHANGED in
    BY <1>4, <2>1, <2>4
  <2>5. CASE PutBuffers
    <3>1. in' = [i \in 1 .. InSize |-> 0]
      <4>1. \A i \in 1 .. InSize : i > inUsed => in[i] = 0
        BY <1>1 DEF Pooled
      <4> QED
        BY <1>1, <2>5, <4>1, PutDoes
    <3>2. ASSUME NEW i \in 1 .. w, NEW j \in 1 .. k - 1
          PROVE  ~Holds(in', i, j)
      <4>1. in'[i] = 0
        BY <1>2, <3>1
      <4>2. MsgStart(j) \in Nat
        BY <1>2, Constants
      <4> QED
        BY <4>1, <4>2
    <3> QED
      BY <2>1, <2>2, <3>2 DEF Cleared, MsgStart
  <2> QED
    BY <2>3, <2>4, <2>5
<1>11. CASE EndClose
  <2>1. pc' = "ended"
    BY <1>11 DEF EndClose
  <2> QED
    BY <1>5, <2>1 DEF HsPCs, PeekPCs
<1>12. CASE DirectRead
  <2>1. UNCHANGED <<in, w, k, pc, conn>> /\ conn
    BY <1>1, <1>12 DEF DirectRead, callvars, replyvars, Stages
  <2>2. pc \notin HsPCs
    BY <1>1, <2>1 DEF Stages
  <2> QED
    BY <1>1, <2>1, <2>2 DEF Cleared, MsgStart
<1>13. CASE ClientSend \/ ClientFin \/ ParseIncomplete \/ FillFlush \/ AuthMessage
            \/ AuthWrite \/ RequestRead \/ LastFlush \/ FailFlush \/ Early \/ Peek
            \/ PeekReturn \/ ReplyListening \/ BindAccept \/ StopWatch \/ Reply
            \/ HandlerReturn \/ Finish \/ End \/ CloseConn \/ CopyOut \/ GoDirect \/ NetConn
            \/ ReadSlice
  <2>1. UNCHANGED <<in, taken, w, k>>
    BY <1>13 DEF ClientSend, ClientFin, ParseIncomplete, FillFlush, AuthMessage, AuthWrite,
        RequestRead, LastFlush, FailFlush, Early, Peek, PeekReturn, ReplyListening, BindAccept,
        StopWatch, Reply, HandlerReturn, Finish, End, CloseConn, CopyOut, GoDirect, NetConn,
        ReadSlice, inputvars, callvars
  <2>2. \/ pc' \in HsPCs /\ pc \in HsPCs
        \/ pc' \in PeekPCs \cup {"handler"} /\ pc \in HsPCs \cup PeekPCs \cup {"handler"}
        \/ pc' = pc
        \/ pc' \in {"finish", "end", "ending"}
    BY <1>13 DEF ClientSend, ClientFin, ParseIncomplete, FillFlush, AuthMessage, AuthWrite,
        RequestRead, LastFlush, FailFlush, Early, Peek, PeekReturn, ReplyListening, BindAccept,
        StopWatch, Reply, HandlerReturn, Finish, End, CloseConn, CopyOut, GoDirect, NetConn,
        ReadSlice, HsPCs, PeekPCs
  <2> QED
    BY <1>4, <2>1, <2>2 DEF HsPCs, PeekPCs
<1> QED
  BY <1>4, <1>6, <1>7, <1>8, <1>9, <1>10, <1>11, <1>12, <1>13
  DEF Next, Handshake, Handler, Ending, Reader, vars, inputvars, callvars

\* Output without a reply or without a refusal stays so when it is joined.
LEMMA JoinedClean ==
    ASSUME NEW s \in Seq(Out), NEW t \in Seq(Out)
    PROVE  /\ Clean(s) /\ Clean(t) => Clean(s \o t)
           /\ Polite(s) /\ Polite(t) => Polite(s \o t)
<1>1. \A i \in DOMAIN (s \o t) :
        \/ i \in DOMAIN s /\ (s \o t)[i] = s[i]
        \/ i - Len(s) \in DOMAIN t /\ (s \o t)[i] = t[i - Len(s)]
  BY Joined
<1>2. Clean(s) /\ Clean(t) => Clean(s \o t)
  BY <1>1 DEF Clean
<1>3. Polite(s) /\ Polite(t) => Polite(s \o t)
  BY <1>1 DEF Polite
<1> QED
  BY <1>2, <1>3

\* What an answer adds.
LEMMA Answered ==
    ASSUME NEW s \in Seq(Out), NEW x \in Out, NEW n \in Nat, n > 0, x \notin {"ok", "fail"}, Clean(s)
    PROVE  /\ Clean(s \o Units(x, n)) /\ Clean(Units(x, n))
           /\ x # "reject" /\ Polite(s) => Polite(s \o Units(x, n)) /\ Polite(Units(x, n))
           /\ s \o Units(x, n) # <<>> /\ Units(x, n) # <<>>
           /\ (s \o Units(x, n))[Len(s \o Units(x, n))] = x
           /\ Units(x, n)[Len(Units(x, n))] = x
<1>1. /\ Units(x, n) \in Seq(Out) /\ Len(Units(x, n)) = n
      /\ \A i \in 1 .. n : Units(x, n)[i] = x
  BY UnitsAre
<1>2. DOMAIN Units(x, n) = 1 .. n
  BY <1>1
<1>3. Clean(Units(x, n)) /\ (x # "reject" => Polite(Units(x, n)))
  BY <1>1, <1>2 DEF Clean, Polite
<1>4. Units(x, n) # <<>> /\ Units(x, n)[Len(Units(x, n))] = x
  BY <1>1
<1>5. s \o Units(x, n) # <<>> /\ (s \o Units(x, n))[Len(s \o Units(x, n))] = Units(x, n)[Len(Units(x, n))]
  <2>1. ASSUME NEW t \in Seq(Out), t # <<>>
        PROVE  s \o t # <<>> /\ (s \o t)[Len(s \o t)] = t[Len(t)]
    <3>1. s \o t \in Seq(Out) /\ Len(s \o t) = Len(s) + Len(t) /\ (s \o t)[Len(s \o t)] = t[Len(t)]
      BY <2>1, Joined
    <3>2. Len(s) \in Nat /\ Len(t) \in Nat /\ Len(t) # 0
      BY <2>1, EmptySeq
    <3> QED
      BY <3>1, <3>2
  <2> QED
    BY <1>1, <1>4, <2>1
<1> QED
  BY <1>1, <1>3, <1>4, <1>5, JoinedClean

\* Output is queued by the handshake alone, and a refusal only before a linger.
LEMMA QueuedStep ==
    ASSUME IndInv, [Next]_vars
    PROVE  Queued'
<1>1. /\ BufferType /\ PlaceType /\ OutType /\ ServeFlags /\ Stages /\ Queued
  BY TypeParts DEF IndInv
<1>2. out \in Seq(Out) /\ Len(out) \in Nat /\ DOMAIN out = 1 .. Len(out)
  BY <1>1 DEF OutType
<1>3. Clean(<<>>) /\ Polite(<<>>)
  BY DEF Clean, Polite
<1>4. Clean(out) /\ (pc \in {"parse", "fill", "auth", "lastFlush"} => Polite(out))
  BY <1>1 DEF Queued, HsPCs
<1>5. ASSUME out' = out, active' = active,
             pc' \in HsPCs => pc' = pc \/ (pc \in {"parse", "fill", "read"} /\ pc' # "answered"),
             pc' = "failFlush" => pc' = pc /\ linger' = linger
      PROVE  Queued'
  BY <1>1, <1>5 DEF Queued, HsPCs, Answer
<1>6. ASSUME out' = <<>>, pc' # "answered"
      PROVE  Queued'
  BY <1>3, <1>6 DEF Queued
<1>7. CASE FillFlush \/ LastFlush \/ FailFlush
  <2>1. (out' = out \/ out' = <<>>) /\ pc' # "answered"
    BY <1>1, <1>7, FlushDoes DEF FillFlush, LastFlush, FailFlush, HsPCs
  <2>2. CASE out' = out /\ ~(LastFlush /\ active')
    <3>1. active' = active /\ (pc' = pc \/ pc' = "end")
      BY <1>1, <1>7, <2>2 DEF FillFlush, LastFlush, FailFlush, replyvars, Stages, HsPCs
    <3> QED
      BY <1>1, <1>5, <1>7, <2>2, <3>1 DEF FillFlush, LastFlush, FailFlush, HsPCs
  <2>3. CASE LastFlush /\ active'
    <3>1. ~active /\ Flush
      BY <1>1, <2>3 DEF LastFlush, Stages, HsPCs
    <3>2. ~writeErr'
      BY <2>3, <3>1 DEF LastFlush
    <3>3. out' = <<>>
      BY <3>1, <3>2 DEF Flush, outvars
    <3> QED
      BY <1>6, <2>1, <3>3
  <2> QED
    BY <1>6, <2>1, <2>2, <2>3
<1>8. ASSUME HandshakeFails, Polite(out), ~active'
      PROVE  Queued'
  <2>1. /\ pc' = "failFlush" /\ out' \in Seq(Out) /\ Len(out') <= Len(out)
        /\ \A i \in 1 .. Len(out') : out'[i] = out[i]
    BY <1>1, <1>8, FailDoes
  <2>2. Len(out') \in Nat /\ DOMAIN out' = 1 .. Len(out')
    BY <2>1
  <2>3. \A i \in DOMAIN out' : i \in DOMAIN out /\ out'[i] = out[i]
    BY <1>2, <2>1, <2>2
  <2>4. Clean(out') /\ Polite(out')
    BY <1>4, <1>8, <2>3 DEF Clean, Polite
  <2> QED
    BY <1>8, <2>1, <2>4 DEF Queued, HsPCs
<1>9. CASE FillToNext \/ AuthErrors
  <2>1. pc \in {"fill", "auth", "answered"} /\ active' = active /\ (pc = "answered" => Answer # "reject")
    BY <1>9 DEF FillToNext, AuthErrors, replyvars
  <2>2. Polite(out) /\ ~active'
    BY <1>1, <2>1 DEF Queued, HsPCs, Stages
  <2>3. HandshakeFails \/ (pc = "fill" /\ pc' = "parse" /\ out' = out)
    BY <1>9 DEF FillToNext, AuthErrors, outvars
  <2> QED
    BY <1>5, <1>8, <2>1, <2>2, <2>3
<1>10. CASE ParseBad
  <2>1. pc = "parse" /\ active' = active /\ (HandshakeFails \/ (pc' = "failFlush" /\ out' = <<>>))
    BY <1>10 DEF ParseBad
  <2>2. Polite(out) /\ ~active'
    BY <1>1, <1>4, <2>1 DEF HsPCs, Stages
  <2> QED
    BY <1>6, <1>8, <2>1, <2>2
<1>12. CASE Greeting
  <2>1. pc = "parse" /\ active' = active /\ Polite(out) /\ ~active
    BY <1>1, <1>4, <1>12 DEF Greeting, replyvars, Stages, HsPCs
  <2>2. CASE out' = out \o Units("sel", 2) /\ pc' = "parse"
    <3>1. Clean(out') /\ Polite(out')
      BY <1>2, <1>4, <2>1, <2>2, Answered DEF Out
    <3> QED
      BY <2>1, <2>2, <3>1 DEF Queued
  <2>3. CASE out' = out \o Units("reject", 2) /\ linger' /\ pc' = "failFlush"
    <3>1. Clean(out')
      BY <1>2, <1>4, <2>3, Answered DEF Out
    <3> QED
      BY <2>1, <2>3, <3>1 DEF Queued, HsPCs
  <2> QED
    BY <1>12, <2>2, <2>3 DEF Greeting, NextMessage
<1>13. CASE AuthWrite
  <2>1. pc = "auth" /\ pc' = "answered" /\ active' = active /\ Polite(out) /\ ~active
    BY <1>1, <1>4, <1>13 DEF AuthWrite, replyvars, Stages, HsPCs
  <2>2. PICK x \in {"status", "reject"} : out' = Units(x, AuthLen) \/ out' = out \o Units(x, AuthLen)
    BY <1>13 DEF AuthWrite
  <2>3. AuthLen \in Nat /\ AuthLen > 0 /\ x \in Out
    BY <2>2, Constants DEF Out
  <2>4. Clean(out') /\ (x # "reject" => Polite(out')) /\ out' # <<>> /\ out'[Len(out')] = x
    <3>1. /\ Clean(out \o Units(x, AuthLen)) /\ Clean(Units(x, AuthLen))
          /\ x # "reject" => Polite(out \o Units(x, AuthLen)) /\ Polite(Units(x, AuthLen))
          /\ out \o Units(x, AuthLen) # <<>> /\ Units(x, AuthLen) # <<>>
          /\ (out \o Units(x, AuthLen))[Len(out \o Units(x, AuthLen))] = x
          /\ Units(x, AuthLen)[Len(Units(x, AuthLen))] = x
      BY <1>2, <1>4, <2>1, <2>2, <2>3, Answered
    <3>2. CASE out' = Units(x, AuthLen)
      BY <3>1, <3>2
    <3>3. CASE out' = out \o Units(x, AuthLen)
      BY <3>1, <3>3
    <3> QED
      BY <2>2, <3>2, <3>3
  <2> QED
    BY <2>1, <2>4 DEF Queued, Answer, HsPCs
<1>14. CASE AuthGoesOn
  <2>1. pc = "answered" /\ pc' = "parse" /\ out' = out /\ active' = active /\ Answer = "status"
    BY <1>14 DEF AuthGoesOn, NextMessage, outvars, replyvars
  <2>2. Polite(out) /\ ~active
    BY <1>1, <2>1 DEF Queued, HsPCs, Stages
  <2> QED
    BY <1>4, <2>1, <2>2 DEF Queued
<1>15. CASE AuthRejects
  <2>1. pc = "answered" /\ pc' = "failFlush" /\ out' = out /\ active' = active /\ linger'
    BY <1>15 DEF AuthRejects, outvars, replyvars
  <2>2. ~active
    BY <1>1, <2>1 DEF HsPCs, Stages
  <2> QED
    BY <1>4, <2>1, <2>2 DEF Queued, HsPCs
<1>16. CASE ClientSend \/ ClientFin \/ ParseIncomplete \/ FillBlocks \/ FillRead
            \/ AuthMessage \/ RequestRead \/ Early \/ Peek \/ PeekReturn \/ ReplyListening
            \/ BindAccept \/ WatchClient \/ StopWatch \/ HandlerReturn \/ Finish \/ End
            \/ EndClose \/ CloseConn \/ TakeBuffered \/ CopyOut \/ Consumed \/ GoDirect
            \/ DirectRead \/ NetConn \/ ReadSlice
  <2>1. out' = out /\ active' = active
    BY <1>16 DEF ClientSend, ClientFin, ParseIncomplete, FillBlocks, FillRead, AuthMessage,
        RequestRead, Early, Peek, PeekReturn, ReplyListening, BindAccept, WatchClient,
        StopWatch, HandlerReturn, Finish, End, EndClose, CloseConn, TakeBuffered, CopyOut,
        Consumed, GoDirect, DirectRead, NetConn, ReadSlice, outvars, replyvars
  <2>2. pc' \in HsPCs \cup {"failFlush"} =>
          (pc' = pc /\ linger' = linger) \/ (pc \in {"parse", "fill", "read"} /\ pc' \in HsPCs \ {"answered"})
    BY <1>16 DEF ClientSend, ClientFin, ParseIncomplete, FillBlocks, FillRead, AuthMessage,
        RequestRead, Early, Peek, PeekReturn, ReplyListening, BindAccept, WatchClient,
        StopWatch, HandlerReturn, Finish, End, EndClose, CloseConn, TakeBuffered, CopyOut,
        Consumed, GoDirect, DirectRead, NetConn, ReadSlice, HsPCs
  <2> QED
    BY <1>5, <2>1, <2>2 DEF HsPCs
<1>17. CASE Reply
  <2>1. out' = out /\ active' = active /\ pc' = pc /\ pc \in {"handler", "finish", "end"}
    BY <1>17 DEF Reply
  <2> QED
    BY <1>5, <2>1 DEF HsPCs
<1> QED
  BY <1>5, <1>7, <1>9, <1>10, <1>12, <1>13, <1>14, <1>15, <1>16, <1>17
  DEF Next, Handshake, Handler, Ending, Reader, vars, outvars, replyvars

\* Where the replies are in what was sent.
FinalsOf(s) == {i \in DOMAIN s : s[i] \in {"ok", "fail"}}

\* They are counted, output of the handshake adds none, and a reply adds one.
LEMMA FinalsCounted ==
    ASSUME NEW s \in Seq(Out)
    PROVE  /\ IsFiniteSet(FinalsOf(s)) /\ Cardinality(FinalsOf(s)) \in Nat
           /\ \A t \in Seq(Out) : Clean(t) => FinalsOf(s \o t) = FinalsOf(s)
           /\ \A x \in {"ok", "fail"} : Cardinality(FinalsOf(Append(s, x))) = Cardinality(FinalsOf(s)) + 1
<1>1. Len(s) \in Nat /\ DOMAIN s = 1 .. Len(s)
  OBVIOUS
<1>2. IsFiniteSet(FinalsOf(s)) /\ Cardinality(FinalsOf(s)) \in Nat
  <2>1. IsFiniteSet(1 .. Len(s))
    BY <1>1, FS_Interval
  <2>2. FinalsOf(s) \subseteq 1 .. Len(s)
    BY <1>1 DEF FinalsOf
  <2> QED
    BY <2>1, <2>2, FS_Subset, FS_CardinalityType
<1>3. ASSUME NEW t \in Seq(Out), Clean(t)
      PROVE  FinalsOf(s \o t) = FinalsOf(s)
  <2>1. /\ \A i \in DOMAIN (s \o t) :
             \/ i \in DOMAIN s /\ (s \o t)[i] = s[i]
             \/ i - Len(s) \in DOMAIN t /\ (s \o t)[i] = t[i - Len(s)]
        /\ \A i \in DOMAIN s : i \in DOMAIN (s \o t) /\ (s \o t)[i] = s[i]
    BY Joined
  <2>2. ASSUME NEW i \in FinalsOf(s \o t)
        PROVE  i \in FinalsOf(s)
    BY <1>3, <2>1 DEF FinalsOf, Clean
  <2>3. ASSUME NEW i \in FinalsOf(s)
        PROVE  i \in FinalsOf(s \o t)
    BY <2>1 DEF FinalsOf
  <2> QED
    BY <2>2, <2>3
<1>4. ASSUME NEW x \in {"ok", "fail"}
      PROVE  Cardinality(FinalsOf(Append(s, x))) = Cardinality(FinalsOf(s)) + 1
  <2>1. /\ Append(s, x) \in Seq(Out) /\ DOMAIN Append(s, x) = 1 .. Len(s) + 1
        /\ \A i \in 1 .. Len(s) : Append(s, x)[i] = s[i]
        /\ Append(s, x)[Len(s) + 1] = x
    BY <1>1, AppendProperties DEF Out
  <2>2. FinalsOf(Append(s, x)) = FinalsOf(s) \cup {Len(s) + 1}
    <3>1. \A i \in 1 .. Len(s) + 1 : i \in 1 .. Len(s) \/ i = Len(s) + 1
      BY <1>1
    <3>2. \A i \in 1 .. Len(s) : i \in 1 .. Len(s) + 1
      BY <1>1
    <3>3. Len(s) + 1 \in 1 .. Len(s) + 1
      BY <1>1
    <3> QED
      BY <1>1, <2>1, <3>1, <3>2, <3>3 DEF FinalsOf
  <2>3. Len(s) + 1 \notin FinalsOf(s)
    BY <1>1 DEF FinalsOf
  <2> QED
    BY <1>2, <2>2, <2>3, FS_AddElement
<1> QED
  BY <1>2, <1>3, <1>4

\* Nor does it refuse, if no part of it does.
LEMMA JoinedFriendly ==
    ASSUME NEW s \in Seq(Out), NEW t \in Seq(Out), Friendly(s), Clean(t), Polite(t)
    PROVE  Friendly(s \o t)
<1>1. \A i \in DOMAIN (s \o t) :
        \/ i \in DOMAIN s /\ (s \o t)[i] = s[i]
        \/ i - Len(s) \in DOMAIN t /\ (s \o t)[i] = t[i - Len(s)]
  BY Joined
<1> QED
  BY <1>1 DEF Friendly, Clean, Polite, Refusals

\* One reply at most, and one more before it if the conn listens.
LEMMA RepliesStep ==
    ASSUME IndInv, [Next]_vars
    PROVE  Replies'
<1>1. /\ OutType /\ ServeFlags /\ ReaderFlags /\ BufferType /\ PlaceType
      /\ Stages /\ Queued /\ Replies
  BY TypeParts DEF IndInv
<1>2. /\ sent \in Seq(Out) /\ Len(sent) \in Nat /\ DOMAIN sent = 1 .. Len(sent) /\ out \in Seq(Out)
      /\ Clean(out)
  BY <1>1 DEF OutType, Queued
<1>3. Finals = FinalsOf(sent) /\ Finals' = FinalsOf(sent') /\ Cardinality(Finals) \in Nat
  BY <1>2, FinalsCounted DEF Finals, FinalsOf
<1>4. ASSUME sent' = sent, linger' = linger, UNCHANGED <<replied, listening, conn>>,
             pc' \in HsPCs => pc \in HsPCs, active' => pc \in HsPCs \/ active
      PROVE  Replies'
  <2>1. Finals' = Finals
    BY <1>3, <1>4
  <2> QED
    BY <1>1, <1>4, <2>1 DEF Replies
<1>5. ASSUME sent' = sent, UNCHANGED <<listening, conn>>, ~conn, pc \in HsPCs \/ (active /\ ~replied),
             replied => replied'
      PROVE  Replies'
  <2>1. Finals' = Finals
    BY <1>3, <1>5
  <2>2. Friendly(sent)
    BY <1>1, <1>5 DEF Replies
  <2>3. sent # <<>> => sent[Len(sent)] \notin Refusals
    <3>1. sent # <<>> => Len(sent) \in DOMAIN sent
      BY <1>2
    <3> QED
      BY <2>2, <3>1 DEF Friendly
  <2>4. ~replied' => ~replied
    BY <1>5
  <2> QED
    BY <1>1, <1>5, <2>1, <2>2, <2>3, <2>4 DEF Replies
<1>6. ASSUME sent' = sent \o out, out # <<>>, UNCHANGED <<replied, listening, conn>>, ~conn,
             linger' \/ Polite(out), (pc' \in HsPCs \/ active') => pc \in HsPCs /\ Polite(out)
      PROVE  Replies'
  <2>1. Finals' = Finals
    BY <1>2, <1>3, <1>6, FinalsCounted
  <2>2. sent'[Len(sent')] = out[Len(out)] /\ Len(out) \in DOMAIN out
    <3>1. sent'[Len(sent')] = out[Len(out)]
      BY <1>2, <1>6, Joined
    <3>2. Len(out) \in Nat /\ DOMAIN out = 1 .. Len(out) /\ Len(out) # 0
      BY <1>2, <1>6, EmptySeq
    <3> QED
      BY <3>1, <3>2
  <2>3. sent'[Len(sent')] \in Refusals => linger'
    BY <1>2, <1>6, <2>2 DEF Refusals, Clean, Polite
  <2>4. pc' \in HsPCs \/ (active' /\ ~replied') => Friendly(sent')
    BY <1>1, <1>2, <1>6, JoinedFriendly DEF Replies
  <2> QED
    BY <1>1, <1>6, <2>1, <2>3, <2>4 DEF Replies
<1>7. CASE FillFlush \/ LastFlush \/ FailFlush
  <2>1. sent' = sent \/ (sent' = sent \o out /\ out # <<>>)
    BY <1>1, <1>7, FlushDoes DEF FillFlush, LastFlush, FailFlush
  <2>2. UNCHANGED <<replied, listening, conn, linger>>
    BY <1>7 DEF FillFlush, LastFlush, FailFlush, replyvars
  <2>3. CASE FailFlush
    <3>1. pc = "failFlush" /\ pc' = "end" /\ active' = active
      BY <2>3 DEF FailFlush, replyvars
    <3>2. ~active /\ ~conn
      BY <1>1, <3>1 DEF Stages
    <3>3. linger' \/ Polite(out)
      BY <1>1, <2>2, <3>1 DEF Queued
    <3>4. ~(pc' \in HsPCs \/ active')
      BY <3>1, <3>2 DEF HsPCs
    <3> QED
      BY <1>4, <1>6, <2>1, <2>2, <3>2, <3>3, <3>4
  <2>4. CASE LastFlush
    <3>1. pc = "lastFlush"
      BY <2>4 DEF LastFlush
    <3>2. pc \in HsPCs /\ ~conn /\ Polite(out)
      BY <1>1, <3>1 DEF Stages, HsPCs, Queued
    <3> QED
      BY <1>4, <1>6, <2>1, <2>2, <3>2
  <2>5. CASE FillFlush
    <3>1. pc \in {"fill", "peekFill"} /\ pc' = pc /\ active' = active /\ out # <<>>
      BY <2>5 DEF FillFlush, replyvars, Unflushed
    <3>2. pc = "fill"
      BY <1>1, <3>1 DEF Stages, Queued, PeekPCs
    <3>3. pc \in HsPCs /\ ~conn /\ Polite(out)
      BY <1>1, <3>2 DEF Stages, HsPCs, Queued
    <3> QED
      BY <1>4, <1>6, <2>1, <2>2, <3>1, <3>3
  <2> QED
    BY <1>7, <2>3, <2>4, <2>5
<1>8. CASE AuthWrite
  <2>1. pc = "auth" /\ pc' = "answered" /\ UNCHANGED <<replied, listening, conn, linger, active>>
    BY <1>8 DEF AuthWrite, replyvars
  <2>2. pc \in HsPCs /\ ~conn /\ Polite(out)
    BY <1>1, <2>1 DEF Stages, HsPCs, Queued
  <2>3. sent' = sent \/ sent' = sent \o out
    BY <1>8 DEF AuthWrite
  <2>4. sent' = sent \/ (sent' = sent \o out /\ out # <<>>)
    BY <1>2, <2>3, Joined
  <2> QED
    BY <1>4, <1>6, <2>1, <2>2, <2>4
<1>9. CASE ParseBad
  <2>1. pc = "parse" /\ pc' = "failFlush" /\ UNCHANGED <<listening, conn, active>>
    BY <1>9 DEF ParseBad, HandshakeFails
  <2>2. pc \in HsPCs /\ ~conn /\ Polite(out) /\ ~active /\ ~replied /\ ~listening
    BY <1>1, <2>1 DEF Stages, HsPCs, Queued
  <2>3. CASE sent' = sent
    BY <1>5, <2>1, <2>2, <2>3
  <2>4. CASE sent' = sent \o out \o <<"fail">> /\ linger' /\ replied'
    <3> DEFINE s == sent \o out
    <3>1. s \in Seq(Out) /\ FinalsOf(s) = FinalsOf(sent)
      BY <1>2, Joined, FinalsCounted
    <3>2. Finals = {}
      BY <1>1, <2>2 DEF Replies
    <3>3. Cardinality(FinalsOf(s)) = 0
      BY <1>3, <3>1, <3>2, FS_EmptySet
    <3> HIDE DEF s
    <3>4. sent' = Append(s, "fail")
      <4>1. s \o <<"fail">> = Append(s, "fail")
        BY <3>1 DEF Out
      <4> QED
        BY <2>4, <4>1 DEF s
    <3>5. Cardinality(Finals') = 1
      BY <1>3, <3>1, <3>3, <3>4, FinalsCounted
    <3>6. ~(pc' \in HsPCs \/ active')
      BY <2>1, <2>2 DEF HsPCs
    <3> QED
      BY <2>1, <2>2, <2>4, <3>5, <3>6 DEF Replies
  <2> QED
    BY <1>9, <2>3, <2>4 DEF ParseBad, HandshakeFails
<1>10. CASE Greeting \/ AuthRejects
  <2>1. /\ pc \in HsPCs /\ UNCHANGED <<sent, replied, listening, conn, active>>
    BY <1>10 DEF Greeting, AuthRejects, HsPCs, outvars, replyvars
  <2>2. ~conn
    BY <1>1, <2>1 DEF Stages, HsPCs
  <2> QED
    BY <1>5, <2>1, <2>2
<1>11. ASSUME active, ~replied, ~conn, sent' = Append(sent, "ok"), UNCHANGED active,
              \/ replied' /\ conn' /\ listening' = listening
              \/ ~listening /\ listening' /\ UNCHANGED <<replied, conn>>
       PROVE  Replies'
  <2>1. /\ sent' \in Seq(Out) /\ Len(sent') = Len(sent) + 1 /\ sent'[Len(sent')] = "ok"
        /\ \A i \in 1 .. Len(sent) : sent'[i] = sent[i]
    BY <1>2, <1>11, AppendProperties DEF Out
  <2>2. sent' # <<>> /\ sent'[Len(sent')] \notin Refusals
    BY <1>2, <2>1 DEF Refusals
  <2>3. Cardinality(Finals') = Cardinality(Finals) + 1
    BY <1>2, <1>3, <1>11, FinalsCounted
  <2>4. Friendly(sent')
    <3>1. Friendly(sent)
      BY <1>1, <1>11 DEF Replies
    <3>2. DOMAIN sent' = 1 .. Len(sent) + 1
      BY <2>1
    <3>3. \A i \in DOMAIN sent' : i \in DOMAIN sent \/ i = Len(sent')
      BY <1>2, <2>1, <3>2
    <3> QED
      BY <1>2, <2>1, <2>2, <3>1, <3>3 DEF Friendly
  <2>5. Cardinality(Finals) <= 1 /\ (~listening => Cardinality(Finals) = 0)
    BY <1>1, <1>11, FS_EmptySet DEF Replies
  <2>6. Cardinality(Finals') <= 2 /\ (~listening => Cardinality(Finals') <= 1)
    BY <1>3, <2>3, <2>5
  <2>7. CASE replied' /\ conn' /\ listening' = listening
    BY <2>1, <2>2, <2>4, <2>6, <2>7 DEF Replies
  <2>8. CASE ~listening /\ listening' /\ UNCHANGED <<replied, conn>>
    BY <1>11, <2>1, <2>2, <2>4, <2>6, <2>8 DEF Replies
  <2> QED
    BY <1>11, <2>7, <2>8
<1>12. ASSUME active, ~replied, ~conn, sent' = Append(sent, "fail"), UNCHANGED <<conn, listening>>,
              replied', linger', pc' \notin HsPCs
       PROVE  Replies'
  <2>1. Cardinality(Finals') = Cardinality(Finals) + 1
    BY <1>2, <1>3, <1>12, FinalsCounted
  <2>2. Cardinality(Finals) <= 1 /\ (~listening => Cardinality(Finals) = 0)
    BY <1>1, <1>12, FS_EmptySet DEF Replies
  <2>3. Cardinality(Finals') <= 2 /\ (~listening => Cardinality(Finals') <= 1)
    BY <1>3, <2>1, <2>2
  <2> QED
    BY <1>12, <2>3 DEF Replies
<1>13. CASE ReplyListening
  <2>1. pc = "handler" /\ ~replied /\ ~listening /\ UNCHANGED <<active, conn>>
    BY <1>13 DEF ReplyListening, Live
  <2>2. active /\ ~conn
    BY <1>1, <2>1 DEF Stages
  <2>3. \/ sent' = Append(sent, "ok") /\ listening' /\ replied' = replied
        \/ sent' = sent /\ listening' = listening /\ replied'
    BY <1>13 DEF ReplyListening
  <2> QED
    BY <1>5, <1>11, <2>1, <2>2, <2>3
<1>14. CASE Reply
  <2>1. /\ active /\ ~replied /\ UNCHANGED <<active, listening, pc>>
        /\ replied' /\ pc \in {"handler", "finish", "end"}
    BY <1>14 DEF Reply, Live
  <2>2. ~conn
    BY <1>1, <2>1 DEF Stages
  <2>3. \/ sent' = Append(sent, "ok") /\ conn'
        \/ sent' = Append(sent, "fail") /\ linger' /\ conn' = conn
        \/ sent' = sent /\ conn' = conn
    BY <1>14 DEF Reply
  <2>4. pc' \notin HsPCs
    BY <2>1 DEF HsPCs
  <2> QED
    BY <1>5, <1>11, <1>12, <2>1, <2>2, <2>3, <2>4
<1>15. CASE Finish
  <2>1. pc = "finish" /\ pc' = "end" /\ UNCHANGED <<active, listening, conn>>
    BY <1>15 DEF Finish
  <2>2. active /\ pc' \notin HsPCs
    BY <1>1, <2>1 DEF Stages, HsPCs
  <2>3. CASE Live
    <3>1. ~replied /\ replied' /\ ((sent' = Append(sent, "fail") /\ linger') \/ sent' = sent)
      BY <1>15, <2>3 DEF Finish, FallbackDue, Live
    <3>2. ~conn
      BY <1>1, <3>1 DEF Stages
    <3> QED
      BY <1>5, <1>12, <2>1, <2>2, <3>1, <3>2
  <2>4. CASE ~Live
    BY <1>4, <1>15, <2>1, <2>2, <2>4 DEF Finish, FallbackDue
  <2> QED
    BY <2>3, <2>4
<1>16. CASE ClientSend \/ ClientFin \/ ParseIncomplete \/ FillBlocks \/ FillRead \/ FillToNext
            \/ AuthMessage \/ AuthGoesOn \/ AuthErrors \/ RequestRead \/ Early \/ Peek
            \/ PeekReturn \/ BindAccept \/ WatchClient \/ StopWatch \/ HandlerReturn \/ End
            \/ EndClose \/ CloseConn \/ TakeBuffered \/ CopyOut \/ Consumed \/ GoDirect
            \/ DirectRead \/ NetConn \/ ReadSlice
  <2>1. UNCHANGED <<sent, linger, replied, listening, conn, active>>
    BY <1>16 DEF ClientSend, ClientFin, ParseIncomplete, FillBlocks, FillRead, FillToNext,
        AuthMessage, AuthGoesOn, AuthErrors, RequestRead, Early, Peek, PeekReturn, BindAccept,
        WatchClient, StopWatch, HandlerReturn, End, EndClose, CloseConn, TakeBuffered, CopyOut,
        Consumed, GoDirect, DirectRead, NetConn, ReadSlice, HandshakeFails, outvars, replyvars
  <2>2. pc' \in HsPCs => pc \in HsPCs
    BY <1>16 DEF ClientSend, ClientFin, ParseIncomplete, FillBlocks, FillRead, FillToNext,
        AuthMessage, AuthGoesOn, AuthErrors, RequestRead, Early, Peek, PeekReturn, BindAccept,
        WatchClient, StopWatch, HandlerReturn, End, EndClose, CloseConn, TakeBuffered, CopyOut,
        Consumed, GoDirect, DirectRead, NetConn, ReadSlice, HsPCs
  <2> QED
    BY <1>4, <2>1, <2>2
<1> QED
  BY <1>4, <1>7, <1>8, <1>9, <1>10, <1>13, <1>14, <1>15, <1>16
  DEF Next, Handshake, Handler, Ending, Reader, vars, outvars, replyvars

-----------------------------------------------------------------------------
(* The theorems.                                                           *)

\* A new conn satisfies the invariant.
LEMMA IndInvInit == Init => IndInv
<1> SUFFICES ASSUME Init PROVE IndInv
  OBVIOUS
<1> USE Constants DEF Init
<1>1. StreamType /\ BufferType /\ PlaceType
  BY EmptySeq DEF StreamType, BufferType, MsgType, PlaceType, PCs
<1>2. OutType /\ ServeFlags /\ ReaderFlags
  BY EmptySeq DEF OutType, ServeFlags, ReaderFlags
<1>3. Stages /\ Ascending
  BY DEF Stages, HsPCs, PeekPCs, Live, Ascending
<1>4. Place /\ Reached /\ Unread /\ Reads
  BY DEF Place, Shown, Reached, Unread, Reads
<1>5. Cleared /\ Pooled
  BY DEF Cleared, Pooled
<1>6. Queued
  BY DEF Queued, HsPCs, Clean, Polite
<1>7. Replies
  <2>1. Finals = {}
    BY DEF Finals
  <2> QED
    BY <2>1, FS_EmptySet DEF Replies, HsPCs, Friendly
<1> QED
  BY <1>1, <1>2, <1>3, <1>4, <1>5, <1>6, <1>7, TypeParts DEF IndInv

\* Every step keeps the invariant.
LEMMA IndInvStep == IndInv /\ [Next]_vars => IndInv'
<1> SUFFICES ASSUME IndInv, [Next]_vars PROVE IndInv'
  OBVIOUS
<1>1. TypeOK' /\ Stages' /\ Ascending' /\ Place'
  BY TypeStep, StagesStep, AscendingStep, PlaceStep
<1>2. Reached' /\ Unread' /\ Reads' /\ Cleared'
  BY ReachedStep, UnreadStep, ReadsStep, ClearedStep
<1>3. Pooled' /\ Queued' /\ Replies'
  BY PooledStep, QueuedStep, RepliesStep
<1> QED
  BY <1>1, <1>2, <1>3 DEF IndInv

\* The invariant holds in every state a conn reaches.
THEOREM Invariance == Spec => []IndInv
BY IndInvInit, IndInvStep, PTL DEF Spec

\* Every variable keeps its type: the bounds of the buffer never leave it, whatever
\* is read, moved and consumed.
THEOREM TypeCorrect == Spec => []TypeOK
<1>1. IndInv => TypeOK
  BY DEF IndInv
<1> QED
  BY <1>1, Invariance, PTL

\* The pooled buffer is whole for every handshake, buffer size and stream: the
\* unread bytes are the last ones read and start where the conn is, a read has
\* room, the buffer is pooled once, clean and with nobody using it, and no
\* authentication message is left in it when the handler runs.
THEOREM BufferWhole == Spec => []BufferSafe
<1>1. IndInv => BufferSafe
  <2> SUFFICES ASSUME IndInv PROVE BufferSafe
    OBVIOUS
  <2>1. /\ StreamType /\ BufferType /\ PlaceType /\ Stages /\ Place /\ Reached /\ Unread
        /\ Reads /\ Cleared /\ Pooled
    BY TypeParts DEF IndInv
  <2>2. ASSUME bufp, ~done, ~handedOff
        PROVE  /\ pc \in {"read", "peekRead"} => w < InSize
               /\ \A i \in r + 1 .. w : in[i] = taken - (w - i)
               /\ pc = "parse" => taken - (w - r) = MsgStart(k)
               /\ pc = "handler" /\ rpc # "consume" /\ ~drained =>
                    taken - (w - r) = HsLen + Len(delivered)
    <3>1. ~drained
      BY <2>1, <2>2 DEF Stages, Reached
    <3>2. \A i \in r + 1 .. w : in[i] = taken - (w - i)
      BY <2>1, <2>2, <3>1 DEF Unread
    <3>3. pc = "parse" => taken - (w - r) = MsgStart(k)
      BY <2>1 DEF Place, Shown
    <3>4. ASSUME pc = "handler", rpc # "consume"
          PROVE  Shown = HsLen + Len(delivered)
      <4>1. CASE conn
        BY <2>1, <2>2, <3>1, <3>4, <4>1 DEF Reached, PlaceType
      <4>2. CASE ~conn
        <5>1. Shown = HsLen /\ delivered = <<>>
          BY <2>1, <2>2, <3>4, <4>2 DEF Stages, Place
        <5>2. HsLen \in Nat /\ Len(<<>>) = 0
          BY Constants
        <5> QED
          BY <5>1, <5>2
      <4> QED
        BY <4>1, <4>2
    <3> QED
      BY <2>1, <3>2, <3>3, <3>4 DEF Reads, Shown
  <2>3. pooled <= 1
    BY <2>1 DEF Pooled
  <2>4. ASSUME pooled = 1
        PROVE  ~kept /\ rpc \notin {"copy", "slice"} /\ in = [i \in 1 .. InSize |-> 0]
    <3>1. ~kept /\ rpc \notin {"copy", "slice"}
      BY <2>1, <2>4 DEF Pooled
    <3>2. \A i \in 1 .. InSize : in[i] = 0
      BY <2>1, <2>4, Constants DEF Pooled
    <3> QED
      BY <2>1, <3>1, <3>2 DEF BufferType
  <2>5. ASSUME pc = "handler", NEW i \in 1 .. w, NEW j \in 1 .. Len(MsgEnd), Kinds[j] = "auth"
        PROVE  in[i] \notin MsgStart(j) + 1 .. MsgEnd[j]
    <3>1. k = Len(MsgEnd) /\ j # Len(MsgEnd)
      BY <2>1, <2>5, Constants DEF Stages
    <3>2. j \in 1 .. k - 1
      BY <3>1, Constants
    <3> QED
      BY <2>1, <2>5, <3>2 DEF Cleared
  <2> QED
    BY <2>2, <2>3, <2>4, <2>5 DEF BufferSafe
<1> QED
  BY <1>1, Invariance, PTL

\* For every conn: one final reply at most, a Conn only behind a success, and a
\* lingering close behind every refusal.
THEOREM OneReply == Spec => []OneFinalReply
<1>1. IndInv => OneFinalReply
  <2> SUFFICES ASSUME IndInv PROVE OneFinalReply
    OBVIOUS
  <2>1. OutType /\ Replies
    BY TypeParts DEF IndInv
  <2>2. ASSUME conn
        PROVE  \E i \in Finals : sent[i] = "ok" /\ \A j \in Finals : j <= i
    <3>1. sent # <<>> /\ sent[Len(sent)] = "ok" /\ sent \in Seq(Out)
      BY <2>1, <2>2 DEF Replies, OutType
    <3>2. Len(sent) \in DOMAIN sent /\ DOMAIN sent = 1 .. Len(sent) /\ Len(sent) \in Nat
      BY <3>1, EmptySeq
    <3>3. Len(sent) \in Finals /\ \A j \in Finals : j <= Len(sent)
      BY <3>1, <3>2 DEF Finals
    <3> QED
      BY <3>1, <3>3
  <2> QED
    BY <2>1, <2>2 DEF OneFinalReply, Replies, Refusals
<1> QED
  BY <1>1, Invariance, PTL

-----------------------------------------------------------------------------
(* A Conn implements the byte stream.                                      *)

\* n bytes of the buffer, or of nc, are the next n of the stream.
LEMMA NextBytes ==
    ASSUME IndInv, NEW n \in 1 .. Total, HsLen + Len(delivered) + n <= avail,
           NEW f \in [1 .. n -> Nat], \A i \in 1 .. n : f[i] = HsLen + Len(delivered) + i,
           delivered' = delivered \o f, UNCHANGED <<avail, fin, eof>>
    PROVE  Stream!Next
<1>1. HsLen \in Nat /\ Len(delivered) \in Nat
  BY TypeParts, Constants DEF IndInv, PlaceType
<1>2. f = [i \in 1 .. n |-> HsLen + Len(delivered) + i]
  OBVIOUS
<1>3. Stream!Deliver(n)
  BY <1>2 DEF Stream!Deliver
<1> QED
  BY <1>3 DEF Stream!Next

\* Every step of a conn is one of the byte stream, or none.
LEMMA StreamStep ==
    ASSUME IndInv, [Next]_vars
    PROVE  [Stream!Next]_(Stream!vars)
<1>1. /\ StreamType /\ BufferType /\ PlaceType /\ Stages /\ Reached /\ Unread /\ Reads /\ Pooled
  BY TypeParts DEF IndInv
<1>2. /\ taken \in Nat /\ avail \in Nat /\ taken <= avail /\ avail <= Total /\ Total \in Nat
      /\ w \in Nat /\ r \in Nat /\ r <= w /\ w <= InSize /\ InSize \in Nat
      /\ HsLen \in Nat /\ Len(delivered) \in Nat
  BY <1>1, Constants DEF StreamType, BufferType, PlaceType
<1>3. ASSUME UNCHANGED <<avail, fin, delivered, eof>>
      PROVE  [Stream!Next]_(Stream!vars)
  BY <1>3 DEF Stream!vars
<1>4. CASE ClientSend
  <2>1. ~fin /\ avail' \in avail .. Total /\ fin' = fin /\ UNCHANGED <<delivered, eof>>
    BY <1>2, <1>4 DEF ClientSend, tunnelvars
  <2>2. fin' \in BOOLEAN
    BY <2>1, TypeParts DEF IndInv, ServeFlags
  <2> QED
    BY <2>1, <2>2 DEF Stream!Next, Stream!Send
<1>5. CASE ClientFin
  <2>1. ~fin /\ avail' = avail /\ fin' \in BOOLEAN /\ UNCHANGED <<delivered, eof>>
    BY <1>5 DEF ClientFin, tunnelvars
  <2>2. avail' \in avail .. Total
    BY <1>2, <2>1
  <2> QED
    BY <2>1, <2>2 DEF Stream!Next, Stream!Send
<1>6. ASSUME rpc \in {"copy", "slice"}, NEW n \in 1 .. w - r,
             delivered' = delivered \o [i \in 1 .. n |-> in[r + i]], UNCHANGED <<avail, fin, eof>>
      PROVE  Stream!Next
  <2>1. Shown = HsLen + Len(delivered) /\ \A i \in r + 1 .. w : in[i] = taken - (w - i)
    BY <1>1, <1>6 DEF Stages, Reached, Unread, Pooled
  <2>2. ASSUME NEW i \in 1 .. n
        PROVE  in[r + i] = HsLen + Len(delivered) + i /\ in[r + i] \in Nat
    <3>1. r + i \in r + 1 .. w
      BY <1>2
    <3>2. in[r + i] = taken - (w - (r + i))
      BY <2>1, <3>1
    <3> QED
      BY <1>2, <2>1, <3>2 DEF Shown
  <2>3. n \in 1 .. Total /\ HsLen + Len(delivered) + n <= avail
    <3>1. Shown + (w - r) = taken
      BY <1>2 DEF Shown
    <3> QED
      BY <1>2, <2>1, <3>1
  <2>4. [i \in 1 .. n |-> in[r + i]] \in [1 .. n -> Nat]
    BY <2>2
  <2> QED
    BY <1>6, <2>2, <2>3, <2>4, NextBytes
<1>7. CASE CopyOut
  <2>1. cnt' \in 1 .. w - r /\ rpc = "copy" /\ UNCHANGED <<avail, fin, eof>>
    BY <1>7 DEF CopyOut, clientvars
  <2>2. PICK n \in 1 .. w - r : cnt' = n
    BY <2>1
  <2>3. delivered' = delivered \o [i \in 1 .. n |-> in[r + i]]
    BY <1>7, <2>2 DEF CopyOut
  <2> QED
    BY <1>6, <2>1, <2>3
<1>8. CASE ReadSlice
  <2>1. /\ rpc = "slice" /\ UNCHANGED <<avail, fin, eof>>
        /\ delivered' = delivered \o [i \in 1 .. w - r |-> in[r + i]]
    BY <1>8 DEF ReadSlice, clientvars
  <2>2. w - r \in 1 .. w - r
    BY <1>1, <1>2, <2>1 DEF Reached, Stages
  <2> QED
    BY <1>6, <2>1, <2>2
<1>9. ASSUME eof', fin, HsLen + Len(delivered) = avail, UNCHANGED <<avail, fin, delivered>>, eof' = TRUE
      PROVE  Stream!Next
  BY <1>9 DEF Stream!Next, Stream!Eof
<1>10. CASE DirectRead
  <2>1. taken = HsLen + Len(delivered) /\ UNCHANGED <<avail, fin>>
    BY <1>1, <1>10 DEF DirectRead, Stages, Reached, clientvars
  <2>2. ASSUME NEW n \in 1 .. avail - taken, UNCHANGED eof,
               delivered' = delivered \o [i \in 1 .. n |-> taken + i]
        PROVE  Stream!Next
    <3>1. n \in 1 .. Total /\ HsLen + Len(delivered) + n <= avail
      BY <1>2, <2>1
    <3>2. [i \in 1 .. n |-> taken + i] \in [1 .. n -> Nat]
      BY <1>2
    <3>3. \A i \in 1 .. n : [j \in 1 .. n |-> taken + j][i] = HsLen + Len(delivered) + i
      BY <2>1
    <3> QED
      BY <2>1, <2>2, <3>1, <3>2, <3>3, NextBytes
  <2>3. ASSUME fin, taken = avail, eof' = TRUE, UNCHANGED delivered
        PROVE  Stream!Next
    BY <1>9, <2>1, <2>3
  <2> QED
    BY <1>3, <1>10, <2>1, <2>2, <2>3 DEF DirectRead
<1>11. CASE TakeBuffered
  <2>1. UNCHANGED <<avail, fin, delivered>> /\ conn /\ rpc = "idle" /\ ~drained /\ ~done /\ ~handedOff
    BY <1>11 DEF TakeBuffered, clientvars
  <2>2. CASE eof' = eof
    BY <1>3, <2>1, <2>2
  <2>3. CASE eof' # eof
    <3>1. ~(bufp /\ r < w) /\ eof' = (eof \/ readErr = "eof")
      BY <1>11, <2>3 DEF TakeBuffered
    <3>2. eof \in BOOLEAN
      BY TypeParts DEF IndInv, ReaderFlags
    <3>3. readErr = "eof" /\ eof' = TRUE
      BY <2>3, <3>1, <3>2
    <3>4. fin /\ taken = avail
      BY <1>1, <3>3 DEF Reads
    <3>5. r = w /\ Shown = HsLen + Len(delivered)
      BY <1>1, <1>2, <2>1, <3>1 DEF Reached
    <3>6. HsLen + Len(delivered) = avail
      BY <1>2, <3>4, <3>5 DEF Shown
    <3> QED
      BY <1>9, <2>1, <3>3, <3>4, <3>6
  <2> QED
    BY <2>2, <2>3
<1>12. CASE ParseIncomplete \/ FillFlush \/ FillBlocks \/ FillRead \/ FillToNext \/ ParseBad
            \/ Greeting \/ AuthMessage \/ AuthWrite \/ AuthGoesOn \/ AuthRejects \/ AuthErrors
            \/ RequestRead \/ LastFlush \/ FailFlush \/ Early \/ Peek \/ PeekReturn
            \/ ReplyListening \/ BindAccept \/ WatchClient \/ StopWatch \/ Reply
            \/ HandlerReturn \/ Finish \/ End \/ EndClose \/ CloseConn \/ Consumed \/ GoDirect
            \/ NetConn
  <2>1. UNCHANGED <<avail, fin, delivered, eof>>
    BY <1>12 DEF ParseIncomplete, FillFlush, FillBlocks, FillRead, FillToNext, ParseBad,
        Greeting, AuthMessage, AuthWrite, AuthGoesOn, AuthRejects, AuthErrors, RequestRead,
        LastFlush, FailFlush, Early, Peek, PeekReturn, ReplyListening, BindAccept, WatchClient,
        StopWatch, Reply, HandlerReturn, Finish, End, EndClose, CloseConn, Consumed, GoDirect,
        NetConn, clientvars, tunnelvars
  <2> QED
    BY <1>3, <2>1
<1> QED
  BY <1>3, <1>4, <1>5, <1>7, <1>8, <1>10, <1>11, <1>12
  DEF Next, Handshake, Handler, Ending, Reader, vars, clientvars, tunnelvars

\* A Conn implements the byte stream, for every handshake in front of it: whatever
\* the handshake, Peek or the BIND watcher buffered, and whichever way it is read,
\* the bytes behind the request arrive in order, each once, and the end after them.
THEOREM StreamImplemented == Spec => StreamKept
<1>1. Init => Stream!Init
  BY DEF Init, Stream!Init
<1>2. IndInv /\ [Next]_vars => [Stream!Next]_(Stream!vars)
  BY StreamStep
<1> QED
  BY <1>1, <1>2, Invariance, PTL DEF Spec, StreamKept, Stream!Spec

=============================================================================
