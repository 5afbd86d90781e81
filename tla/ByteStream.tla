----------------------------- MODULE ByteStream -----------------------------
(***************************************************************************)
(* What a tunnel promises of one direction: the bytes a peer sends from    *)
(* position Start + 1 on arrive in order, each once, and the end of the    *)
(* stream is reported only after the last of them.  Bytes are named by     *)
(* their positions.                                                        *)
(***************************************************************************)
EXTENDS Naturals, Sequences

CONSTANTS
    Start,  \* the bytes before the promise: the handshake
    Total   \* the most bytes the peer sends

VARIABLES
    avail,      \* how many bytes the peer has sent
    fin,        \* the peer has sent FIN
    delivered,  \* the positions handed over
    eof         \* the end of the stream was reported

vars == <<avail, fin, delivered, eof>>

Init ==
    /\ avail = 0
    /\ fin = FALSE
    /\ delivered = <<>>
    /\ eof = FALSE

\* The peer sends, until its FIN.
Send ==
    /\ ~fin
    /\ avail' \in avail .. Total
    /\ fin' \in BOOLEAN
    /\ UNCHANGED <<delivered, eof>>

\* The next n bytes.
Deliver(n) ==
    /\ Start + Len(delivered) + n <= avail
    /\ delivered' = delivered \o [i \in 1 .. n |-> Start + Len(delivered) + i]
    /\ UNCHANGED <<avail, fin, eof>>

\* The end of the stream.
Eof ==
    /\ fin
    /\ Start + Len(delivered) = avail
    /\ eof' = TRUE
    /\ UNCHANGED <<avail, fin, delivered>>

Next == Send \/ (\E n \in 1 .. Total : Deliver(n)) \/ Eof

Spec == Init /\ [][Next]_vars

=============================================================================
