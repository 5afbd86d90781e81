---------------------------- MODULE MCClientConn ----------------------------
(* Small instances of ClientConn for TLC: the one reader and the one writer  *)
(* a Conn is safe for, and a goroutine for the other calls.                  *)
EXTENDS ClientConn

CONSTANTS reader, writer, other

AllThreads == {reader, writer, other}

\* The calls of the writer and of the other goroutine.
Calls(ws, os) == [t \in AllThreads |->
    CASE t = reader -> {"Read"}
      [] t = writer -> ws
      [] t = other  -> os]

Writes == {"Write", "ReadFrom"}
Others == {"HandshakeContext", "CloseWrite", "Close"}

Config(mode, ops, replyTimeout, deadlines) ==
    [mode |-> mode, ops |-> ops, replyTimeout |-> replyTimeout, deadlines |-> deadlines]

\* Deadlines that expire and a ReplyTimeout, with every pair of calls; and callers
\* that clear deadlines. A ReadFrom of an early conn, whose source read opens the
\* most interleavings, meets the other goroutine's calls one kind at a time.
MCConfigs ==
    {Config("early", Calls({"Write"}, Others), TRUE, {"some"}),
     Config("whole", Calls(Writes, Others), TRUE, {"some"})}
    \cup {Config("early", Calls({"ReadFrom"}, {o}), TRUE, {"some"}) : o \in Others}
    \cup {Config(m, Calls({"Write"}, {"HandshakeContext", "Close"}), FALSE, {"none"}) :
            m \in {"early", "whole"}}

\* The writes of credentials: deadlines and timeouts have no part in them.
WipeConfigs == {Config("early", Calls(Writes, Others), TRUE, {})}

=============================================================================
