-------------------------------- MODULE Wire --------------------------------
(***************************************************************************)
(* The messages of SOCKS4, SOCKS4a, SOCKS5 and RFC 1929 (go/socks0/wire:   *)
(* addr.go, encode.go, parse.go) as sequences of bytes: the Append         *)
(* functions that write them, and the Parse functions that read them from  *)
(* whatever a stream has delivered so far.  A parser that lacks bytes says *)
(* how many it needs at least; a message it cannot accept is a             *)
(* ProtocolError.                                                          *)
(***************************************************************************)
EXTENDS Integers, Sequences

Version5 == 5
Version4 == 4
UserPassVersion == 1
ReplySucceeded == 0
Reply4Granted == 90
MethodNoAuth == 0
MethodUserPass == 2
MethodNoAcceptable == 255

ATYPIPv4 == 1
ATYPDomain == 3
ATYPIPv6 == 4

Bytes == 0 .. 255

\* An Addr has an ip of 4 or 16 bytes or a name of 1 to 255, and a port.
ZeroAddr == [ip |-> <<>>, name |-> <<>>, port |-> 0]
IsName(a) == a.name # <<>>
IsValid(a) == a.ip # <<>> \/ IsName(a)
Ports == 0 .. 65535
Addrs == [ip: Seq(Bytes), name: Seq(Bytes), port: Ports]
ValidAddrs ==
    {a \in Addrs : \/ a.name = <<>> /\ Len(a.ip) \in {4, 16}
                   \/ a.ip = <<>> /\ Len(a.name) \in 1 .. 255}

\* netip's Unmap: an IPv4-mapped IPv6 address is the IPv4 one.
Unmap(ip) ==
    IF Len(ip) = 16 /\ SubSeq(ip, 1, 12) = <<0, 0, 0, 0, 0, 0, 0, 0, 0, 0, 255, 255>>
    THEN SubSeq(ip, 13, 16) ELSE ip

ATYP(a) ==
    CASE IsName(a) -> ATYPDomain
      [] ~IsName(a) /\ Len(a.ip) = 4 -> ATYPIPv4
      [] ~IsName(a) /\ Len(a.ip) = 16 -> ATYPIPv6
      [] OTHER -> 0

Uint16(n) == <<n \div 256, n % 256>>

\* The port in the last two of the first n bytes of b.
PortAt(b, n) == b[n - 1] * 256 + b[n]

-----------------------------------------------------------------------------
(* The encoders.                                                           *)

\* Addr.append, and appendAddrMessage, which refuses the zero Addr before.
appendAddrMessage(header, a) ==
    header \o <<ATYP(a)>>
    \o (IF IsName(a) THEN <<Len(a.name)>> \o a.name ELSE a.ip)
    \o Uint16(a.port)

AppendGreeting(methods) == <<Version5, Len(methods)>> \o methods
AppendUserPass(user, pass) ==
    <<UserPassVersion, Len(user)>> \o user \o <<Len(pass)>> \o pass
AppendRequest(cmd, a) == appendAddrMessage(<<Version5, cmd, 0>>, a)
AppendMethodSelection(m) == <<Version5, m>>
AppendUserPassStatus(status) == <<UserPassVersion, status>>
AppendReply(rep, bound) == appendAddrMessage(<<Version5, rep, 0>>, bound)

isSOCKS4aIP(ip) == Len(ip) = 4 /\ SubSeq(ip, 1, 3) = <<0, 0, 0>>

Has(s, x) == \E i \in DOMAIN s : s[i] = x

\* checkRequest4: what SOCKS4 cannot say.
checkRequest4(a, userID) ==
    /\ IsValid(a)
    /\ Len(a.ip) # 16
    /\ ~isSOCKS4aIP(a.ip)
    /\ Len(userID) <= 255 /\ ~Has(userID, 0) /\ ~Has(a.name, 0)

\* A name goes as SOCKS4a: the IP 0.0.0.1, and the name after USERID.
AppendRequest4(cmd, a, userID) ==
    <<Version4, cmd>> \o Uint16(a.port)
    \o (IF Len(a.ip) = 4 THEN a.ip ELSE <<0, 0, 0, 1>>)
    \o userID \o <<0>>
    \o (IF IsName(a) THEN a.name \o <<0>> ELSE <<>>)

AppendReply4(rep, bound) ==
    <<0, rep>> \o Uint16(bound.port) \o (IF bound.ip = <<>> THEN <<0, 0, 0, 0>> ELSE bound.ip)

-----------------------------------------------------------------------------
(* The parsers.  A result has err, and n: the message's length, or the     *)
(* length needed if err is "incomplete".                                   *)

Incomplete(n) == [err |-> "incomplete", n |-> n]
Protocol == [err |-> "protocol", n |-> 0]

\* checkVersion: the first byte, once there is one.
checkVersion(b, want) == b = <<>> \/ b[1] = want

ParseGreeting(b) ==
    CASE ~checkVersion(b, Version5) -> Protocol
      [] checkVersion(b, Version5) /\ Len(b) < 2 -> Incomplete(3)
      [] OTHER ->
           IF b[2] = 0 THEN Protocol
           ELSE IF Len(b) < 2 + b[2] THEN Incomplete(2 + b[2])
           ELSE [err |-> "nil", n |-> 2 + b[2], methods |-> SubSeq(b, 3, 2 + b[2])]

ParseUserPass(b) ==
    CASE ~checkVersion(b, UserPassVersion) -> Protocol
      [] checkVersion(b, UserPassVersion) /\ Len(b) < 2 -> Incomplete(3)
      [] OTHER ->
           LET plenAt == 2 + b[2] IN \* bytes before PLEN
           IF Len(b) <= plenAt THEN Incomplete(plenAt + 1)
           ELSE LET n == plenAt + 1 + b[plenAt + 1] IN
                IF Len(b) < n THEN Incomplete(n)
                ELSE [err |-> "nil", n |-> n,
                      user |-> SubSeq(b, 3, plenAt), pass |-> SubSeq(b, plenAt + 2, n)]

ParseMethodSelection(b) ==
    CASE ~checkVersion(b, Version5) -> Protocol
      [] checkVersion(b, Version5) /\ Len(b) < 2 -> Incomplete(2)
      [] OTHER -> [err |-> "nil", n |-> 2, method |-> b[2]]

ParseUserPassStatus(b) ==
    CASE ~checkVersion(b, UserPassVersion) -> Protocol
      [] checkVersion(b, UserPassVersion) /\ Len(b) < 2 -> Incomplete(2)
      [] OTHER -> [err |-> "nil", n |-> 2, status |-> b[2]]

\* Mutant: a name counts with a byte that ends it.
AddrLenWithNUL(b, allowATYP0) ==
    CASE b[4] = ATYPIPv4 \/ (b[4] = 0 /\ allowATYP0) -> 10
      [] b[4] = ATYPIPv6 -> 22
      [] b[4] = ATYPDomain /\ Len(b) >= 5 -> IF b[5] = 0 THEN 0 ELSE 8 + b[5]
      [] b[4] = ATYPDomain /\ Len(b) < 5 -> 5
      [] OTHER -> 0

\* The length ATYP and, of a name, its length byte tell; 0 if they are refused.
addrMessageLen(b, allowATYP0) ==
    CASE b[4] = ATYPIPv4 \/ (b[4] = 0 /\ allowATYP0) -> 10
      [] b[4] = ATYPIPv6 -> 22
      [] b[4] = ATYPDomain /\ Len(b) >= 5 -> IF b[5] = 0 THEN 0 ELSE 7 + b[5]
      [] b[4] = ATYPDomain /\ Len(b) < 5 -> 5
      [] OTHER -> 0

AddrAt(b, n) ==
    CASE b[4] \in {ATYPIPv4, ATYPIPv6} ->
           [ip |-> Unmap(SubSeq(b, 5, n - 2)), name |-> <<>>, port |-> PortAt(b, n)]
      [] b[4] = ATYPDomain ->
           [ip |-> <<>>, name |-> SubSeq(b, 6, n - 2), port |-> PortAt(b, n)]
      [] OTHER -> ZeroAddr

Address(err, n, a) == [err |-> err, n |-> n, addr |-> a]

parseAddrMessage(b, allowATYP0) ==
    IF Len(b) < 4 THEN Address("incomplete", 5, ZeroAddr)
    ELSE LET n == addrMessageLen(b, allowATYP0) IN
         IF n = 0 THEN Address("protocol", 0, ZeroAddr)
         ELSE IF Len(b) < n THEN Address("incomplete", n, ZeroAddr)
         ELSE Address("nil", n, AddrAt(b, n))

ParseRequest(b) ==
    IF checkVersion(b, Version5) THEN parseAddrMessage(b, FALSE) ELSE Address("protocol", 0, ZeroAddr)

\* REP (or CD) is known once its byte is there, whatever the rest is.
WithRep(rep, p) == [rep |-> rep, err |-> p.err, n |-> p.n, addr |-> p.addr]
Rep(b) == IF Len(b) > 1 THEN b[2] ELSE 0

ParseReply(b, tor) ==
    IF checkVersion(b, Version5) THEN WithRep(Rep(b), parseAddrMessage(b, tor))
    ELSE WithRep(0, Address("protocol", 0, ZeroAddr))

ParseReply4(b) ==
    IF ~checkVersion(b, 0) THEN WithRep(0, Address("protocol", 0, ZeroAddr))
    ELSE IF Len(b) < 8 THEN WithRep(Rep(b), Address("incomplete", 8, ZeroAddr))
    ELSE WithRep(Rep(b), Address("nil", 8,
           [ip |-> SubSeq(b, 5, 8), name |-> <<>>, port |-> PortAt(b, 4)]))

\* cstring: the NUL-terminated string after the first start bytes.  It takes at
\* least minLen bytes, and after more are sure to follow it.
cstring(b, start, minLen, after) ==
    LET nuls == {i \in 0 .. Len(b) - start - 1 : b[start + i + 1] = 0}
        have == Len(b) - start
        lacking == IF minLen > have THEN minLen - have ELSE 0
    IN IF nuls = {}
       THEN IF have > 255 THEN Protocol ELSE Incomplete(Len(b) + lacking + 1 + after)
       ELSE LET i == CHOOSE i \in nuls : \A j \in nuls : i <= j IN
            IF i > 255 \/ i < minLen THEN Protocol
            ELSE [err |-> "nil", n |-> start + i + 1, str |-> SubSeq(b, start + 1, start + i)]

ParseRequest4(b) ==
    IF ~checkVersion(b, Version4) THEN Protocol
    ELSE IF Len(b) < 8 THEN Incomplete(9)
    ELSE LET is4a == isSOCKS4aIP(SubSeq(b, 5, 8)) /\ b[8] # 0
             user == cstring(b, 8, 0, IF is4a THEN 2 ELSE 0)
         IN IF user.err # "nil" THEN user
            ELSE IF ~is4a
            THEN [err |-> "nil", n |-> user.n, user |-> user.str,
                  addr |-> [ip |-> SubSeq(b, 5, 8), name |-> <<>>, port |-> PortAt(b, 4)]]
            ELSE LET name == cstring(b, user.n, 1, 0) IN
                 IF name.err # "nil" THEN name
                 ELSE [err |-> "nil", n |-> name.n, user |-> user.str,
                       addr |-> [ip |-> <<>>, name |-> name.str, port |-> PortAt(b, 4)]]

=============================================================================
