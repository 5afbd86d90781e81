--------------------------- MODULE UDPConnProofs ---------------------------
(***************************************************************************)
(* Proofs about UDPConn, for every Dialer, every set of addresses and      *)
(* answers of lookups, and any number of goroutines.                       *)
(***************************************************************************)
EXTENDS UDPConn, TLAPS, WellFoundedInduction

-----------------------------------------------------------------------------
(* The inductive invariant.                                                *)

\* The conns a setup has opened so far.
Opened ==
    /\ apc \in {"config", "new", "prebind"} => control = None /\ pre = None /\ sock = None
    /\ apc = "connect" => control = None /\ pre \in {None, "open"} /\ sock = None
    /\ apc \in {"relayAddr", "open"} =>
         control = "open" /\ pre \in {None, "open"} /\ sock = None
    /\ apc = "opened" => control = "open" /\ pre = None /\ sock = "open"
    /\ apc = "failed" => NothingOpen
    /\ apc = "live" => pre = None
    /\ apc \notin {"new", "live"} => d \in Dialers

\* Until the UDPConn is there, no goroutine of it runs.
Quiet ==
    apc # "live" =>
        /\ ~dead /\ err = "nil" /\ ~closed /\ ~done /\ ~ctlEnd /\ wpc = None
        /\ \A c \in Closers \cup {Cleanup} : cpc[c] = "idle"
        /\ \A t \in Threads : tpc[t] = "idle"

\* A proxy that bound 0.0.0.0 and whose name has an IPv4 address.
WantsIPv4 == bound \in Any \cap IPv4 /\ d.proxy = Name /\ At(found, IPv4) # {}

\* The address relayAddr settles on, and the one the socket sends to.
Vetted ==
    /\ apc \in {"open", "opened"} =>
         /\ ra \in IPs \cup {Name}
         /\ ra \in IPs => CheckRelay(ra)
         /\ WantsIPv4 => ra \in IPv4 \/ (ra = Name /\ d.relayDial)
    /\ apc = "opened" =>
         /\ relayIP \in IPs
         /\ ra \in IPs => relayIP = ra
         /\ ra = Name => d.relayDial \/ CheckRelay(relayIP)

\* What ends a UDPConn leaves its reason first, and closes the control conn before
\* the relay.
Ending ==
    /\ apc = "live" /\ "closed" \in {control, sock} => err # "nil"
    /\ dead => /\ done /\ err # "nil" /\ wpc = None
               /\ control # "open" /\ sock # "open"
    /\ wpc = "lock" => ctlEnd \/ err # "nil"
    /\ wpc \in {"closeRelay", "done"} => err # "nil"
    /\ wpc = "done" => sock = "closed"
    /\ done => sock # "open" /\ err # "nil"
    /\ err = "assoc" => ctlEnd
    /\ \A c \in Closers \cup {Cleanup} :
         /\ cpc[c] \in {"control", "relay", "wait"} => err # "nil"
         /\ cpc[c] \in {"relay", "wait"} => control = "closed"
         /\ cpc[c] = "wait" => sock = "closed"
         /\ cpc[c] = "returned" => NothingOpen

\* rmu and wmu guard the buffers, and who finds the socket closed finds its reason.
Calls ==
    \A t \in Threads :
        /\ tpc[t] \in {"read", "copy"} => rmu = t
        /\ tpc[t] = "write" => wmu = t /\ wbuf = t
        /\ tpc[t] = "copy" => rbuf.via # "other" /\ ~Dropped(rbuf)
        /\ tpc[t] = "ioErr" /\ raw[t] = "useClosed" => err # "nil"
        /\ tpc[t] = "explain" /\ raw[t] = "useClosed" => seen[t] # "nil"

IndInv == TypeOK /\ Opened /\ Quiet /\ Vetted /\ Ending /\ Calls

-----------------------------------------------------------------------------
(* The relay's address.                                                    *)

\* Some index of a set of indices is the first.
LEMMA Least ==
    ASSUME NEW T, T \subseteq Nat, T # {}
    PROVE  \E i \in T : \A j \in T : i <= j
<1>1. PICK i \in T : \A j \in T : ~(<<j, i>> \in OpToRel(<, Nat))
  BY NatLessThanWellFounded, WFMin
<1>2. \A j \in T : ~(j < i)
  BY <1>1 DEF OpToRel
<1>3. ASSUME NEW j \in T PROVE i <= j
  <2>1. i \in Nat /\ j \in Nat /\ ~(j < i)
    BY <1>1, <1>2
  <2> QED
    BY <2>1
<1> QED
  BY <1>3

\* The first address of a family is one of it.
LEMMA FirstOfFamily ==
    ASSUME NEW ips \in Seq(IPs), NEW family, At(ips, family) # {}
    PROVE  FirstOf(ips, family) \in family
<1>1. At(ips, family) \subseteq Nat
  BY DEF At
<1>2. \E i \in At(ips, family) : \A j \in At(ips, family) : i <= j
  BY <1>1, Least
<1> DEFINE first == CHOOSE i \in At(ips, family) : \A j \in At(ips, family) : i <= j
<1>3. first \in At(ips, family)
  BY <1>2, Zenon
<1>4. ips[first] \in family
  BY <1>3 DEF At
<1> QED
  BY <1>4 DEF FirstOf

\* What is put in the place of 0.0.0.0 is IPv4 when the proxy's name has such an
\* address, or the name, for RelayDial to resolve.
LEMMA SubstituteIPv4 ==
    ASSUME NEW ips \in Answers \cup {<<>>}, d \in DialerType, peer \in IPs \cup {NoIP},
           bound \in Any \cap IPv4, d.proxy = Name, At(ips, IPv4) # {}
    PROVE  Substitute(ips) \in IPv4 \/ (Substitute(ips) = Name /\ d.relayDial)
<1>1. ips \in Seq(IPs) /\ FirstOf(ips, IPv4) \in IPv4
  <2>1. ips \in Seq(IPs)
    <3>1. <<>> \in Seq(IPs)
      OBVIOUS
    <3> QED
      BY <3>1, UDPConnAssumption
  <2> QED
    BY <2>1, FirstOfFamily
<1>2. ips # <<>>
  BY DEF At
<1>3. /\ bound \in Any /\ bound \in IPv4
      /\ d.proxy # "bad" /\ d.proxy # "empty" /\ d.proxy \notin IPs
  BY UDPConnAssumption
<1>4. PickRelayIP(ips) \in IPv4
  BY <1>1, <1>3 DEF PickRelayIP
<1>5. ResolveProxyHost(ips) \in IPv4
  BY <1>1, <1>2, <1>4 DEF ResolveProxyHost
<1>6. \/ Substitute(ips) = peer /\ peer \in IPv4
      \/ Substitute(ips) = Name /\ d.relayDial
      \/ Substitute(ips) = ResolveProxyHost(ips)
  BY <1>3 DEF Substitute
<1> QED
  BY <1>5, <1>6

-----------------------------------------------------------------------------
(* Types.                                                                  *)

SetupType ==
    /\ apc \in {"config", "new", "prebind", "connect", "relayAddr", "open", "opened",
                "failed", "live"}
    /\ d \in Dialers \cup {NoDialer}
    /\ bound \in IPs \cup {Name, NoIP} /\ peer \in IPs \cup {NoIP}
    /\ ra \in IPs \cup {Name, NoIP} /\ relayIP \in IPs \cup {NoIP}
    /\ found \in Answers \cup {<<>>}

ConnType ==
    /\ control \in Conn /\ pre \in Conn /\ sock \in Conn
    /\ err \in Err
    /\ wpc \in {None, "read", "lock", "closeRelay", "done", "exited"}

FlagType ==
    /\ pc \in BOOLEAN /\ dead \in BOOLEAN /\ closed \in BOOLEAN /\ done \in BOOLEAN
    /\ ctlEnd \in BOOLEAN /\ stubborn \in BOOLEAN /\ ipTarget \in BOOLEAN
    /\ reachable \in BOOLEAN /\ cleanup \in BOOLEAN

CloserType ==
    cpc \in [Closers \cup {Cleanup} ->
                {"idle", "lock", "control", "relay", "wait", "returned", "already"}]

CallType ==
    /\ tpc \in [Threads -> {"idle", "rlock", "read", "copy", "wlock", "write",
                            "ioErr", "explain"}]
    /\ raw \in [Threads -> Raw] /\ seen \in [Threads -> Err]
    /\ rmu \in Threads \cup {None} /\ wmu \in Threads \cup {None}
    /\ rmu # None => tpc[rmu] \in {"read", "copy", "ioErr", "explain"}
    /\ wmu # None => tpc[wmu] = "write"
    /\ rbuf \in Datagrams \cup {NoDatagram} /\ wbuf \in Threads \cup {None}

\* The types, part by part.
LEMMA TypeParts == TypeOK <=> SetupType /\ ConnType /\ FlagType /\ CloserType /\ CallType
BY ZenonT(60) DEF TypeOK, SetupType, ConnType, FlagType, CloserType, CallType

\* A step of the UDPConn itself, or of a call, leaves the setup alone.
LEMMA SetupKept ==
    ASSUME [Next]_vars, ~Setup
    PROVE  UNCHANGED <<apc, setupvars, pre, kindvars>>
BY DEF Next, vars, ControlEnds, Watch, WatchRead, WatchLock, WatchCloseRelay, WatchDone, Swap,
       CloseStep, CloseLock, CloseControl, CloseRelay, CloseWait, Forget, Begin, RLock, WLock,
       CallStep, ReadRelay, Copy, WriteRelay, IoErr, Explain, conns, shared

\* The setup leaves the goroutines alone.
LEMMA LiveKept ==
    ASSUME Setup
    PROVE  UNCHANGED <<closed, ctlEnd, cpc, reachable, callvars>>
BY DEF Setup, Configure, Prebind, Connect, RelayAddr, DialRelay, ListenRelay, Start, NewUDPConn,
       livevars, refvars

\* The setup's values keep their types.
LEMMA SetupTypeStep ==
    ASSUME SetupType, Vetted, [Next]_vars
    PROVE  SetupType'
<1> USE DEF SetupType
<1>1. CASE Setup
  <2>1. CASE Configure \/ Prebind
    BY <2>1 DEF Configure, NewConn, Prebind, setupvars
  <2>2. CASE Connect
    BY <2>2 DEF Connect
  <2>3. CASE RelayAddr
    BY <2>3 DEF RelayAddr, RelayFails
  <2>4. CASE DialRelay
    BY <2>4 DEF DialRelay, RelayFails, Vetted
  <2>5. CASE ListenRelay
    <3>1. ASSUME NEW ips \in Answers \cup {<<>>}, ListenIP(ips) # NoIP, apc = "open"
          PROVE  ListenIP(ips) \in IPs
      <4>1. ips # <<>> => ips[1] \in IPs
        BY UDPConnAssumption
      <4> QED
        BY <3>1, <4>1 DEF ListenIP, Vetted
    <3> QED
      BY <2>5, <3>1 DEF ListenRelay, RelayFails
  <2>6. CASE Start
    BY <2>6 DEF Start
  <2>7. CASE NewUDPConn
    BY <2>7 DEF NewUDPConn, setupvars
  <2> QED
    BY <1>1, <2>1, <2>2, <2>3, <2>4, <2>5, <2>6, <2>7 DEF Setup
<1>2. CASE ~Setup
  BY <1>2, SetupKept DEF setupvars
<1> QED
  BY <1>1, <1>2

\* Conns are opened and closed, and keep being conns.
LEMMA ConnTypeStep ==
    ASSUME ConnType, [Next]_vars
    PROVE  ConnType'
<1> USE DEF ConnType, Conn, Err, None
<1>1. CASE Configure \/ Prebind \/ Start
  BY <1>1 DEF Configure, Prebind, Start, livevars
<1>2. CASE Connect \/ RelayAddr
  BY <1>2 DEF Connect, ConnectFails, RelayAddr, RelayFails, Closed, livevars
<1>3. CASE DialRelay \/ ListenRelay
  BY <1>3 DEF DialRelay, ListenRelay, RelayFails, Closed, livevars
<1>4. CASE NewUDPConn
  BY <1>4 DEF NewUDPConn
<1>5. CASE ~Setup
  BY <1>5, SetupKept
  DEF Next, vars, ControlEnds, Watch, WatchRead, WatchLock, WatchCloseRelay, WatchDone, Reason,
      Swap, CloseStep, CloseLock, CloseControl, CloseRelay, CloseWait, Forget, Begin, RLock,
      WLock, CallStep, ReadRelay, Copy, WriteRelay, IoErr, Explain, conns, shared
<1> QED
  BY <1>1, <1>2, <1>3, <1>4, <1>5 DEF Setup

\* The flags are set and cleared.
LEMMA FlagTypeStep ==
    ASSUME FlagType, [Next]_vars
    PROVE  FlagType'
<1> USE DEF FlagType
<1>1. CASE Setup
  <2>1. CASE Start \/ NewUDPConn
    BY <2>1 DEF Start, NewUDPConn
  <2>2. CASE Configure \/ Prebind \/ Connect \/ RelayAddr \/ DialRelay \/ ListenRelay
    <3>1. UNCHANGED <<livevars, ipTarget, dead>>
      BY <2>2 DEF Configure, Prebind, Connect, RelayAddr, DialRelay, ListenRelay
    <3>2. pc' \in {pc, TRUE, FALSE}
      BY <2>2 DEF Configure, Prebind, Connect, RelayAddr, DialRelay, ListenRelay
    <3> QED
      BY <3>1, <3>2 DEF livevars, refvars
  <2> QED
    BY <1>1, <2>1, <2>2 DEF Setup
<1>2. CASE ~Setup
  <2>1. UNCHANGED kindvars
    BY <1>2, SetupKept
  <2>2. /\ done' \in {done, TRUE} /\ ctlEnd' \in {ctlEnd, TRUE} /\ closed' \in {closed, TRUE}
        /\ reachable' \in {reachable, FALSE} /\ cleanup' \in {cleanup, FALSE}
    BY <1>2
    DEF Next, vars, ControlEnds, Watch, WatchRead, WatchLock, WatchCloseRelay, WatchDone, Swap,
        CloseStep, CloseLock, CloseControl, CloseRelay, CloseWait, Forget, Begin, RLock, WLock,
        CallStep, ReadRelay, Copy, WriteRelay, IoErr, Explain, refvars, shared
  <2> QED
    BY <2>1, <2>2 DEF kindvars
<1> QED
  BY <1>1, <1>2

\* A caller of close goes on or stays.
LEMMA CloserTypeStep ==
    ASSUME CloserType, [Next]_vars
    PROVE  CloserType'
<1> USE DEF CloserType
<1>1. CASE UNCHANGED cpc
  BY <1>1
<1>2. ASSUME NEW c \in Closers \cup {Cleanup}, Swap(c) \/ CloseStep(c)
      PROVE  CloserType'
  BY <1>2 DEF Swap, CloseStep, CloseLock, CloseControl, CloseRelay, CloseWait, GoClose
<1> QED
  BY <1>1, <1>2, LiveKept
  DEF Next, vars, ControlEnds, Watch, WatchRead, WatchLock, WatchCloseRelay, WatchDone,
      Forget, Begin, RLock, WLock, CallStep, ReadRelay, Copy, WriteRelay, IoErr, Explain, shared

\* Only calls touch the calls' variables.
LEMMA CallsKept ==
    ASSUME [Next]_vars, ~\E t \in Threads : Begin(t) \/ RLock(t) \/ WLock(t) \/ CallStep(t)
    PROVE  UNCHANGED callvars
BY LiveKept
DEF Next, vars, ControlEnds, Watch, WatchRead, WatchLock, WatchCloseRelay, WatchDone, Swap,
    CloseStep, CloseLock, CloseControl, CloseRelay, CloseWait, Forget

\* Calls leave everything else alone.
LEMMA SharedKept ==
    ASSUME NEW t \in Threads, Begin(t) \/ RLock(t) \/ WLock(t) \/ CallStep(t)
    PROVE  UNCHANGED shared
BY DEF Begin, RLock, WLock, CallStep, ReadRelay, Copy, WriteRelay, IoErr, Explain

\* A mutex is free or held by a call that is inside it.
LEMMA CallTypeStep ==
    ASSUME ConnType, CallType, Calls, [Next]_vars
    PROVE  CallType'
<1> USE UDPConnAssumption DEF CallType, None, GoCall
<1>1. ASSUME NEW t \in Threads, Begin(t) PROVE CallType'
  BY <1>1 DEF Begin
<1>2. ASSUME NEW t \in Threads, RLock(t) \/ WLock(t) PROVE CallType'
  BY <1>2 DEF RLock, WLock
<1>3. ASSUME NEW t \in Threads, ReadRelay(t) PROVE CallType'
  <2>1. /\ tpc[t] = "read" /\ UNCHANGED <<seen, rmu, wmu, wbuf>> /\ rmu = t
        /\ \E p \in {"read", "copy", "ioErr"} : tpc' = [tpc EXCEPT ![t] = p]
    <3>1. tpc = [tpc EXCEPT ![t] = tpc[t]]
      OBVIOUS
    <3> QED
      BY <1>3, <3>1 DEF ReadRelay, Fails, Calls
  <2>2. rbuf' \in Datagrams \cup {NoDatagram}
    BY <1>3 DEF ReadRelay
  <2>3. raw' \in [Threads -> Raw]
    BY <1>3 DEF ReadRelay, Fails, Raw
  <2> QED
    BY <2>1, <2>2, <2>3
<1>4. ASSUME NEW t \in Threads, Copy(t) PROVE CallType'
  BY <1>4 DEF Copy
<1>5. ASSUME NEW t \in Threads, WriteRelay(t) PROVE CallType'
  <2>1. /\ tpc[t] = "write" /\ UNCHANGED <<seen, rmu, rbuf>> /\ wmu' = None /\ wbuf' = None
        /\ \E p \in {"idle", "ioErr"} : tpc' = [tpc EXCEPT ![t] = p]
    BY <1>5 DEF WriteRelay, Fails
  <2>2. raw' \in [Threads -> Raw]
    BY <1>5 DEF WriteRelay, Fails, Raw
  <2> QED
    BY <2>1, <2>2
<1>6. ASSUME NEW t \in Threads, IoErr(t), err \in Err PROVE CallType'
  BY <1>6 DEF IoErr
<1>7. ASSUME NEW t \in Threads, Explain(t) PROVE CallType'
  BY <1>7 DEF Explain, Raw, Err
<1>8. CASE UNCHANGED callvars
  BY <1>8 DEF callvars
<1> QED
  BY <1>1, <1>2, <1>3, <1>4, <1>5, <1>6, <1>7, <1>8, CallsKept DEF CallStep, ConnType

-----------------------------------------------------------------------------
(* The setup.                                                              *)

\* Every step closes what the steps before it opened, or hands it on.
LEMMA OpenedStep ==
    ASSUME SetupType, ConnType, Opened, Quiet, [Next]_vars
    PROVE  Opened'
<1> USE DEF Opened, None
<1>1. CASE Configure \/ Prebind
  BY <1>1 DEF SetupType, Configure, NewConn, Prebind, NothingOpen, setupvars
<1>2. CASE Connect
  BY <1>2 DEF SetupType, Connect, ConnectFails, Closed, NothingOpen
<1>3. CASE RelayAddr
  BY <1>3 DEF SetupType, RelayAddr, RelayFails, Closed, NothingOpen
<1>4. CASE DialRelay
  BY <1>4 DEF SetupType, DialRelay, RelayFails, Closed, NothingOpen
<1>5. CASE ListenRelay
  BY <1>5 DEF SetupType, ListenRelay, RelayFails, Closed, NothingOpen
<1>6. CASE Start \/ NewUDPConn
  BY <1>6 DEF Start, NewUDPConn
<1>7. CASE ~Setup
  <2>1. UNCHANGED <<apc, pre, d>>
    BY <1>7, SetupKept DEF setupvars
  <2>2. apc = "live" \/ UNCHANGED <<control, sock>>
    BY <1>7
    DEF Quiet, Next, vars, ControlEnds, Watch, WatchRead, WatchLock, WatchCloseRelay, WatchDone,
        Swap, CloseStep, CloseLock, CloseControl, CloseRelay, CloseWait, Forget, Begin, RLock,
        WLock, CallStep, ReadRelay, Copy, WriteRelay, IoErr, Explain, shared
  <2> QED
    BY <2>1, <2>2 DEF NothingOpen
<1> QED
  BY <1>1, <1>2, <1>3, <1>4, <1>5, <1>6, <1>7 DEF Setup

\* The goroutines start with the UDPConn.
LEMMA QuietStep ==
    ASSUME SetupType, Opened, Quiet, [Next]_vars
    PROVE  Quiet'
<1>1. CASE Setup
  <2>1. apc' = "live" \/ UNCHANGED <<dead, err, done, wpc>>
    BY <1>1 DEF Setup, Configure, Prebind, Connect, RelayAddr, DialRelay, ListenRelay, Start,
                NewUDPConn, livevars
  <2>2. apc # "live"
    BY <1>1 DEF Setup, Configure, Prebind, Connect, RelayAddr, DialRelay, ListenRelay, Start,
                NewUDPConn
  <2> QED
    BY <1>1, <2>1, <2>2, LiveKept DEF Quiet, callvars
<1>2. CASE ~Setup /\ apc = "live"
  BY <1>2, SetupKept DEF Quiet
<1>3. CASE ~Setup /\ apc # "live"
  BY <1>3
  DEF Quiet, Next, vars, ControlEnds, Watch, WatchRead, WatchLock, WatchCloseRelay, WatchDone,
      Swap, CloseStep, CloseLock, CloseControl, CloseRelay, CloseWait, Forget, Begin, RLock,
      WLock, CallStep, ReadRelay, Copy, WriteRelay, IoErr, Explain, kindvars, callvars, None
<1> QED
  BY <1>1, <1>2, <1>3

\* Each way to an address is checked.
LEMMA VettedStep ==
    ASSUME SetupType, Opened, Vetted, [Next]_vars
    PROVE  Vetted'
<1>1. CASE RelayAddr
  <2>1. PICK ips \in Answers \cup {<<>>} :
          /\ found' = ips
          /\ apc' = "open" =>
               /\ ra' = Substitute(ips)
               /\ ra' = Name \/ (ra' \in IPs /\ CheckRelay(ra'))
    BY <1>1 DEF RelayAddr, RelayFails
  <2>2. apc' \in {"open", "failed"} /\ UNCHANGED <<d, bound, peer>> /\ d \in DialerType
    BY <1>1, UDPConnAssumption DEF RelayAddr, RelayFails, Opened
  <2>3. ASSUME apc' = "open", WantsIPv4'
        PROVE  ra' \in IPv4 \/ (ra' = Name /\ d'.relayDial)
    <3>1. bound \in Any \cap IPv4 /\ d.proxy = Name /\ At(ips, IPv4) # {}
      BY <2>1, <2>2, <2>3 DEF WantsIPv4, At
    <3>2. peer \in IPs \cup {NoIP}
      BY DEF SetupType
    <3> QED
      BY <2>1, <2>2, <2>3, <3>1, <3>2, SubstituteIPv4
  <2>4. ASSUME apc' = "open", ra' \in IPs PROVE CheckRelay(ra)'
    <3>1. CheckRelay(ra')
      BY <2>1, <2>4, UDPConnAssumption
    <3> QED
      BY <2>2, <3>1 DEF CheckRelay, ProxyIP
  <2> QED
    BY <2>1, <2>2, <2>3, <2>4 DEF Vetted
<1>2. CASE DialRelay
  <2>1. apc = "open" /\ apc' \in {"opened", "failed"} /\ UNCHANGED <<d, bound, peer, ra, found>>
    BY <1>2 DEF DialRelay, RelayFails
  <2>2. apc' = "opened" => relayIP' \in (IF ra = Name THEN IPs ELSE {ra}) /\ RelayControl(relayIP')
    BY <1>2 DEF DialRelay, RelayFails
  <2>3. CheckRelay(ra)' <=> CheckRelay(ra)
    BY <2>1 DEF CheckRelay, ProxyIP
  <2>4. CheckRelay(relayIP)' <=> CheckRelay(relayIP')
    BY <2>1 DEF CheckRelay, ProxyIP
  <2>5. WantsIPv4' <=> WantsIPv4
    BY <2>1 DEF WantsIPv4, At
  <2> QED
    BY <2>1, <2>2, <2>3, <2>4, <2>5, UDPConnAssumption DEF Vetted, RelayControl
<1>3. CASE ListenRelay
  <2>1. apc = "open" /\ apc' \in {"opened", "failed"} /\ UNCHANGED <<d, bound, peer, ra, found>>
    BY <1>3 DEF ListenRelay, RelayFails
  <2>2. apc' = "opened" =>
          \E ips \in Answers \cup {<<>>} : ListenIP(ips) # NoIP /\ relayIP' = ListenIP(ips)
    BY <1>3 DEF ListenRelay, RelayFails
  <2>3. CheckRelay(ra)' <=> CheckRelay(ra)
    BY <2>1 DEF CheckRelay, ProxyIP
  <2>4. CheckRelay(relayIP)' <=> CheckRelay(relayIP')
    BY <2>1 DEF CheckRelay, ProxyIP
  <2>5. WantsIPv4' <=> WantsIPv4
    BY <2>1 DEF WantsIPv4, At
  <2>6. ASSUME apc' = "opened"
        PROVE  /\ relayIP' \in IPs /\ (ra \in IPs => relayIP' = ra)
               /\ ra = Name => CheckRelay(relayIP')
    <3>1. PICK ips \in Answers \cup {<<>>} : ListenIP(ips) # NoIP /\ relayIP' = ListenIP(ips)
      BY <2>2, <2>6
    <3>2. ips # <<>> => ips[1] \in IPs
      BY UDPConnAssumption
    <3> QED
      BY <2>1, <3>1, <3>2, UDPConnAssumption DEF ListenIP, Vetted
  <2> QED
    BY <2>1, <2>3, <2>4, <2>5, <2>6 DEF Vetted
<1>4. CASE Configure \/ Prebind \/ Connect \/ Start \/ NewUDPConn
  BY <1>4 DEF Configure, NewConn, Prebind, Connect, Start, NewUDPConn, Vetted
<1>5. CASE ~Setup
  BY <1>5, SetupKept DEF Vetted, WantsIPv4, At, CheckRelay, ProxyIP, setupvars
<1> QED
  BY <1>1, <1>2, <1>3, <1>4, <1>5 DEF Setup

-----------------------------------------------------------------------------
(* The end of a UDPConn.                                                   *)

\* The reason comes first, then the control conn, then the relay.
LEMMA EndingStep ==
    ASSUME SetupType, ConnType, CloserType, Opened, Quiet, Ending, [Next]_vars
    PROVE  Ending'
<1>1. CASE Setup
  <2>1. CASE NewUDPConn
    <3>1. err = "nil" /\ ~done /\ ~dead /\ wpc = None /\ pre = None
      BY <2>1 DEF NewUDPConn, Quiet, Opened
    <3>2. \A c \in Closers \cup {Cleanup} : cpc'[c] = "idle"
      BY <2>1 DEF NewUDPConn, Quiet
    <3> QED
      BY <2>1, <3>1, <3>2 DEF NewUDPConn, Ending, None
  <2>2. CASE Start
    <3>1. /\ err = "nil" /\ ~done /\ ~dead /\ control = "open" /\ sock = "open"
          /\ wpc' = "read" /\ UNCHANGED <<err, done, dead, control, sock>>
      BY <2>2 DEF Start, Quiet, Opened
    <3>2. \A c \in Closers \cup {Cleanup} : cpc'[c] = "idle"
      BY <2>2 DEF Start, Quiet
    <3> QED
      BY <3>1, <3>2 DEF Ending, None
  <2>3. CASE ~NewUDPConn /\ ~Start
    <3>1. apc # "live" /\ apc' # "live" /\ UNCHANGED <<dead, livevars>>
      BY <1>1, <2>3 DEF Setup, Configure, NewConn, Prebind, Connect, RelayAddr, RelayFails,
                        DialRelay, ListenRelay
    <3>2. /\ ~dead' /\ err' = "nil" /\ ~done' /\ wpc' = None
          /\ \A c \in Closers \cup {Cleanup} : cpc'[c] = "idle"
      BY <3>1 DEF Quiet, livevars
    <3> QED
      BY <3>1, <3>2 DEF Ending, None
  <2> QED
    BY <2>1, <2>2, <2>3
<1>2. CASE ~Setup /\ apc = "live"
  <2>0. pre = None /\ UNCHANGED <<apc, pre, kindvars>>
    BY <1>2, SetupKept DEF Opened
  <2> USE <1>2, <2>0 DEF Ending, None, NothingOpen, kindvars
  <2>1. CASE ControlEnds \/ Watch
    BY <2>1 DEF ControlEnds, Watch, WatchRead, WatchLock, WatchCloseRelay, WatchDone, Reason, refvars
  <2>2. ASSUME NEW c \in Closers \cup {Cleanup}, Swap(c) PROVE Ending'
    BY <2>2 DEF Swap, GoClose, CloserType
  <2>3. ASSUME NEW c \in Closers \cup {Cleanup}, CloseLock(c) PROVE Ending'
    BY <2>3 DEF CloseLock, GoClose, CloserType, Reason
  <2>4. ASSUME NEW c \in Closers \cup {Cleanup}, CloseControl(c) \/ CloseRelay(c) PROVE Ending'
    BY <2>4 DEF CloseControl, CloseRelay, GoClose, CloserType
  <2>5. ASSUME NEW c \in Closers \cup {Cleanup}, CloseWait(c) PROVE Ending'
    BY <2>5 DEF CloseWait, GoClose, CloserType
  <2>6. CASE UNCHANGED <<control, sock, err, done, ctlEnd, wpc, cpc>>
    BY <2>6
  <2> QED
    BY <2>1, <2>2, <2>3, <2>4, <2>5, <2>6, SharedKept
    DEF Next, vars, CloseStep, Forget, shared
<1>3. CASE ~Setup /\ apc # "live"
  <2>1. UNCHANGED <<apc, dead, err, done, wpc, cpc, control, sock, ctlEnd>>
    BY <1>3, SetupKept
    DEF Quiet, Next, vars, ControlEnds, Watch, WatchRead, WatchLock, WatchCloseRelay, WatchDone,
        Swap, CloseStep, CloseLock, CloseControl, CloseRelay, CloseWait, Forget, Begin, RLock,
        WLock, CallStep, ReadRelay, Copy, WriteRelay, IoErr, Explain, kindvars, shared, None
  <2>2. UNCHANGED pre
    BY <1>3, SetupKept
  <2> QED
    BY <2>1, <2>2 DEF Ending, NothingOpen
<1> QED
  BY <1>1, <1>2, <1>3

-----------------------------------------------------------------------------
(* The calls.                                                              *)

\* Nothing takes a reason back.
LEMMA ReasonStays ==
    ASSUME [Next]_vars, apc = "live", err # "nil"
    PROVE  err' # "nil"
BY DEF Next, vars, Setup, Configure, Prebind, Connect, RelayAddr, DialRelay, ListenRelay, Start,
       NewUDPConn, ControlEnds, Watch, WatchRead, WatchLock, WatchCloseRelay, WatchDone, Reason,
       Swap, CloseStep, CloseLock, CloseControl, CloseRelay, CloseWait, Forget, Begin, RLock,
       WLock, CallStep, ReadRelay, Copy, WriteRelay, IoErr, Explain, shared

\* Each buffer belongs to the call that holds its mutex, and the socket is closed
\* only after the reason is there to be read.
LEMMA CallsStep ==
    ASSUME ConnType, CallType, Quiet, Ending, Calls, [Next]_vars
    PROVE  Calls'
<1>1. ASSUME NEW t \in Threads, Begin(t) \/ RLock(t) \/ WLock(t) \/ CallStep(t)
      PROVE  Calls'
  <2>0. /\ apc = "live" /\ UNCHANGED <<ipTarget, err, sock>>
        /\ sock = "closed" => err # "nil"
    <3>1. apc = "live"
      BY <1>1 DEF Quiet, Begin, RLock, WLock, CallStep, ReadRelay, Copy, WriteRelay, IoErr, Explain
    <3> QED
      BY <1>1, <3>1, SharedKept DEF shared, conns, kindvars, Ending
  <2> USE <2>0, UDPConnAssumption DEF Calls, CallType, GoCall, None, Dropped
  <2>1. CASE Begin(t)
    BY <2>1 DEF Begin
  <2>2. CASE RLock(t)
    BY <2>2 DEF RLock
  <2>3. CASE WLock(t)
    BY <2>3 DEF WLock
  <2>4. CASE ReadRelay(t)
    <3>1. rmu = t /\ UNCHANGED <<rmu, wmu, wbuf, seen>> /\ tpc[t] = "read"
      BY <2>4 DEF ReadRelay
    <3>2. \A o \in Threads : o # t => tpc[o] \notin {"read", "copy"}
      BY <3>1
    <3>3. CASE UNCHANGED <<rbuf, tpc, raw>>
      BY <3>1, <3>3
    <3>4. ASSUME NEW g \in Datagrams, FromRelay(g), ~Dropped(g),
                 rbuf' = g, tpc' = [tpc EXCEPT ![t] = "copy"], UNCHANGED raw
          PROVE  Calls'
      BY <3>1, <3>2, <3>4 DEF FromRelay
    <3>5. CASE Fails(t) /\ UNCHANGED rbuf
      BY <3>1, <3>2, <3>5 DEF Fails
    <3> QED
      BY <2>4, <3>3, <3>4, <3>5 DEF ReadRelay
  <2>5. CASE Copy(t)
    BY <2>5 DEF Copy
  <2>6. CASE WriteRelay(t)
    BY <2>6 DEF WriteRelay, Fails
  <2>7. CASE IoErr(t)
    BY <2>7 DEF IoErr
  <2>8. CASE Explain(t)
    BY <2>8 DEF Explain
  <2> QED
    BY <1>1, <2>1, <2>2, <2>3, <2>4, <2>5, <2>6, <2>7, <2>8 DEF CallStep
<1>2. CASE ~\E t \in Threads : Begin(t) \/ RLock(t) \/ WLock(t) \/ CallStep(t)
  <2>1. UNCHANGED callvars
    BY <1>2, CallsKept
  <2>2. CASE apc = "live"
    <3>1. ipTarget' = ipTarget
      BY <2>2, SetupKept DEF kindvars, Setup, Configure, Prebind, Connect, RelayAddr, DialRelay,
                             ListenRelay, Start, NewUDPConn
    <3> QED
      BY <2>1, <2>2, <3>1, ReasonStays DEF Calls, callvars, Dropped
  <2>3. CASE apc # "live"
    BY <2>1, <2>3 DEF Calls, callvars, Quiet
  <2> QED
    BY <2>2, <2>3
<1> QED
  BY <1>1, <1>2

-----------------------------------------------------------------------------
(* The theorems.                                                           *)

\* Before anything is opened, the invariant holds.
LEMMA IndInvInit == Init => IndInv
<1> SUFFICES ASSUME Init PROVE IndInv
  OBVIOUS
<1>1. TypeOK
  <2>1. SetupType
    BY DEF Init, SetupType
  <2>2. ConnType /\ FlagType
    BY DEF Init, ConnType, FlagType, Conn, Err, None
  <2>3. CloserType /\ CallType
    BY DEF Init, CloserType, CallType, Raw, Err, None
  <2> QED
    BY <2>1, <2>2, <2>3, TypeParts
<1>2. Opened /\ Quiet /\ Vetted
  BY DEF Init, Opened, Quiet, Vetted, None
<1>3. Ending
  BY DEF Init, Ending, None
<1>4. Calls
  BY DEF Init, Calls
<1> QED
  BY <1>1, <1>2, <1>3, <1>4 DEF IndInv

\* Every step of the setup, of the UDPConn's goroutines and of its callers
\* preserves the invariant.
LEMMA IndInvStep == IndInv /\ [Next]_vars => IndInv'
<1> SUFFICES ASSUME IndInv, [Next]_vars PROVE IndInv'
  OBVIOUS
<1>1. SetupType /\ ConnType /\ FlagType /\ CloserType /\ CallType
  BY TypeParts DEF IndInv
<1>2. SetupType' /\ ConnType' /\ FlagType' /\ CloserType' /\ CallType'
  BY <1>1, SetupTypeStep, ConnTypeStep, FlagTypeStep, CloserTypeStep, CallTypeStep DEF IndInv
<1>3. TypeOK'
  BY <1>2, ZenonT(60) DEF TypeOK, SetupType, ConnType, FlagType, CloserType, CallType
<1>4. Opened' /\ Quiet' /\ Vetted'
  BY <1>1, OpenedStep, QuietStep, VettedStep DEF IndInv
<1>5. Ending' /\ Calls'
  BY <1>1, EndingStep, CallsStep DEF IndInv
<1> QED
  BY <1>3, <1>4, <1>5 DEF IndInv

\* The inductive invariant holds.
THEOREM Invariance == Spec => []IndInv
BY IndInvInit, IndInvStep, PTL DEF Spec

\* The variables keep their types, and a mutex is held by a call inside it.
THEOREM TypeCorrect == Spec => []TypeOK
<1>1. IndInv => TypeOK
  BY DEF IndInv
<1> QED
  BY <1>1, Invariance, PTL

\* The relay's address obeys the policy, whichever way it was found.
THEOREM RelayAddress == Spec => []RelayVetted
<1>1. IndInv => RelayVetted
  <2> SUFFICES ASSUME IndInv, apc = "opened", ~(d.relayDial /\ ra = Name)
               PROVE  /\ relayIP # ProxyIP =>
                           /\ relayIP \notin Any \cup Group
                           /\ \/ Scope[relayIP] = 3
                              \/ ProxyIP # NoIP /\ Scope[ProxyIP] <= Scope[relayIP]
                      /\ WantsIPv4 => relayIP \in IPv4
    BY DEF RelayVetted, WantsIPv4
  <2>1. relayIP \in IPs /\ CheckRelay(relayIP)
    BY DEF IndInv, Vetted
  <2>2. Scope[relayIP] \in 0 .. 3
    BY <2>1, UDPConnAssumption
  <2>3. WantsIPv4 => relayIP \in IPv4
    BY UDPConnAssumption DEF IndInv, Vetted
  <2>4. CASE ProxyIP = NoIP
    BY <2>1, <2>2, <2>3, <2>4 DEF CheckRelay
  <2>5. CASE ProxyIP # NoIP
    <3>1. Scope[ProxyIP] \in 0 .. 3
      BY <2>5, UDPConnAssumption DEF IndInv, TypeOK, ProxyIP
    <3> QED
      BY <2>1, <2>2, <2>3, <2>5, <3>1 DEF CheckRelay
  <2> QED
    BY <2>4, <2>5
<1> QED
  BY <1>1, Invariance, PTL

\* No conn is left open by a setup that failed or a Close that returned.
THEOREM NothingLeaks == Spec => []NoneLeftOpen
<1>1. IndInv => NoneLeftOpen
  BY DEF IndInv, Opened, Ending, NoneLeftOpen
<1> QED
  BY <1>1, Invariance, PTL

\* Calls return the relay's datagrams and true errors.
THEOREM CallsTrue == Spec => []ResultsTrue
<1>1. IndInv => ResultsTrue
  <2> SUFFICES ASSUME IndInv PROVE ResultsTrue
    OBVIOUS
  <2>1. ASSUME NEW t \in Threads, tpc[t] = "explain" PROVE Result(t) # "useClosed"
    <3>1. seen[t] \in Err /\ closed \in BOOLEAN
      BY DEF IndInv, TypeOK
    <3> QED
      BY <2>1, <3>1 DEF IndInv, Calls, Result, Err
  <2> QED
    BY <2>1 DEF IndInv, Ending, Calls, ResultsTrue
<1> QED
  BY <1>1, Invariance, PTL

=============================================================================
