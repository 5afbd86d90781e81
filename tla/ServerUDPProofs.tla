-------------------------- MODULE ServerUDPProofs --------------------------
(***************************************************************************)
(* Proofs about ServerUDP, for every set of IPs, names and ports, every    *)
(* Filter, every configuration of the handler and every clock.             *)
(***************************************************************************)
EXTENDS ServerUDP, TLAPS, FiniteSetTheorems

-----------------------------------------------------------------------------
(* The inductive invariant.                                                *)

\* A verdict is the Filter's, and an IP that is let in has an allowed target.
Verdicts ==
    /\ \A t \in Targets : targets[t] = "ok" => t \in Allowed /\ t[1] \in ips
    /\ \A ip \in ips : \E t \in Allowed : t[1] = ip /\ targets[t] = "ok"

\* The datagram up has: it came from the locked port, if there was one.
OneJob ==
    /\ upc \in {"header", "resolve", "admit", "forward", "write"} =>
         job.hdr \in Headers /\ job.port \in Ports
    /\ upc \in {"header", "resolve", "admit", "forward"} =>
         job.lock = clientPort /\ RightPort(job.port)
    /\ upc = "write" => job.port = clientPort

\* A lookup under way: of a name with no current entry, within its timeout.
Lookup ==
    upc = "resolve" =>
        /\ job.hdr[1] \in Names
        /\ job.at <= now /\ now <= job.at + LookupTimeout
        /\ names[job.hdr[1]].known => names[job.hdr[1]].exp <= job.at

\* What admit is given, and what forward has: the host's current IP.
Judged ==
    upc \in {"admit", "forward", "write"} =>
        /\ job.hdr[1] \in Names =>
             /\ names[job.hdr[1]].known
             /\ names[job.hdr[1]].ip = job.ip
             /\ now < names[job.hdr[1]].exp
        /\ job.hdr[1] \in IPs => job.ip = job.hdr[1]
        /\ upc = "admit" =>
             job.exp = IF job.hdr[1] \in Names THEN names[job.hdr[1]].exp ELSE Forever
        /\ upc # "admit" => Dst \in Targets /\ targets[Dst] = "ok"

\* The previous header's verdict, while it lasts, is the one judge would give.
PrevCurrent ==
    now < prev.exp =>
        LET host == prev.hdr[1]
            ip == IF host \in Names THEN names[host].ip ELSE host
        IN /\ prev.hdr \in Headers
           /\ host \in Names => names[host].known /\ names[host].exp = prev.exp
           /\ ip \in Errors => prev.err = ip
           /\ ip \in IPs =>
                /\ prev.dst = <<ip, prev.hdr[2]>>
                /\ prev.err = "nil" <=> targets[prev.dst] = "ok"

\* What went out went to a judged target, from the locked port.
Sent == \A m \in reached : clientPort # 0 /\ m[1] = clientPort /\ targets[m[2]] = "ok"

\* What came in came to the locked port, from a target that is let in.
Answered ==
    /\ dport # 0 => dport = clientPort
    /\ dpc \in {"check", "write"} => dfrom \in Targets
    /\ dpc = "write" => dport # 0 /\ Solicited(dfrom)
    /\ \A m \in got : clientPort # 0 /\ m[1] = clientPort /\ Solicited(m[2])

\* The clock of an association whose sockets are open.
Timely ==
    /\ wpc = "read" => wdl <= lastMove + cfg.idle
    /\ wpc = "wait" => open = {}
    /\ wpc \in {"arm", "read"} => now <= lastMove + cfg.idle

JudgedTargets == {t \in Targets : targets[t] # "unknown"}
KnownNames == {x \in Names : names[x].known}

\* The entries of targets and names.  A lookup has its entry's room.
Room ==
    /\ IsFiniteSet(JudgedTargets) /\ IsFiniteSet(KnownNames)
    /\ Size <= cfg.maxTargets
    /\ upc = "resolve" /\ ~names[job.hdr[1]].known => Size < cfg.maxTargets

IndInv ==
    /\ TypeOK /\ Verdicts /\ OneJob /\ Lookup /\ Judged /\ PrevCurrent
    /\ Sent /\ Answered /\ Timely /\ Room

-----------------------------------------------------------------------------
(* Types.                                                                  *)

\* The values records start with have their types.
LEMMA TypeInit == Init => TypeOK
<1> SUFFICES ASSUME Init PROVE TypeOK
  OBVIOUS
<1> USE UDPAssumption DEF ConfigType, NoEntry, NoVerdict, NoJob, None, Errors, Forever
<1>1. cfg \in Configs /\ cfg.idle \in Nat /\ now \in 0 .. MaxNow /\ lastMove \in 0 .. now
  BY DEF Init
<1>2. clientPort \in Ports \cup {0} /\ ips \subseteq IPs
  BY DEF Init
<1>3. targets \in [Targets -> {"unknown", "ok", "denied"}]
  BY DEF Init
<1>4. names \in [Names -> EntryType]
  BY DEF Init, EntryType
<1>5. prev \in VerdictType
  BY DEF Init, VerdictType
<1>6. job \in JobType
  BY DEF Init, JobType
<1>7. open \subseteq {"client", "target"} /\ upc = "read" /\ dpc = "read" /\ wpc = "arm"
  BY DEF Init
<1>8. dfrom \in Targets \cup {None} /\ dport \in Ports \cup {0} /\ wdl \in 0 .. MaxNow + cfg.idle
  BY <1>1 DEF Init
<1>9. returned \in BOOLEAN /\ reached \subseteq Ports \X Targets /\ got \subseteq Ports \X Targets
  BY DEF Init
<1> QED
  BY <1>1, <1>2, <1>3, <1>4, <1>5, <1>6, <1>7, <1>8, <1>9 DEF TypeOK

\* The next datagram starts from an empty job.
LEMMA NoJobType == NoJob \in JobType
BY UDPAssumption DEF NoJob, Errors, Forever, JobType

\* The steps of up keep the types.
LEMMA TypeUp ==
    ASSUME TypeOK, OneJob, Lookup, Judged, PrevCurrent, UpRead \/ Up
    PROVE  TypeOK'
<1> USE UDPAssumption, NoJobType DEF judgevars, downvars, watchvars
<1>0. job \in JobType /\ NoJob \in JobType
  BY DEF TypeOK
<1>1. CASE UpRead
  <2>1. PICK p \in Ports, hdr \in Headers :
          job' = [port |-> p, hdr |-> hdr, ip |-> "failed", lock |-> clientPort, at |-> 0, exp |-> 0]
    BY <1>1 DEF UpRead, NoJob
  <2>2. job' \in JobType
    BY <2>1 DEF JobType, TypeOK, Errors, Forever
  <2> QED
    BY <1>1, <2>2 DEF UpRead, GoUp, TypeOK
<1>2. CASE UpHeader
  <2>1. job.hdr \in Headers
    BY <1>2 DEF UpHeader, OneJob
  <2>2. CASE PrevMatches
    <3>1. CASE PrevPasses
      <4>1. /\ prev.dst \in Targets
            /\ prev.dst[2] = job.hdr[2]
        <5> DEFINE host == prev.hdr[1]
                   ip == IF host \in Names THEN names[host].ip ELSE host
        <5>1. host \in IPs \cup Names
          BY <2>1, <2>2 DEF PrevMatches, Headers
        <5>2. ip \in IPs \cup Errors /\ prev.err \notin Errors
          BY <3>1, <5>1 DEF TypeOK, EntryType, PrevPasses, Errors
        <5>3. prev.dst = <<ip, prev.hdr[2]>> /\ ip \in IPs /\ prev.hdr = job.hdr
          BY <2>2, <5>2 DEF PrevCurrent, PrevMatches
        <5> QED
          BY <2>1, <5>3 DEF Headers, Targets
      <4>2. prev.dst[1] \in IPs
        BY <4>1 DEF Targets
      <4>3. job' = [job EXCEPT !.ip = prev.dst[1]] /\ upc' = "forward"
        BY <1>2, <2>2, <3>1 DEF UpHeader, GoUp
      <4>4. job' \in JobType
        BY <1>0, <4>2, <4>3 DEF JobType
      <4>5. Dst' \in Targets
        BY <1>0, <4>1, <4>3 DEF JobType, Dst, Targets
      <4> QED
        BY <1>2, <4>3, <4>4, <4>5 DEF UpHeader, TypeOK
    <3>2. CASE ~PrevPasses
      BY <1>2, <2>2, <3>2 DEF UpHeader, Drop, TypeOK
    <3> QED
      BY <3>1, <3>2
  <2>3. CASE ~PrevMatches
    <3>1. job' \in JobType
      <4>1. CASE job.hdr[1] \in IPs /\ job' = [job EXCEPT !.ip = job.hdr[1], !.exp = Forever]
        <5>1. Forever \in 0 .. Forever
          BY DEF Forever
        <5> QED
          BY <1>0, <4>1, <5>1 DEF JobType
      <4>2. ASSUME job.hdr[1] \in Names,
                   job' = [job EXCEPT !.ip = names[job.hdr[1]].ip, !.exp = names[job.hdr[1]].exp]
            PROVE  job' \in JobType
        BY <1>0, <4>2 DEF JobType, TypeOK, EntryType
      <4>3. CASE job' = [job EXCEPT !.at = now]
        BY <1>0, <4>3 DEF JobType, TypeOK
      <4> QED
        BY <1>0, <1>2, <2>3, <4>1, <4>2, <4>3 DEF UpHeader, Drop
    <3>2. upc' \in {"admit", "resolve", "read"}
      BY <1>2, <2>3 DEF UpHeader, GoUp, Drop
    <3> QED
      BY <1>2, <3>1, <3>2 DEF UpHeader, TypeOK
  <2> QED
    BY <2>2, <2>3
<1>3. CASE UpResolve
  <2>1. PICK ip \in Resolved(job.hdr[2]) :
          /\ names' = [names EXCEPT ![job.hdr[1]] = [known |-> TRUE, ip |-> ip, exp |-> job.at + TTL]]
          /\ job' = [job EXCEPT !.ip = ip, !.exp = job.at + TTL]
    BY <1>3 DEF UpResolve
  <2>2. ip \in IPs \cup Errors
    BY DEF Resolved, Errors
  <2>3. job.at + TTL \in 0 .. Forever
    BY <1>0 DEF JobType, Forever
  <2>4. names' \in [Names -> EntryType]
    BY <2>1, <2>2, <2>3 DEF TypeOK, EntryType
  <2>5. job' \in JobType
    BY <1>0, <2>1, <2>2, <2>3 DEF JobType
  <2> QED
    BY <1>3, <2>4, <2>5 DEF UpResolve, GoUp, TypeOK
<1>4. CASE UpAdmit
  <2>1. job' \in JobType /\ (upc' = "forward" => job' = job)
    BY <1>0, <1>4 DEF UpAdmit, Drop, GoUp
  <2>2. ASSUME job.ip \in IPs PROVE Dst \in Targets
    BY <1>4, <2>2 DEF UpAdmit, OneJob, Dst, Targets, Headers
  <2>3. targets' \in [Targets -> {"unknown", "ok", "denied"}] /\ ips' \subseteq IPs
    BY <1>4, <2>2 DEF UpAdmit, TypeOK
  <2>4. upc' \in {"read", "forward"} /\ (upc' = "forward" => Dst' \in Targets)
    BY <1>4, <2>2 DEF UpAdmit, Drop, GoUp, Dst
  <2>5. prev' \in VerdictType
    <3>1. ASSUME NEW e \in Errors \cup {"nil"}, Remember(e) PROVE prev' \in VerdictType
      BY <1>0, <2>2, <3>1 DEF Remember, JobType, VerdictType
    <3>2. (\E e \in Errors \cup {"nil"} : Remember(e)) \/ prev' = prev
      BY <1>4 DEF UpAdmit, Errors
    <3> QED
      BY <3>1, <3>2 DEF TypeOK
  <2> QED
    BY <1>4, <2>1, <2>3, <2>4, <2>5 DEF UpAdmit, TypeOK
<1>5. CASE UpForward
  <2>1. clientPort' \in Ports \cup {0}
    BY <1>5 DEF UpForward, PortLocked, TypeOK, JobType
  <2> QED
    BY <1>5, <2>1 DEF UpForward, GoUp, TypeOK, Dst
<1>6. CASE UpWrite
  <2>1. <<job.port, Dst>> \in Ports \X Targets
    BY <1>6 DEF UpWrite, OneJob, TypeOK
  <2>2. reached' \subseteq Ports \X Targets
    BY <1>6, <2>1 DEF UpWrite, TypeOK
  <2> QED
    BY <1>6, <2>2 DEF UpWrite, Drop, TypeOK
<1>7. CASE UpEnds
  BY <1>7 DEF UpEnds, GoUp, TypeOK
<1> QED
  BY <1>1, <1>2, <1>3, <1>4, <1>5, <1>6, <1>7 DEF Up

\* The steps of down, of watchControl and of the clock keep the types.
LEMMA TypeOther ==
    ASSUME TypeOK, Answered, DownRead \/ Down \/ WatchRead \/ Watch \/ Tick \/ UNCHANGED vars
    PROVE  TypeOK'
<1> USE UDPAssumption DEF TypeOK, judgevars, upvars, downvars, watchvars, Dst
<1>1. CASE DownRead
  BY <1>1 DEF DownRead
<1>2. CASE DownCheck
  BY <1>2 DEF DownCheck
<1>3. CASE DownWrite
  <2>1. <<dport, dfrom>> \in Ports \X Targets
    BY <1>3 DEF DownWrite, Answered
  <2> QED
    BY <1>3, <2>1 DEF DownWrite
<1>4. CASE DownEnds
  BY <1>4 DEF DownEnds
<1>5. CASE WatchRead
  <2>1. open' \subseteq {"client", "target"} /\ wpc' \in {"arm", "close"}
    BY <1>5 DEF WatchRead
  <2> QED
    BY <1>5, <2>1 DEF WatchRead
<1>6. CASE WatchArm
  <2>1. cfg.idle \in Nat
    BY DEF ConfigType
  <2> QED
    BY <1>6, <2>1 DEF WatchArm, IdleDeadline
<1>7. CASE CloseSockets
  BY <1>7 DEF CloseSockets, StillOpen
<1>8. CASE Return
  BY <1>8 DEF Return
<1>9. CASE Tick
  BY <1>9 DEF Tick
<1>10. CASE UNCHANGED vars
  BY <1>10 DEF vars
<1> QED
  BY <1>1, <1>2, <1>3, <1>4, <1>5, <1>6, <1>7, <1>8, <1>9, <1>10 DEF Down, Watch

-----------------------------------------------------------------------------
(* Verdicts and the datagram up has.                                       *)

\* The steps of down, of watchControl and of the clock.
Aside == DownRead \/ Down \/ WatchRead \/ Watch \/ Tick \/ UNCHANGED vars

\* They leave up, its verdicts and what it has sent alone.
LEMMA AsideKeeps ==
    ASSUME Aside
    PROVE  UNCHANGED <<cfg, clientPort, judgevars, upvars, reached>>
BY DEF Aside, DownRead, Down, DownCheck, DownWrite, DownEnds, WatchRead, Watch, WatchArm,
       CloseSockets, Return, Tick, vars

\* The target of a job that admit is given an IP for.
LEMMA DstType ==
    ASSUME OneJob, upc = "admit", job.ip \in IPs
    PROVE  Dst \in Targets
BY DEF OneJob, Dst, Targets, Headers

\* Verdicts are the Filter's: only admit adds one, and only after vet.
LEMMA VerdictsStep ==
    ASSUME TypeOK, OneJob, Verdicts, [Next]_vars
    PROVE  Verdicts'
<1> USE UDPAssumption DEF Verdicts
<1>1. CASE UNCHANGED <<targets, ips>>
  BY <1>1
<1>2. CASE UpAdmit
  <2>1. CASE job.ip \in IPs /\ Vetted /\ targets' = [targets EXCEPT ![Dst] = "ok"]
             /\ ips' = ips \cup {job.ip}
    <3>1. Dst \in Targets /\ Dst \in Allowed /\ Dst[1] = job.ip
      BY <1>2, <2>1, DstType DEF Vetted, UpAdmit, Dst
    <3>2. targets'[Dst] = "ok" /\ \A t \in Targets : t # Dst => targets'[t] = targets[t]
      BY <2>1, <3>1 DEF TypeOK
    <3>3. \A t \in Allowed : t \in Targets
      BY DEF Targets
    <3>4. ASSUME NEW t \in Targets, targets'[t] = "ok" PROVE t \in Allowed /\ t[1] \in ips'
      BY <2>1, <3>1, <3>2, <3>4
    <3>5. ASSUME NEW ip \in ips' PROVE \E t \in Allowed : t[1] = ip /\ targets'[t] = "ok"
      BY <2>1, <3>1, <3>2, <3>3, <3>5
    <3> QED
      BY <3>4, <3>5
  <2>2. CASE job.ip \in IPs /\ targets[Dst] = "unknown" /\ UNCHANGED ips
             /\ targets' = [targets EXCEPT ![Dst] = "denied"]
    <3>1. Dst \in Targets
      BY <1>2, <2>2, DstType DEF UpAdmit
    <3>2. targets'[Dst] = "denied" /\ \A t \in Targets : t # Dst => targets'[t] = targets[t]
      BY <2>2, <3>1 DEF TypeOK
    <3>3. \A t \in Allowed : t \in Targets
      BY DEF Targets
    <3>4. \A t \in Targets : targets[t] = "ok" <=> targets'[t] = "ok"
      BY <2>2, <3>2
    <3> QED
      BY <2>2, <3>3, <3>4
  <2> QED
    BY <1>1, <1>2, <2>1, <2>2 DEF UpAdmit
<1>3. CASE Aside
  BY <1>1, <1>3, AsideKeeps DEF judgevars
<1> QED
  BY <1>1, <1>2, <1>3
  DEF Next, Up, Aside, UpRead, UpHeader, UpResolve, UpForward, UpWrite, UpEnds, judgevars

\* A datagram keeps its port and header, and the port it found locked.
LEMMA OneJobStep ==
    ASSUME TypeOK, OneJob, Lookup, [Next]_vars
    PROVE  OneJob'
<1> USE UDPAssumption
<1>0. job \in JobType /\ clientPort \in Ports \cup {0}
  BY DEF TypeOK
<1>1. CASE UpRead
  <2>1. PICK p \in Ports, hdr \in Headers :
          /\ RightPort(p)
          /\ job' = [port |-> p, hdr |-> hdr, ip |-> "failed", lock |-> clientPort, at |-> 0, exp |-> 0]
    BY <1>1 DEF UpRead, NoJob
  <2> QED
    BY <1>1, <2>1 DEF UpRead, GoUp, OneJob, RightPort
<1>2. CASE UpHeader
  <2>1. upc' = "read" \/ (job'.port = job.port /\ job'.hdr = job.hdr /\ job'.lock = job.lock)
    BY <1>0, <1>2 DEF UpHeader, Drop, JobType
  <2>2. upc' \in {"read", "resolve", "admit", "forward"}
    BY <1>2 DEF UpHeader, Drop, GoUp
  <2> QED
    BY <1>2, <2>1, <2>2 DEF UpHeader, OneJob, RightPort
<1>3. CASE UpResolve
  <2>1. job'.port = job.port /\ job'.hdr = job.hdr /\ job'.lock = job.lock
    BY <1>0, <1>3 DEF UpResolve, JobType
  <2> QED
    BY <1>3, <2>1 DEF UpResolve, GoUp, OneJob, RightPort
<1>4. CASE UpAdmit
  <2>1. upc' = "read" \/ (upc' = "forward" /\ job' = job)
    BY <1>4 DEF UpAdmit, Drop, GoUp
  <2> QED
    BY <1>4, <2>1 DEF UpAdmit, OneJob, RightPort
<1>5. CASE UpForward
  <2>1. job.lock = clientPort /\ RightPort(job.port)
    BY <1>5 DEF UpForward, OneJob
  <2>2. clientPort' = job.port
    BY <1>5, <2>1 DEF UpForward, PortLocked, RightPort
  <2> QED
    BY <1>5, <2>2 DEF UpForward, GoUp, OneJob
<1>6. CASE UpWrite \/ UpEnds
  BY <1>6 DEF UpWrite, UpEnds, Drop, GoUp, OneJob
<1>7. CASE Aside
  BY <1>7, AsideKeeps DEF upvars, OneJob, RightPort
<1> QED
  BY <1>1, <1>2, <1>3, <1>4, <1>5, <1>6, <1>7 DEF Next, Up, Aside

\* A name is looked up when it has no current entry, and a lookup ends in time.
LEMMA LookupStep ==
    ASSUME TypeOK, OneJob, Lookup, [Next]_vars
    PROVE  Lookup'
<1> USE UDPAssumption
<1>0. job \in JobType /\ now \in Nat /\ names \in [Names -> EntryType]
  BY DEF TypeOK
<1>1. CASE UpHeader
  <2>1. CASE upc' = "resolve"
    <3>1. /\ job.hdr[1] \in Names
          /\ LET e == names[job.hdr[1]] IN e.known => now >= e.exp
          /\ job' = [job EXCEPT !.at = now]
      BY <1>1, <2>1 DEF UpHeader, Drop, GoUp
    <3>2. job'.hdr = job.hdr /\ job'.at = now
      BY <1>0, <3>1 DEF JobType
    <3>3. now <= now + LookupTimeout /\ now <= now
      BY <1>0
    <3>4. names[job.hdr[1]].exp \in Int
      BY <1>0, <3>1 DEF EntryType, Forever
    <3> QED
      BY <1>0, <1>1, <3>1, <3>2, <3>3, <3>4 DEF UpHeader, Lookup, judgevars
  <2> QED
    BY <2>1 DEF Lookup
<1>2. CASE Tick
  BY <1>0, <1>2 DEF Tick, Lookup, judgevars, upvars, JobType
<1>3. CASE Aside /\ ~Tick
  <2>1. now' = now
    BY <1>3 DEF Aside, DownRead, Down, DownCheck, DownWrite, DownEnds, WatchRead, Watch, WatchArm,
                CloseSockets, Return, vars
  <2> QED
    BY <1>3, <2>1, AsideKeeps DEF Lookup, judgevars, upvars
<1>4. CASE upc' # "resolve"
  BY <1>4 DEF Lookup
<1> QED
  BY <1>1, <1>2, <1>3, <1>4
  DEF Next, Up, Aside, UpRead, UpResolve, UpAdmit, UpForward, UpWrite, UpEnds, Drop, GoUp

\* The clock only goes forward, and not while a job is judged or forwarded.
LEMMA Clock ==
    ASSUME TypeOK, [Next]_vars
    PROVE  /\ now' >= now
           /\ upc \in {"admit", "forward", "write"} => now' = now
<1>0. now \in Nat
  BY DEF TypeOK
<1>1. CASE Tick
  BY <1>0, <1>1 DEF Tick
<1>2. CASE now' = now
  BY <1>0, <1>2
<1> QED
  BY <1>1, <1>2
  DEF Next, Up, Down, Watch, vars, UpRead, UpHeader, UpResolve, UpAdmit, UpForward, UpWrite,
      UpEnds, DownRead, DownCheck, DownWrite, DownEnds, WatchRead, WatchArm, CloseSockets, Return

\* What the cached verdict of the previous header lets through.
LEMMA PrevForwards ==
    ASSUME TypeOK, OneJob, PrevCurrent, upc = "header", PrevMatches, PrevPasses
    PROVE  /\ prev.dst \in Targets /\ prev.dst[2] = job.hdr[2]
           /\ targets[prev.dst] = "ok"
           /\ job.hdr[1] \in Names =>
                /\ names[job.hdr[1]].known
                /\ names[job.hdr[1]].ip = prev.dst[1]
                /\ now < names[job.hdr[1]].exp
           /\ job.hdr[1] \in IPs => prev.dst[1] = job.hdr[1]
<1> USE UDPAssumption
<1> DEFINE host == prev.hdr[1]
           ip == IF host \in Names THEN names[host].ip ELSE host
<1>1. prev.hdr = job.hdr /\ now < prev.exp /\ prev.err = "nil" /\ job.hdr \in Headers
  BY DEF PrevMatches, PrevPasses, OneJob
<1>2. host \in IPs \cup Names /\ ~(host \in IPs /\ host \in Names)
  BY <1>1 DEF Headers
<1>3. ip \in IPs \cup Errors /\ prev.err \notin Errors
  BY <1>1, <1>2 DEF TypeOK, EntryType, Errors
<1>4. /\ ip \in IPs
      /\ prev.dst = <<ip, prev.hdr[2]>> /\ targets[prev.dst] = "ok"
      /\ host \in Names => names[host].known /\ names[host].exp = prev.exp
  BY <1>1, <1>3 DEF PrevCurrent
<1>5. prev.dst \in Targets
  BY <1>1, <1>4 DEF Targets, Headers
<1> QED
  BY <1>1, <1>2, <1>4, <1>5

\* A datagram is judged by the current IP of its host, and goes to that IP.
LEMMA JudgedStep ==
    ASSUME TypeOK, OneJob, Lookup, Judged, PrevCurrent, [Next]_vars
    PROVE  Judged'
<1> USE UDPAssumption
<1>0. /\ job \in JobType /\ now \in Nat /\ names \in [Names -> EntryType]
      /\ targets \in [Targets -> {"unknown", "ok", "denied"}]
  BY DEF TypeOK
<1>1. CASE UpHeader
  <2>0. job.hdr \in Headers /\ UNCHANGED <<now, names, targets>>
    BY <1>1 DEF UpHeader, OneJob, judgevars
  <2>1. CASE PrevMatches /\ PrevPasses
    <3>1. upc' = "forward" /\ job' = [job EXCEPT !.ip = prev.dst[1]]
      BY <1>1, <2>1 DEF UpHeader, GoUp
    <3>2. job'.ip = prev.dst[1] /\ job'.hdr = job.hdr
      BY <1>0, <3>1 DEF JobType
    <3>3. /\ prev.dst \in Targets /\ prev.dst[2] = job.hdr[2] /\ targets[prev.dst] = "ok"
          /\ job.hdr[1] \in Names =>
               /\ names[job.hdr[1]].known
               /\ names[job.hdr[1]].ip = prev.dst[1]
               /\ now < names[job.hdr[1]].exp
          /\ job.hdr[1] \in IPs => prev.dst[1] = job.hdr[1]
      BY <1>1, <2>1, PrevForwards DEF UpHeader
    <3>4. Dst' = prev.dst
      BY <3>2, <3>3 DEF Dst, Targets
    <3> QED
      BY <2>0, <3>1, <3>2, <3>3, <3>4 DEF Judged
  <2>2. CASE upc' = "admit" /\ job.hdr[1] \in IPs
             /\ job' = [job EXCEPT !.ip = job.hdr[1], !.exp = Forever]
    <3>1. job'.ip = job.hdr[1] /\ job'.hdr = job.hdr /\ job'.exp = Forever
      BY <1>0, <2>2 DEF JobType
    <3>2. job.hdr[1] \notin Names
      BY <2>2
    <3> QED
      BY <2>2, <3>1, <3>2 DEF Judged
  <2>3. CASE upc' = "admit" /\ job.hdr[1] \in Names
             /\ LET e == names[job.hdr[1]]
                IN e.known /\ now < e.exp /\ job' = [job EXCEPT !.ip = e.ip, !.exp = e.exp]
    <3>1. /\ job'.ip = names[job.hdr[1]].ip /\ job'.hdr = job.hdr
          /\ job'.exp = names[job.hdr[1]].exp
      BY <1>0, <2>3 DEF JobType
    <3>2. job.hdr[1] \notin IPs
      BY <2>3
    <3> QED
      BY <2>0, <2>3, <3>1, <3>2 DEF Judged
  <2>4. CASE upc' \in {"read", "resolve"}
    BY <2>4 DEF Judged
  <2> QED
    BY <1>1, <2>1, <2>2, <2>3, <2>4 DEF UpHeader, GoUp, Drop
<1>2. CASE UpResolve
  <2>1. PICK ip \in Resolved(job.hdr[2]) :
          /\ names' = [names EXCEPT ![job.hdr[1]] = [known |-> TRUE, ip |-> ip, exp |-> job.at + TTL]]
          /\ job' = [job EXCEPT !.ip = ip, !.exp = job.at + TTL]
    BY <1>2 DEF UpResolve
  <2>2. upc' = "admit" /\ now' = now /\ job.hdr[1] \in Names /\ now <= job.at + LookupTimeout
    BY <1>2 DEF UpResolve, GoUp, Lookup
  <2>3. job'.hdr = job.hdr /\ job'.ip = ip /\ job'.exp = job.at + TTL
    BY <1>0, <2>1 DEF JobType
  <2>4. names'[job.hdr[1]] = [known |-> TRUE, ip |-> ip, exp |-> job.at + TTL]
    BY <1>0, <2>1, <2>2
  <2>5. now < job.at + TTL
    BY <1>0, <2>2 DEF JobType
  <2>6. job.hdr[1] \notin IPs
    BY <2>2
  <2> QED
    BY <2>2, <2>3, <2>4, <2>5, <2>6 DEF Judged
<1>3. CASE UpAdmit
  <2>1. CASE upc' = "forward"
    <3>1. /\ job.ip \in IPs /\ job' = job /\ UNCHANGED <<names, now>>
          /\ \/ targets[Dst] = "ok" /\ targets' = targets
             \/ targets' = [targets EXCEPT ![Dst] = "ok"]
      BY <1>3, <2>1 DEF UpAdmit, Drop, GoUp
    <3>2. Dst \in Targets /\ Dst' = Dst
      BY <1>3, <3>1, DstType DEF UpAdmit, Dst
    <3>3. targets'[Dst'] = "ok"
      BY <1>0, <3>1, <3>2
    <3> QED
      BY <1>3, <2>1, <3>1, <3>2, <3>3 DEF Judged, UpAdmit
  <2>2. CASE upc' = "read"
    BY <2>2 DEF Judged
  <2> QED
    BY <1>3, <2>1, <2>2 DEF UpAdmit, Drop, GoUp
<1>4. CASE UpForward
  BY <1>4 DEF UpForward, GoUp, Judged, judgevars, Dst
<1>5. CASE upc' = "read" \/ upc' = "ended" \/ upc' = "header"
  BY <1>5 DEF Judged
<1>6. CASE Aside
  <2>1. UNCHANGED <<names, targets, upc, job>>
    BY <1>6, AsideKeeps DEF judgevars, upvars
  <2>2. upc \in {"admit", "forward", "write"} => now' = now
    BY Clock
  <2> QED
    BY <2>1, <2>2 DEF Judged, Dst
<1> QED
  BY <1>1, <1>2, <1>3, <1>4, <1>5, <1>6
  DEF Next, Up, Aside, UpRead, UpWrite, UpEnds, Drop, GoUp

\* While it lasts, the previous header's verdict is the one judge would give.
LEMMA PrevCurrentStep ==
    ASSUME TypeOK, OneJob, Lookup, Judged, PrevCurrent, [Next]_vars
    PROVE  PrevCurrent'
<1> USE UDPAssumption
<1>0. /\ job \in JobType /\ now \in Nat /\ now' >= now /\ names \in [Names -> EntryType]
      /\ targets \in [Targets -> {"unknown", "ok", "denied"}] /\ prev \in VerdictType
  BY Clock DEF TypeOK
<1>1. ASSUME UNCHANGED <<targets, names, prev>>, now' \in Nat PROVE PrevCurrent'
  BY <1>0, <1>1 DEF PrevCurrent, VerdictType
<1>2. CASE UpResolve
  <2>1. PICK ip \in Resolved(job.hdr[2]) :
          names' = [names EXCEPT ![job.hdr[1]] = [known |-> TRUE, ip |-> ip, exp |-> job.at + TTL]]
    BY <1>2 DEF UpResolve
  <2>2. UNCHANGED <<targets, prev, now>>
    BY <1>2 DEF UpResolve
  <2>3. /\ job.hdr[1] \in Names /\ job.at <= now
        /\ names[job.hdr[1]].known => names[job.hdr[1]].exp <= job.at
    BY <1>2 DEF UpResolve, Lookup
  <2>4. now < prev.exp => prev.hdr[1] # job.hdr[1]
    BY <1>0, <2>3 DEF PrevCurrent, VerdictType, JobType
  <2>5. \A x \in Names : x # job.hdr[1] => names'[x] = names[x]
    BY <1>0, <2>1, <2>3
  <2>6. now < prev.exp =>
          (prev.hdr[1] \in Names => names'[prev.hdr[1]] = names[prev.hdr[1]])
    BY <2>4, <2>5
  <2> QED
    BY <2>2, <2>6 DEF PrevCurrent
<1>3. CASE UpAdmit
  <2>0. UNCHANGED <<names, now>> /\ upc = "admit" /\ job.hdr \in Headers
    BY <1>3 DEF UpAdmit, OneJob
  <2> DEFINE host == job.hdr[1]
             ip == IF host \in Names THEN names[host].ip ELSE host
  <2>1. /\ host \in IPs \cup Names /\ ip = job.ip
        /\ host \in Names => names[host].known /\ job.exp = names[host].exp
    BY <2>0 DEF Judged, Headers
  <2>2. CASE job.ip \in Errors /\ Remember(job.ip) /\ UNCHANGED targets
    <3>1. prev'.hdr = job.hdr /\ prev'.err = job.ip /\ prev'.exp = job.exp
      BY <2>2 DEF Remember
    <3>2. job.ip \notin IPs
      BY <2>2 DEF Errors
    <3> QED
      BY <2>0, <2>1, <2>2, <3>1, <3>2 DEF PrevCurrent
  <2>3. ASSUME job.ip \in IPs, NEW e, Remember(e), e = "nil" <=> targets'[Dst] = "ok"
        PROVE  PrevCurrent'
    <3>1. prev'.hdr = job.hdr /\ prev'.err = e /\ prev'.exp = job.exp /\ prev'.dst = Dst
      BY <2>3 DEF Remember
    <3>2. job.ip \notin Errors
      BY <2>3 DEF Errors
    <3> QED
      BY <2>0, <2>1, <2>3, <3>1, <3>2 DEF PrevCurrent, Dst
  <2>4. ASSUME job.ip \in IPs, NEW v, targets' = [targets EXCEPT ![Dst] = v]
        PROVE  targets'[Dst] = v
    BY <1>0, <2>0, <2>4, DstType
  <2> QED
    BY <1>0, <1>1, <1>3, <2>0, <2>2, <2>3, <2>4 DEF UpAdmit
<1>4. CASE Aside
  <2>1. now' \in Nat
    BY <1>0, <1>4, TypeOther DEF TypeOK, Aside, DownRead, Down, DownCheck, DownWrite, DownEnds,
       WatchRead, Watch, WatchArm, CloseSockets, Return, Tick, vars
  <2> QED
    BY <1>1, <1>4, <2>1, AsideKeeps DEF judgevars
<1> QED
  BY <1>0, <1>1, <1>2, <1>3, <1>4
  DEF Next, Up, Aside, UpRead, UpHeader, UpForward, UpWrite, UpEnds, judgevars

-----------------------------------------------------------------------------
(* What goes out and what comes back.                                      *)

\* A port once locked, a target once allowed and the options stay.
LEMMA Settled ==
    ASSUME TypeOK, OneJob, [Next]_vars
    PROVE  /\ cfg' = cfg
           /\ clientPort # 0 => clientPort' = clientPort
           /\ \A t \in Targets : targets[t] = "ok" => targets'[t] = "ok"
           /\ ips \subseteq ips'
<1>1. CASE UpForward
  <2>1. clientPort # 0 => clientPort' = clientPort
    BY <1>1 DEF UpForward, PortLocked, OneJob
  <2> QED
    BY <1>1, <2>1 DEF UpForward, judgevars
<1>2. CASE UpAdmit
  <2>1. CASE job.ip \in IPs
    BY <1>2, <2>1, DstType DEF UpAdmit, TypeOK
  <2>2. CASE job.ip \notin IPs
    BY <1>2, <2>2 DEF UpAdmit
  <2> QED
    BY <2>1, <2>2
<1>3. CASE Aside
  BY <1>3, AsideKeeps DEF judgevars
<1> QED
  BY <1>1, <1>2, <1>3
  DEF Next, Up, Aside, UpRead, UpHeader, UpResolve, UpWrite, UpEnds, judgevars

\* Solicited targets stay solicited.
LEMMA SolicitedStays ==
    ASSUME TypeOK, OneJob, [Next]_vars, NEW t \in Targets, Solicited(t)
    PROVE  Solicited(t)'
<1>1. cfg.filtering \in {"port", "address", "none"}
  BY UDPAssumption DEF TypeOK, ConfigType
<1> QED
  BY <1>1, Settled DEF Solicited

\* Datagrams leave from the locked port, to targets that were allowed.
LEMMA SentStep ==
    ASSUME TypeOK, OneJob, Judged, Sent, [Next]_vars
    PROVE  Sent'
<1>1. CASE UNCHANGED reached
  <2>1. \A m \in reached : m[2] \in Targets
    BY DEF TypeOK
  <2> QED
    BY <1>1, <2>1, Settled DEF Sent
<1>2. CASE UpWrite
  <2>1. job.port = clientPort /\ job.port \in Ports /\ Dst \in Targets /\ targets[Dst] = "ok"
    BY <1>2 DEF UpWrite, OneJob, Judged
  <2>2. clientPort # 0 /\ UNCHANGED <<clientPort, targets>>
    BY <1>2, <2>1, UDPAssumption DEF UpWrite, judgevars
  <2>3. \A m \in reached' : m \in reached \/ m = <<job.port, Dst>>
    BY <1>2 DEF UpWrite
  <2> QED
    BY <2>1, <2>2, <2>3 DEF Sent
<1>3. CASE Aside
  BY <1>1, <1>3, AsideKeeps
<1> QED
  BY <1>1, <1>2, <1>3
  DEF Next, Up, Aside, UpRead, UpHeader, UpResolve, UpAdmit, UpForward, UpEnds

\* The client hears what its filtering mode lets in, at the locked port.
LEMMA AnsweredStep ==
    ASSUME TypeOK, OneJob, Answered, [Next]_vars
    PROVE  Answered'
<1> USE UDPAssumption
<1>0. /\ clientPort # 0 => clientPort' = clientPort
      /\ \A t \in Targets : Solicited(t) => Solicited(t)'
      /\ \A m \in got : m[2] \in Targets
  BY Settled, SolicitedStays DEF TypeOK
<1>1. CASE UNCHANGED <<dpc, dfrom, dport, got>>
  BY <1>0, <1>1 DEF Answered
<1>2. CASE DownRead
  BY <1>0, <1>2 DEF DownRead, Answered
<1>3. CASE DownCheck
  <2>1. CASE dport # 0 /\ Solicited(dfrom)
    BY <1>0, <1>3, <2>1 DEF DownCheck, Answered
  <2>2. CASE ~(dport # 0 /\ Solicited(dfrom))
    BY <1>0, <1>3, <2>2 DEF DownCheck, Answered
  <2> QED
    BY <2>1, <2>2
<1>4. CASE DownWrite
  <2>1. dport # 0 /\ dport = clientPort /\ dfrom \in Targets /\ Solicited(dfrom)
    BY <1>4 DEF DownWrite, Answered
  <2>2. \A m \in got' : m \in got \/ m = <<dport, dfrom>>
    BY <1>4 DEF DownWrite
  <2>3. dport' = 0 /\ dpc' = "read"
    BY <1>4 DEF DownWrite
  <2> QED
    BY <1>0, <2>1, <2>2, <2>3 DEF Answered
<1>5. CASE DownEnds
  BY <1>0, <1>5 DEF DownEnds, Answered
<1> QED
  BY <1>1, <1>2, <1>3, <1>4, <1>5
  DEF Next, Up, Down, Watch, vars, UpRead, UpHeader, UpResolve, UpAdmit, UpForward, UpWrite,
      UpEnds, WatchRead, WatchArm, CloseSockets, Return, Tick, downvars

-----------------------------------------------------------------------------
(* The bounds.                                                             *)

\* The watcher's deadline is never later than the idle one, and the clock does
\* not pass it.
LEMMA TimelyStep ==
    ASSUME TypeOK, Timely, [Next]_vars
    PROVE  Timely'
<1>0. /\ now \in Nat /\ lastMove \in Nat /\ lastMove <= now /\ wdl \in Nat
      /\ cfg.idle \in Nat
  BY UDPAssumption DEF TypeOK, ConfigType
<1>1. CASE WatchRead
  <2>1. UNCHANGED <<cfg, now, lastMove, wdl>> /\ wpc' \in {"arm", "close"}
    BY <1>1 DEF WatchRead
  <2>2. wpc' = "arm" => now <= lastMove + cfg.idle
    BY <1>0, <1>1 DEF WatchRead, IdleNow, Timely
  <2> QED
    BY <2>1, <2>2 DEF Timely
<1>2. CASE WatchArm
  BY <1>0, <1>2 DEF WatchArm, IdleDeadline, Timely
<1>3. CASE CloseSockets \/ Return
  BY <1>0, <1>3 DEF CloseSockets, StillOpen, Return, Timely
<1>4. CASE Tick
  BY <1>0, <1>4 DEF Tick, Timely, watchvars
<1>5. CASE UNCHANGED <<cfg, now, wpc, wdl, open>> /\ lastMove' \in {lastMove, now}
  BY <1>0, <1>5 DEF Timely
<1> QED
  BY <1>1, <1>2, <1>3, <1>4, <1>5
  DEF Next, Up, Down, Watch, vars, UpRead, UpHeader, UpResolve, UpAdmit, UpForward, UpWrite,
      UpEnds, DownRead, DownCheck, DownWrite, DownEnds, watchvars

\* One more target or name is one more entry.
LEMMA OneMore ==
    ASSUME NEW S, IsFiniteSet(S), NEW T, NEW x, T = S \cup {x}
    PROVE  /\ IsFiniteSet(T)
           /\ Cardinality(T) \in Nat /\ Cardinality(S) \in Nat
           /\ Cardinality(T) <= Cardinality(S) + 1
           /\ x \in S => Cardinality(T) = Cardinality(S)
<1>1. CASE x \in S
  <2>1. T = S
    BY <1>1
  <2>2. Cardinality(S) \in Nat
    BY FS_CardinalityType
  <2>3. IsFiniteSet(T) /\ Cardinality(T) = Cardinality(S)
    BY <2>1
  <2> QED
    BY <2>2, <2>3
<1>2. CASE x \notin S
  BY <1>2, FS_AddElement, FS_CardinalityType
<1> QED
  BY <1>1, <1>2

\* MaxTargets bounds the entries: both maps are asked for room first.
LEMMA RoomStep ==
    ASSUME TypeOK, OneJob, Lookup, Room, [Next]_vars
    PROVE  Room'
<1> USE UDPAssumption
<1>0. /\ names \in [Names -> EntryType] /\ cfg.maxTargets \in Nat
      /\ targets \in [Targets -> {"unknown", "ok", "denied"}] /\ job \in JobType
      /\ cfg' = cfg
  BY Settled DEF TypeOK, ConfigType
<1>1. /\ Size = Cardinality(JudgedTargets) + Cardinality(KnownNames)
      /\ Size' = Cardinality(JudgedTargets') + Cardinality(KnownNames')
      /\ Cardinality(JudgedTargets) \in Nat /\ Cardinality(KnownNames) \in Nat
  <2>1. Size = Cardinality(JudgedTargets) + Cardinality(KnownNames)
    BY Zenon DEF Size, JudgedTargets, KnownNames
  <2>2. Size' = Cardinality(JudgedTargets') + Cardinality(KnownNames')
    BY Zenon DEF Size, JudgedTargets, KnownNames
  <2>3. Cardinality(JudgedTargets) \in Nat /\ Cardinality(KnownNames) \in Nat
    BY FS_CardinalityType DEF Room
  <2> QED
    BY <2>1, <2>2, <2>3
<1>2. ASSUME UNCHANGED <<targets, names>>
      PROVE  UNCHANGED <<JudgedTargets, KnownNames, Size>>
  BY <1>2 DEF Size, JudgedTargets, KnownNames
<1>3. CASE UpHeader
  <2>1. UNCHANGED <<targets, names>>
    BY <1>3 DEF UpHeader, judgevars
  <2>2. upc' = "resolve" => names[job.hdr[1]].known \/ Size < cfg.maxTargets
    <3>1. upc' = "resolve" => names[job.hdr[1]].known \/ ~Full
      BY <1>3 DEF UpHeader, Drop, GoUp
    <3> QED
      BY <1>0, <1>1, <3>1 DEF Full
  <2>3. upc' = "resolve" => job'.hdr = job.hdr
    BY <1>0, <1>3 DEF UpHeader, Drop, GoUp, JobType
  <2> QED
    BY <1>0, <1>2, <2>1, <2>2, <2>3 DEF Room
<1>4. CASE UpResolve
  <2>1. PICK ip \in Resolved(job.hdr[2]) :
          names' = [names EXCEPT ![job.hdr[1]] = [known |-> TRUE, ip |-> ip, exp |-> job.at + TTL]]
    BY <1>4 DEF UpResolve
  <2>2. job.hdr[1] \in Names /\ upc = "resolve" /\ upc' = "admit" /\ UNCHANGED targets
    BY <1>4 DEF UpResolve, GoUp, Lookup
  <2>3. KnownNames' = KnownNames \cup {job.hdr[1]}
    BY <1>0, <2>1, <2>2 DEF KnownNames
  <2>4. job.hdr[1] \in KnownNames <=> names[job.hdr[1]].known
    BY <2>2 DEF KnownNames
  <2>5. JudgedTargets' = JudgedTargets
    BY <2>2 DEF JudgedTargets
  <2>6. /\ IsFiniteSet(KnownNames') /\ Cardinality(KnownNames') \in Nat
        /\ Cardinality(KnownNames') <= Cardinality(KnownNames) + 1
        /\ job.hdr[1] \in KnownNames => Cardinality(KnownNames') = Cardinality(KnownNames)
    BY <2>3, OneMore DEF Room
  <2>7. Size' <= cfg.maxTargets
    BY <1>0, <1>1, <2>2, <2>4, <2>5, <2>6 DEF Room
  <2> QED
    BY <1>0, <2>2, <2>5, <2>6, <2>7 DEF Room
<1>5. CASE UpAdmit
  <2>0. upc' # "resolve" /\ KnownNames' = KnownNames
    BY <1>5 DEF UpAdmit, Drop, GoUp, KnownNames
  <2>1. CASE UNCHANGED targets
    <3>1. JudgedTargets' = JudgedTargets /\ Size' = Size
      BY <1>1, <2>0, <2>1 DEF JudgedTargets
    <3> QED
      BY <1>0, <2>0, <3>1 DEF Room
  <2>2. ASSUME job.ip \in IPs, ~Full, NEW v \in {"ok", "denied"},
               targets' = [targets EXCEPT ![Dst] = v]
        PROVE  Room'
    <3>1. Dst \in Targets
      BY <1>5, <2>2, DstType DEF UpAdmit
    <3>2. JudgedTargets' = JudgedTargets \cup {Dst}
      BY <1>0, <2>2, <3>1 DEF JudgedTargets
    <3>3. /\ IsFiniteSet(JudgedTargets') /\ Cardinality(JudgedTargets') \in Nat
          /\ Cardinality(JudgedTargets') <= Cardinality(JudgedTargets) + 1
      BY <3>2, OneMore DEF Room
    <3>4. Size' <= cfg.maxTargets
      BY <1>0, <1>1, <2>0, <2>2, <3>3 DEF Full
    <3> QED
      BY <1>0, <2>0, <3>3, <3>4 DEF Room
  <2> QED
    BY <1>5, <2>1, <2>2 DEF UpAdmit
<1>6. CASE upc' # "resolve" /\ UNCHANGED <<targets, names>>
  BY <1>0, <1>2, <1>6 DEF Room
<1>7. CASE Aside
  <2>1. UNCHANGED <<targets, names, upc, job>>
    BY <1>7, AsideKeeps DEF judgevars, upvars
  <2> QED
    BY <1>0, <1>2, <2>1 DEF Room
<1> QED
  BY <1>3, <1>4, <1>5, <1>6, <1>7
  DEF Next, Up, Aside, UpRead, UpForward, UpWrite, UpEnds, judgevars, Drop, GoUp

-----------------------------------------------------------------------------
(* The theorems.                                                           *)

\* An association that starts, with no target judged, satisfies the invariant.
LEMMA IndInvInit == Init => IndInv
<1> SUFFICES ASSUME Init PROVE IndInv
  OBVIOUS
<1> USE UDPAssumption
<1>1. TypeOK
  BY TypeInit
<1>2. Verdicts /\ OneJob /\ Lookup /\ Judged /\ Sent /\ Answered
  BY DEF Init, Verdicts, OneJob, Lookup, Judged, Sent, Answered
<1>3. PrevCurrent
  BY DEF Init, PrevCurrent, NoVerdict
<1>4. Timely
  BY DEF Init, Timely, ConfigType
<1>5. Room
  <2>1. JudgedTargets = {} /\ KnownNames = {}
    BY DEF Init, JudgedTargets, KnownNames, NoEntry
  <2>2. Size = Cardinality({}) + Cardinality({})
    BY <2>1, Zenon DEF Size, JudgedTargets, KnownNames
  <2>3. cfg.maxTargets \in Nat
    BY DEF Init, ConfigType
  <2> QED
    BY <2>1, <2>2, <2>3, FS_EmptySet DEF Room, Init
<1> QED
  BY <1>1, <1>2, <1>3, <1>4, <1>5 DEF IndInv

\* Every step of the association preserves the invariant.
LEMMA IndInvStep == IndInv /\ [Next]_vars => IndInv'
<1> SUFFICES ASSUME IndInv, [Next]_vars PROVE IndInv'
  OBVIOUS
<1> USE DEF IndInv
<1>1. TypeOK'
  BY TypeUp, TypeOther DEF Next
<1>2. Verdicts' /\ OneJob' /\ Lookup'
  BY VerdictsStep, OneJobStep, LookupStep
<1>3. Judged' /\ PrevCurrent'
  BY JudgedStep, PrevCurrentStep
<1>4. Sent' /\ Answered'
  BY SentStep, AnsweredStep
<1>5. Timely' /\ Room'
  BY TimelyStep, RoomStep
<1> QED
  BY <1>1, <1>2, <1>3, <1>4, <1>5

\* The inductive invariant holds.
THEOREM Invariance == Spec => []IndInv
BY IndInvInit, IndInvStep, PTL DEF Spec

\* The variables of an association keep their types, and a datagram that is
\* forwarded has an IP and a port.
THEOREM TypeCorrect == Spec => []TypeOK
<1>1. IndInv => TypeOK
  BY DEF IndInv
<1> QED
  BY <1>1, Invariance, PTL

\* No datagram reaches a target the Filter denies, from one port only, and the
\* caches on the way (names, targets, the previous header) are never stale.
THEOREM ReachSafe == Spec => []OnlyAllowedReached
<1>1. IndInv => OnlyAllowedReached
  <2> SUFFICES ASSUME IndInv PROVE OnlyAllowedReached
    OBVIOUS
  <2>1. \A m \in reached : m[1] = clientPort /\ m[2] \in Allowed
    BY DEF IndInv, Sent, Verdicts, TypeOK
  <2> QED
    BY <2>1 DEF IndInv, PrevCurrent, Judged, OnlyAllowedReached
<1> QED
  BY <1>1, Invariance, PTL

\* A target that was sent a datagram can answer, and the client hears from no
\* other than its filtering mode lets in.
THEOREM AnswersExact == Spec => []AnswersFiltered
<1>1. IndInv => AnswersFiltered
  <2> SUFFICES ASSUME IndInv PROVE AnswersFiltered
    OBVIOUS
  <2>0. cfg.filtering \in {"port", "address", "none"}
    BY UDPAssumption DEF IndInv, TypeOK, ConfigType
  <2>1. ASSUME NEW m \in reached PROVE clientPort # 0 /\ Solicited(m[2])
    <3>1. m[2] \in Targets /\ targets[m[2]] = "ok"
      BY <2>1 DEF IndInv, Sent, TypeOK
    <3> QED
      BY <2>0, <2>1, <3>1 DEF IndInv, Sent, Verdicts, Solicited
  <2>2. ASSUME NEW m \in got
        PROVE  /\ m[1] = clientPort
               /\ cfg.filtering = "port" => m[2] \in Allowed /\ targets[m[2]] = "ok"
               /\ cfg.filtering = "address" =>
                    \E t \in Allowed : t[1] = m[2][1] /\ targets[t] = "ok"
    <3>1. m[2] \in Targets
      BY DEF IndInv, TypeOK
    <3> QED
      BY <3>1 DEF IndInv, Answered, Verdicts, Solicited
  <2> QED
    BY <2>1, <2>2 DEF AnswersFiltered
<1> QED
  BY <1>1, Invariance, PTL

\* MaxTargets bounds what a client can make the server remember, and an open
\* association has relayed a datagram within IdleTimeout.
THEOREM Bounded == Spec => []AssociationBounded
<1>1. IndInv => AssociationBounded
  BY DEF IndInv, Room, Timely, TypeOK, AssociationBounded
<1> QED
  BY <1>1, Invariance, PTL

=============================================================================
