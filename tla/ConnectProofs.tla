--------------------------- MODULE ConnectProofs ---------------------------
(***************************************************************************)
(* Proofs about Connect, for any number of requests, every set of          *)
(* addresses, every Filter configuration, and any changes of the host's    *)
(* addresses.                                                              *)
(***************************************************************************)
EXTENDS Connect, TLAPS

-----------------------------------------------------------------------------
(* The inductive invariant.                                                *)

Before == {"start", "early", "dial"}

\* The stages of a request, its handler and its attempts go together.
Phase(q) ==
    /\ qpc[q] \in Before => addrs[q] = <<>> /\ winner[q] = 0
    /\ qpc[q] \in {"race", "ask"} => addrs[q] # <<>>
    /\ qpc[q] = "early" =>
         /\ vpc[<<q, 0>>] \notin {"idle", "connecting", "ended"}
         /\ ask[q].host \in IPs \ Unspecified
    /\ qpc[q] = "ask" => vpc[<<q, 0>>] \in {"ask", "asked", "vetted"}
    /\ qpc[q] \notin {"early", "ask"} => vpc[<<q, 0>>] \in {"idle", "ended"}
    /\ qpc[q] \in {"ask", "reply", "relay"} => winner[q] # 0
    /\ cfg.custom => addrs[q] = <<>> /\ qpc[q] \notin {"early", "dial", "race", "ask"}
    /\ ask[q].cmd # "connect" => addrs[q] = <<>> /\ qpc[q] \in {"start", "fail", "returned"}
    /\ winner[q] # 0 /\ addrs[q] # <<>> =>
         /\ winner[q] \in DOMAIN addrs[q]
         /\ vpc[<<q, winner[q]>>] = "ended" /\ verdict[<<q, winner[q]>>] = "ok"
Phases == \A q \in Reqs : Phase(q)

\* An attempt is of an address, and goes on until it fails or one has won.
Attempt(a) ==
    /\ vpc[a] # "idle" => a[2] \in DOMAIN addrs[a[1]]
    /\ vpc[a] \notin {"idle", "ended"} => qpc[a[1]] = "race" \/ winner[a[1]] # 0
    /\ self[a] => addrs[a[1]] # <<>>
    /\ sock[a] = "open" =>
         winner[a[1]] = a[2] /\ qpc[a[1]] \in {"race", "ask", "reply", "relay"}
Attempting == \A a \in Attempts : Attempt(a)

\* Who makes the listing holds hostMu, and who uses the scratch is alone with it.
Owners ==
    /\ \A a \in Actors : vpc[a] \in {"list", "store"} => mu = a
    /\ \A a \in Actors : using[a] => vpc[a] = "asked" /\ scratch[a[1]] = IPOf(a)
    /\ \A a, b \in Actors : a[1] = b[1] /\ using[a] /\ using[b] => a = b

\* A listing has every address the host has had since before it was begun.
Honest(h) ==
    /\ h.expires <= now + TTL
    /\ ~h.failed => \A ip \in IPs : host[ip] + TTL < h.expires => ip \in h.ips

\* The listing in use was current when it was checked.
Listed ==
    /\ Honest(cached)
    /\ \A a \in Actors :
         /\ Honest(seen[a])
         /\ vpc[a] \in {"try", "lock"} => checked[a] = Never
         /\ vpc[a] \in {"list", "store", "judge"} =>
              checked[a] = Never \/ checked[a] < seen[a].expires

\* The Filter allows the address an actor is about.
Passes(a) == allow(LocalAddr, IPOf(a), ask[a[1]].port0)

Default == cfg.filter = "default"

\* Until it has vetted, only the Filter has spoken.
Checking == {"try", "lock", "list", "store", "judge", "ask", "asked"}

\* A verdict is the Filter's and, under DefaultFilter, of an address the listing
\* did not miss.
Verdict(a) ==
    /\ vpc[a] \in Checking /\ (a[2] # 0 \/ qpc[a[1]] = "early") => Passes(a)
    /\ vpc[a] = "vetted" => verdict[a] \in {"ok", "denied"}
    /\ vpc[a] = "vetted" /\ verdict[a] = "ok" /\ qpc[a[1]] = "early" /\ a[2] = 0 =>
         Passes(a) /\ (Default => ~missed[a])
    /\ vpc[a] = "vetted" /\ qpc[a[1]] = "ask" /\ a[2] = 0 /\ Default => verdict[a] = "denied"
Judged == \A a \in Actors : Verdict(a)

\* An attempt connects to an address that passed; one that ended without a conn
\* has an error.
Target(a) ==
    /\ vpc[a] = "connecting" => verdict[a] = "ok"
    /\ vpc[a] \in {"vetted", "connecting", "ended"} /\ verdict[a] # "denied" => Passes(a)
    /\ vpc[a] \in {"vetted", "connecting", "ended"} /\ verdict[a] = "ok" /\ Default =>
         ~missed[VettedBy(a)]
    /\ vpc[a] = "ended" => winner[a[1]] # 0 \/ verdict[a] \in {"denied"} \cup DialErrs \cup UserErrs
Dialled == \A a \in Attempts : Target(a)

\* A literal that was vetted early is the only address of its dial.
VettedEarly(q) ==
    ~control[q] /\ (qpc[q] = "dial" \/ addrs[q] # <<>>) =>
        /\ ask[q].host \in IPs \ Unspecified
        /\ allow(LocalAddr, ask[q].host, ask[q].port0)
        /\ Default => ~missed[<<q, 0>>]
        /\ addrs[q] # <<>> => addrs[q] = <<ask[q].host>>
Literal == \A q \in Reqs : VettedEarly(q)

\* Under DefaultFilter, what is relayed to is not this host, unless the Dialer's
\* own LocalAddr hid it.
Elsewhere ==
    \A q \in Reqs :
        Default /\ qpc[q] \in {"reply", "relay"} /\ self[<<q, winner[q]>>] =>
            cfg.egress \notin {NoIP, IPOf(<<q, winner[q]>>)}

AllDenied(q) ==
    addrs[q] # <<>> /\ \A i \in DOMAIN addrs[q] : ~allow(LocalAddr, addrs[q][i], ask[q].port0)

\* The errors that are answered with 02 for a name too.
Forbidden == {"access", "identd"}

\* Without a Dial of the user's they are of a connect to an address that passed.
Blamed(q) ==
    err[q] \in Forbidden /\ ask[q].cmd = "connect" /\ ~cfg.custom =>
        \E a \in Tried(q) : vpc[a] = "ended" /\ verdict[a] = err[q] /\ Passes(a)
Blames == \A q \in Reqs : Blamed(q)

\* The error of a request, and its one reply.
Outcome(q) ==
    /\ err[q] # "nil" => qpc[q] \in {"fail", "returned"}
    /\ qpc[q] = "fail" => err[q] # "nil"
    /\ qpc[q] = "fail" /\ ask[q].host = Name /\ ask[q].cmd # "connect" => err[q] # "denied"
    /\ qpc[q] = "fail" /\ AllDenied(q) => err[q] = "denied"
    /\ replies[q] # <<>> =>
         /\ qpc[q] \in {"relay", "returned"}
         /\ ask[q].host = Name /\ replies[q][1] = 2 =>
              err[q] # "denied" /\ (ask[q].cmd = "connect" => err[q] \in Forbidden)
         /\ ask[q].host = Name /\ AllDenied(q) => replies[q][1] = 4
         /\ replies[q][1] = 0 <=> err[q] = "nil"
Replied == \A q \in Reqs : Outcome(q)

Disclosed == \A ip \in disclosed : allowIP(ip)

IndInv ==
    /\ TypeOK /\ Phases /\ Attempting /\ Owners /\ Listed /\ Judged /\ Dialled /\ Literal
    /\ Elsewhere /\ Blames /\ Replied /\ Disclosed

-----------------------------------------------------------------------------
(* Actors and addresses.                                                   *)

\* An actor is a handler or an attempt.
LEMMA ActorKinds ==
    /\ \A a \in Actors : a[1] \in Reqs /\ a[2] \in 0 .. 2 /\ a = <<a[1], a[2]>>
    /\ \A a \in Attempts : a \in Actors /\ a[2] \in 1 .. 2 /\ a[1] \in Reqs
    /\ \A a \in Actors : a \in Attempts <=> a[2] # 0
    /\ \A q \in Reqs : <<q, 0>> \in Actors /\ <<q, 0>>[1] = q /\ <<q, 0>>[2] = 0
    /\ \A q \in Reqs, i \in 1 .. 2 : <<q, i>> \in Attempts /\ <<q, i>> # <<q, 0>>
    /\ None \notin Actors
BY ConnectAssumption DEF Actors, Attempts, None

\* The addresses of a dial are addresses.
LEMMA AddrIn ==
    ASSUME TypeOK, NEW q \in Reqs, NEW i \in DOMAIN addrs[q]
    PROVE  addrs[q][i] \in IPs /\ i \in 1 .. 2
<1>1. addrs[q] \in UNION {[1 .. n -> IPs] : n \in 0 .. 2}
  BY DEF TypeOK
<1>2. PICK n \in 0 .. 2 : addrs[q] \in [1 .. n -> IPs]
  BY <1>1
<1> QED
  BY <1>2

\* Who vets has an address.
LEMMA AddrOf ==
    ASSUME TypeOK, Phases, Attempting, NEW a \in Actors, vpc[a] # "idle",
           a[2] # 0 \/ qpc[a[1]] \in {"early", "ask"}
    PROVE  IPOf(a) \in IPs
<1>1. CASE a[2] # 0
  <2>1. a \in Attempts /\ a[1] \in Reqs /\ a[2] \in DOMAIN addrs[a[1]]
    BY <1>1, ActorKinds DEF Attempting, Attempt
  <2> QED
    BY <1>1, <2>1, AddrIn DEF IPOf
<1>2. CASE a[2] = 0 /\ qpc[a[1]] = "early"
  BY <1>2, ActorKinds DEF Phases, Phase, Before, IPOf
<1>3. CASE a[2] = 0 /\ qpc[a[1]] = "ask"
  <2>0. a[1] \in Reqs
    BY ActorKinds
  <2>1. winner[a[1]] # 0 /\ winner[a[1]] \in DOMAIN addrs[a[1]]
    BY <1>3, <2>0 DEF Phases, Phase
  <2> QED
    BY <1>3, <2>0, <2>1, AddrIn DEF IPOf
<1> QED
  BY <1>1, <1>2, <1>3

Dialling(a) == Start(a) \/ Denied(a) \/ Connect(a) \/ Connected(a) \/ ConnectFails(a)

Handling(q) ==
    \/ Serve(q) \/ DialCustom(q) \/ Early(q) \/ Dial(q) \/ RaceLost(q) \/ Post(q) \/ PostAsked(q)
    \/ Reply(q) \/ RelayEnds(q) \/ Fail(q) \/ Resolve(q) \/ ResolvePTR(q) \/ NotSupported(q)

\* The steps, by who takes them.
LEMMA Steps ==
    ASSUME [Next]_vars
    PROVE  \/ \E a \in Actors : Vet(a)
           \/ \E a \in Attempts : Dialling(a)
           \/ \E q \in Reqs : Handling(q)
           \/ Tick \/ HostChanges \/ UNCHANGED vars
BY ActorKinds DEF Next, AttemptStep, HandlerStep, Dialling, Handling, Handler

\* A handler vets early, or after the dial.
LEMMA Vetting ==
    ASSUME TypeOK, Phases, NEW a \in Actors, Vet(a)
    PROVE  /\ vpc[a] \in {"load"} \cup Checking
           /\ a[2] # 0 \/ qpc[a[1]] \in {"early", "ask"}
<1>1. vpc[a] \in {"load"} \cup Checking
  BY DEF Vet, Load, TryLock, Lock, List, Store, Judge, Ask, Asked, Checking
<1>2. ASSUME a[2] = 0 PROVE qpc[a[1]] \in {"early", "ask"}
  <2>1. a[1] \in Reqs /\ a = <<a[1], 0>>
    BY <1>2, ActorKinds
  <2> QED
    BY <1>1, <2>1 DEF Phases, Phase, Checking
<1> QED
  BY <1>1, <1>2

-----------------------------------------------------------------------------
(* Types.                                                                  *)

HostType ==
    /\ cfg \in Configs /\ ask \in [Reqs -> AskType]
    /\ now \in 0 .. MaxNow /\ changes \in 0 .. MaxChanges
    /\ host \in [IPs -> 0 .. Never]

ListType ==
    /\ cached \in Listings
    /\ mu \in Actors \cup {None}
    /\ mu # None => vpc[mu] \in {"list", "store"}
    /\ seen \in [Actors -> Listings]
    /\ checked \in [Actors -> 0 .. Never] /\ missed \in [Actors -> BOOLEAN]

HandlerType ==
    /\ qpc \in [Reqs -> {"start", "early", "dial", "race", "ask", "reply", "relay", "fail",
                         "returned"}]
    /\ control \in [Reqs -> BOOLEAN]
    /\ addrs \in [Reqs -> UNION {[1 .. n -> IPs] : n \in 0 .. 2}]
    /\ winner \in [Reqs -> 0 .. 2]
    /\ err \in [Reqs -> Errs]
    /\ replies \in [Reqs -> Seq(0 .. 8)]

VetType ==
    /\ vpc \in [Actors -> {"idle", "load", "try", "lock", "list", "store", "judge", "ask",
                           "asked", "vetted", "connecting", "ended"}]
    /\ verdict \in [Actors -> Errs \cup {"ok"}]
    /\ sock \in [Actors -> {"none", "open", "closed"}]
    /\ self \in [Actors -> BOOLEAN]
    /\ disclosed \subseteq IPs

ScratchType ==
    /\ busy \in [Reqs -> BOOLEAN] /\ scratch \in [Reqs -> IPs \cup {NoIP}]
    /\ using \in [Actors -> BOOLEAN]
    /\ \A q \in Reqs : busy[q] <=> \E i \in 0 .. 2 : using[<<q, i>>]

\* The types, part by part.
LEMMA TypeParts == TypeOK <=> HostType /\ ListType /\ HandlerType /\ VetType /\ ScratchType
BY Zenon DEF TypeOK, HostType, ListType, HandlerType, VetType, ScratchType

\* The clock, the host and what is asked for.
LEMMA HostTypeStep ==
    ASSUME HostType, [Next]_vars
    PROVE  HostType' /\ UNCHANGED <<cfg, ask>>
<1>0. MaxNow \in Nat /\ MaxChanges \in Nat /\ Never = MaxNow + 1
  BY ConnectAssumption DEF Never
<1>1. CASE UNCHANGED <<cfg, ask, hostvars>>
  BY <1>1 DEF HostType, hostvars
<1>2. CASE Tick
  BY <1>0, <1>2 DEF HostType, Tick
<1>3. CASE HostChanges
  <2>1. UNCHANGED <<cfg, ask, now>> /\ changes' \in 0 .. MaxChanges
    BY <1>0, <1>3 DEF HostType, HostChanges
  <2>2. host' \in [IPs -> 0 .. Never]
    BY <1>0, <1>3, ConnectAssumption DEF HostType, HostChanges
  <2> QED
    BY <2>1, <2>2 DEF HostType
<1>4. ASSUME NEW a \in Actors, Vet(a) PROVE UNCHANGED <<cfg, ask, hostvars>>
  BY <1>4 DEF Vet, Load, TryLock, Lock, List, Store, Judge, Ask, Asked
<1>5. ASSUME NEW a \in Attempts, Dialling(a) PROVE UNCHANGED <<cfg, ask, hostvars>>
  BY <1>5 DEF Dialling, Start, Denied, Connect, Connected, ConnectFails
<1>6. ASSUME NEW q \in Reqs, Handling(q) PROVE UNCHANGED <<cfg, ask, hostvars>>
  BY <1>6 DEF Handling, Serve, DialCustom, Early, Dial, RaceLost, Post, PostAsked, Reply,
              RelayEnds, Fail, Resolve, ResolvePTR, NotSupported
<1> QED
  BY <1>1, <1>2, <1>3, <1>4, <1>5, <1>6, Steps DEF vars, HostType, Tick, HostChanges

\* What the clock and the changes of the host leave alone.
LEMMA WorldKeeps ==
    ASSUME Tick \/ HostChanges \/ UNCHANGED vars
    PROVE  UNCHANGED <<listvars, handlervars, vpc, scrvars, verdict, sockvars, disclosed>>
BY DEF Tick, HostChanges, vars

\* What the dialling of an attempt leaves alone.
LEMMA DiallingKeeps ==
    ASSUME NEW a \in Attempts, Dialling(a)
    PROVE  /\ UNCHANGED <<listvars, qpc, control, addrs, err, replies, scrvars, disclosed>>
           /\ \E p \in {"load", "vetted", "connecting", "ended"} : vpc' = [vpc EXCEPT ![a] = p]
BY DEF Dialling, Start, Denied, Connect, Connected, ConnectFails, handlervars, GoV

\* What vetting leaves alone.
LEMMA VetKeeps ==
    ASSUME NEW a \in Actors, Vet(a)
    PROVE  /\ UNCHANGED <<handlervars, sockvars, disclosed>>
           /\ \E p \in {"try", "lock", "list", "store", "judge", "ask", "asked", "vetted"} :
                vpc' = [vpc EXCEPT ![a] = p]
BY DEF Vet, Load, TryLock, Lock, Check, List, Store, Judge, Ask, Asked, GoV

\* What a handler leaves alone.
LEMMA HandlingKeeps ==
    ASSUME NEW q \in Reqs, Handling(q)
    PROVE  /\ UNCHANGED <<listvars, scrvars, verdict, self>>
           /\ \/ UNCHANGED vpc
              \/ \E p \in {"load", "idle", "ask", "ended"} : vpc' = [vpc EXCEPT ![<<q, 0>>] = p]
           /\ \E p : qpc' = [qpc EXCEPT ![q] = p]
BY DEF Handling, Serve, DialCustom, Early, Dial, RaceLost, Post, PostAsked, Reply, RelayEnds, Fail,
       Resolve, ResolvePTR, NotSupported, GoQ, GoV, FailQ, FailLookup, Answer, Handler, sockvars

\* The addresses of a dial are fixed once it has begun.
LEMMA AddrsKept ==
    ASSUME TypeOK, [Next]_vars, NEW q \in Reqs, qpc[q] # "dial"
    PROVE  addrs'[q] = addrs[q]
<1>0. addrs \in [Reqs -> UNION {[1 .. n -> IPs] : n \in 0 .. 2}]
  BY DEF TypeOK
<1>1. ASSUME NEW a \in Actors, Vet(a) PROVE addrs' = addrs
  BY <1>1, VetKeeps DEF handlervars
<1>2. ASSUME NEW a \in Attempts, Dialling(a) PROVE addrs' = addrs
  BY <1>2, DiallingKeeps
<1>3. ASSUME NEW r \in Reqs, Handling(r) PROVE addrs'[q] = addrs[q]
  <2>1. CASE Dial(r)
    <3>1. r # q
      BY <2>1 DEF Dial
    <3> QED
      BY <1>0, <2>1, <3>1 DEF Dial
  <2> QED
    BY <1>3, <2>1 DEF Handling, Serve, DialCustom, Early, RaceLost, Post, PostAsked, Reply,
       RelayEnds, Fail, Resolve, ResolvePTR, NotSupported, handlervars
<1> QED
  BY <1>1, <1>2, <1>3, Steps, WorldKeeps DEF handlervars

\* The winner of a dial is final, and there is none before it.
LEMMA WinnerKept ==
    ASSUME TypeOK, Phases, Attempting, [Next]_vars, NEW q \in Reqs,
           winner[q] # 0 \/ qpc[q] \notin {"start", "race"},
           winner[q] # 0 => qpc[q] # "start"
    PROVE  winner'[q] = winner[q]
<1>0. winner \in [Reqs -> 0 .. 2]
  BY DEF TypeOK
<1>1. ASSUME NEW a \in Actors, Vet(a) PROVE winner' = winner
  BY <1>1, VetKeeps DEF handlervars
<1>2. ASSUME NEW a \in Attempts, Dialling(a) PROVE winner'[q] = winner[q]
  <2>1. CASE Connected(a)
    <3>1. a[1] \in Reqs /\ (qpc[a[1]] = "race" \/ winner[a[1]] # 0)
      BY <2>1, ActorKinds DEF Connected, Attempting, Attempt
    <3> QED
      BY <1>0, <2>1, <3>1 DEF Connected
  <2> QED
    BY <1>2, <2>1 DEF Dialling, Start, Denied, Connect, ConnectFails, handlervars
<1>3. ASSUME NEW r \in Reqs, Handling(r) PROVE winner'[q] = winner[q]
  <2>1. CASE DialCustom(r)
    <3>1. r # q
      BY <2>1 DEF DialCustom
    <3> QED
      BY <1>0, <2>1, <3>1 DEF DialCustom
  <2> QED
    BY <1>3, <2>1 DEF Handling, Serve, Dial, Early, RaceLost, Post, PostAsked, Reply,
       RelayEnds, Fail, Resolve, ResolvePTR, NotSupported, handlervars
<1> QED
  BY <1>1, <1>2, <1>3, Steps, WorldKeeps DEF handlervars

\* Nobody vets another address than it began with.
LEMMA IPOfKept ==
    ASSUME TypeOK, Phases, Attempting, [Next]_vars, NEW a \in Actors,
           \/ a[2] # 0 /\ vpc[a] # "idle"
           \/ a[2] = 0 /\ qpc[a[1]] \in {"early", "ask"}
    PROVE  IPOf(a)' = IPOf(a)
<1>0. a[1] \in Reqs /\ ask' = ask
  BY ActorKinds, HostTypeStep, TypeParts
<1>1. CASE a[2] # 0
  <2>1. qpc[a[1]] # "dial"
    <3>1. a[2] \in DOMAIN addrs[a[1]]
      BY <1>1, ActorKinds DEF Attempting, Attempt
    <3>2. addrs[a[1]] # <<>>
      BY <3>1
    <3> QED
      BY <1>0, <3>2 DEF Phases, Phase, Before
  <2> QED
    BY <1>0, <1>1, <2>1, AddrsKept DEF IPOf
<1>2. CASE a[2] = 0
  <2>1. qpc[a[1]] \in {"early", "ask"}
    BY <1>2
  <2>2. addrs'[a[1]] = addrs[a[1]] /\ winner'[a[1]] = winner[a[1]]
    BY <1>0, <2>1, AddrsKept, WinnerKept
  <2> QED
    BY <1>0, <1>2, <2>2 DEF IPOf
<1> QED
  BY <1>1, <1>2

\* The Filter's word on an address stands.
LEMMA AllowKept ==
    ASSUME TypeOK, [Next]_vars
    PROVE  /\ UNCHANGED <<cfg, ask>>
           /\ \A local, ip, port0 : allow(local, ip, port0)' <=> allow(local, ip, port0)
           /\ \A q : q \in Reqs /\ addrs'[q] = addrs[q] => (AllDenied(q)' <=> AllDenied(q))
<1>1. cfg' = cfg /\ ask' = ask
  BY HostTypeStep, TypeParts
<1>2. \A local, ip, port0 : allow(local, ip, port0)' <=> allow(local, ip, port0)
  BY <1>1 DEF allow
<1>3. ASSUME NEW q \in Reqs, addrs'[q] = addrs[q] PROVE AllDenied(q)' <=> AllDenied(q)
  BY <1>1, <1>2, <1>3 DEF AllDenied
<1> QED
  BY <1>1, <1>2, <1>3

\* So does its word on the address an actor is about.
LEMMA PassesKept ==
    ASSUME TypeOK, Phases, Attempting, [Next]_vars, NEW a \in Actors,
           \/ a[2] # 0 /\ vpc[a] # "idle"
           \/ a[2] = 0 /\ qpc[a[1]] \in {"early", "ask"}
    PROVE  Passes(a)' <=> Passes(a)
BY IPOfKept, AllowKept DEF Passes

\* A lookup's answer is one or two addresses, and so is what is dialled.
LEMMA AnswerType ==
    ASSUME NEW ips \in Answers
    PROVE  /\ ips \in UNION {[1 .. n -> IPs] : n \in 0 .. 2}
           /\ ips # <<>>
<1>1. PICK n \in 1 .. 2 : ips \in [1 .. n -> IPs]
  BY ConnectAssumption
<1>2. 1 \in DOMAIN ips
  BY <1>1
<1> QED
  BY <1>1, <1>2

\* What has no addresses is the empty sequence.
LEMMA SomeAddr ==
    ASSUME NEW f \in UNION {[1 .. n -> IPs] : n \in 0 .. 2}, f # <<>>
    PROVE  1 \in DOMAIN f
<1>1. PICK n \in 0 .. 2 : f \in [1 .. n -> IPs]
  OBVIOUS
<1>2. f \in Seq(IPs) /\ Len(f) = n
  BY <1>1
<1>3. n # 0
  BY <1>2
<1> QED
  BY <1>1, <1>3

\* The addresses Dial sets.
LEMMA DialSets ==
    ASSUME TypeOK, NEW q \in Reqs, Dial(q)
    PROVE  \/ addrs' = addrs /\ \E e \in {"notFound", "other"} : FailQ(q, e)
           \/ \E ips \in UNION {[1 .. n -> IPs] : n \in 0 .. 2} :
                /\ addrs' = [addrs EXCEPT ![q] = ips] /\ ips # <<>>
                /\ GoQ(q, "race") /\ err' = err
                /\ ask[q].host \in IPs \ Unspecified => ips = <<ask[q].host>>
<1>0. ask[q].host \in IPs \cup {Name} /\ Name \notin IPs
  BY ConnectAssumption DEF TypeOK, AskType
<1>1. \A ip \in IPs : <<ip>> \in [1 .. 1 -> IPs] /\ <<ip>> # <<>>
  OBVIOUS
<1>2. \A ip \in IPs : <<ip>> \in UNION {[1 .. n -> IPs] : n \in 0 .. 2}
  <2>1. 1 \in 0 .. 2
    OBVIOUS
  <2> QED
    BY <1>1, <2>1
<1>3. Loopback \subseteq IPs
  BY ConnectAssumption
<1>4. CASE ask[q].host = Name
  <2>1. ask[q].host \notin IPs
    BY <1>0, <1>4
  <2>2. CASE addrs' = addrs /\ \E e \in {"notFound", "other"} : FailQ(q, e)
    BY <2>2
  <2>3. ASSUME NEW ips \in Answers, addrs' = [addrs EXCEPT ![q] = ips], GoQ(q, "race"), err' = err
        PROVE  \E f \in UNION {[1 .. n -> IPs] : n \in 0 .. 2} :
                 /\ addrs' = [addrs EXCEPT ![q] = f] /\ f # <<>>
                 /\ GoQ(q, "race") /\ err' = err
                 /\ ask[q].host \in IPs \ Unspecified => f = <<ask[q].host>>
    <3>1. ips \in UNION {[1 .. n -> IPs] : n \in 0 .. 2} /\ ips # <<>>
      BY AnswerType
    <3> QED
      BY <2>1, <2>3, <3>1, Zenon
  <2>4. \/ addrs' = addrs /\ \E e \in {"notFound", "other"} : FailQ(q, e)
        \/ \E ips \in Answers : addrs' = [addrs EXCEPT ![q] = ips] /\ GoQ(q, "race") /\ err' = err
    <3>1. ask[q].host \notin Unspecified
      BY <2>1, ConnectAssumption
    <3> QED
      BY <1>4, <3>1 DEF Dial
  <2> QED
    BY <1>4, <2>2, <2>3, <2>4, Zenon
<1>5. CASE ask[q].host \in Unspecified /\ ask[q].host # Name
  BY <1>0, <1>1, <1>2, <1>3, <1>5 DEF Dial
<1>6. CASE ask[q].host \notin Unspecified /\ ask[q].host # Name
  BY <1>0, <1>1, <1>2, <1>6 DEF Dial
<1> QED
  BY <1>4, <1>5, <1>6

\* The error of a lost race.
LEMMA RaceError ==
    ASSUME TypeOK, Phases, Dialled, NEW q \in Reqs, qpc[q] = "race", winner[q] = 0,
           \A a \in Tried(q) : vpc[a] = "ended"
    PROVE  /\ FirstErr(q) \in {"denied"} \cup DialErrs \cup UserErrs
           /\ AllDenied(q) => FirstErr(q) = "denied"
           /\ \E a \in Tried(q) : vpc[a] = "ended" /\ verdict[a] = FirstErr(q)
<1> DEFINE dialled == {a \in Tried(q) : InOrder(q) /\ verdict[a] # "denied"}
           among == IF dialled = {} THEN Tried(q) ELSE dialled
           first == CHOOSE a \in among : \A b \in among : a[2] <= b[2]
<1>1. 1 \in DOMAIN addrs[q]
  <2>1. addrs[q] \in UNION {[1 .. n -> IPs] : n \in 0 .. 2} /\ addrs[q] # <<>>
    BY DEF TypeOK, Phases, Phase
  <2> QED
    BY <2>1, SomeAddr
<1>2. <<q, 1>> \in Tried(q)
  <2>1. <<q, 1>> \in Attempts
    BY DEF Attempts
  <2>2. <<q, 1>>[1] = q /\ <<q, 1>>[2] = 1
    OBVIOUS
  <2> QED
    BY <1>1, <2>1, <2>2, Zenon DEF Tried
<1>3. \A a \in Tried(q) : a \in Attempts /\ a[1] = q /\ a[2] \in 1 .. 2 /\ a[2] \in DOMAIN addrs[q]
  BY ActorKinds DEF Tried
<1>4. among \subseteq Tried(q) /\ among # {}
  BY <1>2
<1>5. \E a \in among : \A b \in among : a[2] <= b[2]
  <2>1. CASE \E a \in among : a[2] = 1
    BY <1>3, <1>4, <2>1
  <2>2. CASE \A a \in among : a[2] # 1
    BY <1>3, <1>4, <2>2
  <2> QED
    BY <2>1, <2>2
<1>6. first \in among
  BY <1>5
<1>7. first \in Attempts /\ first[1] = q /\ vpc[first] = "ended" /\ first[2] \in DOMAIN addrs[q]
  BY <1>3, <1>4, <1>6
<1>8. verdict[first] \in {"denied"} \cup DialErrs \cup UserErrs
  BY <1>7 DEF Dialled, Target
<1>9. ASSUME AllDenied(q) PROVE verdict[first] = "denied"
  <2>1. ~Passes(first)
    <3>1. first[2] # 0
      BY <1>3, <1>4, <1>6
    <3>2. IPOf(first) = addrs[q][first[2]]
      BY <1>7, <3>1 DEF IPOf
    <3> QED
      BY <1>7, <1>9, <3>2 DEF AllDenied, Passes
  <2> QED
    BY <1>7, <2>1 DEF Dialled, Target
<1>10. FirstErr(q) = verdict[first]
  BY DEF FirstErr
<1>11. first \in Tried(q) /\ vpc[first] = "ended" /\ verdict[first] = FirstErr(q)
  BY <1>4, <1>6, <1>7, <1>10
<1> QED
  BY <1>8, <1>9, <1>10, <1>11

\* What ReplyFor gives.
LEMMA ReplyCodes ==
    ASSUME NEW e \in Errs, e # "nil"
    PROVE  /\ ReplyFor(e) \in 1 .. 8
           /\ ReplyFor(e) = 2 => e \in {"denied", "notAllowed"} \cup Forbidden
<1>1. CASE e \in Errnos
  BY <1>1 DEF Errnos, ReplyFor, errnoReply, Forbidden
<1>2. CASE e \notin Errnos
  BY <1>2 DEF Errs, Errnos, ReplyFor, Forbidden
<1> QED
  BY <1>1, <1>2

\* Of the places of an answer's addresses, one is the first.
LEMMA Least ==
    ASSUME NEW S, S \subseteq 1 .. 2, S # {}
    PROVE  \E i \in S : \A j \in S : i <= j
<1>1. CASE 1 \in S
  BY <1>1
<1>2. CASE 1 \notin S
  <2>1. \A i \in S : i = 2
    BY <1>2
  <2>2. PICK i \in S : TRUE
    OBVIOUS
  <2>3. \A j \in S : i <= j
    BY <2>1, <2>2
  <2> QED
    BY <2>2, <2>3
<1> QED
  BY <1>1, <1>2

\* lookupAllowed gives an address of the answer that the Filter allows, if there
\* is one.
LEMMA AllowedFirst ==
    ASSUME NEW ips \in Answers, FirstAllowed(ips) # NoIP
    PROVE  FirstAllowed(ips) \in IPs /\ allowIP(FirstAllowed(ips))
<1> DEFINE ok == {i \in DOMAIN ips : allowIP(ips[i])}
<1>1. DOMAIN ips \subseteq 1 .. 2 /\ \A i \in DOMAIN ips : ips[i] \in IPs
  <2>1. PICK n \in 1 .. 2 : ips \in [1 .. n -> IPs]
    BY ConnectAssumption
  <2> QED
    BY <2>1
<1>2. ok # {} /\ FirstAllowed(ips) = ips[CHOOSE i \in ok : \A j \in ok : i <= j]
  BY DEF FirstAllowed
<1>3. \E i \in ok : \A j \in ok : i <= j
  BY <1>1, <1>2, Least
<1>4. (CHOOSE i \in ok : \A j \in ok : i <= j) \in ok
  BY <1>3
<1> QED
  BY <1>1, <1>2, <1>4

QStages == {"start", "early", "dial", "race", "ask", "reply", "relay", "fail", "returned"}
Codes == 0 .. 8
AddrSeqs == UNION {[1 .. n -> IPs] : n \in 0 .. 2}

\* The handlers' state.
LEMMA HandlerTypeStep ==
    ASSUME IndInv, [Next]_vars
    PROVE  HandlerType'
<1>0. /\ qpc \in [Reqs -> QStages] /\ control \in [Reqs -> BOOLEAN] /\ addrs \in [Reqs -> AddrSeqs]
      /\ winner \in [Reqs -> 0 .. 2] /\ err \in [Reqs -> Errs] /\ replies \in [Reqs -> Seq(Codes)]
      /\ DialErrs \cup UserErrs \subseteq Errs
  BY ConnectAssumption DEF IndInv, TypeOK, QStages, Codes, AddrSeqs, Errs
<1>1. SUFFICES /\ qpc' \in [Reqs -> QStages] /\ control' \in [Reqs -> BOOLEAN]
               /\ addrs' \in [Reqs -> AddrSeqs] /\ winner' \in [Reqs -> 0 .. 2]
               /\ err' \in [Reqs -> Errs] /\ replies' \in [Reqs -> Seq(Codes)]
  BY DEF HandlerType, QStages, Codes, AddrSeqs
<1>2. ASSUME NEW a \in Actors, Vet(a) PROVE UNCHANGED handlervars
  BY <1>2, VetKeeps DEF handlervars
<1>3. ASSUME NEW a \in Attempts, Dialling(a)
      PROVE  UNCHANGED <<qpc, control, addrs, err, replies>> /\ winner' \in [Reqs -> 0 .. 2]
  <2>1. UNCHANGED <<qpc, control, addrs, err, replies>>
    BY <1>3, DiallingKeeps
  <2>2. a[1] \in Reqs /\ a[2] \in 0 .. 2
    BY ActorKinds
  <2>3. winner' = winner \/ winner' = [winner EXCEPT ![a[1]] = a[2]]
    BY <1>3 DEF Dialling, Start, Denied, Connect, Connected, ConnectFails, handlervars
  <2> QED
    BY <1>0, <2>1, <2>2, <2>3
<1>4. ASSUME NEW q \in Reqs, Handling(q)
      PROVE  /\ qpc' \in [Reqs -> QStages] /\ control' \in [Reqs -> BOOLEAN]
             /\ addrs' \in [Reqs -> AddrSeqs] /\ winner' \in [Reqs -> 0 .. 2]
             /\ err' \in [Reqs -> Errs] /\ replies' \in [Reqs -> Seq(Codes)]
  <2>1. qpc' \in [Reqs -> QStages] /\ control' \in [Reqs -> BOOLEAN]
    BY <1>0, <1>4 DEF Handling, Serve, DialCustom, Early, Dial, RaceLost, Post, PostAsked, Reply,
       RelayEnds, Fail, Resolve, ResolvePTR, NotSupported, GoQ, FailQ, FailLookup, Answer,
       handlervars, QStages
  <2>2. winner' = winner \/ winner' = [winner EXCEPT ![q] = 1]
    BY <1>4 DEF Handling, Serve, DialCustom, Early, Dial, RaceLost, Post, PostAsked, Reply,
       RelayEnds, Fail, Resolve, ResolvePTR, NotSupported, handlervars
  <2>3. winner' \in [Reqs -> 0 .. 2]
    <3>1. 1 \in 0 .. 2
      OBVIOUS
    <3> QED
      BY <1>0, <2>2, <3>1
  <2>4. addrs' \in [Reqs -> AddrSeqs]
    <3>1. CASE Dial(q)
      BY <1>0, <3>1, DialSets DEF IndInv, AddrSeqs
    <3> QED
      BY <1>0, <1>4, <3>1 DEF Handling, Serve, DialCustom, Early, RaceLost, Post, PostAsked, Reply,
         RelayEnds, Fail, Resolve, ResolvePTR, NotSupported, handlervars
  <2>5. err' = err \/ \E e \in Errs : err' = [err EXCEPT ![q] = e]
    <3>0. {"denied", "notFound", "unsupported", "other"} \subseteq Errs
      BY DEF Errs, Errnos
    <3>1. CASE RaceLost(q)
      <4>1. FirstErr(q) \in Errs
        BY <1>0, <3>0, <3>1, RaceError DEF RaceLost, IndInv
      <4> QED
        BY <3>1, <4>1 DEF RaceLost, FailQ
    <3>2. CASE DialCustom(q)
      BY <1>0, <3>0, <3>2 DEF DialCustom, FailQ
    <3>3. CASE Dial(q) \/ PostAsked(q) \/ NotSupported(q)
      BY <3>0, <3>3 DEF Dial, PostAsked, NotSupported, FailQ
    <3>4. CASE Resolve(q) \/ ResolvePTR(q)
      BY <1>0, <3>0, <3>4 DEF Resolve, ResolvePTR, Answer, FailLookup, FailQ
    <3> QED
      BY <1>4, <3>1, <3>2, <3>3, <3>4 DEF Handling, Serve, Early, Post, Reply, RelayEnds, Fail,
         handlervars
  <2>6. replies' = replies \/ \E c \in Codes : replies' = [replies EXCEPT ![q] = Append(@, c)]
    <3>1. CASE Fail(q)
      <4>1. err[q] \in Errs /\ err[q] # "nil"
        BY <1>0, <3>1 DEF IndInv, Replied, Outcome, Fail
      <4>2. ErrReply(q) \in Codes
        BY <4>1, ReplyCodes DEF ErrReply, Codes
      <4> QED
        BY <3>1, <4>2 DEF Fail, AddReply
    <3> QED
      BY <1>4, <3>1 DEF Handling, Serve, DialCustom, Early, Dial, RaceLost, Post, PostAsked, Reply,
         RelayEnds, Resolve, ResolvePTR, NotSupported, FailLookup, Answer, AddReply,
         handlervars, Codes
  <2>7. err' \in [Reqs -> Errs]
    BY <1>0, <2>5
  <2>8. replies' \in [Reqs -> Seq(Codes)]
    <3>1. \A c \in Codes : Append(replies[q], c) \in Seq(Codes)
      BY <1>0
    <3> QED
      BY <1>0, <2>6, <3>1
  <2> QED
    BY <2>1, <2>3, <2>4, <2>7, <2>8
<1> QED
  BY <1>0, <1>2, <1>3, <1>4, Steps, WorldKeeps DEF handlervars

VStages ==
    {"idle", "load", "try", "lock", "list", "store", "judge", "ask", "asked", "vetted",
     "connecting", "ended"}

\* The attempts' state.
LEMMA VetTypeStep ==
    ASSUME IndInv, [Next]_vars
    PROVE  VetType'
<1>0. /\ vpc \in [Actors -> VStages] /\ verdict \in [Actors -> Errs \cup {"ok"}]
      /\ sock \in [Actors -> {"none", "open", "closed"}] /\ self \in [Actors -> BOOLEAN]
      /\ disclosed \subseteq IPs /\ DialErrs \cup UserErrs \subseteq Errs
  BY ConnectAssumption DEF IndInv, TypeOK, VStages, Errs
<1>1. SUFFICES /\ vpc' \in [Actors -> VStages] /\ verdict' \in [Actors -> Errs \cup {"ok"}]
               /\ sock' \in [Actors -> {"none", "open", "closed"}] /\ self' \in [Actors -> BOOLEAN]
               /\ disclosed' \subseteq IPs
  BY DEF VetType, VStages
<1>2. ASSUME NEW a \in Actors, Vet(a)
      PROVE  /\ vpc' \in [Actors -> VStages] /\ verdict' \in [Actors -> Errs \cup {"ok"}]
             /\ UNCHANGED <<sock, self, disclosed>>
  <2>1. UNCHANGED <<sock, self, disclosed>>
    BY <1>2, VetKeeps DEF sockvars
  <2>2. PICK p \in {"try", "lock", "list", "store", "judge", "ask", "asked", "vetted"} :
             vpc' = [vpc EXCEPT ![a] = p]
    BY <1>2, VetKeeps
  <2>3. vpc' \in [Actors -> VStages]
    BY <1>0, <2>2 DEF VStages
  <2>4. verdict' = verdict \/ \E v \in {"ok", "denied"} : verdict' = [verdict EXCEPT ![a] = v]
    BY <1>2 DEF Vet, Load, TryLock, Lock, List, Store, Judge, Ask, Asked
  <2>5. verdict' \in [Actors -> Errs \cup {"ok"}]
    BY <1>0, <2>4 DEF Errs
  <2> QED
    BY <2>1, <2>3, <2>5
<1>3. ASSUME NEW a \in Attempts, Dialling(a)
      PROVE  /\ vpc' \in [Actors -> VStages] /\ verdict' \in [Actors -> Errs \cup {"ok"}]
             /\ sock' \in [Actors -> {"none", "open", "closed"}] /\ self' \in [Actors -> BOOLEAN]
             /\ disclosed' = disclosed
  <2>0. a \in Actors
    BY ActorKinds
  <2>1. disclosed' = disclosed
    BY <1>3, DiallingKeeps
  <2>2. PICK p \in {"load", "vetted", "connecting", "ended"} : vpc' = [vpc EXCEPT ![a] = p]
    BY <1>3, DiallingKeeps
  <2>3. vpc' \in [Actors -> VStages]
    BY <1>0, <2>2 DEF VStages
  <2>4. verdict' = verdict \/ \E v \in DialErrs \cup UserErrs \cup {"ok"} :
                             verdict' = [verdict EXCEPT ![a] = v]
    BY <1>3 DEF Dialling, Start, Denied, Connect, Connected, ConnectFails
  <2>5. verdict' \in [Actors -> Errs \cup {"ok"}]
    BY <1>0, <2>4
  <2>6. sock' = sock \/ \E v \in {"open", "closed"} : sock' = [sock EXCEPT ![a] = v]
    BY <1>3 DEF Dialling, Start, Denied, Connect, Connected, ConnectFails, sockvars
  <2>7. self' = self \/ \E v \in BOOLEAN : self' = [self EXCEPT ![a] = v]
    <3>1. CASE Connect(a)
      <4>1. (HasIP(IPOf(a)) \/ IPOf(a) \in Unspecified) \in BOOLEAN
        OBVIOUS
      <4> QED
        BY <3>1, <4>1, Zenon DEF Connect
    <3> QED
      BY <1>3, <3>1 DEF Dialling, Start, Denied, Connected, ConnectFails, sockvars
  <2> QED
    BY <1>0, <2>0, <2>1, <2>3, <2>5, <2>6, <2>7
<1>4. ASSUME NEW q \in Reqs, Handling(q)
      PROVE  /\ vpc' \in [Actors -> VStages] /\ UNCHANGED <<verdict, self>>
             /\ sock' \in [Actors -> {"none", "open", "closed"}] /\ disclosed' \subseteq IPs
  <2>1. UNCHANGED <<verdict, self>>
    BY <1>4, HandlingKeeps
  <2>2. vpc' = vpc \/ \E p \in VStages : vpc' = [vpc EXCEPT ![<<q, 0>>] = p]
    BY <1>4, HandlingKeeps DEF VStages
  <2>3. vpc' \in [Actors -> VStages]
    BY <1>0, <2>2
  <2>4. sock' = sock \/ \E i, v : v \in {"open", "closed"} /\ sock' = [sock EXCEPT ![i] = v]
    BY <1>4 DEF Handling, Serve, DialCustom, Early, Dial, RaceLost, Post, PostAsked, Reply,
       RelayEnds, Fail, Resolve, ResolvePTR, NotSupported, sockvars, CloseTarget
  <2>5. sock' \in [Actors -> {"none", "open", "closed"}]
    BY <1>0, <2>4
  <2>6. disclosed' \subseteq IPs
    <3>1. CASE Resolve(q)
      <4>1. \A ips \in Answers : FirstAllowed(ips) # NoIP => FirstAllowed(ips) \in IPs
        BY AllowedFirst
      <4> QED
        BY <1>0, <3>1, <4>1 DEF Resolve, Answer, FailLookup
    <3>2. CASE ResolvePTR(q)
      BY <1>0, <3>2 DEF ResolvePTR, Answer, FailLookup
    <3> QED
      BY <1>0, <1>4, <3>1, <3>2 DEF Handling, Serve, DialCustom, Early, Dial, RaceLost, Post,
         PostAsked, Reply, RelayEnds, Fail, NotSupported
  <2> QED
    BY <2>1, <2>3, <2>5, <2>6
<1> QED
  BY <1>0, <1>2, <1>3, <1>4, Steps, WorldKeeps DEF sockvars

\* Neither who dials nor a handler is in a check when it takes a step.
LEMMA NotChecking ==
    /\ \A a \in Attempts : Dialling(a) => vpc[a] \in {"idle", "vetted", "connecting"}
    /\ TypeOK /\ Phases =>
         \A q \in Reqs : Handling(q) => vpc' = vpc \/ vpc[<<q, 0>>] \in {"idle", "ended", "vetted"}
<1>1. ASSUME NEW a \in Attempts, Dialling(a) PROVE vpc[a] \in {"idle", "vetted", "connecting"}
  BY <1>1 DEF Dialling, Start, Denied, Connect, Connected, ConnectFails
<1>2. ASSUME TypeOK, Phases, NEW q \in Reqs, Handling(q)
      PROVE  vpc' = vpc \/ vpc[<<q, 0>>] \in {"idle", "ended", "vetted"}
  <2>1. qpc[q] \notin {"early", "ask"} => vpc[<<q, 0>>] \in {"idle", "ended"}
    BY <1>2 DEF Phases, Phase
  <2> QED
    BY <1>2, <2>1 DEF Handling, Serve, DialCustom, Early, Dial, RaceLost, Post, PostAsked, Reply,
       RelayEnds, Fail, Resolve, ResolvePTR, NotSupported, Handler
<1> QED
  BY <1>1, <1>2

\* A listing is made of the host's addresses, and a new one expires after 0.
LEMMA NewListings ==
    ASSUME HostType
    PROVE  /\ NoListing \in Listings
           /\ [NoListing EXCEPT !.expires = now + TTL] \in Listings
           /\ [NoListing EXCEPT !.expires = now + TTL].expires = now + TTL
           /\ \A f \in BOOLEAN, e \in 0 .. MaxNow + TTL :
                [failed |-> f, expires |-> e, ips |-> IF f THEN {} ELSE {ip \in IPs : HasIP(ip)}]
                  \in Listings
<1>1. now \in Nat /\ now <= MaxNow /\ TTL \in Nat /\ MaxNow \in Nat
  BY ConnectAssumption DEF HostType
<1>2. now + TTL \in 0 .. MaxNow + TTL /\ 0 \in 0 .. MaxNow + TTL
  BY <1>1
<1> QED
  BY <1>2 DEF NoListing, Listings

\* The listings, and who makes one.
LEMMA ListTypeStep ==
    ASSUME IndInv, [Next]_vars
    PROVE  ListType'
<1>0. /\ HostType /\ ListType /\ vpc \in [Actors -> VStages] /\ Never = MaxNow + 1
      /\ MaxNow \in Nat /\ now \in 0 .. Never /\ Never \in 0 .. Never
  BY TypeParts, ConnectAssumption DEF IndInv, VetType, VStages, HostType, Never
<1>1. ASSUME UNCHANGED listvars,
             mu # None => vpc'[mu] = vpc[mu]
      PROVE  ListType'
  BY <1>0, <1>1 DEF ListType, listvars
<1>2. ASSUME NEW a \in Actors, Vet(a) PROVE ListType'
  <2>0. /\ seen \in [Actors -> Listings] /\ checked \in [Actors -> 0 .. Never]
        /\ missed \in [Actors -> BOOLEAN] /\ cached \in Listings /\ mu \in Actors \cup {None}
        /\ a # None
    BY <1>0, ActorKinds DEF ListType
  <2>1. PICK p \in {"try", "lock", "list", "store", "judge", "ask", "asked", "vetted"} :
             vpc' = [vpc EXCEPT ![a] = p]
    BY <1>2, VetKeeps
  <2>2. vpc'[a] = p /\ \A b \in Actors : b # a => vpc'[b] = vpc[b]
    BY <1>0, <2>1
  <2>3. cached' \in Listings
    BY <1>2, <2>0 DEF Vet, Load, TryLock, Lock, List, Store, Judge, Ask, Asked, Check, listvars
  <2>4. missed' \in [Actors -> BOOLEAN]
    <3>1. CASE Judge(a)
      <4>1. PICK v : v \in BOOLEAN /\ missed' = [missed EXCEPT ![a] = v]
        BY <3>1, Zenon DEF Judge
      <4> QED
        BY <2>0, <4>1
    <3> QED
      BY <1>2, <2>0, <3>1 DEF Vet, Load, TryLock, Lock, List, Store, Ask, Asked, listvars
  <2>5. checked' \in [Actors -> 0 .. Never]
    <3>1. checked' = checked \/ \E t \in {now, Never} : checked' = [checked EXCEPT ![a] = t]
      BY <1>2 DEF Vet, Load, TryLock, Lock, List, Store, Judge, Ask, Asked, Check, listvars
    <3> QED
      BY <1>0, <2>0, <3>1
  <2>6. seen' \in [Actors -> Listings]
    <3>1. CASE List(a)
      <4>1. seen[a].expires \in 0 .. MaxNow + TTL
        BY <2>0 DEF Listings
      <4>2. PICK h \in Listings : seen' = [seen EXCEPT ![a] = h]
        BY <1>0, <2>0, <3>1, <4>1, NewListings DEF List
      <4> QED
        BY <2>0, <4>2
    <3>2. CASE ~List(a)
      <4>1. \/ seen' = seen
            \/ \E h \in {cached, NoListing, [NoListing EXCEPT !.expires = now + TTL]} :
                 seen' = [seen EXCEPT ![a] = h]
        BY <1>2, <3>2 DEF Vet, Load, TryLock, Lock, Store, Judge, Ask, Asked, Check, listvars
      <4> QED
        BY <1>0, <2>0, <4>1, NewListings
    <3> QED
      BY <3>1, <3>2
  <2>7. /\ mu' \in Actors \cup {None}
        /\ mu' # None => vpc'[mu'] \in {"list", "store"}
    <3>1. CASE TryLock(a) \/ Lock(a)
      <4>1. mu' = mu \/ mu' = None \/ (mu' = a /\ GoV(a, "list"))
        BY <3>1 DEF TryLock, Lock, Check
      <4>2. CASE mu' = mu
        <5>1. mu # a
          BY <1>0, <2>0, <3>1 DEF ListType, TryLock, Lock
        <5> QED
          BY <1>0, <2>0, <2>2, <4>2, <5>1 DEF ListType
      <4>3. CASE mu' = a /\ GoV(a, "list")
        BY <1>0, <4>3 DEF GoV
      <4> QED
        BY <4>1, <4>2, <4>3
    <3>2. CASE List(a)
      <4>1. vpc'[a] = "store" /\ mu' = mu
        BY <1>0, <3>2 DEF List, GoV
      <4> QED
        BY <1>0, <2>0, <2>2, <4>1 DEF ListType
    <3>3. CASE Store(a)
      BY <3>3 DEF Store
    <3>4. CASE Load(a) \/ Judge(a) \/ Ask(a) \/ Asked(a)
      <4>1. mu' = mu /\ vpc[a] \notin {"list", "store"}
        BY <3>4 DEF Load, Judge, Ask, Asked, listvars
      <4> QED
        BY <1>0, <2>0, <2>2, <4>1 DEF ListType
    <3> QED
      BY <1>2, <3>1, <3>2, <3>3, <3>4 DEF Vet
  <2> QED
    BY <2>3, <2>4, <2>5, <2>6, <2>7 DEF ListType
<1>3. ASSUME NEW a \in Attempts, Dialling(a) PROVE ListType'
  <2>1. a \in Actors /\ vpc[a] \notin {"list", "store"}
    BY <1>3, ActorKinds, NotChecking
  <2>2. PICK p : vpc' = [vpc EXCEPT ![a] = p]
    BY <1>3, DiallingKeeps
  <2>3. UNCHANGED listvars
    BY <1>3, DiallingKeeps
  <2> QED
    BY <1>0, <1>1, <2>1, <2>2, <2>3 DEF ListType
<1>4. ASSUME NEW q \in Reqs, Handling(q) PROVE ListType'
  <2>1. vpc' = vpc \/ vpc[<<q, 0>>] \notin {"list", "store"}
    BY <1>4, NotChecking DEF IndInv
  <2>2. vpc' = vpc \/ \E p : vpc' = [vpc EXCEPT ![<<q, 0>>] = p]
    BY <1>4, HandlingKeeps
  <2>3. UNCHANGED listvars
    BY <1>4, HandlingKeeps
  <2> QED
    BY <1>0, <1>1, <2>1, <2>2, <2>3 DEF ListType
<1> QED
  BY <1>1, <1>2, <1>3, <1>4, Steps, WorldKeeps

\* The conns' scratch.
LEMMA ScratchTypeStep ==
    ASSUME IndInv, [Next]_vars
    PROVE  ScratchType'
<1>0. /\ busy \in [Reqs -> BOOLEAN] /\ scratch \in [Reqs -> IPs \cup {NoIP}]
      /\ using \in [Actors -> BOOLEAN]
      /\ \A q \in Reqs : busy[q] <=> \E i \in 0 .. 2 : using[<<q, i>>]
  BY DEF IndInv, TypeOK
<1>1. ASSUME UNCHANGED scrvars PROVE ScratchType'
  BY <1>0, <1>1 DEF ScratchType, scrvars
<1>2. ASSUME NEW a \in Actors, Vet(a) PROVE ScratchType'
  <2>0. a[1] \in Reqs /\ a[2] \in 0 .. 2 /\ a = <<a[1], a[2]>>
    BY ActorKinds
  <2>1. CASE Ask(a)
    <3>1. ~using[a]
      BY <2>1 DEF IndInv, Owners, Ask
    <3>2. IPOf(a) \in IPs
      BY <1>2, <2>1, Vetting, AddrOf DEF IndInv, Ask
    <3>3. busy' = [busy EXCEPT ![a[1]] = TRUE] /\ using' = [using EXCEPT ![a] = ~busy[a[1]]]
      BY <2>1 DEF Ask, Swap
    <3>4. busy' \in [Reqs -> BOOLEAN] /\ using' \in [Actors -> BOOLEAN]
      BY <1>0, <2>0, <3>3
    <3>5. scratch' \in [Reqs -> IPs \cup {NoIP}]
      BY <1>0, <2>1, <3>2 DEF Ask
    <3>6. ASSUME NEW q \in Reqs PROVE busy'[q] <=> \E i \in 0 .. 2 : using'[<<q, i>>]
      <4>0. \A i \in 0 .. 2 : <<q, i>> \in Actors
        BY DEF Actors
      <4>1. CASE q # a[1]
        <5>1. busy'[q] = busy[q] /\ \A i \in 0 .. 2 : using'[<<q, i>>] = using[<<q, i>>]
          BY <1>0, <2>0, <3>3, <4>0, <4>1
        <5> QED
          BY <1>0, <5>1
      <4>2. CASE q = a[1] /\ busy[q]
        <5>1. PICK i \in 0 .. 2 : using[<<q, i>>]
          BY <1>0, <4>2
        <5>2. <<q, i>> # a /\ <<q, i>> \in Actors
          BY <3>1, <4>0, <5>1
        <5>3. using'[<<q, i>>]
          BY <1>0, <3>3, <5>1, <5>2
        <5> QED
          BY <1>0, <3>3, <4>2, <5>3
      <4>3. CASE q = a[1] /\ ~busy[q]
        <5>1. using'[a] /\ busy'[q]
          BY <1>0, <3>3, <4>3
        <5> QED
          BY <2>0, <4>3, <5>1
      <4> QED
        BY <4>1, <4>2, <4>3
    <3> QED
      BY <3>4, <3>5, <3>6 DEF ScratchType
  <2>2. CASE Asked(a)
    <3>3. /\ busy' = [busy EXCEPT ![a[1]] = busy[a[1]] /\ ~using[a]]
          /\ using' = [using EXCEPT ![a] = FALSE]
          /\ scratch' = [scratch EXCEPT ![a[1]] = IF using[a] THEN NoIP ELSE @]
      BY <2>2 DEF Asked
    <3>4. busy' \in [Reqs -> BOOLEAN] /\ using' \in [Actors -> BOOLEAN]
      BY <1>0, <2>0, <3>3
    <3>5. scratch' \in [Reqs -> IPs \cup {NoIP}]
      BY <1>0, <3>3
    <3>6. ASSUME NEW q \in Reqs PROVE busy'[q] <=> \E i \in 0 .. 2 : using'[<<q, i>>]
      <4>0. \A i \in 0 .. 2 : <<q, i>> \in Actors
        BY DEF Actors
      <4>1. CASE q # a[1]
        <5>1. busy'[q] = busy[q]
          BY <1>0, <3>3, <4>1
        <5>2. \A i \in 0 .. 2 : using'[<<q, i>>] = using[<<q, i>>]
          <6>1. \A i \in 0 .. 2 : <<q, i>> # a
            BY <2>0, <4>1
          <6> QED
            BY <1>0, <3>3, <4>0, <6>1
        <5> QED
          BY <1>0, <5>1, <5>2
      <4>2. CASE q = a[1] /\ using[a]
        <5>1. \A i \in 0 .. 2 : using[<<q, i>>] => <<q, i>> = a
          BY <4>0, <4>2 DEF IndInv, Owners
        <5>2. \A i \in 0 .. 2 : ~using'[<<q, i>>]
          BY <1>0, <3>3, <4>0, <5>1
        <5>3. ~busy'[q]
          BY <1>0, <3>3, <4>2
        <5> QED
          BY <5>2, <5>3
      <4>3. CASE q = a[1] /\ ~using[a]
        <5>1. busy'[q] <=> busy[q]
          BY <1>0, <3>3, <4>3
        <5>2. \A i \in 0 .. 2 : using'[<<q, i>>] <=> using[<<q, i>>]
          BY <1>0, <3>3, <4>0, <4>3
        <5> QED
          BY <1>0, <5>1, <5>2
      <4> QED
        BY <4>1, <4>2, <4>3
    <3> QED
      BY <3>4, <3>5, <3>6 DEF ScratchType
  <2> QED
    BY <1>1, <1>2, <2>1, <2>2 DEF Vet, Load, TryLock, Lock, List, Store, Judge
<1>3. ASSUME NEW a \in Attempts, Dialling(a) PROVE UNCHANGED scrvars
  BY <1>3, DiallingKeeps
<1>4. ASSUME NEW q \in Reqs, Handling(q) PROVE UNCHANGED scrvars
  BY <1>4, HandlingKeeps
<1> QED
  BY <1>1, <1>2, <1>3, <1>4, Steps, WorldKeeps

\* The types.
LEMMA TypeStep ==
    ASSUME IndInv, [Next]_vars
    PROVE  TypeOK'
<1>1. HostType' /\ ListType' /\ HandlerType' /\ VetType' /\ ScratchType'
  BY HostTypeStep, ListTypeStep, HandlerTypeStep, VetTypeStep, ScratchTypeStep, TypeParts
     DEF IndInv
<1> QED
  BY <1>1, Zenon DEF TypeOK, HostType, ListType, HandlerType, VetType, ScratchType

-----------------------------------------------------------------------------
(* Where a step leaves the actors and the requests it is not of.           *)

\* A step of an actor's vet moves that actor alone.
LEMMA VetMoves ==
    ASSUME TypeOK, NEW a \in Actors, Vet(a)
    PROVE  /\ vpc'[a] \in {"try", "lock", "list", "store", "judge", "ask", "asked", "vetted"}
           /\ \A b \in Actors : b # a => /\ vpc'[b] = vpc[b] /\ verdict'[b] = verdict[b]
                                         /\ missed'[b] = missed[b]
           /\ UNCHANGED <<qpc, control, addrs, winner, err, replies, sock, self, disclosed>>
<1>0. vpc \in [Actors -> VStages] /\ verdict \in [Actors -> Errs \cup {"ok"}]
      /\ missed \in [Actors -> BOOLEAN]
  BY DEF TypeOK, VStages
<1>1. vpc'[a] \in {"try", "lock", "list", "store", "judge", "ask", "asked", "vetted"}
      /\ \A b \in Actors : b # a => vpc'[b] = vpc[b]
  BY <1>0, VetKeeps
<1>2. verdict' = verdict \/ \E v : verdict' = [verdict EXCEPT ![a] = v]
  BY DEF Vet, Load, TryLock, Lock, List, Store, Judge, Ask, Asked
<1>3. missed' = missed \/ \E v : missed' = [missed EXCEPT ![a] = v]
  BY DEF Vet, Load, TryLock, Lock, List, Store, Judge, Ask, Asked, listvars
<1> QED
  BY <1>0, <1>1, <1>2, <1>3, VetKeeps DEF handlervars, sockvars

\* A step of an attempt's dial moves that attempt alone.
LEMMA DiallingMoves ==
    ASSUME TypeOK, NEW a \in Attempts, Dialling(a)
    PROVE  /\ vpc'[a] \in {"load", "vetted", "connecting", "ended"}
           /\ \A b \in Actors : b # a =>
                /\ vpc'[b] = vpc[b] /\ verdict'[b] = verdict[b]
                /\ sock'[b] = sock[b] /\ self'[b] = self[b]
           /\ UNCHANGED <<qpc, control, addrs, err, replies, disclosed, missed>>
<1>0. /\ vpc \in [Actors -> VStages] /\ verdict \in [Actors -> Errs \cup {"ok"}]
      /\ sock \in [Actors -> {"none", "open", "closed"}] /\ self \in [Actors -> BOOLEAN]
      /\ a \in Actors
  BY ActorKinds DEF TypeOK, VStages
<1>1. vpc'[a] \in {"load", "vetted", "connecting", "ended"}
      /\ \A b \in Actors : b # a => vpc'[b] = vpc[b]
  BY <1>0, DiallingKeeps
<1>2. verdict' = verdict \/ \E v : verdict' = [verdict EXCEPT ![a] = v]
  BY DEF Dialling, Start, Denied, Connect, Connected, ConnectFails
<1>3. sock' = sock \/ \E v : sock' = [sock EXCEPT ![a] = v]
  BY DEF Dialling, Start, Denied, Connect, Connected, ConnectFails, sockvars
<1>4. self' = self \/ \E v : self' = [self EXCEPT ![a] = v]
  BY DEF Dialling, Start, Denied, Connect, Connected, ConnectFails, sockvars
<1>5. UNCHANGED <<qpc, control, addrs, err, replies, disclosed, missed>>
  BY DiallingKeeps DEF listvars
<1> QED
  BY <1>0, <1>1, <1>2, <1>3, <1>4, <1>5

\* A step of a handler moves that handler, and what is its request's.
LEMMA HandlingMoves ==
    ASSUME TypeOK, NEW q \in Reqs, Handling(q)
    PROVE  /\ \A b \in Actors : b # <<q, 0>> => vpc'[b] = vpc[b]
           /\ UNCHANGED <<verdict, missed, self>>
           /\ \A r \in Reqs : r # q =>
                /\ qpc'[r] = qpc[r] /\ control'[r] = control[r] /\ addrs'[r] = addrs[r]
                /\ winner'[r] = winner[r] /\ err'[r] = err[r] /\ replies'[r] = replies[r]
           /\ \A b \in Actors : b[1] # q => sock'[b] = sock[b]
<1>0. /\ vpc \in [Actors -> VStages] /\ qpc \in [Reqs -> QStages] /\ control \in [Reqs -> BOOLEAN]
      /\ addrs \in [Reqs -> AddrSeqs] /\ winner \in [Reqs -> 0 .. 2] /\ err \in [Reqs -> Errs]
      /\ replies \in [Reqs -> Seq(Codes)] /\ sock \in [Actors -> {"none", "open", "closed"}]
  BY DEF TypeOK, VStages, QStages, AddrSeqs, Codes
<1>1. UNCHANGED <<verdict, missed, self>> /\ \A b \in Actors : b # <<q, 0>> => vpc'[b] = vpc[b]
  BY <1>0, HandlingKeeps DEF listvars
<1>2. qpc' = qpc \/ \E v : qpc' = [qpc EXCEPT ![q] = v]
  BY HandlingKeeps
<1>3. control' = control \/ \E v : control' = [control EXCEPT ![q] = v]
  BY DEF Handling, Serve, DialCustom, Early, Dial, RaceLost, Post, PostAsked, Reply, RelayEnds,
         Fail, Resolve, ResolvePTR, NotSupported
<1>4. addrs' = addrs \/ \E v : addrs' = [addrs EXCEPT ![q] = v]
  BY DEF Handling, Serve, DialCustom, Early, Dial, RaceLost, Post, PostAsked, Reply, RelayEnds,
         Fail, Resolve, ResolvePTR, NotSupported
<1>5. winner' = winner \/ \E v : winner' = [winner EXCEPT ![q] = v]
  BY DEF Handling, Serve, DialCustom, Early, Dial, RaceLost, Post, PostAsked, Reply, RelayEnds,
         Fail, Resolve, ResolvePTR, NotSupported
<1>6. err' = err \/ \E v : err' = [err EXCEPT ![q] = v]
  BY DEF Handling, Serve, DialCustom, Early, Dial, RaceLost, Post, PostAsked, Reply, RelayEnds,
         Fail, Resolve, ResolvePTR, NotSupported, FailQ, FailLookup, Answer
<1>7. replies' = replies \/ \E v : replies' = [replies EXCEPT ![q] = v]
  BY DEF Handling, Serve, DialCustom, Early, Dial, RaceLost, Post, PostAsked, Reply, RelayEnds,
         Fail, Resolve, ResolvePTR, NotSupported, FailLookup, Answer, AddReply
<1>8. sock' = sock \/ \E i, v : sock' = [sock EXCEPT ![<<q, i>>] = v]
  <2>1. CASE DialCustom(q)
    BY <2>1 DEF DialCustom
  <2>2. CASE PostAsked(q) \/ Reply(q) \/ RelayEnds(q)
    BY <2>2 DEF PostAsked, Reply, RelayEnds, CloseTarget
  <2> QED
    BY <2>1, <2>2 DEF Handling, Serve, Early, Dial, RaceLost, Post, Fail, Resolve, ResolvePTR,
       NotSupported, sockvars
<1>9. \A r \in Reqs : r # q =>
        /\ qpc'[r] = qpc[r] /\ control'[r] = control[r] /\ addrs'[r] = addrs[r]
        /\ winner'[r] = winner[r] /\ err'[r] = err[r] /\ replies'[r] = replies[r]
  BY <1>0, <1>2, <1>3, <1>4, <1>5, <1>6, <1>7
<1>10. ASSUME NEW b \in Actors, b[1] # q PROVE sock'[b] = sock[b]
  <2>1. \A i : <<q, i>> # b
    BY <1>10
  <2> QED
    BY <1>0, <1>8, <2>1
<1> QED
  BY <1>1, <1>9, <1>10

\* The host's changes move neither.
LEMMA WorldMoves ==
    ASSUME Tick \/ HostChanges \/ UNCHANGED vars
    PROVE  UNCHANGED <<qpc, control, addrs, winner, err, replies, vpc, verdict, sock, self,
                       cached, mu, seen, checked, missed, busy, scratch, using, disclosed>>
BY WorldKeeps DEF listvars, handlervars, scrvars, sockvars

-----------------------------------------------------------------------------
(* The parts of the invariant, step by step.                               *)

\* Phase depends on its request alone.
LEMMA PhaseFrame ==
    ASSUME NEW q \in Reqs, Phase(q), UNCHANGED <<cfg, ask>>,
           qpc'[q] = qpc[q], addrs'[q] = addrs[q], winner'[q] = winner[q],
           vpc'[<<q, 0>>] = vpc[<<q, 0>>],
           vpc'[<<q, winner[q]>>] = vpc[<<q, winner[q]>>],
           verdict'[<<q, winner[q]>>] = verdict[<<q, winner[q]>>]
    PROVE  Phase(q)'
BY DEF Phase

\* The stages.
LEMMA PhasesStep ==
    ASSUME IndInv, [Next]_vars
    PROVE  Phases'
<1>0. TypeOK /\ UNCHANGED <<cfg, ask>> /\ vpc \in [Actors -> VStages] /\ qpc \in [Reqs -> QStages]
      /\ addrs \in [Reqs -> AddrSeqs] /\ winner \in [Reqs -> 0 .. 2]
  BY AllowKept DEF IndInv, TypeOK, VStages, QStages, AddrSeqs
<1>1. SUFFICES ASSUME NEW q \in Reqs PROVE Phase(q)'
  BY DEF Phases
<1>2. Phase(q) /\ <<q, 0>> \in Actors /\ winner[q] \in 0 .. 2 /\ <<q, winner[q]>> \in Actors
  BY <1>0, ActorKinds DEF IndInv, Phases, Actors
<1>3. ASSUME NEW a \in Actors, Vet(a) PROVE Phase(q)'
  <2>1. vpc[a] \in {"load"} \cup Checking /\ (a[2] # 0 \/ qpc[a[1]] \in {"early", "ask"})
    BY <1>3, Vetting DEF IndInv
  <2>2. CASE a = <<q, 0>>
    <3>1. winner[q] # 0 => /\ vpc'[<<q, winner[q]>>] = vpc[<<q, winner[q]>>]
                           /\ verdict'[<<q, winner[q]>>] = verdict[<<q, winner[q]>>]
      BY <1>0, <1>2, <1>3, <2>2, VetMoves
    <3>2. UNCHANGED <<qpc, addrs, winner>>
      BY <1>0, <1>3, VetMoves
    <3>3. vpc'[a] \notin {"idle", "connecting", "ended", "load"} /\ qpc[q] \in {"early", "ask"}
      BY <1>0, <1>3, <2>1, <2>2, VetMoves
    <3>4. qpc[q] = "ask" => vpc'[a] \in {"asked", "vetted"}
      <4>1. ASSUME qpc[q] = "ask" PROVE vpc[a] \in {"ask", "asked", "vetted"}
        BY <1>2, <2>2, <4>1 DEF Phase
      <4> QED
        BY <1>0, <1>3, <4>1 DEF Vet, Load, TryLock, Lock, List, Store, Judge, Ask, Asked, GoV
    <3> QED
      BY <1>0, <1>2, <2>2, <3>1, <3>2, <3>3, <3>4 DEF Phase
  <2>3. CASE a # <<q, 0>> /\ a # <<q, winner[q]>>
    BY <1>0, <1>2, <1>3, <2>3, VetMoves, PhaseFrame
  <2>4. CASE a = <<q, winner[q]>> /\ a # <<q, 0>>
    <3>1. addrs[q] = <<>>
      BY <1>2, <2>1, <2>4 DEF Phase, Checking
    <3>2. vpc[a] = "idle"
      <4>1. a \in Attempts /\ a[1] = q /\ a[2] = winner[q]
        BY <1>2, <2>4, ActorKinds
      <4> QED
        BY <3>1, <4>1 DEF IndInv, Attempting, Attempt
    <3> QED
      BY <2>1, <3>2 DEF Checking
  <2> QED
    BY <2>2, <2>3, <2>4
<1>4. ASSUME NEW a \in Attempts, Dialling(a) PROVE Phase(q)'
  <2>0. a \in Actors /\ a # <<q, 0>> /\ a[1] \in Reqs /\ a[2] \in 1 .. 2 /\ a = <<a[1], a[2]>>
    BY ActorKinds
  <2>1. vpc'[<<q, 0>>] = vpc[<<q, 0>>] /\ UNCHANGED <<qpc, addrs>>
    BY <1>0, <1>2, <1>4, <2>0, DiallingMoves
  <2>2. CASE winner[q] # 0 /\ addrs[q] # <<>> /\ a = <<q, winner[q]>>
    BY <1>2, <1>4, <2>2, NotChecking DEF Phase
  <2>3. CASE winner[q] # 0 /\ addrs[q] # <<>> /\ a # <<q, winner[q]>>
    <3>1. qpc[q] # "start"
      BY <1>2, <2>3 DEF Phase, Before
    <3>2. winner'[q] = winner[q]
      BY <2>3, <3>1, WinnerKept DEF IndInv
    <3> QED
      BY <1>0, <1>2, <1>4, <2>1, <2>3, <3>2, DiallingMoves, PhaseFrame
  <2>4. CASE Connected(a) /\ a[1] = q /\ winner[q] = 0
    <3>1. a[2] \in DOMAIN addrs[q] /\ addrs[q] # <<>> /\ verdict[a] = "ok" /\ qpc[q] = "race"
      BY <2>4 DEF Connected, IndInv, Attempting, Attempt, Dialled, Target
    <3>2. winner'[q] = a[2] /\ vpc'[a] = "ended" /\ verdict' = verdict
      BY <1>0, <2>0, <2>4 DEF Connected, GoV
    <3> QED
      BY <1>0, <1>2, <2>0, <2>1, <2>4, <3>1, <3>2 DEF Phase, Before
  <2>5. CASE ~(Connected(a) /\ a[1] = q /\ winner[q] = 0) /\ (winner[q] = 0 \/ addrs[q] = <<>>)
    <3>1. winner'[q] = winner[q]
      BY <1>0, <1>4, <2>5 DEF Dialling, Start, Denied, Connect, Connected, ConnectFails,
         handlervars
    <3> QED
      BY <1>0, <1>2, <2>1, <2>5, <3>1 DEF Phase
  <2> QED
    BY <2>2, <2>3, <2>4, <2>5
<1>5. ASSUME NEW r \in Reqs, Handling(r), r # q PROVE Phase(q)'
  <2>1. <<q, 0>> # <<r, 0>> /\ <<q, winner[q]>> # <<r, 0>>
    BY <1>5
  <2> QED
    BY <1>0, <1>2, <1>5, <2>1, HandlingMoves, PhaseFrame
<1>6. ASSUME Handling(q) PROVE Phase(q)'
  <2>0. /\ winner[q] # 0 => /\ vpc'[<<q, winner[q]>>] = vpc[<<q, winner[q]>>]
                            /\ verdict'[<<q, winner[q]>>] = verdict[<<q, winner[q]>>]
    BY <1>0, <1>2, <1>6, HandlingMoves
  <2>1. CASE Serve(q)
    <3>1. /\ qpc[q] = "start" /\ ask[q].cmd = "connect" /\ ~cfg.custom /\ UNCHANGED <<addrs, winner>>
          /\ \/ vetEarly(q) /\ qpc'[q] = "early" /\ vpc'[<<q, 0>>] = "load"
             \/ qpc'[q] = "dial" /\ vpc' = vpc
      BY <1>0, <1>2, <2>1 DEF Serve, GoQ, GoV, Handler
    <3> QED
      BY <1>0, <1>2, <3>1 DEF Phase, Before, vetEarly
  <2>2. CASE DialCustom(q)
    <3>1. /\ qpc[q] = "start" /\ ask[q].cmd = "connect" /\ cfg.custom /\ UNCHANGED <<addrs, vpc>>
          /\ \/ qpc'[q] = "reply" /\ winner'[q] = 1
             \/ qpc'[q] = "fail" /\ winner' = winner
      BY <1>0, <1>2, <2>2 DEF DialCustom, GoQ, FailQ
    <3> QED
      BY <1>0, <1>2, <3>1 DEF Phase, Before
  <2>3. CASE Early(q)
    <3>1. /\ qpc[q] = "early" /\ qpc'[q] = "dial" /\ vpc'[<<q, 0>>] = "idle"
          /\ UNCHANGED <<addrs, winner>>
      BY <1>0, <1>2, <2>3 DEF Early, GoQ, GoV, Handler
    <3> QED
      BY <1>0, <1>2, <3>1 DEF Phase, Before
  <2>4. CASE Dial(q)
    <3>1. /\ qpc[q] = "dial" /\ UNCHANGED <<vpc, winner>>
          /\ \/ qpc'[q] = "race" /\ addrs'[q] # <<>>
             \/ qpc'[q] = "fail" /\ addrs' = addrs
      BY <1>0, <2>4, DialSets DEF Dial, GoQ, FailQ
    <3> QED
      BY <1>0, <1>2, <3>1 DEF Phase, Before
  <2>5. CASE RaceLost(q)
    <3>1. /\ qpc[q] = "race" /\ qpc'[q] = "fail" /\ winner[q] = 0
          /\ UNCHANGED <<vpc, addrs, winner, verdict>>
      BY <1>0, <2>5 DEF RaceLost, FailQ, GoQ
    <3> QED
      BY <1>0, <1>2, <3>1 DEF Phase, Before
  <2>6. CASE Post(q)
    <3>1. /\ qpc[q] = "race" /\ winner[q] # 0 /\ UNCHANGED <<addrs, winner>>
          /\ \/ qpc'[q] = "ask" /\ vpc'[<<q, 0>>] = "ask"
             \/ qpc'[q] = "reply" /\ vpc' = vpc
      BY <1>0, <1>2, <2>6 DEF Post, GoQ, GoV, Handler
    <3> QED
      BY <1>0, <1>2, <2>0, <3>1 DEF Phase, Before
  <2>7. CASE PostAsked(q)
    <3>1. /\ qpc[q] = "ask" /\ UNCHANGED <<addrs, winner>> /\ vpc'[<<q, 0>>] = "ended"
          /\ qpc'[q] \in {"reply", "fail"}
      BY <1>0, <1>2, <2>7 DEF PostAsked, GoQ, GoV, FailQ, Handler
    <3> QED
      BY <1>0, <1>2, <2>0, <3>1 DEF Phase, Before
  <2>8. CASE Reply(q) \/ RelayEnds(q) \/ Fail(q)
    <3>1. /\ qpc[q] \in {"reply", "relay", "fail"} /\ qpc'[q] \in {"relay", "returned"}
          /\ qpc'[q] = "relay" => qpc[q] = "reply"
          /\ UNCHANGED <<addrs, winner, vpc, verdict>>
      BY <1>0, <2>8 DEF Reply, RelayEnds, Fail, GoQ
    <3> QED
      BY <1>0, <1>2, <3>1 DEF Phase, Before
  <2>9. CASE Resolve(q) \/ ResolvePTR(q) \/ NotSupported(q)
    <3>1. /\ qpc[q] = "start" /\ qpc'[q] \in {"fail", "returned"}
          /\ UNCHANGED <<addrs, winner, vpc>>
      BY <1>0, <2>9 DEF Resolve, ResolvePTR, NotSupported, Answer, FailLookup, FailQ, GoQ
    <3> QED
      BY <1>0, <1>2, <3>1 DEF Phase, Before
  <2> QED
    BY <1>6, <2>1, <2>2, <2>3, <2>4, <2>5, <2>6, <2>7, <2>8, <2>9 DEF Handling
<1>7. CASE Tick \/ HostChanges \/ UNCHANGED vars
  BY <1>0, <1>2, <1>7, WorldMoves, PhaseFrame
<1> QED
  BY <1>3, <1>4, <1>5, <1>6, <1>7, Steps

\* The attempts.
LEMMA AttemptingStep ==
    ASSUME IndInv, [Next]_vars
    PROVE  Attempting'
<1>0. /\ TypeOK /\ vpc \in [Actors -> VStages] /\ qpc \in [Reqs -> QStages]
      /\ addrs \in [Reqs -> AddrSeqs] /\ winner \in [Reqs -> 0 .. 2]
      /\ sock \in [Actors -> {"none", "open", "closed"}] /\ self \in [Actors -> BOOLEAN]
  BY DEF IndInv, TypeOK, VStages, QStages, AddrSeqs
<1>1. SUFFICES ASSUME NEW a \in Attempts PROVE Attempt(a)'
  BY DEF Attempting
<1> DEFINE q == a[1]
<1>2. /\ Attempt(a) /\ a \in Actors /\ q \in Reqs /\ a[2] \in 1 .. 2 /\ a # <<q, 0>>
      /\ a = <<q, a[2]>> /\ Phase(q)
  BY ActorKinds DEF IndInv, Attempting, Phases
<1>3. ASSUME NEW b \in Actors, Vet(b) PROVE Attempt(a)'
  <2>1. vpc[b] \in {"load"} \cup Checking
    BY <1>3, Vetting DEF IndInv
  <2>2. UNCHANGED <<qpc, addrs, winner, sock, self>> /\ (b # a => vpc'[a] = vpc[a])
    BY <1>0, <1>2, <1>3, VetMoves
  <2> QED
    BY <1>2, <2>1, <2>2 DEF Attempt, Checking
<1>4. ASSUME NEW b \in Attempts, Dialling(b) PROVE Attempt(a)'
  <2>0. UNCHANGED <<qpc, addrs>> /\ b \in Actors /\ b[2] \in 1 .. 2 /\ b[1] \in Reqs
    BY <1>0, <1>4, DiallingMoves, ActorKinds
  <2>1. CASE b # a
    <3>1. vpc'[a] = vpc[a] /\ sock'[a] = sock[a] /\ self'[a] = self[a]
      BY <1>0, <1>2, <1>4, <2>1, DiallingMoves
    <3>2. winner'[q] = winner[q] \/ (winner[q] = 0 /\ winner'[q] = b[2])
      BY <1>0, <1>2, <1>4, <2>0 DEF Dialling, Start, Denied, Connect, Connected, ConnectFails,
         handlervars
    <3> QED
      BY <1>2, <2>0, <3>1, <3>2 DEF Attempt
  <2>2. CASE b = a /\ Start(a)
    <3>1. qpc[q] = "race" /\ a[2] \in DOMAIN addrs[q] /\ UNCHANGED <<sock, self, winner>>
      BY <2>2 DEF Start, Tried, sockvars, handlervars
    <3> QED
      BY <1>2, <2>0, <3>1 DEF Attempt
  <2>3. CASE b = a /\ (Denied(a) \/ Connect(a) \/ ConnectFails(a))
    <3>1. vpc[a] \in {"vetted", "connecting"} /\ UNCHANGED <<sock, winner>>
      BY <2>3 DEF Denied, Connect, ConnectFails, sockvars, handlervars
    <3>2. addrs[q] # <<>>
      BY <1>2, <3>1 DEF Attempt
    <3> QED
      BY <1>2, <2>0, <3>1, <3>2 DEF Attempt
  <2>4. CASE b = a /\ Connected(a)
    <3>1. vpc[a] = "connecting" /\ self' = self /\ vpc'[a] = "ended"
      BY <1>0, <1>2, <2>4 DEF Connected, GoV
    <3>2. \/ winner[q] = 0 /\ winner'[q] = a[2] /\ sock'[a] = "open"
          \/ winner' = winner /\ sock'[a] = "closed"
      BY <1>0, <1>2, <2>4 DEF Connected
    <3> QED
      BY <1>2, <2>0, <3>1, <3>2 DEF Attempt
  <2> QED
    BY <1>4, <2>1, <2>2, <2>3, <2>4 DEF Dialling
<1>5. ASSUME NEW r \in Reqs, Handling(r), r # q PROVE Attempt(a)'
  <2>1. a # <<r, 0>>
    BY <1>2, ActorKinds
  <2> QED
    BY <1>0, <1>2, <1>5, <2>1, HandlingMoves DEF Attempt
<1>6. ASSUME Handling(q) PROVE Attempt(a)'
  <2>0. vpc'[a] = vpc[a] /\ self'[a] = self[a]
    BY <1>0, <1>2, <1>6, HandlingMoves
  <2>1. CASE DialCustom(q)
    <3>1. qpc[q] = "start" /\ addrs' = addrs /\ addrs[q] = <<>>
      BY <1>2, <2>1 DEF DialCustom, Phase, Before
    <3>2. vpc[a] = "idle" /\ ~self[a] /\ sock[a] # "open"
      BY <1>2, <3>1 DEF Attempt
    <3>3. \/ qpc'[q] = "reply" /\ winner'[q] = 1 /\ sock' = [sock EXCEPT ![<<q, 1>>] = "open"]
          \/ sock' = sock
      BY <1>0, <1>2, <2>1 DEF DialCustom, GoQ
    <3>4. sock'[a] = "open" => a[2] = 1 /\ qpc'[q] = "reply" /\ winner'[q] = 1
      BY <1>0, <1>2, <3>2, <3>3
    <3> QED
      BY <2>0, <3>1, <3>2, <3>4 DEF Attempt
  <2>2. CASE Dial(q)
    <3>1. qpc[q] = "dial" /\ addrs[q] = <<>> /\ UNCHANGED <<winner, sock>>
      BY <1>2, <2>2 DEF Dial, Phase, Before, sockvars
    <3>2. vpc[a] = "idle" /\ ~self[a] /\ sock[a] # "open"
      BY <1>2, <3>1 DEF Attempt
    <3> QED
      BY <2>0, <3>1, <3>2 DEF Attempt
  <2>3. CASE RaceLost(q)
    <3>1. a \in Tried(q) => vpc[a] = "ended"
      BY <2>3 DEF RaceLost
    <3>2. vpc[a] \in {"idle", "ended"}
      BY <1>2, <3>1 DEF Tried, Attempt
    <3>3. winner[q] = 0 /\ UNCHANGED <<winner, addrs, sock>>
      BY <2>3 DEF RaceLost, sockvars
    <3> QED
      BY <1>2, <2>0, <3>2, <3>3 DEF Attempt
  <2>4. CASE Post(q)
    <3>1. qpc[q] = "race" /\ qpc'[q] \in {"ask", "reply"} /\ UNCHANGED <<addrs, winner, sock>>
          /\ winner[q] # 0
      BY <1>0, <1>2, <2>4 DEF Post, GoQ, sockvars
    <3> QED
      BY <1>2, <2>0, <3>1 DEF Attempt
  <2>5. CASE PostAsked(q) \/ Reply(q) \/ RelayEnds(q)
    <3>1. /\ qpc[q] \in {"ask", "reply", "relay"} /\ UNCHANGED <<addrs, winner>>
          /\ \/ qpc'[q] \in {"reply", "relay"} /\ sock' = sock
             \/ sock' = [sock EXCEPT ![<<q, winner[q]>>] = "closed"]
      BY <1>0, <1>2, <2>5 DEF PostAsked, Reply, RelayEnds, GoQ, CloseTarget
    <3>2. winner[q] # 0
      BY <1>2, <3>1 DEF Phase
    <3>3. sock'[a] = "open" => sock[a] = "open" /\ qpc'[q] \in {"reply", "relay"}
      <4>1. CASE a[2] = winner[q]
        BY <1>0, <1>2, <3>1, <4>1
      <4>2. CASE a[2] # winner[q]
        <5>1. sock[a] # "open" /\ <<q, winner[q]>> # a
          BY <1>2, <4>2 DEF Attempt
        <5> QED
          BY <1>0, <1>2, <3>1, <5>1
      <4> QED
        BY <4>1, <4>2
    <3> QED
      BY <1>2, <2>0, <3>1, <3>2, <3>3 DEF Attempt
  <2>6. CASE Serve(q) \/ Early(q) \/ Fail(q) \/ Resolve(q) \/ ResolvePTR(q) \/ NotSupported(q)
    <3>1. UNCHANGED <<addrs, winner, sock>> /\ qpc[q] \in Before \cup {"fail"}
      BY <2>6 DEF Serve, Early, Fail, Resolve, ResolvePTR, NotSupported, sockvars, Before
    <3>2. qpc[q] # "race" /\ sock[a] # "open"
      BY <1>2, <3>1 DEF Attempt, Before
    <3> QED
      BY <1>2, <2>0, <3>1, <3>2 DEF Attempt
  <2> QED
    BY <1>6, <2>1, <2>2, <2>3, <2>4, <2>5, <2>6 DEF Handling
<1>7. CASE Tick \/ HostChanges \/ UNCHANGED vars
  BY <1>2, <1>7, WorldMoves DEF Attempt
<1> QED
  BY <1>2, <1>3, <1>4, <1>5, <1>6, <1>7, Steps

\* hostMu and the scratch.
LEMMA OwnersStep ==
    ASSUME IndInv, [Next]_vars
    PROVE  Owners'
<1>0. /\ TypeOK /\ vpc \in [Actors -> VStages] /\ using \in [Actors -> BOOLEAN]
      /\ scratch \in [Reqs -> IPs \cup {NoIP}] /\ Owners /\ Phases /\ Attempting
      /\ mu \in Actors \cup {None} /\ None \notin Actors
  BY ActorKinds DEF IndInv, TypeOK, VStages
<1>1. \A a \in Actors : using[a] => IPOf(a)' = IPOf(a)
  <2>1. SUFFICES ASSUME NEW a \in Actors, using[a] PROVE IPOf(a)' = IPOf(a)
    OBVIOUS
  <2>2. vpc[a] = "asked"
    BY <1>0, <2>1 DEF Owners
  <2>3. a[2] = 0 => qpc[a[1]] \in {"early", "ask"}
    <3>1. SUFFICES ASSUME a[2] = 0 PROVE qpc[a[1]] \in {"early", "ask"}
      OBVIOUS
    <3>2. a[1] \in Reqs /\ a = <<a[1], 0>>
      BY <3>1, ActorKinds
    <3>3. Phase(a[1]) /\ vpc[<<a[1], 0>>] = "asked"
      BY <1>0, <2>2, <3>2 DEF Phases
    <3> QED
      BY <3>3 DEF Phase
  <2> QED
    BY <1>0, <2>2, <2>3, IPOfKept
<1>2. ASSUME UNCHANGED <<mu, using, scratch>>,
             \A a \in Actors : vpc'[a] \in {"list", "store"} => vpc[a] \in {"list", "store"},
             \A a \in Actors : vpc[a] = "asked" => vpc'[a] = "asked"
      PROVE  Owners'
  BY <1>0, <1>1, <1>2 DEF Owners
<1>3. ASSUME NEW a \in Actors, Vet(a) PROVE Owners'
  <2>0. /\ \A b \in Actors : b # a => vpc'[b] = vpc[b]
        /\ a[1] \in Reqs
    BY <1>0, <1>3, VetMoves, ActorKinds
  <2>1. CASE Load(a) \/ Judge(a)
    <3>1. vpc[a] \in {"load", "judge"} /\ vpc'[a] \notin {"list", "store"}
          /\ UNCHANGED <<mu, using, scratch>>
      BY <1>0, <2>1 DEF Load, Judge, GoV, scrvars
    <3> QED
      BY <1>2, <2>0, <3>1
  <2>2. CASE TryLock(a) \/ Lock(a)
    <3>1. vpc[a] \in {"try", "lock"} /\ UNCHANGED <<using, scratch>>
      BY <2>2 DEF TryLock, Lock, scrvars
    <3>2. \/ mu' = mu /\ vpc'[a] \notin {"list", "store"}
          \/ mu = None /\ (mu' = a \/ vpc'[a] \notin {"list", "store"})
      BY <1>0, <2>2 DEF TryLock, Lock, Check, GoV
    <3>3. \A b \in Actors : using'[b] => using[b] /\ vpc'[b] = "asked"
      BY <1>0, <2>0, <3>1 DEF Owners
    <3>4. \A b \in Actors : vpc'[b] \in {"list", "store"} => mu' = b
      BY <1>0, <2>0, <3>1, <3>2 DEF Owners
    <3> QED
      BY <1>0, <1>1, <3>1, <3>3, <3>4 DEF Owners
  <2>3. CASE List(a)
    <3>1. vpc[a] = "list" /\ vpc'[a] = "store" /\ UNCHANGED <<mu, using, scratch>>
      BY <1>0, <2>3 DEF List, GoV, scrvars
    <3> QED
      BY <1>2, <2>0, <3>1
  <2>4. CASE Store(a)
    <3>1. vpc[a] = "store" /\ vpc'[a] = "judge" /\ UNCHANGED <<using, scratch>>
      BY <1>0, <2>4 DEF Store, GoV, scrvars
    <3>2. \A b \in Actors : vpc'[b] \notin {"list", "store"}
      BY <1>0, <2>0, <3>1 DEF Owners
    <3>3. \A b \in Actors : using'[b] => using[b] /\ vpc'[b] = "asked"
      BY <1>0, <2>0, <3>1 DEF Owners
    <3> QED
      BY <1>0, <1>1, <3>1, <3>2, <3>3 DEF Owners
  <2>5. CASE Ask(a)
    <3>1. /\ vpc[a] = "ask" /\ vpc'[a] = "asked" /\ mu' = mu
          /\ using' = [using EXCEPT ![a] = ~busy[a[1]]]
          /\ scratch' = IF ~busy[a[1]] THEN [scratch EXCEPT ![a[1]] = IPOf(a)] ELSE scratch
      BY <1>0, <2>5 DEF Ask, Swap, GoV, listvars
    <3>2. \A b \in Actors : vpc'[b] \in {"list", "store"} => mu' = b
      BY <1>0, <2>0, <3>1 DEF Owners
    <3>3. \A b \in Actors : using'[b] => vpc'[b] = "asked"
      BY <1>0, <2>0, <3>1 DEF Owners
    <3>4. IPOf(a)' = IPOf(a)
      <4>1. UNCHANGED <<addrs, winner, ask>>
        BY <2>5 DEF Ask, handlervars
      <4> QED
        BY <4>1 DEF IPOf
    <3>5. ~busy[a[1]] => \A b \in Actors : b[1] = a[1] => ~using[b]
      <4>1. \A b \in Actors : b[1] \in Reqs /\ b[2] \in 0 .. 2 /\ b = <<b[1], b[2]>>
        BY ActorKinds
      <4>2. busy[a[1]] <=> \E i \in 0 .. 2 : using[<<a[1], i>>]
        BY <1>0, <2>0 DEF TypeOK
      <4> QED
        BY <4>1, <4>2
    <3>6. \A b \in Actors : using'[b] => scratch'[b[1]] = IPOf(b)'
      <4>1. SUFFICES ASSUME NEW b \in Actors, using'[b] PROVE scratch'[b[1]] = IPOf(b)'
        OBVIOUS
      <4>2. CASE b = a
        BY <1>0, <2>0, <3>1, <3>4, <4>1, <4>2
      <4>3. CASE b # a
        <5>1. using[b] /\ b[1] \in Reqs
          BY <1>0, <3>1, <4>1, <4>3, ActorKinds
        <5>2. scratch[b[1]] = IPOf(b) /\ IPOf(b)' = IPOf(b)
          BY <1>0, <1>1, <5>1 DEF Owners
        <5>3. scratch'[b[1]] = scratch[b[1]]
          BY <1>0, <3>1, <3>5, <5>1
        <5> QED
          BY <5>2, <5>3
      <4> QED
        BY <4>2, <4>3
    <3>7. \A b, c \in Actors : b[1] = c[1] /\ using'[b] /\ using'[c] => b = c
      BY <1>0, <3>1, <3>5 DEF Owners
    <3> QED
      BY <3>2, <3>3, <3>6, <3>7 DEF Owners
  <2>6. CASE Asked(a)
    <3>1. /\ vpc[a] = "asked" /\ vpc'[a] = "vetted" /\ mu' = mu
          /\ using' = [using EXCEPT ![a] = FALSE]
          /\ scratch' = [scratch EXCEPT ![a[1]] = IF using[a] THEN NoIP ELSE @]
      BY <1>0, <2>6 DEF Asked, GoV, listvars
    <3>2. \A b \in Actors : vpc'[b] \in {"list", "store"} => mu' = b
      BY <1>0, <2>0, <3>1 DEF Owners
    <3>3. \A b \in Actors : using'[b] => using[b] /\ b # a
      BY <1>0, <3>1
    <3>4. \A b \in Actors : using'[b] => scratch'[b[1]] = scratch[b[1]]
      BY <1>0, <3>1, <3>3, ActorKinds DEF Owners
    <3> QED
      BY <1>0, <1>1, <2>0, <3>2, <3>3, <3>4 DEF Owners
  <2> QED
    BY <1>3, <2>1, <2>2, <2>3, <2>4, <2>5, <2>6 DEF Vet
<1>4. ASSUME NEW a \in Attempts, Dialling(a) PROVE Owners'
  <2>1. /\ vpc[a] # "asked" /\ vpc'[a] \notin {"list", "store"}
        /\ \A b \in Actors : b # a => vpc'[b] = vpc[b]
    BY <1>0, <1>4, NotChecking, DiallingMoves
  <2>2. UNCHANGED <<mu, using, scratch>>
    BY <1>4, DiallingKeeps DEF listvars, scrvars
  <2> QED
    BY <1>2, <2>1, <2>2
<1>5. ASSUME NEW q \in Reqs, Handling(q) PROVE Owners'
  <2>1. \/ vpc' = vpc
        \/ /\ vpc[<<q, 0>>] # "asked" /\ vpc'[<<q, 0>>] \notin {"list", "store"}
           /\ \A b \in Actors : b # <<q, 0>> => vpc'[b] = vpc[b]
    BY <1>0, <1>5, NotChecking, HandlingKeeps, HandlingMoves
  <2>2. UNCHANGED <<mu, using, scratch>>
    BY <1>5, HandlingKeeps DEF listvars, scrvars
  <2> QED
    BY <1>2, <2>1, <2>2
<1>6. CASE Tick \/ HostChanges \/ UNCHANGED vars
  BY <1>2, <1>6, WorldMoves
<1> QED
  BY <1>3, <1>4, <1>5, <1>6, Steps

\* A listing stays honest while the clock runs and the host gains and loses
\* addresses: one it gains was not there when the listing was begun.
LEMMA HonestStep ==
    ASSUME HostType, [Next]_vars, NEW h \in Listings, Honest(h)
    PROVE  Honest(h)'
<1>0. /\ MaxNow \in Nat /\ TTL \in Nat /\ Never = MaxNow + 1 /\ now \in Nat /\ now <= MaxNow
      /\ host \in [IPs -> 0 .. Never] /\ h.expires \in Nat /\ h.expires <= now + TTL
      /\ Mobile \subseteq IPs
  BY ConnectAssumption DEF HostType, Never, Listings, Honest
<1>1. CASE UNCHANGED hostvars
  BY <1>1 DEF Honest, hostvars
<1>2. CASE Tick
  <2>1. now' = now + 1 /\ host' = host
    BY <1>2 DEF Tick
  <2>2. h.expires <= now' + TTL
    BY <1>0, <2>1
  <2> QED
    BY <2>1, <2>2 DEF Honest
<1>3. CASE HostChanges
  <2>1. PICK ip \in Mobile : host' = [host EXCEPT ![ip] = IF HasIP(ip) THEN Never ELSE now]
    BY <1>3 DEF HostChanges
  <2>2. now' = now
    BY <1>3 DEF HostChanges
  <2>3. ASSUME NEW p \in IPs, host'[p] + TTL < h.expires PROVE host[p] + TTL < h.expires
    <3>1. CASE p = ip
      <4>1. host'[p] \in {now, Never}
        BY <1>0, <2>1, <3>1
      <4>2. host'[p] >= now /\ host'[p] \in Nat
        BY <1>0, <4>1
      <4> QED
        BY <1>0, <2>3, <4>2
    <3>2. CASE p # ip
      BY <1>0, <2>1, <2>3, <3>2
    <3> QED
      BY <3>1, <3>2
  <2> QED
    BY <2>2, <2>3 DEF Honest
<1>4. ASSUME NEW a \in Actors, Vet(a) PROVE UNCHANGED hostvars
  BY <1>4 DEF Vet, Load, TryLock, Lock, List, Store, Judge, Ask, Asked
<1>5. ASSUME NEW a \in Attempts, Dialling(a) PROVE UNCHANGED hostvars
  BY <1>5 DEF Dialling, Start, Denied, Connect, Connected, ConnectFails
<1>6. ASSUME NEW q \in Reqs, Handling(q) PROVE UNCHANGED hostvars
  BY <1>6 DEF Handling, Serve, DialCustom, Early, Dial, RaceLost, Post, PostAsked, Reply,
              RelayEnds, Fail, Resolve, ResolvePTR, NotSupported
<1> QED
  BY <1>1, <1>2, <1>3, <1>4, <1>5, <1>6, Steps DEF vars, hostvars

\* No listing, a listing begun and a listing made are honest.
LEMMA HonestNew ==
    ASSUME HostType
    PROVE  /\ Honest(NoListing)
           /\ Honest([NoListing EXCEPT !.expires = now + TTL])
           /\ \A f \in BOOLEAN, e \in 0 .. now + TTL :
                Honest([failed |-> f, expires |-> e,
                        ips |-> IF f THEN {} ELSE {ip \in IPs : HasIP(ip)}])
<1>0. /\ MaxNow \in Nat /\ TTL \in Nat /\ Never = MaxNow + 1 /\ now \in Nat /\ now <= MaxNow
      /\ host \in [IPs -> 0 .. Never]
  BY ConnectAssumption DEF HostType, Never
<1>1. Honest(NoListing) /\ Honest([NoListing EXCEPT !.expires = now + TTL])
  BY <1>0 DEF Honest, NoListing
<1>2. ASSUME NEW e \in 0 .. now + TTL, NEW ip \in IPs, host[ip] + TTL < e PROVE HasIP(ip)
  BY <1>0, <1>2 DEF HasIP
<1>3. ASSUME NEW f \in BOOLEAN, NEW e \in 0 .. now + TTL
      PROVE  Honest([failed |-> f, expires |-> e,
                     ips |-> IF f THEN {} ELSE {ip \in IPs : HasIP(ip)}])
  <2>1. e <= now + TTL
    BY <1>0, <1>3
  <2>2. ~f => \A ip \in IPs : host[ip] + TTL < e => ip \in {p \in IPs : HasIP(p)}
    BY <1>2
  <2> QED
    BY <2>1, <2>2 DEF Honest
<1> QED
  BY <1>1, <1>3

\* The listing an actor uses.
Uses(a) ==
    /\ Honest(seen[a])
    /\ vpc[a] \in {"try", "lock"} => checked[a] = Never
    /\ vpc[a] \in {"list", "store", "judge"} =>
         checked[a] = Never \/ checked[a] < seen[a].expires

\* The listings.
LEMMA ListedStep ==
    ASSUME IndInv, [Next]_vars
    PROVE  Listed'
<1>0. /\ TypeOK /\ HostType /\ vpc \in [Actors -> VStages] /\ seen \in [Actors -> Listings]
      /\ cached \in Listings /\ checked \in [Actors -> 0 .. Never]
      /\ TTL \in Nat \ {0} /\ now \in Nat
  BY TypeParts, ConnectAssumption DEF IndInv, HostType, ListType, VetType, VStages
<1>1. Honest(cached) /\ \A a \in Actors : Uses(a)
  BY DEF IndInv, Listed, Uses
<1>2. \A h \in Listings : Honest(h) => Honest(h)'
  BY <1>0, HonestStep
<1>3. SUFFICES Honest(cached)' /\ \A a \in Actors : Uses(a)'
  BY DEF Listed, Uses
<1>4. ASSUME UNCHANGED <<cached, seen, checked>>,
             \A a \in Actors : vpc'[a] \in {"try", "lock", "list", "store", "judge"} => vpc'[a] = vpc[a]
      PROVE  Honest(cached)' /\ \A a \in Actors : Uses(a)'
  <2>1. Honest(cached)'
    BY <1>0, <1>1, <1>2, <1>4 DEF Honest
  <2>2. ASSUME NEW a \in Actors PROVE Uses(a)'
    <3>1. Uses(a) /\ seen'[a] = seen[a] /\ seen[a] \in Listings /\ checked'[a] = checked[a]
      BY <1>0, <1>1, <1>4
    <3>2. Honest(seen[a])'
      <4>1. Honest(seen[a])
        BY <3>1 DEF Uses
      <4> QED
        BY <1>2, <3>1, <4>1 DEF Honest
    <3> QED
      BY <1>4, <3>1, <3>2 DEF Uses
  <2> QED
    BY <2>1, <2>2
<1>5. ASSUME NEW a \in Actors, Vet(a) PROVE Honest(cached)' /\ \A b \in Actors : Uses(b)'
  <2>0. /\ \A h : Honest(h)' <=> Honest(h)
        /\ \A b \in Actors : b # a => vpc'[b] = vpc[b]
    <3>1. UNCHANGED <<now, host>>
      BY <1>5 DEF Vet, Load, TryLock, Lock, List, Store, Judge, Ask, Asked, hostvars
    <3> QED
      BY <1>0, <1>5, <3>1, VetMoves DEF Honest
  <2>1. Honest(cached)'
    <3>1. cached' = cached \/ cached' = seen[a]
      BY <1>5 DEF Vet, Load, TryLock, Lock, List, Store, Judge, Ask, Asked, Check, listvars
    <3>2. Honest(cached')
      BY <1>1, <3>1 DEF Uses
    <3> QED
      BY <2>0, <3>2 DEF Honest
  <2>2. ASSUME NEW b \in Actors, b # a PROVE Uses(b)'
    <3>1. seen'[b] = seen[b] /\ checked'[b] = checked[b]
      <4>1. seen' = seen \/ \E h : seen' = [seen EXCEPT ![a] = h]
        BY <1>5 DEF Vet, Load, TryLock, Lock, List, Store, Judge, Ask, Asked, Check, listvars
      <4>2. checked' = checked \/ \E t : checked' = [checked EXCEPT ![a] = t]
        BY <1>5 DEF Vet, Load, TryLock, Lock, List, Store, Judge, Ask, Asked, Check, listvars
      <4> QED
        BY <1>0, <2>2, <4>1, <4>2
    <3>2. Uses(b) /\ vpc'[b] = vpc[b]
      BY <1>1, <2>0, <2>2
    <3> QED
      BY <2>0, <3>1, <3>2 DEF Uses, Honest
  <2>3. Uses(a)'
    <3>0. Uses(a) /\ checked[a] \in 0 .. Never /\ Honest(cached) /\ Honest(seen[a])
      BY <1>0, <1>1 DEF Uses
    <3>1. CASE Load(a)
      <4>1. CASE allow(LocalAddr, IPOf(a), ask[a[1]].port0)
        <5>1. /\ seen'[a] = cached
              /\ checked'[a] = IF Current(cached) THEN now ELSE Never
              /\ vpc'[a] = IF Current(cached) THEN "judge" ELSE "try"
          BY <1>0, <3>1, <4>1 DEF Load, GoV
        <5>2. Current(cached) => now < cached.expires
          BY DEF Current
        <5>3. Honest(seen[a])'
          BY <2>0, <3>0, <5>1 DEF Honest
        <5> QED
          BY <5>1, <5>2, <5>3 DEF Uses
      <4>2. CASE ~allow(LocalAddr, IPOf(a), ask[a[1]].port0)
        <5>1. vpc'[a] = "vetted" /\ seen' = seen
          BY <1>0, <3>1, <4>2 DEF Load, GoV
        <5>2. Honest(seen[a])'
          BY <2>0, <3>0, <5>1 DEF Honest
        <5> QED
          BY <5>1, <5>2 DEF Uses
      <4> QED
        BY <4>1, <4>2
    <3>2. CASE (TryLock(a) \/ Lock(a)) /\ Check(a)
      <4>1. CASE Current(cached)
        <5>1. seen'[a] = cached /\ checked'[a] = now /\ vpc'[a] = "judge" /\ now < cached.expires
          BY <1>0, <3>2, <4>1 DEF Check, GoV, Current
        <5>2. Honest(seen[a])'
          BY <2>0, <3>0, <5>1 DEF Honest
        <5> QED
          BY <5>1, <5>2 DEF Uses
      <4>2. CASE ~Current(cached)
        <5>1. /\ seen'[a] = [NoListing EXCEPT !.expires = now + TTL] /\ checked'[a] = now
              /\ vpc'[a] = "list"
          BY <1>0, <3>2, <4>2 DEF Check, GoV
        <5>2. Honest(seen[a])'
          BY <1>0, <2>0, <5>1, HonestNew DEF Honest
        <5>3. seen'[a].expires = now + TTL /\ now < now + TTL
          BY <1>0, <5>1, NewListings
        <5> QED
          BY <5>1, <5>2, <5>3 DEF Uses
      <4> QED
        BY <4>1, <4>2
    <3>3. CASE TryLock(a) /\ ~Check(a)
      <4>1. /\ vpc[a] = "try" /\ UNCHANGED <<seen, checked>> /\ vpc'[a] \in {"judge", "lock"}
        BY <1>0, <3>3 DEF TryLock, GoV
      <4>2. Honest(seen[a])' /\ checked[a] = Never
        BY <2>0, <3>0, <4>1 DEF Honest, Uses
      <4> QED
        BY <4>1, <4>2 DEF Uses
    <3>4. CASE List(a)
      <4>0. seen[a].expires \in 0 .. now + TTL
        BY <1>0, <3>0 DEF Honest, Listings
      <4>1. PICK f \in BOOLEAN :
              seen'[a] = [failed |-> f, expires |-> seen[a].expires,
                          ips |-> IF f THEN {} ELSE {ip \in IPs : HasIP(ip)}]
        BY <1>0, <3>4 DEF List
      <4>2. vpc[a] = "list" /\ vpc'[a] = "store" /\ checked' = checked
        BY <1>0, <3>4 DEF List, GoV
      <4>3. Honest(seen[a])'
        <5>1. Honest(seen'[a])
          BY <1>0, <4>0, <4>1, HonestNew
        <5> QED
          BY <2>0, <5>1 DEF Honest
      <4>4. seen'[a].expires = seen[a].expires
        BY <4>1
      <4> QED
        BY <3>0, <4>2, <4>3, <4>4 DEF Uses
    <3>5. CASE Store(a)
      <4>1. vpc[a] = "store" /\ vpc'[a] = "judge" /\ UNCHANGED <<seen, checked>>
        BY <1>0, <3>5 DEF Store, GoV
      <4>2. Honest(seen[a])'
        BY <2>0, <3>0, <4>1 DEF Honest
      <4> QED
        BY <3>0, <4>1, <4>2 DEF Uses
    <3>6. CASE Judge(a)
      <4>1. vpc'[a] \in {"ask", "vetted"} /\ seen'[a] = NoListing
        BY <1>0, <3>6 DEF Judge, GoV
      <4>2. Honest(seen[a])'
        BY <1>0, <2>0, <4>1, HonestNew DEF Honest
      <4> QED
        BY <4>1, <4>2 DEF Uses
    <3>7. CASE Ask(a) \/ Asked(a)
      <4>1. vpc'[a] \in {"asked", "vetted"} /\ UNCHANGED seen
        BY <1>0, <3>7 DEF Ask, Asked, GoV, listvars
      <4>2. Honest(seen[a])'
        BY <2>0, <3>0, <4>1 DEF Honest
      <4> QED
        BY <4>1, <4>2 DEF Uses
    <3> QED
      BY <1>5, <3>1, <3>2, <3>3, <3>4, <3>5, <3>6, <3>7 DEF Vet, Lock
  <2> QED
    BY <2>1, <2>2, <2>3
<1>6. ASSUME NEW a \in Attempts, Dialling(a)
      PROVE  Honest(cached)' /\ \A b \in Actors : Uses(b)'
  BY <1>0, <1>4, <1>6, DiallingKeeps, DiallingMoves DEF listvars
<1>7. ASSUME NEW q \in Reqs, Handling(q)
      PROVE  Honest(cached)' /\ \A b \in Actors : Uses(b)'
  BY <1>0, <1>4, <1>7, HandlingKeeps, HandlingMoves DEF listvars
<1>8. CASE Tick \/ HostChanges \/ UNCHANGED vars
  BY <1>4, <1>8, WorldMoves
<1> QED
  BY <1>5, <1>6, <1>7, <1>8, Steps

\* Under DefaultFilter an address is denied as its own host's.
LEMMA SelfDenied ==
    ASSUME Default, NEW ip \in IPs, NEW port0
    PROVE  ~allow(ip, ip, port0)
BY ConnectAssumption DEF Default, allow, isSelf, Both

\* checkOwnHost asks about the address itself, in whichever request it used.
LEMMA AskedItself ==
    ASSUME IndInv, NEW a \in Actors, Vet(a), Asked(a)
    PROVE  /\ verdict'[a] \in {"ok", "denied"}
           /\ Default => verdict'[a] = "denied"
<1>0. verdict \in [Actors -> Errs \cup {"ok"}]
  BY DEF IndInv, TypeOK
<1>1. IPOf(a) \in IPs
  BY Vetting, AddrOf DEF IndInv, Asked
<1>2. (IF using[a] THEN scratch[a[1]] ELSE IPOf(a)) = IPOf(a)
  BY DEF IndInv, Owners
<1>3. verdict'[a] = IF allow(IPOf(a), IPOf(a), ask[a[1]].port0) THEN "ok" ELSE "denied"
  BY <1>0, <1>2 DEF Asked
<1> QED
  BY <1>1, <1>3, SelfDenied

\* An address that the check lets pass is not one that the listing, or the route
\* lookup, could tell the host has had for hostTTL.
LEMMA NotMissed ==
    ASSUME IndInv, NEW a \in Actors, Vet(a), Judge(a), vpc'[a] = "vetted"
    PROVE  ~missed'[a] /\ verdict'[a] = "ok"
<1>0. /\ missed \in [Actors -> BOOLEAN] /\ verdict \in [Actors -> Errs \cup {"ok"}]
      /\ vpc \in [Actors -> VStages] /\ seen[a] \in Listings /\ checked[a] \in 0 .. Never
      /\ host \in [IPs -> 0 .. Never] /\ TTL \in Nat /\ Never \in Nat
      /\ Embedded \in [IPs -> IPs \cup {NoIP}]
  BY ConnectAssumption DEF IndInv, TypeOK, VStages, Never
<1>1. IPOf(a) \in IPs
  BY Vetting, AddrOf DEF IndInv, Judge
<1>2. Both(IPOf(a)) \subseteq IPs
  BY <1>0, <1>1 DEF Both
<1>3. checked[a] = Never \/ checked[a] < seen[a].expires
  BY DEF IndInv, Listed, Judge
<1>4. PICK routed \in BOOLEAN :
        /\ IF ownHost(a, routed) THEN GoV(a, "ask") /\ UNCHANGED verdict
           ELSE GoV(a, "vetted") /\ verdict' = [verdict EXCEPT ![a] = "ok"]
        /\ missed' = [missed EXCEPT ![a] =
                        \E ip \in Known(a, routed) :
                            HasIP(ip) /\ checked[a] # Never /\ host[ip] + TTL <= checked[a]]
  BY Zenon DEF Judge
<1>5. ~ownHost(a, routed) /\ verdict'[a] = "ok"
  BY <1>0, <1>4 DEF GoV
<1>6. ASSUME NEW ip \in Known(a, routed),
             HasIP(ip), checked[a] # Never, host[ip] + TTL <= checked[a]
      PROVE  FALSE
  <2>1. CASE seen[a].failed
    BY <1>5, <1>6, <2>1 DEF ownHost, Known
  <2>2. CASE ~seen[a].failed
    <3>1. ip \in Both(IPOf(a)) /\ ip \in IPs
      BY <1>2, <1>6, <2>2 DEF Known
    <3>2. host[ip] \in Nat /\ seen[a].expires \in Nat /\ checked[a] \in Nat
      BY <1>0, <3>1 DEF Listings
    <3>3. host[ip] + TTL < seen[a].expires
      BY <1>0, <1>3, <1>6, <3>2
    <3>4. ip \in seen[a].ips
      BY <2>2, <3>1, <3>3 DEF IndInv, Listed, Honest
    <3> QED
      BY <1>5, <2>2, <3>1, <3>4 DEF ownHost
  <2> QED
    BY <2>1, <2>2
<1>7. missed' = [missed EXCEPT ![a] = FALSE]
  <2>1. ~(\E ip \in Known(a, routed) :
            HasIP(ip) /\ checked[a] # Never /\ host[ip] + TTL <= checked[a])
    BY <1>6
  <2>2. (\E ip \in Known(a, routed) :
            HasIP(ip) /\ checked[a] # Never /\ host[ip] + TTL <= checked[a]) = FALSE
    BY <2>1
  <2> QED
    BY <1>4, <2>2, Zenon
<1> QED
  BY <1>0, <1>5, <1>7

\* What a step of a vet makes of its verdict.
LEMMA VetJudges ==
    ASSUME IndInv, NEW a \in Actors, Vet(a), vpc'[a] = "vetted"
    PROVE  /\ verdict'[a] \in {"ok", "denied"}
           /\ verdict'[a] = "ok" => /\ vpc[a] \in Checking /\ (Default => ~missed'[a])
                                    /\ Default => vpc[a] = "judge"
<1>0. /\ verdict \in [Actors -> Errs \cup {"ok"}] /\ vpc \in [Actors -> VStages]
  BY DEF IndInv, TypeOK, VStages
<1>1. CASE Load(a)
  BY <1>0, <1>1 DEF Load, GoV
<1>2. CASE Judge(a)
  <2>1. vpc[a] = "judge"
    BY <1>2 DEF Judge
  <2> QED
    BY <1>2, <2>1, NotMissed DEF Checking
<1>3. CASE Asked(a)
  <2>1. vpc[a] = "asked"
    BY <1>3 DEF Asked
  <2> QED
    BY <1>3, <2>1, AskedItself DEF Checking
<1>4. CASE TryLock(a) \/ Lock(a) \/ List(a) \/ Store(a) \/ Ask(a)
  BY <1>0, <1>4 DEF TryLock, Lock, Check, List, Store, Ask, GoV
<1> QED
  BY <1>1, <1>2, <1>3, <1>4 DEF Vet

\* Where a handler goes.
LEMMA HandlerAt ==
    ASSUME IndInv, NEW q \in Reqs, Handling(q)
    PROVE  \/ vpc'[<<q, 0>>] \in {"load", "idle", "ended"}
           \/ vpc'[<<q, 0>>] = "ask" /\ qpc'[q] = "ask"
<1>0. /\ vpc \in [Actors -> VStages] /\ qpc \in [Reqs -> QStages] /\ <<q, 0>> \in Actors
  BY ActorKinds DEF IndInv, TypeOK, VStages, QStages
<1>1. qpc[q] \notin {"early", "ask"} => vpc[<<q, 0>>] \in {"idle", "ended"}
  BY DEF IndInv, Phases, Phase
<1> QED
  BY <1>0, <1>1 DEF Handling, Serve, DialCustom, Early, Dial, RaceLost, Post, PostAsked, Reply,
     RelayEnds, Fail, Resolve, ResolvePTR, NotSupported, Handler, GoV, GoQ

\* The verdicts.
LEMMA JudgedStep ==
    ASSUME IndInv, [Next]_vars
    PROVE  Judged'
<1>0. /\ TypeOK /\ Phases /\ Attempting /\ vpc \in [Actors -> VStages] /\ UNCHANGED cfg
      /\ (Default' <=> Default)
  BY AllowKept DEF IndInv, TypeOK, VStages, Default
<1>1. SUFFICES ASSUME NEW a \in Actors PROVE Verdict(a)'
  BY DEF Judged
<1>2. Verdict(a) /\ a[1] \in Reqs /\ a = <<a[1], a[2]>>
  BY ActorKinds DEF IndInv, Judged
<1>3. ASSUME vpc'[a] = vpc[a], verdict'[a] = verdict[a], missed'[a] = missed[a],
             a[2] # 0 \/ qpc'[a[1]] = qpc[a[1]]
      PROVE  Verdict(a)'
  <2>1. ASSUME vpc[a] # "idle", a[2] # 0 \/ qpc[a[1]] = "early"
        PROVE  Passes(a)' <=> Passes(a)
    BY <1>0, <2>1, PassesKept
  <2>2. CASE vpc[a] = "idle"
    BY <1>3, <2>2 DEF Verdict, Checking
  <2>3. CASE vpc[a] # "idle" /\ a[2] # 0
    BY <1>0, <1>2, <1>3, <2>1, <2>3 DEF Verdict
  <2>4. CASE vpc[a] # "idle" /\ a[2] = 0
    BY <1>0, <1>2, <1>3, <2>1, <2>4 DEF Verdict
  <2> QED
    BY <2>2, <2>3, <2>4
<1>4. ASSUME NEW b \in Actors, Vet(b) PROVE Verdict(a)'
  <2>1. CASE b # a
    BY <1>0, <1>3, <1>4, <2>1, VetMoves
  <2>2. CASE b = a
    <3>0. /\ vpc[a] \in {"load"} \cup Checking /\ (a[2] # 0 \/ qpc[a[1]] \in {"early", "ask"})
          /\ qpc' = qpc /\ (Passes(a)' <=> Passes(a))
      BY <1>0, <1>4, <2>2, Vetting, VetMoves, PassesKept DEF Checking
    <3>1. vpc'[a] \in Checking => vpc[a] \in Checking \/ Passes(a)
      <4>1. CASE Load(a)
        BY <1>0, <4>1 DEF Load, GoV, Passes, Checking
      <4> QED
        BY <1>4, <2>2, <4>1 DEF Vet, TryLock, Lock, List, Store, Judge, Ask, Asked, Checking
    <3>2. ASSUME vpc'[a] \in Checking, a[2] # 0 \/ qpc[a[1]] = "early" PROVE Passes(a)'
      BY <1>2, <3>0, <3>1, <3>2 DEF Verdict
    <3>3. ASSUME vpc'[a] = "vetted"
          PROVE  /\ verdict'[a] \in {"ok", "denied"}
                 /\ verdict'[a] = "ok" => vpc[a] \in Checking /\ (Default => ~missed'[a])
                 /\ Default /\ verdict'[a] = "ok" => vpc[a] = "judge"
      BY <1>4, <2>2, <3>3, VetJudges
    <3>4. ASSUME a[2] = 0, qpc[a[1]] = "ask" PROVE vpc[a] # "judge"
      BY <1>0, <1>2, <3>4 DEF Phases, Phase
    <3>5. ASSUME vpc'[a] = "vetted", verdict'[a] = "ok", qpc[a[1]] = "early"
          PROVE  Passes(a)' /\ (Default => ~missed'[a])
      BY <1>2, <3>0, <3>3, <3>5 DEF Verdict
    <3> QED
      BY <1>0, <3>0, <3>2, <3>3, <3>4, <3>5 DEF Verdict
  <2> QED
    BY <2>1, <2>2
<1>5. ASSUME NEW b \in Attempts, Dialling(b) PROVE Verdict(a)'
  <2>1. CASE b # a
    BY <1>0, <1>3, <1>5, <2>1, DiallingMoves
  <2>2. CASE b = a
    <3>1. a[2] # 0 /\ vpc'[a] \in {"load", "vetted", "connecting", "ended"}
      BY <1>0, <1>5, <2>2, DiallingMoves, ActorKinds
    <3>2. ASSUME vpc'[a] = "vetted" PROVE verdict'[a] \in {"ok", "denied"}
      <4>1. Start(a)
        BY <1>0, <1>5, <2>2, <3>2 DEF Dialling, Denied, Connect, Connected, ConnectFails, GoV
      <4>2. verdict' = [verdict EXCEPT ![a] = "ok"]
        BY <1>0, <3>2, <4>1 DEF Start, GoV
      <4> QED
        BY <1>0, <4>2 DEF TypeOK
    <3> QED
      BY <3>1, <3>2 DEF Verdict, Checking
  <2> QED
    BY <2>1, <2>2
<1>6. ASSUME NEW q \in Reqs, Handling(q) PROVE Verdict(a)'
  <2>1. CASE a # <<q, 0>>
    <3>1. a[2] # 0 \/ a[1] # q
      BY <1>2, <2>1
    <3> QED
      BY <1>0, <1>2, <1>3, <1>6, <2>1, <3>1, HandlingMoves
  <2>2. CASE a = <<q, 0>>
    BY <1>6, <2>2, HandlerAt DEF Verdict, Checking
  <2> QED
    BY <2>1, <2>2
<1>7. CASE Tick \/ HostChanges \/ UNCHANGED vars
  BY <1>3, <1>7, WorldMoves
<1> QED
  BY <1>4, <1>5, <1>6, <1>7, Steps

\* A check of the handler's that could change what it missed is over before the
\* dial.
LEMMA MissedKept ==
    ASSUME IndInv, [Next]_vars, NEW q \in Reqs, qpc[q] # "early"
    PROVE  missed'[<<q, 0>>] = missed[<<q, 0>>]
<1>0. TypeOK /\ <<q, 0>> \in Actors /\ <<q, 0>>[1] = q
  BY ActorKinds DEF IndInv
<1>1. ASSUME NEW a \in Actors, Vet(a) PROVE missed'[<<q, 0>>] = missed[<<q, 0>>]
  <2>1. CASE a # <<q, 0>>
    BY <1>0, <1>1, <2>1, VetMoves
  <2>2. CASE a = <<q, 0>>
    <3>1. ~Judge(a)
      BY <2>2 DEF IndInv, Phases, Phase, Judge
    <3> QED
      BY <1>1, <3>1 DEF Vet, Load, TryLock, Lock, List, Store, Ask, Asked, listvars
  <2> QED
    BY <2>1, <2>2
<1> QED
  BY <1>0, <1>1, DiallingMoves, HandlingMoves, WorldMoves, Steps

\* What a handler's ControlContext does is settled before the dial.
LEMMA ControlKept ==
    ASSUME IndInv, [Next]_vars, NEW q \in Reqs, qpc[q] \notin {"start", "early"}
    PROVE  control'[q] = control[q]
<1>0. TypeOK /\ control \in [Reqs -> BOOLEAN]
  BY DEF IndInv, TypeOK
<1>1. ASSUME Handling(q) PROVE control'[q] = control[q]
  BY <1>0, <1>1 DEF Handling, Serve, DialCustom, Early, Dial, RaceLost, Post, PostAsked, Reply,
     RelayEnds, Fail, Resolve, ResolvePTR, NotSupported
<1> QED
  BY <1>0, <1>1, VetMoves, DiallingMoves, HandlingMoves, WorldMoves, Steps

\* The literals.
LEMMA LiteralStep ==
    ASSUME IndInv, [Next]_vars
    PROVE  Literal'
<1>0. /\ TypeOK /\ UNCHANGED <<cfg, ask>> /\ (Default' <=> Default)
      /\ qpc \in [Reqs -> QStages] /\ control \in [Reqs -> BOOLEAN] /\ addrs \in [Reqs -> AddrSeqs]
  BY AllowKept DEF IndInv, TypeOK, Default, QStages, AddrSeqs
<1>1. SUFFICES ASSUME NEW q \in Reqs, ~control'[q], qpc'[q] = "dial" \/ addrs'[q] # <<>>
      PROVE  /\ ask[q].host \in IPs \ Unspecified
             /\ allow(LocalAddr, ask[q].host, ask[q].port0)
             /\ Default => ~missed'[<<q, 0>>]
             /\ addrs'[q] # <<>> => addrs'[q] = <<ask[q].host>>
  BY <1>0, AllowKept DEF Literal, VettedEarly
<1>2. VettedEarly(q) /\ Phase(q) /\ Phase(q)'
  BY PhasesStep DEF IndInv, Literal, Phases
<1>3. qpc'[q] \notin {"start", "early"}
  BY <1>1, <1>2 DEF Phase, Before
<1>4. CASE qpc[q] \notin Before
  <2>1. addrs'[q] = addrs[q] /\ control'[q] = control[q] /\ missed'[<<q, 0>>] = missed[<<q, 0>>]
    BY <1>0, <1>4, AddrsKept, ControlKept, MissedKept DEF Before
  <2>2. qpc'[q] # "dial"
    <3>1. ASSUME Handling(q) PROVE qpc'[q] # "dial"
      BY <1>0, <1>4, <3>1 DEF Handling, Serve, DialCustom, Early, Dial, RaceLost, Post, PostAsked,
         Reply, RelayEnds, Fail, Resolve, ResolvePTR, NotSupported, GoQ, FailQ, FailLookup, Answer,
         Before
    <3> QED
      BY <1>0, <1>4, <3>1, VetMoves, DiallingMoves, HandlingMoves, WorldMoves, Steps DEF Before
  <2> QED
    BY <1>1, <1>2, <2>1, <2>2 DEF VettedEarly
<1>5. CASE qpc[q] = "dial"
  <2>1. control'[q] = control[q] /\ missed'[<<q, 0>>] = missed[<<q, 0>>]
    BY <1>5, ControlKept, MissedKept
  <2>2. /\ ask[q].host \in IPs \ Unspecified
        /\ allow(LocalAddr, ask[q].host, ask[q].port0)
        /\ Default => ~missed'[<<q, 0>>]
    BY <1>1, <1>2, <1>5, <2>1 DEF VettedEarly
  <2>3. addrs[q] = <<>>
    BY <1>2, <1>5 DEF Phase, Before
  <2>4. addrs'[q] # <<>> => addrs'[q] = <<ask[q].host>>
    <3>1. CASE Dial(q)
      BY <1>0, <2>2, <2>3, <3>1, DialSets
    <3>2. ASSUME Handling(q), ~Dial(q) PROVE addrs'[q] = addrs[q]
      BY <3>2 DEF Handling, Serve, DialCustom, Early, RaceLost, Post, PostAsked,
         Reply, RelayEnds, Fail, Resolve, ResolvePTR, NotSupported
    <3> QED
      BY <1>0, <2>3, <3>1, <3>2, VetMoves, DiallingMoves, HandlingMoves, WorldMoves, Steps
  <2> QED
    BY <2>2, <2>4
<1>6. CASE qpc[q] \in {"start", "early"}
  <2>1. addrs'[q] = <<>>
    BY <1>0, <1>2, <1>6, AddrsKept DEF Phase, Before
  <2>2. Handling(q)
    BY <1>0, <1>3, <1>6, VetMoves, DiallingMoves, HandlingMoves, WorldMoves, Steps
  <2>3. qpc'[q] = "dial"
    BY <1>1, <2>1
  <2>4. Early(q)
    BY <1>0, <1>1, <1>6, <2>2, <2>3 DEF Handling, Serve, DialCustom, Dial, RaceLost, Post, PostAsked,
       Reply, RelayEnds, Fail, Resolve, ResolvePTR, NotSupported, GoQ, FailQ, FailLookup, Answer
  <2>5. /\ qpc[q] = "early" /\ vpc[<<q, 0>>] = "vetted" /\ verdict[<<q, 0>>] = "ok"
        /\ missed' = missed
    BY <1>0, <1>1, <2>4 DEF Early, Handler, listvars
  <2>6. Verdict(<<q, 0>>) /\ <<q, 0>>[1] = q /\ <<q, 0>>[2] = 0
    BY ActorKinds DEF IndInv, Judged
  <2>7. Passes(<<q, 0>>) /\ (Default => ~missed[<<q, 0>>])
    BY <2>5, <2>6 DEF Verdict
  <2>8. ask[q].host \in IPs \ Unspecified /\ winner[q] = 0
    BY <1>2, <2>5 DEF Phase, Before
  <2>9. IPOf(<<q, 0>>) = ask[q].host
    BY <2>6, <2>8 DEF IPOf
  <2> QED
    BY <2>1, <2>5, <2>6, <2>7, <2>8, <2>9 DEF Passes
<1> QED
  BY <1>4, <1>5, <1>6 DEF Before

\* An attempt of a literal that needs no ControlContext is one that passed.
LEMMA LiteralPasses ==
    ASSUME IndInv, NEW a \in Attempts, a[2] \in DOMAIN addrs[a[1]], ~control[a[1]]
    PROVE  Passes(a) /\ (Default => ~missed[<<a[1], 0>>])
<1>1. /\ a[1] \in Reqs /\ a[2] # 0 /\ VettedEarly(a[1]) /\ addrs[a[1]] # <<>>
  BY ActorKinds DEF IndInv, Literal
<1>2. /\ addrs[a[1]] = <<ask[a[1]].host>> /\ allow(LocalAddr, ask[a[1]].host, ask[a[1]].port0)
      /\ Default => ~missed[<<a[1], 0>>]
  BY <1>1 DEF VettedEarly
<1>3. IPOf(a) = ask[a[1]].host
  BY <1>1, <1>2 DEF IPOf
<1> QED
  BY <1>2, <1>3 DEF Passes

\* The targets.
LEMMA DialledStep ==
    ASSUME IndInv, [Next]_vars
    PROVE  Dialled'
<1>0. /\ TypeOK /\ Phases /\ Attempting /\ vpc \in [Actors -> VStages]
      /\ verdict \in [Actors -> Errs \cup {"ok"}] /\ winner \in [Reqs -> 0 .. 2]
      /\ (Default' <=> Default) /\ DialErrs \cup UserErrs \subseteq Errs \ {"nil", "denied"}
      /\ "ok" \notin Errs
  BY AllowKept, ConnectAssumption DEF IndInv, TypeOK, VStages, Default, Errs, Errnos
<1>1. SUFFICES ASSUME NEW a \in Attempts PROVE Target(a)'
  BY DEF Dialled
<1> DEFINE q == a[1]
<1>2. /\ Target(a) /\ Verdict(a) /\ Attempt(a) /\ Phase(q) /\ a \in Actors /\ q \in Reqs
      /\ a[2] # 0 /\ a # <<q, 0>> /\ <<q, 0>> \in Actors
  BY ActorKinds DEF IndInv, Dialled, Judged, Attempting, Phases
<1>3. vpc[a] # "idle" => qpc[q] \notin Before
  <2>1. ASSUME vpc[a] # "idle" PROVE addrs[q] # <<>>
    BY <1>2, <2>1 DEF Attempt
  <2> QED
    BY <1>2, <2>1 DEF Phase
<1>4. ASSUME vpc[a] # "idle"
      PROVE  /\ Passes(a)' <=> Passes(a)
             /\ control'[q] = control[q] /\ missed'[<<q, 0>>] = missed[<<q, 0>>]
             /\ winner[q] # 0 => winner'[q] # 0
  <2>1. Passes(a)' <=> Passes(a)
    BY <1>0, <1>2, <1>4, PassesKept
  <2>2. qpc[q] \notin {"start", "early"}
    BY <1>3, <1>4 DEF Before
  <2>3. control'[q] = control[q] /\ missed'[<<q, 0>>] = missed[<<q, 0>>]
    BY <1>2, <2>2, ControlKept, MissedKept
  <2>4. winner[q] # 0 => winner'[q] # 0
    BY <1>0, <1>2, <2>2, WinnerKept
  <2> QED
    BY <2>1, <2>3, <2>4
<1>5. ASSUME vpc'[a] = vpc[a], verdict'[a] = verdict[a], missed'[a] = missed[a]
      PROVE  Target(a)'
  <2>1. CASE vpc[a] = "idle"
    BY <1>5, <2>1 DEF Target
  <2>2. CASE vpc[a] # "idle"
    <3>1. missed'[IF control'[q] THEN a ELSE <<q, 0>>] = missed[IF control[q] THEN a ELSE <<q, 0>>]
      BY <1>4, <1>5, <2>2
    <3> QED
      BY <1>0, <1>2, <1>4, <1>5, <2>2, <3>1 DEF Target, VettedBy, Handler
  <2> QED
    BY <2>1, <2>2
<1>6. ASSUME NEW b \in Actors, Vet(b) PROVE Target(a)'
  <2>1. CASE b # a
    BY <1>0, <1>2, <1>5, <1>6, <2>1, VetMoves
  <2>2. CASE b = a
    <3>1. vpc[a] # "idle" /\ vpc'[a] \notin {"connecting", "ended"}
      BY <1>0, <1>6, <2>2, Vetting, VetMoves DEF Checking
    <3>2. ASSUME vpc'[a] = "vetted", verdict'[a] # "denied"
          PROVE  Passes(a)' /\ (Default => ~missed'[VettedBy(a)'])
      <4>1. vpc[a] \in Checking /\ (Default => ~missed'[a])
        BY <1>6, <2>2, <3>2, VetJudges
      <4>2. Passes(a)
        BY <1>2, <4>1 DEF Verdict
      <4>3. ASSUME ~control[q], Default PROVE ~missed[<<q, 0>>]
        BY <1>2, <3>1, <4>3, LiteralPasses DEF Attempt
      <4> QED
        BY <1>4, <3>1, <4>1, <4>2, <4>3 DEF VettedBy, Handler
    <3> QED
      BY <1>0, <3>1, <3>2 DEF Target
  <2> QED
    BY <2>1, <2>2
<1>7. ASSUME NEW b \in Attempts, Dialling(b) PROVE Target(a)'
  <2>1. CASE b # a
    BY <1>0, <1>2, <1>5, <1>7, <2>1, DiallingMoves
  <2>2. CASE b = a /\ Start(a)
    <3>1. CASE control[q]
      <4>1. vpc'[a] = "load"
        BY <1>0, <1>2, <2>2, <3>1 DEF Start, GoV
      <4> QED
        BY <4>1 DEF Target
    <3>2. CASE ~control[q]
      <4>1. vpc'[a] = "vetted" /\ verdict'[a] = "ok" /\ UNCHANGED <<control, addrs, missed>>
        BY <1>0, <1>2, <2>2, <3>2 DEF Start, GoV, listvars, handlervars
      <4>2. Passes(a) /\ (Default => ~missed[<<q, 0>>])
        BY <2>2, <3>2, LiteralPasses DEF Start, Tried
      <4>3. Passes(a)' <=> Passes(a)
        <5>1. IPOf(a)' = IPOf(a)
          BY <1>2, <4>1 DEF IPOf
        <5> QED
          BY <1>0, <5>1, AllowKept DEF Passes
      <4> QED
        BY <1>0, <3>2, <4>1, <4>2, <4>3 DEF Target, VettedBy, Handler
    <3> QED
      BY <3>1, <3>2
  <2>3. CASE b = a /\ Denied(a)
    <3>1. vpc[a] = "vetted" /\ vpc'[a] = "ended" /\ verdict' = verdict /\ verdict[a] # "ok"
      BY <1>0, <1>2, <2>3 DEF Denied, GoV
    <3>2. verdict'[a] = "denied"
      BY <1>2, <3>1 DEF Verdict
    <3> QED
      BY <3>1, <3>2 DEF Target
  <2>4. CASE b = a /\ Connect(a)
    <3>1. /\ vpc[a] = "vetted" /\ vpc'[a] = "connecting" /\ verdict' = verdict
          /\ verdict[a] = "ok" /\ UNCHANGED <<control, missed>>
      BY <1>0, <1>2, <2>4 DEF Connect, GoV, listvars, handlervars
    <3> QED
      BY <1>0, <1>2, <1>4, <3>1 DEF Target, VettedBy, Handler
  <2>5. CASE b = a /\ Connected(a)
    <3>1. /\ vpc[a] = "connecting" /\ vpc'[a] = "ended" /\ verdict' = verdict /\ winner'[q] # 0
          /\ UNCHANGED <<control, missed>>
      BY <1>0, <1>2, <2>5 DEF Connected, GoV, listvars
    <3> QED
      BY <1>0, <1>2, <1>4, <3>1 DEF Target, VettedBy, Handler
  <2>6. CASE b = a /\ ConnectFails(a)
    <3>1. /\ vpc[a] \in {"vetted", "connecting"} /\ vpc'[a] = "ended"
          /\ verdict'[a] \in DialErrs \cup UserErrs
          /\ vpc[a] = "vetted" => verdict[a] = "ok"
      BY <1>0, <1>2, <2>6 DEF ConnectFails, GoV
    <3>2. Passes(a)
      BY <1>2, <3>1 DEF Target
    <3> QED
      BY <1>0, <1>4, <3>1, <3>2 DEF Target
  <2> QED
    BY <1>7, <2>1, <2>2, <2>3, <2>4, <2>5, <2>6 DEF Dialling
<1>8. ASSUME NEW r \in Reqs, Handling(r) PROVE Target(a)'
  <2>1. a # <<r, 0>>
    BY ActorKinds
  <2> QED
    BY <1>0, <1>2, <1>5, <1>8, <2>1, HandlingMoves
<1>9. CASE Tick \/ HostChanges \/ UNCHANGED vars
  BY <1>5, <1>9, WorldMoves
<1> QED
  BY <1>6, <1>7, <1>8, <1>9, Steps

\* A conn whose local IP is not the remote one is not one to this host, or the
\* Dialer's LocalAddr is another address.
LEMMA OtherIP ==
    ASSUME IndInv, Default, NEW q \in Reqs, qpc[q] = "race", winner[q] # 0,
           FALSE \in SameIP(<<q, winner[q]>>), self[<<q, winner[q]>>]
    PROVE  cfg.egress \notin {NoIP, IPOf(<<q, winner[q]>>)}
<1> DEFINE w == <<q, winner[q]>>
<1>1. /\ winner[q] \in DOMAIN addrs[q] /\ vpc[w] = "ended" /\ verdict[w] = "ok"
      /\ w \in Attempts
  <2>1. Phase(q) /\ winner[q] \in 0 .. 2
    BY DEF IndInv, TypeOK, Phases
  <2>2. addrs[q] # <<>>
    BY <2>1 DEF Phase
  <2>3. w \in Attempts
    BY <2>1 DEF Attempts
  <2> QED
    BY <2>1, <2>2, <2>3 DEF Phase
<1>2. Passes(w)
  BY <1>1 DEF IndInv, Dialled, Target
<1>3. IPOf(w) \notin Unspecified
  BY <1>2, ConnectAssumption DEF Passes, Default, allow, classify
<1>4. cfg.egress # NoIP
  BY DEF SameIP
<1>5. IPOf(w) # cfg.egress
  BY <1>3, <1>4 DEF SameIP
<1> QED
  BY <1>4, <1>5

\* What is relayed to is elsewhere.
LEMMA ElsewhereStep ==
    ASSUME IndInv, [Next]_vars
    PROVE  Elsewhere'
<1>0. /\ TypeOK /\ Phases /\ Attempting /\ self \in [Actors -> BOOLEAN] /\ winner \in [Reqs -> 0 .. 2]
      /\ qpc \in [Reqs -> QStages] /\ (Default' <=> Default) /\ cfg' = cfg
  BY AllowKept DEF IndInv, TypeOK, Default, QStages
<1>1. SUFFICES ASSUME NEW q \in Reqs, Default, qpc'[q] \in {"reply", "relay"},
                      self'[<<q, winner'[q]>>]
      PROVE  cfg.egress \notin {NoIP, IPOf(<<q, winner[q]>>)'}
  BY <1>0 DEF Elsewhere
<1>2. Phase(q)
  BY DEF IndInv, Phases
<1>3. ASSUME winner[q] # 0, winner'[q] = winner[q], addrs'[q] = addrs[q]
      PROVE  IPOf(<<q, winner[q]>>)' = IPOf(<<q, winner[q]>>)
  BY <1>3 DEF IPOf
<1>4. CASE qpc[q] \in {"reply", "relay"}
  <2>1. winner[q] # 0 /\ winner'[q] = winner[q] /\ addrs'[q] = addrs[q]
    BY <1>0, <1>1, <1>2, <1>4, WinnerKept, AddrsKept DEF Phase
  <2> DEFINE w == <<q, winner[q]>>
  <2>2. w \in Attempts /\ w \in Actors /\ w[1] = q /\ w[2] = winner[q]
    BY <1>0, <2>1 DEF Attempts, Actors
  <2>3. vpc[w] \in {"idle", "ended"}
    BY <1>2, <2>1, <2>2 DEF Phase, IndInv, Attempting, Attempt
  <2>4. ASSUME Dialling(w) PROVE self'[w] = self[w]
    BY <2>3, <2>4 DEF Dialling, Start, Denied, Connect, Connected, ConnectFails, sockvars
  <2>5. self'[w] = self[w]
    BY <1>0, <2>2, <2>4, VetMoves, DiallingMoves, HandlingMoves, WorldMoves, Steps
  <2> QED
    BY <1>1, <1>3, <1>4, <2>1, <2>5 DEF IndInv, Elsewhere
<1>5. CASE qpc[q] \notin {"reply", "relay"}
  <2>1. Handling(q) /\ self' = self
    BY <1>0, <1>1, <1>5, VetMoves, DiallingMoves, HandlingMoves, WorldMoves, Steps
  <2>2. CASE DialCustom(q)
    <3>1. addrs[q] = <<>> /\ winner'[q] = 1
      BY <1>0, <1>1, <1>2, <2>2 DEF DialCustom, Phase, GoQ, FailQ
    <3>2. <<q, 1>> \in Attempts /\ <<q, 1>>[1] = q
      BY DEF Attempts
    <3> QED
      BY <1>0, <1>1, <2>1, <3>1, <3>2 DEF Attempting, Attempt
  <2>3. CASE Post(q)
    <3>1. /\ qpc[q] = "race" /\ winner[q] # 0 /\ winner'[q] = winner[q] /\ addrs'[q] = addrs[q]
          /\ FALSE \in SameIP(<<q, winner[q]>>)
      <4>1. PICK same \in SameIP(<<q, winner[q]>>) :
                 IF same THEN GoQ(q, "ask") /\ GoV(Handler(q), "ask")
                 ELSE GoQ(q, "reply") /\ UNCHANGED vpc
        BY <2>3 DEF Post
      <4>2. ~same
        BY <1>0, <1>1, <4>1 DEF GoQ
      <4>3. SameIP(<<q, winner[q]>>) \subseteq BOOLEAN
        <5>1. self[<<q, winner[q]>>] \in BOOLEAN
          BY <1>0 DEF Actors
        <5> QED
          BY <5>1 DEF SameIP
      <4> QED
        BY <2>3, <4>1, <4>2, <4>3 DEF Post
    <3> QED
      BY <1>1, <1>3, <2>1, <3>1, OtherIP
  <2>4. CASE PostAsked(q)
    <3>1. qpc[q] = "ask" /\ vpc[<<q, 0>>] = "vetted" /\ verdict[<<q, 0>>] = "ok"
      BY <1>0, <1>1, <2>4 DEF PostAsked, GoQ, FailQ, Handler
    <3>2. Verdict(<<q, 0>>) /\ <<q, 0>>[1] = q /\ <<q, 0>>[2] = 0
      BY ActorKinds DEF IndInv, Judged
    <3> QED
      BY <1>1, <3>1, <3>2 DEF Verdict
  <2> QED
    BY <1>0, <1>1, <1>5, <2>1, <2>2, <2>3, <2>4 DEF Handling, Serve, Early, Dial, RaceLost, Reply,
       RelayEnds, Fail, Resolve, ResolvePTR, NotSupported, GoQ, FailQ, FailLookup, Answer
<1> QED
  BY <1>4, <1>5

\* Whom an error is of.
LEMMA BlamesStep ==
    ASSUME IndInv, [Next]_vars
    PROVE  Blames'
<1>0. /\ TypeOK /\ Phases /\ Attempting /\ UNCHANGED <<cfg, ask>> /\ err \in [Reqs -> Errs]
      /\ vpc \in [Actors -> VStages]
  BY AllowKept DEF IndInv, TypeOK, VStages
<1>1. SUFFICES ASSUME NEW q \in Reqs, err'[q] \in Forbidden, ask[q].cmd = "connect", ~cfg.custom
               PROVE  \E a \in Tried(q)' :
                          vpc'[a] = "ended" /\ verdict'[a] = err'[q] /\ Passes(a)'
  BY <1>0 DEF Blames, Blamed
<1>2. Phase(q) /\ Outcome(q) /\ Blamed(q)
  BY DEF IndInv, Phases, Replied, Blames
<1>3. CASE err'[q] = err[q]
  <2>1. PICK a \in Tried(q) : vpc[a] = "ended" /\ verdict[a] = err[q] /\ Passes(a)
    BY <1>1, <1>2, <1>3 DEF Blamed
  <2>2. qpc[q] \in {"fail", "returned"}
    BY <1>1, <1>2, <1>3 DEF Outcome, Forbidden
  <2>3. addrs'[q] = addrs[q]
    BY <1>0, <2>2, AddrsKept
  <2>4. a \in Attempts /\ a \in Actors /\ a[1] = q /\ a[2] # 0 /\ a \in Tried(q)'
    BY <2>1, <2>3, ActorKinds DEF Tried
  <2>5. vpc'[a] = "ended" /\ verdict'[a] = verdict[a]
    <3>1. ASSUME NEW b \in Actors, Vet(b) PROVE b # a
      BY <1>0, <2>1, <3>1, Vetting DEF Checking
    <3>2. ASSUME NEW b \in Attempts, Dialling(b) PROVE b # a
      BY <2>1, <3>2, NotChecking
    <3>3. ASSUME NEW r \in Reqs PROVE a # <<r, 0>>
      BY <2>4
    <3> QED
      BY <1>0, <2>1, <2>4, <3>1, <3>2, <3>3, VetMoves, DiallingMoves, HandlingMoves, WorldMoves, Steps
  <2>6. Passes(a)'
    BY <1>0, <2>1, <2>4, PassesKept
  <2> QED
    BY <1>3, <2>1, <2>4, <2>5, <2>6
<1>4. CASE err'[q] # err[q]
  <2>1. Handling(q)
    BY <1>0, <1>4, VetMoves, DiallingMoves, HandlingMoves, WorldMoves, Steps
  <2>2. RaceLost(q)
    <3>1. ~DialCustom(q) /\ ~Resolve(q) /\ ~ResolvePTR(q) /\ ~NotSupported(q)
      BY <1>1 DEF DialCustom, Resolve, ResolvePTR, NotSupported
    <3>2. Dial(q) => err' = err \/ \E e \in {"notFound", "other"} : FailQ(q, e)
      BY DEF Dial
    <3>3. PostAsked(q) => err' = err \/ FailQ(q, "denied")
      BY DEF PostAsked
    <3>4. \A e : FailQ(q, e) => err'[q] = e
      BY <1>0 DEF FailQ
    <3> QED
      BY <1>1, <1>4, <2>1, <3>1, <3>2, <3>3, <3>4 DEF Handling, Serve, Early, Post, Reply, RelayEnds,
         Fail, Forbidden
  <2>3. /\ qpc[q] = "race" /\ winner[q] = 0 /\ \A a \in Tried(q) : vpc[a] = "ended"
        /\ err'[q] = FirstErr(q) /\ UNCHANGED <<addrs, vpc, verdict>>
    BY <1>0, <2>2 DEF RaceLost, FailQ
  <2>4. PICK a \in Tried(q) : vpc[a] = "ended" /\ verdict[a] = FirstErr(q)
    BY <1>0, <2>3, RaceError DEF IndInv
  <2>5. a \in Attempts /\ a \in Actors /\ a[1] = q /\ a[2] # 0 /\ a \in Tried(q)'
    BY <2>3, <2>4, ActorKinds DEF Tried
  <2>6. Passes(a)
    BY <1>1, <2>3, <2>4, <2>5 DEF IndInv, Dialled, Target, Forbidden
  <2>7. Passes(a)'
    BY <1>0, <2>4, <2>5, <2>6, PassesKept
  <2> QED
    BY <2>3, <2>4, <2>5, <2>7
<1> QED
  BY <1>3, <1>4

\* The errors and the replies.
LEMMA RepliedStep ==
    ASSUME IndInv, [Next]_vars
    PROVE  Replied'
<1>0. /\ TypeOK /\ Phases /\ UNCHANGED <<cfg, ask>> /\ qpc \in [Reqs -> QStages]
      /\ err \in [Reqs -> Errs] /\ replies \in [Reqs -> Seq(Codes)] /\ winner \in [Reqs -> 0 .. 2]
  BY AllowKept DEF IndInv, TypeOK, QStages, Codes
<1>1. SUFFICES ASSUME NEW q \in Reqs PROVE Outcome(q)'
  BY DEF Replied
<1>2. Outcome(q) /\ Phase(q) /\ Phase(q)'
  BY PhasesStep DEF IndInv, Replied, Phases
<1>3. ASSUME qpc'[q] = qpc[q], err'[q] = err[q], replies'[q] = replies[q], addrs'[q] = addrs[q]
      PROVE  Outcome(q)'
  <2>1. AllDenied(q)' <=> AllDenied(q)
    BY <1>0, <1>3, AllowKept
  <2> QED
    BY <1>0, <1>2, <1>3, <2>1 DEF Outcome
<1>4. ASSUME Handling(q) PROVE Outcome(q)'
  <2>1. CASE /\ Serve(q) \/ Early(q) \/ Post(q) \/ Dial(q) \/ PostAsked(q) \/ DialCustom(q)
             /\ qpc'[q] # "fail"
    <3>1. /\ qpc'[q] \notin {"fail", "returned", "relay"} /\ UNCHANGED <<err, replies>>
          /\ qpc[q] \notin {"fail", "returned", "relay"}
      BY <1>0, <2>1 DEF Serve, Early, Post, Dial, PostAsked, DialCustom, GoQ, FailQ
    <3> QED
      BY <1>2, <3>1 DEF Outcome
  <2>2. ASSUME NEW e \in Errs \ {"nil"}, FailQ(q, e), replies' = replies,
               qpc[q] \notin {"fail", "returned", "relay"},
               AllDenied(q)' => e = "denied",
               ask[q].host = Name /\ ask[q].cmd # "connect" => e # "denied"
        PROVE  Outcome(q)'
    <3>1. qpc'[q] = "fail" /\ err'[q] = e
      BY <1>0, <2>2 DEF FailQ, GoQ
    <3>2. replies[q] = <<>>
      BY <1>2, <2>2 DEF Outcome
    <3> QED
      BY <1>0, <2>2, <3>1, <3>2 DEF Outcome
  <2>3. CASE PostAsked(q) /\ FailQ(q, "denied")
    <3>1. replies' = replies /\ qpc[q] = "ask" /\ ask[q].cmd = "connect"
      BY <1>2, <2>3 DEF PostAsked, Phase
    <3> QED
      BY <2>2, <2>3, <3>1 DEF Errs
  <2>4. CASE DialCustom(q) /\ qpc'[q] = "fail"
    <3>1. PICK e \in {"denied"} \cup UserErrs : FailQ(q, e)
      BY <1>0, <2>4 DEF DialCustom, GoQ
    <3>2. replies' = replies /\ qpc[q] = "start" /\ ask[q].cmd = "connect" /\ addrs' = addrs
      BY <2>4 DEF DialCustom
    <3>3. ~AllDenied(q)'
      BY <1>2, <3>2 DEF Phase, Before, AllDenied
    <3>4. e \in Errs \ {"nil"}
      BY <3>1, ConnectAssumption DEF Errs
    <3> QED
      BY <2>2, <3>1, <3>2, <3>3, <3>4
  <2>5. ASSUME NEW e \in {"notFound", "other"}, Dial(q), FailQ(q, e), addrs' = addrs
        PROVE  Outcome(q)'
    <3>1. replies' = replies /\ qpc[q] = "dial"
      BY <2>5 DEF Dial
    <3>2. ~AllDenied(q)'
      BY <1>2, <2>5, <3>1 DEF Phase, Before, AllDenied
    <3> QED
      BY <2>2, <2>5, <3>1, <3>2 DEF Errs, Errnos
  <2>6. CASE RaceLost(q)
    <3>1. /\ replies' = replies /\ qpc[q] = "race" /\ addrs' = addrs /\ FailQ(q, FirstErr(q))
          /\ winner[q] = 0 /\ \A a \in Tried(q) : vpc[a] = "ended"
      BY <2>6 DEF RaceLost
    <3>2. FirstErr(q) \in {"denied"} \cup DialErrs \cup UserErrs /\ (AllDenied(q) => FirstErr(q) = "denied")
      BY <3>1, RaceError DEF IndInv
    <3>3. FirstErr(q) \in Errs \ {"nil"}
      BY <3>2, ConnectAssumption DEF Errs, Errnos
    <3>4. AllDenied(q)' <=> AllDenied(q)
      BY <1>0, <3>1, AllowKept
    <3>5. ask[q].cmd = "connect"
      BY <1>2, <3>1 DEF Phase
    <3> QED
      BY <2>2, <3>1, <3>2, <3>3, <3>4, <3>5
  <2>7. CASE Reply(q)
    <3>1. /\ qpc[q] = "reply" /\ UNCHANGED <<err, addrs>>
          /\ \/ replies' = [replies EXCEPT ![q] = Append(@, 0)] /\ qpc'[q] = "relay"
             \/ replies' = replies /\ qpc'[q] = "returned"
      BY <1>0, <2>7 DEF Reply, AddReply, GoQ
    <3>2. replies[q] = <<>> /\ err[q] = "nil" /\ winner[q] # 0
      BY <1>2, <3>1 DEF Outcome, Phase
    <3>3. ~AllDenied(q)
      <4>1. SUFFICES ASSUME addrs[q] # <<>>,
                            \A i \in DOMAIN addrs[q] : ~allow(LocalAddr, addrs[q][i], ask[q].port0)
                     PROVE  FALSE
        BY DEF AllDenied
      <4> DEFINE w == <<q, winner[q]>>
      <4>2. /\ winner[q] \in DOMAIN addrs[q] /\ vpc[w] = "ended" /\ verdict[w] = "ok"
            /\ w \in Attempts /\ w[1] = q /\ w[2] = winner[q]
        BY <1>0, <1>2, <3>2, <4>1 DEF Phase, Attempts
      <4>3. Passes(w)
        BY <4>2 DEF IndInv, Dialled, Target
      <4> QED
        BY <3>2, <4>1, <4>2, <4>3 DEF Passes, IPOf
    <3>4. ~AllDenied(q)'
      BY <1>0, <3>1, <3>3, AllowKept
    <3>5. replies'[q] = <<>> \/ (replies'[q] # <<>> /\ replies'[q][1] = 0)
      BY <1>0, <3>1, <3>2
    <3>6. replies'[q] # <<>> => qpc'[q] = "relay"
      BY <1>0, <3>1, <3>2
    <3> QED
      BY <1>0, <3>1, <3>2, <3>4, <3>5, <3>6 DEF Outcome
  <2>8. CASE RelayEnds(q)
    <3>1. qpc[q] = "relay" /\ qpc'[q] = "returned" /\ UNCHANGED <<err, replies, addrs>>
      BY <1>0, <2>8 DEF RelayEnds, GoQ
    <3>2. AllDenied(q)' <=> AllDenied(q)
      BY <1>0, <3>1, AllowKept
    <3> QED
      BY <1>0, <1>2, <3>1, <3>2 DEF Outcome
  <2>9. CASE Fail(q)
    <3>1. /\ qpc[q] = "fail" /\ qpc'[q] = "returned" /\ UNCHANGED <<err, addrs>>
          /\ \/ replies' = [replies EXCEPT ![q] = Append(@, ErrReply(q))]
             \/ replies' = replies
      BY <1>0, <2>9 DEF Fail, AddReply, GoQ
    <3>2. replies[q] = <<>> /\ err[q] \in Errs /\ err[q] # "nil"
      BY <1>0, <1>2, <3>1 DEF Outcome
    <3>3. AllDenied(q)' <=> AllDenied(q)
      BY <1>0, <3>1, AllowKept
    <3>4. /\ ErrReply(q) # 0
          /\ ask[q].host = Name /\ ErrReply(q) = 2 =>
               err[q] # "denied" /\ (ask[q].cmd = "connect" => err[q] \in Forbidden)
      BY <1>2, <3>1, <3>2, ReplyCodes DEF ErrReply, Outcome
    <3>5. ask[q].host = Name /\ AllDenied(q) => ErrReply(q) = 4
      <4>1. AllDenied(q) => ask[q].cmd = "connect" /\ err[q] = "denied"
        BY <1>2, <3>1 DEF Outcome, Phase, AllDenied
      <4> QED
        BY <4>1 DEF ErrReply
    <3>6. replies'[q] = <<>> \/ (replies'[q] # <<>> /\ replies'[q][1] = ErrReply(q))
      BY <1>0, <3>1, <3>2
    <3> QED
      BY <1>0, <3>1, <3>2, <3>3, <3>4, <3>5, <3>6 DEF Outcome
  <2>10. CASE Resolve(q) \/ ResolvePTR(q)
    <3>1. /\ qpc[q] = "start" /\ addrs' = addrs /\ ask[q].cmd \in {"resolve", "ptr"}
          /\ \/ \E ip : Answer(q, ip)
             \/ \E e \in Errs \ {"nil"} :
                  FailLookup(q, e) /\ (ask[q].host = Name => e # "denied")
      <4>1. /\ Name \notin IPs /\ UserErrs \subseteq Errs \ {"nil", "denied"}
            /\ {"denied", "notFound", "unsupported", "other"} \subseteq Errs \ {"nil"}
        BY ConnectAssumption DEF Errs, Errnos
      <4>2. CASE Resolve(q)
        BY <4>1, <4>2 DEF Resolve
      <4>3. CASE ResolvePTR(q)
        BY <4>1, <4>3 DEF ResolvePTR
      <4> QED
        BY <2>10, <4>2, <4>3
    <3>2. ~AllDenied(q)' /\ replies[q] = <<>> /\ err[q] = "nil"
      BY <1>2, <3>1 DEF Phase, Before, AllDenied, Outcome
    <3>3. CASE \E ip : Answer(q, ip)
      <4>1. /\ qpc'[q] = "returned" /\ err' = err
            /\ \/ replies' = [replies EXCEPT ![q] = Append(@, 0)]
               \/ replies' = replies
        BY <1>0, <3>3 DEF Answer, AddReply, GoQ
      <4>2. replies'[q] = <<>> \/ (replies'[q] # <<>> /\ replies'[q][1] = 0)
        BY <1>0, <3>2, <4>1
      <4> QED
        BY <1>0, <3>2, <4>1, <4>2 DEF Outcome
    <3>4. ASSUME NEW e \in Errs \ {"nil"}, FailLookup(q, e),
                 ask[q].host = Name => e # "denied"
          PROVE  Outcome(q)'
      BY <2>2, <3>1, <3>2, <3>4 DEF FailLookup
    <3> QED
      BY <3>1, <3>3, <3>4
  <2>11. CASE NotSupported(q)
    <3>1. qpc[q] = "start" /\ addrs' = addrs /\ replies' = replies /\ FailQ(q, "unsupported")
      BY <2>11 DEF NotSupported
    <3>2. ~AllDenied(q)'
      BY <1>2, <3>1 DEF Phase, Before, AllDenied
    <3> QED
      BY <2>2, <3>1, <3>2 DEF Errs
  <2>12. Serve(q) \/ Early(q) \/ Post(q) => qpc'[q] # "fail"
    BY <1>0 DEF Serve, Early, Post, GoQ
  <2>13. PostAsked(q) => qpc'[q] # "fail" \/ FailQ(q, "denied")
    BY <1>0 DEF PostAsked, GoQ
  <2>14. Dial(q) => qpc'[q] # "fail" \/ \E e \in {"notFound", "other"} : FailQ(q, e) /\ addrs' = addrs
    BY <1>0 DEF Dial, GoQ
  <2> QED
    BY <1>4, <2>1, <2>3, <2>4, <2>5, <2>6, <2>7, <2>8, <2>9, <2>10, <2>11, <2>12, <2>13,
       <2>14 DEF Handling
<1> QED
  BY <1>0, <1>3, <1>4, VetMoves, DiallingMoves, HandlingMoves, WorldMoves, Steps

\* What RESOLVE answers.
LEMMA DisclosedStep ==
    ASSUME IndInv, [Next]_vars
    PROVE  Disclosed'
<1>0. TypeOK /\ \A ip : allowIP(ip)' <=> allowIP(ip)
  BY AllowKept DEF IndInv, allowIP
<1>1. ASSUME disclosed' = disclosed PROVE Disclosed'
  BY <1>0, <1>1 DEF IndInv, Disclosed
<1>2. ASSUME NEW q \in Reqs, NEW ip, Answer(q, ip), ip = NoIP \/ allowIP(ip) PROVE Disclosed'
  <2>1. disclosed' = disclosed \/ disclosed' = disclosed \cup ({ip} \ {NoIP})
    BY <1>2 DEF Answer
  <2> QED
    BY <1>0, <1>2, <2>1 DEF IndInv, Disclosed
<1>3. ASSUME NEW q \in Reqs, Handling(q) PROVE Disclosed'
  <2>1. CASE Resolve(q)
    <3>1. \/ disclosed' = disclosed
          \/ Answer(q, ask[q].host) /\ allowIP(ask[q].host)
          \/ \E ips \in Answers : Answer(q, FirstAllowed(ips)) /\ FirstAllowed(ips) # NoIP
      BY <2>1 DEF Resolve, FailLookup
    <3> QED
      BY <1>1, <1>2, <3>1, AllowedFirst
  <2>2. CASE ResolvePTR(q)
    <3>1. disclosed' = disclosed \/ Answer(q, NoIP)
      BY <2>2 DEF ResolvePTR, FailLookup
    <3> QED
      BY <1>1, <1>2, <3>1
  <2> QED
    BY <1>1, <1>3, <2>1, <2>2 DEF Handling, Serve, DialCustom, Early, Dial, RaceLost, Post,
       PostAsked, Reply, RelayEnds, Fail, NotSupported
<1> QED
  BY <1>0, <1>1, <1>3, VetMoves, DiallingMoves, WorldMoves, Steps

-----------------------------------------------------------------------------
(* The invariant, and what it implies.                                     *)

\* Before the first request nothing is listed, dialled or answered.
LEMMA IndInvInit == Init => IndInv
<1> SUFFICES ASSUME Init PROVE IndInv
  OBVIOUS
<1>0. /\ MaxNow \in Nat /\ MaxChanges \in Nat /\ TTL \in Nat /\ Never = MaxNow + 1
      /\ 0 \in 0 .. Never /\ Never \in 0 .. Never /\ 0 \in 0 .. MaxNow /\ 0 \in 0 .. MaxChanges
      /\ now = 0
  BY ConnectAssumption DEF Never, Init
<1>1. HostType
  <2>1. host \in [IPs -> 0 .. Never]
    BY <1>0 DEF Init
  <2>2. ask \in [Reqs -> AskType]
    BY ConnectAssumption DEF Init
  <2> QED
    BY <1>0, <2>1, <2>2 DEF Init, HostType
<1>2. NoListing \in Listings /\ Honest(NoListing)
  BY <1>1, NewListings, HonestNew
<1>3. ListType
  <2>1. seen \in [Actors -> Listings] /\ cached \in Listings /\ mu = None
    BY <1>2 DEF Init
  <2>2. checked \in [Actors -> 0 .. Never] /\ missed \in [Actors -> BOOLEAN]
    BY <1>0 DEF Init
  <2> QED
    BY <2>1, <2>2 DEF ListType
<1>4. HandlerType
  <2>1. <<>> \in [1 .. 0 -> IPs] /\ 0 \in 0 .. 2
    OBVIOUS
  <2>2. addrs \in [Reqs -> UNION {[1 .. n -> IPs] : n \in 0 .. 2}]
    BY <2>1 DEF Init
  <2>3. replies \in [Reqs -> Seq(0 .. 8)]
    BY DEF Init
  <2>4. qpc \in [Reqs -> {"start", "early", "dial", "race", "ask", "reply", "relay", "fail",
                          "returned"}]
    BY DEF Init
  <2>5. control \in [Reqs -> BOOLEAN] /\ winner \in [Reqs -> 0 .. 2] /\ err \in [Reqs -> Errs]
    BY <2>1 DEF Init, Errs
  <2> QED
    BY <2>2, <2>3, <2>4, <2>5 DEF HandlerType
<1>5. VetType
  BY DEF Init, VetType, Errs
<1>6. ScratchType
  <2>1. \A q \in Reqs, i \in 0 .. 2 : <<q, i>> \in Actors
    BY DEF Actors
  <2> QED
    BY <2>1 DEF Init, ScratchType
<1>7. TypeOK
  BY <1>1, <1>3, <1>4, <1>5, <1>6, TypeParts
<1>8. Phases
  <2>1. \A q \in Reqs : /\ qpc[q] = "start" /\ addrs[q] = <<>> /\ winner[q] = 0
                        /\ vpc[<<q, 0>>] = "idle"
    BY ActorKinds DEF Init
  <2> QED
    BY <2>1 DEF Phases, Phase, Before
<1>9. Attempting
  BY ActorKinds DEF Init, Attempting, Attempt
<1>10. Owners
  BY DEF Init, Owners
<1>11. Listed
  BY <1>2 DEF Init, Listed
<1>12. Judged
  BY DEF Init, Judged, Verdict, Checking
<1>13. Dialled
  BY ActorKinds DEF Init, Dialled, Target
<1>14. Literal /\ Elsewhere
  BY DEF Init, Literal, VettedEarly, Elsewhere
<1>15. Replied /\ Blames
  BY DEF Init, Replied, Outcome, Blames, Blamed, Forbidden
<1>16. Disclosed
  BY DEF Init, Disclosed
<1> QED
  BY <1>7, <1>8, <1>9, <1>10, <1>11, <1>12, <1>13, <1>14, <1>15, <1>16 DEF IndInv

\* Every step keeps it.
LEMMA IndInvStep == IndInv /\ [Next]_vars => IndInv'
BY TypeStep, PhasesStep, AttemptingStep, OwnersStep, ListedStep, JudgedStep, DialledStep, LiteralStep,
   ElsewhereStep, BlamesStep, RepliedStep, DisclosedStep DEF IndInv

\* The checks, the dials and the replies of all requests keep the invariant,
\* however the attempts of a race, the listings they share and the changes of the
\* host's addresses interleave.
THEOREM Invariance == Spec => []IndInv
<1>1. Init => IndInv
  BY IndInvInit
<1>2. IndInv /\ [Next]_vars => IndInv'
  BY IndInvStep
<1> QED
  BY <1>1, <1>2, PTL DEF Spec

\* Every variable keeps its type; hostMu is held by who makes the listing, and the
\* scratch is in use exactly while one check uses it.
THEOREM TypeCorrect == Spec => []TypeOK
<1>1. IndInv => TypeOK
  BY DEF IndInv
<1> QED
  BY <1>1, Invariance, PTL

\* dialControl and vetEarly: no packet goes to an address the Filter denies, nor,
\* under DefaultFilter, to one the host has had for hostTTL when the listing was
\* found current, but for what cannot be told when the listing failed.
THEOREM OnlyVettedDialled == Spec => []TargetsVetted
<1>1. IndInv => TargetsVetted
  BY DEF IndInv, Dialled, Target, Passes, Default, TargetsVetted
<1> QED
  BY <1>1, Invariance, PTL

\* dialFiltered and ServeSOCKS: the host itself is never relayed to under
\* DefaultFilter, although a check may have let its address pass, unless the
\* Dialer's LocalAddr is another address and the check before the dial could not
\* tell; and a request leaves no target conn open when it returns.
THEOREM ConnsSafe == Spec => []TargetConns
<1>1. IndInv => TargetConns
  <2>1. SUFFICES ASSUME IndInv, NEW q \in Reqs
                 PROVE  /\ Default /\ qpc[q] \in {"reply", "relay"} /\ winner[q] # 0
                             /\ self[<<q, winner[q]>>] =>
                             /\ cfg.egress \notin {NoIP, IPOf(<<q, winner[q]>>)}
                             /\ ~missed[VettedBy(<<q, winner[q]>>)]
                        /\ qpc[q] = "returned" => \A i \in 1 .. 2 : sock[<<q, i>>] # "open"
    BY DEF TargetConns, Default
  <2>2. \A i \in 1 .. 2 : <<q, i>> \in Attempts /\ <<q, i>>[1] = q
    BY DEF Attempts
  <2>3. ASSUME Default, winner[q] # 0, self[<<q, winner[q]>>]
        PROVE  ~missed[VettedBy(<<q, winner[q]>>)]
    <3>1. <<q, winner[q]>> \in Attempts /\ <<q, winner[q]>>[1] = q
      BY <2>1, <2>3 DEF IndInv, TypeOK, Attempts
    <3>2. vpc[<<q, winner[q]>>] = "ended" /\ verdict[<<q, winner[q]>>] = "ok"
      BY <2>1, <2>3, <3>1 DEF IndInv, Attempting, Attempt, Phases, Phase
    <3> QED
      BY <2>1, <2>3, <3>1, <3>2 DEF IndInv, Dialled, Target
  <2> QED
    BY <2>1, <2>2, <2>3 DEF IndInv, Elsewhere, Attempting, Attempt
<1> QED
  BY <1>1, Invariance, PTL

\* errReply and ResolveHandler: a client cannot tell a denied name from an unknown
\* one, and RESOLVE discloses allowed addresses only.
THEOREM NamesHidden == Spec => []NoOracle
<1>1. IndInv => NoOracle
  <2> SUFFICES ASSUME IndInv PROVE NoOracle
    OBVIOUS
  <2>1. ASSUME NEW q \in Reqs, replies[q] # <<>>
        PROVE  /\ ask[q].host = Name /\ replies[q][1] = 2 =>
                    /\ err[q] # "denied"
                    /\ ask[q].cmd = "connect" /\ ~cfg.custom =>
                         \E a \in Tried(q) :
                             verdict[a] = err[q] /\ allow(LocalAddr, IPOf(a), ask[q].port0)
               /\ ask[q].host = Name /\ addrs[q] # <<>>
                    /\ (\A ip \in Range(addrs[q]) : ~allow(LocalAddr, ip, ask[q].port0)) =>
                    replies[q][1] = 4
               /\ replies[q][1] = 0 <=> err[q] = "nil"
    <3>1. Outcome(q) /\ Blamed(q)
      BY DEF IndInv, Replied, Blames
    <3>2. addrs[q] # <<>> /\ (\A ip \in Range(addrs[q]) : ~allow(LocalAddr, ip, ask[q].port0)) =>
            AllDenied(q)
      BY DEF AllDenied, Range
    <3>3. \A a \in Tried(q) : Passes(a) => allow(LocalAddr, IPOf(a), ask[q].port0)
      BY DEF Tried, Passes
    <3> QED
      BY <2>1, <3>1, <3>2, <3>3 DEF Outcome, Blamed
  <2>2. \A ip \in disclosed : allowIP(ip)
    BY DEF IndInv, Disclosed
  <2> QED
    BY <2>1, <2>2 DEF NoOracle
<1> QED
  BY <1>1, Invariance, PTL

=============================================================================
