# socks0 in TLA+

A model of `go/socks0`, a SOCKS4/4a/5 client and server library with pipelined
(L1) and early-data (L2) handshakes. The modules follow the code of the
repository; `PROJECT.json` maps each definition to the lines it stands for.

## 1. The system

| Part | State it keeps | Operations | What makes it correct |
|---|---|---|---|
| Server (`server/server.go`) | `done`, listeners, tracked conns, `slotsUsed`, `slotFreed`, `inHandshake` | `Serve`, `ServeConn`, `Shutdown`, `Close` | slots accounted for, caps kept, no lost wake-up, a drained server stays drained |
| Server conn (`server/conn.go`, `request.go`, `tunnel.go`, `auth.go`) | one pooled buffer with `[r, w)`, queued output, sticky errors, `replied`, `done`, `exposed`, `reading` | the handshake, `Early`, `Peek`, `Reply`, `ReplyListening`, `Read`, `WriteTo`, `NetConn`, the end | no byte behind the request lost, repeated or reordered; one final reply; buffers pooled clean and unshared |
| BIND (`server/bind.go`) | the watcher of the client | `ServeSOCKS`, `accept`, `watchClient` | the watcher's bytes stay in front |
| Relay (`server/relay.go`) | `lastMove`, `halfCloseAt`, `once`, `err`, deadlines of two conns | `Relay`, two copy goroutines | timeouts bound the relay and cut only idle ones; a failure ends both directions |
| UDP ASSOCIATE (`server/udp.go`) | locked client port, judged targets, cached names, the previous header's verdict | `up`, `down`, `watchControl` | only allowed targets are reached, from one port; answers pass, unsolicited datagrams do not |
| CONNECT, RESOLVE, filter (`server/connect.go`, `resolve.go`, `filter.go`, `ownhost.go`) | one listing of the host's addresses, shared and cached; a conn's scratch request | `dial`, `vet`, `checkOwnHost`, `currentHostAddrs`, `lookupAllowed` | no packet goes to an address that was not judged, the host itself is not relayed to, denied names look unknown |
| Client conn (`conn.go`) | `phase`, `busy`, `done`, `err`, `abortErr`, deadlines, fast paths | `HandshakeContext`, `Read`, `Write`, `ReadFrom`, `CloseWrite`, `Close`, deadlines | the handshake is written once and ends once; data keeps its place; nobody sleeps for ever |
| Handshake engine (`handshake.go`, `request.go`) | the request bytes and their credentials, the bytes read | `init`, `run`, `readReplies`, `wipe` | credentials go out and are then wiped; nothing past the replies is read; a failure is blamed on what caused it |
| Client UDP (`udp.go`, `relayaddr.go`) | control conn, relay socket, `err`, `closed`, `done`, two buffers with their mutexes | `ListenUDP`, `NewUDPConn`, `ReadFrom`, `WriteTo`, `Close`, the watcher, the GC's cleanup | the relay address obeys the policy, failures close what was opened, the first reason stays, every call returns |
| Client BIND (`bind.go`) | listener state, `closed` | `Listen`, `Accept`, `SetDeadline`, `Close` | one owner of the conn: an `Accept`, or `Close` |
| Dialer, config, URL (`dialer.go`, `config.go`, `url.go`) | none between dials | `DialContext`, ... | no conn leaks on failure |
| Wire format (`wire/`) | none | parse, encode | parse is the inverse of encode |

How they meet: a `Serve` loop accepts a conn, takes a slot and starts the
serving goroutine, which runs the handshake on the server conn and then a
handler. The handler replies through the `Request` and hands the resulting
`Conn` to the relay (CONNECT, BIND) or keeps it as the control conn of an
association (UDP). `Shutdown` and `Close` race all of this through
`serverConn.state` and through closing the net conn. On the client every call of
a `Conn` may be the one that runs the handshake.

Hard to test, and listed with their lines under `hazards`: steps of two
goroutines between an unlock and a lock (a slot, a claim, a state, a buffer lent
out); values read early and used late (a deadline, a mark, a cached verdict);
hooks that run after their lock is released or panic; several deadlines that
share one; and goroutines that wait for one another.

## 2. Modules

| Module | Models | One action is |
|---|---|---|
| `ServerLifecycle` | `server.go`; `serve`, `activate`, `finish` of `conn.go`; the state change of `Reply` | a critical section, an atomic operation, a blocking call |
| `ServerConn` | one conn from its first byte to its end, including BIND's watcher | one pass up to a blocking read, a section of `sc.mu`, a call of user code |
| `ByteStream` | what a tunnel promises of one direction (abstract) | send, deliver n bytes, end |
| `ClientConn` | the lazy handshake of `conn.go` with the order of `handshake.go`'s I/O and hooks | a section of `c.mu`, one I/O call, one hook |
| `Relay` | `relay.go` with a clock | a read, a write, a deadline set or computed |
| `ServerUDP` | `udp.go` with a clock | a step of `up`, `down` or `watchControl` between shared accesses |
| `UDPConn` | the client's `udp.go` and `relayaddr.go`, `connect` and `dialProxy` of `dialer.go` | a step of the setup, a section of `s.mu`, an atomic operation, one I/O call |
| `Wire` | the messages of `wire/` as bytes: encoders and parsers | (operators) |
| `Handshake` | `handshake.go`, `Request`, `connect` of `dialer.go`, `handshakeOver` of `conn.go`, over `Wire`'s bytes | one Read or Write, the step from a message to the next, ctx's AfterFunc |
| `Listener` | `bind.go`; composes with `Handshake`, whose reader its `Accept` uses | a section of `l.mu`, one I/O call |
| `Connect` | `connect.go`, `filter.go`, `ownhost.go`, `resolve.go`, `ReplyFor` of `errors.go`; net.Dialer's race of two addresses | an atomic operation, a section of `hostMu`, a call of the Filter, a connect |
| `...Proofs` | theorems about the module of that name; eight of them | |
| `MC...` | constants of the instances TLC checks | |

Abstractions. A conn, loop, IP or name is a model value or a small number. In
`ServerConn` a byte is its position in the client's stream and a message is its
kind and length, so that moving, clearing and losing bytes can be told apart and
the wire format is left out. In `ClientConn` the `...Locked` methods are
operators from the record of `c.mu`'s fields to the next record; that is how an
action is the whole critical section. `broadcastLocked` is a flag of that record
which wakes the sleepers when the section ends. In `Relay` and `ServerUDP` time
passes only while every goroutine is blocked short of its deadline: timers fire
on time and goroutines interleave freely inside a tick. In `ServerUDP` the
filter is the set of targets it allows. In `UDPConn` an IP is its class (scope,
family, unicast or not) and a datagram is its source and what its header says;
`closeWait` and `refusedWait` may end at any time, and `awaitEnd`, which only
delays, is part of the step it delays.

In `Handshake` a message is its bytes, because what is checked is which bytes a
reader takes; the proxy sends any of its messages next and the conn delivers
them in any segments. `sent` keeps the messages it has sent, each with its place
in the stream (`at`): what the outcome is compared with. `out`, `greeting` and the configuration are functions of
`cfg`, the call that Init chose. In `Connect` an IP is a model value with the
class that `classify` gives it and the IPv4 it embeds, a lookup gives any of
`Answers` each time, and the clock may tick between any two steps. The route
lookup that stands in for a failed listing may fail too. An error is the class
that `ReplyFor` tells apart; which ones a connect, and what the user supplies,
may give is a constant (`DialErrs`, `UserErrs`). `self` says whose end a conn is
at: only the check after the dial (`SameIP`), the kernel's choice of a local
address, reads it. `checked`, `missed` and `disclosed` are history variables: no
action reads them.

`ServerConn` implements `ByteStream`: `StreamKept` is the abstract specification
under the refinement mapping `Start <- HsLen`, all else by name. It is checked on
the instance and proved (`StreamImplemented`).

The definitions whose comment begins with "Mutant:" are variants of the one that
follows, each a plausible mistake in that code. No specification uses them;
`mutants` in `PROJECT.json` pairs each with the property it violates.

## 3. Runs

| Run | Instance | Shows |
|---|---|---|
| `lifecycle_safety` | 2 loops, 2 accepted conns and one of `ServeConn`, `MaxConns` 1, `MaxHandshakes` 2 | slot accounting, the cap on conns, wake-ups, the counter of handshakes, draining, no leaks, a shut conn is never served |
| `lifecycle_live` | 1 loop, 2 conns, panicking hooks, asynchronous replies | `Serve` and `Shutdown` return |
| `client` | reader, writer, a third goroutine; `ModeEarly` and the modes where one call runs the handshake; deadlines that expire or are reset, `ReplyTimeout`, the handshake timer, cancellation | one writer and one reader of the handshake, it ends once, data follows it, no lost wake-up, fast paths are current, `HandshakeDone` at most once, a failure unblocks the other calls; `Close` unblocks, an abort ends the handshake, `HandshakeDone` runs |
| `conn` | greeting, two authentication messages, request, 3 bytes behind it, a buffer of 4; a pipelined client with BIND and faults, or one that waits for each answer | the stream is kept, nothing blocks with output queued, buffers are clean and unshared, one final reply, refusals linger; the handshake of the client that waits completes |
| `relay_timeouts` | idle timeout 0 (off) or 2, half-close timeout 1; stalled peers, faults, ctx | the timeouts bound the relay, a read times it out only if both directions are idle, the error tells that a direction was cut, a failure ends both |
| `udp` | one IP allowed at one of two ports, a name that expires, 2 client ports; port or address filtering or none, `MaxTargets` 1 to 3, idle timeout 1 or 2 | reach, port lock, cached verdicts, fresh names, replies; the maps stay bounded, an idle association ends, and one that ends is taken down |
| `udpconn` | every combination of the Dialer's relay options, 7 classes of IPs, lookups of one or two of them; then 2 callers, `Close` and the cleanup | the relay address obeys the policy, a failed setup and a `Close` leave nothing open, results are true, everything ends |
| `bind` | 63 calls: `DialContext` in both modes with every kind of authentication, `Request` over SOCKS4 and 4a, with what they cannot express, cancelled calls over conns with and without deadlines, `LookupNetIP`, `Listen`; 2 `Accept`s, a `Close`, a `SetDeadline` | encoders and parsers agree, no byte past the replies is read, the outcome says what the proxy sent, the conn has one owner, the calls end |
| `connect` | a CONNECT of a name (three answers of two addresses), of an address the host may gain, of `0.0.0.0` or of port 0, RESOLVE, RESOLVE_PTR, an unknown command, beside another CONNECT; ControlContext with and without a LocalAddr of the Dialer, no ControlContext with `DefaultFilter` and `AllowAll`, a custom `Dial`; listings and route lookups that fail, a connect that is forbidden (EACCES) | no packet to an address that was not vetted, the host itself is relayed to only where a LocalAddr hides it, no target conn is left open, no denial tells names apart, requests end and leave the lock and the scratch free |

Bounds. Three conns and two loops are enough for two loops to race for a slot
that a third conn frees while a caller of `ServeConn` shares the counter. A
`Conn` is documented safe for one reader and one writer, so the third goroutine
makes the other calls (`HandshakeContext`, `CloseWrite`, `Close`); a `ReadFrom`
in `ModeEarly` meets one kind of them in a behaviour, every other write all
three, or two where deadlines are reset. The buffer of
`ServerConn` is smaller than the stream and not a multiple of a message, so
compaction happens in the middle of a message and with a lent slice. Two
addresses and two requests make three actors that compete for `hostMu` and two
for a scratch, and one change of the host's addresses in one tick lets every
listing be older or newer than it. A BND of a one-byte name is the shortest
reply there is, which is where reading ahead goes wrong, and an IPv4-mapped BND
is one that is not read as it was sent. `MaxNow` lets each
timeout expire and be postponed at least once. `MaxBytes`, `Total`, `MaxNow`
bound what peers do; nothing of the program is cut off by them. Options the code
reads once (the client's mode, `IdleTimeout`, the kind of UDP filtering) and
what a client is like (`Settings`) are variables that Init chooses from
`Configs`, `Idles` and `Settings` and that never change. `CHECK_DEADLOCK FALSE`
is set because the systems really stop: a server that is shut down, a conn that
ended, a relay that returned, peers that have nothing more to send.

Symmetry is used in `lifecycle_safety` only: loops, and accepted conns, are
interchangeable in every property it checks.

Fairness. Weak fairness on the steps of the program's own goroutines; none on
peers, on cancellation, or on Accept while the listener is open. I/O returns if
the conn is closed or has a deadline, which is what the net package promises.
The handshake of a server conn ends because `HandshakeTimeout` bounds it. For
`Shutdown`, `StopReturns` assumes that hooks and handlers return, and says so in
its statement; for `Serve` it does not. `HandshakeCompletes` assumes a client
that sends what it may. In `UDPConn`, Go's mutexes starve nobody (strong
fairness on locking) and the runtime runs the cleanup of an unreachable
`UDPConn`; the watcher's `Read` need never return unless the proxy ends the
conn. In `Listener`, a proxy that has not fallen silent or ended the conn
answers; one that has may keep a call for ever unless ctx, `HandshakeTimeout`,
the deadline or `Close` ends it, and `CallsEnd` is stated so. In `Connect`,
lookups and dials end (`DialTimeout` bounds both) and a relay need not. In
`ClientConn`, a source that `ReadFrom` reads from need never return.

### Disagreements between code and comments

Each is a run that TLC refutes, with the comment quoted in `findings`.

| Run | What happens |
|---|---|
| `lifecycle_panic` | a `ConnState` hook that panics on `StateActive` has its conn subtracted from `inHandshake` twice |
| `client_wipe` | a `ReadFrom` that lost the claim wipes credentials not yet sent |
| `conn_status` | `authenticate` cuts its output at a stale mark |

### Limits of what the passing runs say

These were met while modelling. The code allows them and its comments read as if
it did not; the properties and instances above are stated so as not to claim
more than the code does.

- `start` reads the handshake counter before `newConn` adds to it
  (`server.go:310`), so several loops can exceed `MaxHandshakes`; no property
  states that cap.
- A `Reply` from another goroutine may store `StateTunnel` after `finish` stored
  `StateClosed` (`request.go:147`).
- `HandshakeFirst` puts data behind the handshake for a proxy that answers only what it has read: the
  replies complete after the handshake was written.  An earlier answer makes
  `waitWritten` return (`conn.go:551`).
- `GotReply` may run after `HandshakeDone` when the write fails while the reader
  is between its read and its hook (`trace.go:11`).
- `NoneStranded` is checked with callers that set deadlines that expire; a
  caller that clears the read deadline after the failure undoes the past one
  that `failLocked` set (`conn.go:391-406`).  An abort does not have this gap:
  `EndUnblocks` is checked with callers that clear deadlines.
- `NetConn` between `end` and the close of nc gives nc without the buffered bytes
  (`tunnel.go:140`); the model calls it before the end.
- `TimeoutsExact` says that only idleness cuts for reads: a write that stalls for `IdleTimeout` cuts a
  relay that moves bytes the other way (`relay.go:153`).
- It bounds a half-closed relay by `HalfCloseTimeout` alone only for
  `IdleTimeout` 0: a read deadline computed before
  a half-close can be set after it (`relay.go:147`).
- A failing `CloseWrite` closes both conns and hides the error of the direction it
  cuts (`relay.go:133`); `FailureEndsBoth` says that the error is set for the other ways to be cut.
- A `RelayDial` gets a BND name unchecked, as its comment says; `RelayVetted`
  leaves that case out.  A `PacketConn` whose addresses are no `*net.UDPAddr` is
  trusted to deliver the relay's datagrams only (`udp.go:652`).
- The denial of a name at one port is cached for the name and refuses its other
  ports for the TTL (`server/udp.go:410`); `OnlyAllowedReached` is not affected.
- While one goroutine lists the host's addresses anew, others use the expired
  listing (`ownhost.go:37`, as its comment says), however old; `TargetsVetted`
  leaves a check with such a listing out, and the check after the dial, which
  `TargetConns` is about, catches it before anything is relayed.
- When the listing fails, `ownHost` asks the kernel for the source address, which
  does not see the host's IPv4 inside a NAT64 or 6to4 address
  (`ownhost.go:78`). When that route lookup fails too (`ownhost.go:95`; out of
  descriptors, both do), `checkOwnHost` lets the address pass (`filter.go:116`),
  and a packet goes to an address of the host, which `filter.go:26` excludes.
  `TargetsVetted` claims nothing of what cannot be told (`Known`); the check after
  the dial still keeps the host from being relayed to.
- That check compares the conn's own address with the remote one
  (`connect.go:137`). A Dialer whose `LocalAddr` is another address makes them
  differ, so a host's address that the listing missed or could not tell is relayed
  to; `TargetConns` says so, and that such a LocalAddr is the only way.
- 02 is said of a name when the system forbids the connect (EACCES, EPERM), when a
  custom `Dial`'s upstream answers SOCKS4 5C or 5D, or when a Resolver of
  `ResolveHandler` says `ErrNotAllowed`: only CONNECT's `ErrNotAllowed` becomes 04
  (`connect.go:92`). `NoOracle` is about the Filter's denials.
- A `StateClosed` hook that panics (`conn.go:184`) is past the recovery: it ends
  the process, or, where the caller of `ServeConn` recovers, leaves the conn tracked
  and its slot taken. `ServerLifecycle` has the panics of the other hooks.
- A panic of the copy that `Relay` runs on the caller's goroutine (`relay.go:52`)
  unwinds without closing the target. It is in neither `Relay`, which has the
  panic of the second goroutine, nor `Connect`.
- In `ClientConn` a reply can be read only once the whole handshake was written,
  so `client` does not reach a write that fails although the replies came
  (`conn.go:535`).
- No instance of `ServerConn` has a SOCKS4 request, which is a handshake of one
  message; the proofs have it. An `AuthConn.Write` of more than `maxAuthMsg`
  bytes, which is not queued (`auth.go:79`), is left out.
- `readNext` checks `maxReplyBytes` only when it needs more than its first buffer,
  which a custom Pipeliner could make longer than that
  (`handshake.go:443`); `Lacking` takes it to be shorter.
- `Request` over a conn that cannot set deadlines closes it when ctx fires
  (`conn.go:890`), although it "is never closed" (`request.go:12`); `ConnOwned`
  says when.

## 4. Proofs

Every theorem below is for all values of the constants: any number of goroutines,
any sets of addresses, names and configurations, any timeouts, buffer sizes and
clocks. Each module has one inductive invariant and the properties follow from it.
`Invariance` states it (in `ListenerProofs` there are two, `Ownership` and
`Conversation`); the others state properties that a run checks. Together they
are all the invariants, the refinement and the safety properties of the runs
that pass.

| Module | Theorem | States |
|---|---|---|
| `ServerLifecycleProofs` | `TypeCorrect` | `TypeOK` |
| | `SlotsHold` | `SlotsExact`: `SlotAccounting` and `MaxConnsRespected` |
| | `NoWakeupLost` | `NoSlotMissed` |
| | `NothingStays` | `NothingLeft`: `DrainedForGood` and `NothingLeaks` |
| | `ShutStaysShut` | `ShutNeverServed` |
| | `HandshakesCounted` | `HandshakesNotUndercounted`, if the hook does not panic |
| `ServerConnProofs` | `TypeCorrect` | `TypeOK` |
| | `BufferWhole` | `BufferSafe` |
| | `OneReply` | `OneFinalReply` |
| | `StreamImplemented` | `StreamKept`: `ServerConn` implements `ByteStream` |
| `ClientConnProofs` | `TypeCorrect` | `TypeOK` |
| | `HandshakeComesFirst` | `HandshakeFirst` |
| | `NoCallStranded` | `NoneStranded` |
| | `HandshakeEndsOnce` | `EndsOnce` (an action property) |
| `RelayProofs` | `TypeCorrect` | `TypeOK` |
| | `Timeouts` | `TimeoutsExact` |
| | `ErrorTells` | `ErrTellsCut`, the safety half of `FailureEndsBoth` |
| `ServerUDPProofs` | `TypeCorrect` | `TypeOK` |
| | `ReachSafe` | `OnlyAllowedReached` |
| | `AnswersExact` | `AnswersFiltered` |
| | `Bounded` | `AssociationBounded` |
| `UDPConnProofs` | `TypeCorrect` | `TypeOK` |
| | `RelayAddress` | `RelayVetted` |
| | `NothingLeaks` | `NoneLeftOpen` |
| | `CallsTrue` | `ResultsTrue` |
| `ConnectProofs` | `TypeCorrect` | `TypeOK` |
| | `OnlyVettedDialled` | `TargetsVetted` |
| | `ConnsSafe` | `TargetConns` |
| | `NamesHidden` | `NoOracle` |
| `ListenerProofs` | `TypeCorrect` | `TypeOK` |
| | `ConnHandedOver` | `ConnOwned` |
| | `OutcomeHolds` | `OutcomeTrue` |
| | `WireHolds` | `WireExact` |

Assumptions. Each module names its own (`...Assumption`), which its run
evaluates. Beyond the types of the constants they say:

- `ServerLifecycle`: the sets are finite, `NoConn` is no conn.
- `ServerConn`: the request is the last message of the handshake and the only
  request; every message fits the buffer (`inSize` holds "the largest handshake",
  `conn.go:22`); an authentication message is not empty, and an answer to one is at
  most `maxAuthMsg` bytes.
- `ServerUDP`: an IP is neither a name nor an error, port 0 is no client's port,
  and a lookup's timeout is shorter than the life of its answer (`udp.go`).
- `UDPConn`, `Connect`: the marks that stand for "no address", "a name" and "no
  holder" are no addresses and no goroutines. In `Connect` the loopback and
  unspecified addresses are among the special ones, as in `filter.go`'s tables,
  and an unspecified one embeds no IPv4; the system's errors (`DialErrs`) are none
  of `ReplyFor`'s other rows, and only the Filter's is "denied" where it is asked
  (`UserErrs` has an upstream's as "notAllowed").
- `Handshake`: a mode and a command that a call of the API can ask for. A target
  that is valid, and every BND, has an IP of 4 or 16 bytes or a name of 1 to 255
  (`wire/addr.go`'s `Addr`), and a target's IP is unmapped, as `AddrFromAddrPort`
  and `ParseAddr` leave it; a BND need not be. Credentials have at most 255 bytes,
  which `init` checks. A custom Pipeliner's reply has the length its first byte
  tells, and is not empty.

`NoneStranded` speaks of conns that can set deadlines (`HasDeadlines`): on others
the code has nothing to unblock a call with.

### The arguments

*`ServerLifecycle`.* `SlotAccounting` compares a counter with the sizes of two
sets and is not inductive: that a step removes one element needs that the element
was there. `Owned` says who has a conn: a loop holds one exactly between Accept
and newConn (`Holding`), no two loops hold the same and a held conn is not served
(`HeldOnce`), and a conn is tracked exactly while its serving goroutine runs
(`Tracked`). Under `TypeInv` and `Owned` every step changes slots in one of six
ways (`SlotChange`), and cardinalities are compared once for each. `IndInv` is
`TypeInv`, `Owned` and `SlotAccounting`; that `slotsUsed` is a natural number
follows from it and is not inductive alone. `DrainedForGood` adds `Stopped` and
`Drained`, `ShutNeverServed` `Served` and `HandlerHasRequest`, `NothingLeaks`
`Guarded`. `HandshakesNotUndercounted` is the equality of `inHandshake` with the
size of `Counted`, and `RequestLate`, which fails with a panicking hook, as
`lifecycle_panic` shows.

*`ServerConn`.* The bytes before the unread ones number `taken - (w - r)`
(`Shown`), and `Place` and `Reached` say that this is where the handshake, or the
Conn's reader, is in the client's stream; `Unread`, that the unread bytes are the
last that were read. From these three each step that gives bytes to the Conn's
reader, out of the buffer or from the conn itself, maps to `ByteStream`'s deliver,
its EOF to the end, the client's sending to send, and the others to a stutter. That the
authentication messages are gone when the handler runs cannot be said of the
bytes cleared alone, since a compaction moves bytes: `Cleared` says that no byte
before `w` is ahead of its place in the stream, so that what an authentication
message covered was overwritten or cleared with it. `Pooled` has who may put the
buffer back; `Queued` and `Replies`, which output may still follow, so that the
number of final replies is counted where they are sent.

*`ClientConn`.* `Alone`: one call writes the handshake while the phase is
"sending" and one reads the replies while `busy`. `Stored`: the fast paths are what
`storeReadyLocked` would store. `Exchanged`: what a call at each point knows of the
exchange. With these a call on a fast path knows that the handshake is out.
`Sleeping` has the reason for which each call sleeps, and a step that removes a
reason broadcasts. `Unblocked` is needed for calls on their way to I/O when the
abort comes. `Once` has who is to run `HandshakeDone`; `InMode` keeps the two
modes' calls apart.

*`Relay`.* A deadline in force is only as good as the step that set it, so
`Deadlines` also covers those computed and not yet set (`arming`), and those which
the half-close is about to set; `OnTime` says that the clock has passed none of
them, `CutRight` that a read deadline that ended the relay was due. `Stages`,
`Closing` and `HalfClosed` tie the two directions to the shared close.

*`ServerUDP`.* `Verdicts` (a target is kept as allowed only if the Filter says
so), `OneJob`, `Lookup` and `Judged` (what the datagram under way has been told,
and until when that is current) and `PrevCurrent` (the previous header's verdict is
what a fresh judgement would say) give `OnlyAllowedReached`. `Sent` and `Answered`
give the answers, `Timely` the idle bound, and `Room` the bound on the maps: a
lookup must find the room it was promised when it started.

*`UDPConn`.* `Opened` lists what a setup has opened at each step, `Quiet` that no
goroutine runs before the UDPConn is there, `Vetted` what `relayAddr` and the dial
have established of the address, `Ending` that the reason is left before anything
is closed and that the control conn goes first, `Calls` who has which buffer.

*`Connect`.* `Phases` and `Attempting` tie a request to its racing attempts,
`Owners` has who holds `hostMu` and who uses the scratch. `Listed` is the core of
the own-host check: a listing has every address the host has had since before it
was begun, whoever made it. `Judged`, `Dialled` and `Literal` carry a verdict
from the check to the connect, `Elsewhere` to the reply, where a conn to the host needs a LocalAddr and a check
that could not tell; `Blames` says which attempt a forbidden connect's 02 comes
from, `Replied` and `Disclosed` what the client is told.

*`Listener`, the conn.* `Dialled` has whose the conn is at each stage of the call, and that
past `stop` the AfterFunc cannot run or the call fails (`FiredFails`); `DeadlineOf`
whose the deadline is; `Guarded` what `l.mu` gives: one Accept is between its two
critical sections or past them, and a closed Listener has its conn closed or a
Close about to do it. The conjunction (`OwnerInv`) needs no type of the messages.

*`Listener`, the bytes.* Nothing about bytes is inductive alone: that a read stays
within the replies needs that the reader is at the start of a message of the
proxy, which needs that it consumed the ones before exactly, whose lengths it
took from bytes that came in segments. `HSInv` says all of it. `Talk`: the proxy's
messages have the shape of their kind, follow one another and make up the stream.
`Paths` says which of them the call at each point is after (`Cur`, `Base`), and
`NeedOK` what an Authenticator waits for. `Aligned`: what was read and not yet used
is the beginning of that message, and those before it let the handshake go on.
From it follow `Bounded` (no read beyond the replies), `Returned` (the BND handed
back is the one sent) and `Blame` (a failure's stage and error say what the proxy
did; no refusal that was read is hidden). Two groups of lemmas carry it. Those
named `Reads...` say what a parser makes of the first bytes of a message whose
rest is still to come, and of whatever follows a message: from a part it asks for
more than it has and for no more than the message has (`Partial`), from the whole
it takes exactly that and gives back what was encoded. Those on `Parse` over any
bytes say that a result is in its type and consumes no more than is there; a
proxy may send nonsense. `Request4Exact`, `RequestExact`, `UserPassExact` and
`GreetingExact` are the same for the server's parsers on what the client writes,
which `initOK` made expressible (`Sayable`); SOCKS4a, whose two strings end in a NUL,
is the hard one (`ReadsString`: the first NUL is the string's end).

### Only model-checked

- Liveness under fairness, which is beyond the prover: `RequestsEnd`,
  `EndUnblocks`, `FailureEndsBoth`, `EverythingEnds`, `EndsAll`,
  `CallsEnd`, `StopReturns` and `HandshakeCompletes`.
- The safety half of `FailureEndsBoth` is proved (`ErrorTells`); that both
  directions end is not.
- The three runs that expect a violation.

## 5. Plan

Done: all modules of section 2, and proofs of every safety invariant that a run
checks and of the refinement. What would come next, in this order:

1. `ModeEarly` over `Wire`'s bytes: a module that composes `ClientConn`'s calls
   with `Handshake`'s reader, so that `HandshakeFirst` and `WireExact` become one
   statement about the bytes of a `Conn`.
2. The UDP header in `Wire`, and lemmas like those for requests.
3. An abstract specification of a client call (a conn handed over, or an error
   that is true) that `Listener` implements, from `ConnOwned` and `OutcomeTrue`.

## 6. Not modelled

- Error wording, tracing output, timings: no state that the properties relate.
- The UDP header's bytes and `ParseAddr`: `ServerUDP` and `UDPConn` have a
  header's fields.  `wire`'s `Read...` functions are one loop, which `Handshake`
  models for the authentication.
- `DialContext`'s resolution of a target's name (`resolveTarget`) other than in
  `UDPConn`, and what `Conn` shows of itself after an Accept (addresses, hooks).
- TCP fast open, socket options, splice, `TCP_USER_TIMEOUT`: kernel behaviour.
- URL and config parsing, and the prefixes of the filter's tables: pure functions
  over strings and constants.  `Connect` takes the classes as given.
- The choice of peers of a server's BIND (`server/bind.go`): the watcher and the
  replies are in `ServerConn`.
- `go/socks5-*`, `go/happy-eyeballs`, `docker/`: benchmarks, comparisons and
  container setups around other programs; nothing in `socks0` depends on them.
