-------------------------- MODULE ServerLifecycle --------------------------
(***************************************************************************)
(* The life of a socks0 server and of the conns it tracks                  *)
(* (go/socks0/server/server.go, and serve, activate, finish of conn.go).   *)
(*                                                                         *)
(* Processes: one Serve loop per listener, the callers of ServeConn, one   *)
(* serving goroutine per conn, a goroutine per conn that may run           *)
(* Request.Reply, one Shutdown and one Close caller.  An action is one     *)
(* critical section of Server.mu or serverConn.mu, one atomic operation,   *)
(* or one call that can block.                                             *)
(***************************************************************************)
EXTENDS Integers, FiniteSets

CONSTANTS
    Loops,          \* Serve loops, each with its listener
    Conns,          \* conns that may arrive, each at most once
    NoConn,         \* no conn (nil)
    MaxConns,       \* Server.MaxConns; 0: no cap
    MaxHandshakes,  \* config.maxHandshakes; 0: none
    Direct,         \* the conns given to ServeConn, not accepted by a loop
    AsyncReply,     \* handlers may call Reply from another goroutine
    HookPanics      \* the user's ConnState hook may panic

ASSUME ServerAssumption ==
    /\ IsFiniteSet(Loops)
    /\ IsFiniteSet(Conns)
    /\ NoConn \notin Conns
    /\ MaxConns \in Nat
    /\ MaxHandshakes \in Nat
    /\ Direct \in SUBSET Conns
    /\ AsyncReply \in BOOLEAN
    /\ HookPanics \in BOOLEAN

Stoppers == {"Shutdown", "Close"}

VARIABLES
    done,        \* s.done is closed
    listeners,   \* s.listeners: the loops whose listener is registered
    conns,       \* s.conns
    slotsUsed,   \* s.slotsUsed
    slotFreed,   \* s.slotFreed is a channel, not nil
    inHandshake, \* s.inHandshake
    lnOpen,      \* lnOpen[l]: the listener of loop l is not closed
    lpc,         \* where Serve loop l is
    lconn,       \* the conn loop l accepted and has not handed over
    state,       \* serverConn.state
    ncOpen,      \* the conn's nc is not closed
    cpc,         \* where the serving goroutine of a conn is
    req,         \* serve's r is set: the conn was activated
    scdone,      \* serverConn.done
    replied,     \* serverConn.replied
    rpc,         \* where a call of Request.Reply is
    spc,         \* where Shutdown and Close are
    slns         \* the listeners their stop call collected

lvars == <<lnOpen, lpc, lconn>>
cvars == <<state, cpc, req, scdone, replied, rpc>>
svars == <<spc, slns>>
vars == <<done, listeners, conns, slotsUsed, slotFreed, inHandshake,
          lvars, ncOpen, cvars, svars>>

LoopPC == {"idle", "accept", "backoff", "start", "slot", "asleep", "newConn",
           "return", "returned"}
ConnPC == {"none", "held", "handshake", "activate", "announce", "handler",
           "finish", "closed", "untrack", "gone"}
ConnState == {"New", "Active", "Tunnel", "Closed", "Shut"}

TypeOK ==
    /\ done \in BOOLEAN
    /\ listeners \in SUBSET Loops
    /\ conns \in SUBSET Conns
    /\ slotsUsed \in Nat
    /\ slotFreed \in BOOLEAN
    /\ inHandshake \in Int
    /\ lnOpen \in [Loops -> BOOLEAN]
    /\ lpc \in [Loops -> LoopPC]
    /\ lconn \in [Loops -> Conns \cup {NoConn}]
    /\ state \in [Conns -> ConnState]
    /\ ncOpen \in [Conns -> BOOLEAN]
    /\ cpc \in [Conns -> ConnPC]
    /\ req \in [Conns -> BOOLEAN]
    /\ scdone \in [Conns -> BOOLEAN]
    /\ replied \in [Conns -> BOOLEAN]
    /\ rpc \in [Conns -> {"idle", "store"}]
    /\ spc \in [Stoppers -> {"idle", "closeListeners", "conns", "nil", "ctxErr"}]
    /\ slns \in [Stoppers -> SUBSET Loops]

Init ==
    /\ done = FALSE
    /\ listeners = {}
    /\ conns = {}
    /\ slotsUsed = 0
    /\ slotFreed = FALSE
    /\ inHandshake = 0
    /\ lnOpen = [l \in Loops |-> TRUE]
    /\ lpc = [l \in Loops |-> "idle"]
    /\ lconn = [l \in Loops |-> NoConn]
    /\ state = [c \in Conns |-> "New"]
    /\ ncOpen = [c \in Conns |-> FALSE]
    /\ cpc = [c \in Conns |-> "none"]
    /\ req = [c \in Conns |-> FALSE]
    /\ scdone = [c \in Conns |-> FALSE]
    /\ replied = [c \in Conns |-> FALSE]
    /\ rpc = [c \in Conns |-> "idle"]
    /\ spc = [k \in Stoppers |-> "idle"]
    /\ slns = [k \in Stoppers |-> {}]

-----------------------------------------------------------------------------
(* The Serve loops.                                                        *)

GoLoop(l, pc) == lpc' = [lpc EXCEPT ![l] = pc]

\* Mutant: the conn is forgotten, not closed.
DropHeldLeaks(l) ==
    /\ cpc' = [cpc EXCEPT ![lconn[l]] = "gone"]
    /\ lconn' = [lconn EXCEPT ![l] = NoConn]
    /\ UNCHANGED ncOpen

\* The loop closes the conn it holds without serving it.
DropHeld(l) ==
    /\ ncOpen' = [ncOpen EXCEPT ![lconn[l]] = FALSE]
    /\ cpc' = [cpc EXCEPT ![lconn[l]] = "gone"]
    /\ lconn' = [lconn EXCEPT ![l] = NoConn]

\* Serve begins: addListener, or the listener is closed at once.
Serve(l) ==
    /\ lpc[l] = "idle"
    /\ IF done
       THEN /\ lnOpen' = [lnOpen EXCEPT ![l] = FALSE]
            /\ GoLoop(l, "returned")
            /\ UNCHANGED listeners
       ELSE /\ listeners' = listeners \cup {l}
            /\ GoLoop(l, "accept")
            /\ UNCHANGED lnOpen
    /\ UNCHANGED <<done, conns, slotsUsed, slotFreed, inHandshake, lconn,
                   ncOpen, cvars, svars>>

Accept(l, c) ==
    /\ lpc[l] = "accept"
    /\ lnOpen[l]
    /\ c \notin Direct
    /\ cpc[c] = "none"
    /\ lconn' = [lconn EXCEPT ![l] = c]
    /\ ncOpen' = [ncOpen EXCEPT ![c] = TRUE]
    /\ cpc' = [cpc EXCEPT ![c] = "held"]
    /\ GoLoop(l, "start")
    /\ UNCHANGED <<done, listeners, conns, slotsUsed, slotFreed, inHandshake,
                   lnOpen, state, req, scdone, replied, rpc, svars>>

\* Accept fails: acceptBackoff returns after Shutdown or Close and on an error
\* that is no net.Error or says the listener is closed, and backs off else.
AcceptError(l) ==
    /\ lpc[l] = "accept"
    /\ \/ GoLoop(l, "return")
       \/ ~done /\ lnOpen[l] /\ GoLoop(l, "backoff")
    /\ UNCHANGED <<done, listeners, conns, slotsUsed, slotFreed, inHandshake,
                   lnOpen, lconn, ncOpen, cvars, svars>>

\* acceptBackoff's select: the delay passed, or s.done.
Backoff(l) ==
    /\ lpc[l] = "backoff"
    /\ \/ GoLoop(l, "accept")
       \/ done /\ GoLoop(l, "return")
    /\ UNCHANGED <<done, listeners, conns, slotsUsed, slotFreed, inHandshake,
                   lnOpen, lconn, ncOpen, cvars, svars>>

\* start's cap on handshakes: the counter is read here, long before newConn
\* adds to it.
Start(l) ==
    /\ lpc[l] = "start"
    /\ IF MaxHandshakes > 0 /\ inHandshake >= MaxHandshakes
       THEN DropHeld(l) /\ GoLoop(l, "accept")
       ELSE GoLoop(l, "slot") /\ UNCHANGED <<ncOpen, cpc, lconn>>
    /\ UNCHANGED <<done, listeners, conns, slotsUsed, slotFreed, inHandshake,
                   lnOpen, state, req, scdone, replied, rpc, svars>>

\* Mutant: one slot too many.
SlotFreeOffByOne == MaxConns = 0 \/ slotsUsed <= MaxConns

SlotFree == MaxConns = 0 \/ slotsUsed < MaxConns

\* One pass of waitSlot's loop under s.mu; the select is the step to "asleep".
WaitSlot(l) ==
    /\ lpc[l] = "slot"
    /\ \/ /\ done
          /\ DropHeld(l)
          /\ GoLoop(l, "return")
          /\ UNCHANGED <<slotsUsed, slotFreed>>
       \/ /\ ~done
          /\ SlotFree
          /\ slotsUsed' = slotsUsed + 1
          /\ GoLoop(l, "newConn")
          /\ UNCHANGED <<slotFreed, ncOpen, cpc, lconn>>
       \/ /\ ~done
          /\ ~SlotFree
          /\ slotFreed' = TRUE
          /\ GoLoop(l, "asleep")
          /\ UNCHANGED <<slotsUsed, ncOpen, cpc, lconn>>
    /\ UNCHANGED <<done, listeners, conns, inHandshake, lnOpen, state, req,
                   scdone, replied, rpc, svars>>

\* Mutant: waitSlot's select has no case for s.done.
WakeByDoneNever(l) == FALSE

\* waitSlot's select sees s.done.
WakeByDone(l) ==
    /\ lpc[l] = "asleep"
    /\ done
    /\ GoLoop(l, "slot")
    /\ UNCHANGED <<done, listeners, conns, slotsUsed, slotFreed, inHandshake,
                   lnOpen, lconn, ncOpen, cvars, svars>>

\* Mutant: the slot waitSlot took is not given back after Shutdown.
RefuseHeldKeepsSlot(l) ==
    /\ DropHeld(l)
    /\ GoLoop(l, "return")
    /\ UNCHANGED <<slotsUsed, conns, inHandshake>>

\* newConn returns nil: the slot is given back and start closes the conn.
RefuseHeld(l) ==
    /\ slotsUsed' = slotsUsed - 1
    /\ DropHeld(l)
    /\ GoLoop(l, "return")
    /\ UNCHANGED <<conns, inHandshake>>

\* newConn tracks the conn and start runs `go sc.serve()`.
TrackHeld(l) ==
    /\ conns' = conns \cup {lconn[l]}
    /\ inHandshake' = inHandshake + 1
    /\ cpc' = [cpc EXCEPT ![lconn[l]] = "handshake"]
    /\ lconn' = [lconn EXCEPT ![l] = NoConn]
    /\ GoLoop(l, "accept")
    /\ UNCHANGED <<slotsUsed, ncOpen>>

\* Mutant: newConn does not look at s.done again.
NewConnNeverRefuses == FALSE

NewConnRefuses == done

\* newConn for the slot waitSlot took.
NewConn(l) ==
    /\ lpc[l] = "newConn"
    /\ IF NewConnRefuses THEN RefuseHeld(l) ELSE TrackHeld(l)
    /\ UNCHANGED <<done, listeners, slotFreed, lnOpen, state, req,
                   scdone, replied, rpc, svars>>

\* Serve's deferred ln.Close and removeListener.
ServeReturn(l) ==
    /\ lpc[l] = "return"
    /\ lnOpen' = [lnOpen EXCEPT ![l] = FALSE]
    /\ listeners' = listeners \ {l}
    /\ GoLoop(l, "returned")
    /\ UNCHANGED <<done, conns, slotsUsed, slotFreed, inHandshake, lconn,
                   ncOpen, cvars, svars>>

\* Mutant: newConn counts no slot when waitSlot took none.
ServeConnUncounted(c) ==
    /\ c \in Direct
    /\ cpc[c] = "none"
    /\ ~done
    /\ conns' = conns \cup {c}
    /\ inHandshake' = inHandshake + 1
    /\ ncOpen' = [ncOpen EXCEPT ![c] = TRUE]
    /\ cpc' = [cpc EXCEPT ![c] = "handshake"]
    /\ UNCHANGED <<done, listeners, slotsUsed, slotFreed, lvars, state, req,
                   scdone, replied, rpc, svars>>

\* ServeConn: newConn without a slot taken, never refused by the caps.
ServeConn(c) ==
    /\ c \in Direct
    /\ cpc[c] = "none"
    /\ IF done
       THEN /\ cpc' = [cpc EXCEPT ![c] = "gone"]
            /\ UNCHANGED <<conns, slotsUsed, inHandshake, ncOpen>>
       ELSE /\ conns' = conns \cup {c}
            /\ slotsUsed' = slotsUsed + 1
            /\ inHandshake' = inHandshake + 1
            /\ ncOpen' = [ncOpen EXCEPT ![c] = TRUE]
            /\ cpc' = [cpc EXCEPT ![c] = "handshake"]
    /\ UNCHANGED <<done, listeners, slotFreed, lvars, state, req, scdone,
                   replied, rpc, svars>>

-----------------------------------------------------------------------------
(* The serving goroutine of a conn.                                        *)

GoConn(c, pc) == cpc' = [cpc EXCEPT ![c] = pc]

\* serve up to the end of the handshake: the StateNew hook may panic, Admit may
\* refuse, the handshake may fail.  Its last I/O succeeds on an open nc only.
Handshake(c) ==
    /\ cpc[c] = "handshake"
    /\ \/ GoConn(c, "finish")
       \/ ncOpen[c] /\ GoConn(c, "activate")
    /\ UNCHANGED <<done, listeners, conns, slotsUsed, slotFreed, inHandshake,
                   lvars, ncOpen, state, req, scdone, replied, rpc, svars>>

\* Mutant: StateActive is stored, not swapped in.
MayActivateAnyway(c) == TRUE

\* The compare of activate's CompareAndSwap.
MayActivate(c) == state[c] = "New"

\* activate: the swap and the counter.  A conn Shutdown or Close shut first is
\* not served.
Activate(c) ==
    /\ cpc[c] = "activate"
    /\ IF MayActivate(c)
       THEN /\ state' = [state EXCEPT ![c] = "Active"]
            /\ inHandshake' = inHandshake - 1
            /\ GoConn(c, "announce")
       ELSE GoConn(c, "finish") /\ UNCHANGED <<state, inHandshake>>
    /\ UNCHANGED <<done, listeners, conns, slotsUsed, slotFreed, lvars, ncOpen,
                   req, scdone, replied, rpc, svars>>

\* activate's setState(StateActive): if the hook panics, serve has not set r.
Announce(c) ==
    /\ cpc[c] = "announce"
    /\ \/ /\ req' = [req EXCEPT ![c] = TRUE]
          /\ GoConn(c, "handler")
       \/ /\ HookPanics
          /\ GoConn(c, "finish")
          /\ UNCHANGED req
    /\ UNCHANGED <<done, listeners, conns, slotsUsed, slotFreed, inHandshake,
                   lvars, ncOpen, state, scdone, replied, rpc, svars>>

\* Allow refuses, or ServeSOCKS returns or panics.  Unless handlers use another
\* goroutine for Reply, no Reply is under way then.
HandlerReturn(c) ==
    /\ cpc[c] = "handler"
    /\ AsyncReply \/ rpc[c] = "idle"
    /\ GoConn(c, "finish")
    /\ UNCHANGED <<done, listeners, conns, slotsUsed, slotFreed, inHandshake,
                   lvars, ncOpen, state, req, scdone, replied, rpc, svars>>

\* finish's fallbackReply goes out: the request was set and lockLive holds.
FallbackReply(c) == req[c] /\ ~replied[c] /\ ~scdone[c]

\* finish up to end: the ctx is cancelled, the fallback reply written, done
\* set and nc closed.
Finish(c) ==
    /\ cpc[c] = "finish"
    /\ replied' = [replied EXCEPT ![c] = @ \/ FallbackReply(c)]
    /\ scdone' = [scdone EXCEPT ![c] = TRUE]
    /\ ncOpen' = [ncOpen EXCEPT ![c] = FALSE]
    /\ GoConn(c, "closed")
    /\ UNCHANGED <<done, listeners, conns, slotsUsed, slotFreed, inHandshake,
                   lvars, state, req, rpc, svars>>

\* Mutant: every conn that ends is subtracted, activated or not.
UncountedAtEndAlways(c) == TRUE

\* The conn finish still counts as in its handshake: r is nil.
UncountedAtEnd(c) == ~req[c]

\* finish's state.Store(StateClosed) and the counter.
StoreClosed(c) ==
    /\ cpc[c] = "closed"
    /\ state' = [state EXCEPT ![c] = "Closed"]
    /\ inHandshake' = inHandshake - (IF UncountedAtEnd(c) THEN 1 ELSE 0)
    /\ GoConn(c, "untrack")
    /\ UNCHANGED <<done, listeners, conns, slotsUsed, slotFreed, lvars, ncOpen,
                   req, scdone, replied, rpc, svars>>

\* Mutant: the conn's end wakes nobody.
FreeSlotSilently ==
    /\ slotsUsed' = slotsUsed - 1
    /\ UNCHANGED <<slotFreed, lpc>>

\* A slot is freed and every loop asleep on slotFreed wakes to recount.
FreeSlot ==
    /\ slotsUsed' = slotsUsed - 1
    /\ slotFreed' = FALSE
    /\ lpc' = [l \in Loops |-> IF slotFreed /\ lpc[l] = "asleep" THEN "slot" ELSE lpc[l]]

\* untrack, after the done and StateClosed hooks; admitRelease follows.
Untrack(c) ==
    /\ cpc[c] = "untrack"
    /\ conns' = conns \ {c}
    /\ FreeSlot
    /\ GoConn(c, "gone")
    /\ UNCHANGED <<done, listeners, inHandshake, lnOpen, lconn, ncOpen, state,
                   req, scdone, replied, rpc, svars>>

-----------------------------------------------------------------------------
(* Request.Reply, on the handler's goroutine or on another one it started. *)

\* Reply's critical section: only a live request takes a final reply.  A
\* success goes on to store StateTunnel, a failed write closes nc.
Reply(c) ==
    /\ cpc[c] = "handler" \/ (AsyncReply /\ req[c])
    /\ rpc[c] = "idle"
    /\ ~replied[c] /\ ~scdone[c]
    /\ replied' = [replied EXCEPT ![c] = TRUE]
    /\ \/ /\ ncOpen[c]
          /\ rpc' = [rpc EXCEPT ![c] = "store"]
          /\ UNCHANGED ncOpen
       \/ /\ ncOpen' = [ncOpen EXCEPT ![c] = FALSE]
          /\ UNCHANGED rpc
       \/ UNCHANGED <<rpc, ncOpen>> \* a failure reply
    /\ UNCHANGED <<done, listeners, conns, slotsUsed, slotFreed, inHandshake,
                   lvars, state, cpc, req, scdone, svars>>

\* state.Store(StateTunnel) and its hook, after sc.mu was unlocked.
StoreTunnel(c) ==
    /\ rpc[c] = "store"
    /\ state' = [state EXCEPT ![c] = "Tunnel"]
    /\ rpc' = [rpc EXCEPT ![c] = "idle"]
    /\ UNCHANGED <<done, listeners, conns, slotsUsed, slotFreed, inHandshake,
                   lvars, ncOpen, cpc, req, scdone, replied, svars>>

-----------------------------------------------------------------------------
(* Shutdown and Close.                                                     *)

GoStop(k, pc) == spc' = [spc EXCEPT ![k] = pc]

\* stop's critical section.
Stop(k) ==
    /\ spc[k] = "idle"
    /\ done' = TRUE
    /\ slns' = [slns EXCEPT ![k] = listeners]
    /\ GoStop(k, "closeListeners")
    /\ UNCHANGED <<listeners, conns, slotsUsed, slotFreed, inHandshake, lvars,
                   ncOpen, cvars>>

\* stop closes the listeners it collected.
CloseListeners(k) ==
    /\ spc[k] = "closeListeners"
    /\ lnOpen' = [l \in Loops |-> lnOpen[l] /\ l \notin slns[k]]
    /\ GoStop(k, "conns")
    /\ UNCHANGED <<done, listeners, conns, slotsUsed, slotFreed, inHandshake,
                   lpc, lconn, ncOpen, cvars, slns>>

\* The conns Shutdown and Close still find in StateNew.
Unactivated == {c \in conns : state[c] = "New"}

ShutAll(S) == state' = [c \in Conns |-> IF c \in S THEN "Shut" ELSE state[c]]

CloseAll(S) == ncOpen' = [c \in Conns |-> ncOpen[c] /\ c \notin S]

NoneTracked == conns = {}

\* One pass of Shutdown's loop: closeHandshakes, then nil, the next pass after
\* the timer, or ctx's error.
CloseHandshakes ==
    /\ spc["Shutdown"] = "conns"
    /\ ShutAll(Unactivated)
    /\ CloseAll(Unactivated)
    /\ \/ NoneTracked /\ GoStop("Shutdown", "nil")
       \/ ~NoneTracked /\ (UNCHANGED spc \/ GoStop("Shutdown", "ctxErr"))
    /\ UNCHANGED <<done, listeners, conns, slotsUsed, slotFreed, inHandshake,
                   lvars, cpc, req, scdone, replied, rpc, slns>>

\* Close's critical section over every conn.
CloseConns ==
    /\ spc["Close"] = "conns"
    /\ ShutAll(Unactivated)
    /\ CloseAll(conns)
    /\ GoStop("Close", "nil")
    /\ UNCHANGED <<done, listeners, conns, slotsUsed, slotFreed, inHandshake,
                   lvars, cpc, req, scdone, replied, rpc, slns>>

\* The AfterFunc on the conn's parent context closes nc.
ContextDone(c) ==
    /\ c \in conns
    /\ ncOpen[c]
    /\ ncOpen' = [ncOpen EXCEPT ![c] = FALSE]
    /\ UNCHANGED <<done, listeners, conns, slotsUsed, slotFreed, inHandshake,
                   lvars, cvars, svars>>

-----------------------------------------------------------------------------

LoopStep(l) ==
    \/ Serve(l)
    \/ \E c \in Conns : Accept(l, c)
    \/ AcceptError(l)
    \/ Backoff(l)
    \/ Start(l)
    \/ WaitSlot(l)
    \/ WakeByDone(l)
    \/ NewConn(l)
    \/ ServeReturn(l)

\* The steps of the serving goroutine that run the server's own code.
ServeStep(c) ==
    \/ Handshake(c)
    \/ Activate(c)
    \/ Finish(c)
    \/ StoreClosed(c)
    \/ Untrack(c)

\* The steps that end a call of the user's code: the ConnState hook, Allow, Handler.
UserStep(c) ==
    \/ Announce(c)
    \/ HandlerReturn(c)

StopStep ==
    \/ \E k \in Stoppers : CloseListeners(k)
    \/ CloseHandshakes
    \/ CloseConns

Next ==
    \/ \E l \in Loops : LoopStep(l)
    \/ \E c \in Conns : ServeConn(c) \/ ServeStep(c) \/ UserStep(c)
    \/ \E c \in Conns : Reply(c) \/ StoreTunnel(c) \/ ContextDone(c)
    \/ \E k \in Stoppers : Stop(k)
    \/ StopStep

Spec == Init /\ [][Next]_vars

\* A loop is never stuck in the server's own code, and Accept returns once
\* the listener is closed.
LoopProgress(l) ==
    \/ AcceptError(l) /\ ~lnOpen[l]
    \/ Backoff(l) \/ Start(l) \/ WaitSlot(l) \/ WakeByDone(l)
    \/ NewConn(l) \/ ServeReturn(l)

\* The server's goroutines run: handshakes end because HandshakeTimeout bounds
\* them (once Admit returned), and Shutdown's timer fires, but ctx need not end.
ServerFairness ==
    /\ \A l \in Loops : WF_vars(LoopProgress(l))
    /\ \A c \in Conns : WF_vars(ServeStep(c)) /\ WF_vars(StoreTunnel(c))
    /\ WF_vars(StopStep /\ spc'["Shutdown"] # "ctxErr")

\* The user's hooks, Allow and Handler return.
UserCodeReturns == \A c \in Conns : WF_vars(UserStep(c))

FairSpec == Spec /\ ServerFairness

-----------------------------------------------------------------------------
(* Properties.                                                             *)

\* The loops that took a slot in waitSlot and have not tracked a conn for it.
Reserving == {l \in Loops : lpc[l] = "newConn"}

\* slotsUsed is exactly the tracked conns plus the slots reserved by loops
\* between waitSlot and newConn, whatever Shutdown, Close, panics and the ends
\* of conns interleave: no slot is lost or counted twice.
SlotAccounting == slotsUsed = Cardinality(conns) + Cardinality(Reserving)

\* MaxConns: the conns Serve loops accepted and serve, or are about to, never
\* exceed the cap, although ServeConn's conns share the counter and several
\* loops race for a slot.
MaxConnsRespected ==
    MaxConns > 0 =>
        Cardinality(conns \ Direct) + Cardinality(Reserving) <= MaxConns

\* Both: the slots are accounted for exactly, and the cap holds.
SlotsExact == SlotAccounting /\ MaxConnsRespected

\* waitSlot loses no wake-up: a loop asleep in its select has a channel that
\* untrack will close, and sleeps only while the slots are all taken, unless
\* s.done is about to wake it.
NoSlotMissed ==
    \A l \in Loops : lpc[l] = "asleep" =>
        /\ slotFreed
        /\ done \/ ~SlotFree

\* Server.inHandshake never counts fewer than the tracked conns in StateNew, so
\* the MaxHandshakes check never lets a conn in on a count that is too low
\* by an earlier conn's end.
HandshakesNotUndercounted == Cardinality(Unactivated) <= inHandshake

\* A conn that Shutdown or Close shut in StateNew never becomes active or a
\* tunnel, however its handshake, activate and Reply race the shutdown.
ShutNeverServed ==
    [][\A c \in Conns : state[c] = "Shut" => state'[c] \in {"Shut", "Closed"}]_vars

\* Once Shutdown has returned nil no conn is tracked and no handler runs, nor
\* ever will: a loop that held an accepted conn drops it.
DrainedForGood ==
    spc["Shutdown"] = "nil" =>
        conns = {} /\ \A c \in Conns : cpc[c] \in {"none", "held", "gone"}

\* An open conn is tracked, or held by the one loop that accepted it: start,
\* waitSlot, newConn and finish close it on every path they drop it.
NothingLeaks ==
    \A c \in Conns : ncOpen[c] => c \in conns \/ \E l \in Loops : lconn[l] = c

\* Both: what the server gives up, by Shutdown or on an error path, is gone.
NothingLeft == DrainedForGood /\ NothingLeaks

\* After Shutdown or Close every Serve loop returns, those waiting for a slot,
\* backing off or blocked in Accept too, even if no handler ever returns.  And
\* Shutdown returns, nil once the conns it waits for are gone unless ctx ends
\* first, provided the user's code returns: every tracked conn is untracked, and
\* none is added behind the last pass.
StopReturns ==
    /\ done ~> \A l \in Loops : lpc[l] \in {"idle", "returned"}
    /\ UserCodeReturns =>
         (spc["Shutdown"] = "closeListeners" ~> spc["Shutdown"] \in {"nil", "ctxErr"})

=============================================================================
