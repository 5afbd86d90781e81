----------------------- MODULE ServerLifecycleProofs -----------------------
(***************************************************************************)
(* Proofs about ServerLifecycle, for every set of loops and conns, every   *)
(* cap, with and without handlers that call Reply from elsewhere and hooks *)
(* that panic.                                                             *)
(***************************************************************************)
EXTENDS ServerLifecycle, TLAPS, FiniteSetTheorems

\* TypeOK, but that slotsUsed is not known to stay above zero.
TypeInv ==
    /\ done \in BOOLEAN
    /\ listeners \in SUBSET Loops
    /\ conns \in SUBSET Conns
    /\ slotsUsed \in Int
    /\ slotFreed \in BOOLEAN
    /\ inHandshake \in Int
    /\ lnOpen \in [Loops -> BOOLEAN]
    /\ lpc \in [Loops -> LoopPC]
    /\ lconn \in [Loops -> Conns \cup {NoConn}]
    /\ state \in [Conns -> ConnState]
    /\ ncOpen \in [Conns -> BOOLEAN]
    /\ cpc \in [Conns -> ConnPC]
    /\ req \in [Conns -> BOOLEAN]
    /\ scdone \in [Conns -> BOOLEAN]
    /\ replied \in [Conns -> BOOLEAN]
    /\ rpc \in [Conns -> {"idle", "store"}]
    /\ spc \in [Stoppers -> {"idle", "closeListeners", "conns", "nil", "ctxErr"}]
    /\ slns \in [Stoppers -> SUBSET Loops]

\* A loop holds a conn exactly between Accept and newConn's return.
HoldingPC == {"start", "slot", "asleep", "newConn"}
Holding == \A l \in Loops : lpc[l] \in HoldingPC <=> lconn[l] # NoConn

\* The conn a loop holds is served by nobody and held by no other loop.
HeldOnce ==
    /\ \A l \in Loops : lconn[l] # NoConn => cpc[lconn[l]] = "held" /\ lconn[l] \notin Direct
    /\ \A l, m \in Loops : lconn[l] = lconn[m] /\ lconn[l] # NoConn => l = m

\* s.conns is the conns that have a serving goroutine.
ServingPC == {"handshake", "activate", "announce", "handler", "finish", "closed", "untrack"}
Tracked == \A c \in Conns : c \in conns <=> cpc[c] \in ServingPC

\* The variables start with their types.
LEMMA TypeInit == Init => TypeInv
<1> SUFFICES ASSUME Init PROVE TypeInv
  OBVIOUS
<1>1. done \in BOOLEAN /\ slotFreed \in BOOLEAN
  BY DEF Init
<1>2. lnOpen \in [Loops -> BOOLEAN]
  BY DEF Init
<1>3. ncOpen \in [Conns -> BOOLEAN] /\ req \in [Conns -> BOOLEAN]
  BY DEF Init
<1>4. scdone \in [Conns -> BOOLEAN] /\ replied \in [Conns -> BOOLEAN]
  BY DEF Init
<1>5. slotsUsed \in Int /\ inHandshake \in Int
  BY DEF Init
<1>6. lpc \in [Loops -> LoopPC] /\ lconn \in [Loops -> Conns \cup {NoConn}]
  BY DEF Init, LoopPC
<1>7. state \in [Conns -> ConnState] /\ cpc \in [Conns -> ConnPC]
  BY DEF Init, ConnState, ConnPC
<1>8. rpc \in [Conns -> {"idle", "store"}]
  BY DEF Init
<1>9. spc \in [Stoppers -> {"idle", "closeListeners", "conns", "nil", "ctxErr"}]
  BY DEF Init
<1>10. slns \in [Stoppers -> SUBSET Loops] /\ listeners \in SUBSET Loops /\ conns \in SUBSET Conns
  BY DEF Init
<1> QED
  BY <1>1, <1>2, <1>3, <1>4, <1>5, <1>6, <1>7, <1>8, <1>9, <1>10 DEF TypeInv

\* Dropping the held conn keeps the types of what it changes.
LEMMA TypeDropHeld ==
    ASSUME TypeInv, NEW l \in Loops, DropHeld(l)
    PROVE  /\ ncOpen' \in [Conns -> BOOLEAN]
           /\ cpc' \in [Conns -> ConnPC]
           /\ lconn' \in [Loops -> Conns \cup {NoConn}]
BY DEF TypeInv, DropHeld, ConnPC

\* The steps of a Serve loop keep the types.
LEMMA TypeLoop ==
    ASSUME TypeInv, Holding, NEW l \in Loops, LoopStep(l)
    PROVE  TypeInv'
<1> USE ServerAssumption DEF TypeInv, LoopPC, ConnPC, lvars, cvars, svars, GoLoop
<1>1. CASE Serve(l)
  <2>1. CASE done
    BY <1>1, <2>1 DEF Serve
  <2>2. CASE ~done
    BY <1>1, <2>2 DEF Serve
  <2> QED
    BY <2>1, <2>2
<1>2. CASE \E c \in Conns : Accept(l, c)
  BY <1>2 DEF Accept
<1>3. CASE AcceptError(l)
  BY <1>3 DEF AcceptError
<1>4. CASE Backoff(l)
  BY <1>4 DEF Backoff
<1>5. CASE Start(l)
  BY <1>5, TypeDropHeld DEF Start
<1>6. CASE WaitSlot(l)
  <2>1. CASE done
    BY <1>6, <2>1, TypeDropHeld DEF WaitSlot
  <2>2. CASE ~done /\ SlotFree
    BY <1>6, <2>2 DEF WaitSlot
  <2>3. CASE ~done /\ ~SlotFree
    <3>1. /\ slotFreed' = TRUE /\ lpc' = [lpc EXCEPT ![l] = "asleep"]
          /\ UNCHANGED <<slotsUsed, ncOpen, cpc, lconn, done, listeners, conns, inHandshake,
                         lnOpen, state, req, scdone, replied, rpc, svars>>
      BY <1>6, <2>3, Zenon DEF WaitSlot
    <3> QED
      BY <3>1
  <2> QED
    BY <2>1, <2>2, <2>3
<1>7. CASE WakeByDone(l)
  BY <1>7 DEF WakeByDone
<1>8. CASE NewConn(l)
  <2>1. CASE NewConnRefuses
    BY <1>8, <2>1, TypeDropHeld DEF NewConn, RefuseHeld
  <2>2. CASE ~NewConnRefuses
    <3>1. lconn[l] \in Conns
      BY <1>8 DEF NewConn, Holding, HoldingPC
    <3> QED
      BY <1>8, <2>2, <3>1 DEF NewConn, TrackHeld
  <2> QED
    BY <2>1, <2>2
<1>9. CASE ServeReturn(l)
  BY <1>9 DEF ServeReturn
<1> QED
  BY <1>1, <1>2, <1>3, <1>4, <1>5, <1>6, <1>7, <1>8, <1>9 DEF LoopStep

\* The steps of a conn's goroutines keep the types.
LEMMA TypeConn ==
    ASSUME TypeInv, NEW c \in Conns,
           \/ ServeConn(c) \/ ServeStep(c) \/ UserStep(c)
           \/ Reply(c) \/ StoreTunnel(c) \/ ContextDone(c)
    PROVE  TypeInv'
<1> USE ServerAssumption DEF TypeInv, LoopPC, ConnPC, ConnState, lvars, cvars, svars, GoConn
<1>1. CASE ServeConn(c)
  <2>1. CASE done
    BY <1>1, <2>1 DEF ServeConn
  <2>2. CASE ~done
    <3>1. ncOpen' \in [Conns -> BOOLEAN] /\ cpc' \in [Conns -> ConnPC]
      BY <1>1, <2>2 DEF ServeConn
    <3>2. conns' \in SUBSET Conns /\ slotsUsed' \in Int /\ inHandshake' \in Int
      BY <1>1, <2>2 DEF ServeConn
    <3> QED
      BY <1>1, <3>1, <3>2 DEF ServeConn
  <2> QED
    BY <2>1, <2>2
<1>2. CASE Handshake(c)
  BY <1>2 DEF Handshake
<1>3. CASE Activate(c)
  BY <1>3 DEF Activate
<1>4. CASE Finish(c)
  <2>1. replied' \in [Conns -> BOOLEAN]
    BY <1>4 DEF Finish, FallbackReply
  <2>2. scdone' \in [Conns -> BOOLEAN] /\ ncOpen' \in [Conns -> BOOLEAN]
    BY <1>4 DEF Finish
  <2> QED
    BY <1>4, <2>1, <2>2 DEF Finish
<1>5. CASE StoreClosed(c)
  BY <1>5 DEF StoreClosed
<1>6. CASE Untrack(c)
  <2>1. slotFreed' = FALSE /\ slotsUsed' = slotsUsed - 1
    BY <1>6 DEF Untrack, FreeSlot
  <2>2. slotFreed' \in BOOLEAN
    BY <2>1, Zenon
  <2>3. slotsUsed' \in Int
    BY <2>1
  <2>4. lpc' \in [Loops -> LoopPC]
    <3>1. \A l \in Loops : lpc[l] \in LoopPC /\ "slot" \in LoopPC
      OBVIOUS
    <3> HIDE DEF LoopPC
    <3> QED
      BY <1>6, <3>1 DEF Untrack, FreeSlot
  <2>5. cpc' \in [Conns -> ConnPC] /\ conns' \in SUBSET Conns
    BY <1>6 DEF Untrack
  <2> QED
    BY <1>6, <2>2, <2>3, <2>4, <2>5 DEF Untrack
<1>7. CASE Announce(c)
  BY <1>7 DEF Announce
<1>8. CASE HandlerReturn(c)
  BY <1>8 DEF HandlerReturn
<1>9. CASE Reply(c)
  BY <1>9 DEF Reply
<1>10. CASE StoreTunnel(c)
  BY <1>10 DEF StoreTunnel
<1>11. CASE ContextDone(c)
  BY <1>11 DEF ContextDone
<1> QED
  BY <1>1, <1>2, <1>3, <1>4, <1>5, <1>6, <1>7, <1>8, <1>9, <1>10, <1>11
  DEF ServeStep, UserStep

\* The steps of Shutdown and Close keep the types.
LEMMA TypeStop ==
    ASSUME TypeInv, StopStep \/ \E k \in Stoppers : Stop(k)
    PROVE  TypeInv'
<1> USE ServerAssumption DEF TypeInv, lvars, cvars, svars, GoStop
<1>1. CASE \E k \in Stoppers : Stop(k)
  BY <1>1 DEF Stop
<1>2. CASE \E k \in Stoppers : CloseListeners(k)
  <2>1. PICK k \in Stoppers : CloseListeners(k)
    BY <1>2
  <2>2. lnOpen' \in [Loops -> BOOLEAN]
    BY <2>1 DEF CloseListeners
  <2> QED
    BY <2>1, <2>2 DEF CloseListeners
<1>3. CASE CloseHandshakes
  <2>1. state' \in [Conns -> ConnState]
    BY <1>3 DEF CloseHandshakes, ShutAll, ConnState
  <2>2. ncOpen' \in [Conns -> BOOLEAN]
    BY <1>3 DEF CloseHandshakes, CloseAll
  <2> QED
    BY <1>3, <2>1, <2>2 DEF CloseHandshakes, Stoppers
<1>4. CASE CloseConns
  <2>1. state' \in [Conns -> ConnState]
    BY <1>4 DEF CloseConns, ShutAll, ConnState
  <2>2. ncOpen' \in [Conns -> BOOLEAN]
    BY <1>4 DEF CloseConns, CloseAll
  <2> QED
    BY <1>4, <2>1, <2>2 DEF CloseConns, Stoppers
<1> QED
  BY <1>1, <1>2, <1>3, <1>4 DEF StopStep

\* Every step keeps the types, given that a loop in newConn holds a conn.
LEMMA TypeStep == TypeInv /\ Holding /\ [Next]_vars => TypeInv'
<1> SUFFICES ASSUME TypeInv, Holding, [Next]_vars PROVE TypeInv'
  OBVIOUS
<1>1. CASE UNCHANGED vars
  BY <1>1 DEF TypeInv, vars, lvars, cvars, svars
<1> QED
  BY <1>1, TypeLoop, TypeConn, TypeStop DEF Next

-----------------------------------------------------------------------------
(* Who has a conn: the loop that accepted it, or its serving goroutine.    *)

Owned == Holding /\ HeldOnce /\ Tracked

\* Nobody has a conn at first.
LEMMA OwnedInit == Init => Owned
BY ServerAssumption DEF Init, Owned, Holding, HoldingPC, HeldOnce, Tracked, ServingPC

\* A loop takes a conn nobody has, and gives it up to nobody or to its server.
LEMMA OwnedLoop ==
    ASSUME TypeInv, Owned, NEW l \in Loops, LoopStep(l)
    PROVE  Owned'
<1> USE ServerAssumption DEF Owned, Holding, HoldingPC, HeldOnce, Tracked, ServingPC, GoLoop
<1>0. /\ lpc \in [Loops -> LoopPC] /\ lconn \in [Loops -> Conns \cup {NoConn}]
      /\ cpc \in [Conns -> ConnPC] /\ conns \in SUBSET Conns
  BY DEF TypeInv
<1>1. CASE Serve(l)
  BY <1>0, <1>1 DEF Serve, cvars
<1>2. CASE \E c \in Conns : Accept(l, c)
  BY <1>0, <1>2 DEF Accept
<1>3. CASE AcceptError(l)
  BY <1>0, <1>3 DEF AcceptError, cvars
<1>4. CASE Backoff(l)
  BY <1>0, <1>4 DEF Backoff, cvars
<1>5. CASE Start(l)
  BY <1>0, <1>5 DEF Start, DropHeld
<1>6. CASE WaitSlot(l)
  BY <1>0, <1>6 DEF WaitSlot, DropHeld
<1>7. CASE WakeByDone(l)
  BY <1>0, <1>7 DEF WakeByDone, cvars
<1>8. CASE NewConn(l)
  BY <1>0, <1>8 DEF NewConn, RefuseHeld, TrackHeld, DropHeld
<1>9. CASE ServeReturn(l)
  BY <1>0, <1>9 DEF ServeReturn, cvars
<1> QED
  BY <1>1, <1>2, <1>3, <1>4, <1>5, <1>6, <1>7, <1>8, <1>9 DEF LoopStep

\* A conn's goroutines and ServeConn keep the ownership: only ServeConn and
\* untrack change s.conns.
LEMMA OwnedConn ==
    ASSUME TypeInv, Owned, NEW c \in Conns,
           \/ ServeConn(c) \/ ServeStep(c) \/ UserStep(c)
           \/ Reply(c) \/ StoreTunnel(c) \/ ContextDone(c)
    PROVE  Owned'
<1> USE ServerAssumption DEF Owned, Holding, HoldingPC, HeldOnce, Tracked, ServingPC, GoConn
<1>0. /\ lpc \in [Loops -> LoopPC] /\ lconn \in [Loops -> Conns \cup {NoConn}]
      /\ cpc \in [Conns -> ConnPC] /\ conns \in SUBSET Conns
  BY DEF TypeInv
<1>1. CASE ServeConn(c)
  BY <1>0, <1>1 DEF ServeConn, lvars
<1>2. CASE Handshake(c) \/ Activate(c) \/ Announce(c) \/ HandlerReturn(c)
  BY <1>0, <1>2 DEF Handshake, Activate, Announce, HandlerReturn, lvars
<1>3. CASE Finish(c) \/ StoreClosed(c)
  BY <1>0, <1>3 DEF Finish, StoreClosed, lvars
<1>4. CASE Untrack(c)
  BY <1>0, <1>4 DEF Untrack, FreeSlot
<1>5. CASE Reply(c) \/ StoreTunnel(c) \/ ContextDone(c)
  BY <1>0, <1>5 DEF Reply, StoreTunnel, ContextDone, lvars, cvars
<1> QED
  BY <1>1, <1>2, <1>3, <1>4, <1>5 DEF ServeStep, UserStep

\* Every step keeps the ownership.
LEMMA OwnedStep == TypeInv /\ Owned /\ [Next]_vars => Owned'
<1> SUFFICES ASSUME TypeInv, Owned, [Next]_vars PROVE Owned'
  OBVIOUS
<1>1. CASE UNCHANGED <<lpc, lconn, cpc, conns>>
  BY <1>1 DEF Owned, Holding, HeldOnce, Tracked
<1>2. CASE StopStep \/ \E k \in Stoppers : Stop(k)
  BY <1>1, <1>2 DEF StopStep, Stop, CloseListeners, CloseHandshakes, CloseConns, lvars, cvars
<1>3. CASE UNCHANGED vars
  BY <1>1, <1>3 DEF vars, lvars, cvars
<1> QED
  BY <1>2, <1>3, OwnedLoop, OwnedConn DEF Next

-----------------------------------------------------------------------------
(* The slots.                                                              *)

\* What a step may do to the conns and the slots.
SlotsKept == UNCHANGED <<conns, Reserving, slotsUsed>>
SlotReserved ==
    \E l \in Loops \ Reserving :
        /\ SlotFree
        /\ Reserving' = Reserving \cup {l}
        /\ slotsUsed' = slotsUsed + 1
        /\ conns' = conns
SlotReturned ==
    \E l \in Reserving :
        /\ Reserving' = Reserving \ {l}
        /\ slotsUsed' = slotsUsed - 1
        /\ conns' = conns
SlotHandedOver ==
    \E l \in Reserving, c \in Conns \ (conns \cup Direct) :
        /\ Reserving' = Reserving \ {l}
        /\ slotsUsed' = slotsUsed
        /\ conns' = conns \cup {c}
SlotTakenDirectly ==
    \E c \in Direct \ conns :
        /\ Reserving' = Reserving
        /\ slotsUsed' = slotsUsed + 1
        /\ conns' = conns \cup {c}
SlotFreed ==
    \E c \in conns :
        /\ Reserving' = Reserving
        /\ slotsUsed' = slotsUsed - 1
        /\ conns' = conns \ {c}
SlotChange ==
    SlotsKept \/ SlotReserved \/ SlotReturned \/ SlotHandedOver \/ SlotTakenDirectly \/ SlotFreed

\* What the steps of a loop do to the slots.
LEMMA SlotLoop ==
    ASSUME TypeInv, Owned, NEW l \in Loops, LoopStep(l)
    PROVE  SlotChange
<1> USE DEF GoLoop, Reserving
<1>0. lpc \in [Loops -> LoopPC] /\ lconn \in [Loops -> Conns \cup {NoConn}]
  BY DEF TypeInv
<1>1. CASE Serve(l) \/ \E c \in Conns : Accept(l, c)
  BY <1>0, <1>1 DEF Serve, Accept, SlotChange, SlotsKept
<1>2. CASE AcceptError(l) \/ Backoff(l)
  BY <1>0, <1>2 DEF AcceptError, Backoff, SlotChange, SlotsKept
<1>3. CASE Start(l)
  BY <1>0, <1>3 DEF Start, SlotChange, SlotsKept
<1>4. CASE WaitSlot(l)
  <2>1. CASE ~done /\ SlotFree
    BY <1>0, <1>4, <2>1 DEF WaitSlot, SlotChange, SlotReserved
  <2>2. CASE done \/ ~SlotFree
    BY <1>0, <1>4, <2>2 DEF WaitSlot, SlotChange, SlotsKept
  <2> QED
    BY <2>1, <2>2
<1>5. CASE WakeByDone(l) \/ ServeReturn(l)
  BY <1>0, <1>5 DEF WakeByDone, ServeReturn, SlotChange, SlotsKept
<1>6. CASE NewConn(l)
  <2>1. CASE NewConnRefuses
    BY <1>0, <1>6, <2>1 DEF NewConn, RefuseHeld, SlotChange, SlotReturned
  <2>2. CASE ~NewConnRefuses
    <3>1. lconn[l] \in Conns \ (conns \cup Direct)
      BY <1>0, <1>6 DEF NewConn, Owned, Holding, HoldingPC, HeldOnce, Tracked, ServingPC
    <3> QED
      BY <1>0, <1>6, <2>2, <3>1 DEF NewConn, TrackHeld, SlotChange, SlotHandedOver
  <2> QED
    BY <2>1, <2>2
<1> QED
  BY <1>1, <1>2, <1>3, <1>4, <1>5, <1>6 DEF LoopStep

\* What ServeConn and the steps of a conn do to the slots.
LEMMA SlotConn ==
    ASSUME TypeInv, Owned, NEW c \in Conns,
           \/ ServeConn(c) \/ ServeStep(c) \/ UserStep(c)
           \/ Reply(c) \/ StoreTunnel(c) \/ ContextDone(c)
    PROVE  SlotChange
<1> USE DEF GoConn, Reserving, lvars
<1>0. lpc \in [Loops -> LoopPC]
  BY DEF TypeInv
<1>1. CASE ServeConn(c)
  <2>1. c \in Direct \ conns
    BY <1>1 DEF ServeConn, Owned, Tracked, ServingPC
  <2> QED
    BY <1>1, <2>1 DEF ServeConn, SlotChange, SlotsKept, SlotTakenDirectly
<1>2. CASE Handshake(c) \/ Activate(c) \/ Announce(c) \/ HandlerReturn(c)
  BY <1>2 DEF Handshake, Activate, Announce, HandlerReturn, SlotChange, SlotsKept
<1>3. CASE Finish(c) \/ StoreClosed(c)
  BY <1>3 DEF Finish, StoreClosed, SlotChange, SlotsKept
<1>4. CASE Untrack(c)
  <2>1. c \in conns
    BY <1>4 DEF Untrack, Owned, Tracked, ServingPC
  <2>2. \A l \in Loops : lpc'[l] = "newConn" <=> lpc[l] = "newConn"
    BY <1>0, <1>4 DEF Untrack, FreeSlot
  <2> QED
    BY <1>4, <2>1, <2>2 DEF Untrack, FreeSlot, SlotChange, SlotFreed
<1>5. CASE Reply(c) \/ StoreTunnel(c) \/ ContextDone(c)
  BY <1>5 DEF Reply, StoreTunnel, ContextDone, SlotChange, SlotsKept
<1> QED
  BY <1>1, <1>2, <1>3, <1>4, <1>5 DEF ServeStep, UserStep

\* Every step changes the conns and the slots in one of the six ways.
LEMMA SlotStep == TypeInv /\ Owned /\ [Next]_vars => SlotChange
<1> SUFFICES ASSUME TypeInv, Owned, [Next]_vars PROVE SlotChange
  OBVIOUS
<1>1. CASE UNCHANGED <<lpc, conns, slotsUsed>>
  BY <1>1 DEF SlotChange, SlotsKept, Reserving
<1>2. CASE StopStep \/ \E k \in Stoppers : Stop(k)
  BY <1>1, <1>2 DEF StopStep, Stop, CloseListeners, CloseHandshakes, CloseConns, lvars
<1>3. CASE UNCHANGED vars
  BY <1>1, <1>3 DEF vars, lvars
<1> QED
  BY <1>2, <1>3, SlotLoop, SlotConn DEF Next

\* Sets of conns and of loops are finite.
LEMMA FiniteParts ==
    ASSUME TypeInv
    PROVE  /\ IsFiniteSet(conns) /\ Cardinality(conns) \in Nat
           /\ IsFiniteSet(conns \ Direct) /\ Cardinality(conns \ Direct) \in Nat
           /\ IsFiniteSet(Reserving) /\ Cardinality(Reserving) \in Nat
<1>1. conns \subseteq Conns /\ conns \ Direct \subseteq Conns /\ Reserving \subseteq Loops
  BY DEF TypeInv, Reserving
<1> QED
  BY <1>1, ServerAssumption, FS_Subset, FS_CardinalityType DEF ServerAssumption

\* The count starts right.
LEMMA SlotAccountingInit == Init => SlotAccounting
<1> SUFFICES ASSUME Init PROVE SlotAccounting
  OBVIOUS
<1>1. conns = {} /\ Reserving = {} /\ slotsUsed = 0
  BY DEF Init, Reserving
<1> QED
  BY <1>1, FS_EmptySet DEF SlotAccounting

\* Each of the six ways keeps the count right.
LEMMA SlotAccountingStep ==
    ASSUME TypeInv, SlotAccounting, SlotChange
    PROVE  SlotAccounting'
<1> USE FiniteParts DEF SlotAccounting
<1>0. slotsUsed \in Int
  BY DEF TypeInv
<1>1. CASE SlotsKept
  BY <1>1 DEF SlotsKept
<1>2. CASE SlotReserved
  <2>1. PICK l \in Loops \ Reserving :
           /\ Reserving' = Reserving \cup {l}
           /\ slotsUsed' = slotsUsed + 1
           /\ conns' = conns
    BY <1>2 DEF SlotReserved
  <2>2. Cardinality(Reserving') = Cardinality(Reserving) + 1
    BY <2>1, FS_AddElement
  <2> QED
    BY <1>0, <2>1, <2>2
<1>3. CASE SlotReturned
  <2>1. PICK l \in Reserving :
           /\ Reserving' = Reserving \ {l}
           /\ slotsUsed' = slotsUsed - 1
           /\ conns' = conns
    BY <1>3 DEF SlotReturned
  <2>2. Cardinality(Reserving') = Cardinality(Reserving) - 1
    BY <2>1, FS_RemoveElement
  <2> QED
    BY <1>0, <2>1, <2>2
<1>4. CASE SlotHandedOver
  <2>1. PICK l \in Reserving, c \in Conns \ conns :
           /\ Reserving' = Reserving \ {l}
           /\ slotsUsed' = slotsUsed
           /\ conns' = conns \cup {c}
    BY <1>4 DEF SlotHandedOver
  <2>2. Cardinality(Reserving') = Cardinality(Reserving) - 1
    BY <2>1, FS_RemoveElement
  <2>3. Cardinality(conns') = Cardinality(conns) + 1
    BY <2>1, FS_AddElement
  <2> QED
    BY <1>0, <2>1, <2>2, <2>3
<1>5. CASE SlotTakenDirectly
  <2>1. PICK c \in Direct \ conns :
           /\ Reserving' = Reserving
           /\ slotsUsed' = slotsUsed + 1
           /\ conns' = conns \cup {c}
    BY <1>5 DEF SlotTakenDirectly
  <2>2. Cardinality(conns') = Cardinality(conns) + 1
    BY <2>1, FS_AddElement
  <2> QED
    BY <1>0, <2>1, <2>2
<1>6. CASE SlotFreed
  <2>1. PICK c \in conns :
           /\ Reserving' = Reserving
           /\ slotsUsed' = slotsUsed - 1
           /\ conns' = conns \ {c}
    BY <1>6 DEF SlotFreed
  <2>2. Cardinality(conns') = Cardinality(conns) - 1
    BY <2>1, FS_RemoveElement
  <2> QED
    BY <1>0, <2>1, <2>2
<1> QED
  BY <1>1, <1>2, <1>3, <1>4, <1>5, <1>6 DEF SlotChange

\* The invariant the theorems rest on: counting slots needs to know who has a
\* conn, or untrack could free a slot that was never taken.
IndInv == TypeInv /\ Owned /\ SlotAccounting

\* IndInv holds in every reachable state.
THEOREM Invariance == Spec => []IndInv
<1>1. Init => IndInv
  BY TypeInit, OwnedInit, SlotAccountingInit DEF IndInv
<1>2. IndInv /\ [Next]_vars => IndInv'
  BY TypeStep, OwnedStep, SlotStep, SlotAccountingStep DEF IndInv, Owned
<1> QED
  BY <1>1, <1>2, PTL DEF Spec

\* Every variable keeps its type; slotsUsed, which untrack and a refusing newConn
\* decrement without a look, never falls below zero.
THEOREM TypeCorrect == Spec => []TypeOK
<1>1. IndInv => TypeOK
  <2> SUFFICES ASSUME IndInv PROVE TypeOK
    OBVIOUS
  <2>1. TypeInv /\ SlotAccounting
    BY DEF IndInv
  <2>2. slotsUsed \in Nat
    BY <2>1, FiniteParts DEF SlotAccounting
  <2> QED
    BY <2>1, <2>2 DEF TypeInv, TypeOK
<1> QED
  BY <1>1, Invariance, PTL

\* slotsUsed is the tracked conns plus the slots loops reserved in waitSlot, for
\* any number of loops, conns and callers of ServeConn.
THEOREM SlotsAccounted == Spec => []SlotAccounting
<1>1. IndInv => SlotAccounting
  BY DEF IndInv
<1> QED
  BY <1>1, Invariance, PTL

\* No conn is accepted at first.
LEMMA MaxConnsInit == Init => MaxConnsRespected
<1> SUFFICES ASSUME Init PROVE MaxConnsRespected
  OBVIOUS
<1>1. conns \ Direct = {} /\ Reserving = {}
  BY DEF Init, Reserving
<1> QED
  BY <1>1, FS_EmptySet, ServerAssumption DEF MaxConnsRespected, ServerAssumption

\* Each of the six ways keeps the cap: waitSlot's comparison is with a count
\* that includes the slots other loops reserved.
LEMMA MaxConnsStep ==
    ASSUME TypeInv, SlotAccounting, MaxConnsRespected, SlotChange, TypeInv'
    PROVE  MaxConnsRespected'
<1> SUFFICES ASSUME MaxConns > 0
             PROVE  Cardinality(conns' \ Direct) + Cardinality(Reserving') <= MaxConns
  BY DEF MaxConnsRespected
<1> DEFINE A == conns \ Direct
<1> HIDE DEF A
<1>0. /\ IsFiniteSet(A) /\ Cardinality(A) \in Nat
      /\ IsFiniteSet(Reserving) /\ Cardinality(Reserving) \in Nat
      /\ IsFiniteSet(conns) /\ Cardinality(conns) \in Nat
      /\ MaxConns \in Nat /\ slotsUsed \in Int
  BY FiniteParts, ServerAssumption DEF A, ServerAssumption, TypeInv
<1>a. Cardinality(A) + Cardinality(Reserving) <= MaxConns
  BY DEF MaxConnsRespected, A
<1>b. conns' \ Direct = A' /\ (conns' = conns => A' = A)
  BY DEF A
<1>1. CASE SlotsKept
  BY <1>1, <1>a, <1>b DEF SlotsKept
<1>2. CASE SlotReserved
  <2>1. PICK l \in Loops \ Reserving : Reserving' = Reserving \cup {l}
    BY <1>2 DEF SlotReserved
  <2>2. Cardinality(Reserving') = Cardinality(Reserving) + 1
    BY <1>0, <2>1, FS_AddElement
  <2>3. slotsUsed < MaxConns /\ A' = A
    BY <1>2, <1>b DEF SlotReserved, SlotFree
  <2>4. Cardinality(A) <= Cardinality(conns)
    BY <1>0, FS_Subset DEF A
  <2> QED
    BY <1>0, <1>b, <2>2, <2>3, <2>4 DEF SlotAccounting
<1>3. CASE SlotReturned
  <2>1. PICK l \in Reserving : Reserving' = Reserving \ {l} /\ A' = A
    BY <1>3, <1>b DEF SlotReturned
  <2>2. Cardinality(Reserving') = Cardinality(Reserving) - 1
    BY <1>0, <2>1, FS_RemoveElement
  <2> QED
    BY <1>0, <1>a, <1>b, <2>1, <2>2
<1>4. CASE SlotHandedOver
  <2>1. PICK l \in Reserving, c \in Conns \ A :
           Reserving' = Reserving \ {l} /\ A' = A \cup {c}
    BY <1>4 DEF SlotHandedOver, A
  <2>2. Cardinality(Reserving') = Cardinality(Reserving) - 1
    BY <1>0, <2>1, FS_RemoveElement
  <2>3. Cardinality(A') = Cardinality(A) + 1
    BY <1>0, <2>1, FS_AddElement
  <2> QED
    BY <1>0, <1>a, <1>b, <2>2, <2>3
<1>5. CASE SlotTakenDirectly
  <2>1. A' = A /\ Reserving' = Reserving
    BY <1>5 DEF SlotTakenDirectly, A
  <2> QED
    BY <1>a, <1>b, <2>1
<1>6. CASE SlotFreed
  <2>1. A' \subseteq A /\ Reserving' = Reserving
    BY <1>6 DEF SlotFreed, A
  <2>2. Cardinality(A') <= Cardinality(A) /\ Cardinality(A') \in Nat
    BY <1>0, <2>1, FS_Subset, FS_CardinalityType
  <2>3. Cardinality(A') + Cardinality(Reserving) <= MaxConns
    BY <1>0, <1>a, <2>2
  <2> QED
    BY <1>b, <2>1, <2>3
<1> QED
  BY <1>1, <1>2, <1>3, <1>4, <1>5, <1>6 DEF SlotChange

\* MaxConns: however many loops race for the last slot, and whatever ServeConn
\* adds to the counter, the accepted conns never exceed the cap.
THEOREM MaxConnsHolds == Spec => []MaxConnsRespected
<1>1. IndInv /\ IndInv' /\ MaxConnsRespected /\ [Next]_vars => MaxConnsRespected'
  BY SlotStep, MaxConnsStep DEF IndInv
<1> QED
  BY <1>1, MaxConnsInit, Invariance, PTL DEF Spec

\* Whatever Serve loops, ServeConn, Shutdown, Close and panics do to conns, the
\* slots are the tracked conns and the reservations, and those of the loops stay
\* within MaxConns.
THEOREM SlotsHold == Spec => []SlotsExact
<1>1. SlotAccounting /\ MaxConnsRespected => SlotsExact
  BY DEF SlotsExact
<1> QED
  BY <1>1, SlotsAccounted, MaxConnsHolds, PTL

-----------------------------------------------------------------------------
(* waitSlot's sleep.                                                       *)

\* Every step keeps NoSlotMissed: whoever frees a slot wakes the sleepers.
LEMMA NoSlotMissedStep ==
    ASSUME TypeInv, NoSlotMissed, [Next]_vars
    PROVE  NoSlotMissed'
<1> USE ServerAssumption DEF ServerAssumption, NoSlotMissed, SlotFree
<1>0. slotsUsed \in Int /\ lpc \in [Loops -> LoopPC]
  BY DEF TypeInv
<1>1. CASE UNCHANGED <<lpc, slotFreed, slotsUsed, done>>
  BY <1>1
<1>2. ASSUME NEW l \in Loops, LoopStep(l) PROVE NoSlotMissed'
  <2> USE DEF GoLoop
  <2>1. CASE Serve(l) \/ \E c \in Conns : Accept(l, c)
    BY <1>0, <2>1 DEF Serve, Accept
  <2>2. CASE AcceptError(l) \/ Backoff(l) \/ Start(l)
    BY <1>0, <2>2 DEF AcceptError, Backoff, Start
  <2>3. CASE WaitSlot(l)
    BY <1>0, <2>3 DEF WaitSlot
  <2>4. CASE WakeByDone(l) \/ ServeReturn(l)
    BY <1>0, <2>4 DEF WakeByDone, ServeReturn
  <2>5. CASE NewConn(l)
    BY <1>0, <2>5 DEF NewConn, NewConnRefuses, RefuseHeld, TrackHeld
  <2> QED
    BY <1>2, <2>1, <2>2, <2>3, <2>4, <2>5 DEF LoopStep
<1>3. ASSUME NEW c \in Conns, ServeConn(c) PROVE NoSlotMissed'
  BY <1>0, <1>3 DEF ServeConn, lvars
<1>4. ASSUME NEW c \in Conns, Untrack(c) PROVE NoSlotMissed'
  BY <1>0, <1>4 DEF Untrack, FreeSlot
<1>5. ASSUME NEW c \in Conns, ServeStep(c) \/ UserStep(c), ~Untrack(c) PROVE NoSlotMissed'
  BY <1>1, <1>5
  DEF ServeStep, UserStep, Handshake, Activate, Announce, HandlerReturn, Finish, StoreClosed,
      lvars
<1>6. ASSUME NEW c \in Conns, Reply(c) \/ StoreTunnel(c) \/ ContextDone(c) PROVE NoSlotMissed'
  BY <1>1, <1>6 DEF Reply, StoreTunnel, ContextDone, lvars
<1>7. CASE \E k \in Stoppers : Stop(k)
  BY <1>7 DEF Stop, lvars
<1>8. CASE StopStep
  BY <1>1, <1>8 DEF StopStep, CloseListeners, CloseHandshakes, CloseConns, lvars
<1>9. CASE UNCHANGED vars
  BY <1>1, <1>9 DEF vars, lvars
<1> QED
  BY <1>2, <1>3, <1>4, <1>5, <1>6, <1>7, <1>8, <1>9 DEF Next

\* No Serve loop sleeps in waitSlot while a slot is free, and none that sleeps is
\* without a channel to wake it.
THEOREM NoWakeupLost == Spec => []NoSlotMissed
<1>1. Init => NoSlotMissed
  BY DEF Init, NoSlotMissed
<1>2. IndInv /\ NoSlotMissed /\ [Next]_vars => NoSlotMissed'
  BY NoSlotMissedStep DEF IndInv
<1> QED
  BY <1>1, <1>2, Invariance, PTL DEF Spec

-----------------------------------------------------------------------------
(* Shutdown and Close.                                                     *)

\* Shutdown past its stop has closed s.done.
Stopped == \A k \in Stoppers : spc[k] # "idle" => done

\* Once Shutdown returned nil, no conn is tracked.
Drained == spc["Shutdown"] = "nil" => conns = {}

\* Once s.done is closed no step adds a conn.
LEMMA DrainedStep ==
    ASSUME TypeInv, Stopped, Drained, [Next]_vars
    PROVE  Stopped' /\ Drained'
<1> USE DEF Stopped, Drained
<1>0. spc \in [Stoppers -> {"idle", "closeListeners", "conns", "nil", "ctxErr"}]
  BY DEF TypeInv
<1>1. CASE UNCHANGED <<spc, done, conns>>
  BY <1>1
<1>2. ASSUME NEW l \in Loops, LoopStep(l) PROVE Stopped' /\ Drained'
  <2>1. CASE NewConn(l)
    BY <1>0, <2>1 DEF NewConn, NewConnRefuses, RefuseHeld, TrackHeld, svars, Stoppers
  <2>2. CASE ~NewConn(l)
    BY <1>1, <1>2, <2>2
    DEF LoopStep, Serve, Accept, AcceptError, Backoff, Start, WaitSlot, WakeByDone,
        ServeReturn, svars
  <2> QED
    BY <2>1, <2>2
<1>3. ASSUME NEW c \in Conns, ServeConn(c) PROVE Stopped' /\ Drained'
  BY <1>0, <1>3 DEF ServeConn, svars, Stoppers
<1>4. ASSUME NEW c \in Conns, Untrack(c) PROVE Stopped' /\ Drained'
  BY <1>4 DEF Untrack, svars
<1>5. ASSUME NEW c \in Conns, ServeStep(c) \/ UserStep(c), ~Untrack(c)
      PROVE  Stopped' /\ Drained'
  BY <1>1, <1>5
  DEF ServeStep, UserStep, Handshake, Activate, Announce, HandlerReturn, Finish, StoreClosed,
      svars
<1>6. ASSUME NEW c \in Conns, Reply(c) \/ StoreTunnel(c) \/ ContextDone(c)
      PROVE  Stopped' /\ Drained'
  BY <1>1, <1>6 DEF Reply, StoreTunnel, ContextDone, svars
<1>7. CASE \E k \in Stoppers : Stop(k)
  BY <1>0, <1>7 DEF Stop, GoStop, Stoppers
<1>8. CASE \E k \in Stoppers : CloseListeners(k)
  BY <1>0, <1>8 DEF CloseListeners, GoStop, Stoppers
<1>9. CASE CloseHandshakes
  BY <1>0, <1>9 DEF CloseHandshakes, NoneTracked, GoStop, Stoppers
<1>10. CASE CloseConns
  BY <1>0, <1>10 DEF CloseConns, GoStop, Stoppers
<1>11. CASE UNCHANGED vars
  BY <1>1, <1>11 DEF vars, svars
<1> QED
  BY <1>2, <1>3, <1>4, <1>5, <1>6, <1>7, <1>8, <1>9, <1>10, <1>11 DEF Next, StopStep

\* Shutdown's nil is final: no loop that held a conn across the shutdown, and no
\* late ServeConn, starts a serving goroutine after it.
THEOREM ShutdownDrains == Spec => []DrainedForGood
<1>1. Init => Stopped /\ Drained
  BY DEF Init, Stopped, Drained
<1>2. IndInv /\ Stopped /\ Drained /\ [Next]_vars => Stopped' /\ Drained'
  BY DrainedStep DEF IndInv
<1>3. IndInv /\ Drained => DrainedForGood
  BY DEF IndInv, Drained, DrainedForGood, Owned, Tracked, ServingPC, TypeInv, ConnPC
<1> QED
  BY <1>1, <1>2, <1>3, Invariance, PTL DEF Spec

\* A conn that is being, or was, given to its handler was activated.
Served ==
    \A c \in Conns :
        req[c] \/ cpc[c] \in {"announce", "handler"} \/ rpc[c] = "store" =>
            state[c] \notin {"New", "Shut"}

\* A handler runs, and Reply stores a state, for a conn whose request is set.
HandlerHasRequest ==
    \A c \in Conns : cpc[c] = "handler" \/ rpc[c] = "store" => req[c]

\* Only activate starts the service of a conn.
LEMMA ServedStep ==
    ASSUME TypeInv, Owned, Served, HandlerHasRequest, [Next]_vars
    PROVE  Served' /\ HandlerHasRequest'
<1> USE DEF Served, HandlerHasRequest
<1>0. /\ state \in [Conns -> ConnState] /\ cpc \in [Conns -> ConnPC]
      /\ req \in [Conns -> BOOLEAN] /\ rpc \in [Conns -> {"idle", "store"}]
      /\ lconn \in [Loops -> Conns \cup {NoConn}]
  BY DEF TypeInv
<1>1. CASE UNCHANGED <<state, cpc, req, rpc>>
  BY <1>1
<1>2. ASSUME NEW l \in Loops, LoopStep(l) PROVE Served' /\ HandlerHasRequest'
  BY <1>0, <1>1, <1>2
  DEF LoopStep, Serve, Accept, AcceptError, Backoff, Start, WaitSlot, WakeByDone,
      NewConn, RefuseHeld, TrackHeld, DropHeld, ServeReturn, cvars
<1>3. ASSUME NEW c \in Conns, ServeConn(c) PROVE Served' /\ HandlerHasRequest'
  BY <1>0, <1>3 DEF ServeConn
<1>4. ASSUME NEW c \in Conns, Handshake(c) \/ Finish(c) \/ Untrack(c)
      PROVE  Served' /\ HandlerHasRequest'
  BY <1>0, <1>4 DEF Handshake, Finish, Untrack, GoConn
<1>5. ASSUME NEW c \in Conns, Activate(c) \/ StoreClosed(c)
      PROVE  Served' /\ HandlerHasRequest'
  BY <1>0, <1>5 DEF Activate, StoreClosed, GoConn
<1>6. ASSUME NEW c \in Conns, Announce(c) \/ HandlerReturn(c)
      PROVE  Served' /\ HandlerHasRequest'
  BY <1>0, <1>6 DEF Announce, HandlerReturn, GoConn
<1>7. ASSUME NEW c \in Conns, Reply(c) PROVE Served' /\ HandlerHasRequest'
  BY <1>0, <1>7 DEF Reply
<1>8. ASSUME NEW c \in Conns, StoreTunnel(c) \/ ContextDone(c)
      PROVE  Served' /\ HandlerHasRequest'
  BY <1>0, <1>1, <1>8 DEF StoreTunnel, ContextDone, cvars
<1>9. CASE StopStep \/ \E k \in Stoppers : Stop(k)
  BY <1>0, <1>1, <1>9
  DEF StopStep, Stop, CloseListeners, CloseHandshakes, CloseConns, ShutAll, Unactivated, cvars
<1>10. CASE UNCHANGED vars
  BY <1>1, <1>10 DEF vars, cvars
<1> QED
  BY <1>2, <1>3, <1>4, <1>5, <1>6, <1>7, <1>8, <1>9, <1>10 DEF Next, ServeStep, UserStep

\* The compare-and-swap of activate is enough: a conn shut in its handshake is
\* never served, though Reply stores its state without a look.
THEOREM ShutStaysShut == Spec => ShutNeverServed
<1>1. Init => Served /\ HandlerHasRequest
  BY DEF Init, Served, HandlerHasRequest
<1>2. IndInv /\ Served /\ HandlerHasRequest /\ [Next]_vars => Served' /\ HandlerHasRequest'
  BY ServedStep DEF IndInv
<1>3. ASSUME TypeInv, Served, HandlerHasRequest, [Next]_vars
      PROVE  \A c \in Conns : state[c] = "Shut" => state'[c] \in {"Shut", "Closed"}
  <2>0. state \in [Conns -> ConnState]
    BY <1>3 DEF TypeInv
  <2>1. CASE UNCHANGED state
    BY <2>1
  <2>2. ASSUME NEW l \in Loops, LoopStep(l) PROVE UNCHANGED state
    BY <2>2
    DEF LoopStep, Serve, Accept, AcceptError, Backoff, Start, WaitSlot, WakeByDone,
        NewConn, ServeReturn, cvars
  <2>3. ASSUME NEW c \in Conns, ServeConn(c) \/ ServeStep(c) \/ UserStep(c)
        PROVE  \A d \in Conns : state[d] = "Shut" => state'[d] \in {"Shut", "Closed"}
    BY <2>0, <2>3
    DEF ServeConn, ServeStep, UserStep, Handshake, Activate, MayActivate, Announce,
        HandlerReturn, Finish, StoreClosed, Untrack
  <2>4. ASSUME NEW c \in Conns, Reply(c) \/ StoreTunnel(c) \/ ContextDone(c)
        PROVE  \A d \in Conns : state[d] = "Shut" => state'[d] \in {"Shut", "Closed"}
    BY <1>3, <2>0, <2>4 DEF Reply, StoreTunnel, ContextDone, Served, cvars
  <2>5. CASE StopStep \/ \E k \in Stoppers : Stop(k)
    BY <2>0, <2>5
    DEF StopStep, Stop, CloseListeners, CloseHandshakes, CloseConns, ShutAll, Unactivated, cvars
  <2>6. CASE UNCHANGED vars
    BY <2>6 DEF vars, cvars
  <2> QED
    BY <1>3, <2>1, <2>2, <2>3, <2>4, <2>5, <2>6 DEF Next
<1>4. IndInv /\ Served /\ HandlerHasRequest /\ [Next]_vars =>
        [\A c \in Conns : state[c] = "Shut" => state'[c] \in {"Shut", "Closed"}]_vars
  BY <1>3 DEF IndInv
<1> QED
  BY <1>1, <1>2, <1>4, Invariance, PTL DEF Spec, ShutNeverServed

-----------------------------------------------------------------------------
(* No conn is left open.                                                   *)

\* A held conn has its loop, and nothing that is neither held nor served is open.
Guarded ==
    /\ \A c \in Conns : cpc[c] = "held" => \E l \in Loops : lconn[l] = c
    /\ \A c \in Conns : cpc[c] \in {"none", "closed", "untrack", "gone"} => ~ncOpen[c]

\* The steps of a loop keep Guarded.
LEMMA GuardedLoop ==
    ASSUME TypeInv, Owned, Guarded, NEW l \in Loops, LoopStep(l)
    PROVE  Guarded'
<1> USE ServerAssumption DEF Guarded, GoLoop
<1>0. /\ lpc \in [Loops -> LoopPC] /\ lconn \in [Loops -> Conns \cup {NoConn}]
      /\ cpc \in [Conns -> ConnPC] /\ ncOpen \in [Conns -> BOOLEAN]
  BY DEF TypeInv
<1>1. CASE UNCHANGED <<lconn, cpc, ncOpen>>
  BY <1>1
<1>2. CASE \E c \in Conns : Accept(l, c)
  <2>1. PICK c \in Conns : Accept(l, c)
    BY <1>2
  <2>2. lconn[l] = NoConn
    BY <1>0, <2>1 DEF Accept, Owned, Holding, HoldingPC
  <2> QED
    BY <1>0, <2>1, <2>2 DEF Accept
<1>3. ASSUME DropHeld(l), lconn[l] # NoConn PROVE Guarded'
  BY <1>0, <1>3 DEF DropHeld, Owned, HeldOnce
<1>4. CASE Start(l)
  BY <1>1, <1>3, <1>4 DEF Start, Owned, Holding, HoldingPC
<1>5. CASE WaitSlot(l)
  BY <1>1, <1>3, <1>5 DEF WaitSlot, Owned, Holding, HoldingPC
<1>6. CASE NewConn(l)
  <2>1. lconn[l] # NoConn
    BY <1>6 DEF NewConn, Owned, Holding, HoldingPC
  <2>2. CASE RefuseHeld(l)
    BY <1>3, <2>1, <2>2 DEF RefuseHeld
  <2>3. CASE TrackHeld(l)
    BY <1>0, <2>1, <2>3 DEF TrackHeld, Owned, HeldOnce
  <2> QED
    BY <1>6, <2>2, <2>3 DEF NewConn
<1> QED
  BY <1>1, <1>2, <1>4, <1>5, <1>6
  DEF LoopStep, Serve, AcceptError, Backoff, WakeByDone, ServeReturn, cvars

\* Every step keeps Guarded.
LEMMA GuardedStep ==
    ASSUME TypeInv, Owned, Guarded, [Next]_vars
    PROVE  Guarded'
<1> USE DEF Guarded, GoConn
<1>0. /\ lconn \in [Loops -> Conns \cup {NoConn}]
      /\ cpc \in [Conns -> ConnPC] /\ ncOpen \in [Conns -> BOOLEAN]
  BY DEF TypeInv
<1>1. CASE UNCHANGED <<lconn, cpc, ncOpen>>
  BY <1>1
<1>2. ASSUME NEW c \in Conns, ServeConn(c) PROVE Guarded'
  BY <1>0, <1>2 DEF ServeConn, lvars
<1>3. ASSUME NEW c \in Conns, ServeStep(c) PROVE Guarded'
  BY <1>0, <1>3 DEF ServeStep, Handshake, Activate, Finish, StoreClosed, Untrack, lvars
<1>4. ASSUME NEW c \in Conns, UserStep(c) PROVE Guarded'
  BY <1>0, <1>4 DEF UserStep, Announce, HandlerReturn, lvars
<1>5. ASSUME NEW c \in Conns, Reply(c) \/ StoreTunnel(c) \/ ContextDone(c) PROVE Guarded'
  BY <1>0, <1>5 DEF Reply, StoreTunnel, ContextDone, lvars, cvars
<1>6. CASE StopStep \/ \E k \in Stoppers : Stop(k)
  BY <1>0, <1>6
  DEF StopStep, Stop, CloseListeners, CloseHandshakes, CloseConns, CloseAll, lvars, cvars
<1>7. CASE UNCHANGED vars
  BY <1>1, <1>7 DEF vars, lvars, cvars
<1> QED
  BY <1>2, <1>3, <1>4, <1>5, <1>6, <1>7, GuardedLoop DEF Next

\* Every path that gives up a conn closes it: an open one is tracked, so that
\* Shutdown and Close find it, or in the hands of the loop that accepted it.
THEOREM NoConnLeaks == Spec => []NothingLeaks
<1>1. Init => Guarded
  BY DEF Init, Guarded
<1>2. IndInv /\ Guarded /\ [Next]_vars => Guarded'
  BY GuardedStep DEF IndInv
<1>3. IndInv /\ Guarded => NothingLeaks
  BY DEF IndInv, Guarded, NothingLeaks, Owned, Tracked, ServingPC, TypeInv, ConnPC
<1> QED
  BY <1>1, <1>2, <1>3, Invariance, PTL DEF Spec

\* A conn the server gave up is closed and untracked, and none comes back after
\* Shutdown returned nil.
THEOREM NothingStays == Spec => []NothingLeft
<1>1. DrainedForGood /\ NothingLeaks => NothingLeft
  BY DEF NothingLeft
<1> QED
  BY <1>1, ShutdownDrains, NoConnLeaks, PTL

-----------------------------------------------------------------------------
(* The count of handshakes.                                                *)

\* The conns inHandshake counts: tracked, and neither activated nor subtracted.
Counted ==
    {c \in Conns : cpc[c] \in {"handshake", "activate"} \/ (cpc[c] \in {"finish", "closed"} /\ ~req[c])}

HandshakeCount == inHandshake = Cardinality(Counted)

\* The request is set after activate, and StateNew is over when finish stored Closed.
RequestLate ==
    \A c \in Conns :
        /\ req[c] => cpc[c] \in {"handler", "finish", "closed", "untrack", "gone"}
        /\ cpc[c] = "untrack" => state[c] # "New"

CountKept == UNCHANGED <<Counted, inHandshake>>
CountAdded ==
    \E c \in Conns \ Counted : Counted' = Counted \cup {c} /\ inHandshake' = inHandshake + 1
CountRemoved ==
    \E c \in Counted : Counted' = Counted \ {c} /\ inHandshake' = inHandshake - 1
CountChange == CountKept \/ CountAdded \/ CountRemoved

\* Without panicking hooks a step adds one conn to the count, removes one
\* that is in it, or leaves it alone.
LEMMA CountStep ==
    ASSUME TypeInv, Owned, HandlerHasRequest, RequestLate, ~HookPanics, [Next]_vars
    PROVE  CountChange /\ RequestLate'
<1> USE ServerAssumption DEF RequestLate, Counted, CountChange
<1>0. /\ state \in [Conns -> ConnState] /\ cpc \in [Conns -> ConnPC]
      /\ req \in [Conns -> BOOLEAN] /\ inHandshake \in Int
      /\ lconn \in [Loops -> Conns \cup {NoConn}]
  BY DEF TypeInv
<1>1. CASE UNCHANGED <<state, cpc, req, inHandshake>>
  BY <1>1 DEF CountKept
<1>2. ASSUME NEW l \in Loops, LoopStep(l) PROVE CountChange /\ RequestLate'
  <2>1. ASSUME NEW c \in Conns, Accept(l, c) PROVE CountChange /\ RequestLate'
    BY <1>0, <2>1 DEF Accept, CountKept
  <2>2. ASSUME DropHeld(l), lconn[l] # NoConn, UNCHANGED <<state, req, inHandshake>>
        PROVE  CountChange /\ RequestLate'
    BY <1>0, <2>2 DEF DropHeld, Owned, HeldOnce, CountKept
  <2>3. CASE Start(l)
    BY <1>1, <2>2, <2>3 DEF Start, Owned, Holding, HoldingPC
  <2>4. CASE WaitSlot(l)
    BY <1>1, <2>2, <2>4 DEF WaitSlot, Owned, Holding, HoldingPC
  <2>5. CASE NewConn(l)
    <3>1. lconn[l] \in Conns /\ cpc[lconn[l]] = "held"
      BY <1>0, <2>5 DEF NewConn, Owned, Holding, HoldingPC, HeldOnce
    <3>2. CASE RefuseHeld(l)
      BY <2>2, <2>5, <3>1, <3>2 DEF NewConn, RefuseHeld
    <3>3. CASE TrackHeld(l)
      BY <1>0, <2>5, <3>1, <3>3 DEF NewConn, TrackHeld, CountAdded
    <3> QED
      BY <2>5, <3>2, <3>3 DEF NewConn
  <2> QED
    BY <1>1, <1>2, <2>1, <2>3, <2>4, <2>5
    DEF LoopStep, Serve, AcceptError, Backoff, WakeByDone, ServeReturn, cvars
<1>3. ASSUME NEW c \in Conns, ServeConn(c) PROVE CountChange /\ RequestLate'
  BY <1>0, <1>3 DEF ServeConn, CountKept, CountAdded
<1>4. ASSUME NEW c \in Conns, Handshake(c) PROVE CountChange /\ RequestLate'
  BY <1>0, <1>4 DEF Handshake, GoConn, CountKept
<1>5. ASSUME NEW c \in Conns, Activate(c) PROVE CountChange /\ RequestLate'
  <2>1. CASE MayActivate(c)
    BY <1>0, <1>5, <2>1 DEF Activate, GoConn, CountRemoved
  <2>2. CASE ~MayActivate(c)
    BY <1>0, <1>5, <2>2 DEF Activate, GoConn, CountKept
  <2> QED
    BY <2>1, <2>2
<1>6. ASSUME NEW c \in Conns, Announce(c) PROVE CountChange /\ RequestLate'
  BY <1>0, <1>6 DEF Announce, GoConn, CountKept
<1>7. ASSUME NEW c \in Conns, HandlerReturn(c) PROVE CountChange /\ RequestLate'
  BY <1>0, <1>7 DEF HandlerReturn, HandlerHasRequest, GoConn, CountKept
<1>8. ASSUME NEW c \in Conns, Finish(c) PROVE CountChange /\ RequestLate'
  BY <1>0, <1>8 DEF Finish, GoConn, CountKept
<1>9. ASSUME NEW c \in Conns, StoreClosed(c) PROVE CountChange /\ RequestLate'
  <2>1. CASE req[c]
    BY <1>0, <1>9, <2>1 DEF StoreClosed, UncountedAtEnd, GoConn, CountKept
  <2>2. CASE ~req[c]
    BY <1>0, <1>9, <2>2 DEF StoreClosed, UncountedAtEnd, GoConn, CountRemoved
  <2> QED
    BY <2>1, <2>2
<1>10. ASSUME NEW c \in Conns, Untrack(c) PROVE CountChange /\ RequestLate'
  BY <1>0, <1>10 DEF Untrack, GoConn, CountKept
<1>11. ASSUME NEW c \in Conns, Reply(c) \/ StoreTunnel(c) \/ ContextDone(c)
       PROVE  CountChange /\ RequestLate'
  BY <1>0, <1>1, <1>11 DEF Reply, StoreTunnel, ContextDone, cvars, CountKept
<1>12. CASE StopStep \/ \E k \in Stoppers : Stop(k)
  BY <1>0, <1>1, <1>12
  DEF StopStep, Stop, CloseListeners, CloseHandshakes, CloseConns, ShutAll, cvars, CountKept
<1>13. CASE UNCHANGED vars
  BY <1>1, <1>13 DEF vars, cvars
<1> QED
  BY <1>2, <1>3, <1>4, <1>5, <1>6, <1>7, <1>8, <1>9, <1>10, <1>11, <1>12, <1>13
  DEF Next, ServeStep, UserStep

\* The counter follows the count.
LEMMA HandshakeCountStep ==
    ASSUME TypeInv, HandshakeCount, CountChange
    PROVE  HandshakeCount'
<1> USE DEF HandshakeCount
<1>0. IsFiniteSet(Counted) /\ Cardinality(Counted) \in Nat
  BY ServerAssumption, FS_Subset, FS_CardinalityType DEF ServerAssumption, Counted
<1>1. CASE CountKept
  BY <1>1 DEF CountKept
<1>2. CASE CountAdded
  <2>1. PICK c \in Conns \ Counted : Counted' = Counted \cup {c} /\ inHandshake' = inHandshake + 1
    BY <1>2 DEF CountAdded
  <2>2. Cardinality(Counted') = Cardinality(Counted) + 1
    BY <1>0, <2>1, FS_AddElement
  <2> QED
    BY <2>1, <2>2
<1>3. CASE CountRemoved
  <2>1. PICK c \in Counted : Counted' = Counted \ {c} /\ inHandshake' = inHandshake - 1
    BY <1>3 DEF CountRemoved
  <2>2. Cardinality(Counted') = Cardinality(Counted) - 1
    BY <1>0, <2>1, FS_RemoveElement
  <2> QED
    BY <2>1, <2>2
<1> QED
  BY <1>1, <1>2, <1>3 DEF CountChange

\* If no ConnState hook panics, the counter MaxHandshakes is compared with never
\* misses a conn in StateNew (with one that panics it does: the run lifecycle_panic).
THEOREM HandshakesCounted ==
    ASSUME ~HookPanics
    PROVE  Spec => []HandshakesNotUndercounted
<1>1. Init => Served /\ HandlerHasRequest /\ RequestLate /\ HandshakeCount
  <2> SUFFICES ASSUME Init
               PROVE  Served /\ HandlerHasRequest /\ RequestLate /\ HandshakeCount
    OBVIOUS
  <2>1. Counted = {} /\ inHandshake = 0
    BY DEF Init, Counted
  <2>2. HandshakeCount
    BY <2>1, FS_EmptySet DEF HandshakeCount
  <2> QED
    BY <2>2 DEF Init, Served, HandlerHasRequest, RequestLate
<1>2. IndInv /\ Served /\ HandlerHasRequest /\ RequestLate /\ HandshakeCount /\ [Next]_vars
        => Served' /\ HandlerHasRequest' /\ RequestLate' /\ HandshakeCount'
  BY ServedStep, CountStep, HandshakeCountStep DEF IndInv
<1>3. IndInv /\ Served /\ RequestLate /\ HandshakeCount => HandshakesNotUndercounted
  <2> SUFFICES ASSUME IndInv, Served, RequestLate, HandshakeCount
               PROVE  HandshakesNotUndercounted
    OBVIOUS
  <2>1. Unactivated \subseteq Counted
    BY DEF IndInv, Served, RequestLate, Unactivated, Counted, Owned, Tracked, ServingPC, TypeInv
  <2>2. IsFiniteSet(Counted)
    BY ServerAssumption, FS_Subset DEF ServerAssumption, Counted
  <2>3. Cardinality(Unactivated) <= Cardinality(Counted)
    BY <2>1, <2>2, FS_Subset
  <2> QED
    BY <2>3 DEF HandshakeCount, HandshakesNotUndercounted
<1> QED
  BY <1>1, <1>2, <1>3, Invariance, PTL DEF Spec

=============================================================================
