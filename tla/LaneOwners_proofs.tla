-------------------------- MODULE LaneOwners_proofs --------------------------
(***************************************************************************)
(* Machine-checked proofs about LaneOwners, for any number of owners,      *)
(* openers and lanes and any quiet interval.                               *)
(***************************************************************************)
EXTENDS LaneOwners, FiniteSetTheorems, TLAPS

-----------------------------------------------------------------------------
(* Type correctness.                                                       *)

(* The initial state is type correct.                                      *)
LEMMA TypeInit == Init => TypeOK
<1> SUFFICES ASSUME Init PROVE TypeOK
  OBVIOUS
<1> USE DEF Tokens
<1>1. /\ idleSince \in [Owners -> -1..Quiet]
      /\ quietFor \in [Owners -> 0..Quiet]
      /\ obs \in [Owners -> Readings]
      /\ expected \in [Owners -> Tokens]
  BY QuietAssumption DEF Init, Readings
<1>2. /\ state \in [Owners -> OwnerStates]
      /\ closePc \in [Owners -> ClosePcs]
      /\ monitor \in [Owners -> MonitorPcs]
      /\ openPc \in [Openers -> OpenPcs]
  BY DEF Init, OwnerStates, ClosePcs, OpenPcs, MonitorPcs
<1>3. /\ slotOwners \in [Lanes -> SUBSET Owners]
      /\ serving \in [Lanes -> Tokens]
      /\ reserved \in [Lanes -> 0..2]
      /\ release \in [Lanes -> Tokens]
      /\ slotGrowth \in [Lanes -> Int]
      /\ genGrowth \in Int
      /\ grown \in [Owners -> Nat]
      /\ counted \in [Owners -> Nat]
  BY DEF Init
<1>4. /\ session \in [Owners -> {"none", "open", "closed"}]
      /\ closed \in [Owners -> BOOLEAN]
      /\ refund \in [Owners -> Tokens]
      /\ pred \in [Owners -> Tokens]
      /\ openOn \in [Openers -> Tokens]
  BY DEF Init
<1>5. /\ groupClosed \in BOOLEAN
      /\ application \in [Owners -> SUBSET Openers]
      /\ wire \in [Owners -> SUBSET Openers]
      /\ ledger \in SUBSET Owners
  BY DEF Init
<1> QED
  BY <1>1, <1>2, <1>3, <1>4, <1>5 DEF TypeOK

(* Counting activity keeps the types of what it touches.                   *)
LEMMA BumpType ==
    ASSUME TypeOK, NEW o \in Tokens, Bump(o)
    PROVE  /\ idleSince' \in [Owners -> -1..Quiet]
           /\ quietFor' \in [Owners -> 0..Quiet]
           /\ obs' \in [Owners -> Readings]
<1>0. -1 \in -1..Quiet /\ 0 \in 0..Quiet
  BY QuietAssumption
<1> DEFINE Ages == -1..Quiet  Quiets == 0..Quiet
<1> HIDE DEF Ages, Quiets
<1>a. -1 \in Ages /\ 0 \in Quiets /\ idleSince \in [Owners -> Ages] /\ quietFor \in [Owners -> Quiets]
  BY <1>0 DEF Ages, Quiets, TypeOK
<1>1. idleSince' \in [Owners -> Ages]
  BY <1>a DEF Bump
<1>2. quietFor' \in [Owners -> Quiets]
  BY <1>a DEF Bump
<1>3. obs' \in [Owners -> Readings]
  BY DEF TypeOK, Bump, Outdated, Readings
<1> QED
  BY <1>1, <1>2, <1>3 DEF Ages, Quiets

(* Every step keeps the types.                                             *)
LEMMA TypeNext == TypeOK /\ [Next]_vars => TypeOK'
<1> SUFFICES ASSUME TypeOK, [Next]_vars PROVE TypeOK'
  OBVIOUS
<1> USE NoOwnerAssumption, LaneAssumption, QuietAssumption
    DEF Tokens, OwnerStates, ClosePcs, OpenPcs, MonitorPcs, Readings, slotVars, growthVars,
        closeVars, openVars, idleVars, handVars
<1>1. ASSUME NEW o \in Owners, NEW p \in Tokens, NEW n \in 1..2, Acquire(o, p, n) PROVE TypeOK'
  <2>1. CASE slotOwners[lane[o]] = {}
    <3>1. reserved' \in [Lanes -> 0..2]
      <4>1. reserved' = [reserved EXCEPT ![lane[o]] = n]
        BY <1>1, <2>1 DEF Acquire, Prepay
      <4> QED
        BY <4>1 DEF TypeOK
    <3>2. release' \in [Lanes -> Tokens] /\ ledger' \in SUBSET Owners
      BY <1>1, <2>1 DEF TypeOK, Acquire, Prepay
    <3>3. /\ slotOwners' \in [Lanes -> SUBSET Owners]
          /\ state' \in [Owners -> OwnerStates]
          /\ pred' \in [Owners -> Tokens]
      BY <1>1 DEF TypeOK, Acquire
    <3> QED
      BY <1>1, <3>1, <3>2, <3>3 DEF TypeOK, Acquire
  <2>2. CASE slotOwners[lane[o]] # {}
    BY <1>1, <2>2 DEF TypeOK, Acquire, Prepay
  <2> QED
    BY <2>1, <2>2
<1>2. ASSUME NEW o \in Owners, Attach(o) PROVE TypeOK'
  BY <1>2 DEF TypeOK, Attach
<1>3. ASSUME NEW o \in Owners, Probe(o) PROVE TypeOK'
  BY <1>3 DEF TypeOK, Probe, NotedIdle, NotedObs, Age, Outdated
<1>4. ASSUME NEW o \in Owners, PublishObserve(o) PROVE TypeOK'
  <2> DEFINE old == serving[lane[o]]
  <2>1. CASE old = NoOwner \/ IdleObserved(old)
    <3>1. old \in Tokens
      BY DEF TypeOK
    <3>2. obs' \in [Owners -> Readings] /\ expected' \in [Owners -> Tokens]
      BY <1>4, <2>1, <3>1 DEF TypeOK, PublishObserve
    <3> QED
      BY <1>4, <2>1, <3>2 DEF TypeOK, PublishObserve
  <2>2. CASE ~(old = NoOwner \/ IdleObserved(old))
    <3>1. old \in Owners
      BY <2>2 DEF TypeOK
    <3>2. idleSince' \in [Owners -> -1..Quiet]
      BY <1>4, <2>2, <3>1 DEF TypeOK, PublishObserve, NotedIdle, Age
    <3>3. obs' \in [Owners -> Readings]
      BY <1>4, <2>2, <3>1 DEF TypeOK, PublishObserve, NotedObs, Outdated
    <3> QED
      BY <1>4, <2>2, <3>2, <3>3 DEF TypeOK, PublishObserve, BeginClose
  <2> QED
    BY <2>1, <2>2
<1>5. ASSUME NEW o \in Owners, PublishIdle(o) PROVE TypeOK'
  <2>1. CASE ~groupClosed /\ ~closed[o] /\ IdleStillHolds(o)
    <3>1. serving' \in [Lanes -> Tokens] /\ state' \in [Owners -> OwnerStates]
      <4>1. Switch(o)
        BY <1>5, <2>1 DEF PublishIdle
      <4> QED
        BY <4>1 DEF TypeOK, Switch
    <3>2. obs' \in [Owners -> Readings] /\ expected' \in [Owners -> Tokens]
      BY <1>5 DEF TypeOK, PublishIdle
    <3> QED
      BY <1>5, <2>1, <3>1, <3>2 DEF TypeOK, PublishIdle
  <2>2. CASE ~(~groupClosed /\ ~closed[o] /\ IdleStillHolds(o))
    <3>1. closed' \in [Owners -> BOOLEAN] /\ closePc' \in [Owners -> ClosePcs]
          /\ refund' = refund
      BY <1>5, <2>2 DEF TypeOK, PublishIdle, BeginClose
    <3>2. obs' \in [Owners -> Readings] /\ expected' \in [Owners -> Tokens]
      BY <1>5 DEF TypeOK, PublishIdle
    <3> QED
      BY <1>5, <2>2, <3>1, <3>2 DEF TypeOK, PublishIdle
  <2> QED
    BY <2>1, <2>2
<1>6. ASSUME NEW o \in Owners, Publish(o) PROVE TypeOK'
  BY <1>6 DEF TypeOK, Publish, Switch
<1>7. ASSUME NEW o \in Owners, Commit(o) PROVE TypeOK'
  BY <1>7 DEF TypeOK, Commit
<1>8. ASSUME NEW o \in Owners, NEW r \in Openers, BeginOpen(r, o) PROVE TypeOK'
  BY <1>8 DEF TypeOK, BeginOpen, Bump, Outdated
<1>9. ASSUME NEW o \in Owners, NEW r \in Openers, WireDone(o, r) PROVE TypeOK'
  BY <1>9 DEF TypeOK, WireDone
<1>10. ASSUME NEW o \in Owners, Grow(o) PROVE TypeOK'
  BY <1>10 DEF TypeOK, Grow
<1>11. ASSUME NEW o \in Owners, SessionEnd(o) PROVE TypeOK'
  BY <1>11 DEF TypeOK, SessionEnd
<1>12. ASSUME NEW o \in Owners, CloseOwner(o) PROVE TypeOK'
  BY <1>12 DEF TypeOK, CloseOwner, BeginClose
<1>13. ASSUME NEW o \in Owners, MonitorStop(o) PROVE TypeOK'
  BY <1>13 DEF TypeOK, MonitorStop, ShutDown
<1>14. ASSUME NEW o \in Owners, MonitorClose(o) PROVE TypeOK'
  <2>1. closed' \in [Owners -> BOOLEAN] /\ closePc' \in [Owners -> ClosePcs]
    BY <1>14 DEF TypeOK, MonitorClose, BeginClose
  <2> QED
    BY <1>14, <2>1 DEF TypeOK, MonitorClose, BeginClose
<1>15. ASSUME NEW o \in Owners, CloseSession(o) PROVE TypeOK'
  BY <1>15 DEF TypeOK, CloseSession, ShutDown
<1>16. ASSUME NEW o \in Owners, CloseWait(o) PROVE TypeOK'
  BY <1>16 DEF TypeOK, CloseWait
<1>17. ASSUME NEW o \in Owners, CloseSlot(o) PROVE TypeOK'
  BY <1>17 DEF TypeOK, CloseSlot, ServingWithout
<1>18. ASSUME NEW o \in Owners, CloseRefund(o) PROVE TypeOK'
  BY <1>18 DEF TypeOK, CloseRefund
<1>19. ASSUME NEW r \in Openers, OpenStream(r) PROVE TypeOK'
  <2>1. openPc' \in [Openers -> OpenPcs]
    BY <1>19 DEF TypeOK, OpenStream
  <2>2. wire' \in [Owners -> SUBSET Openers]
    <3>1. CASE UNCHANGED wire
      BY <3>1 DEF TypeOK
    <3>2. CASE wire' = [wire EXCEPT ![openOn[r]] = @ \cup {r}]
      BY <3>2 DEF TypeOK
    <3> QED
      BY <1>19, <3>1, <3>2 DEF OpenStream
  <2> QED
    BY <1>19, <2>1, <2>2 DEF TypeOK, OpenStream
<1>20. ASSUME NEW r \in Openers, FinishOpen(r) PROVE TypeOK'
  BY <1>20 DEF TypeOK, FinishOpen
<1>21. ASSUME NEW r \in Openers, Unpin(r) PROVE TypeOK'
  <2>1. /\ idleSince' \in [Owners -> -1..Quiet]
        /\ quietFor' \in [Owners -> 0..Quiet]
        /\ obs' \in [Owners -> Readings]
    <3>1. openOn[r] \in Tokens
      BY DEF TypeOK
    <3>2. Bump(openOn[r])
      BY <1>21 DEF Unpin
    <3> QED
      BY <3>1, <3>2, BumpType
  <2>2. openPc' \in [Openers -> OpenPcs] /\ openOn' \in [Openers -> Tokens]
    BY <1>21 DEF TypeOK, Unpin
  <2> QED
    BY <1>21, <2>1, <2>2 DEF TypeOK, Unpin, Bump
<1>22. ASSUME NEW r \in Openers, Unregister(r) PROVE TypeOK'
  <2>1. /\ idleSince' \in [Owners -> -1..Quiet]
        /\ quietFor' \in [Owners -> 0..Quiet]
        /\ obs' \in [Owners -> Readings]
    <3>1. openOn[r] \in Tokens
      BY DEF TypeOK
    <3>2. Bump(openOn[r])
      BY <1>22 DEF Unregister
    <3> QED
      BY <3>1, <3>2, BumpType
  <2>2. openPc' \in [Openers -> OpenPcs] /\ openOn' \in [Openers -> Tokens]
    BY <1>22 DEF TypeOK, Unregister
  <2>3. application' \in [Owners -> SUBSET Openers]
    BY <1>22 DEF TypeOK, Unregister
  <2> QED
    BY <1>22, <2>1, <2>2, <2>3 DEF TypeOK, Unregister, Bump
<1>23. ASSUME GroupClose PROVE TypeOK'
  BY <1>23 DEF TypeOK, GroupClose
<1>24. ASSUME Tick PROVE TypeOK'
  BY <1>24 DEF TypeOK, Tick, Older
<1>25. CASE UNCHANGED vars
  BY <1>25 DEF TypeOK, vars
<1>26. ASSUME NEW o \in Owners, ReturnGrowth(o) PROVE TypeOK'
  <2>1. /\ slotGrowth' \in [Lanes -> Int]
        /\ genGrowth' \in Int
        /\ grown' \in [Owners -> Nat]
        /\ counted' \in [Owners -> Nat]
    BY <1>26 DEF TypeOK, ReturnGrowth, RepayThenUncount, Repay, Uncount
  <2> QED
    BY <1>26, <2>1 DEF TypeOK, ReturnGrowth
<1> QED
  BY <1>1, <1>2, <1>3, <1>4, <1>5, <1>6, <1>7, <1>8, <1>9, <1>10, <1>11, <1>12, <1>13,
     <1>14, <1>15, <1>16, <1>17, <1>18, <1>19, <1>20, <1>21, <1>22, <1>23, <1>24, <1>25, <1>26
  DEF Next, Monitor, Close

(* The type invariant holds in every reachable state.                      *)
THEOREM TypeCorrect == Spec => []TypeOK
  BY TypeInit, TypeNext, PTL DEF Spec

-----------------------------------------------------------------------------
(* The inductive invariant, part by part.                                  *)

Leaving == {"refund", "done"}

(* An owner is in its slot from Acquire to the last part of Close.         *)
OwnerInv ==
    \A o \in Owners :
        /\ closed[o] <=> closePc[o] # "none"
        /\ o \in slotOwners[lane[o]] <=> state[o] # "unused" /\ closePc[o] \notin Leaving
        /\ session[o] = "open" => state[o] # "unused" /\ closePc[o] \in {"none", "session"}
        /\ obs[o] # "none" => state[o] = "replacement"
        /\ state[o] = "unused" => closePc[o] = "none" /\ monitor[o] = "none"

(* A slot exists exactly while it has owners, and its payment, made by an  *)
(* owner of the same lane, is outstanding.                                 *)
SlotInv ==
    \A l \in Lanes :
        /\ \A o \in slotOwners[l] : lane[o] = l
        /\ \A o \in slotOwners[l] : state[o] = "serving" <=> serving[l] = o
        /\ serving[l] # NoOwner => serving[l] \in slotOwners[l]
        /\ slotOwners[l] = {} <=> release[l] = NoOwner
        /\ release[l] # NoOwner =>
              release[l] \in ledger /\ lane[release[l]] = l /\ state[release[l]] # "unused"

(* A payment about to be returned is not the payment of any slot.          *)
RefundInv ==
    \A o \in Owners : refund[o] # NoOwner =>
        state[refund[o]] # "unused" /\ \A l \in Lanes : release[l] # refund[o]

(* Nobody joins a slot whose other owner has not been published.           *)
PairInv ==
    \A l \in Lanes :
        /\ IsFiniteSet(slotOwners[l]) /\ Cardinality(slotOwners[l]) <= 2
        /\ \A o \in slotOwners[l] :
              state[o] = "replacement" => slotOwners[l] \subseteq {o, pred[o]}

(* Close joins the opens of its owner before it leaves the slot.           *)
OpenInv ==
    /\ \A r \in Openers :
        /\ openPc[r] # "idle" => openOn[r] \in Owners
        /\ openPc[r] \in PinPcs \cup {"held"} =>
              state[openOn[r]] # "unused" /\ closePc[openOn[r]] \in {"none", "session", "wait"}
        /\ openPc[r] \in {"registered", "held"} => r \in application[openOn[r]]
    /\ \A o \in Owners : \A r \in application[o] :
          openOn[r] = o /\ openPc[r] \in {"registered", "held"}

(* A current reading of an owner still in its slot was taken after a full  *)
(* quiet interval.                                                         *)
QuietInv ==
    /\ \A o \in Owners : idleSince[o] <= quietFor[o]
    /\ \A x \in Owners :
          /\ expected[x] # NoOwner => state[expected[x]] # "unused"
          /\ obs[x] = "current" /\ expected[x] \in slotOwners[lane[x]] =>
                quietFor[expected[x]] >= Quiet

(* Acquire, Publish and the steps of Close keep an owner's own fields in   *)
(* step with its membership of the slot.                                   *)
LEMMA OwnerNext == TypeOK /\ OwnerInv /\ SlotInv /\ [Next]_vars => OwnerInv'
<1> SUFFICES ASSUME TypeOK, OwnerInv, SlotInv, [Next]_vars PROVE OwnerInv'
  OBVIOUS
<1> USE NoOwnerAssumption, LaneAssumption
    DEF Tokens, OwnerStates, ClosePcs, Leaving, slotVars, growthVars, closeVars, openVars,
        idleVars, handVars
<1>1. ASSUME NEW o \in Owners, NEW p \in Tokens, NEW n \in 1..2, Acquire(o, p, n) PROVE OwnerInv'
  BY <1>1 DEF TypeOK, OwnerInv, SlotInv, Acquire, SlotAdmits, Prepay
<1>2. ASSUME NEW o \in Owners, Attach(o) PROVE OwnerInv'
  BY <1>2 DEF TypeOK, OwnerInv, SlotInv, Attach
<1>3. ASSUME NEW o \in Owners, Probe(o) PROVE OwnerInv'
  BY <1>3 DEF TypeOK, OwnerInv, SlotInv, Probe, NotedObs, Outdated
<1>4. ASSUME NEW o \in Owners, PublishObserve(o) PROVE OwnerInv'
  BY <1>4 DEF TypeOK, OwnerInv, SlotInv, PublishObserve, NotedObs, Outdated, BeginClose
<1>5. ASSUME NEW o \in Owners, PublishIdle(o) PROVE OwnerInv'
  <2>1. CASE ~groupClosed /\ ~closed[o] /\ IdleStillHolds(o)
    BY <1>5, <2>1 DEF TypeOK, OwnerInv, SlotInv, PublishIdle, Switch
  <2>2. CASE ~(~groupClosed /\ ~closed[o] /\ IdleStillHolds(o))
    BY <1>5, <2>2 DEF TypeOK, OwnerInv, SlotInv, PublishIdle, BeginClose
  <2> QED
    BY <2>1, <2>2
<1>6. ASSUME NEW o \in Owners, Publish(o) PROVE OwnerInv'
  BY <1>6 DEF TypeOK, OwnerInv, SlotInv, Publish, Switch
<1>7. ASSUME NEW o \in Owners, Commit(o) PROVE OwnerInv'
  BY <1>7 DEF TypeOK, OwnerInv, SlotInv, Commit
<1>8. ASSUME NEW o \in Owners, NEW r \in Openers, BeginOpen(r, o) PROVE OwnerInv'
  BY <1>8 DEF TypeOK, OwnerInv, SlotInv, BeginOpen, Bump, Outdated
<1>9. ASSUME NEW o \in Owners, NEW r \in Openers, WireDone(o, r) PROVE OwnerInv'
  BY <1>9 DEF TypeOK, OwnerInv, SlotInv, WireDone
<1>10. ASSUME NEW o \in Owners, Grow(o) PROVE OwnerInv'
  BY <1>10 DEF TypeOK, OwnerInv, SlotInv, Grow
<1>11. ASSUME NEW o \in Owners, SessionEnd(o) PROVE OwnerInv'
  BY <1>11 DEF TypeOK, OwnerInv, SlotInv, SessionEnd
<1>12. ASSUME NEW o \in Owners, CloseOwner(o) PROVE OwnerInv'
  BY <1>12 DEF TypeOK, OwnerInv, SlotInv, CloseOwner, BeginClose
<1>13. ASSUME NEW o \in Owners, MonitorStop(o) PROVE OwnerInv'
  BY <1>13 DEF TypeOK, OwnerInv, SlotInv, MonitorStop, ShutDown
<1>14. ASSUME NEW o \in Owners, MonitorClose(o) PROVE OwnerInv'
  <2>1. CASE closed[o]
    BY <1>14, <2>1 DEF TypeOK, OwnerInv, SlotInv, MonitorClose
  <2>2. CASE ~closed[o]
    BY <1>14, <2>2 DEF TypeOK, OwnerInv, SlotInv, MonitorClose, BeginClose
  <2> QED
    BY <2>1, <2>2
<1>15. ASSUME NEW o \in Owners, CloseSession(o) PROVE OwnerInv'
  BY <1>15 DEF TypeOK, OwnerInv, SlotInv, CloseSession, ShutDown
<1>16. ASSUME NEW o \in Owners, CloseWait(o) PROVE OwnerInv'
  BY <1>16 DEF TypeOK, OwnerInv, SlotInv, CloseWait
<1>17. ASSUME NEW o \in Owners, CloseSlot(o) PROVE OwnerInv'
  BY <1>17 DEF TypeOK, OwnerInv, SlotInv, CloseSlot, ServingWithout, LeavesLast
<1>18. ASSUME NEW o \in Owners, CloseRefund(o) PROVE OwnerInv'
  BY <1>18 DEF TypeOK, OwnerInv, SlotInv, CloseRefund
<1>19. ASSUME NEW r \in Openers, OpenStream(r) PROVE OwnerInv'
  BY <1>19 DEF TypeOK, OwnerInv, SlotInv, OpenStream
<1>20. ASSUME NEW r \in Openers, FinishOpen(r) PROVE OwnerInv'
  BY <1>20 DEF TypeOK, OwnerInv, SlotInv, FinishOpen
<1>21. ASSUME NEW r \in Openers, Unpin(r) PROVE OwnerInv'
  BY <1>21 DEF TypeOK, OwnerInv, SlotInv, Unpin, Bump, Outdated
<1>22. ASSUME NEW r \in Openers, Unregister(r) PROVE OwnerInv'
  BY <1>22 DEF TypeOK, OwnerInv, SlotInv, Unregister, Bump, Outdated
<1>23. ASSUME GroupClose PROVE OwnerInv'
  BY <1>23 DEF TypeOK, OwnerInv, SlotInv, GroupClose
<1>24. ASSUME Tick PROVE OwnerInv'
  BY <1>24 DEF TypeOK, OwnerInv, SlotInv, Tick
<1>25. CASE UNCHANGED vars
  BY <1>25 DEF TypeOK, OwnerInv, SlotInv, vars
<1>26. ASSUME NEW o \in Owners, ReturnGrowth(o) PROVE OwnerInv'
  BY <1>26 DEF TypeOK, OwnerInv, SlotInv, ReturnGrowth
<1> QED
  BY <1>1, <1>2, <1>3, <1>4, <1>5, <1>6, <1>7, <1>8, <1>9, <1>10, <1>11, <1>12, <1>13,
     <1>14, <1>15, <1>16, <1>17, <1>18, <1>19, <1>20, <1>21, <1>22, <1>23, <1>24, <1>25, <1>26
  DEF Next, Monitor, Close

(* No step leaves a slot with owners and without its payment: tokens are   *)
(* fresh, and the one a Close returns belongs to a slot already gone.      *)
LEMMA SlotNext == TypeOK /\ OwnerInv /\ SlotInv /\ RefundInv /\ [Next]_vars => SlotInv'
<1> SUFFICES ASSUME TypeOK, OwnerInv, SlotInv, RefundInv, [Next]_vars PROVE SlotInv'
  OBVIOUS
<1> USE NoOwnerAssumption, LaneAssumption
    DEF Tokens, OwnerStates, ClosePcs, Leaving, slotVars, growthVars, closeVars, openVars,
        idleVars, handVars
<1>1. ASSUME NEW o \in Owners, NEW p \in Tokens, NEW n \in 1..2, Acquire(o, p, n) PROVE SlotInv'
  BY <1>1 DEF TypeOK, OwnerInv, SlotInv, RefundInv, Acquire, SlotAdmits, Prepay
<1>2. ASSUME NEW o \in Owners, Attach(o) PROVE SlotInv'
  BY <1>2 DEF TypeOK, OwnerInv, SlotInv, RefundInv, Attach
<1>3. ASSUME NEW o \in Owners, Probe(o) PROVE SlotInv'
  BY <1>3 DEF TypeOK, OwnerInv, SlotInv, RefundInv, Probe, NotedObs, Outdated
<1>4. ASSUME NEW o \in Owners, PublishObserve(o) PROVE SlotInv'
  BY <1>4 DEF TypeOK, OwnerInv, SlotInv, RefundInv, PublishObserve, NotedObs, Outdated, BeginClose
<1>5. ASSUME NEW o \in Owners, PublishIdle(o) PROVE SlotInv'
  <2>1. CASE ~groupClosed /\ ~closed[o] /\ IdleStillHolds(o)
    <3>1. Switch(o) /\ UNCHANGED <<slotOwners, release, ledger>>
      BY <1>5, <2>1 DEF PublishIdle
    <3>2. state[o] = "replacement" /\ o \in slotOwners[lane[o]]
      BY <1>5, <2>1 DEF PublishIdle, OwnerInv, TypeOK
    <3> QED
      BY <3>1, <3>2 DEF TypeOK, SlotInv, Switch
  <2>2. CASE ~(~groupClosed /\ ~closed[o] /\ IdleStillHolds(o))
    BY <1>5, <2>2 DEF TypeOK, OwnerInv, SlotInv, RefundInv, PublishIdle, BeginClose
  <2> QED
    BY <2>1, <2>2
<1>6. ASSUME NEW o \in Owners, Publish(o) PROVE SlotInv'
  BY <1>6 DEF TypeOK, OwnerInv, SlotInv, RefundInv, Publish, Switch
<1>7. ASSUME NEW o \in Owners, Commit(o) PROVE SlotInv'
  BY <1>7 DEF TypeOK, OwnerInv, SlotInv, RefundInv, Commit
<1>8. ASSUME NEW o \in Owners, NEW r \in Openers, BeginOpen(r, o) PROVE SlotInv'
  BY <1>8 DEF TypeOK, OwnerInv, SlotInv, RefundInv, BeginOpen, Bump, Outdated
<1>9. ASSUME NEW o \in Owners, NEW r \in Openers, WireDone(o, r) PROVE SlotInv'
  BY <1>9 DEF TypeOK, OwnerInv, SlotInv, RefundInv, WireDone
<1>10. ASSUME NEW o \in Owners, Grow(o) PROVE SlotInv'
  BY <1>10 DEF TypeOK, OwnerInv, SlotInv, RefundInv, Grow
<1>11. ASSUME NEW o \in Owners, SessionEnd(o) PROVE SlotInv'
  BY <1>11 DEF TypeOK, OwnerInv, SlotInv, RefundInv, SessionEnd
<1>12. ASSUME NEW o \in Owners, CloseOwner(o) PROVE SlotInv'
  BY <1>12 DEF TypeOK, OwnerInv, SlotInv, RefundInv, CloseOwner, BeginClose
<1>13. ASSUME NEW o \in Owners, MonitorStop(o) PROVE SlotInv'
  BY <1>13 DEF TypeOK, OwnerInv, SlotInv, RefundInv, MonitorStop, ShutDown
<1>14. ASSUME NEW o \in Owners, MonitorClose(o) PROVE SlotInv'
  BY <1>14 DEF TypeOK, OwnerInv, SlotInv, RefundInv, MonitorClose, BeginClose
<1>15. ASSUME NEW o \in Owners, CloseSession(o) PROVE SlotInv'
  BY <1>15 DEF TypeOK, OwnerInv, SlotInv, RefundInv, CloseSession, ShutDown
<1>16. ASSUME NEW o \in Owners, CloseWait(o) PROVE SlotInv'
  BY <1>16 DEF TypeOK, OwnerInv, SlotInv, RefundInv, CloseWait
<1>17. ASSUME NEW o \in Owners, CloseSlot(o) PROVE SlotInv'
  BY <1>17 DEF TypeOK, OwnerInv, SlotInv, RefundInv, CloseSlot, ServingWithout, LeavesLast
<1>18. ASSUME NEW o \in Owners, CloseRefund(o) PROVE SlotInv'
  BY <1>18 DEF TypeOK, OwnerInv, SlotInv, RefundInv, CloseRefund
<1>19. ASSUME NEW r \in Openers, OpenStream(r) PROVE SlotInv'
  BY <1>19 DEF TypeOK, OwnerInv, SlotInv, RefundInv, OpenStream
<1>20. ASSUME NEW r \in Openers, FinishOpen(r) PROVE SlotInv'
  BY <1>20 DEF TypeOK, OwnerInv, SlotInv, RefundInv, FinishOpen
<1>21. ASSUME NEW r \in Openers, Unpin(r) PROVE SlotInv'
  BY <1>21 DEF TypeOK, OwnerInv, SlotInv, RefundInv, Unpin, Bump, Outdated
<1>22. ASSUME NEW r \in Openers, Unregister(r) PROVE SlotInv'
  BY <1>22 DEF TypeOK, OwnerInv, SlotInv, RefundInv, Unregister, Bump, Outdated
<1>23. ASSUME GroupClose PROVE SlotInv'
  BY <1>23 DEF TypeOK, OwnerInv, SlotInv, RefundInv, GroupClose
<1>24. ASSUME Tick PROVE SlotInv'
  BY <1>24 DEF TypeOK, OwnerInv, SlotInv, RefundInv, Tick
<1>25. CASE UNCHANGED vars
  BY <1>25 DEF TypeOK, OwnerInv, SlotInv, RefundInv, vars
<1>26. ASSUME NEW o \in Owners, ReturnGrowth(o) PROVE SlotInv'
  BY <1>26 DEF TypeOK, OwnerInv, SlotInv, RefundInv, ReturnGrowth
<1> QED
  BY <1>1, <1>2, <1>3, <1>4, <1>5, <1>6, <1>7, <1>8, <1>9, <1>10, <1>11, <1>12, <1>13,
     <1>14, <1>15, <1>16, <1>17, <1>18, <1>19, <1>20, <1>21, <1>22, <1>23, <1>24, <1>25, <1>26
  DEF Next, Monitor, Close

(* A pending refund never names the payment of a slot in use.              *)
LEMMA RefundNext == TypeOK /\ SlotInv /\ RefundInv /\ [Next]_vars => RefundInv'
<1> SUFFICES ASSUME TypeOK, SlotInv, RefundInv, [Next]_vars PROVE RefundInv'
  OBVIOUS
<1> USE NoOwnerAssumption, LaneAssumption
    DEF Tokens, OwnerStates, ClosePcs, Leaving, slotVars, growthVars, closeVars, openVars,
        idleVars, handVars
<1>1. ASSUME NEW o \in Owners, NEW p \in Tokens, NEW n \in 1..2, Acquire(o, p, n) PROVE RefundInv'
  BY <1>1 DEF TypeOK, SlotInv, RefundInv, Acquire, SlotAdmits, Prepay
<1>2. ASSUME NEW o \in Owners, Attach(o) PROVE RefundInv'
  BY <1>2 DEF TypeOK, SlotInv, RefundInv, Attach
<1>3. ASSUME NEW o \in Owners, Probe(o) PROVE RefundInv'
  BY <1>3 DEF TypeOK, SlotInv, RefundInv, Probe, NotedObs, Outdated
<1>4. ASSUME NEW o \in Owners, PublishObserve(o) PROVE RefundInv'
  BY <1>4 DEF TypeOK, SlotInv, RefundInv, PublishObserve, NotedObs, Outdated, BeginClose
<1>5. ASSUME NEW o \in Owners, PublishIdle(o) PROVE RefundInv'
  <2>1. UNCHANGED <<release, refund>>
    BY <1>5 DEF PublishIdle
  <2>2. \A x \in Owners : state[x] # "unused" => state'[x] # "unused"
    BY <1>5 DEF TypeOK, PublishIdle, Switch
  <2> QED
    BY <2>1, <2>2 DEF TypeOK, RefundInv
<1>6. ASSUME NEW o \in Owners, Publish(o) PROVE RefundInv'
  BY <1>6 DEF TypeOK, SlotInv, RefundInv, Publish, Switch
<1>7. ASSUME NEW o \in Owners, Commit(o) PROVE RefundInv'
  BY <1>7 DEF TypeOK, SlotInv, RefundInv, Commit
<1>8. ASSUME NEW o \in Owners, NEW r \in Openers, BeginOpen(r, o) PROVE RefundInv'
  BY <1>8 DEF TypeOK, SlotInv, RefundInv, BeginOpen, Bump, Outdated
<1>9. ASSUME NEW o \in Owners, NEW r \in Openers, WireDone(o, r) PROVE RefundInv'
  BY <1>9 DEF TypeOK, SlotInv, RefundInv, WireDone
<1>10. ASSUME NEW o \in Owners, Grow(o) PROVE RefundInv'
  BY <1>10 DEF TypeOK, SlotInv, RefundInv, Grow
<1>11. ASSUME NEW o \in Owners, SessionEnd(o) PROVE RefundInv'
  BY <1>11 DEF TypeOK, SlotInv, RefundInv, SessionEnd
<1>12. ASSUME NEW o \in Owners, CloseOwner(o) PROVE RefundInv'
  BY <1>12 DEF TypeOK, SlotInv, RefundInv, CloseOwner, BeginClose
<1>13. ASSUME NEW o \in Owners, MonitorStop(o) PROVE RefundInv'
  BY <1>13 DEF TypeOK, SlotInv, RefundInv, MonitorStop, ShutDown
<1>14. ASSUME NEW o \in Owners, MonitorClose(o) PROVE RefundInv'
  BY <1>14 DEF TypeOK, SlotInv, RefundInv, MonitorClose, BeginClose
<1>15. ASSUME NEW o \in Owners, CloseSession(o) PROVE RefundInv'
  BY <1>15 DEF TypeOK, SlotInv, RefundInv, CloseSession, ShutDown
<1>16. ASSUME NEW o \in Owners, CloseWait(o) PROVE RefundInv'
  BY <1>16 DEF TypeOK, SlotInv, RefundInv, CloseWait
<1>17. ASSUME NEW o \in Owners, CloseSlot(o) PROVE RefundInv'
  BY <1>17 DEF TypeOK, SlotInv, RefundInv, CloseSlot, ServingWithout, LeavesLast
<1>18. ASSUME NEW o \in Owners, CloseRefund(o) PROVE RefundInv'
  BY <1>18 DEF TypeOK, SlotInv, RefundInv, CloseRefund
<1>19. ASSUME NEW r \in Openers, OpenStream(r) PROVE RefundInv'
  BY <1>19 DEF TypeOK, SlotInv, RefundInv, OpenStream
<1>20. ASSUME NEW r \in Openers, FinishOpen(r) PROVE RefundInv'
  BY <1>20 DEF TypeOK, SlotInv, RefundInv, FinishOpen
<1>21. ASSUME NEW r \in Openers, Unpin(r) PROVE RefundInv'
  BY <1>21 DEF TypeOK, SlotInv, RefundInv, Unpin, Bump, Outdated
<1>22. ASSUME NEW r \in Openers, Unregister(r) PROVE RefundInv'
  BY <1>22 DEF TypeOK, SlotInv, RefundInv, Unregister, Bump, Outdated
<1>23. ASSUME GroupClose PROVE RefundInv'
  BY <1>23 DEF TypeOK, SlotInv, RefundInv, GroupClose
<1>24. ASSUME Tick PROVE RefundInv'
  BY <1>24 DEF TypeOK, SlotInv, RefundInv, Tick
<1>25. CASE UNCHANGED vars
  BY <1>25 DEF TypeOK, SlotInv, RefundInv, vars
<1>26. ASSUME NEW o \in Owners, ReturnGrowth(o) PROVE RefundInv'
  BY <1>26 DEF TypeOK, SlotInv, RefundInv, ReturnGrowth
<1> QED
  BY <1>1, <1>2, <1>3, <1>4, <1>5, <1>6, <1>7, <1>8, <1>9, <1>10, <1>11, <1>12, <1>13,
     <1>14, <1>15, <1>16, <1>17, <1>18, <1>19, <1>20, <1>21, <1>22, <1>23, <1>24, <1>25, <1>26
  DEF Next, Monitor, Close

(* A finite set of fewer than two elements is the singleton of any of them. *)
LEMMA Singleton ==
    ASSUME NEW S, IsFiniteSet(S), Cardinality(S) < 2, NEW x \in S
    PROVE  S = {x}
<1>1. Cardinality(S \ {x}) = Cardinality(S) - 1 /\ IsFiniteSet(S \ {x})
  BY FS_RemoveElement
<1>2. Cardinality(S) \in Nat /\ Cardinality(S \ {x}) \in Nat
  BY <1>1, FS_CardinalityType
<1>3. Cardinality(S \ {x}) = 0
  BY <1>1, <1>2
<1>4. S \ {x} = {}
  BY <1>1, <1>3, FS_EmptySet
<1> QED
  BY <1>4

(* Acquire refuses a third owner, and a second one unless it replaces the  *)
(* serving or a draining owner.                                            *)
LEMMA PairNext == TypeOK /\ SlotInv /\ PairInv /\ [Next]_vars => PairInv'
<1> SUFFICES ASSUME TypeOK, SlotInv, PairInv, [Next]_vars PROVE PairInv'
  OBVIOUS
<1> USE NoOwnerAssumption, LaneAssumption
    DEF Tokens, OwnerStates, ClosePcs, Leaving, slotVars, growthVars, closeVars, openVars,
        idleVars, handVars
<1>1. ASSUME NEW o \in Owners, NEW p \in Tokens, NEW n \in 1..2, Acquire(o, p, n) PROVE PairInv'
  <2> DEFINE l == lane[o]  S == slotOwners[l]
  <2>1. S = {} \/ (S = {p} /\ p \in Owners /\ state[p] # "replacement")
    <3>1. S # {} => p \in S /\ Cardinality(S) < 2
      BY <1>1 DEF Acquire, SlotAdmits, TypeOK, SlotInv
    <3>2. p \in S => state[p] # "replacement"
      BY <1>1 DEF Acquire, SlotAdmits, TypeOK, SlotInv
    <3>3. S # {} => S = {p}
      BY <3>1, Singleton DEF PairInv, TypeOK
    <3>4. S \subseteq Owners
      BY DEF TypeOK
    <3>5. CASE S # {}
      BY <3>1, <3>2, <3>3, <3>4, <3>5
    <3>6. CASE S = {}
      BY <3>6
    <3> QED
      BY <3>5, <3>6
  <2>2. slotOwners' = [slotOwners EXCEPT ![l] = S \cup {o}] /\ pred' = [pred EXCEPT ![o] = p]
        /\ state' = [state EXCEPT ![o] = "replacement"] /\ state[o] = "unused"
    BY <1>1 DEF Acquire
  <2>3. IsFiniteSet(S \cup {o}) /\ Cardinality(S \cup {o}) <= 2
    <3>1. IsFiniteSet(S) /\ Cardinality(S) \in 0..1
      <4>1. CASE S = {}
        BY <4>1, FS_EmptySet
      <4>2. CASE S = {p}
        <5>1. IsFiniteSet({p}) /\ Cardinality({p}) = 1
          BY FS_Singleton
        <5> QED
          BY <4>2, <5>1
      <4> QED
        BY <2>1, <4>1, <4>2
    <3> QED
      BY <3>1, FS_AddElement
  <2>4. \A k \in Lanes \ {l} : o \notin slotOwners[k]
    BY DEF SlotInv, TypeOK
  <2> QED
    BY <2>1, <2>2, <2>3, <2>4 DEF PairInv, TypeOK
<1>2. ASSUME NEW o \in Owners, Attach(o) PROVE PairInv'
  BY <1>2 DEF TypeOK, PairInv, Attach
<1>3. ASSUME NEW o \in Owners, Probe(o) PROVE PairInv'
  BY <1>3 DEF TypeOK, PairInv, Probe
<1>4. ASSUME NEW o \in Owners, PublishObserve(o) PROVE PairInv'
  BY <1>4 DEF TypeOK, PairInv, PublishObserve
<1>5. ASSUME NEW o \in Owners, PublishIdle(o) PROVE PairInv'
  <2>1. CASE ~groupClosed /\ ~closed[o] /\ IdleStillHolds(o)
    <3>1. Switch(o) /\ UNCHANGED <<slotOwners, pred>>
      BY <1>5, <2>1 DEF PublishIdle, handVars
    <3>2. \A x \in Owners : state'[x] = "replacement" => state[x] = "replacement"
      BY <3>1 DEF Switch
    <3> QED
      BY <3>1, <3>2 DEF PairInv, TypeOK
  <2>2. CASE ~(~groupClosed /\ ~closed[o] /\ IdleStillHolds(o))
    BY <1>5, <2>2 DEF TypeOK, PairInv, PublishIdle, BeginClose
  <2> QED
    BY <2>1, <2>2
<1>6. ASSUME NEW o \in Owners, Publish(o) PROVE PairInv'
  BY <1>6 DEF TypeOK, PairInv, Publish, Switch
<1>7. ASSUME NEW o \in Owners, Commit(o) PROVE PairInv'
  BY <1>7 DEF TypeOK, PairInv, Commit
<1>8. ASSUME NEW o \in Owners, NEW r \in Openers, BeginOpen(r, o) PROVE PairInv'
  BY <1>8 DEF TypeOK, PairInv, BeginOpen
<1>9. ASSUME NEW o \in Owners, NEW r \in Openers, WireDone(o, r) PROVE PairInv'
  BY <1>9 DEF TypeOK, PairInv, WireDone
<1>10. ASSUME NEW o \in Owners, Grow(o) PROVE PairInv'
  BY <1>10 DEF TypeOK, PairInv, Grow
<1>11. ASSUME NEW o \in Owners, SessionEnd(o) PROVE PairInv'
  BY <1>11 DEF TypeOK, PairInv, SessionEnd
<1>12. ASSUME NEW o \in Owners, CloseOwner(o) PROVE PairInv'
  BY <1>12 DEF TypeOK, PairInv, CloseOwner
<1>13. ASSUME NEW o \in Owners, MonitorStop(o) PROVE PairInv'
  BY <1>13 DEF TypeOK, PairInv, MonitorStop
<1>14. ASSUME NEW o \in Owners, MonitorClose(o) PROVE PairInv'
  BY <1>14 DEF TypeOK, PairInv, MonitorClose
<1>15. ASSUME NEW o \in Owners, CloseSession(o) PROVE PairInv'
  BY <1>15 DEF TypeOK, PairInv, CloseSession
<1>16. ASSUME NEW o \in Owners, CloseWait(o) PROVE PairInv'
  BY <1>16 DEF TypeOK, PairInv, CloseWait
<1>17. ASSUME NEW o \in Owners, CloseSlot(o) PROVE PairInv'
  <2>1. slotOwners' = [slotOwners EXCEPT ![lane[o]] = slotOwners[lane[o]] \ {o}]
        /\ UNCHANGED <<state, pred>>
    BY <1>17 DEF CloseSlot
  <2>2. IsFiniteSet(slotOwners[lane[o]] \ {o}) /\ Cardinality(slotOwners[lane[o]] \ {o}) <= 2
    <3>1. IsFiniteSet(slotOwners[lane[o]]) /\ Cardinality(slotOwners[lane[o]]) <= 2
      BY DEF PairInv
    <3> QED
      BY <3>1, FS_Subset, FS_CardinalityType
  <2> QED
    BY <2>1, <2>2 DEF PairInv, TypeOK
<1>18. ASSUME NEW o \in Owners, CloseRefund(o) PROVE PairInv'
  BY <1>18 DEF TypeOK, PairInv, CloseRefund
<1>19. ASSUME NEW r \in Openers, OpenStream(r) PROVE PairInv'
  BY <1>19 DEF TypeOK, PairInv, OpenStream
<1>20. ASSUME NEW r \in Openers, FinishOpen(r) PROVE PairInv'
  BY <1>20 DEF TypeOK, PairInv, FinishOpen
<1>21. ASSUME NEW r \in Openers, Unpin(r) PROVE PairInv'
  BY <1>21 DEF TypeOK, PairInv, Unpin
<1>22. ASSUME NEW r \in Openers, Unregister(r) PROVE PairInv'
  BY <1>22 DEF TypeOK, PairInv, Unregister
<1>23. ASSUME GroupClose PROVE PairInv'
  BY <1>23 DEF TypeOK, PairInv, GroupClose
<1>24. ASSUME Tick PROVE PairInv'
  BY <1>24 DEF TypeOK, PairInv, Tick
<1>25. CASE UNCHANGED vars
  BY <1>25 DEF TypeOK, PairInv, vars
<1>26. ASSUME NEW o \in Owners, ReturnGrowth(o) PROVE PairInv'
  BY <1>26 DEF TypeOK, PairInv, ReturnGrowth
<1> QED
  BY <1>1, <1>2, <1>3, <1>4, <1>5, <1>6, <1>7, <1>8, <1>9, <1>10, <1>11, <1>12, <1>13,
     <1>14, <1>15, <1>16, <1>17, <1>18, <1>19, <1>20, <1>21, <1>22, <1>23, <1>24, <1>25, <1>26
  DEF Next, Monitor, Close

(* BeginOpen is fenced by Close, and Close waits for what it did not fence. *)
LEMMA OpenNext == TypeOK /\ OwnerInv /\ SlotInv /\ OpenInv /\ [Next]_vars => OpenInv'
<1> SUFFICES ASSUME TypeOK, OwnerInv, SlotInv, OpenInv, [Next]_vars PROVE OpenInv'
  OBVIOUS
<1> USE NoOwnerAssumption, LaneAssumption
    DEF Tokens, OwnerStates, ClosePcs, OpenPcs, PinPcs, slotVars, growthVars, closeVars,
        openVars, idleVars, handVars
<1>1. ASSUME NEW o \in Owners, NEW p \in Tokens, NEW n \in 1..2, Acquire(o, p, n) PROVE OpenInv'
  BY <1>1 DEF TypeOK, OwnerInv, SlotInv, OpenInv, Acquire
<1>2. ASSUME NEW o \in Owners, Attach(o) PROVE OpenInv'
  BY <1>2 DEF TypeOK, OwnerInv, SlotInv, OpenInv, Attach
<1>3. ASSUME NEW o \in Owners, Probe(o) PROVE OpenInv'
  BY <1>3 DEF TypeOK, OwnerInv, SlotInv, OpenInv, Probe
<1>4. ASSUME NEW o \in Owners, PublishObserve(o) PROVE OpenInv'
  <2> DEFINE old == serving[lane[o]]
  <2>1. CASE old = NoOwner \/ IdleObserved(old)
    BY <1>4, <2>1 DEF TypeOK, OwnerInv, SlotInv, OpenInv, PublishObserve
  <2>2. CASE ~(old = NoOwner \/ IdleObserved(old))
    <3>1. /\ UNCHANGED <<openVars, state>>
          /\ closePc' = [closePc EXCEPT ![o] = "session"]
      BY <1>4, <2>2 DEF PublishObserve, BeginClose
    <3> QED
      BY <3>1 DEF OpenInv, TypeOK
  <2> QED
    BY <2>1, <2>2
<1>5. ASSUME NEW o \in Owners, PublishIdle(o) PROVE OpenInv'
  <2>1. CASE ~groupClosed /\ ~closed[o] /\ IdleStillHolds(o)
    <3>1. Switch(o) /\ UNCHANGED <<openVars, closeVars>>
      BY <1>5, <2>1 DEF PublishIdle
    <3>2. \A q \in Owners : state[q] # "unused" => state'[q] # "unused"
      BY <3>1 DEF Switch, TypeOK
    <3> QED
      BY <3>1, <3>2 DEF OpenInv
  <2>2. CASE ~(~groupClosed /\ ~closed[o] /\ IdleStillHolds(o))
    BY <1>5, <2>2 DEF TypeOK, OwnerInv, OpenInv, PublishIdle, BeginClose
  <2> QED
    BY <2>1, <2>2
<1>6. ASSUME NEW o \in Owners, Publish(o) PROVE OpenInv'
  BY <1>6 DEF TypeOK, OwnerInv, SlotInv, OpenInv, Publish, Switch
<1>7. ASSUME NEW o \in Owners, Commit(o) PROVE OpenInv'
  BY <1>7 DEF TypeOK, OwnerInv, SlotInv, OpenInv, Commit
<1>8. ASSUME NEW o \in Owners, NEW r \in Openers, BeginOpen(r, o) PROVE OpenInv'
  BY <1>8 DEF TypeOK, OwnerInv, SlotInv, OpenInv, BeginOpen
<1>9. ASSUME NEW o \in Owners, NEW r \in Openers, WireDone(o, r) PROVE OpenInv'
  BY <1>9 DEF TypeOK, OwnerInv, SlotInv, OpenInv, WireDone
<1>10. ASSUME NEW o \in Owners, Grow(o) PROVE OpenInv'
  BY <1>10 DEF TypeOK, OwnerInv, SlotInv, OpenInv, Grow
<1>11. ASSUME NEW o \in Owners, SessionEnd(o) PROVE OpenInv'
  BY <1>11 DEF TypeOK, OwnerInv, SlotInv, OpenInv, SessionEnd
<1>12. ASSUME NEW o \in Owners, CloseOwner(o) PROVE OpenInv'
  BY <1>12 DEF TypeOK, OwnerInv, SlotInv, OpenInv, CloseOwner, BeginClose
<1>13. ASSUME NEW o \in Owners, MonitorStop(o) PROVE OpenInv'
  BY <1>13 DEF TypeOK, OwnerInv, SlotInv, OpenInv, MonitorStop, ShutDown
<1>14. ASSUME NEW o \in Owners, MonitorClose(o) PROVE OpenInv'
  <2>1. CASE closed[o]
    BY <1>14, <2>1 DEF TypeOK, OwnerInv, SlotInv, OpenInv, MonitorClose
  <2>2. CASE ~closed[o]
    <3>1. UNCHANGED <<state, application, openPc, openOn>>
      BY <1>14 DEF MonitorClose
    <3>2. closePc' = [closePc EXCEPT ![o] = "session"]
      BY <1>14, <2>2 DEF MonitorClose, BeginClose
    <3>3. \A x \in Owners : closePc[x] \in {"none", "session", "wait"} =>
            closePc'[x] \in {"none", "session", "wait"}
      BY <3>2 DEF TypeOK
    <3> QED
      BY <3>1, <3>3 DEF OpenInv, PinPcs
  <2> QED
    BY <2>1, <2>2
<1>15. ASSUME NEW o \in Owners, CloseSession(o) PROVE OpenInv'
  BY <1>15 DEF TypeOK, OwnerInv, SlotInv, OpenInv, CloseSession
<1>16. ASSUME NEW o \in Owners, CloseWait(o) PROVE OpenInv'
  BY <1>16 DEF TypeOK, OwnerInv, SlotInv, OpenInv, CloseWait, Joined, Pins
<1>17. ASSUME NEW o \in Owners, CloseSlot(o) PROVE OpenInv'
  BY <1>17 DEF TypeOK, OwnerInv, SlotInv, OpenInv, CloseSlot
<1>18. ASSUME NEW o \in Owners, CloseRefund(o) PROVE OpenInv'
  BY <1>18 DEF TypeOK, OwnerInv, SlotInv, OpenInv, CloseRefund
<1>19. ASSUME NEW r \in Openers, OpenStream(r) PROVE OpenInv'
  <2>1. openPc' = [openPc EXCEPT ![r] = "opened"] \/ openPc' = [openPc EXCEPT ![r] = "failed"]
    BY <1>19 DEF OpenStream
  <2>2. openPc[r] = "opening" /\ UNCHANGED <<openOn, application, state, closePc>>
    BY <1>19 DEF OpenStream
  <2> QED
    BY <2>1, <2>2 DEF OpenInv, TypeOK
<1>20. ASSUME NEW r \in Openers, FinishOpen(r) PROVE OpenInv'
  <2> DEFINE refused == openPc[r] = "failed" \/ closed[openOn[r]] \/ groupClosed
  <2>1. openPc[r] \in {"opened", "failed"} /\ UNCHANGED <<openOn, state, closePc>>
    BY <1>20 DEF FinishOpen
  <2>2. CASE refused
    <3>1. openPc' = [openPc EXCEPT ![r] = "unpin"] /\ application' = application
      BY <1>20, <2>2 DEF FinishOpen, TypeOK
    <3> QED
      BY <2>1, <3>1 DEF OpenInv, TypeOK, PinPcs
  <2>3. CASE ~refused
    <3>1. /\ openPc' = [openPc EXCEPT ![r] = "registered"]
          /\ application' = [application EXCEPT ![openOn[r]] = @ \cup {r}]
      BY <1>20, <2>3 DEF FinishOpen
    <3> QED
      BY <2>1, <3>1 DEF OpenInv, TypeOK, PinPcs
  <2> QED
    BY <2>2, <2>3
<1>21. ASSUME NEW r \in Openers, Unpin(r) PROVE OpenInv'
  BY <1>21 DEF TypeOK, OwnerInv, SlotInv, OpenInv, Unpin
<1>22. ASSUME NEW r \in Openers, Unregister(r) PROVE OpenInv'
  BY <1>22 DEF TypeOK, OwnerInv, SlotInv, OpenInv, Unregister
<1>23. ASSUME GroupClose PROVE OpenInv'
  BY <1>23 DEF TypeOK, OwnerInv, SlotInv, OpenInv, GroupClose
<1>24. ASSUME Tick PROVE OpenInv'
  BY <1>24 DEF TypeOK, OwnerInv, SlotInv, OpenInv, Tick
<1>25. CASE UNCHANGED vars
  BY <1>25 DEF TypeOK, OwnerInv, SlotInv, OpenInv, vars
<1>26. ASSUME NEW o \in Owners, ReturnGrowth(o) PROVE OpenInv'
  BY <1>26 DEF TypeOK, OwnerInv, SlotInv, OpenInv, ReturnGrowth
<1> QED
  BY <1>1, <1>2, <1>3, <1>4, <1>5, <1>6, <1>7, <1>8, <1>9, <1>10, <1>11, <1>12, <1>13,
     <1>14, <1>15, <1>16, <1>17, <1>18, <1>19, <1>20, <1>21, <1>22, <1>23, <1>24, <1>25, <1>26
  DEF Next, Monitor, Close

(* The serving owner is switched away from only when nothing is open on it, *)
(* and nothing can be opened on it afterwards.                             *)
LEMMA DrainNext == TypeOK /\ OwnerInv /\ SlotInv /\ PairInv /\ OpenInv /\ DrainingIsIdle /\ [Next]_vars => DrainingIsIdle'
<1> SUFFICES ASSUME TypeOK, OwnerInv, SlotInv, PairInv, OpenInv, DrainingIsIdle, [Next]_vars PROVE DrainingIsIdle'
  OBVIOUS
<1> USE NoOwnerAssumption, LaneAssumption
    DEF Tokens, OwnerStates, ClosePcs, OpenPcs, PinPcs, slotVars, growthVars, closeVars,
        openVars, idleVars, handVars
<1>1. ASSUME NEW o \in Owners, NEW p \in Tokens, NEW n \in 1..2, Acquire(o, p, n) PROVE DrainingIsIdle'
  BY <1>1 DEF TypeOK, OpenInv, DrainingIsIdle, Pins, Acquire
<1>2. ASSUME NEW o \in Owners, Attach(o) PROVE DrainingIsIdle'
  BY <1>2 DEF TypeOK, OpenInv, DrainingIsIdle, Pins, Attach
<1>3. ASSUME NEW o \in Owners, Probe(o) PROVE DrainingIsIdle'
  BY <1>3 DEF TypeOK, OpenInv, DrainingIsIdle, Pins, Probe
<1>4. ASSUME NEW o \in Owners, PublishObserve(o) PROVE DrainingIsIdle'
  BY <1>4 DEF TypeOK, OpenInv, DrainingIsIdle, Pins, PublishObserve, BeginClose
<1>5. ASSUME NEW o \in Owners, PublishIdle(o) PROVE DrainingIsIdle'
  BY <1>5 DEF TypeOK, OpenInv, DrainingIsIdle, Pins, PublishIdle, Switch, IdleStillHolds
<1>6. ASSUME NEW o \in Owners, Publish(o) PROVE DrainingIsIdle'
  <2>1. state[o] = "replacement" /\ o \in slotOwners[lane[o]]
    BY <1>6 DEF Publish, OwnerInv, Leaving, TypeOK
  <2>2. slotOwners[lane[o]] \subseteq {o, pred[o]}
    BY <2>1 DEF PairInv
  <2>3. serving[lane[o]] = NoOwner
    BY <1>6, <2>1, <2>2 DEF Publish, PredecessorServing, SlotInv, TypeOK
  <2> QED
    BY <1>6, <2>3 DEF Publish, Switch, DrainingIsIdle, Pins, TypeOK
<1>7. ASSUME NEW o \in Owners, Commit(o) PROVE DrainingIsIdle'
  BY <1>7 DEF TypeOK, OpenInv, DrainingIsIdle, Pins, Commit
<1>8. ASSUME NEW o \in Owners, NEW r \in Openers, BeginOpen(r, o) PROVE DrainingIsIdle'
  BY <1>8 DEF TypeOK, OpenInv, DrainingIsIdle, Pins, BeginOpen
<1>9. ASSUME NEW o \in Owners, NEW r \in Openers, WireDone(o, r) PROVE DrainingIsIdle'
  BY <1>9 DEF TypeOK, OpenInv, DrainingIsIdle, Pins, WireDone
<1>10. ASSUME NEW o \in Owners, Grow(o) PROVE DrainingIsIdle'
  BY <1>10 DEF TypeOK, OpenInv, DrainingIsIdle, Pins, Grow
<1>11. ASSUME NEW o \in Owners, SessionEnd(o) PROVE DrainingIsIdle'
  BY <1>11 DEF TypeOK, OpenInv, DrainingIsIdle, Pins, SessionEnd
<1>12. ASSUME NEW o \in Owners, CloseOwner(o) PROVE DrainingIsIdle'
  BY <1>12 DEF TypeOK, OpenInv, DrainingIsIdle, Pins, CloseOwner, BeginClose
<1>13. ASSUME NEW o \in Owners, MonitorStop(o) PROVE DrainingIsIdle'
  BY <1>13 DEF TypeOK, OpenInv, DrainingIsIdle, Pins, MonitorStop, ShutDown
<1>14. ASSUME NEW o \in Owners, MonitorClose(o) PROVE DrainingIsIdle'
  BY <1>14 DEF TypeOK, OpenInv, DrainingIsIdle, Pins, MonitorClose, BeginClose
<1>15. ASSUME NEW o \in Owners, CloseSession(o) PROVE DrainingIsIdle'
  BY <1>15 DEF TypeOK, OpenInv, DrainingIsIdle, Pins, CloseSession
<1>16. ASSUME NEW o \in Owners, CloseWait(o) PROVE DrainingIsIdle'
  BY <1>16 DEF TypeOK, OpenInv, DrainingIsIdle, Pins, CloseWait, Joined, Pins
<1>17. ASSUME NEW o \in Owners, CloseSlot(o) PROVE DrainingIsIdle'
  BY <1>17 DEF TypeOK, OpenInv, DrainingIsIdle, Pins, CloseSlot
<1>18. ASSUME NEW o \in Owners, CloseRefund(o) PROVE DrainingIsIdle'
  BY <1>18 DEF TypeOK, OpenInv, DrainingIsIdle, Pins, CloseRefund
<1>19. ASSUME NEW r \in Openers, OpenStream(r) PROVE DrainingIsIdle'
  BY <1>19 DEF TypeOK, OpenInv, DrainingIsIdle, Pins, OpenStream
<1>20. ASSUME NEW r \in Openers, FinishOpen(r) PROVE DrainingIsIdle'
  BY <1>20 DEF TypeOK, OpenInv, DrainingIsIdle, Pins, FinishOpen
<1>21. ASSUME NEW r \in Openers, Unpin(r) PROVE DrainingIsIdle'
  BY <1>21 DEF TypeOK, OpenInv, DrainingIsIdle, Pins, Unpin
<1>22. ASSUME NEW r \in Openers, Unregister(r) PROVE DrainingIsIdle'
  BY <1>22 DEF TypeOK, OpenInv, DrainingIsIdle, Pins, Unregister
<1>23. ASSUME GroupClose PROVE DrainingIsIdle'
  BY <1>23 DEF TypeOK, OpenInv, DrainingIsIdle, Pins, GroupClose
<1>24. ASSUME Tick PROVE DrainingIsIdle'
  BY <1>24 DEF TypeOK, OpenInv, DrainingIsIdle, Pins, Tick
<1>25. CASE UNCHANGED vars
  BY <1>25 DEF TypeOK, OpenInv, DrainingIsIdle, Pins, vars
<1>26. ASSUME NEW o \in Owners, ReturnGrowth(o) PROVE DrainingIsIdle'
  BY <1>26 DEF TypeOK, OpenInv, DrainingIsIdle, Pins, ReturnGrowth
<1> QED
  BY <1>1, <1>2, <1>3, <1>4, <1>5, <1>6, <1>7, <1>8, <1>9, <1>10, <1>11, <1>12, <1>13,
     <1>14, <1>15, <1>16, <1>17, <1>18, <1>19, <1>20, <1>21, <1>22, <1>23, <1>24, <1>25, <1>26
  DEF Next, Monitor, Close

(* Whatever touches an owner outdates the readings taken of it.            *)
LEMMA QuietNext == TypeOK /\ OwnerInv /\ SlotInv /\ OpenInv /\ QuietInv /\ [Next]_vars => QuietInv'
<1> SUFFICES ASSUME TypeOK, OwnerInv, SlotInv, OpenInv, QuietInv, [Next]_vars PROVE QuietInv'
  OBVIOUS
<1> USE NoOwnerAssumption, LaneAssumption, QuietAssumption
    DEF Tokens, OwnerStates, ClosePcs, Readings, slotVars, growthVars, closeVars,
        openVars, idleVars, handVars
<1>1. ASSUME NEW o \in Owners, NEW p \in Tokens, NEW n \in 1..2, Acquire(o, p, n) PROVE QuietInv'
  BY <1>1 DEF TypeOK, OwnerInv, SlotInv, OpenInv, QuietInv, Acquire
<1>2. ASSUME NEW o \in Owners, Attach(o) PROVE QuietInv'
  BY <1>2 DEF TypeOK, OwnerInv, SlotInv, OpenInv, QuietInv, Attach
<1>3. ASSUME NEW o \in Owners, Probe(o) PROVE QuietInv'
  BY <1>3 DEF TypeOK, OwnerInv, SlotInv, OpenInv, QuietInv, Probe, NotedObs, Outdated, NotedIdle, Age
<1>4. ASSUME NEW o \in Owners, PublishObserve(o) PROVE QuietInv'
  <2> DEFINE old == serving[lane[o]]
  <2>1. CASE old = NoOwner \/ IdleObserved(old)
    <3>1. old # NoOwner => quietFor[old] >= Quiet
      BY <2>1 DEF IdleObserved, Age, QuietInv, TypeOK
    <3>2. /\ obs' = [obs EXCEPT ![o] = "current"]
          /\ expected' = [expected EXCEPT ![o] = old]
          /\ UNCHANGED <<idleSince, quietFor, slotOwners, state>>
      BY <1>4, <2>1 DEF PublishObserve
    <3>3. old # NoOwner => old \in Owners /\ state[old] # "unused"
      BY DEF SlotInv, TypeOK
    <3> QED
      BY <3>1, <3>2, <3>3 DEF QuietInv, TypeOK
  <2>2. CASE ~(old = NoOwner \/ IdleObserved(old))
    <3>1. /\ idleSince' = NotedIdle(old) /\ obs' = NotedObs(old)
          /\ UNCHANGED <<expected, quietFor, slotOwners, state>>
      BY <1>4, <2>2 DEF PublishObserve
    <3>2. \A x \in Owners : idleSince'[x] <= quietFor[x]
      BY <2>2, <3>1 DEF QuietInv, TypeOK, NotedIdle, Age
    <3>3. \A x \in Owners : obs'[x] = "current" => obs[x] = "current"
      BY <3>1 DEF TypeOK, NotedObs, Outdated
    <3> QED
      BY <3>1, <3>2, <3>3 DEF QuietInv, TypeOK
  <2> QED
    BY <2>1, <2>2
<1>5. ASSUME NEW o \in Owners, PublishIdle(o) PROVE QuietInv'
  BY <1>5 DEF TypeOK, OwnerInv, SlotInv, OpenInv, QuietInv, PublishIdle, Switch
<1>6. ASSUME NEW o \in Owners, Publish(o) PROVE QuietInv'
  BY <1>6 DEF TypeOK, OwnerInv, SlotInv, OpenInv, QuietInv, Publish, Switch
<1>7. ASSUME NEW o \in Owners, Commit(o) PROVE QuietInv'
  BY <1>7 DEF TypeOK, OwnerInv, SlotInv, OpenInv, QuietInv, Commit
<1>8. ASSUME NEW o \in Owners, NEW r \in Openers, BeginOpen(r, o) PROVE QuietInv'
  BY <1>8 DEF TypeOK, OwnerInv, SlotInv, OpenInv, QuietInv, BeginOpen, Bump, Outdated
<1>9. ASSUME NEW o \in Owners, NEW r \in Openers, WireDone(o, r) PROVE QuietInv'
  BY <1>9 DEF TypeOK, OwnerInv, SlotInv, OpenInv, QuietInv, WireDone
<1>10. ASSUME NEW o \in Owners, Grow(o) PROVE QuietInv'
  BY <1>10 DEF TypeOK, OwnerInv, SlotInv, OpenInv, QuietInv, Grow
<1>11. ASSUME NEW o \in Owners, SessionEnd(o) PROVE QuietInv'
  BY <1>11 DEF TypeOK, OwnerInv, SlotInv, OpenInv, QuietInv, SessionEnd
<1>12. ASSUME NEW o \in Owners, CloseOwner(o) PROVE QuietInv'
  BY <1>12 DEF TypeOK, OwnerInv, SlotInv, OpenInv, QuietInv, CloseOwner, BeginClose
<1>13. ASSUME NEW o \in Owners, MonitorStop(o) PROVE QuietInv'
  BY <1>13 DEF TypeOK, OwnerInv, SlotInv, OpenInv, QuietInv, MonitorStop, ShutDown
<1>14. ASSUME NEW o \in Owners, MonitorClose(o) PROVE QuietInv'
  BY <1>14 DEF TypeOK, OwnerInv, SlotInv, OpenInv, QuietInv, MonitorClose, BeginClose
<1>15. ASSUME NEW o \in Owners, CloseSession(o) PROVE QuietInv'
  BY <1>15 DEF TypeOK, OwnerInv, SlotInv, OpenInv, QuietInv, CloseSession
<1>16. ASSUME NEW o \in Owners, CloseWait(o) PROVE QuietInv'
  BY <1>16 DEF TypeOK, OwnerInv, SlotInv, OpenInv, QuietInv, CloseWait, Joined, Pins
<1>17. ASSUME NEW o \in Owners, CloseSlot(o) PROVE QuietInv'
  BY <1>17 DEF TypeOK, OwnerInv, SlotInv, OpenInv, QuietInv, CloseSlot
<1>18. ASSUME NEW o \in Owners, CloseRefund(o) PROVE QuietInv'
  BY <1>18 DEF TypeOK, OwnerInv, SlotInv, OpenInv, QuietInv, CloseRefund
<1>19. ASSUME NEW r \in Openers, OpenStream(r) PROVE QuietInv'
  BY <1>19 DEF TypeOK, OwnerInv, SlotInv, OpenInv, QuietInv, OpenStream
<1>20. ASSUME NEW r \in Openers, FinishOpen(r) PROVE QuietInv'
  BY <1>20 DEF TypeOK, OwnerInv, SlotInv, OpenInv, QuietInv, FinishOpen
<1>21. ASSUME NEW r \in Openers, Unpin(r) PROVE QuietInv'
  BY <1>21 DEF TypeOK, OwnerInv, SlotInv, OpenInv, QuietInv, Unpin, Bump, Outdated
<1>22. ASSUME NEW r \in Openers, Unregister(r) PROVE QuietInv'
  BY <1>22 DEF TypeOK, OwnerInv, SlotInv, OpenInv, QuietInv, Unregister, Bump, Outdated
<1>23. ASSUME GroupClose PROVE QuietInv'
  BY <1>23 DEF TypeOK, OwnerInv, SlotInv, OpenInv, QuietInv, GroupClose
<1>24. ASSUME Tick PROVE QuietInv'
  BY <1>24 DEF TypeOK, OwnerInv, SlotInv, OpenInv, QuietInv, Tick, Older
<1>25. CASE UNCHANGED vars
  BY <1>25 DEF TypeOK, OwnerInv, SlotInv, OpenInv, QuietInv, vars
<1>26. ASSUME NEW o \in Owners, ReturnGrowth(o) PROVE QuietInv'
  BY <1>26 DEF TypeOK, OwnerInv, SlotInv, OpenInv, QuietInv, ReturnGrowth
<1> QED
  BY <1>1, <1>2, <1>3, <1>4, <1>5, <1>6, <1>7, <1>8, <1>9, <1>10, <1>11, <1>12, <1>13,
     <1>14, <1>15, <1>16, <1>17, <1>18, <1>19, <1>20, <1>21, <1>22, <1>23, <1>24, <1>25, <1>26
  DEF Next, Monitor, Close

-----------------------------------------------------------------------------
Inv == TypeOK /\ OwnerInv /\ SlotInv /\ RefundInv /\ PairInv /\ OpenInv
       /\ DrainingIsIdle /\ QuietInv

(* The whole invariant holds initially.                                    *)
LEMMA InvInit == Init => Inv
<1> SUFFICES ASSUME Init PROVE Inv
  OBVIOUS
<1> USE NoOwnerAssumption, LaneAssumption, QuietAssumption
<1>1. OwnerInv
  BY DEF Init, OwnerInv, Leaving
<1>2. SlotInv /\ RefundInv
  BY DEF Init, SlotInv, RefundInv
<1>3. PairInv
  BY FS_EmptySet DEF Init, PairInv
<1>4. OpenInv
  BY DEF Init, OpenInv, PinPcs
<1>5. DrainingIsIdle
  BY DEF Init, DrainingIsIdle
<1>6. QuietInv
  BY DEF Init, QuietInv
<1> QED
  BY <1>1, <1>2, <1>3, <1>4, <1>5, <1>6, TypeInit DEF Inv

(* The invariant holds in every reachable state.                           *)
THEOREM Invariance == Spec => []Inv
<1>1. Inv /\ [Next]_vars => Inv'
  BY TypeNext, OwnerNext, SlotNext, RefundNext, PairNext, OpenNext, DrainNext, QuietNext DEF Inv
<1> QED
  BY InvInit, <1>1, PTL DEF Spec

(* The baseline of a lane stays paid for as long as a session, an open or  *)
(* a readable stream of one of its owners exists, however Close, opens and *)
(* replacements of the lane interleave.                                    *)
THEOREM BaselineIsCovered == Spec => []BaselineCovered
<1>1. Inv => BaselineCovered
  <2> SUFFICES ASSUME Inv, NEW o \in Owners, Physical(o)
               PROVE  o \in slotOwners[lane[o]] /\ release[lane[o]] \in ledger
    BY DEF BaselineCovered
  <2>1. state[o] # "unused" /\ closePc[o] \in {"none", "session", "wait"}
    BY DEF Physical, Pins, PinPcs, Inv, OwnerInv, OpenInv
  <2>2. o \in slotOwners[lane[o]]
    BY <2>1 DEF Inv, OwnerInv, Leaving
  <2> QED
    BY <2>2, LaneAssumption DEF Inv, SlotInv
<1> QED
  BY <1>1, Invariance, PTL

(* A slot and its owners agree on who serves, and a lane never has a third *)
(* owner.                                                                  *)
THEOREM SlotsAreConsistent == Spec => []SlotConsistent
<1>1. Inv => SlotConsistent
  BY DEF Inv, SlotInv, PairInv, SlotConsistent
<1> QED
  BY <1>1, Invariance, PTL

(* Draining owners have nothing open and nothing handed out.               *)
THEOREM DrainingOwnersAreIdle == Spec => []DrainingIsIdle
<1>1. Inv => DrainingIsIdle
  BY DEF Inv
<1> QED
  BY <1>1, Invariance, PTL

(* A serving owner is switched away from only after a full quiet interval  *)
(* that still lasts at the switch.                                         *)
THEOREM HandoffIsIdle == Spec => IdleHandoff
<1> DEFINE Idle == \A o \in Owners : state[o] = "serving" /\ state'[o] = "draining" =>
                      quietFor[o] >= Quiet /\ Pins(o) = {} /\ application[o] = {}
<1>1. Inv /\ [Next]_vars => Idle
  <2> SUFFICES ASSUME Inv, [Next]_vars, NEW o \in Owners,
                      state[o] = "serving", state'[o] = "draining"
               PROVE  quietFor[o] >= Quiet /\ Pins(o) = {} /\ application[o] = {}
    OBVIOUS
  <2> USE NoOwnerAssumption, LaneAssumption
  <2>1. PICK x \in Owners : PublishIdle(x) \/ Publish(x)
    <3>1. ASSUME NEW x \in Owners, NEW p \in Tokens, NEW n \in 1..2, Acquire(x, p, n)
          PROVE  FALSE
      BY <3>1 DEF Acquire, Inv, TypeOK
    <3>2. ASSUME NEW x \in Owners,
                 \/ Attach(x) \/ Probe(x) \/ PublishObserve(x) \/ Commit(x)
                 \/ Grow(x) \/ SessionEnd(x) \/ CloseOwner(x) \/ ReturnGrowth(x)
          PROVE  UNCHANGED state
      BY <3>2 DEF Attach, Probe, PublishObserve, Commit, Grow, SessionEnd, CloseOwner, ReturnGrowth
    <3>3. ASSUME NEW x \in Owners, Monitor(x) \/ Close(x)
          PROVE  UNCHANGED state
      BY <3>3 DEF Monitor, Close, MonitorStop, MonitorClose, CloseSession, CloseWait, CloseSlot,
                  CloseRefund
    <3>4. ASSUME NEW x \in Owners, NEW r \in Openers, BeginOpen(r, x) \/ WireDone(x, r)
          PROVE  UNCHANGED state
      BY <3>4 DEF BeginOpen, WireDone
    <3>5. ASSUME NEW r \in Openers, OpenStream(r) \/ FinishOpen(r) \/ Unpin(r) \/ Unregister(r)
          PROVE  UNCHANGED state
      BY <3>5 DEF OpenStream, FinishOpen, Unpin, Unregister
    <3>6. ASSUME GroupClose \/ Tick \/ UNCHANGED vars
          PROVE  UNCHANGED state
      BY <3>6 DEF GroupClose, Tick, vars
    <3>7. ~UNCHANGED state
      OBVIOUS
    <3> QED
      BY <3>1, <3>2, <3>3, <3>4, <3>5, <3>6, <3>7 DEF Next
  <2>2. Switch(x) /\ x \in slotOwners[lane[x]]
    BY <2>1 DEF PublishIdle, Publish, Inv, OwnerInv, Leaving, TypeOK
  <2>3. o = serving[lane[x]] /\ o # x
    BY <2>2 DEF Switch, Inv, TypeOK
  <2>4. CASE PublishIdle(x)
    <3>1. IdleStillHolds(x)
      BY <2>4 DEF PublishIdle, Inv, TypeOK
    <3> QED
      BY <2>3, <3>1 DEF IdleStillHolds, Inv, QuietInv, SlotInv, TypeOK
  <2>5. CASE Publish(x)
    <3>1. lane[x] \in Lanes /\ o # NoOwner
      BY DEF Inv, TypeOK
    <3>2. o \in slotOwners[lane[x]]
      BY <2>3, <3>1 DEF Inv, SlotInv
    <3>3. state[x] = "replacement" /\ ~PredecessorServing(x)
      BY <2>5 DEF Publish
    <3>4. slotOwners[lane[x]] \subseteq {x, pred[x]}
      BY <2>2, <3>1, <3>3 DEF Inv, PairInv
    <3>5. o = pred[x]
      BY <2>3, <3>2, <3>4
    <3>6. PredecessorServing(x)
      BY <3>1, <3>5 DEF PredecessorServing
    <3> QED
      BY <3>3, <3>6
  <2> QED
    BY <2>1, <2>4, <2>5
<1>2. Spec => [][Idle]_vars
  BY <1>1, Invariance, PTL DEF Spec
<1> QED
  BY <1>2 DEF IdleHandoff

-----------------------------------------------------------------------------
(* What the return of growth relies on: streams are only on owners that    *)
(* were published, growth belongs to a session, and the slabs are gone     *)
(* where the monitor or Close is about to return it, and stay gone.        *)
GrowthInv ==
    /\ \A r \in Openers : openPc[r] \in PinPcs \cup {"held"} =>
          state[openOn[r]] \in {"serving", "draining"}
    /\ \A o \in Owners :
          /\ grown[o] > 0 \/ monitor[o] \in {"watch", "growth"} => session[o] # "none"
          /\ monitor[o] = "growth" \/ closePc[o] \in {"wait", "slot"} =>
                session[o] # "open" /\ wire[o] = {}

(* Every action keeps it.                                                  *)
LEMMA GrowthNext == Inv /\ GrowthInv /\ [Next]_vars => GrowthInv'
<1> SUFFICES ASSUME Inv, GrowthInv, [Next]_vars PROVE GrowthInv'
  OBVIOUS
<1> USE NoOwnerAssumption, LaneAssumption DEF Inv, GrowthInv
<1>0. TypeOK /\ OwnerInv /\ OpenInv
  OBVIOUS
<1>1. ASSUME NEW o \in Owners, NEW p \in Tokens, NEW n \in 1..2, Acquire(o, p, n) PROVE GrowthInv'
  BY <1>0, <1>1 DEF Acquire, growthVars, openVars, closeVars, TypeOK, OpenInv, Tokens
<1>2. ASSUME NEW o \in Owners, Attach(o) PROVE GrowthInv'
  BY <1>0, <1>2 DEF Attach, growthVars, openVars, closeVars, handVars, TypeOK, OwnerInv
<1>3. ASSUME NEW o \in Owners, Probe(o) PROVE GrowthInv'
  BY <1>0, <1>3 DEF Probe, growthVars, openVars, closeVars, handVars
<1>4. ASSUME NEW o \in Owners, PublishObserve(o) PROVE GrowthInv'
  <2>1. UNCHANGED <<growthVars, openVars, state, session, handVars>>
    BY <1>4 DEF PublishObserve
  <2>2. \A x \in Owners : closePc'[x] \in {"wait", "slot"} => closePc[x] \in {"wait", "slot"}
    BY <1>0, <1>4 DEF PublishObserve, BeginClose, closeVars, TypeOK
  <2> QED
    BY <2>1, <2>2 DEF growthVars, openVars, handVars
<1>5. ASSUME NEW o \in Owners, PublishIdle(o) \/ Publish(o) PROVE GrowthInv'
  <2>1. UNCHANGED <<growthVars, openVars, session, handVars>>
    BY <1>5 DEF PublishIdle, Publish
  <2>2. \A x \in Owners : closePc'[x] \in {"wait", "slot"} => closePc[x] \in {"wait", "slot"}
    BY <1>0, <1>5 DEF PublishIdle, Publish, BeginClose, closeVars, TypeOK
  <2>3. \A x \in Owners :
          state[x] \in {"serving", "draining"} => state'[x] \in {"serving", "draining"}
    BY <1>0, <1>5 DEF PublishIdle, Publish, Switch, TypeOK
  <2> QED
    BY <1>0, <2>1, <2>2, <2>3 DEF growthVars, openVars, handVars, OpenInv, PinPcs
<1>6. ASSUME NEW o \in Owners, Commit(o) PROVE GrowthInv'
  BY <1>0, <1>6 DEF Commit, growthVars, openVars, closeVars, TypeOK
<1>7. ASSUME NEW o \in Owners, NEW r \in Openers, BeginOpen(r, o) PROVE GrowthInv'
  BY <1>0, <1>7 DEF BeginOpen, growthVars, closeVars, handVars, TypeOK
<1>8. ASSUME NEW o \in Owners, NEW r \in Openers, WireDone(o, r) PROVE GrowthInv'
  BY <1>0, <1>8 DEF WireDone, growthVars, closeVars, handVars, TypeOK
<1>9. ASSUME NEW o \in Owners, Grow(o) PROVE GrowthInv'
  BY <1>0, <1>9 DEF Grow, openVars, closeVars, handVars, TypeOK
<1>10. ASSUME NEW o \in Owners, SessionEnd(o) PROVE GrowthInv'
  BY <1>0, <1>10 DEF SessionEnd, growthVars, openVars, closeVars, handVars, TypeOK
<1>11. ASSUME NEW o \in Owners, CloseOwner(o) PROVE GrowthInv'
  BY <1>0, <1>11 DEF CloseOwner, BeginClose, growthVars, openVars, handVars, TypeOK
<1>12. ASSUME NEW o \in Owners, MonitorStop(o) PROVE GrowthInv'
  BY <1>0, <1>12 DEF MonitorStop, ShutDown, growthVars, closeVars, TypeOK
<1>13. ASSUME NEW o \in Owners, MonitorClose(o) PROVE GrowthInv'
  <2>1. UNCHANGED <<growthVars, openVars, state, session>>
    BY <1>13 DEF MonitorClose
  <2>2. \A x \in Owners : closePc'[x] \in {"wait", "slot"} => closePc[x] \in {"wait", "slot"}
    BY <1>0, <1>13 DEF MonitorClose, BeginClose, closeVars, TypeOK
  <2>3. \A x \in Owners : monitor'[x] = "done" \/ monitor'[x] = monitor[x]
    BY <1>0, <1>13 DEF MonitorClose, TypeOK
  <2> QED
    BY <2>1, <2>2, <2>3 DEF openVars, growthVars
<1>14. ASSUME NEW o \in Owners, CloseSession(o) PROVE GrowthInv'
  BY <1>0, <1>14 DEF CloseSession, ShutDown, growthVars, handVars, TypeOK
<1>15. ASSUME NEW o \in Owners, CloseWait(o) PROVE GrowthInv'
  BY <1>0, <1>15 DEF CloseWait, growthVars, handVars, TypeOK, PinPcs
<1>16. ASSUME NEW o \in Owners, CloseSlot(o) \/ CloseRefund(o) PROVE GrowthInv'
  BY <1>0, <1>16 DEF CloseSlot, CloseRefund, growthVars, openVars, handVars, TypeOK
<1>17. ASSUME NEW r \in Openers, OpenStream(r) PROVE GrowthInv'
  BY <1>0, <1>17 DEF OpenStream, growthVars, closeVars, handVars, TypeOK, PinPcs
<1>18. ASSUME NEW r \in Openers, FinishOpen(r) PROVE GrowthInv'
  BY <1>0, <1>18 DEF FinishOpen, growthVars, closeVars, handVars, TypeOK, PinPcs
<1>19. ASSUME NEW r \in Openers, Unpin(r) PROVE GrowthInv'
  BY <1>0, <1>19 DEF Unpin, growthVars, closeVars, handVars, TypeOK, PinPcs
<1>20. ASSUME NEW r \in Openers, Unregister(r) PROVE GrowthInv'
  BY <1>0, <1>20 DEF Unregister, growthVars, closeVars, handVars, TypeOK, PinPcs
<1>21. ASSUME GroupClose \/ Tick \/ UNCHANGED vars PROVE GrowthInv'
  BY <1>21 DEF GroupClose, Tick, vars, growthVars, openVars, closeVars, handVars
<1>22. ASSUME NEW o \in Owners, ReturnGrowth(o) PROVE GrowthInv'
  <2>1. UNCHANGED <<openVars, closeVars, handVars, state, session>>
    BY <1>22 DEF ReturnGrowth
  <2>2. \A x \in Owners : grown'[x] > 0 => grown[x] > 0
    BY <1>0, <1>22 DEF ReturnGrowth, RepayThenUncount, Repay, Uncount, TypeOK
  <2> QED
    BY <2>1, <2>2 DEF openVars, closeVars, handVars
<1> QED
  BY <1>1, <1>2, <1>3, <1>4, <1>5, <1>6, <1>7, <1>8, <1>9, <1>10, <1>11, <1>12, <1>13, <1>14,
     <1>15, <1>16, <1>17, <1>18, <1>19, <1>20, <1>21, <1>22 DEF Next, Monitor, Close

(* Growth goes back only after the session's slabs are cleared, whichever  *)
(* of the monitor and Close returns it, and only a serving owner that is   *)
(* not being closed takes more (AggregateReceiveWindowGrowth).             *)
THEOREM GrowthIsDisciplined == Spec => GrowthDiscipline
<1> DEFINE Disciplined ==
             \A o \in Owners :
                /\ grown'[o] < grown[o] => session[o] = "closed" /\ wire[o] = {}
                /\ grown'[o] > grown[o] => state[o] = "serving" /\ ~closed[o]
<1>1. Init => GrowthInv
  BY DEF Init, GrowthInv, PinPcs
<1>2. Inv /\ GrowthInv /\ [Next]_vars => Disciplined
  <2> SUFFICES ASSUME Inv, GrowthInv, [Next]_vars, NEW o \in Owners
               PROVE  /\ grown'[o] < grown[o] => session[o] = "closed" /\ wire[o] = {}
                      /\ grown'[o] > grown[o] => state[o] = "serving" /\ ~closed[o]
    OBVIOUS
  <2>0. TypeOK /\ OwnerInv /\ OpenInv
    BY DEF Inv
  <2>1. ASSUME NEW x \in Owners, Grow(x)
        PROVE  grown'[o] = grown[o] \/ (o = x /\ grown'[o] = grown[o] + 1)
    BY <2>0, <2>1 DEF Grow, TypeOK
  <2>2. ASSUME NEW x \in Owners, Grow(x) PROVE state[x] = "serving" /\ ~closed[x]
    <3>1. PICK r \in Openers : r \in application[x] /\ openPc[r] = "held"
      BY <2>0, <2>2 DEF Grow, TypeOK
    <3>2. openOn[r] = x
      BY <2>0, <3>1 DEF OpenInv
    <3>3. state[x] \in {"serving", "draining"}
      BY <3>1, <3>2 DEF GrowthInv
    <3>4. state[x] # "draining" /\ ~closed[x]
      BY <2>2 DEF Grow, GrowthAllowed
    <3> QED
      BY <3>3, <3>4
  <2>3. CASE \E x \in Owners : Grow(x)
    BY <2>0, <2>1, <2>2, <2>3 DEF TypeOK
  <2>4. ASSUME NEW x \in Owners, ReturnGrowth(x)
        PROVE  grown'[o] = grown[o] \/ (o = x /\ grown[x] > 0 /\ grown'[o] < grown[o])
    BY <2>0, <2>4 DEF ReturnGrowth, RepayThenUncount, Repay, Uncount, TypeOK
  <2>5. ASSUME NEW x \in Owners, ReturnGrowth(x), grown[x] > 0
        PROVE  session[x] = "closed" /\ wire[x] = {}
    BY <2>0, <2>5 DEF ReturnGrowth, Releasing, GrowthInv, TypeOK
  <2>6. CASE \E x \in Owners : ReturnGrowth(x)
    <3>1. PICK x \in Owners : ReturnGrowth(x)
      BY <2>6
    <3>2. CASE grown'[o] = grown[o]
      BY <2>0, <3>2 DEF TypeOK
    <3>3. CASE o = x /\ grown[x] > 0 /\ grown'[o] < grown[o]
      <4>1. session[o] = "closed" /\ wire[o] = {}
        BY <2>5, <3>1, <3>3
      <4>2. grown[o] \in Int /\ grown'[o] \in Int
        BY <2>0, <3>1 DEF ReturnGrowth, RepayThenUncount, Repay, Uncount, TypeOK
      <4>3. ~(grown'[o] > grown[o])
        BY <3>3, <4>2
      <4> QED
        BY <4>1, <4>3
    <3> QED
      BY <2>4, <3>1, <3>2, <3>3
  <2>7. ASSUME NEW x \in Owners, NEW p \in Tokens, NEW n \in 1..2, Acquire(x, p, n)
        PROVE  UNCHANGED grown
    BY <2>7 DEF Acquire, growthVars
  <2>8. ASSUME NEW x \in Owners,
               \/ Attach(x) \/ Probe(x) \/ PublishObserve(x) \/ PublishIdle(x) \/ Publish(x)
               \/ Commit(x) \/ SessionEnd(x) \/ CloseOwner(x) \/ MonitorStop(x)
               \/ MonitorClose(x) \/ CloseSession(x) \/ CloseWait(x) \/ CloseSlot(x)
               \/ CloseRefund(x)
        PROVE  UNCHANGED grown
    BY <2>8 DEF Attach, Probe, PublishObserve, PublishIdle, Publish, Commit, SessionEnd,
                CloseOwner, MonitorStop, MonitorClose, CloseSession, CloseWait, CloseSlot,
                CloseRefund, growthVars
  <2>9. ASSUME NEW x \in Owners, NEW r \in Openers, BeginOpen(r, x) \/ WireDone(x, r)
        PROVE  UNCHANGED grown
    BY <2>9 DEF BeginOpen, WireDone, growthVars
  <2>10. ASSUME NEW r \in Openers, OpenStream(r) \/ FinishOpen(r) \/ Unpin(r) \/ Unregister(r)
         PROVE  UNCHANGED grown
    BY <2>10 DEF OpenStream, FinishOpen, Unpin, Unregister, growthVars
  <2>11. ASSUME GroupClose \/ Tick \/ UNCHANGED vars PROVE UNCHANGED grown
    BY <2>11 DEF GroupClose, Tick, vars, growthVars
  <2>12. CASE UNCHANGED grown
    BY <2>0, <2>12 DEF TypeOK
  <2> QED
    BY <2>3, <2>6, <2>7, <2>8, <2>9, <2>10, <2>11, <2>12 DEF Next, Monitor, Close
<1>3. Spec => [][Disciplined]_vars
  BY <1>1, <1>2, GrowthNext, Invariance, PTL DEF Spec
<1> QED
  BY <1>3 DEF GrowthDiscipline

-----------------------------------------------------------------------------
(* A unit is a pair of an owner and a number up to the owner's share.      *)
LEMMA UnitsOf ==
  ASSUME NEW f \in [Owners -> Nat], NEW S \in SUBSET Owners
  PROVE  \A u : u \in Units(f, S) <=> \E o \in S : \E i \in 1..f[o] : u = <<o, i>>
BY DEF Units

OneMore(f, g, x) == g = [f EXCEPT ![x] = @ + 1]

(* One more in an owner's share is one more unit in every set of owners    *)
(* with it: read forwards for a reservation, backwards for its return.     *)
LEMMA OneMoreUnit ==
  ASSUME NEW f \in [Owners -> Nat], NEW g \in [Owners -> Nat], NEW x \in Owners,
         OneMore(f, g, x), NEW S \in SUBSET Owners,
         IsFiniteSet(Units(f, S)) \/ IsFiniteSet(Units(g, S))
  PROVE  /\ IsFiniteSet(Units(f, S)) /\ IsFiniteSet(Units(g, S))
         /\ Cardinality(Units(g, S)) = Cardinality(Units(f, S)) + (IF x \in S THEN 1 ELSE 0)
<1>0. \A o \in S : g[o] = IF o = x THEN f[o] + 1 ELSE f[o]
  BY DEF OneMore
<1>1. CASE x \in S
  <2> DEFINE u == <<x, f[x] + 1>>
  <2>1. u \notin Units(f, S)
    BY <1>0, <1>1, UnitsOf
  <2>2. Units(g, S) = Units(f, S) \cup {u}
    <3>1. ASSUME NEW v \in Units(g, S) PROVE v \in Units(f, S) \cup {u}
      <4>0. PICK o \in S : \E i \in 1..g[o] : v = <<o, i>>
        BY DEF Units
      <4>1. PICK i \in 1..g[o] : v = <<o, i>>
        BY <4>0
      <4>2. CASE o = x /\ i = f[x] + 1
        BY <4>1, <4>2
      <4>3. CASE ~(o = x /\ i = f[x] + 1)
        <5>1. i \in 1..f[o]
          BY <1>0, <4>1, <4>3
        <5> QED
          BY <4>1, <5>1, UnitsOf
      <4> QED
        BY <4>2, <4>3
    <3>2. ASSUME NEW v \in Units(f, S) PROVE v \in Units(g, S)
      <4>0. PICK o \in S : \E i \in 1..f[o] : v = <<o, i>>
        BY UnitsOf
      <4>1. PICK i \in 1..f[o] : v = <<o, i>>
        BY <4>0
      <4>2. i \in 1..g[o]
        BY <1>0, <4>1
      <4> QED
        BY <4>1, <4>2, UnitsOf
    <3>3. u \in Units(g, S)
      <4>1. f[x] + 1 \in 1..g[x]
        BY <1>0, <1>1
      <4> QED
        BY <1>1, <4>1, UnitsOf
    <3> HIDE DEF u
    <3> QED
      BY <3>1, <3>2, <3>3
  <2> HIDE DEF u
  <2>3. IsFiniteSet(Units(f, S))
    BY <2>2, FS_Subset
  <2>4. /\ IsFiniteSet(Units(f, S) \cup {u})
        /\ Cardinality(Units(f, S) \cup {u}) = Cardinality(Units(f, S)) + 1
    BY <2>1, <2>3, FS_AddElement
  <2> QED
    BY <1>1, <2>2, <2>3, <2>4
<1>2. CASE x \notin S
  <2>1. \A o \in S : g[o] = f[o]
    BY <1>0, <1>2
  <2>2. Units(g, S) = Units(f, S)
    BY <2>1 DEF Units
  <2>3. Cardinality(Units(f, S)) \in Nat
    BY <2>2, FS_CardinalityType
  <2> QED
    BY <1>2, <2>2, <2>3
<1> QED
  BY <1>1, <1>2

(* What makes the balance inductive: the counters are exactly the shares,  *)
(* a share is ahead of the ledger by at most the lease being returned, and *)
(* only an acquired owner that has not left its slot has one, so that the  *)
(* owner that takes the slot away leaves nothing in it.                    *)
BalanceInv ==
    /\ IsFiniteSet(Units(counted, Owners))
    /\ \A o \in Owners :
        /\ counted[o] = grown[o] \/ counted[o] = grown[o] + 1
        /\ counted[o] > 0 => state[o] # "unused" /\ closePc[o] \notin Leaving
    /\ genGrowth = Cardinality(Units(counted, Owners))
    /\ genGrowth <= GenerationGrowthLimit
    /\ \A l \in Lanes :
        /\ slotGrowth[l] = Cardinality(Units(counted, OnLane(l)))
        /\ slotGrowth[l] <= LaneGrowthLimit

(* Only Grow and ReturnGrowth change the growth; no action takes an owner  *)
(* back before its Acquire, and only CloseSlot past its slot.              *)
LEMMA GrowthSteps ==
  ASSUME Inv, [Next]_vars
  PROVE  /\ \/ \E x \in Owners : Grow(x)
            \/ \E x \in Owners : ReturnGrowth(x)
            \/ UNCHANGED growthVars
         /\ \A o \in Owners : state[o] # "unused" => state'[o] # "unused"
         /\ \A o \in Owners : closePc[o] \notin Leaving =>
               closePc'[o] \notin Leaving \/ CloseSlot(o)
<1> DEFINE Frame == /\ \A o \in Owners : state[o] # "unused" => state'[o] # "unused"
                    /\ \A o \in Owners : closePc[o] \notin Leaving =>
                          closePc'[o] \notin Leaving \/ CloseSlot(o)
<1> USE DEF Leaving
<1>0. TypeOK
  BY DEF Inv
<1>1. ASSUME NEW x \in Owners, NEW p \in Tokens, NEW n \in 1..2, Acquire(x, p, n)
      PROVE  UNCHANGED growthVars /\ Frame
  BY <1>0, <1>1 DEF Acquire, closeVars, TypeOK
<1>2. ASSUME NEW x \in Owners,
             Attach(x) \/ Probe(x) \/ Commit(x) \/ SessionEnd(x) \/ MonitorStop(x) \/ CloseRefund(x)
      PROVE  UNCHANGED growthVars /\ Frame
  BY <1>0, <1>2 DEF Attach, Probe, Commit, SessionEnd, MonitorStop, CloseRefund, closeVars, TypeOK
<1>3. ASSUME NEW x \in Owners, PublishObserve(x) \/ PublishIdle(x) \/ Publish(x) \/ CloseOwner(x)
      PROVE  UNCHANGED growthVars /\ Frame
  BY <1>0, <1>3 DEF PublishObserve, PublishIdle, Publish, CloseOwner, BeginClose, Switch,
                    closeVars, TypeOK
<1>4. ASSUME NEW x \in Owners, CloseSession(x) \/ CloseWait(x)
      PROVE  UNCHANGED growthVars /\ Frame
  BY <1>0, <1>4 DEF CloseSession, CloseWait, TypeOK
<1>5. ASSUME NEW x \in Owners, CloseSlot(x) PROVE UNCHANGED growthVars /\ Frame
  <2>1. UNCHANGED <<growthVars, state>>
    BY <1>5 DEF CloseSlot
  <2>2. \A o \in Owners : o # x => closePc'[o] = closePc[o]
    BY <1>0, <1>5 DEF CloseSlot, TypeOK
  <2> QED
    BY <1>5, <2>1, <2>2
<1>6. ASSUME NEW x \in Owners, MonitorClose(x) PROVE UNCHANGED growthVars /\ Frame
  BY <1>0, <1>6 DEF MonitorClose, BeginClose, closeVars, TypeOK
<1>7. ASSUME NEW x \in Owners, NEW r \in Openers, BeginOpen(r, x) \/ WireDone(x, r)
      PROVE  UNCHANGED growthVars /\ Frame
  BY <1>7 DEF BeginOpen, WireDone, closeVars
<1>8. ASSUME NEW r \in Openers, OpenStream(r) \/ FinishOpen(r) \/ Unpin(r) \/ Unregister(r)
      PROVE  UNCHANGED growthVars /\ Frame
  BY <1>8 DEF OpenStream, FinishOpen, Unpin, Unregister, closeVars
<1>9. ASSUME GroupClose \/ Tick \/ UNCHANGED vars PROVE UNCHANGED growthVars /\ Frame
  BY <1>9 DEF GroupClose, Tick, vars, closeVars
<1>10. ASSUME NEW x \in Owners, Grow(x) \/ ReturnGrowth(x) PROVE Frame
  BY <1>10 DEF Grow, ReturnGrowth, closeVars
<1> HIDE DEF Frame
<1>11. Frame
  BY <1>1, <1>2, <1>3, <1>4, <1>5, <1>6, <1>7, <1>8, <1>9, <1>10 DEF Next, Monitor, Close
<1> QED
  BY <1>1, <1>2, <1>3, <1>4, <1>5, <1>6, <1>7, <1>8, <1>9, <1>11 DEF Next, Monitor, Close, Frame

(* Every action keeps the balance.                                         *)
LEMMA BalanceNext == Inv /\ BalanceInv /\ [Next]_vars => BalanceInv'
<1> SUFFICES ASSUME Inv, BalanceInv, [Next]_vars PROVE BalanceInv'
  OBVIOUS
<1>0. TypeOK /\ OwnerInv /\ counted' \in [Owners -> Nat] /\ counted \in [Owners -> Nat]
  BY TypeNext DEF Inv, TypeOK
<1>a. \A l \in Lanes : OnLane(l) \in SUBSET Owners /\ OnLane(l)' = OnLane(l)
  BY DEF OnLane
<1>b. \A S \in SUBSET Owners : IsFiniteSet(Units(counted, S))
  <2> SUFFICES ASSUME NEW S \in SUBSET Owners PROVE IsFiniteSet(Units(counted, S))
    OBVIOUS
  <2>1. Units(counted, S) \subseteq Units(counted, Owners)
    BY DEF Units
  <2> QED
    BY <2>1, FS_Subset DEF BalanceInv
<1>c. /\ Units(counted, Owners)' = Units(counted', Owners)
      /\ \A l \in Lanes : Units(counted, OnLane(l))' = Units(counted', OnLane(l))
  BY <1>a DEF Units
<1>d. \A l \in Lanes : \A x \in Owners : x \in OnLane(l) <=> l = lane[x]
  BY DEF OnLane
<1>e. /\ genGrowth \in Int /\ genGrowth = Cardinality(Units(counted, Owners))
      /\ genGrowth <= GenerationGrowthLimit
      /\ \A l \in Lanes : /\ slotGrowth[l] \in Int
                          /\ slotGrowth[l] = Cardinality(Units(counted, OnLane(l)))
                          /\ slotGrowth[l] <= LaneGrowthLimit
  BY <1>0 DEF BalanceInv, TypeOK
<1>1. ASSUME NEW x \in Owners, Grow(x) PROVE BalanceInv'
  <2>1. /\ counted' = [counted EXCEPT ![x] = @ + 1]
        /\ grown' = [grown EXCEPT ![x] = @ + 1]
        /\ GrowthAllowed(x)
        /\ slotGrowth' = [slotGrowth EXCEPT ![lane[x]] = @ + 1]
        /\ genGrowth' = genGrowth + 1
        /\ session[x] = "open"
        /\ UNCHANGED <<state, closePc>>
    BY <1>1 DEF Grow, closeVars
  <2>2. \A S \in SUBSET Owners :
          /\ IsFiniteSet(Units(counted', S))
          /\ Cardinality(Units(counted', S)) =
                Cardinality(Units(counted, S)) + (IF x \in S THEN 1 ELSE 0)
    <3> SUFFICES ASSUME NEW S \in SUBSET Owners
                 PROVE  /\ IsFiniteSet(Units(counted', S))
                        /\ Cardinality(Units(counted', S)) =
                              Cardinality(Units(counted, S)) + (IF x \in S THEN 1 ELSE 0)
      OBVIOUS
    <3>1. IsFiniteSet(Units(counted, S))
      BY <1>b
    <3>2. OneMore(counted, counted', x)
      BY <2>1 DEF OneMore
    <3> QED
      BY <1>0, <3>1, <3>2, OneMoreUnit
  <2>3. IsFiniteSet(Units(counted', Owners)) /\ genGrowth' = Cardinality(Units(counted', Owners))
    BY <1>e, <2>1, <2>2
  <2>4. genGrowth' <= GenerationGrowthLimit
    BY <1>e, <2>1, GrowthAssumption DEF GrowthAllowed
  <2>5. \A o \in Owners :
          /\ counted'[o] = grown'[o] \/ counted'[o] = grown'[o] + 1
          /\ counted'[o] > 0 => state'[o] # "unused" /\ closePc'[o] \notin Leaving
    BY <1>0, <2>1 DEF BalanceInv, OwnerInv, TypeOK, Leaving
  <2>6. ASSUME NEW l \in Lanes
        PROVE  /\ slotGrowth'[l] = Cardinality(Units(counted', OnLane(l)))
               /\ slotGrowth'[l] <= LaneGrowthLimit
    <3>1. Cardinality(Units(counted', OnLane(l))) =
            Cardinality(Units(counted, OnLane(l))) + (IF l = lane[x] THEN 1 ELSE 0)
      BY <1>a, <1>d, <2>2
    <3>2. slotGrowth'[l] = IF l = lane[x] THEN slotGrowth[l] + 1 ELSE slotGrowth[l]
      BY <1>0, <2>1 DEF TypeOK
    <3> QED
      BY <1>e, <2>1, <3>1, <3>2, GrowthAssumption DEF GrowthAllowed
  <2> QED
    BY <1>a, <1>c, <2>3, <2>4, <2>5, <2>6 DEF BalanceInv
<1>2. ASSUME NEW x \in Owners, ReturnGrowth(x), grown[x] > 0, counted[x] = grown[x], Repay(x)
      PROVE  BalanceInv'
  <2>1. /\ UNCHANGED <<counted, slotGrowth, genGrowth, state, closePc>>
        /\ grown' = [grown EXCEPT ![x] = @ - 1]
    BY <1>2 DEF ReturnGrowth, Repay, closeVars
  <2>2. \A o \in Owners : counted'[o] = grown'[o] \/ counted'[o] = grown'[o] + 1
    BY <1>0, <1>2, <2>1 DEF BalanceInv, TypeOK
  <2> QED
    BY <1>a, <1>c, <2>1, <2>2 DEF BalanceInv
<1>3. ASSUME NEW x \in Owners, ReturnGrowth(x), counted[x] > grown[x], Uncount(x)
      PROVE  BalanceInv'
  <2>1. /\ UNCHANGED <<grown, state, closePc>>
        /\ counted' = [counted EXCEPT ![x] = @ - 1]
        /\ slotGrowth' = [slotGrowth EXCEPT ![lane[x]] = @ - 1]
        /\ genGrowth' = genGrowth - 1
    BY <1>3 DEF ReturnGrowth, Uncount, closeVars
  <2>2. counted = [counted' EXCEPT ![x] = @ + 1]
    <3>1. \A o \in Owners : counted[o] = IF o = x THEN counted'[o] + 1 ELSE counted'[o]
      BY <1>0, <2>1
    <3> QED
      BY <1>0, <3>1
  <2>3. \A S \in SUBSET Owners :
          /\ IsFiniteSet(Units(counted', S))
          /\ Cardinality(Units(counted, S)) =
                Cardinality(Units(counted', S)) + (IF x \in S THEN 1 ELSE 0)
    <3> SUFFICES ASSUME NEW S \in SUBSET Owners
                 PROVE  /\ IsFiniteSet(Units(counted', S))
                        /\ Cardinality(Units(counted, S)) =
                              Cardinality(Units(counted', S)) + (IF x \in S THEN 1 ELSE 0)
      OBVIOUS
    <3>1. IsFiniteSet(Units(counted, S))
      BY <1>b
    <3>2. OneMore(counted', counted, x)
      BY <2>2 DEF OneMore
    <3> QED
      BY <1>0, <3>1, <3>2, OneMoreUnit
  <2>4. \A S \in SUBSET Owners : Cardinality(Units(counted', S)) \in Nat
    BY <2>3, FS_CardinalityType
  <2>5. /\ IsFiniteSet(Units(counted', Owners)) /\ genGrowth' = Cardinality(Units(counted', Owners))
        /\ genGrowth' <= GenerationGrowthLimit
    <3>1. /\ IsFiniteSet(Units(counted', Owners)) /\ Cardinality(Units(counted', Owners)) \in Nat
          /\ Cardinality(Units(counted, Owners)) = Cardinality(Units(counted', Owners)) + 1
      BY <2>3, <2>4
    <3> QED
      BY <1>e, <2>1, <3>1, GrowthAssumption
  <2>6. \A o \in Owners :
          /\ counted'[o] = grown'[o] \/ counted'[o] = grown'[o] + 1
          /\ counted'[o] > 0 => state'[o] # "unused" /\ closePc'[o] \notin Leaving
    <3>1. grown \in [Owners -> Nat]
      BY <1>0 DEF TypeOK
    <3> QED
      BY <1>0, <1>3, <2>1, <3>1 DEF BalanceInv, TypeOK
  <2>7. ASSUME NEW l \in Lanes
        PROVE  /\ slotGrowth'[l] = Cardinality(Units(counted', OnLane(l)))
               /\ slotGrowth'[l] <= LaneGrowthLimit
    <3>1. /\ Cardinality(Units(counted, OnLane(l))) =
               Cardinality(Units(counted', OnLane(l))) + (IF l = lane[x] THEN 1 ELSE 0)
          /\ Cardinality(Units(counted', OnLane(l))) \in Nat
      BY <1>a, <1>d, <2>3, <2>4
    <3>2. slotGrowth'[l] = IF l = lane[x] THEN slotGrowth[l] - 1 ELSE slotGrowth[l]
      BY <1>0, <2>1 DEF TypeOK
    <3> QED
      BY <1>e, <3>1, <3>2, GrowthAssumption
  <2> QED
    BY <1>a, <1>c, <2>5, <2>6, <2>7 DEF BalanceInv
<1>4. CASE UNCHANGED growthVars
  <2>1. UNCHANGED <<slotGrowth, genGrowth, grown, counted>>
    BY <1>4 DEF growthVars
  <2>2. \A o \in Owners : CloseSlot(o) => ~(counted[o] > 0)
    BY <1>0 DEF CloseSlot, Returned
  <2>3. \A o \in Owners : counted'[o] > 0 => state'[o] # "unused" /\ closePc'[o] \notin Leaving
    BY <2>1, <2>2, GrowthSteps DEF BalanceInv
  <2> QED
    BY <1>a, <1>c, <2>1, <2>3 DEF BalanceInv
<1>5. ASSUME NEW x \in Owners, ReturnGrowth(x) PROVE BalanceInv'
  BY <1>2, <1>3, <1>5 DEF ReturnGrowth, RepayThenUncount
<1> QED
  BY <1>1, <1>4, <1>5, GrowthSteps

(* Growth is paid for once and returned once; between the two halves of a  *)
(* return the counters hold more than the ledger and never less, so that   *)
(* the ceilings hold of what is outstanding, in whatever order the monitor *)
(* and Close of the owners return it (Attach, LaneOwner.Close,             *)
(* AggregateReceiveWindowGrowth.Release).                                  *)
THEOREM GrowthIsBalanced == Spec => []GrowthBalanced
<1>1. Init => BalanceInv
  <2> SUFFICES ASSUME Init PROVE BalanceInv
    OBVIOUS
  <2>1. \A S \in SUBSET Owners : Units(counted, S) = {}
    BY DEF Init, Units
  <2>2. IsFiniteSet(Units(counted, Owners)) /\ Cardinality(Units(counted, Owners)) = 0
    BY <2>1, FS_EmptySet
  <2>3. \A l \in Lanes : Cardinality(Units(counted, OnLane(l))) = 0
    BY <2>1, FS_EmptySet DEF OnLane
  <2> QED
    BY <2>2, <2>3, GrowthAssumption DEF Init, BalanceInv
<1>2. Inv /\ BalanceInv => GrowthBalanced
  <2> SUFFICES ASSUME Inv, BalanceInv PROVE GrowthBalanced
    OBVIOUS
  <2>0. grown \in [Owners -> Nat] /\ counted \in [Owners -> Nat]
    BY DEF Inv, TypeOK
  <2>1. ASSUME NEW S \in SUBSET Owners
        PROVE  Cardinality(Held(S)) <= Cardinality(Units(counted, S))
    <3>1. Units(counted, S) \subseteq Units(counted, Owners)
      BY DEF Units
    <3>2. IsFiniteSet(Units(counted, S))
      BY <3>1, FS_Subset DEF BalanceInv
    <3>3. \A o \in S : 1..grown[o] \subseteq 1..counted[o]
      BY <2>0 DEF BalanceInv
    <3>4. Held(S) \subseteq Units(counted, S)
      BY <3>3 DEF Held, Units
    <3> QED
      BY <3>2, <3>4, FS_Subset
  <2>2. ASSUME NEW l \in Lanes, slotOwners[l] = {} PROVE slotGrowth[l] = 0
    <3>1. ASSUME NEW o \in OnLane(l) PROVE 1..counted[o] = {}
      <4>1. ~(counted[o] > 0)
        BY <2>2 DEF OnLane, Inv, OwnerInv, BalanceInv
      <4> QED
        BY <2>0, <4>1 DEF OnLane
    <3>2. Units(counted, OnLane(l)) = {}
      BY <3>1 DEF Units
    <3> QED
      BY <3>2, FS_EmptySet DEF BalanceInv
  <2>3. counted = grown => genGrowth = Cardinality(Held(Owners))
    BY DEF Held, BalanceInv
  <2>4. \A l \in Lanes : OnLane(l) \in SUBSET Owners
    BY DEF OnLane
  <2> QED
    BY <2>1, <2>2, <2>3, <2>4 DEF BalanceInv, GrowthBalanced
<1> QED
  BY <1>1, <1>2, BalanceNext, Invariance, PTL DEF Spec
=============================================================================
