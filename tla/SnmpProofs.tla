----------------------------- MODULE SnmpProofs -----------------------------
(***************************************************************************)
(* Theorems about SnmpConnector, for every number of operations, slots and *)
(* variables.  That the semaphore counts the operations holding a slot is  *)
(* inductive by itself.  That truncation is exact needs WalkInv, which     *)
(* says what the callback has counted so far.                              *)
(***************************************************************************)
EXTENDS SnmpConnector, FiniteSetTheorems, TLAPS

WalkResultExact(o) ==
  /\ truncated[o] <=> offered[o] > limit[o]
  /\ count[o] = IF truncated[o] THEN limit[o] ELSE offered[o]

WalkInv ==
  \A o \in Ops :
    /\ pc[o] \in {"idle", "lookup", "acquire", "open"} =>
          offered[o] = 0 /\ count[o] = 0 /\ ~truncated[o]
    /\ pc[o] = "exchange" /\ kind[o] = "walk" =>
          count[o] = offered[o] /\ count[o] <= limit[o] /\ ~truncated[o]
    /\ pc[o] \in {"release", "done"} /\ kind[o] = "walk" /\ outcome[o] = "ok" =>
          WalkResultExact(o)

-----------------------------------------------------------------------------
(* Every step preserves the types.                                         *)
LEMMA InitTypeOK == Init => TypeOK
  BY BoundsAssumption DEF Init, TypeOK, Labels, Outcomes

LEMMA NextTypeOK == TypeOK /\ [Next]_vars => TypeOK'
  <1> SUFFICES ASSUME TypeOK, [Next]_vars PROVE TypeOK'
    OBVIOUS
  <1> USE BoundsAssumption DEF TypeOK, Labels, Outcomes
  <1>1. ASSUME NEW o \in Ops, Refuse(o) PROVE TypeOK'
    BY <1>1 DEF Refuse, Fail, Goto, config, request, walk
  <1>2. ASSUME NEW o \in Ops, NEW k \in {"get", "walk"}, NEW d \in Devices,
               NEW n \in 0..MaxLimit, Begin(o, k, d, n)
        PROVE  TypeOK'
    BY <1>2 DEF Begin, Goto, config, walk
  <1>3. ASSUME NEW o \in Ops, Lookup(o) PROVE TypeOK'
    <2>1. CASE entry[device[o]] = "missing"
      BY <1>3, <2>1 DEF Lookup, Fail, Goto, config, request, walk
    <2>2. CASE entry[device[o]] # "missing"
      <3>1. limit' \in [Ops -> 0..MaxLimit]
        BY <1>3, <2>2 DEF Lookup
      <3> QED
        BY <1>3, <2>2, <3>1 DEF Lookup, Goto, config, request, walk
    <2> QED
      BY <2>1, <2>2
  <1>4. ASSUME NEW o \in Ops, Acquire(o) PROVE TypeOK'
    BY <1>4 DEF Acquire, Goto, config, request, walk
  <1>5. ASSUME NEW o \in Ops, AcquireCancelled(o) PROVE TypeOK'
    BY <1>5 DEF AcquireCancelled, Fail, Goto, config, request, walk
  <1>6. ASSUME NEW o \in Ops, Open(o) PROVE TypeOK'
    BY <1>6 DEF Open, Fail, Goto, config, request, walk
  <1>7. ASSUME NEW o \in Ops, Offer(o) PROVE TypeOK'
    <2>0. offered' \in [Ops -> 0..MaxVars]
      BY <1>7 DEF Offer
    <2>1. CASE expired[o]
      BY <1>7, <2>0, <2>1 DEF Offer, Fail, Goto, config, request
    <2>2. CASE ~expired[o] /\ count[o] >= limit[o]
      <3>1. /\ pc' \in [Ops -> Labels] /\ outcome' \in [Ops -> Outcomes]
            /\ \A p \in Ops : outcome'[p] = "pending" <=> pc'[p] \notin {"release", "done"}
        BY <1>7, <2>2 DEF Offer, Fail, Goto
      <3>2. truncated' \in [Ops -> BOOLEAN] /\ UNCHANGED count
        <4>1. ~(count[o] < limit[o])
          BY <2>2
        <4>2. truncated' = [truncated EXCEPT ![o] = TRUE] /\ UNCHANGED count
          BY <1>7, <2>2, <4>1 DEF Offer
        <4> QED
          BY <4>2
      <3>3. UNCHANGED <<config, sem, request, expired, limit>>
        BY <1>7 DEF Offer
      <3> QED
        BY <2>0, <3>1, <3>2, <3>3 DEF config, request
    <2>3. CASE ~expired[o] /\ count[o] < limit[o]
      <3>1. count[o] + 1 \in 0..MaxLimit
        BY <2>3
      <3>2. count' \in [Ops -> 0..MaxLimit]
        BY <1>7, <2>3, <3>1 DEF Offer
      <3> QED
        BY <1>7, <2>0, <2>3, <3>2 DEF Offer, config, request
    <2> QED
      BY <2>1, <2>2, <2>3
  <1>8. ASSUME NEW o \in Ops, EndExchange(o) PROVE TypeOK'
    BY <1>8 DEF EndExchange, Fail, Goto, config, request, walk
  <1>9. ASSUME NEW o \in Ops, Release(o) PROVE TypeOK'
    BY <1>9 DEF Release, Goto, config, request, walk
  <1>10. ASSUME NEW o \in Ops, Finish(o) PROVE TypeOK'
    BY <1>10 DEF Finish, Goto, config
  <1>11. ASSUME NEW o \in Ops, Expire(o) PROVE TypeOK'
    BY <1>11 DEF Expire, config, request, walk
  <1>12. CASE ReloadDevices
    BY <1>12 DEF ReloadDevices, request, walk
  <1>13. CASE UNCHANGED vars
    BY <1>13 DEF vars, config, request, walk
  <1> QED
    BY <1>1, <1>2, <1>3, <1>4, <1>5, <1>6, <1>7, <1>8, <1>9, <1>10, <1>11, <1>12,
       <1>13 DEF Next, Step

(* Every table, request and program counter keeps its type.                *)
THEOREM TypeCorrect == Spec => []TypeOK
  BY InitTypeOK, NextTypeOK, PTL DEF Spec

-----------------------------------------------------------------------------
(* The operations holding a slot are finitely many.                        *)
LEMMA HoldersFinite == IsFiniteSet(Holders)
  BY OpsAssumption, FS_Subset DEF Holders

(* A failing operation keeps its slot until the deferred release.          *)
LEMMA FailKeepsHolders ==
  ASSUME TypeOK, NEW o \in Ops, NEW from, NEW code, Fail(o, from, code),
         UNCHANGED kind
  PROVE  Holders' = Holders
  BY DEF TypeOK, Fail, Goto, Holders, Holding

(* Only Acquire adds a holder and only Release removes one, and each       *)
(* changes the number of tokens in the same way.                           *)
LEMMA NextSlots == TypeOK /\ SlotsMatchHolders /\ [Next]_vars => SlotsMatchHolders'
  <1> SUFFICES ASSUME TypeOK, SlotsMatchHolders, [Next]_vars PROVE SlotsMatchHolders'
    OBVIOUS
  <1>0. (Holders' = Holders /\ sem' = sem) => SlotsMatchHolders'
    BY DEF SlotsMatchHolders
  <1>1. ASSUME NEW o \in Ops, Refuse(o) PROVE SlotsMatchHolders'
    BY <1>0, <1>1, FailKeepsHolders DEF Refuse, request
  <1>2. ASSUME NEW o \in Ops, NEW k \in {"get", "walk"}, NEW d \in Devices,
               NEW n \in 0..MaxLimit, Begin(o, k, d, n)
        PROVE  SlotsMatchHolders'
    BY <1>0, <1>2 DEF Begin, Goto, TypeOK, Holders, Holding
  <1>3. ASSUME NEW o \in Ops, Lookup(o) PROVE SlotsMatchHolders'
    <2>1. CASE entry[device[o]] = "missing"
      BY <1>0, <1>3, <2>1, FailKeepsHolders DEF Lookup, request
    <2>2. CASE entry[device[o]] # "missing"
      BY <1>0, <1>3, <2>2 DEF Lookup, Goto, request, TypeOK, Holders, Holding
    <2> QED
      BY <2>1, <2>2
  <1>4. ASSUME NEW o \in Ops, Acquire(o) PROVE SlotsMatchHolders'
    <2>1. o \notin Holders
      BY <1>4 DEF Acquire, Goto, Holders, Holding
    <2>2. Holders' = Holders \cup {o}
      BY <1>4 DEF Acquire, Goto, request, TypeOK, Holders, Holding
    <2>3. Cardinality(Holders \cup {o}) = Cardinality(Holders) + 1
      BY <2>1, HoldersFinite, FS_AddElement
    <2> QED
      BY <1>4, <2>2, <2>3 DEF Acquire, SlotsMatchHolders
  <1>5. ASSUME NEW o \in Ops, AcquireCancelled(o) PROVE SlotsMatchHolders'
    BY <1>0, <1>5, FailKeepsHolders DEF AcquireCancelled, request
  <1>6. ASSUME NEW o \in Ops, Open(o) PROVE SlotsMatchHolders'
    <2>1. CASE Goto(o, "open", "exchange")
      BY <1>0, <1>6, <2>1 DEF Open, Goto, request, TypeOK, Holders, Holding
    <2>2. CASE \E code : Fail(o, "open", code)
      BY <1>0, <1>6, <2>2, FailKeepsHolders DEF Open, request
    <2> QED
      BY <1>6, <2>1, <2>2 DEF Open
  <1>7. ASSUME NEW o \in Ops, Offer(o) PROVE SlotsMatchHolders'
    <2>1. CASE UNCHANGED pc
      BY <1>0, <1>7, <2>1 DEF Offer, request, Holders, Holding
    <2>2. CASE \E code : Fail(o, "exchange", code)
      BY <1>0, <1>7, <2>2, FailKeepsHolders DEF Offer, request
    <2> QED
      BY <1>7, <2>1, <2>2 DEF Offer
  <1>8. ASSUME NEW o \in Ops, EndExchange(o) PROVE SlotsMatchHolders'
    BY <1>0, <1>8, FailKeepsHolders DEF EndExchange, request
  <1>9. ASSUME NEW o \in Ops, Release(o) PROVE SlotsMatchHolders'
    <2>1. o \in Holders
      BY <1>9 DEF Release, Goto, Holders, Holding
    <2>2. Holders' = Holders \ {o}
      BY <1>9 DEF Release, Goto, request, TypeOK, Holders, Holding
    <2>3. Cardinality(Holders \ {o}) = Cardinality(Holders) - 1
      BY <2>1, HoldersFinite, FS_RemoveElement
    <2> QED
      BY <1>9, <2>2, <2>3 DEF Release, SlotsMatchHolders
  <1>10. ASSUME NEW o \in Ops, Finish(o) PROVE SlotsMatchHolders'
    BY <1>0, <1>10 DEF Finish, Goto, TypeOK, Holders, Holding
  <1>11. ASSUME NEW o \in Ops, Expire(o) PROVE SlotsMatchHolders'
    BY <1>0, <1>11 DEF Expire, request, Holders, Holding
  <1>12. CASE ReloadDevices
    BY <1>0, <1>12 DEF ReloadDevices, request, Holders, Holding
  <1>13. CASE UNCHANGED vars
    BY <1>0, <1>13 DEF vars, request, Holders, Holding
  <1> QED
    BY <1>1, <1>2, <1>3, <1>4, <1>5, <1>6, <1>7, <1>8, <1>9, <1>10, <1>11, <1>12,
       <1>13, BoundsAssumption DEF Next, Step

(* The semaphore counts the operations that hold a slot, whatever the      *)
(* number of operations and slots.                                         *)
THEOREM SlotsMatchHoldersHolds == Spec => []SlotsMatchHolders
  <1>1. Init => SlotsMatchHolders
    <2> SUFFICES ASSUME Init PROVE SlotsMatchHolders
      OBVIOUS
    <2>1. Holders = {}
      BY DEF Init, Holders, Holding
    <2> QED
      BY <2>1, FS_EmptySet DEF Init, SlotsMatchHolders
  <1> QED
    BY <1>1, NextSlots, TypeCorrect, PTL DEF Spec

-----------------------------------------------------------------------------
(* What the callback has counted is what it was offered, up to the limit.  *)
LEMMA NextWalk == TypeOK /\ WalkInv /\ [Next]_vars => WalkInv'
  <1> SUFFICES ASSUME TypeOK, WalkInv, [Next]_vars PROVE WalkInv'
    OBVIOUS
  <1> USE BoundsAssumption DEF TypeOK, WalkInv, WalkResultExact
  <1>1. ASSUME NEW o \in Ops, Refuse(o) PROVE WalkInv'
    BY <1>1 DEF Refuse, Fail, Goto, request, walk
  <1>2. ASSUME NEW o \in Ops, NEW k \in {"get", "walk"}, NEW d \in Devices,
               NEW n \in 0..MaxLimit, Begin(o, k, d, n)
        PROVE  WalkInv'
    BY <1>2 DEF Begin, Goto, walk
  <1>3. ASSUME NEW o \in Ops, Lookup(o) PROVE WalkInv'
    <2>1. CASE entry[device[o]] = "missing"
      BY <1>3, <2>1 DEF Lookup, Fail, Goto, request, walk
    <2>2. CASE entry[device[o]] # "missing"
      BY <1>3, <2>2 DEF Lookup, Goto, request, walk
    <2> QED
      BY <2>1, <2>2
  <1>4. ASSUME NEW o \in Ops, Acquire(o) PROVE WalkInv'
    BY <1>4 DEF Acquire, Goto, request, walk
  <1>5. ASSUME NEW o \in Ops, AcquireCancelled(o) PROVE WalkInv'
    BY <1>5 DEF AcquireCancelled, Fail, Goto, request, walk
  <1>6. ASSUME NEW o \in Ops, Open(o) PROVE WalkInv'
    BY <1>6 DEF Open, Fail, Goto, request, walk
  <1>7. ASSUME NEW o \in Ops, Offer(o) PROVE WalkInv'
    <2>1. CASE expired[o]
      BY <1>7, <2>1 DEF Offer, Fail, Goto, request
    <2>2. CASE ~expired[o] /\ count[o] >= limit[o]
      BY <1>7, <2>2 DEF Offer, Fail, Goto, request
    <2>3. CASE ~expired[o] /\ count[o] < limit[o]
      BY <1>7, <2>3 DEF Offer, request
    <2> QED
      BY <2>1, <2>2, <2>3
  <1>8. ASSUME NEW o \in Ops, EndExchange(o) PROVE WalkInv'
    BY <1>8 DEF EndExchange, Fail, Goto, request, walk
  <1>9. ASSUME NEW o \in Ops, Release(o) PROVE WalkInv'
    BY <1>9 DEF Release, Goto, request, walk
  <1>10. ASSUME NEW o \in Ops, Finish(o) PROVE WalkInv'
    BY <1>10 DEF Finish, Goto
  <1>11. ASSUME NEW o \in Ops, Expire(o) PROVE WalkInv'
    BY <1>11 DEF Expire, request, walk
  <1>12. CASE ReloadDevices
    BY <1>12 DEF ReloadDevices, request, walk
  <1>13. CASE UNCHANGED vars
    BY <1>13 DEF vars, request, walk
  <1> QED
    BY <1>1, <1>2, <1>3, <1>4, <1>5, <1>6, <1>7, <1>8, <1>9, <1>10, <1>11, <1>12,
       <1>13 DEF Next, Step

(* A successful walk returns exactly what its limit allows, and says so    *)
(* when there was more, for every limit and number of variables.           *)
THEOREM TruncationExactHolds == Spec => []TruncationExact
  <1>1. Init => WalkInv
    BY DEF Init, WalkInv
  <1>2. WalkInv => TruncationExact
    BY DEF WalkInv, TruncationExact, WalkResultExact
  <1> QED
    BY <1>1, <1>2, NextWalk, TypeCorrect, PTL DEF Spec
=============================================================================
