--------------------------- MODULE SnmpConnector ---------------------------
(***************************************************************************)
(* ctx.snmp.get, walk and bulk: operations of many plugin calls share a    *)
(* semaphore, a channel of capacity Slots.  A get takes a slot and then    *)
(* looks its device up; a walk looks it up first, with the limit on the    *)
(* number of variables, and then takes the slot.  A reload of the          *)
(* configuration may fall between any two steps, and the context of the    *)
(* operation may end at any moment.                                        *)
(*                                                                         *)
(* gosnmp is external: an exchange delivers variables one by one to a      *)
(* callback and ends well or badly.  A device is kept as the outcome of    *)
(* looking it up; variables are counted, not named.                        *)
(***************************************************************************)
EXTENDS Naturals, FiniteSets

CONSTANTS Ops,       \* goroutines that call the connector
          Slots,     \* capacity of the semaphore (defaultConcurrency)
          Devices,   \* devices that snmp.yaml may name
          MaxLimit,  \* bound on walk_max_oids and max_oids
          MaxVars    \* bound on the variables a device has under an oid

ASSUME BoundsAssumption ==
  Slots \in Nat \ {0} /\ MaxLimit \in Nat \ {0} /\ MaxVars \in Nat

ASSUME OpsAssumption == IsFiniteSet(Ops)

VARIABLES
  entry,      \* what looking a device up gives: "missing", "noAuth", "usable"
  walkMax,    \* the device's walk_max_oids, defaults applied
  sem,        \* number of tokens in the channel
  pc, kind, device, want,  \* where an operation is, and its request
  expired,    \* its context has ended
  limit,      \* the walk's maxOIDs
  offered,    \* variables gosnmp has passed to walkFn
  count, truncated, outcome  \* the result

config == <<entry, walkMax>>
request == <<kind, device, want>>
walk == <<offered, count, truncated>>
vars == <<config, sem, pc, request, expired, limit, walk, outcome>>

Labels == {"idle", "lookup", "acquire", "open", "exchange", "release", "done"}
Entries == {"missing", "noAuth", "usable"}
Outcomes == {"pending", "ok", "INVALID_PARAMS", "CONNECTOR_ERROR"}

(* Operations between a successful acquire and the deferred release.       *)
Holding(o) == \/ pc[o] \in {"open", "exchange", "release"}
              \/ pc[o] = "lookup" /\ kind[o] = "get"

Holders == {o \in Ops : Holding(o)}

Init ==
  /\ entry \in [Devices -> Entries]
  /\ walkMax \in [Devices -> 1..MaxLimit]
  /\ sem = 0
  /\ pc = [o \in Ops |-> "idle"]
  /\ kind = [o \in Ops |-> "get"]
  /\ device \in [Ops -> Devices]
  /\ want = [o \in Ops |-> 0]
  /\ expired = [o \in Ops |-> FALSE]
  /\ limit = [o \in Ops |-> 0]
  /\ offered = [o \in Ops |-> 0]
  /\ count = [o \in Ops |-> 0]
  /\ truncated = [o \in Ops |-> FALSE]
  /\ outcome = [o \in Ops |-> "pending"]

Goto(o, from, to) == pc[o] = from /\ pc' = [pc EXCEPT ![o] = to]

(* Leave with a code; deferred calls run first if a slot is held.          *)
Fail(o, from, code) ==
  /\ Goto(o, from, IF Holding(o) THEN "release" ELSE "done")
  /\ outcome' = [outcome EXCEPT ![o] = code]

-----------------------------------------------------------------------------
(* A request whose parameters are incomplete is refused at once.           *)
Refuse(o) ==
  /\ Fail(o, "idle", "INVALID_PARAMS")
  /\ UNCHANGED <<config, sem, request, expired, limit, walk>>

Begin(o, k, d, n) ==
  /\ Goto(o, "idle", IF k = "get" THEN "acquire" ELSE "lookup")
  /\ kind' = [kind EXCEPT ![o] = k]
  /\ device' = [device EXCEPT ![o] = d]
  /\ want' = [want EXCEPT ![o] = n]
  /\ UNCHANGED <<config, sem, expired, limit, walk, outcome>>

(* cfg.GetSNMPDevice; a walk computes its limit from the device and from   *)
(* max_oids, which may only lower it.                                      *)
Lookup(o) ==
  LET d == device[o]
  IN /\ \/ entry[d] = "missing" /\ Fail(o, "lookup", "INVALID_PARAMS") /\ UNCHANGED limit
        \/ /\ entry[d] # "missing"
           /\ Goto(o, "lookup", IF kind[o] = "get" THEN "open" ELSE "acquire")
           /\ limit' = [limit EXCEPT ![o] =
                          IF want[o] > 0 /\ want[o] < walkMax[d] THEN want[o] ELSE walkMax[d]]
           /\ UNCHANGED outcome
     /\ UNCHANGED <<config, sem, request, expired, walk>>

(* The select of acquire: either branch when both are ready.               *)
Acquire(o) ==
  /\ sem < Slots
  /\ sem' = sem + 1
  /\ Goto(o, "acquire", IF kind[o] = "get" THEN "lookup" ELSE "open")
  /\ UNCHANGED <<config, request, expired, limit, walk, outcome>>

(* Mutant of AcquireCancelled: the context is looked at only when a slot   *)
(* is free.                                                                *)
AcquireCancelledLate(o) ==
  /\ expired[o] /\ sem < Slots
  /\ Fail(o, "acquire", "CONNECTOR_ERROR")
  /\ UNCHANGED <<config, sem, request, expired, limit, walk>>

AcquireCancelled(o) ==
  /\ expired[o]
  /\ Fail(o, "acquire", "CONNECTOR_ERROR")
  /\ UNCHANGED <<config, sem, request, expired, limit, walk>>

(* Mutant of Open: an early return that the release was not deferred for.  *)
OpenLeaking(o) ==
  /\ \/ Goto(o, "open", "exchange") /\ entry[device[o]] = "usable" /\ UNCHANGED outcome
     \/ /\ Goto(o, "open", "done") /\ entry[device[o]] # "usable"
        /\ outcome' = [outcome EXCEPT ![o] = "INVALID_PARAMS"]
  /\ UNCHANGED <<config, sem, request, expired, limit, walk>>

(* openDevice reads the credentials now; dialling may fail.                *)
Open(o) ==
  /\ \/ Goto(o, "open", "exchange") /\ entry[device[o]] = "usable" /\ UNCHANGED outcome
     \/ Fail(o, "open", "CONNECTOR_ERROR") /\ entry[device[o]] = "usable"
     \/ Fail(o, "open", "INVALID_PARAMS") /\ entry[device[o]] # "usable"
  /\ UNCHANGED <<config, sem, request, expired, limit, walk>>

(* Mutants of Offer: the limit is compared after the variable is kept; it  *)
(* is not compared at all.                                                 *)
OfferOneMore(o) ==
  /\ kind[o] = "walk" /\ pc[o] = "exchange"
  /\ offered[o] < MaxVars
  /\ offered' = [offered EXCEPT ![o] = @ + 1]
  /\ count' = [count EXCEPT ![o] = @ + 1]
  /\ \/ /\ count[o] + 1 < limit[o]
        /\ UNCHANGED <<pc, truncated, outcome>>
     \/ /\ count[o] + 1 >= limit[o]
        /\ Fail(o, "exchange", "ok")
        /\ truncated' = [truncated EXCEPT ![o] = TRUE]
  /\ UNCHANGED <<config, sem, request, expired, limit>>

OfferUnlimited(o) ==
  /\ kind[o] = "walk" /\ pc[o] = "exchange"
  /\ offered[o] < MaxVars
  /\ offered' = [offered EXCEPT ![o] = @ + 1]
  /\ count' = [count EXCEPT ![o] = @ + 1]
  /\ UNCHANGED <<config, sem, pc, request, expired, limit, truncated, outcome>>

(* gosnmp passes one more variable to walkFn.                              *)
Offer(o) ==
  /\ kind[o] = "walk"
  /\ offered[o] < MaxVars
  /\ offered' = [offered EXCEPT ![o] = @ + 1]
  /\ \/ /\ expired[o]
        /\ Fail(o, "exchange", "CONNECTOR_ERROR")
        /\ UNCHANGED <<count, truncated>>
     \/ /\ ~expired[o] /\ count[o] >= limit[o]
        /\ Fail(o, "exchange", "ok")
        /\ truncated' = [truncated EXCEPT ![o] = TRUE]
        /\ UNCHANGED count
     \/ /\ ~expired[o] /\ count[o] < limit[o]
        /\ pc[o] = "exchange"
        /\ count' = [count EXCEPT ![o] = @ + 1]
        /\ UNCHANGED <<pc, truncated, outcome>>
  /\ UNCHANGED <<config, sem, request, expired, limit>>

(* gosnmp returns.                                                         *)
EndExchange(o) ==
  /\ \E code \in {"ok", "CONNECTOR_ERROR"} : Fail(o, "exchange", code)
  /\ UNCHANGED <<config, sem, request, expired, limit, walk>>

Release(o) ==
  /\ sem > 0
  /\ sem' = sem - 1
  /\ Goto(o, "release", "done")
  /\ UNCHANGED <<config, request, expired, limit, walk, outcome>>

Finish(o) ==
  /\ Goto(o, "done", "idle")
  /\ want' = [want EXCEPT ![o] = 0]
  /\ expired' = [expired EXCEPT ![o] = FALSE]
  /\ limit' = [limit EXCEPT ![o] = 0]
  /\ offered' = [offered EXCEPT ![o] = 0]
  /\ count' = [count EXCEPT ![o] = 0]
  /\ truncated' = [truncated EXCEPT ![o] = FALSE]
  /\ outcome' = [outcome EXCEPT ![o] = "pending"]
  /\ kind' = [kind EXCEPT ![o] = "get"]
  /\ UNCHANGED <<config, sem, device>>

(* The plugin's time is up or its client has gone.                         *)
Expire(o) ==
  /\ pc[o] \notin {"idle", "done"}
  /\ ~expired[o]
  /\ expired' = [expired EXCEPT ![o] = TRUE]
  /\ UNCHANGED <<config, sem, pc, request, limit, walk, outcome>>

(* POST /api/reload installs another snmp.yaml.                            *)
ReloadDevices ==
  /\ entry' \in [Devices -> Entries]
  /\ walkMax' \in [Devices -> 1..MaxLimit]
  /\ UNCHANGED <<sem, pc, request, expired, limit, walk, outcome>>

-----------------------------------------------------------------------------
Step(o) == \/ Lookup(o) \/ Acquire(o) \/ AcquireCancelled(o) \/ Open(o)
           \/ Offer(o) \/ EndExchange(o) \/ Release(o)

Next == \/ \E o \in Ops :
             \/ Refuse(o)
             \/ \E d \in Devices : Begin(o, "get", d, 0)
             \/ \E d \in Devices, n \in 0..MaxLimit : Begin(o, "walk", d, n)
             \/ Step(o) \/ Finish(o) \/ Expire(o)
        \/ ReloadDevices

Spec == Init /\ [][Next]_vars

(* Every goroutine that can run is scheduled, gosnmp's timeouts and retry  *)
(* counts end an exchange, and the plugin's deadline ends the context.     *)
(* Nothing is assumed of who gets a free slot.                             *)
FairSpec ==
  Spec /\ \A o \in Ops : WF_vars(Step(o)) /\ WF_vars(Expire(o))

-----------------------------------------------------------------------------
(* TYPE.  An operation has an outcome exactly when it is on its way out.   *)
TypeOK ==
  /\ entry \in [Devices -> Entries]
  /\ walkMax \in [Devices -> 1..MaxLimit]
  /\ sem \in 0..Slots
  /\ pc \in [Ops -> Labels]
  /\ kind \in [Ops -> {"get", "walk"}]
  /\ device \in [Ops -> Devices]
  /\ want \in [Ops -> 0..MaxLimit]
  /\ expired \in [Ops -> BOOLEAN]
  /\ limit \in [Ops -> 0..MaxLimit]
  /\ offered \in [Ops -> 0..MaxVars]
  /\ count \in [Ops -> 0..MaxLimit]
  /\ truncated \in [Ops -> BOOLEAN]
  /\ outcome \in [Ops -> Outcomes]
  /\ \A o \in Ops : outcome[o] = "pending" <=> pc[o] \notin {"release", "done"}

(* The tokens in the channel are those of the operations that hold a slot: *)
(* no path out of an operation, early return or cancellation, loses a slot *)
(* or gives back one that was never taken.                                 *)
SlotsMatchHolders == sem = Cardinality(Holders)

(* A walk that succeeds is truncated exactly when the device had more than *)
(* the limit, and then it returns exactly the limit; otherwise it returns  *)
(* everything the device had (docs/connector.md:262).                      *)
TruncationExact ==
  \A o \in Ops :
    (pc[o] = "done" /\ kind[o] = "walk" /\ outcome[o] = "ok")
       => /\ truncated[o] <=> offered[o] > limit[o]
          /\ count[o] = IF truncated[o] THEN limit[o] ELSE offered[o]

(* Every operation ends, even when the slots are taken again and again by  *)
(* others: the context ends the wait.                                      *)
EveryOpEnds == \A o \in Ops : pc[o] # "idle" ~> pc[o] \in {"idle", "done"}
=============================================================================
