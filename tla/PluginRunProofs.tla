-------------------------- MODULE PluginRunProofs --------------------------
(***************************************************************************)
(* Theorems about PluginRun, for any number of concurrent calls.  Neither  *)
(* of the last two is inductive: that the channel is empty when the worker *)
(* sends rests on its having been empty ever since the worker was started, *)
(* and that no stray script runs rests on the worker existing only while   *)
(* its call is selecting or has been answered.                             *)
(***************************************************************************)
EXTENDS PluginRun, TLAPS

WorkerInv ==
  \A c \in Calls :
    /\ worker[c] # "ended" => ch[c] = Empty
    /\ main[c] \in {"called", "loading"} => worker[c] = "none"
    /\ (main[c] = "answered" /\ worker[c] \in {"script", "native"})
          => interrupted[c] /\ expired[c]

IInv == TypeOK /\ WorkerInv

LEMMA InitIInv == Init => IInv
  BY DEF Init, IInv, TypeOK, WorkerInv, Codes, Empty

LEMMA NextTypeOK == TypeOK /\ [Next]_vars => TypeOK'
  <1> SUFFICES ASSUME TypeOK, [Next]_vars PROVE TypeOK'
    OBVIOUS
  <1> USE DEF TypeOK, plugin, Codes, Empty
  <1>1. ASSUME NEW c \in Calls, Refuse(c) PROVE TypeOK'
    BY <1>1 DEF Refuse
  <1>2. ASSUME NEW c \in Calls, BeginLoad(c) PROVE TypeOK'
    BY <1>2 DEF BeginLoad
  <1>3. ASSUME NEW c \in Calls, LoadFails(c) PROVE TypeOK'
    BY <1>3 DEF LoadFails, Return
  <1>4. ASSUME NEW c \in Calls, LoadEnds(c) PROVE TypeOK'
    BY <1>4 DEF LoadEnds
  <1>5. ASSUME NEW c \in Calls, SelectContext(c) \/ SelectTimer(c) PROVE TypeOK'
    <2>1. GiveUp(c)
      BY <1>5 DEF SelectContext, SelectTimer
    <2> QED
      BY <2>1 DEF GiveUp, Return
  <1>6. ASSUME NEW c \in Calls, SelectResult(c) PROVE TypeOK'
    BY <1>6 DEF SelectResult, Return
  <1>7. ASSUME NEW c \in Calls, ContextEnds(c) \/ TimerFires(c) PROVE TypeOK'
    <2>1. CASE ContextEnds(c)
      BY <2>1 DEF ContextEnds
    <2>2. CASE TimerFires(c)
      BY <2>2 DEF TimerFires
    <2> QED
      BY <1>7, <2>1, <2>2
  <1>8. ASSUME NEW c \in Calls, ScriptEnds(c) \/ ScriptInterrupted(c) PROVE TypeOK'
    BY <1>8 DEF ScriptEnds, ScriptInterrupted, Produce
  <1>9. ASSUME NEW c \in Calls, CallConnector(c) \/ ConnectorReturns(c) PROVE TypeOK'
    BY <1>9 DEF CallConnector, ConnectorReturns, Worker
  <1>10. ASSUME NEW c \in Calls, ConnectorFails(c) PROVE TypeOK'
    BY <1>10 DEF ConnectorFails, Produce
  <1>11. ASSUME NEW c \in Calls, Send(c) PROVE TypeOK'
    BY <1>11 DEF Send
  <1>12. CASE UNCHANGED vars
    BY <1>12 DEF vars, plugin
  <1> QED
    BY <1>1, <1>2, <1>3, <1>4, <1>5, <1>6, <1>7, <1>8, <1>9, <1>10, <1>11, <1>12
       DEF Next, Main, Script, Done, LoadLoops

LEMMA NextWorkerInv == IInv /\ [Next]_vars => WorkerInv'
  <1> SUFFICES ASSUME TypeOK, WorkerInv, [Next]_vars PROVE WorkerInv'
    BY DEF IInv
  <1> USE DEF TypeOK, WorkerInv, plugin
  <1>1. ASSUME NEW c \in Calls, Refuse(c) PROVE WorkerInv'
    BY <1>1 DEF Refuse
  <1>2. ASSUME NEW c \in Calls, BeginLoad(c) PROVE WorkerInv'
    BY <1>2 DEF BeginLoad
  <1>3. ASSUME NEW c \in Calls, LoadFails(c) PROVE WorkerInv'
    BY <1>3 DEF LoadFails, Return
  <1>4. ASSUME NEW c \in Calls, LoadEnds(c) PROVE WorkerInv'
    BY <1>4 DEF LoadEnds
  <1>5. ASSUME NEW c \in Calls, SelectContext(c) \/ SelectTimer(c) PROVE WorkerInv'
    BY <1>5 DEF SelectContext, SelectTimer, GiveUp, Return
  <1>6. ASSUME NEW c \in Calls, SelectResult(c) PROVE WorkerInv'
    BY <1>6 DEF SelectResult, Return
  <1>7. ASSUME NEW c \in Calls, ContextEnds(c) \/ TimerFires(c) PROVE WorkerInv'
    BY <1>7 DEF ContextEnds, TimerFires
  <1>8. ASSUME NEW c \in Calls, ScriptEnds(c) \/ ScriptInterrupted(c) PROVE WorkerInv'
    BY <1>8 DEF ScriptEnds, ScriptInterrupted, Produce
  <1>9. ASSUME NEW c \in Calls, CallConnector(c) \/ ConnectorReturns(c) PROVE WorkerInv'
    BY <1>9 DEF CallConnector, ConnectorReturns, Worker
  <1>10. ASSUME NEW c \in Calls, ConnectorFails(c) PROVE WorkerInv'
    BY <1>10 DEF ConnectorFails, Produce
  <1>11. ASSUME NEW c \in Calls, Send(c) PROVE WorkerInv'
    BY <1>11 DEF Send
  <1>12. CASE UNCHANGED vars
    BY <1>12 DEF vars, plugin
  <1> QED
    BY <1>1, <1>2, <1>3, <1>4, <1>5, <1>6, <1>7, <1>8, <1>9, <1>10, <1>11, <1>12
       DEF Next, Main, Script, Done, LoadLoops

LEMMA SpecIInv == Spec => []IInv
  <1>1. IInv /\ [Next]_vars => IInv'
    BY NextTypeOK, NextWorkerInv DEF IInv
  <1> QED
    BY <1>1, InitIInv, PTL DEF Spec

(* State, channel and answer of every call keep their types.               *)
THEOREM TypeCorrect == Spec => []TypeOK
  <1>1. IInv => TypeOK
    BY DEF IInv
  <1> QED
    BY <1>1, SpecIInv, PTL

(* A worker never blocks on its channel, for any number of calls.          *)
THEOREM SendNeverBlocksHolds == Spec => []SendNeverBlocks
  <1>1. IInv => SendNeverBlocks
    BY DEF IInv, WorkerInv, SendNeverBlocks
  <1> QED
    BY <1>1, SpecIInv, PTL

(* A worker that outlives its call has been interrupted and its context    *)
(* has ended, for any number of calls.                                     *)
THEOREM NoStrayScriptHolds == Spec => []NoStrayScript
  <1>1. IInv => NoStrayScript
    BY DEF IInv, WorkerInv, NoStrayScript
  <1> QED
    BY <1>1, SpecIInv, PTL
=============================================================================
