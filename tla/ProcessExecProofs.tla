------------------------- MODULE ProcessExecProofs -------------------------
(***************************************************************************)
(* Theorems about ProcessExec, for any number of calls.  That buffers are  *)
(* read when they are settled and that no process is left behind is known  *)
(* at the answer only; the invariant says where each phase of a call has   *)
(* its process, and that a result in the channel means its sender ended.   *)
(***************************************************************************)
EXTENDS ProcessExec, TLAPS

LocalInv ==
  \A c \in Calls :
    kind[c] = "command" =>
      /\ pc[c] # "handshake"
      /\ pc[c] = "called" => leader[c] = "none"
      /\ pc[c] = "killing" => leader[c] = "reaped"
      /\ pc[c] = "answered" => leader[c] \in {"none", "reaped"}
      /\ code[c] = "result" => leader[c] = "reaped" /\ ~OutputOpen(c)

RemoteInv ==
  \A c \in Calls :
    kind[c] = "ssh" => /\ pc[c] \in {"called", "handshake"} => runner[c] = "none"
                       /\ done[c] # "empty" => runner[c] = "ended"
                       /\ code[c] = "result" => runner[c] = "ended"

IInv == TypeOK /\ LocalInv /\ RemoteInv

LEMMA InitIInv == Init => IInv
  BY DEF Init, IInv, TypeOK, LocalInv, RemoteInv, Labels, Codes

LEMMA NextTypeOK == TypeOK /\ [Next]_vars => TypeOK'
  <1> SUFFICES ASSUME TypeOK, [Next]_vars PROVE TypeOK'
    OBVIOUS
  <1> USE DEF TypeOK, Labels, Codes, plugin, proc, session
  <1>1. ASSUME NEW c \in Calls, Refuse(c) PROVE TypeOK'
    BY <1>1 DEF Refuse, Answer, Goto
  <1>2. ASSUME NEW c \in Calls, Start(c) PROVE TypeOK'
    BY <1>2 DEF Start, Goto
  <1>3. ASSUME NEW c \in Calls, StartFails(c) PROVE TypeOK'
    BY <1>3 DEF StartFails, Answer, Goto
  <1>4. ASSUME NEW c \in Calls, Reap(c) PROVE TypeOK'
    BY <1>4 DEF Reap
  <1>5. ASSUME NEW c \in Calls, Watch(c) PROVE TypeOK'
    BY <1>5 DEF Watch
  <1>6. ASSUME NEW c \in Calls, RunReturns(c) PROVE TypeOK'
    BY <1>6 DEF RunReturns, Answer, Goto
  <1>7. ASSUME NEW c \in Calls, KillProcessGroup(c) PROVE TypeOK'
    BY <1>7 DEF KillProcessGroup, Answer, Goto
  <1>8. ASSUME NEW c \in Calls, Dial(c) PROVE TypeOK'
    BY <1>8 DEF Dial, Answer, Goto
  <1>9. ASSUME NEW c \in Calls, Handshake(c) PROVE TypeOK'
    BY <1>9 DEF Handshake, Answer, Goto
  <1>10. ASSUME NEW c \in Calls, RunnerEnds(c) PROVE TypeOK'
    BY <1>10 DEF RunnerEnds
  <1>11. ASSUME NEW c \in Calls, SelectDone(c) PROVE TypeOK'
    BY <1>11 DEF SelectDone, Answer, Goto
  <1>12. ASSUME NEW c \in Calls, SelectContext(c) PROVE TypeOK'
    BY <1>12 DEF SelectContext, Answer, Goto
  <1>13. ASSUME NEW c \in Calls, LeaderForks(c) PROVE TypeOK'
    BY <1>13 DEF LeaderForks
  <1>14. ASSUME NEW c \in Calls, LeaderExits(c) PROVE TypeOK'
    BY <1>14 DEF LeaderExits
  <1>15. ASSUME NEW c \in Calls, ChildEnds(c) PROVE TypeOK'
    BY <1>15 DEF ChildEnds
  <1>16. ASSUME NEW c \in Calls, Expire(c) PROVE TypeOK'
    BY <1>16 DEF Expire
  <1>17. CASE UNCHANGED vars
    BY <1>17 DEF vars
  <1> QED
    BY <1>1, <1>2, <1>3, <1>4, <1>5, <1>6, <1>7, <1>8, <1>9, <1>10,
       <1>11, <1>12, <1>13, <1>14, <1>15, <1>16, <1>17
       DEF Next, Local, Remote, Done

LEMMA NextLocalInv == TypeOK /\ LocalInv /\ [Next]_vars => LocalInv'
  <1> SUFFICES ASSUME TypeOK, LocalInv, [Next]_vars PROVE LocalInv'
    OBVIOUS
  <1> USE DEF TypeOK, LocalInv, OutputOpen, plugin, proc, session
  <1>1. ASSUME NEW c \in Calls, Refuse(c) PROVE LocalInv'
    BY <1>1 DEF Refuse, Answer, Goto
  <1>2. ASSUME NEW c \in Calls, Start(c) PROVE LocalInv'
    BY <1>2 DEF Start, Goto
  <1>3. ASSUME NEW c \in Calls, StartFails(c) PROVE LocalInv'
    BY <1>3 DEF StartFails, Answer, Goto
  <1>4. ASSUME NEW c \in Calls, Reap(c) PROVE LocalInv'
    BY <1>4 DEF Reap
  <1>5. ASSUME NEW c \in Calls, Watch(c) PROVE LocalInv'
    BY <1>5 DEF Watch
  <1>6. ASSUME NEW c \in Calls, RunReturns(c) PROVE LocalInv'
    BY <1>6 DEF RunReturns, Answer, Goto
  <1>7. ASSUME NEW c \in Calls, KillProcessGroup(c) PROVE LocalInv'
    BY <1>7 DEF KillProcessGroup, Answer, Goto
  <1>8. ASSUME NEW c \in Calls, Dial(c) PROVE LocalInv'
    BY <1>8 DEF Dial, Answer, Goto
  <1>9. ASSUME NEW c \in Calls, Handshake(c) PROVE LocalInv'
    BY <1>9 DEF Handshake, Answer, Goto
  <1>10. ASSUME NEW c \in Calls, RunnerEnds(c) PROVE LocalInv'
    BY <1>10 DEF RunnerEnds
  <1>11. ASSUME NEW c \in Calls, SelectDone(c) PROVE LocalInv'
    BY <1>11 DEF SelectDone, Answer, Goto
  <1>12. ASSUME NEW c \in Calls, SelectContext(c) PROVE LocalInv'
    BY <1>12 DEF SelectContext, Answer, Goto
  <1>13. ASSUME NEW c \in Calls, LeaderForks(c) PROVE LocalInv'
    BY <1>13 DEF LeaderForks
  <1>14. ASSUME NEW c \in Calls, LeaderExits(c) PROVE LocalInv'
    BY <1>14 DEF LeaderExits
  <1>15. ASSUME NEW c \in Calls, ChildEnds(c) PROVE LocalInv'
    BY <1>15 DEF ChildEnds
  <1>16. ASSUME NEW c \in Calls, Expire(c) PROVE LocalInv'
    BY <1>16 DEF Expire
  <1>17. CASE UNCHANGED vars
    BY <1>17 DEF vars
  <1> QED
    BY <1>1, <1>2, <1>3, <1>4, <1>5, <1>6, <1>7, <1>8, <1>9, <1>10,
       <1>11, <1>12, <1>13, <1>14, <1>15, <1>16, <1>17
       DEF Next, Local, Remote, Done

LEMMA NextRemoteInv == TypeOK /\ RemoteInv /\ [Next]_vars => RemoteInv'
  <1> SUFFICES ASSUME TypeOK, RemoteInv, [Next]_vars PROVE RemoteInv'
    OBVIOUS
  <1> USE DEF TypeOK, RemoteInv, plugin, proc, session
  <1>1. ASSUME NEW c \in Calls, Refuse(c) PROVE RemoteInv'
    BY <1>1 DEF Refuse, Answer, Goto
  <1>2. ASSUME NEW c \in Calls, Start(c) PROVE RemoteInv'
    BY <1>2 DEF Start, Goto
  <1>3. ASSUME NEW c \in Calls, StartFails(c) PROVE RemoteInv'
    BY <1>3 DEF StartFails, Answer, Goto
  <1>4. ASSUME NEW c \in Calls, Reap(c) PROVE RemoteInv'
    BY <1>4 DEF Reap
  <1>5. ASSUME NEW c \in Calls, Watch(c) PROVE RemoteInv'
    BY <1>5 DEF Watch
  <1>6. ASSUME NEW c \in Calls, RunReturns(c) PROVE RemoteInv'
    BY <1>6 DEF RunReturns, Answer, Goto
  <1>7. ASSUME NEW c \in Calls, KillProcessGroup(c) PROVE RemoteInv'
    BY <1>7 DEF KillProcessGroup, Answer, Goto
  <1>8. ASSUME NEW c \in Calls, Dial(c) PROVE RemoteInv'
    BY <1>8 DEF Dial, Answer, Goto
  <1>9. ASSUME NEW c \in Calls, Handshake(c) PROVE RemoteInv'
    BY <1>9 DEF Handshake, Answer, Goto
  <1>10. ASSUME NEW c \in Calls, RunnerEnds(c) PROVE RemoteInv'
    BY <1>10 DEF RunnerEnds
  <1>11. ASSUME NEW c \in Calls, SelectDone(c) PROVE RemoteInv'
    BY <1>11 DEF SelectDone, Answer, Goto
  <1>12. ASSUME NEW c \in Calls, SelectContext(c) PROVE RemoteInv'
    BY <1>12 DEF SelectContext, Answer, Goto
  <1>13. ASSUME NEW c \in Calls, LeaderForks(c) PROVE RemoteInv'
    BY <1>13 DEF LeaderForks
  <1>14. ASSUME NEW c \in Calls, LeaderExits(c) PROVE RemoteInv'
    BY <1>14 DEF LeaderExits
  <1>15. ASSUME NEW c \in Calls, ChildEnds(c) PROVE RemoteInv'
    BY <1>15 DEF ChildEnds
  <1>16. ASSUME NEW c \in Calls, Expire(c) PROVE RemoteInv'
    BY <1>16 DEF Expire
  <1>17. CASE UNCHANGED vars
    BY <1>17 DEF vars
  <1> QED
    BY <1>1, <1>2, <1>3, <1>4, <1>5, <1>6, <1>7, <1>8, <1>9, <1>10,
       <1>11, <1>12, <1>13, <1>14, <1>15, <1>16, <1>17
       DEF Next, Local, Remote, Done

LEMMA SpecIInv == Spec => []IInv
  <1>1. IInv /\ [Next]_vars => IInv'
    BY NextTypeOK, NextLocalInv, NextRemoteInv DEF IInv
  <1> QED
    BY <1>1, InitIInv, PTL DEF Spec

(* Every call, buffer and process has the shape the code gives it.         *)
THEOREM TypeCorrect == Spec => []TypeOK
  <1>1. IInv => TypeOK
    BY DEF IInv
  <1> QED
    BY <1>1, SpecIInv, PTL

(* Output is read when nobody writes to it any more, for any number of     *)
(* calls.                                                                  *)
THEOREM OutputSettledHolds == Spec => []OutputSettled
  <1>1. IInv => OutputSettled
    BY DEF IInv, TypeOK, LocalInv, RemoteInv, OutputSettled
  <1> QED
    BY <1>1, SpecIInv, PTL

(* A local process does not outlive its call, not even as a zombie.        *)
THEOREM LeaderReapedHolds == Spec => []LeaderReaped
  <1>1. IInv => LeaderReaped
    BY DEF IInv, LocalInv, LeaderReaped
  <1> QED
    BY <1>1, SpecIInv, PTL
=============================================================================
