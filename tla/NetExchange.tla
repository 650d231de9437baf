---------------------------- MODULE NetExchange ----------------------------
(***************************************************************************)
(* ctx.tcp.exchange and ctx.udp.exchange: one request and its response     *)
(* with an address given by the caller.  The time-out bounds the dialling, *)
(* and from then on once more the exchange.  Udp resolves the name of the  *)
(* host before it dials, which nothing bounds.                             *)
(*                                                                         *)
(* Time is counted in ticks from the dialling on.  The peer is external:   *)
(* it sends bytes (udp: one datagram), may end its side or reset the       *)
(* connection, or stay silent.  A response is counted in bytes; want is    *)
(* max_response_bytes.                                                     *)
(***************************************************************************)
EXTENDS ConnectorCall

CONSTANTS MaxBytes,   \* bound on what the peer sends, and on the limit
          MaxTimeout  \* bound on the time-out, in ticks

ASSUME NetAssumption == MaxBytes \in Nat \ {0} /\ MaxTimeout \in Nat \ {0}

NetOps == {"tcp", "udp"}

(* ResolveTimeout: the time asked for, or the default, cut to what is left *)
(* of the context; a context that has ended is refused.  The same for both *)
(* limits is done by ResolveMaxResponseBytes.                              *)
BeginExchange ==
  \E o \in NetOps, n \in 1..MaxBytes, t \in 1..MaxTimeout :
    Begin(o, n, IF o = "udp" THEN "address" ELSE "connect",
          [arrived |-> 0, end |-> "open", clock |-> 0, deadline |-> t, timeout |-> t], [n |-> 0])

ContextOver(o) ==
  /\ Answer("idle", "CONNECTOR_ERROR")
  /\ op' = o
  /\ UNCHANGED <<want, config, limit, client, remote, got>>

-----------------------------------------------------------------------------
(* net.ResolveUDPAddr, without time-out or context: it takes its time.     *)
ResolveUDPAddr ==
  /\ op = "udp"
  /\ \/ Goto("address", "connect") /\ UNCHANGED code
     \/ Answer("address", "CONNECTOR_ERROR")
  /\ UNCHANGED <<request, config, limit, client, remote, got>>

(* Mutant of NetDial: no deadline is set for the exchange.                 *)
NetDialUnbounded ==
  /\ op \in NetOps
  /\ Goto("connect", "write")
  /\ client' = "open"
  /\ remote' = [remote EXCEPT !.deadline = 3 * MaxTimeout]
  /\ UNCHANGED <<request, config, limit, got, code>>

NetDial ==
  /\ op \in NetOps
  /\ \/ /\ Answer("connect", "CONNECTOR_ERROR")
        /\ UNCHANGED <<client, remote>>
     \/ /\ Goto("connect", "write")
        /\ client' = "open"
        /\ remote' = [remote EXCEPT !.deadline = remote.clock + remote.timeout]
        /\ UNCHANGED code
  /\ UNCHANGED <<request, config, limit, got>>

Write ==
  /\ op \in NetOps
  /\ \/ Goto("write", "exchange") /\ UNCHANGED code
     \/ Answer("write", "CONNECTOR_ERROR")
  /\ UNCHANGED <<request, config, limit, client, remote, got>>

TimeUp == remote.clock = remote.deadline

(* Mutant of TcpRead: one Read is taken for the whole response.            *)
TcpReadOnce ==
  /\ At({"tcp"})
  /\ \E n \in 1..Smaller(remote.arrived, want) :
       /\ got' = [n |-> n]
       /\ Answer("exchange", "ok")
  /\ UNCHANGED <<request, config, limit, client, remote>>

(* The loop of Exchange: Read returns some of what has arrived; it goes on *)
(* until the limit.                                                        *)
TcpRead ==
  /\ At({"tcp"}) /\ ~TimeUp
  /\ \E n \in 1..Smaller(remote.arrived - got.n, want - got.n) :
       /\ got' = [n |-> got.n + n]
       /\ IF got.n + n = want THEN Answer("exchange", "ok") ELSE UNCHANGED <<pc, code>>
  /\ UNCHANGED <<request, config, limit, client, remote>>

(* Read fails: the end of the stream is the end of the response, and any   *)
(* other error is too if something was read before.                        *)
TcpReadEnds ==
  /\ At({"tcp"})
  /\ \/ /\ remote.end = "eof" /\ remote.arrived = got.n
        /\ Answer("exchange", "ok")
     \/ /\ remote.end = "reset" \/ TimeUp
        /\ Answer("exchange", IF got.n > 0 THEN "ok" ELSE "CONNECTOR_ERROR")
  /\ UNCHANGED <<request, config, limit, client, remote, got>>

(* One datagram; what does not fit into the buffer is lost.                *)
UdpRead ==
  /\ At({"udp"})
  /\ \/ /\ remote.arrived > 0 /\ ~TimeUp
        /\ got' = [n |-> Smaller(remote.arrived, want)]
        /\ Answer("exchange", "ok")
     \/ /\ remote.end = "reset" \/ TimeUp
        /\ Answer("exchange", "CONNECTOR_ERROR")
        /\ UNCHANGED got
  /\ UNCHANGED <<request, config, limit, client, remote>>

-----------------------------------------------------------------------------
Waiting == op \in NetOps /\ pc \in {"connect", "write", "exchange"}

Tick ==
  /\ Waiting /\ ~TimeUp
  /\ remote' = [remote EXCEPT !.clock = @ + 1]
  /\ UNCHANGED <<pc, request, config, limit, client, got, code>>

Deliver ==
  /\ op \in NetOps /\ pc \in {"write", "exchange"} /\ remote.end = "open"
  /\ \/ op = "tcp" /\ remote.arrived < MaxBytes
        /\ remote' = [remote EXCEPT !.arrived = @ + 1]
     \/ op = "udp" /\ remote.arrived = 0
        /\ \E n \in 1..MaxBytes : remote' = [remote EXCEPT !.arrived = n]
     \/ op = "tcp" /\ remote' = [remote EXCEPT !.end = "eof"]
     \/ remote' = [remote EXCEPT !.end = "reset"]
  /\ UNCHANGED <<pc, request, config, limit, client, got, code>>

NetStep == ResolveUDPAddr \/ NetDial \/ Write \/ TcpRead \/ TcpReadEnds \/ UdpRead \/ Tick

-----------------------------------------------------------------------------
NetTypeOK ==
  Waiting => /\ remote.arrived \in 0..MaxBytes /\ got.n \in 0..want
             /\ got.n <= remote.arrived
             /\ remote.clock <= remote.deadline

(* While its connection is not broken and its time not up, a TCP response  *)
(* is answered only as a whole: as much as was asked for, or all there was *)
(* when the peer ended the stream, however the bytes were cut into         *)
(* segments.  Nothing read is an answer only if nothing was sent.          *)
ResponseWhole ==
  (op = "tcp" /\ pc = "done" /\ code = "ok") =>
    /\ (remote.end # "reset" /\ ~TimeUp) =>
         got.n = want \/ (remote.end = "eof" /\ got.n = remote.arrived)
    /\ got.n = 0 => remote.end = "eof" /\ remote.arrived = 0

(* docs/connector.md:303 has a TCP response read to the end of the stream, *)
(* the deadline or the limit; by docs/connector.md:327 a read that fails   *)
(* is CONNECTOR_ERROR.                                                     *)
ResponseEndsAsDocumented ==
  (op = "tcp" /\ pc = "done" /\ code = "ok") =>
    got.n = want \/ (remote.end = "eof" /\ got.n = remote.arrived) \/ TimeUp

(* From its dialling on an exchange takes at most twice the time it was    *)
(* given: once to dial, once to write and read, however slowly the bytes   *)
(* arrive.  (What the name of a UDP host takes before comes on top.)       *)
TwoTimeouts ==
  (op \in NetOps /\ remote # Nothing) => remote.clock <= 2 * remote.timeout
=============================================================================
