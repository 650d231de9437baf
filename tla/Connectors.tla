----------------------------- MODULE Connectors -----------------------------
(***************************************************************************)
(* The resource connectors and OpenAPI tools together, as a script or an   *)
(* agent sees them: one call after the other is made, to any of them, while *)
(* the configuration is reloaded and the other sides change.  The load of  *)
(* an API service's document is one of these calls.                        *)
(***************************************************************************)
EXTENDS RedisConnector, KafkaConnector, SqlConnector, NetExchange, OpenApiLoad, OpenApiCall

Ops == RedisOps \cup KafkaOps \cup SqlOps \cup NetOps \cup DockerOps \cup HttpOps
       \cup {"openapi.load"}

BeginCall ==
  \/ BeginCommand \/ BeginLimited \/ BeginScan
  \/ BeginInfo \/ BeginTopics \/ BeginOffsets \/ BeginGroups \/ BeginLagOf
  \/ BeginQuery \/ BeginVersion
  \/ BeginExchange \/ BeginHttp \/ BeginDocker \/ BeginOpenApi \/ BeginLoad
  \/ \E o \in NetOps : ContextOver(o)
  \/ \E o \in Ops \ {"openapi", "openapi.load"} : Refuse(o)

Step == RedisStep \/ KafkaStep \/ SqlStep \/ NetStep \/ HttpDockerStep \/ PrepareRequest
        \/ LoadStep \/ Ping \/ Close

(* The read loops of tcp and udp have their own way with errors, and so    *)
(* has a query whose rows are over.                                        *)
Fail == op \notin NetOps /\ ~RowsOver /\ RequestFails

(* What others do meanwhile.                                               *)
Environment == Reload \/ Modify \/ LogChanges \/ GroupChanges \/ Deliver

Next == BeginCall \/ Step \/ Fail \/ Finish \/ Environment

Spec == Init /\ [][Next]_vars

(* The goroutine of the call runs, a server that was reached answers, a    *)
(* resolver of names and docker at the far end of SSH do, and time passes. *)
(* That a request fails in the end, because its context does, is not       *)
(* assumed, and nothing of TCP and UDP peers and of other clients.         *)
FairSpec == Spec /\ WF_vars(Step)

-----------------------------------------------------------------------------
(* TYPE, with what the connectors keep in remote and got.                  *)
TypeOK == CallTypeOK /\ op \in Ops \cup {"none"} /\ RedisTypeOK /\ NetTypeOK

(* Every call is answered: the scan loop and the read loop end, whatever   *)
(* the server returns and however fast others add to it.                   *)
CallEnds == pc # "idle" ~> pc \in {"idle", "done"}
=============================================================================
