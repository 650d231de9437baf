-------------------------- MODULE ConnectorProofs --------------------------
(***************************************************************************)
(* Theorems about Connectors, for every number of elements, buckets,       *)
(* partitions, groups, limits, bytes and reloads, and for all documents,   *)
(* operations and arguments.  Each property is about the calls of one      *)
(* connector; that the steps of the others cannot disturb it follows from  *)
(* the operations being apart and from what every step says of op.         *)
(*                                                                         *)
(* In order: clients, samples and scans of Redis, the time of exchanges,   *)
(* how calls begin and get on, SQL rows, the types, responses, Kafka's     *)
(* groups and offsets, the requests of OpenAPI tools, the load of a        *)
(* document.                                                               *)
(***************************************************************************)
EXTENDS Connectors, FoldLemmas, SequenceTheorems, TLAPS

USE DEF Goto

-----------------------------------------------------------------------------
(* Whose steps they are.                                                   *)
LEMMA RedisSteps == RedisStep => op \in RedisOps /\ pc # "idle"
  BY DEF RedisStep, LookupLimit, RedisDial, ServerCommand, KeyCommand, cardOp, NilCommand,
         HGet, HMGet, SlowlogGet, ClientList, ZRangeSample, LRange, ScanLoop, At, Answer, RedisOps,
         ServerOps, KeyOps, CardOps, NilOps, LimitedOps, ScanOps

LEMMA KafkaSteps == KafkaStep => op \in KafkaOps /\ pc # "idle"
  BY DEF KafkaStep, KafkaDial, BadLimit, KafkaFails, ClusterInfo, BrokerConfig, Topics, TopicDetail,
         PartitionHealth, ReadStarts, ReadEnds, NoGroups, ListGroups, DescribeGroups,
         LagSummary, ConsumerLag, At, Answer, KafkaOps, InfoOps, GroupOps

LEMMA SqlSteps == SqlStep => op \in SqlOps /\ pc # "idle"
  BY DEF SqlStep, SqlLookup, OpenPing, NextRow, RowsErr, RowsOver, QueryVersion, At, Answer, SqlOps

LEMMA NetSteps == NetStep => op \in NetOps /\ pc # "idle"
  BY DEF NetStep, ResolveUDPAddr, NetDial, Write, TcpRead, TcpReadEnds, UdpRead, Tick, Waiting, At, Answer, NetOps

LEMMA HttpDockerSteps == HttpDockerStep => op \in DockerOps \cup HttpOps /\ pc # "idle"
  BY DEF HttpDockerStep, TargetURL, Do, ReadBody, RunDockerFails, DockerRecords, DockerText,
         DockerInfo, DockerInspect, At, Answer, DockerOps, RecordOps, TextOps, HttpOps

LEMMA OpenApiSteps ==
  PrepareRequest \/ LoadStep => op \in {"openapi", "openapi.load"} /\ pc # "idle"
  BY DEF PrepareRequest, LoadStep, ReadPath, RegistryLoad

(* How every step treats pc and client: it dials, it answers, it leaves    *)
(* the client alone on one side of the dialling, or it ends the call.      *)
Before == {"idle", "lookup", "resolve", "dial", "address", "connect", "load", "done"}
During == {"write", "ping", "exchange", "close"}

Harmless ==
  \/ client' = client /\ \/ pc' = pc
                         \/ pc \in Before /\ pc' \in Before
                         \/ pc \in During /\ pc' \in During
                         \/ pc' = IF client = "open" THEN "close" ELSE "done"
  \/ pc' \in During /\ client' = "open"
  \/ pc' \in Before /\ client' # "open"

LEMMA HarmlessKeeps == ClientReleased /\ Harmless => ClientReleased'
  BY DEF ClientReleased, Harmless, Before, During

LEMMA BeginHarmless ==
  ASSUME NEW o, NEW n, NEW to \in {"lookup", "dial", "address", "connect", "load"}, NEW there, NEW empty,
         Begin(o, n, to, there, empty)
  PROVE  Harmless
  BY DEF Begin, Harmless, Before

LEMMA ReplyHarmless == ASSUME NEW g, Reply(g) PROVE Harmless
  BY DEF Reply, Answer, Harmless
LEMMA RedisHarmless == RedisStep => Harmless
  <1>1. LookupLimit => Harmless
    BY DEF LookupLimit, Answer, Harmless, Before, During
  <1>2. RedisDial => Harmless
    BY DEF RedisDial, Answer, Harmless, Before, During
  <1>3. ServerCommand => Harmless
    BY ReplyHarmless DEF ServerCommand, At, Harmless, Before, During
  <1>4. KeyCommand => Harmless
    BY ReplyHarmless DEF KeyCommand, At, Harmless, Before, During
  <1>5. cardOp => Harmless
    BY ReplyHarmless DEF cardOp, At, Harmless, Before, During
  <1>6. NilCommand => Harmless
    BY ReplyHarmless DEF NilCommand, At, Harmless, Before, During
  <1>7. HGet => Harmless
    BY ReplyHarmless DEF HGet, At, Harmless, Before, During
  <1>8. HMGet => Harmless
    BY ReplyHarmless DEF HMGet, At, Harmless, Before, During
  <1>9. SlowlogGet => Harmless
    BY ReplyHarmless DEF SlowlogGet, At, Harmless, Before, During
  <1>10. ClientList => Harmless
    BY ReplyHarmless DEF ClientList, At, Harmless, Before, During
  <1>11. ZRangeSample => Harmless
    BY ReplyHarmless DEF ZRangeSample, At, Harmless, Before, During
  <1>12. LRange => Harmless
    BY ReplyHarmless DEF LRange, At, Harmless, Before, During
  <1>13. ScanLoop => Harmless
    BY DEF ScanLoop, At, Answer, ScanTo, Harmless, Before, During
  <1> QED
    BY <1>1, <1>2, <1>3, <1>4, <1>5, <1>6, <1>7, <1>8, <1>9, <1>10, <1>11, <1>12, <1>13 DEF RedisStep

LEMMA KafkaHarmless == KafkaStep => Harmless
  <1>1. KafkaDial => Harmless
    BY DEF KafkaDial, Answer, Harmless, Before, During
  <1>2. BadLimit => Harmless
    BY DEF BadLimit, KafkaFails, Answer, Harmless, Before, During
  <1>3. ClusterInfo => Harmless
    BY ReplyHarmless DEF ClusterInfo, At, Harmless, Before, During
  <1>4. BrokerConfig => Harmless
    BY ReplyHarmless DEF BrokerConfig, At, Harmless, Before, During
  <1>5. Topics => Harmless
    BY ReplyHarmless DEF Topics, At, Harmless, Before, During
  <1>6. TopicDetail => Harmless
    BY ReplyHarmless DEF TopicDetail, KafkaFails, Answer, At, Harmless, Before, During
  <1>7. PartitionHealth => Harmless
    BY ReplyHarmless DEF PartitionHealth, At, Harmless, Before, During
  <1>8. ReadStarts => Harmless
    BY DEF ReadStarts, At, Harmless, Before, During
  <1>9. ReadEnds => Harmless
    BY DEF ReadEnds, At, Answer, Harmless, Before, During
  <1>10. NoGroups => Harmless
    BY ReplyHarmless DEF NoGroups, At, Harmless, Before, During
  <1>11. ListGroups => Harmless
    BY DEF ListGroups, At, Harmless, Before, During
  <1>12. DescribeGroups => Harmless
    BY ReplyHarmless DEF DescribeGroups, At, GroupsAnswer, Harmless, Before, During
  <1>13. LagSummary => Harmless
    BY ReplyHarmless DEF LagSummary, At, GroupsAnswer, Harmless, Before, During
  <1>14. ConsumerLag => Harmless
    BY ReplyHarmless DEF ConsumerLag, KafkaFails, Answer, At, Harmless, Before, During
  <1> QED
    BY <1>1, <1>2, <1>3, <1>4, <1>5, <1>6, <1>7, <1>8, <1>9, <1>10, <1>11, <1>12, <1>13, <1>14 DEF KafkaStep

LEMMA SqlHarmless == SqlStep => Harmless
  <1>1. SqlLookup => Harmless
    BY DEF SqlLookup, Answer, Harmless, Before, During
  <1>2. OpenPing => Harmless
    BY DEF OpenPing, Answer, Harmless, Before, During
  <1>3. NextRow => Harmless
    BY DEF NextRow, At, Answer, Harmless, Before, During
  <1>4. RowsErr => Harmless
    BY DEF RowsErr, RowsOver, At, Answer, Harmless, Before, During
  <1>5. QueryVersion => Harmless
    BY ReplyHarmless DEF QueryVersion, At, Harmless, Before, During
  <1> QED
    BY <1>1, <1>2, <1>3, <1>4, <1>5 DEF SqlStep

LEMMA NetHarmless == NetStep => Harmless
  <1>1. NetDial => Harmless
    BY DEF NetDial, Answer, Harmless, Before, During
  <1>2. Write => Harmless
    BY DEF Write, Answer, Harmless, Before, During
  <1>3. TcpRead => Harmless
    BY DEF TcpRead, At, Answer, Harmless, Before, During
  <1>4. TcpReadEnds => Harmless
    BY DEF TcpReadEnds, At, Answer, Harmless, Before, During
  <1>5. UdpRead => Harmless
    BY DEF UdpRead, At, Answer, Harmless, Before, During
  <1>6. Tick => Harmless
    BY DEF Tick, Waiting, Harmless, Before, During
  <1>7. ResolveUDPAddr => Harmless
    BY DEF ResolveUDPAddr, Answer, Harmless, Before
  <1> QED
    BY <1>1, <1>2, <1>3, <1>4, <1>5, <1>6, <1>7 DEF NetStep

LEMMA HttpDockerHarmless == HttpDockerStep => Harmless
  <1>1. TargetURL => Harmless
    BY DEF TargetURL, Answer, Harmless, Before, During
  <1>2. Do => Harmless
    BY DEF Do, Answer, Harmless, Before, During
  <1>3. ReadBody => Harmless
    BY DEF ReadBody, At, Answer, Harmless, Before, During
  <1>4. RunDockerFails => Harmless
    BY DEF RunDockerFails, Answer, Harmless, Before, During
  <1>5. DockerRecords => Harmless
    BY DEF DockerRecords, Answer, Harmless, Before, During
  <1>6. DockerText => Harmless
    BY DEF DockerText, Answer, Harmless, Before, During
  <1>7. DockerInfo => Harmless
    BY DEF DockerInfo, Answer, Harmless, Before, During
  <1>8. DockerInspect => Harmless
    BY DEF DockerInspect, Answer, Harmless, Before, During
  <1> QED
    BY <1>1, <1>2, <1>3, <1>4, <1>5, <1>6, <1>7, <1>8 DEF HttpDockerStep

LEMMA OpenApiHarmless == PrepareRequest \/ LoadStep => Harmless
  <1>1. PrepareRequest => Harmless
    BY DEF PrepareRequest, Answer, Harmless, Before
  <1>2. ReadPath => Harmless
    BY DEF ReadPath, Harmless
  <1>3. RegistryLoad => Harmless
    BY DEF RegistryLoad, Answer, Harmless
  <1> QED
    BY <1>1, <1>2, <1>3 DEF LoadStep

LEMMA BeginCallHarmless == BeginCall => Harmless
  <1>1. BeginCommand => Harmless
    BY BeginHarmless DEF BeginCommand
  <1>2. BeginLimited => Harmless
    BY BeginHarmless DEF BeginLimited
  <1>3. BeginScan => Harmless
    BY BeginHarmless DEF BeginScan
  <1>4. BeginInfo => Harmless
    BY BeginHarmless DEF BeginInfo
  <1>5. BeginTopics => Harmless
    BY BeginHarmless DEF BeginTopics
  <1>6. BeginOffsets => Harmless
    BY BeginHarmless DEF BeginOffsets
  <1>7. BeginGroups => Harmless
    BY BeginHarmless DEF BeginGroups
  <1>8. BeginLagOf => Harmless
    BY BeginHarmless DEF BeginLagOf
  <1>9. BeginQuery => Harmless
    BY BeginHarmless DEF BeginQuery
  <1>10. BeginVersion => Harmless
    BY BeginHarmless DEF BeginVersion
  <1>11. BeginExchange => Harmless
    BY BeginHarmless DEF BeginExchange
  <1>12. BeginHttp => Harmless
    BY BeginHarmless DEF BeginHttp
  <1>13. BeginDocker => Harmless
    BY BeginHarmless DEF BeginDocker
  <1>14. BeginOpenApi => Harmless
    BY BeginHarmless DEF BeginOpenApi
  <1>15. BeginLoad => Harmless
    BY BeginHarmless DEF BeginLoad
  <1>16. ASSUME NEW o, ContextOver(o) \/ Refuse(o) PROVE Harmless
    BY <1>16 DEF ContextOver, Refuse, Answer, Harmless
  <1> QED
    BY <1>1, <1>2, <1>3, <1>4, <1>5, <1>6, <1>7, <1>8, <1>9, <1>10, <1>11, <1>12, <1>13, <1>14, <1>15, <1>16 DEF BeginCall

LEMMA EnvironmentHarmless == Environment => Harmless
  BY DEF Environment, Reload, Modify, LogChanges, GroupChanges, Deliver, Harmless

LEMMA NextHarmless == Next => Harmless
  <1>1. Ping \/ Close \/ Finish \/ RequestFails => Harmless
    BY DEF Ping, Close, Finish, RequestFails, Answer, Harmless, Before, During
  <1> QED
    BY <1>1, BeginCallHarmless, RedisHarmless, KafkaHarmless, SqlHarmless, NetHarmless,
       HttpDockerHarmless, OpenApiHarmless, EnvironmentHarmless
       DEF Next, Step, Fail

(* Whatever is called, whatever fails and wherever a reload falls, a call  *)
(* that was answered has closed the client it opened.                      *)
THEOREM ClientReleasedHolds == Spec => []ClientReleased
  <1>1. Init => ClientReleased
    BY DEF Init, ClientReleased
  <1>2. ClientReleased /\ [Next]_vars => ClientReleased'
    <2>1. ClientReleased /\ Next => ClientReleased'
      BY NextHarmless, HarmlessKeeps
    <2>2. ClientReleased /\ UNCHANGED vars => ClientReleased'
      BY DEF ClientReleased, vars
    <2> QED
      BY <2>1, <2>2
  <1> QED
    BY <1>1, <1>2, PTL DEF Spec

-----------------------------------------------------------------------------
(* Numbers keep their types, whoever gives them.                           *)
Typed == want \in Int /\ entry \in Entries /\ limit \in 0..MaxLimit

LEMMA EntryLimit == ASSUME NEW e \in Entries PROVE e.limit \in 0..MaxLimit
  <1>1. CASE e = Absent
    <2>1. e.limit = 0
      BY <1>1 DEF Absent
    <2> QED
      BY <2>1, CallAssumption
  <1>2. CASE e \in [known : {TRUE}, sound : BOOLEAN, limit : 1..MaxLimit]
    <2>1. e.limit \in 1..MaxLimit
      BY <1>2
    <2> QED
      BY <2>1
  <1> QED
    BY <1>1, <1>2 DEF Entries

(* What a request may ask for.                                             *)
Wants == {0, 1} \cup 0..MaxLimit + 1 \cup -1..MaxLimit + 1 \cup 1..MaxBytes

LEMMA WantsAreNumbers == Wants \subseteq Int
  BY CallAssumption, NetAssumption DEF Wants

LEMMA BeginTyped ==
  ASSUME Typed, NEW o, NEW n \in Wants, NEW to, NEW there, NEW empty, Begin(o, n, to, there, empty)
  PROVE  Typed'
  BY WantsAreNumbers DEF Typed, Begin, Entries

LEMMA BeginCallTyped == Typed /\ BeginCall => Typed'
  <1> SUFFICES ASSUME Typed, BeginCall PROVE Typed'
    OBVIOUS
  <1>0. 0 \in Wants /\ 1 \in Wants /\ 0..MaxLimit + 1 \subseteq Wants
        /\ -1..MaxLimit + 1 \subseteq Wants /\ 1..MaxBytes \subseteq Wants /\ {0, 1} \subseteq Wants
    BY DEF Wants
  <1>1. CASE BeginCommand
    BY <1>0, <1>1, BeginTyped DEF BeginCommand
  <1>2. CASE BeginLimited
    BY <1>0, <1>2, BeginTyped DEF BeginLimited
  <1>3. CASE BeginScan
    BY <1>0, <1>3, BeginTyped DEF BeginScan
  <1>4. CASE BeginInfo \/ BeginLagOf \/ BeginOffsets
    BY <1>0, <1>4, BeginTyped DEF BeginInfo, BeginLagOf, BeginOffsets
  <1>5. CASE BeginTopics \/ BeginGroups
    BY <1>0, <1>5, BeginTyped DEF BeginTopics, BeginGroups
  <1>6. CASE BeginQuery \/ BeginVersion
    BY <1>0, <1>6, BeginTyped DEF BeginQuery, BeginVersion
  <1>7. CASE BeginExchange
    BY <1>0, <1>7, BeginTyped DEF BeginExchange
  <1>8. CASE BeginHttp \/ BeginDocker \/ BeginOpenApi \/ BeginLoad
    BY <1>0, <1>8, BeginTyped DEF BeginHttp, BeginDocker, BeginOpenApi, BeginLoad
  <1>9. ASSUME NEW o, ContextOver(o) \/ Refuse(o) PROVE Typed'
    BY <1>9 DEF ContextOver, Refuse, Typed, config
  <1> QED
    BY <1>1, <1>2, <1>3, <1>4, <1>5, <1>6, <1>7, <1>8, <1>9 DEF BeginCall

LEMMA StepTyped == Typed /\ Next /\ ~BeginCall => Typed'
  <1> SUFFICES ASSUME Typed, Next, ~BeginCall PROVE Typed'
    OBVIOUS
  <1>1. CASE UNCHANGED <<want, entry, limit>>
    BY <1>1 DEF Typed, Entries
  <1>2. ASSUME UNCHANGED <<want, entry>>, limit' \in 0..MaxLimit PROVE Typed'
    BY <1>2 DEF Typed, Entries
  <1>3. entry.limit \in 0..MaxLimit
    BY EntryLimit DEF Typed
  <1>4. CASE RedisStep
    <2>1. CASE LookupLimit
      <3>1. CASE UNCHANGED limit
        BY <1>1, <2>1, <3>1 DEF LookupLimit, request, config
      <3>2. CASE limit' = Smaller(want, entry.limit) /\ want > 0
        <4>1. want \in Int
          BY DEF Typed
        <4>2. limit' \in 0..MaxLimit
          BY <1>3, <3>2, <4>1, CallAssumption DEF Smaller
        <4> QED
          BY <1>2, <2>1, <4>2 DEF LookupLimit, request, config
      <3> QED
        BY <2>1, <3>1, <3>2 DEF LookupLimit, ClampLimit, Acceptable
    <2>2. CASE RedisDial \/ ScanLoop
      BY <1>1, <2>2 DEF RedisDial, ScanLoop, request, config
    <2>3. ASSUME NEW g, Reply(g) PROVE Typed'
      BY <1>1, <2>3 DEF Reply, request, config
    <2> QED
      BY <1>4, <2>1, <2>2, <2>3 DEF RedisStep, ServerCommand, KeyCommand, cardOp, NilCommand,
         HGet, HMGet, SlowlogGet, ClientList, ZRangeSample, LRange
  <1>5. CASE KafkaStep
    <2>1. CASE KafkaDial
      BY <1>1, <1>2, <1>3, <2>1 DEF KafkaDial, request, config
    <2>2. ASSUME NEW g, Reply(g) PROVE Typed'
      BY <1>1, <2>2 DEF Reply, request, config
    <2>3. ASSUME NEW o, NEW c, KafkaFails(o, c) PROVE Typed'
      BY <1>1, <2>3 DEF KafkaFails, request, config
    <2>4. CASE ReadStarts \/ ReadEnds \/ ListGroups
      BY <1>1, <2>4 DEF ReadStarts, ReadEnds, ListGroups, request, config
    <2> QED
      BY <1>5, <2>1, <2>2, <2>3, <2>4 DEF KafkaStep, BadLimit, ClusterInfo, BrokerConfig, Topics,
         TopicDetail, PartitionHealth, NoGroups, DescribeGroups, LagSummary, GroupsAnswer, ConsumerLag
  <1>6. CASE SqlStep
    <2>1. CASE SqlLookup
      BY <1>1, <1>2, <1>3, <2>1 DEF SqlLookup, request, config
    <2>2. CASE OpenPing \/ NextRow \/ RowsErr \/ QueryVersion
      BY <1>1, <2>2 DEF OpenPing, NextRow, RowsErr, QueryVersion, Reply, request, config
    <2> QED
      BY <1>6, <2>1, <2>2 DEF SqlStep
  <1>7. CASE NetStep
    BY <1>1, <1>7 DEF NetStep, ResolveUDPAddr, NetDial, Write, TcpRead, TcpReadEnds, UdpRead, Tick, request, config
  <1>8. CASE HttpDockerStep
    BY <1>1, <1>8 DEF HttpDockerStep, TargetURL, Do, ReadBody, RunDockerFails, DockerRecords,
       DockerText, DockerInfo, DockerInspect, request, config
  <1>9. CASE PrepareRequest
    BY <1>1, <1>2, <1>3, <1>9 DEF PrepareRequest, request, config
  <1>10. CASE LoadStep \/ Ping \/ Close \/ Fail
    BY <1>1, <1>10 DEF LoadStep, ReadPath, RegistryLoad, Ping, Close, Fail, RequestFails, request, config
  <1>11. CASE Finish
    <2>1. 0 \in 0..MaxLimit
      BY CallAssumption
    <2> QED
      BY <1>11, <2>1 DEF Finish, Typed, Entries
  <1>12. CASE Environment
    <2>1. CASE Reload
      BY <2>1 DEF Reload, Typed, Entries, request
    <2>2. CASE Modify \/ LogChanges \/ GroupChanges \/ Deliver
      BY <1>1, <2>2 DEF Modify, LogChanges, GroupChanges, Deliver, request, config
    <2> QED
      BY <1>12, <2>1, <2>2 DEF Environment
  <1> QED
    BY <1>4, <1>5, <1>6, <1>7, <1>8, <1>9, <1>10, <1>11, <1>12 DEF Next, Step

LEMMA TypedHolds == Spec => []Typed
  <1>1. Init => Typed
    BY CallAssumption DEF Init, Typed, Entries
  <1>2. Typed /\ [Next]_vars => Typed'
    <2>1. Typed /\ Next => Typed'
      BY BeginCallTyped, StepTyped
    <2>2. Typed /\ UNCHANGED vars => Typed'
      BY DEF Typed, vars, request, config, Entries
    <2> QED
      BY <2>1, <2>2
  <1> QED
    BY <1>1, <1>2, PTL DEF Spec
-----------------------------------------------------------------------------
(* A call that was answered well was answered in its exchange, or at the   *)
(* single step of an operation without one, and nothing changes what it    *)
(* answers until it is over.                                               *)
Answered == pc \in {"close", "done"} /\ code = "ok"

LEMMA BeginDoesNotAnswer == BeginCall => ~Answered'
  <1>1. ASSUME NEW o, NEW n, NEW to \in {"lookup", "dial", "address", "connect", "load"}, NEW there, NEW empty,
               Begin(o, n, to, there, empty)
        PROVE  ~Answered'
    BY <1>1 DEF Begin, Answered
  <1>2. ASSUME NEW o, ContextOver(o) \/ Refuse(o) PROVE ~Answered'
    BY <1>2 DEF ContextOver, Refuse, Answer, Answered
  <1>3. CASE BeginCommand \/ BeginLimited \/ BeginScan
    BY <1>1, <1>3 DEF BeginCommand, BeginLimited, BeginScan
  <1>4. CASE BeginInfo \/ BeginLagOf \/ BeginOffsets
    BY <1>1, <1>4 DEF BeginInfo, BeginLagOf, BeginOffsets
  <1>5. CASE BeginTopics \/ BeginGroups
    BY <1>1, <1>5 DEF BeginTopics, BeginGroups
  <1>6. CASE BeginQuery \/ BeginVersion
    BY <1>1, <1>6 DEF BeginQuery, BeginVersion
  <1>7. CASE BeginExchange
    BY <1>1, <1>7 DEF BeginExchange
  <1>8. CASE BeginHttp \/ BeginDocker \/ BeginOpenApi \/ BeginLoad
    BY <1>1, <1>8 DEF BeginHttp, BeginDocker, BeginOpenApi, BeginLoad
  <1> QED
    BY <1>2, <1>3, <1>4, <1>5, <1>6, <1>7, <1>8 DEF BeginCall

(* The steps of the connectors, by which a call gets on.                   *)
Exchanging == RedisStep \/ KafkaStep \/ SqlStep \/ NetStep \/ HttpDockerStep
              \/ PrepareRequest \/ LoadStep

LEMMA ExchangingIsNotOver == Exchanging => pc \notin {"close", "done"}
  <1>1. RedisStep => pc \notin {"close", "done"}
    BY DEF RedisStep, LookupLimit, RedisDial, ServerCommand, KeyCommand, cardOp, NilCommand,
       HGet, HMGet, SlowlogGet, ClientList, ZRangeSample, LRange, ScanLoop, At, Answer
  <1>2. KafkaStep => pc \notin {"close", "done"}
    BY DEF KafkaStep, KafkaDial, BadLimit, KafkaFails, ClusterInfo, BrokerConfig, Topics, TopicDetail,
       PartitionHealth, ReadStarts, ReadEnds, NoGroups, ListGroups, DescribeGroups,
       LagSummary, ConsumerLag, At, Answer
  <1>3. SqlStep => pc \notin {"close", "done"}
    BY DEF SqlStep, SqlLookup, OpenPing, NextRow, RowsErr, RowsOver, QueryVersion, At, Answer
  <1>4. NetStep => pc \notin {"close", "done"}
    BY DEF NetStep, ResolveUDPAddr, NetDial, Write, TcpRead, TcpReadEnds, UdpRead, Tick, Waiting, At, Answer
  <1>5. HttpDockerStep => pc \notin {"close", "done"}
    BY DEF HttpDockerStep, TargetURL, Do, ReadBody, RunDockerFails, DockerRecords, DockerText,
       DockerInfo, DockerInspect, At, Answer
  <1>6. PrepareRequest \/ LoadStep => pc \notin {"close", "done"}
    BY DEF PrepareRequest, LoadStep, ReadPath, RegistryLoad, Answer
  <1> QED
    BY <1>1, <1>2, <1>3, <1>4, <1>5, <1>6 DEF Exchanging

LEMMA AnswerStays ==
  ASSUME Next, pc \in {"close", "done"}, Answered'
  PROVE  Answered /\ UNCHANGED <<op, want, limit, remote, got>>
  <1>1. ~BeginCall /\ ~Exchanging
    BY BeginDoesNotAnswer, ExchangingIsNotOver
  <1>2. CASE Ping \/ Finish \/ Fail
    BY <1>2 DEF Ping, Finish, Fail, RequestFails, Answer, Answered
  <1>3. CASE Close
    BY <1>3 DEF Close, Answered, request
  <1>4. CASE Environment
    BY <1>4 DEF Environment, Reload, Modify, LogChanges, GroupChanges, Deliver, At
  <1> QED
    BY <1>1, <1>2, <1>3, <1>4 DEF Next, Step, Exchanging

LEMMA AnswerComes ==
  ASSUME Next, pc \notin {"close", "done"}, Answered'
  PROVE  Exchanging
  <1>1. ~BeginCall
    BY BeginDoesNotAnswer
  <1>2. CASE Ping \/ Finish \/ Fail \/ Close
    BY <1>2 DEF Ping, Finish, Close, Fail, RequestFails, Answer, Answered
  <1>3. CASE Environment
    BY <1>3 DEF Environment, Reload, Modify, LogChanges, GroupChanges, Deliver, Answered
  <1> QED
    BY <1>1, <1>2, <1>3 DEF Next, Step, Exchanging

(* No step but the first of a call changes its operation.                  *)
LEMMA ExchangingKeepsOp == Exchanging => UNCHANGED <<op, want>>
  <1>0. ASSUME NEW g, Reply(g) PROVE UNCHANGED <<op, want>>
    BY <1>0 DEF Reply, request
  <1>1. RedisStep => UNCHANGED <<op, want>>
    BY <1>0 DEF RedisStep, LookupLimit, RedisDial, ServerCommand, KeyCommand, cardOp, NilCommand,
       HGet, HMGet, SlowlogGet, ClientList, ZRangeSample, LRange, ScanLoop, request
  <1>2. KafkaStep => UNCHANGED <<op, want>>
    <2>1. ASSUME NEW o, NEW c, KafkaFails(o, c) PROVE UNCHANGED <<op, want>>
      BY <2>1 DEF KafkaFails, request
    <2> QED
      BY <1>0, <2>1 DEF KafkaStep, KafkaDial, BadLimit, ClusterInfo, BrokerConfig, Topics,
         TopicDetail, PartitionHealth, ReadStarts, ReadEnds, NoGroups, ListGroups, DescribeGroups,
         LagSummary, GroupsAnswer, ConsumerLag, request
  <1>3. SqlStep => UNCHANGED <<op, want>>
    BY <1>0 DEF SqlStep, SqlLookup, OpenPing, NextRow, RowsErr, RowsOver, QueryVersion, request
  <1>4. NetStep => UNCHANGED <<op, want>>
    BY DEF NetStep, ResolveUDPAddr, NetDial, Write, TcpRead, TcpReadEnds, UdpRead, Tick, request
  <1>5. HttpDockerStep => UNCHANGED <<op, want>>
    BY DEF HttpDockerStep, TargetURL, Do, ReadBody, RunDockerFails, DockerRecords, DockerText,
       DockerInfo, DockerInspect, request
  <1>6. PrepareRequest \/ LoadStep => UNCHANGED <<op, want>>
    BY DEF PrepareRequest, LoadStep, ReadPath, RegistryLoad, request
  <1> QED
    BY <1>1, <1>2, <1>3, <1>4, <1>5, <1>6 DEF Exchanging

(* The operations of the connectors are apart.                             *)
LEMMA FamilyOf ==
  ASSUME Exchanging
  PROVE  /\ op \in RedisOps => RedisStep
         /\ op \in SqlOps => SqlStep
         /\ op \in NetOps => NetStep
  <1>1. RedisOps \cap (KafkaOps \cup SqlOps \cup NetOps \cup DockerOps \cup HttpOps
                       \cup {"openapi.load"}) = {}
    BY DEF RedisOps, ServerOps, KeyOps, CardOps, NilOps, LimitedOps, ScanOps, KafkaOps, InfoOps,
       GroupOps, SqlOps, QueryOps, VersionOps, NetOps, DockerOps, RecordOps, TextOps, HttpOps
  <1>2. SqlOps \cap (KafkaOps \cup NetOps \cup DockerOps \cup HttpOps \cup {"openapi.load"}) = {}
    BY DEF KafkaOps, InfoOps, GroupOps, SqlOps, QueryOps, VersionOps, NetOps, DockerOps,
       RecordOps, TextOps, HttpOps
  <1>3. NetOps \cap (KafkaOps \cup DockerOps \cup HttpOps \cup {"openapi.load"}) = {}
    BY DEF KafkaOps, InfoOps, GroupOps, NetOps, DockerOps, RecordOps, TextOps, HttpOps
  <1>4. "openapi" \in HttpOps
    BY DEF HttpOps
  <1> QED
    BY <1>1, <1>2, <1>3, <1>4, RedisSteps, KafkaSteps, SqlSteps, NetSteps, HttpDockerSteps,
       OpenApiSteps DEF Exchanging
-----------------------------------------------------------------------------
SampleOps == {"client_list", "zrange_sample", "lrange"}

IsSample(g) ==
  g.from >= 0 => /\ g.n = Smaller(g.avail, limit)
                 /\ g.truncated <=> g.avail > limit

SampleInv == op \in SampleOps /\ Answered => IsSample(got)

(* One more than the limit, counted from an element that is not before the *)
(* first, is enough to tell whether there is more.                         *)
LEMMA RangeOfOneMore ==
  ASSUME NEW start \in Nat, NEW len \in Nat, NEW n \in Nat
  PROVE  LET avail == len - Smaller(RangeFirst(start, len), len)
         IN RangeLen(start, start + n, len) = Smaller(avail, n + 1)
  BY DEF RangeLen, RangeFirst, Smaller

LEMMA SampledExactly ==
  ASSUME NEW avail \in Int, NEW from, limit \in Nat,
         NEW fetched, fetched = avail \/ fetched = Smaller(avail, limit + 1)
  PROVE  IsSample(Sampled(fetched, avail, from))
  <1> SUFFICES ASSUME NEW s, s = Sampled(fetched, avail, from) PROVE IsSample(s)
    OBVIOUS
  <1>1. /\ s.n = Smaller(fetched, limit) /\ s.truncated = (fetched > limit)
        /\ s.avail = avail /\ s.from = from
    BY DEF Sampled
  <1>2. /\ Smaller(fetched, limit) = Smaller(avail, limit)
        /\ fetched > limit <=> avail > limit
    BY DEF Smaller
  <1> QED
    BY <1>1, <1>2 DEF IsSample

(* A list of connected clients, and the first elements of a sorted set or, *)
(* from the left end, of a list, are what there is up to the limit, and    *)
(* are said to be truncated exactly when there is more.                    *)
THEOREM SampleExactHolds == Spec => []SampleExact
  <1>1. Init => SampleInv
    BY DEF Init, SampleInv, Answered
  <1>2. Typed /\ SampleInv /\ [Next]_vars => SampleInv'
    <2> SUFFICES ASSUME Typed, SampleInv, Next, op' \in SampleOps, Answered'
                 PROVE  IsSample(got)'
      BY DEF SampleInv, IsSample, Answered, vars, request
    <2>1. CASE pc \in {"close", "done"}
      BY <2>1, AnswerStays DEF SampleInv, IsSample
    <2>2. CASE pc \notin {"close", "done"}
      <3>1. Exchanging
        BY <2>2, AnswerComes
      <3>2. op \in SampleOps /\ op \in RedisOps
        BY <3>1, ExchangingKeepsOp DEF SampleOps, RedisOps, LimitedOps
      <3>3. RedisStep
        BY <3>1, <3>2, FamilyOf
      <3>4. ~LookupLimit /\ ~RedisDial
        BY <2>2 DEF LookupLimit, RedisDial, Answer, Answered
      <3>5. ClientList \/ ZRangeSample \/ LRange
        BY <3>2, <3>3, <3>4 DEF RedisStep, ServerCommand, KeyCommand, cardOp, NilCommand, HGet,
           HMGet, SlowlogGet, ScanLoop, At, SampleOps, ServerOps, KeyOps, CardOps, NilOps, ScanOps
      <3>6. limit \in Nat
        BY CallAssumption DEF Typed
      <3>7. ASSUME NEW g, Reply(g), IsSample(g) PROVE IsSample(got)'
        BY <3>7 DEF Reply, IsSample
      <3>8. CASE ClientList
        <4>1. PICK avail \in 0..MaxLen : Reply(Sampled(avail, avail, 0))
          BY <3>8 DEF ClientList
        <4>2. avail \in Int
          BY RedisAssumption
        <4> QED
          BY <3>6, <3>7, <4>1, <4>2, SampledExactly
      <3>9. CASE ZRangeSample
        <4>1. PICK len \in 0..MaxLen : Reply(Sampled(RangeLen(0, limit, len), len, 0))
          BY <3>9 DEF ZRangeSample
        <4>2. len \in Nat
          BY RedisAssumption
        <4>3. RangeLen(0, limit, len) = Smaller(len, limit + 1)
          BY <3>6, <4>2 DEF RangeLen, RangeFirst, Smaller
        <4> QED
          BY <3>6, <3>7, <4>1, <4>2, <4>3, SampledExactly
      <3>10. CASE LRange
        <4>1. PICK len \in 0..MaxLen, start \in -MaxLen..MaxLen :
                Reply(Sampled(RangeLen(start, start + limit, len),
                              len - Smaller(RangeFirst(start, len), len), start))
          BY <3>10 DEF LRange
        <4>2. len \in Nat /\ start \in Int
          BY RedisAssumption
        <4> DEFINE avail == len - Smaller(RangeFirst(start, len), len)
        <4>3. avail \in Int
          BY <4>2 DEF RangeFirst, Smaller
        <4>4. CASE start >= 0
          <5>1. start \in Nat
            BY <4>2, <4>4
          <5>2. RangeLen(start, start + limit, len) = Smaller(avail, limit + 1)
            BY <3>6, <4>2, <5>1, RangeOfOneMore
          <5> QED
            BY <3>6, <3>7, <4>1, <4>3, <5>2, SampledExactly
        <4>5. CASE ~(start >= 0)
          <5>1. IsSample(Sampled(RangeLen(start, start + limit, len), avail, start))
            BY <4>5 DEF IsSample, Sampled
          <5> QED
            BY <3>7, <4>1, <5>1
        <4> QED
          BY <4>4, <4>5
      <3> QED
        BY <3>5, <3>8, <3>9, <3>10
    <2> QED
      BY <2>1, <2>2
  <1>3. SampleInv => SampleExact
    BY DEF SampleInv, IsSample, SampleExact, SampleOps, Answered
  <1> QED
    BY <1>1, <1>2, <1>3, TypedHolds, PTL DEF Spec
-----------------------------------------------------------------------------
(* Before a scan is answered, what has been there all the time in the      *)
(* buckets it is past is kept; then it has all of that or says that it     *)
(* stopped at the limit.                                                   *)
ScanRemote == [present : SUBSET Elems, stable : SUBSET Elems, from : Int]
ScanGot == [kept : SUBSET Elems, n : Int, cursor : Int, truncated : BOOLEAN]

Covered(r, g) ==
  /\ r \in ScanRemote /\ g \in ScanGot
  /\ r.stable \subseteq r.present
  /\ \A e \in r.stable : Bucket[e] > r.from /\ Bucket[e] <= g.cursor => e \in g.kept

Complete(r, g) ==
  IF g.truncated
    THEN g.n = limit
    ELSE {e \in r.stable : Bucket[e] > r.from} \subseteq g.kept

UnderWay == pc \notin {"idle", "close", "done"}

ScanInv ==
  op \in ScanOps => /\ UnderWay => Covered(remote, got)
                    /\ Answered => Complete(remote, got)

LEMMA BeginCallCovers ==
  ASSUME BeginCall, op' \in ScanOps, UnderWay'
  PROVE  Covered(remote', got')
  <1>1. ASSUME NEW o, NEW n, NEW to, NEW there, NEW empty, o \notin ScanOps,
               Begin(o, n, to, there, empty)
        PROVE  FALSE
    BY <1>1 DEF Begin
  <1>2. ~\E o : ContextOver(o) \/ Refuse(o)
    BY DEF ContextOver, Refuse, Answer, UnderWay
  <1>3. ~(BeginCommand \/ BeginLimited)
    BY <1>1 DEF BeginCommand, BeginLimited, ServerOps, KeyOps, CardOps, NilOps, LimitedOps, ScanOps
  <1>4. ~(BeginInfo \/ BeginLagOf \/ BeginOffsets \/ BeginTopics \/ BeginGroups)
    <2>1. /\ \A o \in GroupOps \cup InfoOps \cup {"topic_detail", "partition_health", "consumer_lag"} :
               o \notin ScanOps
          /\ \A o \in {"topics", "broker_config"} : o \notin ScanOps
          /\ "topic_offsets" \notin ScanOps /\ "consumer_lag_summary" \notin ScanOps
      BY DEF GroupOps, InfoOps, ScanOps
    <2>2. ~BeginInfo
      BY <1>1, <2>1 DEF BeginInfo
    <2>3. ~BeginLagOf
      BY <1>1, <2>1 DEF BeginLagOf
    <2>4. ~BeginOffsets
      BY <1>1, <2>1 DEF BeginOffsets
    <2>5. ~BeginTopics
      BY <1>1, <2>1 DEF BeginTopics
    <2>6. ~BeginGroups
      BY <1>1, <2>1 DEF BeginGroups
    <2> QED
      BY <2>2, <2>3, <2>4, <2>5, <2>6
  <1>5. ~(BeginQuery \/ BeginVersion \/ BeginExchange)
    BY <1>1 DEF BeginQuery, BeginVersion, BeginExchange, QueryOps, VersionOps, NetOps, ScanOps
  <1>6. ~(BeginHttp \/ BeginDocker \/ BeginOpenApi \/ BeginLoad)
    <2>1. /\ \A o \in DockerOps : o \notin ScanOps
          /\ "http" \notin ScanOps /\ "openapi" \notin ScanOps /\ "openapi.load" \notin ScanOps
      BY DEF DockerOps, RecordOps, TextOps, ScanOps
    <2>2. ~BeginHttp
      BY <1>1, <2>1 DEF BeginHttp
    <2>3. ~BeginDocker
      BY <1>1, <2>1 DEF BeginDocker
    <2>4. ~BeginOpenApi
      BY <1>1, <2>1 DEF BeginOpenApi
    <2>5. ~BeginLoad
      BY <1>1, <2>1 DEF BeginLoad
    <2> QED
      BY <2>2, <2>3, <2>4, <2>5
  <1>7. BeginScan
    BY <1>2, <1>3, <1>4, <1>5, <1>6 DEF BeginCall
  <1>8. PICK c \in 0..Buckets - 1, there \in SUBSET Elems :
          /\ remote' = [present |-> there, stable |-> there, from |-> c]
          /\ got' = [kept |-> {}, n |-> 0, cursor |-> c, truncated |-> FALSE]
    BY <1>7 DEF BeginScan, Begin
  <1>9. c \in Int /\ \A e \in Elems : Bucket[e] \in Int
    BY RedisAssumption
  <1> QED
    BY <1>8, <1>9 DEF Covered, ScanRemote, ScanGot

LEMMA ModifyCovers ==
  ASSUME Modify, Covered(remote, got)
  PROVE  Covered(remote', got')
  <1>1. PICK e \in Elems :
          remote' = IF e \in remote.present
                      THEN [remote EXCEPT !.present = @ \ {e}, !.stable = @ \ {e}]
                      ELSE [remote EXCEPT !.present = @ \cup {e}]
    BY DEF Modify
  <1>2. remote \in ScanRemote
    BY DEF Covered
  <1>3. /\ remote' \in ScanRemote /\ remote'.from = remote.from
        /\ remote'.stable \subseteq remote.stable /\ remote'.stable \subseteq remote'.present
    <2>1. CASE e \in remote.present
      <3>1. remote' = [remote EXCEPT !.present = @ \ {e}, !.stable = @ \ {e}]
        BY <1>1, <2>1
      <3>2. /\ remote'.from = remote.from /\ remote'.stable = remote.stable \ {e}
            /\ remote'.present = remote.present \ {e}
        BY <1>2, <3>1 DEF ScanRemote
      <3>3. remote' \in ScanRemote
        BY <1>2, <3>1 DEF ScanRemote
      <3> QED
        BY <3>2, <3>3 DEF Covered
    <2>2. CASE e \notin remote.present
      <3>1. remote' = [remote EXCEPT !.present = @ \cup {e}]
        BY <1>1, <2>2
      <3>2. /\ remote'.from = remote.from /\ remote'.stable = remote.stable
            /\ remote'.present = remote.present \cup {e}
        BY <1>2, <3>1 DEF ScanRemote
      <3>3. remote' \in ScanRemote
        BY <1>2, <3>1 DEF ScanRemote
      <3> QED
        BY <3>2, <3>3 DEF Covered
    <2> QED
      BY <2>1, <2>2
  <1>4. got' = got
    BY DEF Modify
  <1> QED
    BY <1>3, <1>4 DEF Covered

(* The step of the loop.                                                   *)
LEMMA ScanStep ==
  ASSUME Typed, ScanLoop, Covered(remote, got)
  PROVE  /\ UnderWay' => Covered(remote', got')
         /\ Answered' => Complete(remote, got)'
  <1>1. PICK next \in {0} \cup (got.cursor + 1 .. Buckets - 1), dups \in 0..Cardinality(got.kept) :
          ScanTo(next, dups)
    BY DEF ScanLoop
  <1> DEFINE upto == IF next = 0 THEN Buckets ELSE next
             batch == {e \in remote.present : Bucket[e] \in got.cursor + 1 .. upto}
             size == Cardinality(batch) + dups
             taken == Smaller(size, limit - got.n)
             over == size > limit - got.n
             full == got.n + taken >= limit
  <1>2. PICK fresh \in SUBSET batch :
          /\ ~over => fresh = batch
          /\ got' = [kept |-> got.kept \cup fresh, n |-> got.n + taken, cursor |-> next,
                     truncated |-> over \/ (full /\ next # 0)]
          /\ IF over \/ full \/ next = 0
               THEN Answer("exchange", "ok")
               ELSE pc = "exchange" /\ UNCHANGED <<pc, code>>
    BY <1>1 DEF ScanTo
  <1>3. remote' = remote /\ limit' = limit
    BY DEF ScanLoop
  <1>4. /\ remote.present \subseteq Elems /\ remote.stable \subseteq remote.present
        /\ remote.from \in Int /\ got.cursor \in Int /\ got.n \in Int /\ got.kept \subseteq Elems
    BY DEF Covered, ScanRemote, ScanGot
  <1>5. limit \in Int /\ Buckets \in Int /\ \A e \in Elems : Bucket[e] \in 1..Buckets
    BY RedisAssumption, CallAssumption DEF Typed
  <1>6. size \in Int
    <2>1. IsFiniteSet(batch) /\ IsFiniteSet(got.kept)
      BY <1>4, RedisAssumption, FS_Subset
    <2>2. Cardinality(batch) \in Nat /\ Cardinality(got.kept) \in Nat
      BY <2>1, FS_CardinalityType
    <2> QED
      BY <2>2
  <1>7. next \in Int /\ upto \in Int
    BY <1>4, <1>5
  <1>8. taken \in Int /\ (over \/ full => got.n + taken = limit)
    BY <1>4, <1>5, <1>6 DEF Smaller
  <1>9. \A e \in remote.stable :
          Bucket[e] > remote.from /\ Bucket[e] <= upto => e \in got.kept \cup batch
    BY <1>4, <1>5, <1>7 DEF Covered
  <1>10. ASSUME UnderWay' PROVE Covered(remote', got')
    <2>1. ~over /\ next # 0
      BY <1>2, <1>10 DEF Answer, UnderWay
    <2>2. got'.kept = got.kept \cup batch /\ got'.cursor = upto
      BY <1>2, <2>1
    <2>3. got' \in ScanGot
      BY <1>2, <1>4, <1>7, <1>8 DEF ScanGot
    <2> QED
      BY <1>3, <1>9, <2>2, <2>3 DEF Covered
  <1>11. ASSUME Answered' PROVE Complete(remote, got)'
    <2>1. over \/ full \/ next = 0
      BY <1>2, <1>11 DEF Answered
    <2>2. CASE got'.truncated
      <3>1. over \/ full
        BY <1>2, <2>2
      <3>2. got'.n = limit
        BY <1>2, <1>8, <3>1
      <3> QED
        BY <1>3, <2>2, <3>2 DEF Complete
    <2>3. CASE ~got'.truncated
      <3>1. ~over /\ next = 0
        BY <1>2, <2>1, <2>3
      <3>2. got'.kept = got.kept \cup batch /\ upto = Buckets
        BY <1>2, <3>1
      <3>3. \A e \in remote.stable : Bucket[e] <= upto
        BY <1>4, <1>5, <3>2
      <3> QED
        BY <1>3, <1>9, <2>3, <3>2, <3>3 DEF Complete
    <2> QED
      BY <2>2, <2>3
  <1> QED
    BY <1>10, <1>11

LEMMA ScanInvKept == Typed /\ ScanInv /\ Next => ScanInv'
  <1> SUFFICES ASSUME Typed, ScanInv, Next, op' \in ScanOps
               PROVE  /\ UnderWay' => Covered(remote', got')
                      /\ Answered' => Complete(remote, got)'
    BY DEF ScanInv, Covered
  <1>1. CASE BeginCall
    BY <1>1, BeginCallCovers, BeginDoesNotAnswer
  <1>2. CASE ~BeginCall /\ pc \in {"close", "done"}
    <2>1. ~Exchanging
      BY <1>2, ExchangingIsNotOver
    <2>2. CASE Close \/ Finish
      BY <1>2, <2>2, AnswerStays DEF Close, Finish, UnderWay, ScanInv, Complete
    <2>3. CASE Environment
      <3>1. ~UnderWay'
        BY <1>2, <2>3 DEF Environment, Reload, Modify, LogChanges, GroupChanges, Deliver, UnderWay
      <3> QED
        BY <1>2, <3>1, AnswerStays DEF ScanInv, Complete
    <2> QED
      BY <1>2, <2>1, <2>2, <2>3 DEF Next, Step, Exchanging, Ping, Fail, RequestFails, Answer
  <1>3. CASE pc \notin {"close", "done"} /\ Exchanging
    <2>1. op \in ScanOps /\ op \in RedisOps
      BY <1>3, ExchangingKeepsOp DEF RedisOps
    <2>2. RedisStep
      BY <1>3, <2>1, FamilyOf
    <2>3. Covered(remote, got)
      BY <1>3, <2>1, <2>2, RedisSteps DEF ScanInv, UnderWay
    <2>4. CASE LookupLimit \/ RedisDial
      BY <2>3, <2>4, <1>3 DEF LookupLimit, RedisDial, Answer, Answered
    <2>5. CASE ScanLoop
      BY <2>3, <2>5, ScanStep
    <2> QED
      BY <2>1, <2>2, <2>4, <2>5 DEF RedisStep, ServerCommand, KeyCommand, cardOp, NilCommand, HGet,
         HMGet, SlowlogGet, ClientList, ZRangeSample, LRange, At, ServerOps, KeyOps, CardOps,
         NilOps, ScanOps
  <1>4. CASE pc \notin {"close", "done"} /\ (Ping \/ Fail)
    <2>1. UnderWay /\ UNCHANGED <<op, remote, got>> /\ ~Answered'
      BY <1>4 DEF Ping, Fail, RequestFails, Answer, Goto, UnderWay, Answered, request
    <2> QED
      BY <2>1 DEF ScanInv
  <1>5. CASE pc \notin {"close", "done"} /\ Environment
    <2>1. pc' = pc /\ op' = op
      BY <1>5 DEF Environment, Reload, Modify, LogChanges, GroupChanges, Deliver, request
    <2>2. ~Answered' /\ (UnderWay' => Covered(remote, got))
      BY <1>5, <2>1 DEF ScanInv, Answered, UnderWay
    <2>3. CASE Reload
      BY <2>2, <2>3 DEF Reload
    <2>4. CASE Modify
      BY <2>2, <2>4, ModifyCovers
    <2>5. ~(LogChanges \/ GroupChanges \/ Deliver)
      BY <2>1 DEF LogChanges, GroupChanges, Deliver, At, GroupOps, NetOps, ScanOps
    <2> QED
      BY <1>5, <2>2, <2>3, <2>4, <2>5 DEF Environment
  <1> QED
    <2>1. Close \/ Finish => pc \in {"close", "done"}
      BY DEF Close, Finish
    <2> QED
      BY <1>1, <1>2, <1>3, <1>4, <1>5, <2>1 DEF Next, Step, Exchanging

(* Whatever the batches, and whatever others add and remove meanwhile, a   *)
(* scan that does not say it was truncated has everything that was there   *)
(* from its cursor on the whole time; one that does has the limit.         *)
THEOREM ScanCompleteHolds == Spec => []ScanComplete
  <1>1. Init => ScanInv
    BY DEF Init, ScanInv, UnderWay, Answered
  <1>2. Typed /\ ScanInv /\ [Next]_vars => ScanInv'
    <2>1. ScanInv /\ UNCHANGED vars => ScanInv'
      BY DEF ScanInv, Covered, Complete, UnderWay, Answered, vars, request
    <2> QED
      BY <2>1, ScanInvKept
  <1>3. ScanInv => ScanComplete
    BY DEF ScanInv, ScanComplete, Complete, Answered
  <1> QED
    BY <1>1, <1>2, <1>3, TypedHolds, PTL DEF Spec
-----------------------------------------------------------------------------
NetRemote == [arrived : Int, end : {"open", "eof", "reset"}, clock : Int, deadline : Int,
              timeout : Nat]

Timed ==
  /\ remote \in NetRemote
  /\ remote.clock <= remote.deadline
  /\ remote.deadline <= 2 * remote.timeout
  /\ pc \in {"address", "connect"} => remote.deadline = remote.timeout

NetInv ==
  /\ pc = "idle" => remote = Nothing
  /\ op \in NetOps => \/ Timed
                      \/ remote = Nothing /\ pc \in {"idle", "close", "done"}

LEMMA ExchangingIsNotIdle == Exchanging => pc # "idle" /\ pc' # "idle"
  <1>0. ASSUME NEW g, Reply(g) PROVE pc' # "idle"
    BY <1>0 DEF Reply, Answer
  <1>1. RedisStep => pc' # "idle"
    BY <1>0, RedisSteps DEF RedisStep, LookupLimit, RedisDial, ServerCommand, KeyCommand, cardOp,
       NilCommand, HGet, HMGet, SlowlogGet, ClientList, ZRangeSample, LRange, ScanLoop, ScanTo, Answer
  <1>2. KafkaStep => pc' # "idle"
    BY <1>0, KafkaSteps DEF KafkaStep, KafkaDial, BadLimit, KafkaFails, ClusterInfo, BrokerConfig,
       Topics, TopicDetail, PartitionHealth, ReadStarts, ReadEnds, NoGroups, ListGroups,
       DescribeGroups, LagSummary, GroupsAnswer, ConsumerLag, Answer
  <1>3. SqlStep => pc' # "idle"
    BY <1>0, SqlSteps DEF SqlStep, SqlLookup, OpenPing, NextRow, RowsErr, RowsOver, QueryVersion, Answer
  <1>4. NetStep => pc' # "idle"
    BY NetSteps DEF NetStep, ResolveUDPAddr, NetDial, Write, TcpRead, TcpReadEnds, UdpRead, Tick, Answer
  <1>5. HttpDockerStep => pc' # "idle"
    BY DEF HttpDockerStep, TargetURL, Do, ReadBody, RunDockerFails, DockerRecords,
       DockerText, DockerInfo, DockerInspect, Answer
  <1>6. PrepareRequest \/ LoadStep => pc' # "idle"
    BY OpenApiSteps DEF PrepareRequest, LoadStep, ReadPath, RegistryLoad, Answer
  <1> QED
    BY <1>1, <1>2, <1>3, <1>4, <1>5, <1>6, RedisSteps, KafkaSteps, SqlSteps, NetSteps,
       HttpDockerSteps, OpenApiSteps DEF Exchanging

LEMMA BeginCallTimed ==
  ASSUME NetInv, BeginCall
  PROVE  NetInv'
  <1>1. ASSUME NEW o, NEW n, NEW to \in {"lookup", "dial", "address", "connect", "load"}, NEW there, NEW empty,
               o \notin NetOps, Begin(o, n, to, there, empty)
        PROVE  NetInv'
    BY <1>1 DEF Begin, NetInv
  <1>2. ASSUME NEW o, ContextOver(o) \/ Refuse(o) PROVE NetInv'
    BY <1>2 DEF ContextOver, Refuse, Answer, NetInv
  <1>3. CASE BeginCommand \/ BeginLimited \/ BeginScan
    <2>1. \A o \in ServerOps \cup KeyOps \cup CardOps \cup NilOps \cup LimitedOps \cup ScanOps :
            o \notin NetOps
      BY DEF ServerOps, KeyOps, CardOps, NilOps, LimitedOps, ScanOps, NetOps
    <2>2. CASE BeginCommand
      BY <1>1, <2>1, <2>2 DEF BeginCommand
    <2>3. CASE BeginLimited
      BY <1>1, <2>1, <2>3 DEF BeginLimited
    <2>4. CASE BeginScan
      BY <1>1, <2>1, <2>4 DEF BeginScan
    <2> QED
      BY <1>3, <2>2, <2>3, <2>4
  <1>4. CASE BeginInfo \/ BeginLagOf \/ BeginOffsets \/ BeginTopics \/ BeginGroups
    <2>1. /\ \A o \in GroupOps \cup InfoOps \cup {"topic_detail", "partition_health", "consumer_lag"} :
               o \notin NetOps
          /\ \A o \in {"topics", "broker_config"} : o \notin NetOps
          /\ "topic_offsets" \notin NetOps /\ "consumer_lag_summary" \notin NetOps
      BY DEF GroupOps, InfoOps, NetOps
    <2>2. CASE BeginInfo
      BY <1>1, <2>1, <2>2 DEF BeginInfo
    <2>3. CASE BeginLagOf
      BY <1>1, <2>1, <2>3 DEF BeginLagOf
    <2>4. CASE BeginOffsets
      BY <1>1, <2>1, <2>4 DEF BeginOffsets
    <2>5. CASE BeginTopics
      BY <1>1, <2>1, <2>5 DEF BeginTopics
    <2>6. CASE BeginGroups
      BY <1>1, <2>1, <2>6 DEF BeginGroups
    <2> QED
      BY <1>4, <2>2, <2>3, <2>4, <2>5, <2>6
  <1>5. CASE BeginQuery \/ BeginVersion
    BY <1>1, <1>5 DEF BeginQuery, BeginVersion, QueryOps, VersionOps, NetOps
  <1>6. CASE BeginHttp \/ BeginDocker \/ BeginOpenApi \/ BeginLoad
    <2>1. /\ \A o \in DockerOps : o \notin NetOps
          /\ "http" \notin NetOps /\ "openapi" \notin NetOps /\ "openapi.load" \notin NetOps
      BY DEF DockerOps, RecordOps, TextOps, NetOps
    <2>2. CASE BeginHttp
      BY <1>1, <2>1, <2>2 DEF BeginHttp
    <2>3. CASE BeginDocker
      BY <1>1, <2>1, <2>3 DEF BeginDocker
    <2>4. CASE BeginOpenApi
      BY <1>1, <2>1, <2>4 DEF BeginOpenApi
    <2>5. CASE BeginLoad
      BY <1>1, <2>1, <2>5 DEF BeginLoad
    <2> QED
      BY <1>6, <2>2, <2>3, <2>4, <2>5
  <1>7. CASE BeginExchange
    <2>1. PICK t \in 1..MaxTimeout :
            /\ pc' \in {"address", "connect"}
            /\ remote' = [arrived |-> 0, end |-> "open", clock |-> 0, deadline |-> t, timeout |-> t]
      BY <1>7 DEF BeginExchange, Begin
    <2>2. t \in Nat /\ t <= 2 * t /\ 0 <= t
      BY NetAssumption
    <2>3. remote' \in NetRemote
      BY <2>1, <2>2 DEF NetRemote
    <2> QED
      BY <2>1, <2>2, <2>3 DEF NetInv, Timed
  <1> QED
    BY <1>2, <1>3, <1>4, <1>5, <1>6, <1>7 DEF BeginCall

LEMMA ExchangingTimed ==
  ASSUME NetInv, Exchanging
  PROVE  NetInv'
  <1>1. pc' # "idle"
    BY ExchangingIsNotIdle
  <1> SUFFICES ASSUME op' \in NetOps PROVE Timed'
    BY <1>1 DEF NetInv
  <1>2. op \in NetOps /\ NetStep
    BY ExchangingKeepsOp, FamilyOf
  <1>3. Timed
    BY <1>2, ExchangingIsNotIdle, ExchangingIsNotOver DEF NetInv
  <1>4. /\ remote.clock \in Int /\ remote.deadline \in Int /\ remote.timeout \in Nat
    BY <1>3 DEF Timed, NetRemote
  <1>5. CASE NetDial
    <2>1. CASE UNCHANGED remote
      BY <1>3, <1>5, <2>1 DEF NetDial, Answer, Timed
    <2>2. CASE pc = "connect" /\ pc' = "write"
               /\ remote' = [remote EXCEPT !.deadline = remote.clock + remote.timeout]
      <3>1. remote.clock + remote.timeout \in Int
        BY <1>4
      <3>2. /\ remote' \in NetRemote /\ remote'.clock = remote.clock
            /\ remote'.timeout = remote.timeout /\ remote'.deadline = remote.clock + remote.timeout
        BY <1>3, <2>2, <3>1 DEF Timed, NetRemote
      <3>3. remote.clock <= remote.timeout
        BY <1>3, <2>2 DEF Timed
      <3>4. /\ remote.clock <= remote.clock + remote.timeout
            /\ remote.clock + remote.timeout <= 2 * remote.timeout
        BY <1>4, <3>3
      <3> QED
        BY <2>2, <3>2, <3>4 DEF Timed
    <2> QED
      BY <1>5, <2>1, <2>2 DEF NetDial
  <1>6. CASE ResolveUDPAddr \/ Write \/ TcpRead \/ TcpReadEnds \/ UdpRead
    BY <1>3, <1>6 DEF ResolveUDPAddr, Write, TcpRead, TcpReadEnds, UdpRead, Answer, At, Timed
  <1>7. CASE Tick
    <2>1. remote' = [remote EXCEPT !.clock = @ + 1] /\ pc' = pc /\ remote.clock # remote.deadline
      BY <1>7 DEF Tick, TimeUp
    <2>2. remote.clock + 1 \in Int /\ remote.clock + 1 <= remote.deadline
      BY <1>3, <1>4, <2>1 DEF Timed
    <2>3. /\ remote' \in NetRemote /\ remote'.clock = remote.clock + 1
          /\ remote'.timeout = remote.timeout /\ remote'.deadline = remote.deadline
      BY <1>3, <2>1, <2>2 DEF Timed, NetRemote
    <2> QED
      BY <1>3, <2>1, <2>2, <2>3 DEF Timed
  <1> QED
    BY <1>2, <1>5, <1>6, <1>7 DEF NetStep

LEMMA DeliverTimed ==
  ASSUME NetInv, Deliver
  PROVE  NetInv'
  <1>1. Timed /\ op \in NetOps /\ UNCHANGED <<pc, op>> /\ pc # "idle"
    BY DEF Deliver, NetInv, request
  <1>2. /\ remote' \in NetRemote /\ remote'.clock = remote.clock
        /\ remote'.timeout = remote.timeout /\ remote'.deadline = remote.deadline
    <2>0. remote \in NetRemote
      BY <1>1 DEF Timed
    <2>1. CASE remote' = [remote EXCEPT !.arrived = @ + 1]
      <3>1. remote.arrived + 1 \in Int
        BY <2>0 DEF NetRemote
      <3> QED
        BY <2>0, <2>1, <3>1 DEF NetRemote
    <2>2. CASE \E n \in 1..MaxBytes : remote' = [remote EXCEPT !.arrived = n]
      <3>1. PICK n \in Int : remote' = [remote EXCEPT !.arrived = n]
        BY <2>2, NetAssumption
      <3> QED
        BY <2>0, <3>1 DEF NetRemote
    <2>3. CASE remote' = [remote EXCEPT !.end = "eof"] \/ remote' = [remote EXCEPT !.end = "reset"]
      BY <2>0, <2>3 DEF NetRemote
    <2> QED
      BY <2>1, <2>2, <2>3 DEF Deliver
  <1> QED
    BY <1>1, <1>2 DEF NetInv, Timed

LEMMA NetInvHolds == Spec => []NetInv
  <1>1. Init => NetInv
    BY DEF Init, NetInv, NetOps
  <1>2. NetInv /\ [Next]_vars => NetInv'
    <2> SUFFICES ASSUME NetInv, [Next]_vars PROVE NetInv'
      OBVIOUS
    <2>1. CASE BeginCall
      BY <2>1, BeginCallTimed
    <2>2. CASE Exchanging
      BY <2>2, ExchangingTimed
    <2>3. CASE Ping \/ Close \/ Fail
      BY <2>3 DEF Ping, Close, Fail, RequestFails, Answer, NetInv, Timed, request
    <2>4. CASE Finish
      BY <2>4 DEF Finish, NetInv, NetOps
    <2>5. CASE Environment
      <3>1. CASE Reload
        BY <3>1 DEF Reload, NetInv, Timed, request
      <3>2. CASE Modify \/ LogChanges \/ GroupChanges
        BY <3>2 DEF Modify, LogChanges, GroupChanges, At, NetInv, NetOps, ScanOps, GroupOps, request
      <3> QED
        BY <2>5, <3>1, <3>2, DeliverTimed DEF Environment
    <2>6. CASE UNCHANGED vars
      BY <2>6 DEF vars, request, NetInv, Timed
    <2> QED
      BY <2>1, <2>2, <2>3, <2>4, <2>5, <2>6 DEF Next, Step, Exchanging
  <1> QED
    BY <1>1, <1>2, PTL DEF Spec

(* However slowly the bytes arrive, an exchange takes at most twice the    *)
(* time it was given: once to dial, once to write and read.                *)
THEOREM TwoTimeoutsHolds == Spec => []TwoTimeouts
  <1>1. NetInv => TwoTimeouts
    <2> SUFFICES ASSUME Timed PROVE remote.clock <= 2 * remote.timeout
      BY DEF NetInv, TwoTimeouts
    <2>1. remote.clock \in Int /\ remote.deadline \in Int /\ 2 * remote.timeout \in Int
      BY DEF Timed, NetRemote
    <2> QED
      BY <2>1 DEF Timed
  <1> QED
    BY <1>1, NetInvHolds, PTL

-----------------------------------------------------------------------------
(* How a call begins: it is refused, or it goes to its first step with     *)
(* what its connector keeps.                                               *)
Refused ==
  /\ pc = "idle" /\ pc' \in {"close", "done"}
  /\ code' \in {"INVALID_PARAMS", "CONNECTOR_ERROR"}
  /\ op' \notin {"openapi", "openapi.load"}
  /\ UNCHANGED <<want, entry, gen, limit, client, remote, got>>

ScanOpened ==
  \E c \in 0..Buckets - 1 : \E there \in SUBSET Elems :
    /\ remote' = [present |-> there, stable |-> there, from |-> c]
    /\ got' = [kept |-> {}, n |-> 0, cursor |-> c, truncated |-> FALSE]

NetOpened ==
  \E n \in 1..MaxBytes : \E t \in 1..MaxTimeout :
    /\ want' = n /\ got' = [n |-> 0]
    /\ remote' = [arrived |-> 0, end |-> "open", clock |-> 0, deadline |-> t, timeout |-> t]

OffsetsOpened ==
  \E lo \in [Parts -> -1..MaxOffset] : \E hi \in [Parts -> -1..MaxOffset] :
    /\ \A p \in Parts : lo[p] <= hi[p] /\ (lo[p] = -1) = (hi[p] = -1)
    /\ remote' = [lo |-> lo, hi |-> hi, recreated |-> FALSE]
    /\ got' = [phase |-> "starts"]

GroupsOpened ==
  \E there \in SUBSET Groups :
    \/ remote' = [groups |-> there, stable |-> there] /\ got' = [phase |-> "list"]
    \/ \E g \in Groups :
         /\ remote' = [groups |-> there, stable |-> there \cap {g}]
         /\ got' = [phase |-> "detail", listed |-> {g}, selected |-> {g}]

OpenApiOpened ==
  \E o \in Operations : \E args \in Arguments(o) :
    remote' = [operation |-> o, tool |-> BuildToolMeta(o), args |-> args]

LoadOpened ==
  \E doc \in Documents : \E d \in Discoveries :
    remote' = [doc |-> doc, discovery |-> d] /\ got' = [unread |-> DOMAIN doc.paths, ops |-> <<>>]

Opened ==
  /\ pc = "idle" /\ pc' \in {"lookup", "dial", "address", "connect", "load"}
  /\ UNCHANGED <<gen, limit, client, code>>
  /\ op' \in QueryOps => got' = [n |-> 0, next |-> "more"] /\ pc' = "lookup"
  /\ op' \in ScanOps => ScanOpened /\ pc' = "lookup"
  /\ op' \in NetOps => NetOpened /\ pc' \in {"address", "connect"}
  /\ op' = "topic_offsets" => OffsetsOpened /\ pc' = "dial"
  /\ op' \in GroupOps => GroupsOpened /\ pc' = "dial"
  /\ op' = "openapi" => OpenApiOpened /\ pc' = "lookup"
  /\ op' = "openapi.load" => LoadOpened /\ pc' = "load"

(* The operations that keep something while they are under way.            *)
KeepingOps == QueryOps \cup ScanOps \cup NetOps \cup GroupOps \cup {"topic_offsets", "openapi", "openapi.load"}

LEMMA OpsApart ==
  /\ QueryOps \cap (ScanOps \cup NetOps \cup GroupOps
                   \cup {"topic_offsets", "openapi", "openapi.load"}) = {}
  /\ ScanOps \cap (NetOps \cup GroupOps \cup {"topic_offsets", "openapi", "openapi.load"}) = {}
  /\ NetOps \cap (GroupOps \cup {"topic_offsets", "openapi", "openapi.load"}) = {}
  /\ GroupOps \cap {"topic_offsets", "openapi", "openapi.load"} = {}
  BY DEF QueryOps, ScanOps, NetOps, GroupOps

LEMMA BeginOpens == BeginCall => (Refused \/ Opened) /\ op' \in Ops
  <1>1. ASSUME NEW o \in Ops, NEW n, NEW to \in {"lookup", "dial", "address", "connect", "load"}, NEW there, NEW empty,
               Begin(o, n, to, there, empty)
        PROVE  /\ pc = "idle" /\ pc' = to /\ op' = o /\ want' = n /\ remote' = there /\ got' = empty
               /\ op' \in Ops /\ UNCHANGED <<gen, limit, client, code>>
               /\ o \notin KeepingOps => Opened
    BY <1>1 DEF Begin, Opened, KeepingOps
  <1>2. ASSUME NEW o \in Ops \ {"openapi", "openapi.load"}, Refuse(o) PROVE Refused /\ op' \in Ops
    BY <1>2 DEF Refuse, Answer, Refused, config
  <1>3. ASSUME NEW o \in NetOps, ContextOver(o) PROVE Refused /\ op' \in Ops
    BY <1>3 DEF ContextOver, Answer, Refused, config, Ops, NetOps
  <1>4. CASE BeginCommand \/ BeginLimited
    <2>1. ServerOps \cup KeyOps \cup CardOps \cup NilOps \cup LimitedOps \subseteq Ops \ KeepingOps
      BY DEF Ops, RedisOps, KeepingOps, QueryOps, ServerOps, KeyOps, CardOps, NilOps, LimitedOps, ScanOps, NetOps, GroupOps
    <2>2. CASE BeginCommand
      BY <1>1, <2>1, <2>2 DEF BeginCommand
    <2>3. CASE BeginLimited
      BY <1>1, <2>1, <2>3 DEF BeginLimited
    <2> QED
      BY <1>4, <2>2, <2>3
  <1>5. CASE BeginScan
    <2>1. ScanOps \subseteq Ops
      BY DEF Ops, RedisOps
    <2>2. PICK o \in ScanOps, n \in 0..MaxLimit + 1, c \in 0..Buckets - 1, there \in SUBSET Elems :
             Begin(o, n, "lookup", [present |-> there, stable |-> there, from |-> c],
                   [kept |-> {}, n |-> 0, cursor |-> c, truncated |-> FALSE])
      BY <1>5 DEF BeginScan
    <2>3. ScanOpened /\ op' = o /\ pc = "idle" /\ pc' = "lookup" /\ UNCHANGED <<gen, limit, client, code>>
      BY <1>1, <2>1, <2>2 DEF ScanOpened
    <2> QED
      BY <2>1, <2>3, OpsApart DEF Opened
  <1>6. CASE BeginInfo \/ BeginTopics
    <2>1. InfoOps \cup {"topic_detail", "partition_health", "consumer_lag", "topics", "broker_config"}
            \subseteq Ops \ KeepingOps
      BY DEF Ops, KafkaOps, InfoOps, KeepingOps, QueryOps, ScanOps, NetOps, GroupOps
    <2>2. CASE BeginInfo
      BY <1>1, <2>1, <2>2 DEF BeginInfo
    <2>3. CASE BeginTopics
      BY <1>1, <2>1, <2>3 DEF BeginTopics
    <2> QED
      BY <1>6, <2>2, <2>3
  <1>7. CASE BeginOffsets
    <2>1. "topic_offsets" \in Ops
      BY DEF Ops, KafkaOps
    <2>2. PICK lo \in [Parts -> -1..MaxOffset] : \E hi \in [Parts -> -1..MaxOffset] :
            /\ \A p \in Parts : lo[p] <= hi[p] /\ (lo[p] = -1) = (hi[p] = -1)
            /\ Begin("topic_offsets", 0, "dial", [lo |-> lo, hi |-> hi, recreated |-> FALSE],
                     [phase |-> "starts"])
      BY <1>7 DEF BeginOffsets
    <2>3. PICK hi \in [Parts -> -1..MaxOffset] :
            /\ \A p \in Parts : lo[p] <= hi[p] /\ (lo[p] = -1) = (hi[p] = -1)
            /\ Begin("topic_offsets", 0, "dial", [lo |-> lo, hi |-> hi, recreated |-> FALSE],
                     [phase |-> "starts"])
      BY <2>2
    <2>4. /\ remote' = [lo |-> lo, hi |-> hi, recreated |-> FALSE]
          /\ got' = [phase |-> "starts"]
          /\ op' = "topic_offsets" /\ pc = "idle" /\ pc' = "dial"
          /\ UNCHANGED <<gen, limit, client, code>>
      BY <1>1, <2>1, <2>3
    <2>5. OffsetsOpened
      BY <2>3, <2>4 DEF OffsetsOpened
    <2> QED
      BY <2>1, <2>4, <2>5, OpsApart DEF Opened
  <1>8. CASE BeginGroups \/ BeginLagOf
    <2>1. GroupOps \subseteq Ops /\ "consumer_lag_summary" \in GroupOps
      BY DEF Ops, KafkaOps, GroupOps
    <2>2. CASE BeginGroups
      <3>1. PICK o \in GroupOps, n \in -1..MaxLimit + 1, there \in SUBSET Groups :
              Begin(o, n, "dial", [groups |-> there, stable |-> there], [phase |-> "list"])
        BY <2>2 DEF BeginGroups
      <3>2. GroupsOpened /\ op' = o /\ pc = "idle" /\ pc' = "dial" /\ UNCHANGED <<gen, limit, client, code>>
        BY <1>1, <2>1, <3>1 DEF GroupsOpened
      <3> QED
        BY <2>1, <3>2, OpsApart DEF Opened
    <2>3. CASE BeginLagOf
      <3>1. PICK g \in Groups, there \in SUBSET Groups :
              Begin("consumer_lag_summary", 0, "dial", [groups |-> there, stable |-> there \cap {g}],
                    [phase |-> "detail", listed |-> {g}, selected |-> {g}])
        BY <2>3 DEF BeginLagOf
      <3>2. GroupsOpened /\ op' \in GroupOps /\ pc = "idle" /\ pc' = "dial"
            /\ UNCHANGED <<gen, limit, client, code>>
        BY <1>1, <2>1, <3>1 DEF GroupsOpened
      <3> QED
        BY <2>1, <3>2, OpsApart DEF Opened
    <2> QED
      BY <1>8, <2>2, <2>3
  <1>9. CASE BeginQuery \/ BeginVersion
    <2>1. QueryOps \subseteq Ops /\ VersionOps \subseteq Ops \ KeepingOps
      BY DEF Ops, SqlOps, QueryOps, VersionOps, KeepingOps, ScanOps, NetOps, GroupOps
    <2>2. CASE BeginQuery
      <3>1. PICK o \in QueryOps, n \in {0, 1}, rows \in 0..MaxRows :
              Begin(o, n, "lookup", [rows |-> rows], [n |-> 0, next |-> "more"])
        BY <2>2 DEF BeginQuery
      <3>2. /\ got' = [n |-> 0, next |-> "more"] /\ op' = o /\ pc = "idle" /\ pc' = "lookup"
            /\ UNCHANGED <<gen, limit, client, code>>
        BY <1>1, <2>1, <3>1
      <3> QED
        BY <2>1, <3>2, OpsApart DEF Opened
    <2>3. CASE BeginVersion
      BY <1>1, <2>1, <2>3 DEF BeginVersion
    <2> QED
      BY <1>9, <2>2, <2>3
  <1>10. CASE BeginExchange
    <2>1. NetOps \subseteq Ops
      BY DEF Ops
    <2>2. PICK o \in NetOps, n \in 1..MaxBytes, t \in 1..MaxTimeout :
            Begin(o, n, IF o = "udp" THEN "address" ELSE "connect",
              [arrived |-> 0, end |-> "open", clock |-> 0, deadline |-> t, timeout |-> t], [n |-> 0])
      BY <1>10 DEF BeginExchange
    <2>3. NetOpened /\ op' = o /\ pc = "idle" /\ pc' \in {"address", "connect"} /\ UNCHANGED <<gen, limit, client, code>>
      BY <1>1, <2>1, <2>2 DEF NetOpened
    <2> QED
      BY <2>1, <2>3, OpsApart DEF Opened
  <1>11. CASE BeginHttp \/ BeginDocker
    <2>1. DockerOps \cup {"http"} \subseteq Ops \ KeepingOps
      BY DEF Ops, HttpOps, DockerOps, RecordOps, TextOps, KeepingOps, QueryOps, ScanOps, NetOps, GroupOps
    <2>2. CASE BeginHttp
      BY <1>1, <2>1, <2>2 DEF BeginHttp
    <2>3. CASE BeginDocker
      BY <1>1, <2>1, <2>3 DEF BeginDocker
    <2> QED
      BY <1>11, <2>2, <2>3
  <1>12. CASE BeginOpenApi
    <2>1. "openapi" \in Ops
      BY DEF Ops, HttpOps
    <2>2. OpenApiOpened /\ op' = "openapi" /\ pc = "idle" /\ pc' = "lookup"
          /\ UNCHANGED <<gen, limit, client, code>>
      BY <1>1, <1>12, <2>1 DEF BeginOpenApi, OpenApiOpened
    <2> QED
      BY <2>1, <2>2, OpsApart DEF Opened
  <1>13. CASE BeginLoad
    <2>1. "openapi.load" \in Ops
      BY DEF Ops
    <2>2. LoadOpened /\ op' = "openapi.load" /\ pc = "idle" /\ pc' = "load"
          /\ UNCHANGED <<gen, limit, client, code>>
      BY <1>1, <1>13, <2>1 DEF BeginLoad, LoadOpened
    <2> QED
      BY <2>1, <2>2, OpsApart DEF Opened
  <1> QED
    BY <1>2, <1>3, <1>4, <1>5, <1>6, <1>7, <1>8, <1>9, <1>10, <1>11, <1>12, <1>13 DEF BeginCall

-----------------------------------------------------------------------------
(* How a step of a connector treats the call: it answers it, or it goes on *)
(* to, or stays at, a step before the answer.                              *)
Orderly ==
  /\ UNCHANGED gen /\ client' \in {client, "open"}
  /\ \/ pc' \in {"close", "done"} /\ code' \in Codes \ {"pending"}
     \/ pc' \in Labels \ {"idle", "close", "done"} /\ UNCHANGED code

LEMMA ExchangingOrderly == Exchanging => Orderly
  <1>0. ASSUME NEW g, Reply(g) PROVE Orderly
    BY <1>0 DEF Reply, Answer, Orderly, Codes, config
  <1>1. RedisStep => Orderly
    <2>1. LookupLimit \/ RedisDial => Orderly
      BY DEF LookupLimit, RedisDial, Answer, Orderly, Codes, Labels, config
    <2>2. ScanLoop => Orderly
      BY DEF ScanLoop, ScanTo, At, Answer, Orderly, Codes, Labels, config
    <2> QED
      BY <1>0, <2>1, <2>2 DEF RedisStep, ServerCommand, KeyCommand, cardOp, NilCommand, HGet, HMGet,
         SlowlogGet, ClientList, ZRangeSample, LRange
  <1>2. KafkaStep => Orderly
    <2>1. KafkaDial => Orderly
      BY DEF KafkaDial, Answer, Orderly, Codes, Labels, config
    <2>2. ASSUME NEW o, NEW c \in {"INVALID_PARAMS", "CONNECTOR_ERROR"}, KafkaFails(o, c)
          PROVE  Orderly
      BY <2>2 DEF KafkaFails, Answer, Orderly, Codes, config
    <2>3. ReadStarts \/ ListGroups => Orderly
      BY DEF ReadStarts, ListGroups, At, Orderly, Labels, config
    <2>4. ReadEnds => Orderly
      BY DEF ReadEnds, Answer, Orderly, Codes, config
    <2> QED
      BY <1>0, <2>1, <2>2, <2>3, <2>4 DEF KafkaStep, BadLimit, ClusterInfo, BrokerConfig, Topics,
         TopicDetail, PartitionHealth, NoGroups, DescribeGroups, LagSummary, GroupsAnswer, ConsumerLag
  <1>3. SqlStep => Orderly
    BY <1>0 DEF SqlStep, SqlLookup, OpenPing, NextRow, RowsErr, RowsOver, QueryVersion, At, Answer, Orderly, Codes,
       Labels, config
  <1>4. NetStep => Orderly
    <2>1. ResolveUDPAddr \/ NetDial \/ Write => Orderly
      BY DEF ResolveUDPAddr, NetDial, Write, Answer, Orderly, Codes, Labels, config
    <2>2. TcpRead \/ TcpReadEnds \/ UdpRead => Orderly
      BY DEF TcpRead, TcpReadEnds, UdpRead, At, Answer, Orderly, Codes, Labels, config
    <2>3. Tick => Orderly
      BY DEF Tick, Waiting, Orderly, Labels, config
    <2> QED
      BY <2>1, <2>2, <2>3 DEF NetStep
  <1>5. HttpDockerStep => Orderly
    <2>1. TargetURL \/ Do \/ ReadBody => Orderly
      BY DEF TargetURL, Do, ReadBody, Answer, Orderly, Codes, Labels, config
    <2>2. DockerRecords => Orderly
      BY DEF DockerRecords, ParseRecords, Answer, Orderly, Codes, config
    <2>3. RunDockerFails \/ DockerText \/ DockerInfo \/ DockerInspect => Orderly
      BY DEF RunDockerFails, DockerText, DockerInfo, DockerInspect, Answer, Orderly, Codes, config
    <2> QED
      BY <2>1, <2>2, <2>3 DEF HttpDockerStep
  <1>6. PrepareRequest \/ LoadStep => Orderly
    BY DEF PrepareRequest, LoadStep, ReadPath, RegistryLoad, Answer, Orderly, Codes, Labels, config
  <1> QED
    BY <1>1, <1>2, <1>3, <1>4, <1>5, <1>6 DEF Exchanging

CallInv ==
  /\ pc \in Labels /\ gen \in 0..MaxReloads /\ client \in {"none", "open", "closed"} /\ code \in Codes
  /\ (code = "pending") = (pc \notin {"close", "done"})
  /\ op \in Ops \cup {"none"}
  /\ pc = "idle" => op = "none" /\ remote = Nothing /\ got = Nothing /\ client = "none"
  /\ op \in NetOps => pc # "ping"

LEMMA CallInvKept == CallInv /\ Next => CallInv'
  <1> SUFFICES ASSUME CallInv, Next PROVE CallInv'
    OBVIOUS
  <1>1. CASE BeginCall
    BY <1>1, BeginOpens DEF CallInv, Refused, Opened, Labels, Codes
  <1>2. CASE Exchanging
    <2>1. NetStep => pc' # "ping"
      BY DEF NetStep, ResolveUDPAddr, NetDial, Write, TcpRead, TcpReadEnds, UdpRead, Tick, At, Answer, CallInv, Waiting
    <2>2. op \in NetOps => pc' # "ping"
      BY <1>2, <2>1, FamilyOf
    <2> QED
      BY <1>2, <2>2, ExchangingOrderly, ExchangingIsNotOver, ExchangingKeepsOp
         DEF Orderly, CallInv, Labels
  <1>3. CASE Ping \/ Fail \/ Close
    BY <1>3 DEF Ping, Fail, RequestFails, Close, Answer, CallInv, Labels, Codes, request, config
  <1>4. CASE Finish
    BY <1>4, CallAssumption DEF Finish, CallInv, Labels, Codes
  <1>5. CASE Reload
    <2>1. gen \in 0..MaxReloads /\ gen < MaxReloads => gen + 1 \in 0..MaxReloads
      BY CallAssumption
    <2> QED
      BY <1>5, <2>1 DEF Reload, CallInv, request
  <1>6. CASE Modify \/ LogChanges \/ GroupChanges \/ Deliver
    BY <1>6 DEF Modify, LogChanges, GroupChanges, Deliver, At, CallInv, request, config
  <1> QED
    BY <1>1, <1>2, <1>3, <1>4, <1>5, <1>6 DEF Next, Step, Exchanging, Environment

LEMMA CallInvHolds == Spec => []CallInv
  <1>1. Init => CallInv
    BY CallAssumption DEF Init, CallInv, Labels, Codes
  <1>2. CallInv /\ [Next]_vars => CallInv'
    <2>1. CallInv /\ UNCHANGED vars => CallInv'
      BY DEF CallInv, vars, request, config
    <2> QED
      BY <2>1, CallInvKept
  <1> QED
    BY <1>1, <1>2, PTL DEF Spec

-----------------------------------------------------------------------------
(* A query has more rows to read until its loop ends; where it ended well  *)
(* the rows are complete, and only then it is answered well.               *)
RowsRead ==
  /\ got \in [n : Int, next : {"more", "end", "broken"}]
  /\ pc # "exchange" => got.next = "more"
  /\ got.next = "end" => got.n = Smaller(remote.rows, limit)

RowsInv ==
  op \in QueryOps => /\ UnderWay => RowsRead
                     /\ Answered => got.n = Smaller(remote.rows, limit)

LEMMA RowsInvKept == CallInv /\ RowsInv /\ Next => RowsInv'
  <1> SUFFICES ASSUME CallInv, RowsInv, Next, op' \in QueryOps
               PROVE  (UnderWay => RowsRead)' /\ (Answered => got.n = Smaller(remote.rows, limit))'
    BY DEF RowsInv
  <1>1. CASE BeginCall
    <2>1. CASE Refused
      BY <1>1, <2>1, BeginDoesNotAnswer DEF Refused, UnderWay
    <2>2. CASE Opened
      <3>1. got' = [n |-> 0, next |-> "more"]
        BY <2>2 DEF Opened
      <3>2. got' \in [n : Int, next : {"more", "end", "broken"}] /\ got'.next = "more"
        BY <3>1
      <3> QED
        BY <1>1, <3>2, BeginDoesNotAnswer DEF RowsRead
    <2> QED
      BY <1>1, <2>1, <2>2, BeginOpens
  <1>2. CASE Exchanging
    <2>1. op \in QueryOps /\ op \in SqlOps /\ op \notin VersionOps /\ UnderWay /\ RowsRead
      BY <1>2, ExchangingKeepsOp, ExchangingIsNotOver, ExchangingIsNotIdle
         DEF RowsInv, UnderWay, SqlOps, QueryOps, VersionOps
    <2>2. SqlStep
      BY <1>2, <2>1, FamilyOf
    <2>3. CASE SqlLookup \/ OpenPing
      BY <2>1, <2>3 DEF SqlLookup, OpenPing, Answer, Answered, UnderWay, RowsRead
    <2>4. CASE NextRow
      <3>1. pc = "exchange" /\ pc' = "exchange" /\ UNCHANGED <<remote, limit>> /\ got.next = "more"
        BY <2>4 DEF NextRow, At
      <3>2. CASE got' = [got EXCEPT !.n = @ + 1]
        <4>1. got.n + 1 \in Int
          BY <2>1 DEF RowsRead
        <4>2. got' \in [n : Int, next : {"more", "end", "broken"}] /\ got'.next = "more"
          BY <2>1, <3>1, <3>2, <4>1 DEF RowsRead
        <4> QED
          BY <3>1, <4>2 DEF Answered, RowsRead
      <3>3. CASE got.n = Smaller(remote.rows, limit) /\ got' = [got EXCEPT !.next = "end"]
        <4>1. got' \in [n : Int, next : {"more", "end", "broken"}] /\ got'.n = got.n
          BY <2>1, <3>3 DEF RowsRead
        <4> QED
          BY <3>1, <3>3, <4>1 DEF Answered, RowsRead
      <3>4. CASE got' = [got EXCEPT !.next = "broken"]
        <4>1. got' \in [n : Int, next : {"more", "end", "broken"}] /\ got'.next = "broken"
          BY <2>1, <3>4 DEF RowsRead
        <4> QED
          BY <3>1, <4>1 DEF Answered, RowsRead
      <3> QED
        BY <2>4, <3>2, <3>3, <3>4 DEF NextRow
    <2>5. CASE RowsErr
      <3>1. pc' \in {"close", "done"} /\ UNCHANGED <<remote, limit, got>>
        BY <2>5 DEF RowsErr, Answer
      <3>2. code' = "ok" => got.next = "end"
        BY <2>5 DEF RowsErr, Answer
      <3> QED
        BY <2>1, <3>1, <3>2 DEF Answered, UnderWay, RowsRead
    <2> QED
      BY <2>1, <2>2, <2>3, <2>4, <2>5 DEF SqlStep, QueryVersion, At
  <1>3. CASE Ping
    <2>1. UnderWay /\ pc # "exchange" /\ op \in QueryOps /\ UNCHANGED <<remote, limit, got>> /\ ~Answered'
      BY <1>3 DEF Ping, UnderWay, Answered, request
    <2> QED
      BY <2>1 DEF RowsInv, RowsRead
  <1>4. CASE Fail
    BY <1>4 DEF Fail, RequestFails, Answer, Answered, UnderWay
  <1>5. CASE Close
    BY <1>5 DEF Close, RowsInv, UnderWay, Answered, request
  <1>6. CASE Finish
    BY <1>6 DEF Finish, QueryOps
  <1>7. CASE Reload
    BY <1>7 DEF Reload, RowsInv, RowsRead, UnderWay, Answered, request
  <1>8. ~(Modify \/ LogChanges \/ GroupChanges \/ Deliver)
    BY DEF Modify, LogChanges, GroupChanges, Deliver, At, GroupOps, NetOps, ScanOps, QueryOps, request
  <1> QED
    BY <1>1, <1>2, <1>3, <1>4, <1>5, <1>6, <1>7, <1>8 DEF Next, Step, Exchanging, Environment

(* Wherever a connection breaks between two rows, a query that is answered *)
(* well has all its rows up to the limit of its database: that its loop    *)
(* ended does not say so, rows.Err does.                                   *)
THEOREM RowsAllOrNothingHolds == Spec => []RowsAllOrNothing
  <1>1. Init => RowsInv
    BY DEF Init, RowsInv, QueryOps
  <1>2. CallInv /\ RowsInv /\ [Next]_vars => RowsInv'
    <2>1. RowsInv /\ UNCHANGED vars => RowsInv'
      BY DEF vars, request, RowsInv, RowsRead, UnderWay, Answered
    <2> QED
      BY <2>1, RowsInvKept
  <1>3. RowsInv => RowsAllOrNothing
    BY DEF RowsInv, RowsAllOrNothing, Answered
  <1> QED
    BY <1>1, <1>2, <1>3, CallInvHolds, PTL DEF Spec

-----------------------------------------------------------------------------
(* A scan that has begun has its remote and got; it has nothing yet before *)
(* the loop, and no more than the limit in it.                             *)
ScanData ==
  /\ remote \in ScanRemote /\ remote.stable \subseteq remote.present
  /\ remote.from \in 0..Buckets - 1
  /\ got \in ScanGot /\ got.n \in 0..MaxLimit /\ got.cursor \in 0..Buckets - 1
  /\ UnderWay => IF pc = "exchange" THEN got.n <= limit ELSE got.n = 0

Unanswered == remote = Nothing /\ got = Nothing /\ pc \in {"close", "done"}

ScanTypeInv == op \in ScanOps => ScanData \/ Unanswered

LEMMA ModifyKeeps ==
  ASSUME Modify, remote \in ScanRemote, remote.stable \subseteq remote.present
  PROVE  /\ remote' \in ScanRemote /\ remote'.from = remote.from /\ got' = got
         /\ remote'.stable \subseteq remote.stable /\ remote'.stable \subseteq remote'.present
  <1>1. PICK e \in Elems :
          remote' = IF e \in remote.present
                      THEN [remote EXCEPT !.present = @ \ {e}, !.stable = @ \ {e}]
                      ELSE [remote EXCEPT !.present = @ \cup {e}]
    BY DEF Modify
  <1>2. CASE e \in remote.present
    <2>1. remote' = [remote EXCEPT !.present = @ \ {e}, !.stable = @ \ {e}]
      BY <1>1, <1>2
    <2>2. /\ remote'.from = remote.from /\ remote'.stable = remote.stable \ {e}
          /\ remote'.present = remote.present \ {e}
      BY <2>1 DEF ScanRemote
    <2>3. remote' \in ScanRemote
      BY <2>1 DEF ScanRemote
    <2> QED
      BY <2>2, <2>3 DEF Modify
  <1>3. CASE e \notin remote.present
    <2>1. remote' = [remote EXCEPT !.present = @ \cup {e}]
      BY <1>1, <1>3
    <2>2. /\ remote'.from = remote.from /\ remote'.stable = remote.stable
          /\ remote'.present = remote.present \cup {e}
      BY <2>1 DEF ScanRemote
    <2>3. remote' \in ScanRemote
      BY <2>1 DEF ScanRemote
    <2> QED
      BY <2>2, <2>3 DEF Modify
  <1> QED
    BY <1>2, <1>3

LEMMA ScanLoopTyped ==
  ASSUME Typed, ScanLoop, ScanData
  PROVE  ScanData'
  <1>1. PICK next \in {0} \cup (got.cursor + 1 .. Buckets - 1), dups \in 0..Cardinality(got.kept) :
          ScanTo(next, dups)
    BY DEF ScanLoop
  <1> DEFINE upto == IF next = 0 THEN Buckets ELSE next
             batch == {e \in remote.present : Bucket[e] \in got.cursor + 1 .. upto}
             size == Cardinality(batch) + dups
             taken == Smaller(size, limit - got.n)
             over == size > limit - got.n
             full == got.n + taken >= limit
  <1>2. PICK fresh \in SUBSET batch :
          /\ got' = [kept |-> got.kept \cup fresh, n |-> got.n + taken, cursor |-> next,
                     truncated |-> over \/ (full /\ next # 0)]
          /\ IF over \/ full \/ next = 0
               THEN Answer("exchange", "ok")
               ELSE pc = "exchange" /\ UNCHANGED <<pc, code>>
    BY <1>1 DEF ScanTo
  <1>3. remote' = remote /\ limit' = limit /\ pc = "exchange" /\ UnderWay
    BY DEF ScanLoop, At, UnderWay
  <1>4. got.n \in 0..limit /\ limit \in 0..MaxLimit
    BY <1>3, CallAssumption DEF ScanData, Typed
  <1>5. size \in Nat
    <2>1. IsFiniteSet(batch) /\ IsFiniteSet(got.kept)
      BY RedisAssumption, FS_Subset DEF ScanData, ScanRemote, ScanGot
    <2>2. Cardinality(batch) \in Nat /\ Cardinality(got.kept) \in Nat
      BY <2>1, FS_CardinalityType
    <2> QED
      BY <2>2
  <1>6. got.n + taken \in 0..limit
    BY <1>4, <1>5 DEF Smaller
  <1>7. next \in 0..Buckets - 1
    BY RedisAssumption DEF ScanData
  <1>8. got' \in ScanGot /\ got'.n = got.n + taken /\ got'.cursor = next
    <2>1. got.kept \cup fresh \subseteq Elems
      BY DEF ScanData, ScanRemote, ScanGot
    <2>2. got.n + taken \in Int /\ next \in Int
      BY <1>6, <1>7
    <2> QED
      BY <1>2, <2>1, <2>2 DEF ScanGot
  <1>9. got.n + taken <= limit /\ got.n + taken \in 0..MaxLimit
    <2>1. \A t \in 0..limit : t <= limit /\ t \in 0..MaxLimit
      BY <1>4, CallAssumption
    <2> HIDE DEF taken
    <2> QED
      BY <1>6, <2>1
  <1>10. UnderWay' => pc' = "exchange"
    BY <1>2, <1>3 DEF Answer, UnderWay
  <1> HIDE DEF taken
  <1> QED
    BY <1>3, <1>7, <1>8, <1>9, <1>10 DEF ScanData

LEMMA ScanTypeKept == Typed /\ CallInv /\ ScanTypeInv /\ Next => ScanTypeInv'
  <1> SUFFICES ASSUME Typed, CallInv, ScanTypeInv, Next, op' \in ScanOps
               PROVE  ScanData' \/ Unanswered'
    BY DEF ScanTypeInv
  <1>1. CASE BeginCall
    <2>1. CASE Refused
      BY <2>1 DEF Refused, CallInv, Unanswered
    <2>2. CASE Opened
      <3>1. PICK c \in 0..Buckets - 1, there \in SUBSET Elems :
              /\ remote' = [present |-> there, stable |-> there, from |-> c]
              /\ got' = [kept |-> {}, n |-> 0, cursor |-> c, truncated |-> FALSE]
        BY <2>2 DEF Opened, ScanOpened
      <3>2. pc' = "lookup"
        BY <2>2 DEF Opened
      <3>3. c \in Int /\ 0 \in 0..MaxLimit
        BY RedisAssumption, CallAssumption
      <3> QED
        BY <3>1, <3>2, <3>3 DEF ScanData, ScanRemote, ScanGot
    <2> QED
      BY <1>1, <2>1, <2>2, BeginOpens
  <1>2. CASE Exchanging
    <2>1. op \in ScanOps /\ op \in RedisOps /\ RedisStep
      BY <1>2, ExchangingKeepsOp, FamilyOf DEF RedisOps
    <2>2. ScanData /\ UnderWay
      BY <1>2, <2>1, ExchangingIsNotOver, RedisSteps DEF ScanTypeInv, Unanswered, UnderWay
    <2>3. CASE LookupLimit \/ RedisDial
      <3>1. UNCHANGED <<remote, got>> /\ pc # "exchange"
        BY <2>3 DEF LookupLimit, RedisDial, Answer
      <3>2. pc' # "exchange"
        BY <2>3 DEF LookupLimit, RedisDial, Answer
      <3> QED
        BY <2>2, <3>1, <3>2 DEF ScanData
    <2>4. CASE ScanLoop
      BY <2>2, <2>4, ScanLoopTyped
    <2> QED
      BY <2>1, <2>3, <2>4 DEF RedisStep, ServerCommand, KeyCommand, cardOp, NilCommand, HGet,
         HMGet, SlowlogGet, ClientList, ZRangeSample, LRange, At, ServerOps, KeyOps, CardOps,
         NilOps, ScanOps
  <1>3. CASE Ping
    <2>1. limit \in Nat
      BY CallAssumption DEF Typed
    <2> QED
      BY <1>3, <2>1 DEF Ping, ScanTypeInv, ScanData, Unanswered, UnderWay, request
  <1>4. CASE Fail \/ Close
    BY <1>4 DEF Fail, RequestFails, Close, Answer, ScanTypeInv, ScanData, Unanswered, UnderWay, request
  <1>5. CASE Finish
    BY <1>5 DEF Finish, ScanOps
  <1>6. CASE Reload
    BY <1>6 DEF Reload, ScanTypeInv, ScanData, Unanswered, UnderWay, request
  <1>7. CASE Modify
    <2>1. op \in ScanOps /\ pc' = pc /\ limit' = limit /\ ScanData
      BY <1>7 DEF Modify, At, ScanTypeInv, Unanswered
    <2> QED
      BY <1>7, <2>1, ModifyKeeps DEF ScanData, UnderWay
  <1>8. ~(LogChanges \/ GroupChanges \/ Deliver)
    BY DEF LogChanges, GroupChanges, Deliver, At, GroupOps, NetOps, ScanOps, request
  <1> QED
    BY <1>1, <1>2, <1>3, <1>4, <1>5, <1>6, <1>7, <1>8 DEF Next, Step, Exchanging, Environment

-----------------------------------------------------------------------------
(* While an exchange is on, no more was read than arrived or was asked for. *)
NetData ==
  /\ remote \in NetRemote /\ got \in [n : Int]
  /\ remote.arrived \in 0..MaxBytes /\ got.n \in 0..want /\ got.n <= remote.arrived

Begun == op \in NetOps /\ pc \in {"address", "connect", "write", "exchange"}

NetTypeInv == Begun => NetData

LEMMA DeliverBytes ==
  ASSUME Deliver, remote \in NetRemote, remote.arrived \in 0..MaxBytes
  PROVE  /\ remote' \in NetRemote /\ remote'.arrived \in 0..MaxBytes
         /\ remote'.arrived >= remote.arrived
  <1>1. CASE remote.arrived < MaxBytes /\ remote' = [remote EXCEPT !.arrived = @ + 1]
    <2>1. remote.arrived + 1 \in 0..MaxBytes /\ remote.arrived + 1 \in Int
          /\ remote.arrived + 1 >= remote.arrived
      BY <1>1, NetAssumption
    <2>2. remote' \in NetRemote /\ remote'.arrived = remote.arrived + 1
      BY <1>1, <2>1 DEF NetRemote
    <2> QED
      BY <2>1, <2>2
  <1>2. CASE remote.arrived = 0 /\ \E n \in 1..MaxBytes : remote' = [remote EXCEPT !.arrived = n]
    <2>1. PICK n \in 1..MaxBytes : remote' = [remote EXCEPT !.arrived = n]
      BY <1>2
    <2>2. n \in Int /\ n \in 0..MaxBytes /\ n >= 0
      BY NetAssumption
    <2>3. remote' \in NetRemote /\ remote'.arrived = n
      BY <2>1, <2>2 DEF NetRemote
    <2> QED
      BY <1>2, <2>2, <2>3
  <1>3. CASE remote' = [remote EXCEPT !.end = "eof"] \/ remote' = [remote EXCEPT !.end = "reset"]
    <2>1. remote' \in NetRemote /\ remote'.arrived = remote.arrived
      BY <1>3 DEF NetRemote
    <2>2. remote.arrived >= remote.arrived
      BY NetAssumption
    <2> QED
      BY <2>1, <2>2
  <1> QED
    BY <1>1, <1>2, <1>3 DEF Deliver

LEMMA NetStepTyped ==
  ASSUME Typed, NetStep, NetTypeInv, Begun'
  PROVE  NetData'
  <1>0. Begun /\ NetData /\ want' = want /\ want \in Int
    BY NetSteps DEF NetStep, ResolveUDPAddr, NetDial, Write, TcpRead, TcpReadEnds, UdpRead, Tick, At, Answer,
       Waiting, Begun, NetTypeInv, request, Typed
  <1>1. CASE NetDial
    <2>1. CASE UNCHANGED remote
      BY <1>0, <1>1, <2>1 DEF NetDial, NetData
    <2>2. CASE remote' = [remote EXCEPT !.deadline = remote.clock + remote.timeout]
      <3>1. remote.clock + remote.timeout \in Int
        BY <1>0 DEF NetData, NetRemote
      <3>2. remote' \in NetRemote /\ remote'.arrived = remote.arrived
        BY <1>0, <2>2, <3>1 DEF NetData, NetRemote
      <3> QED
        BY <1>0, <1>1, <3>2 DEF NetDial, NetData
    <2> QED
      BY <1>1, <2>1, <2>2 DEF NetDial
  <1>2. CASE Write
    BY <1>0, <1>2 DEF Write, NetData
  <1>3. CASE TcpRead
    <2>1. PICK n \in 1..Smaller(remote.arrived - got.n, want - got.n) : got' = [n |-> got.n + n]
      BY <1>3 DEF TcpRead
    <2>2. remote' = remote
      BY <1>3 DEF TcpRead
    <2>3. got.n \in Int /\ remote.arrived \in Int
      BY <1>0 DEF NetData, NetRemote
    <2>4. got.n + n \in 0..want /\ got.n + n <= remote.arrived /\ got.n + n \in Int
      BY <1>0, <2>1, <2>3 DEF NetData, Smaller
    <2>5. got' \in [n : Int] /\ got'.n = got.n + n
      BY <2>1, <2>4
    <2> QED
      BY <1>0, <2>2, <2>4, <2>5 DEF NetData
  <1>4. CASE TcpReadEnds \/ UdpRead
    BY <1>4 DEF TcpReadEnds, UdpRead, At, Answer, Begun
  <1>5. CASE Tick
    <2>1. remote' = [remote EXCEPT !.clock = @ + 1] /\ got' = got
      BY <1>5 DEF Tick
    <2>2. remote.clock + 1 \in Int
      BY <1>0 DEF NetData, NetRemote
    <2>3. remote' \in NetRemote /\ remote'.arrived = remote.arrived
      BY <1>0, <2>1, <2>2 DEF NetData, NetRemote
    <2> QED
      BY <1>0, <2>1, <2>3 DEF NetData
  <1>6. CASE ResolveUDPAddr
    BY <1>0, <1>6 DEF ResolveUDPAddr, NetData
  <1> QED
    BY <1>1, <1>2, <1>3, <1>4, <1>5, <1>6 DEF NetStep

LEMMA NetTypeKept == Typed /\ CallInv /\ NetTypeInv /\ Next => NetTypeInv'
  <1> SUFFICES ASSUME Typed, CallInv, NetTypeInv, Next, Begun' PROVE NetData'
    BY DEF NetTypeInv
  <1>1. CASE BeginCall
    <2>1. Opened
      BY <1>1, BeginOpens DEF Refused, Begun
    <2>2. PICK n \in 1..MaxBytes, t \in 1..MaxTimeout :
            /\ want' = n /\ got' = [n |-> 0]
            /\ remote' = [arrived |-> 0, end |-> "open", clock |-> 0, deadline |-> t, timeout |-> t]
      BY <2>1 DEF Opened, NetOpened, Begun
    <2>3. t \in Nat /\ 0 \in 0..MaxBytes /\ 0 \in 0..n /\ t \in Int /\ 0 \in Int /\ 0 <= 0
      BY NetAssumption
    <2>4. remote' \in NetRemote /\ remote'.arrived = 0 /\ got'.n = 0 /\ got' \in [n : Int]
      BY <2>2, <2>3 DEF NetRemote
    <2> QED
      BY <2>2, <2>3, <2>4 DEF NetData
  <1>2. CASE Exchanging
    <2>1. NetStep
      BY <1>2, ExchangingKeepsOp, FamilyOf DEF Begun
    <2> QED
      BY <2>1, NetStepTyped
  <1>3. ~Ping
    BY DEF Ping, CallInv, Begun, request
  <1>31. ~Fail /\ ~Close
    BY DEF Close, Fail, RequestFails, Answer, Begun, request
  <1>32. ~Finish
    BY DEF Finish, Begun
  <1>4. CASE Environment
    <2>1. pc' = pc /\ op' = op /\ want' = want /\ Begun /\ NetData /\ got' = got
      BY <1>4 DEF Environment, Reload, Modify, LogChanges, GroupChanges, Deliver, NetTypeInv, Begun,
         request
    <2>2. CASE Reload
      BY <2>1, <2>2 DEF Reload, NetData
    <2>3. CASE Deliver
      <3>1. got.n \in Int /\ remote.arrived \in Int
        BY <2>1, NetAssumption DEF NetData, NetRemote
      <3>2. remote' \in NetRemote /\ remote'.arrived \in 0..MaxBytes
            /\ remote'.arrived >= remote.arrived
        BY <2>1, <2>3, DeliverBytes DEF NetData
      <3>3. remote'.arrived \in Int
        BY <3>2
      <3>4. got.n <= remote'.arrived
        BY <2>1, <3>1, <3>2, <3>3 DEF NetData
      <3> QED
        BY <2>1, <3>2, <3>4 DEF NetData
    <2>4. ~(Modify \/ LogChanges \/ GroupChanges)
      BY <2>1 DEF Modify, LogChanges, GroupChanges, At, Begun, NetOps, ScanOps, GroupOps
    <2> QED
      BY <1>4, <2>2, <2>3, <2>4 DEF Environment
  <1> QED
    BY <1>1, <1>2, <1>3, <1>31, <1>32, <1>4 DEF Next, Step, Exchanging

-----------------------------------------------------------------------------
(* Type correctness: what a call keeps has the shape that its operation    *)
(* gives it, whatever the other side does and whenever it fails.           *)
THEOREM TypeOKHolds == Spec => []TypeOK
  <1>1. Init => ScanTypeInv /\ NetTypeInv
    BY DEF Init, ScanTypeInv, NetTypeInv, ScanOps, NetOps, Begun
  <1>2. ScanTypeInv /\ NetTypeInv /\ Typed /\ CallInv /\ [Next]_vars
          => ScanTypeInv' /\ NetTypeInv'
    <2>1. ScanTypeInv /\ NetTypeInv /\ UNCHANGED vars => ScanTypeInv' /\ NetTypeInv'
      BY DEF vars, request, config, ScanTypeInv, NetTypeInv, ScanData, NetData, Unanswered,
         UnderWay, Begun
    <2> QED
      BY <2>1, ScanTypeKept, NetTypeKept
  <1>3. Typed /\ CallInv /\ ScanTypeInv /\ NetTypeInv /\ NetInv => TypeOK
    <2> SUFFICES ASSUME Typed, CallInv, ScanTypeInv, NetTypeInv, NetInv PROVE TypeOK
      OBVIOUS
    <2>1. CallTypeOK
      BY DEF CallTypeOK, Typed, CallInv
    <2>2. RedisTypeOK
      BY DEF RedisTypeOK, ScanTypeInv, ScanData, Unanswered, ScanRemote, ScanGot
    <2>3. NetTypeOK
      BY DEF NetTypeOK, NetTypeInv, NetData, NetInv, Timed, Waiting, Begun
    <2> QED
      BY <2>1, <2>2, <2>3 DEF TypeOK, CallInv
  <1> QED
    BY <1>1, <1>2, <1>3, TypedHolds, CallInvHolds, NetInvHolds, PTL DEF Spec

-----------------------------------------------------------------------------
Whole ==
  /\ (remote.end # "reset" /\ ~TimeUp) =>
       got.n = want \/ (remote.end = "eof" /\ got.n = remote.arrived)
  /\ got.n = 0 => remote.end = "eof" /\ remote.arrived = 0

WholeInv == op = "tcp" /\ Answered => Whole

(* However the response is cut into segments and whenever its peer falls   *)
(* silent or ends the stream, a TCP response is answered as a whole, but   *)
(* for a connection that broke and a time that was up.                     *)
THEOREM ResponseWholeHolds == Spec => []ResponseWhole
  <1>1. Init => WholeInv
    BY DEF Init, WholeInv, Answered
  <1>2. TypeOK /\ WholeInv /\ [Next]_vars => WholeInv'
    <2> SUFFICES ASSUME TypeOK, WholeInv, Next, op' = "tcp", Answered'
                 PROVE  Whole'
      BY DEF WholeInv, Whole, TimeUp, Answered, vars, request
    <2>1. CASE pc \in {"close", "done"}
      BY <2>1, AnswerStays DEF WholeInv, Whole, TimeUp
    <2>2. CASE pc \notin {"close", "done"}
      <3>1. Exchanging
        BY <2>2, AnswerComes
      <3>2. op = "tcp" /\ op \in NetOps
        BY <3>1, ExchangingKeepsOp DEF NetOps
      <3>3. NetStep
        BY <3>1, <3>2, FamilyOf
      <3>4. TcpRead \/ TcpReadEnds
        BY <2>2, <3>2, <3>3 DEF NetStep, ResolveUDPAddr, NetDial, Write, UdpRead, Tick, At, Answer, Answered, Waiting
      <3>5. CASE TcpRead
        <4>1. got'.n = want' /\ want' = want
          BY <2>2, <3>5 DEF TcpRead, Answered, request
        <4>2. got.n \in 0..want /\ remote.arrived \in 0..MaxBytes /\ want \in Int
          BY <3>2, <3>5 DEF TypeOK, CallTypeOK, NetTypeOK, Waiting, TcpRead, At
        <4>3. PICK n \in 1..Smaller(remote.arrived - got.n, want - got.n) : got' = [n |-> got.n + n]
          BY <3>5 DEF TcpRead
        <4>4. got'.n # 0
          BY <4>2, <4>3, NetAssumption DEF Smaller
        <4> QED
          BY <4>1, <4>4 DEF Whole
      <3>6. CASE TcpReadEnds
        BY <2>2, <3>6 DEF TcpReadEnds, Answer, Answered, Whole, TimeUp
      <3> QED
        BY <3>4, <3>5, <3>6
    <2> QED
      BY <2>1, <2>2
  <1>3. WholeInv => ResponseWhole
    BY DEF WholeInv, Whole, ResponseWhole, Answered
  <1> QED
    BY <1>1, <1>2, <1>3, TypeOKHolds, PTL DEF Spec

-----------------------------------------------------------------------------
LEMMA KafkaFamily == Exchanging /\ op \in KafkaOps => KafkaStep
  <1>1. KafkaOps \cap (RedisOps \cup SqlOps \cup NetOps \cup DockerOps \cup HttpOps
                       \cup {"openapi.load"}) = {}
    <2>1. KafkaOps \cap (RedisOps \cup SqlOps) = {}
      BY DEF RedisOps, ServerOps, KeyOps, CardOps, NilOps, LimitedOps, ScanOps, KafkaOps, InfoOps,
         GroupOps, SqlOps, QueryOps, VersionOps
    <2>2. KafkaOps \cap (NetOps \cup DockerOps \cup HttpOps \cup {"openapi.load"}) = {}
      BY DEF KafkaOps, InfoOps, GroupOps, NetOps, DockerOps, RecordOps, TextOps, HttpOps
    <2> QED
      BY <2>1, <2>2
  <1>2. "openapi" \in HttpOps
    BY DEF HttpOps
  <1> QED
    BY <1>1, <1>2, RedisSteps, SqlSteps, NetSteps, HttpDockerSteps, OpenApiSteps DEF Exchanging

-----------------------------------------------------------------------------
(* The first n of a set of numbers are the whole set, or n of them.        *)
LEMMA FirstOfAll ==
  ASSUME NEW S, IsFiniteSet(S), NEW n \in Nat, Cardinality(S) <= n
  PROVE  FirstOf(S, n) = S
  <1> SUFFICES ASSUME NEW g \in S PROVE Cardinality({h \in S : h <= g}) <= n
    BY DEF FirstOf
  <1>1. /\ IsFiniteSet({h \in S : h <= g})
        /\ Cardinality({h \in S : h <= g}) <= Cardinality(S)
    BY FS_Subset
  <1>2. Cardinality({h \in S : h <= g}) \in Nat /\ Cardinality(S) \in Nat
    BY <1>1, FS_CardinalityType
  <1> QED
    BY <1>1, <1>2

LEMMA FirstOfSize ==
  ASSUME NEW m \in Nat, NEW S \in SUBSET (1..m), NEW n \in Nat, Cardinality(S) > n
  PROVE  Cardinality(FirstOf(S, n)) = n
  <1> DEFINE P == {T \in SUBSET S : \A k \in 0..Cardinality(T) : Cardinality(FirstOf(T, k)) = k}
             c == [T \in SUBSET S |-> Max(T)]
  <1>1. IsFiniteSet(S)
    <2>1. IsFiniteSet(1..m) /\ S \subseteq 1..m
      BY FS_Interval
    <2> QED
      BY <2>1, FS_Subset
  <1>2. \A T \in SUBSET S : IsFiniteSet(T) /\ Cardinality(T) \in Nat
    BY <1>1, FS_Subset, FS_CardinalityType
  <1>3. {} \in P
    <2>1. Cardinality({}) = 0
      BY FS_EmptySet
    <2>2. FirstOf({}, 0) = {}
      BY DEF FirstOf
    <2>3. \A k \in 0..0 : Cardinality(FirstOf({}, k)) = k
      <3>1. \A k \in 0..0 : k = 0
        OBVIOUS
      <3> QED
        BY <2>1, <2>2, <3>1
    <2> QED
      BY <2>1, <2>3
  <1>4. ASSUME NEW T \in SUBSET S, T # {}
        PROVE  c[T] \in T /\ (T \ {c[T]} \in P => T \in P)
    <2> DEFINE x == Max(T)
               U == T \ {x}
    <2>1. x \in T /\ (\A i \in T : x >= i) /\ c[T] = x
      BY <1>4, MaxIs
    <2>2. IsFiniteSet(T) /\ IsFiniteSet(U) /\ Cardinality(U) \in Nat
          /\ Cardinality(T) = Cardinality(U) + 1
      BY <1>2, <2>1, FS_RemoveElement, FS_Subset
    <2> HIDE DEF x, P
    <2>3. ASSUME U \in P, NEW k \in 0..Cardinality(T) PROVE Cardinality(FirstOf(T, k)) = k
      <3>1. CASE k = Cardinality(T)
        BY <2>2, <3>1, FirstOfAll
      <3>2. CASE k # Cardinality(T)
        <4>1. k \in 0..Cardinality(U) /\ ~(Cardinality(T) <= k)
          BY <2>2, <3>2
        <4>2. \A g \in T : g \in Int
          OBVIOUS
        <4>3. ASSUME NEW g \in U PROVE {h \in T : h <= g} = {h \in U : h <= g}
          <5>1. ~(x <= g)
            BY <2>1, <4>2
          <5> QED
            BY <2>1, <5>1
        <4>4. {h \in T : h <= x} = T
          BY <2>1, <4>2
        <4>5. x \notin FirstOf(T, k)
          BY <4>1, <4>4 DEF FirstOf
        <4>6. FirstOf(T, k) = FirstOf(U, k)
          <5>1. ASSUME NEW g \in FirstOf(T, k) PROVE g \in FirstOf(U, k)
            <6>1. g \in U /\ Cardinality({h \in T : h <= g}) <= k
              BY <4>5 DEF FirstOf
            <6> QED
              BY <4>3, <6>1 DEF FirstOf
          <5>2. ASSUME NEW g \in FirstOf(U, k) PROVE g \in FirstOf(T, k)
            <6>1. g \in U /\ Cardinality({h \in U : h <= g}) <= k
              BY DEF FirstOf
            <6> QED
              BY <4>3, <6>1 DEF FirstOf
          <5> QED
            BY <5>1, <5>2
        <4>7. Cardinality(FirstOf(U, k)) = k
          BY <2>3, <4>1 DEF P
        <4> QED
          BY <4>6, <4>7
      <3> QED
        BY <3>1, <3>2
    <2>4. U \in P => T \in P
      BY <2>3 DEF P
    <2> QED
      BY <2>1, <2>4
  <1> HIDE DEF P, c
  <1>5. S \in P
    <2>1. ClosedUp(S, P, c)
      BY <1>3, <1>4 DEF ClosedUp
    <2>2. \A T \in SUBSET S : T \in P
      BY <1>1, <2>1, SubsetsUp
    <2>3. S \in SUBSET S
      OBVIOUS
    <2> QED
      BY <2>2, <2>3
  <1>6. n \in 0..Cardinality(S)
    BY <1>2
  <1> QED
    BY <1>5, <1>6 DEF P

-----------------------------------------------------------------------------
GroupsRemote == [groups : SUBSET Groups, stable : SUBSET Groups]

(* The groups whose details are read: the first of those that were listed, *)
(* or the one that was asked for.                                          *)
Detailed ==
  /\ got.phase = "detail" /\ got.listed \in SUBSET Groups
  /\ remote.stable \subseteq got.listed
  /\ \/ got.selected = FirstOf(got.listed, allowed) /\ pc = "exchange"
     \/ got.selected = got.listed /\ \E g \in Groups : got.listed = {g}

Accounted ==
  IF got.truncated
    THEN Cardinality(DOMAIN got.items) = allowed
    ELSE remote.stable \subseteq DOMAIN got.items

GroupsInv ==
  op \in GroupOps =>
    /\ UnderWay =>
         /\ remote \in GroupsRemote /\ remote.stable \subseteq remote.groups
         /\ got.phase = "list" \/ Detailed
         /\ pc \in {"ping", "exchange"} => limit \in Nat \ {0}
    /\ Answered => Accounted

LEMMA AllowedSome == Typed /\ limit \in Nat \ {0} => allowed \in Nat \ {0}
  BY DEF Typed, allowed, Smaller

LEMMA SelectedCounts ==
  ASSUME Typed, limit \in Nat \ {0}, Detailed
  PROVE  IF Cardinality(got.listed) > allowed
           THEN Cardinality(got.selected) = allowed
           ELSE got.selected = got.listed
  <1>1. allowed \in Nat \ {0}
    BY AllowedSome
  <1>2. MaxGroups \in Nat /\ IsFiniteSet(Groups)
    BY KafkaAssumption, FS_Interval DEF Groups
  <1>3. IsFiniteSet(got.listed) /\ Cardinality(got.listed) \in Nat
    BY <1>2, FS_Subset, FS_CardinalityType DEF Detailed
  <1>4. CASE got.selected = FirstOf(got.listed, allowed)
    <2>1. CASE Cardinality(got.listed) > allowed
      BY <1>1, <1>2, <1>4, <2>1, FirstOfSize DEF Detailed, Groups
    <2>2. CASE ~(Cardinality(got.listed) > allowed)
      BY <1>1, <1>3, <1>4, <2>2, FirstOfAll
    <2> QED
      BY <2>1, <2>2
  <1>5. CASE got.selected = got.listed /\ \E g \in Groups : got.listed = {g}
    <2>1. Cardinality(got.listed) = 1
      BY <1>5, FS_Singleton
    <2> QED
      BY <1>1, <1>5, <2>1
  <1> QED
    BY <1>4, <1>5 DEF Detailed

LEMMA GroupsAnswered ==
  ASSUME Typed, limit \in Nat \ {0}, Detailed, NEW items, NEW total,
         DOMAIN items = got.selected, GroupsAnswer(items, total)
  PROVE  Accounted'
  <1>1. /\ got'.items = items /\ got'.truncated = (Cardinality(got.listed) > allowed)
        /\ allowed' = allowed /\ remote' = remote
    BY DEF GroupsAnswer, Reply, request, allowed
  <1>2. remote.stable \subseteq got.listed
    BY DEF Detailed
  <1> QED
    BY <1>1, <1>2, SelectedCounts DEF Accounted

LEMMA GroupsStep ==
  ASSUME Typed, GroupsInv, op \in GroupOps, KafkaStep
  PROVE  GroupsInv'
  <1>1. UnderWay /\ op' = op /\ want' = want
    BY KafkaSteps, ExchangingIsNotOver, ExchangingKeepsOp DEF UnderWay, Exchanging
  <1>2. /\ remote \in GroupsRemote /\ remote.stable \subseteq remote.groups
        /\ got.phase = "list" \/ Detailed
        /\ pc \in {"ping", "exchange"} => limit \in Nat \ {0}
    BY <1>1 DEF GroupsInv
  <1>3. CASE KafkaDial
    <2>1. UNCHANGED <<remote, got, want>> /\ pc # "exchange" /\ ~Answered'
      BY <1>3 DEF KafkaDial, request, Answer, Answered
    <2>2. Detailed => Detailed'
      BY <2>1 DEF Detailed
    <2>3. UnderWay' => limit' \in Nat \ {0}
      <3>1. UnderWay' => entry.sound /\ limit' = entry.limit
        BY <1>3 DEF KafkaDial, Answer, UnderWay
      <3>2. entry.sound => entry.limit \in Nat \ {0}
        <4>1. CASE entry = Absent
          BY <4>1 DEF Absent
        <4>2. CASE entry \in [known : {TRUE}, sound : BOOLEAN, limit : 1..MaxLimit]
          <5>1. entry.limit \in 1..MaxLimit
            BY <4>2
          <5> QED
            BY <5>1
        <4> QED
          BY <4>1, <4>2 DEF Typed, Entries
      <3> QED
        BY <3>1, <3>2
    <2> QED
      BY <1>2, <2>1, <2>2, <2>3 DEF GroupsInv
  <1>4. CASE BadLimit
    BY <1>4 DEF BadLimit, KafkaFails, Answer, GroupsInv, UnderWay, Answered
  <1>5. CASE NoGroups
    <2>1. got'.items = <<>> /\ got'.truncated = FALSE /\ remote' = remote /\ remote.groups = {}
      BY <1>5 DEF NoGroups, Reply
    <2>2. Accounted'
      BY <1>2, <2>1 DEF Accounted
    <2> QED
      BY <1>5, <2>2 DEF NoGroups, Reply, Answer, GroupsInv, UnderWay
  <1>6. CASE ListGroups
    <2>1. /\ got'.phase = "detail" /\ got'.listed = remote.groups
          /\ got'.selected = FirstOf(remote.groups, allowed)
          /\ allowed' = allowed /\ remote' = remote /\ pc' = pc /\ limit' = limit /\ pc = "exchange"
      BY <1>6 DEF ListGroups, At, request, allowed
    <2>2. Detailed'
      BY <1>2, <2>1 DEF Detailed, GroupsRemote
    <2> QED
      BY <1>2, <2>1, <2>2 DEF GroupsInv, Answered, UnderWay
  <1>7. CASE DescribeGroups
    <2>1. Detailed /\ limit \in Nat \ {0} /\ pc' \in {"close", "done"}
      BY <1>2, <1>7 DEF DescribeGroups, At, GroupsAnswer, Reply, Answer
    <2>2. PICK reply \in [got.selected -> {"described", "failed", "missing"}] :
            GroupsAnswer(
              [g \in got.selected |-> IF reply[g] = "missing" THEN "listed" ELSE reply[g]], 0)
      BY <1>7 DEF DescribeGroups
    <2>3. Accounted'
      BY <2>1, <2>2, GroupsAnswered
    <2> QED
      BY <2>1, <2>3 DEF GroupsInv, UnderWay
  <1>8. CASE LagSummary
    <2>1. Detailed /\ limit \in Nat \ {0} /\ pc' \in {"close", "done"}
      BY <1>2, <1>8 DEF LagSummary, At, GroupsAnswer, Reply, Answer
    <2>2. PICK lag \in [got.selected -> -1..MaxLag] : GroupsAnswer(lag, Counted(lag))
      BY <1>8 DEF LagSummary
    <2>3. DOMAIN lag = got.selected
      OBVIOUS
    <2>4. Accounted'
      BY <2>1, <2>2, <2>3, GroupsAnswered
    <2> QED
      BY <2>1, <2>4 DEF GroupsInv, UnderWay
  <1>9. ~(ClusterInfo \/ BrokerConfig \/ Topics \/ TopicDetail \/ PartitionHealth \/ ReadStarts
          \/ ReadEnds \/ ConsumerLag)
    BY DEF ClusterInfo, BrokerConfig, Topics, TopicDetail, PartitionHealth, ReadStarts, ReadEnds,
       ConsumerLag, KafkaFails, At, GroupOps, InfoOps
  <1> QED
    BY <1>3, <1>4, <1>5, <1>6, <1>7, <1>8, <1>9 DEF KafkaStep

LEMMA GroupsInvKept == Typed /\ CallInv /\ GroupsInv /\ Next => GroupsInv'
  <1> SUFFICES ASSUME Typed, CallInv, GroupsInv, Next, op' \in GroupOps PROVE GroupsInv'
    BY DEF GroupsInv
  <1>1. CASE BeginCall
    <2>1. ~Answered'
      BY <1>1, BeginDoesNotAnswer
    <2>2. CASE Refused
      BY <2>1, <2>2 DEF Refused, GroupsInv, UnderWay
    <2>3. CASE Opened
      <3>1. pc' = "dial"
        BY <2>3 DEF Opened
      <3>2. PICK there \in SUBSET Groups :
              \/ remote' = [groups |-> there, stable |-> there] /\ got' = [phase |-> "list"]
              \/ \E g \in Groups :
                   /\ remote' = [groups |-> there, stable |-> there \cap {g}]
                   /\ got' = [phase |-> "detail", listed |-> {g}, selected |-> {g}]
        BY <2>3 DEF Opened, GroupsOpened
      <3>3. remote' \in GroupsRemote /\ remote'.stable \subseteq remote'.groups
        BY <3>2 DEF GroupsRemote
      <3>4. got'.phase = "list" \/ Detailed'
        BY <3>2 DEF Detailed
      <3> QED
        BY <2>1, <3>1, <3>3, <3>4 DEF GroupsInv
    <2> QED
      BY <1>1, <2>2, <2>3, BeginOpens
  <1>2. CASE Exchanging
    <2>1. op \in GroupOps /\ op \in KafkaOps
      BY <1>2, ExchangingKeepsOp DEF KafkaOps
    <2> QED
      BY <1>2, <2>1, KafkaFamily, GroupsStep
  <1>3. CASE Ping
    <2>1. UNCHANGED <<op, want, limit, remote, got>> /\ pc = "ping" /\ ~Answered'
      BY <1>3 DEF Ping, request, Answered
    <2>2. Detailed => Detailed' \/ ~UnderWay'
      BY <1>3, <2>1 DEF Detailed, Ping, UnderWay, allowed
    <2> QED
      BY <2>1, <2>2 DEF GroupsInv, UnderWay
  <1>4. CASE Fail
    BY <1>4 DEF Fail, RequestFails, Answer, GroupsInv, UnderWay, Answered
  <1>5. CASE Close
    BY <1>5 DEF Close, GroupsInv, UnderWay, Answered, Accounted, allowed, request
  <1>6. CASE Finish
    BY <1>6 DEF Finish, GroupOps
  <1>7. CASE Reload
    BY <1>7 DEF Reload, GroupsInv, Detailed, UnderWay, Answered, allowed, request
  <1>8. CASE GroupChanges
    <2>1. /\ pc = "exchange" /\ UNCHANGED <<pc, op, want, limit, got, code>> /\ op \in GroupOps
      BY <1>8 DEF GroupChanges, At, request
    <2>2. UnderWay /\ remote \in GroupsRemote /\ remote.stable \subseteq remote.groups
      BY <2>1 DEF UnderWay, GroupsInv
    <2>3. PICK g \in Groups :
             remote' = IF g \in remote.groups
                         THEN [groups |-> remote.groups \ {g}, stable |-> remote.stable \ {g}]
                         ELSE [remote EXCEPT !.groups = @ \cup {g}]
      BY <1>8 DEF GroupChanges
    <2>4. remote' \in GroupsRemote /\ remote'.stable \subseteq remote.stable
          /\ remote'.stable \subseteq remote'.groups
      BY <2>2, <2>3 DEF GroupsRemote
    <2>5. Detailed => Detailed'
      BY <2>1, <2>4 DEF Detailed, allowed
    <2> QED
      BY <2>1, <2>2, <2>4, <2>5 DEF GroupsInv, UnderWay, Answered
  <1>9. ~(Modify \/ LogChanges \/ Deliver)
    BY DEF Modify, LogChanges, Deliver, At, GroupOps, NetOps, ScanOps, request
  <1> QED
    BY <1>1, <1>2, <1>3, <1>4, <1>5, <1>6, <1>7, <1>8, <1>9 DEF Next, Step, Exchanging, Environment

(* However many groups there are and whichever come and go while they are  *)
(* read, a list of consumer groups that is not truncated has an item for   *)
(* each that was there the whole time; one that is has the limit.          *)
THEOREM GroupsAccountedHolds == Spec => []GroupsAccounted
  <1>1. Init => GroupsInv
    BY DEF Init, GroupsInv, GroupOps
  <1>2. Typed /\ CallInv /\ GroupsInv /\ [Next]_vars => GroupsInv'
    <2>1. GroupsInv /\ UNCHANGED vars => GroupsInv'
      BY DEF vars, request, GroupsInv, Detailed, Accounted, allowed, UnderWay, Answered
    <2> QED
      BY <2>1, GroupsInvKept
  <1>3. GroupsInv => GroupsAccounted
    BY DEF GroupsInv, GroupsAccounted, Accounted, Answered
  <1> QED
    BY <1>1, <1>2, <1>3, TypedHolds, CallInvHolds, PTL DEF Spec

-----------------------------------------------------------------------------
(* The log of each partition reaches from lo to hi; what was read of the   *)
(* starts is not past the log, unless the topic was created anew.          *)
LogRemote == [lo : [Parts -> -1..MaxOffset], hi : [Parts -> -1..MaxOffset], recreated : BOOLEAN]

Logs(r) ==
  /\ r \in LogRemote
  /\ \A p \in Parts : r.lo[p] <= r.hi[p] /\ (r.lo[p] = -1) = (r.hi[p] = -1)

Started ==
  /\ got.phase = "ends" /\ got.start \in [Parts -> -1..MaxOffset]
  /\ ~remote.recreated => \A p \in Parts \ got.failed : 0 <= got.start[p] /\ got.start[p] <= remote.lo[p]

Covering ==
  \A p \in Parts :
    /\ p \notin got.failed => got.size[p] >= got.had[p] /\ got.size[p] <= got.end[p]
    /\ got.total >= got.size[p]

OffsetsInv ==
  op = "topic_offsets" =>
    /\ UnderWay => Logs(remote) /\ (got.phase = "starts" \/ Started)
    /\ Answered => remote.recreated \/ Covering

LEMMA NumbersOfLog ==
  ASSUME NEW r, Logs(r)
  PROVE  /\ -1..MaxOffset \subseteq Int
         /\ \A p \in Parts : r.lo[p] \in -1..MaxOffset /\ r.hi[p] \in -1..MaxOffset
                             /\ r.lo[p] \in Int /\ r.hi[p] \in Int
  <1>1. -1..MaxOffset \subseteq Int
    BY KafkaAssumption
  <1>2. \A p \in Parts : r.lo[p] \in -1..MaxOffset /\ r.hi[p] \in -1..MaxOffset
    BY DEF Logs, LogRemote
  <1> QED
    BY <1>1, <1>2

LEMMA OffsetsTyped ==
  ASSUME NEW at \in [Parts -> -1..MaxOffset], NEW failed
  PROVE  Offsets(at, failed) \in [Parts -> -1..MaxOffset]
  <1>1. -1 \in -1..MaxOffset
    BY KafkaAssumption
  <1> QED
    BY <1>1 DEF Offsets

LEMMA StartsRead ==
  ASSUME ReadStarts, Logs(remote)
  PROVE  Started'
  <1>1. PICK failed \in SUBSET Parts :
          got' = [phase |-> "ends", start |-> Offsets(remote.lo, failed),
                  failed |-> failed \cup {p \in Parts : remote.lo[p] = -1}]
    BY DEF ReadStarts
  <1>2. remote' = remote
    BY DEF ReadStarts
  <1>3. got'.start \in [Parts -> -1..MaxOffset]
    BY <1>1, OffsetsTyped DEF Logs, LogRemote
  <1>4. ASSUME NEW p \in Parts \ got'.failed
        PROVE  0 <= got'.start[p] /\ got'.start[p] <= remote.lo[p]
    <2>1. got'.start[p] = remote.lo[p] /\ remote.lo[p] # -1
      BY <1>1, <1>4 DEF Offsets
    <2>2. \A x \in -1..MaxOffset : x # -1 => 0 <= x /\ x <= x
      BY KafkaAssumption
    <2>3. remote.lo[p] \in -1..MaxOffset
      BY NumbersOfLog
    <2> QED
      BY <2>1, <2>2, <2>3
  <1> QED
    BY <1>1, <1>2, <1>3, <1>4 DEF Started

LEMMA EndsRead ==
  ASSUME ReadEnds, Logs(remote), Started
  PROVE  remote'.recreated \/ Covering'
  <1>1. PICK failed \in SUBSET Parts :
          LET end == Offsets(remote.hi, failed)
              size == [p \in Parts |-> MessageCount(got.start[p], end[p])]
          IN  got' = [phase |-> "read", start |-> got.start, end |-> end, size |-> size,
                  total |-> MapThenSumSet(LAMBDA p : IF size[p] > 0 THEN size[p] ELSE 0, Parts),
                  failed |-> got.failed \cup failed,
                  had |-> [p \in Parts |-> remote.hi[p] - remote.lo[p]]]
    BY DEF ReadEnds
  <1> DEFINE end == Offsets(remote.hi, failed)
             size == [p \in Parts |-> MessageCount(got.start[p], end[p])]
             term(p) == IF size[p] > 0 THEN size[p] ELSE 0
             f == [p \in Parts |-> term(p)]
  <1>2. /\ got'.end = end /\ got'.size = size /\ got'.failed = got.failed \cup failed
        /\ got'.had = [p \in Parts |-> remote.hi[p] - remote.lo[p]]
    BY <1>1
  <1>3. got'.total = MapThenSumSet(term, Parts)
    BY <1>1
  <1>4. remote' = remote
    BY DEF ReadEnds
  <1>5. end \in [Parts -> -1..MaxOffset]
    BY OffsetsTyped DEF Logs, LogRemote
  <1>6. \A p \in Parts : size[p] \in Int
    <2>1. \A a, b \in -1..MaxOffset : MessageCount(a, b) \in Int
      BY KafkaAssumption DEF MessageCount
    <2> HIDE DEF end
    <2> QED
      BY <1>5, <2>1 DEF Started
  <1>7. \A p \in Parts : got'.total >= size[p]
    <2>1. f \in [Parts -> Nat] /\ \A p \in Parts : f[p] >= size[p]
      <3> HIDE DEF size
      <3>1. \A p \in Parts : term(p) \in Nat /\ term(p) >= size[p]
        BY <1>6
      <3> QED
        BY <3>1
    <2>2. Terms(term, Parts, f)
      BY DEF Terms
    <2>3. /\ MapThenSumSet(term, Parts) \in Nat
          /\ \A p \in Parts : f[p] <= MapThenSumSet(term, Parts)
      <3> HIDE DEF f, term
      <3> QED
        BY <2>1, <2>2, KafkaAssumption, SumBounds
    <2>4. got'.total \in Nat /\ \A p \in Parts : f[p] <= got'.total
      BY <1>3, <2>3
    <2> HIDE DEF f, size
    <2>5. \A p \in Parts : f[p] \in Nat /\ f[p] >= size[p]
      BY <2>1
    <2> QED
      BY <1>6, <2>4, <2>5
  <1>8. ASSUME ~remote.recreated, NEW p \in Parts, p \notin got'.failed
        PROVE  size[p] >= got'.had[p] /\ size[p] <= end[p]
    <2>1. 0 <= got.start[p] /\ got.start[p] <= remote.lo[p]
      BY <1>2, <1>8 DEF Started
    <2>2. end[p] = remote.hi[p]
      BY <1>2, <1>8 DEF Offsets
    <2>3. got.start[p] \in Int /\ remote.lo[p] \in Int /\ remote.hi[p] \in Int
          /\ remote.lo[p] <= remote.hi[p]
      BY NumbersOfLog DEF Started, Logs
    <2>4. size[p] = MessageCount(got.start[p], remote.hi[p])
      BY <2>2
    <2>5. size[p] = remote.hi[p] - got.start[p]
      BY <2>1, <2>3, <2>4 DEF MessageCount
    <2>6. got'.had[p] = remote.hi[p] - remote.lo[p]
      BY <1>2
    <2> HIDE DEF size, end
    <2> QED
      BY <2>1, <2>2, <2>3, <2>5, <2>6
  <1> HIDE DEF size, end
  <1> QED
    BY <1>2, <1>4, <1>7, <1>8 DEF Covering

LEMMA LogsKept ==
  ASSUME LogChanges, Logs(remote)
  PROVE  /\ Logs(remote')
         /\ ~remote'.recreated => /\ ~remote.recreated
                                  /\ \A p \in Parts : remote.lo[p] <= remote'.lo[p]
  <1>1. ASSUME NEW p \in Parts, remote.hi[p] < MaxOffset,
               remote' = [remote EXCEPT !.hi[p] = @ + 1, !.lo[p] = IF @ = -1 THEN 0 ELSE @]
        PROVE  /\ Logs(remote') /\ remote'.recreated = remote.recreated
               /\ \A q \in Parts : remote.lo[q] <= remote'.lo[q]
    <2> DEFINE hi == [remote.hi EXCEPT ![p] = @ + 1]
               lo == [remote.lo EXCEPT ![p] = IF @ = -1 THEN 0 ELSE @]
    <2>1. remote'.hi = hi /\ remote'.lo = lo /\ remote'.recreated = remote.recreated
          /\ remote' \in [lo : {lo}, hi : {hi}, recreated : BOOLEAN]
      BY <1>1 DEF Logs, LogRemote
    <2>2. remote.hi \in [Parts -> -1..MaxOffset] /\ remote.lo \in [Parts -> -1..MaxOffset]
      BY DEF Logs, LogRemote
    <2>3. remote.hi[p] \in -1..MaxOffset /\ remote.lo[p] \in -1..MaxOffset
          /\ remote.lo[p] <= remote.hi[p] /\ (remote.lo[p] = -1) = (remote.hi[p] = -1)
      BY <2>2 DEF Logs
    <2>4. hi[p] = remote.hi[p] + 1 /\ lo[p] = IF remote.lo[p] = -1 THEN 0 ELSE remote.lo[p]
      BY <2>2
    <2>5. \A q \in Parts \ {p} : hi[q] = remote.hi[q] /\ lo[q] = remote.lo[q]
      BY <2>2
    <2>6. hi[p] \in -1..MaxOffset /\ lo[p] \in -1..MaxOffset /\ lo[p] <= hi[p] /\ remote.lo[p] <= lo[p]
          /\ lo[p] # -1 /\ hi[p] # -1
      <3> HIDE DEF hi, lo
      <3> QED
        BY <1>1, <2>3, <2>4, KafkaAssumption
    <2>7. hi \in [Parts -> -1..MaxOffset] /\ lo \in [Parts -> -1..MaxOffset]
      BY <2>2, <2>4, <2>6
    <2> HIDE DEF hi, lo
    <2>8. \A q \in Parts : lo[q] <= hi[q] /\ (lo[q] = -1) = (hi[q] = -1) /\ remote.lo[q] <= lo[q]
      <3> SUFFICES ASSUME NEW q \in Parts
                   PROVE  lo[q] <= hi[q] /\ (lo[q] = -1) = (hi[q] = -1) /\ remote.lo[q] <= lo[q]
        OBVIOUS
      <3>1. CASE q = p
        BY <2>6, <3>1
      <3>2. CASE q # p
        <4>1. remote.lo[q] \in Int /\ remote.lo[q] <= remote.hi[q]
              /\ (remote.lo[q] = -1) = (remote.hi[q] = -1)
          BY NumbersOfLog DEF Logs
        <4> QED
          BY <2>5, <3>2, <4>1
      <3> QED
        BY <3>1, <3>2
    <2> QED
      BY <2>1, <2>7, <2>8 DEF Logs, LogRemote
  <1>2. ASSUME NEW p \in Parts, remote.lo[p] < remote.hi[p], remote' = [remote EXCEPT !.lo[p] = @ + 1]
        PROVE  /\ Logs(remote') /\ remote'.recreated = remote.recreated
               /\ \A q \in Parts : remote.lo[q] <= remote'.lo[q]
    <2> DEFINE lo == [remote.lo EXCEPT ![p] = @ + 1]
    <2>1. remote'.hi = remote.hi /\ remote'.lo = lo /\ remote'.recreated = remote.recreated
          /\ remote' \in [lo : {lo}, hi : {remote.hi}, recreated : BOOLEAN]
      BY <1>2 DEF Logs, LogRemote
    <2>2. remote.hi \in [Parts -> -1..MaxOffset] /\ remote.lo \in [Parts -> -1..MaxOffset]
      BY DEF Logs, LogRemote
    <2>3. remote.hi[p] \in -1..MaxOffset /\ remote.lo[p] \in -1..MaxOffset
          /\ remote.lo[p] <= remote.hi[p] /\ (remote.lo[p] = -1) = (remote.hi[p] = -1)
      BY <2>2 DEF Logs
    <2>4. lo[p] = remote.lo[p] + 1 /\ \A q \in Parts \ {p} : lo[q] = remote.lo[q]
      BY <2>2
    <2>6. lo[p] \in -1..MaxOffset /\ lo[p] <= remote.hi[p] /\ remote.lo[p] <= lo[p]
          /\ lo[p] # -1 /\ remote.hi[p] # -1
      <3> HIDE DEF lo
      <3> QED
        BY <1>2, <2>3, <2>4, KafkaAssumption
    <2>7. lo \in [Parts -> -1..MaxOffset]
      BY <2>2, <2>4, <2>6
    <2> HIDE DEF lo
    <2>8. \A q \in Parts : lo[q] <= remote.hi[q] /\ (lo[q] = -1) = (remote.hi[q] = -1)
                           /\ remote.lo[q] <= lo[q]
      <3> SUFFICES ASSUME NEW q \in Parts
                   PROVE  lo[q] <= remote.hi[q] /\ (lo[q] = -1) = (remote.hi[q] = -1)
                          /\ remote.lo[q] <= lo[q]
        OBVIOUS
      <3>1. CASE q = p
        BY <2>6, <3>1
      <3>2. CASE q # p
        <4>1. remote.lo[q] \in Int /\ remote.lo[q] <= remote.hi[q]
              /\ (remote.lo[q] = -1) = (remote.hi[q] = -1)
          BY NumbersOfLog DEF Logs
        <4> QED
          BY <2>4, <3>2, <4>1
      <3> QED
        BY <3>1, <3>2
    <2> QED
      BY <2>1, <2>2, <2>7, <2>8 DEF Logs, LogRemote
  <1>3. ASSUME remote' = [lo |-> [p \in Parts |-> 0], hi |-> [p \in Parts |-> 0], recreated |-> TRUE]
        PROVE  Logs(remote') /\ remote'.recreated
    <2>1. 0 \in -1..MaxOffset /\ 0 <= 0
      BY KafkaAssumption
    <2> QED
      BY <1>3, <2>1 DEF Logs, LogRemote
  <1> QED
    BY <1>1, <1>2, <1>3 DEF LogChanges

LEMMA StartedKept ==
  ASSUME LogChanges, Logs(remote), Started
  PROVE  Started'
  <1>1. got' = got
    BY DEF LogChanges
  <1>2. ASSUME ~remote'.recreated, NEW p \in Parts \ got.failed
        PROVE  0 <= got.start[p] /\ got.start[p] <= remote'.lo[p]
    <2>1. ~remote.recreated /\ remote.lo[p] <= remote'.lo[p] /\ Logs(remote')
      BY <1>2, LogsKept
    <2>2. 0 <= got.start[p] /\ got.start[p] <= remote.lo[p]
      BY <2>1 DEF Started
    <2>3. remote.lo[p] \in Int /\ remote'.lo[p] \in Int /\ got.start[p] \in Int
      BY <2>1, NumbersOfLog DEF Started
    <2> QED
      BY <2>1, <2>2, <2>3
  <1> QED
    BY <1>1, <1>2 DEF Started

LEMMA OffsetsInvKept == Typed /\ CallInv /\ OffsetsInv /\ Next => OffsetsInv'
  <1> SUFFICES ASSUME Typed, CallInv, OffsetsInv, Next, op' = "topic_offsets" PROVE OffsetsInv'
    BY DEF OffsetsInv
  <1>1. CASE BeginCall
    <2>1. ~Answered'
      BY <1>1, BeginDoesNotAnswer
    <2>2. CASE Refused
      BY <2>1, <2>2 DEF Refused, OffsetsInv, UnderWay
    <2>3. CASE Opened
      <3>1. OffsetsOpened
        BY <2>3 DEF Opened
      <3>2. PICK lo \in [Parts -> -1..MaxOffset] :
              \E hi \in [Parts -> -1..MaxOffset] :
                /\ \A p \in Parts : lo[p] <= hi[p] /\ (lo[p] = -1) = (hi[p] = -1)
                /\ remote' = [lo |-> lo, hi |-> hi, recreated |-> FALSE]
                /\ got' = [phase |-> "starts"]
        BY <3>1 DEF OffsetsOpened
      <3>3. PICK hi \in [Parts -> -1..MaxOffset] :
              /\ \A p \in Parts : lo[p] <= hi[p] /\ (lo[p] = -1) = (hi[p] = -1)
              /\ remote' = [lo |-> lo, hi |-> hi, recreated |-> FALSE]
              /\ got' = [phase |-> "starts"]
        BY <3>2
      <3>4. remote'.lo = lo /\ remote'.hi = hi /\ remote' \in LogRemote /\ got'.phase = "starts"
        BY <3>3 DEF LogRemote
      <3>5. Logs(remote')
        BY <3>3, <3>4 DEF Logs
      <3> QED
        BY <2>1, <3>4, <3>5 DEF OffsetsInv
    <2> QED
      BY <1>1, <2>2, <2>3, BeginOpens
  <1>2. CASE Exchanging
    <2>1. op = "topic_offsets" /\ op \in KafkaOps
      BY <1>2, ExchangingKeepsOp DEF KafkaOps
    <2>2. KafkaStep /\ UnderWay
      BY <1>2, <2>1, KafkaFamily, KafkaSteps, ExchangingIsNotOver DEF UnderWay
    <2>3. Logs(remote) /\ (got.phase = "starts" \/ Started)
      BY <2>1, <2>2 DEF OffsetsInv
    <2>4. CASE KafkaDial
      <3>1. UNCHANGED <<remote, got>> /\ ~Answered'
        BY <2>4 DEF KafkaDial, Answer, Answered
      <3>2. Started => Started'
        BY <3>1 DEF Started
      <3> QED
        BY <2>3, <3>1, <3>2 DEF OffsetsInv
    <2>5. CASE ReadStarts
      <3>1. Started'
        BY <2>3, <2>5, StartsRead
      <3>2. remote' = remote /\ pc' = "exchange"
        BY <2>5 DEF ReadStarts, At
      <3> QED
        BY <2>3, <3>1, <3>2 DEF OffsetsInv, Answered
    <2>6. CASE ReadEnds
      <3>1. Started
        BY <2>3, <2>6 DEF ReadEnds
      <3>2. remote'.recreated \/ Covering'
        BY <2>3, <2>6, <3>1, EndsRead
      <3>3. ~UnderWay'
        BY <2>6 DEF ReadEnds, Answer, UnderWay
      <3> QED
        BY <3>2, <3>3 DEF OffsetsInv
    <2>7. ~(BadLimit \/ ClusterInfo \/ BrokerConfig \/ Topics \/ TopicDetail \/ PartitionHealth
            \/ NoGroups \/ ListGroups \/ DescribeGroups \/ LagSummary \/ ConsumerLag)
      BY <2>1 DEF BadLimit, ClusterInfo, BrokerConfig, Topics, TopicDetail, PartitionHealth, NoGroups,
         ListGroups, DescribeGroups, LagSummary, ConsumerLag, KafkaFails, At, GroupOps, InfoOps
    <2> QED
      BY <2>2, <2>4, <2>5, <2>6, <2>7 DEF KafkaStep
  <1>3. CASE Ping
    <2>1. UNCHANGED <<op, remote, got>> /\ pc = "ping" /\ ~Answered'
      BY <1>3 DEF Ping, request, Answered
    <2>2. Started => Started'
      BY <2>1 DEF Started
    <2> QED
      BY <2>1, <2>2 DEF OffsetsInv, UnderWay
  <1>4. CASE Fail
    BY <1>4 DEF Fail, RequestFails, Answer, OffsetsInv, UnderWay, Answered
  <1>5. CASE Close
    BY <1>5 DEF Close, OffsetsInv, UnderWay, Answered, Covering, request
  <1>6. ~Finish
    BY DEF Finish
  <1>7. CASE Reload
    BY <1>7 DEF Reload, OffsetsInv, Started, UnderWay, Answered, request
  <1>8. CASE LogChanges
    <2>1. /\ pc = "exchange" /\ UNCHANGED <<pc, op, got, code>> /\ op = "topic_offsets"
      BY <1>8 DEF LogChanges, At, request
    <2>2. Logs(remote) /\ (got.phase = "starts" \/ Started)
      BY <2>1 DEF OffsetsInv, UnderWay
    <2>3. Logs(remote') /\ (Started => Started')
      BY <1>8, <2>2, LogsKept, StartedKept
    <2> QED
      BY <2>1, <2>2, <2>3 DEF OffsetsInv, Answered
  <1>9. ~(Modify \/ GroupChanges \/ Deliver)
    BY DEF Modify, GroupChanges, Deliver, At, GroupOps, NetOps, ScanOps, request
  <1> QED
    BY <1>1, <1>2, <1>3, <1>4, <1>5, <1>6, <1>7, <1>8, <1>9 DEF Next, Step, Exchanging, Environment

(* However the logs of any number of partitions grow and shrink between    *)
(* the two reads, the count of a partition whose reads both succeeded      *)
(* covers what its log held at the second, and no total falls short of it. *)
THEOREM OffsetsSoundHolds == Spec => []OffsetsSound
  <1>1. Init => OffsetsInv
    BY DEF Init, OffsetsInv
  <1>2. Typed /\ CallInv /\ OffsetsInv /\ [Next]_vars => OffsetsInv'
    <2>1. OffsetsInv /\ UNCHANGED vars => OffsetsInv'
      BY DEF vars, request, OffsetsInv, Started, Covering, UnderWay, Answered
    <2> QED
      BY <2>1, OffsetsInvKept
  <1>3. OffsetsInv => OffsetsSound
    BY DEF OffsetsInv, OffsetsSound, Covering, Answered
  <1> QED
    BY <1>1, <1>2, <1>3, TypedHolds, CallInvHolds, PTL DEF Spec

-----------------------------------------------------------------------------
(* The parameters that are merged of the first k declarations: one for     *)
(* each place, and what stands of each declaration.                        *)
StandsAmong(ps, j, k) ==
  /\ Supported(ps[j])
  /\ \A l \in j + 1..k : Supported(ps[l]) => ~SamePlace(ps[l], ps[j])

MergedTo(ps, k, m) ==
  /\ m \in Seq(Parameters)
  /\ \A i \in 1..Len(m) : \E j \in 1..k : Supported(ps[j]) /\ SamePlace(m[i], ps[j])
  /\ \A j \in 1..k : Supported(ps[j]) => \E i \in 1..Len(m) : SamePlace(m[i], ps[j])
  /\ \A j \in 1..k : StandsAmong(ps, j, k) => \E i \in 1..Len(m) : m[i] = AsMerged(ps[j])

LEMMA AsMergedIs ==
  ASSUME NEW p \in Parameters
  PROVE  AsMerged(p) \in Parameters /\ SamePlace(AsMerged(p), p)
  <1>1. (p.required \/ p.in = "path") \in BOOLEAN
    OBVIOUS
  <1> QED
    BY <1>1 DEF AsMerged, Parameters, SamePlace

LEMMA AddParameterMerges ==
  ASSUME NEW ps \in Seq(Parameters), NEW k \in 0..Len(ps) - 1, NEW m, MergedTo(ps, k, m)
  PROVE  MergedTo(ps, k + 1, AddParameter(m, ps[k + 1]))
  <1> DEFINE p == ps[k + 1]
             w == AddParameter(m, p)
  <1>0. k \in Nat /\ k + 1 \in Nat /\ k + 1 \in 1..k + 1 /\ 1..k + 1 = 1..k \cup {k + 1}
    OBVIOUS
  <1>1. p \in Parameters /\ AsMerged(p) \in Parameters /\ SamePlace(AsMerged(p), p)
    <2>1. k + 1 \in 1..Len(ps)
      BY LenProperties
    <2>2. p \in Parameters
      BY <2>1, ElementOfSeq
    <2> QED
      BY <2>2, AsMergedIs
  <1>2. m \in Seq(Parameters) /\ Len(m) \in Nat /\ DOMAIN m = 1..Len(m)
        /\ \A i \in 1..Len(m) : m[i] \in Parameters
    BY LenProperties, ElementOfSeq DEF MergedTo
  <1>3. \A j \in 1..k : StandsAmong(ps, j, k + 1) =>
           StandsAmong(ps, j, k) /\ (Supported(p) => ~SamePlace(p, ps[j]))
    <2> SUFFICES ASSUME NEW j \in 1..k, StandsAmong(ps, j, k + 1)
                 PROVE  StandsAmong(ps, j, k) /\ (Supported(p) => ~SamePlace(p, ps[j]))
      OBVIOUS
    <2>1. k + 1 \in j + 1..k + 1 /\ \A l \in j + 1..k : l \in j + 1..k + 1
      BY <1>0
    <2> QED
      BY <2>1 DEF StandsAmong
  <1> HIDE DEF p
  <1>4. CASE ~Supported(p)
    <2>1. w = m
      BY <1>4 DEF AddParameter
    <2>2. ~StandsAmong(ps, k + 1, k + 1)
      BY <1>4 DEF StandsAmong, p
    <2>3. ASSUME NEW j \in 1..k + 1, Supported(ps[j]) PROVE \E i \in 1..Len(m) : SamePlace(m[i], ps[j])
      <3>1. j \in 1..k
        BY <1>0, <1>4, <2>3 DEF p
      <3> QED
        BY <2>3, <3>1 DEF MergedTo
    <2>4. ASSUME NEW j \in 1..k + 1, StandsAmong(ps, j, k + 1) PROVE \E i \in 1..Len(m) : m[i] = AsMerged(ps[j])
      <3>1. j \in 1..k
        BY <1>0, <2>2, <2>4
      <3> QED
        BY <1>3, <2>4, <3>1 DEF MergedTo
    <2>5. \A i \in 1..Len(m) : \E j \in 1..k + 1 : Supported(ps[j]) /\ SamePlace(m[i], ps[j])
      BY <1>0 DEF MergedTo
    <2> QED
      BY <1>2, <2>1, <2>3, <2>4, <2>5 DEF MergedTo, p
  <1>5. CASE Supported(p) /\ \E i \in DOMAIN m : SamePlace(m[i], p)
    <2>1. w = [i \in 1..Len(m) |-> IF SamePlace(m[i], p) THEN AsMerged(p) ELSE m[i]]
      BY <1>2, <1>5 DEF AddParameter
    <2>2. /\ \A i \in 1..Len(m) : w[i] \in Parameters
          /\ \A i \in 1..Len(m) : SamePlace(m[i], p) => w[i] = AsMerged(p)
          /\ \A i \in 1..Len(m) : ~SamePlace(m[i], p) => w[i] = m[i]
      BY <1>1, <1>2, <2>1
    <2>3. w \in Seq(Parameters) /\ Len(w) = Len(m)
      <3>1. w \in [1..Len(m) -> Parameters]
        BY <2>1, <2>2
      <3> QED
        BY <1>2, <3>1, SeqDef
    <2> HIDE DEF w
    <2>4. \A i \in 1..Len(m) : SamePlace(w[i], m[i])
      <3> SUFFICES ASSUME NEW i \in 1..Len(m) PROVE SamePlace(w[i], m[i])
        OBVIOUS
      <3>1. CASE SamePlace(m[i], p)
        BY <1>1, <2>2, <3>1 DEF SamePlace
      <3>2. CASE ~SamePlace(m[i], p)
        BY <2>2, <3>2 DEF SamePlace
      <3> QED
        BY <3>1, <3>2
    <2>5. PICK e \in 1..Len(m) : SamePlace(m[e], p)
      BY <1>2, <1>5
    <2>6. ASSUME NEW i \in 1..Len(m) PROVE \E j \in 1..k + 1 : Supported(ps[j]) /\ SamePlace(w[i], ps[j])
      <3>1. PICK j \in 1..k : Supported(ps[j]) /\ SamePlace(m[i], ps[j])
        BY DEF MergedTo
      <3>2. SamePlace(w[i], ps[j]) /\ j \in 1..k + 1
        BY <1>0, <2>4, <3>1 DEF SamePlace
      <3> QED
        BY <3>1, <3>2
    <2>7. ASSUME NEW j \in 1..k + 1, Supported(ps[j]) PROVE \E i \in 1..Len(m) : SamePlace(w[i], ps[j])
      <3>1. CASE j = k + 1
        BY <2>4, <2>5, <3>1 DEF SamePlace, p
      <3>2. CASE j \in 1..k
        <4>1. PICK i \in 1..Len(m) : SamePlace(m[i], ps[j])
          BY <2>7, <3>2 DEF MergedTo
        <4> QED
          BY <2>4, <4>1 DEF SamePlace
      <3> QED
        BY <1>0, <3>1, <3>2
    <2>8. ASSUME NEW j \in 1..k + 1, StandsAmong(ps, j, k + 1) PROVE \E i \in 1..Len(m) : w[i] = AsMerged(ps[j])
      <3>1. CASE j = k + 1
        BY <2>2, <2>5, <3>1 DEF p
      <3>2. CASE j \in 1..k
        <4>1. StandsAmong(ps, j, k) /\ ~SamePlace(p, ps[j])
          BY <1>3, <1>5, <2>8, <3>2
        <4>2. PICK i \in 1..Len(m) : m[i] = AsMerged(ps[j])
          BY <3>2, <4>1 DEF MergedTo
        <4>3. SamePlace(m[i], ps[j])
          <5>1. j \in 1..Len(ps)
            BY <3>2, LenProperties
          <5>2. ps[j] \in Parameters
            BY <5>1, ElementOfSeq
          <5> QED
            BY <4>2, <5>2, AsMergedIs
        <4>4. ~SamePlace(m[i], p)
          BY <4>1, <4>3 DEF SamePlace
        <4> QED
          BY <2>2, <4>2, <4>4
      <3> QED
        BY <1>0, <3>1, <3>2
    <2> QED
      BY <2>3, <2>6, <2>7, <2>8 DEF MergedTo, w, p
  <1>6. CASE Supported(p) /\ ~\E i \in DOMAIN m : SamePlace(m[i], p)
    <2>1. w = Append(m, AsMerged(p))
      BY <1>6 DEF AddParameter
    <2>2. /\ w \in Seq(Parameters) /\ Len(w) = Len(m) + 1 /\ w[Len(m) + 1] = AsMerged(p)
          /\ \A i \in 1..Len(m) : w[i] = m[i]
      BY <1>1, <1>2, <2>1, AppendProperties
    <2> HIDE DEF w
    <2>3. 1..Len(w) = 1..Len(m) \cup {Len(m) + 1}
      BY <1>2, <2>2
    <2>4. SamePlace(w[Len(m) + 1], ps[k + 1])
      BY <1>1, <2>2 DEF p
    <2>6. ASSUME NEW i \in 1..Len(w) PROVE \E j \in 1..k + 1 : Supported(ps[j]) /\ SamePlace(w[i], ps[j])
      <3>1. CASE i = Len(m) + 1
        BY <1>0, <1>6, <2>4, <3>1 DEF p
      <3>2. CASE i \in 1..Len(m)
        BY <1>0, <2>2, <3>2 DEF MergedTo
      <3> QED
        BY <2>3, <3>1, <3>2
    <2>7. ASSUME NEW j \in 1..k + 1, Supported(ps[j]) PROVE \E i \in 1..Len(w) : SamePlace(w[i], ps[j])
      <3>1. CASE j = k + 1
        BY <2>3, <2>4, <3>1
      <3>2. CASE j \in 1..k
        BY <2>2, <2>3, <2>7, <3>2 DEF MergedTo
      <3> QED
        BY <1>0, <3>1, <3>2
    <2>8. ASSUME NEW j \in 1..k + 1, StandsAmong(ps, j, k + 1) PROVE \E i \in 1..Len(w) : w[i] = AsMerged(ps[j])
      <3>1. CASE j = k + 1
        BY <2>2, <2>3, <3>1 DEF p
      <3>2. CASE j \in 1..k
        <4>1. StandsAmong(ps, j, k)
          BY <1>3, <2>8, <3>2
        <4>2. PICK i \in 1..Len(m) : m[i] = AsMerged(ps[j])
          BY <3>2, <4>1 DEF MergedTo
        <4> QED
          BY <2>2, <2>3, <4>2
      <3> QED
        BY <1>0, <3>1, <3>2
    <2> QED
      BY <2>2, <2>6, <2>7, <2>8 DEF MergedTo, w, p
  <1> QED
    BY <1>4, <1>5, <1>6

LEMMA MergeParametersMerges ==
  ASSUME NEW a \in Seq(Parameters), NEW b \in Seq(Parameters)
  PROVE  MergedTo(a \o b, Len(a \o b), MergeParameters(a, b))
  <1> DEFINE ps == a \o b
             n == Len(ps)
  <1>1. ps \in Seq(Parameters) /\ n \in Nat /\ DOMAIN ps = 1..n
    BY ConcatProperties, LenProperties
  <1> HIDE DEF ps, n
  <1>2. \E g : FoldSteps(AddParameter, <<>>, ps, n, g) /\ FoldLeft(AddParameter, <<>>, ps) = g[n]
    BY <1>1, FoldLeftSteps
  <1>3. PICK g : FoldSteps(AddParameter, <<>>, ps, n, g) /\ FoldLeft(AddParameter, <<>>, ps) = g[n]
    BY <1>2
  <1>4. g[0] = <<>> /\ \A k \in 1..n : g[k] = AddParameter(g[k - 1], ps[k])
    BY <1>3 DEF FoldSteps
  <1> DEFINE K == {k \in 0..n : MergedTo(ps, k, g[k])}
  <1>5. 0 \in K
    <2>1. <<>> \in Seq(Parameters) /\ Len(<<>>) = 0 /\ 1..0 = {}
      BY EmptySeq
    <2>2. MergedTo(ps, 0, <<>>)
      BY <2>1 DEF MergedTo
    <2> QED
      BY <1>1, <1>4, <2>2
  <1>6. ASSUME NEW k \in 0..n - 1, k \in K PROVE k + 1 \in K
    <2>1. k + 1 \in 1..n /\ (k + 1) - 1 = k /\ k + 1 \in 0..n
      BY <1>1
    <2>2. g[k + 1] = AddParameter(g[k], ps[k + 1])
      BY <1>4, <2>1
    <2>3. k \in 0..Len(ps) - 1
      BY DEF n
    <2>4. MergedTo(ps, k + 1, AddParameter(g[k], ps[k + 1]))
      BY <1>1, <1>6, <2>3, AddParameterMerges
    <2> QED
      BY <2>1, <2>2, <2>4
  <1>7. n \in K
    <2> HIDE DEF K
    <2>1. \A k \in 0..n : k \in K
      BY <1>1, <1>5, <1>6, UpTo
    <2> QED
      BY <1>1, <2>1
  <1> QED
    BY <1>3, <1>7 DEF MergeParameters, ps, n

-----------------------------------------------------------------------------
DeclaredNames(o) ==
  {Declared(o)[j].name : j \in {k \in DOMAIN Declared(o) : Supported(Declared(o)[k])}}

WholeBodyOf(o) == IF o.body.mode = "body" THEN {"body"} ELSE {}

(* What the tool of an operation says of its declarations.                 *)
ToolMatches(o, tool) ==
  /\ tool.template = o.template /\ tool.mode = o.body.mode
  /\ tool.bodyRequired = o.body.required
  /\ tool.bodyProps = IF o.body.mode = "expand" THEN o.body.props \ DeclaredNames(o) ELSE {}
  /\ DOMAIN tool.paramIns = DeclaredNames(o) \cup WholeBodyOf(o)
  /\ \A n \in WholeBodyOf(o) : tool.paramIns[n] = "body"
  /\ \A n \in DeclaredNames(o) \ WholeBodyOf(o) :
       \E j \in DOMAIN Declared(o) :
         /\ Supported(Declared(o)[j]) /\ Declared(o)[j].name = n
         /\ Declared(o)[j].in = tool.paramIns[n]
  /\ \A j \in DOMAIN Declared(o) :
       Stands(Declared(o), j) /\ AsMerged(Declared(o)[j]).required
         => Declared(o)[j].name \in tool.required
  /\ o.body.requiredProps \cap tool.bodyProps \subseteq tool.required
  /\ o.body.required => WholeBodyOf(o) \subseteq tool.required

LEMMA ToolOf ==
  ASSUME NEW o \in Operations, NEW tool, tool = BuildToolMeta(o)
  PROVE  ToolMatches(o, tool)
  <1> DEFINE ps == Declared(o)
             params == MergeParameters(o.pathLevel, o.opLevel)
             names == {params[i].name : i \in DOMAIN params}
             place(n) == params[SelectLastInSeq(params, LAMBDA p : p.name = n)].in
  <1>1. o.pathLevel \in Seq(Parameters) /\ o.opLevel \in Seq(Parameters)
    BY OperationsAssumption
  <1>2. ps \in Seq(Parameters) /\ Len(ps) \in Nat /\ DOMAIN ps = 1..Len(ps)
    BY <1>1, ConcatProperties, LenProperties DEF Declared
  <1>3. MergedTo(ps, Len(ps), params)
    BY <1>1, MergeParametersMerges DEF Declared
  <1> HIDE DEF params
  <1>4. params \in Seq(Parameters) /\ Len(params) \in Nat /\ DOMAIN params = 1..Len(params)
    BY <1>3, LenProperties DEF MergedTo
  <1>5. names = DeclaredNames(o)
    <2>1. ASSUME NEW i \in DOMAIN params PROVE params[i].name \in DeclaredNames(o)
      <3>1. PICK j \in 1..Len(ps) : Supported(ps[j]) /\ SamePlace(params[i], ps[j])
        BY <1>3, <1>4 DEF MergedTo
      <3> QED
        BY <1>2, <3>1 DEF DeclaredNames, SamePlace
    <2>2. ASSUME NEW j \in DOMAIN ps, Supported(ps[j]) PROVE ps[j].name \in names
      <3>1. PICK i \in 1..Len(params) : SamePlace(params[i], ps[j])
        BY <1>2, <1>3, <2>2 DEF MergedTo
      <3> QED
        BY <1>4, <3>1 DEF SamePlace
    <2> QED
      BY <2>1, <2>2 DEF DeclaredNames
  <1>6. ASSUME NEW n \in names
        PROVE  \E j \in DOMAIN ps : Supported(ps[j]) /\ ps[j].name = n /\ ps[j].in = place(n)
    <2> DEFINE I == {i \in 1..Len(params) : params[i].name = n}
    <2>1. I # {} /\ I \in SUBSET (1..Len(params))
      BY <1>4
    <2>2. Max(I) \in I
      BY <1>4, <2>1, MaxIs
    <2>3. place(n) = params[Max(I)].in
      BY <2>1 DEF SelectLastInSeq
    <2>4. PICK j \in 1..Len(ps) : Supported(ps[j]) /\ SamePlace(params[Max(I)], ps[j])
      BY <1>3, <2>2 DEF MergedTo
    <2> QED
      BY <1>2, <2>2, <2>3, <2>4 DEF SamePlace
  <1>7. ASSUME NEW j \in DOMAIN ps, Stands(ps, j)
        PROVE  \E i \in DOMAIN params : params[i] = AsMerged(ps[j])
    <2>1. ASSUME NEW l \in j + 1..Len(ps), Supported(ps[l]) PROVE ~SamePlace(ps[l], ps[j])
      <3>1. j \in Nat /\ l \in 1..Len(ps) /\ l > j
        BY <1>2
      <3> QED
        BY <1>2, <1>7, <2>1, <3>1 DEF Stands
    <2>2. StandsAmong(ps, j, Len(ps))
      BY <1>7, <2>1 DEF Stands, StandsAmong
    <2> QED
      BY <1>2, <1>3, <1>4, <2>2 DEF MergedTo
  <1> DEFINE bodyProps == IF o.body.mode = "expand" THEN o.body.props \ names ELSE {}
             whole == WholeBodyOf(o)
  <1>8. tool = [template |-> o.template,
                paramIns |-> [n \in names \cup whole |-> IF n \in whole THEN "body" ELSE place(n)],
                required |-> {params[i].name : i \in {j \in DOMAIN params : params[j].required}}
                             \cup (o.body.requiredProps \cap bodyProps)
                             \cup (IF o.body.required THEN whole ELSE {}),
                mode |-> o.body.mode,
                bodyRequired |-> o.body.required,
                bodyProps |-> bodyProps]
    BY DEF BuildToolMeta, params, WholeBodyOf
  <1> HIDE DEF place
  <1>9. /\ tool.paramIns = [n \in names \cup whole |-> IF n \in whole THEN "body" ELSE place(n)]
        /\ tool.required = {params[i].name : i \in {j \in DOMAIN params : params[j].required}}
                             \cup (o.body.requiredProps \cap bodyProps)
                             \cup (IF o.body.required THEN whole ELSE {})
        /\ tool.template = o.template /\ tool.mode = o.body.mode
        /\ tool.bodyRequired = o.body.required /\ tool.bodyProps = bodyProps
    BY <1>8
  <1>10. \A j \in DOMAIN ps : Stands(ps, j) /\ AsMerged(ps[j]).required => ps[j].name \in tool.required
    <2> SUFFICES ASSUME NEW j \in DOMAIN ps, Stands(ps, j), AsMerged(ps[j]).required
                 PROVE  ps[j].name \in tool.required
      OBVIOUS
    <2>1. PICK i \in DOMAIN params : params[i] = AsMerged(ps[j])
      BY <1>7
    <2>2. AsMerged(ps[j]).name = ps[j].name
      BY <1>2, ElementOfSeq, AsMergedIs DEF SamePlace
    <2> QED
      BY <1>9, <2>1, <2>2
  <1>11. \A n \in DeclaredNames(o) \ WholeBodyOf(o) :
              \E j \in DOMAIN ps :
                Supported(ps[j]) /\ ps[j].name = n /\ ps[j].in = tool.paramIns[n]
    BY <1>5, <1>6, <1>9
  <1>12. /\ DOMAIN tool.paramIns = DeclaredNames(o) \cup WholeBodyOf(o)
         /\ \A n \in WholeBodyOf(o) : tool.paramIns[n] = "body"
    BY <1>5, <1>9
  <1>13. tool.bodyProps = IF o.body.mode = "expand" THEN o.body.props \ DeclaredNames(o) ELSE {}
    BY <1>5, <1>9
  <1>14. /\ o.body.requiredProps \cap tool.bodyProps \subseteq tool.required
         /\ o.body.required => WholeBodyOf(o) \subseteq tool.required
    BY <1>9
  <1> QED
    BY <1>9, <1>10, <1>11, <1>12, <1>13, <1>14 DEF ToolMatches

(* What RequestFaithful says of an operation, the arguments and a request. *)
Faithful(o, args, r) ==
  LET plain == \A n \in o.template : args[n] # "special"
      sent == [path |-> r.path, query |-> r.query, header |-> r.header, body |-> r.body]
  IN /\ \A n \in MustBeGiven(o) : Given(args, n)
     /\ plain => o.template \subseteq r.path /\ ~r.stray
     /\ \A n \in ArgNames : Given(args, n) =>
          \A place \in Places(o, n) \ {"path"} : Places(o, n) = {place} => n \in sent[place]
     /\ \A place \in DOMAIN sent : \A n \in sent[place] :
          /\ args[n] # "absent"
          /\ place \in Places(o, n) \/ (place = "path" /\ n \in o.template)
     /\ r.query \cap r.header = {}
     /\ r.body \cap (r.query \cup r.header) = {}
     /\ (o.body.required /\ o.body.mode # "none") => r.hasBody

(* The places of an argument: those of its declarations, and the body.     *)
LEMMA PlacesOf ==
  ASSUME NEW o \in Operations, NEW n
  PROVE  /\ \A j \in DOMAIN Declared(o) :
              Supported(Declared(o)[j]) /\ Declared(o)[j].name = n => Declared(o)[j].in \in Places(o, n)
         /\ \A place \in Places(o, n) :
              \/ place = "body" /\ (n \in o.body.props \/ n \in WholeBodyOf(o))
              \/ place \in Locations /\ n \in DeclaredNames(o)
         /\ n \in o.body.props \/ n \in WholeBodyOf(o) => "body" \in Places(o, n)
  <1>1. \A j \in DOMAIN Declared(o) :
              Supported(Declared(o)[j]) /\ Declared(o)[j].name = n => Declared(o)[j].in \in Places(o, n)
    BY DEF Places, Range
  <1>2. ASSUME NEW place \in Places(o, n)
        PROVE  \/ place = "body" /\ (n \in o.body.props \/ n \in WholeBodyOf(o))
               \/ place \in Locations /\ n \in DeclaredNames(o)
    BY DEF Places, Range, WholeBodyOf, DeclaredNames, Supported
  <1>3. n \in o.body.props \/ n \in WholeBodyOf(o) => "body" \in Places(o, n)
    BY DEF Places, WholeBodyOf
  <1> QED
    BY <1>1, <1>2, <1>3

LEMMA FaithfulRequest ==
  ASSUME NEW o \in Operations, NEW tool, tool = BuildToolMeta(o), NEW args \in Arguments(o),
         ValidateArgs(tool, args), FillPath(tool, args), NEW parsed \in ParsedPaths(tool, args)
  PROVE  Faithful(o, args, BuildRequest(tool, args, parsed))
  <1> DEFINE r == BuildRequest(tool, args, parsed)
             ps == Declared(o)
             whole == WholeBodyOf(o)
             placed(place) == {n \in DOMAIN tool.paramIns : tool.paramIns[n] = place /\ Given(args, n)}
             props == {n \in tool.bodyProps : args[n] # "absent"}
  <1>0. ToolMatches(o, tool)
    BY ToolOf
  <1>1. /\ tool.template = o.template /\ tool.mode = o.body.mode
        /\ tool.bodyRequired = o.body.required
        /\ tool.bodyProps = IF o.body.mode = "expand" THEN o.body.props \ DeclaredNames(o) ELSE {}
        /\ DOMAIN tool.paramIns = DeclaredNames(o) \cup whole
        /\ \A n \in whole : tool.paramIns[n] = "body"
    BY <1>0 DEF ToolMatches
  <1>2. \A n \in DeclaredNames(o) \ whole :
          \E j \in DOMAIN ps : Supported(ps[j]) /\ ps[j].name = n /\ ps[j].in = tool.paramIns[n]
    BY <1>0 DEF ToolMatches
  <1>3. /\ \A j \in DOMAIN ps : Stands(ps, j) /\ AsMerged(ps[j]).required => ps[j].name \in tool.required
        /\ o.body.requiredProps \cap tool.bodyProps \subseteq tool.required
        /\ o.body.required => whole \subseteq tool.required
    BY <1>0 DEF ToolMatches
  <1>4. /\ o.body.mode \in {"none", "body", "expand"} /\ (o.body.mode # "expand" => o.body.props = {})
        /\ o.template \subseteq ArgNames
    BY OperationsAssumption DEF Bodies
  <1>5. /\ r.path = parsed.path /\ r.stray = parsed.stray /\ r.query = placed("query") /\ r.header = placed("header")
        /\ r.body = CASE o.body.mode = "none" -> {}
                      [] o.body.mode = "body" -> placed("body")
                      [] o.body.mode = "expand" -> props
        /\ r.hasBody = CASE o.body.mode = "none" -> FALSE
                         [] o.body.mode = "body" -> Given(args, "body")
                         [] o.body.mode = "expand" -> props # {} \/ o.body.required
    BY <1>1 DEF BuildRequest
  <1>6. /\ o.body.mode = "none" => r.body = {}
        /\ o.body.mode = "body" => r.body = placed("body") /\ r.hasBody = Given(args, "body")
        /\ o.body.mode = "expand" => r.body = props /\ r.hasBody = (props # {} \/ o.body.required)
    BY <1>4, <1>5
  <1>61. /\ r.path \subseteq o.template
         /\ (\A n \in o.template : args[n] # "special") => o.template \subseteq r.path /\ ~r.stray
    <2>1. CASE PlainPath(tool, args)
      BY <1>1, <1>5, <2>1 DEF ParsedPaths
    <2>2. CASE ~PlainPath(tool, args)
      <3>1. r.path \in SUBSET tool.template
        BY <1>5, <2>2 DEF ParsedPaths
      <3> QED
        BY <1>1, <2>2, <3>1 DEF PlainPath
    <2> QED
      BY <2>1, <2>2
  <1> HIDE DEF r
  <1>7. \A n \in DOMAIN tool.paramIns : tool.paramIns[n] = "body" <=> n \in whole
    <2> SUFFICES ASSUME NEW n \in DOMAIN tool.paramIns, n \notin whole PROVE tool.paramIns[n] # "body"
      BY <1>1
    <2> QED
      BY <1>1, <1>2 DEF Supported, Locations
  <1>8. \A n \in tool.required : Given(args, n)
    BY DEF ValidateArgs
  <1>9. ASSUME NEW n \in MustBeGiven(o) PROVE Given(args, n)
    <2>1. CASE \E j \in DOMAIN ps : Stands(ps, j) /\ AsMerged(ps[j]).required /\ n = ps[j].name
      BY <1>3, <1>8, <2>1
    <2>2. CASE n \in o.body.requiredProps \cap o.body.props /\ Places(o, n) = {"body"}
      <3>1. n \notin DeclaredNames(o)
        BY <2>2, PlacesOf DEF DeclaredNames, Supported, Locations
      <3>2. o.body.mode = "expand"
        BY <1>4, <2>2
      <3> QED
        BY <1>1, <1>3, <1>8, <2>2, <3>1, <3>2
    <2> QED
      BY <1>9, <2>1, <2>2 DEF MustBeGiven
  <1> DEFINE sent == [path |-> r.path, query |-> r.query, header |-> r.header, body |-> r.body]
  <1>10. /\ sent["path"] = r.path /\ sent["query"] = placed("query")
         /\ sent["header"] = placed("header") /\ sent["body"] = r.body
         /\ DOMAIN sent = {"path", "query", "header", "body"}
    BY <1>5
  <1> HIDE DEF sent
  <1>11. ASSUME NEW n \in ArgNames, Given(args, n), NEW place, Places(o, n) = {place}, place # "path"
         PROVE  n \in sent[place]
    <2>1. CASE place = "body"
      <3>1. n \in o.body.props \/ n \in whole
        BY <1>11, <2>1, PlacesOf DEF Locations
      <3>2. CASE n \in whole
        BY <1>1, <1>6, <1>10, <1>11, <2>1, <3>2 DEF WholeBodyOf
      <3>3. CASE n \in o.body.props
        <4>1. n \notin DeclaredNames(o)
          BY <1>11, <2>1, PlacesOf DEF DeclaredNames, Supported, Locations
        <4>2. o.body.mode = "expand"
          BY <1>4, <3>3
        <4> QED
          BY <1>1, <1>6, <1>10, <1>11, <2>1, <3>3, <4>1, <4>2 DEF Given
      <3> QED
        BY <3>1, <3>2, <3>3
    <2>2. CASE place \in {"query", "header"}
      <3>1. n \in DeclaredNames(o) \ whole
        <4>1. place \in Places(o, n) /\ "body" \notin Places(o, n)
          BY <1>11, <2>2
        <4> QED
          BY <2>2, <4>1, PlacesOf
      <3>2. tool.paramIns[n] = place
        BY <1>2, <1>11, <3>1, PlacesOf
      <3>3. n \in placed(place)
        BY <1>1, <1>11, <3>1, <3>2
      <3> QED
        BY <1>10, <2>2, <3>3
    <2>3. place \in {"query", "header", "body"}
      BY <1>11, PlacesOf DEF Locations
    <2> QED
      BY <2>1, <2>2, <2>3
  <1>12. ASSUME NEW place \in DOMAIN sent, NEW n \in sent[place]
         PROVE  /\ args[n] # "absent"
                /\ place \in Places(o, n) \/ (place = "path" /\ n \in o.template)
    <2>1. CASE place = "path"
      BY <1>1, <1>10, <1>12, <1>61, <2>1 DEF FillPath, Given
    <2>2. CASE place \in {"query", "header"}
      <3>1. n \in placed(place)
        BY <1>10, <1>12, <2>2
      <3>2. n \in DeclaredNames(o) \ whole /\ tool.paramIns[n] = place
        BY <1>1, <2>2, <3>1
      <3>3. place \in Places(o, n)
        BY <1>2, <3>2, PlacesOf
      <3> QED
        BY <3>1, <3>3 DEF Given
    <2>3. CASE place = "body"
      <3>1. n \in r.body
        BY <1>10, <1>12, <2>3
      <3>2. CASE o.body.mode = "body"
        <4>1. n \in placed("body")
          BY <1>6, <3>1, <3>2
        <4>2. n \in whole /\ args[n] # "absent"
          BY <1>7, <4>1 DEF Given
        <4> QED
          BY <2>3, <4>2, PlacesOf
      <3>3. CASE o.body.mode = "expand"
        <4>1. n \in o.body.props /\ args[n] # "absent"
          BY <1>1, <1>6, <3>1, <3>3
        <4> QED
          BY <2>3, <4>1, PlacesOf
      <3> QED
        BY <1>4, <1>6, <3>1, <3>2, <3>3
    <2> QED
      BY <1>10, <2>1, <2>2, <2>3
  <1>13. r.query \cap r.header = {}
    BY <1>5
  <1>14. r.body \cap (r.query \cup r.header) = {}
    <2>1. CASE o.body.mode = "body"
      BY <1>5, <1>6, <2>1
    <2>2. CASE o.body.mode = "expand"
      <3>1. whole = {} /\ DOMAIN tool.paramIns = DeclaredNames(o)
        BY <1>1, <2>2 DEF WholeBodyOf
      <3>2. r.body \cap DeclaredNames(o) = {}
        BY <1>1, <1>6, <2>2
      <3> QED
        BY <1>5, <3>1, <3>2
    <2> QED
      BY <1>4, <1>6, <2>1, <2>2
  <1>15. (o.body.required /\ o.body.mode # "none") => r.hasBody
    <2>1. o.body.required /\ o.body.mode = "body" => Given(args, "body")
      BY <1>3, <1>8 DEF WholeBodyOf
    <2> QED
      BY <1>4, <1>6, <2>1
  <1> QED
    BY <1>9, <1>11, <1>12, <1>13, <1>14, <1>15, <1>61 DEF Faithful, sent, r

-----------------------------------------------------------------------------
OpenApiData ==
  /\ remote.operation \in Operations /\ remote.tool = BuildToolMeta(remote.operation)
  /\ remote.args \in Arguments(remote.operation)
  /\ pc # "lookup" => Faithful(remote.operation, remote.args, got)

OpenApiInv == op = "openapi" /\ UnderWay => OpenApiData

LEMMA OpenApiInvKept == CallInv /\ OpenApiInv /\ Next => OpenApiInv'
  <1> SUFFICES ASSUME CallInv, OpenApiInv, Next, op' = "openapi", UnderWay' PROVE OpenApiData'
    BY DEF OpenApiInv
  <1>1. CASE BeginCall
    <2>1. Opened
      BY <1>1, BeginOpens DEF Refused, UnderWay
    <2>2. pc' = "lookup" /\ OpenApiOpened
      BY <2>1 DEF Opened
    <2>3. PICK o \in Operations : \E args \in Arguments(o) :
            remote' = [operation |-> o, tool |-> BuildToolMeta(o), args |-> args]
      BY <2>2 DEF OpenApiOpened
    <2>4. PICK args \in Arguments(o) :
            remote' = [operation |-> o, tool |-> BuildToolMeta(o), args |-> args]
      BY <2>3
    <2>5. remote'.operation = o /\ remote'.tool = BuildToolMeta(o) /\ remote'.args = args
      BY <2>4
    <2> QED
      BY <2>2, <2>5 DEF OpenApiData
  <1>2. CASE Exchanging
    <2>1. op = "openapi" /\ UnderWay /\ OpenApiData
      BY <1>2, ExchangingKeepsOp, ExchangingIsNotOver, ExchangingIsNotIdle DEF OpenApiInv, UnderWay
    <2>2. PrepareRequest \/ HttpDockerStep
      <3>1. op \notin RedisOps \cup KafkaOps \cup SqlOps \cup NetOps
        BY <2>1 DEF RedisOps, ServerOps, KeyOps, CardOps, NilOps, LimitedOps, ScanOps, KafkaOps,
           InfoOps, GroupOps, SqlOps, QueryOps, VersionOps, NetOps
      <3>2. ~LoadStep
        BY <2>1 DEF LoadStep, ReadPath, RegistryLoad
      <3> QED
        BY <1>2, <3>1, <3>2, RedisSteps, KafkaSteps, SqlSteps, NetSteps DEF Exchanging
    <2>3. CASE PrepareRequest
      <3>1. remote' = remote
        BY <2>3 DEF PrepareRequest
      <3>2. /\ ValidateArgs(remote.tool, remote.args) /\ FillPath(remote.tool, remote.args)
            /\ \E parsed \in ParsedPaths(remote.tool, remote.args) :
                 got' = BuildRequest(remote.tool, remote.args, parsed)
        BY <2>3 DEF PrepareRequest, Answer, UnderWay
      <3>3. Faithful(remote.operation, remote.args, got')
        <4>1. PICK parsed \in ParsedPaths(remote.tool, remote.args) :
                got' = BuildRequest(remote.tool, remote.args, parsed)
          BY <3>2
        <4> QED
          BY <2>1, <3>2, <4>1, FaithfulRequest DEF OpenApiData
      <3> QED
        BY <2>1, <3>1, <3>3 DEF OpenApiData
    <2>4. CASE TargetURL \/ Do
      <3>1. remote' = remote /\ got' = got /\ pc # "lookup"
        BY <2>1, <2>4 DEF TargetURL, Do, Answer
      <3> QED
        BY <2>1, <3>1 DEF OpenApiData
    <2>5. ~ReadBody
      BY DEF ReadBody, Answer, UnderWay
    <2>6. ~(RunDockerFails \/ DockerRecords \/ DockerText \/ DockerInfo \/ DockerInspect)
      BY <2>1 DEF RunDockerFails, DockerRecords, DockerText, DockerInfo, DockerInspect, DockerOps,
         RecordOps, TextOps
    <2> QED
      BY <2>2, <2>3, <2>4, <2>5, <2>6 DEF HttpDockerStep
  <1>3. CASE Ping
    BY <1>3 DEF Ping, OpenApiInv, OpenApiData, UnderWay, request
  <1>4. ~(Fail \/ Close \/ Finish)
    BY DEF Fail, RequestFails, Close, Finish, Answer, UnderWay
  <1>5. CASE Reload
    BY <1>5 DEF Reload, OpenApiInv, OpenApiData, UnderWay, request
  <1>6. ~(Modify \/ LogChanges \/ GroupChanges \/ Deliver)
    BY DEF Modify, LogChanges, GroupChanges, Deliver, At, GroupOps, NetOps, ScanOps, request
  <1> QED
    BY <1>1, <1>2, <1>3, <1>4, <1>5, <1>6 DEF Next, Step, Exchanging, Environment

(* What goes out for a call of an OpenAPI tool is what its document        *)
(* declares, whatever operation it is a tool of and whatever is given.     *)
THEOREM RequestFaithfulHolds == Spec => []RequestFaithful
  <1>1. Init => OpenApiInv
    BY DEF Init, OpenApiInv
  <1>2. CallInv /\ OpenApiInv /\ [Next]_vars => OpenApiInv'
    <2>1. OpenApiInv /\ UNCHANGED vars => OpenApiInv'
      BY DEF vars, request, OpenApiInv, OpenApiData, UnderWay
    <2> QED
      BY <2>1, OpenApiInvKept
  <1>3. OpenApiInv => RequestFaithful
    <2> SUFFICES ASSUME OpenApiInv, op = "openapi", pc = "exchange" PROVE RequestFaithful
      BY DEF RequestFaithful
    <2>1. Faithful(remote.operation, remote.args, got)
      BY DEF OpenApiInv, OpenApiData, UnderWay
    <2> QED
      BY <2>1 DEF Faithful, RequestFaithful
  <1> QED
    BY <1>1, <1>2, <1>3, CallInvHolds, PTL DEF Spec

-----------------------------------------------------------------------------
(* Entry e was extracted from the operation at place i of a path.          *)
EntryOf(doc, path, i, e) ==
  /\ path \in DOMAIN doc.paths /\ i \in DOMAIN doc.paths[path]
  /\ doc.paths[path][i].id # ""
  /\ e.id = doc.paths[path][i].id /\ e.method = doc.paths[path][i].method
  /\ e.path = path /\ e.tags = doc.paths[path][i].tags
  /\ e.skip \in {"no", "body", "duplicate"}
  /\ e.skip = "no" =>
       \E b \in ProjectRequestBody(doc.paths[path][i].body, doc.schemas) : ~b.skip /\ e.body = b.body
  /\ e.skip = "body" => \E b \in ProjectRequestBody(doc.paths[path][i].body, doc.schemas) : b.skip

(* ops was extracted of the first upto[q] operations of each path q: entry *)
(* e comes from place nth[e] of path at[e], each place has one entry, and  *)
(* the later of two with one id are the duplicates.                        *)
EntriesFit(doc, upto, ops, at, nth) ==
  \A e \in 1..Len(ops) : EntryOf(doc, at[e], nth[e], ops[e]) /\ nth[e] <= upto[at[e]]

EntriesApart(ops, at, nth) ==
  \A e, f \in 1..Len(ops) : at[e] = at[f] /\ nth[e] = nth[f] => e = f

HasEntry(at, nth, n, q, j) == \E e \in 1..n : at[e] = q /\ nth[e] = j

Due(doc, upto, q, j) == doc.paths[q][j].id # "" /\ j <= upto[q]

AllRead(doc, upto, ops, at, nth) ==
  \A q \in DOMAIN doc.paths : \A j \in DOMAIN doc.paths[q] :
    Due(doc, upto, q, j) => HasEntry(at, nth, Len(ops), q, j)

LaterOnesAreDuplicates(ops) ==
  \A e \in 1..Len(ops) : ops[e].skip = "duplicate" <=> \E f \in 1..e - 1 : ops[f].id = ops[e].id

IsSequence(s) == \E S : s \in Seq(S)

Extracted(doc, upto, ops, at, nth) ==
  /\ IsSequence(ops)
  /\ EntriesFit(doc, upto, ops, at, nth)
  /\ EntriesApart(ops, at, nth)
  /\ AllRead(doc, upto, ops, at, nth)
  /\ LaterOnesAreDuplicates(ops)

LEMMA AppendAny ==
  ASSUME NEW s, IsSequence(s), NEW x
  PROVE  /\ IsSequence(Append(s, x))
         /\ Len(s) \in Nat /\ DOMAIN s = 1..Len(s) /\ Len(Append(s, x)) = Len(s) + 1
         /\ Append(s, x)[Len(s) + 1] = x /\ \A i \in 1..Len(s) : Append(s, x)[i] = s[i]
  <1>0. PICK S : s \in Seq(S)
    BY DEF IsSequence
  <1> DEFINE T == S \cup {x}
  <1>1. s \in Seq(T) /\ Len(s) \in Nat /\ DOMAIN s = 1..Len(s)
    <2>1. Len(s) \in Nat /\ DOMAIN s = 1..Len(s) /\ s \in [1..Len(s) -> S]
      BY <1>0, LenProperties
    <2>2. s \in [1..Len(s) -> T]
      BY <2>1
    <2> QED
      BY <2>1, <2>2, SeqDef
  <1>2. x \in T
    OBVIOUS
  <1> HIDE DEF T
  <1> QED
    BY <1>1, <1>2, AppendProperties DEF IsSequence

LEMMA OperationsOfPath ==
  ASSUME NEW doc \in Documents, NEW path \in DOMAIN doc.paths
  PROVE  Len(doc.paths[path]) \in Nat /\ DOMAIN doc.paths[path] = 1..Len(doc.paths[path])
  BY DocumentsAssumption, LenProperties

LEMMA ExtractOne ==
  ASSUME NEW doc \in Documents, NEW upto \in [DOMAIN doc.paths -> Nat], NEW path \in DOMAIN doc.paths,
         upto[path] + 1 \in DOMAIN doc.paths[path],
         NEW body \in ProjectRequestBody(doc.paths[path][upto[path] + 1].body, doc.schemas),
         NEW ops, NEW at, NEW nth, Extracted(doc, upto, ops, at, nth)
  PROVE  \E at2, nth2 :
           Extracted(doc, [upto EXCEPT ![path] = upto[path] + 1],
                     Extract(ops, path, doc.paths[path][upto[path] + 1], body), at2, nth2)
  <1> DEFINE k == upto[path]
             raw == doc.paths[path][k + 1]
             up == [upto EXCEPT ![path] = upto[path] + 1]
             w == Extract(ops, path, raw, body)
  <1>1. k \in Nat /\ up[path] = k + 1 /\ \A q \in DOMAIN doc.paths \ {path} : up[q] = upto[q]
    OBVIOUS
  <1>2. \A q \in DOMAIN doc.paths : \A j \in DOMAIN doc.paths[q] : j \in Nat
    BY OperationsOfPath
  <1>3. \A q \in DOMAIN doc.paths : \A j \in DOMAIN doc.paths[q] : j <= upto[q] => j <= up[q]
    BY <1>1, <1>2
  <1>4. \A q \in DOMAIN doc.paths : \A j \in DOMAIN doc.paths[q] :
          j <= up[q] => j <= upto[q] \/ (q = path /\ j = k + 1)
    BY <1>1, <1>2
  <1> HIDE DEF up
  <1>0. /\ IsSequence(ops) /\ EntriesFit(doc, upto, ops, at, nth) /\ EntriesApart(ops, at, nth)
        /\ AllRead(doc, upto, ops, at, nth) /\ LaterOnesAreDuplicates(ops)
    BY DEF Extracted
  <1>5. CASE raw.id = ""
    <2>1. w = ops
      BY <1>5 DEF Extract
    <2>2. \A e \in 1..Len(ops) : EntryOf(doc, at[e], nth[e], ops[e]) /\ nth[e] <= up[at[e]]
      BY <1>0, <1>3 DEF EntriesFit, EntryOf
    <2>3. ASSUME NEW q \in DOMAIN doc.paths, NEW j \in DOMAIN doc.paths[q], Due(doc, up, q, j)
          PROVE  HasEntry(at, nth, Len(ops), q, j)
      <3>1. Due(doc, upto, q, j)
        BY <1>4, <1>5, <2>3 DEF Due
      <3> QED
        BY <1>0, <2>3, <3>1 DEF AllRead
    <2>4. Extracted(doc, up, ops, at, nth)
      <3>1. EntriesFit(doc, up, ops, at, nth)
        BY <2>2 DEF EntriesFit
      <3>2. AllRead(doc, up, ops, at, nth)
        BY <2>3 DEF AllRead
      <3> QED
        BY <1>0, <3>1, <3>2 DEF Extracted
    <2> QED
      BY <2>1, <2>4 DEF up
  <1>6. CASE raw.id # ""
    <2> DEFINE skip == IF Duplicate(ops, raw.id) THEN "duplicate"
                       ELSE IF body.skip THEN "body" ELSE "no"
               new == [id |-> raw.id, method |-> raw.method, path |-> path, tags |-> raw.tags,
                       skip |-> skip, body |-> IF skip = "no" THEN body.body ELSE NoBody]
               n == Len(ops)
               at2 == [e \in 1..n + 1 |-> IF e = n + 1 THEN path ELSE at[e]]
               nth2 == [e \in 1..n + 1 |-> IF e = n + 1 THEN k + 1 ELSE nth[e]]
    <2>1. w = Append(ops, new)
      BY <1>6 DEF Extract
    <2>2. EntryOf(doc, path, k + 1, new)
      BY <1>6 DEF EntryOf
    <2>3. new.id = raw.id /\ (new.skip = "duplicate" <=> Duplicate(ops, raw.id))
      OBVIOUS
    <2> HIDE DEF new, w
    <2>4. /\ IsSequence(w)
          /\ n \in Nat /\ DOMAIN ops = 1..n /\ Len(w) = n + 1
          /\ w[n + 1] = new /\ \A i \in 1..n : w[i] = ops[i]
      BY <1>0, <2>1, AppendAny
    <2> HIDE DEF n
    <2>5. /\ 1..n + 1 = 1..n \cup {n + 1} /\ n + 1 \notin 1..n /\ n + 1 \in 1..n + 1
          /\ \A i \in 1..n : 1..i - 1 \subseteq 1..n
          /\ (n + 1) - 1 = n
      BY <2>4
    <2>6. /\ at2[n + 1] = path /\ nth2[n + 1] = k + 1
          /\ \A e \in 1..n : at2[e] = at[e] /\ nth2[e] = nth[e]
      BY <2>5
    <2> HIDE DEF at2, nth2
    <2>7. ASSUME NEW e \in 1..n + 1
          PROVE  EntryOf(doc, at2[e], nth2[e], w[e]) /\ nth2[e] <= up[at2[e]]
      <3>1. CASE e = n + 1
        BY <1>1, <2>2, <2>4, <2>6, <3>1
      <3>2. CASE e \in 1..n
        <4>1. EntryOf(doc, at[e], nth[e], ops[e]) /\ nth[e] <= upto[at[e]]
          BY <1>0, <3>2 DEF EntriesFit, n
        <4>2. nth[e] <= up[at[e]]
          BY <1>3, <4>1 DEF EntryOf
        <4> QED
          BY <2>4, <2>6, <3>2, <4>1, <4>2
      <3> QED
        BY <2>5, <3>1, <3>2
    <2>8. ASSUME NEW e \in 1..n + 1, NEW f \in 1..n + 1, at2[e] = at2[f], nth2[e] = nth2[f]
          PROVE  e = f
      <3>1. ASSUME NEW d \in 1..n PROVE ~(at[d] = path /\ nth[d] = k + 1)
        <4>1. nth[d] <= upto[at[d]]
          BY <1>0 DEF EntriesFit, n
        <4> QED
          BY <1>1, <4>1
      <3>2. CASE e \in 1..n /\ f \in 1..n
        BY <1>0, <2>6, <2>8, <3>2 DEF EntriesApart, n
      <3> QED
        BY <2>5, <2>6, <2>8, <3>1, <3>2
    <2>9. ASSUME NEW q \in DOMAIN doc.paths, NEW j \in DOMAIN doc.paths[q], Due(doc, up, q, j)
          PROVE  HasEntry(at2, nth2, n + 1, q, j)
      <3>1. CASE Due(doc, upto, q, j)
        <4>1. PICK e \in 1..n : at[e] = q /\ nth[e] = j
          BY <1>0, <2>9, <3>1 DEF AllRead, HasEntry, n
        <4> QED
          BY <2>5, <2>6, <4>1 DEF HasEntry
      <3>2. CASE q = path /\ j = k + 1
        BY <2>5, <2>6, <3>2 DEF HasEntry
      <3> QED
        BY <1>4, <2>9, <3>1, <3>2 DEF Due
    <2>10. ASSUME NEW e \in 1..n + 1
           PROVE  w[e].skip = "duplicate" <=> \E f \in 1..e - 1 : w[f].id = w[e].id
      <3>1. CASE e = n + 1
        BY <2>3, <2>4, <2>5, <3>1 DEF Duplicate
      <3>2. CASE e \in 1..n
        <4>1. ops[e].skip = "duplicate" <=> \E f \in 1..e - 1 : ops[f].id = ops[e].id
          BY <1>0, <3>2 DEF LaterOnesAreDuplicates, n
        <4> QED
          BY <2>4, <2>5, <3>2, <4>1
      <3> QED
        BY <2>5, <3>1, <3>2
    <2>11. Extracted(doc, up, w, at2, nth2)
      <3>0. Len(w) = n + 1 /\ IsSequence(w)
        BY <2>4
      <3>1. EntriesFit(doc, up, w, at2, nth2)
        BY <2>7, <3>0 DEF EntriesFit
      <3>2. EntriesApart(w, at2, nth2)
        BY <2>8, <3>0 DEF EntriesApart
      <3>3. AllRead(doc, up, w, at2, nth2)
        BY <2>9, <3>0 DEF AllRead
      <3>4. LaterOnesAreDuplicates(w)
        BY <2>10, <3>0 DEF LaterOnesAreDuplicates
      <3> QED
        BY <3>0, <3>1, <3>2, <3>3, <3>4 DEF Extracted
    <2> QED
      BY <2>11 DEF up, w
  <1> QED
    BY <1>5, <1>6

-----------------------------------------------------------------------------
(* A call that reads a document is inside it until it answers.             *)
Reach(doc, unread) == [q \in DOMAIN doc.paths |-> IF q \in unread THEN 0 ELSE Len(doc.paths[q])]

LEMMA ReadOnePath ==
  ASSUME NEW doc \in Documents, NEW unread \in SUBSET DOMAIN doc.paths, NEW path \in unread,
         NEW choice,
         \A i \in DOMAIN doc.paths[path] :
           choice[i] \in ProjectRequestBody(doc.paths[path][i].body, doc.schemas),
         NEW ops, NEW at, NEW nth, Extracted(doc, Reach(doc, unread), ops, at, nth)
  PROVE  \E at2, nth2 :
           Extracted(doc, Reach(doc, unread \ {path}),
                     ExtractPath(ops, path, doc.paths[path], choice), at2, nth2)
  <1> DEFINE items == doc.paths[path]
             n == Len(items)
             seq == [i \in DOMAIN items |-> i]
             step(o, i) == Extract(o, path, items[i], choice[i])
             upto(k) == [Reach(doc, unread) EXCEPT ![path] = k]
  <1>1. /\ n \in Nat /\ DOMAIN items = 1..n /\ DOMAIN seq = 1..n
        /\ \A i \in 1..n : seq[i] = i
    BY OperationsOfPath
  <1>2. \A q \in DOMAIN doc.paths : Len(doc.paths[q]) \in Nat
    BY OperationsOfPath
  <1>3. /\ Reach(doc, unread) \in [DOMAIN doc.paths -> Nat]
        /\ Reach(doc, unread)[path] = 0 /\ path \in DOMAIN doc.paths
    BY <1>2 DEF Reach
  <1>4. upto(n) = Reach(doc, unread \ {path})
    BY DEF Reach
  <1>5. upto(0) = Reach(doc, unread)
    BY <1>3
  <1>6. ASSUME NEW k \in Nat
        PROVE  /\ upto(k) \in [DOMAIN doc.paths -> Nat] /\ upto(k)[path] = k
               /\ [upto(k) EXCEPT ![path] = k + 1] = upto(k + 1)
    BY <1>3
  <1>7. ExtractPath(ops, path, items, choice) = FoldLeft(step, ops, seq)
    BY DEF ExtractPath
  <1> HIDE DEF seq, step, upto, n
  <1>8. \E g : FoldSteps(step, ops, seq, n, g) /\ FoldLeft(step, ops, seq) = g[n]
    BY <1>1, FoldLeftSteps
  <1>9. PICK g : FoldSteps(step, ops, seq, n, g) /\ FoldLeft(step, ops, seq) = g[n]
    BY <1>8
  <1>10. g[0] = ops /\ \A k \in 1..n : g[k] = Extract(g[k - 1], path, items[k], choice[k])
    BY <1>1, <1>9 DEF FoldSteps, step
  <1> DEFINE K == {k \in 0..n : \E at2, nth2 : Extracted(doc, upto(k), g[k], at2, nth2)}
  <1>11. 0 \in K
    BY <1>1, <1>5, <1>10
  <1>12. ASSUME NEW k \in 0..n - 1, k \in K PROVE k + 1 \in K
    <2>1. k \in Nat /\ k + 1 \in 1..n /\ (k + 1) - 1 = k /\ k + 1 \in 0..n
      BY <1>1
    <2>2. PICK at2 : \E nth2 : Extracted(doc, upto(k), g[k], at2, nth2)
      BY <1>12
    <2>3. PICK nth2 : Extracted(doc, upto(k), g[k], at2, nth2)
      BY <2>2
    <2>4. upto(k) \in [DOMAIN doc.paths -> Nat] /\ upto(k)[path] = k
      BY <1>6, <2>1
    <2> DEFINE u == upto(k)
               w == Extract(g[k], path, items[k + 1], choice[k + 1])
    <2>5. u[path] + 1 \in DOMAIN doc.paths[path]
          /\ choice[u[path] + 1] \in ProjectRequestBody(doc.paths[path][u[path] + 1].body, doc.schemas)
      BY <1>1, <2>1, <2>4
    <2>6. u \in [DOMAIN doc.paths -> Nat] /\ Extracted(doc, u, g[k], at2, nth2) /\ u[path] = k
      BY <2>3, <2>4
    <2> HIDE DEF u
    <2>7. \E at3, nth3 :
            Extracted(doc, [u EXCEPT ![path] = u[path] + 1],
                      Extract(g[k], path, doc.paths[path][u[path] + 1], choice[u[path] + 1]), at3, nth3)
      BY <1>3, <2>5, <2>6, ExtractOne
    <2>8. [u EXCEPT ![path] = k + 1] = upto(k + 1)
      BY <1>6, <2>1 DEF u
    <2>9. \E at3, nth3 : Extracted(doc, upto(k + 1), w, at3, nth3)
      BY <2>6, <2>7, <2>8
    <2>10. g[k + 1] = w
      BY <1>10, <2>1
    <2> QED
      BY <2>1, <2>9, <2>10
  <1>13. n \in K
    <2> HIDE DEF K
    <2>1. \A k \in 0..n : k \in K
      BY <1>1, <1>11, <1>12, UpTo
    <2> QED
      BY <1>1, <2>1
  <1> QED
    BY <1>4, <1>7, <1>9, <1>13 DEF n

-----------------------------------------------------------------------------
(* What ToolsExact says of a document, rule by rule.                       *)
RawOf(doc, path, i) == doc.paths[path][i]
BodiesOf(doc, path, i) == ProjectRequestBody(RawOf(doc, path, i).body, doc.schemas)

ChosenBy(doc, d, path, i) ==
  /\ RawOf(doc, path, i).id # ""
  /\ Exposed(d, [id |-> RawOf(doc, path, i).id, method |-> RawOf(doc, path, i).method,
                 path |-> path, tags |-> RawOf(doc, path, i).tags])

Clash(doc) ==
  \E path, other \in DOMAIN doc.paths : \E i \in DOMAIN doc.paths[path], j \in DOMAIN doc.paths[other] :
    /\ path # other \/ i # j
    /\ RawOf(doc, path, i).id = RawOf(doc, other, j).id /\ RawOf(doc, path, i).id # ""

SureTools(doc, d, tools) ==
  \A path \in DOMAIN doc.paths : \A i \in DOMAIN doc.paths[path] :
    /\ ChosenBy(doc, d, path, i) /\ ~Disputed(RawOf(doc, path, i).body, doc.schemas)
    /\ \A b \in BodiesOf(doc, path, i) : ~b.skip
    => \E t \in tools : t.id = RawOf(doc, path, i).id

PossibleTools(doc, d, tools) ==
  \A t \in tools :
    \E path \in DOMAIN doc.paths : \E i \in DOMAIN doc.paths[path] :
      /\ ChosenBy(doc, d, path, i)
      /\ \E b \in BodiesOf(doc, path, i) : ~b.skip /\ t = [id |-> RawOf(doc, path, i).id, body |-> b.body]

OneOfAnId(tools) == \A t, u \in tools : t.id = u.id => t = u

Loaded ==
  IF remote.doc.loads /\ remote.discovery.valid /\ ~Clash(remote.doc)
    THEN /\ code = "ok"
         /\ SureTools(remote.doc, remote.discovery, got.tools)
         /\ PossibleTools(remote.doc, remote.discovery, got.tools)
         /\ OneOfAnId(got.tools)
    ELSE code = "CONNECTOR_ERROR"

LEMMA ToolsExactIs == ToolsExact <=> (op = "openapi.load" /\ pc = "done" => Loaded)
  BY DEF ToolsExact, Loaded, Clash, SureTools, PossibleTools, OneOfAnId, ChosenBy, BodiesOf, RawOf

ToolsOf(d, ops) ==
  {[id |-> o.id, body |-> o.body] : o \in {p \in Range(ops) : p.skip = "no" /\ Exposed(d, p)}}

AllExtracted(doc, ops, at, nth) == Extracted(doc, Reach(doc, {}), ops, at, nth)

EachOfItsPlace(doc, ops, at, nth) ==
  /\ Len(ops) \in Nat /\ DOMAIN ops = 1..Len(ops)
  /\ \A e \in 1..Len(ops) : EntryOf(doc, at[e], nth[e], ops[e])
  /\ EntriesApart(ops, at, nth) /\ LaterOnesAreDuplicates(ops)
  /\ \A q \in DOMAIN doc.paths : \A j \in DOMAIN doc.paths[q] :
       doc.paths[q][j].id # "" => HasEntry(at, nth, Len(ops), q, j)

LEMMA EntriesAre ==
  ASSUME NEW doc \in Documents, NEW ops, NEW at, NEW nth, AllExtracted(doc, ops, at, nth)
  PROVE  EachOfItsPlace(doc, ops, at, nth)
  <1>1. Len(ops) \in Nat /\ DOMAIN ops = 1..Len(ops)
    BY AppendAny DEF AllExtracted, Extracted
  <1>2. \A q \in DOMAIN doc.paths : \A j \in DOMAIN doc.paths[q] : j <= Reach(doc, {})[q]
    BY OperationsOfPath DEF Reach
  <1> QED
    <2>1. \A q \in DOMAIN doc.paths : \A j \in DOMAIN doc.paths[q] :
            doc.paths[q][j].id # "" => Due(doc, Reach(doc, {}), q, j)
      BY <1>2 DEF Due
    <2> QED
      BY <1>1, <2>1 DEF AllExtracted, Extracted, EntriesFit, AllRead, EachOfItsPlace

(* Of two entries with one id the later one is a duplicate.                *)
LEMMA OneIsDuplicate ==
  ASSUME NEW ops, Len(ops) \in Nat, LaterOnesAreDuplicates(ops),
         NEW e \in 1..Len(ops), NEW f \in 1..Len(ops), e # f, ops[e].id = ops[f].id
  PROVE  \E x \in 1..Len(ops) : ops[x].skip = "duplicate"
  <1>1. e \in 1..f - 1 \/ f \in 1..e - 1
    OBVIOUS
  <1> QED
    BY <1>1 DEF LaterOnesAreDuplicates

LEMMA ClashesAreDuplicates ==
  ASSUME NEW doc \in Documents, NEW ops, NEW at, NEW nth, AllExtracted(doc, ops, at, nth)
  PROVE  (\E e \in DOMAIN ops : ops[e].skip = "duplicate") <=> Clash(doc)
  <1>0. /\ Len(ops) \in Nat /\ DOMAIN ops = 1..Len(ops)
        /\ \A e \in 1..Len(ops) : EntryOf(doc, at[e], nth[e], ops[e])
        /\ EntriesApart(ops, at, nth) /\ LaterOnesAreDuplicates(ops)
        /\ \A q \in DOMAIN doc.paths : \A j \in DOMAIN doc.paths[q] :
             doc.paths[q][j].id # "" => HasEntry(at, nth, Len(ops), q, j)
    <2>1. EachOfItsPlace(doc, ops, at, nth)
      BY EntriesAre
    <2> QED
      BY <2>1 DEF EachOfItsPlace
  <1>1. ASSUME NEW e \in DOMAIN ops, ops[e].skip = "duplicate" PROVE Clash(doc)
    <2>1. PICK f \in 1..e - 1 : ops[f].id = ops[e].id
      BY <1>0, <1>1 DEF LaterOnesAreDuplicates
    <2>2. f \in 1..Len(ops) /\ e \in 1..Len(ops) /\ f # e
      <3>1. e \in 1..Len(ops) /\ Len(ops) \in Nat
        BY <1>0
      <3> QED
        BY <2>1, <3>1
    <2>3. at[e] # at[f] \/ nth[e] # nth[f]
      BY <1>0, <2>2 DEF EntriesApart
    <2> QED
      <3>1. EntryOf(doc, at[e], nth[e], ops[e]) /\ EntryOf(doc, at[f], nth[f], ops[f])
        BY <1>0, <2>2
      <3>2. /\ at[e] \in DOMAIN doc.paths /\ nth[e] \in DOMAIN doc.paths[at[e]]
            /\ at[f] \in DOMAIN doc.paths /\ nth[f] \in DOMAIN doc.paths[at[f]]
            /\ doc.paths[at[e]][nth[e]].id = doc.paths[at[f]][nth[f]].id
            /\ doc.paths[at[e]][nth[e]].id # ""
        BY <2>1, <3>1 DEF EntryOf
      <3> QED
        BY <2>3, <3>2 DEF Clash, RawOf
  <1>2. ASSUME Clash(doc) PROVE \E e \in DOMAIN ops : ops[e].skip = "duplicate"
    <2>1. PICK path \in DOMAIN doc.paths, other \in DOMAIN doc.paths :
            \E i \in DOMAIN doc.paths[path], j \in DOMAIN doc.paths[other] :
              /\ path # other \/ i # j
              /\ doc.paths[path][i].id = doc.paths[other][j].id /\ doc.paths[path][i].id # ""
      BY <1>2 DEF Clash, RawOf
    <2>2. PICK i \in DOMAIN doc.paths[path], j \in DOMAIN doc.paths[other] :
              /\ path # other \/ i # j
              /\ doc.paths[path][i].id = doc.paths[other][j].id /\ doc.paths[path][i].id # ""
      BY <2>1
    <2>3. PICK e \in 1..Len(ops) : at[e] = path /\ nth[e] = i
      BY <1>0, <2>2 DEF HasEntry
    <2>4. PICK f \in 1..Len(ops) : at[f] = other /\ nth[f] = j
      BY <1>0, <2>2 DEF HasEntry
    <2>5. e # f /\ ops[e].id = ops[f].id
      BY <1>0, <2>2, <2>3, <2>4 DEF EntryOf
    <2>6. \E x \in 1..Len(ops) : ops[x].skip = "duplicate"
      BY <1>0, <2>5, OneIsDuplicate
    <2> QED
      BY <1>0, <2>6
  <1> QED
    BY <1>1, <1>2

LEMMA ExposedByFields ==
  ASSUME NEW d, NEW o, NEW id, NEW method, NEW path, NEW tags,
         o.id = id, o.method = method, o.path = path, o.tags = tags
  PROVE  Exposed(d, o) <=> Exposed(d, [id |-> id, method |-> method, path |-> path, tags |-> tags])
  BY DEF Exposed, RuleMatches

LEMMA ToolsAreExact ==
  ASSUME NEW doc \in Documents, NEW d, NEW ops, NEW at, NEW nth, AllExtracted(doc, ops, at, nth),
         \A e \in DOMAIN ops : ops[e].skip # "duplicate"
  PROVE  /\ SureTools(doc, d, ToolsOf(d, ops)) /\ PossibleTools(doc, d, ToolsOf(d, ops))
         /\ OneOfAnId(ToolsOf(d, ops))
  <1>0. /\ Len(ops) \in Nat /\ DOMAIN ops = 1..Len(ops)
        /\ \A e \in 1..Len(ops) : EntryOf(doc, at[e], nth[e], ops[e])
        /\ LaterOnesAreDuplicates(ops)
        /\ \A q \in DOMAIN doc.paths : \A j \in DOMAIN doc.paths[q] :
             doc.paths[q][j].id # "" => HasEntry(at, nth, Len(ops), q, j)
    <2>1. EachOfItsPlace(doc, ops, at, nth)
      BY EntriesAre
    <2> QED
      BY <2>1 DEF EachOfItsPlace
  <1>1. ASSUME NEW e \in 1..Len(ops)
        PROVE  Exposed(d, ops[e]) <=>
                 Exposed(d, [id |-> RawOf(doc, at[e], nth[e]).id, method |-> RawOf(doc, at[e], nth[e]).method,
                             path |-> at[e], tags |-> RawOf(doc, at[e], nth[e]).tags])
    <2> DEFINE raw == RawOf(doc, at[e], nth[e])
    <2>1. /\ ops[e].id = raw.id /\ ops[e].method = raw.method
          /\ ops[e].path = at[e] /\ ops[e].tags = raw.tags
      BY <1>0 DEF EntryOf, RawOf
    <2> QED
      BY <2>1, ExposedByFields
  <1>2. \A t : t \in ToolsOf(d, ops) <=>
          \E e \in 1..Len(ops) : /\ t = [id |-> ops[e].id, body |-> ops[e].body]
                                 /\ ops[e].skip = "no" /\ Exposed(d, ops[e])
    <2> DEFINE kept == {o \in Range(ops) : o.skip = "no" /\ Exposed(d, o)}
    <2>0. \A o : o \in kept <=> o \in Range(ops) /\ o.skip = "no" /\ Exposed(d, o)
      OBVIOUS
    <2>1. ToolsOf(d, ops) = {[id |-> o.id, body |-> o.body] : o \in kept}
      BY DEF ToolsOf
    <2> HIDE DEF kept
    <2>2. \A o : o \in Range(ops) <=> \E e \in 1..Len(ops) : o = ops[e]
      <3>1. DOMAIN ops = 1..Len(ops)
        BY <1>0
      <3> QED
        BY <3>1 DEF Range
    <2> QED
      BY <2>0, <2>1, <2>2
  <1>3. ASSUME NEW path \in DOMAIN doc.paths, NEW i \in DOMAIN doc.paths[path],
               ChosenBy(doc, d, path, i), \A b \in BodiesOf(doc, path, i) : ~b.skip
        PROVE  \E t \in ToolsOf(d, ops) : t.id = RawOf(doc, path, i).id
    <2>0. doc.paths[path][i].id # ""
      BY <1>3 DEF ChosenBy, RawOf
    <2>1. PICK e \in 1..Len(ops) : at[e] = path /\ nth[e] = i
      <3>1. HasEntry(at, nth, Len(ops), path, i)
        BY <1>0, <2>0
      <3> QED
        BY <3>1 DEF HasEntry
    <2>2. ops[e].skip = "no" /\ ops[e].id = RawOf(doc, path, i).id
      <3>1. EntryOf(doc, path, i, ops[e]) /\ ops[e].skip # "duplicate"
        BY <1>0, <2>1
      <3>2. ops[e].skip # "body"
        BY <1>3, <3>1 DEF EntryOf, BodiesOf, RawOf
      <3> QED
        BY <3>1, <3>2 DEF EntryOf, RawOf
    <2>3. Exposed(d, ops[e])
      BY <1>1, <1>3, <2>1 DEF ChosenBy
    <2>4. [id |-> ops[e].id, body |-> ops[e].body] \in ToolsOf(d, ops)
      BY <1>2, <2>2, <2>3
    <2> QED
      BY <2>2, <2>4
  <1>4. ASSUME NEW t \in ToolsOf(d, ops)
        PROVE  \E path \in DOMAIN doc.paths : \E i \in DOMAIN doc.paths[path] :
                 /\ ChosenBy(doc, d, path, i)
                 /\ \E b \in BodiesOf(doc, path, i) :
                      ~b.skip /\ t = [id |-> RawOf(doc, path, i).id, body |-> b.body]
    <2>1. PICK e \in 1..Len(ops) : /\ t = [id |-> ops[e].id, body |-> ops[e].body]
                                   /\ ops[e].skip = "no" /\ Exposed(d, ops[e])
      BY <1>2
    <2>2. /\ at[e] \in DOMAIN doc.paths /\ nth[e] \in DOMAIN doc.paths[at[e]]
          /\ RawOf(doc, at[e], nth[e]).id # "" /\ ops[e].id = RawOf(doc, at[e], nth[e]).id
          /\ \E b \in BodiesOf(doc, at[e], nth[e]) : ~b.skip /\ ops[e].body = b.body
      BY <1>0, <2>1 DEF EntryOf, BodiesOf, RawOf
    <2>3. ChosenBy(doc, d, at[e], nth[e])
      BY <1>1, <2>1, <2>2 DEF ChosenBy
    <2> QED
      BY <2>1, <2>2, <2>3
  <1>5. ASSUME NEW t \in ToolsOf(d, ops), NEW u \in ToolsOf(d, ops), t.id = u.id PROVE t = u
    <2>1. PICK e \in 1..Len(ops) : t = [id |-> ops[e].id, body |-> ops[e].body]
      BY <1>2
    <2>2. PICK f \in 1..Len(ops) : u = [id |-> ops[f].id, body |-> ops[f].body]
      BY <1>2
    <2>3. ops[e].id = ops[f].id
      BY <1>5, <2>1, <2>2
    <2>4. ~(\E x \in 1..Len(ops) : ops[x].skip = "duplicate")
      BY <1>0
    <2>5. e = f
      BY <1>0, <2>3, <2>4, OneIsDuplicate
    <2> QED
      BY <2>1, <2>2, <2>5
  <1> QED
    BY <1>3, <1>4, <1>5 DEF SureTools, PossibleTools, OneOfAnId

-----------------------------------------------------------------------------
LoadData ==
  /\ pc = "load" /\ remote.doc \in Documents /\ got.unread \subseteq DOMAIN remote.doc.paths
  /\ \E at, nth : Extracted(remote.doc, Reach(remote.doc, got.unread), got.ops, at, nth)

LoadInv ==
  op = "openapi.load" => /\ UnderWay => LoadData
                         /\ pc \in {"close", "done"} => Loaded

LEMMA LoadBegins ==
  ASSUME LoadOpened, pc' = "load"
  PROVE  LoadData'
  <1>1. PICK doc \in Documents : \E d \in Discoveries :
          remote' = [doc |-> doc, discovery |-> d] /\ got' = [unread |-> DOMAIN doc.paths, ops |-> <<>>]
    BY DEF LoadOpened
  <1>2. remote'.doc = doc /\ got'.unread = DOMAIN doc.paths /\ got'.ops = <<>>
    BY <1>1
  <1>3. <<>> \in Seq({}) /\ Len(<<>>) = 0 /\ 1..0 = {}
    BY EmptySeq
  <1> DEFINE nowhere == [e \in {} |-> e]
  <1>4. Extracted(doc, Reach(doc, DOMAIN doc.paths), <<>>, nowhere, nowhere)
    <2>1. \A q \in DOMAIN doc.paths : \A j \in DOMAIN doc.paths[q] :
            ~Due(doc, Reach(doc, DOMAIN doc.paths), q, j)
      <3>1. \A q \in DOMAIN doc.paths : Reach(doc, DOMAIN doc.paths)[q] = 0
        BY DEF Reach
      <3>2. \A q \in DOMAIN doc.paths : \A j \in DOMAIN doc.paths[q] : ~(j <= 0)
        BY OperationsOfPath
      <3> QED
        BY <3>1, <3>2 DEF Due
    <2>2. AllRead(doc, Reach(doc, DOMAIN doc.paths), <<>>, nowhere, nowhere)
      BY <2>1 DEF AllRead
    <2> HIDE DEF nowhere
    <2> QED
      BY <1>3, <2>2 DEF Extracted, IsSequence, EntriesFit, EntriesApart, LaterOnesAreDuplicates
  <1> QED
    BY <1>2, <1>4 DEF LoadData

LEMMA ReadPathKeeps == LoadData /\ ReadPath => LoadData'
  <1> SUFFICES ASSUME LoadData, ReadPath PROVE LoadData'
    OBVIOUS
  <1>1. /\ remote' = remote /\ pc' = pc
        /\ \E path \in got.unread :
             \E choice : /\ \A i \in DOMAIN remote.doc.paths[path] :
                              choice[i] \in ProjectRequestBody(remote.doc.paths[path][i].body,
                                                               remote.doc.schemas)
                         /\ got' = [unread |-> got.unread \ {path},
                                    ops |-> ExtractPath(got.ops, path, remote.doc.paths[path], choice)]
    BY DEF ReadPath
  <1>2. PICK path \in got.unread :
             \E choice : /\ \A i \in DOMAIN remote.doc.paths[path] :
                              choice[i] \in ProjectRequestBody(remote.doc.paths[path][i].body,
                                                               remote.doc.schemas)
                         /\ got' = [unread |-> got.unread \ {path},
                                    ops |-> ExtractPath(got.ops, path, remote.doc.paths[path], choice)]
    BY <1>1
  <1>3. PICK choice : /\ \A i \in DOMAIN remote.doc.paths[path] :
                              choice[i] \in ProjectRequestBody(remote.doc.paths[path][i].body,
                                                               remote.doc.schemas)
                      /\ got' = [unread |-> got.unread \ {path},
                                 ops |-> ExtractPath(got.ops, path, remote.doc.paths[path], choice)]
    BY <1>2
  <1>4. PICK at : \E nth : Extracted(remote.doc, Reach(remote.doc, got.unread), got.ops, at, nth)
    BY DEF LoadData
  <1>5. PICK nth : Extracted(remote.doc, Reach(remote.doc, got.unread), got.ops, at, nth)
    BY <1>4
  <1> DEFINE doc == remote.doc
             unread == got.unread
             ops == got.ops
  <1>6. doc \in Documents /\ unread \in SUBSET DOMAIN doc.paths /\ path \in unread
    BY DEF LoadData
  <1>7. \A i \in DOMAIN doc.paths[path] :
          choice[i] \in ProjectRequestBody(doc.paths[path][i].body, doc.schemas)
    BY <1>3
  <1>8. Extracted(doc, Reach(doc, unread), ops, at, nth)
    BY <1>5
  <1>9. got'.unread = unread \ {path} /\ got'.ops = ExtractPath(ops, path, doc.paths[path], choice)
    BY <1>3
  <1>10. remote'.doc = doc /\ pc' = "load"
    BY <1>1 DEF LoadData
  <1> HIDE DEF doc, unread, ops
  <1>11. \E at2, nth2 : Extracted(doc, Reach(doc, unread \ {path}),
                                  ExtractPath(ops, path, doc.paths[path], choice), at2, nth2)
    BY <1>6, <1>7, <1>8, ReadOnePath
  <1> QED
    BY <1>6, <1>9, <1>10, <1>11 DEF LoadData

LEMMA RegistryLoads == LoadData /\ RegistryLoad => Loaded'
  <1> SUFFICES ASSUME LoadData, RegistryLoad PROVE Loaded'
    OBVIOUS
  <1> DEFINE doc == remote.doc
             d == remote.discovery
  <1>1. remote' = remote /\ doc \in Documents
    BY DEF RegistryLoad, LoadData
  <1>2. CASE ~doc.loads \/ ~d.valid
    BY <1>1, <1>2 DEF RegistryLoad, Answer, Loaded
  <1>3. CASE doc.loads /\ d.valid
    <2>1. got.unread = {}
      BY <1>3 DEF RegistryLoad
    <2>2. PICK at : \E nth : AllExtracted(doc, got.ops, at, nth)
      BY <2>1 DEF LoadData, AllExtracted
    <2>3. PICK nth : AllExtracted(doc, got.ops, at, nth)
      BY <2>2
    <2>4. CASE \E i \in DOMAIN got.ops : got.ops[i].skip = "duplicate"
      <3>1. code' = "CONNECTOR_ERROR"
        BY <1>3, <2>4 DEF RegistryLoad, Answer
      <3>2. Clash(doc)
        BY <1>1, <2>3, <2>4, ClashesAreDuplicates
      <3> QED
        BY <1>1, <3>1, <3>2 DEF Loaded
    <2>5. CASE \A i \in DOMAIN got.ops : got.ops[i].skip # "duplicate"
      <3>1. code' = "ok" /\ got' = [tools |-> ToolsOf(d, got.ops)]
        BY <1>3, <2>5 DEF RegistryLoad, Answer, ToolsOf
      <3>2. got'.tools = ToolsOf(d, got.ops)
        BY <3>1
      <3>3. ~Clash(doc)
        BY <1>1, <2>3, <2>5, ClashesAreDuplicates
      <3> DEFINE ops == got.ops
      <3>4. /\ SureTools(doc, d, got'.tools) /\ PossibleTools(doc, d, got'.tools)
            /\ OneOfAnId(got'.tools)
        BY <1>1, <2>3, <2>5, <3>2, ToolsAreExact
      <3> QED
        BY <1>1, <1>3, <3>1, <3>3, <3>4 DEF Loaded
    <2> QED
      BY <2>4, <2>5
  <1> QED
    BY <1>2, <1>3

LEMMA LoadInvKept == CallInv /\ LoadInv /\ Next => LoadInv'
  <1> SUFFICES ASSUME CallInv, LoadInv, Next, op' = "openapi.load"
               PROVE  (UnderWay => LoadData)' /\ (pc \in {"close", "done"} => Loaded)'
    BY DEF LoadInv
  <1>1. CASE BeginCall
    <2>1. Opened
      BY <1>1, BeginOpens DEF Refused
    <2>2. pc' = "load" /\ LoadOpened
      BY <2>1 DEF Opened
    <2> QED
      BY <2>2, LoadBegins
  <1>2. CASE Exchanging
    <2>1. op = "openapi.load" /\ UnderWay /\ LoadData
      BY <1>2, ExchangingKeepsOp, ExchangingIsNotOver, ExchangingIsNotIdle DEF LoadInv, UnderWay
    <2>2. LoadStep
      <3>1. op \notin RedisOps \cup KafkaOps \cup SqlOps \cup NetOps \cup DockerOps \cup HttpOps
        BY <2>1 DEF RedisOps, ServerOps, KeyOps, CardOps, NilOps, LimitedOps, ScanOps, KafkaOps,
           InfoOps, GroupOps, SqlOps, QueryOps, VersionOps, NetOps, DockerOps, RecordOps, TextOps, HttpOps
      <3>2. ~PrepareRequest
        BY <2>1 DEF PrepareRequest
      <3> QED
        BY <1>2, <3>1, <3>2, RedisSteps, KafkaSteps, SqlSteps, NetSteps, HttpDockerSteps DEF Exchanging
    <2>3. CASE ReadPath
      BY <2>1, <2>3, ReadPathKeeps DEF LoadData
    <2>4. CASE RegistryLoad
      BY <2>1, <2>4, RegistryLoads DEF RegistryLoad, Answer, UnderWay
    <2> QED
      BY <2>2, <2>3, <2>4 DEF LoadStep
  <1>3. CASE Ping
    <2>1. op = "openapi.load" /\ pc = "ping"
      BY <1>3 DEF Ping, request
    <2> QED
      BY <2>1 DEF LoadInv, LoadData, UnderWay
  <1>4. CASE Fail
    <2>1. op = "openapi.load" /\ pc = "exchange"
      BY <1>4 DEF Fail, RequestFails, Answer, request
    <2> QED
      BY <2>1 DEF LoadInv, LoadData, UnderWay
  <1>5. CASE Close
    BY <1>5 DEF Close, LoadInv, Loaded, UnderWay, request
  <1>6. CASE Finish
    BY <1>6 DEF Finish
  <1>7. CASE Reload
    <2>1. op = "openapi.load" /\ pc \in {"lookup", "resolve", "dial"}
      BY <1>7 DEF Reload, request
    <2> QED
      BY <2>1 DEF LoadInv, LoadData, UnderWay
  <1>8. ~(Modify \/ LogChanges \/ GroupChanges \/ Deliver)
    BY DEF Modify, LogChanges, GroupChanges, Deliver, At, GroupOps, NetOps, ScanOps, request
  <1> QED
    BY <1>1, <1>2, <1>3, <1>4, <1>5, <1>6, <1>7, <1>8 DEF Next, Step, Exchanging, Environment

(* The tools of a service are those its document and its discovery give,   *)
(* whichever they are and in whatever order Go walks the paths.            *)
THEOREM ToolsExactHolds == Spec => []ToolsExact
  <1>1. Init => LoadInv
    BY DEF Init, LoadInv
  <1>2. CallInv /\ LoadInv /\ [Next]_vars => LoadInv'
    <2>1. LoadInv /\ UNCHANGED vars => LoadInv'
      BY DEF vars, request, LoadInv, LoadData, Loaded, UnderWay
    <2> QED
      BY <2>1, LoadInvKept
  <1>3. LoadInv => ToolsExact
    BY ToolsExactIs DEF LoadInv
  <1> QED
    BY <1>1, <1>2, <1>3, CallInvHolds, PTL DEF Spec
=============================================================================
