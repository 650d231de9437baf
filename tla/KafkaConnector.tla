--------------------------- MODULE KafkaConnector ---------------------------
(***************************************************************************)
(* ctx.kafka: read-only administration.  Execute validates the action and  *)
(* its parameters, dials, and calls one handler.  Some handlers read the   *)
(* cluster twice; it may change in between.                                *)
(*                                                                         *)
(* The cluster and the franz-go admin client are external.  A partition is *)
(* a log from offset lo to hi (-1: no such partition), a group a number    *)
(* in the order of names, the metadata of a partition the set of its       *)
(* faults.                                                                 *)
(***************************************************************************)
EXTENDS ConnectorCall, FiniteSetsExt

CONSTANTS Parts,      \* partitions a topic may have
          MaxOffset,  \* bound on offsets
          MaxGroups,  \* bound on consumer groups, and on topics
          MaxLag      \* bound on the lag of a group or of a partition

ASSUME KafkaAssumption ==
  /\ IsFiniteSet(Parts)
  /\ MaxOffset \in Nat /\ MaxGroups \in Nat /\ MaxLag \in Nat

InfoOps == {"cluster_info", "brokers"}
GroupOps == {"consumer_groups", "consumer_lag_summary"}
KafkaOps == InfoOps \cup GroupOps \cup
  {"topics", "broker_config", "topic_detail", "partition_health", "topic_offsets", "consumer_lag"}

Groups == 1..MaxGroups
ReplicaFaults == {"no_leader", "offline_replicas", "under_replicated"}
Faults == ReplicaFaults \cup {"error"}

BeginInfo == \E o \in InfoOps \cup {"topic_detail", "partition_health", "consumer_lag"} :
               Begin(o, 0, "dial", Nothing, Nothing)

(* A limit, or the number of a broker, is optional; 0 stands for none and  *)
(* -1 for a malformed one, which is found out after dialling.              *)
BeginTopics ==
  \E o \in {"topics", "broker_config"}, n \in -1..MaxLimit + 1 :
    Begin(o, n, "dial", Nothing, Nothing)

BeginOffsets ==
  \E lo \in [Parts -> -1..MaxOffset] : \E hi \in [Parts -> -1..MaxOffset] :
    /\ \A p \in Parts : lo[p] <= hi[p] /\ (lo[p] = -1) = (hi[p] = -1)
    /\ Begin("topic_offsets", 0, "dial", [lo |-> lo, hi |-> hi, recreated |-> FALSE], [phase |-> "starts"])

BeginGroups ==
  \E o \in GroupOps, n \in -1..MaxLimit + 1, there \in SUBSET Groups :
    Begin(o, n, "dial", [groups |-> there, stable |-> there], [phase |-> "list"])

(* The lag summary of one group asks for that group alone.                 *)
BeginLagOf ==
  \E g \in Groups, there \in SUBSET Groups :
    Begin("consumer_lag_summary", 0, "dial", [groups |-> there, stable |-> there \cap {g}],
          [phase |-> "detail", listed |-> {g}, selected |-> {g}])

-----------------------------------------------------------------------------
(* dial: the one lookup gives the address and the limit.                   *)
KafkaDial ==
  /\ op \in KafkaOps
  /\ \/ /\ entry = Absent
        /\ Answer("dial", "CONNECTOR_ERROR")
        /\ UNCHANGED <<client, limit>>
     \/ /\ entry # Absent /\ ~entry.sound
        /\ \E c \in {"INVALID_PARAMS", "CONNECTOR_ERROR"} : Answer("dial", c)
        /\ UNCHANGED <<client, limit>>
     \/ /\ entry.sound
        /\ Goto("dial", "ping")
        /\ client' = "open"
        /\ limit' = entry.limit
        /\ UNCHANGED code
  /\ UNCHANGED <<request, config, remote, got>>

(* applyLimit: a request may only lower the limit.                         *)
allowed == IF want > 0 THEN Smaller(want, limit) ELSE limit

KafkaFails(o, c) ==
  /\ op = o
  /\ Answer("exchange", c)
  /\ UNCHANGED <<request, config, limit, client, remote, got>>

(* A handler with an optional number parses it first.                      *)
BadLimit == \E o \in GroupOps \cup {"topics", "broker_config"} : want = -1 /\ KafkaFails(o, "INVALID_PARAMS")

ClusterInfo == At(InfoOps) /\ Reply(Nothing)

(* Values marked sensitive are blanked, the others returned.               *)
BrokerConfig ==
  At({"broker_config"}) /\ want >= 0 /\ \E sensitive \in BOOLEAN :
    Reply([value |-> IF sensitive THEN "[REDACTED]" ELSE "plain"])

(* The topics that pass the filters are counted.                           *)
Topics ==
  At({"topics"}) /\ want >= 0 /\ \E matching \in 0..MaxGroups :
    Reply([n |-> Smaller(matching, allowed), total |-> matching, truncated |-> matching > allowed])

-----------------------------------------------------------------------------
Having(faults, some) == Cardinality({p \in Parts : faults[p] \cap some # {}})

TopicDetail ==
  \/ KafkaFails("topic_detail", "CONNECTOR_ERROR")
  \/ At({"topic_detail"}) /\ \E faults \in [Parts -> SUBSET Faults] :
       Reply([faults |-> faults, under |-> Having(faults, {"under_replicated"}),
          offline |-> Having(faults, {"offline_replicas", "no_leader"})])

(* The partitions of topics that have no error of their own.  An error of  *)
(* a partition is an issue and leaves the cluster healthy.                 *)
PartitionHealth ==
  At({"partition_health"}) /\ \E faults \in [Parts -> SUBSET Faults] :
    LET under == Having(faults, {"under_replicated"})
        offline == Having(faults, {"offline_replicas"})
        leaderless == Having(faults, {"no_leader"})
    IN Reply([faults |-> faults, under |-> under, offline |-> offline, leaderless |-> leaderless,
          issues |-> {p \in Parts : faults[p] # {}},
          healthy |-> under = 0 /\ offline = 0 /\ leaderless = 0])

-----------------------------------------------------------------------------
(* ListStartOffsets and ListEndOffsets; a partition that is missing or in  *)
(* error has no offset.                                                    *)
Offsets(at, failed) == [p \in Parts |-> IF p \in failed THEN -1 ELSE at[p]]

(* Mutant of ReadStarts: the ends are read first, and used as if they had  *)
(* been read last.                                                         *)
ReadStartsSwapped ==
  /\ At({"topic_offsets"}) /\ got.phase = "starts"
  /\ got' = [phase |-> "ends", start |-> remote.hi,
             failed |-> {p \in Parts : remote.lo[p] = -1}]
  /\ UNCHANGED <<pc, request, config, limit, client, remote, code>>

ReadStarts ==
  /\ At({"topic_offsets"}) /\ got.phase = "starts"
  /\ \E failed \in SUBSET Parts :
       got' = [phase |-> "ends", start |-> Offsets(remote.lo, failed),
               failed |-> failed \cup {p \in Parts : remote.lo[p] = -1}]
  /\ UNCHANGED <<pc, request, config, limit, client, remote, code>>

MessageCount(start, end) == IF start >= 0 /\ end >= start THEN end - start ELSE -1

(* had remembers what the log holds now.                                   *)
ReadEnds ==
  /\ At({"topic_offsets"}) /\ got.phase = "ends"
  /\ \E failed \in SUBSET Parts :
       LET end == Offsets(remote.hi, failed)
           size == [p \in Parts |-> MessageCount(got.start[p], end[p])]
       IN got' = [phase |-> "read", start |-> got.start, end |-> end, size |-> size,
                  total |-> MapThenSumSet(LAMBDA p : IF size[p] > 0 THEN size[p] ELSE 0, Parts),
                  failed |-> got.failed \cup failed,
                  had |-> [p \in Parts |-> remote.hi[p] - remote.lo[p]]]
  /\ Answer("exchange", "ok")
  /\ UNCHANGED <<request, config, limit, client, remote>>

(* Messages are produced and removed, a partition is added, the topic is   *)
(* deleted and created again.                                              *)
LogChanges ==
  /\ At({"topic_offsets"})
  /\ \/ \E p \in Parts :
          \/ /\ remote.hi[p] < MaxOffset
             /\ remote' = [remote EXCEPT !.hi[p] = @ + 1,
                                         !.lo[p] = IF @ = -1 THEN 0 ELSE @]
          \/ /\ remote.lo[p] < remote.hi[p]
             /\ remote' = [remote EXCEPT !.lo[p] = @ + 1]
     \/ /\ ~remote.recreated
        /\ remote' = [lo |-> [p \in Parts |-> 0], hi |-> [p \in Parts |-> 0], recreated |-> TRUE]
  /\ UNCHANGED <<pc, request, config, limit, client, got, code>>

-----------------------------------------------------------------------------
FirstOf(S, n) == {g \in S : Cardinality({h \in S : h <= g}) <= n}

(* A lag summary without groups is over.                                   *)
NoGroups ==
  /\ At({"consumer_lag_summary"}) /\ got.phase = "list" /\ want >= 0
  /\ remote.groups = {}
  /\ Reply([phase |-> "read", listed |-> {}, items |-> <<>>, total |-> 0, truncated |-> FALSE])

(* ListGroups, sorted and cut to the limit.                                *)
ListGroups ==
  /\ At(GroupOps) /\ got.phase = "list" /\ want >= 0
  /\ op = "consumer_lag_summary" => remote.groups # {}
  /\ got' = [phase |-> "detail", listed |-> remote.groups,
             selected |-> FirstOf(remote.groups, allowed)]
  /\ UNCHANGED <<pc, request, config, limit, client, remote, code>>

(* The lag summary keeps to itself whether it was truncated.               *)
GroupsAnswer(items, total) ==
  Reply([phase |-> "read", listed |-> got.listed, items |-> items, total |-> total,
         truncated |-> Cardinality(got.listed) > allowed])

(* Mutant of DescribeGroups: a group that is not described is skipped.     *)
DescribeGroupsDropping ==
  /\ At({"consumer_groups"}) /\ got.phase = "detail"
  /\ \E reply \in [got.selected -> {"described", "failed", "missing"}] :
       GroupsAnswer([g \in {h \in got.selected : reply[h] # "missing"} |-> reply[g]], 0)

(* DescribeGroups may answer for some groups only; of the others the       *)
(* listing is kept.                                                        *)
DescribeGroups ==
  /\ At({"consumer_groups"}) /\ got.phase = "detail"
  /\ \E reply \in [got.selected -> {"described", "failed", "missing"}] :
       GroupsAnswer(
         [g \in got.selected |-> IF reply[g] = "missing" THEN "listed" ELSE reply[g]], 0)

Counted(lag) == MapThenSumSet(LAMBDA x : IF lag[x] > 0 THEN lag[x] ELSE 0, DOMAIN lag)

(* Lag of the selected groups; -1 for one that is in error or not found.   *)
LagSummary ==
  /\ At({"consumer_lag_summary"}) /\ got.phase = "detail"
  /\ \E lag \in [got.selected -> -1..MaxLag] : GroupsAnswer(lag, Counted(lag))

(* One group, by partition; -1 where the lag is unknown.                   *)
ConsumerLag ==
  \/ KafkaFails("consumer_lag", "CONNECTOR_ERROR")
  \/ At({"consumer_lag"}) /\ \E lag \in UNION {[S -> -1..MaxLag] : S \in SUBSET Parts} :
       Reply([items |-> lag, total |-> Counted(lag)])

GroupChanges ==
  /\ At(GroupOps)
  /\ \E g \in Groups :
       remote' = IF g \in remote.groups
                   THEN [groups |-> remote.groups \ {g}, stable |-> remote.stable \ {g}]
                   ELSE [remote EXCEPT !.groups = @ \cup {g}]
  /\ UNCHANGED <<pc, request, config, limit, client, got, code>>

KafkaStep ==
  \/ KafkaDial \/ BadLimit \/ ClusterInfo \/ BrokerConfig \/ Topics \/ TopicDetail
  \/ PartitionHealth \/ ReadStarts \/ ReadEnds \/ NoGroups \/ ListGroups \/ DescribeGroups
  \/ LagSummary \/ ConsumerLag

-----------------------------------------------------------------------------
(* Two reads make one true statement: however the log grows and shrinks    *)
(* between them, a partition's message_count covers what the log held when *)
(* its end was read, and a count is unknown only for a partition that was  *)
(* not there or in error at one of the reads, or whose topic was recreated.*)
OffsetsSound ==
  (op = "topic_offsets" /\ pc = "done" /\ code = "ok" /\ ~remote.recreated) =>
    \A p \in Parts :
      /\ p \notin got.failed => got.size[p] >= got.had[p] /\ got.size[p] <= got.end[p]
      /\ got.total >= got.size[p]

(* No group gets lost between the listing and the details: every group     *)
(* that was there all the time has its item, unless more than the limit    *)
(* were listed, and then exactly the limit are returned.                   *)
GroupsAccounted ==
  (op \in GroupOps /\ pc = "done" /\ code = "ok") =>
    IF got.truncated
      THEN Cardinality(DOMAIN got.items) = allowed
      ELSE remote.stable \subseteq DOMAIN got.items
=============================================================================
