--------------------------- MODULE RedisConnector ---------------------------
(***************************************************************************)
(* ctx.redis: read-only commands on a named instance.  Most send one       *)
(* command; scan and hscan repeat SCAN until the cursor is back at 0 or    *)
(* the limit is reached, while other clients change what is scanned.       *)
(*                                                                         *)
(* Redis is external.  A scanned element lives in a bucket; SCAN returns   *)
(* the elements of one or more buckets after the cursor, whatever COUNT    *)
(* says, and may repeat elements it returned before.  Lists and sorted     *)
(* sets are counted, not named.                                            *)
(***************************************************************************)
EXTENDS ConnectorCall

CONSTANTS Elems,    \* keys of a database, or fields of a hash
          Buckets,  \* number of buckets; the cursor after the last one is 0
          Bucket,   \* where an element lives
          MaxLen    \* bound on lists, sorted sets, client lists, slow logs

ASSUME RedisAssumption ==
  /\ IsFiniteSet(Elems)
  /\ Buckets \in Nat \ {0}
  /\ Bucket \in [Elems -> 1..Buckets]
  /\ MaxLen \in Nat

ServerOps == {"ping", "info", "role", "dbsize", "config_get"}
KeyOps == {"type", "ttl", "exists"}
CardOps == {"hlen", "llen", "scard", "zcard"}
NilOps == {"get", "memory_usage", "object_encoding", "hget"}
LimitedOps == {"slowlog_get", "client_list", "zrange_sample", "lrange", "hmget"}
ScanOps == {"scan", "hscan"}
RedisOps == ServerOps \cup KeyOps \cup CardOps \cup NilOps \cup LimitedOps \cup ScanOps

BeginCommand ==
  \E o \in ServerOps \cup KeyOps \cup CardOps \cup NilOps :
    Begin(o, 0, "dial", Nothing, Nothing)

BeginLimited ==
  \E o \in LimitedOps, n \in 0..MaxLimit + 1 :
    /\ o = "hmget" => n > 0
    /\ Begin(o, n, "lookup", Nothing, Nothing)

(* A scan starts at the cursor of the request; from and stable remember    *)
(* that cursor and what has been there all the time.                       *)
BeginScan ==
  \E o \in ScanOps, n \in 0..MaxLimit + 1, c \in 0..Buckets - 1, there \in SUBSET Elems :
    Begin(o, n, "lookup", [present |-> there, stable |-> there, from |-> c],
          [kept |-> {}, n |-> 0, cursor |-> c, truncated |-> FALSE])

-----------------------------------------------------------------------------
(* Mutant of ClampLimit: the limit of the instance is not applied.         *)
ClampLimitUncapped(n, max) == n

(* ClampLimit; hmget compares the number of its fields instead.            *)
Acceptable(n, max) == n > 0 /\ (op = "hmget" => n <= max)
ClampLimit(n, max) == Smaller(n, max)

LookupLimit ==
  /\ op \in LimitedOps \cup ScanOps
  /\ \/ /\ entry = Absent
        /\ Answer("lookup", "CONNECTOR_ERROR")
        /\ UNCHANGED limit
     \/ /\ entry # Absent /\ ~Acceptable(want, entry.limit)
        /\ Answer("lookup", "INVALID_PARAMS")
        /\ UNCHANGED limit
     \/ /\ entry # Absent /\ Acceptable(want, entry.limit)
        /\ Goto("lookup", "dial")
        /\ limit' = ClampLimit(want, entry.limit)
        /\ UNCHANGED code
  /\ UNCHANGED <<request, config, client, remote, got>>

(* dial looks the name up again: the client gets the address of now.       *)
RedisDial ==
  /\ op \in RedisOps
  /\ \/ /\ entry = Absent
        /\ Answer("dial", "CONNECTOR_ERROR")
        /\ UNCHANGED client
     \/ /\ entry # Absent /\ ~entry.sound
        /\ Answer("dial", "INVALID_PARAMS")
        /\ UNCHANGED client
     \/ /\ entry.sound
        /\ Goto("dial", "ping")
        /\ client' = "open"
        /\ UNCHANGED code
  /\ UNCHANGED <<request, config, limit, remote, got>>

ServerCommand == At(ServerOps) /\ Reply(Nothing)

KeyCommand == At(KeyOps) /\ Reply(Nothing)

cardOp == At(CardOps) /\ Reply(Nothing)

(* redis.Nil is an answer, not an error: the value is null.                *)
NilCommand == At(NilOps \ {"hget"}) /\ \E v \in {"null", "value"} : Reply([value |-> v])

HGet == At({"hget"}) /\ \E v \in {"null", "value"} : Reply([value |-> v])

(* One value or null for each field, in the order asked for.               *)
HMGet == At({"hmget"}) /\ \E v \in [1..want -> {"null", "value"}] : Reply([values |-> v])

(* A sample is the first limit of what was fetched; avail is what the      *)
(* server had from the first element on.                                   *)
Sampled(fetched, avail, from) ==
  [n |-> Smaller(fetched, limit), truncated |-> fetched > limit, avail |-> avail, from |-> from]

SlowlogGet ==
  At({"slowlog_get"}) /\ \E avail \in 0..MaxLen :
    Reply(Sampled(Smaller(avail, limit), avail, 0))

ClientList ==
  At({"client_list"}) /\ \E avail \in 0..MaxLen : Reply(Sampled(avail, avail, 0))

(* What LRANGE and ZRANGE from lo to hi, both included, return of len      *)
(* elements; negative indices count from the end.                          *)
RangeFirst(lo, len) == IF lo >= 0 THEN lo ELSE IF len + lo > 0 THEN len + lo ELSE 0
RangeLen(lo, hi, len) ==
  LET last == IF hi < 0 THEN len + hi ELSE Smaller(hi, len - 1)
  IN IF RangeFirst(lo, len) > last THEN 0 ELSE last - RangeFirst(lo, len) + 1

(* One more than the limit is fetched, to see whether there is more.       *)
ZRangeSample ==
  At({"zrange_sample"}) /\ \E len \in 0..MaxLen :
    Reply(Sampled(RangeLen(0, limit, len), len, 0))

(* Mutant of LRange: stop is taken to be exclusive.                        *)
LRangeShort ==
  At({"lrange"}) /\ \E len \in 0..MaxLen, start \in -MaxLen..MaxLen :
    Reply(Sampled(RangeLen(start, start + limit - 1, len),
                            len - Smaller(RangeFirst(start, len), len), start))

LRange ==
  At({"lrange"}) /\ \E len \in 0..MaxLen, start \in -MaxLen..MaxLen :
    Reply(Sampled(RangeLen(start, start + limit, len),
                            len - Smaller(RangeFirst(start, len), len), start))

-----------------------------------------------------------------------------
(* Mutant of ScanTo: only a limit that is reached ends the loop.           *)
ScanToEndless(next, dups) ==
  LET upto == IF next = 0 THEN Buckets ELSE next
      batch == {e \in remote.present : Bucket[e] \in got.cursor + 1 .. upto}
      size == Cardinality(batch) + dups
      taken == Smaller(size, limit - got.n)
      over == size > limit - got.n
      full == got.n + taken >= limit
  IN \E fresh \in SUBSET batch :
       /\ Cardinality(fresh) \in taken - dups .. taken
       /\ ~over => fresh = batch
       /\ got' = [kept |-> got.kept \cup fresh, n |-> got.n + taken, cursor |-> next,
                  truncated |-> over \/ (full /\ next # 0)]
       /\ IF over \/ full
            THEN Answer("exchange", "ok")
            ELSE pc = "exchange" /\ UNCHANGED <<pc, code>>

(* The SCAN of one iteration, from the cursor to next, with dups elements  *)
(* returned before.  Of a batch that does not fit only part is kept; the   *)
(* loop ends when the batch did not fit, the scan is over or the limit is  *)
(* reached.                                                                *)
ScanTo(next, dups) ==
  LET upto == IF next = 0 THEN Buckets ELSE next
      batch == {e \in remote.present : Bucket[e] \in got.cursor + 1 .. upto}
      size == Cardinality(batch) + dups
      taken == Smaller(size, limit - got.n)
      over == size > limit - got.n
      full == got.n + taken >= limit
  IN \E fresh \in SUBSET batch :
       /\ Cardinality(fresh) \in taken - dups .. taken
       /\ ~over => fresh = batch
       /\ got' = [kept |-> got.kept \cup fresh, n |-> got.n + taken, cursor |-> next,
                  truncated |-> over \/ (full /\ next # 0)]
       /\ IF over \/ full \/ next = 0
            THEN Answer("exchange", "ok")
            ELSE pc = "exchange" /\ UNCHANGED <<pc, code>>

(* Mutant of ScanLoop: truncated only when a batch did not fit.            *)
ScanLoopQuiet ==
  /\ At(ScanOps)
  /\ \E next \in {0} \cup (got.cursor + 1 .. Buckets - 1) :
       LET upto == IF next = 0 THEN Buckets ELSE next
           batch == {e \in remote.present : Bucket[e] \in got.cursor + 1 .. upto}
           room == limit - got.n
       IN \E fresh \in SUBSET batch :
            /\ Cardinality(fresh) = Smaller(Cardinality(batch), room)
            /\ got' = [kept |-> got.kept \cup fresh, n |-> got.n + Cardinality(fresh),
                       cursor |-> next, truncated |-> Cardinality(batch) > room]
            /\ IF Cardinality(batch) >= room \/ next = 0
                 THEN Answer("exchange", "ok")
                 ELSE UNCHANGED <<pc, code>>
  /\ UNCHANGED <<request, config, limit, client, remote>>

ScanLoop ==
  /\ At(ScanOps)
  /\ \E next \in {0} \cup (got.cursor + 1 .. Buckets - 1), dups \in 0..Cardinality(got.kept) :
       ScanTo(next, dups)
  /\ UNCHANGED <<request, config, limit, client, remote>>

(* Other clients add and remove elements.                                  *)
Modify ==
  /\ At(ScanOps)
  /\ \E e \in Elems :
       remote' = IF e \in remote.present
                   THEN [remote EXCEPT !.present = @ \ {e}, !.stable = @ \ {e}]
                   ELSE [remote EXCEPT !.present = @ \cup {e}]
  /\ UNCHANGED <<pc, request, config, limit, client, got, code>>

RedisStep ==
  \/ LookupLimit
  \/ RedisDial
  \/ ServerCommand \/ KeyCommand \/ cardOp \/ NilCommand \/ HGet \/ HMGet
  \/ SlowlogGet \/ ClientList \/ ZRangeSample \/ LRange \/ ScanLoop

-----------------------------------------------------------------------------
RedisTypeOK ==
  /\ op \in ScanOps =>
       \/ remote = Nothing /\ got = Nothing
       \/ /\ remote.present \subseteq Elems /\ remote.stable \subseteq remote.present
          /\ remote.from \in 0..Buckets - 1
          /\ got.kept \subseteq Elems /\ got.n \in 0..MaxLimit
          /\ got.cursor \in 0..Buckets - 1 /\ got.truncated \in BOOLEAN

(* A scan that does not say it was truncated has returned everything that  *)
(* was there from its cursor on, the whole time, however the batches fell  *)
(* and whatever others did meanwhile; one that says so has returned        *)
(* exactly the limit.                                                      *)
ScanComplete ==
  (op \in ScanOps /\ pc = "done" /\ code = "ok") =>
    IF got.truncated
      THEN got.n = limit
      ELSE {e \in remote.stable : Bucket[e] > remote.from} \subseteq got.kept

(* client_list, zrange_sample and, from the left end, lrange return what   *)
(* there is up to the limit, and say truncated exactly when there is more. *)
SampleExact ==
  (op \in {"client_list", "zrange_sample", "lrange"} /\ pc = "done" /\ code = "ok") =>
    (got.from >= 0 => /\ got.n = Smaller(got.avail, limit)
                      /\ got.truncated <=> got.avail > limit)
=============================================================================
