------------------------------- MODULE Cassandra -------------------------------
(***************************************************************************)
(* The two tables of the storage keyspace (deploy/cassandra/init.cql), for *)
(* one stream part, as the managers write and read them.                   *)
(*                                                                         *)
(*   bucket       key (stream_id, partition), date_create: at most one row *)
(*                per date, so a second bucket of that date replaces it;   *)
(*   stream_data  key (stream_id, partition, bucket_id), ts, ...: a row is *)
(*                a message in a bucket.                                   *)
(*                                                                         *)
(* A request that fails may or may not have been applied.                  *)
(***************************************************************************)
EXTENDS Integers

CONSTANTS
    Message,        \* the messages of the stream part
    Timestamp,      \* Timestamp[m]: the publisher's timestamp of m, in milliseconds
    MaxBuckets,     \* bound: the buckets ever created
    MaxFailures     \* bound: the requests that fail

ASSUME TimestampAssumption == Timestamp \in [Message -> Nat]
ASSUME MaxBucketsAssumption == MaxBuckets \in Nat
ASSUME MaxFailuresAssumption == MaxFailures \in Nat

BucketId == 1 .. MaxBuckets     \* the TimeUuids of the buckets, in order of creation
NoBucket == 0
Time == {Timestamp[m] : m \in Message}

VARIABLES
    bucketTable,    \* bucketTable[t]: the row of table bucket with date_create t
    streamData,     \* the rows of stream_data: <<bucket id, message>>
    failures        \* the requests that have failed so far

tables == <<bucketTable, streamData>>

NoRow == [id |-> NoBucket, records |-> 0]

CassandraTypeOK ==
    /\ bucketTable \in [Time -> [id : BucketId \cup {NoBucket}, records : Nat]]
    /\ streamData \subseteq BucketId \X Message
    /\ failures \in 0 .. MaxFailures

CassandraInit ==
    /\ bucketTable = [t \in Time |-> NoRow]
    /\ streamData = {}
    /\ failures = 0

\* One more request fails.
RequestFails ==
    /\ failures < MaxFailures
    /\ failures' = failures + 1

-----------------------------------------------------------------------------
\* ... WHERE date_create <= to ORDER BY date_create DESC LIMIT 1: at most one date.
NewestDateUpTo(to) ==
    {t \in Time : /\ bucketTable[t].id # NoBucket
                  /\ t <= to
                  /\ \A u \in Time : bucketTable[u].id # NoBucket /\ u <= to => u <= t}

\* ... ORDER BY date_create DESC LIMIT 1
NewestDate ==
    {t \in Time : /\ bucketTable[t].id # NoBucket
                  /\ \A u \in Time : bucketTable[u].id # NoBucket => u <= t}

\* ... WHERE date_create > from AND date_create <= to
DatesWithin(from, to) ==
    {t \in Time : bucketTable[t].id # NoBucket /\ t > from /\ t <= to}
=============================================================================
