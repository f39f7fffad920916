----------------------------- MODULE BucketManager -----------------------------
(***************************************************************************)
(* packages/node/src/plugins/storage/BucketManager.ts and Bucket.ts, for   *)
(* one stream part (parts share nothing but the timer loops): the buckets  *)
(* kept in memory, the checkFullBuckets loop that finds or creates the     *)
(* bucket a waiting message needs, the storeBuckets loop that writes the   *)
(* bucket rows and evicts idle buckets, and the lookups of reads.          *)
(*                                                                         *)
(* The size of a bucket is left out: isAlmostFull() holds from             *)
(* AlmostFullRecords records on, the byte limit works the same way.        *)
(***************************************************************************)
EXTENDS Cassandra

CONSTANTS
    AlmostFullRecords,  \* 70% of maxBucketRecords
    PromptCassandra     \* TRUE: Cassandra answers well within keepAliveSeconds

ASSUME BucketAssumption ==
    /\ AlmostFullRecords \in Nat \ {0}
    /\ PromptCassandra \in BOOLEAN

NoTime == -1                    \* minTimestamp is undefined

VARIABLES
    memory,         \* the StreamPartState's buckets: the ids in the heap, its root and
                    \* the Bucket objects
    minTimestamp,   \* the oldest timestamp that found no bucket
    check,          \* the progress of checkFullBucketsOnce
    storing,        \* the progress of storeBucketsOnce
    lastId,         \* the last bucket id handed out
    idDate          \* the date in the TimeUuid of a bucket: its dateCreate, for ever

bucketVars == <<memory, minTimestamp, check, storing, lastId, idDate>>

Bucket == [dateCreate : Time, records : Nat, stored : BOOLEAN, alive : BOOLEAN]
NothingFound == [id |-> NoBucket, dateCreate |-> NoTime, records |-> 0]
Row == [id : BucketId, dateCreate : Time, records : Nat] \cup {NothingFound}

CheckIdle == [step |-> "idle", minTimestamp |-> NoTime, insertNew |-> FALSE, found |-> NothingFound]
StoreIdle == [active |-> FALSE, sent |-> {}, records |-> [b \in BucketId |-> 0], ok |-> {}]

\* A Bucket that was never created; it is in no heap.
BlankBucket == [dateCreate |-> NoTime, records |-> 0, stored |-> FALSE, alive |-> FALSE]

Memory == [ids : SUBSET BucketId, latest : BucketId \cup {NoBucket},
           bucket : [BucketId -> Bucket \cup {BlankBucket}]]

\* The heap holds live Bucket objects only, and its root is one of them.
HeapOK(mem) ==
    /\ mem \in Memory
    /\ \A b \in mem.ids : mem.bucket[b] \in Bucket
    /\ IF mem.ids = {} THEN mem.latest = NoBucket ELSE mem.latest \in mem.ids

BucketTypeOK ==
    /\ HeapOK(memory)
    /\ minTimestamp \in Time \cup {NoTime}
    /\ check \in [step : {"readLast", "foundLast", "readAt", "foundAt"}, minTimestamp : Time,
                  insertNew : BOOLEAN, found : Row] \cup {CheckIdle}
    /\ storing \in [active : BOOLEAN, sent : SUBSET BucketId,
                    records : [BucketId -> Nat], ok : SUBSET BucketId]
    /\ storing.sent \cup storing.ok \subseteq memory.ids  \* none leaves during its UPDATE
    /\ lastId \in 0 .. MaxBuckets
    /\ idDate \in [BucketId -> Time \cup {NoTime}]

BucketInit ==
    /\ memory = [ids |-> {}, latest |-> NoBucket, bucket |-> [b \in BucketId |-> BlankBucket]]
    /\ minTimestamp = NoTime
    /\ check = CheckIdle
    /\ storing = StoreIdle
    /\ lastId = 0
    /\ idDate = [b \in BucketId |-> NoTime]

-----------------------------------------------------------------------------
(* The heap of buckets, newest first. A pushed bucket becomes the root only if *)
(* it is strictly newer than the root; when the root leaves, any of the newest *)
(* of the others may take its place (the order of toArray() is the library's). *)

NewBucket(date) == [dateCreate |-> date, records |-> 0, stored |-> FALSE, alive |-> TRUE]

Push(mem, id, bucket) ==
    [ids    |-> mem.ids \cup {id},
     latest |-> IF mem.latest = NoBucket \/ bucket.dateCreate > mem.bucket[mem.latest].dateCreate
                THEN id ELSE mem.latest,
     bucket |-> [mem.bucket EXCEPT ![id] = bucket]]

\* The Bucket object of id changes.
WithBucket(mem, id, bucket) ==
    [ids |-> mem.ids, latest |-> mem.latest, bucket |-> [mem.bucket EXCEPT ![id] = bucket]]

\* The ids that can be the root of a heap of ids whose root was latest.
Roots(ids, latest, bucket) ==
    IF latest \in ids THEN {latest}
    ELSE IF ids = {} THEN {NoBucket}
    ELSE {b \in ids : \A c \in ids : bucket[c].dateCreate <= bucket[b].dateCreate}

IsAlmostFull(bucket) == bucket.records >= AlmostFullRecords

\* findBucketId: the newest bucket if it is not almost full and not newer than the
\* message; for a message older than it, the first other bucket of the heap's array
\* that is not newer than the message (any such bucket), full or not.
FindBucketId(mem, timestamp) ==
    IF mem.latest = NoBucket THEN {}
    ELSE LET latest == mem.bucket[mem.latest] IN
         IF latest.dateCreate > timestamp
         THEN {b \in mem.ids \ {mem.latest} : mem.bucket[b].dateCreate <= timestamp}
         ELSE IF IsAlmostFull(latest) THEN {} ELSE {mem.latest}

-----------------------------------------------------------------------------
(* getBucketId and incrementBucket, called by Storage.store *)

Counted(bucket) ==
    [dateCreate |-> bucket.dateCreate, records |-> bucket.records + 1, stored |-> FALSE, alive |-> TRUE]

IncrementBucket(id) ==
    /\ memory' = WithBucket(memory, id, Counted(memory.bucket[id]))
    /\ UNCHANGED <<minTimestamp, check, storing, lastId, idDate>>

\* getBucketId finds none: remember the oldest timestamp that needs a bucket.
NoBucketFor(timestamp) ==
    /\ minTimestamp' = IF minTimestamp = NoTime \/ timestamp < minTimestamp
                       THEN timestamp ELSE minTimestamp
    /\ UNCHANGED <<memory, check, storing, lastId, idDate>>

-----------------------------------------------------------------------------
(* checkFullBucketsOnce: between the steps the pass awaits Cassandra. *)

\* The pass starts. With no bucket, or an almost full one, it asks for the newest
\* row; otherwise, if no bucket in memory suits minTimestamp, for the row at it.
CheckStarts ==
    /\ check.step = "idle"
    /\ minTimestamp # NoTime
    /\ LET none == memory.latest = NoBucket
           full == ~none /\ IsAlmostFull(memory.bucket[memory.latest])
       IN  /\ none \/ full \/ FindBucketId(memory, minTimestamp) = {}
           /\ check' = [step         |-> IF none \/ full THEN "readLast" ELSE "readAt",
                        minTimestamp |-> minTimestamp,
                        insertNew    |-> full,
                        found        |-> NothingFound]
    /\ UNCHANGED <<memory, minTimestamp, storing, lastId, idDate>>

\* The dates getLastBuckets(streamId, partition, 1, timestamp) selects; a timestamp
\* of 0 is falsy and selects like no timestamp at all.
LastBucketDates(timestamp) ==
    IF timestamp \in {NoTime, 0} THEN NewestDate ELSE NewestDateUpTo(timestamp)

\* Cassandra answers the query; the pass resumes later.
CheckReads ==
    /\ check.step \in {"readLast", "readAt"}
    /\ LET dates == LastBucketDates(IF check.step = "readLast" THEN NoTime ELSE check.minTimestamp)
           row(t) == [id |-> bucketTable[t].id, dateCreate |-> t, records |-> bucketTable[t].records]
       IN  check' = [step         |-> IF check.step = "readLast" THEN "foundLast" ELSE "foundAt",
                     minTimestamp |-> check.minTimestamp,
                     insertNew    |-> check.insertNew,
                     found        |-> IF dates = {} THEN NothingFound
                                      ELSE row(CHOOSE t \in dates : TRUE)]
    /\ UNCHANGED <<memory, minTimestamp, storing, lastId, idDate>>

\* The query fails: the pass is abandoned until the next timer.
CheckFails ==
    /\ check.step \in {"readLast", "readAt"}
    /\ check' = CheckIdle
    /\ UNCHANGED <<memory, minTimestamp, storing, lastId, idDate>>

\* checkFoundBuckets: a row whose bucket is not in memory.
FoundForeign == check.found.id # NoBucket /\ check.found.id \notin memory.ids

LoadedBucket(row) ==
    [dateCreate |-> row.dateCreate, records |-> row.records, stored |-> FALSE, alive |-> TRUE]

\* Seeded fault: a second query that finds nothing creates no bucket.
CheckResumesUnanswered ==
    /\ check.step \in {"foundLast", "foundAt"}
    /\ LET loaded == IF FoundForeign
                     THEN Push(memory, check.found.id, LoadedBucket(check.found)) ELSE memory
           insert == check.insertNew \/ (check.step = "foundLast" /\ ~FoundForeign)
           again  == /\ check.step = "foundLast"
                     /\ ~insert
                     /\ FindBucketId(loaded, check.minTimestamp) = {}
       IN  /\ insert => lastId < MaxBuckets
           /\ memory' = IF insert
                        THEN Push(loaded, lastId + 1, NewBucket(check.minTimestamp)) ELSE loaded
           /\ lastId' = IF insert THEN lastId + 1 ELSE lastId
           /\ idDate' = IF insert THEN [idDate EXCEPT ![lastId + 1] = check.minTimestamp] ELSE idDate
           /\ minTimestamp' = NoTime
           /\ check' = IF again
                       THEN [step |-> "readAt", minTimestamp |-> check.minTimestamp,
                             insertNew |-> FALSE, found |-> NothingFound]
                       ELSE CheckIdle
    /\ UNCHANGED storing

\* The pass resumes with the answer: the bucket found is loaded unless it is in
\* memory already; an almost full newest bucket, or nothing to load, means a new
\* bucket dated minTimestamp (as it was when the pass started); otherwise the
\* first query may be followed by the second.
CheckResumes ==
    /\ check.step \in {"foundLast", "foundAt"}
    /\ LET loaded == IF FoundForeign
                     THEN Push(memory, check.found.id, LoadedBucket(check.found)) ELSE memory
           insert == check.insertNew \/ ~FoundForeign
           again  == /\ check.step = "foundLast"
                     /\ ~insert
                     /\ FindBucketId(loaded, check.minTimestamp) = {}
       IN  /\ insert => lastId < MaxBuckets
           /\ memory' = IF insert
                        THEN Push(loaded, lastId + 1, NewBucket(check.minTimestamp)) ELSE loaded
           /\ lastId' = IF insert THEN lastId + 1 ELSE lastId
           /\ idDate' = IF insert THEN [idDate EXCEPT ![lastId + 1] = check.minTimestamp] ELSE idDate
           /\ minTimestamp' = NoTime
           /\ check' = IF again
                       THEN [step |-> "readAt", minTimestamp |-> check.minTimestamp,
                             insertNew |-> FALSE, found |-> NothingFound]
                       ELSE CheckIdle
    /\ UNCHANGED storing

-----------------------------------------------------------------------------
(* storeBucketsOnce *)

Unstored == {b \in memory.ids : ~memory.bucket[b].stored}

\* keepAliveSeconds pass without a message for the bucket. If Cassandra is prompt, the
\* bucket was stored in that time and no pass of checkFullBuckets outlasts it.
KeepAliveExpires(id) ==
    /\ id \in memory.ids
    /\ memory.bucket[id].alive
    /\ PromptCassandra => memory.bucket[id].stored /\ check.step = "idle"
    /\ memory' = WithBucket(memory, id, [memory.bucket[id] EXCEPT !.alive = FALSE])
    /\ UNCHANGED <<minTimestamp, check, storing, lastId, idDate>>

\* An UPDATE is sent for every bucket changed since it was last stored (a pass with
\* nothing to store or to evict does nothing).
StoreStarts ==
    /\ ~storing.active
    /\ \E b \in memory.ids : ~memory.bucket[b].stored \/ ~memory.bucket[b].alive
    /\ storing' = [active  |-> TRUE,
                   sent    |-> Unstored,
                   records |-> [b \in BucketId |-> IF b \in Unstored THEN memory.bucket[b].records ELSE 0],
                   ok      |-> {}]
    /\ UNCHANGED <<memory, minTimestamp, check, lastId, idDate>>

\* UPDATE bucket SET records, id WHERE date_create: the row of that date, new or not.
WriteRow(id) ==
    bucketTable' = [bucketTable EXCEPT ![memory.bucket[id].dateCreate] =
                       [id |-> id, records |-> storing.records[id]]]

StoreSucceeds(id) ==
    /\ id \in storing.sent
    /\ WriteRow(id)
    /\ storing' = [active |-> TRUE, sent |-> storing.sent \ {id},
                   records |-> storing.records, ok |-> storing.ok \cup {id}]
    /\ UNCHANGED <<memory, minTimestamp, check, lastId, idDate>>

\* The UPDATE fails, applied or not: the bucket stays not stored.
StoreFails(id) ==
    /\ id \in storing.sent
    /\ WriteRow(id) \/ UNCHANGED bucketTable
    /\ storing' = [active |-> TRUE, sent |-> storing.sent \ {id},
                   records |-> storing.records, ok |-> storing.ok]
    /\ UNCHANGED <<memory, minTimestamp, check, lastId, idDate>>

\* setStored: the buckets whose UPDATE succeeded and that got no message meanwhile.
SetStored == {b \in storing.ok : memory.bucket[b].records = storing.records[b]}

\* Seeded fault: idle buckets are removed whether they are stored or not.
IdleUnstored == {b \in memory.ids : ~memory.bucket[b].alive}

\* removeBucket: those that are stored by now and no longer alive.
Idle == {b \in memory.ids : /\ memory.bucket[b].stored \/ b \in SetStored
                            /\ ~memory.bucket[b].alive}

Stored(bucket) ==
    [dateCreate |-> bucket.dateCreate, records |-> bucket.records, stored |-> TRUE, alive |-> bucket.alive]

Settled(id) ==
    IF id \in Idle THEN BlankBucket
    ELSE IF id \in SetStored THEN Stored(memory.bucket[id]) ELSE memory.bucket[id]

\* All UPDATEs are settled.
StoreFinishes ==
    /\ storing.active
    /\ storing.sent = {}
    /\ \E root \in Roots(memory.ids \ Idle, memory.latest, memory.bucket) :
          memory' = [ids    |-> memory.ids \ Idle,
                     latest |-> root,
                     bucket |-> [b \in BucketId |-> Settled(b)]]
    /\ storing' = StoreIdle
    /\ UNCHANGED <<minTimestamp, check, lastId, idDate>>

-----------------------------------------------------------------------------
\* getBucketsByTimestamp(from, to): the buckets dated within the range and the
\* newest one dated before it.
BucketsByTimestamp(from, to) ==
    {bucketTable[t].id : t \in NewestDateUpTo(from) \cup DatesWithin(from, to)}
=============================================================================
