-------------------------------- MODULE Storage --------------------------------
(***************************************************************************)
(* packages/node/src/plugins/storage/Storage.ts, for one stream part: the  *)
(* path of a message from store() to the tables, through the bucket        *)
(* manager and the batch manager, and the range reads.                     *)
(*                                                                         *)
(* store() looks for a bucket; a message without one waits in              *)
(* pendingStores and tries again, one with a bucket is counted in it at    *)
(* once and handed to the batch manager from setImmediate().               *)
(***************************************************************************)
EXTENDS BucketManager, BatchManager

CONSTANTS
    Lookback,       \* BUCKET_LOOKBACK_MS
    MaxDisorder,    \* how much older than the newest message a message may arrive
    MaxWait,        \* how much older than an arriving message one may still be waiting
    MaxCrashes      \* bound: the crashes of the node

ASSUME StorageAssumption ==
    /\ Lookback \in Nat
    /\ MaxDisorder \in Nat
    /\ MaxWait \in Nat
    /\ MaxCrashes \in Nat

VARIABLES
    arrived,        \* the messages store() was called with (history)
    pendingStores,  \* messages waiting for a bucket
    queued,         \* <<bucket, message>> between incrementBucket and batchManager.store
    crashes,        \* the crashes so far
    lostMessages,   \* messages the node held when it crashed (history)
    lostBuckets     \* buckets the node held that had no row when it crashed (history)

storageVars == <<arrived, pendingStores, queued, crashes, lostMessages, lostBuckets>>
vars == <<tables, failures, bucketVars, batchVars, storageVars>>

TypeOK ==
    /\ CassandraTypeOK
    /\ BucketTypeOK
    /\ BatchTypeOK
    /\ arrived \subseteq Message
    /\ pendingStores \subseteq Message
    /\ queued \subseteq BucketId \X Message
    /\ crashes \in 0 .. MaxCrashes
    /\ lostMessages \subseteq Message
    /\ lostBuckets \subseteq BucketId

Init ==
    /\ CassandraInit
    /\ BucketInit
    /\ BatchInit
    /\ arrived = {}
    /\ pendingStores = {}
    /\ queued = {}
    /\ crashes = 0
    /\ lostMessages = {}
    /\ lostBuckets = {}

-----------------------------------------------------------------------------
(* store() *)

\* A bucket is found: the message is counted in it and queued for its batch.
StoreInBucket(message, id) ==
    /\ id \in FindBucketId(memory, Timestamp[message])
    /\ IncrementBucket(id)
    /\ queued' = queued \cup {<<id, message>>}
    /\ pendingStores' = pendingStores \ {message}

\* None is found: the message waits, and checkFullBuckets learns its timestamp.
StoreLater(message) ==
    /\ FindBucketId(memory, Timestamp[message]) = {}
    /\ NoBucketFor(Timestamp[message])
    /\ pendingStores' = pendingStores \cup {message}
    /\ UNCHANGED queued

Store(message) ==
    /\ StoreLater(message) \/ \E id \in BucketId : StoreInBucket(message, id)
    /\ UNCHANGED <<tables, failures, batchVars, crashes, lostMessages, lostBuckets>>

\* A validated message of an assigned stream part.
MessageArrives(message) ==
    /\ message \notin arrived
    /\ \A m \in arrived : Timestamp[m] <= Timestamp[message] + MaxDisorder
    /\ \A m \in pendingStores : Timestamp[message] <= Timestamp[m] + MaxWait
    /\ arrived' = arrived \cup {message}
    /\ Store(message)

\* retriesIntervalMilliseconds have passed: store() is called again.
RetryStore(message) ==
    /\ message \in pendingStores
    /\ Store(message)
    /\ UNCHANGED arrived

\* The setImmediate callback.
StoreInBatch(id, message) ==
    /\ <<id, message>> \in queued
    /\ queued' = queued \ {<<id, message>>}
    /\ BatchStore(id, message)
    /\ UNCHANGED <<tables, failures, bucketVars, arrived, pendingStores,
                   crashes, lostMessages, lostBuckets>>

-----------------------------------------------------------------------------
(* The loops of the managers. *)

CheckFullBuckets ==
    /\ \/ (CheckStarts \/ CheckReads \/ CheckResumes) /\ UNCHANGED failures
       \/ CheckFails /\ RequestFails
    /\ UNCHANGED <<tables, batchVars, storageVars>>

StoreBuckets ==
    /\ \/ (StoreStarts \/ StoreFinishes) /\ UNCHANGED <<bucketTable, failures>>
       \/ \E id \in BucketId : StoreSucceeds(id) /\ UNCHANGED failures
       \/ \E id \in BucketId : StoreFails(id) /\ RequestFails
    /\ UNCHANGED <<streamData, batchVars, storageVars>>

Expire ==
    /\ \E id \in BucketId : KeepAliveExpires(id)
    /\ UNCHANGED <<tables, failures, batchVars, storageVars>>

Batches ==
    /\ \/ /\ \/ \E id \in BucketId : CloseTimeout(id)
             \/ \E batch \in pendingBatches : InsertStarts(batch)
          /\ UNCHANGED <<streamData, failures>>
       \/ \E batch \in pendingBatches : InsertSucceeds(batch) /\ UNCHANGED failures
       \/ \E batch \in pendingBatches : InsertFails(batch) /\ RequestFails
    /\ UNCHANGED <<bucketTable, bucketVars, storageVars>>

QueuedMessages == {q[2] : q \in queued}
OpenMessages == UNION {batches[b] : b \in BucketId}
PendingMessages == UNION {batch.records : batch \in pendingBatches}

\* The messages that are in the node and not yet in the tables.
InFlight == pendingStores \cup QueuedMessages \cup OpenMessages \cup PendingMessages

\* The process ends, by a crash or by close(), which flushes nothing, and starts
\* again: all that was only in memory is gone.
Crash ==
    /\ crashes < MaxCrashes
    /\ crashes' = crashes + 1
    /\ lostMessages' = lostMessages \cup InFlight
    /\ lostBuckets' = lostBuckets \cup {b \in memory.ids : bucketTable[memory.bucket[b].dateCreate].id # b}
    /\ pendingStores' = {}
    /\ queued' = {}
    /\ batches' = [b \in BucketId |-> {}]
    /\ pendingBatches' = {}
    /\ memory' = [ids |-> {}, latest |-> NoBucket, bucket |-> [b \in BucketId |-> BlankBucket]]
    /\ minTimestamp' = NoTime
    /\ check' = CheckIdle
    /\ storing' = StoreIdle
    /\ UNCHANGED <<tables, failures, lastId, idDate, acked, dropped, arrived>>

Next ==
    \/ \E message \in Message : MessageArrives(message) \/ RetryStore(message)
    \/ \E id \in BucketId, message \in Message : StoreInBatch(id, message)
    \/ CheckFullBuckets
    \/ StoreBuckets
    \/ Expire
    \/ Batches
    \/ Crash

Spec == Init /\ [][Next]_vars

-----------------------------------------------------------------------------
(* Reads *)

\* Seeded fault: only the buckets of the range are looked up.
FetchRangeWithoutLookback(from, to) ==
    {m \in Message : /\ from <= Timestamp[m]
                     /\ Timestamp[m] <= to
                     /\ \E b \in BucketsByTimestamp(from, to) : <<b, m>> \in streamData}

\* fetchRange(from, to), with no filter on sequence numbers or publishers.
FetchRange(from, to) ==
    {m \in Message : /\ from <= Timestamp[m]
                     /\ Timestamp[m] <= to
                     /\ \E b \in BucketsByTimestamp(from - Lookback, to) : <<b, m>> \in streamData}

-----------------------------------------------------------------------------
(* Fairness: the timers fire, and Cassandra answers. A bucket stays in memory for *)
(* keepAliveSeconds (60 s), longer than the intervals of the retries (0.5 s) and of *)
(* checkFullBuckets (1 s): neither loop misses the buckets in memory for ever.      *)

RetryWithBuckets(message) == memory.latest # NoBucket /\ RetryStore(message)
RetryFindsBucket(message) == RetryStore(message) /\ message \notin pendingStores'
CheckWithBuckets == memory.latest # NoBucket /\ check.step = "idle" /\ CheckFullBuckets

Fairness ==
    /\ \A m \in Message : /\ WF_vars(RetryStore(m))
                          /\ SF_vars(RetryWithBuckets(m))
                          /\ SF_vars(RetryFindsBucket(m))
    /\ SF_vars(CheckWithBuckets)
    /\ \A b \in BucketId, m \in Message : WF_vars(StoreInBatch(b, m))
    /\ WF_vars(CheckFullBuckets)
    /\ WF_vars(StoreBuckets)
    /\ WF_vars(Expire)
    /\ WF_vars(Batches)

FairSpec == Spec /\ Fairness

-----------------------------------------------------------------------------
(* Properties *)

\* A message is in one kind of place only.
PlacesAreDisjoint ==
    /\ arrived = InFlight \cup acked \cup dropped \cup lostMessages
    /\ pendingStores \cap (QueuedMessages \cup OpenMessages \cup PendingMessages) = {}
    /\ QueuedMessages \cap (OpenMessages \cup PendingMessages) = {}
    /\ OpenMessages \cap PendingMessages = {}
    /\ InFlight \cap (acked \cup dropped \cup lostMessages) = {}
    /\ acked \cap dropped = {}
    /\ lostMessages \cap (acked \cup dropped) = {}

\* A message is queued for one bucket only, and in one batch only.
NoneTwiceInAPlace ==
    /\ \A q, r \in queued : q[2] = r[2] => q = r
    /\ \A b, c \in BucketId : b # c => batches[b] \cap batches[c] = {}
    /\ \A p, q \in pendingBatches : p # q => p.records \cap q.records = {}

\* Every message given to store() is in exactly one place: waiting for a bucket, in
\* the setImmediate queue, in one open batch, in one locked batch, acknowledged,
\* dropped after the last retry, or lost in a crash. None disappears and none is
\* inserted twice, whatever the retries, lock timeouts and failures.
ExactlyOnePlace == PlacesAreDisjoint /\ NoneTwiceInAPlace

\* Two buckets were given the same date: they share one row of table bucket.
SharesDate(id) ==
    idDate[id] # NoTime /\ \E other \in BucketId \ {id} : idDate[other] = idDate[id]

\* The row of table bucket that leads reads to the bucket.
Indexed(id) == idDate[id] # NoTime /\ bucketTable[idDate[id]].id = id

\* A stored message can be reached: its bucket has its row, or is in memory and
\* will get it from storeBuckets. Eviction, reloading, failed and repeated UPDATEs
\* never lose the row; only a second bucket of the same millisecond, or a crash
\* before the first UPDATE, does. An acknowledged message is stored.
StoredIsReachable ==
    /\ \A m \in acked : \E b \in BucketId : <<b, m>> \in streamData
    /\ \A row \in streamData :
          \/ Indexed(row[1])
          \/ row[1] \in memory.ids /\ ~memory.bucket[row[1]].stored
          \/ SharesDate(row[1])
          \/ row[1] \in lostBuckets

\* A bucket marked stored has its very record count in its row, although messages
\* may be counted while the UPDATE is in progress; so eviction loses no count.
StoredRowIsCurrent ==
    \A b \in memory.ids :
        \/ ~memory.bucket[b].stored
        \/ SharesDate(b)
        \/ Indexed(b) /\ bucketTable[idDate[b]].records = memory.bucket[b].records

\* The reach of BUCKET_LOOKBACK_MS: a message that is less than Lookback newer than
\* its bucket is in the result of every range that contains it, once its bucket has
\* its row.
FoundWithinLookback ==
    \A row \in streamData : \A from \in Time :
        /\ Indexed(row[1])
        /\ from <= Timestamp[row[2]]
        /\ Timestamp[row[2]] - idDate[row[1]] < Lookback
        => row[2] \in FetchRange(from, Timestamp[row[2]])

\* What FoundWithinLookback rests on: a bucket keeps its date in memory, in its row
\* and in the answer of a query, and no message is older than the bucket it is put in.
DatesAgree ==
    /\ \A b \in memory.ids : b <= lastId /\ memory.bucket[b].dateCreate = idDate[b]
    /\ \A t \in Time : bucketTable[t].id # NoBucket =>
          bucketTable[t].id <= lastId /\ idDate[bucketTable[t].id] = t
    /\ check.found.id # NoBucket =>
          check.found.id <= lastId /\ idDate[check.found.id] = check.found.dateCreate

Placed(id, message) == id <= lastId /\ idDate[id] <= Timestamp[message]

PlacedByDate ==
    /\ \A row \in queued : Placed(row[1], row[2])
    /\ \A b \in BucketId : \A m \in batches[b] : Placed(b, m)
    /\ \A batch \in pendingBatches : \A m \in batch.records : Placed(batch.bucketId, m)
    /\ \A row \in streamData : Placed(row[1], row[2])

\* The inductive invariant.
PlacementInv == DatesAgree /\ PlacedByDate

\* Every stored message whose bucket has its row is in the result of every range
\* that contains it: "Reads must therefore also look in buckets that start up to
\* this much before the range" (BUCKET_LOOKBACK_MS) is all a read needs.
ReadsAreComplete ==
    \A row \in streamData : \A from \in Time :
        Indexed(row[1]) /\ from <= Timestamp[row[2]]
            => row[2] \in FetchRange(from, Timestamp[row[2]])

\* A message that arrived is in the end acknowledged and readable (its bucket has its
\* row), unless it was dropped or lost in a crash, or two buckets got the same date:
\* then the older, full one stays the root of the heap for as long as it is in memory.
EventuallyReadable ==
    \A m \in Message : m \in arrived ~>
        \/ m \in dropped \cup lostMessages
        \/ m \in acked /\ \E b \in BucketId : <<b, m>> \in streamData /\ Indexed(b)
        \/ \E b \in BucketId : SharesDate(b)

\* A message given to store() is neither lost nor doubled on its way through queue,
\* batches and table, and from the lookback on a read finds it where it was put.
KeptAndFound == ExactlyOnePlace /\ FoundWithinLookback

\* The rows of table bucket lead to the messages: a bucket marked as stored has its
\* count in its row, and no message in the table is left without a row, in spite of
\* failing updates, evictions and a crash.
RowsLeadToMessages == StoredRowIsCurrent /\ StoredIsReachable
=============================================================================
