------------------------------ MODULE BatchManager ------------------------------
(***************************************************************************)
(* packages/node/src/plugins/storage/BatchManager.ts and Batch.ts: the     *)
(* messages of a bucket are collected in an open batch, which is locked    *)
(* when full or after batchCloseTimeout and then inserted, with retries.   *)
(* As for buckets, the byte limit of a batch is left out.                  *)
(***************************************************************************)
EXTENDS Cassandra, FiniteSets

CONSTANTS
    BatchMaxRecordCount,
    BatchMaxRetries

ASSUME BatchAssumption ==
    /\ BatchMaxRecordCount \in Nat \ {0}
    /\ BatchMaxRetries \in Nat \ {0}

VARIABLES
    batches,            \* batches[b]: the messages of the open batch of bucket b, {} = no batch
    pendingBatches,     \* the locked batches: waiting for the timer of scheduleInsert
                        \* ("locked") or with the insert in progress ("pending")
    acked,              \* messages whose done callback was called: store() resolved
    dropped             \* messages of batches dropped after the last retry (history)

batchVars == <<batches, pendingBatches, acked, dropped>>

Batch == [bucketId : BucketId, records : SUBSET Message,
          retries : 0 .. BatchMaxRetries, state : {"locked", "pending"}]

BatchTypeOK ==
    /\ batches \in [BucketId -> SUBSET Message]
    /\ pendingBatches \subseteq Batch
    /\ acked \subseteq Message
    /\ dropped \subseteq Message

BatchInit ==
    /\ batches = [b \in BucketId |-> {}]
    /\ pendingBatches = {}
    /\ acked = {}
    /\ dropped = {}

-----------------------------------------------------------------------------
\* lock() and moveFullBatch(): the batch leaves batches, its insert is scheduled.
LockedBatch(id) ==
    [bucketId |-> id, records |-> batches[id], retries |-> 0, state |-> "locked"]

IsFull(batch) == Cardinality(batch) >= BatchMaxRecordCount

\* store(bucketId, record): a full batch is locked first, and a new one opened.
BatchStore(id, message) ==
    /\ IF IsFull(batches[id])
       THEN /\ pendingBatches' = pendingBatches \cup {LockedBatch(id)}
            /\ batches' = [batches EXCEPT ![id] = {message}]
       ELSE /\ batches' = [batches EXCEPT ![id] = @ \cup {message}]
            /\ UNCHANGED pendingBatches
    /\ UNCHANGED <<acked, dropped>>

\* Seeded fault: the locked batch is left in batches.
CloseTimeoutKeepsBatch(id) ==
    /\ batches[id] # {}
    /\ pendingBatches' = pendingBatches \cup {LockedBatch(id)}
    /\ UNCHANGED <<batches, acked, dropped>>

\* batchCloseTimeout has passed since the batch was opened.
CloseTimeout(id) ==
    /\ batches[id] # {}
    /\ pendingBatches' = pendingBatches \cup {LockedBatch(id)}
    /\ batches' = [batches EXCEPT ![id] = {}]
    /\ UNCHANGED <<acked, dropped>>

\* The timer of scheduleInsert(): one more try, the insert is sent.
InsertStarts(batch) ==
    /\ batch \in pendingBatches
    /\ batch.state = "locked"
    /\ pendingBatches' = (pendingBatches \ {batch})
          \cup {[bucketId |-> batch.bucketId, records |-> batch.records, state |-> "pending",
                 retries |-> IF batch.retries < BatchMaxRetries THEN batch.retries + 1
                             ELSE batch.retries]}
    /\ UNCHANGED <<batches, acked, dropped>>

WriteRecords(batch) ==
    streamData' = streamData \cup {<<batch.bucketId, m>> : m \in batch.records}

\* The insert succeeds: done(), clear(), delete.
InsertSucceeds(batch) ==
    /\ batch \in pendingBatches
    /\ batch.state = "pending"
    /\ WriteRecords(batch)
    /\ acked' = acked \cup batch.records
    /\ pendingBatches' = pendingBatches \ {batch}
    /\ UNCHANGED <<batches, dropped>>

\* The insert fails, applied or not: retried later, or dropped after the last retry,
\* in which case the done callbacks are never called.
InsertFails(batch) ==
    /\ batch \in pendingBatches
    /\ batch.state = "pending"
    /\ WriteRecords(batch) \/ UNCHANGED streamData
    /\ IF batch.retries = BatchMaxRetries
       THEN /\ pendingBatches' = pendingBatches \ {batch}
            /\ dropped' = dropped \cup batch.records
       ELSE /\ pendingBatches' = (pendingBatches \ {batch})
                  \cup {[batch EXCEPT !.state = "locked"]}
            /\ UNCHANGED dropped
    /\ UNCHANGED <<batches, acked>>
=============================================================================
