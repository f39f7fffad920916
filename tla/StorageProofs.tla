----------------------------- MODULE StorageProofs -----------------------------
(***************************************************************************)
(* Proofs about Storage: the write path of a stream part, for any messages *)
(* and timestamps, any limits and any number of failures and crashes.      *)
(***************************************************************************)
EXTENDS Storage, TLAPS

-----------------------------------------------------------------------------
(* Type correctness *)

\* Timestamps are natural numbers, so NoTime is none of them.
LEMMA TimeType == Time \subseteq Nat /\ \A m \in Message : Timestamp[m] \in Time
BY TimestampAssumption DEF Time

\* Pushing a bucket keeps the heap well formed (BucketManager's Heap.push).
LEMMA PushType ==
    ASSUME NEW mem, HeapOK(mem), NEW id \in BucketId, NEW bucket \in Bucket
    PROVE  HeapOK(Push(mem, id, bucket))
<1> DEFINE new == Push(mem, id, bucket)
<1>1. /\ new.ids = mem.ids \cup {id}
      /\ new.latest \in {id, mem.latest}
      /\ mem.latest = NoBucket => new.latest = id
      /\ new.bucket = [mem.bucket EXCEPT ![id] = bucket]
  BY DEF Push
<1>2. new \in Memory
  BY DEF Push, HeapOK, Memory
<1>3. \A b \in new.ids : new.bucket[b] \in Bucket
  BY <1>1 DEF HeapOK, Memory
<1>4. new.latest \in new.ids
  BY <1>1 DEF HeapOK
<1>5. QED
  BY <1>1, <1>2, <1>3, <1>4 DEF HeapOK

\* Changing one Bucket object of the heap keeps it well formed.
LEMMA WithBucketType ==
    ASSUME NEW mem, HeapOK(mem), NEW id \in mem.ids, NEW bucket \in Bucket
    PROVE  HeapOK(WithBucket(mem, id, bucket))
BY DEF WithBucket, HeapOK, Memory

\* Counting a message keeps the types (incrementBucket).
LEMMA IncrementType ==
    ASSUME BucketTypeOK, NEW id \in memory.ids, IncrementBucket(id)
    PROVE  BucketTypeOK'
<1> USE DEF BucketTypeOK
<1>1. Counted(memory.bucket[id]) \in Bucket
  BY DEF HeapOK, Memory, Bucket, Counted
<1>2. HeapOK(memory')
  BY <1>1, WithBucketType DEF IncrementBucket
<1>3. QED
  BY <1>2 DEF IncrementBucket, WithBucket

\* findBucketId returns buckets in memory that are not newer than the message.
LEMMA FindBucketIdType ==
    ASSUME NEW mem, HeapOK(mem), NEW timestamp \in Nat, NEW id \in FindBucketId(mem, timestamp)
    PROVE  id \in mem.ids /\ mem.bucket[id].dateCreate <= timestamp
<1>1. mem.latest # NoBucket => mem.latest \in mem.ids /\ mem.bucket[mem.latest].dateCreate \in Nat
  BY TimeType DEF HeapOK, Bucket
<1>2. QED
  BY <1>1 DEF FindBucketId

\* Loading the bucket of a row keeps the heap well formed (checkFoundBuckets).
LEMMA LoadedHeap ==
    ASSUME BucketTypeOK, check.step \in {"foundLast", "foundAt"}, FoundForeign
    PROVE  /\ check.found.id \in BucketId
           /\ HeapOK(Push(memory, check.found.id, LoadedBucket(check.found)))
<1>1. check.found \in Row
  BY DEF BucketTypeOK, CheckIdle
<1>2. check.found.id \in BucketId /\ LoadedBucket(check.found) \in Bucket
  BY <1>1 DEF FoundForeign, Row, NothingFound, LoadedBucket, Bucket
<1>3. QED
  BY <1>2, PushType DEF BucketTypeOK

\* The steps of checkFullBucketsOnce keep the types.
LEMMA CheckType ==
    ASSUME CassandraTypeOK, BucketTypeOK,
           CheckStarts \/ CheckReads \/ CheckFails \/ CheckResumes
    PROVE  BucketTypeOK'
<1> USE DEF BucketTypeOK
<1>1. NothingFound \in Row
  BY DEF NothingFound, Row
<1>2. CASE CheckStarts
  BY <1>1, <1>2 DEF CheckStarts
<1>3. CASE CheckReads
  <2>1. \A t \in LastBucketDates(check.minTimestamp) \cup LastBucketDates(NoTime) :
           [id |-> bucketTable[t].id, dateCreate |-> t, records |-> bucketTable[t].records] \in Row
    BY DEF LastBucketDates, NewestDate, NewestDateUpTo, Row, CassandraTypeOK
  <2>2. check.minTimestamp \in Time /\ check.insertNew \in BOOLEAN
    BY <1>3 DEF CheckReads, CheckIdle
  <2>3. check' \in [step : {"readLast", "foundLast", "readAt", "foundAt"}, minTimestamp : Time,
                    insertNew : BOOLEAN, found : Row]
    BY <1>1, <1>3, <2>1, <2>2 DEF CheckReads
  <2>4. QED
    BY <1>3, <2>3 DEF CheckReads
<1>4. CASE CheckFails
  BY <1>4 DEF CheckFails
<1>5. CASE CheckResumes
  <2> DEFINE loaded == IF FoundForeign
                       THEN Push(memory, check.found.id, LoadedBucket(check.found)) ELSE memory
             insert == check.insertNew \/ ~FoundForeign
  <2>1. check.minTimestamp \in Time /\ check.insertNew \in BOOLEAN /\ check.found \in Row
    BY <1>5 DEF CheckResumes, CheckIdle
  <2>2. HeapOK(loaded) /\ memory.ids \subseteq loaded.ids
    <3>1. CASE FoundForeign
      <4>1. HeapOK(Push(memory, check.found.id, LoadedBucket(check.found)))
        BY <1>5, <3>1, LoadedHeap DEF CheckResumes
      <4>2. memory.ids \subseteq Push(memory, check.found.id, LoadedBucket(check.found)).ids
        BY DEF Push
      <4>3. QED
        BY <3>1, <4>1, <4>2
    <3>2. CASE ~FoundForeign
      BY <3>2
    <3>3. QED
      BY <3>1, <3>2
  <2>3. insert => lastId + 1 \in BucketId
    BY <1>5, MaxBucketsAssumption DEF CheckResumes, BucketId
  <2>4. insert => /\ HeapOK(Push(loaded, lastId + 1, NewBucket(check.minTimestamp)))
                  /\ memory.ids \subseteq Push(loaded, lastId + 1, NewBucket(check.minTimestamp)).ids
    <3>1. NewBucket(check.minTimestamp) \in Bucket
      BY <2>1 DEF NewBucket, Bucket
    <3>2. insert => HeapOK(Push(loaded, lastId + 1, NewBucket(check.minTimestamp)))
      BY <2>2, <2>3, <3>1, PushType
    <3>3. memory.ids \subseteq Push(loaded, lastId + 1, NewBucket(check.minTimestamp)).ids
      BY <2>2 DEF Push
    <3>4. QED
      BY <3>2, <3>3
  <2>5. memory' = IF insert
                  THEN Push(loaded, lastId + 1, NewBucket(check.minTimestamp)) ELSE loaded
    BY <1>5 DEF CheckResumes
  <2>6. HeapOK(memory') /\ memory.ids \subseteq memory'.ids
    BY <2>2, <2>4, <2>5
  <2>7. /\ lastId' \in 0 .. MaxBuckets
        /\ idDate' \in [BucketId -> Time \cup {NoTime}]
        /\ minTimestamp' = NoTime
        /\ storing' = storing
    BY <1>5, <2>1, <2>3, MaxBucketsAssumption DEF CheckResumes, BucketId
  <2>8. check' \in [step : {"readLast", "foundLast", "readAt", "foundAt"}, minTimestamp : Time,
                    insertNew : BOOLEAN, found : Row] \cup {CheckIdle}
    BY <1>1, <1>5, <2>1 DEF CheckResumes
  <2>9. QED
    BY <2>6, <2>7, <2>8
<1>6. QED
  BY <1>2, <1>3, <1>4, <1>5

\* The steps of storeBucketsOnce keep the types.
LEMMA StoreType ==
    ASSUME CassandraTypeOK, BucketTypeOK,
           \/ (StoreStarts \/ StoreFinishes) /\ UNCHANGED bucketTable
           \/ \E id \in BucketId : StoreSucceeds(id) \/ StoreFails(id)
    PROVE  /\ bucketTable' \in [Time -> [id : BucketId \cup {NoBucket}, records : Nat]]
           /\ BucketTypeOK'
<1> DEFINE TableRow == [id : BucketId \cup {NoBucket}, records : Nat]
           Storing == [active : BOOLEAN, sent : SUBSET BucketId,
                       records : [BucketId -> Nat], ok : SUBSET BucketId]
<1> USE DEF BucketTypeOK
<1>1. CASE StoreStarts /\ UNCHANGED bucketTable
  <2>1. Unstored \subseteq memory.ids /\ Unstored \subseteq BucketId
    BY DEF Unstored, HeapOK, Memory
  <2>2. \A b \in BucketId : memory.bucket[b].records \in Nat
    BY DEF HeapOK, Memory, Bucket, BlankBucket
  <2>3. QED
    BY <1>1, <2>1, <2>2 DEF StoreStarts, CassandraTypeOK
<1>2. CASE StoreFinishes /\ UNCHANGED bucketTable
  <2> DEFINE kept == memory.ids \ Idle
  <2>1. /\ memory'.ids = kept
        /\ memory'.latest \in Roots(kept, memory.latest, memory.bucket)
        /\ memory' = [ids |-> memory'.ids, latest |-> memory'.latest, bucket |-> memory'.bucket]
        /\ memory'.bucket = [b \in BucketId |-> Settled(b)]
    BY <1>2 DEF StoreFinishes
  <2>2. SetStored \subseteq memory.ids
    BY DEF SetStored
  <2>3. \A b \in memory.ids : memory.bucket[b] \in Bucket /\ Stored(memory.bucket[b]) \in Bucket
    BY DEF HeapOK, Memory, Bucket, Stored
  <2>4. /\ \A b \in BucketId : Settled(b) \in Bucket \cup {BlankBucket}
        /\ \A b \in kept : Settled(b) \in Bucket /\ b \in BucketId
    BY <2>2, <2>3 DEF HeapOK, Memory, Settled
  <2>5. IF kept = {} THEN memory'.latest = NoBucket ELSE memory'.latest \in kept
    BY <2>1 DEF Roots
  <2>6. HeapOK(memory')
    BY <2>1, <2>4, <2>5 DEF HeapOK, Memory
  <2>7. storing' = StoreIdle
    BY <1>2 DEF StoreFinishes
  <2>8. QED
    BY <1>2, <2>6, <2>7 DEF StoreFinishes, StoreIdle, CassandraTypeOK
<1>3. ASSUME NEW id \in BucketId, StoreSucceeds(id) \/ StoreFails(id)
      PROVE  bucketTable' \in [Time -> TableRow] /\ BucketTypeOK'
  <2> DEFINE row == [id |-> id, records |-> storing.records[id]]
  <2>1. row \in TableRow
    OBVIOUS
  <2>2. bucketTable' \in [Time -> TableRow]
    <3>1. bucketTable \in [Time -> TableRow]
      BY DEF CassandraTypeOK
    <3>2. \/ bucketTable' = [bucketTable EXCEPT ![memory.bucket[id].dateCreate] = row]
          \/ bucketTable' = bucketTable
      BY <1>3 DEF StoreSucceeds, StoreFails, WriteRow
    <3> HIDE DEF row, TableRow
    <3>3. QED
      BY <2>1, <3>1, <3>2
  <2>3. storing \in Storing /\ storing.sent \cup storing.ok \subseteq memory.ids
    OBVIOUS
  <2>4. storing' \in Storing /\ storing'.sent \cup storing'.ok \subseteq memory.ids
    <3>1. /\ storing'.sent = storing.sent \ {id} /\ storing'.ok \subseteq storing.ok \cup {id}
          /\ storing'.records = storing.records /\ storing'.active = TRUE
          /\ storing' = [active |-> storing'.active, sent |-> storing'.sent,
                         records |-> storing'.records, ok |-> storing'.ok]
          /\ id \in storing.sent
      BY <1>3 DEF StoreSucceeds, StoreFails
    <3> HIDE DEF BucketTypeOK
    <3>2. QED
      BY <2>3, <3>1
  <2>5. QED
    BY <1>3, <2>2, <2>4 DEF StoreSucceeds, StoreFails
<1>4. QED
  BY <1>1, <1>2, <1>3

\* A locked batch is a batch, and so is one with its insert in progress.
LEMMA BatchesType ==
    ASSUME CassandraTypeOK, BatchTypeOK,
           \/ \E id \in BucketId : CloseTimeout(id)
           \/ \E batch \in pendingBatches : \/ InsertStarts(batch)
                                            \/ InsertSucceeds(batch)
                                            \/ InsertFails(batch)
    PROVE  BatchTypeOK'
<1> USE DEF BatchTypeOK
<1>1. ASSUME NEW id \in BucketId, CloseTimeout(id)
      PROVE  BatchTypeOK'
  <2>1. LockedBatch(id) \in Batch
    BY BatchAssumption DEF LockedBatch, Batch
  <2>2. QED
    BY <1>1, <2>1 DEF CloseTimeout
<1>2. ASSUME NEW batch \in pendingBatches, InsertStarts(batch)
      PROVE  BatchTypeOK'
  <2>1. [bucketId |-> batch.bucketId, records |-> batch.records, state |-> "pending",
         retries |-> IF batch.retries < BatchMaxRetries THEN batch.retries + 1
                     ELSE batch.retries] \in Batch
    BY BatchAssumption DEF Batch
  <2>2. QED
    BY <1>2, <2>1 DEF InsertStarts
<1>3. ASSUME NEW batch \in pendingBatches, InsertSucceeds(batch)
      PROVE  BatchTypeOK'
  <2>1. batch.records \subseteq Message
    BY DEF Batch
  <2>2. QED
    BY <1>3, <2>1 DEF InsertSucceeds
<1>4. ASSUME NEW batch \in pendingBatches, InsertFails(batch)
      PROVE  BatchTypeOK'
  <2>1. batch.records \subseteq Message /\ [batch EXCEPT !.state = "locked"] \in Batch
    BY DEF Batch
  <2>2. QED
    BY <1>4, <2>1 DEF InsertFails
<1>5. QED
  BY <1>1, <1>2, <1>3, <1>4

\* The rows an insert writes are rows of stream_data.
LEMMA InsertType ==
    ASSUME CassandraTypeOK, BatchTypeOK, NEW batch \in pendingBatches,
           WriteRecords(batch) \/ UNCHANGED streamData
    PROVE  streamData' \subseteq BucketId \X Message
<1>1. batch.bucketId \in BucketId /\ batch.records \subseteq Message
  BY DEF BatchTypeOK, Batch
<1>2. QED
  BY <1>1 DEF WriteRecords, CassandraTypeOK

\* Type correctness of the write path, with a heap whose root is always one of its
\* buckets, through pushes, evictions, failures and crashes.
THEOREM TypeCorrect == Spec => []TypeOK
<1>1. Init => TypeOK
  <2> SUFFICES ASSUME Init PROVE TypeOK
    OBVIOUS
  <2>1. CassandraTypeOK
    BY MaxFailuresAssumption DEF Init, CassandraInit, CassandraTypeOK, NoRow
  <2>2. BucketTypeOK
    BY MaxBucketsAssumption DEF Init, BucketInit, BucketTypeOK, HeapOK, Memory, StoreIdle
  <2>3. BatchTypeOK
    BY DEF Init, BatchInit, BatchTypeOK
  <2>4. QED
    BY <2>1, <2>2, <2>3, StorageAssumption DEF Init, TypeOK
<1>2. TypeOK /\ [Next]_vars => TypeOK'
  <2> SUFFICES ASSUME TypeOK, [Next]_vars PROVE TypeOK'
    OBVIOUS
  <2> USE DEF TypeOK
  <2>1. ASSUME NEW message \in Message, Store(message)
        PROVE  /\ CassandraTypeOK' /\ BucketTypeOK' /\ BatchTypeOK'
               /\ pendingStores' \subseteq Message
               /\ queued' \subseteq BucketId \X Message
               /\ UNCHANGED <<crashes, lostMessages, lostBuckets>>
    <3>1. CassandraTypeOK' /\ BatchTypeOK' /\ UNCHANGED <<crashes, lostMessages, lostBuckets>>
      BY <2>1 DEF Store, CassandraTypeOK, BatchTypeOK, tables, batchVars
    <3>2. ASSUME NEW id \in BucketId, StoreInBucket(message, id)
          PROVE  /\ BucketTypeOK' /\ pendingStores' \subseteq Message
                 /\ queued' \subseteq BucketId \X Message
      <4>1. id \in memory.ids
        BY <3>2, TimestampAssumption, FindBucketIdType DEF StoreInBucket, BucketTypeOK
      <4>2. QED
        BY <3>2, <4>1, IncrementType DEF StoreInBucket
    <3>3. ASSUME StoreLater(message)
          PROVE  /\ BucketTypeOK' /\ pendingStores' \subseteq Message
                 /\ queued' \subseteq BucketId \X Message
      BY <3>3, TimeType DEF StoreLater, NoBucketFor, BucketTypeOK
    <3>4. QED
      BY <2>1, <3>1, <3>2, <3>3 DEF Store
  <2>2. ASSUME NEW message \in Message, MessageArrives(message) \/ RetryStore(message)
        PROVE  TypeOK'
    BY <2>1, <2>2 DEF MessageArrives, RetryStore
  <2>3. ASSUME NEW id \in BucketId, NEW message \in Message, StoreInBatch(id, message)
        PROVE  TypeOK'
    <3>1. BatchTypeOK'
      <4>1. LockedBatch(id) \in Batch
        BY BatchAssumption DEF LockedBatch, Batch, BatchTypeOK
      <4>2. QED
        BY <2>3, <4>1 DEF StoreInBatch, BatchStore, BatchTypeOK
    <3>2. QED
      BY <2>3, <3>1 DEF StoreInBatch, CassandraTypeOK, BucketTypeOK, tables, bucketVars
  <2>4. CASE CheckFullBuckets
    <3>1. BucketTypeOK'
      BY <2>4, CheckType DEF CheckFullBuckets
    <3>2. CassandraTypeOK' /\ BatchTypeOK'
      BY <2>4, MaxFailuresAssumption
         DEF CheckFullBuckets, RequestFails, CassandraTypeOK, BatchTypeOK, tables, batchVars
    <3>3. QED
      BY <2>4, <3>1, <3>2 DEF CheckFullBuckets, storageVars
  <2>5. CASE StoreBuckets
    <3>1. /\ bucketTable' \in [Time -> [id : BucketId \cup {NoBucket}, records : Nat]]
          /\ BucketTypeOK'
      BY <2>5, StoreType DEF StoreBuckets
    <3>2. CassandraTypeOK'
      BY <2>5, <3>1, MaxFailuresAssumption DEF StoreBuckets, RequestFails, CassandraTypeOK
    <3>3. QED
      BY <2>5, <3>1, <3>2 DEF StoreBuckets, BatchTypeOK, batchVars, storageVars
  <2>6. CASE Expire
    <3>1. PICK id \in BucketId : KeepAliveExpires(id)
      BY <2>6 DEF Expire
    <3>2. [memory.bucket[id] EXCEPT !.alive = FALSE] \in Bucket
      BY <3>1 DEF KeepAliveExpires, BucketTypeOK, HeapOK, Bucket
    <3>3. HeapOK(memory') /\ memory'.ids = memory.ids
      BY <3>1, <3>2, WithBucketType DEF KeepAliveExpires, BucketTypeOK, WithBucket
    <3>4. BucketTypeOK'
      BY <3>1, <3>3 DEF KeepAliveExpires, BucketTypeOK
    <3>5. QED
      BY <2>6, <3>4 DEF Expire, CassandraTypeOK, BatchTypeOK, tables, batchVars, storageVars
  <2>7. CASE Batches
    <3>1. BatchTypeOK'
      BY <2>7, BatchesType DEF Batches
    <3>2. streamData' \subseteq BucketId \X Message
      BY <2>7, InsertType DEF Batches, InsertSucceeds, InsertFails, CassandraTypeOK
    <3>3. CassandraTypeOK'
      BY <2>7, <3>2, MaxFailuresAssumption DEF Batches, RequestFails, CassandraTypeOK
    <3>4. QED
      BY <2>7, <3>1, <3>3 DEF Batches, BucketTypeOK, bucketVars, storageVars
  <2>8. CASE Crash
    <3>1. CassandraTypeOK'
      BY <2>8 DEF Crash, CassandraTypeOK, tables
    <3>2. BucketTypeOK'
      BY <2>8 DEF Crash, BucketTypeOK, HeapOK, Memory, StoreIdle
    <3>3. BatchTypeOK'
      BY <2>8 DEF Crash, BatchTypeOK
    <3>4. InFlight \subseteq Message
      <4>1. QueuedMessages \subseteq Message
        BY DEF QueuedMessages
      <4>2. OpenMessages \subseteq Message
        BY DEF BatchTypeOK, OpenMessages
      <4>3. \A batch \in pendingBatches : batch.records \subseteq Message
        BY DEF BatchTypeOK, Batch
      <4>4. PendingMessages \subseteq Message
        BY <4>3 DEF PendingMessages
      <4>5. QED
        BY <4>1, <4>2, <4>4 DEF InFlight
    <3>5. memory.ids \subseteq BucketId
      BY DEF BucketTypeOK, HeapOK, Memory
    <3>6. QED
      BY <2>8, <3>1, <3>2, <3>3, <3>4, <3>5, StorageAssumption DEF Crash
  <2>9. CASE UNCHANGED vars
    BY <2>9 DEF vars, tables, bucketVars, batchVars, storageVars, CassandraTypeOK, BucketTypeOK,
       BatchTypeOK
  <2>10. QED
    BY <2>2, <2>3, <2>4, <2>5, <2>6, <2>7, <2>8, <2>9 DEF Next
<1>3. QED
  BY <1>1, <1>2, PTL DEF Spec

-----------------------------------------------------------------------------
(* Every message is in exactly one place *)

\* store() puts a message that is queued nowhere into the queue.
LEMMA QueueGains ==
    ASSUME NEW id, NEW message, queued' = queued \cup {<<id, message>>},
           message \notin QueuedMessages, \A q, r \in queued : q[2] = r[2] => q = r
    PROVE  /\ QueuedMessages' = QueuedMessages \cup {message}
           /\ (\A q, r \in queued : q[2] = r[2] => q = r)'
<1>1. <<id, message>>[2] = message
  OBVIOUS
<1>2. QueuedMessages' = QueuedMessages \cup {message}
  BY <1>1 DEF QueuedMessages
<1>3. \A q \in queued : q[2] # message
  BY DEF QueuedMessages
<1>4. QED
  BY <1>1, <1>2, <1>3

\* The setImmediate callback takes a message out of the queue for good.
LEMMA QueueLoses ==
    ASSUME NEW id, NEW message, <<id, message>> \in queued, queued' = queued \ {<<id, message>>},
           \A q, r \in queued : q[2] = r[2] => q = r
    PROVE  /\ QueuedMessages' = QueuedMessages \ {message}
           /\ message \in QueuedMessages
           /\ (\A q, r \in queued : q[2] = r[2] => q = r)'
BY DEF QueuedMessages

\* The messages of the open batches when that of one bucket changes.
LEMMA OpenChanges ==
    ASSUME BatchTypeOK, NEW id \in BucketId, NEW new,
           batches' = [batches EXCEPT ![id] = new],
           \A b, c \in BucketId : b # c => batches[b] \cap batches[c] = {},
           \A b \in BucketId \ {id} : batches[b] \cap new = {}
    PROVE  /\ OpenMessages' = (OpenMessages \ batches[id]) \cup new
           /\ batches[id] \subseteq OpenMessages
           /\ (\A b, c \in BucketId : b # c => batches[b] \cap batches[c] = {})'
<1>1. \A b \in BucketId : batches'[b] = IF b = id THEN new ELSE batches[b]
  BY DEF BatchTypeOK
<1>2. \A m : m \in OpenMessages <=> \E b \in BucketId : m \in batches[b]
  BY DEF OpenMessages
<1>3. \A m : m \in OpenMessages' <=> \E b \in BucketId : m \in batches'[b]
  BY DEF OpenMessages
<1>4. \A m : m \in OpenMessages' <=> m \in (OpenMessages \ batches[id]) \cup new
  BY <1>1, <1>2, <1>3
<1>5. QED
  BY <1>1, <1>2, <1>4

\* The messages of the locked batches when one is added.
LEMMA PendingGains ==
    ASSUME NEW batch, pendingBatches' = pendingBatches \cup {batch},
           batch.records \cap PendingMessages = {},
           \A p, q \in pendingBatches : p # q => p.records \cap q.records = {}
    PROVE  /\ PendingMessages' = PendingMessages \cup batch.records
           /\ (\A p, q \in pendingBatches : p # q => p.records \cap q.records = {})'
BY DEF PendingMessages

\* The messages of the locked batches when one leaves.
LEMMA PendingLoses ==
    ASSUME NEW batch \in pendingBatches, pendingBatches' = pendingBatches \ {batch},
           \A p, q \in pendingBatches : p # q => p.records \cap q.records = {}
    PROVE  /\ PendingMessages' = PendingMessages \ batch.records
           /\ batch.records \subseteq PendingMessages
           /\ (\A p, q \in pendingBatches : p # q => p.records \cap q.records = {})'
BY DEF PendingMessages

\* The messages of the locked batches when one changes its state.
LEMMA PendingKeeps ==
    ASSUME NEW batch \in pendingBatches, NEW new, new.records = batch.records,
           pendingBatches' = (pendingBatches \ {batch}) \cup {new},
           \A p, q \in pendingBatches : p # q => p.records \cap q.records = {}
    PROVE  /\ PendingMessages' = PendingMessages
           /\ (\A p, q \in pendingBatches : p # q => p.records \cap q.records = {})'
BY DEF PendingMessages

\* What store() does to the places of a message that is waiting or new.
LEMMA StoreKeepsOnePlace ==
    ASSUME TypeOK, ExactlyOnePlace, NEW message \in Message, Store(message),
           \/ message \notin arrived /\ arrived' = arrived \cup {message}
           \/ message \in pendingStores /\ arrived' = arrived
    PROVE  ExactlyOnePlace'
<1> USE DEF ExactlyOnePlace, PlacesAreDisjoint, InFlight
<1>1. /\ OpenMessages' = OpenMessages /\ PendingMessages' = PendingMessages
      /\ UNCHANGED <<batches, pendingBatches, acked, dropped, lostMessages>>
  BY DEF Store, batchVars, OpenMessages, PendingMessages
<1>2. message \notin QueuedMessages \cup OpenMessages \cup PendingMessages \cup acked
                    \cup dropped \cup lostMessages
  OBVIOUS
<1>3. CASE StoreLater(message)
  <2>1. queued' = queued /\ QueuedMessages' = QueuedMessages
    BY <1>3 DEF StoreLater, QueuedMessages
  <2>2. NoneTwiceInAPlace'
    BY <1>1, <2>1 DEF NoneTwiceInAPlace
  <2>3. pendingStores' = pendingStores \cup {message}
    BY <1>3 DEF StoreLater
  <2>4. QED
    BY <1>1, <1>2, <2>1, <2>2, <2>3
<1>4. ASSUME NEW id \in BucketId, StoreInBucket(message, id)
      PROVE  ExactlyOnePlace'
  <2>1. /\ queued' = queued \cup {<<id, message>>}
        /\ pendingStores' = pendingStores \ {message}
    BY <1>4 DEF StoreInBucket
  <2>2. /\ QueuedMessages' = QueuedMessages \cup {message}
        /\ (\A q, r \in queued : q[2] = r[2] => q = r)'
    BY <1>2, <2>1, QueueGains DEF NoneTwiceInAPlace
  <2>3. NoneTwiceInAPlace'
    BY <1>1, <2>2 DEF NoneTwiceInAPlace
  <2>4. QED
    BY <1>1, <1>2, <2>1, <2>2, <2>3
<1>5. QED
  BY <1>3, <1>4 DEF Store

\* A message goes from the queue to its batch, which may push a full one on.
LEMMA StoreInBatchKeepsOnePlace ==
    ASSUME TypeOK, ExactlyOnePlace, NEW id \in BucketId, NEW message \in Message,
           StoreInBatch(id, message)
    PROVE  ExactlyOnePlace'
<1> USE DEF ExactlyOnePlace, PlacesAreDisjoint, InFlight
<1>1. UNCHANGED <<arrived, pendingStores, acked, dropped, lostMessages>>
  BY DEF StoreInBatch, BatchStore
<1>2. /\ QueuedMessages' = QueuedMessages \ {message}
      /\ message \in QueuedMessages
      /\ (\A q, r \in queued : q[2] = r[2] => q = r)'
  BY QueueLoses DEF StoreInBatch, NoneTwiceInAPlace
<1>3. BatchTypeOK /\ \A b \in BucketId : message \notin batches[b]
  BY <1>2 DEF TypeOK, OpenMessages
<1>4. CASE IsFull(batches[id])
  <2>1. /\ pendingBatches' = pendingBatches \cup {LockedBatch(id)}
        /\ batches' = [batches EXCEPT ![id] = {message}]
    BY <1>4 DEF StoreInBatch, BatchStore
  <2>2. /\ OpenMessages' = (OpenMessages \ batches[id]) \cup {message}
        /\ batches[id] \subseteq OpenMessages
        /\ (\A b, c \in BucketId : b # c => batches[b] \cap batches[c] = {})'
    <3>1. \A b \in BucketId \ {id} : batches[b] \cap {message} = {}
      BY <1>3
    <3>2. \A b, c \in BucketId : b # c => batches[b] \cap batches[c] = {}
      BY DEF NoneTwiceInAPlace
    <3> HIDE DEF ExactlyOnePlace, PlacesAreDisjoint, InFlight
    <3>3. QED
      BY <1>3, <2>1, <3>1, <3>2, OpenChanges
  <2>3. LockedBatch(id).records = batches[id]
    BY DEF LockedBatch
  <2>4. /\ PendingMessages' = PendingMessages \cup batches[id]
        /\ (\A p, q \in pendingBatches : p # q => p.records \cap q.records = {})'
    BY <2>1, <2>2, <2>3, PendingGains DEF NoneTwiceInAPlace
  <2>5. NoneTwiceInAPlace'
    BY <1>2, <2>2, <2>4 DEF NoneTwiceInAPlace
  <2>6. QED
    BY <1>1, <1>2, <2>2, <2>4, <2>5
<1>5. CASE ~IsFull(batches[id])
  <2>1. /\ pendingBatches' = pendingBatches
        /\ batches' = [batches EXCEPT ![id] = batches[id] \cup {message}]
    BY <1>5 DEF StoreInBatch, BatchStore
  <2>2. /\ OpenMessages' = (OpenMessages \ batches[id]) \cup (batches[id] \cup {message})
        /\ batches[id] \subseteq OpenMessages
        /\ (\A b, c \in BucketId : b # c => batches[b] \cap batches[c] = {})'
    <3>1. \A b, c \in BucketId : b # c => batches[b] \cap batches[c] = {}
      BY DEF NoneTwiceInAPlace
    <3>2. \A b \in BucketId \ {id} : batches[b] \cap (batches[id] \cup {message}) = {}
      BY <1>3, <3>1
    <3> HIDE DEF ExactlyOnePlace, PlacesAreDisjoint, InFlight
    <3>3. QED
      BY <1>3, <2>1, <3>1, <3>2, OpenChanges
  <2>3. PendingMessages' = PendingMessages
    BY <2>1 DEF PendingMessages
  <2>4. NoneTwiceInAPlace'
    BY <1>2, <2>1, <2>2 DEF NoneTwiceInAPlace
  <2>5. QED
    BY <1>1, <1>2, <2>2, <2>3, <2>4
<1>6. QED
  BY <1>4, <1>5

\* The batches: locked by the timer, sent, inserted, retried, dropped.
LEMMA BatchesKeepOnePlace ==
    ASSUME TypeOK, ExactlyOnePlace, Batches
    PROVE  ExactlyOnePlace'
<1> USE DEF ExactlyOnePlace, PlacesAreDisjoint, InFlight
<1>1. /\ UNCHANGED <<arrived, pendingStores, queued, lostMessages>>
      /\ QueuedMessages' = QueuedMessages
  BY DEF Batches, storageVars, QueuedMessages
<1>2. ASSUME NEW id \in BucketId, CloseTimeout(id)
      PROVE  ExactlyOnePlace'
  <2>1. /\ pendingBatches' = pendingBatches \cup {LockedBatch(id)}
        /\ batches' = [batches EXCEPT ![id] = {}]
        /\ UNCHANGED <<acked, dropped>>
    BY <1>2 DEF CloseTimeout
  <2>2. /\ OpenMessages' = (OpenMessages \ batches[id]) \cup {}
        /\ batches[id] \subseteq OpenMessages
        /\ (\A b, c \in BucketId : b # c => batches[b] \cap batches[c] = {})'
    <3>1. \A b, c \in BucketId : b # c => batches[b] \cap batches[c] = {}
      BY DEF NoneTwiceInAPlace
    <3>2. BatchTypeOK /\ \A b \in BucketId \ {id} : batches[b] \cap {} = {}
      BY DEF TypeOK
    <3> HIDE DEF ExactlyOnePlace, PlacesAreDisjoint, InFlight
    <3>3. QED
      BY <2>1, <3>1, <3>2, OpenChanges
  <2>3. LockedBatch(id).records = batches[id]
    BY DEF LockedBatch
  <2>4. /\ PendingMessages' = PendingMessages \cup batches[id]
        /\ (\A p, q \in pendingBatches : p # q => p.records \cap q.records = {})'
    BY <2>1, <2>2, <2>3, PendingGains DEF NoneTwiceInAPlace
  <2>5. NoneTwiceInAPlace'
    BY <1>1, <2>2, <2>4 DEF NoneTwiceInAPlace
  <2>6. QED
    BY <1>1, <2>1, <2>2, <2>4, <2>5
<1>3. ASSUME UNCHANGED <<batches, acked, dropped>>,
             NEW batch \in pendingBatches, NEW new, new.records = batch.records,
             pendingBatches' = (pendingBatches \ {batch}) \cup {new}
      PROVE  ExactlyOnePlace'
  <2>1. OpenMessages' = OpenMessages
    BY <1>3 DEF OpenMessages
  <2>2. /\ PendingMessages' = PendingMessages
        /\ (\A p, q \in pendingBatches : p # q => p.records \cap q.records = {})'
    BY <1>3, PendingKeeps DEF NoneTwiceInAPlace
  <2>3. NoneTwiceInAPlace'
    BY <1>1, <1>3, <2>2 DEF NoneTwiceInAPlace
  <2>4. QED
    BY <1>1, <1>3, <2>1, <2>2, <2>3
<1>4. ASSUME UNCHANGED batches, NEW batch \in pendingBatches,
             pendingBatches' = pendingBatches \ {batch},
             \/ acked' = acked \cup batch.records /\ UNCHANGED dropped
             \/ dropped' = dropped \cup batch.records /\ UNCHANGED acked
      PROVE  ExactlyOnePlace'
  <2>1. OpenMessages' = OpenMessages
    BY <1>4 DEF OpenMessages
  <2>2. /\ PendingMessages' = PendingMessages \ batch.records
        /\ batch.records \subseteq PendingMessages
        /\ (\A p, q \in pendingBatches : p # q => p.records \cap q.records = {})'
    BY <1>4, PendingLoses DEF NoneTwiceInAPlace
  <2>3. NoneTwiceInAPlace'
    BY <1>1, <1>4, <2>2 DEF NoneTwiceInAPlace
  <2>4. QED
    BY <1>1, <1>4, <2>1, <2>2, <2>3
<1>5. ASSUME NEW batch \in pendingBatches, InsertStarts(batch)
      PROVE  ExactlyOnePlace'
  BY <1>3, <1>5 DEF InsertStarts
<1>6. ASSUME NEW batch \in pendingBatches, InsertSucceeds(batch)
      PROVE  ExactlyOnePlace'
  BY <1>4, <1>6 DEF InsertSucceeds
<1>7. ASSUME NEW batch \in pendingBatches, InsertFails(batch)
      PROVE  ExactlyOnePlace'
  <2> DEFINE again == [batch EXCEPT !.state = "locked"]
  <2>1. again.records = batch.records
    BY DEF TypeOK, BatchTypeOK, Batch
  <2>2. CASE batch.retries = BatchMaxRetries
    BY <1>4, <1>7, <2>2 DEF InsertFails
  <2>3. CASE batch.retries # BatchMaxRetries
    BY <1>3, <1>7, <2>1, <2>3 DEF InsertFails
  <2>4. QED
    BY <2>2, <2>3
<1>8. QED
  BY <1>2, <1>5, <1>6, <1>7 DEF Batches

\* No message given to store() disappears and none is inserted through two batches,
\* for any interleaving of retries, lock timeouts, failed inserts and crashes.
THEOREM OnePlace == Spec => []ExactlyOnePlace
<1>1. Init => ExactlyOnePlace
  BY DEF Init, BatchInit, ExactlyOnePlace, PlacesAreDisjoint, NoneTwiceInAPlace, InFlight,
     QueuedMessages, OpenMessages, PendingMessages
<1>2. TypeOK /\ ExactlyOnePlace /\ [Next]_vars => ExactlyOnePlace'
  <2> SUFFICES ASSUME TypeOK, ExactlyOnePlace, [Next]_vars PROVE ExactlyOnePlace'
    OBVIOUS
  <2>1. ASSUME NEW message \in Message, MessageArrives(message) \/ RetryStore(message)
        PROVE  ExactlyOnePlace'
    BY <2>1, StoreKeepsOnePlace DEF MessageArrives, RetryStore
  <2>2. CASE Crash
    <3>1. /\ QueuedMessages' = {} /\ OpenMessages' = {} /\ PendingMessages' = {}
          /\ pendingStores' = {}
      BY <2>2 DEF Crash, QueuedMessages, OpenMessages, PendingMessages
    <3>2. InFlight' = {}
      BY <3>1 DEF InFlight
    <3>3. PlacesAreDisjoint'
      BY <2>2, <3>1, <3>2 DEF Crash, ExactlyOnePlace, PlacesAreDisjoint
    <3>4. NoneTwiceInAPlace'
      BY <2>2 DEF Crash, NoneTwiceInAPlace
    <3>5. QED
      BY <3>3, <3>4 DEF ExactlyOnePlace
  <2>3. CASE UNCHANGED <<batchVars, storageVars>>
    BY <2>3 DEF batchVars, storageVars, ExactlyOnePlace, PlacesAreDisjoint, NoneTwiceInAPlace,
       InFlight, QueuedMessages, OpenMessages, PendingMessages
  <2>4. CASE UNCHANGED vars \/ CheckFullBuckets \/ StoreBuckets \/ Expire
    BY <2>3, <2>4 DEF vars, CheckFullBuckets, StoreBuckets, Expire
  <2>5. QED
    BY <2>1, <2>2, <2>4, StoreInBatchKeepsOnePlace, BatchesKeepOnePlace DEF Next
<1>3. QED
  BY <1>1, <1>2, TypeCorrect, PTL DEF Spec

-----------------------------------------------------------------------------
(* Reads find what lies within the lookback *)

\* What was placed stays placed as new buckets are created.
LEMMA PlacedStays ==
    ASSUME TypeOK, PlacedByDate, lastId' \in Nat, lastId <= lastId',
           \A b \in BucketId : b <= lastId => idDate'[b] = idDate[b],
           UNCHANGED <<queued, batches, pendingBatches, streamData>>
    PROVE  PlacedByDate'
<1>1. ASSUME NEW b \in BucketId, NEW m, Placed(b, m)
      PROVE  Placed(b, m)'
  BY <1>1 DEF Placed, TypeOK, BucketTypeOK, BucketId
<1>2. /\ \A row \in queued \cup streamData : row[1] \in BucketId
      /\ \A batch \in pendingBatches : batch.bucketId \in BucketId
  BY DEF TypeOK, CassandraTypeOK, BatchTypeOK, Batch
<1>3. QED
  BY <1>1, <1>2 DEF PlacedByDate

\* store() puts a message in a bucket that is not newer than it (findBucketId).
LEMMA StorePlaces ==
    ASSUME TypeOK, PlacementInv, NEW message \in Message, Store(message)
    PROVE  PlacementInv'
<1>1. UNCHANGED <<tables, batches, pendingBatches, check, lastId, idDate>>
  BY DEF Store, batchVars, StoreLater, StoreInBucket, NoBucketFor, IncrementBucket
<1>2. CASE StoreLater(message)
  <2>1. UNCHANGED <<memory, queued>>
    BY <1>2 DEF StoreLater, NoBucketFor
  <2>2. QED
    BY <1>1, <2>1 DEF PlacementInv, DatesAgree, PlacedByDate, Placed, tables
<1>3. ASSUME NEW id \in BucketId, StoreInBucket(message, id)
      PROVE  PlacementInv'
  <2>1. /\ memory' = WithBucket(memory, id, Counted(memory.bucket[id]))
        /\ queued' = queued \cup {<<id, message>>}
        /\ id \in FindBucketId(memory, Timestamp[message])
    BY <1>3 DEF StoreInBucket, IncrementBucket
  <2>2. HeapOK(memory) /\ Timestamp[message] \in Nat
    BY TimestampAssumption DEF TypeOK, BucketTypeOK
  <2>3. id \in memory.ids /\ memory.bucket[id].dateCreate <= Timestamp[message]
    BY <2>1, <2>2, FindBucketIdType
  <2>4. Placed(id, message)
    BY <2>3 DEF PlacementInv, DatesAgree, Placed
  <2>5. PlacedByDate'
    BY <1>1, <2>1, <2>4 DEF PlacementInv, PlacedByDate, Placed, tables
  <2>6. /\ memory'.ids = memory.ids
        /\ \A b \in memory.ids : memory'.bucket[b].dateCreate = memory.bucket[b].dateCreate
    BY <2>1, <2>2 DEF WithBucket, Counted, HeapOK, Memory
  <2>7. DatesAgree'
    BY <1>1, <2>6 DEF PlacementInv, DatesAgree, tables
  <2>8. QED
    BY <2>5, <2>7 DEF PlacementInv
<1>4. QED
  BY <1>2, <1>3 DEF Store

\* A bucket is loaded under the date of its row, a new one gets an unused id.
LEMMA CheckPlaces ==
    ASSUME TypeOK, PlacementInv, CheckFullBuckets
    PROVE  PlacementInv'
<1>1. UNCHANGED <<bucketTable, streamData, queued, batches, pendingBatches>>
  BY DEF CheckFullBuckets, tables, batchVars, storageVars
<1>2. HeapOK(memory) /\ lastId \in Nat /\ memory.ids \subseteq BucketId
  BY MaxBucketsAssumption DEF TypeOK, BucketTypeOK, HeapOK, Memory
<1>3. CASE UNCHANGED <<memory, lastId, idDate>> /\ check'.found.id = NoBucket
  <2>1. DatesAgree'
    BY <1>1, <1>3 DEF PlacementInv, DatesAgree
  <2>2. PlacedByDate'
    BY <1>1, <1>3 DEF PlacementInv, PlacedByDate, Placed
  <2>3. QED
    BY <2>1, <2>2 DEF PlacementInv
<1>4. CASE CheckReads
  <2>1. UNCHANGED <<memory, lastId, idDate>>
    BY <1>4 DEF CheckReads
  <2>2. check'.found.id # NoBucket =>
           \E t \in Time : check'.found.id = bucketTable[t].id /\ check'.found.dateCreate = t
    BY <1>4 DEF CheckReads, NothingFound, LastBucketDates, NewestDate, NewestDateUpTo
  <2>3. DatesAgree'
    <3>1. ASSUME check'.found.id # NoBucket
          PROVE  check'.found.id <= lastId /\ idDate[check'.found.id] = check'.found.dateCreate
      <4>1. PICK t \in Time : /\ check'.found.id = bucketTable[t].id
                              /\ check'.found.dateCreate = t
        BY <2>2, <3>1
      <4>2. QED
        BY <3>1, <4>1 DEF PlacementInv, DatesAgree
    <3>2. QED
      BY <1>1, <2>1, <3>1 DEF PlacementInv, DatesAgree
  <2>4. PlacedByDate'
    BY <1>1, <2>1 DEF PlacementInv, PlacedByDate, Placed
  <2>5. QED
    BY <2>3, <2>4 DEF PlacementInv
<1>5. CASE CheckResumes
  <2> DEFINE loaded == IF FoundForeign
                       THEN Push(memory, check.found.id, LoadedBucket(check.found)) ELSE memory
             insert == check.insertNew \/ ~FoundForeign
             date == check.minTimestamp
  <2>1. /\ memory' = IF insert THEN Push(loaded, lastId + 1, NewBucket(date)) ELSE loaded
        /\ lastId' = IF insert THEN lastId + 1 ELSE lastId
        /\ idDate' = IF insert THEN [idDate EXCEPT ![lastId + 1] = date] ELSE idDate
        /\ insert => lastId < MaxBuckets
        /\ check'.found.id = NoBucket
    BY <1>5 DEF CheckResumes, CheckIdle, NothingFound
  <2>2. insert => lastId + 1 \in BucketId
    BY <1>2, <2>1, MaxBucketsAssumption DEF BucketId
  <2>3. /\ lastId' \in Nat /\ lastId <= lastId'
        /\ \A b \in BucketId : b <= lastId => idDate'[b] = idDate[b]
        /\ insert => idDate'[lastId + 1] = date
    BY <1>2, <2>1, <2>2 DEF TypeOK, BucketTypeOK, BucketId
  <2>4. PlacedByDate'
    BY <1>1, <2>3, PlacedStays DEF PlacementInv
  <2>5. \A b \in loaded.ids : /\ b \in BucketId /\ b <= lastId
                              /\ loaded.bucket[b].dateCreate = idDate[b]
    <3>1. CASE FoundForeign
      <4>1. check.found.id \in BucketId
        BY <1>5, <3>1, LoadedHeap DEF CheckResumes, TypeOK
      <4>2. loaded.ids = memory.ids \cup {check.found.id}
        BY <3>1 DEF Push
      <4>3. loaded.bucket = [memory.bucket EXCEPT ![check.found.id] = LoadedBucket(check.found)]
        BY <3>1 DEF Push
      <4>4. \A b \in BucketId : loaded.bucket[b] =
               IF b = check.found.id THEN LoadedBucket(check.found) ELSE memory.bucket[b]
        BY <1>2, <4>1, <4>3 DEF HeapOK, Memory
      <4>5. LoadedBucket(check.found).dateCreate = idDate[check.found.id] /\ check.found.id <= lastId
        BY <3>1 DEF FoundForeign, PlacementInv, DatesAgree, LoadedBucket
      <4> HIDE DEF loaded
      <4>6. QED
        BY <1>2, <4>1, <4>2, <4>4, <4>5 DEF PlacementInv, DatesAgree
    <3>2. CASE ~FoundForeign
      BY <1>2, <3>2 DEF PlacementInv, DatesAgree
    <3>3. QED
      BY <3>1, <3>2
  <2>6. loaded.bucket \in [BucketId -> Bucket \cup {BlankBucket}]
    <3>1. HeapOK(loaded)
      BY <1>2, <1>5, LoadedHeap DEF CheckResumes, TypeOK
    <3>2. QED
      BY <3>1 DEF HeapOK, Memory
  <2>7. \A b \in memory'.ids : b <= lastId' /\ memory'.bucket[b].dateCreate = idDate'[b]
    <3>1. CASE insert
      <4>1. /\ memory'.ids = loaded.ids \cup {lastId + 1}
            /\ memory'.bucket = [loaded.bucket EXCEPT ![lastId + 1] = NewBucket(date)]
        BY <2>1, <3>1 DEF Push
      <4>2. \A b \in BucketId : memory'.bucket[b] =
               IF b = lastId + 1 THEN NewBucket(date) ELSE loaded.bucket[b]
        BY <2>2, <2>6, <3>1, <4>1
      <4>3. NewBucket(date).dateCreate = date
        BY DEF NewBucket
      <4> HIDE DEF loaded
      <4>4. QED
        BY <1>2, <2>1, <2>2, <2>3, <2>5, <3>1, <4>1, <4>2, <4>3 DEF BucketId
    <3>2. CASE ~insert
      BY <2>1, <2>5, <3>2
    <3>3. QED
      BY <3>1, <3>2
  <2>8. \A t \in Time : bucketTable[t].id # NoBucket =>
           bucketTable[t].id <= lastId' /\ idDate'[bucketTable[t].id] = t
    <3>1. \A t \in Time : bucketTable[t].id # NoBucket => bucketTable[t].id \in BucketId
      BY DEF TypeOK, CassandraTypeOK
    <3>2. QED
      BY <1>2, <2>3, <3>1 DEF PlacementInv, DatesAgree, BucketId
  <2>9. QED
    BY <1>1, <2>1, <2>4, <2>7, <2>8 DEF PlacementInv, DatesAgree
<1>6. QED
  BY <1>3, <1>4, <1>5 DEF CheckFullBuckets, CheckStarts, CheckFails, CheckIdle, NothingFound

\* An UPDATE writes a bucket's id to the row of its own date; eviction changes no date.
LEMMA StorePlacesRows ==
    ASSUME TypeOK, PlacementInv, StoreBuckets
    PROVE  PlacementInv'
<1>1. UNCHANGED <<streamData, queued, batches, pendingBatches, check, lastId, idDate>>
  BY DEF StoreBuckets, batchVars, storageVars, StoreStarts, StoreFinishes, StoreSucceeds, StoreFails
<1>2. PlacedByDate'
  BY <1>1 DEF PlacementInv, PlacedByDate, Placed
<1>3. HeapOK(memory) /\ storing.sent \subseteq memory.ids /\ memory.ids \subseteq BucketId
  BY DEF TypeOK, BucketTypeOK, HeapOK, Memory
<1>4. CASE StoreStarts /\ UNCHANGED bucketTable
  BY <1>1, <1>2, <1>4 DEF StoreStarts, PlacementInv, DatesAgree
<1>5. CASE StoreFinishes /\ UNCHANGED bucketTable
  <2>1. /\ memory'.ids = memory.ids \ Idle
        /\ memory'.bucket = [b \in BucketId |-> Settled(b)]
    BY <1>5 DEF StoreFinishes
  <2>2. \A b \in memory.ids \ Idle : Settled(b).dateCreate = memory.bucket[b].dateCreate
    BY DEF Settled, Stored
  <2>3. \A b \in memory'.ids : b <= lastId /\ memory'.bucket[b].dateCreate = idDate[b]
    BY <1>3, <2>1, <2>2 DEF PlacementInv, DatesAgree
  <2>4. QED
    BY <1>1, <1>2, <1>5, <2>3 DEF PlacementInv, DatesAgree
<1>6. ASSUME NEW id \in BucketId, StoreSucceeds(id) \/ StoreFails(id)
      PROVE  PlacementInv'
  <2>1. memory' = memory /\ id \in memory.ids
    BY <1>3, <1>6 DEF StoreSucceeds, StoreFails
  <2>2. memory.bucket[id].dateCreate = idDate[id] /\ id <= lastId
    BY <2>1 DEF PlacementInv, DatesAgree
  <2>3. \A t \in Time : \/ bucketTable'[t] = bucketTable[t]
                        \/ bucketTable'[t].id = id /\ t = idDate[id]
    BY <1>6, <2>2 DEF StoreSucceeds, StoreFails, WriteRow, TypeOK, CassandraTypeOK
  <2>4. DatesAgree'
    BY <1>1, <2>1, <2>2, <2>3 DEF PlacementInv, DatesAgree
  <2>5. QED
    BY <1>2, <2>4 DEF PlacementInv
<1>7. QED
  BY <1>4, <1>5, <1>6 DEF StoreBuckets

\* Messages keep their bucket on the way through the batches to stream_data.
LEMMA BatchesKeepPlaces ==
    ASSUME TypeOK, PlacementInv,
           \/ Batches
           \/ \E id \in BucketId, message \in Message : StoreInBatch(id, message)
    PROVE  PlacementInv'
<1>1. UNCHANGED <<bucketTable, memory, check, lastId, idDate>>
  BY DEF Batches, StoreInBatch, bucketVars, tables
<1>2. DatesAgree'
  BY <1>1 DEF PlacementInv, DatesAgree
<1>3. \A b, m : Placed(b, m)' <=> Placed(b, m)
  BY <1>1 DEF Placed
<1>4. \A id \in BucketId : /\ LockedBatch(id).bucketId = id
                           /\ LockedBatch(id).records = batches[id]
  BY DEF LockedBatch
<1>5. ASSUME NEW id \in BucketId, NEW message \in Message, StoreInBatch(id, message)
      PROVE  PlacedByDate'
  <2>1. Placed(id, message)
    BY <1>5 DEF StoreInBatch, PlacementInv, PlacedByDate
  <2>2. queued' \subseteq queued /\ streamData' = streamData
    BY <1>5 DEF StoreInBatch, tables
  <2>3. pendingBatches' \subseteq pendingBatches \cup {LockedBatch(id)}
    BY <1>5 DEF StoreInBatch, BatchStore
  <2>4. \A b \in BucketId : batches'[b] \subseteq
           IF b = id THEN batches[b] \cup {message} ELSE batches[b]
    BY <1>5 DEF StoreInBatch, BatchStore, TypeOK, BatchTypeOK
  <2>5. QED
    BY <1>3, <1>4, <2>1, <2>2, <2>3, <2>4 DEF PlacementInv, PlacedByDate
<1>6. CASE Batches
  <2>1. queued' = queued
    BY <1>6 DEF Batches, storageVars
  <2>2. ASSUME NEW id \in BucketId, CloseTimeout(id), UNCHANGED streamData
        PROVE  PlacedByDate'
    <3>1. /\ pendingBatches' = pendingBatches \cup {LockedBatch(id)}
          /\ \A b \in BucketId : batches'[b] \subseteq batches[b]
      BY <2>2 DEF CloseTimeout, TypeOK, BatchTypeOK
    <3>2. QED
      BY <1>3, <1>4, <2>1, <2>2, <3>1 DEF PlacementInv, PlacedByDate
  <2>3. ASSUME NEW batch \in pendingBatches, InsertStarts(batch), UNCHANGED streamData
        PROVE  PlacedByDate'
    BY <1>3, <2>1, <2>3 DEF InsertStarts, PlacementInv, PlacedByDate
  <2>4. ASSUME NEW batch \in pendingBatches, WriteRecords(batch) \/ UNCHANGED streamData
        PROVE  \A row \in streamData' : Placed(row[1], row[2])
    BY <2>4 DEF WriteRecords, PlacementInv, PlacedByDate
  <2>5. ASSUME NEW batch \in pendingBatches, InsertSucceeds(batch) \/ InsertFails(batch)
        PROVE  PlacedByDate'
    <3>1. /\ batches' = batches
          /\ \A p \in pendingBatches' : \E q \in pendingBatches :
                p.bucketId = q.bucketId /\ p.records = q.records
      BY <2>5 DEF InsertSucceeds, InsertFails, TypeOK, BatchTypeOK, Batch
    <3>2. \A row \in streamData' : Placed(row[1], row[2])
      BY <2>4, <2>5 DEF InsertSucceeds, InsertFails
    <3>3. QED
      BY <1>3, <2>1, <3>1, <3>2 DEF PlacementInv, PlacedByDate
  <2>6. QED
    BY <1>2, <1>6, <2>2, <2>3, <2>5 DEF Batches, PlacementInv
<1>7. QED
  BY <1>2, <1>5, <1>6 DEF PlacementInv

\* A bucket keeps its date, and no message is put in a bucket that is newer (findBucketId).
LEMMA PlacementAlways == Spec => []PlacementInv
<1>1. Init => PlacementInv
  BY DEF Init, CassandraInit, BucketInit, BatchInit, PlacementInv, DatesAgree, PlacedByDate,
     CheckIdle, NothingFound, NoRow
<1>2. TypeOK /\ PlacementInv /\ [Next]_vars => PlacementInv'
  <2> SUFFICES ASSUME TypeOK, PlacementInv, [Next]_vars PROVE PlacementInv'
    OBVIOUS
  <2>1. ASSUME NEW message \in Message, MessageArrives(message) \/ RetryStore(message)
        PROVE  PlacementInv'
    BY <2>1, StorePlaces DEF MessageArrives, RetryStore
  <2>2. CASE Expire
    <3>1. PICK id \in memory.ids : memory' = WithBucket(memory, id, [memory.bucket[id] EXCEPT !.alive = FALSE])
      BY <2>2 DEF Expire, KeepAliveExpires
    <3>2. HeapOK(memory)
      BY DEF TypeOK, BucketTypeOK
    <3>3. [memory.bucket[id] EXCEPT !.alive = FALSE].dateCreate = memory.bucket[id].dateCreate
      BY <3>2 DEF HeapOK, Bucket
    <3>4. /\ memory'.ids = memory.ids
          /\ \A b \in memory.ids : memory'.bucket[b].dateCreate = memory.bucket[b].dateCreate
      BY <3>1, <3>2, <3>3 DEF WithBucket, HeapOK, Memory
    <3>5. UNCHANGED <<tables, queued, batches, pendingBatches, check, lastId, idDate>>
      BY <2>2 DEF Expire, KeepAliveExpires, batchVars, storageVars
    <3>6. QED
      BY <3>4, <3>5 DEF PlacementInv, DatesAgree, PlacedByDate, Placed, tables
  <2>3. CASE Crash
    <3>1. DatesAgree'
      BY <2>3 DEF Crash, PlacementInv, DatesAgree, tables, CheckIdle, NothingFound
    <3>2. PlacedByDate'
      BY <2>3 DEF Crash, PlacementInv, PlacedByDate, Placed, tables
    <3>3. QED
      BY <3>1, <3>2 DEF PlacementInv
  <2>4. CASE UNCHANGED vars
    BY <2>4 DEF vars, tables, bucketVars, batchVars, storageVars, PlacementInv, DatesAgree,
       PlacedByDate, Placed
  <2>5. QED
    BY <2>1, <2>2, <2>3, <2>4, CheckPlaces, StorePlacesRows, BatchesKeepPlaces DEF Next
<1>3. QED
  BY <1>1, <1>2, TypeCorrect, PTL DEF Spec

\* Whatever happened before, a stored message whose bucket has its row is in the result
\* of every range that contains it, if it is less than BUCKET_LOOKBACK_MS newer than
\* its bucket (fetchRange, getBucketsByTimestamp).
THEOREM WithinLookback == Spec => []FoundWithinLookback
<1>1. TypeOK /\ PlacementInv => FoundWithinLookback
  <2> SUFFICES ASSUME TypeOK, PlacementInv, NEW row \in streamData, NEW from \in Time,
                      Indexed(row[1]), from <= Timestamp[row[2]],
                      Timestamp[row[2]] - idDate[row[1]] < Lookback
               PROVE  row[2] \in FetchRange(from, Timestamp[row[2]])
    BY DEF FoundWithinLookback
  <2> DEFINE ts == Timestamp[row[2]]
             date == idDate[row[1]]
  <2>1. row = <<row[1], row[2]>> /\ row[1] \in BucketId /\ row[2] \in Message
    BY DEF TypeOK, CassandraTypeOK
  <2>2. ts \in Nat /\ from \in Nat /\ Lookback \in Nat
    BY <2>1, TimestampAssumption, TimeType, StorageAssumption
  <2>3. date \in Time /\ date \in Nat /\ bucketTable[date].id = row[1] /\ row[1] # NoBucket
    BY <2>1, TimeType DEF Indexed, TypeOK, BucketTypeOK, BucketId, NoBucket
  <2>4. date <= ts /\ date > from - Lookback
    BY <2>2, <2>3 DEF PlacementInv, PlacedByDate, Placed
  <2>5. date \in DatesWithin(from - Lookback, ts)
    BY <2>3, <2>4 DEF DatesWithin
  <2>6. row[1] \in BucketsByTimestamp(from - Lookback, ts)
    BY <2>3, <2>5 DEF BucketsByTimestamp
  <2>7. QED
    BY <2>1, <2>2, <2>6 DEF FetchRange
<1>2. QED
  BY <1>1, PlacementAlways, TypeCorrect, PTL

\* An accepted message is in exactly one place until it is stored or given up, and a stored one
\* lies where a read with the lookback finds it (BatchManager, BucketManager, Storage.store).
THEOREM KeptAndFoundAlways == Spec => []KeptAndFound
<1>1. ExactlyOnePlace /\ FoundWithinLookback => KeptAndFound
  BY DEF KeptAndFound
<1>2. QED
  BY <1>1, OnePlace, WithinLookback, PTL

-----------------------------------------------------------------------------
(* The rows of table bucket: each bucket that was created is in memory or  *)
(* has its row, and a stored one has its count in it.                      *)

\* A bucket has a date from its creation on.
DatesFromCreation == \A b \in BucketId : idDate[b] # NoTime <=> b <= lastId

\* A bucket whose UPDATE was sent is marked as stored only when all UPDATEs are settled.
SentAreUnstored == \A b \in storing.sent \cup storing.ok : ~memory.bucket[b].stored

\* An UPDATE that succeeded is the row's last one, unless two buckets share the row.
OkIsCurrent ==
    \A b \in storing.ok :
        \/ SharesDate(b)
        \/ Indexed(b) /\ bucketTable[idDate[b]].records = storing.records[b]

\* A bucket that was created is in memory or has its row.
NoBucketForgotten ==
    \A b \in BucketId : b <= lastId =>
        Indexed(b) \/ b \in memory.ids \/ SharesDate(b) \/ b \in lostBuckets

\* done() is called for messages in stream_data only.
AckedIsStored == \A m \in acked : \E b \in BucketId : <<b, m>> \in streamData

\* The inductive invariant.
IndexInv ==
    /\ DatesFromCreation /\ SentAreUnstored /\ OkIsCurrent /\ StoredRowIsCurrent
    /\ NoBucketForgotten /\ AckedIsStored
-----------------------------------------------------------------------------
\* Buckets that share a date go on sharing it.
LEMMA SharesStay ==
    ASSUME TypeOK, DatesFromCreation, \A b \in BucketId : b <= lastId => idDate'[b] = idDate[b],
           NEW id \in BucketId, SharesDate(id)
    PROVE  SharesDate(id)'
BY DEF SharesDate, DatesFromCreation

\* Counting messages, loading and creating buckets, and keep-alive timeouts: a bucket is left as
\* it is or is not stored, and the tables and the UPDATEs in progress are the same.
LEMMA MemoryGrows ==
    ASSUME TypeOK, IndexInv, UNCHANGED <<tables, storing, acked, lostBuckets>>,
           memory.ids \subseteq memory'.ids,
           \A b \in memory'.ids : \/ ~memory'.bucket[b].stored
                                  \/ /\ b \in memory.ids
                                     /\ memory'.bucket[b].stored = memory.bucket[b].stored
                                     /\ memory'.bucket[b].records = memory.bucket[b].records,
           \A b \in BucketId : b <= lastId => idDate'[b] = idDate[b] /\ b <= lastId',
           DatesFromCreation',
           \A b \in BucketId : b <= lastId' => b <= lastId \/ b \in memory'.ids
    PROVE  IndexInv'
<1> USE DEF IndexInv
<1>1. \A b \in BucketId : /\ SharesDate(b) => SharesDate(b)'
                          /\ Indexed(b) => Indexed(b)' /\ idDate'[b] = idDate[b]
    BY SharesStay DEF Indexed, DatesFromCreation, tables
<1>2. storing.sent \cup storing.ok \subseteq memory.ids /\ memory.ids \subseteq BucketId
    BY DEF TypeOK, BucketTypeOK, HeapOK, Memory
<1>3. storing' = storing /\ tables' = tables /\ bucketTable' = bucketTable /\ streamData' = streamData
    BY DEF tables
<1>4. SentAreUnstored'
    BY <1>2, <1>3 DEF SentAreUnstored
<1>5. OkIsCurrent'
    BY <1>1, <1>2, <1>3 DEF OkIsCurrent
<1>6. StoredRowIsCurrent'
    BY <1>1, <1>2, <1>3 DEF StoredRowIsCurrent
<1>7. NoBucketForgotten'
    BY <1>1 DEF NoBucketForgotten
<1>8. AckedIsStored'
    BY <1>3 DEF AckedIsStored
<1>9. QED
    BY <1>4, <1>5, <1>6, <1>7, <1>8

\* store() counts a message, or leaves a timestamp for checkFullBuckets.
LEMMA StoreIndexes ==
    ASSUME TypeOK, IndexInv, NEW message \in Message, Store(message)
    PROVE  IndexInv'
<1>1. UNCHANGED <<tables, storing, lastId, idDate, acked, lostBuckets>>
    BY DEF Store, batchVars, StoreLater, StoreInBucket, NoBucketFor, IncrementBucket
<1>2. HeapOK(memory) /\ lastId \in Nat
    BY DEF TypeOK, BucketTypeOK
<1>3. /\ memory'.ids = memory.ids
      /\ \A b \in memory.ids : ~memory'.bucket[b].stored \/ memory'.bucket[b] = memory.bucket[b]
    <2>1. CASE StoreLater(message)
        BY <2>1 DEF StoreLater, NoBucketFor
    <2>2. ASSUME NEW id \in BucketId, StoreInBucket(message, id)
          PROVE  <1>3!1 /\ <1>3!2
        BY <1>2, <2>2 DEF StoreInBucket, IncrementBucket, WithBucket, Counted, HeapOK, Memory
    <2>3. QED
        BY <2>1, <2>2 DEF Store
<1>4. DatesFromCreation'
    BY <1>1 DEF IndexInv, DatesFromCreation
<1>5. QED
    BY <1>1, <1>3, <1>4, MemoryGrows
\* What Push adds.
LEMMA PushAdds ==
    ASSUME NEW mem, HeapOK(mem), NEW id \in BucketId, NEW bucket
    PROVE  /\ Push(mem, id, bucket).ids = mem.ids \cup {id}
           /\ \A b \in BucketId : Push(mem, id, bucket).bucket[b] = IF b = id THEN bucket ELSE mem.bucket[b]
BY DEF Push, HeapOK, Memory

\* checkFullBuckets: a bucket it loads or creates is not stored, and one it creates has its date.
LEMMA CheckIndexes ==
    ASSUME TypeOK, PlacementInv, IndexInv, CheckFullBuckets
    PROVE  IndexInv'
<1>1. UNCHANGED <<tables, storing, acked, lostBuckets>>
    BY DEF CheckFullBuckets, batchVars, storageVars, CheckStarts, CheckReads, CheckFails, CheckResumes
<1>2. HeapOK(memory) /\ lastId \in Nat /\ memory.ids \subseteq BucketId
    BY MaxBucketsAssumption DEF TypeOK, BucketTypeOK, HeapOK, Memory
<1>3. CASE UNCHANGED <<memory, lastId, idDate>>
    <2>1. DatesFromCreation'
        BY <1>3 DEF IndexInv, DatesFromCreation
    <2>2. QED
        BY <1>1, <1>2, <1>3, <2>1, MemoryGrows
<1>4. CASE CheckResumes
    <2> DEFINE loaded == IF FoundForeign
                         THEN Push(memory, check.found.id, LoadedBucket(check.found)) ELSE memory
               insert == check.insertNew \/ ~FoundForeign
               date == check.minTimestamp
    <2>1. /\ memory' = IF insert THEN Push(loaded, lastId + 1, NewBucket(date)) ELSE loaded
          /\ lastId' = IF insert THEN lastId + 1 ELSE lastId
          /\ idDate' = IF insert THEN [idDate EXCEPT ![lastId + 1] = date] ELSE idDate
          /\ insert => lastId < MaxBuckets
        BY <1>4 DEF CheckResumes
    <2>2. insert => lastId + 1 \in BucketId
        BY <1>2, <2>1, MaxBucketsAssumption DEF BucketId
    <2>3. date \in Time /\ date # NoTime
        BY <1>4, TimeType DEF CheckResumes, TypeOK, BucketTypeOK, CheckIdle, NoTime
    <2>4. HeapOK(loaded)
        BY <1>2, <1>4, LoadedHeap DEF CheckResumes, TypeOK
    <2>5. /\ memory.ids \subseteq loaded.ids
          /\ \A b \in loaded.ids : ~loaded.bucket[b].stored \/ (b \in memory.ids /\ loaded.bucket[b] = memory.bucket[b])
        <3>1. CASE FoundForeign
            <4>1. check.found.id \in BucketId /\ ~LoadedBucket(check.found).stored
                BY <1>4, <3>1, LoadedHeap DEF CheckResumes, TypeOK, LoadedBucket
            <4>2. loaded = Push(memory, check.found.id, LoadedBucket(check.found))
                BY <3>1
            <4>3. /\ loaded.ids = memory.ids \cup {check.found.id}
                  /\ \A b \in BucketId : loaded.bucket[b] = IF b = check.found.id THEN LoadedBucket(check.found)
                                                           ELSE memory.bucket[b]
                <5> HIDE DEF loaded
                <5>1. QED
                    BY <1>2, <4>1, <4>2, PushAdds
            <4> HIDE DEF loaded
            <4>4. QED
                BY <1>2, <4>1, <4>3
        <3>2. CASE ~FoundForeign
            BY <3>2
        <3>3. QED
            BY <3>1, <3>2
    <2>6. loaded.ids \subseteq BucketId
        BY <2>4 DEF HeapOK, Memory
    <2> HIDE DEF loaded
    <2>7. /\ memory.ids \subseteq memory'.ids
          /\ \A b \in memory'.ids : ~memory'.bucket[b].stored \/ (b \in memory.ids /\ memory'.bucket[b] = memory.bucket[b])
          /\ insert => lastId + 1 \in memory'.ids
        <3>1. CASE insert
            <4>1. ~NewBucket(date).stored
                BY DEF NewBucket
            <4>2. /\ memory'.ids = loaded.ids \cup {lastId + 1}
                  /\ \A b \in BucketId : memory'.bucket[b] = IF b = lastId + 1 THEN NewBucket(date) ELSE loaded.bucket[b]
                <5>1. memory' = Push(loaded, lastId + 1, NewBucket(date)) /\ lastId + 1 \in BucketId
                    BY <2>1, <2>2, <3>1
                <5>2. QED
                    BY <2>4, <5>1, PushAdds
            <4>3. QED
                BY <2>2, <2>5, <2>6, <3>1, <4>1, <4>2
        <3>2. CASE ~insert
            BY <2>1, <2>5, <3>2
        <3>3. QED
            BY <3>1, <3>2
    <2>8. /\ \A b \in BucketId : b <= lastId => idDate'[b] = idDate[b] /\ b <= lastId'
          /\ \A b \in BucketId : b <= lastId' => b <= lastId \/ b \in memory'.ids
        BY <1>2, <2>1, <2>2, <2>7 DEF TypeOK, BucketTypeOK, BucketId
    <2>9. DatesFromCreation'
        BY <1>2, <2>1, <2>2, <2>3 DEF IndexInv, DatesFromCreation, TypeOK, BucketTypeOK, BucketId
    <2>10. QED
        BY <1>1, <2>7, <2>8, <2>9, MemoryGrows
<1>5. QED
    BY <1>3, <1>4 DEF CheckFullBuckets, CheckStarts, CheckReads, CheckFails

\* A keep-alive timeout marks a bucket, no more.
LEMMA ExpireIndexes ==
    ASSUME TypeOK, IndexInv, Expire
    PROVE  IndexInv'
<1>1. PICK id \in memory.ids : memory' = WithBucket(memory, id, [memory.bucket[id] EXCEPT !.alive = FALSE])
    BY DEF Expire, KeepAliveExpires
<1>2. HeapOK(memory) /\ lastId \in Nat
    BY DEF TypeOK, BucketTypeOK
<1>3. /\ [memory.bucket[id] EXCEPT !.alive = FALSE].stored = memory.bucket[id].stored
      /\ [memory.bucket[id] EXCEPT !.alive = FALSE].records = memory.bucket[id].records
    BY <1>2 DEF HeapOK, Bucket
<1>4. /\ memory'.ids = memory.ids
      /\ \A b \in memory.ids : /\ memory'.bucket[b].stored = memory.bucket[b].stored
                                /\ memory'.bucket[b].records = memory.bucket[b].records
    BY <1>1, <1>2, <1>3 DEF WithBucket, HeapOK, Memory
<1>5. UNCHANGED <<tables, storing, acked, lostBuckets, lastId, idDate>>
    BY DEF Expire, KeepAliveExpires, batchVars, storageVars
<1>6. DatesFromCreation'
    BY <1>5 DEF IndexInv, DatesFromCreation
<1>7. QED
    BY <1>4, <1>5, <1>6, MemoryGrows

\* An UPDATE goes to the row of the bucket's date: it makes the bucket's row, and takes the row
\* only from a bucket that shares the date.
LEMMA UpdateIndexes ==
    ASSUME TypeOK, PlacementInv, IndexInv, NEW id \in BucketId,
           id \in storing.sent, WriteRow(id) \/ UNCHANGED bucketTable,
           storing'.sent \subseteq storing.sent, storing'.records = storing.records,
           \/ storing'.ok = storing.ok
           \/ storing'.ok = storing.ok \cup {id} /\ WriteRow(id),
           UNCHANGED <<memory, lastId, idDate, streamData, acked, lostBuckets>>
    PROVE  IndexInv'
<1> USE DEF IndexInv
<1>1. storing.sent \cup storing.ok \subseteq memory.ids /\ memory.ids \subseteq BucketId
    BY DEF TypeOK, BucketTypeOK, HeapOK, Memory
<1>2. memory.bucket[id].dateCreate = idDate[id] /\ idDate[id] \in Time /\ idDate[id] # NoTime
    <2>1. memory.bucket[id].dateCreate = idDate[id] /\ memory.bucket[id] \in Bucket
        BY <1>1 DEF PlacementInv, DatesAgree, TypeOK, BucketTypeOK, HeapOK
    <2>2. QED
        BY <2>1, TimeType DEF Bucket, NoTime
<1>3. WriteRow(id) => bucketTable'[idDate[id]] = [id |-> id, records |-> storing.records[id]]
    BY <1>2 DEF WriteRow, TypeOK, CassandraTypeOK
<1>4. \A t \in Time : t # idDate[id] => bucketTable'[t] = bucketTable[t]
    BY <1>2 DEF WriteRow, TypeOK, CassandraTypeOK
<1>5. \A b \in BucketId : /\ SharesDate(b)' <=> SharesDate(b)
                          /\ b # id /\ ~SharesDate(b) /\ Indexed(b) =>
                                Indexed(b)' /\ bucketTable'[idDate[b]] = bucketTable[idDate[b]]
    <2>1. \A b \in BucketId : SharesDate(b)' <=> SharesDate(b)
        BY DEF SharesDate
    <2>2. ASSUME NEW b \in BucketId, b # id, ~SharesDate(b), Indexed(b)
          PROVE  Indexed(b)' /\ bucketTable'[idDate[b]] = bucketTable[idDate[b]]
        <3>1. idDate[b] # idDate[id] /\ idDate[b] \in Time
            BY <1>2, <2>2 DEF SharesDate, Indexed, TypeOK, BucketTypeOK
        <3>2. QED
            BY <1>4, <2>2, <3>1 DEF Indexed
    <2>3. QED
        BY <2>1, <2>2
<1>6. WriteRow(id) => Indexed(id)' /\ bucketTable'[idDate[id]].records = storing.records[id]
    BY <1>2, <1>3 DEF Indexed
<1>7. ~memory.bucket[id].stored
    BY DEF SentAreUnstored
<1>8. DatesFromCreation'
    BY DEF DatesFromCreation
<1>9. SentAreUnstored'
    BY DEF SentAreUnstored
<1>10. OkIsCurrent'
    <2> SUFFICES ASSUME NEW b \in storing'.ok, ~SharesDate(b)'
                 PROVE  Indexed(b)' /\ bucketTable'[idDate[b]].records = storing.records[b]
        BY DEF OkIsCurrent
    <2>1. b \in BucketId
        BY <1>1
    <2>2. CASE b # id
        BY <1>5, <2>1, <2>2 DEF OkIsCurrent
    <2>3. CASE b = id /\ WriteRow(id)
        BY <1>6, <2>3
    <2>4. CASE b = id /\ UNCHANGED bucketTable
        <3>1. b \in storing.ok \/ WriteRow(id)
            BY <2>4
        <3>2. CASE b \in storing.ok
            BY <1>5, <2>1, <2>4, <3>2 DEF OkIsCurrent, Indexed
        <3>3. QED
            BY <2>3, <2>4, <3>1, <3>2
    <2>5. QED
        BY <2>2, <2>3, <2>4
<1>11. StoredRowIsCurrent'
    <2> SUFFICES ASSUME NEW b \in memory.ids, memory.bucket[b].stored, ~SharesDate(b)'
                 PROVE  Indexed(b)' /\ bucketTable'[idDate[b]].records = memory.bucket[b].records
        BY DEF StoredRowIsCurrent
    <2>1. b # id /\ b \in BucketId
        BY <1>1, <1>7
    <2>2. QED
        BY <1>5, <2>1 DEF StoredRowIsCurrent
<1>12. NoBucketForgotten'
    <2> SUFFICES ASSUME NEW b \in BucketId, b <= lastId
                 PROVE  (Indexed(b) \/ b \in memory.ids \/ SharesDate(b) \/ b \in lostBuckets)'
        BY DEF NoBucketForgotten
    <2>1. CASE b = id
        BY <1>1, <2>1
    <2>2. CASE b # id
        BY <1>5, <2>2 DEF NoBucketForgotten
    <2>3. QED
        BY <2>1, <2>2
<1>13. AckedIsStored'
    BY DEF AckedIsStored
<1>14. QED
    BY <1>8, <1>9, <1>10, <1>11, <1>12, <1>13

\* storeBuckets: a bucket is marked as stored, and evicted, only with its count in its row.
LEMMA StoreBucketsIndexes ==
    ASSUME TypeOK, PlacementInv, IndexInv, StoreBuckets
    PROVE  IndexInv'
<1>1. UNCHANGED <<streamData, lastId, idDate, acked, lostBuckets>>
    BY DEF StoreBuckets, batchVars, storageVars, StoreStarts, StoreFinishes, StoreSucceeds, StoreFails
<1>2. /\ storing.sent \cup storing.ok \subseteq memory.ids /\ memory.ids \subseteq BucketId
      /\ \A b \in BucketId : SharesDate(b)' <=> SharesDate(b)
    BY <1>1 DEF TypeOK, BucketTypeOK, HeapOK, Memory, SharesDate
<1>3. CASE StoreStarts /\ UNCHANGED bucketTable
    <2>1. storing'.sent = Unstored /\ storing'.ok = {} /\ memory' = memory
        BY <1>3 DEF StoreStarts
    <2>2. \A b \in BucketId : Indexed(b)' <=> Indexed(b)
        BY <1>1, <1>3 DEF Indexed
    <2>3. DatesFromCreation' /\ AckedIsStored'
        BY <1>1 DEF IndexInv, DatesFromCreation, AckedIsStored
    <2>4. SentAreUnstored' /\ OkIsCurrent'
        BY <2>1 DEF SentAreUnstored, OkIsCurrent, Unstored
    <2>5. StoredRowIsCurrent' /\ NoBucketForgotten'
        BY <1>1, <1>2, <1>3, <2>1, <2>2 DEF IndexInv, StoredRowIsCurrent, NoBucketForgotten
    <2>6. QED
        BY <2>3, <2>4, <2>5 DEF IndexInv
<1>4. ASSUME NEW id \in BucketId, StoreSucceeds(id) \/ StoreFails(id)
      PROVE  IndexInv'
    <2>1. /\ id \in storing.sent
          /\ WriteRow(id) \/ UNCHANGED bucketTable
          /\ storing'.sent \subseteq storing.sent /\ storing'.records = storing.records
          /\ UNCHANGED memory
        BY <1>4 DEF StoreSucceeds, StoreFails
    <2>2. storing'.ok = storing.ok \/ (storing'.ok = storing.ok \cup {id} /\ WriteRow(id))
        BY <1>4 DEF StoreSucceeds, StoreFails
    <2>3. QED
        BY <1>1, <2>1, <2>2, UpdateIndexes
<1>5. CASE StoreFinishes /\ UNCHANGED bucketTable
    <2>1. /\ memory'.ids = memory.ids \ Idle
          /\ memory'.bucket = [b \in BucketId |-> Settled(b)]
          /\ storing'.sent = {} /\ storing'.ok = {}
        BY <1>5 DEF StoreFinishes, StoreIdle
    <2>2. \A b \in BucketId : Indexed(b)' <=> Indexed(b)
        BY <1>1, <1>5 DEF Indexed
    <2>3. \A b \in memory.ids : memory.bucket[b].stored \/ b \in SetStored =>
             SharesDate(b) \/ (Indexed(b) /\ bucketTable[idDate[b]].records = memory.bucket[b].records)
        BY DEF IndexInv, StoredRowIsCurrent, OkIsCurrent, SetStored
    <2>4. \A b \in memory'.ids : /\ memory'.bucket[b].records = memory.bucket[b].records
                                 /\ memory'.bucket[b].stored => memory.bucket[b].stored \/ b \in SetStored
        BY <1>2, <2>1 DEF Settled, Stored
    <2>5. DatesFromCreation' /\ AckedIsStored'
        BY <1>1 DEF IndexInv, DatesFromCreation, AckedIsStored
    <2>6. SentAreUnstored' /\ OkIsCurrent'
        BY <2>1 DEF SentAreUnstored, OkIsCurrent
    <2>7. StoredRowIsCurrent'
        BY <1>1, <1>2, <1>5, <2>1, <2>2, <2>3, <2>4 DEF StoredRowIsCurrent
    <2>8. NoBucketForgotten'
        BY <1>1, <1>2, <2>1, <2>2, <2>3 DEF IndexInv, NoBucketForgotten, Idle
    <2>9. QED
        BY <2>5, <2>6, <2>7, <2>8 DEF IndexInv
<1>6. QED
    BY <1>3, <1>4, <1>5 DEF StoreBuckets

\* The batches: what they acknowledge is in stream_data.
LEMMA BatchesIndex ==
    ASSUME TypeOK, IndexInv, Batches \/ \E id \in BucketId, message \in Message : StoreInBatch(id, message)
    PROVE  IndexInv'
<1>1. UNCHANGED <<bucketTable, memory, storing, lastId, idDate, lostBuckets>>
    BY DEF Batches, StoreInBatch, bucketVars, storageVars, tables
<1>2. /\ streamData \subseteq streamData'
      /\ \A m \in acked' : m \in acked \/ \E b \in BucketId : <<b, m>> \in streamData'
    <2>1. CASE UNCHANGED <<streamData, acked>>
        BY <2>1
    <2>2. ASSUME NEW batch \in pendingBatches, InsertSucceeds(batch)
          PROVE  <1>2!1 /\ <1>2!2
        <3>1. batch.bucketId \in BucketId
            BY DEF TypeOK, BatchTypeOK, Batch
        <3>2. QED
            BY <2>2, <3>1 DEF InsertSucceeds, WriteRecords
    <2>3. ASSUME NEW batch \in pendingBatches, InsertFails(batch)
          PROVE  <1>2!1 /\ <1>2!2
        <3>1. acked' = acked /\ (WriteRecords(batch) \/ UNCHANGED streamData)
            BY <2>3 DEF InsertFails
        <3>2. QED
            BY <3>1 DEF WriteRecords
    <2>4. ASSUME NEW id \in BucketId, NEW message \in Message, StoreInBatch(id, message)
          PROVE  UNCHANGED <<streamData, acked>>
        BY <2>4 DEF StoreInBatch, BatchStore, tables
    <2>5. QED
        BY <2>1, <2>2, <2>3, <2>4 DEF Batches, CloseTimeout, InsertStarts
<1>3. AckedIsStored'
    BY <1>2 DEF IndexInv, AckedIsStored
<1>4. QED
    BY <1>1, <1>3 DEF IndexInv, DatesFromCreation, SentAreUnstored, OkIsCurrent, StoredRowIsCurrent,
                      NoBucketForgotten, SharesDate, Indexed

\* A crash: the buckets that had no row are the ones it loses.
LEMMA CrashIndexes ==
    ASSUME TypeOK, PlacementInv, IndexInv, Crash
    PROVE  IndexInv'
<1>1. /\ UNCHANGED <<tables, lastId, idDate, acked>> /\ memory'.ids = {}
      /\ storing'.sent = {} /\ storing'.ok = {} /\ bucketTable' = bucketTable /\ streamData' = streamData
      /\ lostBuckets' = lostBuckets \cup {b \in memory.ids : bucketTable[memory.bucket[b].dateCreate].id # b}
    BY DEF Crash, StoreIdle, tables
<1>2. \A b \in BucketId : /\ SharesDate(b)' <=> SharesDate(b)
                          /\ Indexed(b)' <=> Indexed(b)
    BY <1>1 DEF SharesDate, Indexed
<1>3. \A b \in memory.ids : Indexed(b) \/ b \in lostBuckets'
    <2> SUFFICES ASSUME NEW b \in memory.ids PROVE Indexed(b) \/ b \in lostBuckets'
        OBVIOUS
    <2>1. memory.bucket[b].dateCreate = idDate[b] /\ memory.bucket[b].dateCreate \in Time
        BY DEF PlacementInv, DatesAgree, TypeOK, BucketTypeOK, HeapOK, Bucket
    <2>2. QED
        BY <1>1, <2>1, TimeType DEF Indexed, NoTime
<1>4. DatesFromCreation' /\ AckedIsStored' /\ SentAreUnstored' /\ OkIsCurrent' /\ StoredRowIsCurrent'
    BY <1>1 DEF IndexInv, DatesFromCreation, AckedIsStored, SentAreUnstored, OkIsCurrent, StoredRowIsCurrent
<1>5. NoBucketForgotten'
    BY <1>1, <1>2, <1>3 DEF IndexInv, NoBucketForgotten
<1>6. QED
    BY <1>4, <1>5 DEF IndexInv

\* The invariant suffices: a message in stream_data is in a bucket that was created.
LEMMA IndexSuffices == TypeOK /\ PlacementInv /\ IndexInv => RowsLeadToMessages
<1> SUFFICES ASSUME TypeOK, PlacementInv, IndexInv PROVE RowsLeadToMessages
    OBVIOUS
<1>1. \A m \in acked : \E b \in BucketId : <<b, m>> \in streamData
    BY DEF IndexInv, AckedIsStored
<1>2. ASSUME NEW row \in streamData
      PROVE  \/ Indexed(row[1])
             \/ row[1] \in memory.ids /\ ~memory.bucket[row[1]].stored
             \/ SharesDate(row[1])
             \/ row[1] \in lostBuckets
    <2>1. row[1] \in BucketId /\ row[1] <= lastId
        BY DEF PlacementInv, PlacedByDate, Placed, TypeOK, CassandraTypeOK
    <2>2. QED
        BY <2>1 DEF IndexInv, NoBucketForgotten, StoredRowIsCurrent
<1>3. QED
    BY <1>1, <1>2 DEF RowsLeadToMessages, StoredIsReachable, IndexInv

\* The rows of table bucket lead to the messages, for any messages, buckets, failures and crashes:
\* eviction loses no count, and a message in stream_data is left without a row only by a second
\* bucket of the same millisecond or a crash before the first UPDATE (storeBuckets, checkFullBuckets).
THEOREM RowsLeadToMessagesAlways == Spec => []RowsLeadToMessages
<1>1. Init => IndexInv
    <2> SUFFICES ASSUME Init PROVE IndexInv
        OBVIOUS
    <2>1. /\ memory.ids = {} /\ storing.sent = {} /\ storing.ok = {} /\ acked = {} /\ lastId = 0
          /\ \A b \in BucketId : idDate[b] = NoTime
        BY DEF Init, BucketInit, BatchInit, StoreIdle
    <2>2. \A b \in BucketId : ~(b <= 0)
        BY DEF BucketId
    <2>3. QED
        BY <2>1, <2>2 DEF IndexInv, DatesFromCreation, SentAreUnstored, OkIsCurrent, StoredRowIsCurrent,
                          NoBucketForgotten, AckedIsStored
<1>2. TypeOK /\ PlacementInv /\ IndexInv /\ [Next]_vars => IndexInv'
    <2> SUFFICES ASSUME TypeOK, PlacementInv, IndexInv, [Next]_vars PROVE IndexInv'
        OBVIOUS
    <2>1. ASSUME NEW message \in Message, MessageArrives(message) \/ RetryStore(message)
          PROVE  IndexInv'
        BY <2>1, StoreIndexes DEF MessageArrives, RetryStore
    <2>2. CASE UNCHANGED vars
        BY <2>2 DEF vars, tables, bucketVars, batchVars, storageVars, IndexInv, DatesFromCreation, SentAreUnstored,
                    OkIsCurrent, StoredRowIsCurrent, NoBucketForgotten, AckedIsStored, SharesDate, Indexed
    <2>3. QED
        BY <2>1, <2>2, CheckIndexes, StoreBucketsIndexes, ExpireIndexes, BatchesIndex, CrashIndexes DEF Next
<1>3. QED
    BY <1>1, <1>2, IndexSuffices, PlacementAlways, TypeCorrect, PTL DEF Spec
=============================================================================
