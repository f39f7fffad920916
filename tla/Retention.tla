------------------------------- MODULE Retention -------------------------------
(***************************************************************************)
(* packages/node/src/plugins/storage/RetentionScheduler.ts, runOnce(), and *)
(* DeleteExpiredCmd.ts: the three phases that delete stored data (expired  *)
(* buckets, expired rows of buckets in use, data of streams deleted on the *)
(* chain), cut at their awaits, while the write path goes on filling the   *)
(* same tables.                                                            *)
(*                                                                         *)
(* A stream has one part. Time is counted in the unit of storageDays. The  *)
(* write path is what the tables see of Storage: a message is counted in a *)
(* bucket in memory, and its row of stream_data and the bucket's row of    *)
(* bucket are written later, in either order.                              *)
(***************************************************************************)
EXTENDS Naturals, FiniteSets

CONSTANTS
    Stream,
    Bucket,                 \* the ids of the buckets
    StreamOf,               \* StreamOf[b]: the stream of bucket b
    DateCreate,             \* DateCreate[b]: the date of bucket b
    StorageDays,            \* StorageDays[s]: the storage days of stream s
    GraceDays,
    AbortFractionPercent,
    AbortMinStreams,
    BucketDeleteLimit,
    RowDeleteLimit,
    RegistryMayBeWrong,     \* TRUE: the node may be configured with a wrong RPC or registry
    Lateness,               \* how old a message may be when it arrives
    MaxTime,                \* bound: the clock
    MaxWrites,              \* bound: the messages written
    MaxFailures,            \* bound: the requests to Cassandra or the chain that fail
    MaxChanges              \* bound: deletions and creations of streams

Time == 0 .. MaxTime

ASSUME BucketsAssumption ==
    /\ StreamOf \in [Bucket -> Stream]
    /\ DateCreate \in [Bucket -> Time]
    /\ \A b, c \in Bucket : StreamOf[b] = StreamOf[c] /\ DateCreate[b] = DateCreate[c] => b = c
ASSUME StreamsAssumption == IsFiniteSet(Stream) /\ StorageDays \in [Stream -> Nat]
ASSUME RetentionAssumption ==
    /\ GraceDays \in Nat
    /\ AbortFractionPercent \in 1 .. 100
    /\ AbortMinStreams \in Nat \ {0}
    /\ BucketDeleteLimit \in Nat \ {0}
    /\ RowDeleteLimit \in Nat \ {0}
    /\ RegistryMayBeWrong \in BOOLEAN
ASSUME RetentionBounds ==
    /\ Lateness \in Nat
    /\ MaxTime \in Nat
    /\ MaxWrites \in Nat
    /\ MaxFailures \in Nat
    /\ MaxChanges \in Nat

VARIABLES
    now,
    exists,     \* the streams on the chain
    misled,     \* TRUE: the RPC or registry is the wrong one, every stream is "not found"
    rows,       \* the buckets with a row in table bucket
    data,       \* the rows of stream_data: <<bucket, timestamp>>
    created,    \* the buckets ever created
    writer,     \* writer[b]: the bucket in memory: "closed", "dirty" (not stored) or "stored"
    inFlight,   \* messages counted in a bucket and not yet in data
    run,        \* the progress of runOnce
    unseen,     \* rows inserted since retention last asked for MAX(ts) of their bucket (history)
    offChain,   \* the streams that were off the chain at some time during the run (history)
    bounds      \* the writes, failures and changes so far

tables == <<rows, data>>
writerVars == <<created, writer, inFlight>>
chainVars == <<exists, misled>>
vars == <<now, chainVars, tables, writerVars, run, unseen, offChain, bounds>>

Phase == {"idle", "info", "potential", "filter", "rows", "sweep", "classify", "orphans"}

\* streams, todo: the streams and buckets still to be dealt with; found: the buckets to
\* delete; at: the Date.now() of the phase; listed, gone, errors: the orphan sweep's
\* streams and those answered "deleted" and "error"; rowsDeleted: of the row sweep.
Idle == [phase |-> "idle", streams |-> {}, todo |-> {}, found |-> {}, at |-> 0,
         listed |-> {}, gone |-> {}, errors |-> {}, rowsDeleted |-> 0]

TypeOK ==
    /\ now \in Time
    /\ exists \subseteq Stream
    /\ misled \in BOOLEAN
    /\ created \subseteq Bucket
    /\ rows \subseteq created
    /\ data \subseteq created \X Time
    /\ writer \in [Bucket -> {"closed", "dirty", "stored"}]
    /\ inFlight \subseteq created \X Time
    /\ run \in [phase : Phase, streams : SUBSET Stream, todo : SUBSET Bucket, found : SUBSET Bucket,
                at : Time, listed : SUBSET Stream, gone : SUBSET Stream, errors : SUBSET Stream,
                rowsDeleted : 0 .. RowDeleteLimit]
    /\ run.at <= now
    /\ run.phase = "sweep" => Cardinality(run.found) = 1
    /\ unseen \subseteq created \X Time
    /\ offChain \subseteq Stream
    /\ bounds \in [writes : 0 .. MaxWrites, failures : 0 .. MaxFailures, changes : 0 .. MaxChanges]

Init ==
    /\ now = 0
    /\ exists = Stream
    /\ misled \in {FALSE, RegistryMayBeWrong}
    /\ rows = {}
    /\ data = {}
    /\ created = {}
    /\ writer = [b \in Bucket |-> "closed"]
    /\ inFlight = {}
    /\ run = Idle
    /\ unseen = {}
    /\ offChain = {}
    /\ bounds = [writes |-> 0, failures |-> 0, changes |-> 0]

RequestFails ==
    /\ bounds.failures < MaxFailures
    /\ bounds' = [bounds EXCEPT !.failures = @ + 1]

-----------------------------------------------------------------------------
(* Time, the chain and the write path *)

Tick ==
    /\ now < MaxTime
    /\ now' = now + 1
    /\ UNCHANGED <<chainVars, tables, writerVars, run, unseen, offChain, bounds>>

\* A stream is deleted from the chain, or created again.
ChangeStream(s) ==
    /\ bounds.changes < MaxChanges
    /\ bounds' = [bounds EXCEPT !.changes = @ + 1]
    /\ exists' = IF s \in exists THEN exists \ {s} ELSE exists \cup {s}
    /\ offChain' = offChain \cup (Stream \ exists')
    /\ UNCHANGED <<now, misled, tables, writerVars, run, unseen>>

\* A message is counted in a bucket: one in memory, one loaded from its row, or a new
\* one that gets the message's date.
CountMessage(b, t) ==
    /\ bounds.writes < MaxWrites
    /\ bounds' = [bounds EXCEPT !.writes = @ + 1]
    /\ now <= t + Lateness /\ t <= now
    /\ IF b \in created THEN DateCreate[b] <= t /\ (writer[b] # "closed" \/ b \in rows)
       ELSE DateCreate[b] = t
    /\ created' = created \cup {b}
    /\ writer' = [writer EXCEPT ![b] = "dirty"]
    /\ inFlight' = inFlight \cup {<<b, t>>}
    /\ UNCHANGED <<now, chainVars, tables, run, unseen, offChain>>

\* The batch with the message is inserted.
InsertMessage(b, t) ==
    /\ <<b, t>> \in inFlight
    /\ inFlight' = inFlight \ {<<b, t>>}
    /\ data' = data \cup {<<b, t>>}
    /\ unseen' = unseen \cup {<<b, t>>}
    /\ UNCHANGED <<now, chainVars, rows, created, writer, run, offChain, bounds>>

\* storeBuckets: the UPDATE of the bucket's row.
StoreBucket(b) ==
    /\ writer[b] = "dirty"
    /\ writer' = [writer EXCEPT ![b] = "stored"]
    /\ rows' = rows \cup {b}
    /\ UNCHANGED <<now, chainVars, data, created, inFlight, run, unseen, offChain, bounds>>

\* storeBuckets: an idle bucket leaves memory.
RemoveBucket(b) ==
    /\ writer[b] = "stored"
    /\ writer' = [writer EXCEPT ![b] = "closed"]
    /\ UNCHANGED <<now, chainVars, tables, created, inFlight, run, unseen, offChain, bounds>>

-----------------------------------------------------------------------------
(* Queries *)

\* SELECT DISTINCT stream_id, partition FROM bucket
ListStreamParts == {StreamOf[b] : b \in rows}

\* ... WHERE date_create <= cutoff (a cutoff before time 0 selects nothing)
DatedBefore(b, at) == DateCreate[b] + StorageDays[StreamOf[b]] <= at

Expired(b, t, at) == t + StorageDays[StreamOf[b]] < at

ExpiredRows(b, at) == {row \in data : row[1] = b /\ Expired(b, row[2], at)}

\* The rows of a bucket that a DELETE FROM stream_data ... bucket_id = ? removes.
RowsOf(b) == {row \in data : row[1] = b}

\* Seeded fault: the oldest message decides.
OldestExpired(b, at) == RowsOf(b) = {} \/ \E row \in RowsOf(b) : Expired(b, row[2], at)

\* MAX(ts) of the bucket is null or past.
NewestExpired(b, at) == \A row \in RowsOf(b) : Expired(b, row[2], at)

\* MAX(ts), or date_create if there is none, is GraceDays old.
PastGrace(b, at) ==
    IF RowsOf(b) = {} THEN DateCreate[b] + GraceDays <= at
    ELSE \A row \in RowsOf(b) : row[2] + GraceDays <= at

\* Seeded fault: the bucket's messages are left in stream_data.
DeleteBucketRow(b) ==
    /\ rows' = rows \ {b}
    /\ UNCHANGED data

\* DELETE FROM bucket and DELETE FROM stream_data in one batch.
DeleteBucket(b) ==
    /\ rows' = rows \ {b}
    /\ data' = data \ RowsOf(b)

\* The answer to MAX(ts) covers the rows inserted so far.
Seen(b) == unseen' = {row \in unseen : row[1] # b}

\* getStream() answers: an existing stream is found; a deleted one is not, or is still
\* in the metadata cache; with a wrong registry none is.
Found(s) == s \in exists /\ ~misled
NotFound(s) == s \notin exists \/ misled
Cached(s) == s \notin exists /\ ~misled

-----------------------------------------------------------------------------
(* Phase 1: DeleteExpiredCmd *)

StartRun ==
    /\ run.phase = "idle"
    /\ run' = [Idle EXCEPT !.phase = "info", !.streams = ListStreamParts]
    /\ offChain' = Stream \ exists
    /\ UNCHANGED <<now, chainVars, tables, writerVars, unseen, bounds>>

\* fetchStreamsInfo, and storageDaysOf: streams that are not found or that fail are
\* skipped.
StreamsInfo(streams, known) ==
    /\ known \subseteq {s \in streams : Found(s) \/ Cached(s)}
    /\ IF {s \in streams : Found(s)} \subseteq known THEN UNCHANGED bounds ELSE RequestFails

FetchStreamsInfo(known) ==
    /\ run.phase = "info"
    /\ StreamsInfo(run.streams, known)
    /\ run' = [run EXCEPT !.phase = "potential", !.streams = known]
    /\ UNCHANGED <<now, chainVars, tables, writerVars, unseen, offChain>>

\* potentialBuckets.slice(0, bucketLimit): the streams in any order, a stream's
\* buckets newest first.
Slices(buckets) ==
    {cut \in SUBSET buckets :
        /\ Cardinality(cut) = IF Cardinality(buckets) < BucketDeleteLimit
                              THEN Cardinality(buckets) ELSE BucketDeleteLimit
        /\ \A b \in cut, c \in buckets :
              StreamOf[b] = StreamOf[c] /\ DateCreate[c] > DateCreate[b] => c \in cut
        /\ \A b, c \in cut : \A d, e \in buckets \ cut :
              StreamOf[b] = StreamOf[d] /\ StreamOf[c] = StreamOf[e] => StreamOf[b] = StreamOf[c]}

\* A stream whose query fails is skipped.
GetPotentiallyExpiredBuckets(answered) ==
    /\ run.phase = "potential"
    /\ answered \subseteq run.streams
    /\ IF answered = run.streams THEN UNCHANGED bounds ELSE RequestFails
    /\ \E cut \in Slices({b \in rows : StreamOf[b] \in answered /\ DatedBefore(b, now)}) :
          run' = [run EXCEPT !.phase = "filter", !.streams = {}, !.todo = cut, !.at = now]
    /\ UNCHANGED <<now, chainVars, tables, writerVars, unseen, offChain>>

FilterExpiredBucket(b) ==
    /\ run.phase = "filter"
    /\ b \in run.todo
    /\ run' = [run EXCEPT !.todo = @ \ {b},
                          !.found = IF NewestExpired(b, run.at) THEN @ \cup {b} ELSE @]
    /\ Seen(b)
    /\ UNCHANGED <<now, chainVars, tables, writerVars, offChain, bounds>>

\* The query fails: the bucket is left for a later run.
FilterFails(b) ==
    /\ run.phase = "filter"
    /\ b \in run.todo
    /\ RequestFails
    /\ run' = [run EXCEPT !.todo = @ \ {b}]
    /\ UNCHANGED <<now, chainVars, tables, writerVars, unseen, offChain>>

DeleteExpired(b) ==
    /\ run.phase = "filter"
    /\ run.todo = {}
    /\ b \in run.found
    /\ run' = [run EXCEPT !.found = @ \ {b}]
    /\ \/ DeleteBucket(b) /\ UNCHANGED bounds
       \/ RequestFails /\ (DeleteBucket(b) \/ UNCHANGED tables)     \* logged
    /\ UNCHANGED <<now, chainVars, writerVars, unseen, offChain>>

-----------------------------------------------------------------------------
(* Phase 2: rowSweep *)

RowSweepStarts(known) ==
    /\ run.phase = "filter"
    /\ run.todo = {}
    /\ run.found = {}
    /\ StreamsInfo(ListStreamParts, known)
    /\ run' = [Idle EXCEPT !.phase = "rows", !.streams = known]
    /\ UNCHANGED <<now, chainVars, tables, writerVars, unseen, offChain>>

\* The next stream part, with a cutoff of its own; at the limit the loop breaks.
SweepStreamPart(s) ==
    /\ run.phase = "rows"
    /\ run.todo = {}
    /\ s \in run.streams
    /\ run' = IF run.rowsDeleted >= RowDeleteLimit THEN [run EXCEPT !.streams = {}]
              ELSE [run EXCEPT !.streams = @ \ {s}, !.at = now,
                               !.todo = {b \in rows : StreamOf[b] = s /\ DatedBefore(b, now)}]
    /\ UNCHANGED <<now, chainVars, tables, writerVars, unseen, offChain, bounds>>

NewestOf(buckets) == CHOOSE b \in buckets : \A c \in buckets : DateCreate[c] <= DateCreate[b]

\* Seeded fault: a bucket without expired rows ends the phase.
CountExpiredRowsStops ==
    /\ run.phase = "rows"
    /\ run.todo # {}
    /\ LET b == NewestOf(run.todo)
           count == Cardinality(ExpiredRows(b, run.at))
       IN  run' = IF run.rowsDeleted + count > RowDeleteLimit \/ count = 0
                  THEN [run EXCEPT !.todo = {}, !.streams = {}]
                  ELSE [run EXCEPT !.phase = "sweep", !.todo = @ \ {b}, !.found = {b},
                                   !.rowsDeleted = @ + count]
    /\ UNCHANGED <<now, chainVars, tables, writerVars, unseen, offChain, bounds>>

\* COUNT(*): a bucket that would exceed the limit ends the phase.
CountExpiredRows ==
    /\ run.phase = "rows"
    /\ run.todo # {}
    /\ LET b == NewestOf(run.todo)
           count == Cardinality(ExpiredRows(b, run.at))
       IN  run' = IF run.rowsDeleted + count > RowDeleteLimit
                  THEN [run EXCEPT !.todo = {}, !.streams = {}]
                  ELSE IF count = 0 THEN [run EXCEPT !.todo = @ \ {b}]
                  ELSE [run EXCEPT !.phase = "sweep", !.todo = @ \ {b}, !.found = {b},
                                   !.rowsDeleted = @ + count]
    /\ UNCHANGED <<now, chainVars, tables, writerVars, unseen, offChain, bounds>>

\* DELETE ... ts < cutoff; if it fails, the run does.
DeleteExpiredRows(b) ==
    /\ run.phase = "sweep"
    /\ b \in run.found
    /\ data' = data \ ExpiredRows(b, run.at)
    /\ \/ run' = [run EXCEPT !.phase = "rows", !.found = {}] /\ UNCHANGED bounds
       \/ run' = Idle /\ RequestFails
    /\ UNCHANGED <<now, chainVars, rows, writerVars, unseen, offChain>>

-----------------------------------------------------------------------------
(* Phase 3: orphanSweep *)

OrphanSweepStarts ==
    /\ run.phase = "rows"
    /\ run.streams = {}
    /\ run.todo = {}
    /\ run' = [Idle EXCEPT !.phase = "classify", !.streams = ListStreamParts, !.listed = ListStreamParts]
    /\ UNCHANGED <<now, chainVars, tables, writerVars, unseen, offChain, bounds>>

Classify(s) ==
    /\ run.phase = "classify"
    /\ s \in run.streams
    /\ LET rest == [run EXCEPT !.streams = @ \ {s}]
       IN  \/ (Found(s) \/ Cached(s)) /\ run' = rest /\ UNCHANGED bounds
           \/ NotFound(s) /\ run' = [rest EXCEPT !.gone = @ \cup {s}] /\ UNCHANGED bounds
           \/ run' = [rest EXCEPT !.errors = @ \cup {s}] /\ RequestFails    \* three times
    /\ UNCHANGED <<now, chainVars, tables, writerVars, unseen, offChain>>

\* An error, or too large a share of deleted streams, aborts the sweep.
Suspicious(listed, gone) ==
    /\ Cardinality(listed) >= AbortMinStreams
    /\ Cardinality(gone) * 100 > AbortFractionPercent * Cardinality(listed)

Classified ==
    /\ run.phase = "classify"
    /\ run.streams = {}
    /\ run' = IF run.errors # {} \/ Suspicious(run.listed, run.gone) \/ run.gone = {} THEN Idle
              ELSE [run EXCEPT !.phase = "orphans", !.streams = run.gone, !.at = now]
    /\ UNCHANGED <<now, chainVars, tables, writerVars, unseen, offChain, bounds>>

SelectOrphanBuckets(s) ==
    /\ run.phase = "orphans"
    /\ run.todo = {}
    /\ s \in run.streams
    /\ run' = [run EXCEPT !.streams = @ \ {s}, !.todo = {b \in rows : StreamOf[b] = s}]
    /\ UNCHANGED <<now, chainVars, tables, writerVars, unseen, offChain, bounds>>

\* At bucketDeleteLimit candidates the loop over the part's buckets breaks.
CheckOrphanBucket ==
    /\ run.phase = "orphans"
    /\ run.todo # {}
    /\ LET b == NewestOf(run.todo)
       IN  IF Cardinality(run.found) >= BucketDeleteLimit
           THEN run' = [run EXCEPT !.todo = {}] /\ UNCHANGED unseen
           ELSE /\ run' = [run EXCEPT !.todo = @ \ {b},
                                      !.found = IF PastGrace(b, run.at) THEN @ \cup {b} ELSE @]
                /\ Seen(b)
    /\ UNCHANGED <<now, chainVars, tables, writerVars, offChain, bounds>>

OrphansListed == run.phase = "orphans" /\ run.streams = {} /\ run.todo = {}

\* If the batch of deletes fails, the run does.
DeleteOrphan(b) ==
    /\ OrphansListed
    /\ b \in run.found
    /\ DeleteBucket(b)
    /\ \/ run' = [run EXCEPT !.found = @ \ {b}] /\ UNCHANGED bounds
       \/ run' = Idle /\ RequestFails
    /\ UNCHANGED <<now, chainVars, writerVars, unseen, offChain>>

RunEnds ==
    /\ OrphansListed
    /\ run.found = {}
    /\ run' = Idle
    /\ UNCHANGED <<now, chainVars, tables, writerVars, unseen, offChain, bounds>>

\* Any other request of phases 2 and 3 fails, and with it the run.
RunFails ==
    /\ \/ run.phase \in {"rows", "sweep", "orphans"}
       \/ run.phase = "filter" /\ run.todo = {} /\ run.found = {}
    /\ RequestFails
    /\ run' = Idle
    /\ UNCHANGED <<now, chainVars, tables, writerVars, unseen, offChain>>

-----------------------------------------------------------------------------
WritePath ==
    \/ \E b \in Bucket, t \in Time : CountMessage(b, t) \/ InsertMessage(b, t)
    \/ \E b \in Bucket : StoreBucket(b) \/ RemoveBucket(b)

RunOnce ==
    \/ \E known \in SUBSET Stream : \/ FetchStreamsInfo(known) \/ RowSweepStarts(known)
                                    \/ GetPotentiallyExpiredBuckets(known)
    \/ \E b \in Bucket : \/ FilterExpiredBucket(b) \/ FilterFails(b) \/ DeleteExpired(b)
                         \/ DeleteExpiredRows(b) \/ DeleteOrphan(b)
    \/ \E s \in Stream : SweepStreamPart(s) \/ Classify(s) \/ SelectOrphanBuckets(s)
    \/ CountExpiredRows
    \/ OrphanSweepStarts
    \/ Classified
    \/ CheckOrphanBucket
    \/ RunEnds
    \/ RunFails

Next ==
    \/ Tick
    \/ \E s \in Stream : ChangeStream(s)
    \/ WritePath
    \/ StartRun
    \/ RunOnce

Spec == Init /\ [][Next]_vars

\* A run is started at every interval, and goes on.
FairSpec == Spec /\ WF_vars(StartRun) /\ WF_vars(RunOnce)

-----------------------------------------------------------------------------
(* Properties *)

\* Retention deletes expired messages only, and messages of streams deleted on the
\* chain for GraceDays; the single exception is a message inserted after retention
\* had asked for the newest message of its bucket (filterExpiredBuckets, rowSweep,
\* orphanSweep). A wrong registry, for which no stream exists, does no harm on a node
\* with AbortMinStreams streams or more, unless abortFractionPercent is 100: no fraction
\* exceeds that, and the guard is off.
DeletesAreJustified ==
    [][\A row \in data \ data' :
          \/ Expired(row[1], row[2], now)
          \/ row \in unseen
          \/ /\ run.phase = "orphans"
             /\ row[2] + GraceDays <= now
             /\ \/ StreamOf[row[1]] \in offChain
                \/ misled /\ (Cardinality(run.listed) < AbortMinStreams \/ AbortFractionPercent = 100)]_vars

\* A message can be found through its bucket's row, or the row is about to be written;
\* retention leaves only messages behind that were inserted after it had looked at the
\* bucket: their bucket's row is gone, and the bucket in memory counts as stored.
OnlyUnseenAreStranded ==
    \A row \in data : row[1] \in rows \/ writer[row[1]] = "dirty" \/ row \in unseen

\* Bucket retention deletes "whole buckets whose newest message is past the stream's
\* storageDays" (the header of RetentionScheduler).
WholeBucketsPast ==
    [][run.phase = "filter" => \A row \in data \ data' : Expired(row[1], row[2], now)]_vars

\* "prune stored data past each stream's storageDays": an expired message of a stream
\* on the chain is deleted in the end, by the bucket retention or, where that is held
\* up by bucketDeleteLimit or by newer messages, by the row sweep. It needs a
\* rowDeleteLimit of at least the expired rows that one bucket can have: a bucket
\* with more, kept in use, stops every row sweep at the same place.
EventuallyPruned ==
    \A b \in Bucket, t \in Time :
        (<<b, t>> \in data /\ b \in rows /\ Expired(b, t, now))
            ~> (<<b, t>> \notin data \/ b \notin rows \/ StreamOf[b] \notin exists \/ misled)
=============================================================================
