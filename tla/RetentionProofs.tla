-------------------------- MODULE RetentionProofs --------------------------
(* What is proved of retention, for any streams, buckets, limits, registry and failures: its  *)
(* types, what it strands and what it deletes (Retention.OnlyUnseenAreStranded and            *)
(* DeletesAreJustified). The inductive invariant says, phase by phase, what a run knows of    *)
(* the buckets it has looked at.                                                              *)
EXTENDS Retention, FiniteSetTheorems, WellFoundedInduction, TLAPS

\* Whole buckets are deleted in these phases, after their newest message was asked for.
InFilter == run.phase = "filter"
InOrphans == run.phase = "orphans"

\* The buckets still to be looked at have their rows: only retention deletes rows, and it does
\* so after it has looked at all of them.
LookedAtInRows == InFilter \/ InOrphans => run.todo \subseteq rows /\ run.todo \cap run.found = {}

\* Of a bucket found by the bucket retention, every message is expired or unseen.
FoundExpired ==
    InFilter => \A b \in run.found : \A row \in RowsOf(b) : Expired(b, row[2], run.at) \/ row \in unseen

\* Of a bucket found by the orphan sweep, every message is past the grace time or unseen, and
\* its stream was answered "deleted" and is dealt with.
FoundOrphaned ==
    InOrphans =>
        /\ run.streams \subseteq run.gone
        /\ \A b \in run.todo \cup run.found : StreamOf[b] \in run.gone \ run.streams
        /\ \A b \in run.found : \A row \in RowsOf(b) : row[2] + GraceDays <= run.at \/ row \in unseen

\* A stream is answered "deleted" if it was off the chain during the run, or by a wrong registry.
GoneWereOff ==
    /\ run.phase # "idle" => Stream \ exists \subseteq offChain
    /\ run.gone \subseteq offChain \/ misled

\* A wrong registry answers "deleted" for every stream, which the guard notices.
MisledIsNoticed ==
    misled =>
        /\ run.phase = "classify" => run.streams \cup run.gone \cup run.errors = run.listed
        /\ InOrphans => Cardinality(run.listed) < AbortMinStreams \/ AbortFractionPercent = 100

\* A bucket in memory was created, and there are finitely many messages.
WrittenSoFar == IsFiniteSet(data) /\ \A b \in Bucket : writer[b] # "closed" => b \in created

\* A phase that looks at buckets starts with none.
NothingFoundYet ==
    /\ run.phase \in {"info", "potential", "classify"} => run.todo = {} /\ run.found = {}
    /\ run.phase = "rows" => run.found = {}

\* The inductive invariant.
RetentionInv ==
    /\ WrittenSoFar /\ NothingFoundYet /\ LookedAtInRows /\ FoundExpired /\ FoundOrphaned /\ GoneWereOff
    /\ MisledIsNoticed /\ OnlyUnseenAreStranded

-----------------------------------------------------------------------------
\* A set of naturals that is not empty has a least element.
LEMMA LeastExists ==
    ASSUME NEW T \in SUBSET Nat, T # {}
    PROVE  \E x \in T : \A y \in T : x <= y
<1>1. IsWellFoundedOn(OpToRel(<, Nat), Nat)
    BY NatLessThanWellFounded
<1>2. PICK x \in T : \A y \in T : ~(<<y, x>> \in OpToRel(<, Nat))
    BY <1>1, WFMin
<1>3. \A y \in T : ~(y < x)
    BY <1>2 DEF OpToRel
<1>4. QED
    BY <1>3

\* Among buckets there is a newest one.
LEMMA NewestExists ==
    ASSUME NEW buckets \in SUBSET Bucket, buckets # {}
    PROVE  NewestOf(buckets) \in buckets
<1> DEFINE T == {MaxTime - DateCreate[b] : b \in buckets}
<1>1. \A b \in buckets : DateCreate[b] \in Nat /\ DateCreate[b] <= MaxTime
    BY BucketsAssumption, RetentionBounds DEF Time
<1>2. T \in SUBSET Nat /\ T # {}
    BY <1>1, RetentionBounds
<1>3. PICK x \in T : \A y \in T : x <= y
    BY <1>2, LeastExists
<1>4. PICK b \in buckets : x = MaxTime - DateCreate[b]
    BY <1>3
<1>5. ASSUME NEW c \in buckets PROVE DateCreate[c] <= DateCreate[b]
    <2>1. MaxTime - DateCreate[b] <= MaxTime - DateCreate[c]
        BY <1>3, <1>4
    <2>2. QED
        BY <1>1, <2>1, RetentionBounds
<1>6. QED
    BY <1>4, <1>5 DEF NewestOf

-----------------------------------------------------------------------------
\* The progress of a run, as TypeOK has it.
RunType == [phase : Phase, streams : SUBSET Stream, todo : SUBSET Bucket, found : SUBSET Bucket,
            at : Time, listed : SUBSET Stream, gone : SUBSET Stream, errors : SUBSET Stream,
            rowsDeleted : 0 .. RowDeleteLimit]

\* No run in progress is a run of this type.
LEMMA IdleType == Idle \in RunType /\ 0 \in Time
BY RetentionAssumption, RetentionBounds DEF Idle, RunType, Phase, Time

\* listStreamParts returns streams: every row of the bucket table names one.
LEMMA ListedType == TypeOK => ListStreamParts \subseteq Stream
BY BucketsAssumption DEF TypeOK, ListStreamParts

\* The bounds of the model are kept.
LEMMA BoundsKept ==
    ASSUME TypeOK, RequestFails \/ UNCHANGED bounds
    PROVE  bounds' \in [writes : 0 .. MaxWrites, failures : 0 .. MaxFailures, changes : 0 .. MaxChanges]
BY RetentionBounds DEF TypeOK, RequestFails

\* A step of a run keeps the types of its progress: its clock is not ahead, and the row sweep
\* deletes from one bucket at a time and stays within rowDeleteLimit.
LEMMA RunKept == TypeOK /\ WrittenSoFar /\ RunOnce =>
                    /\ run' \in RunType /\ run'.at <= now
                    /\ run'.phase = "sweep" => Cardinality(run'.found) = 1
<1> SUFFICES ASSUME TypeOK, WrittenSoFar, RunOnce
             PROVE  /\ run' \in RunType /\ run'.at <= now
                    /\ run'.phase = "sweep" => Cardinality(run'.found) = 1
    OBVIOUS
<1>0. /\ run \in RunType /\ Idle \in RunType /\ 0 \in Time /\ ListStreamParts \subseteq Stream /\ now \in Time /\ now \in Nat
      /\ Idle.at = 0 /\ Idle.phase = "idle" /\ run.at <= now /\ rows \subseteq Bucket /\ RowDeleteLimit \in Nat
    BY IdleType, ListedType, RetentionBounds, RetentionAssumption DEF TypeOK, RunType, Time, Idle
<1> DEFINE Goal == /\ run' \in RunType /\ run'.at <= now
                   /\ run'.phase = "sweep" => Cardinality(run'.found) = 1
<1> USE DEF RunType, Phase
<1>1. ASSUME NEW known \in SUBSET Stream, FetchStreamsInfo(known) PROVE  Goal
    BY <1>0, <1>1 DEF FetchStreamsInfo
<1>2. ASSUME NEW known \in SUBSET Stream, GetPotentiallyExpiredBuckets(known) PROVE  Goal
    <2>1. PICK cut \in SUBSET Bucket : run' = [run EXCEPT !.phase = "filter", !.streams = {}, !.todo = cut, !.at = now]
        BY <1>0, <1>2 DEF GetPotentiallyExpiredBuckets, Slices
    <2>2. run' \in RunType
        BY <1>0, <2>1
    <2>3. run'.at = now /\ run'.phase = "filter"
        BY <1>0, <2>1
    <2>4. QED
        BY <1>0, <2>2, <2>3
<1>3. ASSUME NEW b \in Bucket, FilterExpiredBucket(b) PROVE  Goal
    BY <1>0, <1>3 DEF FilterExpiredBucket
<1>4. ASSUME NEW b \in Bucket, FilterFails(b) PROVE  Goal
    BY <1>0, <1>4 DEF FilterFails
<1>5. ASSUME NEW b \in Bucket, DeleteExpired(b) PROVE  Goal
    BY <1>0, <1>5 DEF DeleteExpired
<1>6. ASSUME NEW known \in SUBSET Stream, RowSweepStarts(known) PROVE  Goal
    <2>1. run' = [Idle EXCEPT !.phase = "rows", !.streams = known]
        BY <1>6 DEF RowSweepStarts
    <2>2. run' \in RunType
        BY <1>0, <2>1
    <2>3. run'.at = 0 /\ run'.phase = "rows"
        BY <1>0, <2>1
    <2>4. QED
        BY <1>0, <2>2, <2>3
<1>7. ASSUME NEW s \in Stream, SweepStreamPart(s) PROVE  Goal
    <2>1. CASE run' = [run EXCEPT !.streams = {}]
        BY <1>0, <1>7, <2>1 DEF SweepStreamPart
    <2>2. CASE run' = [run EXCEPT !.streams = @ \ {s}, !.at = now,
                                  !.todo = {b \in rows : StreamOf[b] = s /\ DatedBefore(b, now)}]
        <3>1. run' \in RunType
            BY <1>0, <2>2
        <3>2. run'.at = now /\ run'.phase = "rows"
            BY <1>0, <1>7, <2>2 DEF SweepStreamPart
        <3>3. QED
            BY <1>0, <3>1, <3>2
    <2>3. QED
        BY <1>7, <2>1, <2>2 DEF SweepStreamPart
<1>8. CASE CountExpiredRows
    <2> DEFINE b == NewestOf(run.todo)
               count == Cardinality(ExpiredRows(b, run.at))
    <2>1. b \in run.todo /\ run.phase = "rows"
        BY <1>0, <1>8, NewestExists DEF CountExpiredRows
    <2>2. count \in Nat
        <3>1. IsFiniteSet(ExpiredRows(b, run.at))
            BY FS_Subset DEF ExpiredRows, WrittenSoFar
        <3>2. QED
            BY <3>1, FS_CardinalityType
    <2>3. \/ run' = [run EXCEPT !.todo = {}, !.streams = {}]
          \/ run' = [run EXCEPT !.todo = @ \ {b}]
          \/ /\ ~(run.rowsDeleted + count > RowDeleteLimit)
             /\ run' = [run EXCEPT !.phase = "sweep", !.todo = @ \ {b}, !.found = {b}, !.rowsDeleted = @ + count]
        BY <1>8 DEF CountExpiredRows
    <2> HIDE DEF b, count
    <2>4. CASE run' = [run EXCEPT !.todo = {}, !.streams = {}]
        BY <1>0, <2>1, <2>4
    <2>5. CASE run' = [run EXCEPT !.todo = @ \ {b}]
        BY <1>0, <2>1, <2>5
    <2>6. CASE /\ ~(run.rowsDeleted + count > RowDeleteLimit)
               /\ run' = [run EXCEPT !.phase = "sweep", !.todo = @ \ {b}, !.found = {b}, !.rowsDeleted = @ + count]
        <3>1. run.rowsDeleted + count \in 0 .. RowDeleteLimit
            BY <1>0, <2>2, <2>6
        <3>2. QED
            BY <1>0, <2>1, <2>6, <3>1, FS_Singleton
    <2>7. QED
        BY <2>3, <2>4, <2>5, <2>6
<1>9. ASSUME NEW b \in Bucket, DeleteExpiredRows(b) PROVE  Goal
    <2>1. CASE run' = Idle
        BY <1>0, <2>1
    <2>2. CASE run' = [run EXCEPT !.phase = "rows", !.found = {}]
        BY <1>0, <2>2
    <2>3. QED
        BY <1>9, <2>1, <2>2 DEF DeleteExpiredRows
<1>10. CASE OrphanSweepStarts
    <2>1. run' = [Idle EXCEPT !.phase = "classify", !.streams = ListStreamParts, !.listed = ListStreamParts]
        BY <1>10 DEF OrphanSweepStarts
    <2>2. run' \in RunType
        BY <1>0, <2>1
    <2>3. run'.at = 0 /\ run'.phase = "classify"
        BY <1>0, <2>1
    <2>4. QED
        BY <1>0, <2>2, <2>3
<1>11. ASSUME NEW s \in Stream, Classify(s) PROVE  Goal
    <2> DEFINE rest == [run EXCEPT !.streams = @ \ {s}]
    <2>1. \/ run' = rest
          \/ run' = [rest EXCEPT !.gone = @ \cup {s}]
          \/ run' = [rest EXCEPT !.errors = @ \cup {s}]
        BY <1>11 DEF Classify
    <2>2. rest \in RunType
        BY <1>0
    <2>3. rest.phase = "classify" /\ rest.at = run.at
        <3>1. run.phase = "classify"
            BY <1>11 DEF Classify
        <3>2. QED
            BY <1>0, <3>1
    <2> HIDE DEF rest
    <2>4. QED
        BY <1>0, <2>1, <2>2, <2>3
<1>12. CASE Classified
    <2>1. CASE run' = Idle
        BY <1>0, <2>1
    <2>2. CASE run' = [run EXCEPT !.phase = "orphans", !.streams = run.gone, !.at = now]
        <3>1. run' \in RunType
            BY <1>0, <2>2
        <3>2. run'.at = now /\ run'.phase = "orphans"
            BY <1>0, <2>2
        <3>3. QED
            BY <1>0, <3>1, <3>2
    <2>3. QED
        BY <1>12, <2>1, <2>2 DEF Classified
<1>13. ASSUME NEW s \in Stream, SelectOrphanBuckets(s) PROVE  Goal
    BY <1>0, <1>13 DEF SelectOrphanBuckets
<1>14. CASE CheckOrphanBucket
    <2> DEFINE b == NewestOf(run.todo)
    <2>1. b \in run.todo /\ run.phase = "orphans"
        BY <1>0, <1>14, NewestExists DEF CheckOrphanBucket
    <2>2. \/ run' = [run EXCEPT !.todo = {}]
          \/ \E more \in {{}, {b}} : run' = [run EXCEPT !.todo = @ \ {b}, !.found = @ \cup more]
        <3>1. CASE run' = [run EXCEPT !.todo = {}]
            BY <3>1
        <3>2. CASE run' = [run EXCEPT !.todo = @ \ {b}, !.found = IF PastGrace(b, run.at) THEN @ \cup {b} ELSE @]
            BY <3>2
        <3>3. QED
            BY <1>14, <3>1, <3>2 DEF CheckOrphanBucket
    <2> HIDE DEF b
    <2>3. CASE run' = [run EXCEPT !.todo = {}]
        BY <1>0, <2>1, <2>3
    <2>4. ASSUME NEW more \in {{}, {b}}, run' = [run EXCEPT !.todo = @ \ {b}, !.found = @ \cup more] PROVE Goal
        <3>1. more \subseteq Bucket
            BY <1>0, <2>1, <2>4
        <3>2. run' \in RunType
            BY <1>0, <2>4, <3>1
        <3>3. run'.at = run.at /\ run'.phase = "orphans"
            BY <1>0, <2>1, <2>4
        <3>4. QED
            BY <1>0, <3>2, <3>3
    <2>5. QED
        BY <2>2, <2>3, <2>4
<1>15. ASSUME NEW b \in Bucket, DeleteOrphan(b) PROVE  Goal
    BY <1>0, <1>15 DEF DeleteOrphan, OrphansListed
<1>16. CASE RunEnds \/ RunFails
    BY <1>0, <1>16 DEF RunEnds, RunFails
<1>17. QED
    BY <1>1, <1>2, <1>3, <1>4, <1>5, <1>6, <1>7, <1>8, <1>9, <1>10, <1>11, <1>12, <1>13, <1>14, <1>15, <1>16 DEF RunOnce

\* Every step keeps the types.
LEMMA RetentionTypes == TypeOK /\ WrittenSoFar /\ [Next]_vars => TypeOK'
<1> SUFFICES ASSUME TypeOK, WrittenSoFar, [Next]_vars
             PROVE  TypeOK'
    OBVIOUS
<1>0. run \in RunType /\ Idle \in RunType /\ 0 \in Time /\ ListStreamParts \subseteq Stream /\ now \in Nat
    BY IdleType, ListedType, RetentionBounds DEF TypeOK, RunType, Time
<1> USE DEF TypeOK, chainVars, tables, writerVars
<1>1. CASE Tick
    BY <1>1, RetentionBounds DEF Tick, Time
<1>2. ASSUME NEW s \in Stream, ChangeStream(s) PROVE TypeOK'
    BY <1>2, RetentionBounds DEF ChangeStream
<1>3. ASSUME NEW b \in Bucket, NEW t \in Time, CountMessage(b, t) PROVE TypeOK'
    BY <1>3, RetentionBounds DEF CountMessage
<1>4. ASSUME NEW b \in Bucket, NEW t \in Time, InsertMessage(b, t) PROVE TypeOK'
    BY <1>4 DEF InsertMessage
<1>5. ASSUME NEW b \in Bucket, StoreBucket(b) \/ RemoveBucket(b) PROVE TypeOK'
    BY <1>5 DEF StoreBucket, RemoveBucket, WrittenSoFar
<1>6. CASE StartRun
    <2>1. run' = [phase |-> "info", streams |-> ListStreamParts, todo |-> {}, found |-> {}, at |-> 0,
                  listed |-> {}, gone |-> {}, errors |-> {}, rowsDeleted |-> 0]
        BY <1>6 DEF StartRun, Idle
    <2>2. run' \in RunType /\ run'.at = 0 /\ run'.phase = "info"
        BY <1>0, <2>1, RetentionAssumption DEF RunType, Phase
    <2>3. QED
        BY <1>0, <1>6, <2>2 DEF StartRun, RunType
<1>7. CASE UNCHANGED vars
    BY <1>7 DEF vars
<1>8. CASE RunOnce
    <2>1. UNCHANGED <<now, exists, misled, created, writer, inFlight, offChain>>
        BY <1>8 DEF RunOnce, FetchStreamsInfo, RowSweepStarts, GetPotentiallyExpiredBuckets, FilterExpiredBucket,
           FilterFails, DeleteExpired, DeleteExpiredRows, DeleteOrphan, SweepStreamPart, Classify, SelectOrphanBuckets,
           CountExpiredRows, OrphanSweepStarts, Classified, CheckOrphanBucket, RunEnds, RunFails
    <2>2. rows' \subseteq rows /\ data' \subseteq data /\ unseen' \subseteq unseen
        BY <1>8 DEF RunOnce, FetchStreamsInfo, RowSweepStarts, GetPotentiallyExpiredBuckets, FilterExpiredBucket,
           FilterFails, DeleteExpired, DeleteExpiredRows, DeleteOrphan, SweepStreamPart, Classify, SelectOrphanBuckets,
           CountExpiredRows, OrphanSweepStarts, Classified, CheckOrphanBucket, RunEnds, RunFails, DeleteBucket, Seen
    <2>3. RequestFails \/ UNCHANGED bounds
        BY <1>8 DEF RunOnce, FetchStreamsInfo, RowSweepStarts, GetPotentiallyExpiredBuckets, FilterExpiredBucket,
           FilterFails, DeleteExpired, DeleteExpiredRows, DeleteOrphan, SweepStreamPart, Classify, SelectOrphanBuckets,
           CountExpiredRows, OrphanSweepStarts, Classified, CheckOrphanBucket, RunEnds, RunFails, StreamsInfo
    <2>4. QED
        BY <1>8, <2>1, <2>2, <2>3, RunKept, BoundsKept DEF RunType
<1>9. QED
    BY <1>1, <1>2, <1>3, <1>4, <1>5, <1>6, <1>7, <1>8 DEF Next, WritePath

-----------------------------------------------------------------------------
\* Every step keeps the inductive invariant. The steps that matter are the ones that look at a
\* bucket (FilterExpiredBucket, CheckOrphanBucket), the ones that delete it later, and Classified,
\* where the guard against a wrong registry stands.
LEMMA RetentionStep == TypeOK /\ RetentionInv /\ [Next]_vars => RetentionInv'
<1> SUFFICES ASSUME TypeOK, RetentionInv, [Next]_vars
             PROVE  RetentionInv'
    OBVIOUS
<1>0. run \in RunType /\ now \in Nat
    BY RetentionBounds DEF TypeOK, RunType, Time
<1> USE DEF chainVars, tables, writerVars, RetentionInv, WrittenSoFar, NothingFoundYet, LookedAtInRows, FoundExpired,
    FoundOrphaned, GoneWereOff, MisledIsNoticed, OnlyUnseenAreStranded, InFilter, InOrphans, RowsOf, RunType
<1>1. CASE Tick
    BY <1>0, <1>1 DEF Tick
<1>2. ASSUME NEW s \in Stream, ChangeStream(s) PROVE  RetentionInv'
    BY <1>0, <1>2 DEF ChangeStream
<1>3. ASSUME NEW b \in Bucket, NEW t \in Time, CountMessage(b, t) PROVE  RetentionInv'
    BY <1>0, <1>3 DEF CountMessage
<1>4. ASSUME NEW b \in Bucket, NEW t \in Time, InsertMessage(b, t) PROVE  RetentionInv'
    BY <1>0, <1>4, FS_AddElement DEF InsertMessage
<1>5. ASSUME NEW b \in Bucket, StoreBucket(b) \/ RemoveBucket(b) PROVE  RetentionInv'
    <2>1. /\ writer' \in [Bucket -> {"closed", "dirty", "stored"}] /\ rows \subseteq rows'
          /\ \A c \in Bucket : /\ writer[c] = "dirty" => writer'[c] = "dirty" \/ c \in rows'
                               /\ writer'[c] # "closed" => writer[c] # "closed"
          /\ UNCHANGED <<now, exists, misled, data, created, run, unseen, offChain>>
        BY <1>5 DEF StoreBucket, RemoveBucket, TypeOK
    <2>2. \A row \in data : row[1] \in Bucket
        BY DEF TypeOK
    <2>3. OnlyUnseenAreStranded'
        BY <2>1, <2>2
    <2>4. WrittenSoFar'
        BY <2>1
    <2>5. NothingFoundYet' /\ LookedAtInRows'
        BY <2>1
    <2>6. FoundExpired' /\ FoundOrphaned'
        BY <2>1 DEF Expired
    <2>7. GoneWereOff' /\ MisledIsNoticed'
        BY <2>1
    <2>8. QED
        BY <2>3, <2>4, <2>5, <2>6, <2>7
<1>6. CASE StartRun
    BY <1>0, <1>6 DEF StartRun, Idle
<1>7. ASSUME NEW known \in SUBSET Stream, FetchStreamsInfo(known) PROVE  RetentionInv'
    BY <1>0, <1>7 DEF FetchStreamsInfo, StreamsInfo
<1>8. ASSUME NEW known \in SUBSET Stream, GetPotentiallyExpiredBuckets(known) PROVE  RetentionInv'
    BY <1>0, <1>8 DEF GetPotentiallyExpiredBuckets, Slices
<1>9. ASSUME NEW b \in Bucket, FilterExpiredBucket(b) PROVE  RetentionInv'
    <2>1. /\ run'.phase = "filter" /\ run'.todo = run.todo \ {b} /\ run'.at = run.at /\ run'.gone = run.gone
          /\ run'.found = IF NewestExpired(b, run.at) THEN run.found \cup {b} ELSE run.found
        BY <1>0, <1>9 DEF FilterExpiredBucket
    <2>2. /\ unseen' = {row \in unseen : row[1] # b} /\ b \in rows /\ b \notin run.found
          /\ UNCHANGED <<now, exists, misled, rows, data, created, writer, offChain>>
        BY <1>9 DEF FilterExpiredBucket, Seen
    <2>3. FoundExpired'
        <3> SUFFICES ASSUME NEW c \in run'.found, NEW row \in data, row[1] = c
                     PROVE  Expired(c, row[2], run.at) \/ row \in unseen'
            BY <2>1, <2>2 DEF Expired
        <3>1. CASE c = b
            BY <2>1, <2>2, <3>1 DEF NewestExpired
        <3>2. CASE c # b
            BY <1>9, <2>1, <2>2, <3>2 DEF FilterExpiredBucket
        <3>3. QED
            BY <3>1, <3>2
    <2>4. QED
        BY <1>9, <2>1, <2>2, <2>3 DEF FilterExpiredBucket
<1>10. ASSUME NEW b \in Bucket, FilterFails(b) PROVE  RetentionInv'
    BY <1>0, <1>10 DEF FilterFails
<1>11. ASSUME NEW b \in Bucket, DeleteExpired(b) PROVE  RetentionInv'
    <2>1. /\ run.phase = "filter" /\ run'.phase = "filter" /\ run'.todo = {} /\ run'.found = run.found \ {b}
          /\ run'.at = run.at /\ run'.gone = run.gone
          /\ UNCHANGED <<now, exists, misled, created, writer, unseen, offChain>>
        BY <1>0, <1>11 DEF DeleteExpired
    <2>2. DeleteBucket(b) \/ UNCHANGED tables
        BY <1>11 DEF DeleteExpired
    <2>3. /\ data' \subseteq data /\ rows \ {b} \subseteq rows'
          /\ \A row \in data' : row[1] \in rows => row[1] \in rows'
        BY <2>2 DEF DeleteBucket
    <2>4. IsFiniteSet(data')
        BY <2>3, FS_Subset
    <2>5. QED
        BY <2>1, <2>3, <2>4 DEF Expired
<1>12. ASSUME NEW known \in SUBSET Stream, RowSweepStarts(known) PROVE  RetentionInv'
    BY <1>0, <1>12 DEF RowSweepStarts, StreamsInfo, Idle
<1>13. ASSUME NEW s \in Stream, SweepStreamPart(s) PROVE  RetentionInv'
    BY <1>0, <1>13 DEF SweepStreamPart
<1>14. CASE CountExpiredRows
    BY <1>0, <1>14 DEF CountExpiredRows
<1>15. ASSUME NEW b \in Bucket, DeleteExpiredRows(b) PROVE  RetentionInv'
    <2>0. /\ UNCHANGED <<now, exists, misled, rows, created, writer, unseen, offChain>> /\ data' \subseteq data
          /\ run.phase = "sweep" /\ (run' = [run EXCEPT !.phase = "rows", !.found = {}] \/ run' = Idle)
        BY <1>15 DEF DeleteExpiredRows
    <2>1. \/ run'.phase = "rows" /\ run'.found = {} /\ run'.gone = run.gone
          \/ run'.phase = "idle" /\ run'.gone = {}
        <3>1. CASE run' = Idle
            BY <3>1 DEF Idle
        <3>2. CASE run' = [run EXCEPT !.phase = "rows", !.found = {}]
            BY <1>0, <3>2
        <3>3. QED
            BY <2>0, <3>1, <3>2
    <2>2. IsFiniteSet(data')
        BY <2>0, FS_Subset
    <2>3. QED
        BY <2>0, <2>1, <2>2
<1>16. CASE OrphanSweepStarts
    BY <1>0, <1>16 DEF OrphanSweepStarts, Idle
<1>17. ASSUME NEW s \in Stream, Classify(s) PROVE  RetentionInv'
    <2> DEFINE rest == [run EXCEPT !.streams = @ \ {s}]
    <2>0. /\ run.phase = "classify" /\ s \in run.streams
          /\ UNCHANGED <<now, exists, misled, rows, data, created, writer, unseen, offChain>>
          /\ \/ ~misled /\ run' = rest
             \/ (s \notin exists \/ misled) /\ run' = [rest EXCEPT !.gone = @ \cup {s}]
             \/ run' = [rest EXCEPT !.errors = @ \cup {s}]
        BY <1>17 DEF Classify, Found, Cached, NotFound
    <2>1. rest \in RunType /\ rest.phase = "classify" /\ rest.streams = run.streams \ {s}
          /\ rest.todo = run.todo /\ rest.found = run.found /\ rest.listed = run.listed
          /\ rest.gone = run.gone /\ rest.errors = run.errors
        BY <1>0, <2>0
    <2> HIDE DEF rest
    <2>2. /\ run'.phase = "classify" /\ run'.streams = run.streams \ {s}
          /\ run'.todo = run.todo /\ run'.found = run.found /\ run'.listed = run.listed
          /\ \/ ~misled /\ run'.gone = run.gone
             \/ (s \notin exists \/ misled) /\ run'.gone = run.gone \cup {s} /\ run'.errors = run.errors
             \/ run'.gone = run.gone /\ run'.errors = run.errors \cup {s}
        BY <2>0, <2>1
    <2>3. GoneWereOff'
        BY <2>0, <2>2
    <2>4. MisledIsNoticed'
        BY <2>0, <2>2
    <2>5. QED
        BY <2>0, <2>2, <2>3, <2>4
<1>18. CASE Classified
    <2>1. UNCHANGED <<now, exists, misled, rows, data, created, writer, unseen, offChain>>
        BY <1>18 DEF Classified
    <2>2. CASE run' = Idle
        BY <2>1, <2>2 DEF Idle
    <2>3. CASE run' # Idle
        <3>1. /\ run.phase = "classify" /\ run.streams = {} /\ run.errors = {} /\ run.gone # {}
              /\ ~Suspicious(run.listed, run.gone)
              /\ run'.phase = "orphans" /\ run'.streams = run.gone /\ run'.todo = {} /\ run'.found = {}
              /\ run'.gone = run.gone /\ run'.listed = run.listed
            BY <1>0, <1>18, <2>3 DEF Classified
        <3>2. ASSUME misled PROVE Cardinality(run.listed) < AbortMinStreams \/ AbortFractionPercent = 100
            <4>1. run.gone = run.listed
                BY <3>1, <3>2
            <4>2. IsFiniteSet(run.listed) /\ Cardinality(run.listed) \in Nat /\ Cardinality(run.listed) # 0
                <5>1. IsFiniteSet(run.listed)
                    BY <1>0, StreamsAssumption, FS_Subset
                <5>2. QED
                    BY <3>1, <4>1, <5>1, FS_CardinalityType, FS_EmptySet
            <4> DEFINE n == Cardinality(run.listed)
            <4>3. n >= AbortMinStreams => ~(n * 100 > AbortFractionPercent * n)
                BY <3>1, <4>1 DEF Suspicious
            <4>4. n \in Nat \ {0}
                BY <4>2
            <4> HIDE DEF n
            <4>5. AbortFractionPercent < 100 => n * 100 > AbortFractionPercent * n
                BY <4>4, RetentionAssumption
            <4>6. QED
                BY <4>3, <4>4, <4>5, RetentionAssumption DEF n
        <3>3. QED
            BY <2>1, <3>1, <3>2
    <2>4. QED
        BY <2>2, <2>3
<1>19. ASSUME NEW s \in Stream, SelectOrphanBuckets(s) PROVE  RetentionInv'
    BY <1>0, <1>19 DEF SelectOrphanBuckets
<1>20. CASE CheckOrphanBucket
    <2> DEFINE b == NewestOf(run.todo)
    <2>1. b \in run.todo /\ run.phase = "orphans" /\ b \in rows /\ b \notin run.found
        BY <1>0, <1>20, NewestExists DEF CheckOrphanBucket
    <2>0. /\ UNCHANGED <<now, exists, misled, rows, data, created, writer, offChain>>
          /\ \/ run' = [run EXCEPT !.todo = {}] /\ unseen' = unseen
             \/ /\ run' = [run EXCEPT !.todo = @ \ {b}, !.found = IF PastGrace(b, run.at) THEN @ \cup {b} ELSE @]
                /\ unseen' = {row \in unseen : row[1] # b}
        BY <1>20 DEF CheckOrphanBucket, Seen
    <2>2. /\ run'.phase = "orphans" /\ run'.streams = run.streams /\ run'.at = run.at
          /\ run'.gone = run.gone /\ run'.listed = run.listed
          /\ \/ run'.todo = {} /\ run'.found = run.found /\ unseen' = unseen
             \/ /\ run'.todo = run.todo \ {b}
                /\ run'.found = IF PastGrace(b, run.at) THEN run.found \cup {b} ELSE run.found
                /\ unseen' = {row \in unseen : row[1] # b}
        <3> HIDE DEF b
        <3> DEFINE more == IF PastGrace(b, run.at) THEN run.found \cup {b} ELSE run.found
        <3>1. CASE run' = [run EXCEPT !.todo = {}] /\ unseen' = unseen
            BY <1>0, <2>1, <3>1
        <3>2. CASE run' = [run EXCEPT !.todo = @ \ {b}, !.found = more] /\ unseen' = {row \in unseen : row[1] # b}
            <4> HIDE DEF more
            <4>1. run'.phase = "orphans" /\ run'.streams = run.streams /\ run'.at = run.at /\ run'.gone = run.gone
                  /\ run'.listed = run.listed /\ run'.todo = run.todo \ {b} /\ run'.found = more
                BY <1>0, <2>1, <3>2
            <4>2. QED
                BY <3>2, <4>1 DEF more
        <3>3. QED
            BY <2>0, <3>1, <3>2
    <2> HIDE DEF b
    <2>3. PastGrace(b, run.at) => \A row \in data : row[1] = b => row[2] + GraceDays <= run.at
        BY DEF PastGrace
    <2>4. QED
        BY <2>0, <2>1, <2>2, <2>3
<1>21. ASSUME NEW b \in Bucket, DeleteOrphan(b) PROVE  RetentionInv'
    <2>1. /\ run.phase = "orphans" /\ run.todo = {} /\ run.streams = {}
          /\ UNCHANGED <<now, exists, misled, created, writer, unseen, offChain>>
          /\ \/ /\ run'.phase = "orphans" /\ run'.todo = {} /\ run'.found = run.found \ {b} /\ run'.streams = {}
                /\ run'.at = run.at /\ run'.gone = run.gone /\ run'.listed = run.listed
             \/ run'.phase = "idle" /\ run'.gone = {}
        BY <1>0, <1>21 DEF DeleteOrphan, OrphansListed, Idle
    <2>2. /\ data' \subseteq data
          /\ \A row \in data' : row[1] \in rows => row[1] \in rows'
        BY <1>21 DEF DeleteOrphan, DeleteBucket
    <2>3. IsFiniteSet(data')
        BY <2>2, FS_Subset
    <2>4. QED
        BY <2>1, <2>2, <2>3
<1>22. CASE RunEnds \/ RunFails
    BY <1>0, <1>22 DEF RunEnds, RunFails, OrphansListed, Idle
<1>23. CASE UNCHANGED vars
    BY <1>0, <1>23 DEF vars
<1>24. QED
    BY <1>1, <1>2, <1>3, <1>4, <1>5, <1>6, <1>7, <1>8, <1>9, <1>10, <1>11, <1>12,
       <1>13, <1>14, <1>15, <1>16, <1>17, <1>18, <1>19, <1>20, <1>21, <1>22, <1>23 DEF Next, WritePath, RunOnce

\* No data, no run: the invariant holds at the start.
LEMMA RetentionInitially == Init => TypeOK /\ RetentionInv
<1> SUFFICES ASSUME Init PROVE TypeOK /\ RetentionInv
    OBVIOUS
<1>1. misled \in BOOLEAN
    BY RetentionAssumption, Zenon DEF Init
<1>2. TypeOK
    BY <1>1, IdleType, RetentionBounds DEF Init, TypeOK, RunType, Time, Idle
<1>3. RetentionInv
    BY FS_EmptySet DEF Init, RetentionInv, WrittenSoFar, NothingFoundYet, LookedAtInRows, FoundExpired,
       FoundOrphaned, GoneWereOff, MisledIsNoticed, OnlyUnseenAreStranded, InFilter, InOrphans, Idle
<1>4. QED
    BY <1>2, <1>3

\* The types of retention: its clock is never ahead, the row sweep stays within rowDeleteLimit.
THEOREM TypeCorrect == Spec => []TypeOK
<1>1. TypeOK /\ RetentionInv /\ [Next]_vars => (TypeOK /\ RetentionInv)'
    BY RetentionTypes, RetentionStep DEF RetentionInv
<1>2. QED
    BY <1>1, RetentionInitially, PTL DEF Spec

\* The inductive invariant always holds.
LEMMA RetentionInvAlways == Spec => []RetentionInv
<1>1. TypeOK /\ RetentionInv /\ [Next]_vars => (TypeOK /\ RetentionInv)'
    BY RetentionTypes, RetentionStep DEF RetentionInv
<1>2. QED
    BY <1>1, RetentionInitially, PTL DEF Spec

\* Retention strands only messages that were inserted after it had looked at their bucket, for any
\* streams, buckets, limits and failures (deleteExpiredBuckets, orphanSweep).
THEOREM OnlyUnseenStranded == Spec => []OnlyUnseenAreStranded
<1>1. RetentionInv => OnlyUnseenAreStranded
    BY DEF RetentionInv
<1>2. QED
    BY <1>1, RetentionInvAlways, PTL

\* Every delete is justified: the action property follows from the invariant in the state before.
LEMMA DeletesJustifiedStep ==
    ASSUME TypeOK, RetentionInv, [Next]_vars, NEW row \in data \ data'
    PROVE  \/ Expired(row[1], row[2], now)
           \/ row \in unseen
           \/ /\ run.phase = "orphans"
              /\ row[2] + GraceDays <= now
              /\ \/ StreamOf[row[1]] \in offChain
                 \/ misled /\ (Cardinality(run.listed) < AbortMinStreams \/ AbortFractionPercent = 100)
<1>0. /\ row[1] \in Bucket /\ row[2] \in Nat /\ now \in Nat /\ run.at \in Nat /\ run.at <= now
      /\ StreamOf[row[1]] \in Stream /\ StorageDays[StreamOf[row[1]]] \in Nat /\ GraceDays \in Nat
    BY BucketsAssumption, StreamsAssumption, RetentionAssumption DEF TypeOK, Time
<1>1. ASSUME NEW b \in Bucket, DeleteExpired(b)
      PROVE  Expired(row[1], row[2], now) \/ row \in unseen
    <2>1. run.phase = "filter" /\ b \in run.found /\ row \in RowsOf(b)
        BY <1>1 DEF DeleteExpired, DeleteBucket, tables
    <2>2. Expired(b, row[2], run.at) \/ row \in unseen
        BY <2>1 DEF RetentionInv, FoundExpired, InFilter
    <2>3. QED
        BY <1>0, <2>1, <2>2 DEF Expired, RowsOf
<1>2. ASSUME NEW b \in Bucket, DeleteExpiredRows(b)
      PROVE  Expired(row[1], row[2], now)
    BY <1>0, <1>2 DEF DeleteExpiredRows, ExpiredRows, Expired
<1>3. ASSUME NEW b \in Bucket, DeleteOrphan(b)
      PROVE  \/ row \in unseen
             \/ /\ run.phase = "orphans"
                /\ row[2] + GraceDays <= now
                /\ \/ StreamOf[row[1]] \in offChain
                   \/ misled /\ (Cardinality(run.listed) < AbortMinStreams \/ AbortFractionPercent = 100)
    <2>1. run.phase = "orphans" /\ b \in run.found /\ row \in RowsOf(b) /\ row[1] = b
        BY <1>3 DEF DeleteOrphan, DeleteBucket, OrphansListed, RowsOf
    <2>2. StreamOf[b] \in run.gone /\ (row[2] + GraceDays <= run.at \/ row \in unseen)
        BY <2>1 DEF RetentionInv, FoundOrphaned, InOrphans
    <2>3. StreamOf[b] \in offChain \/ misled
        BY <2>2 DEF RetentionInv, GoneWereOff
    <2>4. QED
        BY <1>0, <2>1, <2>2, <2>3 DEF RetentionInv, MisledIsNoticed, InOrphans
<1>4. QED
    BY <1>1, <1>2, <1>3 DEF Next, WritePath, RunOnce, vars, tables, Tick, ChangeStream, CountMessage, InsertMessage,
       StoreBucket, RemoveBucket, StartRun, FetchStreamsInfo, RowSweepStarts, GetPotentiallyExpiredBuckets,
       FilterExpiredBucket, FilterFails, SweepStreamPart, Classify, SelectOrphanBuckets,
       CountExpiredRows, OrphanSweepStarts, Classified, CheckOrphanBucket, RunEnds, RunFails

\* Retention deletes expired messages, messages it could not have seen, and those of streams that
\* were off the chain; a wrong registry does no harm while the guard of the orphan sweep is on.
THEOREM DeletesAreJustifiedAlways == Spec => DeletesAreJustified
<1>1. TypeOK /\ RetentionInv /\ [Next]_vars =>
        [\A row \in data \ data' :
          \/ Expired(row[1], row[2], now)
          \/ row \in unseen
          \/ /\ run.phase = "orphans"
             /\ row[2] + GraceDays <= now
             /\ \/ StreamOf[row[1]] \in offChain
                \/ misled /\ (Cardinality(run.listed) < AbortMinStreams \/ AbortFractionPercent = 100)]_vars
    BY DeletesJustifiedStep
<1>2. QED
    BY <1>1, TypeCorrect, RetentionInvAlways, PTL DEF Spec, DeletesAreJustified
=============================================================================
