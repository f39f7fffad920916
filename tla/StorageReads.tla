---------------------------- MODULE StorageReads ----------------------------
(***************************************************************************)
(* The reads of Storage and the endpoint that asks for them, as functions  *)
(* of the two tables of one stream part.  The tables are those of messages *)
(* that came in timestamp order: buckets in the order of their dates, each *)
(* dated by its oldest message (how buckets come about, and what late      *)
(* messages do to reads, is in Storage).  Some rows may be purged: the     *)
(* bucket rows keep counting them.  Every reachable state is a request     *)
(* with its response; the properties compare it with a reference.          *)
(***************************************************************************)
EXTENDS Integers, FiniteSets, FiniteSetsExt

CONSTANTS
    ReadTimes,      \* timestamps of messages, and bounds of ranges
    SequenceNumbers,
    Publishers,
    BucketSizes,    \* bytes a bucket may hold
    MaxRows, MaxBuckets,
    BUCKET_LOOKBACK_MS,
    MAX_RESEND_LAST,
    MaxInt          \* Cassandra's int wraps around at MaxInt

MIN_SEQUENCE_NUMBER_VALUE == 0
MAX_SEQUENCE_NUMBER_VALUE == Max(SequenceNumbers) + 1
ANY == "any"        \* publisherId undefined

ASSUME StorageReadsAssumption ==
    /\ ReadTimes \subseteq Nat /\ SequenceNumbers \subseteq Nat
    /\ BUCKET_LOOKBACK_MS \in Nat /\ MAX_RESEND_LAST \in Nat \ {0} /\ MaxInt \in Nat \ {0}

VARIABLES
    streamData,     \* rows of stream_data: [ts, seq, pub, bucket]
    bucketTable,    \* rows of bucket: [id, date, records, size]
    query,          \* the request, or NoQuery
    response

readVars == <<streamData, bucketTable, query, response>>
NoQuery == [type |-> "none"]
-----------------------------------------------------------------------------
Keys == [ts : ReadTimes, seq : SequenceNumbers, pub : Publishers]

Newer(r, s) == r.ts > s.ts \/ (r.ts = s.ts /\ r.seq > s.seq)

Filed(key, b) == [ts |-> key.ts, seq |-> key.seq, pub |-> key.pub, bucket |-> b]

(* The ways to file messages in order: no bucket has a message older than  *)
(* one of an earlier bucket, and buckets have different dates.             *)
Filings(keys) ==
    {f \in [keys -> 1 .. MaxBuckets] :
        /\ \A a, b \in keys : Newer(b, a) => f[a] <= f[b]
        /\ \A i, j \in {f[k] : k \in keys} :
              i < j => Min({k.ts : k \in {k \in keys : f[k] = i}})
                         < Min({k.ts : k \in {k \in keys : f[k] = j}})}

BucketRow(keys, f, id, size) ==
    LET mine == {k \in keys : f[k] = id}
    IN [id |-> id, date |-> Min({k.ts : k \in mine}), records |-> Cardinality(mine), size |-> size]

ReadsInit ==
    /\ \E keys \in UNION {kSubset(n, Keys) : n \in 0 .. MaxRows} :
       \E f \in Filings(keys), sizes \in [1 .. MaxBuckets -> BucketSizes], purged \in SUBSET keys :
          /\ streamData = {Filed(k, f[k]) : k \in keys \ purged}
          /\ bucketTable = {BucketRow(keys, f, id, sizes[id]) : id \in {f[k] : k \in keys}}
    /\ query = NoQuery
    /\ response = {}
-----------------------------------------------------------------------------
(* getBucketsByTimestamp(from - BUCKET_LOOKBACK_MS, to)                    *)
BucketsByTimestamp(from, to) ==
    LET first == {b \in bucketTable : b.date <= from}
        rest == {b \in bucketTable : from < b.date /\ b.date <= to}
    IN rest \cup {b \in first : \A c \in first : c.date <= b.date}

RowsIn(buckets) == {r \in streamData : r.bucket \in {b.id : b \in buckets}}

(* The WHERE clauses of fetchRange; each query is a stream of its own, so  *)
(* a row that two of them select comes twice.                              *)
RangeQueries(q) ==
    IF q.fromSeq = MIN_SEQUENCE_NUMBER_VALUE /\ q.toSeq = MAX_SEQUENCE_NUMBER_VALUE
    THEN << {r \in streamData : q.from <= r.ts /\ r.ts <= q.to} >>
    ELSE << {r \in streamData : r.ts = q.from /\ r.seq >= q.fromSeq},
            {r \in streamData : q.from < r.ts /\ r.ts < q.to},
            {r \in streamData : r.ts = q.to /\ r.seq <= q.toSeq} >>

(* The response is a set of pairs of a row and the query that found it.    *)
FetchRange(q) ==
    LET buckets == BucketsByTimestamp(q.from - BUCKET_LOOKBACK_MS, q.to)
        queries == RangeQueries(q)
    IN {<<r, i>> \in RowsIn(buckets) \X DOMAIN queries :
            r \in queries[i] /\ (q.pub = ANY \/ r.pub = q.pub)}

(* requestLast                                                             *)
Count(ids) == Cardinality({r \in streamData : r.bucket \in ids})

\* Seeded fault: the bucket that reaches the limit is not read.
BucketsForLastShort(limit) ==
    {b \in bucketTable : Count({c.id : c \in {c \in bucketTable : c.date >= b.date}}) <= limit}

\* A bucket is taken if the newer ones together have fewer rows than asked.
BucketsForLast(limit) ==
    {b \in bucketTable : Count({c.id : c \in {c \in bucketTable : c.date > b.date}}) < limit}

(* ORDER BY ts DESC, sequence_no DESC LIMIT n: rows with equal keys may    *)
(* come in any order.                                                      *)
NewestRows(rows, n) ==
    {s \in kSubset(Min({n, Cardinality(rows)}), rows) :
        \A r \in rows \ s, t \in s : ~Newer(r, t)}

RequestLast(count) ==
    LET limit == Min({count, MAX_RESEND_LAST})
    IN NewestRows(RowsIn(BucketsForLast(limit)), limit)

(* The lookups of the purge and stored endpoints                           *)
GetMessages(ts, seq) ==
    {r \in RowsIn(BucketsByTimestamp(ts - BUCKET_LOOKBACK_MS, ts)) : r.ts = ts /\ r.seq = seq}

GetRowKeys(stamps) ==
    {r \in RowsIn(BucketsByTimestamp(Min(stamps) - BUCKET_LOOKBACK_MS, Max(stamps))) : r.ts \in stamps}

(* The metadata endpoint                                                   *)
FirstMessageTimestamp ==
    LET oldest == {b \in bucketTable : \A c \in bucketTable : b.date <= c.date}
    IN Min({r.ts : r \in RowsIn(oldest)} \cup (IF RowsIn(oldest) = {} THEN {0} ELSE {}))

LastMessageTimestamp ==
    LET newest == {b \in bucketTable : \A c \in bucketTable : c.date <= b.date}
    IN Max({r.ts : r \in RowsIn(newest)} \cup {0})

NumberOfMessages == MapThenSumSet(LAMBDA b : b.records, bucketTable)

\* Cassandra adds ints: the sum wraps around, in two's complement.
WrappedSum(n) == ((n + MaxInt) % (2 * MaxInt)) - MaxInt

TotalBytes ==
    LET sum == MapThenSumSet(LAMBDA b : b.size, bucketTable)
    IN IF WrappedSum(sum) < 0 THEN sum ELSE WrappedSum(sum)
-----------------------------------------------------------------------------
(* handleRange, and handleFrom, whose range has no end                     *)
AskRange ==
    /\ query = NoQuery
    /\ \E from, to \in ReadTimes, pub \in Publishers \cup {ANY},
          fromSeq \in SequenceNumbers, toSeq \in SequenceNumbers \cup {MAX_SEQUENCE_NUMBER_VALUE} :
          query' = [type |-> "range", from |-> from, to |-> to, fromSeq |-> fromSeq,
                    toSeq |-> toSeq, pub |-> pub]
    /\ response' = FetchRange(query')
    /\ UNCHANGED <<streamData, bucketTable>>

AskLast ==
    /\ query = NoQuery
    /\ \E count \in 1 .. MaxRows :
          /\ query' = [type |-> "last", count |-> count]
          /\ response' \in RequestLast(count)
    /\ UNCHANGED <<streamData, bucketTable>>

AskMetadata ==
    /\ query = NoQuery
    /\ query' = [type |-> "metadata"]
    /\ response' = [first |-> FirstMessageTimestamp, last |-> LastMessageTimestamp,
                    count |-> NumberOfMessages, bytes |-> TotalBytes]
    /\ UNCHANGED <<streamData, bucketTable>>

AskMessages ==
    /\ query = NoQuery
    /\ \E ts \in ReadTimes, seq \in SequenceNumbers :
          /\ query' = [type |-> "messages", stamps |-> {ts}, seqs |-> {seq}]
          /\ response' = GetMessages(ts, seq)
    /\ UNCHANGED <<streamData, bucketTable>>

AskRowKeys ==
    /\ query = NoQuery
    /\ \E stamps \in SUBSET ReadTimes \ {{}} :
          /\ query' = [type |-> "keys", stamps |-> stamps, seqs |-> SequenceNumbers]
          /\ response' = GetRowKeys(stamps)
    /\ UNCHANGED <<streamData, bucketTable>>

ReadsNext == AskRange \/ AskLast \/ AskMetadata \/ AskMessages \/ AskRowKeys
-----------------------------------------------------------------------------
InRange(r, q) ==
    /\ q.pub = ANY \/ r.pub = q.pub
    /\ q.from < r.ts \/ (q.from = r.ts /\ q.fromSeq <= r.seq)
    /\ r.ts < q.to \/ (r.ts = q.to /\ r.seq <= q.toSeq)

(* A range read returns the rows between its bounds, each once.  Within    *)
(* one timestamp, with sequence numbers given, the three queries overlap:  *)
(* rows outside the bounds come too and those inside twice, but none is    *)
(* missing.  A lookup of positions, which decides what a purge deletes and *)
(* what a sender is told is stored, returns just the rows at them.         *)
RangeIsExact ==
    /\ query.type = "range" =>
          LET wanted == {r \in streamData : InRange(r, query)}
              found == {p[1] : p \in response}
          IN /\ query.from <= query.to => wanted \subseteq found
             /\ query.from < query.to => found = wanted /\ Cardinality(response) = Cardinality(wanted)
    /\ query.type \in {"messages", "keys"} =>
          response = {r \in streamData : r.ts \in query.stamps /\ r.seq \in query.seqs}

(* "last n" are the newest n rows of the stream part, or all of them,      *)
(* however they are spread over buckets and whatever was purged.           *)
LastIsNewest ==
    query.type = "last" =>
        response \in NewestRows(streamData, Min({query.count, MAX_RESEND_LAST}))

(* The metadata of a stream part: the first and last message, as long as   *)
(* the buckets at the ends are not purged to the last row; its bytes, as   *)
(* long as the sum is below twice Cassandra's largest int (past that it    *)
(* can wrap to a positive number, which is not noticed); at least as many  *)
(* messages as there are.                                                  *)
MetadataMatches ==
    query.type = "metadata" =>
        LET stamps == {r.ts : r \in streamData}
            bytes == MapThenSumSet(LAMBDA b : b.size, bucketTable)
        IN /\ response.first # 0 => response.first = Min(stamps)
           /\ response.last # 0 => response.last = Max(stamps)
           /\ bytes < 2 * MaxInt => response.bytes = bytes
           /\ response.count >= Cardinality(streamData)

(***************************************************************************)
(* Every read answers what the rows and buckets of the tables say: ranges, *)
(* the last messages, and the first, last and number of messages.          *)
(***************************************************************************)
ReadsAreExact == RangeIsExact /\ LastIsNewest /\ MetadataMatches
=============================================================================
