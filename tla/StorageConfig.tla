----------------------------- MODULE StorageConfig -----------------------------
(***************************************************************************)
(* The assignment of streams to this storage node: the storage registry on *)
(* the chain, StorageEventListener.ts (events, delivered late, reordered   *)
(* by the awaited getStream(), dropped when it fails), StoragePoller.ts    *)
(* (snapshots from The Graph, which may lag behind the chain and whose     *)
(* pages may come from different blocks) and StorageConfig.ts, which feeds *)
(* both to the synchronizer and hands the diffs to the node as joins and   *)
(* leaves.                                                                 *)
(***************************************************************************)
EXTENDS SetMembershipSynchronizer, FiniteSets

CONSTANTS
    Stream,         \* the streams of the registry
    StreamParts,    \* createMyStreamParts: the parts of a stream that hash to this node
    MaxBlock,           \* bound: the last block of the chain
    MaxChangesPerBlock  \* bound: the streams that change within a block

ASSUME StreamPartsAssumption == StreamParts \in [Stream -> SUBSET Element]
ASSUME PartOfOneStream ==
    \A s, t \in Stream : s # t => StreamParts[s] \cap StreamParts[t] = {}
ASSUME MaxBlockAssumption == MaxBlock \in Nat \ {0}

Block == 1 .. MaxBlock

VARIABLES
    chain,      \* chain[b]: the streams assigned to the node after block b
    height,     \* the newest block
    twice,      \* twice[b]: streams both added and removed within block b (history)
    events,     \* assignment events emitted and not yet handled
    indexed,    \* every answer of The Graph is from this block or a later one
    poll,       \* the poll in progress: [step, rest, elements, blockNumber]
    joined      \* the stream parts the node was told to join, less those it was told to leave

chainVars == <<chain, height, twice>>
vars == <<syncVars, chainVars, events, indexed, poll, joined>>

Event == [stream : Stream, type : {"added", "removed"}, block : Block]
IDLE == [step |-> "idle", rest |-> {}, elements |-> {}, blockNumber |-> 0]

TypeOK ==
    /\ SyncTypeOK
    /\ chain \in [Block -> SUBSET Stream]
    /\ height \in Block
    /\ twice \in [Block -> SUBSET Stream]
    /\ events \subseteq Event
    /\ indexed \in Block
    /\ indexed <= height
    /\ poll \in [step : {"idle", "paging", "fetched"},
                 rest : SUBSET Stream,      \* the streams on the pages to come
                 elements : SUBSET Element, blockNumber : Nat]
    /\ joined \subseteq Element
    /\ poll.blockNumber <= height
    /\ lastSnapshotSequenceNo <= height     \* no snapshot from a block yet to come

\* The node starts with no state, against a registry that already has some.
Init ==
    /\ SyncInit
    /\ \E assigned \in SUBSET Stream : chain = [b \in Block |-> IF b = 1 THEN assigned ELSE {}]
    /\ height = 1
    /\ twice = [b \in Block |-> {}]
    /\ events = {}
    /\ indexed = 1
    /\ poll = IDLE
    /\ joined = {}

-----------------------------------------------------------------------------
PartsOf(streams) == UNION {StreamParts[s] : s \in streams}

\* The listeners of StoragePlugin: join every added part, then leave every removed one.
HandleDiff(diff) == joined' = (joined \cup diff.added) \ diff.removed

-----------------------------------------------------------------------------
(* The registry (external): a block with the assignments that change in it. *)

AssignmentEvent(s, type, block) == [stream |-> s, type |-> type, block |-> block]

\* A block in which the streams of once change and those of again change and change back.
Mine(once, again) ==
    /\ height < MaxBlock
    /\ height' = height + 1
    /\ chain' = [chain EXCEPT ![height + 1] = (chain[height] \ once) \cup (once \ chain[height])]
    /\ twice' = [twice EXCEPT ![height + 1] = again]
    /\ events' = events
          \cup {AssignmentEvent(s, "added", height + 1) : s \in (once \ chain[height]) \cup again}
          \cup {AssignmentEvent(s, "removed", height + 1) : s \in (once \cap chain[height]) \cup again}
    /\ UNCHANGED <<syncVars, indexed, poll, joined>>

\* The Graph indexes one more block.
GraphIndexes ==
    /\ indexed < height
    /\ indexed' = indexed + 1
    /\ UNCHANGED <<syncVars, chainVars, events, poll, joined>>

-----------------------------------------------------------------------------
(* StorageEventListener *)

\* getStream() has answered: the event goes to the synchronizer, at its own block.
HandleEvent(event) ==
    /\ event \in events
    /\ events' = events \ {event}
    /\ IngestPatch(StreamParts[event.stream], event.type, event.block)
    /\ HandleDiff(PatchDiff(StreamParts[event.stream], event.type, event.block))
    /\ UNCHANGED <<chainVars, indexed, poll>>

\* The event is never delivered, or getStream() fails: logged and dropped.
LoseEvent(event) ==
    /\ event \in events
    /\ events' = events \ {event}
    /\ UNCHANGED <<syncVars, chainVars, indexed, poll, joined>>

-----------------------------------------------------------------------------
(* StoragePoller: one poll at a time (scheduleAtInterval waits for the task). *)

\* The first page of getStoredStreams(): the streams up to some id, at some block.
PollFirstPage(page, block) ==
    /\ poll.step = "idle"
    /\ block \in indexed .. height
    /\ poll' = [step        |-> "paging",
                rest        |-> Stream \ page,
                elements    |-> PartsOf(chain[block] \cap page),
                blockNumber |-> block]
    /\ UNCHANGED <<syncVars, chainVars, events, indexed, joined>>

\* The last page: the streams after that id, at a block of its own; the poll's
\* block number is the smallest of its pages'.
PollLastPage(block) ==
    /\ poll.step = "paging"
    /\ block \in indexed .. height
    /\ poll' = [step        |-> "fetched",
                rest        |-> {},
                elements    |-> poll.elements \cup PartsOf(chain[block] \cap poll.rest),
                blockNumber |-> IF block < poll.blockNumber THEN block ELSE poll.blockNumber]
    /\ UNCHANGED <<syncVars, chainVars, events, indexed, joined>>

\* createMyStreamParts() has answered for every stream: ingest the snapshot.
PollIngest ==
    /\ poll.step = "fetched"
    /\ IngestSnapshot(poll.elements, poll.blockNumber)
    /\ HandleDiff(SnapshotDiff(poll.elements, poll.blockNumber))
    /\ poll' = IDLE
    /\ UNCHANGED <<chainVars, events, indexed>>

\* tryPoll(): a failed request is logged, and the next poll starts over.
PollFails ==
    /\ poll.step # "idle"
    /\ poll' = IDLE
    /\ UNCHANGED <<syncVars, chainVars, events, indexed, joined>>

-----------------------------------------------------------------------------
PollStarts == \E page \in SUBSET Stream, block \in Block : PollFirstPage(page, block)
PollContinues == \E block \in Block : PollLastPage(block)

Next ==
    \/ \E once, again \in SUBSET Stream :
          /\ once \cap again = {}
          /\ Cardinality(once \cup again) \in 1 .. MaxChangesPerBlock
          /\ Mine(once, again)
    \/ GraphIndexes
    \/ \E event \in events : HandleEvent(event) \/ LoseEvent(event)
    \/ PollStarts
    \/ PollContinues
    \/ PollIngest
    \/ PollFails

Spec == Init /\ [][Next]_vars

\* The Graph keeps indexing, a poll is started at every interval, and neither
\* the requests of a poll nor its getStreamParts() calls fail for ever.
Fairness ==
    /\ WF_vars(GraphIndexes)
    /\ WF_vars(PollStarts)
    /\ SF_vars(PollContinues)
    /\ SF_vars(PollIngest)

FairSpec == Spec /\ Fairness

-----------------------------------------------------------------------------
\* A part of s was last patched by one of two opposite events of the same block.
PatchedWithinTwice(s, e) ==
    \E b \in Block : lastSequenceNoByElement[e] = b /\ s \in twice[b]

\* What the node believes about a stream part is what the chain said at the block
\* it was learned at, or later: no reordered event, no stale or torn snapshot
\* takes a part back to an older assignment (ingestSnapshot, ingestPatch). The
\* exception is a stream added and removed within one block: both events carry
\* the same sequence number, so only the first one handled counts.
NeverOlderThanVersion ==
    \A s \in Stream : \A e \in StreamParts[s] :
        \/ Version(e) = 0
        \/ PatchedWithinTwice(s, e)
        \/ \E b \in Version(e) .. height : e \in state <=> s \in chain[b]

\* What NeverOlderThanVersion rests on. Patches older than the last snapshot are
\* gone, none is from a block to come; every event tells the truth about its block,
\* and every page fetched about its block number or a later one.
PatchesAreRecent ==
    \A e \in Element :
        /\ lastSequenceNoByElement[e] <= height
        /\ lastSequenceNoByElement[e] = 0 \/ lastSequenceNoByElement[e] > lastSnapshotSequenceNo

EventsAreTrue ==
    \A event \in events :
        /\ event.block <= height
        /\ \/ event.stream \in twice[event.block]
           \/ (event.type = "added") <=> event.stream \in chain[event.block]

PollIsTrue ==
    poll.step # "idle" =>
        /\ poll.blockNumber > 0
        /\ \A s \in Stream : \A e \in StreamParts[s] :
              IF s \in poll.rest THEN e \notin poll.elements
              ELSE \E b \in poll.blockNumber .. height : e \in poll.elements <=> s \in chain[b]
        /\ poll.step = "fetched" => poll.rest = {}

\* The inductive invariant.
SyncInv == PatchesAreRecent /\ EventsAreTrue /\ PollIsTrue /\ NeverOlderThanVersion

\* Replaying the diffs gives the state: the parts the node joined and did not leave
\* are the parts for which hasStreamPart() lets messages in (handleDiff, the
\* listeners of StoragePlugin).
JoinedIsState == joined = state

\* The block a part's membership was learned at never goes back, although
\* ingestSnapshot forgets patches (lastSequenceNoByElement.delete).
VersionsNeverGoBack == [][\A e \in Element : Version(e)' >= Version(e)]_vars

\* Polling is the backup of the events (StorageConfig's header): once the registry
\* stops changing, the node ends up with exactly the parts assigned to it, whatever
\* events were lost or handled late.
EventuallyInSync == <>[](state = PartsOf(chain[height]) /\ joined = state)

\* The parts the node was told to join follow the chain: they are exactly the
\* synchronizer's state, and that state is never older than the block it was learned
\* at, however events and snapshots are delayed, reordered, lost or torn.
JoinedFollowsChain == JoinedIsState /\ NeverOlderThanVersion
=============================================================================
