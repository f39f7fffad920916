-------------------------- MODULE StorageConfigProofs --------------------------
(***************************************************************************)
(* Proofs about StorageConfig: what the node believes about its            *)
(* assignments, for any number of streams, parts and blocks.               *)
(***************************************************************************)
EXTENDS StorageConfig, TLAPS

-----------------------------------------------------------------------------
(* Type correctness *)

\* The parts of any set of streams are stream parts.
LEMMA PartsOfType == \A streams \in SUBSET Stream : PartsOf(streams) \in SUBSET Element
BY StreamPartsAssumption DEF PartsOf

\* What the synchronizer does with a snapshot keeps its types.
LEMMA IngestSnapshotType ==
    ASSUME SyncTypeOK, NEW elements \in SUBSET Element, NEW sequenceNo \in Nat,
           IngestSnapshot(elements, sequenceNo)
    PROVE  /\ SyncTypeOK'
           /\ \/ lastSnapshotSequenceNo' = lastSnapshotSequenceNo
              \/ lastSnapshotSequenceNo' = sequenceNo
BY DEF SyncTypeOK, IngestSnapshot, SnapshotState, PatchedSince, StaleSnapshot, syncVars

\* What the synchronizer does with a patch keeps its types.
LEMMA IngestPatchType ==
    ASSUME SyncTypeOK, NEW elements \in SUBSET Element, NEW operation, NEW sequenceNo \in Nat,
           IngestPatch(elements, operation, sequenceNo)
    PROVE  SyncTypeOK' /\ lastSnapshotSequenceNo' = lastSnapshotSequenceNo
BY DEF SyncTypeOK, IngestPatch, NonStaleElements

\* A diff names stream parts only.
LEMMA HandleDiffType ==
    ASSUME joined \subseteq Element, NEW diff, diff.added \subseteq Element, HandleDiff(diff)
    PROVE  joined' \subseteq Element
BY DEF HandleDiff

\* Type correctness of the composition, and that no snapshot comes from a block
\* that is not yet mined (ingestSnapshot, getStoredStreams).
THEOREM TypeCorrect == Spec => []TypeOK
<1>1. Init => TypeOK
  BY MaxBlockAssumption DEF Init, SyncInit, TypeOK, SyncTypeOK, IDLE, Block
<1>2. TypeOK /\ [Next]_vars => TypeOK'
  <2> SUFFICES ASSUME TypeOK, [Next]_vars PROVE TypeOK'
    OBVIOUS
  <2> USE MaxBlockAssumption DEF TypeOK
  <2>1. ASSUME NEW once \in SUBSET Stream, NEW again \in SUBSET Stream, Mine(once, again)
        PROVE  TypeOK'
    <3>1. height' \in Block /\ height' = height + 1 /\ indexed' <= height'
      BY <2>1 DEF Mine, Block
    <3>2. chain' \in [Block -> SUBSET Stream] /\ twice' \in [Block -> SUBSET Stream]
      BY <2>1 DEF Mine, Block
    <3>3. events' \subseteq Event
      BY <2>1, <3>1 DEF Mine, Event, AssignmentEvent
    <3>4. SyncTypeOK'
      BY <2>1 DEF Mine, SyncTypeOK, syncVars
    <3>5. QED
      BY <2>1, <3>1, <3>2, <3>3, <3>4 DEF Mine, syncVars, Block, SyncTypeOK
  <2>2. CASE GraphIndexes
    BY <2>2 DEF GraphIndexes, SyncTypeOK, syncVars, chainVars, Block
  <2>3. ASSUME NEW event \in events, HandleEvent(event)
        PROVE  TypeOK'
    <3> DEFINE parts == StreamParts[event.stream]
    <3>1. event \in Event /\ parts \in SUBSET Element /\ event.block \in Nat
      BY StreamPartsAssumption DEF Event, Block
    <3>2. SyncTypeOK' /\ lastSnapshotSequenceNo' = lastSnapshotSequenceNo
      BY <2>3, <3>1, IngestPatchType DEF HandleEvent
    <3>3. PatchDiff(parts, event.type, event.block).added \subseteq Element
      BY <3>1 DEF PatchDiff, NonStaleElements
    <3>4. joined' \subseteq Element
      BY <2>3, <3>3, HandleDiffType DEF HandleEvent
    <3>5. QED
      BY <2>3, <3>2, <3>4 DEF HandleEvent, chainVars
  <2>4. ASSUME NEW event \in events, LoseEvent(event)
        PROVE  TypeOK'
    BY <2>4 DEF LoseEvent, SyncTypeOK, syncVars, chainVars
  <2>5. ASSUME NEW page \in SUBSET Stream, NEW block \in Block, PollFirstPage(page, block)
        PROVE  TypeOK'
    <3>1. PartsOf(chain[block] \cap page) \in SUBSET Element
      BY PartsOfType
    <3>2. block \in Nat /\ block <= height
      BY <2>5 DEF PollFirstPage, Block
    <3>3. /\ poll' \in [step : {"idle", "paging", "fetched"}, rest : SUBSET Stream,
                       elements : SUBSET Element, blockNumber : Nat]
          /\ poll'.blockNumber = block
      BY <2>5, <3>1, <3>2 DEF PollFirstPage
    <3>4. UNCHANGED <<syncVars, chainVars, events, indexed, joined>>
      BY <2>5 DEF PollFirstPage
    <3>5. QED
      BY <3>2, <3>3, <3>4 DEF SyncTypeOK, syncVars, chainVars
  <2>6. ASSUME NEW block \in Block, PollLastPage(block)
        PROVE  TypeOK'
    <3>1. PartsOf(chain[block] \cap poll.rest) \in SUBSET Element
      BY PartsOfType
    <3>2. block \in Nat /\ block <= height
      BY <2>6 DEF PollLastPage, Block
    <3>3. /\ poll' \in [step : {"idle", "paging", "fetched"}, rest : SUBSET Stream,
                       elements : SUBSET Element, blockNumber : Nat]
          /\ poll'.blockNumber <= height
      BY <2>6, <3>1, <3>2 DEF PollLastPage, Block
    <3>4. UNCHANGED <<syncVars, chainVars, events, indexed, joined>>
      BY <2>6 DEF PollLastPage
    <3>5. QED
      BY <3>2, <3>3, <3>4 DEF SyncTypeOK, syncVars, chainVars
  <2>7. CASE PollIngest
    <3>1. poll.elements \in SUBSET Element /\ poll.blockNumber \in Nat
      OBVIOUS
    <3>2. /\ SyncTypeOK'
          /\ lastSnapshotSequenceNo' \in {lastSnapshotSequenceNo, poll.blockNumber}
      BY <2>7, <3>1, IngestSnapshotType DEF PollIngest
    <3>3. SnapshotDiff(poll.elements, poll.blockNumber).added \subseteq Element
      BY <3>1 DEF SnapshotDiff, SnapshotState, EMPTY_DIFF, SyncTypeOK
    <3>4. joined' \subseteq Element
      BY <2>7, <3>3, HandleDiffType DEF PollIngest
    <3>5. QED
      BY <2>7, <3>2, <3>4 DEF PollIngest, chainVars, IDLE, Block, SyncTypeOK
  <2>8. CASE PollFails
    BY <2>8 DEF PollFails, SyncTypeOK, syncVars, chainVars, IDLE, Block
  <2>9. CASE UNCHANGED vars
    BY <2>9 DEF vars, SyncTypeOK, syncVars, chainVars
  <2>10. QED
    BY <2>1, <2>2, <2>3, <2>4, <2>5, <2>6, <2>7, <2>8, <2>9
       DEF Next, PollStarts, PollContinues
<1>3. QED
  BY <1>1, <1>2, PTL DEF Spec

-----------------------------------------------------------------------------
(* The diffs replay the state *)

\* The parts the node joined are those it lets messages in for: every diff that
\* ingestSnapshot and ingestPatch return is the change they make to the state.
THEOREM JoinedIsStateAlways == Spec => []JoinedIsState
<1>1. Init => JoinedIsState
  BY DEF Init, SyncInit, JoinedIsState
<1>2. TypeOK /\ JoinedIsState /\ [Next]_vars => JoinedIsState'
  <2> SUFFICES ASSUME TypeOK, JoinedIsState, [Next]_vars PROVE JoinedIsState'
    OBVIOUS
  <2> USE DEF JoinedIsState
  <2>1. ASSUME NEW event \in events, HandleEvent(event)
        PROVE  JoinedIsState'
    BY <2>1 DEF HandleEvent, IngestPatch, PatchDiff, NonStaleElements, HandleDiff
  <2>2. CASE PollIngest
    BY <2>2 DEF PollIngest, IngestSnapshot, SnapshotDiff, EMPTY_DIFF, HandleDiff, syncVars
  <2>3. CASE UNCHANGED <<syncVars, joined>>
    BY <2>3 DEF syncVars
  <2>4. QED
    BY <2>1, <2>2, <2>3 DEF Next, PollStarts, PollContinues, Mine, GraphIndexes, LoseEvent,
       PollFirstPage, PollLastPage, PollFails, vars
<1>3. QED
  BY <1>1, <1>2, TypeCorrect, PTL DEF Spec

-----------------------------------------------------------------------------
(* Versions *)

\* A step of the synchronizer never lowers the block a part was learned at.
LEMMA VersionStep ==
    ASSUME TypeOK, [Next]_vars, NEW e \in Element
    PROVE  Version(e)' >= Version(e)
<1> USE DEF TypeOK, SyncTypeOK, Version
<1>1. ASSUME NEW event \in events, HandleEvent(event)
      PROVE  Version(e)' >= Version(e)
  <2>1. event.block \in Nat
    BY DEF Event, Block
  <2>2. QED
    BY <1>1, <2>1 DEF HandleEvent, IngestPatch, NonStaleElements
<1>2. CASE PollIngest
  BY <1>2 DEF PollIngest, IngestSnapshot, StaleSnapshot, PatchedSince, syncVars
<1>3. CASE UNCHANGED syncVars
  BY <1>3 DEF syncVars
<1>4. QED
  BY <1>1, <1>2, <1>3 DEF Next, PollStarts, PollContinues, Mine, GraphIndexes, LoseEvent,
     PollFirstPage, PollLastPage, PollFails, vars

\* The block a part's membership was learned at never goes back, although
\* ingestSnapshot deletes patches and stale snapshots and patches keep arriving.
THEOREM VersionsMonotone == Spec => VersionsNeverGoBack
<1>1. TypeOK /\ [Next]_vars => [\A e \in Element : Version(e)' >= Version(e)]_vars
  BY VersionStep
<1>2. QED
  BY <1>1, TypeCorrect, PTL DEF Spec, VersionsNeverGoBack

-----------------------------------------------------------------------------
(* The truth of the state *)

\* A part is among the parts of some streams if and only if its stream is.
LEMMA PartOfItsStream ==
    ASSUME NEW streams \in SUBSET Stream, NEW s \in Stream, NEW e \in StreamParts[s]
    PROVE  e \in PartsOf(streams) <=> s \in streams
BY PartOfOneStream DEF PartsOf

\* A block changes nothing about the blocks before it.
LEMMA MineStep ==
    ASSUME TypeOK, SyncInv,
           NEW once \in SUBSET Stream, NEW again \in SUBSET Stream, once \cap again = {},
           Mine(once, again)
    PROVE  SyncInv'
<1> USE DEF TypeOK, SyncTypeOK
<1>1. /\ height \in Nat /\ height >= 1 /\ height' = height + 1 /\ height + 1 \in Block
      /\ MaxBlock \in Nat
  BY MaxBlockAssumption DEF Mine, Block
<1>2. \A b \in 1 .. height : b \in Block /\ chain'[b] = chain[b] /\ twice'[b] = twice[b]
  BY <1>1 DEF Mine, Block
<1>3. /\ chain'[height + 1] = (chain[height] \ once) \cup (once \ chain[height])
      /\ twice'[height + 1] = again
  BY <1>1 DEF Mine
<1>4. PatchesAreRecent'
  BY <1>1 DEF SyncInv, PatchesAreRecent, Mine, syncVars
<1>5. EventsAreTrue'
  <2> SUFFICES ASSUME NEW event \in events'
               PROVE  /\ event.block <= height'
                      /\ \/ event.stream \in twice'[event.block]
                         \/ (event.type = "added") <=> event.stream \in chain'[event.block]
    BY DEF EventsAreTrue
  <2>1. CASE event \in events
    <3>1. event.block \in 1 .. height
      BY <2>1, <1>1 DEF SyncInv, EventsAreTrue, Event, Block
    <3>2. QED
      BY <2>1, <3>1, <1>1, <1>2 DEF SyncInv, EventsAreTrue
  <2>2. CASE \E s \in (once \ chain[height]) \cup again : event = AssignmentEvent(s, "added", height + 1)
    BY <2>2, <1>1, <1>3 DEF AssignmentEvent
  <2>3. CASE \E s \in (once \cap chain[height]) \cup again : event = AssignmentEvent(s, "removed", height + 1)
    BY <2>3, <1>1, <1>3 DEF AssignmentEvent
  <2>4. QED
    BY <2>1, <2>2, <2>3 DEF Mine
<1>6. PollIsTrue'
  <2>1. poll' = poll /\ poll.blockNumber \in Nat
    BY DEF Mine
  <2>2. poll.step # "idle" =>
          \A b \in poll.blockNumber .. height : b \in poll.blockNumber .. height' /\ chain'[b] = chain[b]
    BY <2>1, <1>1, <1>2 DEF SyncInv, PollIsTrue
  <2>3. QED
    BY <2>1, <2>2 DEF SyncInv, PollIsTrue
<1>7. NeverOlderThanVersion'
  <2> SUFFICES ASSUME NEW s \in Stream, NEW e \in StreamParts[s]
               PROVE  (\/ Version(e) = 0
                       \/ PatchedWithinTwice(s, e)
                       \/ \E b \in Version(e) .. height : e \in state <=> s \in chain[b])'
    BY DEF NeverOlderThanVersion
  <2>1. e \in Element
    BY StreamPartsAssumption
  <2>2. Version(e)' = Version(e) /\ Version(e) \in Nat /\ state' = state
    BY <2>1 DEF Version, Mine, syncVars
  <2>3. PatchedWithinTwice(s, e) => PatchedWithinTwice(s, e)'
    BY <1>1, <1>2, <2>1 DEF PatchedWithinTwice, SyncInv, PatchesAreRecent, Mine, syncVars, Block
  <2>4. \A b \in Version(e) .. height :
           Version(e) # 0 => b \in Version(e) .. height' /\ chain'[b] = chain[b]
    BY <1>1, <1>2, <2>2
  <2>5. QED
    BY <2>2, <2>3, <2>4 DEF SyncInv, NeverOlderThanVersion
<1>8. QED
  BY <1>4, <1>5, <1>6, <1>7 DEF SyncInv

\* A patch takes its parts to the block of the event, and only forward.
LEMMA HandleEventStep ==
    ASSUME TypeOK, SyncInv, NEW event \in events, HandleEvent(event)
    PROVE  SyncInv'
<1> USE DEF TypeOK, SyncTypeOK
<1> DEFINE parts == StreamParts[event.stream]
           fresh == NonStaleElements(parts, event.block)
<1>1. /\ event \in Event /\ event.stream \in Stream /\ event.block \in Block
      /\ event.block \in Nat /\ event.block >= 1 /\ height \in Nat /\ event.block <= height
  BY MaxBlockAssumption DEF Event, Block, SyncInv, EventsAreTrue
<1>2. parts \subseteq Element
  BY <1>1, StreamPartsAssumption
<1>3. UNCHANGED <<chainVars, indexed, poll, lastSnapshotSequenceNo>> /\ events' \subseteq events
  BY DEF HandleEvent, IngestPatch
<1>4. \A e \in Element : IF e \in fresh
         THEN /\ lastSequenceNoByElement'[e] = event.block
              /\ e \in state' <=> event.type = "added"
         ELSE /\ lastSequenceNoByElement'[e] = lastSequenceNoByElement[e]
              /\ e \in state' <=> e \in state
  BY DEF HandleEvent, IngestPatch
<1>5. PatchesAreRecent'
  BY <1>1, <1>3, <1>4 DEF SyncInv, PatchesAreRecent, NonStaleElements, chainVars
<1>6. EventsAreTrue' /\ PollIsTrue'
  BY <1>3 DEF SyncInv, EventsAreTrue, PollIsTrue, chainVars
<1>7. NeverOlderThanVersion'
  <2> SUFFICES ASSUME NEW s \in Stream, NEW e \in StreamParts[s]
               PROVE  (\/ Version(e) = 0
                       \/ PatchedWithinTwice(s, e)
                       \/ \E b \in Version(e) .. height : e \in state <=> s \in chain[b])'
    BY DEF NeverOlderThanVersion
  <2>1. e \in Element
    BY StreamPartsAssumption
  <2>2. CASE e \in fresh
    <3>1. s = event.stream
      BY <1>1, <2>2, PartOfOneStream DEF NonStaleElements
    <3>2. Version(e)' = event.block /\ lastSequenceNoByElement'[e] = event.block
      BY <1>1, <1>3, <1>4, <2>1, <2>2 DEF Version, NonStaleElements
    <3>3. CASE s \in twice[event.block]
      BY <1>1, <1>3, <3>2, <3>3 DEF PatchedWithinTwice, chainVars
    <3>4. CASE (event.type = "added") <=> s \in chain[event.block]
      <4>1. (e \in state') <=> (s \in chain'[event.block])
        BY <1>3, <1>4, <2>1, <2>2, <3>4 DEF chainVars
      <4>2. event.block \in Version(e)' .. height'
        BY <1>1, <1>3, <3>2 DEF chainVars
      <4>3. QED
        BY <4>1, <4>2
    <3>5. QED
      BY <3>1, <3>3, <3>4 DEF SyncInv, EventsAreTrue
  <2>3. CASE e \notin fresh
    <3>1. /\ Version(e)' = Version(e) /\ (e \in state' <=> e \in state)
          /\ chain' = chain /\ height' = height
      BY <1>3, <1>4, <2>1, <2>3 DEF Version, chainVars
    <3>2. PatchedWithinTwice(s, e)' <=> PatchedWithinTwice(s, e)
      BY <1>3, <1>4, <2>1, <2>3 DEF PatchedWithinTwice, chainVars
    <3>3. QED
      BY <3>1, <3>2 DEF SyncInv, NeverOlderThanVersion
  <2>4. QED
    BY <2>2, <2>3
<1>8. QED
  BY <1>5, <1>6, <1>7 DEF SyncInv

\* A page tells what the registry holds at its block, about the streams on it.
LEMMA FirstPageStep ==
    ASSUME TypeOK, SyncInv, NEW page \in SUBSET Stream, NEW block \in Block,
           PollFirstPage(page, block)
    PROVE  PollIsTrue'
<1> USE DEF TypeOK
<1>1. /\ block \in Nat /\ block > 0 /\ height \in Nat /\ block <= height
      /\ chain[block] \cap page \in SUBSET Stream
  BY MaxBlockAssumption DEF PollFirstPage, Block
<1>2. /\ chain' = chain /\ height' = height
      /\ poll'.step = "paging" /\ poll'.rest = Stream \ page /\ poll'.blockNumber = block
      /\ poll'.elements = PartsOf(chain[block] \cap page)
  BY DEF PollFirstPage, chainVars
<1>3. ASSUME NEW s \in Stream, NEW e \in StreamParts[s]
      PROVE  IF s \in poll'.rest THEN e \notin poll'.elements
             ELSE \E b \in poll'.blockNumber .. height' : e \in poll'.elements <=> s \in chain'[b]
  <2>1. e \in poll'.elements <=> s \in chain[block] \cap page
    BY <1>1, <1>2, PartOfItsStream
  <2>2. block \in poll'.blockNumber .. height'
    BY <1>1, <1>2
  <2>3. CASE s \in page
    <3>1. (e \in poll'.elements) <=> (s \in chain'[block])
      BY <1>2, <2>1, <2>3
    <3>2. QED
      BY <1>2, <2>2, <2>3, <3>1
  <2>4. CASE s \notin page
    BY <1>2, <2>1, <2>4
  <2>5. QED
    BY <2>3, <2>4
<1>4. QED
  BY <1>1, <1>2, <1>3 DEF PollIsTrue

\* The pages together tell what the registry holds about every stream, at the
\* smallest of their blocks or later.
LEMMA LastPageStep ==
    ASSUME TypeOK, SyncInv, NEW block \in Block, PollLastPage(block)
    PROVE  PollIsTrue'
<1> USE DEF TypeOK
<1>1. /\ block \in Nat /\ block > 0 /\ height \in Nat /\ block <= height
      /\ chain[block] \cap poll.rest \in SUBSET Stream
      /\ poll.step = "paging" /\ poll.blockNumber \in Nat
  BY MaxBlockAssumption DEF PollLastPage, Block
<1>2. /\ chain' = chain /\ height' = height
      /\ poll'.step = "fetched" /\ poll'.rest = {}
      /\ poll'.blockNumber = IF block < poll.blockNumber THEN block ELSE poll.blockNumber
      /\ poll'.elements = poll.elements \cup PartsOf(chain[block] \cap poll.rest)
  BY DEF PollLastPage, chainVars
<1>3. poll.blockNumber > 0 /\ poll'.blockNumber > 0 /\ poll'.blockNumber \in Nat
  BY <1>1, <1>2 DEF SyncInv, PollIsTrue
<1>4. ASSUME NEW s \in Stream, NEW e \in StreamParts[s]
      PROVE  \E b \in poll'.blockNumber .. height' : e \in poll'.elements <=> s \in chain'[b]
  <2>1. e \in PartsOf(chain[block] \cap poll.rest) <=> s \in chain[block] \cap poll.rest
    BY <1>1, PartOfItsStream
  <2>2. CASE s \in poll.rest
    <3>1. e \notin poll.elements
      BY <1>1, <2>2 DEF SyncInv, PollIsTrue
    <3>2. (e \in poll'.elements) <=> (s \in chain'[block])
      BY <1>2, <2>1, <2>2, <3>1
    <3>3. block \in poll'.blockNumber .. height'
      BY <1>1, <1>2
    <3>4. QED
      BY <3>2, <3>3
  <2>3. CASE s \notin poll.rest
    <3>1. PICK b \in poll.blockNumber .. height : e \in poll.elements <=> s \in chain[b]
      BY <1>1, <2>3 DEF SyncInv, PollIsTrue
    <3>2. (e \in poll'.elements) <=> (s \in chain'[b])
      BY <1>2, <2>1, <2>3, <3>1
    <3>3. b \in poll'.blockNumber .. height'
      BY <1>1, <1>2, <3>1
    <3>4. QED
      BY <3>2, <3>3
  <2>4. QED
    BY <2>2, <2>3
<1>5. QED
  BY <1>2, <1>3, <1>4 DEF PollIsTrue

\* A snapshot takes every part without a newer patch to the block of the snapshot.
LEMMA PollIngestStep ==
    ASSUME TypeOK, SyncInv, PollIngest
    PROVE  SyncInv'
<1> USE DEF TypeOK, SyncTypeOK
<1>1. UNCHANGED chainVars /\ UNCHANGED events /\ poll'.step = "idle"
  BY DEF PollIngest, IDLE
<1>2. EventsAreTrue' /\ PollIsTrue'
  BY <1>1 DEF SyncInv, EventsAreTrue, PollIsTrue, chainVars
<1>3. poll.blockNumber \in Nat /\ poll.blockNumber > 0 /\ poll.rest = {}
  BY DEF PollIngest, SyncInv, PollIsTrue
<1>4. CASE StaleSnapshot(poll.blockNumber)
  <2>1. UNCHANGED syncVars
    BY <1>4 DEF PollIngest, IngestSnapshot
  <2>2. PatchesAreRecent'
    BY <1>1, <2>1 DEF SyncInv, PatchesAreRecent, syncVars, chainVars
  <2>3. NeverOlderThanVersion'
    BY <1>1, <2>1 DEF SyncInv, NeverOlderThanVersion, PatchedWithinTwice, Version, syncVars, chainVars
  <2>4. QED
    BY <1>2, <2>2, <2>3 DEF SyncInv
<1>5. CASE ~StaleSnapshot(poll.blockNumber)
  <2>1. /\ lastSnapshotSequenceNo' = poll.blockNumber
        /\ poll.blockNumber > lastSnapshotSequenceNo
        /\ \A e \in Element :
              IF lastSequenceNoByElement[e] > poll.blockNumber
              THEN /\ lastSequenceNoByElement'[e] = lastSequenceNoByElement[e]
                   /\ e \in state' <=> e \in state
              ELSE /\ lastSequenceNoByElement'[e] = 0
                   /\ e \in state' <=> e \in poll.elements
    BY <1>3, <1>5 DEF PollIngest, IngestSnapshot, SnapshotState, PatchedSince, StaleSnapshot
  <2>2. PatchesAreRecent'
    BY <1>1, <1>3, <2>1 DEF SyncInv, PatchesAreRecent, chainVars, Block
  <2>3. NeverOlderThanVersion'
    <3> SUFFICES ASSUME NEW s \in Stream, NEW e \in StreamParts[s]
                 PROVE  (\/ Version(e) = 0
                         \/ PatchedWithinTwice(s, e)
                         \/ \E b \in Version(e) .. height : e \in state <=> s \in chain[b])'
      BY DEF NeverOlderThanVersion
    <3>1. e \in Element
      BY StreamPartsAssumption
    <3>2. CASE lastSequenceNoByElement[e] > poll.blockNumber
      <4>1. /\ Version(e)' = Version(e) /\ (e \in state' <=> e \in state)
            /\ chain' = chain /\ height' = height
        BY <1>1, <1>3, <2>1, <3>1, <3>2 DEF Version, chainVars
      <4>2. PatchedWithinTwice(s, e)' <=> PatchedWithinTwice(s, e)
        BY <1>1, <2>1, <3>1, <3>2 DEF PatchedWithinTwice, chainVars
      <4>3. QED
        BY <4>1, <4>2 DEF SyncInv, NeverOlderThanVersion
    <3>3. CASE ~(lastSequenceNoByElement[e] > poll.blockNumber)
      <4>1. Version(e)' = poll.blockNumber
        BY <1>3, <2>1, <3>1, <3>3 DEF Version
      <4>2. PICK b \in poll.blockNumber .. height : e \in poll.elements <=> s \in chain[b]
        BY <1>3 DEF PollIngest, SyncInv, PollIsTrue
      <4>3. (e \in state') <=> (s \in chain'[b])
        BY <1>1, <2>1, <3>1, <3>3, <4>2 DEF chainVars
      <4>4. b \in Version(e)' .. height'
        BY <1>1, <4>1, <4>2 DEF chainVars
      <4>5. QED
        BY <4>3, <4>4
    <3>4. QED
      BY <3>2, <3>3
  <2>4. QED
    BY <1>2, <2>2, <2>3 DEF SyncInv
<1>6. QED
  BY <1>4, <1>5

\* No reordered, lost or duplicated event and no stale or torn snapshot takes a part
\* back to an assignment older than the block it was learned at.
THEOREM NeverOlder == Spec => []NeverOlderThanVersion
<1>1. Init => SyncInv
  BY StreamPartsAssumption, MaxBlockAssumption DEF Init, SyncInit, SyncInv, PatchesAreRecent,
     EventsAreTrue, PollIsTrue, NeverOlderThanVersion, Version, IDLE, Block
<1>2. TypeOK /\ SyncInv /\ [Next]_vars => SyncInv'
  <2> SUFFICES ASSUME TypeOK, SyncInv, [Next]_vars PROVE SyncInv'
    OBVIOUS
  <2>1. ASSUME UNCHANGED <<syncVars, chainVars>>, events' \subseteq events, PollIsTrue'
        PROVE  SyncInv'
    <3>1. PatchesAreRecent' /\ EventsAreTrue'
      BY <2>1 DEF SyncInv, PatchesAreRecent, EventsAreTrue, syncVars, chainVars
    <3>2. NeverOlderThanVersion'
      BY <2>1 DEF SyncInv, NeverOlderThanVersion, PatchedWithinTwice, Version, syncVars, chainVars
    <3>3. QED
      BY <2>1, <3>1, <3>2 DEF SyncInv
  <2>2. CASE GraphIndexes
    BY <2>1, <2>2 DEF GraphIndexes, SyncInv, PollIsTrue, chainVars
  <2>3. ASSUME NEW event \in events, LoseEvent(event)
        PROVE  SyncInv'
    BY <2>1, <2>3 DEF LoseEvent, SyncInv, PollIsTrue, chainVars
  <2>4. CASE PollFails
    BY <2>1, <2>4 DEF PollFails, PollIsTrue, IDLE
  <2>5. CASE UNCHANGED vars
    BY <2>1, <2>5 DEF vars, SyncInv, PollIsTrue, chainVars
  <2>6. ASSUME NEW page \in SUBSET Stream, NEW block \in Block, PollFirstPage(page, block)
        PROVE  SyncInv'
    BY <2>1, <2>6, FirstPageStep DEF PollFirstPage
  <2>7. ASSUME NEW block \in Block, PollLastPage(block)
        PROVE  SyncInv'
    BY <2>1, <2>7, LastPageStep DEF PollLastPage
  <2>8. QED
    BY <2>2, <2>3, <2>4, <2>5, <2>6, <2>7, MineStep, HandleEventStep, PollIngestStep
       DEF Next, PollStarts, PollContinues
<1>3. SyncInv => NeverOlderThanVersion
  BY DEF SyncInv
<1>4. QED
  BY <1>1, <1>2, <1>3, TypeCorrect, PTL DEF Spec

\* The plugin's parts are those of the synchronizer, and no element of it is older than the
\* version it carries: the set that storage joins follows the chain (StorageConfig.onEvent,
\* the poll's onNewSnapshot, SetMembershipSynchronizer).
THEOREM FollowsChain == Spec => []JoinedFollowsChain
<1>1. JoinedIsState /\ NeverOlderThanVersion => JoinedFollowsChain
  BY DEF JoinedFollowsChain
<1>2. QED
  BY <1>1, JoinedIsStateAlways, NeverOlder, PTL
=============================================================================
