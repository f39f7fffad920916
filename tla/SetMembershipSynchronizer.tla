---------------------- MODULE SetMembershipSynchronizer ----------------------
(***************************************************************************)
(* packages/node/src/plugins/storage/SetMembershipSynchronizer.ts: a set   *)
(* that evolves with the blocks of the chain, updated by snapshots (the    *)
(* whole set at a block) and by patches (some elements added or removed at *)
(* a block), which arrive in any order.                                    *)
(*                                                                         *)
(* The module has the class's state, one action per method and, for each,  *)
(* the Diff that the method returns; StorageConfig composes it with the    *)
(* chain, the event listener and the poller.                               *)
(***************************************************************************)
EXTENDS Naturals

CONSTANT Element        \* the stream parts

VARIABLES
    lastSnapshotSequenceNo,     \* block of the newest snapshot ingested, 0 at first
    state,                      \* snapshot + patches
    lastSequenceNoByElement     \* block of the newest patch of an element, 0 = not in the Map

syncVars == <<lastSnapshotSequenceNo, state, lastSequenceNoByElement>>

SyncTypeOK ==
    /\ lastSnapshotSequenceNo \in Nat
    /\ state \subseteq Element
    /\ lastSequenceNoByElement \in [Element -> Nat]

SyncInit ==
    /\ lastSnapshotSequenceNo = 0
    /\ state = {}
    /\ lastSequenceNoByElement = [e \in Element |-> 0]

EMPTY_DIFF == [added |-> {}, removed |-> {}]

-----------------------------------------------------------------------------
(* ingestSnapshot *)

\* Seeded fault: snapshots are ingested in whatever order they come.
NoStaleSnapshot(sequenceNo) == FALSE

StaleSnapshot(sequenceNo) == sequenceNo <= lastSnapshotSequenceNo

\* The elements whose patch is newer than the snapshot; the others lose theirs.
PatchedSince(sequenceNo) == {e \in Element : lastSequenceNoByElement[e] > sequenceNo}

\* Seeded fault: the newer patches are not kept.
SnapshotStateUnpatched(elements, sequenceNo) == elements

\* The snapshot, except that an element with a newer patch stays as it was.
SnapshotState(elements, sequenceNo) ==
    (elements \ PatchedSince(sequenceNo)) \cup (state \cap PatchedSince(sequenceNo))

SnapshotDiff(elements, sequenceNo) ==
    IF StaleSnapshot(sequenceNo)
    THEN EMPTY_DIFF
    ELSE [added   |-> SnapshotState(elements, sequenceNo) \ state,
          removed |-> state \ SnapshotState(elements, sequenceNo)]

IngestSnapshot(elements, sequenceNo) ==
    IF StaleSnapshot(sequenceNo)
    THEN UNCHANGED syncVars
    ELSE /\ lastSnapshotSequenceNo' = sequenceNo
         /\ lastSequenceNoByElement' =
                [e \in Element |-> IF e \in PatchedSince(sequenceNo)
                                   THEN lastSequenceNoByElement[e] ELSE 0]
         /\ state' = SnapshotState(elements, sequenceNo)

-----------------------------------------------------------------------------
(* ingestPatch *)

\* Seeded fault: a patch is compared with the other patches only.
NonStaleAmongPatches(elements, sequenceNo) ==
    {e \in elements : sequenceNo > lastSequenceNoByElement[e]}

\* The elements the patch applies to: none if it is not newer than the last
\* snapshot, otherwise those that have had no patch at the same block or later.
NonStaleElements(elements, sequenceNo) ==
    {e \in elements : /\ sequenceNo > lastSnapshotSequenceNo
                      /\ sequenceNo > lastSequenceNoByElement[e]}

PatchDiff(elements, operation, sequenceNo) ==
    LET fresh == NonStaleElements(elements, sequenceNo)
    IN  IF operation = "added"
        THEN [added |-> fresh \ state, removed |-> {}]
        ELSE [added |-> {}, removed |-> fresh \cap state]

IngestPatch(elements, operation, sequenceNo) ==
    LET fresh == NonStaleElements(elements, sequenceNo)
    IN  /\ lastSequenceNoByElement' =
               [e \in Element |-> IF e \in fresh
                                  THEN sequenceNo ELSE lastSequenceNoByElement[e]]
        /\ state' = IF operation = "added" THEN state \cup fresh ELSE state \ fresh
        /\ UNCHANGED lastSnapshotSequenceNo

-----------------------------------------------------------------------------
\* The block that the membership of e was last learned at (0 = never).
Version(e) == IF lastSequenceNoByElement[e] > lastSnapshotSequenceNo
              THEN lastSequenceNoByElement[e] ELSE lastSnapshotSequenceNo
=============================================================================
