------------------------------ MODULE GapFilling ------------------------------
(***************************************************************************)
(* The messages of one publisher as a subscriber orders them.  The         *)
(* OrderedMessageChain passes a message on when its predecessor was passed *)
(* on, keeps the others in a heap and announces one gap at a time; the     *)
(* GapFiller runs a task per gap that asks a storage node for the missing  *)
(* messages and, at last, resolves the gap without them.  Real time        *)
(* messages arrive all the while.  A task is aborted when its gap is       *)
(* resolved, but only some of its steps heed that.                         *)
(***************************************************************************)
EXTENDS Naturals, Sequences, FiniteSets, FiniteSetsExt, SequencesExt

CONSTANTS
    MsgCount,
    NoPrev,         \* the messages without a reference to their predecessor
    Strategies,     \* the values of gapFillStrategy: "full", "light"
    MaxRequestsPerGap,
    MaxGaps,        \* how many gaps are announced
    MaxStorageFaults

ASSUME GapFillingAssumption ==
    /\ {MsgCount, MaxRequestsPerGap, MaxGaps, MaxStorageFaults} \subseteq Nat
    /\ NoPrev \subseteq 1 .. MsgCount /\ Strategies \subseteq {"full", "light"}

VARIABLES
    strategy,
    storedMessages, \* what the storage node has
    arrived,        \* the messages that the network delivered
    lastOrdered,    \* lastOrderedMsg, 0 if undefined
    pendingMsgs, currentGap,
    ordered,        \* what was passed on
    gapTasks,       \* the tasks of the GapFiller
    currentTask,    \* the index of a task, 0 if undefined
    skipped,        \* the messages that the chain passed over: by which task and why
    lookupFailed,   \* getStorageNodeAddresses() failed for a gap
    inputEnded, outputEnded, chainAborted,
    storageFaults

chainState == <<lastOrdered, pendingMsgs, currentGap, ordered, gapTasks, currentTask>>
gapVars == <<strategy, storedMessages, arrived, chainState, skipped, lookupFailed,
             inputEnded, outputEnded, chainAborted, storageFaults>>

Msgs == 1 .. MsgCount
NoGap == [from |-> 0, to |-> 0]
Gap == [from : 0 .. MsgCount, to : 0 .. MsgCount]

GapFillingTypeOK ==
    /\ strategy \in Strategies
    /\ storedMessages \cup arrived \cup pendingMsgs \subseteq Msgs
    /\ lastOrdered \in 0 .. MsgCount /\ currentGap \in Gap
    /\ ordered \in Seq(Msgs)
    /\ \A i \in 1 .. Len(gapTasks) : gapTasks[i].gap \in Gap /\ gapTasks[i].aborted \in BOOLEAN
    /\ currentTask \in 0 .. Len(gapTasks)
    /\ {lookupFailed, inputEnded, outputEnded, chainAborted} \subseteq BOOLEAN

GapFillingInit ==
    /\ strategy \in Strategies
    /\ storedMessages \in SUBSET Msgs
    /\ arrived = {} /\ lastOrdered = 0 /\ pendingMsgs = {} /\ currentGap = NoGap /\ ordered = <<>>
    /\ gapTasks = <<>> /\ currentTask = 0
    /\ skipped = {} /\ lookupFailed = FALSE
    /\ inputEnded = FALSE /\ outputEnded = FALSE /\ chainAborted = FALSE
    /\ storageFaults = 0

-----------------------------------------------------------------------------
(* OrderedMessageChain.                                                    *)

IsStale(m) == m <= lastOrdered \/ m \in pendingMsgs

\* Whether m follows the message before it, in the heap or last passed on.
IsNextOrderedMessage(m, heap) ==
    LET below == {k \in heap : k < m}
        before == IF below = {} THEN lastOrdered ELSE Max(below)
    IN  before = 0 \/ m \in NoPrev \/ m - 1 = before

\* What consumePendingOrderedMessages() takes from the heap: as far as each message is next, or at most `to`.
Consumable(heap, to) ==
    {m \in heap : \A k \in heap : k <= m => IsNextOrderedMessage(k, heap) \/ k <= to}

NewTask(gap) == [gap |-> gap, at |-> "waiting", attempt |-> 0, coming |-> <<>>, aborted |-> FALSE, answered |-> FALSE]

\* checkGapResolved(), after each message that is passed on.
GapResolved(consumed) == currentGap # NoGap /\ currentGap.to \in consumed

(* consumePendingOrderedMessages() with the tasks as they are by now:      *)
(* gapResolved aborts the current task, gapFound starts one.               *)
Consume(heap, to, gapCheckEnabled, ts) ==
    LET consumed == Consumable(heap, to)
        rest == heap \ consumed
        last == IF consumed = {} THEN lastOrdered ELSE Max(consumed)
        resolved == GapResolved(consumed)
        ts1 == IF resolved /\ currentTask # 0 THEN [ts EXCEPT ![currentTask].aborted = TRUE] ELSE ts
        open == currentGap # NoGap /\ ~resolved
        found == gapCheckEnabled /\ rest # {} /\ ~open
        gap == [from |-> last, to |-> Min(rest)]
    IN  /\ pendingMsgs' = rest
        /\ lastOrdered' = last
        /\ ordered' = ordered \o SetToSortSeq(consumed, <)
        /\ IF found
           THEN /\ Len(ts) < MaxGaps
                /\ currentGap' = gap
                /\ gapTasks' = Append(ts1, NewTask(gap)) /\ currentTask' = Len(ts1) + 1
           ELSE /\ currentGap' = IF open THEN currentGap ELSE NoGap
                /\ gapTasks' = ts1 /\ currentTask' = IF open THEN currentTask ELSE 0

AddMessage(m, ts) ==
    IF IsStale(m) \/ chainAborted
    THEN gapTasks' = ts /\ UNCHANGED <<lastOrdered, pendingMsgs, currentGap, ordered, currentTask>>
    ELSE Consume(pendingMsgs \cup {m}, 0, TRUE, ts)

-----------------------------------------------------------------------------
(* addMessages() of OrderMessages: messages from the network, in any       *)
(* order; the source ends, and the output once the chain is idle.          *)

MessageArrives(m) ==
    /\ m \notin arrived /\ ~inputEnded /\ ~chainAborted
    /\ arrived' = arrived \cup {m}
    /\ AddMessage(m, gapTasks)
    /\ UNCHANGED <<strategy, storedMessages, skipped, lookupFailed, inputEnded, outputEnded, chainAborted, storageFaults>>

InputEnds ==
    /\ ~inputEnded
    /\ inputEnded' = TRUE
    /\ UNCHANGED <<strategy, storedMessages, arrived, chainState, skipped, lookupFailed, outputEnded, chainAborted, storageFaults>>

\* waitUntilIdle().
OutputEnds ==
    /\ inputEnded /\ ~outputEnded /\ pendingMsgs = {}
    /\ outputEnded' = TRUE
    /\ UNCHANGED <<strategy, storedMessages, arrived, chainState, skipped, lookupFailed, inputEnded, chainAborted, storageFaults>>

\* destroy(): the output ends, the chain's listeners are removed and the current task is aborted.
DestroyChain ==
    /\ ~chainAborted
    /\ chainAborted' = TRUE /\ outputEnded' = TRUE
    /\ gapTasks' = IF currentTask = 0 THEN gapTasks ELSE [gapTasks EXCEPT ![currentTask].aborted = TRUE]
    /\ UNCHANGED <<strategy, storedMessages, arrived, lastOrdered, pendingMsgs, currentGap, ordered, currentTask,
                   skipped, lookupFailed, inputEnded, storageFaults>>

-----------------------------------------------------------------------------
(* GapFiller: onGapFound() of the task with index i.                       *)

\* Seeded fault: a task passes over every gap, whatever the strategy.
PassesOverToAll(gap) == MsgCount

\* Up to which message resolveMessages() passes on what waits: the end of the task's gap, or all.
PassesOverTo(gap) == IF strategy = "full" THEN gap.to ELSE MsgCount

\* Whether the chain looks for the next gap after resolveMessages().
GapCheckEnabled == strategy = "full"

\* resolveMessages() by task i, whether or not it was aborted meanwhile.
Resolve(i, ts) ==
    LET t == ts[i]
        to == PassesOverTo(t.gap)
        consumed == Consumable(pendingMsgs, to)
        over == {m \in Msgs : lastOrdered < m /\ m \notin pendingMsgs /\ \E k \in consumed : m < k}
        done == [ts EXCEPT ![i].at = "done"]
    IN  IF chainAborted
        THEN gapTasks' = done /\ UNCHANGED <<lastOrdered, pendingMsgs, currentGap, ordered, currentTask, skipped>>
        ELSE /\ Consume(pendingMsgs, to, GapCheckEnabled, done)
             /\ skipped' = skipped \cup {[msg |-> m, aborted |-> t.aborted, answered |-> t.answered,
                                          inGap |-> t.gap.from < m /\ m < t.gap.to] : m \in over}

\* A wait that is aborted ends the task.
GapWaitEnds(i) ==
    /\ gapTasks[i].at \in {"waiting", "retrying"}
    /\ IF gapTasks[i].aborted
       THEN gapTasks' = [gapTasks EXCEPT ![i].at = "done"] /\ UNCHANGED <<lastOrdered, pendingMsgs, currentGap, ordered, currentTask, skipped>>
       ELSE IF MaxRequestsPerGap = 0
       THEN Resolve(i, gapTasks)
       ELSE /\ gapTasks' = [gapTasks EXCEPT ![i].at = IF @ = "waiting" THEN "looking up" ELSE "requesting"]
            /\ UNCHANGED <<lastOrdered, pendingMsgs, currentGap, ordered, currentTask, skipped>>
    /\ UNCHANGED <<strategy, storedMessages, arrived, lookupFailed, inputEnded, outputEnded, chainAborted, storageFaults>>

\* getStorageNodeAddresses(): there is a node, there is none, or the call fails and with it the task.
LookupEnds(i, outcome) ==
    /\ gapTasks[i].at = "looking up"
    /\ \/ /\ outcome = "a node"
          /\ gapTasks' = [gapTasks EXCEPT ![i].at = "requesting"]
          /\ UNCHANGED <<lastOrdered, pendingMsgs, currentGap, ordered, currentTask, skipped, lookupFailed, storageFaults>>
       \/ /\ outcome = "no node" /\ storageFaults < MaxStorageFaults
          /\ storageFaults' = storageFaults + 1
          /\ Resolve(i, gapTasks)
          /\ UNCHANGED lookupFailed
       \/ /\ outcome = "error" /\ storageFaults < MaxStorageFaults
          /\ storageFaults' = storageFaults + 1
          /\ gapTasks' = [gapTasks EXCEPT ![i].at = "done"]
          /\ lookupFailed' = TRUE
          /\ UNCHANGED <<lastOrdered, pendingMsgs, currentGap, ordered, currentTask, skipped>>
    /\ UNCHANGED <<strategy, storedMessages, arrived, inputEnded, outputEnded, chainAborted>>

\* What the resend of a gap asks for: from just after its `from` to the predecessor of its `to`.
RangeOfGap(gap) == {m \in storedMessages : gap.from < m /\ m < gap.to}

\* fetchStream() of one of the addresses.
RequestAnswered(i) ==
    LET t == gapTasks[i]
    IN  /\ t.at = "requesting" /\ ~t.aborted
        /\ gapTasks' = [gapTasks EXCEPT ![i].at = "reading", ![i].coming = SetToSortSeq(RangeOfGap(t.gap), <), ![i].answered = TRUE]
        /\ UNCHANGED <<strategy, storedMessages, arrived, lastOrdered, pendingMsgs, currentGap, ordered, currentTask,
                       skipped, lookupFailed, inputEnded, outputEnded, chainAborted, storageFaults>>

ResendMessage(i) ==
    /\ gapTasks[i].at = "reading" /\ gapTasks[i].coming # <<>>
    /\ AddMessage(Head(gapTasks[i].coming), [gapTasks EXCEPT ![i].coming = Tail(@)])
    /\ UNCHANGED <<strategy, storedMessages, arrived, skipped, lookupFailed, inputEnded, outputEnded, chainAborted, storageFaults>>

\* Whether fetchFromStorageNode() makes another request.
RequestsLeft(i) == gapTasks[i].attempt + 1 < MaxRequestsPerGap

(* A request is over: its messages were read, it fails, or it is aborted.  *)
(* After the last one fetchFromStorageNode() returns and the gap is        *)
(* resolved: no step looks at the abort signal any more.                   *)
RequestEnds(i, fails) ==
    LET t == gapTasks[i]
    IN  /\ \/ t.at = "reading" /\ t.coming = <<>> /\ ~fails
           \/ t.at \in {"requesting", "reading"} /\ t.aborted /\ ~fails
           \/ t.at \in {"requesting", "reading"} /\ ~t.aborted /\ fails /\ storageFaults < MaxStorageFaults
        /\ storageFaults' = IF fails THEN storageFaults + 1 ELSE storageFaults
        /\ LET read == t.at = "reading" /\ t.coming = <<>>
               ts == [gapTasks EXCEPT ![i].coming = <<>>, ![i].attempt = @ + 1, ![i].answered = @ /\ read]
           IN  IF RequestsLeft(i)
               THEN /\ gapTasks' = [ts EXCEPT ![i].at = "retrying"]
                    /\ UNCHANGED <<lastOrdered, pendingMsgs, currentGap, ordered, currentTask, skipped>>
               ELSE Resolve(i, ts)
        /\ UNCHANGED <<strategy, storedMessages, arrived, lookupFailed, inputEnded, outputEnded, chainAborted>>

GapFillingNext ==
    \/ \E m \in Msgs : MessageArrives(m)
    \/ InputEnds \/ OutputEnds \/ DestroyChain
    \/ \E i \in 1 .. Len(gapTasks) :
         \/ GapWaitEnds(i) \/ RequestAnswered(i) \/ ResendMessage(i)
         \/ \E outcome \in {"a node", "no node", "error"} : LookupEnds(i, outcome)
         \/ \E fails \in BOOLEAN : RequestEnds(i, fails)

GapFillingSpec == GapFillingInit /\ [][GapFillingNext]_gapVars

-----------------------------------------------------------------------------
(***************************************************************************)
(* Messages wait in the heap only while a task that is not aborted is at   *)
(* work on the gap before them, so that they are passed on in the end, and *)
(* the output of a subscription whose source ended does end.  The one      *)
(* exception: the storage nodes of the stream could not be looked up.      *)
(***************************************************************************)
HeldOnlyWhileFilling ==
    (pendingMsgs # {} /\ ~lookupFailed /\ ~chainAborted) =>
        /\ currentTask # 0
        /\ gapTasks[currentTask].gap = currentGap /\ ~gapTasks[currentTask].aborted /\ gapTasks[currentTask].at # "done"
        /\ currentGap.from <= lastOrdered /\ lastOrdered < currentGap.to /\ currentGap.to \in pendingMsgs

(***************************************************************************)
(* Messages are passed on in order and at most once, and with the full     *)
(* strategy a message is passed over only by the task of its own gap, and  *)
(* not if the storage node has it and answered that task's last request.   *)
(***************************************************************************)
PassedOverOnlyIfMissing ==
    /\ \A i \in 1 .. Len(ordered) - 1 : ordered[i] < ordered[i + 1]
    /\ strategy = "full" =>
         \A s \in skipped : s.inGap /\ ~s.aborted /\ (s.msg \in storedMessages => ~s.answered)

(***************************************************************************)
(* Ordering loses nothing needlessly: messages wait only while a gap is    *)
(* being filled, and only what no storage node had is passed over.         *)
(***************************************************************************)
GapsAreFilled == HeldOnlyWhileFilling /\ PassedOverOnlyIfMissing
=============================================================================
