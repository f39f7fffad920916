------------------------------ MODULE Delivery -------------------------------
(***************************************************************************)
(* How one node of a stream part passes on the messages of one message     *)
(* chain: ContentDeliveryRpcLocal, the DuplicateMessageDetector,           *)
(* Propagation with its FifoMapWithTTL, and temporary connections.         *)
(*                                                                         *)
(* A message is an index of Chain, which gives its number (timestamp and   *)
(* sequence number); its previous message is the one before it.            *)
(* sendStreamMessage() does not wait for the transport: a send is marked   *)
(* as handled before any other event of the node.                          *)
(***************************************************************************)
EXTENDS Naturals, Sequences, FiniteSets, FiniteSetsExt

CONSTANTS
    Chain,                  \* the number pairs of the messages, ascending
    Peer,
    FirstNeighbors,
    MaxGapCount,            \* maxGapCount of the DuplicateMessageDetector
    MinPropagationTargets,
    MaxTasks,               \* maxSize of the FifoMapWithTTL
    MaxReceived,            \* how many copies of messages arrive
    MaxPeerChanges          \* how often a peer joins, leaves or opens a connection

ASSUME DeliveryAssumption ==
    /\ Chain \in Seq(Nat \X Nat) /\ Chain # <<>>
    /\ \A i, j \in DOMAIN Chain :
         i < j => Chain[i][1] < Chain[j][1] \/ (Chain[i][1] = Chain[j][1] /\ Chain[i][2] < Chain[j][2])
    /\ IsFiniteSet(Peer) /\ FirstNeighbors \subseteq Peer
    /\ MaxGapCount \in Nat \ {0} /\ MinPropagationTargets \in Nat /\ MaxTasks \in Nat \ {0}

VARIABLES
    own,            \* whether this node publishes the chain
    gaps,           \* the intervals (x, y] that may hold unseen messages
    emitted,        \* how often a message was given to the listeners
    heard,          \* the messages received, with their senders
    oldest,         \* the first message that was marked, 0 before
    forgotten,      \* the messages in gaps that were dropped
    ownNeighbors,
    temporary,      \* temporaryNodes
    tasks,          \* activeTaskStore; `at` tells the order of its dropQueue
    sentTo,         \* the peers a message was sent to
    givenUp,        \* the messages whose task expired or was pushed out
    peerChanges

deliveryVars == <<own, gaps, emitted, heard, oldest, forgotten, ownNeighbors, temporary,
                  tasks, sentTo, givenUp, peerChanges>>

Msg == DOMAIN Chain
Nowhere == "nowhere"
\* Greater than every number of the chain
Infinity == <<Chain[Len(Chain)][1] + 1, 0>>

DeliveryTypeOK ==
    /\ own \in BOOLEAN /\ oldest \in {0} \cup Msg /\ forgotten \subseteq Msg
    /\ emitted \in [Msg -> Nat] /\ heard \subseteq Msg \X Peer
    /\ ownNeighbors \subseteq Peer /\ temporary \subseteq Peer
    /\ tasks \subseteq [msg : Msg, source : Peer \cup {Nowhere}, handled : SUBSET Peer, stale : BOOLEAN, at : Nat]
    /\ sentTo \in [Msg -> SUBSET Peer] /\ givenUp \subseteq Msg
    /\ peerChanges \in 0 .. MaxPeerChanges

DeliveryInit ==
    /\ own \in BOOLEAN
    /\ gaps = <<>> /\ emitted = [m \in Msg |-> 0] /\ heard = {} /\ oldest = 0 /\ forgotten = {}
    /\ ownNeighbors = FirstNeighbors /\ temporary = {}
    /\ tasks = {} /\ sentTo = [m \in Msg |-> {}] /\ givenUp = {}
    /\ peerChanges = 0
-----------------------------------------------------------------------------
\* NumberPair
GreaterThan(p, q) == p[1] > q[1] \/ (p[1] = q[1] /\ p[2] > q[2])
GreaterThanOrEqual(p, q) == GreaterThan(p, q) \/ p = q

\* Seeded fault: the gap below the message still contains it.
GapLeftIncluding(g, previous, number) ==
    (IF previous = g[1] THEN <<>> ELSE <<<<g[1], number>>>>)
    \o (IF number = g[2] THEN <<>> ELSE <<<<number, g[2]>>>>)

\* What remains of a gap when the message after `previous` in it is seen.
GapLeft(g, previous, number) ==
    (IF previous = g[1] THEN <<>> ELSE <<<<g[1], previous>>>>)
    \o (IF number = g[2] THEN <<>> ELSE <<<<number, g[2]>>>>)

DropLowestGap(gs) == IF Len(gs) > MaxGapCount THEN Tail(gs) ELSE gs
Dropped(gs) == IF Len(gs) > MaxGapCount
               THEN {m \in Msg : GreaterThan(Chain[m], gs[1][1]) /\ GreaterThanOrEqual(gs[1][2], Chain[m])}
               ELSE {}

(* markAndCheck() with a previous number.  The loop goes from the highest  *)
(* gap down and stops at the first gap it can say something about.         *)
MarkAfter(previous, number) ==
    LET stops == {i \in DOMAIN gaps : \/ GreaterThanOrEqual(previous, gaps[i][1])
                                      \/ GreaterThan(number, gaps[i][1])}
        i == Max(stops)
        g == gaps[i]
        marked == SubSeq(gaps, 1, i - 1) \o GapLeft(g, previous, number) \o SubSeq(gaps, i + 1, Len(gaps))
    IN  IF stops = {} \/ GreaterThanOrEqual(previous, g[2])
        THEN [verdict |-> "duplicate", gaps |-> gaps, lost |-> {}]
        ELSE IF GreaterThanOrEqual(previous, g[1]) /\ ~GreaterThan(number, g[2])
             THEN [verdict |-> "unseen", gaps |-> DropLowestGap(marked), lost |-> Dropped(marked)]
             ELSE [verdict |-> "mismatch", gaps |-> gaps, lost |-> {}]

\* The first message of a chain has no previous one: only the newest number is compared.
MarkAlone(number) ==
    IF GreaterThan(number, gaps[Len(gaps)][1])
    THEN [verdict |-> "unseen", gaps |-> [gaps EXCEPT ![Len(gaps)] = <<number, @[2]>>], lost |-> {}]
    ELSE [verdict |-> "duplicate", gaps |-> gaps, lost |-> {}]

MarkAndCheck(m) ==
    IF gaps = <<>> THEN [verdict |-> "unseen", gaps |-> <<<<Chain[m], Infinity>>>>, lost |-> {}]
    ELSE IF m = 1 THEN MarkAlone(Chain[m]) ELSE MarkAfter(Chain[m - 1], Chain[m])

Mark(m) ==
    LET answer == MarkAndCheck(m)
    IN  /\ gaps' = answer.gaps
        /\ forgotten' = forgotten \cup answer.lost
        /\ oldest' = IF oldest = 0 THEN m ELSE oldest
-----------------------------------------------------------------------------
\* Propagation: the task store is a FIFO map of limited size.
Kept(ts) == {t \in ts : Cardinality(t.handled) < MinPropagationTargets \/ t.handled = {}}

OldestTask(ts) == CHOOSE t \in ts : \A u \in ts : t.at <= u.at

Stored(ts, t) == (IF Cardinality(ts) = MaxTasks THEN ts \ {OldestTask(ts)} ELSE ts) \cup {t}
PushedOut(ts) == IF Cardinality(ts) = MaxTasks THEN {OldestTask(ts).msg} ELSE {}

(* feedUnseenMessage(): to the neighbors and the temporary nodes, but not  *)
(* back to the source.  A task with enough targets is deleted at once.     *)
FeedUnseenMessage(m, source) ==
    LET targets == (ownNeighbors \cup temporary) \ {source}
        task == [msg |-> m, source |-> source, handled |-> targets, stale |-> FALSE,
                 at |-> Cardinality({k \in Msg : emitted[k] > 0})]
    IN  /\ tasks' = Kept(Stored(tasks, task))
        /\ givenUp' = givenUp \cup PushedOut(tasks)
        /\ sentTo' = [sentTo EXCEPT ![m] = @ \cup targets]

\* sendAndAwaitThenMark() of a task to a new neighbor
SentToo(t, p) == IF p # t.source THEN [t EXCEPT !.handled = @ \cup {p}] ELSE t

(* onNeighborJoined(): the active tasks are sent to it; stale ones go.     *)
OnNeighborJoined(p) ==
    LET active == {t \in tasks : ~t.stale}
    IN  /\ tasks' = Kept({SentToo(t, p) : t \in active})
        /\ sentTo' = [m \in Msg |-> IF \E t \in active : t.msg = m /\ p \notin t.handled \cup {t.source}
                                    THEN sentTo[m] \cup {p} ELSE sentTo[m]]

Broadcast(m, source) ==
    /\ emitted' = [emitted EXCEPT ![m] = @ + 1]
    /\ FeedUnseenMessage(m, source)
-----------------------------------------------------------------------------
(* sendStreamMessage(): only the first copy of a message goes on.          *)
ReceiveMessage(m, p) ==
    /\ <<m, p>> \notin heard /\ Cardinality(heard) < MaxReceived /\ (own => emitted[m] > 0)
    /\ heard' = heard \cup {<<m, p>>}
    /\ IF MarkAndCheck(m).verdict = "unseen"
       THEN Mark(m) /\ Broadcast(m, IF p \in temporary THEN Nowhere ELSE p)
       ELSE UNCHANGED <<gaps, forgotten, oldest, emitted, tasks, sentTo, givenUp>>
    /\ UNCHANGED <<own, ownNeighbors, temporary, peerChanges>>

\* broadcast() of a message of this node: it is marked and sent in any case.
Publish(m) ==
    /\ own /\ emitted[m] = 0 /\ (m > 1 => emitted[m - 1] > 0)
    /\ Mark(m) /\ Broadcast(m, Nowhere)
    /\ UNCHANGED <<own, heard, ownNeighbors, temporary, peerChanges>>

PeerChange ==
    /\ peerChanges < MaxPeerChanges /\ peerChanges' = peerChanges + 1
    /\ UNCHANGED <<own, gaps, emitted, heard, oldest, forgotten, givenUp>>

\* The listener of 'nodeAdded'
NeighborAdded(p) ==
    /\ p \notin ownNeighbors /\ PeerChange
    /\ ownNeighbors' = ownNeighbors \cup {p}
    /\ OnNeighborJoined(p)
    /\ UNCHANGED temporary

\* onNodeDisconnected() also ends a temporary connection; removal for another reason does not.
NeighborRemoved(p) ==
    /\ p \in ownNeighbors /\ PeerChange
    /\ ownNeighbors' = ownNeighbors \ {p}
    /\ temporary' \in {temporary, temporary \ {p}}
    /\ UNCHANGED <<tasks, sentTo>>

\* openConnection() and closeConnection() of TemporaryConnectionRpcLocal
OpenConnection(p) ==
    /\ p \notin temporary /\ PeerChange
    /\ temporary' = temporary \cup {p}
    /\ UNCHANGED <<ownNeighbors, tasks, sentTo>>

CloseConnection(p) ==
    /\ p \in temporary
    /\ temporary' = temporary \ {p}
    /\ UNCHANGED <<own, gaps, emitted, heard, oldest, forgotten, ownNeighbors, tasks, sentTo, givenUp, peerChanges>>

\* The time to live of the oldest task ends: get() does not return it any more.
TaskExpires(t) ==
    /\ ~t.stale /\ \A u \in tasks : u.at < t.at => u.stale
    /\ tasks' = (tasks \ {t}) \cup {[t EXCEPT !.stale = TRUE]}
    /\ givenUp' = givenUp \cup {t.msg}
    /\ UNCHANGED <<own, gaps, emitted, heard, oldest, forgotten, ownNeighbors, temporary, sentTo, peerChanges>>
-----------------------------------------------------------------------------
DeliveryNext ==
    \/ \E m \in Msg : Publish(m) \/ \E p \in Peer : ReceiveMessage(m, p)
    \/ \E p \in Peer : NeighborAdded(p) \/ NeighborRemoved(p) \/ OpenConnection(p) \/ CloseConnection(p)
    \/ \E t \in tasks : TaskExpires(t)

DeliverySpec == DeliveryInit /\ [][DeliveryNext]_deliveryVars
-----------------------------------------------------------------------------
(* The intervals of the DuplicateMessageDetector say the same as a set of  *)
(* all messages seen: whatever the order and the copies, no message is     *)
(* given to the listeners twice, and one that arrives is withheld only if  *)
(* it is older than the first one or lay in a gap that was dropped.        *)
EveryMessageOnce ==
    \A m \in Msg :
        /\ emitted[m] <= 1
        /\ (\E p \in Peer : <<m, p>> \in heard) /\ emitted[m] = 0 => m < oldest \/ m \in forgotten

(* As long as its time to live and the size of the store allow, a message  *)
(* was sent to enough peers, or its task is kept and every neighbor other  *)
(* than the one it came from has been sent it.                             *)
SpreadsToNeighbors ==
    \A m \in Msg : emitted[m] > 0 /\ m \notin givenUp =>
        \/ Cardinality(sentTo[m]) >= MinPropagationTargets
        \/ \E t \in tasks : t.msg = m /\ ownNeighbors \ {t.source} \subseteq sentTo[m]

(* A message is given to the application once, and spreads: every neighbor *)
(* gets it from this node, or had it.                                      *)
PassedOnOnce == EveryMessageOnce /\ SpreadsToNeighbors
-----------------------------------------------------------------------------
(***************************************************************************)
(* The Inspector of a stream part: it opens a temporary connection to a    *)
(* peer and waits for the peer to deliver a message that another node      *)
(* delivers too.  Two inspections of one peer may overlap: `registered` is *)
(* the session that the map `sessions` holds for it.  The temporary nodes  *)
(* and the locks are those of TemporaryConnectionRpcLocal at the peer and  *)
(* of the inspector's own connection locker.                               *)
(***************************************************************************)

CONSTANTS
    Session,        \* the calls of inspect()
    InspectMessage, \* the messages that arrive meanwhile
    MaxLostCalls    \* how many openConnection, closeConnection are lost

Sender == {"inspected", "other"}
NoSession == "none"

ASSUME InspectionAssumption == MaxLostCalls \in Nat /\ NoSession \notin Session

VARIABLES
    stage,          \* where inspect() of a session is
    marks,          \* inspectionMessages of a session, with its first sender
    done,           \* the sessions that emitted 'done' to somebody
    registered,
    came,           \* the messages that arrived, with their senders
    deliveredWhile, \* per session, the messages both delivered while it waited and was registered
    unmarked,       \* the sessions that were replaced in, or deleted from, the map before their end
    servedByPeer,   \* whether the peer has this node among its temporary nodes, and locks it
    locked,         \* whether the inspector locks its connection to the peer
    lostCalls

inspectionVars == <<stage, marks, done, registered, came, deliveredWhile, unmarked, servedByPeer, locked, lostCalls>>

InspectionTypeOK ==
    /\ stage \in [Session -> {"none", "opening", "waiting", "closing", "passed", "failed"}]
    /\ \A s \in Session : DOMAIN marks[s] \subseteq InspectMessage
    /\ done \subseteq Session /\ unmarked \subseteq Session
    /\ registered \in Session \cup {NoSession}
    /\ came \subseteq InspectMessage \X Sender
    /\ deliveredWhile \in [Session -> SUBSET InspectMessage]
    /\ servedByPeer \in BOOLEAN /\ locked \in BOOLEAN
    /\ lostCalls \in 0 .. MaxLostCalls

InspectionInit ==
    /\ stage = [s \in Session |-> "none"] /\ marks = [s \in Session |-> <<>>]
    /\ done = {} /\ registered = NoSession /\ came = {}
    /\ deliveredWhile = [s \in Session |-> {}] /\ unmarked = {}
    /\ servedByPeer = FALSE /\ locked = FALSE /\ lostCalls = 0
-----------------------------------------------------------------------------
CallLost == lostCalls < MaxLostCalls /\ lostCalls' = lostCalls + 1

\* inspect(): the session is registered, and openConnection() is called.
StartInspection(s) ==
    /\ stage[s] = "none"
    /\ stage' = [stage EXCEPT ![s] = "opening"]
    /\ unmarked' = unmarked \cup ({registered} \ {NoSession})
    /\ registered' = s
    /\ UNCHANGED <<marks, done, came, deliveredWhile, servedByPeer, locked, lostCalls>>

(* openConnection() is answered, or fails, which it does not tell: the     *)
(* connection is locked and 'done' is waited for in either case.           *)
ConnectionOpened(s) ==
    /\ stage[s] = "opening"
    /\ \/ servedByPeer' = TRUE /\ UNCHANGED lostCalls
       \/ CallLost /\ servedByPeer' \in {TRUE, servedByPeer}
    /\ locked' = TRUE
    /\ stage' = [stage EXCEPT ![s] = "waiting"]
    /\ UNCHANGED <<marks, done, registered, came, deliveredWhile, unmarked>>

\* Seeded fault: only a second copy from the inspected peer counts.
IsDoneIfPeerIsLast(s, m, from) == m \in DOMAIN marks[s] /\ from = "inspected"

(* markMessage(): 'done' when the message came before, and one of the two  *)
(* copies is from the inspected peer.                                      *)
IsDone(s, m, from) == m \in DOMAIN marks[s] /\ (marks[s][m] = "inspected" \/ from = "inspected")

(* A message from one of the senders; the inspected peer sends it because  *)
(* it has this node among its temporary nodes (or as a neighbor).          *)
MarkMessage(m, from) ==
    LET s == registered
        first == s # NoSession /\ m \notin DOMAIN marks[s]
        ends == s # NoSession /\ stage[s] = "waiting" /\ IsDone(s, m, from)
        both == \E other \in Sender \ {from} : <<m, other>> \in came
    IN  /\ <<m, from>> \notin came
        /\ came' = came \cup {<<m, from>>}
        /\ marks' = IF first THEN [marks EXCEPT ![s] = [k \in DOMAIN @ \cup {m} |-> IF k = m THEN from ELSE @[k]]] ELSE marks
        /\ done' = IF ends THEN done \cup {s} ELSE done
        /\ deliveredWhile' = [t \in Session |->
                IF stage[t] = "waiting" /\ m \in DOMAIN marks[t] /\ both
                THEN deliveredWhile[t] \cup {m} ELSE deliveredWhile[t]]
        /\ UNCHANGED <<stage, registered, unmarked, servedByPeer, locked, lostCalls>>

\* waitForEvent() returns, or its time is over.
WaitEnds(s) ==
    /\ stage[s] = "waiting"
    /\ stage' = [stage EXCEPT ![s] = "closing"]
    /\ UNCHANGED <<marks, done, registered, came, deliveredWhile, unmarked, servedByPeer, locked, lostCalls>>

Passes(s) == s \in done \/ \A m \in DOMAIN marks[s] : marks[s][m] = "inspected"

(* finally: closeConnection() of the peer, whose failure is not told, and  *)
(* whatever session is registered for the peer by now is deleted.          *)
EndInspection(s) ==
    /\ stage[s] = "closing"
    /\ \/ servedByPeer' = FALSE /\ UNCHANGED lostCalls
       \/ CallLost /\ UNCHANGED servedByPeer
    /\ locked' = FALSE
    /\ unmarked' = unmarked \cup ({registered} \ {NoSession, s})
    /\ registered' = NoSession
    /\ stage' = [stage EXCEPT ![s] = IF Passes(s) THEN "passed" ELSE "failed"]
    /\ UNCHANGED <<marks, done, came, deliveredWhile>>

\* stop() emits 'done' of the registered session.
StopInspector ==
    /\ registered # NoSession
    /\ done' = IF stage[registered] = "waiting" THEN done \cup {registered} ELSE done
    /\ unmarked' = unmarked \cup {registered}
    /\ registered' = NoSession
    /\ UNCHANGED <<stage, marks, came, deliveredWhile, servedByPeer, locked, lostCalls>>
-----------------------------------------------------------------------------
InspectionNext ==
    \/ \E s \in Session : StartInspection(s) \/ ConnectionOpened(s) \/ WaitEnds(s) \/ EndInspection(s)
    \/ \E m \in InspectMessage, from \in Sender : MarkMessage(m, from)
    \/ StopInspector

InspectionSpec == InspectionInit /\ [][InspectionNext]_inspectionVars
-----------------------------------------------------------------------------
(* An inspection does not fail a peer that delivered a message which       *)
(* another node delivered too, as long as the second copy came while the   *)
(* inspection was waiting and its session was in the map.  (A copy that    *)
(* comes while the connection is being opened is lost on it, and so is     *)
(* one that comes after another inspection took its place.)                *)
DeliveringPeerPasses ==
    \A s \in Session : stage[s] = "failed" /\ s \notin unmarked => deliveredWhile[s] = {}
=============================================================================
