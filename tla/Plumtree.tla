------------------------------ MODULE Plumtree -------------------------------
(***************************************************************************)
(* The plumtree optimisation of a stream part: a node that gets a message  *)
(* twice asks the second sender to pause, and that one sends only metadata *)
(* to it from then on, until it is asked to resume.                        *)
(*                                                                         *)
(* One message chain, published by one node; a message is its timestamp.   *)
(* A connection keeps the order of what is sent over it; when it is lost,  *)
(* so is what was in flight, and each end learns it by itself.             *)
(***************************************************************************)
EXTENDS Naturals, Sequences, FiniteSets, FiniteSetsExt

CONSTANTS
    PtNode,
    Publisher,
    PtLinks,            \* the connections at first, as sets of two nodes
    MaxPaused,          \* maxPausedNeighbors
    MaxLatest,          \* how many messages latestMessages keeps
    MaxTimestamp,
    MaxLinkLosses

ASSUME PlumtreeAssumption ==
    /\ Publisher \in PtNode
    /\ \A l \in PtLinks : l \subseteq PtNode /\ Cardinality(l) = 2
    /\ MaxPaused \in Nat /\ MaxLatest \in Nat \ {0}

VARIABLES
    published,      \* the number of messages published
    up,             \* the connections that are up
    near,           \* neighbors
    received,       \* the messages that are no longer new to a node
    latest,         \* latestMessages
    localPaused, remotePaused,
    ahead,          \* metadataTimestampsAheadOfRealData
    channel         \* what is in flight from one node to another

plumtreeVars == <<published, up, near, received, latest, localPaused, remotePaused, ahead, channel>>

Pairs == {p \in PtNode \X PtNode : {p[1], p[2]} \in PtLinks}
Data(t) == [kind |-> "data", t |-> t]
Metadata(t) == [kind |-> "metadata", t |-> t]
Pause == [kind |-> "pause", t |-> 0]
Resume(t) == [kind |-> "resume", t |-> t]

PlumtreeTypeOK ==
    /\ published \in 0 .. MaxTimestamp /\ up \subseteq PtLinks
    /\ {near, localPaused, remotePaused} \subseteq [PtNode -> SUBSET PtNode]
    /\ {received, ahead} \subseteq [PtNode -> SUBSET (1 .. MaxTimestamp)]
    /\ latest \in [PtNode -> Seq(1 .. MaxTimestamp)]
    /\ channel \in [Pairs -> Seq([kind : {"data", "metadata", "pause", "resume"}, t : 0 .. MaxTimestamp])]

PlumtreeInit ==
    /\ published = 0 /\ up = PtLinks
    /\ near = [n \in PtNode |-> {p \in PtNode : {n, p} \in PtLinks}]
    /\ received = [n \in PtNode |-> {}] /\ latest = [n \in PtNode |-> <<>>]
    /\ localPaused = [n \in PtNode |-> {}] /\ remotePaused = [n \in PtNode |-> {}]
    /\ ahead = [n \in PtNode |-> {}] /\ channel = [p \in Pairs |-> <<>>]
-----------------------------------------------------------------------------
\* n sends the messages to each node of `to`; nothing arrives over a lost connection.
Sent(c, n, to, messages) ==
    [p \in Pairs |-> IF p[1] = n /\ p[2] \in to /\ {n, p[2]} \in up THEN c[p] \o messages ELSE c[p]]

LatestTimestamp(n) == IF latest[n] = <<>> THEN 0 ELSE latest[n][Len(latest[n])]

\* PausedNeighbors.add() refuses more than the limit.
Paused(paused, node) == IF Cardinality(paused) >= MaxPaused THEN paused ELSE paused \cup {node}

(* broadcast() of the publisher does not go through the PlumtreeManager:   *)
(* its messages go to all its neighbors, and not into latestMessages.      *)
PublishMessage ==
    /\ published < MaxTimestamp
    /\ published' = published + 1
    /\ received' = [received EXCEPT ![Publisher] = @ \cup {published + 1}]
    /\ channel' = Sent(channel, Publisher, near[Publisher], <<Data(published + 1)>>)
    /\ UNCHANGED <<up, near, latest, localPaused, remotePaused, ahead>>

\* Seeded fault: the message is not kept for neighbors that resume later.
WithLatestUnlessPaused(n, t) == IF localPaused[n] = {} THEN Append(latest[n], t) ELSE latest[n]

WithLatest(n, t) == Append(IF Len(latest[n]) < MaxLatest THEN latest[n] ELSE Tail(latest[n]), t)

\* broadcast() of the PlumtreeManager: data, or metadata to those that paused this node.
Forward(n, from, t, c) ==
    /\ received' = [received EXCEPT ![n] = @ \cup {t}]
    /\ latest' = [latest EXCEPT ![n] = WithLatest(n, t)]
    /\ ahead' = [ahead EXCEPT ![n] = @ \ {t}]
    /\ LET others == near[n] \ {from}
           data == Sent(c, n, others \ localPaused[n], <<Data(t)>>)
       IN  channel' = Sent(data, n, others \cap localPaused[n], <<Metadata(t)>>)
    /\ UNCHANGED remotePaused

\* pauseNeighbor() of the PlumtreeManager
PauseNeighbor(n, from, c) ==
    /\ IF from \in near[n] /\ from \notin remotePaused[n] /\ Cardinality(remotePaused[n]) < MaxPaused
       THEN /\ remotePaused' = [remotePaused EXCEPT ![n] = Paused(@, from)]
            /\ channel' = Sent(c, n, {from}, <<Pause>>)
       ELSE channel' = c /\ UNCHANGED remotePaused
    /\ UNCHANGED <<received, latest, ahead>>

\* resumeNeighbor() of the PlumtreeManager
ResumeNeighbor(n, from, c) ==
    IF from \in remotePaused[n]
    THEN /\ remotePaused' = [remotePaused EXCEPT ![n] = @ \ {from}]
         /\ channel' = Sent(c, n, {from}, <<Resume(LatestTimestamp(n))>>)
    ELSE channel' = c /\ UNCHANGED remotePaused

(* onMetadata(): a second timestamp that is ahead of the data resumes the  *)
(* neighbor that sent it.                                                  *)
OnMetadata(n, from, t, c) ==
    LET waiting == ahead[n] \cup {t}
    IN  /\ IF LatestTimestamp(n) >= t
           THEN channel' = c /\ UNCHANGED <<ahead, remotePaused>>
           ELSE IF Cardinality(waiting) > 1
                THEN ResumeNeighbor(n, from, c) /\ ahead' = [ahead EXCEPT ![n] = {}]
                ELSE ahead' = [ahead EXCEPT ![n] = waiting] /\ channel' = c /\ UNCHANGED remotePaused
        /\ UNCHANGED <<received, latest>>

\* sendBuffer(): the messages kept that are newer than the asking node's.
Buffered(n, t) == SelectSeq(latest[n], LAMBDA k : k > t)

Deliver(from, n) ==
    LET m == Head(channel[<<from, n>>])
        rest == [channel EXCEPT ![<<from, n>>] = Tail(@)]
    IN  /\ channel[<<from, n>>] # <<>>
        /\ \/ m.kind = "data" /\ m.t \notin received[n] /\ Forward(n, from, m.t, rest) /\ UNCHANGED localPaused
           \/ m.kind = "data" /\ m.t \in received[n] /\ PauseNeighbor(n, from, rest) /\ UNCHANGED localPaused
           \/ m.kind = "metadata" /\ OnMetadata(n, from, m.t, rest) /\ UNCHANGED localPaused
           \/ /\ m.kind = "pause" /\ channel' = rest
              /\ localPaused' = IF from \in near[n] THEN [localPaused EXCEPT ![n] = Paused(@, from)] ELSE localPaused
              /\ UNCHANGED <<received, latest, ahead, remotePaused>>
           \/ /\ m.kind = "resume"
              /\ localPaused' = [localPaused EXCEPT ![n] = @ \ {from}]
              /\ channel' = Sent(rest, n, {from}, [i \in DOMAIN Buffered(n, m.t) |-> Data(Buffered(n, m.t)[i])])
              /\ UNCHANGED <<received, latest, ahead, remotePaused>>
        /\ UNCHANGED <<published, up, near>>

\* A connection is lost with what is in flight.
LoseLink(l) ==
    /\ l \in up /\ Cardinality(PtLinks \ up) < MaxLinkLosses
    /\ up' = up \ {l}
    /\ channel' = [p \in Pairs |-> IF {p[1], p[2]} = l THEN <<>> ELSE channel[p]]
    /\ UNCHANGED <<published, near, received, latest, localPaused, remotePaused, ahead>>

(* onNeighborRemoved(): when all neighbors that are left are paused, the   *)
(* first of them is resumed.                                               *)
NeighborGone(n, p) ==
    LET paused == remotePaused[n] \ {p}
        left == near[n] \ {p}
    IN  /\ p \in near[n] /\ {n, p} \notin up
        /\ near' = [near EXCEPT ![n] = left]
        /\ localPaused' = [localPaused EXCEPT ![n] = @ \ {p}]
        /\ IF left # {} /\ paused # {} /\ Cardinality(paused) >= Cardinality(left)
           THEN \E first \in left :
                /\ remotePaused' = [remotePaused EXCEPT ![n] = paused \ {first}]
                /\ channel' = IF first \in paused
                              THEN Sent(channel, n, {first}, <<Resume(LatestTimestamp(n))>>)
                              ELSE channel
           ELSE remotePaused' = [remotePaused EXCEPT ![n] = paused] /\ UNCHANGED channel
        /\ UNCHANGED <<published, up, received, latest, ahead>>
-----------------------------------------------------------------------------
PlumtreeNext ==
    \/ PublishMessage
    \/ \E p \in Pairs : Deliver(p[1], p[2]) \/ NeighborGone(p[1], p[2])
    \/ \E l \in PtLinks : LoseLink(l)

PlumtreeSpec == PlumtreeInit /\ [][PlumtreeNext]_plumtreeVars
-----------------------------------------------------------------------------
\* Nothing is in flight and every lost connection has been noticed.
Quiet ==
    /\ \A p \in Pairs : channel[p] = <<>>
    /\ \A n \in PtNode, p \in PtNode : p \in near[n] => {n, p} \in up

(* Pausing saves copies, not messages: when nothing is in flight, a node   *)
(* lacks at most the newest message of each of its neighbors, although any *)
(* of them may have been paused meanwhile and connections were lost.  (It  *)
(* learns of a missing message from metadata, and needs two of them before *)
(* it resumes a neighbor.)                                                 *)
LacksAtMostTheNewest ==
    Quiet => \A n \in PtNode : \A p \in near[n] :
        received[p] # {} => received[p] \ {Max(received[p])} \subseteq received[n]
=============================================================================
