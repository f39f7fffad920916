---------------------------- MODULE PeerDiscovery ----------------------------
(***************************************************************************)
(* How a DhtNode finds its peers and keeps them: PeerManager with its      *)
(* contact lists, PeerDiscovery and its sessions, and the event handlers   *)
(* of DhtNode that tie them together.                                      *)
(*                                                                         *)
(* The local node has the id 0, so that the distance of a peer is its id   *)
(* (XOR), and its distance to the flipped target IdSpace - 1 - id.  What   *)
(* another node answers comes from Knows, its neighbours; a node that is   *)
(* not online does not answer.  The random contacts are left out: nothing  *)
(* here reads them.                                                        *)
(***************************************************************************)
EXTENDS Naturals, Sequences, FiniteSets, FiniteSetsExt, SequencesExt

CONSTANTS
    Peers, EntryPoint, Knows,
    IdSpace,                    \* ids are below it; also the size of the ring
    NodesPerKBucket, MaxContactCount, RingPerSide, Parallelism, NoProgressLimit, QueryBatchSize,
    MaxSessions, MaxChurn, MaxLate  \* bounds: sessions, changes of online, timeouts

ASSUME DiscoveryAssumption ==
    /\ Peers \subseteq 1 .. IdSpace - 1 /\ EntryPoint \in Peers
    /\ Knows \in [Peers -> SUBSET Peers]
    /\ {NodesPerKBucket, MaxContactCount, RingPerSide, Parallelism, NoProgressLimit, QueryBatchSize}
          \subseteq Nat \ {0}
    /\ {MaxSessions, MaxChurn, MaxLate} \subseteq Nat

VARIABLES
    pm,         \* the PeerManager
    sessions,   \* every session that was started, in order
    join,       \* the join or rejoin in progress, the timers that start one
    online, connected, churn, late

discoveryVars == <<pm, sessions, join, online, connected, churn, late>>

Kinds == {"near", "distant", "ring"}

DiscoveryTypeOK ==
    /\ pm.neighbors \cup pm.nearby \cup pm.left \cup pm.right \cup pm.active
          \cup pm.locks \cup pm.pings \subseteq Peers
    /\ Cardinality(pm.nearby) <= MaxContactCount
    /\ \A i \in 1 .. Len(sessions) : sessions[i].kind \in Kinds
                                     /\ sessions[i].ongoing \subseteq sessions[i].contacted
    /\ join.at \in {"idle", "near", "distant", "recover", "stopped"}
    /\ online \subseteq Peers /\ connected \subseteq Peers
-----------------------------------------------------------------------------
Distance(kind, n) == IF kind = "distant" THEN IdSpace - 1 - n ELSE n

\* getClosestNodes()
Closest(kind, S, k) ==
    {n \in S : Cardinality({m \in S : Distance(kind, m) < Distance(kind, n)}) < k}

\* The library k-bucket: two ids share a bucket that is not split when their highest bits agree.
Highest(n) == Max({b \in 0 .. n : 2 ^ b <= n})
BucketOf(S, n) == {m \in S : Highest(m) = Highest(n)}

(* neighbors.remove() and onKBucketRemoved(), which emits kBucketEmpty     *)
KBucketRemove(p, n) ==
    IF n \notin p.neighbors THEN p
    ELSE [p EXCEPT !.neighbors = @ \ {n}, !.locks = @ \ {n}, !.emptied = @ \/ p.neighbors = {n}]

(* onKBucketAdded(): the weak lock first, then a ping to open a connection *)
KBucketAdded(p, n) ==
    [p EXCEPT !.neighbors = @ \cup {n}, !.locks = @ \cup {n},
              !.pings = IF n \in connected THEN @ ELSE @ \cup {n}]

(* onKBucketPing(): the furthest contact of a full bucket gives way.       *)
KBucketAdd(p, n) ==
    LET bucket == BucketOf(p.neighbors, n) IN
    IF Cardinality(bucket) < NodesPerKBucket THEN KBucketAdded(p, n)
    ELSE KBucketAdded(KBucketRemove(p, Max(bucket)), n)

\* SortedContactList.addContact() of nearbyContacts
NearbyAdd(S, n) == Closest("near", S \cup {n}, MaxContactCount)

RingDistance(side, n) == IF side = "left" THEN IdSpace - n ELSE n

(* One side of RingContactList.addContact(): a contact further than the    *)
(* last one is refused, also while there is room.                          *)
RingAdd(side, S, n) ==
    LET D(m) == RingDistance(side, m) IN
    IF S # {} /\ \A m \in S : D(m) <= D(n) THEN S
    ELSE {m \in S \cup {n} : Cardinality({k \in S \cup {n} : D(k) < D(m)}) < RingPerSide}

(* addContact()                                                            *)
AddContact(p, n) ==
    LET k == IF n \in p.neighbors THEN p ELSE KBucketAdd(p, n)
        isRing == n \in p.left \cup p.right IN
    [k EXCEPT !.nearby = IF n \in @ THEN @ ELSE NearbyAdd(@, n),
              !.left = IF isRing THEN @ ELSE RingAdd("left", @, n),
              !.right = IF isRing THEN @ ELSE RingAdd("right", @, n)]

AddContacts(p, kind, S) ==
    FoldLeft(AddContact, p, SetToSortSeq(S, LAMBDA m, n : Distance(kind, m) < Distance(kind, n)))

\* RingContactList.removeContact(), whose argument is the contact found in nearbyContacts
RingRemove(p, n) ==
    IF n \notin p.nearby THEN p ELSE [p EXCEPT !.left = @ \ {n}, !.right = @ \ {n}]

NearbyRemove(p, n) == [p EXCEPT !.nearby = @ \ {n}]

(* removeContact(): the ring lists only lose a contact that is nearby.     *)
RemoveContact(p, n) ==
    [NearbyRemove(KBucketRemove(RingRemove(p, n), n), n) EXCEPT !.active = @ \ {n}]

(* addNearbyContactToNeighbors()                                           *)
AddNearby(p) ==
    LET spare == (p.nearby \cap p.active) \ p.neighbors IN
    IF spare = {} THEN p ELSE AddContact(p, Min(spare))
-----------------------------------------------------------------------------
DiscoveryInit ==
    /\ pm = [neighbors |-> {}, nearby |-> {}, left |-> {}, right |-> {}, active |-> {},
             locks |-> {}, pings |-> {}, emptied |-> FALSE]
    /\ sessions = << >>
    /\ join = [at |-> "idle", called |-> FALSE, rejoin |-> FALSE, timer |-> FALSE, immediate |-> FALSE,
               recovers |-> FALSE, missed |-> FALSE]
    /\ online = Peers /\ connected = {} /\ churn = 0 /\ late = 0

Stopped == join.at = "stopped"

\* isJoinOngoing()
JoinOngoing(j) == ~j.called \/ j.at \in {"near", "distant", "recover"}

(* The handler of kBucketEmpty: a rejoin, unless a join is going on.       *)
\* missed records that the bucket emptied while the join only waited for its first recovery.
OnEmpty(p, j) ==
    IF ~p.emptied THEN j
    ELSE [j EXCEPT !.immediate = @ \/ ~JoinOngoing(j), !.missed = @ \/ j.at = "recover"]

Settle(p, j) ==
    /\ pm' = [p EXCEPT !.emptied = FALSE]
    /\ join' = OnEmpty(p, j)

NewSession(kind) == [kind |-> kind, contacted |-> {}, ongoing |-> {}, noProgress |-> 0, open |-> FALSE]

\* The contacts a session may still ask, and in which order
Uncontacted(p, s) ==
    IF s.kind # "ring" THEN Closest(s.kind, p.nearby \ s.contacted, Parallelism)
    ELSE (p.left \cup p.right) \ s.contacted

(* findMoreContacts(): the ring's session ends without waiting for the     *)
(* requests that are going on.                                             *)
FindMore(p, s) ==
    LET more == Uncontacted(p, s) IN
    IF s.open \/ Stopped THEN [s EXCEPT !.contacted = s.ongoing, !.noProgress = 0]
    ELSE IF (more = {} /\ (s.ongoing = {} \/ s.kind = "ring")) \/ s.noProgress >= NoProgressLimit
         THEN [s EXCEPT !.open = TRUE, !.contacted = s.ongoing, !.noProgress = 0]
    ELSE LET asked == Closest(s.kind, more, Parallelism - Cardinality(s.ongoing)) IN
         [s EXCEPT !.ongoing = @ \cup asked, !.contacted = @ \cup asked]

\* findClosestNodes(): there is nothing to do for a node without contacts.
Started(p, kind) == IF p.nearby = {} THEN [NewSession(kind) EXCEPT !.open = TRUE] ELSE FindMore(p, NewSession(kind))

\* Seeded fault: a join that ends without neighbours is not tried again.
JoinEndsNoRetry(p, j) ==
    IF p.neighbors # {} /\ ~j.recovers THEN [j EXCEPT !.at = "recover", !.recovers = TRUE]
    ELSE [j EXCEPT !.at = "idle", !.rejoin = FALSE]

(* The finally of runSessions(): a join that found nobody is tried again   *)
(* in a second, the first one that found somebody starts the recovery and  *)
(* waits for its first round.                                              *)
JoinEnds(p, j) ==
    IF p.neighbors = {} THEN [j EXCEPT !.at = "idle", !.rejoin = FALSE, !.timer = TRUE]
    ELSE IF ~j.recovers THEN [j EXCEPT !.at = "recover", !.recovers = TRUE]
    ELSE [j EXCEPT !.at = "idle", !.rejoin = FALSE]

\* joinThroughEntryPoint()
JoinStarts(j) ==
    LET p == AddContact(pm, EntryPoint) IN
    /\ Len(sessions) < MaxSessions
    /\ sessions' = Append(sessions, Started(p, "near"))
    /\ Settle(p, [j EXCEPT !.at = "near", !.called = TRUE])
    /\ UNCHANGED <<online, connected, churn, late>>

JoinDht ==
    /\ ~join.called /\ ~Stopped
    /\ JoinStarts(join)

(* rejoinDht(), from the timer or from kBucketEmpty                        *)
RejoinDht ==
    /\ ~Stopped
    /\ \E src \in {"timer", "immediate"} :
          LET j == [join EXCEPT ![src] = FALSE] IN
          /\ join[src]
          /\ \/ join.rejoin /\ join' = j /\ UNCHANGED <<pm, sessions, online, connected, churn, late>>
             \/ ~join.rejoin /\ JoinStarts([j EXCEPT !.rejoin = TRUE])

\* The session the join waits for is its last one of that kind.
Awaited(i) ==
    /\ sessions[i].kind = join.at
    /\ \A k \in i + 1 .. Len(sessions) : sessions[k].kind # join.at

SessionDone ==
    \E i \in 1 .. Len(sessions) :
        /\ Awaited(i) /\ sessions[i].open
        /\ \/ /\ join.at = "near" /\ Len(sessions) < MaxSessions
              /\ sessions' = Append(sessions, Started(pm, "distant"))
              /\ join' = [join EXCEPT !.at = "distant"]
           \/ join.at = "distant" /\ join' = JoinEnds(pm, join) /\ UNCHANGED sessions
        /\ UNCHANGED <<pm, online, connected, churn, late>>

\* joinTimeout: the join ends, its session goes on by itself.
JoinTimeout ==
    /\ join.at \in {"near", "distant"} /\ late < MaxLate /\ late' = late + 1
    /\ join' = JoinEnds(pm, join)
    /\ UNCHANGED <<pm, sessions, online, connected, churn>>

JoinRing ==
    /\ join.called /\ ~Stopped /\ Len(sessions) < MaxSessions
    /\ \A i \in 1 .. Len(sessions) : sessions[i].kind # "ring"
    /\ sessions' = Append(sessions, Started(pm, "ring"))
    /\ UNCHANGED <<pm, join, online, connected, churn, late>>
-----------------------------------------------------------------------------
PeerAnswers(kind, n) == IF kind = "ring" THEN Knows[n] ELSE Closest(kind, Knows[n], QueryBatchSize)

Nearer(kind, old, new) ==
    IF kind = "ring" THEN Min(new) < Min(old) \/ Max(new) > Max(old)
    ELSE Closest(kind, new, 1) # Closest(kind, old, 1)

(* onRequestSucceeded(), then findMoreContacts().  Without a contact to    *)
(* compare with, the answer is lost with the exception.                    *)
RequestAnswered(i, n) ==
    LET s == sessions[i]
        list(p) == IF s.kind = "ring" THEN p.left \cup p.right ELSE p.neighbors
        active == [pm EXCEPT !.active = @ \cup {n}]
        p == IF list(pm) = {} \/ s.open THEN active ELSE AddContacts(active, s.kind, PeerAnswers(s.kind, n))
        done == [s EXCEPT !.ongoing = @ \ {n},
                    !.noProgress = IF list(pm) # {} /\ ~Nearer(s.kind, list(pm), list(p)) THEN @ + 1 ELSE @] IN
    /\ n \in s.ongoing /\ n \in online /\ ~Stopped
    /\ sessions' = [sessions EXCEPT ![i] = FindMore(p, done)]
    /\ Settle(p, join)
    /\ connected' = connected \cup {n}
    /\ UNCHANGED <<online, churn, late>>

(* onRequestFailed()                                                       *)
RequestUnanswered(i, n) ==
    LET p == RemoveContact(pm, n)
        s == [sessions[i] EXCEPT !.ongoing = @ \ {n}] IN
    /\ n \in sessions[i].ongoing /\ ~Stopped
    /\ \/ n \notin online /\ UNCHANGED late
       \/ n \in online /\ late < MaxLate /\ late' = late + 1
    /\ sessions' = [sessions EXCEPT ![i] = FindMore(p, s)]
    /\ Settle(p, join)
    /\ UNCHANGED <<online, connected, churn>>

PingAnswered(n) ==
    /\ n \in pm.pings /\ n \in online /\ ~Stopped
    /\ pm' = [pm EXCEPT !.pings = @ \ {n}]
    /\ connected' = connected \cup {n}
    /\ UNCHANGED <<sessions, join, online, churn, late>>

PingFails(n) ==
    LET p == RemoveContact([pm EXCEPT !.pings = @ \ {n}, !.locks = @ \ {n}], n) IN
    /\ n \in pm.pings /\ n \notin online /\ ~Stopped
    /\ Settle(AddNearby(p), join)
    /\ UNCHANGED <<sessions, online, connected, churn, late>>

(* fetchClosestAndRandomNeighbors(), at the end of the first join and then *)
(* at intervals                                                            *)
RecoveryFetch(n) ==
    /\ join.recovers /\ ~Stopped /\ n \in pm.neighbors /\ n \in online
    /\ Settle(AddContacts(pm, "near", PeerAnswers("near", n)), join)
    /\ connected' = connected \cup {n}
    /\ UNCHANGED <<sessions, online, churn, late>>

RecoveryRoundEnds ==
    /\ join.at = "recover"
    /\ join' = [join EXCEPT !.at = "idle", !.rejoin = FALSE]
    /\ UNCHANGED <<pm, sessions, online, connected, churn, late>>
-----------------------------------------------------------------------------
\* The requests of DhtNodeRpcLocal add their sender as a contact.
ContactedBy(n) ==
    /\ n \in online /\ ~Stopped
    /\ connected' = connected \cup {n}
    /\ Settle(AddContact(pm, n), join)
    /\ UNCHANGED <<sessions, online, churn, late>>

LeaveNotice(n) ==
    /\ n \in online /\ n \in connected /\ ~Stopped /\ churn < MaxChurn
    /\ churn' = churn + 1
    /\ online' = online \ {n} /\ connected' = connected \ {n}
    /\ Settle(RemoveContact(pm, n), join)
    /\ UNCHANGED <<sessions, late>>

\* A peer goes, or is back; the transport notices later that a connection is gone.
PeerChanges(n) ==
    /\ churn < MaxChurn /\ churn' = churn + 1 /\ ~Stopped
    /\ online' = IF n \in online THEN online \ {n} ELSE online \cup {n}
    /\ UNCHANGED <<pm, sessions, join, connected, late>>

PeerDisconnected(n) ==
    /\ n \in connected \ online /\ ~Stopped
    /\ connected' = connected \ {n}
    /\ Settle(KBucketRemove(pm, n), join)
    /\ UNCHANGED <<sessions, online, churn, late>>

(* pruneOfflineNodes() of a neighbour or a ring contact                    *)
Prune(n) ==
    /\ n \in (pm.neighbors \cup pm.left \cup pm.right) \ online /\ ~Stopped
    /\ Settle(RemoveContact(pm, n), join)
    /\ UNCHANGED <<sessions, online, connected, churn, late>>

\* PeerManager.stop(): the locks stay.
StopManager(p) == [p EXCEPT !.neighbors = {}, !.nearby = {}, !.left = {}, !.right = {}]

(* stop() of the DhtNode                                                   *)
StopNode ==
    /\ ~Stopped
    /\ join' = [join EXCEPT !.at = "stopped", !.timer = FALSE, !.immediate = FALSE]
    /\ pm' = StopManager(pm)
    /\ UNCHANGED <<sessions, online, connected, churn, late>>

DiscoveryNext ==
    \/ JoinDht \/ RejoinDht \/ SessionDone \/ JoinTimeout \/ JoinRing \/ RecoveryRoundEnds \/ StopNode
    \/ \E i \in 1 .. Len(sessions), n \in Peers : RequestAnswered(i, n) \/ RequestUnanswered(i, n)
    \/ \E n \in Peers :
          \/ PingAnswered(n) \/ PingFails(n) \/ RecoveryFetch(n) \/ ContactedBy(n) \/ LeaveNotice(n)
          \/ PeerChanges(n) \/ PeerDisconnected(n) \/ Prune(n)
-----------------------------------------------------------------------------
(* A node that has joined is never left without neighbours and without     *)
(* anything that would find some: a join, a rejoin or a timer is pending.  *)
(* The exception is a k-bucket that empties while the first join waits for *)
(* the first round of recovery: isJoinOngoing() still says yes, and no     *)
(* rejoin follows.                                                         *)
NeverStranded ==
    join.called /\ ~Stopped /\ pm.neighbors = {} /\ ~join.missed =>
        join.at # "idle" \/ join.timer \/ join.immediate

(* The weak locks of the node are those of its neighbours, whatever the    *)
(* order in which pings, answers, evictions and leave notices arrive.      *)
LocksFollowNeighbors == ~Stopped => pm.locks = pm.neighbors

(* A node that joined stays connected to the layer, and holds connections  *)
(* for its neighbors and for nobody else.                                  *)
StaysInTheLayer == NeverStranded /\ LocksFollowNeighbors
=============================================================================
