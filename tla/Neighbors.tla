------------------------------ MODULE Neighbors ------------------------------
(***************************************************************************)
(* How the nodes of a stream part choose their neighbours: NeighborFinder, *)
(* Handshaker, HandshakeRpcLocal, NeighborUpdateManager,                   *)
(* NeighborUpdateRpcLocal and NodeList of every node, with the listeners   *)
(* of ContentDeliveryLayerNode.                                            *)
(*                                                                         *)
(* Views are sets of nodes, neighbors a NodeList in insertion order.  Each *)
(* RPC is a record from its request to its answer; an answer "failed" is   *)
(* what the caller sees of a lost request, a lost response or a timeout.   *)
(* The excluded ids of a NeighborFinder are abstracted: a loop may try any *)
(* contact that is not a neighbour, or none, and may consider its contacts *)
(* exhausted at any time.                                                  *)
(***************************************************************************)
EXTENDS Naturals, Sequences, FiniteSets, SequencesExt

CONSTANTS
    Nodes,
    TargetCount,    \* neighborTargetCount of each node
    Newcomer,       \* the node that joins; the others are neighbours of Hub
    Hub,
    MaxAttempts,    \* how many handshakes NeighborFinders start
    MaxDisturbances \* how many neighbour updates there are, how often a handshake or interleaving
                    \* fails, a contact is lost, a connection breaks or a node leaves

Nobody == "nobody"

ASSUME NeighborsAssumption ==
    /\ {Newcomer, Hub} \subseteq Nodes /\ Newcomer # Hub /\ Nobody \notin Nodes
    /\ TargetCount \in [Nodes -> Nat \ {0}]
    /\ {MaxAttempts, MaxDisturbances} \subseteq Nat

PARALLEL_HANDSHAKE_COUNT == 2

VARIABLES
    neighbors, view,
    ongoingHandshakes, ongoingInterleaves,
    running,        \* NeighborFinder.running
    loops,          \* how many loops of the NeighborFinder wait for their timer
    handshakes,     \* handshake RPCs
    interleaves,    \* interleaveRequest RPCs
    updates,        \* neighborUpdate RPCs
    notices,        \* leaveStreamPartNotice notifications
    joined,         \* the started nodes
    givenAway,      \* nodes that an interleaving has left without a neighbour
    attempts, disturbances

lists == <<neighbors, view>>
ongoing == <<ongoingHandshakes, ongoingInterleaves>>
finders == <<running, loops, givenAway>>
neighborVars == <<lists, ongoing, finders, handshakes, interleaves, updates, notices, joined, attempts, disturbances>>

Ids(n) == ToSet(neighbors[n])
Size(n) == Len(neighbors[n])

(* loop: the findNeighbors() that awaits the handshake.  A handshake with  *)
(* the interleave target of `by` is part of the same loop; in loop 0 it is *)
(* that of interleaveRequest(), asked by `by`.                             *)
HandshakeRequest == [from : Nodes, to : Nodes, by : Nodes \cup {Nobody}, loop : 0 .. MaxAttempts, known : SUBSET Nodes,
              answer : {"none", "yes", "no"}, target : Nodes \cup {Nobody}]
InterleaveRequest == [from : Nodes, to : Nodes, target : Nodes, answer : {"none", "running", "yes"}]
UpdateRequest == [from : Nodes, to : Nodes, known : SUBSET Nodes, answer : {"none", "stay", "remove"}]

NeighborsTypeOK ==
    /\ \A n \in Nodes : Ids(n) \subseteq Nodes \ {n} /\ IsInjective(neighbors[n])
    /\ {view, ongoingHandshakes, ongoingInterleaves} \subseteq [Nodes -> SUBSET Nodes]
    /\ running \in [Nodes -> BOOLEAN] /\ loops \in [Nodes -> Nat]
    /\ handshakes \subseteq HandshakeRequest /\ interleaves \subseteq InterleaveRequest /\ updates \subseteq UpdateRequest
    /\ notices \subseteq Nodes \X Nodes /\ joined \cup givenAway \subseteq Nodes
    /\ attempts <= MaxAttempts /\ disturbances <= MaxDisturbances

NeighborsInit ==
    /\ neighbors = [n \in Nodes |-> IF n = Newcomer THEN <<>>
                                     ELSE IF n = Hub THEN SetToSeq(Nodes \ {Hub, Newcomer}) ELSE <<Hub>>]
    /\ view = [n \in Nodes |-> Nodes \ {n}]
    /\ ongoingHandshakes = [n \in Nodes |-> {}] /\ ongoingInterleaves = [n \in Nodes |-> {}]
    /\ running = [n \in Nodes |-> n = Newcomer] /\ loops = [n \in Nodes |-> IF n = Newcomer THEN 2 ELSE 0]
    /\ handshakes = {} /\ interleaves = {} /\ updates = {} /\ notices = {}
    /\ joined = Nodes /\ givenAway = {} /\ attempts = 0 /\ disturbances = 0
-----------------------------------------------------------------------------
\* NodeList.add() and remove()
Added(list, m) == IF m \in ToSet(list) THEN list ELSE Append(list, m)
Without(list, m) == SelectSeq(list, LAMBDA x : x # m)

Add(n, m) == neighbors' = [neighbors EXCEPT ![n] = Added(@, m)]

LastOf(n, excluded) ==
    LET rest == SelectSeq(neighbors[n], LAMBDA x : x \notin excluded) IN
    IF rest = <<>> THEN Nobody ELSE Last(rest)

\* Seeded fault: a NeighborFinder that has stopped is not started again.
FindersStartedNever(S) == UNCHANGED finders

(* NeighborFinder.start() at every node of S: two loops, unless it runs    *)
FindersStarted(S) ==
    /\ running' = [n \in Nodes |-> running[n] \/ n \in S]
    /\ loops' = [n \in Nodes |-> IF n \in S /\ ~running[n] THEN loops[n] + 2 ELSE loops[n]]
    /\ givenAway' = givenAway \ S

Disturbance ==
    /\ disturbances < MaxDisturbances
    /\ disturbances' = disturbances + 1
-----------------------------------------------------------------------------
Ask(n, m, by, loop) ==
    [from |-> n, to |-> m, by |-> by, loop |-> loop, known |-> Ids(n), answer |-> "none", target |-> Nobody]

\* attemptHandshakesOnContacts(), selectParallelTargets(): how many handshakes a loop starts at once
Parallel(n) ==
    LET busy == Size(n) + Cardinality(ongoingHandshakes[n]) IN
    IF busy + 2 < TargetCount[n] THEN IF Size(n) = 0 THEN PARALLEL_HANDSHAKE_COUNT + 1 ELSE PARALLEL_HANDSHAKE_COUNT
    ELSE IF busy < TargetCount[n] THEN 1 ELSE 0

(* The timer of a loop: selectParallelTargetsAndHandshake() or             *)
(* selectNewTargetAndHandshake().  Nothing keeps two loops from the same   *)
(* target.                                                                 *)
FindNeighbors(n) ==
    /\ loops[n] > 0 /\ running[n] /\ attempts < MaxAttempts
    /\ \E T \in SUBSET (view[n] \ Ids(n)) :
        /\ T # {} /\ Cardinality(T) <= Parallel(n)
        /\ handshakes' = handshakes \cup {Ask(n, m, Nobody, attempts + 1) : m \in T}
        /\ ongoingHandshakes' = [ongoingHandshakes EXCEPT ![n] = @ \cup T]
    /\ attempts' = attempts + 1 /\ loops' = [loops EXCEPT ![n] = @ - 1]
    /\ UNCHANGED <<lists, ongoingInterleaves, running, givenAway, interleaves, updates, notices, joined, disturbances>>

(* A loop ends: its finder has stopped, or it has neighbours enough or has *)
(* tried all contacts.  With contacts and no neighbour it goes on.         *)
FindNothing(n) ==
    /\ loops[n] > 0 /\ (running[n] => Size(n) > 0 \/ view[n] = {})
    /\ running' = [running EXCEPT ![n] = FALSE] /\ loops' = [loops EXCEPT ![n] = @ - 1]
    /\ UNCHANGED <<lists, ongoing, givenAway, handshakes, interleaves, updates, notices, joined, attempts, disturbances>>
-----------------------------------------------------------------------------
\* The answer to a handshake, which tells nothing of the request any more
Answered(h, answer, target) == (handshakes \ {h}) \cup {[h EXCEPT !.answer = answer, !.target = target, !.known = {}]}

AcceptHandshake(h) ==
    /\ Add(h.to, h.from) /\ handshakes' = Answered(h, "yes", Nobody)
    /\ UNCHANGED <<ongoingInterleaves, interleaves>>

RejectHandshake(h) ==
    /\ handshakes' = Answered(h, "no", Nobody)
    /\ UNCHANGED <<neighbors, ongoingInterleaves, interleaves>>

(* acceptHandshakeWithInterleaving(): the newest neighbour that the        *)
(* requester does not have is asked to take the requester instead, and the *)
(* requester is told of it.                                                *)
AcceptHandshakeWithInterleaving(h) ==
    LET s == h.to
        last == LastOf(s, h.known \cup ongoingInterleaves[s] \cup {h.from, h.by}) IN
    /\ Add(s, h.from) /\ handshakes' = Answered(h, "yes", last)
    /\ IF last = Nobody
       THEN UNCHANGED <<ongoingInterleaves, interleaves>>
       ELSE /\ ongoingInterleaves' = [ongoingInterleaves EXCEPT ![s] = @ \cup {last}]
            /\ interleaves' = interleaves \cup {[from |-> s, to |-> last, target |-> h.from, answer |-> "none"]}

\* HandshakeRpcLocal.handleRequest(); interleaveNodeId is `by`.
HandleHandshake(h) ==
    LET s == h.to
        rest == Cardinality(Ids(s) \ {h.by}) IN
    /\ h.answer = "none" /\ s \in joined
    /\ IF h.from \in ongoingInterleaves[s] THEN RejectHandshake(h)
       ELSE IF \/ h.from \in Ids(s) \cup ongoingHandshakes[s]
               \/ Size(s) + Cardinality(ongoingHandshakes[s]) < TargetCount[s] THEN AcceptHandshake(h)
       ELSE IF rest >= Cardinality(ongoingInterleaves[s]) + 2 /\ Size(s) <= TargetCount[s]
            THEN AcceptHandshakeWithInterleaving(h)
       ELSE RejectHandshake(h)
    /\ UNCHANGED <<view, ongoingHandshakes, finders, updates, notices, joined, attempts, disturbances>>

(* HandshakeRpcRemote.handshake(): a lost request or response, or a        *)
(* timeout, is the answer "not accepted".                                  *)
HandshakeFails(h) ==
    /\ h.answer = "none" \/ h.answer = "yes"
    /\ IF h.to \in joined THEN Disturbance ELSE UNCHANGED disturbances
    /\ handshakes' = Answered(h, "no", Nobody)
    /\ UNCHANGED <<lists, ongoing, finders, interleaves, updates, notices, joined, attempts>>

(* handshakeWithTarget() and handshakeWithInterleaving() of a loop after   *)
(* their awaits: with an interleave target the first goes on with the      *)
(* second.  findNeighbors() resumes when the last handshake of its loop    *)
(* has ended.                                                              *)
HandshakeEnds(h) ==
    LET n == h.from
        lead == IF h.by = Nobody THEN {h.to} ELSE {h.to, h.by}
        last == ~\E k \in handshakes \ {h} : k.from = n /\ k.loop = h.loop IN
    /\ h.loop # 0 /\ h.answer # "none"
    /\ IF h.answer = "yes" THEN Add(n, h.to) ELSE UNCHANGED neighbors
    /\ IF h.by = Nobody /\ h.target # Nobody
       THEN /\ handshakes' = (handshakes \ {h}) \cup {[Ask(n, h.target, h.to, h.loop) EXCEPT !.known = ToSet(neighbors'[n])]}
            /\ ongoingHandshakes' = [ongoingHandshakes EXCEPT ![n] = @ \cup {h.target}]
            /\ UNCHANGED loops
       ELSE /\ handshakes' = handshakes \ {h}
            /\ ongoingHandshakes' = [ongoingHandshakes EXCEPT ![n] = @ \ lead]
            /\ loops' = [loops EXCEPT ![n] = IF last THEN @ + 1 ELSE @]
    /\ UNCHANGED <<view, ongoingInterleaves, running, givenAway, interleaves, updates, notices, joined, attempts, disturbances>>
-----------------------------------------------------------------------------
\* interleaveRequest() up to its await
HandleInterleave(i) ==
    /\ i.answer = "none" /\ i.to \in joined
    /\ interleaves' = (interleaves \ {i}) \cup {[i EXCEPT !.answer = "running"]}
    /\ handshakes' = handshakes \cup {Ask(i.to, i.target, i.from, 0)}
    /\ ongoingHandshakes' = [ongoingHandshakes EXCEPT ![i.to] = @ \cup {i.target}]
    /\ UNCHANGED <<lists, ongoingInterleaves, finders, updates, notices, joined, attempts, disturbances>>

(* interleaveRequest() after its await: the asking node is given up        *)
(* whether or not the handshake was accepted, and the answer is always     *)
(* "accepted".                                                             *)
InterleaveEnds(h) ==
    LET n == h.from
        list == IF h.answer = "yes" THEN Added(neighbors[n], h.to) ELSE neighbors[n]
        i == [from |-> h.by, to |-> n, target |-> h.to, answer |-> "running"] IN
    /\ h.loop = 0 /\ h.answer # "none"
    /\ handshakes' = handshakes \ {h}
    /\ ongoingHandshakes' = [ongoingHandshakes EXCEPT ![n] = @ \ {h.to}]
    /\ neighbors' = [neighbors EXCEPT ![n] = Without(list, h.by)]
    /\ givenAway' = IF neighbors'[n] = <<>> THEN givenAway \cup {n} ELSE givenAway
    /\ interleaves' = IF i \in interleaves THEN (interleaves \ {i}) \cup {[i EXCEPT !.answer = "yes"]} ELSE interleaves
    /\ UNCHANGED <<view, ongoingInterleaves, running, loops, updates, notices, joined, attempts, disturbances>>

(* then() and finally() of acceptHandshakeWithInterleaving()               *)
InterleaveAnswered(i) ==
    /\ i.answer = "yes"
    /\ interleaves' = interleaves \ {i}
    /\ neighbors' = [neighbors EXCEPT ![i.from] = Without(@, i.to)]
    /\ givenAway' = IF neighbors'[i.from] = <<>> THEN givenAway \cup {i.from} ELSE givenAway
    /\ ongoingInterleaves' = [ongoingInterleaves EXCEPT ![i.from] = @ \ {i.to}]
    /\ UNCHANGED <<view, ongoingHandshakes, running, loops, handshakes, updates, notices, joined, attempts, disturbances>>

InterleaveFails(i) ==
    /\ IF i.to \in joined THEN Disturbance ELSE UNCHANGED disturbances
    /\ interleaves' = interleaves \ {i}
    /\ ongoingInterleaves' = [ongoingInterleaves EXCEPT ![i.from] = @ \ {i.to}]
    /\ UNCHANGED <<lists, ongoingHandshakes, finders, handshakes, updates, notices, joined, attempts>>
-----------------------------------------------------------------------------
(* updateNeighborInfo(): the requests of a round do not wait for each      *)
(* other, so each is a step of its own.                                    *)
UpdateNeighborInfo(n, m) ==
    /\ n \in joined /\ m \in Ids(n) /\ Disturbance /\ ~\E u \in updates : u.from = n /\ u.to = m
    /\ updates' = updates \cup {[from |-> n, to |-> m, known |-> Ids(n), answer |-> "none"]}
    /\ UNCHANGED <<lists, ongoing, finders, handshakes, interleaves, notices, joined, attempts>>

\* NeighborUpdateRpcLocal.neighborUpdate()
NeighborUpdate(u) ==
    LET m == u.to
        over == Size(m) > TargetCount[m] /\ Cardinality(u.known) > TargetCount[m]
        stranger == u.from \notin Ids(m) \cup ongoingHandshakes[m] IN
    /\ u.answer = "none" /\ m \in joined
    /\ view' = [view EXCEPT ![m] = @ \cup (u.known \ (Ids(m) \cup {m}))]
    /\ updates' = (updates \ {u}) \cup {[u EXCEPT !.answer = IF stranger \/ over THEN "remove" ELSE "stay", !.known = {}]}
    /\ IF ~stranger /\ over
       THEN neighbors' = [neighbors EXCEPT ![m] = Without(@, u.from)] /\ UNCHANGED finders
       ELSE UNCHANGED neighbors /\ FindersStarted(IF stranger THEN {} ELSE {m})
    /\ UNCHANGED <<ongoing, handshakes, interleaves, notices, joined, attempts, disturbances>>

(* What updateNeighborInfo() does with an answer: a neighbour that is gone *)
(* meanwhile has no RTT to set, which throws.                              *)
Removal(u, remove) ==
    /\ updates' = updates \ {u}
    /\ IF remove /\ u.to \in Ids(u.from)
       THEN neighbors' = [neighbors EXCEPT ![u.from] = Without(@, u.to)] /\ FindersStarted({u.from})
       ELSE UNCHANGED <<neighbors, finders>>
    /\ UNCHANGED <<view, ongoing, handshakes, interleaves, notices, joined, attempts>>

UpdateAnswered(u) == u.answer # "none" /\ Removal(u, u.answer = "remove") /\ UNCHANGED disturbances

(* NeighborUpdateRpcRemote.updateNeighbors(): a failure means "remove me". *)
UpdateFails(u) == Removal(u, TRUE) /\ UNCHANGED disturbances
-----------------------------------------------------------------------------
(* onNearbyContactAdded(), onRandomContactAdded(),                         *)
(* onRingContactsUpdated(): the views take over what the discovery layer   *)
(* knows.  A removed contact does not start the NeighborFinder.            *)
ContactAdded(n, m) ==
    /\ n \in joined /\ m \in joined \ (view[n] \cup {n})
    /\ view' = [view EXCEPT ![n] = @ \cup {m}]
    /\ FindersStarted(IF Size(n) < TargetCount[n] THEN {n} ELSE {})
    /\ UNCHANGED <<neighbors, ongoing, handshakes, interleaves, updates, notices, joined, attempts, disturbances>>

ContactRemoved(n, m) ==
    /\ n \in joined /\ m \in view[n] /\ Disturbance
    /\ view' = [view EXCEPT ![n] = @ \ {m}]
    /\ UNCHANGED <<neighbors, ongoing, finders, handshakes, interleaves, updates, notices, joined, attempts>>

\* onNodeDisconnected() at both ends of a connection
Disconnected(n, m) ==
    LET ends == {x \in {n, m} : Ids(x) \cap {n, m} # {}} IN
    /\ n \in joined /\ m \in joined /\ ends # {} /\ Disturbance
    /\ neighbors' = [x \in Nodes |-> IF x = n THEN Without(neighbors[x], m)
                                       ELSE IF x = m THEN Without(neighbors[x], n) ELSE neighbors[x]]
    /\ FindersStarted(ends)
    /\ UNCHANGED <<view, ongoing, handshakes, interleaves, updates, notices, joined, attempts>>

\* ContentDeliveryLayerNode.stop()
LeavePart(n) ==
    /\ n \in joined /\ Disturbance
    /\ joined' = joined \ {n}
    /\ notices' = notices \cup {<<n, m>> : m \in Ids(n)}
    /\ neighbors' = [neighbors EXCEPT ![n] = <<>>] /\ view' = [view EXCEPT ![n] = {}]
    /\ running' = [running EXCEPT ![n] = FALSE] /\ loops' = [loops EXCEPT ![n] = 0]
    /\ handshakes' = {h \in handshakes : h.from # n} /\ interleaves' = {i \in interleaves : i.from # n}
    /\ updates' = {u \in updates : u.from # n}
    /\ UNCHANGED <<ongoing, givenAway, attempts>>

\* onLeaveNotice()
LeaveNotice(n, m) ==
    /\ <<n, m>> \in notices
    /\ notices' = notices \ {<<n, m>>}
    /\ IF m \in joined /\ n \in view[m] \cup Ids(m)
       THEN /\ neighbors' = [neighbors EXCEPT ![m] = Without(@, n)]
            /\ view' = [view EXCEPT ![m] = @ \ {n}]
            /\ FindersStarted({m})
       ELSE UNCHANGED <<lists, finders>>
    /\ UNCHANGED <<ongoing, handshakes, interleaves, updates, joined, attempts, disturbances>>

LeaveNoticeLost(n, m) ==
    /\ <<n, m>> \in notices
    /\ notices' = notices \ {<<n, m>>}
    /\ UNCHANGED <<lists, ongoing, finders, handshakes, interleaves, updates, joined, attempts, disturbances>>
-----------------------------------------------------------------------------
NeighborsNext ==
    \/ \E n \in Nodes : FindNeighbors(n) \/ FindNothing(n) \/ LeavePart(n)
    \/ \E h \in handshakes : HandleHandshake(h) \/ HandshakeFails(h) \/ HandshakeEnds(h) \/ InterleaveEnds(h)
    \/ \E i \in interleaves : HandleInterleave(i) \/ InterleaveAnswered(i) \/ InterleaveFails(i)
    \/ \E u \in updates : NeighborUpdate(u) \/ UpdateAnswered(u) \/ UpdateFails(u)
    \/ \E n, m \in Nodes :
        \/ UpdateNeighborInfo(n, m) \/ ContactAdded(n, m) \/ ContactRemoved(n, m)
        \/ Disconnected(n, m) \/ LeaveNotice(n, m) \/ LeaveNoticeLost(n, m)

NeighborsSpec == NeighborsInit /\ [][NeighborsNext]_neighborVars
-----------------------------------------------------------------------------
(* A node with contacts and no neighbour is looking for one: whichever way *)
(* it lost its last neighbour (an update, a leave notice, a broken         *)
(* connection), its NeighborFinder runs or has a handshake under way.  The *)
(* exception is a neighbour given away by interleaving: nothing starts the *)
(* NeighborFinder then.                                                    *)
NobodyIsLeftAlone ==
    \A n \in joined \ givenAway :
        neighbors[n] = <<>> /\ view[n] # {} =>
            running[n] /\ (loops[n] > 0 \/ \E h \in handshakes : h.from = n /\ h.loop # 0)
=============================================================================
