----------------------------- MODULE StreamParts -----------------------------
(***************************************************************************)
(* One stream part of a ContentDeliveryManager.  Joining creates a         *)
(* delivery (a discovery layer node, a delivery layer node and a           *)
(* PeerDescriptorStoreManager) and starts it in a setImmediate callback;   *)
(* leaving stops it, which takes calls to the network, and only then       *)
(* removes it from the map; setProxies() puts a proxy client in its place. *)
(* The PeerDescriptorStoreManager keeps a record of this node in the DHT   *)
(* while there are fewer than MAX_NODE_COUNT.  The control layer is taken  *)
(* to be joined already.                                                   *)
(***************************************************************************)
EXTENDS Naturals, FiniteSets

CONSTANTS
    MaxDeliveries,  \* how many deliveries are created
    MaxPartCalls    \* how many calls there are

ASSUME StreamPartsAssumption == MaxDeliveries \in Nat /\ MaxPartCalls \in Nat

VARIABLES
    entry,          \* streamParts.get(id), 0 if undefined
    created,        \* the number of deliveries created
    proxied,        \* the deliveries that are proxy clients
    layers,         \* the discovery layer and delivery layer node of a delivery
    starting,       \* where startLayersAndJoinDht() of a delivery is, and the delivery it starts
    stopping,       \* the stop() in progress, by call, with the delivery stopped
    aborted,        \* the deliveries whose PeerDescriptorStoreManager is destroyed
    localStored,    \* isLocalNodeStored()
    storing,        \* the storeDataToDht() in progress
    keeping,        \* keepLocalNode() repeats
    reconnecting,   \* the deliveries whose StreamPartReconnect runs
    avoiding,       \* the deliveries whose StreamPartNetworkSplitAvoidance runs
    record,         \* the DHT has a record of this node
    privateMode, knownEntryPoints, destroyed,
    wanted,         \* the last call: "joined", "proxied", "none"
    overlapped,     \* a call came while another one was in progress that it ignores
    partCalls

delivery == <<layers, starting, aborted, localStored, storing, keeping, reconnecting, avoiding>>
partVars == <<entry, created, proxied, stopping, record, privateMode, knownEntryPoints, destroyed,
              wanted, overlapped, partCalls, delivery>>

Delivery == 1 .. MaxDeliveries
Layer == {"created", "running", "stopped"}
StartStep == {"none", "scheduled", "private mode", "joining", "storing"}

StartAt(step, d) == [at |-> step, of |-> d]

StreamPartsTypeOK ==
    /\ entry \in 0 .. created /\ created \in 0 .. MaxDeliveries
    /\ layers \in [Delivery -> Layer]
    /\ starting \in [Delivery -> [at : StartStep, of : 0 .. MaxDeliveries]]
    /\ stopping \subseteq [call : 1 .. MaxPartCalls, of : Delivery, at : {"deleting", "stopped"}]
    /\ proxied \cup aborted \cup localStored \cup storing \cup keeping \cup reconnecting \cup avoiding \subseteq Delivery
    /\ {record, privateMode, knownEntryPoints, destroyed, overlapped} \subseteq BOOLEAN
    /\ wanted \in {"joined", "proxied", "none"} /\ partCalls \in 0 .. MaxPartCalls

StreamPartsInit ==
    /\ entry = 0 /\ created = 0 /\ proxied = {}
    /\ layers = [d \in Delivery |-> "created"]
    /\ starting = [d \in Delivery |-> StartAt("none", 0)]
    /\ stopping = {} /\ aborted = {} /\ localStored = {} /\ storing = {} /\ keeping = {} /\ reconnecting = {} /\ avoiding = {}
    /\ record = FALSE /\ privateMode = FALSE /\ knownEntryPoints \in BOOLEAN /\ destroyed = FALSE
    /\ wanted = "none" /\ overlapped = FALSE /\ partCalls = 0

-----------------------------------------------------------------------------
(* Calls of the node's user.                                               *)

PartCall ==
    /\ ~destroyed /\ partCalls < MaxPartCalls
    /\ partCalls' = partCalls + 1

\* A call that finds a stop() in progress acts on a delivery that is about to go; a stop() that finds a
\* storeDataToDht() in progress deletes the record too early.
StopOverlap == overlapped' = (overlapped \/ stopping # {} \/ entry \in storing)

\* joinStreamPart() of the manager: a part that is in the map is left as it is.
JoinStreamPart ==
    IF entry # 0
    THEN UNCHANGED <<entry, created, starting>>
    ELSE /\ created < MaxDeliveries
         /\ created' = created + 1 /\ entry' = created'
         /\ starting' = [starting EXCEPT ![created'] = StartAt("scheduled", 0)]

\* joinStreamPart() of the stack; broadcast() of a message does the same and then sends it.
Join ==
    /\ PartCall /\ overlapped' = (overlapped \/ stopping # {})
    /\ entry \notin proxied
    /\ JoinStreamPart
    /\ wanted' = "joined"
    /\ UNCHANGED <<proxied, layers, stopping, aborted, localStored, storing, keeping, reconnecting, avoiding,
                   record, privateMode, knownEntryPoints, destroyed>>

\* stop() of a delivery, up to its first await.
StopBegins(d) ==
    /\ stopping' = stopping \cup {[call |-> partCalls', of |-> d, at |-> "deleting"]}
    /\ aborted' = aborted \cup {d}
    /\ keeping' = keeping \ {d}

\* leaveStreamPart(), and setProxies() with no nodes.
Leave ==
    /\ PartCall /\ StopOverlap
    /\ wanted' = "none"
    /\ IF entry = 0
       THEN UNCHANGED <<stopping, aborted, keeping>>
       ELSE StopBegins(entry)
    /\ UNCHANGED <<entry, created, proxied, layers, starting, localStored, storing, reconnecting, avoiding,
                   record, privateMode, knownEntryPoints, destroyed>>

(* setProxies(): the client takes the place of whatever the map has; a     *)
(* delivery that was joined is not stopped.                                *)
SetProxies ==
    /\ PartCall
    /\ wanted' = "proxied"
    /\ overlapped' = (overlapped \/ stopping # {} \/ (entry # 0 /\ entry \notin proxied))
    /\ IF entry \in proxied
       THEN UNCHANGED <<entry, created, proxied, layers, privateMode>>
       ELSE /\ created < MaxDeliveries
            /\ created' = created + 1 /\ entry' = created'
            /\ proxied' = proxied \cup {created'}
            /\ layers' = [layers EXCEPT ![created'] = "running"]
            /\ privateMode' = TRUE
    /\ UNCHANGED <<starting, stopping, aborted, localStored, storing, keeping, reconnecting, avoiding, record, knownEntryPoints, destroyed>>

\* destroy() stops every delivery of the map and then clears it.
Destroy ==
    /\ ~destroyed /\ partCalls < MaxPartCalls /\ StopOverlap
    /\ partCalls' = partCalls + 1
    /\ destroyed' = TRUE /\ wanted' = "none"
    /\ IF entry = 0
       THEN UNCHANGED <<stopping, aborted, keeping>>
       ELSE StopBegins(entry)
    /\ UNCHANGED <<entry, created, proxied, layers, starting, localStored, storing, reconnecting, avoiding,
                   record, privateMode, knownEntryPoints>>

\* A setImmediate() callback runs before an answer from the network arrives.
Answered == \A d \in Delivery : starting[d].at # "scheduled"

(* deleteDataFromDht() is over: the nodes are stopped, which is nothing if *)
(* they have not started.  A proxy client has no record to delete.         *)
StopContinues(s) ==
    /\ s \in stopping /\ s.at = "deleting" /\ Answered
    /\ stopping' = (stopping \ {s}) \cup {[call |-> s.call, of |-> s.of, at |-> "stopped"]}
    /\ layers' = [layers EXCEPT ![s.of] = IF @ = "running" THEN "stopped" ELSE @]
    /\ record' = (record /\ s.of \in proxied)
    /\ overlapped' = (overlapped \/ \E d \in Delivery : starting[d] = StartAt("private mode", s.of))
    /\ UNCHANGED <<entry, created, proxied, starting, aborted, localStored, storing, keeping, reconnecting, avoiding,
                   privateMode, knownEntryPoints, destroyed, wanted, partCalls>>

\* stop() is over: the map is changed by the id of the part, whatever it has by now.
StopEnds(s) ==
    /\ s \in stopping /\ s.at = "stopped"
    /\ stopping' = stopping \ {s}
    /\ entry' = 0
    /\ UNCHANGED <<created, proxied, record, privateMode, knownEntryPoints, destroyed, wanted, overlapped, partCalls, delivery>>

-----------------------------------------------------------------------------
(* PeerDescriptorStoreManager.                                             *)

\* Seeded fault: the record is stored though the manager is destroyed.
StoreAndKeepLocalNodeAlways(d) ==
    /\ localStored' = localStored \cup {d} /\ storing' = storing \cup {d}

\* storeAndKeepLocalNode(), up to its first await.
StoreAndKeepLocalNode(d) ==
    IF d \in aborted
    THEN UNCHANGED <<localStored, storing>>
    ELSE /\ localStored' = localStored \cup {d}
         /\ storing' = storing \cup {d}

\* storeDataToDht() is over; keepLocalNode() repeats unless the manager was destroyed.  The record may
\* be stored after destroy() deleted it.  A start that stores goes on: with too few neighbours it tries to
\* avoid a network split.
StoreLocalNode(d, lonely) ==
    /\ d \in storing /\ Answered
    /\ storing' = storing \ {d}
    /\ record' = TRUE
    /\ keeping' = IF d \in aborted THEN keeping ELSE keeping \cup {d}
    /\ starting' = [x \in Delivery |->
                      IF starting[x].at = "storing" /\ x = d THEN StartAt("none", 0) ELSE starting[x]]
    /\ avoiding' = IF starting[d].at = "storing" /\ lonely THEN avoiding \cup {starting[d].of} ELSE avoiding
    /\ UNCHANGED <<entry, created, proxied, layers, stopping, aborted, localStored, reconnecting,
                   privateMode, knownEntryPoints, destroyed, wanted, overlapped, partCalls>>

\* The record expires in the DHT; the interval of keepLocalNode() stores it again.
RecordExpires ==
    /\ record /\ \A d \in Delivery : d \notin keeping
    /\ record' = FALSE
    /\ UNCHANGED <<entry, created, proxied, stopping, privateMode, knownEntryPoints, destroyed,
                   wanted, overlapped, partCalls, delivery>>

\* The interval of keepLocalNode(): the record is there, or there is room for it.
KeepLocalNode(d) ==
    /\ d \in keeping /\ d \notin storing
    /\ storing' = storing \cup {d}
    /\ UNCHANGED <<entry, created, proxied, stopping, record, privateMode, knownEntryPoints, destroyed,
                   wanted, overlapped, partCalls, layers, starting, aborted, localStored, keeping, reconnecting, avoiding>>

-----------------------------------------------------------------------------
(* startLayersAndJoinDht(), called with the PeerDescriptorStoreManager of  *)
(* delivery d: it starts whatever delivery the map has by now.             *)

Started(l) == IF l = "created" THEN "running" ELSE l

StartReadsMap(d) ==
    /\ starting[d].at = "scheduled"
    /\ IF entry = 0 \/ entry \in proxied
       THEN /\ starting' = [starting EXCEPT ![d] = StartAt("none", 0)]
            /\ UNCHANGED <<layers, privateMode>>
       ELSE IF privateMode
       THEN /\ starting' = [starting EXCEPT ![d] = StartAt("private mode", entry)]
            /\ privateMode' = FALSE
            /\ UNCHANGED layers
       ELSE /\ starting' = [starting EXCEPT ![d] = StartAt("joining", entry)]
            /\ layers' = [layers EXCEPT ![entry] = Started(@)]
            /\ UNCHANGED privateMode
    /\ UNCHANGED <<entry, created, proxied, stopping, aborted, localStored, storing, keeping, reconnecting, avoiding,
                   record, knownEntryPoints, destroyed, wanted, overlapped, partCalls>>

\* disablePrivateClientMode() is over.
PrivateModeDisabled(d) ==
    /\ starting[d].at = "private mode" /\ Answered
    /\ starting' = [starting EXCEPT ![d] = StartAt("joining", starting[d].of)]
    /\ layers' = [layers EXCEPT ![starting[d].of] = Started(@)]
    /\ UNCHANGED <<entry, created, proxied, stopping, aborted, localStored, storing, keeping, reconnecting, avoiding,
                   record, privateMode, knownEntryPoints, destroyed, wanted, overlapped, partCalls>>

(* The nodes are fetched and the DHT is joined, or that fails.  `few`: the *)
(* DHT has fewer than MAX_NODE_COUNT nodes.                                *)
StartJoins(d, few) ==
    /\ starting[d].at = "joining" /\ Answered
    /\ IF few /\ ~knownEntryPoints
       THEN /\ StoreAndKeepLocalNode(d)
            /\ starting' = [starting EXCEPT ![d] = IF d \in storing' THEN StartAt("storing", starting[d].of)
                                                   ELSE StartAt("none", 0)]
       ELSE /\ starting' = [starting EXCEPT ![d] = StartAt("none", 0)]
            /\ UNCHANGED <<localStored, storing>>
    /\ UNCHANGED <<entry, created, proxied, layers, stopping, aborted, keeping, reconnecting, avoiding,
                   record, privateMode, knownEntryPoints, destroyed, wanted, overlapped, partCalls>>

-----------------------------------------------------------------------------
(* What the running layers report.                                         *)

\* avoidNetworkSplit() ends after its attempts, or at the first one after destroy().
AvoidNetworkSplitEnds(d) ==
    /\ d \in avoiding
    /\ avoiding' = avoiding \ {d}
    /\ UNCHANGED <<entry, created, proxied, stopping, record, privateMode, knownEntryPoints, destroyed,
                   wanted, overlapped, partCalls, layers, starting, aborted, localStored, storing, keeping, reconnecting>>

\* 'manualRejoinRequired': StreamPartReconnect runs unless it or the avoidance of splits does already.
ManualRejoin(d) ==
    /\ layers[d] = "running" /\ d \notin proxied /\ d \notin reconnecting /\ d \notin avoiding
    /\ reconnecting' = reconnecting \cup {d}
    /\ UNCHANGED <<entry, created, proxied, stopping, record, privateMode, knownEntryPoints, destroyed,
                   wanted, overlapped, partCalls, layers, starting, aborted, localStored, storing, keeping, avoiding>>

\* A round of reconnect(); a neighbour ends it, and destroy() after the round in progress.
Reconnect(d, few, found) ==
    /\ d \in reconnecting /\ Answered
    /\ IF d \notin localStored /\ few
       THEN StoreAndKeepLocalNode(d)
       ELSE UNCHANGED <<localStored, storing>>
    /\ reconnecting' = IF found \/ d \in aborted THEN reconnecting \ {d} ELSE reconnecting
    /\ UNCHANGED <<entry, created, proxied, stopping, record, privateMode, knownEntryPoints, destroyed,
                   wanted, overlapped, partCalls, layers, starting, aborted, keeping, avoiding>>

\* 'entryPointLeaveDetected': handleEntryPointLeave() with few nodes in the DHT.
EntryPointLeaves(d) ==
    /\ layers[d] = "running" /\ d \notin proxied
    /\ ~destroyed /\ d \notin localStored /\ ~knownEntryPoints
    /\ StoreAndKeepLocalNode(d)
    /\ UNCHANGED <<entry, created, proxied, stopping, record, privateMode, knownEntryPoints, destroyed,
                   wanted, overlapped, partCalls, layers, starting, aborted, keeping, reconnecting, avoiding>>

StreamPartsNext ==
    \/ Join \/ Leave \/ SetProxies \/ Destroy
    \/ \E s \in stopping : StopContinues(s) \/ StopEnds(s)
    \/ RecordExpires
    \/ \E d \in Delivery :
         \/ \E lonely \in BOOLEAN : StoreLocalNode(d, lonely)
         \/ KeepLocalNode(d) \/ AvoidNetworkSplitEnds(d)
         \/ StartReadsMap(d) \/ PrivateModeDisabled(d)
         \/ \E few \in BOOLEAN : StartJoins(d, few)
         \/ ManualRejoin(d)
         \/ \E few, found \in BOOLEAN : Reconnect(d, few, found)
         \/ EntryPointLeaves(d)

StreamPartsSpec == StreamPartsInit /\ [][StreamPartsNext]_partVars

-----------------------------------------------------------------------------
Quiet ==
    /\ stopping = {} /\ storing = {}
    /\ \A d \in Delivery : starting[d].at = "none"

(***************************************************************************)
(* Once every call and start is over, the part is what the last call asked *)
(* for: it is in the map exactly if it was joined or proxied, only the     *)
(* delivery in the map runs, and the DHT has a record of this node, or     *)
(* repeats to store one, only for that delivery.  This holds unless a call *)
(* or a store came while a stop() it knows nothing of was in progress.     *)
(***************************************************************************)
LastCallWins ==
    (Quiet /\ ~overlapped) =>
        /\ (entry = 0) = (wanted = "none")
        /\ entry # 0 => (entry \in proxied) = (wanted = "proxied")
        /\ \A d \in Delivery : (layers[d] = "running") = (d = entry)
        /\ keeping \subseteq {entry} \ proxied
        /\ record => entry \in localStored
=============================================================================
