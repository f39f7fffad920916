------------------------------ MODULE DhtStore ------------------------------
(***************************************************************************)
(* The data store of the DHT for one key and one creator: StoreManager,    *)
(* StoreRpcLocal and LocalDataStore of every node, and what a fetch makes  *)
(* of the entries it collects (RecursiveOperationSession).                 *)
(*                                                                         *)
(* A node is named by its distance to the key.  known[n] are the           *)
(* neighbours of n; a node learns of another one at any time after it has  *)
(* joined.  A replication is a notification: nobody waits for it.          *)
(***************************************************************************)
EXTENDS Naturals, Sequences, FiniteSets, FiniteSetsExt, SequencesExt

CONSTANTS
    StoreNodes, FirstUp, Executor, RedundancyFactor,
    MaxVersions,    \* how often the creator stores its value
    MaxStoreJoins,  \* how many nodes join
    MaxStoreLosses  \* how often a node leaves or crashes, an entry expires, a request or notification is lost

ASSUME DhtStoreAssumption ==
    /\ StoreNodes \subseteq Nat /\ Executor \in FirstUp /\ FirstUp \subseteq StoreNodes
    /\ RedundancyFactor \in Nat \ {0, 1}
    /\ {MaxVersions, MaxStoreJoins, MaxStoreLosses} \subseteq Nat

VARIABLES up, known, held, storing, replicas, version, deletedAt, joins, leaves, storeFaults,
    calm    \* nobody joined or left before everybody knew of the last one, or during a store

storeVars == <<up, known, held, storing, replicas, version, deletedAt, joins, leaves, storeFaults, calm>>

NoEntry == [v |-> 0, stale |-> FALSE, deleted |-> FALSE]
Entries == [v : 0 .. MaxVersions, stale : BOOLEAN, deleted : BOOLEAN]
NotStoring == [v |-> 0, left |-> {}, stored |-> {}]

DhtStoreTypeOK ==
    /\ up \subseteq StoreNodes /\ known \in [StoreNodes -> SUBSET StoreNodes] /\ held \in [StoreNodes -> Entries]
    /\ storing.v \in 0 .. version /\ storing.left \cup storing.stored \subseteq StoreNodes
    /\ \A r \in replicas : {r.from, r.to} \subseteq StoreNodes /\ r.entry \in Entries
    /\ version <= MaxVersions /\ deletedAt <= version
    /\ joins <= MaxStoreJoins /\ leaves + storeFaults <= MaxStoreLosses

DhtStoreInit ==
    /\ up = FirstUp
    /\ known = [n \in StoreNodes |-> IF n \in up THEN up \ {n} ELSE {}]
    /\ held = [n \in StoreNodes |-> NoEntry] /\ storing = NotStoring /\ replicas = {}
    /\ version = 0 /\ deletedAt = 0 /\ joins = 0 /\ leaves = 0 /\ storeFaults = 0 /\ calm = TRUE
-----------------------------------------------------------------------------
NearestTo(S, k) == {x \in S : Cardinality({y \in S : y < x}) < k}

AllKnown == \A n \in up : known[n] = up \ {n}

\* getStorers()
Storers(n) == NearestTo(known[n] \cup {n}, RedundancyFactor)

\* storeEntry(): an entry is only replaced by a newer one.
StoreEntry(old, new) == IF old.v # 0 /\ old.v >= new.v THEN old ELSE new

Stale(n, e) == IF n \in Storers(n) \/ e.v = 0 THEN e ELSE [e EXCEPT !.stale = TRUE]

Replicas(n, e, targets) == {[from |-> n, to |-> m, entry |-> e] : m \in targets \ {n}}
-----------------------------------------------------------------------------
(* storeDataToDht(): the closest nodes, which a recursive operation finds  *)
(* among those that somebody knows, are asked one after the other.         *)
StoreData ==
    /\ storing = NotStoring /\ version < MaxVersions /\ Executor \in up
    /\ version' = version + 1 /\ calm' = (calm /\ AllKnown)
    /\ storing' = [v |-> version + 1, stored |-> {},
                   left |-> {n \in up : n = Executor \/ \E m \in up : n \in known[m]}]
    /\ UNCHANGED <<up, known, held, replicas, deletedAt, joins, leaves, storeFaults>>

StoreRequest(n, answered) ==
    LET e == [v |-> storing.v, stale |-> FALSE, deleted |-> FALSE]
        next == [storing EXCEPT !.left = @ \ {n}, !.stored = IF answered THEN @ \cup {n} ELSE @] IN
    /\ storing.left # {} /\ n = Min(storing.left) /\ Executor \in up
    /\ storing' = IF next.left = {} \/ Cardinality(next.stored) >= RedundancyFactor THEN NotStoring ELSE next
    /\ held' = IF n \in up THEN [held EXCEPT ![n] = IF n = Executor THEN StoreEntry(@, e) ELSE Stale(n, StoreEntry(@, e))]
                ELSE held

(* StoreRpcLocal.storeData(), or storeEntry() at the node itself           *)
StoredAt(n) ==
    /\ n \in up
    /\ StoreRequest(n, TRUE)
    /\ UNCHANGED <<up, known, replicas, version, deletedAt, joins, leaves, storeFaults, calm>>

\* The request fails; one that is only not answered in time has been carried out.
StoreFails(n) ==
    /\ n # Executor
    /\ \/ n \notin up /\ UNCHANGED storeFaults
       \/ n \in up /\ leaves + storeFaults < MaxStoreLosses /\ storeFaults' = storeFaults + 1
    /\ StoreRequest(n, FALSE)
    /\ UNCHANGED <<up, known, replicas, version, deletedAt, joins, leaves, calm>>
-----------------------------------------------------------------------------
(* The targets of replicateDataToNeighbors()                               *)
Forwarded(n, requestor) ==
    (IF n = Min(Storers(n)) THEN Storers(n) ELSE {Min(Storers(n))}) \ {requestor, n}

(* StoreRpcLocal.replicateData(): what is new to the node is passed on     *)
ReplicaArrives(r) ==
    LET n == r.to
        isNew == StoreEntry(held[n], r.entry) # held[n] IN
    /\ n \in up
    /\ held' = [held EXCEPT ![n] = Stale(n, StoreEntry(@, r.entry))]
    /\ replicas' = (replicas \ {r}) \cup (IF isNew THEN Replicas(n, r.entry, Forwarded(n, r.from)) ELSE {})
    /\ UNCHANGED <<up, known, storing, version, deletedAt, joins, leaves, storeFaults, calm>>

ReplicaLost(r) ==
    /\ \/ r.to \notin up /\ UNCHANGED storeFaults
       \/ r.to \in up /\ leaves + storeFaults < MaxStoreLosses /\ storeFaults' = storeFaults + 1
    /\ replicas' = replicas \ {r}
    /\ UNCHANGED <<up, known, held, storing, version, deletedAt, joins, leaves, calm>>
-----------------------------------------------------------------------------
Join(n) ==
    /\ calm' = (calm /\ storing = NotStoring /\ AllKnown)
    /\ n \notin up /\ joins < MaxStoreJoins /\ joins' = joins + 1
    /\ up' = up \cup {n}
    /\ known' = [known EXCEPT ![n] = up]
    /\ UNCHANGED <<held, storing, replicas, version, deletedAt, leaves, storeFaults>>

\* Seeded fault: the new contact counts when the node asks whether it was the primary storer.
WasPrimaryWithNew(n, m) == n = Min(known[n] \cup {n, m})

\* selfWasPrimaryStorer: among the storers without the new contact
WasPrimary(n, m) == n = Min((known[n] \cup {n}) \ {m})

(* onContactAdded(): the primary storer replicates to a new storer; a node *)
(* that is a storer no more marks its entry as stale.                      *)
ContactAdded(n, m) ==
    LET storers == NearestTo(known[n] \cup {n, m}, RedundancyFactor)
        wasPrimary == WasPrimary(n, m) IN
    /\ n \in up /\ m \in up \ (known[n] \cup {n})
    /\ known' = [known EXCEPT ![n] = @ \cup {m}]
    /\ \/ /\ held[n].v # 0 /\ wasPrimary /\ m \in storers
          /\ replicas' = replicas \cup Replicas(n, held[n], {m}) /\ UNCHANGED held
       \/ /\ held[n].v # 0 /\ ~wasPrimary /\ n \notin storers
          /\ held' = [held EXCEPT ![n].stale = TRUE] /\ UNCHANGED replicas
       \/ /\ held[n].v = 0 \/ (wasPrimary /\ m \notin storers) \/ (~wasPrimary /\ n \in storers)
          /\ UNCHANGED <<held, replicas>>
    /\ UNCHANGED <<up, storing, version, deletedAt, joins, leaves, storeFaults, calm>>

\* PeerManager.removeContact() of a node that is gone
ContactRemoved(n, m) ==
    /\ m \in known[n] \ up
    /\ known' = [known EXCEPT ![n] = @ \ {m}]
    /\ UNCHANGED <<up, held, storing, replicas, version, deletedAt, joins, leaves, storeFaults, calm>>

(* destroy(): replicateDataToClosestNodes() before the node leaves         *)
LeaveReplicas(n) ==
    IF held[n].v = 0 THEN {} ELSE Replicas(n, held[n], NearestTo(known[n], RedundancyFactor))

Leave(n) ==
    /\ calm' = (calm /\ storing = NotStoring /\ AllKnown)
    /\ n \in up \ {Executor} /\ leaves + storeFaults < MaxStoreLosses /\ leaves' = leaves + 1
    /\ up' = up \ {n}
    /\ replicas' = replicas \cup LeaveReplicas(n)
    /\ known' = [known EXCEPT ![n] = {}] /\ held' = [held EXCEPT ![n] = NoEntry]
    /\ UNCHANGED <<storing, version, deletedAt, joins, storeFaults>>

\* A crash, or the end of the ttl of an entry
EntryLost(n) ==
    /\ n \in up \ {Executor} /\ held[n].v # 0 /\ leaves + storeFaults < MaxStoreLosses /\ storeFaults' = storeFaults + 1
    /\ held' = [held EXCEPT ![n] = NoEntry]
    /\ \/ UNCHANGED <<up, known>>
       \/ up' = up \ {n} /\ known' = [known EXCEPT ![n] = {}]
    /\ UNCHANGED <<storing, replicas, version, deletedAt, joins, leaves, calm>>

(* DELETE_DATA: markAsDeleted() at the nodes the operation passes          *)
DeleteData ==
    /\ Executor \in up /\ storing = NotStoring /\ version > deletedAt
    /\ deletedAt' = version
    /\ \E S \in SUBSET up :
          /\ Executor \in S
          /\ held' = [n \in StoreNodes |-> IF n \in S /\ held[n].v # 0 THEN [held[n] EXCEPT !.deleted = TRUE] ELSE held[n]]
    /\ UNCHANGED <<up, known, storing, replicas, version, joins, leaves, storeFaults, calm>>

DhtStoreNext ==
    \/ StoreData \/ DeleteData
    \/ \E n \in StoreNodes : StoredAt(n) \/ StoreFails(n) \/ Join(n) \/ Leave(n) \/ EntryLost(n)
    \/ \E r \in replicas : ReplicaArrives(r) \/ ReplicaLost(r)
    \/ \E n, m \in StoreNodes : ContactAdded(n, m) \/ ContactRemoved(n, m)
-----------------------------------------------------------------------------
(* processFoundData(): which of two entries of a creator a fetch keeps     *)
Found(old, new) ==
    IF old.v = 0 \/ old.v < new.v \/ (old.v <= new.v /\ new.deleted) THEN new ELSE old

Quiet == storing = NotStoring /\ replicas = {} /\ AllKnown

\* What a fetch finds, in whatever order the storers answer
Fetched(S) == {FoldLeft(Found, NoEntry, [i \in 1 .. Len(q) |-> held[q[i]]]) : q \in SetToSeqs(S)}

(* Once nothing is on its way and every node knows the others, a fetch     *)
(* finds the version stored last, at one of the closest nodes, in whatever *)
(* order they answer, and as deleted if one of them has marked it so:      *)
(* however nodes joined and left since, one after the other.               *)
NewestIsFetched ==
    LET storers == NearestTo(up, RedundancyFactor) IN
    Quiet /\ calm /\ storeFaults = 0 /\ version > 0 =>
        \A e \in Fetched(storers) :
            /\ e.v = version
            /\ e.deleted <=> \E n \in storers : held[n].v = version /\ held[n].deleted
=============================================================================
