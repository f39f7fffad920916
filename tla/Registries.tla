----------------------------- MODULE Registries -----------------------------
(***************************************************************************)
(* What a client knows of the registries on the chain: StreamRegistry and  *)
(* StreamStorageRegistry write by transactions, read from the contracts or *)
(* from The Graph, which indexes the chain with a delay, and keep what     *)
(* they read in Mappings.  A confirmed transaction makes every later query *)
(* wait until The Graph has indexed its block.  One stream is modelled; a  *)
(* value is the number of the block that wrote it.                         *)
(***************************************************************************)
EXTENDS Integers, FiniteSets, FiniteSetsExt

CONSTANTS
    Write, Read,    \* calls that change a registry, calls that read one
    MaxBlock,       \* bound of the chain
    MaxPages,       \* pages of the longest list of The Graph
    MaxRegistryFaults

ASSUME RegistriesAssumption == MaxBlock \in Nat /\ MaxPages \in Nat /\ MaxRegistryFaults \in Nat

Item == {"metadata", "permissions", "storageNodes"}
WriteKind == {"create", "createEns", "setMetadata", "delete", "permissions", "assign"}

\* The Mappings, and what their entries are values of.  publicSubscribePermissionCache, which no call
\* clears, is left out; publisherCache and subscriberCache are alike.
Cache == {"metadataCache", "permissionCache", "storageNodesCache"}
ItemOf(c) ==
    CASE c = "metadataCache" -> "metadata"
      [] c = "permissionCache" -> "permissions"
      [] c = "storageNodesCache" -> "storageNodes"

VARIABLES
    chain,          \* head block, block of the last change of each item, whether the stream exists
    index,          \* the last block The Graph has indexed, and the chain as of each block
    client,         \* requiredBlockNumber, blockNumber of the IndexingState, whether it polls
    mapping,        \* the Mapping that is followed; they do not depend on each other
    cache,          \* its entry, or None
    write, read,    \* the calls
    registryFaults

registryVars == <<chain, index, client, mapping, cache, write, read, registryFaults>>

None == [val |-> -1, during |-> {}]
NoWrite == [at |-> "new", kind |-> "create", block |-> 0, txs |-> 0, during |-> {}]
NoRead == [at |-> "new", of |-> "search", need |-> 0, pages |-> 0, val |-> 0, during |-> {}]

NewGraphClient == [required |-> 0, known |-> 0, polling |-> FALSE]

RegistriesTypeOK ==
    /\ chain.head \in 0 .. MaxBlock /\ chain.last \in [Item -> 0 .. MaxBlock] /\ chain.exists \in BOOLEAN
    /\ index.block \in 0 .. chain.head
    /\ client.required \in 0 .. MaxBlock /\ client.known \in 0 .. MaxBlock
    /\ mapping \in Cache /\ cache.val \in -1 .. MaxBlock
    /\ \A w \in Write : write[w].kind \in WriteKind
    /\ \A r \in Read : read[r].of \in {mapping, "search"}

RegistriesInit ==
    /\ \E e \in BOOLEAN :
         /\ chain = [head |-> 0, last |-> [i \in Item |-> 0], exists |-> e]
         /\ index = [block |-> 0, was |-> [b \in 0 .. MaxBlock |-> [last |-> [i \in Item |-> 0], exists |-> e]]]
    /\ client = NewGraphClient
    /\ mapping \in Cache /\ cache = None
    /\ write = [w \in Write |-> NoWrite] /\ read = [r \in Read |-> NoRead]
    /\ registryFaults = 0

Writing == {w \in Write : write[w].at \notin {"new", "done", "failed"}}
Reading == {r \in Read : read[r].at \notin {"new", "done"}}
-----------------------------------------------------------------------------
(* Mapping: values are fetched on demand, concurrent get() calls of a key  *)
(* share one fetch; invalidate() does not reach a fetch in progress.       *)

Fetching == \E r \in Reading : read[r].of = mapping

Invalidated(cs) == IF mapping \in cs THEN None ELSE cache

\* invalidatePermissionCaches() leaves publicSubscribePermissionCache alone.
PermissionCaches == {"permissionCache"}

-----------------------------------------------------------------------------
(* Calls that change a registry.                                           *)

\* External: what the transactions of a call change.
Changes(kind) ==
    CASE kind \in {"create", "createEns"} -> {"metadata", "permissions"}
      [] kind = "setMetadata" -> {"metadata"}
      [] kind = "delete" -> {"metadata", "permissions"}
      [] kind = "permissions" -> {"permissions"}
      [] kind = "assign" -> {"storageNodes"}

\* All calls in progress learn of the new one, and it of them.  Calls that do not concern the Mapping
\* that is followed are left out.
BeginWrite(w, kind, txs) ==
    /\ ItemOf(mapping) \in Changes(kind)
    /\ write' = [v \in Write |->
         IF v = w THEN [at |-> "submit", kind |-> kind, block |-> 0, txs |-> txs, during |-> Writing]
         ELSE IF v \in Writing THEN [write[v] EXCEPT !.during = @ \cup {w}] ELSE write[v]]
    /\ read' = [r \in Read |-> IF r \in Reading THEN [read[r] EXCEPT !.during = @ \cup {w}] ELSE read[r]]

\* validatePermissionAssignments(), ensureStreamIdInNamespaceOfAuthenticatedUser(): the call is rejected
\* before it does anything.
RejectedAtOnce(w) ==
    /\ write[w].at = "new"
    /\ UNCHANGED registryVars

\* grantPermissions(), revokePermissions(): one transaction per permission.
UpdatePermissions(w) ==
    /\ write[w].at = "new"
    /\ \E txs \in 1 .. 2 : BeginWrite(w, "permissions", txs)
    /\ cache' = Invalidated(PermissionCaches)
    /\ UNCHANGED <<mapping, chain, index, client, registryFaults>>

SetPermissions(w) ==
    /\ write[w].at = "new"
    /\ BeginWrite(w, "permissions", 1)
    /\ cache' = Invalidated(PermissionCaches)
    /\ UNCHANGED <<mapping, chain, index, client, registryFaults>>

CreateStream(w) ==
    /\ write[w].at = "new"
    /\ \E kind \in {"create", "createEns"} : BeginWrite(w, kind, 1)
    /\ UNCHANGED <<mapping, chain, index, client, cache, registryFaults>>

SetStreamMetadata(w) ==
    /\ write[w].at = "new"
    /\ BeginWrite(w, "setMetadata", 1)
    /\ UNCHANGED <<mapping, chain, index, client, cache, registryFaults>>

DeleteStream(w) ==
    /\ write[w].at = "new"
    /\ BeginWrite(w, "delete", 1)
    /\ UNCHANGED <<mapping, chain, index, client, cache, registryFaults>>

\* addStreamToStorageNode(), removeStreamFromStorageNode().
AssignStorageNode(w) ==
    /\ write[w].at = "new"
    /\ BeginWrite(w, "assign", 1)
    /\ UNCHANGED <<mapping, chain, index, client, cache, registryFaults>>

Fail(w) == write' = [write EXCEPT ![w] = [NoWrite EXCEPT !.at = "failed"]]
Succeed(w) == write' = [write EXCEPT ![w].at = "done", ![w].during = {}]

\* External: the calls the contracts accept.
Allowed(kind) ==
    IF kind \in {"create", "createEns"} THEN ~chain.exists ELSE chain.exists
\* A block changes items; the chain as of that block is what The Graph will find there.
NewBlock(items, exists) ==
    LET b == chain.head + 1
        state == [last |-> [i \in Item |-> IF i \in items THEN b ELSE chain.last[i]], exists |-> exists]
    IN  /\ b <= MaxBlock
        /\ chain' = [head |-> b, last |-> state.last, exists |-> exists]
        /\ index' = [index EXCEPT !.was[b] = state]

\* The transaction is executed in a block; that of an ENS name only asks for the stream.
Mined(w) ==
    LET kind == write[w].kind
    IN  /\ write[w].at = "submit" /\ Allowed(kind)
        /\ IF kind = "createEns" THEN NewBlock({}, chain.exists)
           ELSE NewBlock(Changes(kind), kind # "delete")
        /\ write' = [write EXCEPT ![w].at = "mined", ![w].block = chain.head + 1]
        /\ UNCHANGED <<mapping, client, cache, read, registryFaults>>

\* The contract refuses the transaction.
Refused(w) ==
    /\ write[w].at = "submit" /\ ~Allowed(write[w].kind)
    /\ Fail(w)
    /\ UNCHANGED <<mapping, chain, index, client, cache, read, registryFaults>>

\* withErrorHandling(): the submit, or the wait for a transaction that was executed, is rejected.
TransactionFails(w) ==
    /\ write[w].at \in {"submit", "mined"}
    /\ registryFaults < MaxRegistryFaults /\ registryFaults' = registryFaults + 1
    /\ Fail(w)
    /\ UNCHANGED <<mapping, chain, index, client, cache, read>>

\* Seeded fault: the block of the transaction confirmed last replaces the required one.
RequiredAfterLast(block) == block

\* updateRequiredBlockNumber().
RequiredAfter(block) == Max({client.required, block})

\* What the call does to the caches after its last transaction.
Completed(w) ==
    LET kind == write[w].kind
    IN  CASE kind \in {"create", "createEns", "setMetadata"} ->
                IF mapping = "metadataCache" THEN [val |-> write[w].block, during |-> write[w].during] ELSE cache
          [] kind = "delete" -> Invalidated({"metadataCache"} \cup PermissionCaches)
          [] kind = "assign" -> Invalidated({"storageNodesCache"})
          [] OTHER -> cache

\* wait() of the transaction returns its receipt: contractTransactionConfirmed, then the call goes on.
Confirmed(w) ==
    /\ write[w].at = "mined"
    /\ client' = [client EXCEPT !.required = RequiredAfter(write[w].block)]
    /\ IF write[w].txs > 1
       THEN write' = [write EXCEPT ![w].at = "submit", ![w].txs = @ - 1] /\ UNCHANGED cache
       ELSE IF write[w].kind = "createEns"
       THEN write' = [write EXCEPT ![w].at = "polling"] /\ UNCHANGED cache
       ELSE Succeed(w) /\ cache' = Completed(w)
    /\ UNCHANGED <<mapping, chain, index, read, registryFaults>>

\* External: the ENS oracle lets the registry create the stream, once, in a later block than that of the
\* receipt, which is the block the client knows of.
EnsCreates(w) ==
    /\ write[w].at \in {"mined", "polling"} /\ write[w].kind = "createEns" /\ write[w].txs = 1 /\ ~chain.exists
    /\ NewBlock(Changes("createEns"), TRUE)
    /\ write' = [write EXCEPT ![w].txs = 0]
    /\ UNCHANGED <<mapping, client, cache, read, registryFaults>>

\* until(): streamExistsOnChain() answers, or the time is up.
EnsPolled(w) ==
    /\ write[w].at = "polling"
    /\ \/ /\ chain.exists
          /\ Succeed(w) /\ cache' = Completed(w)
       \/ Fail(w) /\ UNCHANGED cache
    /\ UNCHANGED <<mapping, chain, index, client, read, registryFaults>>

-----------------------------------------------------------------------------
(* Reads.  need > 0: the block The Graph must have indexed before.         *)

FromGraph(of) == of \in {"search", "storageNodesCache"}

Waiters == {r \in Read : read[r].at = "gate"}

\* get() of a Mapping whose value is neither cached nor being fetched, or searchStreams().  A list of
\* The Graph is waited for by waitUntilIndexed(); the first waiter starts the polling.
BeginRead(r) ==
    \E of \in {mapping, "search"} :
      LET gate == FromGraph(of) /\ client.required > client.known
      IN  /\ read[r].at = "new"
          /\ of = mapping => cache = None /\ ~Fetching
          /\ \E pages \in 1 .. (IF of = "storageNodesCache" THEN MaxPages ELSE 1) :
               read' = [read EXCEPT ![r] = [at |-> IF gate THEN "gate" ELSE "query", of |-> of, need |-> IF gate THEN client.required ELSE 0,
                                            pages |-> pages, val |-> MaxBlock, during |-> Writing]]
          /\ client' = [client EXCEPT !.polling = @ \/ gate]
          /\ UNCHANGED <<mapping, chain, index, cache, write, registryFaults>>

\* The gate of one waiter times out; the read is rejected.
GateTimesOut(r) ==
    /\ read[r].at = "gate"
    /\ read' = [read EXCEPT ![r] = NoRead]
    /\ UNCHANGED <<mapping, chain, index, client, cache, write, registryFaults>>

GateOpens(r, block) == read[r].need <= block

\* startPolling() gets the number of a block The Graph had indexed when it answered, and goes on for
\* the readers that still wait; a failed request changes nothing.
PollAnswered ==
    \E block \in 0 .. index.block :
      LET open == {r \in Waiters : block # client.known /\ GateOpens(r, block)}
      IN  /\ client.polling
          /\ read' = [r \in Read |-> IF r \in open THEN [read[r] EXCEPT !.at = "query", !.need = 0] ELSE read[r]]
          /\ client' = [client EXCEPT !.known = block, !.polling = Waiters \ open # {}]
          /\ UNCHANGED <<chain, index, mapping, cache, write, registryFaults>>

\* External: The Graph indexes a block.
Indexes ==
    /\ index.block < chain.head
    /\ index' = [index EXCEPT !.block = @ + 1]
    /\ UNCHANGED <<mapping, chain, client, cache, write, read, registryFaults>>

ItemRead(of) == IF of = "search" THEN "metadata" ELSE ItemOf(of)

\* streamContractErrorProcessor(): STREAM_NOT_FOUND; a search does not find the stream.
NotFound(of, exists) == of \in {"metadataCache", "permissionCache", "search"} /\ ~exists

\* hasPermission(), getStreamMetadata_nonCached(): what the contracts answer.
OnChain == [last |-> chain.last, exists |-> chain.exists]

\* The contract, or The Graph for a page, reads the value.
ReadAnswered(r) ==
    LET of == read[r].of
        seen == IF FromGraph(of) THEN index.was[index.block] ELSE OnChain
    IN  /\ read[r].at = "query"
        /\ read' = IF NotFound(of, seen.exists)
                   THEN [read EXCEPT ![r] = NoRead]
                   ELSE [read EXCEPT ![r].val = Min({@, seen.last[ItemRead(of)]}), ![r].pages = @ - 1,
                                     ![r].at = IF read[r].pages = 1 THEN "answer" ELSE "query"]
        /\ UNCHANGED <<mapping, chain, index, client, cache, write, registryFaults>>

ReadFails(r) ==
    /\ read[r].at = "query" /\ registryFaults < MaxRegistryFaults
    /\ registryFaults' = registryFaults + 1
    /\ read' = [read EXCEPT ![r] = NoRead]
    /\ UNCHANGED <<mapping, chain, index, client, cache, write>>

\* The value reaches the client and is cached; searchStreams() caches the metadata of what it found.
Lands(r) ==
    /\ read[r].at = "answer"
    /\ cache' = IF read[r].of = mapping \/ mapping = "metadataCache"
                THEN [val |-> read[r].val, during |-> read[r].during] ELSE cache
    /\ read' = [read EXCEPT ![r] = NoRead]
    /\ UNCHANGED <<chain, index, client, mapping, write, registryFaults>>

\* maxSize or maxAge of the LRU cache evicts an entry.
Evict ==
    /\ cache # None
    /\ cache' = None
    /\ UNCHANGED <<mapping, chain, index, client, write, read, registryFaults>>

RegistriesNext ==
    \/ \E w \in Write :
         \/ RejectedAtOnce(w) \/ UpdatePermissions(w) \/ SetPermissions(w) \/ CreateStream(w)
         \/ SetStreamMetadata(w) \/ DeleteStream(w) \/ AssignStorageNode(w)
         \/ Mined(w) \/ Refused(w) \/ TransactionFails(w) \/ Confirmed(w) \/ EnsCreates(w) \/ EnsPolled(w)
    \/ \E r \in Read : BeginRead(r) \/ GateTimesOut(r) \/ ReadAnswered(r) \/ ReadFails(r) \/ Lands(r)
    \/ PollAnswered \/ Indexes \/ Evict

RegistriesSpec == RegistriesInit /\ [][RegistriesNext]_registryVars

-----------------------------------------------------------------------------
\* A client reads its own writes: what a call that has returned wrote is never hidden by a cached value
\* of before, unless the read, or the other write, that cached that value overlapped the call.  Of a
\* stream with an ENS name it is what the chain held at the receipt or later: createStream() waits for
\* the stream on the chain, no query waits for The Graph to have its block.  Left out are the
\* permissions of a stream that is created again, which createStream() does not clear.
OwnWritesAreRead ==
    cache # None =>
      \A w \in Write :
        (/\ write[w].at = "done" /\ ItemOf(mapping) \in Changes(write[w].kind)
         /\ ~(mapping = "permissionCache" /\ write[w].kind \in {"create", "createEns"})
         /\ write[w].block > cache.val)
        => w \in cache.during
=============================================================================
