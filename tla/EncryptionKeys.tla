---------------------------- MODULE EncryptionKeys ----------------------------
(***************************************************************************)
(* The encryption keys of one stream.  The publisher picks the key of each *)
(* message from a GroupKeyQueue, which makes a first key when there is     *)
(* none, while the application rotates or replaces the key; keys are       *)
(* persisted, the queue is not.  The subscriptions of a client, here       *)
(* readers, share a local key store and ask the publisher for the keys     *)
(* that they lack: requests are throttled, may be lost, and wait for an    *)
(* event with a timeout.                                                   *)
(***************************************************************************)
EXTENDS Naturals, Sequences, FiniteSets

CONSTANTS
    Reader,
    MaxKeys, MaxMessages, MaxUpdates,
    MaxKeyFaults    \* restarts of the publisher, and requests and responses lost

ASSUME EncryptionKeysAssumption ==
    {MaxKeys, MaxMessages, MaxUpdates, MaxKeyFaults} \subseteq Nat

VARIABLES
    signer,         \* messages are signed by the "user" or on behalf of a "contract" (ERC-1271)
    keyCount,       \* keys are numbered in the order of their making
    pubStore, latestKeyId,          \* LocalGroupKeyStore of the publisher, on disk
    queueState, currentKey, queuedKey,      \* GroupKeyQueue, 0 if undefined
    listening,      \* the publisher's node is started and takes key requests
    erc1271Publishers,              \* whether the contract is in the set
    publish,        \* the publish call in progress: at most one
    update,         \* the updateEncryptionKey() call in progress
    updates,        \* how many there were
    expected,       \* the key that the last update asks for, and after how many messages
    picks,          \* what useGroupKey() returned, and what was expected then
    published,      \* the messages of the stream
    subStore,       \* LocalGroupKeyStore of the subscriber
    pendingRequests, \* of the SubscriberKeyExchange: the ids of requests, here the reader and its message
    keyWire,        \* requests and responses on their way
    reader,         \* the decrypting step of each subscription
    failed,         \* the messages that could not be decrypted, with the reasons
    pubRestarts, keysLost

queueVars == <<queueState, currentKey, queuedKey>>
pubVars == <<signer, keyCount, pubStore, latestKeyId, queueVars, listening, erc1271Publishers, publish, update, updates,
             expected, picks, published, pubRestarts>>
subVars == <<subStore, pendingRequests, keyWire, reader, failed, keysLost>>
keyVars == <<pubVars, subVars>>

NoKey == 0
Keys == 1 .. MaxKeys
NoUpdate == [method |-> "none", at |-> "none", key |-> NoKey, overlapped |-> FALSE]
NotPublishing == [at |-> "idle", key |-> NoKey, next |-> NoKey]
Nothing == [key |-> NoKey, after |-> 0]

EncryptionKeysTypeOK ==
    /\ signer \in {"user", "contract"} /\ keyCount \in 0 .. MaxKeys
    /\ pubStore \cup subStore \subseteq Keys
    /\ {latestKeyId, currentKey, queuedKey} \subseteq Keys \cup {NoKey}
    /\ queueState \in {"none", "creating", "created"}
    /\ listening \in BOOLEAN /\ erc1271Publishers \in BOOLEAN
    /\ publish.at \in {"idle", "queue", "permission", "key", "first key set", "first key latest", "broadcast"}
    /\ update.at \in {"none", "queue", "set", "latest"}
    /\ \A id \in pendingRequests : id[1] \in Reader
    /\ \A r \in Reader : reader[r].at \in {"idle", "throttled", "waiting", "storing next"}

PublisherKeysInit ==
    /\ signer \in {"user", "contract"} /\ keyCount = 0
    /\ pubStore = {} /\ latestKeyId = NoKey
    /\ queueState = "none" /\ currentKey = NoKey /\ queuedKey = NoKey
    /\ publish = NotPublishing /\ update = NoUpdate /\ updates = 0
    /\ expected = Nothing /\ picks = <<>> /\ published = <<>>

\* Without explicit keys in the configuration: those disable the exchange of keys.
PublisherExchangeInit == listening = FALSE /\ erc1271Publishers = FALSE /\ pubRestarts = 0 /\ keysLost = 0

SubscriberKeysInit ==
    /\ subStore = {} /\ pendingRequests = {} /\ keyWire = {} /\ failed = {}
    /\ reader = [r \in Reader |-> [at |-> "idle", message |-> 1]]

EncryptionKeysInit == PublisherKeysInit /\ PublisherExchangeInit /\ SubscriberKeysInit

-----------------------------------------------------------------------------
(* The publisher's queue: created lazily, once, with the latest key on     *)
(* disk.                                                                   *)

GetGroupKeyQueue == queueState' = IF queueState = "none" THEN "creating" ELSE queueState

QueueCreated ==
    /\ queueState = "creating"
    /\ queueState' = "created" /\ currentKey' = latestKeyId
    /\ UNCHANGED <<signer, keyCount, pubStore, latestKeyId, queuedKey, listening, erc1271Publishers, publish, update,
                   updates, expected, picks, published, pubRestarts, subVars>>

\* A first key is being made by useGroupKey().
MakingFirstKey == publish.at \in {"first key set", "first key latest"}

-----------------------------------------------------------------------------
(* publish(), one at a time: the permission, the key, the broadcast.       *)

PublishStarts ==
    /\ publish.at = "idle" /\ Len(picks) < MaxMessages
    /\ publish' = [publish EXCEPT !.at = "queue"]
    /\ GetGroupKeyQueue
    /\ UNCHANGED <<signer, keyCount, pubStore, latestKeyId, currentKey, queuedKey, listening, erc1271Publishers, update,
                   updates, expected, picks, published, pubRestarts, subVars>>

\* createMessage() up to useGroupKey(); the user may lack the permission.
MessageCreated(permitted) ==
    /\ publish.at = "queue" /\ queueState = "created"
    /\ publish' = IF permitted THEN [publish EXCEPT !.at = "key"] ELSE NotPublishing
    /\ UNCHANGED <<signer, keyCount, pubStore, latestKeyId, queueVars, listening, erc1271Publishers, update, updates,
                   expected, picks, published, pubRestarts, subVars>>

\* The end of useGroupKey(), with `current` as the current key.
KeyPicked(current, queued) ==
    /\ picks' = Append(picks, [key |-> current, expected |-> expected])
    /\ publish' = [at |-> "broadcast", key |-> current, next |-> queued]
    /\ expected' = IF expected.after > 0 THEN [expected EXCEPT !.after = @ - 1] ELSE expected
    /\ currentKey' = IF queued # NoKey THEN queued ELSE current
    /\ queuedKey' = NoKey

UseGroupKey ==
    /\ publish.at = "key"
    /\ \/ /\ currentKey # NoKey
          /\ KeyPicked(currentKey, queuedKey)
          /\ UNCHANGED keyCount
       \/ /\ currentKey = NoKey /\ queuedKey # NoKey
          /\ KeyPicked(queuedKey, NoKey)
          /\ UNCHANGED keyCount
       \/ /\ currentKey = NoKey /\ queuedKey = NoKey /\ keyCount < MaxKeys
          /\ keyCount' = keyCount + 1
          /\ publish' = [publish EXCEPT !.at = "first key set", !.key = keyCount + 1]
          /\ UNCHANGED <<expected, picks, currentKey, queuedKey>>
    /\ update' = [update EXCEPT !.overlapped = @ \/ (update.at # "none" /\ publish'.at = "first key set")]
    /\ UNCHANGED <<signer, pubStore, latestKeyId, queueState, listening, erc1271Publishers, updates, published,
                   pubRestarts, subVars>>

\* rekey() by useGroupKey(): storeKey() writes the key, then that it is the latest.
FirstKeySet ==
    /\ publish.at = "first key set"
    /\ pubStore' = pubStore \cup {publish.key}
    /\ publish' = [publish EXCEPT !.at = "first key latest"]
    /\ UNCHANGED <<signer, keyCount, latestKeyId, queueVars, listening, erc1271Publishers, update, updates, expected, picks,
                   published, pubRestarts, subVars>>

\* A key that was queued meanwhile is forgotten.
FirstKeyLatest ==
    /\ publish.at = "first key latest"
    /\ latestKeyId' = publish.key
    /\ KeyPicked(publish.key, NoKey)
    /\ UNCHANGED <<signer, keyCount, pubStore, queueState, listening, erc1271Publishers, update, updates, published,
                   pubRestarts, subVars>>

\* broadcast() starts the node if need be; it may fail.
BroadcastMessage(fails) ==
    /\ publish.at = "broadcast"
    /\ publish' = NotPublishing
    /\ IF fails
       THEN UNCHANGED <<listening, erc1271Publishers, published>>
       ELSE /\ published' = Append(published, [key |-> publish.key, next |-> publish.next])
            /\ listening' = TRUE /\ erc1271Publishers' = (signer = "contract" \/ erc1271Publishers)
    /\ UNCHANGED <<signer, keyCount, pubStore, latestKeyId, queueVars, update, updates, expected, picks, pubRestarts,
                   subVars>>

-----------------------------------------------------------------------------
(* updateEncryptionKey(), not serialized with publish().                   *)

UpdateStarts(method) ==
    /\ update.at = "none" /\ updates < MaxUpdates /\ keyCount < MaxKeys
    /\ updates' = updates + 1 /\ keyCount' = keyCount + 1
    /\ update' = [method |-> method, at |-> "queue", key |-> keyCount + 1, overlapped |-> MakingFirstKey]
    /\ GetGroupKeyQueue
    /\ UNCHANGED <<signer, pubStore, latestKeyId, currentKey, queuedKey, listening, erc1271Publishers, publish, expected,
                   picks, published, pubRestarts, subVars>>

UpdateSetsKey ==
    /\ update.at = "queue" /\ queueState = "created"
    /\ pubStore' = pubStore \cup {update.key}
    /\ update' = [update EXCEPT !.at = "set"]
    /\ UNCHANGED <<signer, keyCount, latestKeyId, queueVars, listening, erc1271Publishers, publish, updates, expected, picks,
                   published, pubRestarts, subVars>>

UpdateSetsLatest ==
    /\ update.at = "set"
    /\ latestKeyId' = update.key
    /\ update' = [update EXCEPT !.at = "latest"]
    /\ UNCHANGED <<signer, keyCount, pubStore, queueVars, listening, erc1271Publishers, publish, updates, expected, picks,
                   published, pubRestarts, subVars>>

\* rotate() and rekey() once the key is stored.
Rotate(key) == queuedKey' = key /\ UNCHANGED currentKey
Rekey(key) == currentKey' = key /\ queuedKey' = NoKey

UpdateResolves ==
    /\ update.at = "latest"
    /\ IF update.method = "rotate" THEN Rotate(update.key) ELSE Rekey(update.key)
    /\ expected' = IF update.overlapped THEN Nothing
                   ELSE [key |-> update.key, after |-> IF update.method = "rotate" THEN 1 ELSE 0]
    /\ update' = NoUpdate
    /\ UNCHANGED <<signer, keyCount, pubStore, latestKeyId, queueState, listening, erc1271Publishers, publish, updates,
                   picks, published, pubRestarts, subVars>>

\* The publisher's process ends and starts again: only the key store remains.
PublisherRestarts ==
    /\ pubRestarts + keysLost < MaxKeyFaults
    /\ pubRestarts' = pubRestarts + 1
    /\ queueState' = "none" /\ currentKey' = NoKey /\ queuedKey' = NoKey
    /\ listening' = FALSE /\ erc1271Publishers' = FALSE
    /\ publish' = NotPublishing /\ update' = NoUpdate
    /\ expected' = IF update # NoUpdate \/ MakingFirstKey THEN Nothing ELSE expected
    /\ UNCHANGED <<signer, keyCount, pubStore, latestKeyId, updates, picks, published, subVars>>

-----------------------------------------------------------------------------
(* PublisherKeyExchange: a request for a key, addressed to the id that     *)
(* signed the message.                                                     *)

\* getResponseType(): to the user itself, or to a contract it has published for.
AddressedToPublisher == listening /\ (signer = "user" \/ erc1271Publishers)

\* Seeded fault: the keys are looked up under the id that the request is addressed to.
KeysOfAddressee == IF signer = "user" THEN pubStore ELSE {}

\* The keys that the publisher looks up: always those of its own user.
KeysOfPublisher == pubStore

\* createResponse(): the keys, encrypted for the asker, under the id of its request.
ResponseTo(q) == [q EXCEPT !.type = "response"]

RequestHandled(q) ==
    /\ q \in keyWire /\ q.type = "request"
    /\ keyWire' = (keyWire \ {q}) \cup
               (IF AddressedToPublisher /\ q.key \in KeysOfPublisher THEN {ResponseTo(q)} ELSE {})
    /\ UNCHANGED <<pubVars, subStore, pendingRequests, reader, failed, keysLost>>

KeyMessageLost(q) ==
    /\ q \in keyWire /\ pubRestarts + keysLost < MaxKeyFaults
    /\ keyWire' = keyWire \ {q} /\ keysLost' = keysLost + 1
    /\ UNCHANGED <<pubVars, subStore, pendingRequests, reader, failed>>

-----------------------------------------------------------------------------
(* The subscriber: decrypt() of the next message of a reader.              *)

MessageOf(r) == published[reader[r].message]

\* The key is there: the message is passed on, and the next key that it may carry is stored first.
DecryptedBy(r, store) ==
    LET next == MessageOf(r).next
    IN  IF next \notin store \cup {NoKey}
        THEN [reader[r] EXCEPT !.at = "storing next"]
        ELSE [at |-> "idle", message |-> reader[r].message + 1]

\* fetchKey(): the local store is read first.
FetchKey(r) ==
    /\ reader[r].at = "idle" /\ reader[r].message <= Len(published)
    /\ reader' = [reader EXCEPT ![r] =
                    IF MessageOf(r).key \in subStore THEN DecryptedBy(r, subStore) ELSE [@ EXCEPT !.at = "throttled"]]
    /\ UNCHANGED <<pubVars, subStore, pendingRequests, keyWire, failed, keysLost>>

\* requestGroupKey() once the throttler lets it through; then the wait for the event.
RequestGroupKey(r) ==
    /\ reader[r].at = "throttled"
    /\ reader' = [reader EXCEPT ![r].at = "waiting"]
    /\ pendingRequests' = pendingRequests \cup {<<r, reader[r].message>>}
    /\ keyWire' = keyWire \cup {[type |-> "request", id |-> <<r, reader[r].message>>, key |-> MessageOf(r).key]}
    /\ UNCHANGED <<pubVars, subStore, failed, keysLost>>

\* Each reader that waits for the key goes on (encryptionKeyStoredToLocalStore).
KeyStored(key, rs) ==
    [r \in Reader |->
        IF rs[r].at = "waiting" /\ MessageOf(r).key = key THEN DecryptedBy(r, subStore \cup {key}) ELSE rs[r]]

ResponseHandled(q) ==
    /\ q \in keyWire /\ q.type = "response"
    /\ keyWire' = keyWire \ {q}
    /\ IF q.id \in pendingRequests
       THEN /\ pendingRequests' = pendingRequests \ {q.id}
            /\ subStore' = subStore \cup {q.key}
            /\ reader' = KeyStored(q.key, reader)
       ELSE UNCHANGED <<pendingRequests, subStore, reader>>
    /\ UNCHANGED <<pubVars, failed, keysLost>>

NextKeyStored(r) ==
    /\ reader[r].at = "storing next"
    /\ subStore' = subStore \cup {MessageOf(r).next}
    /\ reader' = KeyStored(MessageOf(r).next, [reader EXCEPT ![r] = [at |-> "idle", message |-> @.message + 1]])
    /\ UNCHANGED <<pubVars, pendingRequests, keyWire, failed, keysLost>>

\* keyRequestTimeout: long after the request, when no answer to it is on its way.
FetchTimesOut(r) ==
    /\ reader[r].at = "waiting"
    /\ ~\E q \in keyWire : q.id = <<r, reader[r].message>>
    /\ failed' = failed \cup {[excused |-> keysLost > 0 \/ ~AddressedToPublisher \/ pubRestarts > 0]}
    /\ reader' = [reader EXCEPT ![r] = [at |-> "idle", message |-> @.message + 1]]
    /\ UNCHANGED <<pubVars, subStore, pendingRequests, keyWire, keysLost>>

EncryptionKeysNext ==
    \/ QueueCreated \/ PublishStarts \/ UseGroupKey \/ FirstKeySet \/ FirstKeyLatest
    \/ \E b \in BOOLEAN : MessageCreated(b) \/ BroadcastMessage(b)
    \/ \E method \in {"rotate", "rekey"} : UpdateStarts(method)
    \/ UpdateSetsKey \/ UpdateSetsLatest \/ UpdateResolves \/ PublisherRestarts
    \/ \E q \in keyWire : RequestHandled(q) \/ KeyMessageLost(q) \/ ResponseHandled(q)
    \/ \E r \in Reader : FetchKey(r) \/ RequestGroupKey(r) \/ NextKeyStored(r) \/ FetchTimesOut(r)

EncryptionKeysSpec == EncryptionKeysInit /\ [][EncryptionKeysNext]_keyVars

-----------------------------------------------------------------------------
(***************************************************************************)
(* Once updateEncryptionKey() resolved, the messages are encrypted with    *)
(* its key: after a rekey from the next message on, after a rotation from  *)
(* the one after it, also when the publisher restarts.  The update is void *)
(* only if it overlaps the making of the very first key by useGroupKey(),  *)
(* which then overwrites it.                                               *)
(***************************************************************************)
UpdatedKeyIsUsed ==
    \A i \in 1 .. Len(picks) :
        LET e == picks[i].expected IN (e # Nothing /\ e.after = 0) => picks[i].key = e.key

(***************************************************************************)
(* Every message can be decrypted: its key was stored before it was used,  *)
(* and a reader gives up only if a request or answer was lost, or the      *)
(* publisher was away or does not yet know again that it publishes for a   *)
(* contract.                                                               *)
(***************************************************************************)
FailsOnlyUnanswered ==
    /\ \A i \in 1 .. Len(published) : published[i].key \in pubStore
    /\ \A f \in failed : f.excused

(***************************************************************************)
(* Keys reach the readers: messages are encrypted with the newest key the  *)
(* publisher set, and a reader fails to decrypt only what no answer gave   *)
(* it the key for.                                                         *)
(***************************************************************************)
KeysReachReaders == UpdatedKeyIsUsed /\ FailsOnlyUnanswered
=============================================================================
