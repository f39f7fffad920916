----------------------------- MODULE PomboGates -----------------------------
(***************************************************************************)
(* Who may read, purge and publish a stream: PomboGates with its caches,   *)
(* KnownPublicStreams with its file, and the four handlers that ask them,  *)
(* the read guard, the purge and stored endpoints and the ingest           *)
(* validator.  The module has one stream and the rows of one target        *)
(* (timestamp and sequence number), which differ by their signers.         *)
(*                                                                         *)
(* Every handler is a chain of questions ("facts") to the chain, most of   *)
(* them cached, each an await.  The answers a request has so far are in    *)
(* `facts`; from them its Decide operator gives the next question or the   *)
(* verdict, so a handler runs to its next await in one step.  Requests run *)
(* concurrently and answers may be overtaken by changes on chain.  The     *)
(* chain is what StreamrClient answers; nonces, and the map of the caches, *)
(* are in SignedRequest.                                                   *)
(***************************************************************************)
EXTENDS SignedRequest

CONSTANTS
    Slots,          \* requests in progress at a time
    Accounts,
    GateOwner,      \* the owner of the stream's gate
    StreamAdmins,   \* accounts with DELETE permission on the stream
    ReadOnly,       \* whether the gate is read-only (gates are immutable)
    Conversation,   \* whether the stream's id ends with CONVERSATION_STREAM_SUFFIX
    GateKinds,      \* what the stream's metadata can say
    Kinds,          \* the handlers the run exercises
    CACHE_TTL, DENIAL_TTL, SAVE_DELAY_MS,
    LastGateTime,   \* the clock stops here
    MaxArrivals, MaxChainChanges,
    MaxGateFaults   \* failing reads and saves, and restarts

ASSUME PomboGatesAssumption ==
    /\ DENIAL_TTL \in Nat /\ CACHE_TTL \in Nat /\ DENIAL_TTL <= CACHE_TTL
    /\ SAVE_DELAY_MS \in Nat \ {0}
    /\ LastGateTime \in Nat /\ LastGateTime > CACHE_TTL
    /\ GateKinds \subseteq {"missing", "null", "visible", "sealed"}
    /\ Kinds \subseteq {"read", "purge", "stored", "ingest"}

VARIABLES
    pgNow,
    chain,          \* fact |-> what the chain says of it now
    lastHeld,       \* history: fact |-> value |-> when the chain last said so
    caches,         \* gateCache, moderatorCache, accessCache, subscribe*Cache by fact
    knownPublic,    \* whether the stream is in KnownPublicStreams
    file,           \* whether it is in the saved list
    saveTimeout,    \* when the list is saved, or NoTimer
    saveFailed,     \* history: the last save failed
    requests,       \* [Slots -> request]
    rows,           \* the signers of the stored rows of the target
    pgUsed          \* bounds used: arrivals, changes, faults

pgVars == <<pgNow, chain, lastHeld, caches, knownPublic, file, saveTimeout,
            saveFailed, requests, rows, pgUsed>>
-----------------------------------------------------------------------------
Gate == <<"gate">>
Public == <<"public">>
Moderator(u) == <<"moderator", u>>
Access(u) == <<"access", u>>
Subscribe(u) == <<"subscribe", u>>
\* Not cached, and not of the chain state: what a single request is told.
Delete(u) == <<"delete", u>>
Valid(u) == <<"valid", u>>

UserFacts == {Moderator(u) : u \in Accounts} \cup {Access(u) : u \in Accounts}
                \cup {Subscribe(u) : u \in Accounts}
Facts == {Gate, Public} \cup UserFacts
ValuesOf(f) == IF f = Gate THEN GateKinds ELSE {"yes", "no"}
Gated == {"visible", "sealed"}

NoTimer == 0
NoAnswer == "?"
\* The clock starts late enough for 0 to be older than any cached answer.
StartTime == CACHE_TTL + 1

Request(kind, u, ok) ==
    [kind |-> kind, user |-> u, signed |-> ok, since |-> pgNow,
     facts |-> [f \in {} |-> NoAnswer],
     wait |-> "none",       \* none, asked, info (getInfo asked), deleting
     fact |-> Gate, answer |-> NoAnswer,
     found |-> {}]          \* rows to delete

Free == [kind |-> "none", wait |-> "free"]
InProgress(s) == requests[s].wait # "free"
\* A handler runs on from an await without being interrupted.
Running == \E s \in Slots : requests[s].wait = "none"

PgInit ==
    /\ pgNow = StartTime
    /\ chain \in {c \in [Facts -> {"yes", "no"} \cup GateKinds] :
                    /\ \A f \in Facts : c[f] \in ValuesOf(f)
                    /\ c[Gate] # "missing" /\ c[Public] = "yes"
                    /\ \A f \in UserFacts : c[f] = "no"}
    /\ lastHeld = [f \in Facts |-> [v \in ValuesOf(f) |-> IF chain[f] = v THEN pgNow ELSE 0]]
    /\ caches = EmptyTtlMap
    /\ knownPublic = FALSE /\ file = FALSE
    /\ saveTimeout = NoTimer /\ saveFailed = FALSE
    /\ requests = [s \in Slots |-> Free]
    /\ rows = Accounts
    /\ pgUsed = [arrivals |-> 0, changes |-> 0, faults |-> 0]
-----------------------------------------------------------------------------
(* The decisions.  Ask(f) is the next question, Done(v) the verdict.       *)
Ask(f) == [ask |-> TRUE, fact |-> f]
Done(v) == [ask |-> FALSE, verdict |-> v]
Knows(r, f) == f \in DOMAIN r.facts

(* f || g || ...: questions are asked until one is answered "yes" or fails.*)
AnyOf(r, fs) ==
    LET reached == {i \in DOMAIN fs : \A j \in 1 .. i - 1 :
                        Knows(r, fs[j]) /\ r.facts[fs[j]] = "no"}
        last == CHOOSE i \in reached : \A j \in reached : j <= i
    IN IF Knows(r, fs[last]) THEN Done(r.facts[fs[last]]) ELSE Ask(fs[last])

\* What the handler makes of an answer "yes", "no" or "error" once it has one.
Then(step, yes, no, error) ==
    IF step.ask THEN step
    ELSE Done(CASE step.verdict = "yes" -> yes
                [] step.verdict = "no" -> no
                [] OTHER -> error)

(* A gated channel: owner, moderator, or the gate's access rule.           *)
GateRule(r) ==
    IF r.user = GateOwner THEN Done("yes")
    ELSE AnyOf(r, <<Moderator(r.user), Access(r.user)>>)

WhenChainFails == IF knownPublic THEN "serve" ELSE "503"

(* The read guard.                                                         *)
DecideRead(r) ==
    IF ~Knows(r, Gate) THEN Ask(Gate)
    ELSE CASE r.facts[Gate] = "missing" -> Done("404")
           [] r.facts[Gate] = "error" -> Done(WhenChainFails)
           [] r.facts[Gate] = "null" ->
                LET open == AnyOf(r, <<Public>>) IN
                IF open.ask \/ open.verdict # "no"
                THEN Then(open, "serve", "no", WhenChainFails)
                ELSE IF ~r.signed THEN Done("401")
                ELSE Then(AnyOf(r, <<Subscribe(r.user)>>), "serve", "403", "503")
           [] OTHER ->
                IF ~r.signed THEN Done("401")
                ELSE Then(GateRule(r), "serve", "403", "503")

(* The stored endpoint: canRead, then what it may tell of the rows.  A row *)
(* the signer published or signed is told of without canRead.              *)
DecideStored(r) ==
    LET mine == IF rows # {} /\ rows \subseteq {r.user} THEN "present" ELSE "absent"
        any == IF rows # {} THEN "present" ELSE "absent"
        failed == IF knownPublic THEN any ELSE "503"
    IN IF ~Knows(r, Gate) THEN Ask(Gate)
       ELSE CASE r.facts[Gate] \in {"missing", "error"} -> Done(failed)
              [] r.facts[Gate] = "null" ->
                    Then(AnyOf(r, <<Public, Subscribe(r.user)>>), any, mine, failed)
              [] OTHER -> Then(GateRule(r), any, mine, failed)

\* Seeded fault: a gate that cannot be read leaves the author rule in place.
DecidePurgeAuthorRuleKept(r) ==
    IF ~Knows(r, Delete(r.user)) THEN Ask(Delete(r.user))
    ELSE IF ~Knows(r, Gate) THEN Ask(Gate)
    ELSE LET admin == r.facts[Delete(r.user)] = "yes"
         IN CASE r.facts[Gate] \in {"missing", "error", "null"} ->
                    Done(IF admin THEN "any" ELSE "own")
              [] OTHER ->
                    LET own == IF r.facts[Gate] = "visible" THEN "own" ELSE "none"
                    IN IF admin \/ r.user = GateOwner THEN Done("any")
                       ELSE Then(AnyOf(r, <<Moderator(r.user)>>), "any", own, own)

(* PurgeAuthorizer.createContext: "any" rows, the signer's "own", "none".  *)
DecidePurge(r) ==
    IF ~Knows(r, Delete(r.user)) THEN Ask(Delete(r.user))
    ELSE IF ~Knows(r, Gate) THEN Ask(Gate)
    ELSE LET admin == r.facts[Delete(r.user)] = "yes"
         IN CASE r.facts[Gate] \in {"missing", "error"} ->
                    Done(IF admin THEN "any" ELSE "none")
              [] r.facts[Gate] = "null" -> Done(IF admin THEN "any" ELSE "own")
              [] OTHER ->
                    LET own == IF r.facts[Gate] = "visible" THEN "own" ELSE "none"
                    IN IF admin \/ r.user = GateOwner THEN Done("any")
                       ELSE Then(AnyOf(r, <<Moderator(r.user)>>), "any", own, "none")

(* IngestValidator.validate, enforceReadOnly: what cannot be verified is   *)
(* stored.  A message whose signer cannot be recovered is not `signed`.    *)
DecideIngest(r) ==
    IF ~Knows(r, Valid(r.user)) THEN Ask(Valid(r.user))
    ELSE IF r.facts[Valid(r.user)] = "no" THEN Done("reject")
    ELSE IF r.facts[Valid(r.user)] = "error" \/ ~Conversation THEN Done("store")
    ELSE IF ~Knows(r, Gate) THEN Ask(Gate)
    ELSE IF r.facts[Gate] # "visible" \/ ~ReadOnly THEN Done("store")
    ELSE IF ~r.signed THEN Done("reject")
    ELSE IF r.user = GateOwner THEN Done("store")
    ELSE Then(AnyOf(r, <<Moderator(r.user)>>), "store", "reject", "store")

Decide(r) == CASE r.kind = "read" -> DecideRead(r)
               [] r.kind = "stored" -> DecideStored(r)
               [] r.kind = "purge" -> DecidePurge(r)
               [] r.kind = "ingest" -> DecideIngest(r)
-----------------------------------------------------------------------------
(* KnownPublicStreams                                                      *)
KnownPublicSet(isPublic) ==
    /\ knownPublic' = isPublic
    /\ saveTimeout' = IF isPublic # knownPublic /\ saveTimeout = NoTimer
                      THEN pgNow + SAVE_DELAY_MS ELSE saveTimeout

KnownPublicSame == UNCHANGED <<knownPublic, saveTimeout>>

Save == \/ file' = knownPublic /\ saveFailed' = FALSE /\ UNCHANGED pgUsed
        \/ /\ pgUsed.faults < MaxGateFaults
           /\ pgUsed' = [pgUsed EXCEPT !.faults = @ + 1]
           /\ saveFailed' = TRUE
           /\ UNCHANGED file

SaveTimer ==
    /\ saveTimeout # NoTimer /\ saveTimeout <= pgNow
    /\ saveTimeout' = NoTimer
    /\ Save
    /\ UNCHANGED <<pgNow, chain, lastHeld, caches, knownPublic, requests, rows>>
-----------------------------------------------------------------------------
(* The chain                                                               *)
ChainChanges ==
    /\ pgUsed.changes < MaxChainChanges
    /\ \E f \in Facts : \E v \in ValuesOf(f) \ {chain[f]} :
          /\ chain' = [chain EXCEPT ![f] = v]
          /\ lastHeld' = [lastHeld EXCEPT ![f][chain[f]] = pgNow, ![f][v] = pgNow]
    /\ pgUsed' = [pgUsed EXCEPT !.changes = @ + 1]
    /\ UNCHANGED <<pgNow, caches, knownPublic, file, saveTimeout, saveFailed, requests, rows>>

GateTick ==
    /\ pgNow < LastGateTime
    /\ TtlDue(caches, pgNow) = {}
    /\ saveTimeout # pgNow
    /\ \A s \in Slots : requests[s].wait \in {"free", "asked"}
    /\ pgNow' = pgNow + 1
    /\ lastHeld' = [f \in Facts |-> [lastHeld[f] EXCEPT ![chain[f]] = pgNow + 1]]
    /\ UNCHANGED <<chain, caches, knownPublic, file, saveTimeout, saveFailed, requests, rows, pgUsed>>

CacheTimer ==
    \E f \in TtlDue(caches, pgNow) :
        /\ caches' = TtlDelete(caches, f)
        /\ UNCHANGED <<pgNow, chain, lastHeld, knownPublic, file, saveTimeout, saveFailed, requests, rows, pgUsed>>
-----------------------------------------------------------------------------
(* The handlers.  The two endpoints verify the signature first, and a      *)
(* request they refuse for it changes nothing.                             *)
Arrive(s) ==
    /\ ~InProgress(s)
    /\ pgUsed.arrivals < MaxArrivals
    /\ \E kind \in Kinds, u \in Accounts, ok \in BOOLEAN :
          /\ ok \/ kind \notin {"purge", "stored"}
          /\ requests' = [requests EXCEPT ![s] = Request(kind, u, ok)]
    /\ pgUsed' = [pgUsed EXCEPT !.arrivals = @ + 1]
    /\ UNCHANGED <<pgNow, chain, lastHeld, caches, knownPublic, file, saveTimeout, saveFailed, rows>>

Learn(r, f, v) ==
    [r EXCEPT !.facts = [g \in DOMAIN @ \cup {f} |-> IF g = f THEN v ELSE @[g]],
              !.wait = "none", !.fact = Gate, !.answer = NoAnswer]

(* A handler runs on: it takes a cached answer, asks the chain, or is done.*)
Continue(s) ==
    LET r == requests[s] IN
    /\ r.wait = "none"
    /\ LET d == Decide(r) IN
       \/ /\ d.ask /\ d.fact \in DOMAIN caches
          /\ requests' = [requests EXCEPT ![s] = Learn(r, d.fact, caches[d.fact].value)]
          /\ UNCHANGED rows
       \/ /\ d.ask /\ d.fact \notin DOMAIN caches
          /\ requests' = [requests EXCEPT ![s].wait = "asked", ![s].fact = d.fact]
          /\ UNCHANGED rows
       \/ /\ ~d.ask /\ r.kind # "purge"
          /\ requests' = [requests EXCEPT ![s] = Free]
          /\ rows' = IF d.verdict = "store" THEN rows \cup {r.user} ELSE rows
       \/ /\ ~d.ask /\ r.kind = "purge"
          /\ LET may == \/ d.verdict = "any"
                        \/ d.verdict = "own" /\ rows \subseteq {r.user}
             IN requests' = [requests EXCEPT ![s] =
                    IF may /\ rows # {} THEN [r EXCEPT !.wait = "deleting", !.found = rows] ELSE Free]
          /\ UNCHANGED rows
    /\ UNCHANGED <<pgNow, chain, lastHeld, caches, knownPublic, file, saveTimeout, saveFailed, pgUsed>>

(* What the chain may answer.  An answer was right at some moment of the   *)
(* current instant: one that was read before a change may arrive after it, *)
(* and after newer answers to other requests.                              *)
AnswersTo(f) ==
    IF f \in Facts THEN {v \in ValuesOf(f) : lastHeld[f][v] = pgNow}
    ELSE IF f[1] = "delete" THEN {IF f[2] \in StreamAdmins THEN "yes" ELSE "no"}
    ELSE {"yes", "no"}

\* Seeded fault: a refusal is remembered as long as a grant.
TtlOfAlwaysLong(f, v) == CACHE_TTL

TtlOf(f, v) == IF v \in {"yes"} \cup Gated THEN CACHE_TTL ELSE DENIAL_TTL

Cache(f, v) == caches' = TtlSet(caches, f, v, TtlOf(f, v), pgNow)

(* An answer arrives: caches and known streams follow it.  A gate found in *)
(* the metadata is read before it is cached.                               *)
ChainAnswers(s) ==
    LET r == requests[s]
        f == r.fact
    IN /\ r.wait = "asked"
       /\ \E v \in AnswersTo(f) :
          LET learned == [requests EXCEPT ![s] = Learn(r, f, v)] IN
          \/ /\ f \in {Delete(r.user), Valid(r.user)}
             /\ requests' = learned
             /\ KnownPublicSame /\ UNCHANGED caches
          \/ /\ f = Gate /\ v = "missing"
             /\ requests' = learned
             /\ KnownPublicSet(FALSE) /\ UNCHANGED caches
          \/ /\ f = Gate /\ v = "null"
             /\ requests' = learned
             /\ KnownPublicSame /\ Cache(f, v)
          \/ /\ f = Gate /\ v \in Gated
             /\ requests' = [requests EXCEPT ![s].wait = "info", ![s].answer = v]
             /\ KnownPublicSet(FALSE) /\ UNCHANGED caches
          \/ /\ f = Public
             /\ requests' = learned
             /\ KnownPublicSet(v = "yes") /\ Cache(f, v)
          \/ /\ f \in UserFacts
             /\ requests' = learned
             /\ KnownPublicSame /\ Cache(f, v)
       /\ UNCHANGED <<pgNow, chain, lastHeld, file, saveFailed, rows, pgUsed>>

(* A question fails; getInfo's failure is the gate's.                      *)
ChainFails(s) ==
    LET r == requests[s] IN
    /\ r.wait \in {"asked", "info"}
    /\ pgUsed.faults < MaxGateFaults
    /\ pgUsed' = [pgUsed EXCEPT !.faults = @ + 1]
    /\ requests' = [requests EXCEPT ![s] = Learn(r, r.fact, "error")]
    /\ UNCHANGED <<pgNow, chain, lastHeld, caches, knownPublic, file, saveTimeout, saveFailed, rows>>

(* GateReader.getInfo, whose answer never changes.                         *)
InfoAnswers(s) ==
    LET r == requests[s] IN
    /\ r.wait = "info"
    /\ requests' = [requests EXCEPT ![s] = Learn(r, Gate, r.answer)]
    /\ Cache(Gate, r.answer)
    /\ UNCHANGED <<pgNow, chain, lastHeld, knownPublic, file, saveTimeout, saveFailed, rows, pgUsed>>

(* The purge handler deletes the rows it read, one by one.                 *)
DeleteMessage(s) ==
    LET r == requests[s] IN
    /\ r.wait = "deleting"
    /\ \E u \in r.found :
          /\ rows' = rows \ {u}
          /\ requests' = [requests EXCEPT ![s] = IF r.found = {u} THEN Free ELSE [r EXCEPT !.found = @ \ {u}]]
    /\ UNCHANGED <<pgNow, chain, lastHeld, caches, knownPublic, file, saveTimeout, saveFailed, pgUsed>>

(* destroy() flushes a pending save; a crash does not.                     *)
Restart ==
    /\ pgUsed.faults < MaxGateFaults
    /\ \/ file' = knownPublic /\ saveTimeout # NoTimer /\ saveFailed' = FALSE
       \/ UNCHANGED <<file, saveFailed>>
    /\ knownPublic' = file'
    /\ saveTimeout' = NoTimer
    /\ caches' = EmptyTtlMap
    /\ requests' = [s \in Slots |-> Free]
    /\ pgUsed' = [pgUsed EXCEPT !.faults = @ + 1]
    /\ UNCHANGED <<pgNow, chain, lastHeld, rows>>

PgNext ==
    \/ \E s \in Slots : Continue(s)
    \/ /\ ~Running
       /\ \/ GateTick \/ CacheTimer \/ SaveTimer \/ ChainChanges \/ Restart
          \/ \E s \in Slots : \/ Arrive(s) \/ ChainAnswers(s) \/ ChainFails(s)
                              \/ InfoAnswers(s) \/ DeleteMessage(s)

PgSpec == PgInit /\ [][PgNext]_pgVars
-----------------------------------------------------------------------------
PgTypeOK ==
    /\ pgNow \in StartTime .. LastGateTime
    /\ \A f \in Facts : chain[f] \in ValuesOf(f)
    /\ DOMAIN caches \subseteq Facts
    /\ \A f \in DOMAIN caches : caches[f].value \in ValuesOf(f) \ {"missing"}
    /\ knownPublic \in BOOLEAN /\ file \in BOOLEAN /\ saveFailed \in BOOLEAN
    /\ saveTimeout = NoTimer \/ saveTimeout \in pgNow .. pgNow + SAVE_DELAY_MS
    /\ rows \subseteq Accounts

(* "a ban, a new moderator or an expired subscription is seen within       *)
(* CACHE_TTL.  What the chain says NO to is kept for DENIAL_TTL instead":  *)
(* whatever answer a handler works with, the chain gave it at most that    *)
(* long before the request came, however requests share the caches.        *)
AnswersAreFresh ==
    \A s \in Slots : InProgress(s) =>
        LET r == requests[s] IN
        \A f \in DOMAIN r.facts \cap Facts :
            r.facts[f] # "error" =>
                lastHeld[f][r.facts[f]] +
                    (IF r.facts[f] \in {"yes"} \cup Gated THEN CACHE_TTL ELSE DENIAL_TTL) >= r.since

(* The list on disk follows the list in memory: when they differ, a save   *)
(* is pending or the last one failed (the failure is only logged).         *)
SaveIsPending == (file # knownPublic) => (saveTimeout # NoTimer \/ saveFailed)

(* A row is purged only for an account that could delete it, as the chain  *)
(* said at most CACHE_TTL before the request: an administrator of the      *)
(* stream, the owner or a moderator of its gate, or the row's own signer   *)
(* on a stream that is not sealed.  Rows stored while the purge runs are   *)
(* not among those it deletes.                                             *)
PurgeIsEntitled ==
    [][\A u \in rows \ rows' :
          \E s \in Slots :
             /\ InProgress(s) /\ requests[s].kind = "purge"
             /\ LET r == requests[s]
                    Lately(f, v) == v \in ValuesOf(f) /\ lastHeld[f][v] + CACHE_TTL >= r.since
                    gated == Lately(Gate, "visible") \/ Lately(Gate, "sealed")
                IN \/ r.user \in StreamAdmins
                   \/ gated /\ r.user = GateOwner
                   \/ gated /\ Lately(Moderator(r.user), "yes")
                   \/ u = r.user /\ (Lately(Gate, "null") \/ Lately(Gate, "visible"))]_pgVars

(* What the gates remember is not stale: answers from the caches are as    *)
(* old as their lifetime at most, and the known public streams on disk are *)
(* those in memory once the delayed save has run.                          *)
MemoryIsFresh == AnswersAreFresh /\ SaveIsPending
=============================================================================
