--------------------------- MODULE SignedRequest ---------------------------
(***************************************************************************)
(* SignedRequestVerifier: which requests of clients are accepted.  A       *)
(* client signs a request with its own clock, which may be off, and may    *)
(* send it more than once; the node accepts it if its issuedAt is close to *)
(* the node's clock and its nonce is not remembered.  Rejections change no *)
(* state, so a request that is not acceptable is one for which Verify is   *)
(* not enabled.  A signature is valid for the request it was made for:     *)
(* what a request contains otherwise is abstracted away.                   *)
(***************************************************************************)
EXTENDS Naturals, FiniteSets

(* MapWithTtl of utils: a map whose entries carry a timeout.  A map is a   *)
(* function from its keys to records [value, expires]; the timer of an     *)
(* entry fires at `expires` and deletes it.  set() on an existing key      *)
(* clears the old timer, so an entry has one.                              *)

EmptyTtlMap == [k \in {} |-> 0]

TtlSet(map, key, value, ttl, now) ==
    [k \in DOMAIN map \cup {key} |->
        IF k = key THEN [value |-> value, expires |-> now + ttl] ELSE map[k]]

TtlDelete(map, key) == [k \in DOMAIN map \ {key} |-> map[k]]

\* The keys whose timers are due.
TtlDue(map, now) == {k \in DOMAIN map : map[k].expires <= now}

-----------------------------------------------------------------------------
CONSTANTS
    Signers,            \* accounts
    Nonces,
    MAX_CLOCK_SKEW,
    SignedTimes,        \* the instants the model runs through
    MaxSigned,          \* bound on the requests signed
    MaxVerifierRestarts \* bound on restarts

ASSUME SignedRequestAssumption ==
    /\ MAX_CLOCK_SKEW \in Nat \ {0}
    /\ SignedTimes \subseteq Nat /\ 0 \in SignedTimes
    /\ MaxSigned \in Nat /\ MaxVerifierRestarts \in Nat

VARIABLES
    srNow,          \* Date.now()
    signed,         \* requests signed so far
    seenNonces,     \* MapWithTtl from <<user, nonce>>
    verifier,       \* number of the running verifier: it grows with restarts
    accepted        \* history: [request, at, verifier] of each acceptance

signedVars == <<srNow, signed, seenNonces, verifier, accepted>>

Requests == [user : Signers, nonce : Nonces, issuedAt : SignedTimes]

SignedTypeOK ==
    /\ srNow \in SignedTimes
    /\ signed \subseteq Requests
    /\ DOMAIN seenNonces \subseteq Signers \X Nonces
    /\ \A k \in DOMAIN seenNonces :
          seenNonces[k].expires \in srNow .. srNow + 2 * MAX_CLOCK_SKEW
    /\ verifier \in 0 .. MaxVerifierRestarts
    /\ accepted \subseteq [request : Requests, at : SignedTimes, by : 0 .. MaxVerifierRestarts]

SignedInit ==
    /\ srNow = 0
    /\ signed = {}
    /\ seenNonces = EmptyTtlMap
    /\ verifier = 0
    /\ accepted = {}
-----------------------------------------------------------------------------
(* A client signs a request; nothing keeps its clock near the node's.      *)
SignRequest ==
    \E r \in Requests :
        /\ Cardinality(signed) < MaxSigned
        /\ signed' = signed \cup {r}
        /\ UNCHANGED <<srNow, seenNonces, verifier, accepted>>

IsRecent(r) ==
    /\ r.issuedAt <= srNow + MAX_CLOCK_SKEW
    /\ srNow <= r.issuedAt + MAX_CLOCK_SKEW

\* Seeded fault: a nonce is remembered for the length of one skew.
SeenTtlOneSkew == MAX_CLOCK_SKEW

SeenTtl == 2 * MAX_CLOCK_SKEW

Verify(r) ==
    LET nonceKey == <<r.user, r.nonce>> IN
    /\ r \in signed
    /\ IsRecent(r)
    /\ nonceKey \notin DOMAIN seenNonces
    /\ seenNonces' = TtlSet(seenNonces, nonceKey, TRUE, SeenTtl, srNow)
    /\ accepted' = accepted \cup {[request |-> r, at |-> srNow, by |-> verifier]}
    /\ UNCHANGED <<srNow, signed, verifier>>

(* The timer of an entry.                                                  *)
ForgetNonce ==
    \E k \in TtlDue(seenNonces, srNow) :
        /\ seenNonces' = TtlDelete(seenNonces, k)
        /\ UNCHANGED <<srNow, signed, verifier, accepted>>

(* destroy() and a new verifier: nonces are kept in memory only.           *)
RestartVerifier ==
    /\ verifier < MaxVerifierRestarts
    /\ verifier' = verifier + 1
    /\ seenNonces' = EmptyTtlMap
    /\ UNCHANGED <<srNow, signed, accepted>>

(* Timers that are due fire before the clock moves on.                     *)
SignedTick ==
    /\ srNow + 1 \in SignedTimes
    /\ TtlDue(seenNonces, srNow) = {}
    /\ srNow' = srNow + 1
    /\ UNCHANGED <<signed, seenNonces, verifier, accepted>>

SignedNext ==
    \/ SignRequest
    \/ \E r \in signed : Verify(r)
    \/ ForgetNonce
    \/ RestartVerifier
    \/ SignedTick

SignedSpec == SignedInit /\ [][SignedNext]_signedVars
-----------------------------------------------------------------------------
(* A request is accepted once by a verifier: the nonce is remembered for   *)
(* as long as the request stays recent.  The one instant where the two     *)
(* meet is named: a request signed a full skew ahead of the node's clock   *)
(* is still recent when the timer of its nonce fires.                      *)
AcceptedOnce ==
    \A a, b \in accepted :
        (a.request = b.request /\ a.by = b.by /\ a.at < b.at)
            => /\ a.request.issuedAt = a.at + MAX_CLOCK_SKEW
               /\ b.at = a.at + 2 * MAX_CLOCK_SKEW
=============================================================================
