---------------------------- MODULE PluginProofs ----------------------------
(***************************************************************************)
(* Theorems about the plugins of the node, each for every value of its     *)
(* constants.  Of the storage plugin: the schedule of retention, the       *)
(* verifier of signed requests, the watchdog of Cassandra, the gates with  *)
(* their caches, and how the plugin reaches the chain: event polling and   *)
(* provider failover.  Of the operator plugin: its inspections.  Of the    *)
(* client they all use: the encryption keys of a stream, subscriptions and *)
(* their resends.                                                          *)
(***************************************************************************)
EXTENDS EncryptionKeys, RetentionSchedule, SignedRequest, PomboGates, CassandraWatchdog, ChainEventPoller,
        Operator, Subscriptions, FiniteSetTheorems, WellFoundedInduction, TLAPS

-----------------------------------------------------------------------------
(* RetentionSchedule: ScheduleInv links the file, the timer and the time   *)
(* since the last run.                                                     *)

\* firstRunDelay never waits longer than the interval.
LEMMA FirstRunDelayBounds ==
    ASSUME TypeOK
    PROVE  FirstRunDelay \in 1 .. IntervalHours
BY IntervalAssumption DEF TypeOK, FirstRunDelay, Time, NoTime

\* With a true file, it waits at least for what is left of the interval.
LEMMA FirstRunDelayCovers ==
    ASSUME TypeOK, ScheduleInv, clockChanges = 0
    PROVE  sinceRecorded + FirstRunDelay >= IntervalHours
BY IntervalAssumption DEF TypeOK, ScheduleInv, FirstRunDelay, Time, NoTime

-----------------------------------------------------------------------------
\* The types of the schedule; a scheduler that does not wait has no timer (stop()
\* clears it), and no timer is longer than the interval.
LEMMA TypeInductive == TypeOK /\ NeverDeferredLonger /\ [Next]_vars => (TypeOK /\ NeverDeferredLonger)'
<1> SUFFICES ASSUME TypeOK, NeverDeferredLonger, [Next]_vars
             PROVE  (TypeOK /\ NeverDeferredLonger)'
    OBVIOUS
<1> USE IntervalAssumption, ScheduleBounds DEF TypeOK, NeverDeferredLonger, Time, NoTime
<1>1. CASE Start
    BY <1>1, FirstRunDelayBounds DEF Start
<1>2. CASE RunStarts
    BY <1>2 DEF RunStarts
<1>3. CASE RunStartsWithoutRecord
    BY <1>3 DEF RunStartsWithoutRecord
<1>4. CASE RunEnds
    BY <1>4 DEF RunEnds
<1>5. CASE Stop
    BY <1>5 DEF Stop
<1>6. CASE Tick
    BY <1>6 DEF Tick
<1>7. CASE \E t \in Time : SetClock(t)
    BY <1>7 DEF SetClock
<1>8. CASE UNCHANGED vars
    BY <1>8 DEF vars
<1>9. QED
    BY <1>1, <1>2, <1>3, <1>4, <1>5, <1>6, <1>7, <1>8 DEF Next

LEMMA InitTypes == Init => TypeOK /\ NeverDeferredLonger
BY IntervalAssumption, ScheduleBounds DEF Init, TypeOK, NeverDeferredLonger, Time, NoTime

\* The variables keep their types and a stopped scheduler has no timer left.
THEOREM TypeCorrect == Spec => []TypeOK
BY InitTypes, TypeInductive, PTL DEF Spec

\* No last-run file, whatever clock wrote it, defers a run by more than the interval
\* (firstRunDelay).
THEOREM NeverDeferred == Spec => []NeverDeferredLonger
BY InitTypes, TypeInductive, PTL DEF Spec

-----------------------------------------------------------------------------
\* Until the clock is set, the file tells the time of the last recorded run.
LEMMA ScheduleInductive == TypeOK /\ ScheduleInv /\ [Next]_vars => ScheduleInv'
<1> SUFFICES ASSUME TypeOK, ScheduleInv, [Next]_vars
             PROVE  ScheduleInv'
    OBVIOUS
<1> USE IntervalAssumption, ScheduleBounds DEF TypeOK, ScheduleInv, Time, NoTime
<1>1. CASE Start
    <2>1. clockChanges = 0 => sinceRecorded + FirstRunDelay >= IntervalHours
        BY FirstRunDelayCovers
    <2>2. QED
        BY <1>1, <2>1 DEF Start
<1>2. CASE RunStarts
    BY <1>2 DEF RunStarts
<1>3. CASE RunStartsWithoutRecord
    BY <1>3 DEF RunStartsWithoutRecord
<1>4. CASE RunEnds
    BY <1>4 DEF RunEnds
<1>5. CASE Stop
    BY <1>5 DEF Stop
<1>6. CASE Tick
    BY <1>6 DEF Tick
<1>7. CASE \E t \in Time : SetClock(t)
    BY <1>7 DEF SetClock
<1>8. CASE UNCHANGED vars
    BY <1>8 DEF vars
<1>9. QED
    BY <1>1, <1>2, <1>3, <1>4, <1>5, <1>6, <1>7, <1>8 DEF Next

LEMMA InitSchedule == Init => ScheduleInv
BY IntervalAssumption, ScheduleBounds DEF Init, ScheduleInv, Time, NoTime

\* A step that starts a run finds the timer at 0.
LEMMA StartsAtZero ==
    ASSUME [Next]_vars, mode = "waiting", mode' = "running"
    PROVE  timer = 0
<1>1. CASE RunStarts \/ RunStartsWithoutRecord
    BY <1>1 DEF RunStarts, RunStartsWithoutRecord
<1>2. CASE ~(RunStarts \/ RunStartsWithoutRecord)
    BY <1>2 DEF Next, Start, RunEnds, Stop, Tick, SetClock, vars
<1>3. QED
    BY <1>1, <1>2

\* Runs start at least the interval apart, over any number of restarts, as long as the
\* clock is not set (recordRun, firstRunDelay, schedule).
THEOREM Spaced == Spec => RunsAreSpaced
<1> DEFINE Step == mode = "waiting" /\ mode' = "running"
                       => sinceRecorded = IntervalHours \/ clockChanges > 0
<1>1. TypeOK /\ ScheduleInv /\ [Next]_vars => Step
    <2> SUFFICES ASSUME TypeOK, ScheduleInv, [Next]_vars, mode = "waiting", mode' = "running"
                 PROVE  sinceRecorded = IntervalHours \/ clockChanges > 0
        OBVIOUS
    <2>1. timer = 0
        BY StartsAtZero
    <2>2. QED
        BY <2>1, IntervalAssumption, ScheduleBounds DEF TypeOK, ScheduleInv
<1>2. TypeOK /\ ScheduleInv /\ [Next]_vars => [Step]_vars
    BY <1>1
<1>3. Spec => []TypeOK
    BY TypeCorrect
<1>4. QED
    BY <1>2, <1>3, InitSchedule, ScheduleInductive, PTL DEF Spec, RunsAreSpaced

\* The runs keep to the interval from both sides (firstRunDelay, recordRun, schedule).
THEOREM KeepsSchedule == Spec => OnSchedule
BY NeverDeferred, Spaced, PTL DEF OnSchedule

-----------------------------------------------------------------------------
(* SignedRequest: an acceptance leaves its nonce behind.                   *)

\* A nonce is remembered at least until twice the skew after each acceptance of it by the
\* running verifier.
Remembered ==
    \A a \in accepted :
        a.by = verifier /\ srNow < a.at + 2 * MAX_CLOCK_SKEW =>
            /\ <<a.request.user, a.request.nonce>> \in DOMAIN seenNonces
            /\ seenNonces[<<a.request.user, a.request.nonce>>].expires >= a.at + 2 * MAX_CLOCK_SKEW

\* Acceptances are in the past, of a past or the present verifier, of requests that were recent.
AcceptedInPast ==
    \A a \in accepted :
        /\ a.at <= srNow /\ a.by <= verifier
        /\ a.request.issuedAt <= a.at + MAX_CLOCK_SKEW
        /\ a.at <= a.request.issuedAt + MAX_CLOCK_SKEW

\* The inductive invariant.
SignedInv == SignedTypeOK /\ Remembered /\ AcceptedInPast /\ AcceptedOnce

-----------------------------------------------------------------------------
\* It holds when the verifier starts, with nothing remembered and nothing accepted.
LEMMA SignedInitially == SignedInit => SignedInv
BY SignedRequestAssumption
   DEF SignedInit, SignedInv, SignedTypeOK, Remembered, AcceptedInPast, AcceptedOnce, EmptyTtlMap, Requests

\* Every step of the verifier keeps the types.
LEMMA TypesKept == SignedTypeOK /\ [SignedNext]_signedVars => SignedTypeOK'
<1> SUFFICES ASSUME SignedTypeOK, [SignedNext]_signedVars
             PROVE  SignedTypeOK'
    OBVIOUS
<1> USE SignedRequestAssumption DEF SignedTypeOK
<1>1. CASE SignRequest
    BY <1>1 DEF SignRequest
<1>2. ASSUME NEW r \in signed, Verify(r)
      PROVE  SignedTypeOK'
    <2>1. <<r.user, r.nonce>> \in Signers \X Nonces /\ r \in Requests
        BY DEF Requests
    <2>2. QED
        BY <1>2, <2>1 DEF Verify, TtlSet, SeenTtl
<1>3. CASE ForgetNonce
    BY <1>3 DEF ForgetNonce, TtlDue, TtlDelete
<1>4. CASE RestartVerifier
    BY <1>4 DEF RestartVerifier, EmptyTtlMap
<1>5. CASE SignedTick
    BY <1>5 DEF SignedTick, TtlDue
<1>6. CASE UNCHANGED signedVars
    BY <1>6 DEF signedVars
<1>7. QED
    BY <1>1, <1>2, <1>3, <1>4, <1>5, <1>6 DEF SignedNext

\* It is inductive. A request is accepted only if its nonce is not remembered, so an earlier
\* acceptance of it is at least twice the skew old, and no request is recent for longer.
LEMMA SignedInductive == SignedInv /\ [SignedNext]_signedVars => SignedInv'
<1> SUFFICES ASSUME SignedInv, [SignedNext]_signedVars
             PROVE  (Remembered /\ AcceptedInPast /\ AcceptedOnce)'
    BY TypesKept DEF SignedInv
<1> USE SignedRequestAssumption
<1>0. /\ srNow \in Nat /\ verifier \in Nat
      /\ \A a \in accepted : a.at \in Nat /\ a.by \in Nat /\ a.request.issuedAt \in Nat
      /\ \A r \in signed : r.issuedAt \in Nat
      /\ \A k \in DOMAIN seenNonces : seenNonces[k].expires \in Nat
    <2>1. srNow \in Nat /\ verifier \in Nat
        BY DEF SignedInv, SignedTypeOK
    <2>2. \A a \in accepted : a.at \in Nat /\ a.by \in Nat /\ a.request.issuedAt \in Nat
        <3> SUFFICES ASSUME NEW a \in accepted
                     PROVE  a.at \in Nat /\ a.by \in Nat /\ a.request.issuedAt \in Nat
            OBVIOUS
        <3>1. a.request \in Requests /\ a.at \in SignedTimes /\ a.by \in 0 .. MaxVerifierRestarts
            BY DEF SignedInv, SignedTypeOK
        <3>2. QED
            <4>1. a.request.issuedAt \in SignedTimes
                BY <3>1 DEF Requests
            <4>2. a.by \in Nat
                BY <3>1
            <4>3. QED
                BY <3>1, <4>1, <4>2
    <2>3. \A r \in signed : r.issuedAt \in Nat
        BY DEF SignedInv, SignedTypeOK, Requests
    <2>4. \A k \in DOMAIN seenNonces : seenNonces[k].expires \in Nat
        BY <2>1 DEF SignedInv, SignedTypeOK
    <2>5. QED
        BY <2>1, <2>2, <2>3, <2>4
<1>1. CASE SignRequest
    BY <1>1 DEF SignRequest, SignedInv, Remembered, AcceptedInPast, AcceptedOnce
<1>2. ASSUME NEW r \in signed, Verify(r)
      PROVE  (Remembered /\ AcceptedInPast /\ AcceptedOnce)'
    <2> DEFINE key == <<r.user, r.nonce>>
               new == [request |-> r, at |-> srNow, by |-> verifier]
    <2>1. /\ accepted' = accepted \cup {new}
          /\ srNow' = srNow /\ verifier' = verifier
          /\ key \notin DOMAIN seenNonces
          /\ DOMAIN seenNonces' = DOMAIN seenNonces \cup {key}
          /\ seenNonces'[key].expires = srNow + 2 * MAX_CLOCK_SKEW
          /\ \A k \in DOMAIN seenNonces : seenNonces'[k] = seenNonces[k]
        BY <1>2 DEF Verify, TtlSet, SeenTtl
    <2>2. r.issuedAt <= srNow + MAX_CLOCK_SKEW /\ srNow <= r.issuedAt + MAX_CLOCK_SKEW
        BY <1>2 DEF Verify, IsRecent
    <2>3. Remembered'
        BY <1>0, <2>1 DEF SignedInv, Remembered
    <2>4. AcceptedInPast'
        BY <1>0, <2>1, <2>2 DEF SignedInv, AcceptedInPast
    <2>5. ASSUME NEW a \in accepted, a.request = r, a.by = verifier
          PROVE  a.at + 2 * MAX_CLOCK_SKEW <= srNow
        BY <1>0, <2>1, <2>5 DEF SignedInv, Remembered
    <2>6. AcceptedOnce'
        <3> SUFFICES ASSUME NEW a \in accepted', NEW b \in accepted',
                            a.request = b.request, a.by = b.by, a.at < b.at
                     PROVE  /\ a.request.issuedAt = a.at + MAX_CLOCK_SKEW
                            /\ b.at = a.at + 2 * MAX_CLOCK_SKEW
            BY DEF AcceptedOnce
        <3>1. CASE a \in accepted /\ b \in accepted
            BY <3>1 DEF SignedInv, AcceptedOnce
        <3>2. CASE a = new
            BY <1>0, <2>1, <3>2 DEF SignedInv, AcceptedInPast
        <3>3. CASE a \in accepted /\ b = new
            BY <1>0, <2>1, <2>2, <2>5, <3>3 DEF SignedInv, AcceptedInPast
        <3>4. QED
            BY <2>1, <3>1, <3>2, <3>3
    <2>7. QED
        BY <2>3, <2>4, <2>6
<1>3. CASE ForgetNonce
    <2>1. PICK k \in TtlDue(seenNonces, srNow) : seenNonces' = TtlDelete(seenNonces, k)
        BY <1>3 DEF ForgetNonce
    <2>2. /\ seenNonces[k].expires <= srNow
          /\ DOMAIN seenNonces' = DOMAIN seenNonces \ {k}
          /\ \A j \in DOMAIN seenNonces \ {k} : seenNonces'[j] = seenNonces[j]
        BY <2>1 DEF TtlDue, TtlDelete
    <2>3. UNCHANGED <<srNow, signed, verifier, accepted>>
        BY <1>3 DEF ForgetNonce
    <2>4. QED
        BY <1>0, <2>2, <2>3 DEF SignedInv, Remembered, AcceptedInPast, AcceptedOnce
<1>4. CASE RestartVerifier
    BY <1>0, <1>4 DEF RestartVerifier, SignedInv, Remembered, AcceptedInPast, AcceptedOnce
<1>5. CASE SignedTick
    BY <1>0, <1>5 DEF SignedTick, SignedInv, Remembered, AcceptedInPast, AcceptedOnce
<1>6. CASE UNCHANGED signedVars
    BY <1>6 DEF signedVars, SignedInv, Remembered, AcceptedInPast, AcceptedOnce
<1>7. QED
    BY <1>1, <1>2, <1>3, <1>4, <1>5, <1>6 DEF SignedNext

\* The types of the verifier of signed requests, for any users, nonces, times and skew.
THEOREM RequestTypes == SignedSpec => []SignedTypeOK
<1>1. SignedInv => SignedTypeOK
    BY DEF SignedInv
<1>2. QED
    BY <1>1, SignedInitially, SignedInductive, PTL DEF SignedSpec

\* No request is accepted twice by one verifier (verifyGateRequest), except at the two ends of its
\* validity exactly: its issue time the skew ahead of the clock, then the skew behind it.
THEOREM RequestsAcceptedOnce == SignedSpec => []AcceptedOnce
<1>1. SignedInv => AcceptedOnce
    BY DEF SignedInv
<1>2. QED
    BY <1>1, SignedInitially, SignedInductive, PTL DEF SignedSpec

-----------------------------------------------------------------------------
(* CassandraWatchdog: where the next check stands in an outage.            *)

\* A check is due or in progress unless the watchdog was stopped, and neither is overdue.
ChecksGoOn ==
    /\ checkTimer \in Nat /\ checkStarted \in Nat /\ downSince \in 0 .. wdNow
    /\ unreachableSince = NotSince \/ unreachableSince <= wdNow
    /\ checkTimer # NotSince => wdNow <= checkTimer /\ checkTimer <= wdNow + CheckInterval /\ ~stopped
    /\ checkStarted # NotSince => checkStarted <= wdNow /\ wdNow <= checkStarted + QueryTimeout
    /\ ~stopped => checkTimer # NotSince \/ checkStarted # NotSince
    /\ exited => stopped /\ checkStarted = NotSince

\* Time is counted from a check that came after the last one that found a connection.
CountedFromACheck ==
    /\ checkTimer # NotSince => checkTimer >= lastHost + CheckInterval
    /\ checkStarted # NotSince => checkStarted >= lastHost + CheckInterval
    /\ unreachableSince # NotSince => unreachableSince >= lastHost + CheckInterval

\* The check that is due or in progress at time t during an outage is the first one of it, or
\* comes while the count of the outage is running and not over.
InOutage(t) ==
    \/ t <= downSince + CheckInterval
    \/ /\ unreachableSince <= downSince + CheckInterval + QueryTimeout
       /\ t < unreachableSince + MaxUnreachable + CheckInterval
       /\ unreachableSince # NotSince

\* While Cassandra is down, the check that is due or in progress is one of those.
OutageIsCounted ==
    cassandra = "down" =>
        /\ checkTimer # NotSince => InOutage(checkTimer)
        /\ checkStarted # NotSince => InOutage(checkStarted)

\* The inductive invariant.
WatchInv == WatchTypeOK /\ ChecksGoOn /\ CountedFromACheck /\ OutageIsCounted
            /\ (exited => wdNow >= lastHost + CheckInterval + MaxUnreachable)

\* It holds when the watchdog starts, with its first check due.
LEMMA WatchInitially == WatchInit => WatchInv
<1> SUFFICES ASSUME WatchInit PROVE WatchInv
    OBVIOUS
<1> USE CassandraWatchdogAssumption DEF WatchInit
<1>1. WatchTypeOK
    <2>1. stopped \in BOOLEAN /\ exited \in BOOLEAN
        BY Zenon
    <2>2. QED
        BY <2>1 DEF WatchTypeOK, NotSince
<1>2. ChecksGoOn
    BY DEF ChecksGoOn, NotSince
<1>3. CountedFromACheck /\ OutageIsCounted
    BY DEF CountedFromACheck, OutageIsCounted, InOutage, NotSince
<1>4. QED
    BY <1>1, <1>2, <1>3 DEF WatchInv

\* It is inductive: every check that finds no connection either ends the process or is followed
\* by the next one within the interval.
LEMMA WatchInductive == WatchInv /\ [WatchNext]_watchVars => WatchInv'
<1> SUFFICES ASSUME WatchInv, [WatchNext]_watchVars
             PROVE  WatchInv'
    OBVIOUS
<1> USE CassandraWatchdogAssumption
    DEF WatchInv, WatchTypeOK, ChecksGoOn, CountedFromACheck, OutageIsCounted, InOutage, NotSince
<1>1. CASE CassandraChanges
    BY <1>1 DEF CassandraChanges
<1>2. CASE CheckStarts
    BY <1>2 DEF CheckStarts
<1>3. CASE CheckFindsHost
    BY <1>3 DEF CheckFindsHost, NextCheck
<1>4. CASE CheckFindsNoHost
    <2>1. CASE wdNow >= unreachableSince' + MaxUnreachable
        <3>1. (stopped \in BOOLEAN /\ exited \in BOOLEAN)'
            BY <1>4, <2>1 DEF CheckFindsNoHost
        <3>2. /\ checkTimer' = NotSince /\ checkStarted' = NotSince /\ stopped' /\ exited'
              /\ unreachableSince' = IF unreachableSince = NotSince THEN wdNow ELSE unreachableSince
              /\ wdNow >= unreachableSince' + MaxUnreachable
              /\ checkStarted # NotSince
              /\ UNCHANGED <<wdNow, lastHost, downSince, cassandra>>
            BY <1>4, <2>1 DEF CheckFindsNoHost
        <3>3. QED
            BY <3>1, <3>2
    <2>2. CASE ~(wdNow >= unreachableSince' + MaxUnreachable)
        BY <1>4, <2>2 DEF CheckFindsNoHost, NextCheck
    <2>3. QED
        BY <2>1, <2>2
<1>5. CASE WatchStop
    BY <1>5 DEF WatchStop
<1>6. CASE WatchTick
    BY <1>6 DEF WatchTick
<1>7. CASE UNCHANGED watchVars
    BY <1>7 DEF watchVars
<1>8. QED
    BY <1>1, <1>2, <1>3, <1>4, <1>5, <1>6, <1>7 DEF WatchNext

\* The process did not exit too early, and an outage that lasts cannot outlive the checks.
LEMMA WatchInvSuffices == WatchInv => ExitsOnlyAndAlwaysAfterOutage
BY CassandraWatchdogAssumption
   DEF WatchInv, WatchTypeOK, ChecksGoOn, OutageIsCounted, InOutage, NotSince, ExitsOnlyAndAlwaysAfterOutage

\* The watchdog ends the process only after an outage of MaxUnreachable, and an outage goes on for no
\* longer than that and two checks (CassandraWatchdog.check), for every value of the intervals.
THEOREM ExitsAfterOutage == WatchSpec => []ExitsOnlyAndAlwaysAfterOutage
BY WatchInitially, WatchInductive, WatchInvSuffices, PTL DEF WatchSpec

-----------------------------------------------------------------------------
(* PomboGates: an answer that is cached, or that a request works with, is  *)
(* no older than its lifetime allows.                                      *)

\* What a request can ask, the answers it may get, and the answers it has so far.
Questions == Facts \cup {Delete(u) : u \in Accounts} \cup {Valid(u) : u \in Accounts}
Answers == {"yes", "no", "error", NoAnswer} \cup GateKinds
FactsSoFar == UNION {[known -> Answers] : known \in SUBSET Questions}

\* A request in progress.
RequestType ==
    [kind : Kinds, user : Accounts, signed : BOOLEAN, since : Nat, facts : FactsSoFar,
     wait : {"none", "asked", "info", "deleting"}, fact : Questions, answer : Answers, found : SUBSET Accounts]

\* The functions of the state, and when the chain last said something.
GateTypes ==
    /\ PgTypeOK
    /\ DOMAIN chain = Facts /\ DOMAIN lastHeld = Facts
    /\ \A f \in Facts : lastHeld[f] \in [ValuesOf(f) -> 0 .. pgNow]
    /\ \A f \in DOMAIN caches : caches[f] \in [value : ValuesOf(f), expires : Nat]
    /\ requests \in [Slots -> RequestType \cup {Free}]

\* A cached answer was given at most its lifetime before it expires, and is not overdue.
CacheIsFresh ==
    \A f \in DOMAIN caches :
        /\ pgNow <= caches[f].expires
        /\ caches[f].expires <= lastHeld[f][caches[f].value] + TtlOf(f, caches[f].value)

\* What the chain said at most CACHE_TTL before the request came.
SaidLately(r, held, f, v) == v \in ValuesOf(f) /\ held[f][v] + CACHE_TTL >= r.since

\* The account of the request may delete the row of u (see PurgeIsEntitled).
Entitled(r, held, u) ==
    \/ r.user \in StreamAdmins
    \/ /\ SaidLately(r, held, Gate, "visible") \/ SaidLately(r, held, Gate, "sealed")
       /\ r.user = GateOwner \/ SaidLately(r, held, Moderator(r.user), "yes")
    \/ u = r.user /\ (SaidLately(r, held, Gate, "null") \/ SaidLately(r, held, Gate, "visible"))

\* The answers of a request are the chain's and fresh; a gate that is being read was found in this
\* instant; the rows a purge deletes are ones its account may delete.
Sound(r, held, now) ==
    /\ r.since <= now
    /\ \A f \in DOMAIN r.facts \cap Facts : r.facts[f] # "error" =>
          /\ r.facts[f] \in ValuesOf(f)
          /\ held[f][r.facts[f]] + TtlOf(f, r.facts[f]) >= r.since
    /\ (Delete(r.user) \in DOMAIN r.facts /\ r.facts[Delete(r.user)] = "yes") => r.user \in StreamAdmins
    /\ r.wait = "info" =>
          r.fact = Gate /\ r.answer \in GateKinds \cap Gated /\ held[Gate][r.answer] = now
    /\ r.wait = "deleting" => r.kind = "purge" /\ \A u \in r.found : Entitled(r, held, u)

RequestsAreSound == \A s \in Slots : InProgress(s) => Sound(requests[s], lastHeld, pgNow)

\* The inductive invariant.
GateInv == GateTypes /\ CacheIsFresh /\ RequestsAreSound /\ SaveIsPending

\* The facts are told apart by their first element.
LEMMA FactsDiffer ==
    /\ \A f \in Facts : f[1] \in {"gate", "public", "moderator", "access", "subscribe"}
    /\ \A f \in UserFacts : f[1] \in {"moderator", "access", "subscribe"}
    /\ Gate[1] = "gate" /\ Public[1] = "public" /\ Gate \in Facts /\ Public \in Facts
    /\ \A u : Delete(u)[1] = "delete" /\ Valid(u)[1] = "valid" /\ Moderator(u)[1] = "moderator"
    /\ \A u \in Accounts : Moderator(u) \in Facts /\ Access(u) \in Facts /\ Subscribe(u) \in Facts
BY DEF Facts, UserFacts, Gate, Public, Moderator, Access, Subscribe, Delete, Valid

\* Only the gate's answers are gate kinds, and all answers are ones a request may hold.
LEMMA ValuesAreAnswers ==
    ASSUME NEW f \in Facts
    PROVE  /\ ValuesOf(f) \subseteq Answers
           /\ "error" \notin ValuesOf(f)
           /\ f # Gate => ValuesOf(f) = {"yes", "no"}
           /\ \A v : TtlOf(f, v) \in Nat /\ TtlOf(f, v) <= CACHE_TTL
BY PomboGatesAssumption DEF ValuesOf, Answers, TtlOf

\* A map of answers with one more answer.
LEMMA FactLearned ==
    ASSUME NEW facts \in FactsSoFar, NEW f \in Questions, NEW v \in Answers
    PROVE  [g \in DOMAIN facts \cup {f} |-> IF g = f THEN v ELSE facts[g]] \in FactsSoFar
<1>1. PICK known \in SUBSET Questions : facts \in [known -> Answers]
    BY DEF FactsSoFar
<1>2. [g \in DOMAIN facts \cup {f} |-> IF g = f THEN v ELSE facts[g]] \in [known \cup {f} -> Answers]
    BY <1>1
<1>3. known \cup {f} \in SUBSET Questions
    BY <1>1
<1>4. QED
    BY <1>2, <1>3 DEF FactsSoFar

\* What Learn makes of a request.
LEMMA LearnFields ==
    ASSUME NEW r \in RequestType, NEW f \in Questions, NEW v \in Answers
    PROVE  /\ Learn(r, f, v) \in RequestType
           /\ Learn(r, f, v).wait = "none" /\ Learn(r, f, v).since = r.since /\ Learn(r, f, v).user = r.user
           /\ DOMAIN Learn(r, f, v).facts = DOMAIN r.facts \cup {f}
           /\ Learn(r, f, v).facts[f] = v
           /\ \A g \in DOMAIN r.facts : g # f => Learn(r, f, v).facts[g] = r.facts[g]
<1> DEFINE more == [g \in DOMAIN r.facts \cup {f} |-> IF g = f THEN v ELSE r.facts[g]]
<1>1. Learn(r, f, v) = [r EXCEPT !.facts = more, !.wait = "none", !.fact = Gate, !.answer = NoAnswer]
    BY DEF Learn, RequestType
<1>2. r.facts \in FactsSoFar
    BY DEF RequestType
<1>3. more \in FactsSoFar /\ Gate \in Questions /\ NoAnswer \in Answers
    BY <1>2, FactLearned DEF Questions, Answers, Facts
<1>4. /\ DOMAIN more = DOMAIN r.facts \cup {f} /\ more[f] = v
      /\ \A g \in DOMAIN r.facts : g # f => more[g] = r.facts[g]
    OBVIOUS
<1> HIDE DEF more
<1>5. Learn(r, f, v) \in RequestType
    BY <1>1, <1>3 DEF RequestType
<1>6. /\ Learn(r, f, v).wait = "none" /\ Learn(r, f, v).since = r.since /\ Learn(r, f, v).user = r.user
      /\ Learn(r, f, v).facts = more
    BY <1>1 DEF RequestType
<1>7. QED
    BY <1>4, <1>5, <1>6

\* A request that learns a fresh answer, or that a question failed, stays sound.
LEMMA LearnIsSound ==
    ASSUME NEW r \in RequestType, NEW held, NEW now, Sound(r, held, now),
           NEW f \in Questions, NEW v \in Answers,
           (f \in Facts /\ v # "error") => (v \in ValuesOf(f) /\ held[f][v] + TtlOf(f, v) >= r.since),
           f = Delete(r.user) /\ v = "yes" => r.user \in StreamAdmins
    PROVE  Sound(Learn(r, f, v), held, now)
<1> DEFINE l == Learn(r, f, v)
<1>1. /\ l.wait = "none" /\ l.since = r.since /\ l.user = r.user
      /\ DOMAIN l.facts = DOMAIN r.facts \cup {f}
      /\ l.facts[f] = v
      /\ \A g \in DOMAIN r.facts : g # f => l.facts[g] = r.facts[g]
    BY LearnFields
<1> HIDE DEF l
<1>2. \A g \in DOMAIN l.facts \cap Facts : l.facts[g] # "error" =>
          l.facts[g] \in ValuesOf(g) /\ held[g][l.facts[g]] + TtlOf(g, l.facts[g]) >= l.since
    BY <1>1 DEF Sound
<1>3. Delete(l.user) \in DOMAIN l.facts /\ l.facts[Delete(l.user)] = "yes" => l.user \in StreamAdmins
    BY <1>1 DEF Sound
<1>4. QED
    BY <1>1, <1>2, <1>3 DEF Sound, l

\* Time and the chain's changes only make answers newer: requests stay sound.
LEMMA SoundGrows ==
    ASSUME NEW r \in RequestType, NEW now \in Nat, NEW later \in Nat, now <= later,
           NEW held, NEW newer, Sound(r, held, now),
           \A f \in Facts : \A v \in ValuesOf(f) :
               held[f][v] \in Nat /\ newer[f][v] \in Nat /\ held[f][v] <= newer[f][v] /\ newer[f][v] <= later,
           r.wait = "info" => later = now
    PROVE  Sound(r, newer, later)
<1>1. r.since \in Nat /\ r.user \in Accounts /\ CACHE_TTL \in Nat
    BY PomboGatesAssumption DEF RequestType
<1>2. \A f \in Facts : \A v \in ValuesOf(f) : SaidLately(r, held, f, v) => SaidLately(r, newer, f, v)
    BY <1>1 DEF SaidLately
<1>3. ASSUME NEW f \in DOMAIN r.facts \cap Facts, r.facts[f] # "error"
      PROVE  r.facts[f] \in ValuesOf(f) /\ newer[f][r.facts[f]] + TtlOf(f, r.facts[f]) >= r.since
    <2>1. r.facts[f] \in ValuesOf(f) /\ held[f][r.facts[f]] + TtlOf(f, r.facts[f]) >= r.since
        BY <1>3 DEF Sound
    <2>2. TtlOf(f, r.facts[f]) \in Nat
        BY ValuesAreAnswers
    <2>3. QED
        BY <1>1, <2>1, <2>2
<1>4. ASSUME r.wait = "info"
      PROVE  r.fact = Gate /\ r.answer \in GateKinds \cap Gated /\ newer[Gate][r.answer] = later
    <2>1. r.fact = Gate /\ r.answer \in GateKinds \cap Gated /\ held[Gate][r.answer] = now
        BY <1>4 DEF Sound
    <2>2. Gate \in Facts /\ r.answer \in ValuesOf(Gate)
        BY <2>1, FactsDiffer DEF ValuesOf
    <2>3. QED
        BY <1>4, <2>1, <2>2
<1>5. ASSUME r.wait = "deleting", NEW u \in r.found PROVE  Entitled(r, newer, u)
    <2>1. Entitled(r, held, u)
        BY <1>5 DEF Sound
    <2>2. Gate \in Facts /\ Moderator(r.user) \in Facts
        BY <1>1, FactsDiffer
    <2>3. \A f, v : SaidLately(r, held, f, v) => v \in ValuesOf(f)
        BY DEF SaidLately
    <2>4. QED
        BY <1>2, <2>1, <2>2, <2>3 DEF Entitled
<1>6. QED
    BY <1>1, <1>3, <1>4, <1>5 DEF Sound

\* One question: its answer, or the question.
LEMMA AnyOfOne ==
    ASSUME NEW r, NEW f
    PROVE  AnyOf(r, <<f>>) = IF Knows(r, f) THEN Done(r.facts[f]) ELSE Ask(f)
<1> DEFINE fs == <<f>>
           reached == {i \in DOMAIN fs : \A j \in 1 .. i - 1 : Knows(r, fs[j]) /\ r.facts[fs[j]] = "no"}
           last == CHOOSE i \in reached : \A j \in reached : j <= i
<1>1. reached = {1}
    OBVIOUS
<1>2. last = 1
    BY <1>1
<1>3. fs[last] = f
    BY <1>2
<1>4. QED
    BY <1>3 DEF AnyOf

\* Two questions: AnyOf asks one of them, or has an answer to one.
LEMMA AnyOfTwo ==
    ASSUME NEW r, NEW f, NEW g
    PROVE  \E q \in {f, g} : AnyOf(r, <<f, g>>) = IF Knows(r, q) THEN Done(r.facts[q]) ELSE Ask(q)
<1> DEFINE fs == <<f, g>>
           reached == {i \in DOMAIN fs : \A j \in 1 .. i - 1 : Knows(r, fs[j]) /\ r.facts[fs[j]] = "no"}
           last == CHOOSE i \in reached : \A j \in reached : j <= i
<1>1. 1 \in reached /\ reached \subseteq {1, 2}
    OBVIOUS
<1>2. \E i \in reached : \A j \in reached : j <= i
    <2>1. CASE 2 \in reached
        BY <1>1, <2>1
    <2>2. CASE 2 \notin reached
        BY <1>1, <2>2
    <2>3. QED
        BY <2>1, <2>2
<1>3. last \in {1, 2}
    BY <1>1, <1>2
<1>4. fs[last] \in {f, g}
    BY <1>3
<1>5. QED
    BY <1>4 DEF AnyOf

\* A decision is a question or a verdict.
LEMMA Decisions ==
    /\ \A f : Ask(f).ask /\ Ask(f).fact = f
    /\ \A v : ~Done(v).ask /\ Done(v).verdict = v
    /\ \A step, yes, no, error : step.ask => Then(step, yes, no, error) = step
    /\ \A step, yes, no, error : ~step.ask => ~Then(step, yes, no, error).ask
BY DEF Ask, Done, Then

\* A decision that asks, asks one of a request's questions.
LEMMA QuestionsAreAsked ==
    ASSUME NEW r \in RequestType, Decide(r).ask
    PROVE  Decide(r).fact \in Questions
<1> DEFINE Fine(d) == d.ask => d.fact \in Questions
<1>1. /\ Gate \in Questions /\ Public \in Questions /\ Moderator(r.user) \in Questions /\ Access(r.user) \in Questions
      /\ Subscribe(r.user) \in Questions /\ Delete(r.user) \in Questions /\ Valid(r.user) \in Questions
    BY FactsDiffer DEF RequestType, Questions
<1>2. \A f \in Questions : Fine(Ask(f)) /\ Fine(AnyOf(r, <<f>>))
    <2> SUFFICES ASSUME NEW f \in Questions PROVE Fine(Ask(f)) /\ Fine(AnyOf(r, <<f>>))
        OBVIOUS
    <2>1. AnyOf(r, <<f>>) = IF Knows(r, f) THEN Done(r.facts[f]) ELSE Ask(f)
        BY AnyOfOne
    <2>2. QED
        BY <2>1, Decisions
<1>3. \A f, g \in Questions : Fine(AnyOf(r, <<f, g>>))
    <2> SUFFICES ASSUME NEW f \in Questions, NEW g \in Questions PROVE Fine(AnyOf(r, <<f, g>>))
        OBVIOUS
    <2>1. PICK q \in {f, g} : AnyOf(r, <<f, g>>) = IF Knows(r, q) THEN Done(r.facts[q]) ELSE Ask(q)
        BY AnyOfTwo
    <2>2. QED
        BY <2>1, Decisions
<1>4. \A v : Fine(Done(v))
    BY Decisions
<1>5. \A d, yes, no, error : Fine(d) => Fine(Then(d, yes, no, error))
    BY Decisions
<1>6. Fine(GateRule(r))
    BY <1>1, <1>3, <1>4 DEF GateRule
<1> HIDE DEF Fine
<1>7. Fine(DecideRead(r))
    BY <1>1, <1>2, <1>4, <1>5, <1>6 DEF DecideRead
<1>8. Fine(DecideStored(r))
    BY <1>1, <1>2, <1>3, <1>4, <1>5, <1>6 DEF DecideStored
<1>9. Fine(DecidePurge(r))
    BY <1>1, <1>2, <1>4, <1>5 DEF DecidePurge
<1>10. Fine(DecideIngest(r))
    BY <1>1, <1>2, <1>4, <1>5 DEF DecideIngest
<1>11. r.kind \in {"read", "stored", "purge", "ingest"}
    BY PomboGatesAssumption DEF RequestType
<1>12. QED
    BY <1>7, <1>8, <1>9, <1>10, <1>11 DEF Decide, Fine

\* What a purge may delete once it has decided: any row, or its own, follows from sound answers.
LEMMA PurgeVerdict ==
    ASSUME NEW r \in RequestType, NEW held, NEW now, Sound(r, held, now),
           \A f \in Facts : \A v \in ValuesOf(f) : held[f][v] \in Nat,
           r.kind = "purge", ~Decide(r).ask, NEW u,
           \/ Decide(r).verdict = "any"
           \/ Decide(r).verdict = "own" /\ u = r.user
    PROVE  Entitled(r, held, u)
<1> DEFINE d == Decide(r)
           gate == r.facts[Gate]
<1>1. d = DecidePurge(r)
    BY DEF Decide
<1>2. r.since \in Nat /\ r.user \in Accounts /\ CACHE_TTL \in Nat
    BY PomboGatesAssumption DEF RequestType
<1>3. Knows(r, Delete(r.user)) /\ Knows(r, Gate)
    BY <1>1, Decisions DEF DecidePurge
<1>4. ASSUME NEW f \in Facts, Knows(r, f), r.facts[f] # "error"
      PROVE  SaidLately(r, held, f, r.facts[f])
    <2>1. r.facts[f] \in ValuesOf(f) /\ held[f][r.facts[f]] + TtlOf(f, r.facts[f]) >= r.since
        BY <1>4 DEF Sound, Knows
    <2>2. TtlOf(f, r.facts[f]) \in Nat /\ TtlOf(f, r.facts[f]) <= CACHE_TTL
        BY ValuesAreAnswers
    <2>3. QED
        BY <1>2, <2>1, <2>2 DEF SaidLately
<1>5. CASE r.facts[Delete(r.user)] = "yes"
    BY <1>3, <1>5 DEF Sound, Knows, Entitled
<1>6. CASE r.facts[Delete(r.user)] # "yes"
    <2>1. gate \notin {"missing", "error"}
        BY <1>1, <1>3, <1>6, Decisions DEF DecidePurge
    <2>2. SaidLately(r, held, Gate, gate) /\ gate \in {"null", "visible", "sealed"}
        <3>1. SaidLately(r, held, Gate, gate)
            BY <1>3, <1>4, <2>1, FactsDiffer
        <3>2. gate \in GateKinds
            BY <3>1 DEF SaidLately, ValuesOf
        <3>3. QED
            BY <2>1, <3>1, <3>2, PomboGatesAssumption
    <2>3. CASE gate = "null"
        BY <1>1, <1>3, <1>6, <2>2, <2>3, Decisions DEF DecidePurge, Entitled
    <2>4. CASE gate # "null" /\ r.user = GateOwner
        BY <2>2, <2>4 DEF Entitled
    <2>5. CASE gate # "null" /\ r.user # GateOwner
        <3> DEFINE own == IF gate = "visible" THEN "own" ELSE "none"
                   mod == Moderator(r.user)
        <3>1. d = Then(AnyOf(r, <<mod>>), "any", own, "none")
            BY <1>1, <1>3, <1>6, <2>1, <2>5 DEF DecidePurge
        <3>2. Knows(r, mod) /\ AnyOf(r, <<mod>>) = Done(r.facts[mod])
            BY <3>1, AnyOfOne, Decisions
        <3>3. d = Done(CASE r.facts[mod] = "yes" -> "any" [] r.facts[mod] = "no" -> own [] OTHER -> "none")
            BY <3>1, <3>2, Decisions DEF Then
        <3>4. CASE r.facts[mod] = "yes"
            <4>1. SaidLately(r, held, mod, "yes")
                BY <1>2, <1>4, <3>2, <3>4, FactsDiffer
            <4>2. QED
                BY <2>2, <2>5, <4>1 DEF Entitled
        <3>5. CASE r.facts[mod] # "yes"
            <4>1. d.verdict = own \/ d.verdict = "none"
                BY <3>3, <3>5, Decisions
            <4>2. gate = "visible" /\ u = r.user
                BY <4>1
            <4>3. QED
                BY <2>2, <4>2 DEF Entitled
        <3>6. QED
            BY <3>4, <3>5
    <2>6. QED
        BY <2>3, <2>4, <2>5
<1>7. QED
    BY <1>5, <1>6

\* With no request and no answer the invariant holds.
LEMMA GateInitially == PgInit => GateInv
<1> SUFFICES ASSUME PgInit PROVE GateInv
    OBVIOUS
<1>1. /\ StartTime \in Nat /\ StartTime = CACHE_TTL + 1 /\ StartTime <= LastGateTime /\ LastGateTime \in Nat
      /\ pgNow = StartTime
    BY PomboGatesAssumption DEF StartTime, PgInit
<1>2. DOMAIN chain = Facts /\ \A f \in Facts : chain[f] \in ValuesOf(f)
    BY DEF PgInit
<1>3. DOMAIN lastHeld = Facts /\ \A f \in Facts : lastHeld[f] \in [ValuesOf(f) -> 0 .. pgNow]
    BY <1>1 DEF PgInit
<1>4. DOMAIN caches = {}
    BY DEF PgInit, EmptyTtlMap
<1>5. \A s \in Slots : requests[s] = Free /\ ~InProgress(s)
    BY DEF PgInit, InProgress, Free
<1>6. requests \in [Slots -> RequestType \cup {Free}]
    BY DEF PgInit
<1>7. SaveIsPending /\ saveTimeout = NoTimer /\ knownPublic \in BOOLEAN /\ file \in BOOLEAN /\ saveFailed \in BOOLEAN
    BY Zenon DEF PgInit, SaveIsPending
<1>8. PgTypeOK
    BY <1>1, <1>2, <1>4, <1>7 DEF PgTypeOK, PgInit
<1>9. QED
    BY <1>2, <1>3, <1>4, <1>5, <1>6, <1>7, <1>8 DEF GateInv, GateTypes, CacheIsFresh, RequestsAreSound

\* A request in progress has the type of one, and every other slot is free.
LEMMA ProgressType ==
    ASSUME GateTypes, NEW s \in Slots
    PROVE  IF InProgress(s) THEN requests[s] \in RequestType ELSE requests[s] = Free
BY DEF GateTypes, InProgress, Free, RequestType

\* The parts of the state that steps of the requests leave alone stay as they should be.
LEMMA TypesOfTheRest ==
    ASSUME GateTypes, UNCHANGED <<pgNow, chain, lastHeld>>,
           rows' \subseteq Accounts, requests' \in [Slots -> RequestType \cup {Free}],
           knownPublic' \in BOOLEAN, file' \in BOOLEAN, saveFailed' \in BOOLEAN,
           saveTimeout' = NoTimer \/ saveTimeout' \in pgNow .. pgNow + SAVE_DELAY_MS,
           DOMAIN caches' \subseteq Facts,
           \A f \in DOMAIN caches' : caches'[f] \in [value : ValuesOf(f), expires : Nat] /\ caches'[f].value # "missing"
    PROVE  GateTypes'
<1>1. PgTypeOK'
    BY DEF GateTypes, PgTypeOK, ValuesOf, StartTime
<1>2. \A f \in Facts : ValuesOf(f)' = ValuesOf(f)
    BY DEF ValuesOf
<1>3. QED
    BY <1>1, <1>2 DEF GateTypes, RequestType, Free

\* A step of one request that leaves it done or sound.
LEMMA OneRequestSteps ==
    ASSUME GateInv, NEW s \in Slots, NEW r \in RequestType \cup {Free},
           UNCHANGED <<pgNow, lastHeld>>, requests' = [requests EXCEPT ![s] = r],
           r # Free => Sound(r, lastHeld, pgNow)
    PROVE  RequestsAreSound' /\ requests' \in [Slots -> RequestType \cup {Free}]
<1>1. requests' \in [Slots -> RequestType \cup {Free}]
    BY DEF GateInv, GateTypes
<1>2. ASSUME NEW t \in Slots, requests'[t].wait # "free" PROVE Sound(requests'[t], lastHeld', pgNow')
    <2>1. CASE t = s
        BY <1>2, <2>1 DEF GateInv, GateTypes, Free
    <2>2. CASE t # s
        BY <1>2, <2>2 DEF GateInv, GateTypes, RequestsAreSound, InProgress
    <2>3. QED
        BY <2>1, <2>2
<1>3. QED
    BY <1>1, <1>2 DEF RequestsAreSound, InProgress

\* What the caches should be after a step.
CachesAreRight ==
    /\ DOMAIN caches \subseteq Facts
    /\ \A f \in DOMAIN caches : caches[f] \in [value : ValuesOf(f), expires : Nat] /\ caches[f].value # "missing"
    /\ CacheIsFresh

\* An answer of this instant may be cached.
LEMMA FreshIsCached ==
    ASSUME GateInv, UNCHANGED <<pgNow, lastHeld>>, NEW f \in Facts, NEW v \in ValuesOf(f), v # "missing",
           lastHeld[f][v] = pgNow, Cache(f, v)
    PROVE  CachesAreRight'
<1> DEFINE new == [value |-> v, expires |-> pgNow + TtlOf(f, v)]
<1>1. pgNow \in Nat /\ TtlOf(f, v) \in Nat
    BY ValuesAreAnswers, PomboGatesAssumption DEF GateInv, GateTypes, PgTypeOK, StartTime
<1>2. /\ DOMAIN caches' = DOMAIN caches \cup {f} /\ caches'[f] = new
      /\ \A g \in DOMAIN caches : g # f => caches'[g] = caches[g]
    BY DEF Cache, TtlSet
<1>3. new \in [value : ValuesOf(f), expires : Nat] /\ new.value = v /\ new.expires = pgNow + TtlOf(f, v)
    BY <1>1
<1> HIDE DEF new
<1>4. DOMAIN caches' \subseteq Facts
    BY <1>2 DEF GateInv, GateTypes, PgTypeOK
<1>5. ASSUME NEW g \in DOMAIN caches'
      PROVE  /\ caches'[g] \in [value : ValuesOf(g), expires : Nat] /\ caches'[g].value # "missing"
             /\ pgNow <= caches'[g].expires
             /\ caches'[g].expires <= lastHeld[g][caches'[g].value] + TtlOf(g, caches'[g].value)
    <2>1. CASE g = f
        BY <1>1, <1>2, <1>3, <2>1
    <2>2. CASE g # f
        BY <1>2, <1>5, <2>2 DEF GateInv, GateTypes, PgTypeOK, CacheIsFresh
    <2>3. QED
        BY <2>1, <2>2
<1>6. QED
    BY <1>4, <1>5 DEF CachesAreRight, CacheIsFresh, ValuesOf, TtlOf

\* Caches that are left alone, lose an entry or are emptied stay right.
LEMMA CachesStayRight ==
    ASSUME GateInv, UNCHANGED <<pgNow, lastHeld>>,
           \/ UNCHANGED caches
           \/ \E f : caches' = TtlDelete(caches, f)
           \/ caches' = EmptyTtlMap
    PROVE  CachesAreRight'
<1>1. DOMAIN caches' \subseteq DOMAIN caches /\ \A f \in DOMAIN caches' : caches'[f] = caches[f]
    BY DEF TtlDelete, EmptyTtlMap
<1>2. QED
    BY <1>1 DEF GateInv, GateTypes, PgTypeOK, CachesAreRight, CacheIsFresh, ValuesOf, TtlOf

\* A step that moves neither the clock nor the chain keeps the invariant if it keeps these parts.
LEMMA PartsSuffice ==
    ASSUME GateInv, UNCHANGED <<pgNow, chain, lastHeld>>,
           rows' \subseteq Accounts, requests' \in [Slots -> RequestType \cup {Free}], RequestsAreSound',
           CachesAreRight',
           knownPublic' \in BOOLEAN, file' \in BOOLEAN, saveFailed' \in BOOLEAN, SaveIsPending',
           saveTimeout' = NoTimer \/ saveTimeout' \in pgNow .. pgNow + SAVE_DELAY_MS
    PROVE  GateInv'
<1>1. GateTypes'
    BY TypesOfTheRest DEF GateInv, CachesAreRight, ValuesOf
<1>2. QED
    BY <1>1 DEF GateInv, CachesAreRight

\* A list that changes is saved later.
LEMMA PublicIsSaved ==
    ASSUME GateInv, UNCHANGED <<pgNow, file, saveFailed>>,
           KnownPublicSame \/ \E isPublic \in BOOLEAN : KnownPublicSet(isPublic)
    PROVE  /\ knownPublic' \in BOOLEAN /\ file' \in BOOLEAN /\ saveFailed' \in BOOLEAN /\ SaveIsPending'
           /\ saveTimeout' = NoTimer \/ saveTimeout' \in pgNow .. pgNow + SAVE_DELAY_MS
<1>1. /\ knownPublic \in BOOLEAN /\ file \in BOOLEAN /\ saveFailed \in BOOLEAN /\ SaveIsPending
      /\ saveTimeout = NoTimer \/ saveTimeout \in pgNow .. pgNow + SAVE_DELAY_MS
    BY DEF GateInv, GateTypes, PgTypeOK
<1>2. pgNow \in Nat /\ pgNow + SAVE_DELAY_MS \in pgNow .. pgNow + SAVE_DELAY_MS /\ pgNow + SAVE_DELAY_MS # 0
    BY PomboGatesAssumption DEF GateInv, GateTypes, PgTypeOK, StartTime
<1>3. CASE KnownPublicSame
    BY <1>1, <1>3 DEF KnownPublicSame, SaveIsPending
<1>4. ASSUME NEW isPublic \in BOOLEAN, KnownPublicSet(isPublic)
      PROVE  /\ knownPublic' \in BOOLEAN /\ SaveIsPending'
             /\ saveTimeout' = NoTimer \/ saveTimeout' \in pgNow .. pgNow + SAVE_DELAY_MS
    <2>1. knownPublic' = isPublic
        BY <1>4 DEF KnownPublicSet
    <2>2. CASE isPublic # knownPublic /\ saveTimeout = NoTimer
        <3>1. saveTimeout' = pgNow + SAVE_DELAY_MS
            BY <1>4, <2>2 DEF KnownPublicSet
        <3>2. saveTimeout' # NoTimer
            BY <1>2, <3>1 DEF NoTimer
        <3>3. QED
            BY <1>2, <2>1, <3>1, <3>2 DEF SaveIsPending
    <2>3. CASE ~(isPublic # knownPublic /\ saveTimeout = NoTimer)
        <3>1. saveTimeout' = saveTimeout
            BY <1>4, <2>3 DEF KnownPublicSet
        <3>2. SaveIsPending'
            BY <1>1, <2>1, <2>3, <3>1 DEF SaveIsPending
        <3>3. QED
            BY <1>1, <2>1, <3>1, <3>2
    <2>4. QED
        BY <2>2, <2>3
<1>5. QED
    BY <1>1, <1>3, <1>4

\* The clock moves on only when no cached answer is due and no handler is between two awaits.
LEMMA TickKeepsFresh == GateInv /\ GateTick => GateInv'
<1> SUFFICES ASSUME GateInv, GateTick PROVE GateInv'
    OBVIOUS
<1>1. /\ pgNow \in Nat /\ pgNow' = pgNow + 1 /\ pgNow' \in StartTime .. LastGateTime
      /\ UNCHANGED <<chain, caches, knownPublic, file, saveTimeout, saveFailed, requests, rows>>
    BY PomboGatesAssumption DEF GateTick, GateInv, GateTypes, PgTypeOK, StartTime
<1>2. /\ DOMAIN lastHeld' = Facts
      /\ \A f \in Facts : \A v \in ValuesOf(f) :
            lastHeld'[f][v] = IF v = chain[f] THEN pgNow + 1 ELSE lastHeld[f][v]
      /\ \A f \in Facts : lastHeld'[f] \in [ValuesOf(f) -> 0 .. pgNow + 1]
    <2>1. /\ DOMAIN lastHeld' = Facts
          /\ \A f \in Facts : lastHeld'[f] = [lastHeld[f] EXCEPT ![chain[f]] = pgNow + 1]
        BY DEF GateTick
    <2>2. \A f \in Facts : lastHeld[f] \in [ValuesOf(f) -> 0 .. pgNow] /\ chain[f] \in ValuesOf(f)
        BY DEF GateInv, GateTypes, PgTypeOK
    <2>3. 0 .. pgNow \subseteq 0 .. pgNow + 1 /\ pgNow + 1 \in 0 .. pgNow + 1
        BY <1>1
    <2>4. QED
        BY <2>1, <2>2, <2>3
<1>3. \A f \in Facts : \A v \in ValuesOf(f) :
        lastHeld[f][v] \in Nat /\ lastHeld'[f][v] \in Nat /\ lastHeld[f][v] <= lastHeld'[f][v] /\ lastHeld'[f][v] <= pgNow'
    BY <1>1, <1>2 DEF GateInv, GateTypes
<1>4. PgTypeOK'
    <2>1. saveTimeout = NoTimer \/ saveTimeout \in pgNow' .. pgNow' + SAVE_DELAY_MS
        <3>1. saveTimeout # pgNow /\ (saveTimeout = NoTimer \/ saveTimeout \in pgNow .. pgNow + SAVE_DELAY_MS)
            BY DEF GateTick, GateInv, GateTypes, PgTypeOK
        <3>2. QED
            BY <1>1, <3>1, PomboGatesAssumption
    <2>2. QED
        BY <1>1, <2>1 DEF GateInv, GateTypes, PgTypeOK, ValuesOf, StartTime
<1>5. GateTypes'
    BY <1>1, <1>2, <1>4 DEF GateInv, GateTypes, ValuesOf
<1>6. ASSUME NEW f \in DOMAIN caches
      PROVE  pgNow' <= caches[f].expires /\ caches[f].expires <= lastHeld'[f][caches[f].value] + TtlOf(f, caches[f].value)
    <2>1. f \in Facts /\ caches[f].value \in ValuesOf(f) /\ caches[f].expires \in Nat
        BY <1>6 DEF GateInv, GateTypes, PgTypeOK
    <2>2. TtlOf(f, caches[f].value) \in Nat
        BY <2>1, ValuesAreAnswers
    <2>3. ~(caches[f].expires <= pgNow)
        BY <1>6 DEF GateTick, TtlDue
    <2>4. QED
        BY <1>1, <1>3, <1>6, <2>1, <2>2, <2>3 DEF GateInv, CacheIsFresh
<1>7. CacheIsFresh'
    BY <1>1, <1>6 DEF CacheIsFresh, TtlOf
<1>8. ASSUME NEW s \in Slots, InProgress(s) PROVE Sound(requests[s], lastHeld', pgNow')
    <2>1. requests[s] \in RequestType /\ Sound(requests[s], lastHeld, pgNow)
        BY <1>8, ProgressType DEF GateInv, RequestsAreSound
    <2>2. requests[s].wait # "info"
        BY DEF GateTick
    <2>3. pgNow' \in Nat /\ pgNow <= pgNow'
        BY <1>1
    <2>4. QED
        BY <1>1, <1>3, <2>1, <2>2, <2>3, SoundGrows
<1>9. RequestsAreSound' /\ SaveIsPending'
    BY <1>1, <1>8 DEF RequestsAreSound, InProgress, SaveIsPending, GateInv
<1>10. QED
    BY <1>5, <1>7, <1>9 DEF GateInv

\* A change on chain: what it said before held until now, what it says now holds now.
LEMMA ChangeKeepsFresh == GateInv /\ ChainChanges => GateInv'
<1> SUFFICES ASSUME GateInv, ChainChanges PROVE GateInv'
    OBVIOUS
<1>1. pgNow \in Nat /\ UNCHANGED <<pgNow, caches, knownPublic, file, saveTimeout, saveFailed, requests, rows>>
    BY PomboGatesAssumption DEF ChainChanges, GateInv, GateTypes, PgTypeOK, StartTime
<1>2. PICK f \in Facts : \E v \in ValuesOf(f) :
          /\ chain' = [chain EXCEPT ![f] = v]
          /\ lastHeld' = [lastHeld EXCEPT ![f][chain[f]] = pgNow, ![f][v] = pgNow]
    BY DEF ChainChanges
<1>3. PICK v \in ValuesOf(f) : /\ chain' = [chain EXCEPT ![f] = v]
                               /\ lastHeld' = [lastHeld EXCEPT ![f][chain[f]] = pgNow, ![f][v] = pgNow]
    BY <1>2
<1>4. chain[f] \in ValuesOf(f) /\ lastHeld[f] \in [ValuesOf(f) -> 0 .. pgNow] /\ DOMAIN lastHeld = Facts
    BY DEF GateInv, GateTypes, PgTypeOK
<1> DEFINE of == [lastHeld[f] EXCEPT ![chain[f]] = pgNow, ![v] = pgNow]
<1>5. lastHeld' = [lastHeld EXCEPT ![f] = of]
    BY <1>3, <1>4
<1>6. /\ of \in [ValuesOf(f) -> 0 .. pgNow]
      /\ \A w \in ValuesOf(f) : of[w] = pgNow \/ of[w] = lastHeld[f][w]
    BY <1>1, <1>4
<1> HIDE DEF of
<1>7. DOMAIN lastHeld' = Facts /\ \A g \in Facts : lastHeld'[g] \in [ValuesOf(g) -> 0 .. pgNow]
    BY <1>4, <1>5, <1>6 DEF GateInv, GateTypes
<1>8. \A g \in Facts : \A w \in ValuesOf(g) :
        lastHeld[g][w] \in Nat /\ lastHeld'[g][w] \in Nat /\ lastHeld[g][w] <= lastHeld'[g][w] /\ lastHeld'[g][w] <= pgNow'
    <2> SUFFICES ASSUME NEW g \in Facts, NEW w \in ValuesOf(g)
                 PROVE  /\ lastHeld[g][w] \in Nat /\ lastHeld'[g][w] \in Nat
                        /\ lastHeld[g][w] <= lastHeld'[g][w] /\ lastHeld'[g][w] <= pgNow'
        OBVIOUS
    <2>1. lastHeld[g][w] \in 0 .. pgNow /\ lastHeld'[g][w] \in 0 .. pgNow
        BY <1>7 DEF GateInv, GateTypes
    <2>2. lastHeld'[g][w] = pgNow \/ lastHeld'[g][w] = lastHeld[g][w]
        BY <1>4, <1>5, <1>6
    <2>3. QED
        BY <1>1, <2>1, <2>2
<1>9. DOMAIN chain' = Facts /\ \A g \in Facts : chain'[g] \in ValuesOf(g)
    BY <1>3 DEF GateInv, GateTypes, PgTypeOK
<1>10. PgTypeOK'
    BY <1>1, <1>9 DEF GateInv, GateTypes, PgTypeOK, ValuesOf, StartTime
<1>11. GateTypes'
    BY <1>1, <1>7, <1>9, <1>10 DEF GateInv, GateTypes, ValuesOf
<1>12. ASSUME NEW g \in DOMAIN caches
       PROVE  pgNow' <= caches[g].expires /\ caches[g].expires <= lastHeld'[g][caches[g].value] + TtlOf(g, caches[g].value)
    <2>1. g \in Facts /\ caches[g].value \in ValuesOf(g) /\ caches[g].expires \in Nat
        BY <1>12 DEF GateInv, GateTypes, PgTypeOK
    <2>2. TtlOf(g, caches[g].value) \in Nat
        BY <2>1, ValuesAreAnswers
    <2>3. QED
        BY <1>1, <1>8, <1>12, <2>1, <2>2 DEF GateInv, CacheIsFresh
<1>13. CacheIsFresh'
    BY <1>1, <1>12 DEF CacheIsFresh, TtlOf
<1>14. ASSUME NEW s \in Slots, InProgress(s) PROVE Sound(requests[s], lastHeld', pgNow')
    <2>1. requests[s] \in RequestType /\ Sound(requests[s], lastHeld, pgNow)
        BY <1>14, ProgressType DEF GateInv, RequestsAreSound
    <2>2. QED
        BY <1>1, <1>8, <2>1, SoundGrows
<1>15. RequestsAreSound' /\ SaveIsPending'
    BY <1>1, <1>14 DEF RequestsAreSound, InProgress, SaveIsPending, GateInv
<1>16. QED
    BY <1>11, <1>13, <1>15 DEF GateInv

\* A handler that runs on learns what is cached, asks, or is done; a purge that goes on to delete
\* has decided that it may.
LEMMA ContinueKeepsFresh == ASSUME GateInv, NEW s \in Slots, Continue(s) PROVE GateInv'
<1> DEFINE r == requests[s]
           d == Decide(r)
<1>1. r.wait = "none" /\ UNCHANGED <<pgNow, chain, lastHeld, caches, knownPublic, file, saveTimeout, saveFailed, pgUsed>>
    BY DEF Continue
<1>2. r \in RequestType /\ Sound(r, lastHeld, pgNow)
      /\ r.since \in Nat /\ pgNow \in Nat
    BY <1>1, ProgressType, PomboGatesAssumption
       DEF GateInv, RequestsAreSound, InProgress, RequestType, GateTypes, PgTypeOK, StartTime
<1>3. CachesAreRight' /\ rows \subseteq Accounts
    BY <1>1, CachesStayRight DEF GateInv, GateTypes, PgTypeOK
<1>4. PICK new \in RequestType \cup {Free} :
        /\ requests' = [requests EXCEPT ![s] = new]
        /\ new # Free => Sound(new, lastHeld, pgNow)
        /\ rows' \subseteq Accounts
    <2>1. CASE d.ask /\ d.fact \in DOMAIN caches
               /\ requests' = [requests EXCEPT ![s] = Learn(r, d.fact, caches[d.fact].value)]
               /\ UNCHANGED rows
        <3> DEFINE f == d.fact
                   v == caches[d.fact].value
        <3>1. f \in Facts /\ v \in ValuesOf(f) /\ caches[f].expires \in Nat /\ lastHeld[f][v] \in Nat
            BY <2>1 DEF GateInv, GateTypes, PgTypeOK
        <3>2. f \in Questions /\ v \in Answers /\ TtlOf(f, v) \in Nat
            BY <3>1, ValuesAreAnswers DEF Questions
        <3>3. lastHeld[f][v] + TtlOf(f, v) >= r.since
            BY <1>2, <2>1, <3>1, <3>2 DEF GateInv, CacheIsFresh, Sound
        <3>4. f # Delete(r.user)
            BY <3>1, FactsDiffer
        <3> HIDE DEF f, v
        <3>5. Learn(r, f, v) \in RequestType /\ Sound(Learn(r, f, v), lastHeld, pgNow)
            BY <1>2, <3>1, <3>2, <3>3, <3>4, LearnFields, LearnIsSound
        <3>6. QED
            BY <1>3, <2>1, <3>5 DEF f, v
    <2>2. CASE d.ask /\ requests' = [requests EXCEPT ![s].wait = "asked", ![s].fact = d.fact] /\ UNCHANGED rows
        <3>1. d.fact \in Questions
            BY <1>2, <2>2, QuestionsAreAsked
        <3> DEFINE q == d.fact
                   new == [r EXCEPT !.wait = "asked", !.fact = q]
        <3>2. requests' = [requests EXCEPT ![s] = new]
            BY <1>2, <2>2 DEF GateInv, GateTypes
        <3> HIDE DEF q
        <3>3. new \in RequestType
            BY <1>2, <3>1 DEF RequestType, q
        <3>4. /\ new.wait = "asked" /\ new.since = r.since /\ new.facts = r.facts /\ new.user = r.user
            BY <1>2 DEF RequestType
        <3> HIDE DEF new
        <3>5. Sound(new, lastHeld, pgNow)
            BY <1>2, <3>4 DEF Sound
        <3>6. QED
            BY <1>3, <2>2, <3>2, <3>3, <3>5
    <2>3. CASE requests' = [requests EXCEPT ![s] = Free] /\ rows' \subseteq rows \cup {r.user}
        BY <1>2, <1>3, <2>3 DEF RequestType
    <2>4. CASE /\ ~d.ask /\ r.kind = "purge" /\ UNCHANGED rows
               /\ d.verdict = "any" \/ (d.verdict = "own" /\ rows \subseteq {r.user})
               /\ requests' = [requests EXCEPT ![s] = [r EXCEPT !.wait = "deleting", !.found = rows]]
        <3> DEFINE new == [r EXCEPT !.wait = "deleting", !.found = rows]
        <3>1. new \in RequestType
            BY <1>2, <1>3 DEF RequestType
        <3>2. /\ new.wait = "deleting" /\ new.found = rows /\ new.since = r.since /\ new.facts = r.facts /\ new.user = r.user
              /\ new.kind = r.kind
            BY <1>2 DEF RequestType
        <3>3. \A f \in Facts : \A v \in ValuesOf(f) : lastHeld[f][v] \in Nat
            BY DEF GateInv, GateTypes
        <3>4. ASSUME NEW u \in rows PROVE Entitled(new, lastHeld, u)
            <4>1. Entitled(r, lastHeld, u)
                BY <1>2, <2>4, <3>3, <3>4, PurgeVerdict
            <4>2. QED
                BY <3>2, <4>1 DEF Entitled, SaidLately
        <3>5. requests' = [requests EXCEPT ![s] = new]
            BY <2>4
        <3> HIDE DEF new
        <3>6. Sound(new, lastHeld, pgNow)
            BY <1>2, <2>4, <3>2, <3>4 DEF Sound
        <3>7. QED
            BY <1>3, <2>4, <3>1, <3>5, <3>6
    <2>5. QED
        BY <2>1, <2>2, <2>3, <2>4 DEF Continue
<1>5. RequestsAreSound' /\ requests' \in [Slots -> RequestType \cup {Free}]
    BY <1>1, <1>4, OneRequestSteps
<1>6. QED
    BY <1>1, <1>3, <1>4, <1>5, PartsSuffice DEF GateInv, GateTypes, PgTypeOK, SaveIsPending

\* An answer of the chain was given in this instant: it may be used and cached.
LEMMA AnswerKeepsFresh == ASSUME GateInv, NEW s \in Slots, ChainAnswers(s) PROVE GateInv'
<1> DEFINE r == requests[s]
           f == r.fact
<1>1. r.wait = "asked" /\ UNCHANGED <<pgNow, chain, lastHeld, file, saveFailed, rows, pgUsed>>
    BY DEF ChainAnswers
<1>2. r \in RequestType /\ Sound(r, lastHeld, pgNow) /\ r.since \in Nat /\ pgNow \in Nat /\ r.since <= pgNow /\ f \in Questions
    BY <1>1, ProgressType, PomboGatesAssumption
       DEF GateInv, RequestsAreSound, InProgress, RequestType, GateTypes, PgTypeOK, StartTime, Sound
<1>3. PICK v \in AnswersTo(f) :
          \/ /\ f \in {Delete(r.user), Valid(r.user)}
             /\ requests' = [requests EXCEPT ![s] = Learn(r, f, v)]
             /\ KnownPublicSame /\ UNCHANGED caches
          \/ /\ f = Gate /\ v = "missing"
             /\ requests' = [requests EXCEPT ![s] = Learn(r, f, v)]
             /\ KnownPublicSet(FALSE) /\ UNCHANGED caches
          \/ /\ f = Gate /\ v = "null"
             /\ requests' = [requests EXCEPT ![s] = Learn(r, f, v)]
             /\ KnownPublicSame /\ Cache(f, v)
          \/ /\ f = Gate /\ v \in Gated
             /\ requests' = [requests EXCEPT ![s].wait = "info", ![s].answer = v]
             /\ KnownPublicSet(FALSE) /\ UNCHANGED caches
          \/ /\ f = Public
             /\ requests' = [requests EXCEPT ![s] = Learn(r, f, v)]
             /\ KnownPublicSet(v = "yes") /\ Cache(f, v)
          \/ /\ f \in UserFacts
             /\ requests' = [requests EXCEPT ![s] = Learn(r, f, v)]
             /\ KnownPublicSame /\ Cache(f, v)
    BY DEF ChainAnswers
<1>4. /\ f \in Facts => v \in ValuesOf(f) /\ lastHeld[f][v] = pgNow
      /\ f = Delete(r.user) => (v = "yes" => r.user \in StreamAdmins) /\ v \in {"yes", "no"}
      /\ f = Valid(r.user) => v \in {"yes", "no"}
    <2>1. CASE f \in Facts
        BY <2>1, FactsDiffer DEF AnswersTo
    <2>2. CASE f = Delete(r.user)
        <3>1. f \notin Facts /\ f[1] = "delete" /\ f[2] = r.user /\ f # Valid(r.user)
            BY <2>2, FactsDiffer DEF Delete
        <3>2. QED
            BY <3>1 DEF AnswersTo
    <2>3. CASE f = Valid(r.user)
        <3>1. f \notin Facts /\ f[1] # "delete" /\ f # Delete(r.user)
            BY <2>3, FactsDiffer
        <3>2. QED
            BY <3>1 DEF AnswersTo
    <2>4. QED
        BY <2>1, <2>2, <2>3
<1>5. Gate \in Facts /\ Public \in Facts /\ UserFacts \subseteq Facts
      /\ \A g \in UserFacts \cup {Public} : g # Gate /\ ValuesOf(g) = {"yes", "no"}
    <2>1. \A g \in UserFacts \cup {Public} : g # Gate
        BY FactsDiffer
    <2>2. QED
        BY <2>1, FactsDiffer DEF ValuesOf, Facts
<1>6. (f \in Facts \/ f \in {Delete(r.user), Valid(r.user)}) /\ v \in Answers
    <2>1. f \in Facts => ValuesOf(f) \subseteq Answers
        BY ValuesAreAnswers
    <2>2. QED
        BY <1>3, <1>4, <1>5, <2>1 DEF Answers
<1>7. CASE requests' = [requests EXCEPT ![s] = Learn(r, f, v)]
    <2>1. (f \in Facts /\ v # "error") => (v \in ValuesOf(f) /\ lastHeld[f][v] + TtlOf(f, v) >= r.since)
        <3>1. f \in Facts => TtlOf(f, v) \in Nat
            BY ValuesAreAnswers
        <3>2. QED
            BY <1>2, <1>4, <3>1
    <2>2. Learn(r, f, v) \in RequestType /\ Sound(Learn(r, f, v), lastHeld, pgNow)
        BY <1>2, <1>4, <1>6, <2>1, LearnFields, LearnIsSound
    <2>3. RequestsAreSound' /\ requests' \in [Slots -> RequestType \cup {Free}]
        BY <1>1, <1>7, <2>2, OneRequestSteps
    <2>4. CachesAreRight'
        <3>1. CASE UNCHANGED caches
            BY <1>1, <3>1, CachesStayRight
        <3>2. CASE Cache(f, v) /\ f \in Facts /\ v # "missing"
            BY <1>1, <1>4, <3>2, FreshIsCached
        <3>3. QED
            BY <1>3, <1>4, <1>5, <1>7, <3>1, <3>2
    <2>5. KnownPublicSame \/ \E isPublic \in BOOLEAN : KnownPublicSet(isPublic)
        BY <1>3
    <2>6. /\ knownPublic' \in BOOLEAN /\ file' \in BOOLEAN /\ saveFailed' \in BOOLEAN /\ SaveIsPending'
          /\ saveTimeout' = NoTimer \/ saveTimeout' \in pgNow .. pgNow + SAVE_DELAY_MS
        BY <1>1, <2>5, PublicIsSaved
    <2>7. QED
        BY <1>1, <2>3, <2>4, <2>6, PartsSuffice DEF GateInv, GateTypes, PgTypeOK
<1>8. CASE /\ f = Gate /\ v \in Gated
           /\ requests' = [requests EXCEPT ![s].wait = "info", ![s].answer = v]
           /\ KnownPublicSet(FALSE) /\ UNCHANGED caches
    <2> DEFINE new == [r EXCEPT !.wait = "info", !.answer = v]
    <2>1. requests' = [requests EXCEPT ![s] = new]
        BY <1>2, <1>8 DEF GateInv, GateTypes
    <2>2. new \in RequestType
        BY <1>2, <1>6 DEF RequestType
    <2>3. /\ new.wait = "info" /\ new.answer = v /\ new.since = r.since /\ new.facts = r.facts /\ new.user = r.user
          /\ new.fact = Gate
        BY <1>2, <1>8 DEF RequestType
    <2>4. v \in GateKinds /\ lastHeld[Gate][v] = pgNow
        BY <1>4, <1>5, <1>8 DEF ValuesOf
    <2> HIDE DEF new
    <2>5. Sound(new, lastHeld, pgNow)
        BY <1>2, <1>8, <2>3, <2>4 DEF Sound
    <2>6. RequestsAreSound' /\ requests' \in [Slots -> RequestType \cup {Free}]
        BY <1>1, <2>1, <2>2, <2>5, OneRequestSteps
    <2>7. CachesAreRight'
        BY <1>1, <1>8, CachesStayRight
    <2>8. /\ knownPublic' \in BOOLEAN /\ file' \in BOOLEAN /\ saveFailed' \in BOOLEAN /\ SaveIsPending'
          /\ saveTimeout' = NoTimer \/ saveTimeout' \in pgNow .. pgNow + SAVE_DELAY_MS
        BY <1>1, <1>8, PublicIsSaved
    <2>9. QED
        BY <1>1, <2>6, <2>7, <2>8, PartsSuffice DEF GateInv, GateTypes, PgTypeOK
<1>9. QED
    BY <1>3, <1>7, <1>8

\* Every step keeps the invariant.
LEMMA GateInductive == GateInv /\ [PgNext]_pgVars => GateInv'
<1> SUFFICES ASSUME GateInv, [PgNext]_pgVars PROVE GateInv'
    OBVIOUS
<1>0. /\ knownPublic \in BOOLEAN /\ file \in BOOLEAN /\ saveFailed \in BOOLEAN /\ SaveIsPending /\ rows \subseteq Accounts
      /\ saveTimeout = NoTimer \/ saveTimeout \in pgNow .. pgNow + SAVE_DELAY_MS
      /\ requests \in [Slots -> RequestType \cup {Free}] /\ RequestsAreSound /\ pgNow \in Nat
    BY PomboGatesAssumption DEF GateInv, GateTypes, PgTypeOK, StartTime
<1>1. ASSUME NEW s \in Slots, Continue(s) PROVE GateInv'
    BY <1>1, ContinueKeepsFresh
<1>2. CASE GateTick
    BY <1>2, TickKeepsFresh
<1>3. CASE CacheTimer
    <2>1. CachesAreRight'
        BY <1>3, CachesStayRight DEF CacheTimer
    <2>2. QED
        BY <1>0, <1>3, <2>1, PartsSuffice DEF CacheTimer, RequestsAreSound, InProgress, SaveIsPending
<1>4. CASE SaveTimer
    <2>1. CachesAreRight'
        BY <1>4, CachesStayRight DEF SaveTimer
    <2>2. UNCHANGED <<pgNow, chain, lastHeld, knownPublic, requests, rows>> /\ saveTimeout' = NoTimer
        BY <1>4 DEF SaveTimer
    <2>3. file' \in BOOLEAN /\ saveFailed' \in BOOLEAN /\ SaveIsPending'
        BY <1>0, <1>4, <2>2, Zenon DEF SaveTimer, Save, SaveIsPending
    <2>4. RequestsAreSound'
        BY <1>0, <2>2 DEF RequestsAreSound, InProgress
    <2>5. QED
        BY <1>0, <2>1, <2>2, <2>3, <2>4, PartsSuffice
<1>5. CASE ChainChanges
    BY <1>5, ChangeKeepsFresh
<1>6. CASE Restart
    <2>1. CachesAreRight'
        BY <1>6, CachesStayRight DEF Restart
    <2>2. UNCHANGED <<pgNow, chain, lastHeld, rows>> /\ saveTimeout' = NoTimer /\ knownPublic' = file'
          /\ requests' = [s \in Slots |-> Free]
        BY <1>6 DEF Restart
    <2>3. file' \in BOOLEAN /\ saveFailed' \in BOOLEAN
        BY <1>0, <1>6, Zenon DEF Restart
    <2>4. RequestsAreSound' /\ requests' \in [Slots -> RequestType \cup {Free}]
        BY <2>2 DEF RequestsAreSound, InProgress, Free
    <2>5. SaveIsPending'
        BY <2>2 DEF SaveIsPending
    <2>6. QED
        BY <1>0, <2>1, <2>2, <2>3, <2>4, <2>5, PartsSuffice
<1>7. ASSUME NEW s \in Slots, Arrive(s) PROVE GateInv'
    <2>1. UNCHANGED <<pgNow, chain, lastHeld, caches, knownPublic, file, saveTimeout, saveFailed, rows>>
        BY <1>7 DEF Arrive
    <2>2. PICK kind \in Kinds, u \in Accounts, ok \in BOOLEAN : requests' = [requests EXCEPT ![s] = Request(kind, u, ok)]
        BY <1>7 DEF Arrive
    <2> DEFINE none == [f \in {} |-> NoAnswer]
               new == Request(kind, u, ok)
    <2>3. none \in FactsSoFar /\ DOMAIN none = {} /\ Gate \in Questions /\ NoAnswer \in Answers
        <3>1. none \in [{} -> Answers] /\ {} \in SUBSET Questions
            OBVIOUS
        <3>2. QED
            BY <3>1, FactsDiffer DEF FactsSoFar, Questions, Answers
    <2>4. new = [kind |-> kind, user |-> u, signed |-> ok, since |-> pgNow, facts |-> none, wait |-> "none",
                 fact |-> Gate, answer |-> NoAnswer, found |-> {}]
        BY DEF Request
    <2> HIDE DEF none, new
    <2>5. new \in RequestType
        BY <1>0, <2>3, <2>4 DEF RequestType
    <2>6. Sound(new, lastHeld, pgNow)
        BY <1>0, <2>3, <2>4 DEF Sound
    <2>7. RequestsAreSound' /\ requests' \in [Slots -> RequestType \cup {Free}]
        BY <2>1, <2>2, <2>5, <2>6, OneRequestSteps DEF new
    <2>8. CachesAreRight'
        BY <2>1, CachesStayRight
    <2>9. QED
        BY <1>0, <2>1, <2>7, <2>8, PartsSuffice DEF SaveIsPending
<1>8. ASSUME NEW s \in Slots, ChainAnswers(s) PROVE GateInv'
    BY <1>8, AnswerKeepsFresh
<1>9. ASSUME NEW s \in Slots, ChainFails(s) PROVE GateInv'
    <2> DEFINE r == requests[s]
    <2>1. /\ UNCHANGED <<pgNow, chain, lastHeld, caches, knownPublic, file, saveTimeout, saveFailed, rows>>
          /\ requests' = [requests EXCEPT ![s] = Learn(r, r.fact, "error")] /\ r.wait \in {"asked", "info"}
        BY <1>9 DEF ChainFails
    <2>2. r \in RequestType /\ Sound(r, lastHeld, pgNow) /\ r.fact \in Questions /\ "error" \in Answers
        BY <1>0, <2>1, ProgressType DEF GateInv, RequestsAreSound, InProgress, RequestType, Answers
    <2> HIDE DEF r
    <2>3. Learn(r, r.fact, "error") \in RequestType /\ Sound(Learn(r, r.fact, "error"), lastHeld, pgNow)
        BY <2>2, LearnFields, LearnIsSound
    <2>4. RequestsAreSound' /\ requests' \in [Slots -> RequestType \cup {Free}]
        BY <2>1, <2>3, OneRequestSteps
    <2>5. CachesAreRight'
        BY <2>1, CachesStayRight
    <2>6. QED
        BY <1>0, <2>1, <2>4, <2>5, PartsSuffice DEF SaveIsPending
<1>10. ASSUME NEW s \in Slots, InfoAnswers(s) PROVE GateInv'
    <2> DEFINE r == requests[s]
    <2>1. /\ UNCHANGED <<pgNow, chain, lastHeld, knownPublic, file, saveTimeout, saveFailed, rows>>
          /\ requests' = [requests EXCEPT ![s] = Learn(r, Gate, r.answer)] /\ r.wait = "info"
          /\ Cache(Gate, r.answer)
        BY <1>10 DEF InfoAnswers
    <2>2. r \in RequestType /\ Sound(r, lastHeld, pgNow) /\ Gate \in Questions /\ r.answer \in Answers /\ r.since \in Nat
        BY <1>0, <2>1, ProgressType, FactsDiffer DEF GateInv, RequestsAreSound, InProgress, RequestType, Questions
    <2> HIDE DEF r
    <2>3. /\ r.answer \in ValuesOf(Gate) /\ lastHeld[Gate][r.answer] = pgNow /\ r.answer # "missing" /\ r.since <= pgNow
          /\ Gate # Delete(r.user) /\ Gate \in Facts
        BY <2>1, <2>2, FactsDiffer DEF Sound, ValuesOf, Gated
    <2>4. lastHeld[Gate][r.answer] + TtlOf(Gate, r.answer) >= r.since
        <3>1. TtlOf(Gate, r.answer) \in Nat
            BY <2>3, ValuesAreAnswers
        <3>2. QED
            BY <1>0, <2>2, <2>3, <3>1
    <2>5. Learn(r, Gate, r.answer) \in RequestType /\ Sound(Learn(r, Gate, r.answer), lastHeld, pgNow)
        BY <2>2, <2>3, <2>4, LearnFields, LearnIsSound
    <2>6. RequestsAreSound' /\ requests' \in [Slots -> RequestType \cup {Free}]
        BY <2>1, <2>5, OneRequestSteps
    <2>7. CachesAreRight'
        BY <2>1, <2>3, FreshIsCached
    <2>8. QED
        BY <1>0, <2>1, <2>6, <2>7, PartsSuffice DEF SaveIsPending
<1>11. ASSUME NEW s \in Slots, DeleteMessage(s) PROVE GateInv'
    <2> DEFINE r == requests[s]
    <2>1. /\ UNCHANGED <<pgNow, chain, lastHeld, caches, knownPublic, file, saveTimeout, saveFailed>>
          /\ rows' \subseteq rows /\ r.wait = "deleting"
          /\ \E u \in r.found :
                requests' = [requests EXCEPT ![s] = IF r.found = {u} THEN Free ELSE [r EXCEPT !.found = @ \ {u}]]
        BY <1>11 DEF DeleteMessage
    <2>2. r \in RequestType /\ Sound(r, lastHeld, pgNow)
        BY <1>0, <2>1, ProgressType DEF GateInv, RequestsAreSound, InProgress
    <2> HIDE DEF r
    <2>3. PICK u \in r.found :
            requests' = [requests EXCEPT ![s] = IF r.found = {u} THEN Free ELSE [r EXCEPT !.found = @ \ {u}]]
        BY <2>1
    <2> DEFINE less == [r EXCEPT !.found = r.found \ {u}]
    <2>4. less \in RequestType
        BY <2>2 DEF RequestType
    <2>5. /\ less.wait = r.wait /\ less.found = r.found \ {u} /\ less.since = r.since /\ less.facts = r.facts
          /\ less.user = r.user /\ less.kind = r.kind
        BY <2>2 DEF RequestType
    <2>6. requests' = [requests EXCEPT ![s] = IF r.found = {u} THEN Free ELSE less]
        BY <2>2, <2>3 DEF RequestType
    <2> HIDE DEF less
    <2>7. Sound(less, lastHeld, pgNow)
        <3>1. \A w : Entitled(r, lastHeld, w) => Entitled(less, lastHeld, w)
            BY <2>5 DEF Entitled, SaidLately
        <3>2. QED
            BY <2>1, <2>2, <2>5, <3>1 DEF Sound
    <2>8. PICK new \in RequestType \cup {Free} :
            requests' = [requests EXCEPT ![s] = new] /\ (new # Free => Sound(new, lastHeld, pgNow))
        BY <2>4, <2>6, <2>7
    <2>9. RequestsAreSound' /\ requests' \in [Slots -> RequestType \cup {Free}]
        BY <2>1, <2>8, OneRequestSteps
    <2>10. CachesAreRight'
        BY <2>1, CachesStayRight
    <2>11. QED
        BY <1>0, <2>1, <2>9, <2>10, PartsSuffice DEF SaveIsPending
<1>12. CASE UNCHANGED pgVars
    <2>1. CachesAreRight'
        BY <1>12, CachesStayRight DEF pgVars
    <2>2. QED
        BY <1>0, <1>12, <2>1, PartsSuffice DEF pgVars, RequestsAreSound, InProgress, SaveIsPending
<1>13. QED
    BY <1>1, <1>2, <1>3, <1>4, <1>5, <1>6, <1>7, <1>8, <1>9, <1>10, <1>11, <1>12 DEF PgNext

\* The invariant is what MemoryIsFresh promises, and more.
LEMMA GateInvSuffices == GateInv => MemoryIsFresh /\ PgTypeOK
BY DEF GateInv, GateTypes, MemoryIsFresh, AnswersAreFresh, RequestsAreSound, Sound, TtlOf

\* A row leaves the table through a purge whose account may delete it.
LEMMA PurgeStep ==
    ASSUME GateInv, [PgNext]_pgVars, NEW u \in rows \ rows'
    PROVE  \E s \in Slots : InProgress(s) /\ requests[s].kind = "purge" /\ Entitled(requests[s], lastHeld, u)
<1>1. PICK s \in Slots : DeleteMessage(s)
    BY DEF PgNext, pgVars, Continue, GateTick, CacheTimer, SaveTimer, ChainChanges, Restart, Arrive, ChainAnswers,
       ChainFails, InfoAnswers
<1>2. requests[s].wait = "deleting" /\ u \in requests[s].found /\ InProgress(s)
    BY <1>1 DEF DeleteMessage, InProgress
<1>3. QED
    BY <1>2 DEF GateInv, RequestsAreSound, Sound

\* The types of the gates and their caches.
THEOREM GatesTypeCorrect == PgSpec => []PgTypeOK
BY GateInitially, GateInductive, GateInvSuffices, PTL DEF PgSpec

\* Whatever answers requests share through the caches, and however the chain changes meanwhile,
\* a handler works with answers of their lifetime at most; the list of public streams on disk is
\* the one in memory, or a save is due, or the last one failed.
THEOREM MemoryIsAlwaysFresh == PgSpec => []MemoryIsFresh
BY GateInitially, GateInductive, GateInvSuffices, PTL DEF PgSpec

\* Every purged row was purged for an account that could delete it.
THEOREM PurgesAreEntitled == PgSpec => PurgeIsEntitled
<1>1. ASSUME GateInv, [PgNext]_pgVars
      PROVE  [\A u \in rows \ rows' :
          \E s \in Slots :
             /\ InProgress(s) /\ requests[s].kind = "purge"
             /\ LET r == requests[s]
                    Lately(f, v) == v \in ValuesOf(f) /\ lastHeld[f][v] + CACHE_TTL >= r.since
                    gated == Lately(Gate, "visible") \/ Lately(Gate, "sealed")
                IN \/ r.user \in StreamAdmins
                   \/ gated /\ r.user = GateOwner
                   \/ gated /\ Lately(Moderator(r.user), "yes")
                   \/ u = r.user /\ (Lately(Gate, "null") \/ Lately(Gate, "visible"))]_pgVars
    BY <1>1, PurgeStep DEF Entitled, SaidLately
<1>2. QED
    BY <1>1, GateInitially, GateInductive, PTL DEF PgSpec, PurgeIsEntitled

-----------------------------------------------------------------------------
(* ChainEventPoller, its second part: FailoverProvider.  FailoverTypes and *)
(* HealthInv are about the providers; CallOK says of a call and of its     *)
(* attempts what NoProviderDecides needs, at a time t.                     *)

HealthRecord == [failures : Nat, cooldown : 0 .. MAX_COOLDOWN, asideUntil : Nat]
CallRecord == [at : {"none", "waiting", "answered", "failed", "timed out"},
               queue : Seq(Providers), timer : Nat, started : Nat]
AttemptRecord == [at : {"none", "pending", "answered", "failed"}, slowAt : Nat]

FailoverTypes ==
    /\ failoverTime \in Nat /\ failoverTime <= LastFailoverTime
    /\ health \in [Providers -> HealthRecord] /\ failedInRow \in [Providers -> Nat]
    /\ call \in [Calls -> CallRecord]
    /\ attempt \in [Calls -> [Providers -> AttemptRecord]]

\* A provider has failed as often as its record says, often enough to be set aside.
HealthInv ==
    \A p \in Providers :
        /\ health[p].failures <= failedInRow[p]
        /\ health[p].asideUntil > 0 => health[p].failures >= FAILURES_TO_SET_ASIDE
        /\ health[p].asideUntil <= failoverTime + MAX_COOLDOWN

AskedIn(A) == {p \in Providers : A[p].at # "none"}

\* The queue holds each provider that was not asked, once.
HoldsTheRest(queue, A) ==
    /\ \A p \in Providers : A[p].at = "none" <=> \E i \in 1 .. Len(queue) : queue[i] = p
    /\ \A i, j \in 1 .. Len(queue) : queue[i] = queue[j] => i = j

\* One more provider was asked for every attempt timeout since the start.
AskedInTime(k, A, t) == k.started <= t /\ t <= k.started + Cardinality(AskedIn(A)) * AttemptTimeout

WaitingOK(k, A, t) ==
    /\ HoldsTheRest(k.queue, A)
    /\ \E p \in Providers : A[p].at = "pending"
    /\ \A p \in Providers : A[p].at # "answered"
    /\ k.started <= t
    /\ k.queue # << >> => t <= k.timer /\ k.timer <= k.started + Cardinality(AskedIn(A)) * AttemptTimeout

CallOK(k, A, t) ==
    /\ k.at = "none" => \A p \in Providers : A[p].at = "none"
    /\ k.at # "waiting" => k.timer = NeverFires
    /\ k.at = "waiting" => WaitingOK(k, A, t)
    /\ k.at = "failed" => \A p \in Providers : A[p].at = "failed"
    /\ k.at = "timed out" /\ (Cardinality(Providers) - 1) * AttemptTimeout < CallTimeout => AskedIn(A) = Providers

FailoverInv ==
    /\ FailoverTypes
    /\ HealthInv
    /\ \A c \in Calls : CallOK(call[c], attempt[c], failoverTime)

LEMMA FailoverInitially == FailoverInit => FailoverInv
<1> SUFFICES ASSUME FailoverInit PROVE FailoverInv
    OBVIOUS
<1>1. FailoverTypes
    <2>1. [failures |-> 0, cooldown |-> 0, asideUntil |-> 0] \in HealthRecord
        BY FailoverAssumption DEF HealthRecord
    <2>2. << >> \in Seq(Providers) /\ NeverFires \in Nat
        BY FailoverAssumption DEF NeverFires
    <2>3. NotCalled \in CallRecord /\ NotAttempted \in AttemptRecord
        BY <2>2 DEF NotCalled, NotAttempted, CallRecord, AttemptRecord
    <2>4. QED
        BY <2>1, <2>3, FailoverAssumption DEF FailoverInit, FailoverTypes
<1>2. HealthInv
    BY FailoverAssumption DEF FailoverInit, HealthInv
<1>3. ASSUME NEW c \in Calls PROVE CallOK(call[c], attempt[c], failoverTime)
    BY DEF FailoverInit, CallOK, NotCalled, NotAttempted
<1>4. QED
    BY <1>1, <1>2, <1>3 DEF FailoverInv
-----------------------------------------------------------------------------
\* The smaller of two numbers.
LEMMA MinOfTwo ==
    ASSUME NEW a \in Nat, NEW b \in Nat
    PROVE  Min({a, b}) = IF a <= b THEN a ELSE b
BY DEF Min

\* recordSuccess(): nothing is held against the provider any more.
LEMMA SuccessKeepsHealth ==
    ASSUME FailoverTypes, HealthInv, NEW p \in Providers, RecordSuccess(p), failoverTime' = failoverTime
    PROVE  health' \in [Providers -> HealthRecord] /\ failedInRow' \in [Providers -> Nat] /\ HealthInv'
<1> PICK z : z = [failures |-> 0, cooldown |-> 0, asideUntil |-> 0]
    OBVIOUS
<1>1. z \in HealthRecord /\ z.failures = 0 /\ z.asideUntil = 0
    BY FailoverAssumption DEF HealthRecord
<1>2. /\ health' = [health EXCEPT ![p] = z]
      /\ failedInRow' = [failedInRow EXCEPT ![p] = 0]
    BY DEF RecordSuccess
<1>3. health' \in [Providers -> HealthRecord] /\ failedInRow' \in [Providers -> Nat]
    BY <1>1, <1>2 DEF FailoverTypes
<1>4. ASSUME NEW r \in Providers
      PROVE  /\ health'[r].failures <= failedInRow'[r]
             /\ health'[r].asideUntil > 0 => health'[r].failures >= FAILURES_TO_SET_ASIDE
             /\ health'[r].asideUntil <= failoverTime' + MAX_COOLDOWN
    <2>1. CASE r = p
        <3>1. health'[r] = z /\ failedInRow'[r] = 0
            BY <1>2, <2>1 DEF FailoverTypes
        <3>2. QED
            BY <3>1, <1>1, FailoverAssumption DEF FailoverTypes
    <2>2. CASE r # p
        <3>1. health'[r] = health[r] /\ failedInRow'[r] = failedInRow[r]
            BY <1>2, <2>2 DEF FailoverTypes
        <3>2. QED
            BY <3>1 DEF HealthInv
    <2>3. QED
        BY <2>1, <2>2
<1>5. QED
    BY <1>3, <1>4 DEF HealthInv

\* recordFailure(): the record of a provider is as bad as its failures in a row.
LEMMA FailureKeepsHealth ==
    ASSUME FailoverTypes, HealthInv, NEW p \in Providers, RecordFailure(p), failoverTime' = failoverTime
    PROVE  health' \in [Providers -> HealthRecord] /\ failedInRow' \in [Providers -> Nat] /\ HealthInv'
<1> PICK h : h = health[p]
    OBVIOUS
<1>h. h \in HealthRecord /\ h.failures \in Nat /\ h.cooldown \in 0 .. MAX_COOLDOWN /\ h.asideUntil \in Nat
    BY DEF FailoverTypes, HealthRecord
<1> PICK d : d = (IF h.cooldown = 0 THEN FIRST_COOLDOWN ELSE Min({h.cooldown * 2, MAX_COOLDOWN}))
    OBVIOUS
<1>d. d \in 0 .. MAX_COOLDOWN
    <2>1. CASE h.cooldown = 0
        BY <2>1, FailoverAssumption
    <2>2. CASE h.cooldown # 0
        <3>1. h.cooldown * 2 \in Nat /\ MAX_COOLDOWN \in Nat
            BY <1>h, FailoverAssumption
        <3>2. QED
            BY <3>1, <2>2, MinOfTwo
    <2>3. QED
        BY <2>1, <2>2
<1> PICK z : z = (IF h.asideUntil > failoverTime THEN h
                  ELSE IF h.failures + 1 < FAILURES_TO_SET_ASIDE THEN [h EXCEPT !.failures = h.failures + 1]
                  ELSE [failures |-> h.failures + 1, cooldown |-> d, asideUntil |-> failoverTime + d])
    OBVIOUS
<1>2. /\ health' = [health EXCEPT ![p] = z]
      /\ failedInRow' = [failedInRow EXCEPT ![p] = @ + 1]
    BY DEF RecordFailure
<1>3. /\ h.failures <= failedInRow[p] /\ failedInRow[p] \in Nat
      /\ h.asideUntil > 0 => h.failures >= FAILURES_TO_SET_ASIDE
      /\ h.asideUntil <= failoverTime + MAX_COOLDOWN
    BY DEF HealthInv, FailoverTypes
<1>4. /\ z \in HealthRecord
      /\ z.failures <= failedInRow[p] + 1
      /\ z.asideUntil > 0 => z.failures >= FAILURES_TO_SET_ASIDE
      /\ z.asideUntil <= failoverTime + MAX_COOLDOWN
    <2>1. CASE h.asideUntil > failoverTime
        BY <2>1, <1>3, <1>h
    <2>2. CASE ~(h.asideUntil > failoverTime) /\ h.failures + 1 < FAILURES_TO_SET_ASIDE
        <3>1. z = [h EXCEPT !.failures = h.failures + 1]
            BY <2>2
        <3>2. z.failures = h.failures + 1 /\ z.cooldown = h.cooldown /\ z.asideUntil = h.asideUntil
            BY <3>1, <1>h DEF HealthRecord
        <3>3. z \in HealthRecord
            BY <3>1, <1>h DEF HealthRecord
        <3>4. h.asideUntil = 0
            BY <2>2, <1>3, <1>h, FailoverAssumption
        <3>5. QED
            BY <3>2, <3>3, <3>4, <1>3, <1>h, FailoverAssumption DEF FailoverTypes
    <2>3. CASE ~(h.asideUntil > failoverTime) /\ ~(h.failures + 1 < FAILURES_TO_SET_ASIDE)
        <3>1. z = [failures |-> h.failures + 1, cooldown |-> d, asideUntil |-> failoverTime + d]
            BY <2>3
        <3>2. z.failures = h.failures + 1 /\ z.cooldown = d /\ z.asideUntil = failoverTime + d
            BY <3>1
        <3>3. z \in HealthRecord
            BY <3>1, <1>h, <1>d, FailoverAssumption DEF HealthRecord, FailoverTypes
        <3>5. QED
            BY <3>2, <3>3, <2>3, <1>3, <1>h, <1>d, FailoverAssumption DEF FailoverTypes
    <2>4. QED
        BY <2>1, <2>2, <2>3
<1>5. health' \in [Providers -> HealthRecord] /\ failedInRow' \in [Providers -> Nat]
    BY <1>2, <1>4 DEF FailoverTypes
<1>6. ASSUME NEW r \in Providers
      PROVE  /\ health'[r].failures <= failedInRow'[r]
             /\ health'[r].asideUntil > 0 => health'[r].failures >= FAILURES_TO_SET_ASIDE
             /\ health'[r].asideUntil <= failoverTime' + MAX_COOLDOWN
    <2>1. CASE r = p
        <3>1. health'[r] = z /\ failedInRow'[r] = failedInRow[p] + 1
            BY <1>2, <2>1 DEF FailoverTypes
        <3>2. QED
            BY <3>1, <1>4
    <2>2. CASE r # p
        <3>1. health'[r] = health[r] /\ failedInRow'[r] = failedInRow[r]
            BY <1>2, <2>2 DEF FailoverTypes
        <3>2. QED
            BY <3>1 DEF HealthInv
    <2>3. QED
        BY <2>1, <2>2
<1>7. QED
    BY <1>5, <1>6 DEF HealthInv

\* What a step that judges an attempt, or none, does to the records.
LEMMA JudgingKeepsHealth ==
    ASSUME FailoverTypes, HealthInv, failoverTime' = failoverTime, NEW p \in Providers,
           RecordSuccess(p) \/ RecordFailure(p) \/ UNCHANGED <<health, failedInRow>>
    PROVE  health' \in [Providers -> HealthRecord] /\ failedInRow' \in [Providers -> Nat] /\ HealthInv'
<1>1. CASE UNCHANGED <<health, failedInRow>>
    BY <1>1 DEF FailoverTypes, HealthInv
<1>2. QED
    BY <1>1, SuccessKeepsHealth, FailureKeepsHealth
-----------------------------------------------------------------------------
LEMMA TimesSuccessor ==
    ASSUME NEW a \in Nat, NEW b \in Nat
    PROVE  (a + 1) * b = a * b + b /\ a * b \in Nat
OBVIOUS

LEMMA TimesMonotone ==
    ASSUME NEW a \in Nat, NEW b \in Nat, NEW d \in Nat, a <= b
    PROVE  a * d <= b * d
OBVIOUS

\* How many were asked.
LEMMA AskedAreCounted ==
    ASSUME NEW A
    PROVE  /\ IsFiniteSet(AskedIn(A)) /\ Cardinality(AskedIn(A)) \in Nat
           /\ AskedIn(A) # Providers => Cardinality(AskedIn(A)) <= Cardinality(Providers) - 1
           /\ Cardinality(Providers) \in Nat
<1>1. IsFiniteSet(Providers) /\ AskedIn(A) \in SUBSET Providers
    BY ChainEventPollerAssumption DEF AskedIn
<1>2. IsFiniteSet(AskedIn(A)) /\ Cardinality(AskedIn(A)) <= Cardinality(Providers)
      /\ (Cardinality(Providers) = Cardinality(AskedIn(A)) => Providers = AskedIn(A))
    BY <1>1, FS_Subset
<1>3. Cardinality(Providers) \in Nat /\ Cardinality(AskedIn(A)) \in Nat
    BY <1>1, <1>2, FS_CardinalityType
<1>4. QED
    BY <1>2, <1>3

\* The queue of a new call holds every provider.
LEMMA OrdersHoldAll ==
    ASSUME NEW q \in Orders, NEW A, \A p \in Providers : A[p].at = "none"
    PROVE  q \in Seq(Providers) /\ q # << >> /\ HoldsTheRest(q, A)
<1> PICK n : n = Cardinality(Providers)
    OBVIOUS
<1>1. IsFiniteSet(Providers) /\ n \in Nat
    BY ChainEventPollerAssumption, FS_CardinalityType
<1>2. q \in [1 .. n -> Providers] /\ \A i, j \in 1 .. n : i < j => q[i] # q[j]
    BY DEF Orders
<1>3. ASSUME NEW i \in 1 .. n, NEW j \in 1 .. n, q[i] = q[j] PROVE i = j
    BY <1>2, <1>3, <1>1
<1>4. q \in Injection(1 .. n, Providers)
    BY <1>2, <1>3 DEF Injection, IsInjective
<1>5. Cardinality(1 .. n) = n
    BY <1>1, FS_Interval
<1>6. q \in Surjection(1 .. n, Providers)
    BY <1>1, <1>4, <1>5, FS_Injection
<1>7. \A p \in Providers : \E i \in 1 .. n : q[i] = p
    BY <1>6 DEF Surjection
<1>8. q \in Seq(Providers) /\ Len(q) = n
    BY <1>1, <1>2
<1>9. n # 0
    BY <1>1, FS_EmptySet, ChainEventPollerAssumption
<1>10. q # << >>
    BY <1>8, <1>9
<1>11. QED
    BY <1>3, <1>7, <1>8, <1>10 DEF HoldsTheRest

-----------------------------------------------------------------------------
LEMMA NeverIsLate ==
    << >> \in Seq(Providers) /\ NeverFires \in Nat /\ NeverFires > LastFailoverTime
<1>1. << >> \in Seq(Providers)
    OBVIOUS
<1>2. QED
    BY <1>1, FailoverAssumption DEF NeverFires

LEMMA CallMade ==
    ASSUME NEW queue \in Seq(Providers), NEW fires \in Nat, NEW started \in Nat
    PROVE  [at |-> "waiting", queue |-> queue, timer |-> fires, started |-> started] \in CallRecord
BY DEF CallRecord

(* launchNext(): the head of the queue is asked, and the timer set anew.   *)
LEMMA LaunchKeepsWaiting ==
    ASSUME FailoverTypes, NEW k \in CallRecord, NEW A \in [Providers -> AttemptRecord],
           k.at = "waiting", k.queue # << >>, HoldsTheRest(k.queue, A),
           \A p \in Providers : A[p].at # "answered", AskedInTime(k, A, failoverTime)
    PROVE  /\ CallLaunched(k) \in CallRecord /\ CallLaunched(k).at = "waiting"
           /\ AttemptsLaunched(k, A) \in [Providers -> AttemptRecord]
           /\ WaitingOK(CallLaunched(k), AttemptsLaunched(k, A), failoverTime)
<1> PICK q : q = k.queue
    OBVIOUS
<1> PICK l : l = CallLaunched(k)
    OBVIOUS
<1> PICK B : B = AttemptsLaunched(k, A)
    OBVIOUS
<1>1. q \in Seq(Providers) /\ q # << >> /\ k.started \in Nat
    BY DEF CallRecord
<1>2. Len(q) \in Nat \ {0} /\ Head(q) = q[1] /\ q[1] \in Providers /\ Tail(q) \in Seq(Providers)
      /\ Len(Tail(q)) = Len(q) - 1 /\ \A i \in 1 .. Len(q) - 1 : Tail(q)[i] = q[i + 1]
    BY <1>1
<1>3. NeverFires \in Nat /\ failoverTime + AttemptTimeout \in Nat
    BY FailoverAssumption DEF NeverFires, FailoverTypes
<1>4. l = [at |-> k.at, queue |-> Tail(q), timer |-> failoverTime + AttemptTimeout, started |-> k.started]
    BY DEF CallLaunched
<1>5. l.at = "waiting" /\ l.queue = Tail(q) /\ l.timer = failoverTime + AttemptTimeout /\ l.started = k.started
    BY <1>4
<1>6. l \in CallRecord
    <2>1. l = [at |-> "waiting", queue |-> Tail(q), timer |-> failoverTime + AttemptTimeout, started |-> k.started]
        BY <1>4
    <2>2. QED
        BY <1>1, <1>2, <1>3, <2>1, CallMade
<1>7. B = [A EXCEPT ![q[1]] = [at |-> "pending", slowAt |-> failoverTime + AttemptTimeout]]
    BY <1>2 DEF AttemptsLaunched
<1>8. /\ B \in [Providers -> AttemptRecord]
      /\ B[q[1]].at = "pending" /\ \A p \in Providers : p # q[1] => B[p] = A[p]
    BY <1>2, <1>3, <1>7 DEF AttemptRecord
<1>9. HoldsTheRest(l.queue, B)
    <2>1. /\ \A p \in Providers : A[p].at = "none" <=> \E i \in 1 .. Len(q) : q[i] = p
          /\ \A i, j \in 1 .. Len(q) : q[i] = q[j] => i = j
        BY DEF HoldsTheRest
    <2>2. ASSUME NEW i \in 1 .. Len(Tail(q)), NEW j \in 1 .. Len(Tail(q)), Tail(q)[i] = Tail(q)[j]
          PROVE  i = j
        <3>1. i + 1 \in 1 .. Len(q) /\ j + 1 \in 1 .. Len(q) /\ q[i + 1] = q[j + 1]
            BY <1>2, <2>2
        <3>2. i + 1 = j + 1
            BY <3>1, <2>1
        <3>3. QED
            BY <3>2
    <2>3. ASSUME NEW p \in Providers
          PROVE  B[p].at = "none" <=> \E i \in 1 .. Len(Tail(q)) : Tail(q)[i] = p
        <3>1. CASE p = q[1]
            <4>1. B[p].at # "none"
                BY <1>8, <3>1
            <4>2. ASSUME NEW i \in 1 .. Len(Tail(q)), Tail(q)[i] = p PROVE FALSE
                <5>1. i + 1 \in 1 .. Len(q) /\ 1 \in 1 .. Len(q) /\ q[i + 1] = q[1]
                    BY <1>2, <3>1, <4>2
                <5>2. i + 1 = 1
                    BY <5>1, <2>1
                <5>3. QED
                    BY <5>2
            <4>3. QED
                BY <4>1, <4>2
        <3>2. CASE p # q[1]
            <4>1. B[p] = A[p]
                BY <1>8, <3>2
            <4>2. ASSUME NEW i \in 1 .. Len(q), q[i] = p PROVE \E j \in 1 .. Len(Tail(q)) : Tail(q)[j] = p
                <5>1. i - 1 \in 1 .. Len(Tail(q)) /\ Tail(q)[i - 1] = p
                    BY <1>2, <3>2, <4>2
                <5>2. QED
                    BY <5>1
            <4>3. ASSUME NEW j \in 1 .. Len(Tail(q)), Tail(q)[j] = p PROVE \E i \in 1 .. Len(q) : q[i] = p
                <5>1. j + 1 \in 1 .. Len(q) /\ q[j + 1] = p
                    BY <1>2, <4>3
                <5>2. QED
                    BY <5>1
            <4>4. QED
                BY <2>1, <4>1, <4>2, <4>3
        <3>3. QED
            BY <3>1, <3>2
    <2>4. HoldsTheRest(Tail(q), B)
        BY <2>2, <2>3 DEF HoldsTheRest
    <2>5. QED
        BY <1>5, <2>4
<1>10. AskedIn(B) = AskedIn(A) \cup {q[1]} /\ q[1] \notin AskedIn(A)
    <2>1. A[q[1]].at = "none"
        BY <1>2 DEF HoldsTheRest
    <2>2. QED
        BY <1>2, <1>8, <2>1 DEF AskedIn
<1>11. l.timer <= l.started + Cardinality(AskedIn(B)) * AttemptTimeout
    <2> PICK n : n = Cardinality(AskedIn(A))
        OBVIOUS
    <2>1. IsFiniteSet(AskedIn(A)) /\ n \in Nat
        BY AskedAreCounted
    <2>2. Cardinality(AskedIn(B)) = n + 1
        BY <2>1, <1>10, FS_AddElement
    <2>3. (n + 1) * AttemptTimeout = n * AttemptTimeout + AttemptTimeout /\ n * AttemptTimeout \in Nat
        BY <2>1, TimesSuccessor, FailoverAssumption
    <2>4. failoverTime <= k.started + n * AttemptTimeout
        BY DEF AskedInTime
    <2>5. failoverTime \in Nat /\ k.started \in Nat /\ AttemptTimeout \in Nat
        BY FailoverAssumption, <1>1 DEF FailoverTypes
    <2>6. l.timer = failoverTime + AttemptTimeout /\ l.started = k.started
        BY <1>5
    <2>7. failoverTime + AttemptTimeout <= k.started + (n * AttemptTimeout + AttemptTimeout)
        BY <2>3, <2>4, <2>5
    <2>8. QED
        BY <2>2, <2>3, <2>6, <2>7
<1>12. /\ \E p \in Providers : B[p].at = "pending"
       /\ \A p \in Providers : B[p].at # "answered"
    BY <1>2, <1>8
<1>13. l.started <= failoverTime /\ failoverTime <= l.timer
    BY <1>5, <1>1, FailoverAssumption DEF AskedInTime, FailoverTypes
<1>14. WaitingOK(l, B, failoverTime)
    BY <1>9, <1>11, <1>12, <1>13 DEF WaitingOK
<1>15. QED
    BY <1>5, <1>6, <1>8, <1>14

\* A waiting call whose queue is not empty has asked in time.
LEMMA WaitingAsksInTime ==
    ASSUME NEW k \in CallRecord, NEW A, NEW t \in Nat, WaitingOK(k, A, t), k.queue # << >>
    PROVE  AskedInTime(k, A, t)
<1>1. k.timer \in Nat /\ k.started \in Nat
    BY DEF CallRecord
<1>2. Cardinality(AskedIn(A)) * AttemptTimeout \in Nat
    BY AskedAreCounted, TimesSuccessor, FailoverAssumption
<1>3. t <= k.timer /\ k.timer <= k.started + Cardinality(AskedIn(A)) * AttemptTimeout /\ k.started <= t
    BY DEF WaitingOK
<1>4. QED
    BY <1>1, <1>2, <1>3 DEF AskedInTime

\* The end of an attempt asks and unasks nobody.
LEMMA EndKeepsAsked ==
    ASSUME NEW A \in [Providers -> AttemptRecord], NEW p \in Providers, A[p].at # "none",
           NEW how \in {"pending", "answered", "failed"}, NEW B,
           B = [A EXCEPT ![p] = [at |-> how, slowAt |-> NeverFires]]
    PROVE  /\ B \in [Providers -> AttemptRecord]
           /\ B[p].at = how /\ \A r \in Providers : r # p => B[r] = A[r]
           /\ AskedIn(B) = AskedIn(A)
           /\ \A q : HoldsTheRest(q, A) => HoldsTheRest(q, B)
<1>1. NeverFires \in Nat
    BY FailoverAssumption DEF NeverFires
<1>2. /\ B \in [Providers -> AttemptRecord]
      /\ B[p].at = how /\ \A r \in Providers : r # p => B[r] = A[r]
    BY <1>1 DEF AttemptRecord
<1>3. \A r \in Providers : (B[r].at = "none") <=> (A[r].at = "none")
    BY <1>2
<1>4. QED
    BY <1>2, <1>3 DEF AskedIn, HoldsTheRest

\* A call that has ended with an answer is in order whatever its attempts do.
LEMMA SettledOK ==
    ASSUME NEW outcome \in {"answered", "failed", "timed out"}
    PROVE  /\ Settled(outcome) \in CallRecord /\ Settled(outcome).at = outcome
           /\ Settled(outcome).timer = NeverFires
<1>1. << >> \in Seq(Providers) /\ NeverFires \in Nat
    BY NeverIsLate
<1>2. QED
    BY <1>1 DEF Settled, CallRecord
-----------------------------------------------------------------------------
\* One call and its attempts change, and are in order afterwards: all calls are.
LEMMA OneCallChanges ==
    ASSUME FailoverInv, NEW c \in Calls, NEW k \in CallRecord, NEW A \in [Providers -> AttemptRecord],
           call' = [call EXCEPT ![c] = k], attempt' = [attempt EXCEPT ![c] = A], failoverTime' = failoverTime,
           CallOK(k, A, failoverTime),
           health' \in [Providers -> HealthRecord] /\ failedInRow' \in [Providers -> Nat] /\ HealthInv'
    PROVE  FailoverInv'
<1>1. FailoverTypes'
    BY DEF FailoverInv, FailoverTypes
<1>2. ASSUME NEW e \in Calls PROVE CallOK(call'[e], attempt'[e], failoverTime)
    <2>1. CASE e = c
        <3>1. call'[e] = k /\ attempt'[e] = A
            BY <2>1 DEF FailoverInv, FailoverTypes
        <3>2. QED
            BY <3>1
    <2>2. CASE e # c
        <3>1. call'[e] = call[e] /\ attempt'[e] = attempt[e]
            BY <2>2 DEF FailoverInv, FailoverTypes
        <3>2. QED
            BY <3>1 DEF FailoverInv
    <2>3. QED
        BY <2>1, <2>2
<1>3. QED
    BY <1>1, <1>2 DEF FailoverInv

\* The records of the providers stay with a step that does not judge.
LEMMA UnjudgedKeepsHealth ==
    ASSUME FailoverInv, UNCHANGED <<health, failedInRow, failoverTime>>
    PROVE  health' \in [Providers -> HealthRecord] /\ failedInRow' \in [Providers -> Nat] /\ HealthInv'
BY DEF FailoverInv, FailoverTypes, HealthInv

LEMMA JudgedKeepsHealth ==
    ASSUME FailoverInv, UNCHANGED failoverTime, NEW c, NEW p \in Providers, NEW answered, JudgeAttempt(c, p, answered)
    PROVE  health' \in [Providers -> HealthRecord] /\ failedInRow' \in [Providers -> Nat] /\ HealthInv'
<1>1. RecordSuccess(p) \/ RecordFailure(p) \/ UNCHANGED <<health, failedInRow>>
    BY DEF JudgeAttempt
<1>2. QED
    BY <1>1, JudgingKeepsHealth DEF FailoverInv

LEMMA PerformKeeps ==
    ASSUME FailoverInv, NEW c \in Calls, PerformWithFailover(c) PROVE FailoverInv'
<1> PICK q \in Orders :
        LET k == [at |-> "waiting", queue |-> q, timer |-> NeverFires, started |-> failoverTime]
        IN  /\ call' = [call EXCEPT ![c] = CallLaunched(k)]
            /\ attempt' = [attempt EXCEPT ![c] = AttemptsLaunched(k, attempt[c])]
    BY DEF PerformWithFailover
<1> PICK k : k = [at |-> "waiting", queue |-> q, timer |-> NeverFires, started |-> failoverTime]
    OBVIOUS
<1>1. call[c] \in CallRecord /\ attempt[c] \in [Providers -> AttemptRecord] /\ FailoverTypes /\ call[c].at = "none"
    BY DEF FailoverInv, FailoverTypes, PerformWithFailover
<1>2. \A p \in Providers : attempt[c][p].at = "none"
    BY <1>1 DEF FailoverInv, CallOK
<1>3. q \in Seq(Providers) /\ q # << >> /\ HoldsTheRest(q, attempt[c])
    BY <1>2, OrdersHoldAll
<1>4. NeverFires \in Nat /\ failoverTime \in Nat
    BY FailoverAssumption, <1>1 DEF NeverFires, FailoverTypes
<1>5. k \in CallRecord /\ k.at = "waiting" /\ k.queue = q /\ k.started = failoverTime
    BY <1>3, <1>4 DEF CallRecord
<1>6. AskedInTime(k, attempt[c], failoverTime)
    <2>1. Cardinality(AskedIn(attempt[c])) * AttemptTimeout \in Nat
        BY AskedAreCounted, TimesSuccessor, FailoverAssumption
    <2>2. QED
        BY <2>1, <1>4, <1>5 DEF AskedInTime
<1>7. /\ CallLaunched(k) \in CallRecord /\ CallLaunched(k).at = "waiting"
      /\ AttemptsLaunched(k, attempt[c]) \in [Providers -> AttemptRecord]
      /\ WaitingOK(CallLaunched(k), AttemptsLaunched(k, attempt[c]), failoverTime)
    BY <1>1, <1>2, <1>3, <1>5, <1>6, LaunchKeepsWaiting
<1>8. CallOK(CallLaunched(k), AttemptsLaunched(k, attempt[c]), failoverTime)
    BY <1>7 DEF CallOK
<1>9. UNCHANGED <<failoverTime, health, failedInRow>>
    BY DEF PerformWithFailover
<1>10. health' \in [Providers -> HealthRecord] /\ failedInRow' \in [Providers -> Nat] /\ HealthInv'
    BY <1>9, UnjudgedKeepsHealth
<1>11. call' = [call EXCEPT ![c] = CallLaunched(k)] /\ attempt' = [attempt EXCEPT ![c] = AttemptsLaunched(k, attempt[c])]
    OBVIOUS
<1> HIDE DEF FailoverInv
<1>12. QED
    BY <1>7, <1>8, <1>9, <1>10, <1>11, OneCallChanges

\* What the invariant says of one call.
LEMMA OneCall ==
    ASSUME FailoverInv, NEW c \in Calls
    PROVE  /\ call[c] \in CallRecord /\ attempt[c] \in [Providers -> AttemptRecord] /\ FailoverTypes
           /\ CallOK(call[c], attempt[c], failoverTime) /\ failoverTime \in Nat
BY DEF FailoverInv, FailoverTypes

LEMMA AnswerKeeps ==
    ASSUME FailoverInv, NEW c \in Calls, NEW p \in Providers, ProviderAnswers(c, p) PROVE FailoverInv'
<1> PICK B : B = AttemptEnds(c, p, "answered")
    OBVIOUS
<1> PICK k : k = (IF call[c].at = "waiting" THEN Settled("answered") ELSE call[c])
    OBVIOUS
<1>1. call[c] \in CallRecord /\ attempt[c] \in [Providers -> AttemptRecord] /\ CallOK(call[c], attempt[c], failoverTime)
    BY OneCall
<1>2. attempt[c][p].at = "pending" /\ B = [attempt[c] EXCEPT ![p] = [at |-> "answered", slowAt |-> NeverFires]]
    BY DEF ProviderAnswers, AttemptEnds
<1>3. B \in [Providers -> AttemptRecord] /\ AskedIn(B) = AskedIn(attempt[c])
    BY <1>1, <1>2, EndKeepsAsked
<1>4. attempt' = [attempt EXCEPT ![c] = B] /\ UNCHANGED failoverTime
    BY DEF ProviderAnswers
<1>5. call' = [call EXCEPT ![c] = k]
    BY DEF ProviderAnswers, FailoverInv, FailoverTypes
<1>6. k \in CallRecord /\ CallOK(k, B, failoverTime)
    <2>1. CASE call[c].at = "waiting"
        <3>1. k = Settled("answered")
            BY <2>1
        <3>2. k \in CallRecord /\ k.at = "answered" /\ k.timer = NeverFires
            BY <3>1, SettledOK
        <3>3. QED
            BY <3>2 DEF CallOK
    <2>2. CASE call[c].at # "waiting"
        <3>1. k = call[c]
            BY <2>2
        <3>2. k.at # "none" /\ k.at # "failed"
            BY <1>1, <1>2, <3>1 DEF CallOK
        <3>3. QED
            BY <1>1, <1>3, <2>2, <3>1, <3>2 DEF CallOK
    <2>3. QED
        BY <2>1, <2>2
<1>7. health' \in [Providers -> HealthRecord] /\ failedInRow' \in [Providers -> Nat] /\ HealthInv'
    BY <1>4, JudgedKeepsHealth DEF ProviderAnswers
<1>8. QED
    BY <1>3, <1>4, <1>5, <1>6, <1>7, OneCallChanges

LEMMA FailureKeeps ==
    ASSUME FailoverInv, NEW c \in Calls, NEW p \in Providers, ProviderFails(c, p) PROVE FailoverInv'
<1> PICK B : B = AttemptEnds(c, p, "failed")
    OBVIOUS
<1>1. /\ call[c] \in CallRecord /\ attempt[c] \in [Providers -> AttemptRecord] /\ failoverTime \in Nat
      /\ CallOK(call[c], attempt[c], failoverTime) /\ FailoverTypes
    BY OneCall
<1>2. attempt[c][p].at = "pending" /\ B = [attempt[c] EXCEPT ![p] = [at |-> "failed", slowAt |-> NeverFires]]
    BY DEF ProviderFails, AttemptEnds
<1>3. /\ B \in [Providers -> AttemptRecord] /\ AskedIn(B) = AskedIn(attempt[c])
      /\ B[p].at = "failed" /\ \A r \in Providers : r # p => B[r] = attempt[c][r]
      /\ \A q : HoldsTheRest(q, attempt[c]) => HoldsTheRest(q, B)
    BY <1>1, <1>2, EndKeepsAsked
<1>4. UNCHANGED failoverTime
    BY DEF ProviderFails
<1>5. health' \in [Providers -> HealthRecord] /\ failedInRow' \in [Providers -> Nat] /\ HealthInv'
    BY <1>4, JudgedKeepsHealth DEF ProviderFails
<1>6. CASE /\ call[c].at = "waiting" /\ call[c].queue # << >>
           /\ call' = [call EXCEPT ![c] = CallLaunched(@)]
           /\ attempt' = [attempt EXCEPT ![c] = AttemptsLaunched(call[c], B)]
    <2>1. WaitingOK(call[c], attempt[c], failoverTime)
        BY <1>1, <1>6 DEF CallOK
    <2>2. AskedInTime(call[c], attempt[c], failoverTime)
        BY <1>1, <1>6, <2>1, WaitingAsksInTime
    <2>3. AskedInTime(call[c], B, failoverTime)
        BY <1>3, <2>2 DEF AskedInTime
    <2>4. HoldsTheRest(call[c].queue, B) /\ \A r \in Providers : B[r].at # "answered"
        BY <1>3, <2>1 DEF WaitingOK
    <2>5. /\ CallLaunched(call[c]) \in CallRecord /\ CallLaunched(call[c]).at = "waiting"
          /\ AttemptsLaunched(call[c], B) \in [Providers -> AttemptRecord]
          /\ WaitingOK(CallLaunched(call[c]), AttemptsLaunched(call[c], B), failoverTime)
        BY <1>1, <1>3, <1>6, <2>3, <2>4, LaunchKeepsWaiting
    <2>6. CallOK(CallLaunched(call[c]), AttemptsLaunched(call[c], B), failoverTime)
        BY <2>5 DEF CallOK
    <2>7. QED
        BY <1>4, <1>5, <1>6, <2>5, <2>6, OneCallChanges
<1>7. CASE /\ call[c].at = "waiting" /\ call[c].queue = << >>
           /\ {o \in Providers : B[o].at = "pending"} = {}
           /\ call' = [call EXCEPT ![c] = Settled("failed")]
           /\ attempt' = [attempt EXCEPT ![c] = B]
    <2>1. WaitingOK(call[c], attempt[c], failoverTime)
        BY <1>1, <1>7 DEF CallOK
    <2>2. HoldsTheRest(<< >>, B) /\ \A r \in Providers : B[r].at # "answered"
        BY <1>3, <1>7, <2>1 DEF WaitingOK
    <2>3. \A r \in Providers : B[r].at # "none"
        BY <2>2 DEF HoldsTheRest
    <2>4. \A r \in Providers : B[r].at \in {"none", "pending", "answered", "failed"}
        BY <1>3 DEF AttemptRecord
    <2>5. \A r \in Providers : B[r].at = "failed"
        BY <1>7, <2>2, <2>3, <2>4
    <2>6. Settled("failed") \in CallRecord /\ CallOK(Settled("failed"), B, failoverTime)
        BY <2>5, SettledOK DEF CallOK
    <2>7. QED
        BY <1>3, <1>4, <1>5, <1>7, <2>6, OneCallChanges
<1>8. CASE /\ call[c].at # "waiting" \/ (call[c].queue = << >> /\ {o \in Providers : B[o].at = "pending"} # {})
           /\ attempt' = [attempt EXCEPT ![c] = B]
           /\ UNCHANGED call
    <2>1. CallOK(call[c], B, failoverTime)
        <3>1. CASE call[c].at # "waiting"
            <4>1. call[c].at # "none" /\ call[c].at # "failed"
                BY <1>1, <1>2 DEF CallOK
            <4>2. QED
                BY <1>1, <1>3, <3>1, <4>1 DEF CallOK
        <3>2. CASE call[c].at = "waiting"
            <4>1. WaitingOK(call[c], attempt[c], failoverTime)
                BY <1>1, <3>2 DEF CallOK
            <4>2. call[c].queue = << >> /\ \E r \in Providers : B[r].at = "pending"
                BY <1>8, <3>2
            <4>3. WaitingOK(call[c], B, failoverTime)
                BY <1>3, <4>1, <4>2 DEF WaitingOK
            <4>4. QED
                BY <3>2, <4>3 DEF CallOK
        <3>3. QED
            BY <3>1, <3>2
    <2>2. call' = [call EXCEPT ![c] = call[c]]
        BY <1>8 DEF FailoverInv, FailoverTypes
    <2>3. QED
        BY <1>1, <1>3, <1>4, <1>5, <1>8, <2>1, <2>2, OneCallChanges
<1>9. QED
    BY <1>6, <1>7, <1>8 DEF ProviderFails

LEMMA AttemptTimerKeeps ==
    ASSUME FailoverInv, NEW c \in Calls, AttemptTimer(c) PROVE FailoverInv'
<1>1. /\ call[c] \in CallRecord /\ attempt[c] \in [Providers -> AttemptRecord] /\ failoverTime \in Nat
      /\ CallOK(call[c], attempt[c], failoverTime) /\ FailoverTypes
    BY OneCall
<1>2. call[c].at = "waiting"
    <2>1. call[c].timer = failoverTime /\ failoverTime <= LastFailoverTime
        BY <1>1 DEF AttemptTimer, FailoverTypes
    <2>2. call[c].timer # NeverFires
        BY <1>1, <2>1, NeverIsLate, FailoverAssumption
    <2>3. QED
        BY <1>1, <2>2 DEF CallOK
<1>3. WaitingOK(call[c], attempt[c], failoverTime)
    BY <1>1, <1>2 DEF CallOK
<1>4. /\ call' = [call EXCEPT ![c] = CallLaunched(call[c])]
      /\ attempt' = [attempt EXCEPT ![c] = AttemptsLaunched(call[c], attempt[c])]
      /\ UNCHANGED <<failoverTime, health, failedInRow>>
    BY DEF AttemptTimer
<1>5. health' \in [Providers -> HealthRecord] /\ failedInRow' \in [Providers -> Nat] /\ HealthInv'
    BY <1>4, UnjudgedKeepsHealth
<1>6. /\ CallLaunched(call[c]) \in CallRecord /\ CallLaunched(call[c]).at = "waiting"
      /\ AttemptsLaunched(call[c], attempt[c]) \in [Providers -> AttemptRecord]
      /\ WaitingOK(CallLaunched(call[c]), AttemptsLaunched(call[c], attempt[c]), failoverTime)
    <2>1. CASE call[c].queue # << >>
        <3>1. AskedInTime(call[c], attempt[c], failoverTime)
            BY <1>1, <1>3, <2>1, WaitingAsksInTime
        <3>2. HoldsTheRest(call[c].queue, attempt[c]) /\ \A r \in Providers : attempt[c][r].at # "answered"
            BY <1>3 DEF WaitingOK
        <3>3. QED
            BY <1>1, <1>2, <2>1, <3>1, <3>2, LaunchKeepsWaiting
    <2>2. CASE call[c].queue = << >>
        <3> PICK l : l = CallLaunched(call[c])
            OBVIOUS
        <3>1. l = [at |-> call[c].at, queue |-> << >>, timer |-> NeverFires, started |-> call[c].started]
            BY <2>2 DEF CallLaunched
        <3>2. AttemptsLaunched(call[c], attempt[c]) = attempt[c]
            BY <2>2 DEF AttemptsLaunched
        <3>3. << >> \in Seq(Providers) /\ NeverFires \in Nat /\ call[c].started \in Nat
            BY <1>1, NeverIsLate DEF CallRecord
        <3>4. l \in CallRecord /\ l.at = "waiting" /\ l.queue = << >> /\ l.started = call[c].started
            BY <1>2, <3>1, <3>3 DEF CallRecord
        <3>5. WaitingOK(l, attempt[c], failoverTime)
            BY <1>3, <2>2, <3>4 DEF WaitingOK
        <3>6. QED
            BY <1>1, <3>2, <3>4, <3>5
    <2>3. QED
        BY <2>1, <2>2
<1>7. CallOK(CallLaunched(call[c]), AttemptsLaunched(call[c], attempt[c]), failoverTime)
    BY <1>6 DEF CallOK
<1>8. QED
    BY <1>4, <1>5, <1>6, <1>7, OneCallChanges

LEMMA SlowTimerKeeps ==
    ASSUME FailoverInv, NEW c \in Calls, NEW p \in Providers, SlowTimer(c, p) PROVE FailoverInv'
<1> PICK how : how = attempt[c][p].at
    OBVIOUS
<1> PICK B : B = AttemptEnds(c, p, how)
    OBVIOUS
<1>1. /\ call[c] \in CallRecord /\ attempt[c] \in [Providers -> AttemptRecord] /\ failoverTime \in Nat
      /\ CallOK(call[c], attempt[c], failoverTime) /\ FailoverTypes /\ NeverFires \in Nat
    BY OneCall, FailoverAssumption DEF NeverFires
<1>2. B = [attempt[c] EXCEPT ![p] = [at |-> how, slowAt |-> NeverFires]]
    BY DEF AttemptEnds
<1>3. how \in {"none", "pending", "answered", "failed"}
    BY <1>1 DEF AttemptRecord
<1>4. B \in [Providers -> AttemptRecord] /\ \A r \in Providers : B[r].at = attempt[c][r].at
    BY <1>1, <1>2, <1>3 DEF AttemptRecord
<1>5. AskedIn(B) = AskedIn(attempt[c]) /\ \A q : HoldsTheRest(q, attempt[c]) => HoldsTheRest(q, B)
    BY <1>4 DEF AskedIn, HoldsTheRest
<1>6. WaitingOK(call[c], attempt[c], failoverTime) => WaitingOK(call[c], B, failoverTime)
    BY <1>4, <1>5 DEF WaitingOK
<1>7. CallOK(call[c], B, failoverTime)
    BY <1>1, <1>4, <1>5, <1>6 DEF CallOK
<1>8. /\ call' = [call EXCEPT ![c] = call[c]] /\ attempt' = [attempt EXCEPT ![c] = B] /\ UNCHANGED failoverTime
    BY DEF SlowTimer, FailoverInv, FailoverTypes
<1>9. health' \in [Providers -> HealthRecord] /\ failedInRow' \in [Providers -> Nat] /\ HealthInv'
    BY <1>8, JudgedKeepsHealth DEF SlowTimer
<1>10. QED
    BY <1>1, <1>4, <1>7, <1>8, <1>9, OneCallChanges

LEMMA CallTimerKeeps ==
    ASSUME FailoverInv, NEW c \in Calls, CallTimer(c) PROVE FailoverInv'
<1> PICK A : A = attempt[c]
    OBVIOUS
<1> PICK n : n = Cardinality(AskedIn(A))
    OBVIOUS
<1>1. /\ call[c] \in CallRecord /\ A \in [Providers -> AttemptRecord] /\ failoverTime \in Nat
      /\ CallOK(call[c], A, failoverTime)
    BY OneCall
<1>2. WaitingOK(call[c], A, failoverTime) /\ call[c].started + CallTimeout = failoverTime /\ call[c].started \in Nat
    BY <1>1 DEF CallTimer, CallOK, CallRecord
<1>3. ASSUME (Cardinality(Providers) - 1) * AttemptTimeout < CallTimeout PROVE AskedIn(A) = Providers
    <2>1. CASE call[c].queue = << >>
        BY <1>2, <2>1 DEF WaitingOK, HoldsTheRest, AskedIn
    <2>2. CASE call[c].queue # << >>
        <3> SUFFICES ASSUME AskedIn(A) # Providers PROVE FALSE
            OBVIOUS
        <3>1. n \in Nat /\ n <= Cardinality(Providers) - 1 /\ Cardinality(Providers) - 1 \in Nat
            BY AskedAreCounted
        <3>2. n * AttemptTimeout <= (Cardinality(Providers) - 1) * AttemptTimeout
            BY <3>1, TimesMonotone, FailoverAssumption
        <3>3. n * AttemptTimeout \in Nat /\ (Cardinality(Providers) - 1) * AttemptTimeout \in Nat
            BY <3>1, TimesSuccessor, FailoverAssumption
        <3>4. failoverTime <= call[c].started + n * AttemptTimeout
            BY <1>1, <1>2, <2>2, WaitingAsksInTime DEF AskedInTime
        <3>5. QED
            BY <1>1, <1>2, <1>3, <3>2, <3>3, <3>4, FailoverAssumption
    <2>3. QED
        BY <2>1, <2>2
<1>4. Settled("timed out") \in CallRecord /\ CallOK(Settled("timed out"), A, failoverTime)
    BY <1>3, SettledOK DEF CallOK
<1>5. /\ call' = [call EXCEPT ![c] = Settled("timed out")] /\ attempt' = [attempt EXCEPT ![c] = A]
      /\ UNCHANGED <<failoverTime, health, failedInRow>>
    BY DEF CallTimer, FailoverInv, FailoverTypes
<1>6. health' \in [Providers -> HealthRecord] /\ failedInRow' \in [Providers -> Nat] /\ HealthInv'
    BY <1>5, UnjudgedKeepsHealth
<1>7. QED
    BY <1>1, <1>4, <1>5, <1>6, OneCallChanges

LEMMA TickKeepsCalls ==
    ASSUME FailoverInv, FailoverTick PROVE FailoverInv'
<1>1. UNCHANGED <<health, call, attempt, failedInRow>> /\ failoverTime' = failoverTime + 1 /\ failoverTime < LastFailoverTime
    BY DEF FailoverTick
<1>2. FailoverTypes'
    BY <1>1, FailoverAssumption DEF FailoverInv, FailoverTypes
<1>3. HealthInv'
    <2>1. ASSUME NEW p \in Providers
          PROVE  health[p].asideUntil \in Nat
        BY DEF FailoverInv, FailoverTypes, HealthRecord
    <2>2. QED
        BY <1>1, <2>1, FailoverAssumption DEF FailoverInv, FailoverTypes, HealthInv
<1>4. ASSUME NEW c \in Calls PROVE CallOK(call[c], attempt[c], failoverTime + 1)
    <2>1. /\ call[c] \in CallRecord /\ failoverTime \in Nat
          /\ CallOK(call[c], attempt[c], failoverTime)
        BY OneCall
    <2>2. call[c].timer # failoverTime /\ call[c].timer \in Nat /\ call[c].started \in Nat
        BY <2>1 DEF FailoverTick, CallRecord
    <2>3. WaitingOK(call[c], attempt[c], failoverTime) => WaitingOK(call[c], attempt[c], failoverTime + 1)
        BY <2>1, <2>2 DEF WaitingOK
    <2>4. QED
        BY <2>1, <2>3 DEF CallOK
<1>5. QED
    BY <1>1, <1>2, <1>3, <1>4 DEF FailoverInv

LEMMA RecordsKeep ==
    ASSUME FailoverInv, NEW p \in Providers, PollerRecords(p) PROVE FailoverInv'
<1>1. health' \in [Providers -> HealthRecord] /\ failedInRow' \in [Providers -> Nat] /\ HealthInv'
    BY JudgingKeepsHealth DEF PollerRecords, FailoverInv
<1>2. UNCHANGED <<failoverTime, call, attempt>>
    BY DEF PollerRecords
<1>3. QED
    BY <1>1, <1>2 DEF FailoverInv, FailoverTypes

LEMMA FailoverInductive == FailoverInv /\ [FailoverNext]_failoverVars => FailoverInv'
<1> SUFFICES ASSUME FailoverInv, [FailoverNext]_failoverVars PROVE FailoverInv'
    OBVIOUS
<1>1. CASE UNCHANGED failoverVars
    BY <1>1 DEF failoverVars, FailoverInv, FailoverTypes, HealthInv
<1>2. CASE FailoverNext
    BY <1>2, PerformKeeps, AttemptTimerKeeps, CallTimerKeeps, AnswerKeeps, FailureKeeps, SlowTimerKeeps,
       RecordsKeep, TickKeepsCalls DEF FailoverNext
<1>3. QED
    BY <1>1, <1>2

LEMMA FailoverInvSuffices == FailoverInv => NoProviderDecides /\ AsideOnlyWhileFailing
<1> SUFFICES ASSUME FailoverInv PROVE NoProviderDecides /\ AsideOnlyWhileFailing
    OBVIOUS
<1>1. AsideOnlyWhileFailing
    <2> SUFFICES ASSUME NEW p \in Providers, health[p].asideUntil > failoverTime
                 PROVE  failedInRow[p] >= FAILURES_TO_SET_ASIDE /\ health[p].asideUntil <= failoverTime + MAX_COOLDOWN
        BY DEF AsideOnlyWhileFailing
    <2>1. health[p].asideUntil \in Nat /\ health[p].failures \in Nat /\ failedInRow[p] \in Nat /\ failoverTime \in Nat
        BY DEF FailoverInv, FailoverTypes, HealthRecord
    <2>2. QED
        BY <2>1, FailoverAssumption DEF FailoverInv, HealthInv
<1>2. ASSUME NEW c \in Calls
      PROVE  /\ call[c].at = "waiting" =>
                   /\ \E p \in Providers : attempt[c][p].at = "pending"
                   /\ \A p \in Providers : attempt[c][p].at # "answered"
                   /\ \/ Asked(c) = Providers
                      \/ Cardinality(Asked(c)) * AttemptTimeout >= failoverTime - call[c].started
             /\ call[c].at = "failed" => \A p \in Providers : attempt[c][p].at = "failed"
             /\ call[c].at = "timed out" /\ (Cardinality(Providers) - 1) * AttemptTimeout < CallTimeout
                   => Asked(c) = Providers
    <2>1. /\ call[c] \in CallRecord /\ failoverTime \in Nat /\ CallOK(call[c], attempt[c], failoverTime)
        BY OneCall
    <2>2. Asked(c) = AskedIn(attempt[c])
        BY DEF Asked, AskedIn
    <2>3. ASSUME call[c].at = "waiting"
          PROVE  /\ \E p \in Providers : attempt[c][p].at = "pending"
                 /\ \A p \in Providers : attempt[c][p].at # "answered"
                 /\ \/ Asked(c) = Providers
                    \/ Cardinality(Asked(c)) * AttemptTimeout >= failoverTime - call[c].started
        <3>1. WaitingOK(call[c], attempt[c], failoverTime)
            BY <2>1, <2>3 DEF CallOK
        <3>2. CASE call[c].queue = << >>
            <4>1. AskedIn(attempt[c]) = Providers
                BY <3>1, <3>2 DEF WaitingOK, HoldsTheRest, AskedIn
            <4>2. QED
                BY <2>2, <3>1, <4>1 DEF WaitingOK
        <3>3. CASE call[c].queue # << >>
            <4>1. AskedInTime(call[c], attempt[c], failoverTime)
                BY <2>1, <3>1, <3>3, WaitingAsksInTime
            <4>2. Cardinality(AskedIn(attempt[c])) * AttemptTimeout \in Nat /\ call[c].started \in Nat
                BY AskedAreCounted, TimesSuccessor, FailoverAssumption, <2>1 DEF CallRecord
            <4>3. Cardinality(AskedIn(attempt[c])) * AttemptTimeout >= failoverTime - call[c].started
                BY <2>1, <4>1, <4>2 DEF AskedInTime
            <4>4. QED
                BY <2>2, <3>1, <4>3 DEF WaitingOK
        <3>4. QED
            BY <3>2, <3>3
    <2>4. QED
        BY <2>1, <2>2, <2>3 DEF CallOK
<1>3. QED
    BY <1>1, <1>2 DEF NoProviderDecides

\* FailoverProvider: no slow or failing provider decides a call, and none that answers is set aside.
THEOREM NoProviderDecidesAlways == FailoverSpec => [](NoProviderDecides /\ AsideOnlyWhileFailing)
BY FailoverInitially, FailoverInductive, FailoverInvSuffices, PTL DEF FailoverSpec

-----------------------------------------------------------------------------
(* ChainEventPoller, its first part.  Only the newest session is not       *)
(* aborted, while somebody listens; GotOnce says what each listener has    *)
(* got by then of the logs L.                                              *)

PollSession ==
    [at : {"blockNumber", "idle", "latest", "logs", "ended"}, aborted : BOOLEAN, fromBlock : Nat, newFromBlock : Nat,
     polls : 0 .. FromBlockThreshold, queue : SUBSET Providers, asked : Providers \cup {NoProvider},
     filter : SUBSET FilterOf(Listeners)]

PollerTypes ==
    /\ head \in [Providers -> 0 .. MaxBlocks]
    /\ listeners \subseteq Listeners
    /\ session \in Seq(PollSession) /\ Len(session) <= MaxPollSessions
    /\ delivered \in [Listeners -> [Blocks -> Nat]]
    /\ coveredFrom \in [Listeners -> Nat]

(* A poll moves past its provider's head at most: the block it would move  *)
(* to was told by the provider that is asked for the logs.                 *)
PollOK(s, heads) ==
    /\ s.at = "blockNumber" => s.fromBlock = 0
    /\ s.at \in {"latest", "logs"} => s.asked \in s.queue /\ s.asked \in Providers
    /\ s.at = "latest" => s.polls >= FromBlockThreshold
    /\ s.at = "logs" => s.newFromBlock <= heads[s.asked] + 1
    /\ s.at \in {"latest", "logs"} /\ s.polls < FromBlockThreshold => s.newFromBlock = 0

NewestOnly ==
    /\ \A i \in 1 .. Len(session) : ~session[i].aborted => i = Len(session) /\ listeners # {}
    /\ listeners # {} => Len(session) > 0 /\ ~session[Len(session)].aborted

(* A listener with the counts D, covered from block `from`: it has got     *)
(* nothing from fromBlock on, and what lies before it once; a filter in    *)
(* use has its kind.                                                       *)
GotOnce(L, s, l, D, from) ==
    /\ \A b \in Blocks :
          /\ D[b] <= 1
          /\ b >= s.fromBlock => D[b] = 0
          /\ Kind(l) \in L[b] /\ from <= b /\ b < s.fromBlock => D[b] = 1
    /\ s.at = "blockNumber" => from = NotCovered
    /\ s.at = "logs" /\ from # NotCovered => Kind(l) \in s.filter

PollerInv ==
    /\ PollerTypes
    /\ \A i \in 1 .. Len(session) : PollOK(session[i], head)
    /\ NewestOnly
    /\ \A l \in listeners : GotOnce(logs, session[Len(session)], l, delivered[l], coveredFrom[l])

\* The fields of a session, and of one of which some fields have changed.
LEMMA SessionFields ==
    ASSUME NEW s \in PollSession
    PROVE  /\ s.at \in {"blockNumber", "idle", "latest", "logs", "ended"} /\ s.aborted \in BOOLEAN
           /\ s.fromBlock \in Nat /\ s.newFromBlock \in Nat /\ s.polls \in 0 .. FromBlockThreshold
           /\ s.queue \subseteq Providers /\ s.asked \in Providers \cup {NoProvider}
           /\ s.filter \subseteq FilterOf(Listeners)
BY DEF PollSession

LEMMA WithEnd ==
    ASSUME NEW s \in PollSession, NEW t, t = [s EXCEPT !.at = "ended", !.aborted = TRUE]
    PROVE  t \in PollSession /\ t.at = "ended" /\ t.aborted
BY DEF PollSession

LEMMA NewSessions ==
    /\ NewPollSession \in PollSession /\ NewPollSession.at = "blockNumber" /\ ~NewPollSession.aborted
    /\ NewPollSession.fromBlock = 0
    /\ SessionEnded \in PollSession /\ SessionEnded.at = "ended" /\ SessionEnded.aborted
<1>1. 0 \in 0 .. FromBlockThreshold
    BY ChainEventPollerAssumption
<1>2. NewPollSession \in PollSession
    BY <1>1 DEF NewPollSession, PollSession
<1>3. SessionEnded \in PollSession /\ SessionEnded.at = "ended" /\ SessionEnded.aborted
    BY <1>2, WithEnd DEF SessionEnded
<1>4. QED
    BY <1>2, <1>3 DEF NewPollSession

LEMMA WithAborted ==
    ASSUME NEW s \in PollSession, NEW t, t = [s EXCEPT !.aborted = TRUE]
    PROVE  t \in PollSession /\ t.aborted /\ t.at = s.at /\ t.fromBlock = s.fromBlock /\ t.queue = s.queue /\ t.asked = s.asked
           /\ t.polls = s.polls /\ t.newFromBlock = s.newFromBlock
BY DEF PollSession

IdleFrom(s, h) == [s EXCEPT !.fromBlock = h, !.at = "idle"]
LogsAsked(s, F) == [s EXCEPT !.at = "logs", !.filter = F]
LatestAsked(s, p) == [s EXCEPT !.at = "latest", !.asked = p]
WithoutAsked(s, left) == [s EXCEPT !.queue = left]

LEMMA WithFirstBlock ==
    \A x \in PollSession : \A y \in Nat :
        /\ IdleFrom(x, y) \in PollSession /\ IdleFrom(x, y).aborted = x.aborted
        /\ IdleFrom(x, y).at = "idle" /\ IdleFrom(x, y).fromBlock = y
<1> SUFFICES ASSUME NEW x \in PollSession, NEW y \in Nat
             PROVE  /\ IdleFrom(x, y) \in PollSession /\ IdleFrom(x, y).aborted = x.aborted
                    /\ IdleFrom(x, y).at = "idle" /\ IdleFrom(x, y).fromBlock = y
    OBVIOUS
<1>1. PICK t : t = IdleFrom(x, y)
    OBVIOUS
<1>2. t \in PollSession /\ t.aborted = x.aborted /\ t.at = "idle" /\ t.fromBlock = y
    BY <1>1 DEF PollSession, IdleFrom
<1>3. QED
    BY <1>1, <1>2, Zenon

LEMMA WithFilter ==
    ASSUME NEW s \in PollSession, NEW F \in SUBSET FilterOf(Listeners), NEW t, t = LogsAsked(s, F)
    PROVE  t \in PollSession /\ t.aborted = s.aborted /\ t.at = "logs" /\ t.fromBlock = s.fromBlock
           /\ t.newFromBlock = s.newFromBlock /\ t.polls = s.polls /\ t.queue = s.queue /\ t.asked = s.asked
           /\ t.filter = F
BY DEF PollSession, LogsAsked

LEMMA WithLatest ==
    ASSUME NEW s \in PollSession, NEW p \in Providers, NEW t, t = LatestAsked(s, p)
    PROVE  t \in PollSession /\ t.aborted = s.aborted /\ t.at = "latest" /\ t.fromBlock = s.fromBlock
           /\ t.newFromBlock = s.newFromBlock /\ t.polls = s.polls /\ t.queue = s.queue /\ t.asked = p
BY DEF PollSession, LatestAsked

LEMMA WithAsked ==
    ASSUME NEW s \in PollSession, NEW p \in Providers, NEW t, t = [s EXCEPT !.asked = p]
    PROVE  t \in PollSession /\ t.aborted = s.aborted /\ t.fromBlock = s.fromBlock
           /\ t.newFromBlock = s.newFromBlock /\ t.polls = s.polls /\ t.queue = s.queue /\ t.asked = p
BY DEF PollSession

LEMMA WithQueue ==
    ASSUME NEW s \in PollSession, NEW t, t = [s EXCEPT !.newFromBlock = 0, !.queue = Providers]
    PROVE  t \in PollSession /\ t.aborted = s.aborted /\ t.fromBlock = s.fromBlock
           /\ t.newFromBlock = 0 /\ t.polls = s.polls /\ t.queue = Providers
BY DEF PollSession

LEMMA WithNewBlock ==
    ASSUME NEW s \in PollSession, NEW n \in Nat, NEW t, t = [s EXCEPT !.newFromBlock = n]
    PROVE  t \in PollSession /\ t.aborted = s.aborted /\ t.at = s.at /\ t.fromBlock = s.fromBlock
           /\ t.newFromBlock = n /\ t.polls = s.polls /\ t.queue = s.queue /\ t.asked = s.asked /\ t.filter = s.filter
BY DEF PollSession

LEMMA WithLeft ==
    ASSUME NEW s \in PollSession, NEW left \in SUBSET Providers, NEW t, t = WithoutAsked(s, left)
    PROVE  t \in PollSession /\ t.aborted = s.aborted /\ t.fromBlock = s.fromBlock
           /\ t.newFromBlock = s.newFromBlock /\ t.polls = s.polls /\ t.queue = left /\ t.asked = s.asked
BY DEF PollSession, WithoutAsked

\* The end of a poll.
LEMMA NextPollIdle ==
    ASSUME NEW s \in PollSession, NEW forward \in BOOLEAN, ~s.aborted
    PROVE  /\ NextPoll(s, forward) \in PollSession /\ NextPoll(s, forward).at = "idle" /\ ~NextPoll(s, forward).aborted
           /\ NextPoll(s, forward).fromBlock = IF forward THEN s.newFromBlock ELSE s.fromBlock
<1> PICK n : n = IF forward THEN s.newFromBlock ELSE s.fromBlock
    OBVIOUS
<1> PICK k : k = IF forward THEN 0 ELSE Min({s.polls + 1, FromBlockThreshold})
    OBVIOUS
<1>1. n \in Nat /\ s.polls \in 0 .. FromBlockThreshold /\ FromBlockThreshold \in Nat
    BY SessionFields, ChainEventPollerAssumption
<1>2. k \in 0 .. FromBlockThreshold
    <2>1. Min({s.polls + 1, FromBlockThreshold}) \in 0 .. FromBlockThreshold
        <3>1. s.polls + 1 \in Nat
            BY <1>1
        <3>2. QED
            BY <1>1, <3>1, MinOfTwo
    <2>2. QED
        BY <1>1, <2>1
<1>3. NextPoll(s, forward) = [NewPollSession EXCEPT !.at = "idle", !.fromBlock = n, !.polls = k]
    BY DEF NextPoll
<1>4. NextPoll(s, forward) = [at |-> "idle", aborted |-> FALSE, fromBlock |-> n, newFromBlock |-> 0,
                              polls |-> k, queue |-> {}, asked |-> NoProvider, filter |-> {}]
    BY <1>3 DEF NewPollSession
<1>5. NextPoll(s, forward) \in PollSession
    BY <1>1, <1>2, <1>4 DEF PollSession
<1>6. QED
    BY <1>4, <1>5

-----------------------------------------------------------------------------
LEMMA PollerInitially == PollerInit => PollerInv
<1> SUFFICES ASSUME PollerInit PROVE PollerInv
    OBVIOUS
<1>1. MaxBlocks \in Nat /\ NotCovered \in Nat
    BY ChainEventPollerAssumption DEF NotCovered
<1>2. session = << >> /\ Len(session) = 0 /\ session \in Seq(PollSession) /\ MaxPollSessions \in Nat
    BY ChainEventPollerAssumption DEF PollerInit
<1>3. PollerTypes
    BY <1>1, <1>2 DEF PollerInit, PollerTypes
<1>4. QED
    BY <1>2, <1>3 DEF PollerInit, PollerInv, NewestOnly

\* One session changes, and is in order with what was delivered afterwards.
LEMMA OneSessionChanges ==
    ASSUME PollerInv, NEW i \in 1 .. Len(session), NEW s \in PollSession, Put(i, s),
           s.aborted <=> session[i].aborted, PollOK(s, head), UNCHANGED <<logs, head, listeners>>,
           delivered' \in [Listeners -> [Blocks -> Nat]], coveredFrom' \in [Listeners -> Nat],
           ~s.aborted => \A l \in listeners : GotOnce(logs, s, l, delivered'[l], coveredFrom'[l]),
           s.aborted => \A l \in Listeners : delivered'[l] = delivered[l] /\ coveredFrom'[l] = coveredFrom[l]
    PROVE  PollerInv'
<1>1. session \in Seq(PollSession) /\ session' = [session EXCEPT ![i] = s]
    BY DEF PollerInv, PollerTypes, Put
<1>2. /\ session' \in Seq(PollSession) /\ Len(session') = Len(session)
      /\ session'[i] = s /\ \A j \in 1 .. Len(session) : j # i => session'[j] = session[j]
    BY <1>1
<1>3. PollerTypes'
    BY <1>2 DEF PollerInv, PollerTypes
<1>4. ASSUME NEW j \in 1 .. Len(session') PROVE PollOK(session'[j], head')
    BY <1>2 DEF PollerInv
<1>5. \A j \in 1 .. Len(session) : session'[j].aborted <=> session[j].aborted
    BY <1>2
<1>6. Len(session) \in Nat
    BY <1>1
<1>7. NewestOnly'
    BY <1>2, <1>5, <1>6 DEF PollerInv, NewestOnly
<1>8. ASSUME NEW l \in listeners
      PROVE  GotOnce(logs, session'[Len(session)], l, delivered'[l], coveredFrom'[l])
    <2>1. Len(session) \in 1 .. Len(session) /\ ~session[Len(session)].aborted /\ l \in Listeners
        BY <1>6 DEF PollerInv, NewestOnly, PollerTypes
    <2>2. GotOnce(logs, session[Len(session)], l, delivered[l], coveredFrom[l])
        BY DEF PollerInv
    <2>3. CASE i = Len(session)
        BY <1>2, <2>1, <2>3
    <2>4. CASE i # Len(session)
        <3>1. s.aborted
            BY <2>4 DEF PollerInv, NewestOnly
        <3>2. session'[Len(session)] = session[Len(session)]
            BY <1>2, <2>1, <2>4
        <3>3. QED
            BY <2>1, <2>2, <3>1, <3>2
    <2>5. QED
        BY <2>3, <2>4
<1>9. QED
    BY <1>2, <1>3, <1>4, <1>7, <1>8 DEF PollerInv

\* What the invariant says of one session.
LEMMA OneSession ==
    ASSUME PollerInv, NEW i \in 1 .. Len(session)
    PROVE  /\ session[i] \in PollSession /\ PollOK(session[i], head)
           /\ ~session[i].aborted => \A l \in listeners : GotOnce(logs, session[i], l, delivered[l], coveredFrom[l])
           /\ delivered \in [Listeners -> [Blocks -> Nat]] /\ coveredFrom \in [Listeners -> Nat]
           /\ listeners \subseteq Listeners /\ head \in [Providers -> 0 .. MaxBlocks]
BY DEF PollerInv, PollerTypes, NewestOnly

\* A session that ends was aborted.
LEMMA EndKeeps ==
    ASSUME PollerInv, NEW i \in 1 .. Len(session), session[i].aborted, Put(i, SessionEnded),
           UNCHANGED <<logs, head, listeners, delivered, coveredFrom>>
    PROVE  PollerInv'
<1>1. PollOK(SessionEnded, head)
    BY NewSessions DEF PollOK
<1>2. QED
    BY <1>1, NewSessions, OneSession, OneSessionChanges

\* The poll is over without logs, or the first block is known: the session waits.
LEMMA IdleKeeps ==
    ASSUME PollerInv, NEW i \in 1 .. Len(session), NEW s \in PollSession, Put(i, s), s.at = "idle",
           ~session[i].aborted, ~s.aborted,
           UNCHANGED <<logs, head, listeners, delivered, coveredFrom>>,
           \/ s.fromBlock = session[i].fromBlock
           \/ session[i].at = "blockNumber" /\ session[i].fromBlock <= s.fromBlock
    PROVE  PollerInv'
<1>1. PollOK(s, head)
    BY DEF PollOK
<1>2. ASSUME NEW l \in listeners PROVE GotOnce(logs, s, l, delivered[l], coveredFrom[l])
    <2>1. GotOnce(logs, session[i], l, delivered[l], coveredFrom[l])
        BY OneSession
    <2>2. CASE s.fromBlock = session[i].fromBlock
        BY <2>1, <2>2 DEF GotOnce
    <2>3. CASE session[i].at = "blockNumber" /\ session[i].fromBlock <= s.fromBlock
        <3>1. coveredFrom[l] = NotCovered /\ \A b \in Blocks : ~(NotCovered <= b)
            BY <2>1, <2>3, ChainEventPollerAssumption DEF GotOnce, NotCovered, Blocks
        <3>2. ASSUME NEW b \in Blocks, b >= s.fromBlock PROVE b >= session[i].fromBlock
            BY <2>3, <3>2, OneSession, SessionFields DEF Blocks
        <3>3. QED
            BY <2>1, <3>1, <3>2 DEF GotOnce
    <2>4. QED
        BY <2>2, <2>3
<1>3. QED
    BY <1>1, <1>2, OneSession, OneSessionChanges

LEMMA FirstBlockKeeps ==
    ASSUME PollerInv, NEW i \in 1 .. Len(session), NEW p \in Providers, FirstFromBlock(i, p)
    PROVE  PollerInv'
<1>1. /\ UNCHANGED <<logs, head, listeners, delivered, coveredFrom>> /\ session[i].at = "blockNumber"
      /\ Put(i, IF session[i].aborted THEN SessionEnded ELSE IdleFrom(session[i], head[p]))
    BY DEF FirstFromBlock, IdleFrom
<1>2. CASE session[i].aborted
    BY <1>1, <1>2, EndKeeps
<1>3. CASE ~session[i].aborted
    <2>1. head[p] \in Nat
        BY OneSession, ChainEventPollerAssumption
    <2> PICK h \in Nat : h = head[p]
        BY <2>1
    <2> PICK s : s = IdleFrom(session[i], h)
        OBVIOUS
    <2>2. session[i] \in PollSession
        BY OneSession
    <2>6. s \in PollSession /\ s.aborted = session[i].aborted /\ s.at = "idle" /\ s.fromBlock = h
        BY <2>2, WithFirstBlock, Zenon
    <2>3. Put(i, s)
        BY <1>1, <1>3
    <2>4. session[i].fromBlock <= s.fromBlock
        <3>1. session[i].fromBlock = 0
            BY <1>1, OneSession DEF PollOK
        <3>2. QED
            BY <2>1, <2>6, <3>1
    <2>5. QED
        BY <1>1, <1>3, <2>6, <2>3, <2>4, IdleKeeps
<1>4. QED
    BY <1>2, <1>3

\* getLogs with the filter of the listeners, at a provider of the queue.
LEMMA AskLogsKeeps ==
    ASSUME PollerInv, NEW i \in 1 .. Len(session), NEW s \in PollSession, AskLogs(i, s),
           s.aborted <=> session[i].aborted, s.fromBlock = session[i].fromBlock,
           s.asked \in s.queue, s.asked \in Providers, s.newFromBlock <= head[s.asked] + 1,
           s.polls < FromBlockThreshold => s.newFromBlock = 0,
           UNCHANGED <<logs, head, listeners, delivered>>
    PROVE  PollerInv'
<1> PICK t : t = LogsAsked(s, FilterOf(listeners))
    OBVIOUS
<1>1. listeners \subseteq Listeners /\ delivered \in [Listeners -> [Blocks -> Nat]] /\ coveredFrom \in [Listeners -> Nat]
    BY OneSession
<1>2. FilterOf(listeners) \in SUBSET FilterOf(Listeners)
    BY <1>1 DEF FilterOf
<1>3. t \in PollSession /\ t.aborted = s.aborted /\ t.at = "logs" /\ t.fromBlock = s.fromBlock
      /\ t.newFromBlock = s.newFromBlock /\ t.polls = s.polls /\ t.queue = s.queue /\ t.asked = s.asked
      /\ t.filter = FilterOf(listeners)
    BY <1>2, WithFilter
<1>4. Put(i, t)
    BY DEF AskLogs, LogsAsked
<1>5. PollOK(t, head)
    BY <1>3 DEF PollOK
<1>6. s.fromBlock \in Nat
    BY SessionFields
<1>7. coveredFrom' = [l \in Listeners |->
                          IF l \in listeners /\ coveredFrom[l] = NotCovered /\ ~s.aborted
                          THEN s.fromBlock ELSE coveredFrom[l]]
    BY DEF AskLogs
<1>8. coveredFrom' \in [Listeners -> Nat]
    BY <1>1, <1>6, <1>7
<1>9. ASSUME s.aborted, NEW l \in Listeners PROVE delivered'[l] = delivered[l] /\ coveredFrom'[l] = coveredFrom[l]
    BY <1>7, <1>9
<1>10. ASSUME ~s.aborted, NEW l \in listeners PROVE GotOnce(logs, t, l, delivered'[l], coveredFrom'[l])
    <2>1. GotOnce(logs, session[i], l, delivered[l], coveredFrom[l])
        BY <1>10, OneSession
    <2>2. Kind(l) \in FilterOf(listeners)
        BY <1>1, ChainEventPollerAssumption DEF FilterOf
    <2>3. t.fromBlock = session[i].fromBlock /\ t.at = "logs" /\ t.filter = FilterOf(listeners)
        BY <1>3
    <2>4. coveredFrom'[l] = s.fromBlock \/ coveredFrom'[l] = coveredFrom[l]
        BY <1>1, <1>7
    <2>5. \A b \in Blocks : ~(s.fromBlock <= b /\ b < s.fromBlock)
        BY <1>6 DEF Blocks
    <2>6. CASE coveredFrom'[l] = coveredFrom[l]
        BY <2>1, <2>2, <2>3, <2>6 DEF GotOnce
    <2>7. CASE coveredFrom'[l] = s.fromBlock
        BY <1>3, <2>1, <2>2, <2>3, <2>5, <2>7 DEF GotOnce
    <2>8. QED
        BY <2>4, <2>6, <2>7
<1>11. QED
    BY <1>1, <1>3, <1>4, <1>5, <1>8, <1>9, <1>10, OneSessionChanges

\* withProvider() asks the next provider: for its block number first, when fromBlock has been old for long.
LEMMA AskProviderKeeps ==
    ASSUME PollerInv, NEW i \in 1 .. Len(session), NEW s \in PollSession, NEW p \in Providers, p \in s.queue,
           AskProvider(i, s, p), session[i].at # "blockNumber",
           s.aborted <=> session[i].aborted, s.fromBlock = session[i].fromBlock,
           s.polls < FromBlockThreshold => s.newFromBlock = 0,
           UNCHANGED <<logs, head, listeners, delivered>>
    PROVE  PollerInv'
<1>0. s.polls \in 0 .. FromBlockThreshold /\ FromBlockThreshold \in Nat
    BY SessionFields, ChainEventPollerAssumption
<1>1. CASE s.polls >= FromBlockThreshold
    <2> PICK t : t = LatestAsked(s, p)
        OBVIOUS
    <2>1. t \in PollSession /\ t.aborted = s.aborted /\ t.at = "latest" /\ t.fromBlock = s.fromBlock
          /\ t.newFromBlock = s.newFromBlock /\ t.polls = s.polls /\ t.queue = s.queue /\ t.asked = p
        BY WithLatest
    <2>2. Put(i, t) /\ UNCHANGED coveredFrom
        BY <1>0, <1>1 DEF AskProvider, LatestAsked
    <2>3. PollOK(t, head)
        BY <1>1, <2>1 DEF PollOK
    <2>4. ASSUME ~t.aborted, NEW l \in listeners PROVE GotOnce(logs, t, l, delivered[l], coveredFrom[l])
        <3>1. GotOnce(logs, session[i], l, delivered[l], coveredFrom[l])
            BY <2>1, <2>4, OneSession
        <3>2. t.fromBlock = session[i].fromBlock /\ t.at = "latest"
            BY <2>1
        <3>3. QED
            BY <3>1, <3>2 DEF GotOnce
    <2>5. QED
        BY <2>1, <2>2, <2>3, <2>4, OneSession, OneSessionChanges
<1>2. CASE s.polls < FromBlockThreshold
    <2> PICK t : t = [s EXCEPT !.asked = p]
        OBVIOUS
    <2>1. t \in PollSession /\ t.aborted = s.aborted /\ t.fromBlock = s.fromBlock
          /\ t.newFromBlock = s.newFromBlock /\ t.polls = s.polls /\ t.queue = s.queue /\ t.asked = p
        BY WithAsked
    <2>2. AskLogs(i, t)
        BY <1>0, <1>2 DEF AskProvider
    <2>3. head[p] \in Nat
        BY OneSession, ChainEventPollerAssumption
    <2>4. t.newFromBlock <= head[t.asked] + 1
        BY <1>2, <2>1, <2>3
    <2>5. QED
        BY <1>2, <2>1, <2>2, <2>4, AskLogsKeeps
<1>3. QED
    BY <1>0, <1>1, <1>2

LEMMA PollTimerKeeps ==
    ASSUME PollerInv, NEW i \in 1 .. Len(session), PollTimer(i)
    PROVE  PollerInv'
<1> PICK s : s = [session[i] EXCEPT !.newFromBlock = 0, !.queue = Providers]
    OBVIOUS
<1>1. session[i] \in PollSession
    BY OneSession
<1>2. s \in PollSession /\ s.aborted = session[i].aborted /\ s.fromBlock = session[i].fromBlock
      /\ s.newFromBlock = 0 /\ s.polls = session[i].polls /\ s.queue = Providers
    BY <1>1, WithQueue
<1>3. PICK p \in Providers : AskProvider(i, s, p)
    BY DEF PollTimer
<1>4. UNCHANGED <<logs, head, listeners, delivered>> /\ session[i].at = "idle"
    BY DEF PollTimer
<1>5. QED
    BY <1>2, <1>3, <1>4, AskProviderKeeps

LEMMA LatestKeeps ==
    ASSUME PollerInv, NEW i \in 1 .. Len(session), LatestAnswered(i)
    PROVE  PollerInv'
<1> PICK s : s = [session[i] EXCEPT !.newFromBlock = head[session[i].asked] + 1]
    OBVIOUS
<1>1. session[i] \in PollSession /\ PollOK(session[i], head) /\ session[i].at = "latest"
    BY OneSession DEF LatestAnswered
<1>2. /\ session[i].asked \in session[i].queue /\ session[i].asked \in Providers
      /\ session[i].polls >= FromBlockThreshold
    BY <1>1 DEF PollOK
<1>3. head[session[i].asked] + 1 \in Nat /\ FromBlockThreshold \in Nat /\ session[i].polls \in Nat
    BY <1>1, <1>2, OneSession, SessionFields, ChainEventPollerAssumption
<1>4. s \in PollSession /\ s.aborted = session[i].aborted /\ s.fromBlock = session[i].fromBlock
      /\ s.newFromBlock = head[session[i].asked] + 1 /\ s.polls = session[i].polls
      /\ s.queue = session[i].queue /\ s.asked = session[i].asked
    BY <1>1, <1>3, WithNewBlock
<1>5. UNCHANGED <<logs, head, listeners, delivered>>
      /\ ((s.aborted /\ Put(i, SessionEnded) /\ UNCHANGED coveredFrom) \/ (~s.aborted /\ AskLogs(i, s)))
    BY DEF LatestAnswered
<1>6. CASE s.aborted /\ Put(i, SessionEnded) /\ UNCHANGED coveredFrom
    BY <1>4, <1>5, <1>6, EndKeeps
<1>7. CASE AskLogs(i, s)
    <2>1. s.newFromBlock <= head[s.asked] + 1 /\ ~(s.polls < FromBlockThreshold)
        BY <1>2, <1>3, <1>4
    <2>2. s.asked \in s.queue /\ s.asked \in Providers
        BY <1>2, <1>4
    <2>3. QED
        BY <1>4, <1>5, <1>7, <2>1, <2>2, AskLogsKeeps
<1>8. QED
    BY <1>5, <1>6, <1>7

LEMMA RequestFailsKeeps ==
    ASSUME PollerInv, NEW i \in 1 .. Len(session), RequestFails(i)
    PROVE  PollerInv'
<1> PICK left : left = session[i].queue \ {session[i].asked}
    OBVIOUS
<1> PICK s : s = WithoutAsked(session[i], left)
    OBVIOUS
<1>1. session[i] \in PollSession /\ PollOK(session[i], head) /\ session[i].at \in {"latest", "logs"}
    BY OneSession DEF RequestFails
<1>2. left \in SUBSET Providers
    BY <1>1, SessionFields
<1>3. s \in PollSession /\ s.aborted = session[i].aborted /\ s.fromBlock = session[i].fromBlock
      /\ s.newFromBlock = session[i].newFromBlock /\ s.polls = session[i].polls
      /\ s.queue = left
    BY <1>1, <1>2, WithLeft
<1>4. UNCHANGED <<logs, head, listeners, delivered>>
    BY DEF RequestFails
<1>5. (\E p \in left : AskProvider(i, s, p)) \/ (Put(i, NextPoll(s, FALSE)) /\ UNCHANGED coveredFrom)
    BY DEF RequestFails, WithoutAsked
<1>6. ASSUME NEW p \in left, AskProvider(i, s, p) PROVE PollerInv'
    <2>1. p \in Providers /\ p \in s.queue
        BY <1>2, <1>3
    <2>2. s.polls < FromBlockThreshold => s.newFromBlock = 0
        BY <1>1, <1>3 DEF PollOK
    <2>3. session[i].at # "blockNumber"
        BY <1>1
    <2>4. QED
        BY <1>3, <1>4, <1>6, <2>1, <2>2, <2>3, AskProviderKeeps
<1>7. CASE Put(i, NextPoll(s, FALSE)) /\ UNCHANGED coveredFrom
    <2>1. CASE s.aborted
        <3>1. Put(i, SessionEnded) /\ session[i].aborted
            BY <1>3, <1>7, <2>1 DEF NextPoll
        <3>2. QED
            BY <1>4, <1>7, <3>1, EndKeeps
    <2>2. CASE ~s.aborted
        <3> PICK t : t = NextPoll(s, FALSE)
            OBVIOUS
        <3>1. t \in PollSession /\ t.at = "idle" /\ ~t.aborted /\ t.fromBlock = s.fromBlock
            BY <1>3, <2>2, NextPollIdle
        <3>2. Put(i, t) /\ ~session[i].aborted /\ t.fromBlock = session[i].fromBlock
            BY <1>3, <1>7, <2>2, <3>1
        <3>3. QED
            BY <1>4, <1>7, <3>1, <3>2, IdleKeeps
    <2>3. QED
        BY <2>1, <2>2
<1>8. QED
    BY <1>5, <1>6, <1>7

\* A bounded set of naturals has a greatest element.
LEMMA GreatestExists ==
    ASSUME NEW T \in SUBSET Nat, NEW top \in Nat, \A x \in T : x <= top, T # {}
    PROVE  Max(T) \in T /\ \A y \in T : y <= Max(T)
<1> DEFINE U == {top - x : x \in T}
<1>1. U \in SUBSET Nat /\ U # {}
    <2>1. \A x \in T : top - x \in Nat
        OBVIOUS
    <2>2. QED
        BY <2>1
<1>2. IsWellFoundedOn(OpToRel(<, Nat), Nat)
    BY NatLessThanWellFounded
<1>3. PICK u \in U : \A y \in U : ~(<<y, u>> \in OpToRel(<, Nat))
    BY <1>1, <1>2, WFMin
<1>4. \A y \in U : ~(y < u)
    BY <1>1, <1>3 DEF OpToRel
<1>5. PICK x \in T : u = top - x
    BY <1>3
<1>6. ASSUME NEW y \in T PROVE x >= y
    <2>1. ~(top - y < top - x)
        BY <1>4, <1>5
    <2>2. x \in Nat /\ y \in Nat
        OBVIOUS
    <2>3. QED
        BY <2>1, <2>2
<1>7. \E z \in T : \A y \in T : z >= y
    BY <1>5, <1>6
<1>8. Max(T) \in T /\ \A y \in T : Max(T) >= y
    BY <1>7 DEF Max
<1>9. QED
    BY <1>8

\* The events of an answer.
EventsOf(s, L, heads, ls) ==
    {e \in (s.fromBlock .. heads[s.asked]) \X s.filter :
        e[1] \in Blocks /\ e[2] \in L[e[1]] /\ \E l \in ls : Kind(l) = e[2]}

WithCounts(D, ls, events) ==
    [l \in Listeners |-> [b \in Blocks |-> D[l][b] + (IF l \in ls /\ <<b, Kind(l)>> \in events THEN 1 ELSE 0)]]

\* fromBlock moves to n: past all the events, and past no block the provider does not know.
LEMMA MovesPastEvents ==
    ASSUME NEW s \in PollSession, NEW L, NEW heads \in [Providers -> 0 .. MaxBlocks], NEW ls \in SUBSET Listeners,
           s.at = "logs", PollOK(s, heads), NEW events, events = EventsOf(s, L, heads, ls),
           NEW n, n = IF events = {} THEN s.newFromBlock ELSE Max({e[1] : e \in events}) + 1
    PROVE  /\ n \in Nat /\ n <= heads[s.asked] + 1
           /\ \A e \in events : e[1] < n /\ e[1] >= s.fromBlock /\ s.fromBlock < n
<1>0. s.asked \in Providers /\ heads[s.asked] \in Nat /\ s.newFromBlock <= heads[s.asked] + 1
      /\ s.newFromBlock \in Nat /\ s.fromBlock \in Nat
    BY SessionFields, ChainEventPollerAssumption DEF PollOK
<1>1. CASE events = {}
    BY <1>0, <1>1
<1>2. CASE events # {}
    <2> DEFINE T == {e[1] : e \in events}
    <2>1. \A e \in events : e[1] \in Nat /\ e[1] >= s.fromBlock /\ e[1] <= heads[s.asked]
        BY <1>0 DEF EventsOf
    <2>2. T \in SUBSET Nat /\ T # {} /\ \A x \in T : x <= heads[s.asked]
        BY <1>2, <2>1
    <2>3. Max(T) \in T /\ \A y \in T : y <= Max(T)
        BY <1>0, <2>2, GreatestExists
    <2>4. n = Max(T) + 1
        BY <1>2
    <2>5. n \in Nat /\ n <= heads[s.asked] + 1
        <3>1. Max(T) \in Nat /\ Max(T) <= heads[s.asked]
            BY <2>2, <2>3
        <3> HIDE DEF T
        <3>2. QED
            BY <1>0, <2>4, <3>1
    <2>6. ASSUME NEW e \in events PROVE e[1] < n /\ e[1] >= s.fromBlock /\ s.fromBlock < n
        <3>1. e[1] \in T
            OBVIOUS
        <3>2. e[1] <= Max(T) /\ Max(T) \in Nat
            BY <2>2, <2>3, <3>1
        <3>3. QED
            BY <1>0, <2>1, <2>4, <3>2
    <2>7. QED
        BY <2>5, <2>6
<1>3. QED
    BY <1>1, <1>2

\* A listener whose counts are those after the answer got everything before n once.
LEMMA GotAfterAnswer ==
    ASSUME NEW s \in PollSession, NEW L, NEW heads \in [Providers -> 0 .. MaxBlocks], NEW ls \in SUBSET Listeners,
           s.at = "logs", PollOK(s, heads), NEW events, events = EventsOf(s, L, heads, ls),
           NEW n \in Nat, n <= heads[s.asked] + 1, \A e \in events : e[1] < n /\ e[1] >= s.fromBlock,
           NEW D \in [Listeners -> [Blocks -> Nat]], NEW from \in Nat, NEW l \in ls, GotOnce(L, s, l, D[l], from),
           NEW E, E = WithCounts(D, ls, events),
           NEW t \in PollSession, t.at = "idle", (events = {} /\ t.fromBlock = s.fromBlock) \/ (t.fromBlock = n /\ s.fromBlock <= n)
    PROVE  GotOnce(L, t, l, E[l], from)
<1>0. s.asked \in Providers /\ heads[s.asked] \in Nat /\ s.fromBlock \in Nat /\ t.fromBlock \in Nat
    BY SessionFields, ChainEventPollerAssumption DEF PollOK
<1>1. ASSUME NEW b \in Blocks
      PROVE  /\ E[l][b] <= 1
             /\ b >= t.fromBlock => E[l][b] = 0
             /\ Kind(l) \in L[b] /\ from <= b /\ b < t.fromBlock => E[l][b] = 1
    <2>0. b \in Nat /\ l \in Listeners /\ D[l][b] \in Nat /\ MaxBlocks \in Nat /\ b <= MaxBlocks
        BY ChainEventPollerAssumption DEF Blocks
    <2>1. /\ D[l][b] <= 1 /\ (b >= s.fromBlock => D[l][b] = 0)
          /\ (Kind(l) \in L[b] /\ from <= b /\ b < s.fromBlock => D[l][b] = 1)
        BY DEF GotOnce
    <2>2. E[l][b] = D[l][b] + (IF <<b, Kind(l)>> \in events THEN 1 ELSE 0)
        BY <2>0 DEF WithCounts
    <2>3. CASE <<b, Kind(l)>> \in events
        <3>1. b < n /\ b >= s.fromBlock
            BY <2>3
        <3>2. D[l][b] = 0 /\ t.fromBlock = n
            BY <2>1, <2>3, <3>1
        <3>3. QED
            BY <2>0, <2>2, <2>3, <3>1, <3>2
    <2>4. CASE <<b, Kind(l)>> \notin events
        <3>1. E[l][b] = D[l][b]
            BY <2>0, <2>2, <2>4
        <3>2. b >= t.fromBlock => b >= s.fromBlock
            BY <1>0, <2>0
        <3>3. ASSUME Kind(l) \in L[b], from <= b, b < t.fromBlock PROVE b < s.fromBlock
            <4>1. CASE t.fromBlock = s.fromBlock
                BY <3>3, <4>1
            <4>2. CASE t.fromBlock = n
                <5>1. SUFFICES ASSUME b >= s.fromBlock PROVE FALSE
                    BY <1>0, <2>0
                <5>2. b \in s.fromBlock .. heads[s.asked]
                    BY <1>0, <2>0, <3>3, <4>2, <5>1
                <5>3. Kind(l) \in s.filter
                    <6>1. from # NotCovered
                        BY <2>0, <3>3 DEF NotCovered
                    <6>2. QED
                        BY <6>1 DEF GotOnce
                <5>4. <<b, Kind(l)>> \in events
                    BY <3>3, <5>2, <5>3 DEF EventsOf
                <5>5. QED
                    BY <2>4, <5>4
            <4>3. QED
                BY <4>1, <4>2
        <3>4. QED
            BY <2>1, <3>1, <3>2, <3>3
    <2>5. QED
        BY <2>3, <2>4
<1>2. QED
    BY <1>1 DEF GotOnce

LEMMA LogsAnsweredKeeps ==
    ASSUME PollerInv, NEW i \in 1 .. Len(session), LogsAnswered(i)
    PROVE  PollerInv'
<1> PICK events : events = EventsOf(session[i], logs, head, listeners)
    OBVIOUS
<1> PICK n : n = IF events = {} THEN session[i].newFromBlock ELSE Max({e[1] : e \in events}) + 1
    OBVIOUS
<1> PICK s : s = [session[i] EXCEPT !.newFromBlock = n]
    OBVIOUS
<1>1. session[i] \in PollSession /\ PollOK(session[i], head) /\ session[i].at = "logs"
    BY OneSession DEF LogsAnswered
<1>2. head \in [Providers -> 0 .. MaxBlocks] /\ listeners \in SUBSET Listeners
      /\ delivered \in [Listeners -> [Blocks -> Nat]] /\ coveredFrom \in [Listeners -> Nat]
    BY OneSession
<1>3. events = {e \in LogsFound(session[i]) : \E l \in listeners : Kind(l) = e[2]}
    BY DEF EventsOf, LogsFound
<1>4. /\ UNCHANGED <<logs, head, listeners, coveredFrom>>
      /\ \/ s.aborted /\ Put(i, SessionEnded) /\ UNCHANGED delivered
         \/ /\ ~s.aborted
            /\ Put(i, NextPoll(s, s.newFromBlock > s.fromBlock))
            /\ delivered' = WithCounts(delivered, listeners, events)
    BY <1>3 DEF LogsAnswered, WithCounts
<1>5. /\ n \in Nat /\ n <= head[session[i].asked] + 1
      /\ \A e \in events : e[1] < n /\ e[1] >= session[i].fromBlock /\ session[i].fromBlock < n
    BY <1>1, <1>2, MovesPastEvents
<1>6. s \in PollSession /\ (s.aborted <=> session[i].aborted) /\ s.fromBlock = session[i].fromBlock /\ s.newFromBlock = n
    BY <1>1, <1>5, WithNewBlock
<1>7. CASE s.aborted
    BY <1>4, <1>6, <1>7, EndKeeps
<1>8. CASE ~s.aborted
    <2> PICK forward \in BOOLEAN : forward <=> (s.newFromBlock > s.fromBlock)
        OBVIOUS
    <2> PICK t : t = NextPoll(s, forward)
        OBVIOUS
    <2>1. forward \in BOOLEAN /\ s.fromBlock \in Nat /\ (forward <=> n > session[i].fromBlock)
        <3>1. s.fromBlock \in Nat
            BY <1>6, SessionFields
        <3>2. QED
            BY <1>5, <1>6, <3>1
    <2>2. t \in PollSession /\ t.at = "idle" /\ ~t.aborted /\ t.fromBlock = IF forward THEN n ELSE session[i].fromBlock
        BY <1>6, <1>8, <2>1, NextPollIdle
    <2>3. Put(i, t) /\ delivered' = WithCounts(delivered, listeners, events)
        BY <1>4, <1>8
    <2>4. delivered' \in [Listeners -> [Blocks -> Nat]]
        BY <1>2, <2>3 DEF WithCounts
    <2>5. PollOK(t, head)
        BY <2>2 DEF PollOK
    <2>6. (events = {} /\ t.fromBlock = session[i].fromBlock) \/ (t.fromBlock = n /\ session[i].fromBlock <= n)
        BY <1>5, <1>6, <2>1, <2>2
    <2>7. ASSUME NEW l \in listeners PROVE GotOnce(logs, t, l, delivered'[l], coveredFrom[l])
        <3>1. GotOnce(logs, session[i], l, delivered[l], coveredFrom[l])
            BY <1>6, <1>8, OneSession
        <3>2. coveredFrom[l] \in Nat
            BY <1>2
        <3>3. QED
            BY <1>1, <1>2, <1>5, <2>2, <2>3, <2>6, <3>1, <3>2, GotAfterAnswer
    <2>8. coveredFrom' = coveredFrom /\ UNCHANGED <<logs, head, listeners>> /\ ~session[i].aborted
        BY <1>4, <1>6, <1>8
    <2>9. QED
        BY <1>2, <2>2, <2>3, <2>4, <2>5, <2>7, <2>8, OneSessionChanges
<1>9. QED
    BY <1>7, <1>8

\* The providers' heads only grow.
LEMMA ProviderSeesKeeps ==
    ASSUME PollerInv, NEW p \in Providers, ProviderSees(p)
    PROVE  PollerInv'
<1>1. head \in [Providers -> 0 .. MaxBlocks] /\ MaxBlocks \in Nat
    BY ChainEventPollerAssumption DEF PollerInv, PollerTypes
<1>2. /\ head[p] < MaxBlocks /\ head' = [head EXCEPT ![p] = head[p] + 1]
      /\ UNCHANGED <<logs, listeners, session, delivered, coveredFrom>>
    BY DEF ProviderSees
<1>3. head' \in [Providers -> 0 .. MaxBlocks] /\ \A q \in Providers : head[q] <= head'[q] /\ head[q] \in Nat /\ head'[q] \in Nat
    BY <1>1, <1>2
<1>4. ASSUME NEW i \in 1 .. Len(session) PROVE PollOK(session[i], head')
    <2>1. PollOK(session[i], head) /\ session[i].newFromBlock \in Nat
        BY OneSession, SessionFields
    <2>2. QED
        BY <1>3, <2>1 DEF PollOK
<1>5. PollerTypes' /\ NewestOnly'
    BY <1>2, <1>3 DEF PollerInv, PollerTypes, NewestOnly
<1>6. QED
    BY <1>2, <1>4, <1>5 DEF PollerInv

\* A listener that comes has got nothing yet, and is in no filter.
LEMMA OnKeeps ==
    ASSUME PollerInv, NEW l \in Listeners, On(l)
    PROVE  PollerInv'
<1>1. /\ session \in Seq(PollSession) /\ Len(session) <= MaxPollSessions /\ MaxPollSessions \in Nat /\ Len(session) \in Nat
      /\ delivered \in [Listeners -> [Blocks -> Nat]] /\ coveredFrom \in [Listeners -> Nat] /\ listeners \subseteq Listeners
    BY ChainEventPollerAssumption DEF PollerInv, PollerTypes
<1>2. /\ l \notin listeners /\ listeners' = listeners \cup {l} /\ logs' = logs /\ head' = head
      /\ delivered' = [delivered EXCEPT ![l] = [b \in Blocks |-> 0]]
      /\ coveredFrom' = [coveredFrom EXCEPT ![l] = NotCovered]
      /\ \/ listeners # {} /\ session' = session
         \/ listeners = {} /\ Len(session) < MaxPollSessions /\ session' = Append(session, NewPollSession)
    BY DEF On
<1>3. NotCovered \in Nat /\ \A b \in Blocks : ~(NotCovered <= b) /\ b \in Nat
    BY ChainEventPollerAssumption DEF NotCovered, Blocks
<1>4. delivered' \in [Listeners -> [Blocks -> Nat]] /\ coveredFrom' \in [Listeners -> Nat] /\ listeners' \subseteq Listeners
    BY <1>1, <1>2, <1>3
<1>5. /\ delivered'[l] = [b \in Blocks |-> 0] /\ coveredFrom'[l] = NotCovered
      /\ \A k \in Listeners : k # l => delivered'[k] = delivered[k] /\ coveredFrom'[k] = coveredFrom[k]
    BY <1>1, <1>2
<1>6. ASSUME NEW s PROVE GotOnce(logs, s, l, delivered'[l], coveredFrom'[l])
    BY <1>3, <1>5 DEF GotOnce
<1>7. CASE listeners # {}
    <2>1. session' = session
        BY <1>2, <1>7
    <2>2. PollerTypes' /\ NewestOnly'
        BY <1>2, <1>4, <1>7, <2>1 DEF PollerInv, PollerTypes, NewestOnly
    <2>3. \A k \in listeners' : GotOnce(logs', session'[Len(session')], k, delivered'[k], coveredFrom'[k])
        BY <1>1, <1>2, <1>5, <1>6, <2>1 DEF PollerInv
    <2>4. QED
        BY <1>2, <2>1, <2>2, <2>3 DEF PollerInv
<1>8. CASE listeners = {}
    <2>1. session' = Append(session, NewPollSession) /\ Len(session) < MaxPollSessions /\ listeners' = {l}
        BY <1>2, <1>8
    <2>2. /\ session' \in Seq(PollSession) /\ Len(session') = Len(session) + 1
          /\ session'[Len(session) + 1] = NewPollSession /\ \A j \in 1 .. Len(session) : session'[j] = session[j]
        BY <1>1, <2>1, NewSessions
    <2>3. PollerTypes'
        BY <1>1, <1>2, <1>4, <2>1, <2>2 DEF PollerInv, PollerTypes
    <2>4. ASSUME NEW j \in 1 .. Len(session') PROVE PollOK(session'[j], head')
        <3>1. PollOK(NewPollSession, head)
            BY NewSessions DEF PollOK
        <3>2. j \in 1 .. Len(session) \/ j = Len(session) + 1
            BY <1>1, <2>2
        <3>3. QED
            BY <1>2, <2>2, <3>1, <3>2 DEF PollerInv
    <2>5. \A j \in 1 .. Len(session) : session[j].aborted
        BY <1>8 DEF PollerInv, NewestOnly
    <2>6. NewestOnly'
        BY <1>1, <2>1, <2>2, <2>5, NewSessions DEF NewestOnly
    <2>7. \A k \in listeners' : GotOnce(logs', session'[Len(session')], k, delivered'[k], coveredFrom'[k])
        BY <1>2, <1>6, <2>1
    <2>8. QED
        BY <2>3, <2>4, <2>6, <2>7 DEF PollerInv
<1>9. QED
    BY <1>7, <1>8

AbortedPoll(s) == [s EXCEPT !.aborted = TRUE]

\* The last listener to go aborts the newest session, the only one not aborted.
LEMMA OffKeeps ==
    ASSUME PollerInv, NEW l \in Listeners, Off(l)
    PROVE  PollerInv'
<1>1. /\ session \in Seq(PollSession) /\ Len(session) \in Nat
      /\ delivered \in [Listeners -> [Blocks -> Nat]] /\ coveredFrom \in [Listeners -> Nat] /\ listeners \subseteq Listeners
    BY DEF PollerInv, PollerTypes
<1>2. /\ l \in listeners /\ listeners' = listeners \ {l}
      /\ UNCHANGED <<logs, head, delivered, coveredFrom>>
    BY DEF Off
<1>3. CASE listeners' # {}
    <2>1. session' = session
        BY <1>3 DEF Off
    <2>2. PollerTypes' /\ NewestOnly'
        BY <1>1, <1>2, <1>3, <2>1 DEF PollerInv, PollerTypes, NewestOnly
    <2>3. QED
        BY <1>2, <2>1, <2>2 DEF PollerInv
<1>4. CASE listeners' = {}
    <2> PICK last : last = Len(session)
        OBVIOUS
    <2> PICK s : s = IF session[last].at = "idle" THEN SessionEnded ELSE AbortedPoll(session[last])
        OBVIOUS
    <2>1. last \in 1 .. Len(session)
        BY <1>1, <1>2 DEF PollerInv, NewestOnly
    <2>2. session' = [session EXCEPT ![last] = s]
        BY <1>4 DEF Off, AbortedPoll
    <2>3. session[last] \in PollSession /\ PollOK(session[last], head)
        BY <2>1, OneSession
    <2>4. s \in PollSession /\ s.aborted /\ PollOK(s, head)
        <3>1. CASE session[last].at = "idle"
            BY <3>1, NewSessions DEF PollOK
        <3>2. CASE session[last].at # "idle"
            <4>1. s = AbortedPoll(session[last])
                BY <3>2
            <4>2. s \in PollSession /\ s.aborted /\ s.at = session[last].at /\ s.fromBlock = session[last].fromBlock
                  /\ s.queue = session[last].queue /\ s.asked = session[last].asked
                  /\ s.polls = session[last].polls /\ s.newFromBlock = session[last].newFromBlock
                BY <2>3, <4>1, WithAborted DEF AbortedPoll
            <4>3. QED
                BY <2>3, <4>2 DEF PollOK
        <3>3. QED
            BY <3>1, <3>2
    <2>5. /\ session' \in Seq(PollSession) /\ Len(session') = Len(session)
          /\ session'[last] = s /\ \A j \in 1 .. Len(session) : j # last => session'[j] = session[j]
        BY <1>1, <2>1, <2>2, <2>4
    <2>6. PollerTypes'
        BY <1>1, <1>2, <1>4, <2>5 DEF PollerInv, PollerTypes
    <2>7. ASSUME NEW j \in 1 .. Len(session') PROVE PollOK(session'[j], head') /\ session'[j].aborted
        <3>1. CASE j = last
            BY <1>2, <2>4, <2>5, <3>1
        <3>2. CASE j # last
            BY <1>2, <2>5, <3>2 DEF PollerInv, NewestOnly
        <3>3. QED
            BY <3>1, <3>2
    <2>8. NewestOnly'
        BY <1>4, <2>7 DEF NewestOnly
    <2>9. QED
        BY <1>4, <2>6, <2>7, <2>8 DEF PollerInv
<1>5. QED
    BY <1>3, <1>4

LEMMA PollerInductive == PollerInv /\ [PollerNext]_pollerVars => PollerInv'
<1> SUFFICES ASSUME PollerInv, [PollerNext]_pollerVars PROVE PollerInv'
    OBVIOUS
<1>1. ASSUME NEW p \in Providers, ProviderSees(p) PROVE PollerInv'
    BY <1>1, ProviderSeesKeeps
<1>2. ASSUME NEW l \in Listeners, On(l) PROVE PollerInv'
    BY <1>2, OnKeeps
<1>3. ASSUME NEW l \in Listeners, Off(l) PROVE PollerInv'
    BY <1>3, OffKeeps
<1>4. ASSUME NEW i \in 1 .. Len(session), NEW p \in Providers, FirstFromBlock(i, p) PROVE PollerInv'
    BY <1>4, FirstBlockKeeps
<1>5. ASSUME NEW i \in 1 .. Len(session), PollTimer(i) PROVE PollerInv'
    BY <1>5, PollTimerKeeps
<1>6. ASSUME NEW i \in 1 .. Len(session), LatestAnswered(i) PROVE PollerInv'
    BY <1>6, LatestKeeps
<1>7. ASSUME NEW i \in 1 .. Len(session), LogsAnswered(i) PROVE PollerInv'
    BY <1>7, LogsAnsweredKeeps
<1>8. ASSUME NEW i \in 1 .. Len(session), RequestFails(i) PROVE PollerInv'
    BY <1>8, RequestFailsKeeps
<1>9. CASE UNCHANGED pollerVars
    BY <1>9 DEF pollerVars, PollerInv, PollerTypes, NewestOnly
<1>10. QED
    BY <1>1, <1>2, <1>3, <1>4, <1>5, <1>6, <1>7, <1>8, <1>9 DEF PollerNext

\* No listener misses or repeats an event, whatever the providers know and whichever fail.
THEOREM EveryEventOnceAlways == PollerSpec => []EveryEventOnce
<1>1. PollerInv => EveryEventOnce
    BY DEF PollerInv, EveryEventOnce, GotOnce
<1>2. QED
    BY <1>1, PollerInitially, PollerInductive, PTL DEF PollerSpec

\* The chain is reached: the poller and the failover provider, which share no
\* variable, each keep their part.
THEOREM ChainIsReachedAlways == PollerSpec /\ FailoverSpec => []ChainIsReached
BY EveryEventOnceAlways, NoProviderDecidesAlways, PTL DEF ChainIsReached

-----------------------------------------------------------------------------
(* Operator: the inspections of an operator's node.  DutyOK links, in one  *)
(* inspection, where it is, what it holds and whether it was aborted.      *)

DutyTask ==
    [at : {"off", "subscribing", "waiting", "sleeping", "finding", "joining", "leaving", "recreating", "ended"},
     attempt : 1 .. MaxInspections, nodes : BOOLEAN, results : Seq(BOOLEAN), aborted : BOOLEAN,
     doneGate : BOOLEAN, passed : BOOLEAN, fleet : {"none", "pending", "open"}, part : BOOLEAN,
     consumer : {"off", "waits", "checks", "over"}, lost : BOOLEAN]

\* The part is subscribed only until it is left, the fleet state is awaited only by the step that waits for it, an
\* aborted inspection holds a fleet state only if that was lost, and a consumer that is done has aborted it.  Every
\* attempt before this one gave at most one result.
DutyOK(t) ==
    /\ t \in DutyTask
    /\ t.part => t.at = "leaving"
    /\ t.fleet = "pending" <=> t.at = "subscribing"
    /\ t.aborted => t.fleet = "none" \/ t.lost
    /\ t.consumer \in {"checks", "over"} => t.aborted
    /\ Len(t.results) <= t.attempt /\ (t.at # "ended" => Len(t.results) < t.attempt)

DutiesInv == task \in [Duty -> DutyTask] /\ \A d \in Duty : DutyOK(task[d])

\* An abort, at whatever step, keeps an inspection in order.
LEMMA AbortedInOrder ==
    ASSUME NEW t, DutyOK(t)
    PROVE  /\ DutyOK(Aborted(t)) /\ Aborted(t).aborted
           /\ DutyOK(Destroyed(t)) /\ Destroyed(t).aborted
           /\ t.at \notin {"waiting", "sleeping"} => Destroyed(t).at = t.at
<1>1. Aborted(t) = [t EXCEPT !.aborted = TRUE, !.fleet = FleetClosed(t), !.lost = t.lost \/ t.fleet = "pending",
                             !.at = IF t.at \in {"waiting", "sleeping"} THEN "ended" ELSE t.at]
    BY DEF Aborted
<1>2. Aborted(t) \in DutyTask
    BY <1>1 DEF DutyOK, DutyTask, FleetClosed
<1>3. DutyOK(Aborted(t)) /\ Aborted(t).aborted
    BY <1>1, <1>2 DEF DutyOK, DutyTask, FleetClosed
<1>4. t.at \notin {"waiting", "sleeping"} => Aborted(t).at = t.at
    BY <1>1, <1>2 DEF DutyOK, DutyTask
<1>5. QED
    BY <1>2, <1>3, <1>4 DEF DutyOK, DutyTask, Destroyed

\* So does an error, unless the part is subscribed or the fleet state awaited.
LEMMA FailedInOrder ==
    ASSUME NEW t, DutyOK(t), t.at \in {"finding", "joining"}
    PROVE  DutyOK(Failed(t))
<1>1. PICK e : e = Destroyed(t)
    OBVIOUS
<1>2. DutyOK(e) /\ e.aborted /\ e.at = t.at
    BY <1>1, AbortedInOrder
<1>3. Failed(t) = [e EXCEPT !.at = "ended"]
    BY <1>1 DEF Failed
<1>4. QED
    BY <1>2, <1>3 DEF DutyOK, DutyTask

\* A step that leaves one inspection in order leaves the other alone.
LEMMA SetInOrder ==
    ASSUME DutiesInv, NEW d \in Duty, NEW t, DutyOK(t), Set(d, t)
    PROVE  DutiesInv'
BY DEF DutiesInv, Set, DutyOK

\* Before an inspection, and when it starts.
LEMMA NewDutyInOrder == DutyOK(NewDuty) /\ DutyOK(DutyStarted)
<1>1. NewDuty \in DutyTask
    BY OperatorDutiesAssumption DEF DutyTask, NewDuty
<1>2. DutyStarted \in DutyTask
    BY <1>1 DEF DutyTask, DutyStarted
<1>3. /\ NewDuty.results = <<>> /\ NewDuty.attempt = 1 /\ ~NewDuty.part /\ ~NewDuty.aborted
      /\ NewDuty.fleet = "none" /\ NewDuty.at = "off" /\ NewDuty.consumer = "off"
    BY DEF NewDuty
<1>4. /\ DutyStarted.results = <<>> /\ DutyStarted.attempt = 1 /\ ~DutyStarted.part /\ ~DutyStarted.aborted
      /\ DutyStarted.fleet = "pending" /\ DutyStarted.at = "subscribing" /\ DutyStarted.consumer = "waits"
    BY <1>1, <1>3 DEF DutyTask, DutyStarted
<1>5. QED
    BY <1>1, <1>2, <1>3, <1>4 DEF DutyOK

LEMMA DutiesInitially == OperatorDutiesInit => DutiesInv
BY NewDutyInOrder DEF OperatorDutiesInit, DutiesInv, DutyOK

\* The steps of an inspection.
LEMMA InspectionInOrder ==
    ASSUME DutiesInv, NEW d \in Duty,
           FleetSubscribed(d) \/ FleetWaited(d) \/ SleepOver(d) \/ NodesFound(d) \/ PartJoined(d) \/ Inspected(d) \/ Recreated(d)
    PROVE  DutiesInv'
<1> DEFINE t == task[d]
<1>0. DutyOK(t)
    BY DEF DutiesInv
<1> HIDE DEF t
<1> USE OperatorDutiesAssumption
<1>1. CASE FleetSubscribed(d)
    <2>1. DutyOK([t EXCEPT !.fleet = "open", !.at = IF t.aborted THEN "ended" ELSE "waiting"])
        BY <1>0, <1>1 DEF DutyOK, DutyTask, FleetSubscribed, t
    <2>2. DutyOK([Failed(t) EXCEPT !.fleet = "none", !.lost = t.lost])
        <3>1. PICK e : e = Destroyed(t)
            OBVIOUS
        <3>2. DutyOK(e) /\ e.aborted /\ e.at = "subscribing"
            BY <1>0, <1>1, <3>1, AbortedInOrder DEF FleetSubscribed, t
        <3>3. QED
            BY <1>0, <3>1, <3>2 DEF DutyOK, DutyTask, Failed
    <2>3. QED
        BY <1>1, <2>1, <2>2, SetInOrder DEF FleetSubscribed, t
<1>2. CASE FleetWaited(d)
    <2>1. DutyOK([t EXCEPT !.at = "sleeping"])
        BY <1>0, <1>2 DEF DutyOK, DutyTask, FleetWaited, t
    <2>2. QED
        BY <1>2, <2>1, SetInOrder DEF FleetWaited, t
<1>3. CASE SleepOver(d)
    <2>1. DutyOK([t EXCEPT !.at = "finding"])
        BY <1>0, <1>3 DEF DutyOK, DutyTask, SleepOver, t
    <2>2. QED
        BY <1>3, <2>1, SetInOrder DEF SleepOver, t
<1>4. CASE NodesFound(d)
    <2>1. t.at = "finding"
        BY <1>4 DEF NodesFound, t
    <2>2. ASSUME NEW found \in BOOLEAN
          PROVE  DutyOK([t EXCEPT !.nodes = found, !.at = IF t.aborted THEN "ended" ELSE "joining"])
        BY <1>0, <2>1, <2>2 DEF DutyOK, DutyTask
    <2>3. CASE Set(d, Failed(t))
        BY <1>0, <2>1, <2>3, FailedInOrder, SetInOrder
    <2>4. CASE \E factor \in FetchRedundancyFactor, online \in BOOLEAN :
                 Set(d, [t EXCEPT !.nodes = factor > 0 /\ online, !.at = IF t.aborted THEN "ended" ELSE "joining"])
        <3>1. PICK found \in BOOLEAN : Set(d, [t EXCEPT !.nodes = found, !.at = IF t.aborted THEN "ended" ELSE "joining"])
            BY <2>4
        <3>2. QED
            BY <2>2, <3>1, SetInOrder
    <2>5. QED
        BY <1>4, <2>3, <2>4 DEF NodesFound, t
<1>5. CASE PartJoined(d)
    <2>1. DutyOK([t EXCEPT !.part = TRUE, !.at = "leaving"]) /\ DutyOK(Failed(t))
        BY <1>0, <1>5, FailedInOrder DEF DutyOK, DutyTask, PartJoined, t
    <2>2. QED
        BY <1>5, <2>1, SetInOrder DEF PartJoined, t
<1>6. CASE Inspected(d)
    <2> DEFINE left == [t EXCEPT !.part = FALSE]
               counted == [left EXCEPT !.results = Append(t.results, t.nodes), !.passed = t.passed \/ t.nodes]
               Prepared(at) == [counted EXCEPT !.attempt = t.attempt + 1, !.at = at]
    <2>1. t.at = "leaving" /\ t.results \in Seq(BOOLEAN) /\ t.nodes \in BOOLEAN
        BY <1>0, <1>6 DEF Inspected, DutyOK, DutyTask, t
    <2>2. Append(t.results, t.nodes) \in Seq(BOOLEAN) /\ Len(Append(t.results, t.nodes)) = Len(t.results) + 1
        BY <2>1
    <2>3. DutyOK(left) /\ ~left.part /\ left.at = "leaving" /\ left.attempt = t.attempt /\ left.results = t.results
        BY <1>0, <2>1 DEF DutyOK, DutyTask
    <2>4. DutyOK([left EXCEPT !.at = "ended"])
        BY <1>0, <2>1 DEF DutyOK, DutyTask
    <2>5. /\ counted \in DutyTask /\ ~counted.part /\ counted.fleet # "pending" /\ counted.attempt = t.attempt
          /\ counted.aborted => counted.fleet = "none" \/ counted.lost
          /\ counted.consumer \in {"checks", "over"} => counted.aborted
          /\ Len(counted.results) <= t.attempt
        <3> HIDE DEF left
        <3>1. left \in DutyTask
            BY <2>3 DEF DutyOK
        <3>2. counted \in DutyTask /\ counted.results = Append(t.results, t.nodes)
            BY <1>0, <2>1, <2>2, <3>1 DEF DutyOK, DutyTask
        <3>3. /\ counted.part = left.part /\ counted.fleet = left.fleet /\ counted.attempt = left.attempt
              /\ counted.aborted = left.aborted /\ counted.lost = left.lost /\ counted.consumer = left.consumer
            BY <3>1 DEF DutyTask
        <3> HIDE DEF counted
        <3>4. Len(t.results) < t.attempt
            BY <1>0, <2>1 DEF DutyOK
        <3>5. t.attempt \in Nat /\ Len(t.results) \in Nat
            BY <1>0, <2>1 DEF DutyOK, DutyTask
        <3>6. QED
            BY <2>2, <2>3, <3>2, <3>3, <3>4, <3>5 DEF DutyOK
    <2>6. DutyOK([counted EXCEPT !.at = "ended", !.doneGate = TRUE])
        <3> HIDE DEF counted
        <3>1. QED
            BY <1>0, <2>5 DEF DutyOK, DutyTask
    <2>7. ASSUME t.attempt # MaxInspections, NEW at \in {"recreating", "ended", "sleeping"} PROVE DutyOK(Prepared(at))
        <3> HIDE DEF counted
        <3>1. t.attempt + 1 \in 1 .. MaxInspections
            BY <1>0, <2>7 DEF DutyOK, DutyTask
        <3>2. /\ Prepared(at) \in DutyTask /\ Prepared(at).at = at /\ Prepared(at).attempt = t.attempt + 1
              /\ Prepared(at).results = counted.results /\ Prepared(at).part = counted.part /\ Prepared(at).fleet = counted.fleet
              /\ Prepared(at).aborted = counted.aborted /\ Prepared(at).lost = counted.lost
              /\ Prepared(at).consumer = counted.consumer
            BY <2>5, <2>7, <3>1 DEF DutyTask
        <3>3. Len(counted.results) \in Nat /\ t.attempt \in Nat
            BY <1>0, <2>5 DEF DutyOK, DutyTask
        <3> HIDE DEF Prepared
        <3>4. QED
            BY <2>5, <2>7, <3>2, <3>3 DEF DutyOK
    <2>8. \/ Set(d, [left EXCEPT !.at = "ended"])
          \/ Set(d, [counted EXCEPT !.at = "ended", !.doneGate = TRUE])
          \/ t.attempt # MaxInspections /\ \E at \in {"recreating", "ended", "sleeping"} : Set(d, Prepared(at))
        <3>1. CASE t.aborted /\ t.nodes
            BY <1>6, <3>1 DEF Inspected, t
        <3>2. CASE ~(t.aborted /\ t.nodes) /\ t.attempt = MaxInspections
            BY <1>6, <3>2 DEF Inspected, t
        <3>3. CASE ~(t.aborted /\ t.nodes) /\ t.attempt # MaxInspections
            <4>1. PICK empty \in {FALSE, ~t.nodes} :
                    Set(d, Prepared(IF empty THEN "recreating" ELSE IF t.aborted THEN "ended" ELSE "sleeping"))
                BY <1>6, <3>3 DEF Inspected, t
            <4>2. QED
                BY <3>3, <4>1
        <3>4. QED
            BY <3>1, <3>2, <3>3
    <2> HIDE DEF left, counted, Prepared
    <2>9. QED
        BY <2>4, <2>6, <2>7, <2>8, SetInOrder
<1>7. CASE Recreated(d)
    <2>1. DutyOK([t EXCEPT !.at = "ended", !.fleet = "none"])
        BY <1>0, <1>7 DEF DutyOK, DutyTask, Recreated, t
    <2>2. ~t.aborted => DutyOK([t EXCEPT !.at = "subscribing", !.fleet = "pending"])
        BY <1>0, <1>7 DEF DutyOK, DutyTask, Recreated, t
    <2>3. QED
        BY <1>7, <2>1, <2>2, SetInOrder DEF Recreated, t
<1>8. QED
    BY <1>1, <1>2, <1>3, <1>4, <1>5, <1>6, <1>7

\* The steps of those that start, await and abort inspections.
LEMMA ConsumersInOrder ==
    ASSUME DutiesInv,
           PluginStops \/ InspectRandomNode \/ RandomConsumed \/ RaiseFlag \/ ReviewRequested \/ VoteOnFlag
    PROVE  DutiesInv'
<1>1. \A d \in Duty : DutyOK(task[d])
    BY DEF DutiesInv
<1>2. "random" \in Duty /\ "review" \in Duty
    BY DEF Duty
<1>3. DutyOK(DutyStarted)
    BY NewDutyInOrder
<1>4. ASSUME NEW d \in Duty, NEW to \in {"checks", "over"} PROVE DutyOK([Destroyed(task[d]) EXCEPT !.consumer = to])
    <2>1. DutyOK(Destroyed(task[d])) /\ Destroyed(task[d]).aborted
        BY <1>1, AbortedInOrder
    <2>2. QED
        BY <2>1 DEF DutyOK, DutyTask
<1>5. CASE PluginStops
    BY <1>1, <1>5, AbortedInOrder DEF PluginStops, DutiesInv, DutyOK
<1>6. CASE InspectRandomNode
    BY <1>2, <1>3, <1>6, SetInOrder DEF InspectRandomNode
<1>7. CASE ReviewRequested
    BY <1>2, <1>3, <1>7, SetInOrder DEF ReviewRequested
<1>8. CASE RandomConsumed
    <2>1. PICK to \in {"checks", "over"} : Set("random", [Destroyed(task["random"]) EXCEPT !.consumer = to])
        BY <1>8 DEF RandomConsumed
    <2>2. QED
        BY <1>2, <1>4, <2>1, SetInOrder
<1>9. CASE RaiseFlag
    <2>1. DutyOK([task["random"] EXCEPT !.consumer = "over"])
        BY <1>1, <1>2, <1>9 DEF RaiseFlag, DutyOK, DutyTask
    <2>2. QED
        BY <1>2, <1>9, <2>1, SetInOrder DEF RaiseFlag
<1>10. CASE VoteOnFlag
    BY <1>2, <1>4, <1>10, SetInOrder DEF VoteOnFlag
<1>11. QED
    BY <1>5, <1>6, <1>7, <1>8, <1>9, <1>10

LEMMA DutiesInductive == DutiesInv /\ [OperatorDutiesNext]_dutyVars => DutiesInv'
<1> SUFFICES ASSUME DutiesInv, [OperatorDutiesNext]_dutyVars PROVE DutiesInv'
    OBVIOUS
<1>1. ASSUME NEW d \in Duty,
             FleetSubscribed(d) \/ FleetWaited(d) \/ SleepOver(d) \/ NodesFound(d) \/ PartJoined(d) \/ Inspected(d) \/ Recreated(d)
      PROVE  DutiesInv'
    BY <1>1, InspectionInOrder
<1>2. CASE PluginStops \/ InspectRandomNode \/ RandomConsumed \/ RaiseFlag \/ ReviewRequested \/ VoteOnFlag
    BY <1>2, ConsumersInOrder
<1>3. CASE AnotherFlags \/ VotingEnds \/ CloseExpiredFlags \/ ValueNext
    <2>1. UNCHANGED task
        BY <1>3 DEF AnotherFlags, VotingEnds, CloseExpiredFlags, ValueNext, LeaderChanges, AnnounceNodeToContract,
                    TimePasses, Earns, MaintainOperatorValue, CheckOperatorValueBreach, WithdrawAbove
    <2>2. QED
        BY <2>1 DEF DutiesInv
<1>4. CASE UNCHANGED dutyVars
    BY <1>4 DEF dutyVars, DutiesInv
<1>5. QED
    BY <1>1, <1>2, <1>3, <1>4 DEF OperatorDutiesNext, InspectionNext, ValueNext

\* However an inspection ends, it leaves neither the part nor, unless that was lost while it was being subscribed, the
\* coordination stream subscribed.
THEOREM NothingLeftSubscribedAlways == OperatorDutiesSpec => []NothingLeftSubscribed
<1>1. DutiesInv => NothingLeftSubscribed
    BY DEF DutiesInv, DutyOK, NothingLeftSubscribed
<1>2. QED
    BY <1>1, DutiesInitially, DutiesInductive, PTL DEF OperatorDutiesSpec

-----------------------------------------------------------------------------
(* EncryptionKeys: the publisher's half, PublisherInv, follows the key     *)
(* that is to be used next through the queue, the store and the update in  *)
(* progress; the subscriber's half, ReaderInv, finds for every reader that *)
(* waits the request or the answer that it waits for.                      *)

Expected == [key : Nat, after : {0, 1}]
Publishing == [at : {"idle", "queue", "key", "first key set", "first key latest", "broadcast"}, key : Nat, next : Nat]
Updating ==
    [method : {"none", "rotate", "rekey"}, at : {"none", "queue", "set", "latest"}, key : Nat, overlapped : BOOLEAN]

PublisherTypes ==
    /\ signer \in {"user", "contract"} /\ keyCount \in Nat /\ pubRestarts \in Nat
    /\ pubStore \subseteq Nat \ {NoKey}
    /\ latestKeyId \in pubStore \cup {NoKey} /\ currentKey \in pubStore \cup {NoKey} /\ queuedKey \in pubStore \cup {NoKey}
    /\ queueState \in {"none", "creating", "created"}
    /\ publish \in Publishing
    /\ update \in Updating
    /\ expected \in Expected
    /\ picks \in Seq([key : Nat, expected : Expected]) /\ published \in Seq([key : Nat, next : Nat])

\* A key is stored before it is used, and the queue is made before it is.
StoredBeforeUse ==
    /\ update.at = "none" => update = NoUpdate
    /\ update.at # "none" => update.key # NoKey
    /\ publish.at = "first key set" => publish.key # NoKey
    /\ update.at \in {"set", "latest"} => update.key \in pubStore /\ queueState = "created"
    /\ publish.at \in {"key", "first key set", "first key latest"} => queueState = "created"
    /\ publish.at \in {"first key latest", "broadcast"} => publish.key \in pubStore
    /\ queueState # "created" => currentKey = NoKey /\ queuedKey = NoKey
    /\ \A i \in 1 .. Len(published) : published[i].key \in pubStore

\* The key that the last update asks for is the latest one on disk, unless another update has just written its own,
\* and it is the current key, or the queued one while a message is still to come before it.  Nothing is asked for
\* while a first key is being made.
ExpectedIsNext ==
    /\ MakingFirstKey => expected = Nothing /\ (update.at # "none" => update.overlapped)
    /\ update.at = "latest" /\ ~update.overlapped => latestKeyId = update.key
    /\ expected # Nothing => expected.key # NoKey /\ (update.at # "latest" => latestKeyId = expected.key)
    /\ expected # Nothing /\ queueState = "created" =>
          \/ currentKey = expected.key /\ queuedKey = NoKey
          \/ expected.after = 1 /\ queuedKey = expected.key

PublisherInv == PublisherTypes /\ StoredBeforeUse /\ ExpectedIsNext /\ UpdatedKeyIsUsed

KeyMessage == [type : {"request", "response"}, id : Reader \X (1 .. Len(published)), key : Nat]

ReaderState == [at : {"idle", "throttled", "waiting", "storing next"}, message : Nat \ {0}]

ReaderTypes ==
    /\ keyWire \subseteq KeyMessage /\ keysLost \in Nat
    /\ reader \in [Reader -> ReaderState]

ReaderInOrder(r) ==
    /\ reader[r].at # "idle" => reader[r].message \in 1 .. Len(published)
    /\ reader[r].at = "waiting" =>
          /\ <<r, reader[r].message>> \in pendingRequests
          /\ pubRestarts = 0 /\ keysLost = 0 => \E q \in keyWire : q.id = <<r, reader[r].message>>

\* A request or an answer is about the key of a message, a publisher that never restarted takes the requests for what
\* it published, and unless something was lost, what a reader waits for is on its way.
RequestsOnTheirWay ==
    /\ \A q \in keyWire : q.key = published[q.id[2]].key
    /\ pubRestarts = 0 /\ published # <<>> => AddressedToPublisher
    /\ \A r \in Reader : ReaderInOrder(r)
    /\ \A f \in failed : f.excused

ReaderInv == ReaderTypes /\ RequestsOnTheirWay
KeysInv == PublisherInv /\ ReaderInv

LEMMA KeysInitially == EncryptionKeysInit => KeysInv
<1> SUFFICES ASSUME EncryptionKeysInit PROVE KeysInv
    OBVIOUS
<1> USE DEF EncryptionKeysInit, PublisherKeysInit, PublisherExchangeInit, SubscriberKeysInit, NoKey, NoUpdate, NotPublishing,
            Nothing
<1>1. PublisherTypes
    BY DEF PublisherTypes, Expected, Publishing, Updating
<1>2. StoredBeforeUse /\ ExpectedIsNext /\ UpdatedKeyIsUsed
    BY DEF StoredBeforeUse, ExpectedIsNext, MakingFirstKey, UpdatedKeyIsUsed
<1>3. ReaderInv
    BY DEF ReaderInv, ReaderTypes, ReaderState, KeyMessage, RequestsOnTheirWay, ReaderInOrder
<1>4. QED
    BY <1>1, <1>2, <1>3 DEF KeysInv, PublisherInv

-----------------------------------------------------------------------------
(* The publisher's half.                                                   *)

\* A pick takes the key that is expected, if one is, and leaves the queue with it.
LEMMA KeyPickedKeeps ==
    ASSUME PublisherInv, NEW current \in Nat \ {NoKey}, NEW queued \in Nat, KeyPicked(current, queued),
           expected # Nothing => \/ current = currentKey /\ queued = queuedKey
                                 \/ currentKey = NoKey /\ current = queuedKey /\ queued = NoKey,
           expected # Nothing => queueState = "created"
    PROVE  /\ picks' \in Seq([key : Nat, expected : Expected]) /\ UpdatedKeyIsUsed'
           /\ publish' = [at |-> "broadcast", key |-> current, next |-> queued]
           /\ expected' \in Expected /\ expected'.key = expected.key /\ (expected' = Nothing <=> expected = Nothing)
           /\ queuedKey' = NoKey /\ currentKey' \in {current, queued}
           /\ expected # Nothing => currentKey' = expected.key
<1> DEFINE pick == [key |-> current, expected |-> expected]
<1>1. /\ expected \in Expected /\ picks \in Seq([key : Nat, expected : Expected]) /\ UpdatedKeyIsUsed
      /\ expected.key \in Nat /\ expected.after \in {0, 1} /\ (expected # Nothing => expected.key # NoKey)
    BY DEF PublisherInv, PublisherTypes, ExpectedIsNext, Expected, Publishing, Updating
<1>2. /\ picks' = Append(picks, pick) /\ publish' = [at |-> "broadcast", key |-> current, next |-> queued]
      /\ expected' = (IF expected.after > 0 THEN [expected EXCEPT !.after = expected.after - 1] ELSE expected)
      /\ currentKey' = (IF queued # NoKey THEN queued ELSE current) /\ queuedKey' = NoKey
    BY DEF KeyPicked
<1>3. expected' \in Expected /\ expected'.key = expected.key
    BY <1>1, <1>2 DEF Expected
<1>4. expected' = Nothing <=> expected = Nothing
    BY <1>1, <1>2, <1>3 DEF Nothing, NoKey
<1>5. expected # Nothing =>
        \/ currentKey = expected.key /\ queuedKey = NoKey
        \/ expected.after = 1 /\ queuedKey = expected.key
    BY DEF PublisherInv, ExpectedIsNext
<1>6. /\ expected # Nothing /\ expected.after = 0 => current = expected.key
      /\ expected # Nothing => currentKey' = expected.key
    BY <1>1, <1>2, <1>5
<1>7. /\ picks' \in Seq([key : Nat, expected : Expected]) /\ Len(picks') = Len(picks) + 1 /\ Len(picks) \in Nat
      /\ picks'[Len(picks) + 1] = pick /\ \A i \in 1 .. Len(picks) : picks'[i] = picks[i]
    BY <1>1, <1>2
<1>8. UpdatedKeyIsUsed'
    <2> SUFFICES ASSUME NEW i \in 1 .. Len(picks'), picks'[i].expected # Nothing, picks'[i].expected.after = 0
                 PROVE  picks'[i].key = picks'[i].expected.key
        BY DEF UpdatedKeyIsUsed, Nothing, NoKey
    <2>1. CASE i \in 1 .. Len(picks)
        BY <1>1, <1>7, <2>1 DEF UpdatedKeyIsUsed
    <2>2. CASE i = Len(picks) + 1
        BY <1>6, <1>7, <2>2
    <2>3. QED
        BY <1>7, <2>1, <2>2
<1>9. QED
    BY <1>2, <1>3, <1>4, <1>6, <1>7, <1>8

LEMMA NothingGoesOn == NotPublishing \in Publishing /\ NoUpdate \in Updating /\ Nothing \in Expected /\ NoKey \in Nat
BY DEF NotPublishing, Publishing, NoUpdate, Updating, Nothing, Expected, NoKey

LEMMA QueueCreatedKeeps == ASSUME PublisherInv, QueueCreated PROVE PublisherInv'
<1> USE DEF PublisherInv, QueueCreated
<1>1. PublisherTypes'
    BY DEF PublisherTypes
<1>2. StoredBeforeUse'
    BY DEF StoredBeforeUse
<1>3. ExpectedIsNext'
    BY DEF ExpectedIsNext, StoredBeforeUse, MakingFirstKey, PublisherTypes, Nothing, NoKey, Publishing, Updating
<1>4. UpdatedKeyIsUsed'
    BY DEF UpdatedKeyIsUsed, Nothing, NoKey
<1>5. QED
    BY <1>1, <1>2, <1>3, <1>4

LEMMA PublishStartsKeeps == ASSUME PublisherInv, PublishStarts PROVE PublisherInv'
<1> USE DEF PublisherInv, PublishStarts
<1>1. /\ publish' \in Publishing /\ publish'.at = "queue" /\ publish.at = "idle"
      /\ queueState' \in {"none", "creating", "created"} /\ (queueState' = "created" <=> queueState = "created")
    BY DEF GetGroupKeyQueue, PublisherTypes, Publishing, Updating
<1>2. PublisherTypes'
    BY <1>1 DEF PublisherTypes
<1>3. StoredBeforeUse'
    BY <1>1 DEF StoredBeforeUse, PublisherTypes, NoUpdate, NoKey, Publishing, Updating
<1>4. ExpectedIsNext'
    BY <1>1 DEF ExpectedIsNext, MakingFirstKey, PublisherTypes, Nothing, NoKey, Publishing, Updating
<1>5. UpdatedKeyIsUsed'
    BY DEF UpdatedKeyIsUsed, Nothing, NoKey
<1>6. QED
    BY <1>2, <1>3, <1>4, <1>5

LEMMA MessageCreatedKeeps == ASSUME PublisherInv, NEW b \in BOOLEAN, MessageCreated(b) PROVE PublisherInv'
<1> USE DEF PublisherInv, MessageCreated, queueVars
<1>1. publish'.at \in {"key", "idle"} /\ queueState = "created"
      /\ publish' \in Publishing
    BY DEF PublisherTypes, NotPublishing, NoKey, Publishing, Updating
<1>2. PublisherTypes'
    BY <1>1 DEF PublisherTypes
<1>3. StoredBeforeUse'
    BY <1>1 DEF StoredBeforeUse, NoUpdate, NoKey
<1>4. ExpectedIsNext'
    BY <1>1 DEF ExpectedIsNext, MakingFirstKey, Nothing, NoKey
<1>5. UpdatedKeyIsUsed'
    BY DEF UpdatedKeyIsUsed, Nothing, NoKey
<1>6. QED
    BY <1>2, <1>3, <1>4, <1>5

LEMMA UseGroupKeyKeeps == ASSUME PublisherInv, UseGroupKey PROVE PublisherInv'
<1> USE DEF PublisherInv
<1>0. /\ publish.at = "key" /\ queueState = "created" /\ pubStore \subseteq Nat /\ expected \in Expected
      /\ currentKey \in pubStore \cup {NoKey} /\ queuedKey \in pubStore \cup {NoKey} /\ NoKey \in Nat /\ keyCount \in Nat
      /\ publish \in Publishing
      /\ update \in Updating
    BY DEF UseGroupKey, StoredBeforeUse, PublisherTypes, NoKey, Publishing, Updating
<1>1. /\ update' = [update EXCEPT !.overlapped = update.overlapped \/ (update.at # "none" /\ publish'.at = "first key set")]
      /\ UNCHANGED <<signer, pubStore, latestKeyId, queueState, published, pubRestarts>>
    BY DEF UseGroupKey
<1>2. /\ update' \in Updating
      /\ update'.at = update.at /\ update'.key = update.key /\ update'.method = update.method
      /\ update'.overlapped = (update.overlapped \/ (update.at # "none" /\ publish'.at = "first key set"))
    <2>1. (update.overlapped \/ (update.at # "none" /\ publish'.at = "first key set")) \in BOOLEAN
        OBVIOUS
    <2>2. QED
        BY <1>0, <1>1, <2>1 DEF Updating
<1>3. update.at = "none" => update' = update
    BY <1>0, <1>1 DEF Updating
<1>4. ASSUME NEW current \in pubStore \ {NoKey}, NEW queued \in pubStore \cup {NoKey}, KeyPicked(current, queued),
             UNCHANGED keyCount,
             expected # Nothing => \/ current = currentKey /\ queued = queuedKey
                                   \/ currentKey = NoKey /\ current = queuedKey /\ queued = NoKey
      PROVE  PublisherInv'
    <2>1. /\ picks' \in Seq([key : Nat, expected : Expected]) /\ UpdatedKeyIsUsed'
          /\ publish' = [at |-> "broadcast", key |-> current, next |-> queued]
          /\ expected' \in Expected /\ expected'.key = expected.key /\ (expected' = Nothing <=> expected = Nothing)
          /\ queuedKey' = NoKey /\ currentKey' \in {current, queued}
          /\ expected # Nothing => currentKey' = expected.key
        BY <1>0, <1>4, KeyPickedKeeps
    <2>2. update' = update
        BY <1>0, <1>1, <2>1 DEF Updating
    <2>0. publish' \in Publishing
        BY <1>0, <2>1 DEF Publishing
    <2>3. PublisherTypes'
        BY <1>0, <1>1, <1>4, <2>0, <2>1, <2>2 DEF PublisherTypes
    <2>4. StoredBeforeUse'
        BY <1>0, <1>1, <1>4, <2>1, <2>2 DEF StoredBeforeUse, NoUpdate, NoKey
    <2>5. ExpectedIsNext'
        BY <1>0, <1>1, <2>1, <2>2 DEF ExpectedIsNext, MakingFirstKey, Nothing, NoKey
    <2>6. QED
        BY <2>1, <2>3, <2>4, <2>5
<1>5. CASE currentKey # NoKey /\ KeyPicked(currentKey, queuedKey) /\ UNCHANGED keyCount
    BY <1>0, <1>4, <1>5
<1>6. CASE currentKey = NoKey /\ queuedKey # NoKey /\ KeyPicked(queuedKey, NoKey) /\ UNCHANGED keyCount
    BY <1>0, <1>4, <1>6
<1>7. CASE /\ currentKey = NoKey /\ queuedKey = NoKey /\ keyCount' = keyCount + 1
           /\ publish' = [publish EXCEPT !.at = "first key set", !.key = keyCount + 1]
           /\ UNCHANGED <<expected, picks, currentKey, queuedKey>>
    <2>0. publish' = [at |-> "first key set", key |-> keyCount + 1, next |-> publish.next]
        BY <1>0, <1>7 DEF Publishing
    <2>1. publish' \in Publishing /\ publish'.at = "first key set" /\ publish'.key # NoKey
        <3>1. keyCount + 1 \in Nat /\ keyCount + 1 # NoKey
            BY <1>0 DEF NoKey
        <3>2. publish.next \in Nat
            BY <1>0 DEF Publishing
        <3>3. QED
            BY <2>0, <3>1, <3>2 DEF Publishing
    <2>2. expected = Nothing
        BY <1>0, <1>7 DEF ExpectedIsNext
    <2>3. update.at # "none" => update'.overlapped
        BY <1>2, <2>1
    <2>4. PublisherTypes'
        BY <1>0, <1>1, <1>2, <1>7, <2>1 DEF PublisherTypes
    <2>5. StoredBeforeUse'
        BY <1>0, <1>1, <1>2, <1>3, <1>7, <2>1 DEF StoredBeforeUse
    <2>6. ExpectedIsNext'
        BY <1>0, <1>1, <1>2, <1>7, <2>1, <2>2, <2>3 DEF ExpectedIsNext, MakingFirstKey, Nothing, NoKey
    <2>7. UpdatedKeyIsUsed'
        BY <1>7 DEF UpdatedKeyIsUsed, Nothing, NoKey
    <2>8. QED
        BY <2>4, <2>5, <2>6, <2>7
<1>8. QED
    BY <1>5, <1>6, <1>7 DEF UseGroupKey

LEMMA FirstKeySetKeeps == ASSUME PublisherInv, FirstKeySet PROVE PublisherInv'
<1> USE DEF PublisherInv, FirstKeySet, queueVars
<1>1. publish'.at = "first key latest" /\ publish'.key = publish.key /\ publish.at = "first key set"
      /\ publish' \in Publishing
      /\ pubStore' \subseteq Nat \ {NoKey} /\ pubStore \subseteq pubStore' /\ publish.key \in pubStore'
    BY DEF PublisherTypes, StoredBeforeUse, Publishing
<1>2. PublisherTypes'
    BY <1>1 DEF PublisherTypes
<1>3. StoredBeforeUse'
    BY <1>1 DEF StoredBeforeUse, NoUpdate, NoKey
<1>4. ExpectedIsNext'
    BY <1>1 DEF ExpectedIsNext, MakingFirstKey, Nothing, NoKey
<1>5. UpdatedKeyIsUsed'
    BY DEF UpdatedKeyIsUsed, Nothing, NoKey
<1>6. QED
    BY <1>2, <1>3, <1>4, <1>5

LEMMA FirstKeyLatestKeeps == ASSUME PublisherInv, FirstKeyLatest PROVE PublisherInv'
<1> USE DEF PublisherInv
<1>1. /\ publish.at = "first key latest" /\ queueState = "created" /\ publish.key \in pubStore /\ pubStore \subseteq Nat
      /\ NoKey \in Nat /\ expected = Nothing /\ (update.at # "none" => update.overlapped)
    BY DEF FirstKeyLatest, StoredBeforeUse, PublisherTypes, ExpectedIsNext, MakingFirstKey, NoKey, Publishing, Updating
<1>2. publish.key # NoKey
    BY <1>1 DEF PublisherTypes
<1>3. /\ picks' \in Seq([key : Nat, expected : Expected]) /\ UpdatedKeyIsUsed'
      /\ publish' = [at |-> "broadcast", key |-> publish.key, next |-> NoKey]
      /\ expected' \in Expected /\ expected' = Nothing /\ queuedKey' = NoKey /\ currentKey' \in {publish.key, NoKey}
    BY <1>1, <1>2, KeyPickedKeeps DEF FirstKeyLatest
<1>4. /\ latestKeyId' = publish.key
      /\ UNCHANGED <<signer, keyCount, pubStore, queueState, update, published, pubRestarts>>
    BY DEF FirstKeyLatest
<1>5. publish' \in Publishing
    BY <1>1, <1>3 DEF Publishing
<1>9. PublisherTypes'
    BY <1>1, <1>3, <1>4, <1>5 DEF PublisherTypes
<1>6. StoredBeforeUse'
    BY <1>1, <1>3, <1>4 DEF StoredBeforeUse, NoUpdate, NoKey
<1>7. ExpectedIsNext'
    BY <1>1, <1>3, <1>4 DEF ExpectedIsNext, MakingFirstKey, Nothing, NoKey
<1>8. QED
    BY <1>3, <1>6, <1>7, <1>9

LEMMA BroadcastKeeps == ASSUME PublisherInv, NEW b \in BOOLEAN, BroadcastMessage(b) PROVE PublisherInv'
<1> USE DEF PublisherInv, BroadcastMessage, queueVars
<1>0. /\ publish.at = "broadcast" /\ publish' = NotPublishing /\ publish.key \in pubStore /\ publish.next \in Nat
      /\ published \in Seq([key : Nat, next : Nat]) /\ publish.key \in Nat /\ publish'.at = "idle"
    BY DEF StoredBeforeUse, PublisherTypes, NotPublishing, Publishing, Updating
<1>1. published' \in Seq([key : Nat, next : Nat]) /\ \A i \in 1 .. Len(published') : published'[i].key \in pubStore
    <2>1. CASE published' = published
        BY <1>0, <2>1 DEF StoredBeforeUse
    <2>2. CASE published' = Append(published, [key |-> publish.key, next |-> publish.next])
        BY <1>0, <2>2 DEF StoredBeforeUse
    <2>3. QED
        BY <2>1, <2>2
<1>2. PublisherTypes'
    BY <1>0, <1>1, NothingGoesOn DEF PublisherTypes
<1>3. StoredBeforeUse'
    BY <1>0, <1>1 DEF StoredBeforeUse, NoUpdate, NoKey
<1>4. ExpectedIsNext'
    BY <1>0 DEF ExpectedIsNext, MakingFirstKey, Nothing, NoKey
<1>5. UpdatedKeyIsUsed'
    BY DEF UpdatedKeyIsUsed, Nothing, NoKey
<1>6. QED
    BY <1>2, <1>3, <1>4, <1>5

LEMMA UpdateStartsKeeps == ASSUME PublisherInv, NEW m \in {"rotate", "rekey"}, UpdateStarts(m) PROVE PublisherInv'
<1> USE DEF PublisherInv, UpdateStarts
<1>1. MakingFirstKey \in BOOLEAN /\ publish' = publish
    <2>1. (publish.at \in {"first key set", "first key latest"}) \in BOOLEAN
        OBVIOUS
    <2>2. QED
        BY <2>1 DEF MakingFirstKey
<1>2. /\ update.at = "none" /\ keyCount' = keyCount + 1 /\ keyCount \in Nat
      /\ queueState' \in {"none", "creating", "created"} /\ (queueState' = "created" <=> queueState = "created")
    BY DEF GetGroupKeyQueue, PublisherTypes
<1>3. /\ update' \in Updating /\ update'.at = "queue" /\ update'.key = keyCount + 1
      /\ (MakingFirstKey => update'.overlapped)
    BY <1>1, <1>2 DEF Updating
<1>4. PublisherTypes'
    BY <1>2, <1>3 DEF PublisherTypes
<1>5. StoredBeforeUse'
    <2>1. update'.at \notin {"none", "set", "latest"} /\ update'.key # NoKey
        BY <1>2, <1>3 DEF NoKey
    <2>2. publish' = publish /\ pubStore' = pubStore /\ UNCHANGED <<currentKey, queuedKey, published>>
        OBVIOUS
    <2>3. QED
        BY <1>2, <2>1, <2>2 DEF StoredBeforeUse
<1>6. ExpectedIsNext'
    BY <1>1, <1>2, <1>3 DEF ExpectedIsNext, MakingFirstKey, Nothing, NoKey
<1>7. UpdatedKeyIsUsed'
    BY DEF UpdatedKeyIsUsed, Nothing, NoKey
<1>8. QED
    BY <1>4, <1>5, <1>6, <1>7

LEMMA UpdateSetsKeyKeeps == ASSUME PublisherInv, UpdateSetsKey PROVE PublisherInv'
<1> USE DEF PublisherInv, UpdateSetsKey, queueVars
<1>1. /\ update.at = "queue" /\ update'.at = "set" /\ update'.key = update.key /\ update'.overlapped = update.overlapped
      /\ update' \in Updating
      /\ pubStore' \subseteq Nat \ {NoKey} /\ pubStore \subseteq pubStore' /\ update.key \in pubStore' /\ queueState = "created"
    BY DEF PublisherTypes, StoredBeforeUse, Updating
<1>2. PublisherTypes'
    BY <1>1 DEF PublisherTypes
<1>3. StoredBeforeUse'
    BY <1>1 DEF StoredBeforeUse, NoKey
<1>4. ExpectedIsNext'
    BY <1>1 DEF ExpectedIsNext, MakingFirstKey, Nothing, NoKey
<1>5. UpdatedKeyIsUsed'
    BY DEF UpdatedKeyIsUsed, Nothing, NoKey
<1>6. QED
    BY <1>2, <1>3, <1>4, <1>5

LEMMA UpdateSetsLatestKeeps == ASSUME PublisherInv, UpdateSetsLatest PROVE PublisherInv'
<1> USE DEF PublisherInv, UpdateSetsLatest, queueVars
<1>1. /\ update.at = "set" /\ update'.at = "latest" /\ update'.key = update.key /\ update'.overlapped = update.overlapped
      /\ update' \in Updating
      /\ latestKeyId' = update.key /\ update.key \in pubStore
    BY DEF PublisherTypes, StoredBeforeUse, Publishing, Updating
<1>2. PublisherTypes'
    BY <1>1 DEF PublisherTypes
<1>3. StoredBeforeUse'
    <2>1. update'.at \notin {"none"} /\ update'.key \in pubStore /\ update'.key # NoKey /\ queueState = "created"
        BY <1>1 DEF StoredBeforeUse
    <2>2. UNCHANGED <<publish, pubStore, queueState, currentKey, queuedKey, published>>
        OBVIOUS
    <2>3. QED
        BY <2>1, <2>2 DEF StoredBeforeUse
<1>4. ExpectedIsNext'
    BY <1>1 DEF ExpectedIsNext, MakingFirstKey, Nothing, NoKey
<1>5. UpdatedKeyIsUsed'
    BY DEF UpdatedKeyIsUsed, Nothing, NoKey
<1>6. QED
    BY <1>2, <1>3, <1>4, <1>5

LEMMA UpdateResolvesKeeps == ASSUME PublisherInv, UpdateResolves PROVE PublisherInv'
<1> USE DEF PublisherInv
<1>1. /\ update.at = "latest" /\ update.key \in pubStore /\ update.key \in Nat /\ update.key # NoKey
      /\ queueState = "created" /\ update' = NoUpdate /\ update'.at = "none"
      /\ (MakingFirstKey => update.overlapped) /\ (~update.overlapped => latestKeyId = update.key)
      /\ MakingFirstKey' = MakingFirstKey
    BY DEF UpdateResolves, PublisherTypes, StoredBeforeUse, ExpectedIsNext, MakingFirstKey, NoUpdate, Publishing, Updating
<1>2. /\ UNCHANGED <<signer, keyCount, pubStore, latestKeyId, queueState, publish, picks, published, pubRestarts>>
      /\ currentKey' \in {currentKey, update.key} /\ queuedKey' \in {NoKey, update.key}
      /\ \/ expected' = Nothing /\ update.overlapped
         \/ /\ ~update.overlapped
            /\ \/ expected' = [key |-> update.key, after |-> 1] /\ queuedKey' = update.key
               \/ expected' = [key |-> update.key, after |-> 0] /\ currentKey' = update.key /\ queuedKey' = NoKey
    BY DEF UpdateResolves, Rotate, Rekey
<1>3. expected' \in Expected /\ (expected' # Nothing => ~update.overlapped /\ expected'.key = update.key)
    BY <1>1, <1>2 DEF Expected, Nothing, NoKey
<1>4. PublisherTypes'
    BY <1>1, <1>2, <1>3, NothingGoesOn DEF PublisherTypes
<1>5. StoredBeforeUse'
    BY <1>1, <1>2 DEF StoredBeforeUse, NoUpdate, NoKey
<1>6. expected' # Nothing =>
          \/ currentKey' = expected'.key /\ queuedKey' = NoKey
          \/ expected'.after = 1 /\ queuedKey' = expected'.key
    BY <1>2
<1>7. ExpectedIsNext'
    BY <1>1, <1>2, <1>3, <1>6 DEF ExpectedIsNext, Nothing, NoKey
<1>8. UpdatedKeyIsUsed'
    BY <1>2 DEF UpdatedKeyIsUsed, Nothing, NoKey
<1>9. QED
    BY <1>4, <1>5, <1>7, <1>8

LEMMA PublisherRestartsKeeps == ASSUME PublisherInv, PublisherRestarts PROVE PublisherInv'
<1> USE DEF PublisherInv, PublisherRestarts
<1>1. /\ publish'.at = "idle" /\ update'.at = "none" /\ update' = NoUpdate /\ queueState' = "none"
      /\ expected' \in {Nothing, expected} /\ expected' \in Expected
      /\ (expected' # Nothing => update = NoUpdate /\ expected' = expected)
    BY DEF PublisherTypes, NotPublishing, NoUpdate, Nothing, NoKey, Expected, Publishing, Updating
<1>2. PublisherTypes'
    BY <1>1, NothingGoesOn DEF PublisherTypes
<1>3. StoredBeforeUse'
    BY <1>1 DEF StoredBeforeUse, NoUpdate, NoKey
<1>4. expected' # Nothing => expected'.key # NoKey /\ latestKeyId' = expected'.key
    BY <1>1 DEF ExpectedIsNext, NoUpdate
<1>5. ExpectedIsNext'
    BY <1>1, <1>4 DEF ExpectedIsNext, MakingFirstKey, Nothing, NoKey
<1>6. UpdatedKeyIsUsed'
    BY DEF UpdatedKeyIsUsed, Nothing, NoKey
<1>7. QED
    BY <1>2, <1>3, <1>5, <1>6

-----------------------------------------------------------------------------
(* The readers' half.                                                      *)

LEMMA PublisherKeepsReaders ==
    ASSUME KeysInv, subVars' = subVars, signer' = signer,
           \/ UNCHANGED <<published, listening, erc1271Publishers, pubRestarts>>
           \/ pubRestarts' = pubRestarts + 1 /\ published' = published
           \/ /\ pubRestarts' = pubRestarts /\ published' = Append(published, [key |-> publish.key, next |-> publish.next])
              /\ listening' = TRUE /\ erc1271Publishers' = (signer = "contract" \/ erc1271Publishers)
    PROVE  ReaderInv'
<1> USE DEF KeysInv, ReaderInv
<1>1. /\ UNCHANGED <<subStore, pendingRequests, keyWire, reader, failed, keysLost>> /\ published \in Seq([key : Nat, next : Nat])
      /\ publish.key \in Nat /\ publish.next \in Nat /\ pubRestarts \in Nat /\ signer \in {"user", "contract"}
    BY DEF subVars, PublisherInv, PublisherTypes, Publishing
<1>2. /\ Len(published) \in Nat /\ Len(published') \in Nat /\ Len(published) <= Len(published')
      /\ \A i \in 1 .. Len(published) : i \in 1 .. Len(published') /\ published'[i] = published[i]
      /\ pubRestarts' \in {pubRestarts, pubRestarts + 1}
    BY <1>1
<1>3. ReaderTypes'
    <2>1. keyWire' \subseteq KeyMessage'
        BY <1>1, <1>2 DEF ReaderTypes, KeyMessage
    <2>2. QED
        BY <1>1, <2>1 DEF ReaderTypes
<1>4. \A q \in keyWire' : q.key = published'[q.id[2]].key
    <2> SUFFICES ASSUME NEW q \in keyWire PROVE q.key = published'[q.id[2]].key
        BY <1>1
    <2>1. q.id[2] \in 1 .. Len(published) /\ q.key = published[q.id[2]].key
        BY DEF ReaderTypes, KeyMessage, RequestsOnTheirWay
    <2>2. QED
        BY <1>2, <2>1
<1>5. pubRestarts' = 0 /\ published' # <<>> => AddressedToPublisher'
    <2>1. CASE UNCHANGED <<published, listening, erc1271Publishers, pubRestarts>>
        BY <2>1 DEF RequestsOnTheirWay, AddressedToPublisher
    <2>2. CASE pubRestarts' = pubRestarts + 1
        BY <1>1, <2>2
    <2>3. CASE listening' = TRUE /\ erc1271Publishers' = (signer = "contract" \/ erc1271Publishers)
        <3>1. CASE signer = "user"
            BY <2>3, <3>1 DEF AddressedToPublisher
        <3>2. CASE signer = "contract"
            BY <2>3, <3>2 DEF AddressedToPublisher
        <3>3. QED
            BY <1>1, <3>1, <3>2
    <2>4. QED
        BY <2>1, <2>2, <2>3
<1>6. ASSUME NEW r \in Reader PROVE ReaderInOrder(r)'
    <2>1. ReaderInOrder(r) /\ (pubRestarts' = 0 => pubRestarts = 0)
        BY <1>1, <1>2 DEF RequestsOnTheirWay
    <2>2. QED
        BY <1>1, <1>2, <2>1 DEF ReaderInOrder
<1>7. QED
    BY <1>1, <1>3, <1>4, <1>5, <1>6 DEF RequestsOnTheirWay

LEMMA RequestHandledKeeps == ASSUME KeysInv, NEW q \in keyWire, RequestHandled(q) PROVE ReaderInv'
<1> USE DEF KeysInv, ReaderInv
<1> DEFINE answer == IF AddressedToPublisher /\ q.key \in KeysOfPublisher THEN {ResponseTo(q)} ELSE {}
<1>1. /\ keyWire' = (keyWire \ {q}) \cup answer
      /\ UNCHANGED <<signer, listening, erc1271Publishers, published, pubRestarts, reader, pendingRequests, failed, keysLost>>
    BY DEF RequestHandled, pubVars
<1>2. q \in KeyMessage /\ q.key = published[q.id[2]].key /\ q.id[2] \in 1 .. Len(published)
    BY DEF ReaderTypes, RequestsOnTheirWay, KeyMessage
<1>3. ResponseTo(q) \in KeyMessage /\ ResponseTo(q).id = q.id /\ ResponseTo(q).key = q.key
    BY <1>2 DEF ResponseTo, KeyMessage
<1>4. ReaderTypes'
    BY <1>1, <1>3 DEF ReaderTypes, KeyMessage
<1>5. pubRestarts = 0 => ResponseTo(q) \in keyWire'
    <2>1. published # <<>>
        BY <1>2 DEF PublisherInv, PublisherTypes
    <2>3. q.key \in pubStore
        BY <1>2 DEF PublisherInv, StoredBeforeUse
    <2>2. QED
        BY <1>1, <2>1, <2>3 DEF RequestsOnTheirWay, KeysOfPublisher
<1>6. \A r \in Reader : ReaderInOrder(r)'
    <2> SUFFICES ASSUME NEW r \in Reader PROVE ReaderInOrder(r)'
        OBVIOUS
    <2>1. ASSUME reader[r].at = "waiting", pubRestarts = 0, keysLost = 0
          PROVE  \E p \in keyWire' : p.id = <<r, reader[r].message>>
        <3>1. PICK p \in keyWire : p.id = <<r, reader[r].message>>
            BY <2>1 DEF RequestsOnTheirWay, ReaderInOrder
        <3>2. CASE p = q
            BY <1>3, <1>5, <2>1, <3>1, <3>2
        <3>3. CASE p # q
            BY <1>1, <3>1, <3>3
        <3>4. QED
            BY <3>2, <3>3
    <2>2. QED
        BY <1>1, <2>1 DEF RequestsOnTheirWay, ReaderInOrder
<1>7. QED
    BY <1>1, <1>2, <1>3, <1>4, <1>6 DEF RequestsOnTheirWay, AddressedToPublisher

LEMMA KeyMessageLostKeeps == ASSUME KeysInv, NEW q \in keyWire, KeyMessageLost(q) PROVE ReaderInv'
<1> USE DEF KeysInv, ReaderInv
<1>1. /\ keyWire' = keyWire \ {q} /\ keysLost' = keysLost + 1 /\ keysLost \in Nat
      /\ UNCHANGED <<signer, listening, erc1271Publishers, published, pubRestarts, reader, pendingRequests, failed>>
    BY DEF KeyMessageLost, pubVars, ReaderTypes
<1>2. ReaderTypes'
    BY <1>1 DEF ReaderTypes, KeyMessage
<1>3. \A r \in Reader : ReaderInOrder(r)'
    BY <1>1 DEF RequestsOnTheirWay, ReaderInOrder
<1>4. QED
    BY <1>1, <1>2, <1>3 DEF RequestsOnTheirWay, AddressedToPublisher

LEMMA NextMessage ==
    ASSUME NEW m \in ReaderState
    PROVE  /\ [at |-> "idle", message |-> m.message + 1] \in ReaderState
           /\ [at |-> "idle", message |-> m.message + 1].at = "idle"
<1>0. m.message \in Nat \ {0}
    BY DEF ReaderState
<1>1. m.message + 1 \in Nat \ {0}
    BY <1>0
<1>2. QED
    BY <1>1 DEF ReaderState

\* A reader that has the key goes on to its next message, or first stores the next key.
LEMMA DecryptedInOrder ==
    ASSUME KeysInv, NEW r \in Reader, NEW store, reader[r].message \in 1 .. Len(published)
    PROVE  /\ DecryptedBy(r, store) \in ReaderState /\ DecryptedBy(r, store).at \in {"idle", "storing next"}
           /\ DecryptedBy(r, store).at # "idle" => DecryptedBy(r, store).message \in 1 .. Len(published)
<1>1. reader[r] \in ReaderState
    BY DEF KeysInv, ReaderInv, ReaderTypes
<1>2. CASE MessageOf(r).next \notin store \cup {NoKey}
    <2>1. DecryptedBy(r, store) = [reader[r] EXCEPT !.at = "storing next"]
        BY <1>2 DEF DecryptedBy
    <2>2. QED
        BY <1>1, <2>1 DEF ReaderState
<1>3. CASE MessageOf(r).next \in store \cup {NoKey}
    <2>1. DecryptedBy(r, store) = [at |-> "idle", message |-> reader[r].message + 1]
        BY <1>3 DEF DecryptedBy
    <2>2. QED
        BY <1>1, <2>1, NextMessage
<1>4. QED
    BY <1>2, <1>3

\* What a step of the readers leaves alone and what it may do to each of them.
LEMMA ReadersMove ==
    ASSUME KeysInv, pubVars' = pubVars, reader' \in [Reader -> ReaderState], keyWire' \subseteq KeyMessage, keysLost' = keysLost,
           \A p \in keyWire' : p.key = published[p.id[2]].key, \A f \in failed' : f.excused,
           \A r \in Reader :
               /\ reader'[r].at # "idle" => reader'[r].message \in 1 .. Len(published)
               /\ reader'[r].at = "waiting" =>
                     /\ <<r, reader'[r].message>> \in pendingRequests'
                     /\ pubRestarts = 0 /\ keysLost = 0 => \E p \in keyWire' : p.id = <<r, reader'[r].message>>
    PROVE  ReaderInv'
<1> USE DEF KeysInv, ReaderInv
<1>1. UNCHANGED <<signer, listening, erc1271Publishers, published, pubRestarts>>
    BY DEF pubVars
<1>2. ReaderTypes'
    BY <1>1 DEF ReaderTypes, KeyMessage
<1>3. \A r \in Reader : ReaderInOrder(r)'
    BY <1>1 DEF ReaderInOrder
<1>4. QED
    BY <1>1, <1>2, <1>3 DEF RequestsOnTheirWay, AddressedToPublisher

LEMMA ResponseHandledKeeps == ASSUME KeysInv, NEW q \in keyWire, ResponseHandled(q) PROVE ReaderInv'
<1> USE DEF KeysInv, ReaderInv
<1>1. /\ keyWire' = keyWire \ {q} /\ pubVars' = pubVars /\ failed' = failed /\ keysLost' = keysLost
      /\ reader \in [Reader -> ReaderState] /\ keyWire \subseteq KeyMessage
    BY DEF ResponseHandled, ReaderTypes
<1>2. /\ q.key = published[q.id[2]].key
      /\ \A p \in keyWire : p.key = published[p.id[2]].key
      /\ \A f \in failed : f.excused
      /\ \A r \in Reader : ReaderInOrder(r)
    BY DEF RequestsOnTheirWay
<1>3. reader' \in [Reader -> ReaderState] /\ \A r \in Reader :
        \/ reader'[r] = reader[r] /\ (q.id \in pendingRequests => reader[r].at # "waiting" \/ MessageOf(r).key # q.key)
        \/ /\ reader'[r].at \in {"idle", "storing next"}
           /\ reader'[r].at # "idle" => reader'[r].message \in 1 .. Len(published)
    <2>1. CASE q.id \notin pendingRequests
        BY <1>1, <2>1 DEF ResponseHandled
    <2>2. CASE q.id \in pendingRequests
        <3>1. reader' = [r \in Reader |-> IF reader[r].at = "waiting" /\ MessageOf(r).key = q.key
                                          THEN DecryptedBy(r, subStore \cup {q.key}) ELSE reader[r]]
            BY <2>2 DEF ResponseHandled, KeyStored
        <3>2. \A r \in Reader : reader[r].at = "waiting" => reader[r].message \in 1 .. Len(published)
            BY <1>2 DEF ReaderInOrder
        <3>3. \A r \in Reader : reader[r].at = "waiting" =>
                  /\ DecryptedBy(r, subStore \cup {q.key}) \in ReaderState
                  /\ DecryptedBy(r, subStore \cup {q.key}).at \in {"idle", "storing next"}
                  /\ DecryptedBy(r, subStore \cup {q.key}).at # "idle" =>
                        DecryptedBy(r, subStore \cup {q.key}).message \in 1 .. Len(published)
            BY <3>2, DecryptedInOrder
        <3>4. QED
            BY <1>1, <2>2, <3>1, <3>3
    <2>3. QED
        BY <2>1, <2>2
<1>4. ASSUME NEW r \in Reader, reader'[r].at = "waiting"
      PROVE  /\ reader'[r] = reader[r] /\ <<r, reader[r].message>> \in pendingRequests /\ q.id # <<r, reader[r].message>>
             /\ pubRestarts = 0 /\ keysLost = 0 => \E p \in keyWire : p.id = <<r, reader[r].message>>
    <2>1. reader'[r] = reader[r] /\ (q.id \in pendingRequests => MessageOf(r).key # q.key)
        BY <1>3, <1>4
    <2>2. /\ <<r, reader[r].message>> \in pendingRequests
          /\ pubRestarts = 0 /\ keysLost = 0 => \E p \in keyWire : p.id = <<r, reader[r].message>>
        BY <1>2, <1>4, <2>1 DEF ReaderInOrder
    <2>3. q.id = <<r, reader[r].message>> => MessageOf(r).key = q.key
        BY <1>2 DEF MessageOf
    <2>4. QED
        BY <2>1, <2>2, <2>3
<1>5. \A r \in Reader :
        /\ reader'[r].at # "idle" => reader'[r].message \in 1 .. Len(published)
        /\ reader'[r].at = "waiting" =>
              /\ <<r, reader'[r].message>> \in pendingRequests'
              /\ pubRestarts = 0 /\ keysLost = 0 => \E p \in keyWire' : p.id = <<r, reader'[r].message>>
    <2> SUFFICES ASSUME NEW r \in Reader
                 PROVE  /\ reader'[r].at # "idle" => reader'[r].message \in 1 .. Len(published)
                        /\ reader'[r].at = "waiting" =>
                              /\ <<r, reader'[r].message>> \in pendingRequests'
                              /\ pubRestarts = 0 /\ keysLost = 0 => \E p \in keyWire' : p.id = <<r, reader'[r].message>>
        OBVIOUS
    <2>1. reader'[r].at # "idle" => reader'[r].message \in 1 .. Len(published)
        BY <1>2, <1>3 DEF ReaderInOrder
    <2>2. pendingRequests \ {q.id} \subseteq pendingRequests'
        BY DEF ResponseHandled
    <2>3. QED
        BY <1>1, <1>4, <2>1, <2>2
<1>6. QED
    BY <1>1, <1>2, <1>3, <1>5, ReadersMove

LEMMA FetchKeyKeeps == ASSUME KeysInv, NEW r \in Reader, FetchKey(r) PROVE ReaderInv'
<1> USE DEF KeysInv, ReaderInv
<1>1. /\ reader \in [Reader -> ReaderState] /\ keyWire \subseteq KeyMessage /\ \A s \in Reader : ReaderInOrder(s)
      /\ \A p \in keyWire : p.key = published[p.id[2]].key
      /\ \A f \in failed : f.excused
    BY DEF ReaderTypes, RequestsOnTheirWay
<1>2. /\ reader[r].at = "idle" /\ reader[r].message \in 1 .. Len(published)
      /\ UNCHANGED <<pubVars, subStore, pendingRequests, keyWire, failed, keysLost>>
    <2>1. Len(published) \in Nat
        BY DEF PublisherInv, PublisherTypes
    <2>2. reader[r].message \in Nat \ {0}
        BY <1>1 DEF ReaderState
    <2>3. QED
        BY <2>1, <2>2 DEF FetchKey
<1> DEFINE next == IF MessageOf(r).key \in subStore THEN DecryptedBy(r, subStore) ELSE [reader[r] EXCEPT !.at = "throttled"]
<1>3. reader' = [reader EXCEPT ![r] = next]
    BY DEF FetchKey
<1>4. next \in ReaderState /\ next.at # "waiting" /\ (next.at # "idle" => next.message \in 1 .. Len(published))
    <2>1. CASE MessageOf(r).key \in subStore
        BY <1>2, <2>1, DecryptedInOrder
    <2>2. CASE MessageOf(r).key \notin subStore
        BY <1>1, <1>2, <2>2 DEF ReaderState
    <2>3. QED
        BY <2>1, <2>2
<1> HIDE DEF next
<1>5. /\ reader' \in [Reader -> ReaderState] /\ reader'[r] = next
      /\ \A s \in Reader : s # r => reader'[s] = reader[s]
    BY <1>1, <1>3, <1>4
<1>6. \A s \in Reader :
        /\ reader'[s].at # "idle" => reader'[s].message \in 1 .. Len(published)
        /\ reader'[s].at = "waiting" =>
              /\ <<s, reader'[s].message>> \in pendingRequests'
              /\ pubRestarts = 0 /\ keysLost = 0 => \E p \in keyWire' : p.id = <<s, reader'[s].message>>
    BY <1>1, <1>2, <1>4, <1>5 DEF ReaderInOrder
<1>7. QED
    BY <1>1, <1>2, <1>5, <1>6, ReadersMove

LEMMA RequestGroupKeyKeeps == ASSUME KeysInv, NEW r \in Reader, RequestGroupKey(r) PROVE ReaderInv'
<1> USE DEF KeysInv, ReaderInv
<1> DEFINE id == <<r, reader[r].message>>
           q == [type |-> "request", id |-> id, key |-> MessageOf(r).key]
<1>1. /\ reader \in [Reader -> ReaderState] /\ keyWire \subseteq KeyMessage /\ \A s \in Reader : ReaderInOrder(s)
      /\ \A p \in keyWire : p.key = published[p.id[2]].key
      /\ \A f \in failed : f.excused
    BY DEF ReaderTypes, RequestsOnTheirWay
<1>2. /\ reader[r].at = "throttled" /\ reader' = [reader EXCEPT ![r].at = "waiting"]
      /\ pendingRequests' = pendingRequests \cup {id} /\ keyWire' = keyWire \cup {q}
      /\ UNCHANGED <<pubVars, failed, keysLost>>
    BY DEF RequestGroupKey
<1>3. reader[r].message \in 1 .. Len(published)
    BY <1>1, <1>2 DEF ReaderInOrder
<1>4. published[reader[r].message].key \in Nat
    <2>1. published[reader[r].message].key \in pubStore /\ pubStore \subseteq Nat
        BY <1>3 DEF PublisherInv, PublisherTypes, StoredBeforeUse
    <2>2. QED
        BY <2>1
<1>5. q \in KeyMessage /\ q.id = id /\ q.key = published[q.id[2]].key
    BY <1>3, <1>4 DEF KeyMessage, MessageOf
<1>6. /\ reader' \in [Reader -> ReaderState] /\ reader'[r].message = reader[r].message
      /\ \A s \in Reader : s # r => reader'[s] = reader[s]
    BY <1>1, <1>2 DEF ReaderState
<1> HIDE DEF id, q
<1>7. ASSUME NEW s \in Reader
      PROVE  /\ reader'[s].at # "idle" => reader'[s].message \in 1 .. Len(published)
             /\ reader'[s].at = "waiting" =>
                   /\ <<s, reader'[s].message>> \in pendingRequests'
                   /\ pubRestarts = 0 /\ keysLost = 0 => \E p \in keyWire' : p.id = <<s, reader'[s].message>>
    <2>1. CASE s = r
        BY <1>2, <1>3, <1>5, <1>6, <2>1 DEF id
    <2>2. CASE s # r
        BY <1>1, <1>2, <1>6, <2>2 DEF ReaderInOrder
    <2>3. QED
        BY <2>1, <2>2
<1>8. keyWire' \subseteq KeyMessage /\ \A p \in keyWire' : p.key = published[p.id[2]].key
    BY <1>1, <1>2, <1>5
<1>9. QED
    BY <1>1, <1>2, <1>6, <1>7, <1>8, ReadersMove

LEMMA NextKeyStoredKeeps == ASSUME KeysInv, NEW r \in Reader, NextKeyStored(r) PROVE ReaderInv'
<1> USE DEF KeysInv, ReaderInv
<1> DEFINE key == MessageOf(r).next
           rs == [reader EXCEPT ![r] = [at |-> "idle", message |-> reader[r].message + 1]]
<1>1. /\ reader \in [Reader -> ReaderState] /\ keyWire \subseteq KeyMessage /\ \A s \in Reader : ReaderInOrder(s)
      /\ \A p \in keyWire : p.key = published[p.id[2]].key
      /\ \A f \in failed : f.excused
    BY DEF ReaderTypes, RequestsOnTheirWay
<1>2. /\ reader' = [s \in Reader |-> IF rs[s].at = "waiting" /\ MessageOf(s).key = key
                                     THEN DecryptedBy(s, subStore \cup {key}) ELSE rs[s]]
      /\ UNCHANGED <<pubVars, pendingRequests, keyWire, failed, keysLost>>
    BY DEF NextKeyStored, KeyStored
<1>3. /\ rs \in [Reader -> ReaderState] /\ rs[r].at = "idle"
      /\ \A s \in Reader : s # r => rs[s] = reader[s]
    BY <1>1, NextMessage
<1> HIDE DEF key, rs
<1>4. ASSUME NEW s \in Reader
      PROVE  reader'[s] \in ReaderState /\
             \/ reader'[s] = reader[s]
             \/ reader'[s].at = "idle"
             \/ reader'[s].at = "storing next" /\ reader'[s].message \in 1 .. Len(published)
    <2>1. CASE rs[s].at = "waiting" /\ MessageOf(s).key = key
        <3>1. s # r /\ reader[s].message \in 1 .. Len(published)
            BY <1>1, <1>3, <2>1 DEF ReaderInOrder
        <3>2. reader'[s] = DecryptedBy(s, subStore \cup {key})
            BY <1>2, <2>1
        <3>3. QED
            BY <3>1, <3>2, DecryptedInOrder
    <2>2. CASE ~(rs[s].at = "waiting" /\ MessageOf(s).key = key)
        BY <1>2, <1>3, <2>2
    <2>3. QED
        BY <2>1, <2>2
<1>5. reader' \in [Reader -> ReaderState]
    BY <1>2, <1>4
<1>6. \A s \in Reader :
        /\ reader'[s].at # "idle" => reader'[s].message \in 1 .. Len(published)
        /\ reader'[s].at = "waiting" =>
              /\ <<s, reader'[s].message>> \in pendingRequests'
              /\ pubRestarts = 0 /\ keysLost = 0 => \E p \in keyWire' : p.id = <<s, reader'[s].message>>
    BY <1>1, <1>2, <1>4 DEF ReaderInOrder
<1>7. QED
    BY <1>1, <1>2, <1>5, <1>6, ReadersMove

LEMMA FetchTimesOutKeeps == ASSUME KeysInv, NEW r \in Reader, FetchTimesOut(r) PROVE ReaderInv'
<1> USE DEF KeysInv, ReaderInv
<1>1. /\ reader \in [Reader -> ReaderState] /\ keyWire \subseteq KeyMessage /\ \A s \in Reader : ReaderInOrder(s)
      /\ \A p \in keyWire : p.key = published[p.id[2]].key
      /\ \A f \in failed : f.excused
      /\ keysLost \in Nat /\ pubRestarts \in Nat
    BY DEF ReaderTypes, RequestsOnTheirWay, PublisherInv, PublisherTypes
<1>2. /\ reader[r].at = "waiting" /\ ~\E q \in keyWire : q.id = <<r, reader[r].message>>
      /\ failed' = failed \cup {[excused |-> keysLost > 0 \/ ~AddressedToPublisher \/ pubRestarts > 0]}
      /\ reader' = [reader EXCEPT ![r] = [at |-> "idle", message |-> reader[r].message + 1]]
      /\ UNCHANGED <<pubVars, subStore, pendingRequests, keyWire, keysLost>>
    BY DEF FetchTimesOut
<1>3. keysLost > 0 \/ pubRestarts > 0
    <2>1. ~(pubRestarts = 0 /\ keysLost = 0)
        BY <1>1, <1>2 DEF ReaderInOrder
    <2>2. QED
        BY <1>1, <2>1
<1>4. \A f \in failed' : f.excused
    <2>1. [excused |-> keysLost > 0 \/ ~AddressedToPublisher \/ pubRestarts > 0].excused
        BY <1>3
    <2>2. QED
        BY <1>1, <1>2, <2>1
<1>5. /\ reader' \in [Reader -> ReaderState] /\ reader'[r].at = "idle"
      /\ \A s \in Reader : s # r => reader'[s] = reader[s]
    BY <1>1, <1>2, NextMessage
<1>6. \A s \in Reader :
        /\ reader'[s].at # "idle" => reader'[s].message \in 1 .. Len(published)
        /\ reader'[s].at = "waiting" =>
              /\ <<s, reader'[s].message>> \in pendingRequests'
              /\ pubRestarts = 0 /\ keysLost = 0 => \E p \in keyWire' : p.id = <<s, reader'[s].message>>
    BY <1>1, <1>2, <1>5 DEF ReaderInOrder
<1>7. QED
    BY <1>1, <1>2, <1>4, <1>5, <1>6, ReadersMove

\* The readers leave the publisher alone.
LEMMA ReadersKeepPublisher == ASSUME PublisherInv, pubVars' = pubVars PROVE PublisherInv'
<1> USE DEF PublisherInv, pubVars, queueVars
<1>1. PublisherTypes'
    BY DEF PublisherTypes
<1>2. StoredBeforeUse'
    BY DEF StoredBeforeUse
<1>3. ExpectedIsNext'
    BY DEF ExpectedIsNext, MakingFirstKey
<1>4. UpdatedKeyIsUsed'
    BY DEF UpdatedKeyIsUsed
<1>5. QED
    BY <1>1, <1>2, <1>3, <1>4

LEMMA KeysInductive == ASSUME KeysInv, [EncryptionKeysNext]_keyVars PROVE KeysInv'
<1>0. PublisherInv /\ ReaderInv
    BY DEF KeysInv
<1>1. CASE QueueCreated \/ PublishStarts \/ UseGroupKey \/ FirstKeySet \/ FirstKeyLatest
    <2>1. PublisherInv'
        BY <1>0, <1>1, QueueCreatedKeeps, PublishStartsKeeps, UseGroupKeyKeeps, FirstKeySetKeeps, FirstKeyLatestKeeps
    <2>2. subVars' = subVars /\ signer' = signer /\ UNCHANGED <<published, listening, erc1271Publishers, pubRestarts>>
        BY <1>1 DEF QueueCreated, PublishStarts, UseGroupKey, FirstKeySet, FirstKeyLatest
    <2>3. QED
        BY <2>1, <2>2, PublisherKeepsReaders DEF KeysInv
<1>2. ASSUME NEW b \in BOOLEAN, MessageCreated(b) \/ BroadcastMessage(b) PROVE KeysInv'
    <2>1. PublisherInv'
        BY <1>0, <1>2, MessageCreatedKeeps, BroadcastKeeps
    <2>2. subVars' = subVars /\ signer' = signer /\ pubRestarts' = pubRestarts
        BY <1>2 DEF MessageCreated, BroadcastMessage
    <2>3. \/ UNCHANGED <<published, listening, erc1271Publishers>>
          \/ /\ published' = Append(published, [key |-> publish.key, next |-> publish.next])
             /\ listening' = TRUE /\ erc1271Publishers' = (signer = "contract" \/ erc1271Publishers)
        BY <1>2 DEF MessageCreated, BroadcastMessage
    <2>4. QED
        BY <2>1, <2>2, <2>3, PublisherKeepsReaders DEF KeysInv
<1>3. ASSUME NEW m \in {"rotate", "rekey"}, UpdateStarts(m) PROVE KeysInv'
    <2>1. PublisherInv'
        BY <1>0, <1>3, UpdateStartsKeeps
    <2>2. subVars' = subVars /\ signer' = signer /\ UNCHANGED <<published, listening, erc1271Publishers, pubRestarts>>
        BY <1>3 DEF UpdateStarts
    <2>3. QED
        BY <2>1, <2>2, PublisherKeepsReaders DEF KeysInv
<1>4. CASE UpdateSetsKey \/ UpdateSetsLatest \/ UpdateResolves \/ PublisherRestarts
    <2>1. PublisherInv'
        BY <1>0, <1>4, UpdateSetsKeyKeeps, UpdateSetsLatestKeeps, UpdateResolvesKeeps, PublisherRestartsKeeps
    <2>2. /\ subVars' = subVars /\ signer' = signer
          /\ \/ UNCHANGED <<published, listening, erc1271Publishers, pubRestarts>>
             \/ pubRestarts' = pubRestarts + 1 /\ published' = published
        BY <1>4 DEF UpdateSetsKey, UpdateSetsLatest, UpdateResolves, PublisherRestarts
    <2>3. QED
        BY <2>1, <2>2, PublisherKeepsReaders DEF KeysInv
<1>5. ASSUME NEW q \in keyWire, RequestHandled(q) \/ KeyMessageLost(q) \/ ResponseHandled(q) PROVE KeysInv'
    <2>1. pubVars' = pubVars
        BY <1>5 DEF RequestHandled, KeyMessageLost, ResponseHandled
    <2>2. QED
        BY <1>0, <1>5, <2>1, ReadersKeepPublisher, RequestHandledKeeps, KeyMessageLostKeeps, ResponseHandledKeeps DEF KeysInv
<1>6. ASSUME NEW r \in Reader, FetchKey(r) \/ RequestGroupKey(r) \/ NextKeyStored(r) \/ FetchTimesOut(r) PROVE KeysInv'
    <2>1. pubVars' = pubVars
        BY <1>6 DEF FetchKey, RequestGroupKey, NextKeyStored, FetchTimesOut
    <2>2. QED
        BY <1>0, <1>6, <2>1, ReadersKeepPublisher, FetchKeyKeeps, RequestGroupKeyKeeps, NextKeyStoredKeeps,
           FetchTimesOutKeeps DEF KeysInv
<1>7. CASE UNCHANGED keyVars
    <2>1. pubVars' = pubVars /\ subVars' = subVars
        BY <1>7 DEF keyVars
    <2>2. signer' = signer /\ UNCHANGED <<published, listening, erc1271Publishers, pubRestarts>>
        BY <2>1 DEF pubVars
    <2>3. QED
        BY <1>0, <2>1, <2>2, ReadersKeepPublisher, PublisherKeepsReaders DEF KeysInv
<1>8. QED
    BY <1>1, <1>2, <1>3, <1>4, <1>5, <1>6, <1>7 DEF EncryptionKeysNext

(***************************************************************************)
(* Keys reach the readers, in every run: once updateEncryptionKey()        *)
(* resolved its key is the one that messages are encrypted with, across    *)
(* restarts of the publisher too; a message is never published under a key *)
(* that the publisher has not stored; and a reader gives a message up only *)
(* if a request or an answer was lost or the publisher was away.  For any  *)
(* readers, messages, updates, restarts and losses.                        *)
(***************************************************************************)
THEOREM KeysReachReadersAlways == EncryptionKeysSpec => []KeysReachReaders
<1>1. KeysInv => KeysReachReaders
    BY DEF KeysInv, PublisherInv, StoredBeforeUse, ReaderInv, RequestsOnTheirWay, KeysReachReaders, FailsOnlyUnanswered
<1>2. QED
    BY <1>1, KeysInitially, KeysInductive, PTL DEF EncryptionKeysSpec

-----------------------------------------------------------------------------
(* Subscriptions with a resend: ResendInv.  Until unsubscribe() the        *)
(* buffers between the storage node and the application hold consecutive   *)
(* messages, each from where the next one ends, and so does the buffer of  *)
(* the network's messages.                                                 *)

BufferTypes == [items : Seq(Nat), error : BOOLEAN, writeLocked : BOOLEAN, readLocked : BOOLEAN]

Fetches == [at : {"none", "fetching", "pulling", "pushing", "done"}, next : Nat \ {0}, last : Nat, failed : BOOLEAN]

ResendTypes ==
    /\ orderMessages \in BOOLEAN /\ told \in BOOLEAN /\ publishedCount \in Nat /\ stored \in Nat /\ given \in Seq(Nat)
    /\ fetch \in Fetches
    /\ resentMsgs \in BufferTypes /\ processed \in BufferTypes /\ realtime \in BufferTypes /\ outBuffer \in BufferTypes
    /\ stage \in {"resolving", "resending", "realtime", "ended"} /\ unsub \in {"no", "ending", "yes"}

Elements(s) == {s[i] : i \in 1 .. Len(s)}
Passed == Elements(given) \cup Elements(outBuffer.items)

\* The messages after number n, one after another.
From(s, n) == \A i \in 1 .. Len(s) : s[i] = n + i
Ascends(s) == \A i, j \in 1 .. Len(s) : i < j => s[i] < s[j]

\* The ordering stage passes ascending messages.
OrderedAscend ==
    orderMessages => /\ Ascends(given) /\ Ascends(outBuffer.items)
                     /\ \A a \in Elements(given), b \in Elements(outBuffer.items) : a < b

\* unsubscribe() locks the buffers that others write to.
LockedByUnsubscribe ==
    /\ stage = "resolving" => fetch.at = "none"
    /\ unsub # "no" => realtime.writeLocked
    /\ unsub = "yes" /\ fetch.at # "none" => ~IsWritable(resentMsgs)

\* The number of the last message of the network, and of the resend, that was read.
Read == publishedCount - Len(realtime.items)
Resent == fetch.next - 1 - Len(resentMsgs.items) - Len(processed.items)

RealtimeWaits ==
    /\ IsWritable(realtime) /\ IsWritable(outBuffer)
    /\ Published <= Read /\ From(realtime.items, Read) /\ (stage # "realtime" => Read = Published)

NothingResent ==
    /\ fetch.at = "none" /\ fetch.next = 1 /\ ~fetch.failed /\ ~told
    /\ resentMsgs = NewBuffer /\ processed = NewBuffer /\ Passed = {}

Resending ==
    /\ fetch.at # "none" /\ ~told
    /\ resentMsgs.writeLocked <=> fetch.at = "done"
    /\ resentMsgs.readLocked => processed.writeLocked
    /\ processed.writeLocked => fetch.at = "done" /\ resentMsgs.items = <<>> /\ ~resentMsgs.error
    /\ ~processed.readLocked
    /\ fetch.failed <=> (resentMsgs.error \/ processed.error)
    /\ 0 <= Resent /\ Passed = 1 .. Resent
    /\ From(processed.items, Resent) /\ From(resentMsgs.items, Resent + Len(processed.items))

Realtime ==
    /\ fetch.at \in {"none", "done"} /\ (told <=> fetch.failed)
    /\ 1 .. fetch.next - 1 \subseteq Passed /\ Published + 1 .. Read \subseteq Passed
    /\ Passed \subseteq (1 .. fetch.next - 1) \cup (Published + 1 .. Read)

Handover ==
    /\ RealtimeWaits /\ stage # "ended"
    /\ stage = "resolving" => NothingResent
    /\ stage = "resending" => Resending
    /\ stage = "realtime" => Realtime

ResendInv == ResendTypes /\ OrderedAscend /\ LockedByUnsubscribe /\ (unsub = "no" => Handover)

-----------------------------------------------------------------------------
(* Sequences and buffers.                                                  *)

LEMMA ElementsOfAppend ==
    ASSUME NEW s \in Seq(Nat), NEW m \in Nat
    PROVE  /\ Append(s, m) \in Seq(Nat) /\ Len(Append(s, m)) = Len(s) + 1 /\ Len(s) \in Nat
           /\ Elements(Append(s, m)) = Elements(s) \cup {m}
<1>1. /\ Append(s, m) \in Seq(Nat) /\ Len(Append(s, m)) = Len(s) + 1 /\ Len(s) \in Nat
      /\ Append(s, m)[Len(s) + 1] = m /\ \A i \in 1 .. Len(s) : Append(s, m)[i] = s[i]
    OBVIOUS
<1>2. \A i \in 1 .. Len(s) + 1 : i \in 1 .. Len(s) \/ i = Len(s) + 1
    BY <1>1
<1>3. \A i \in 1 .. Len(s) : i \in 1 .. Len(s) + 1
    BY <1>1
<1>4. Len(s) + 1 \in 1 .. Len(s) + 1
    BY <1>1
<1>5. QED
    BY <1>1, <1>2, <1>3, <1>4 DEF Elements

LEMMA ElementsOfTail ==
    ASSUME NEW s \in Seq(Nat), s # <<>>
    PROVE  /\ Tail(s) \in Seq(Nat) /\ Len(Tail(s)) = Len(s) - 1 /\ Len(s) \in Nat \ {0} /\ Head(s) \in Nat /\ Head(s) = s[1]
           /\ \A i \in 1 .. Len(s) - 1 : Tail(s)[i] = s[i + 1] /\ i + 1 \in 1 .. Len(s)
           /\ Elements(s) = {Head(s)} \cup Elements(Tail(s))
<1>1. /\ Tail(s) \in Seq(Nat) /\ Len(Tail(s)) = Len(s) - 1 /\ Len(s) \in Nat \ {0} /\ Head(s) \in Nat /\ Head(s) = s[1]
      /\ \A i \in 1 .. Len(s) - 1 : Tail(s)[i] = s[i + 1] /\ i + 1 \in 1 .. Len(s)
    OBVIOUS
<1>2. \A i \in 1 .. Len(s) : i = 1 \/ (i - 1 \in 1 .. Len(s) - 1 /\ s[i] = Tail(s)[i - 1])
    BY <1>1
<1>3. 1 \in 1 .. Len(s)
    BY <1>1
<1>4. Elements(s) \subseteq {Head(s)} \cup Elements(Tail(s))
    BY <1>1, <1>2 DEF Elements
<1>5. Head(s) \in Elements(s) /\ Elements(Tail(s)) \subseteq Elements(s)
    BY <1>1, <1>3 DEF Elements
<1>6. QED
    BY <1>1, <1>4, <1>5

\* A message that moves from one buffer to the next.
LEMMA MovesOn ==
    ASSUME NEW a \in Nat, NEW b \in Nat, NEW c \in Nat
    PROVE  /\ a - 1 - (b - 1) - (c + 1) = a - 1 - b - c
           /\ a - 1 - b - (c - 1) = a - 1 - b - c + 1
           /\ a - (b - 1) = a - b + 1 /\ a + 1 + (b - 1) = a + b
OBVIOUS

LEMMA SetOfSequence == ASSUME NEW s \in Seq(Nat) PROVE ToSet(s) = Elements(s)
BY DEF ToSet, Elements

LEMMA FromMoves ==
    ASSUME NEW s \in Seq(Nat), NEW n \in Nat, From(s, n)
    PROVE  /\ From(Append(s, n + Len(s) + 1), n)
           /\ s # <<>> => Head(s) = n + 1 /\ From(Tail(s), n + 1)
<1>1. From(Append(s, n + Len(s) + 1), n)
    BY DEF From
<1>2. ASSUME s # <<>> PROVE Head(s) = n + 1 /\ From(Tail(s), n + 1)
    BY <1>2, ElementsOfTail DEF From
<1>3. QED
    BY <1>1, <1>2

LEMMA NoElements == Elements(<<>>) = {} /\ \A n \in Nat : From(<<>>, n)
BY DEF Elements, From

LEMMA EmptyBuffer == NewBuffer \in BufferTypes /\ NewBuffer.items = <<>> /\ ~NewBuffer.error /\ IsWritable(NewBuffer)
BY DEF NewBuffer, BufferTypes, IsWritable

LEMMA Pushed ==
    ASSUME NEW b \in BufferTypes, NEW m \in Nat
    PROVE  /\ Push(b, m) \in BufferTypes
           /\ IsWritable(b) => Push(b, m).items = Append(b.items, m)
           /\ ~IsWritable(b) => Push(b, m) = b
           /\ Push(b, m).error = b.error
           /\ Push(b, m).writeLocked = b.writeLocked /\ Push(b, m).readLocked = b.readLocked
<1>1. Append(b.items, m) \in Seq(Nat)
    BY ElementsOfAppend DEF BufferTypes
<1>2. CASE IsWritable(b)
    <2>1. Push(b, m) = [b EXCEPT !.items = Append(b.items, m)]
        BY <1>2 DEF Push
    <2>2. QED
        BY <1>1, <1>2, <2>1 DEF BufferTypes
<1>3. CASE ~IsWritable(b)
    BY <1>3 DEF Push
<1>4. QED
    BY <1>2, <1>3

LEMMA Shifted ==
    ASSUME NEW b \in BufferTypes, b.items # <<>>
    PROVE  /\ Shift(b) \in BufferTypes /\ Shift(b).items = Tail(b.items) /\ Shift(b).error = b.error
           /\ Shift(b).writeLocked = b.writeLocked /\ Shift(b).readLocked = b.readLocked
<1>1. Tail(b.items) \in Seq(Nat)
    BY ElementsOfTail DEF BufferTypes
<1>2. QED
    BY <1>1 DEF Shift, BufferTypes

LEMMA Ended ==
    ASSUME NEW b \in BufferTypes, NEW f \in BOOLEAN
    PROVE  /\ End(b) \in BufferTypes /\ End(b).items = b.items /\ End(b).writeLocked /\ End(b).readLocked
           /\ End(b).error = b.error
           /\ EndWrite(b, f) \in BufferTypes /\ EndWrite(b, f).items = b.items /\ EndWrite(b, f).writeLocked
           /\ EndWrite(b, f).readLocked = b.readLocked /\ (EndWrite(b, f).error <=> (b.error \/ f))
           /\ Finished(b) \in BufferTypes /\ Finished(b).items = <<>> /\ Finished(b).writeLocked /\ Finished(b).readLocked
           /\ ~Finished(b).error
<1>1. End(b) \in BufferTypes /\ End(b).items = b.items /\ End(b).writeLocked /\ End(b).readLocked /\ End(b).error = b.error
    BY DEF End, BufferTypes
<1>2. (b.error \/ f) \in BOOLEAN
    OBVIOUS
<1>3. /\ EndWrite(b, f) \in BufferTypes /\ EndWrite(b, f).items = b.items /\ EndWrite(b, f).writeLocked
      /\ EndWrite(b, f).readLocked = b.readLocked /\ (EndWrite(b, f).error <=> (b.error \/ f))
    BY <1>2 DEF EndWrite, BufferTypes
<1>4. /\ Finished(b) \in BufferTypes /\ Finished(b).items = <<>> /\ Finished(b).writeLocked /\ Finished(b).readLocked
      /\ ~Finished(b).error
    <2>1. PICK e \in BufferTypes : e = End(b)
        BY <1>1
    <2>2. Finished(b) = [e EXCEPT !.items = <<>>, !.error = FALSE] /\ <<>> \in Seq(Nat)
        BY <2>1 DEF Finished
    <2>3. Finished(b) = [items |-> <<>>, error |-> FALSE, writeLocked |-> e.writeLocked, readLocked |-> e.readLocked]
        BY <2>2 DEF BufferTypes
    <2>4. e.writeLocked /\ e.readLocked /\ e.writeLocked \in BOOLEAN /\ e.readLocked \in BOOLEAN
        BY <1>1, <2>1 DEF BufferTypes
    <2>5. QED
        BY <2>2, <2>3, <2>4 DEF BufferTypes
<1>5. QED
    BY <1>1, <1>3, <1>4

LEMMA MaxIs ==
    ASSUME NEW S \in SUBSET Nat, NEW k \in S, \A y \in S : y <= k
    PROVE  Max(S) = k
<1>1. \E x \in S : \A y \in S : x >= y
    OBVIOUS
<1>2. Max(S) \in S /\ \A y \in S : Max(S) >= y
    BY <1>1 DEF Max
<1>3. Max(S) \in Nat /\ k \in Nat /\ Max(S) >= k /\ Max(S) <= k
    BY <1>2
<1>4. QED
    BY <1>3

LEMMA LastIsGreatest ==
    ASSUME NEW s \in Seq(Nat), Ascends(s), Len(s) \in 1 .. Len(s)
    PROVE  \A y \in Elements(s) : y <= s[Len(s)]
<1>1. ASSUME NEW i \in 1 .. Len(s) PROVE s[i] <= s[Len(s)]
    <2>1. s[i] \in Nat /\ s[Len(s)] \in Nat /\ Len(s) \in Nat
        OBVIOUS
    <2>2. i < Len(s) => s[i] < s[Len(s)]
        BY DEF Ascends
    <2>3. i < Len(s) \/ i = Len(s)
        BY <2>1
    <2>4. QED
        BY <2>1, <2>2, <2>3
<1>2. QED
    BY <1>1 DEF Elements

\* LastOrdered is the newest of what was passed.
LEMMA LastOrderedIs ==
    ASSUME ResendTypes, OrderedAscend, orderMessages
    PROVE  /\ LastOrdered \in Passed \cup {0} /\ LastOrdered \in Nat
           /\ \A x \in Passed : x <= LastOrdered /\ x \in Nat
<1> DEFINE S == Passed \cup {0}
           o == outBuffer.items
<1>1. given \in Seq(Nat) /\ o \in Seq(Nat) /\ Len(given) \in Nat /\ Len(o) \in Nat
    BY DEF ResendTypes, BufferTypes
<1>2. S \subseteq Nat /\ LastOrdered = Max(S)
    <2>1. ToSet(given) = Elements(given) /\ ToSet(o) = Elements(o)
        BY <1>1, SetOfSequence
    <2>2. Elements(given) \subseteq Nat /\ Elements(o) \subseteq Nat
        BY <1>1 DEF Elements
    <2>3. QED
        BY <2>1, <2>2 DEF LastOrdered, Passed
<1>3. \E k \in S : \A y \in S : y <= k
    <2>1. CASE o # <<>>
        <3>1. Len(o) \in 1 .. Len(o)
            BY <1>1, <2>1
        <3>2. o[Len(o)] \in S /\ o[Len(o)] \in Nat
            BY <1>1, <3>1 DEF Passed, Elements
        <3>3. \A y \in Elements(o) : y <= o[Len(o)]
            BY <1>1, <3>1, LastIsGreatest DEF OrderedAscend
        <3>4. \A y \in Elements(given) : y <= o[Len(o)]
            <4>1. o[Len(o)] \in Elements(o)
                BY <3>1 DEF Elements
            <4>2. \A y \in Elements(given) : y < o[Len(o)]
                BY <4>1 DEF OrderedAscend
            <4>3. QED
                BY <1>2, <3>2, <4>2 DEF Passed
        <3>5. QED
            BY <3>2, <3>3, <3>4 DEF Passed
    <2>2. CASE o = <<>> /\ given # <<>>
        <3>1. Len(given) \in 1 .. Len(given) /\ Elements(o) = {}
            BY <1>1, <2>2, NoElements
        <3>2. given[Len(given)] \in S /\ given[Len(given)] \in Nat
            BY <1>1, <3>1 DEF Passed, Elements
        <3>3. \A y \in Elements(given) : y <= given[Len(given)]
            BY <1>1, <3>1, LastIsGreatest DEF OrderedAscend
        <3>4. QED
            BY <3>1, <3>2, <3>3 DEF Passed
    <2>3. CASE o = <<>> /\ given = <<>>
        BY <2>3, NoElements DEF Passed
    <2>4. QED
        BY <2>1, <2>2, <2>3
<1>4. QED
    BY <1>2, <1>3, MaxIs

\* A message that leaves resendThenRealtime is passed, if it is not older than what was passed, or has been.
LEMMA Delivered ==
    ASSUME ResendTypes, OrderedAscend, NEW m \in Nat, Deliver(m), orderMessages' = orderMessages
    PROVE  /\ given' \in Seq(Nat) /\ outBuffer' \in BufferTypes /\ OrderedAscend'
           /\ outBuffer'.writeLocked = outBuffer.writeLocked /\ outBuffer'.readLocked = outBuffer.readLocked
           /\ Passed \subseteq Passed' /\ Passed' \subseteq Passed \cup {m}
           /\ IsWritable(outBuffer) /\ (orderMessages /\ m <= LastOrdered => m \in Passed) => m \in Passed'
<1> DEFINE o == outBuffer.items
<1>1. given \in Seq(Nat) /\ o \in Seq(Nat) /\ Len(given) \in Nat /\ Len(o) \in Nat /\ outBuffer \in BufferTypes
    BY DEF ResendTypes, BufferTypes
<1>2. CASE ~orderMessages
    <2>1. given' = Append(given, m) /\ outBuffer' = outBuffer
        BY <1>2 DEF Deliver
    <2>2. given' \in Seq(Nat) /\ Elements(given') = Elements(given) \cup {m}
        BY <1>1, <2>1, ElementsOfAppend
    <2>3. Passed' = Passed \cup {m}
        BY <2>1, <2>2 DEF Passed
    <2>4. QED
        BY <1>1, <1>2, <2>1, <2>2, <2>3 DEF OrderedAscend
<1>3. CASE orderMessages /\ ~(m > LastOrdered /\ IsWritable(outBuffer))
    <2>1. given' = given /\ outBuffer' = outBuffer
        BY <1>1, <1>3, Pushed DEF Deliver
    <2>2. LastOrdered \in Nat
        BY <1>3, LastOrderedIs
    <2>3. QED
        BY <1>1, <1>3, <2>1, <2>2 DEF OrderedAscend, Passed
<1>4. CASE orderMessages /\ m > LastOrdered /\ IsWritable(outBuffer)
    <2>1. /\ given' = given /\ outBuffer' \in BufferTypes /\ outBuffer'.items = Append(o, m)
          /\ outBuffer'.writeLocked = outBuffer.writeLocked /\ outBuffer'.readLocked = outBuffer.readLocked
        <3>1. outBuffer' = Push(outBuffer, m) /\ given' = given
            BY <1>4 DEF Deliver
        <3>2. QED
            BY <1>1, <1>4, <3>1, Pushed
    <2>2. Elements(outBuffer'.items) = Elements(o) \cup {m}
        BY <1>1, <2>1, ElementsOfAppend
    <2>3. LastOrdered \in Nat /\ \A x \in Passed : x < m
        BY <1>4, LastOrderedIs
    <2>4. Ascends(outBuffer'.items)
        <3>1. \A i \in 1 .. Len(o) : o[i] < m
            BY <2>3 DEF Passed, Elements
        <3>2. /\ Len(outBuffer'.items) = Len(o) + 1 /\ outBuffer'.items[Len(o) + 1] = m
              /\ \A i \in 1 .. Len(o) : outBuffer'.items[i] = o[i]
            BY <1>1, <2>1
        <3>3. Ascends(o)
            BY <1>4 DEF OrderedAscend
        <3>4. ASSUME NEW i \in 1 .. Len(o) + 1, NEW j \in 1 .. Len(o) + 1, i < j
              PROVE  outBuffer'.items[i] < outBuffer'.items[j]
            <4>1. i \in 1 .. Len(o) /\ (j \in 1 .. Len(o) \/ j = Len(o) + 1)
                BY <1>1, <3>4
            <4>2. QED
                BY <3>1, <3>2, <3>3, <3>4, <4>1 DEF Ascends
        <3>5. QED
            BY <3>2, <3>4 DEF Ascends
    <2>5. OrderedAscend'
        BY <1>4, <2>1, <2>2, <2>3, <2>4 DEF OrderedAscend, Passed
    <2>6. Passed' = Passed \cup {m}
        BY <2>1, <2>2 DEF Passed
    <2>7. QED
        BY <1>1, <2>1, <2>5, <2>6
<1>5. QED
    BY <1>2, <1>3, <1>4 DEF ResendTypes

-----------------------------------------------------------------------------
(* The steps.                                                              *)

LEMMA ResendInitially == ResendInit => ResendInv
<1> SUFFICES ASSUME ResendInit PROVE ResendInv
    OBVIOUS
<1> USE ResendAssumption DEF ResendInit
<1>1. ResendTypes
    <2>1. fetch \in Fetches
        BY DEF Fetches
    <2>2. orderMessages \in BOOLEAN /\ told \in BOOLEAN
        BY Zenon
    <2>3. QED
        BY <2>1, <2>2, EmptyBuffer DEF ResendTypes
<1>2. Elements(given) = {} /\ Elements(outBuffer.items) = {} /\ Passed = {}
    BY NoElements, EmptyBuffer DEF Passed
<1>3. OrderedAscend
    BY <1>2, EmptyBuffer DEF OrderedAscend, Ascends
<1>4. LockedByUnsubscribe
    BY DEF LockedByUnsubscribe
<1>5. RealtimeWaits
    BY EmptyBuffer, NoElements DEF RealtimeWaits, Read
<1>6. NothingResent
    BY <1>2 DEF NothingResent
<1>7. QED
    BY <1>1, <1>3, <1>4, <1>5, <1>6 DEF ResendInv, Handover

LEMMA NothingDelivered ==
    ASSUME OrderedAscend, given' = given, outBuffer'.items = outBuffer.items, orderMessages' = orderMessages
    PROVE  OrderedAscend' /\ Passed' = Passed
BY DEF OrderedAscend, Passed

LEMMA RealtimeStill ==
    ASSUME RealtimeWaits, UNCHANGED <<realtime, outBuffer, publishedCount>>, stage' = stage \/ stage # "realtime"
    PROVE  RealtimeWaits'
BY DEF RealtimeWaits, Read, IsWritable

LEMMA ResendResolvesKeeps ==
    ASSUME ResendInv, NEW outcome \in {"found", "none", "failed"}, ResendResolves(outcome) PROVE ResendInv'
<1> USE ResendAssumption DEF ResendInv
<1>0. /\ stage = "resolving" /\ fetch.at = "none" /\ resentMsgs \in BufferTypes /\ fetch \in Fetches
      /\ UNCHANGED <<orderMessages, stored, processed, realtime, outBuffer, publishedCount, unsub, given>>
    BY DEF ResendResolves, LockedByUnsubscribe, ResendTypes
<1>1. OrderedAscend' /\ Passed' = Passed /\ (unsub = "no" => RealtimeWaits')
    BY <1>0, NothingDelivered, RealtimeStill DEF Handover
<1>2. unsub = "no" => /\ fetch.next = 1 /\ ~fetch.failed /\ ~told /\ resentMsgs = NewBuffer /\ processed = NewBuffer
                      /\ Passed = {} /\ Read = Published /\ Read' = Read
    BY <1>0 DEF Handover, NothingResent, RealtimeWaits, Read
<1>3. CASE /\ stage' = "resending" /\ fetch' = [fetch EXCEPT !.at = "fetching"]
           /\ resentMsgs' = (IF unsub = "yes" THEN End(resentMsgs) ELSE resentMsgs) /\ told' = told
    <2>1. fetch' \in Fetches /\ fetch'.at = "fetching" /\ fetch'.next = fetch.next /\ fetch'.failed = fetch.failed
        BY <1>0, <1>3 DEF Fetches
    <2>2. resentMsgs' \in BufferTypes /\ (unsub = "yes" => ~IsWritable(resentMsgs'))
        BY <1>0, <1>3, Ended DEF IsWritable
    <2>3. ResendTypes' /\ LockedByUnsubscribe'
        BY <1>0, <1>3, <2>1, <2>2 DEF ResendTypes, LockedByUnsubscribe
    <2>4. ASSUME unsub = "no" PROVE Resending'
        <3>1. Resent' = 0 /\ Passed' = 1 .. 0 /\ resentMsgs' = NewBuffer /\ processed' = NewBuffer
            BY <1>0, <1>1, <1>2, <1>3, <2>1, <2>4, EmptyBuffer DEF Resent
        <3>2. QED
            BY <1>2, <1>3, <2>1, <2>4, <3>1, EmptyBuffer, NoElements DEF Resending, IsWritable
    <2>5. QED
        BY <1>0, <1>1, <1>3, <2>3, <2>4 DEF Handover
<1>4. CASE /\ stage' = "realtime" /\ resentMsgs' = resentMsgs
           /\ \/ fetch' = fetch /\ told' = told
              \/ told' = TRUE /\ fetch' = [fetch EXCEPT !.failed = TRUE]
    <2>1. /\ fetch' \in Fetches /\ fetch'.at = "none" /\ fetch'.next = fetch.next /\ told' \in BOOLEAN
          /\ unsub = "no" => (told' <=> fetch'.failed)
        <3>1. CASE fetch' = fetch /\ told' = told
            BY <1>0, <1>2, <3>1 DEF ResendTypes, Fetches
        <3>2. CASE told' = TRUE /\ fetch' = [fetch EXCEPT !.failed = TRUE]
            BY <1>0, <3>2 DEF Fetches
        <3>3. QED
            BY <1>4, <3>1, <3>2
    <2>2. ResendTypes' /\ LockedByUnsubscribe'
        BY <1>0, <1>4, <2>1 DEF ResendTypes, LockedByUnsubscribe
    <2>3. ASSUME unsub = "no" PROVE Realtime'
        BY <1>1, <1>2, <2>1, <2>3 DEF Realtime
    <2>4. QED
        BY <1>0, <1>1, <1>4, <2>2, <2>3 DEF Handover
<1>5. QED
    BY <1>3, <1>4 DEF ResendResolves

\* What the steps of the fetch have in common.
LEMMA FetchKeeps ==
    ASSUME ResendInv, UNCHANGED fetchRest, fetch.at \notin {"none", "done"}, fetch' \in Fetches, fetch'.at # "none",
           resentMsgs' \in BufferTypes, unsub = "yes" => ~IsWritable(resentMsgs'),
           unsub = "no" /\ stage = "resending" => Resending'
    PROVE  ResendInv'
<1> USE DEF ResendInv
<1>0. UNCHANGED <<orderMessages, stored, processed, realtime, outBuffer, stage, publishedCount, unsub, given, told>>
    BY DEF fetchRest
<1>1. OrderedAscend' /\ (unsub = "no" => RealtimeWaits')
    BY <1>0, NothingDelivered, RealtimeStill DEF Handover
<1>2. ResendTypes'
    BY <1>0 DEF ResendTypes
<1>3. stage # "resolving" /\ LockedByUnsubscribe'
    BY <1>0 DEF LockedByUnsubscribe
<1>4. unsub = "no" => stage = "resending"
    BY <1>3 DEF Handover, Realtime, ResendTypes
<1>5. QED
    BY <1>0, <1>1, <1>2, <1>3, <1>4 DEF Handover

LEMMA FetchAnsweredKeeps == ASSUME ResendInv, FetchAnswered PROVE ResendInv'
<1>0. /\ fetch \in Fetches /\ stored \in Nat /\ resentMsgs \in BufferTypes /\ fetch.at = "fetching" /\ resentMsgs' = resentMsgs
      /\ UNCHANGED fetchRest /\ fetch' = [fetch EXCEPT !.at = "pulling", !.last = stored]
    BY DEF ResendInv, ResendTypes, FetchAnswered
<1>1. fetch' \in Fetches /\ fetch'.at = "pulling" /\ fetch'.next = fetch.next /\ fetch'.failed = fetch.failed
    BY <1>0 DEF Fetches
<1>2. Passed' = Passed /\ processed' = processed /\ told' = told
    BY <1>0 DEF fetchRest, Passed
<1>3. ASSUME unsub = "no", stage = "resending" PROVE Resending'
    <2>1. Resending /\ Resent' = Resent
        BY <1>0, <1>1, <1>2, <1>3 DEF ResendInv, Handover, Resent
    <2>2. QED
        BY <1>0, <1>1, <1>2, <2>1 DEF Resending
<1>4. unsub = "yes" => ~IsWritable(resentMsgs')
    BY <1>0 DEF ResendInv, LockedByUnsubscribe
<1>5. QED
    BY <1>0, <1>1, <1>3, <1>4, FetchKeeps

LEMMA FetchThrowsKeeps == ASSUME ResendInv, FetchThrows, fetch.at \in {"fetching", "pulling"} PROVE ResendInv'
<1>0. /\ fetch \in Fetches /\ resentMsgs \in BufferTypes /\ resentMsgs' = EndWrite(resentMsgs, TRUE)
      /\ UNCHANGED fetchRest /\ fetch' = [fetch EXCEPT !.at = "done", !.failed = TRUE]
    BY DEF ResendInv, ResendTypes, FetchThrows
<1>1. fetch' \in Fetches /\ fetch'.at = "done" /\ fetch'.next = fetch.next /\ fetch'.failed
    BY <1>0 DEF Fetches
<1>2. Passed' = Passed /\ processed' = processed /\ told' = told
    BY <1>0 DEF fetchRest, Passed
<1>3. /\ resentMsgs' \in BufferTypes /\ resentMsgs'.items = resentMsgs.items /\ resentMsgs'.writeLocked
      /\ resentMsgs'.readLocked = resentMsgs.readLocked /\ resentMsgs'.error /\ ~IsWritable(resentMsgs')
    BY <1>0, Ended DEF IsWritable
<1>4. ASSUME unsub = "no", stage = "resending" PROVE Resending'
    <2>1. Resending /\ Resent' = Resent
        BY <1>1, <1>2, <1>3, <1>4 DEF ResendInv, Handover, Resent
    <2>2. QED
        BY <1>1, <1>2, <1>3, <2>1 DEF Resending
<1>5. QED
    BY <1>0, <1>1, <1>3, <1>4, FetchKeeps

LEMMA PullMessageKeeps == ASSUME ResendInv, PullMessage PROVE ResendInv'
<1>0. /\ fetch \in Fetches /\ resentMsgs \in BufferTypes /\ fetch.at = "pulling" /\ fetch.next \in Nat \ {0}
      /\ resentMsgs' = Push(resentMsgs, fetch.next) /\ UNCHANGED fetchRest /\ processed \in BufferTypes
      /\ fetch' = [fetch EXCEPT !.at = "pushing", !.next = IF IsWritable(resentMsgs) THEN fetch.next + 1 ELSE fetch.next]
    BY DEF ResendInv, ResendTypes, PullMessage, Fetches
<1>1. /\ fetch' \in Fetches /\ fetch'.at = "pushing" /\ fetch'.failed = fetch.failed
      /\ IsWritable(resentMsgs) => fetch'.next = fetch.next + 1
    <2>1. PICK n \in Nat \ {0} : /\ n = IF IsWritable(resentMsgs) THEN fetch.next + 1 ELSE fetch.next
                                 /\ IsWritable(resentMsgs) => n = fetch.next + 1
        BY <1>0
    <2>2. fetch' = [at |-> "pushing", next |-> n, last |-> fetch.last, failed |-> fetch.failed]
        BY <1>0, <2>1 DEF Fetches
    <2>3. fetch.last \in Nat /\ fetch.failed \in BOOLEAN
        BY <1>0 DEF Fetches
    <2>4. QED
        BY <2>1, <2>2, <2>3 DEF Fetches
<1>2. Passed' = Passed /\ processed' = processed /\ told' = told
    BY <1>0 DEF fetchRest, Passed
<1>3. /\ resentMsgs' \in BufferTypes /\ resentMsgs'.error = resentMsgs.error
      /\ resentMsgs'.writeLocked = resentMsgs.writeLocked /\ resentMsgs'.readLocked = resentMsgs.readLocked
      /\ IsWritable(resentMsgs) => resentMsgs'.items = Append(resentMsgs.items, fetch.next)
      /\ IsWritable(resentMsgs') = IsWritable(resentMsgs)
    BY <1>0, Pushed DEF IsWritable
<1>4. ASSUME unsub = "no", stage = "resending" PROVE Resending'
    <2>1. Resending
        BY <1>4 DEF ResendInv, Handover
    <2>2. IsWritable(resentMsgs) /\ ~processed.writeLocked
        BY <1>0, <2>1 DEF Resending, IsWritable
    <2>3. /\ resentMsgs.items \in Seq(Nat) /\ processed.items \in Seq(Nat) /\ Len(resentMsgs.items) \in Nat
          /\ Len(processed.items) \in Nat
        BY <1>0 DEF BufferTypes
    <2>4. Resent + Len(processed.items) \in Nat /\ Resent \in Nat
          /\ Resent + Len(processed.items) + Len(resentMsgs.items) + 1 = fetch.next
        <3>1. 0 <= Resent
            BY <2>1 DEF Resending
        <3>2. PICK next \in Nat, left \in Nat, done \in Nat :
                  next = fetch.next /\ left = Len(resentMsgs.items) /\ done = Len(processed.items)
            BY <1>0, <2>3
        <3>3. Resent = next - 1 - left - done
            BY <3>2 DEF Resent
        <3>4. /\ next - 1 - left - done \in Nat /\ next - 1 - left - done + done \in Nat
              /\ next - 1 - left - done + done + left + 1 = next
            BY <3>1, <3>3
        <3>5. QED
            BY <3>2, <3>3, <3>4
    <2>5. From(resentMsgs'.items, Resent + Len(processed.items))
        BY <1>3, <2>1, <2>2, <2>3, <2>4, FromMoves DEF Resending
    <2>6. Len(resentMsgs'.items) = Len(resentMsgs.items) + 1
        BY <1>0, <1>3, <2>2, <2>3, ElementsOfAppend
    <2>7. Resent' = Resent
        <3>1. fetch'.next = fetch.next + 1 /\ Len(processed'.items) = Len(processed.items)
            BY <1>1, <1>2, <2>2
        <3>2. QED
            BY <1>0, <2>3, <2>6, <3>1 DEF Resent
    <2>8. QED
        BY <1>0, <1>1, <1>2, <1>3, <2>1, <2>2, <2>5, <2>7 DEF Resending
<1>5. unsub = "yes" => ~IsWritable(resentMsgs')
    BY <1>0, <1>3 DEF ResendInv, LockedByUnsubscribe
<1>6. QED
    BY <1>0, <1>1, <1>3, <1>4, <1>5, FetchKeeps

\* The end of the writing, or of a push, by pull().
LEMMA FetchStepKeeps ==
    ASSUME ResendInv, UNCHANGED fetchRest, NEW at \in {"pulling", "done"}, fetch' = [fetch EXCEPT !.at = at],
           fetch.at \in {"pulling", "pushing"},
           resentMsgs' = IF at = "pulling" THEN resentMsgs ELSE EndWrite(resentMsgs, FALSE)
    PROVE  ResendInv'
<1>0. fetch \in Fetches /\ resentMsgs \in BufferTypes
    BY DEF ResendInv, ResendTypes
<1>1. fetch' \in Fetches /\ fetch'.at = at /\ fetch'.next = fetch.next /\ fetch'.failed = fetch.failed
    BY <1>0 DEF Fetches
<1>2. Passed' = Passed /\ processed' = processed /\ told' = told
    BY <1>0 DEF fetchRest, Passed
<1>3. /\ resentMsgs' \in BufferTypes /\ resentMsgs'.items = resentMsgs.items
      /\ resentMsgs'.readLocked = resentMsgs.readLocked /\ (resentMsgs'.error <=> resentMsgs.error)
      /\ at = "done" => resentMsgs'.writeLocked
      /\ at = "pulling" => resentMsgs' = resentMsgs
    BY <1>0, Ended
<1>4. ASSUME unsub = "no", stage = "resending" PROVE Resending'
    <2>1. Resending /\ Resent' = Resent
        BY <1>1, <1>2, <1>3, <1>4 DEF ResendInv, Handover, Resent
    <2>2. resentMsgs'.writeLocked <=> fetch'.at = "done"
        BY <1>1, <1>3, <2>1 DEF Resending
    <2>3. QED
        BY <1>1, <1>2, <1>3, <2>1, <2>2 DEF Resending
<1>5. unsub = "yes" => ~IsWritable(resentMsgs')
    BY <1>3 DEF ResendInv, LockedByUnsubscribe, IsWritable
<1>6. QED
    BY <1>0, <1>1, <1>3, <1>4, <1>5, FetchKeeps

LEMMA PullEndsKeeps == ASSUME ResendInv, PullEnds \/ PushEnds PROVE ResendInv'
<1>1. CASE PullEnds
    BY <1>1, FetchStepKeeps DEF PullEnds
<1>2. CASE PushEnds /\ IsWritable(resentMsgs)
    BY <1>2, FetchStepKeeps DEF PushEnds
<1>3. CASE PushEnds /\ ~IsWritable(resentMsgs)
    BY <1>3, FetchStepKeeps DEF PushEnds
<1>4. QED
    BY <1>1, <1>2, <1>3

LEMMA ProcessResentKeeps == ASSUME ResendInv, ProcessResent PROVE ResendInv'
<1> USE DEF ResendInv
<1>0. /\ stage = "resending" /\ ~processed.writeLocked /\ resentMsgs \in BufferTypes /\ processed \in BufferTypes
      /\ UNCHANGED <<orderMessages, stored, fetch, realtime, outBuffer, stage, publishedCount, unsub, given, told>>
    BY DEF ProcessResent, ResendTypes
<1>1. OrderedAscend' /\ Passed' = Passed /\ (unsub = "no" => RealtimeWaits')
    BY <1>0, NothingDelivered, RealtimeStill DEF Handover
<1>2. /\ resentMsgs.items \in Seq(Nat) /\ processed.items \in Seq(Nat) /\ Len(resentMsgs.items) \in Nat
      /\ Len(processed.items) \in Nat /\ fetch.next \in Nat \ {0}
    BY <1>0 DEF BufferTypes, ResendTypes, Fetches
<1>3. CASE HasNext(resentMsgs) /\ resentMsgs' = Shift(resentMsgs) /\ processed' = Push(processed, Head(resentMsgs.items))
    <2>1. resentMsgs.items # <<>>
        BY <1>3 DEF HasNext
    <2>2. /\ resentMsgs' \in BufferTypes /\ resentMsgs'.items = Tail(resentMsgs.items) /\ resentMsgs'.error = resentMsgs.error
          /\ resentMsgs'.writeLocked = resentMsgs.writeLocked /\ resentMsgs'.readLocked = resentMsgs.readLocked
        BY <1>0, <1>3, <2>1, Shifted
    <2>3. Head(resentMsgs.items) \in Nat /\ Len(resentMsgs'.items) = Len(resentMsgs.items) - 1
        BY <1>2, <2>1, <2>2, ElementsOfTail
    <2>4. /\ processed' \in BufferTypes /\ processed'.error = processed.error
          /\ processed'.writeLocked = processed.writeLocked /\ processed'.readLocked = processed.readLocked
          /\ IsWritable(processed) => processed'.items = Append(processed.items, Head(resentMsgs.items))
        BY <1>0, <1>3, <2>3, Pushed
    <2>5. ResendTypes' /\ LockedByUnsubscribe'
        BY <1>0, <2>2, <2>4 DEF ResendTypes, LockedByUnsubscribe, IsWritable
    <2>6. ASSUME unsub = "no" PROVE Resending'
        <3>1. Resending
            BY <1>0, <2>6 DEF Handover
        <3>2. IsWritable(processed)
            BY <1>0, <3>1 DEF Resending, IsWritable
        <3>3. Resent \in Nat /\ From(processed.items, Resent) /\ From(resentMsgs.items, Resent + Len(processed.items))
            BY <1>2, <3>1 DEF Resending, Resent
        <3>4. /\ Head(resentMsgs.items) = Resent + Len(processed.items) + 1
              /\ From(resentMsgs'.items, Resent + Len(processed.items) + 1)
            BY <1>2, <2>1, <2>2, <3>3, FromMoves
        <3>5. From(processed'.items, Resent) /\ Len(processed'.items) = Len(processed.items) + 1
            <4>1. processed'.items = Append(processed.items, Head(resentMsgs.items))
                BY <2>4, <3>2
            <4>2. From(Append(processed.items, Resent + Len(processed.items) + 1), Resent)
                BY <1>2, <3>3, FromMoves
            <4>3. Len(Append(processed.items, Head(resentMsgs.items))) = Len(processed.items) + 1
                BY <1>2, <2>3, ElementsOfAppend
            <4>4. QED
                BY <3>4, <4>1, <4>2, <4>3
        <3>6. Resent' = Resent /\ Resent + Len(processed'.items) = Resent + Len(processed.items) + 1
            <4>1. /\ Resent = fetch.next - 1 - Len(resentMsgs.items) - Len(processed.items)
                  /\ Resent' = fetch'.next - 1 - Len(resentMsgs'.items) - Len(processed'.items)
                BY DEF Resent
            <4>2. fetch' = fetch
                BY <1>0
            <4>3. Resent' = fetch.next - 1 - (Len(resentMsgs.items) - 1) - (Len(processed.items) + 1)
                BY <2>3, <3>5, <4>1, <4>2
            <4>4. Resent' = Resent
                BY <1>2, <4>1, <4>3, MovesOn
            <4>5. QED
                BY <1>2, <3>3, <3>5, <4>4
        <3>7. From(resentMsgs'.items, Resent' + Len(processed'.items))
            BY <3>4, <3>6
        <3>8. QED
            BY <1>0, <1>1, <2>2, <2>4, <3>1, <3>5, <3>6, <3>7 DEF Resending
    <2>7. QED
        BY <1>0, <1>1, <2>5, <2>6 DEF Handover
<1>4. CASE /\ IsOver(resentMsgs) /\ resentMsgs' = Finished(resentMsgs)
           /\ processed' = EndWrite(processed, resentMsgs.error)
    <2>1. /\ resentMsgs' \in BufferTypes /\ resentMsgs'.items = <<>> /\ resentMsgs'.writeLocked /\ resentMsgs'.readLocked
          /\ ~resentMsgs'.error
        BY <1>0, <1>4, Ended
    <2>2. resentMsgs.error \in BOOLEAN
        BY <1>0 DEF BufferTypes
    <2>3. /\ processed' \in BufferTypes /\ processed'.items = processed.items /\ processed'.writeLocked
          /\ processed'.readLocked = processed.readLocked /\ (processed'.error <=> (processed.error \/ resentMsgs.error))
        BY <1>0, <1>4, <2>2, Ended
    <2>4. ResendTypes' /\ LockedByUnsubscribe'
        BY <1>0, <2>1, <2>3 DEF ResendTypes, LockedByUnsubscribe, IsWritable
    <2>5. ASSUME unsub = "no" PROVE Resending'
        <3>1. Resending
            BY <1>0, <2>5 DEF Handover
        <3>2. resentMsgs.items = <<>> /\ fetch.at = "done"
            BY <1>0, <1>4, <3>1 DEF Resending, IsOver, HasNext
        <3>3. Resent' = Resent /\ Len(processed'.items) = Len(processed.items)
            BY <1>0, <1>2, <2>1, <2>3, <3>2 DEF Resent
        <3>4. QED
            BY <1>0, <1>1, <2>1, <2>3, <3>1, <3>2, <3>3 DEF Resending
    <2>6. QED
        BY <1>0, <1>1, <2>4, <2>5 DEF Handover
<1>5. QED
    BY <1>3, <1>4 DEF ProcessResent

\* The next resent message is passed on.
LEMMA ResentNextKeeps ==
    ASSUME ResendInv, stage = "resending", HasNext(processed), Deliver(Head(processed.items)), processed' = Shift(processed),
           UNCHANGED <<stage, realtime, told, orderMessages, stored, fetch, resentMsgs, publishedCount, unsub>>
    PROVE  ResendInv'
<1> USE DEF ResendInv
<1> DEFINE m == Head(processed.items)
<1>1. /\ processed \in BufferTypes /\ processed.items # <<>> /\ processed.items \in Seq(Nat) /\ fetch.next \in Nat \ {0}
      /\ resentMsgs.items \in Seq(Nat) /\ Len(resentMsgs.items) \in Nat /\ Len(processed.items) \in Nat
    BY DEF ResendTypes, HasNext, BufferTypes, Fetches
<1>2. /\ processed' \in BufferTypes /\ processed'.items = Tail(processed.items) /\ processed'.error = processed.error
      /\ processed'.writeLocked = processed.writeLocked /\ processed'.readLocked = processed.readLocked
    BY <1>1, Shifted
<1>3. m \in Nat /\ Len(processed'.items) = Len(processed.items) - 1
    BY <1>1, <1>2, ElementsOfTail
<1>4. /\ given' \in Seq(Nat) /\ outBuffer' \in BufferTypes /\ OrderedAscend'
      /\ outBuffer'.writeLocked = outBuffer.writeLocked /\ outBuffer'.readLocked = outBuffer.readLocked
      /\ Passed \subseteq Passed' /\ Passed' \subseteq Passed \cup {m}
      /\ IsWritable(outBuffer) /\ (orderMessages /\ m <= LastOrdered => m \in Passed) => m \in Passed'
    BY <1>3, Delivered
<1>5. ResendTypes' /\ LockedByUnsubscribe'
    BY <1>2, <1>4 DEF ResendTypes, LockedByUnsubscribe, IsWritable
<1>6. ASSUME unsub = "no" PROVE RealtimeWaits' /\ Resending'
    <2>1. Resending /\ RealtimeWaits
        BY <1>6 DEF Handover
    <2>2. Resent \in Nat /\ From(processed.items, Resent) /\ Passed = 1 .. Resent
        BY <1>1, <2>1 DEF Resending, Resent
    <2>3. m = Resent + 1 /\ From(processed'.items, Resent + 1)
        BY <1>1, <1>2, <2>2, FromMoves
    <2>4. orderMessages => LastOrdered \in (1 .. Resent) \cup {0}
        BY <2>2, LastOrderedIs
    <2>5. ~(orderMessages /\ m <= LastOrdered)
        BY <2>2, <2>3, <2>4
    <2>6. m \in Passed'
        BY <1>4, <2>1, <2>5 DEF RealtimeWaits
    <2>7. Passed' = Passed \cup {m}
        BY <1>4, <2>6
    <2>8. Passed' = 1 .. Resent + 1
        BY <2>2, <2>3, <2>7
    <2>9. Resent' = Resent + 1 /\ Resent' + Len(processed'.items) = Resent + Len(processed.items)
        <3>1. /\ Resent = fetch.next - 1 - Len(resentMsgs.items) - Len(processed.items)
              /\ Resent' = fetch'.next - 1 - Len(resentMsgs'.items) - Len(processed'.items)
            BY DEF Resent
        <3>2. fetch' = fetch /\ resentMsgs' = resentMsgs
            OBVIOUS
        <3>3. Len(processed'.items) = Len(processed.items) - 1
            BY <1>3
        <3>4. Resent' = fetch.next - 1 - Len(resentMsgs.items) - (Len(processed.items) - 1)
            BY <3>1, <3>2, <3>3
        <3>5. Len(resentMsgs.items) \in Nat /\ Len(processed.items) \in Nat /\ fetch.next \in Nat
            BY DEF ResendTypes, BufferTypes, Fetches
        <3>6. Resent' = Resent + 1
            BY <3>1, <3>4, <3>5, MovesOn
        <3>7. Resent + 1 + (Len(processed.items) - 1) = Resent + Len(processed.items)
            BY <2>2, <3>5, MovesOn
        <3>8. QED
            BY <3>3, <3>6, <3>7
    <2>10. From(resentMsgs'.items, Resent' + Len(processed'.items))
        BY <2>1, <2>9 DEF Resending
    <2>11. Resending'
        <3>1. 0 <= Resent' /\ Passed' = 1 .. Resent' /\ From(processed'.items, Resent')
            BY <2>2, <2>3, <2>8, <2>9
        <3>2. UNCHANGED <<fetch, told, resentMsgs>>
            OBVIOUS
        <3>3. /\ fetch'.at # "none" /\ ~told' /\ (resentMsgs'.writeLocked <=> fetch'.at = "done")
              /\ (resentMsgs'.readLocked => processed'.writeLocked) /\ ~processed'.readLocked
              /\ (processed'.writeLocked => fetch'.at = "done" /\ resentMsgs'.items = <<>> /\ ~resentMsgs'.error)
              /\ (fetch'.failed <=> (resentMsgs'.error \/ processed'.error))
            BY <1>2, <2>1, <3>2 DEF Resending
        <3>4. QED
            BY <2>10, <3>1, <3>3 DEF Resending
    <2>12. RealtimeWaits'
        BY <1>4, <2>1 DEF RealtimeWaits, Read, IsWritable
    <2>13. QED
        BY <2>11, <2>12
<1>7. QED
    BY <1>4, <1>5, <1>6 DEF Handover

\* The resend is over.
LEMMA ResendOverKeeps ==
    ASSUME ResendInv, stage = "resending", IsOver(processed), stage' = "realtime", told' = (told \/ processed.error),
           processed' = Finished(processed),
           UNCHANGED <<realtime, outBuffer, given, orderMessages, stored, fetch, resentMsgs, publishedCount, unsub>>
    PROVE  ResendInv'
<1> USE DEF ResendInv
<1>0. processed' \in BufferTypes
    BY Ended DEF ResendTypes
<1>1. OrderedAscend' /\ Passed' = Passed /\ (unsub = "no" => RealtimeWaits')
    BY NothingDelivered, RealtimeStill DEF Handover
<1>2. told' \in BOOLEAN
    <2>1. (told \/ processed.error) \in BOOLEAN
        OBVIOUS
    <2>2. QED
        BY <2>1
<1>3. ResendTypes' /\ LockedByUnsubscribe'
    BY <1>0, <1>2 DEF ResendTypes, LockedByUnsubscribe
<1>4. ASSUME unsub = "no" PROVE Realtime'
    <2>1. Resending /\ Read = Published
        BY <1>4 DEF Handover, RealtimeWaits
    <2>2. processed.writeLocked /\ processed.items = <<>>
        BY <2>1 DEF Resending, IsOver, HasNext
    <2>3. fetch.at = "done" /\ resentMsgs.items = <<>> /\ ~resentMsgs.error /\ ~told
        BY <2>1, <2>2 DEF Resending
    <2>4. told' <=> fetch'.failed
        BY <2>1, <2>3 DEF Resending
    <2>5. Resent = fetch.next - 1 /\ Passed = 1 .. fetch.next - 1
        BY <2>1, <2>2, <2>3 DEF Resending, Resent, ResendTypes, Fetches
    <2>6. Read' = Published /\ Published + 1 .. Published = {}
        BY <2>1, ResendAssumption DEF Read
    <2>7. QED
        BY <1>1, <2>3, <2>4, <2>5, <2>6 DEF Realtime
<1>5. QED
    BY <1>1, <1>3, <1>4 DEF Handover

\* The next message of the network is passed on.
LEMMA RealtimeNextKeeps ==
    ASSUME ResendInv, stage = "realtime", HasNext(realtime), Deliver(Head(realtime.items)), realtime' = Shift(realtime),
           UNCHANGED <<stage, processed, told, orderMessages, stored, fetch, resentMsgs, publishedCount, unsub>>
    PROVE  ResendInv'
<1> USE ResendAssumption DEF ResendInv
<1> DEFINE m == Head(realtime.items)
<1>1. /\ realtime \in BufferTypes /\ realtime.items # <<>> /\ realtime.items \in Seq(Nat) /\ Len(realtime.items) \in Nat
      /\ publishedCount \in Nat /\ fetch.next \in Nat \ {0}
    BY DEF ResendTypes, HasNext, BufferTypes, Fetches
<1>2. /\ realtime' \in BufferTypes /\ realtime'.items = Tail(realtime.items)
      /\ realtime'.writeLocked = realtime.writeLocked /\ realtime'.readLocked = realtime.readLocked
    BY <1>1, Shifted
<1>3. m \in Nat /\ Len(realtime'.items) = Len(realtime.items) - 1
    BY <1>1, <1>2, ElementsOfTail
<1>4. /\ given' \in Seq(Nat) /\ outBuffer' \in BufferTypes /\ OrderedAscend'
      /\ outBuffer'.writeLocked = outBuffer.writeLocked /\ outBuffer'.readLocked = outBuffer.readLocked
      /\ Passed \subseteq Passed' /\ Passed' \subseteq Passed \cup {m}
      /\ IsWritable(outBuffer) /\ (orderMessages /\ m <= LastOrdered => m \in Passed) => m \in Passed'
    BY <1>3, Delivered
<1>5. ResendTypes' /\ LockedByUnsubscribe'
    BY <1>2, <1>4 DEF ResendTypes, LockedByUnsubscribe, IsWritable
<1>6. ASSUME unsub = "no" PROVE RealtimeWaits' /\ Realtime'
    <2>1. Realtime /\ RealtimeWaits
        BY <1>6 DEF Handover
    <2>2. Read \in Nat /\ From(realtime.items, Read) /\ Published <= Read
        BY <1>1, <2>1 DEF RealtimeWaits, Read
    <2>3. m = Read + 1 /\ From(realtime'.items, Read + 1) /\ Read' = Read + 1
        <3>1. m = Read + 1 /\ From(realtime'.items, Read + 1)
            BY <1>1, <1>2, <2>2, FromMoves
        <3>2. Read' = publishedCount - (Len(realtime.items) - 1) /\ Read = publishedCount - Len(realtime.items)
            BY <1>3 DEF Read
        <3>3. QED
            BY <1>1, <3>1, <3>2, MovesOn
    <2>4. ASSUME orderMessages, m <= LastOrdered PROVE m \in Passed
        <3>1. LastOrdered \in Passed \cup {0} /\ LastOrdered \in Nat
            BY <2>4, LastOrderedIs
        <3>2. LastOrdered \in Passed /\ LastOrdered \notin Published + 1 .. Read
            BY <2>2, <2>3, <2>4, <3>1
        <3>3. LastOrdered \in 1 .. fetch.next - 1
            BY <2>1, <3>2 DEF Realtime
        <3>4. m \in 1 .. fetch.next - 1
            BY <1>1, <2>2, <2>3, <2>4, <3>3
        <3>5. QED
            BY <2>1, <3>4 DEF Realtime
    <2>5. m \in Passed'
        BY <1>4, <2>1, <2>4 DEF RealtimeWaits
    <2>6. Passed' = Passed \cup {m}
        BY <1>4, <2>5
    <2>7. Published + 1 .. Read + 1 = (Published + 1 .. Read) \cup {m}
        BY <2>2, <2>3
    <2>8. Realtime'
        BY <2>1, <2>3, <2>6, <2>7 DEF Realtime
    <2>9. RealtimeWaits'
        BY <1>2, <1>4, <2>1, <2>2, <2>3 DEF RealtimeWaits, IsWritable
    <2>10. QED
        BY <2>8, <2>9
<1>7. QED
    BY <1>4, <1>5, <1>6 DEF Handover

LEMMA NextOfStageKeeps == ASSUME ResendInv, NextOfStage PROVE ResendInv'
<1>0. UNCHANGED <<orderMessages, stored, fetch, resentMsgs, publishedCount, unsub>>
    BY DEF NextOfStage
<1>1. CASE /\ stage = "resending" /\ HasNext(processed) /\ Deliver(Head(processed.items))
           /\ processed' = Shift(processed) /\ UNCHANGED <<stage, realtime, told>>
    BY <1>0, <1>1, ResentNextKeeps
<1>2. CASE /\ stage = "resending" /\ IsOver(processed) /\ stage' = "realtime" /\ told' = (told \/ processed.error)
           /\ processed' = Finished(processed) /\ UNCHANGED <<realtime, outBuffer, given>>
    BY <1>0, <1>2, ResendOverKeeps
<1>3. CASE /\ stage = "realtime" /\ HasNext(realtime) /\ Deliver(Head(realtime.items))
           /\ realtime' = Shift(realtime) /\ UNCHANGED <<stage, processed, told>>
    BY <1>0, <1>3, RealtimeNextKeeps
<1>4. CASE /\ \/ stage = "realtime" /\ IsOver(realtime)
              \/ stage = "resending" /\ unsub = "yes"
           /\ stage' = "ended" /\ realtime' = Finished(realtime) /\ processed' = Finished(processed)
           /\ outBuffer' = EndWrite(outBuffer, FALSE) /\ UNCHANGED <<given, told>>
    <2>1. unsub # "no"
        BY <1>4 DEF ResendInv, Handover, RealtimeWaits, IsWritable, IsOver
    <2>2. /\ realtime' \in BufferTypes /\ realtime'.writeLocked /\ processed' \in BufferTypes
          /\ outBuffer' \in BufferTypes /\ outBuffer'.items = outBuffer.items
        BY <1>4, Ended DEF ResendInv, ResendTypes
    <2>3. ResendTypes' /\ LockedByUnsubscribe'
        BY <1>0, <1>4, <2>2 DEF ResendInv, ResendTypes, LockedByUnsubscribe
    <2>4. OrderedAscend'
        BY <1>0, <1>4, <2>2, NothingDelivered DEF ResendInv
    <2>5. QED
        BY <1>0, <2>1, <2>3, <2>4 DEF ResendInv
<1>5. QED
    BY <1>1, <1>2, <1>3, <1>4 DEF NextOfStage

LEMMA ReadOrderedKeeps == ASSUME ResendInv, ReadOrdered PROVE ResendInv'
<1> USE DEF ResendInv
<1> DEFINE o == outBuffer.items
<1>0. /\ orderMessages /\ given' = Append(given, Head(o)) /\ outBuffer' = Shift(outBuffer) /\ o # <<>>
      /\ UNCHANGED <<orderMessages, stored, fetch, resentMsgs, processed, realtime, stage, publishedCount, unsub, told>>
    BY DEF ReadOrdered, HasNext
<1>1. given \in Seq(Nat) /\ o \in Seq(Nat) /\ outBuffer \in BufferTypes /\ Len(given) \in Nat
    BY DEF ResendTypes, BufferTypes
<1>2. /\ outBuffer' \in BufferTypes /\ outBuffer'.items = Tail(o)
      /\ outBuffer'.writeLocked = outBuffer.writeLocked /\ outBuffer'.readLocked = outBuffer.readLocked
    BY <1>0, <1>1, Shifted
<1>3. /\ Len(Tail(o)) = Len(o) - 1 /\ Len(o) \in Nat \ {0} /\ Head(o) \in Nat /\ Head(o) = o[1]
      /\ \A i \in 1 .. Len(o) - 1 : Tail(o)[i] = o[i + 1] /\ i + 1 \in 1 .. Len(o)
      /\ Elements(o) = {Head(o)} \cup Elements(Tail(o))
    BY <1>0, <1>1, ElementsOfTail
<1>4. given' \in Seq(Nat) /\ Elements(given') = Elements(given) \cup {Head(o)} /\ Len(given') = Len(given) + 1
    BY <1>0, <1>1, <1>3, ElementsOfAppend
<1>5. Passed' = Passed
    BY <1>2, <1>3, <1>4 DEF Passed
<1>6. Ascends(given) /\ Ascends(o) /\ \A a \in Elements(given), b \in Elements(o) : a < b
    BY <1>0 DEF OrderedAscend
<1>7. Ascends(given')
    <2>1. \A i \in 1 .. Len(given) : given[i] < Head(o)
        BY <1>3, <1>6 DEF Elements
    <2>2. given'[Len(given) + 1] = Head(o) /\ \A i \in 1 .. Len(given) : given'[i] = given[i]
        BY <1>0, <1>1
    <2>3. ASSUME NEW i \in 1 .. Len(given) + 1, NEW j \in 1 .. Len(given) + 1, i < j PROVE given'[i] < given'[j]
        <3>1. i \in 1 .. Len(given) /\ (j \in 1 .. Len(given) \/ j = Len(given) + 1)
            BY <1>1, <2>3
        <3>2. QED
            BY <1>6, <2>1, <2>2, <2>3, <3>1 DEF Ascends
    <2>4. QED
        BY <1>4, <2>3 DEF Ascends
<1>8. Ascends(Tail(o)) /\ \A b \in Elements(Tail(o)) : Head(o) < b
    <2>1. ASSUME NEW i \in 1 .. Len(o) - 1, NEW j \in 1 .. Len(o) - 1, i < j PROVE Tail(o)[i] < Tail(o)[j]
        <3>1. i + 1 < j + 1
            BY <2>1
        <3>2. QED
            BY <1>3, <1>6, <3>1 DEF Ascends
    <2>2. ASSUME NEW i \in 1 .. Len(o) - 1 PROVE Head(o) < Tail(o)[i]
        <3>1. 1 < i + 1 /\ 1 \in 1 .. Len(o)
            BY <1>3
        <3>2. QED
            BY <1>3, <1>6, <3>1 DEF Ascends
    <2>3. QED
        BY <1>3, <2>1, <2>2 DEF Ascends, Elements
<1>9. OrderedAscend'
    BY <1>2, <1>3, <1>4, <1>6, <1>7, <1>8 DEF OrderedAscend
<1>10. ResendTypes' /\ LockedByUnsubscribe'
    BY <1>0, <1>2, <1>4 DEF ResendTypes, LockedByUnsubscribe, IsWritable
<1>11. ASSUME unsub = "no" PROVE Handover'
    <2>1. RealtimeWaits'
        BY <1>0, <1>2, <1>11 DEF Handover, RealtimeWaits, Read, IsWritable
    <2>2. Resent' = Resent /\ Read' = Read
        BY <1>0 DEF Resent, Read
    <2>3. /\ stage = "resolving" => NothingResent'
          /\ stage = "resending" => Resending'
          /\ stage = "realtime" => Realtime'
        BY <1>0, <1>5, <1>11, <2>2 DEF Handover, NothingResent, Resending, Realtime
    <2>4. QED
        BY <1>0, <1>11, <2>1, <2>3 DEF Handover
<1>12. QED
    BY <1>0, <1>9, <1>10, <1>11

\* What the network and the storage node do.
LEMMA OthersKeep ==
    ASSUME ResendInv, UNCHANGED othersRest, resentMsgs' = resentMsgs, unsub' = unsub, stored' \in Nat, publishedCount' \in Nat,
           realtime' \in BufferTypes, realtime'.writeLocked = realtime.writeLocked,
           unsub = "no" => RealtimeWaits' /\ Read' = Read
    PROVE  ResendInv'
<1> USE DEF ResendInv
<1>0. UNCHANGED <<orderMessages, fetch, processed, outBuffer, stage, given, told>>
    BY DEF othersRest
<1>1. OrderedAscend' /\ Passed' = Passed
    BY <1>0, NothingDelivered
<1>2. ResendTypes' /\ LockedByUnsubscribe'
    BY <1>0 DEF ResendTypes, LockedByUnsubscribe
<1>3. ASSUME unsub = "no" PROVE Handover'
    <2>1. Resent' = Resent
        BY <1>0 DEF Resent
    <2>2. /\ stage = "resolving" => NothingResent'
          /\ stage = "resending" => Resending'
          /\ stage = "realtime" => Realtime'
        BY <1>0, <1>1, <1>3, <2>1 DEF Handover, NothingResent, Resending, Realtime
    <2>3. QED
        BY <1>0, <1>3, <2>2 DEF Handover
<1>4. QED
    BY <1>1, <1>2, <1>3

LEMMA RealtimeArrivesKeeps == ASSUME ResendInv, RealtimeArrives PROVE ResendInv'
<1> USE DEF ResendInv
<1>0. /\ publishedCount' = publishedCount + 1 /\ publishedCount \in Nat /\ stored \in Nat /\ UNCHANGED othersRest
      /\ resentMsgs' = resentMsgs /\ unsub' = unsub /\ stored' = stored /\ realtime \in BufferTypes
      /\ stage' = stage /\ outBuffer' = outBuffer
    BY DEF RealtimeArrives, ResendTypes, othersRest
<1>1. CASE unsub # "no"
    <2>1. realtime' = realtime
        BY <1>1 DEF RealtimeArrives
    <2>2. QED
        BY <1>0, <1>1, <2>1, OthersKeep
<1>2. CASE unsub = "no"
    <2>0. realtime' = Push(realtime, publishedCount + 1) /\ RealtimeWaits
        BY <1>0, <1>2 DEF RealtimeArrives, Handover
    <2>1. /\ realtime' \in BufferTypes /\ realtime'.items = Append(realtime.items, publishedCount + 1)
          /\ realtime'.writeLocked = realtime.writeLocked /\ realtime'.readLocked = realtime.readLocked
        <3>1. IsWritable(realtime) /\ publishedCount + 1 \in Nat
            BY <1>0, <2>0 DEF RealtimeWaits
        <3>2. QED
            BY <1>0, <2>0, <3>1, Pushed
    <2>2. realtime.items \in Seq(Nat) /\ Len(realtime.items) \in Nat /\ Len(realtime'.items) = Len(realtime.items) + 1
        BY <1>0, <2>1, ElementsOfAppend DEF BufferTypes
    <2>3. Read' = Read /\ Read \in Nat /\ Read + Len(realtime.items) + 1 = publishedCount + 1
        <3>1. Published <= Read
            BY <2>0 DEF RealtimeWaits
        <3>2. QED
            BY <1>0, <2>2, <3>1, ResendAssumption DEF Read
    <2>4. From(realtime'.items, Read)
        BY <2>0, <2>1, <2>2, <2>3, FromMoves DEF RealtimeWaits
    <2>5. RealtimeWaits'
        BY <1>0, <2>0, <2>1, <2>3, <2>4 DEF RealtimeWaits, IsWritable
    <2>6. QED
        BY <1>0, <1>2, <2>1, <2>3, <2>5, OthersKeep
<1>3. QED
    BY <1>1, <1>2

LEMMA QuietKeeps ==
    ASSUME ResendInv, DistributeEnds \/ MessageIsStored \/ UNCHANGED resendVars PROVE ResendInv'
<1> USE DEF ResendInv
<1>0. /\ UNCHANGED <<resentMsgs, realtime, publishedCount, unsub>> /\ UNCHANGED othersRest /\ stored' \in {stored, stored + 1}
    BY DEF DistributeEnds, MessageIsStored, resendVars, othersRest
<1>1. realtime \in BufferTypes /\ publishedCount \in Nat /\ stored' \in Nat
    BY <1>0 DEF ResendTypes
<1>2. Read' = Read /\ stage' = stage /\ outBuffer' = outBuffer
    BY <1>0 DEF Read, othersRest
<1>3. unsub = "no" => RealtimeWaits'
    BY <1>0, <1>2, RealtimeStill DEF Handover
<1>4. QED
    BY <1>0, <1>1, <1>2, <1>3, OthersKeep

LEMMA UnsubscribesKeeps == ASSUME ResendInv, Unsubscribes PROVE ResendInv'
<1> USE DEF ResendInv
<1>1. /\ UNCHANGED <<orderMessages, fetch, processed, outBuffer, stage, given, told, stored, resentMsgs, publishedCount>>
      /\ unsub' = "ending" /\ realtime' = End(realtime)
    BY DEF Unsubscribes, othersRest
<1>2. realtime' \in BufferTypes /\ realtime'.writeLocked
    BY <1>1, Ended DEF ResendTypes
<1>3. ResendTypes' /\ LockedByUnsubscribe'
    BY <1>1, <1>2 DEF ResendTypes, LockedByUnsubscribe
<1>4. OrderedAscend'
    BY <1>1, NothingDelivered
<1>5. QED
    BY <1>1, <1>3, <1>4

LEMMA BeforeFinallyKeeps == ASSUME ResendInv, BeforeFinally PROVE ResendInv'
<1> USE DEF ResendInv
<1>1. /\ UNCHANGED <<orderMessages, stored, fetch, processed, realtime, stage, publishedCount, given, told>>
      /\ unsub = "ending" /\ unsub' = "yes" /\ outBuffer' = EndWrite(outBuffer, FALSE)
      /\ resentMsgs' = IF stage = "resolving" THEN resentMsgs ELSE End(resentMsgs)
    BY DEF BeforeFinally
<1>2. /\ outBuffer' \in BufferTypes /\ outBuffer'.items = outBuffer.items
      /\ resentMsgs' \in BufferTypes /\ (stage # "resolving" => ~IsWritable(resentMsgs'))
    BY <1>1, Ended DEF ResendTypes, IsWritable
<1>3. ResendTypes'
    BY <1>1, <1>2 DEF ResendTypes
<1>4. LockedByUnsubscribe'
    BY <1>1, <1>2 DEF LockedByUnsubscribe
<1>5. OrderedAscend'
    BY <1>1, <1>2, NothingDelivered
<1>6. QED
    BY <1>1, <1>3, <1>4, <1>5

LEMMA ResendInductive == ASSUME ResendInv, [ResendNext]_resendVars PROVE ResendInv'
<1>1. CASE \E outcome \in {"found", "none", "failed"} : ResendResolves(outcome)
    BY <1>1, ResendResolvesKeeps
<1>2. CASE FetchAnswered \/ FetchFails \/ FrameFails \/ PullMessage \/ PushEnds \/ PullEnds
    BY <1>2, FetchAnsweredKeeps, FetchThrowsKeeps, PullMessageKeeps, PullEndsKeeps DEF FetchFails, FrameFails
<1>3. CASE ProcessResent \/ NextOfStage \/ ReadOrdered
    BY <1>3, ProcessResentKeeps, NextOfStageKeeps, ReadOrderedKeeps
<1>4. CASE RealtimeArrives \/ DistributeEnds \/ MessageIsStored \/ Unsubscribes \/ BeforeFinally \/ UNCHANGED resendVars
    BY <1>4, RealtimeArrivesKeeps, QuietKeeps, UnsubscribesKeeps, BeforeFinallyKeeps
<1>5. QED
    BY <1>1, <1>2, <1>3, <1>4 DEF ResendNext

(***************************************************************************)
(* The handover from the resend to the network loses nothing and blocks    *)
(* nobody, in every run: for any number of messages, of them stored before *)
(* or while the resend reads, any size of the buffers, any failures of the *)
(* fetch, and unsubscribe() at any step.                                   *)
(***************************************************************************)
THEOREM ResendThenRealtimeAlways == ResendSpec => []ResendThenRealtime
<1>1. ASSUME ResendInv PROVE ResendThenRealtime
    <2> USE ResendAssumption DEF ResendInv
    <2> DEFINE passed == ToSet(given) \cup ToSet(outBuffer.items)
    <2>0. /\ given \in Seq(Nat) /\ outBuffer.items \in Seq(Nat) /\ realtime.items \in Seq(Nat) /\ Len(given) \in Nat
          /\ Len(realtime.items) \in Nat /\ publishedCount \in Nat /\ told \in BOOLEAN /\ fetch.failed \in BOOLEAN
        BY <1>1 DEF ResendTypes, BufferTypes, Fetches
    <2>1. passed = Passed /\ ToSet(realtime.items) = Elements(realtime.items)
        <3>1. ToSet(given) = Elements(given)
            BY <2>0, SetOfSequence
        <3>2. ToSet(outBuffer.items) = Elements(outBuffer.items)
            BY <2>0, SetOfSequence
        <3>3. ToSet(realtime.items) = Elements(realtime.items)
            BY <2>0, SetOfSequence
        <3>4. QED
            BY <3>1, <3>2, <3>3 DEF Passed
    <2>2. ASSUME stage = "realtime", unsub = "no"
          PROVE  1 .. fetch.next - 1 \subseteq passed /\ told = fetch.failed
        BY <1>1, <2>0, <2>1, <2>2 DEF Handover, Realtime
    <2>3. ASSUME unsub = "no" PROVE Published + 1 .. publishedCount \subseteq passed \cup ToSet(realtime.items)
        <3>1. Published + 1 .. Read \subseteq Passed
            BY <1>1, <2>3, <2>0 DEF Handover, Realtime, RealtimeWaits, ResendTypes
        <3>2. Read \in Nat /\ From(realtime.items, Read) /\ Read + Len(realtime.items) = publishedCount
            BY <1>1, <2>0, <2>3 DEF Handover, RealtimeWaits, Read
        <3>3. ASSUME NEW n \in Published + 1 .. publishedCount, n > Read PROVE n \in Elements(realtime.items)
            <4>1. n - Read \in 1 .. Len(realtime.items) /\ Read + (n - Read) = n
                BY <2>0, <3>2, <3>3
            <4>2. QED
                BY <3>2, <4>1 DEF From, Elements
        <3>4. QED
            BY <2>0, <2>1, <3>1, <3>2, <3>3
    <2>4. ASSUME orderMessages PROVE \A i \in 1 .. Len(given) - 1 : given[i] < given[i + 1]
        <3>1. ASSUME NEW i \in 1 .. Len(given) - 1 PROVE i \in 1 .. Len(given) /\ i + 1 \in 1 .. Len(given) /\ i < i + 1
            BY <2>0
        <3>2. QED
            BY <1>1, <2>4, <3>1 DEF OrderedAscend, Ascends
    <2>5. /\ unsub # "no" => ~WriteGateIsClosed(realtime)
          /\ (unsub = "yes" /\ fetch.at # "none") => ~IsWritable(resentMsgs)
        BY <1>1 DEF LockedByUnsubscribe, WriteGateIsClosed
    <2>6. QED
        BY <2>2, <2>3, <2>4, <2>5 DEF ResendThenRealtime
<1>2. QED
    BY <1>1, ResendInitially, ResendInductive, PTL DEF ResendSpec

-----------------------------------------------------------------------------
(* Subscriptions: SubscriptionsInv.  Only the session of the part is not   *)
(* stopped; a subscription that came in time keeps it up, and the node in  *)
(* the part, as long as it is there.                                       *)

SubSessions ==
    [subs : SUBSET Sub, listeners : Nat, stopped : BOOLEAN, up : BOOLEAN, step : {"check", "joining", "leaving"},
     failed : BOOLEAN, runs : Seq([sub : Sub, call : {"add", "remove"}]), pipeline : Seq(Nat), leaves : BOOLEAN,
     lostJoin : BOOLEAN]

SubStates ==
    [at : {"new", "adding", "active", "ending", "removing", "rejected", "done"}, session : Nat, late : BOOLEAN]

SubscriptionTypes ==
    /\ sessions \in Seq(SubSessions) /\ subSession \in 0 .. Len(sessions) /\ sub \in [Sub -> SubStates]
    /\ messagesCame \in Nat /\ sentTo \in [Message -> SUBSET Sub]
    /\ partState \in {"in", "out", "leaving"}

\* Where session i is, and that it joined the part for good unless a leave was under way.
SessionInOrder(i) ==
    LET theSession == sessions[i]
    IN  /\ theSession.stopped <=> i # subSession
        /\ theSession.step = "leaving" => theSession.up
        /\ theSession.step = "joining" => ~theSession.up /\ ~theSession.stopped /\ theSession.listeners > 0
        /\ theSession.step = "check" /\ theSession.up => ~theSession.stopped /\ theSession.listeners > 0
        /\ theSession.step = "check" /\ theSession.up /\ ~theSession.lostJoin => partState = "in" /\ ~LeaveUnderWay

\* The subscriptions and the calls of session i are its own.
SessionOwns(i) ==
    /\ \A s \in sessions[i].subs : sub[s].session = i /\ sub[s].at # "new"
    /\ \A k \in 1 .. Len(sessions[i].runs) :
          LET s == sessions[i].runs[k].sub IN sub[s].session = i /\ sub[s].at # "new"

SubscriptionInOrder(s) ==
    LET theSession == sessions[sub[s].session]
    IN  /\ sub[s].at \notin {"new", "rejected"} => sub[s].session \in 1 .. Len(sessions)
        /\ sub[s].at \in {"adding", "active"} => s \in theSession.subs
        /\ sub[s].at \in {"adding", "active"} /\ ~sub[s].late => ~theSession.stopped /\ theSession.step # "leaving"
        /\ sub[s].at = "active" /\ ~sub[s].late => theSession.up /\ theSession.step = "check"

ControlInv ==
    /\ \A i \in 1 .. Len(sessions) : SessionInOrder(i) /\ SessionOwns(i)
    /\ \A s \in Sub : SubscriptionInOrder(s)
    /\ partState = "leaving" => LeaveUnderWay

\* The pipeline of session i is in the order of the messages.
PipelineInOrder(i) ==
    Ascends(sessions[i].pipeline) /\ \A m \in Elements(sessions[i].pipeline) : m <= messagesCame

Received == Seq([msg : Nat, as : {"raw", "processed"}])

\* What s was given is in order, too, and older than what its session has still in the pipeline.
GivenInOrder(s) ==
    LET got == received[s]
    IN  /\ got \in Received
        /\ \A a, b \in 1 .. Len(got) : a < b => got[a].msg < got[b].msg
        /\ \A a \in 1 .. Len(got) : got[a].msg <= messagesCame
        /\ sub[s].at = "new" => got = <<>>
        /\ \A i \in 1 .. Len(sessions) : s \in sessions[i].subs =>
              \A a \in 1 .. Len(got), m \in Elements(sessions[i].pipeline) : got[a].msg < m

\* What was sent to s.
SentInOrder(s) ==
    \A m \in Message : s \in sentTo[m] =>
        /\ ~sub[s].late /\ sub[s].at \notin {"new", "adding"}
        /\ sub[s].at = "active" => \/ \E a \in 1 .. Len(received[s]) : received[s][a].msg = m
                                   \/ m \in errors[s]
                                   \/ m \in Elements(sessions[sub[s].session].pipeline)

MessagesInv ==
    /\ \A i \in 1 .. Len(sessions) : PipelineInOrder(i)
    /\ \A s \in Sub \ Raw : GivenInOrder(s) /\ SentInOrder(s)

SubscriptionsInv == SubscriptionTypes /\ ControlInv /\ MessagesInv

-----------------------------------------------------------------------------
(* Steps of one session.                                                   *)

LEMMA FunctionIsSequence ==
    ASSUME NEW S, NEW n \in Nat, NEW f \in [1 .. n -> S] PROVE f \in Seq(S) /\ Len(f) = n
OBVIOUS

LEMMA SequenceIsFunction == ASSUME NEW S, NEW q \in Seq(S) PROVE q \in [1 .. Len(q) -> S] /\ Len(q) \in Nat
OBVIOUS

LEMMA ItemIn == ASSUME NEW S, NEW q \in Seq(S), NEW k \in 1 .. Len(q) PROVE q[k] \in S
OBVIOUS

LEMMA HeadIsIn ==
    ASSUME NEW S, NEW q \in Seq(S), q # <<>>
    PROVE  Head(q) \in S /\ 1 \in 1 .. Len(q) /\ Head(q) = q[1] /\ Tail(q) \in Seq(S)
OBVIOUS

LEMMA OneSubSession ==
    ASSUME SubscriptionTypes, NEW i \in 1 .. Len(sessions), NEW x \in SubSessions, sessions' = [sessions EXCEPT ![i] = x]
    PROVE  /\ sessions' \in Seq(SubSessions) /\ Len(sessions') = Len(sessions) /\ sessions'[i] = x
           /\ \A j \in 1 .. Len(sessions) : j # i => sessions'[j] = sessions[j]
<1>1. Len(sessions) \in Nat /\ sessions \in [1 .. Len(sessions) -> SubSessions]
    BY DEF SubscriptionTypes
<1>2. sessions' \in [1 .. Len(sessions) -> SubSessions]
    BY <1>1
<1>3. QED
    BY <1>1, <1>2, FunctionIsSequence

LEMMA SessionTypes ==
    ASSUME SubscriptionTypes, NEW i \in 1 .. Len(sessions)
    PROVE  /\ sessions[i] \in SubSessions /\ Len(sessions) \in Nat /\ i \in Nat \ {0} /\ subSession \in Nat
           /\ sessions[i].runs \in Seq([sub : Sub, call : {"add", "remove"}]) /\ Len(sessions[i].runs) \in Nat
           /\ \A k \in 1 .. Len(sessions[i].runs) : sessions[i].runs[k].sub \in Sub
           /\ sessions[i].pipeline \in Seq(Nat) /\ Len(sessions[i].pipeline) \in Nat
<1>1. sessions[i] \in SubSessions /\ Len(sessions) \in Nat /\ i \in Nat \ {0} /\ subSession \in Nat
    BY DEF SubscriptionTypes
<1>2. sessions[i].runs \in Seq([sub : Sub, call : {"add", "remove"}]) /\ sessions[i].pipeline \in Seq(Nat)
    BY <1>1 DEF SubSessions
<1>3. \A k \in 1 .. Len(sessions[i].runs) : sessions[i].runs[k] \in [sub : Sub, call : {"add", "remove"}]
    BY <1>2, ItemIn
<1>4. QED
    BY <1>1, <1>2, <1>3

\* A step of session i: the order of the others depends on it only if it is the session of the part.
LEMMA SessionStep ==
    ASSUME SubscriptionsInv, NEW i \in 1 .. Len(sessions), Len(sessions') = Len(sessions),
           \A j \in 1 .. Len(sessions) : j # i => sessions'[j] = sessions[j] /\ (j = subSession <=> j = subSession'),
           SessionInOrder(i)',
           LeaveUnderWay' => LeaveUnderWay \/ i = subSession,
           partState' = partState \/ i = subSession \/ LeaveUnderWay
    PROVE  \A j \in 1 .. Len(sessions') : SessionInOrder(j)'
<1>1. ASSUME NEW j \in 1 .. Len(sessions), j # i PROVE SessionInOrder(j)'
    <2>1. SessionInOrder(j) /\ sessions'[j] = sessions[j] /\ (j = subSession <=> j = subSession')
        BY <1>1 DEF SubscriptionsInv, ControlInv
    <2>2. sessions[j].step = "check" /\ sessions[j].up => j = subSession
        BY <2>1 DEF SessionInOrder
    <2>3. ASSUME sessions[j].step = "check", sessions[j].up, ~sessions[j].lostJoin
          PROVE  partState' = "in" /\ ~LeaveUnderWay'
        BY <1>1, <2>1, <2>2, <2>3 DEF SessionInOrder
    <2>4. QED
        BY <2>1, <2>3 DEF SessionInOrder
<1>2. QED
    BY <1>1

\* A step that adds no subscription, and to the calls of session i at most one of its own.
LEMMA OwnsStep ==
    ASSUME SubscriptionsInv, NEW i \in 1 .. Len(sessions), Len(sessions') = Len(sessions),
           \A j \in 1 .. Len(sessions) : j # i => sessions'[j] = sessions[j],
           sessions'[i].subs \subseteq sessions[i].subs,
           \A s \in Sub : sub[s].at # "new" => sub'[s].session = sub[s].session /\ sub'[s].at # "new",
           sessions[i].subs \subseteq Sub,
           \A k \in 1 .. Len(sessions'[i].runs) : LET s == sessions'[i].runs[k].sub
                                                  IN  s \in Sub /\ sub[s].session = i /\ sub[s].at # "new"
    PROVE  \A j \in 1 .. Len(sessions') : SessionOwns(j)'
<1>1. ASSUME NEW j \in 1 .. Len(sessions), j # i PROVE SessionOwns(j)'
    <2>0. SubscriptionTypes
        BY DEF SubscriptionsInv
    <2>1. SessionOwns(j) /\ sessions'[j] = sessions[j] /\ sessions[j] \in SubSessions
          /\ \A k \in 1 .. Len(sessions[j].runs) : sessions[j].runs[k].sub \in Sub
        BY <1>1, <2>0, SessionTypes DEF SubscriptionsInv, ControlInv
    <2>2. sessions[j].subs \subseteq Sub
        BY <2>1 DEF SubSessions
    <2>3. QED
        BY <2>1, <2>2 DEF SessionOwns
<1>2. SessionOwns(i)'
    <2>1. SessionOwns(i)
        BY DEF SubscriptionsInv, ControlInv
    <2>2. QED
        BY <2>1 DEF SessionOwns
<1>3. QED
    BY <1>1, <1>2

\* A step of session i that leaves the subscriptions where they are.
LEMMA SubscriptionsStep ==
    ASSUME SubscriptionsInv, NEW i \in 1 .. Len(sessions), Len(sessions') = Len(sessions),
           \A j \in 1 .. Len(sessions) : j # i => sessions'[j] = sessions[j],
           \A s \in Sub : sub'[s] = sub[s] \/ SubscriptionInOrder(s)',
           \A s \in Sub : sub[s].session = i /\ sub[s].at \in {"adding", "active"} => SubscriptionInOrder(s)'
    PROVE  \A s \in Sub : SubscriptionInOrder(s)'
<1>1. ASSUME NEW s \in Sub, sub'[s] = sub[s] PROVE SubscriptionInOrder(s)'
    <2>1. SubscriptionInOrder(s)
        BY DEF SubscriptionsInv, ControlInv
    <2>2. CASE sub[s].at \in {"adding", "active"} /\ sub[s].session # i
        BY <1>1, <2>1, <2>2 DEF SubscriptionInOrder
    <2>3. CASE sub[s].at \notin {"adding", "active"}
        BY <1>1, <2>1, <2>3 DEF SubscriptionInOrder
    <2>4. QED
        BY <2>2, <2>3
<1>2. QED
    BY <1>1

\* A step that gives nobody a message: a pipeline is emptied only if nobody in time depends on it.
LEMMA MessagesStay ==
    ASSUME SubscriptionsInv, SubscriptionTypes', UNCHANGED <<received, errors, messagesCame, sentTo>>,
           1 .. Len(sessions) \subseteq 1 .. Len(sessions'),
           \A s \in Sub : sub[s].at # "new" => /\ sub'[s].session = sub[s].session /\ sub'[s].late = sub[s].late
                                               /\ sub'[s].at # "new" /\ (sub'[s].at = "adding" => sub[s].at = "adding"),
           \A s \in Sub : sub'[s].at = "active" => sub[s].at \in {"adding", "active"},
           \A i \in 1 .. Len(sessions') :
               \/ i \in 1 .. Len(sessions) /\ sessions'[i].pipeline = sessions[i].pipeline
               \/ sessions'[i].pipeline = <<>> /\ \A s \in Sub : sub[s].at = "active" /\ ~sub[s].late => sub[s].session # i,
           \A i \in 1 .. Len(sessions') : \A s \in sessions'[i].subs :
               (i \in 1 .. Len(sessions) /\ s \in sessions[i].subs) \/ sub[s].at = "new"
    PROVE  MessagesInv'
<1>0. Elements(<<>>) = {} /\ Ascends(<<>>)
    BY DEF Elements, Ascends
<1>1. ASSUME NEW i \in 1 .. Len(sessions') PROVE PipelineInOrder(i)'
    <2>1. CASE sessions'[i].pipeline = <<>>
        BY <1>0, <2>1 DEF PipelineInOrder
    <2>2. CASE i \in 1 .. Len(sessions) /\ sessions'[i].pipeline = sessions[i].pipeline
        BY <2>2 DEF PipelineInOrder, SubscriptionsInv, MessagesInv
    <2>3. QED
        BY <2>1, <2>2
<1>2. ASSUME NEW s \in Sub \ Raw PROVE GivenInOrder(s)'
    <2>1. GivenInOrder(s)
        BY DEF SubscriptionsInv, MessagesInv
    <2>2. /\ received'[s] \in Received
          /\ \A a, b \in 1 .. Len(received'[s]) : a < b => received'[s][a].msg < received'[s][b].msg
          /\ \A a \in 1 .. Len(received'[s]) : received'[s][a].msg <= messagesCame'
          /\ sub'[s].at = "new" => received'[s] = <<>>
        BY <2>1 DEF GivenInOrder
    <2>3. ASSUME NEW i \in 1 .. Len(sessions'), s \in sessions'[i].subs,
                 NEW a \in 1 .. Len(received[s]), NEW m \in Elements(sessions'[i].pipeline)
          PROVE  received[s][a].msg < m
        <3>1. sessions'[i].pipeline # <<>>
            BY <1>0, <2>3
        <3>2. i \in 1 .. Len(sessions) /\ sessions'[i].pipeline = sessions[i].pipeline
            BY <3>1
        <3>3. CASE s \in sessions[i].subs
            BY <2>1, <2>3, <3>2, <3>3 DEF GivenInOrder
        <3>4. CASE sub[s].at = "new"
            <4>1. received[s] = <<>>
                BY <2>1, <3>4 DEF GivenInOrder
            <4>2. 1 .. Len(received[s]) = {}
                BY <4>1
            <4>3. QED
                BY <4>2
        <3>5. QED
            BY <2>3, <3>3, <3>4
    <2>4. QED
        BY <2>2, <2>3 DEF GivenInOrder
<1>3. ASSUME NEW s \in Sub \ Raw PROVE SentInOrder(s)'
    <2> SUFFICES ASSUME NEW m \in Message, s \in sentTo[m]
                 PROVE  /\ ~sub'[s].late /\ sub'[s].at \notin {"new", "adding"}
                        /\ sub'[s].at = "active" => \/ \E a \in 1 .. Len(received[s]) : received[s][a].msg = m
                                                    \/ m \in errors[s]
                                                    \/ m \in Elements(sessions'[sub'[s].session].pipeline)
        BY DEF SentInOrder
    <2>1. /\ ~sub[s].late /\ sub[s].at \notin {"new", "adding"}
          /\ sub[s].at = "active" => \/ \E a \in 1 .. Len(received[s]) : received[s][a].msg = m
                                     \/ m \in errors[s]
                                     \/ m \in Elements(sessions[sub[s].session].pipeline)
        BY DEF SubscriptionsInv, MessagesInv, SentInOrder
    <2>2. ~sub'[s].late /\ sub'[s].at \notin {"new", "adding"} /\ sub'[s].session = sub[s].session
        BY <2>1
    <2>3. ASSUME sub'[s].at = "active" PROVE sessions'[sub[s].session].pipeline = sessions[sub[s].session].pipeline
        <3>1. sub[s].at = "active" /\ SubscriptionInOrder(s)
            BY <2>1, <2>3 DEF SubscriptionsInv, ControlInv
        <3>2. sub[s].session \in 1 .. Len(sessions)
            BY <3>1 DEF SubscriptionInOrder
        <3>3. sub[s].session \in 1 .. Len(sessions')
            BY <3>2
        <3>4. QED
            BY <2>1, <3>1, <3>3
    <2>4. sub'[s].at = "active" => sub[s].at = "active"
        BY <2>1
    <2>5. QED
        BY <2>1, <2>2, <2>3, <2>4
<1>4. QED
    BY <1>1, <1>2, <1>3 DEF MessagesInv

\* A step of session i that gives nobody a message.
LEMMA SessionActs ==
    ASSUME SubscriptionsInv, NEW i \in 1 .. Len(sessions), NEW x \in SubSessions, sessions' = [sessions EXCEPT ![i] = x],
           x.subs \subseteq sessions[i].subs,
           \A k \in 1 .. Len(x.runs) : LET s == x.runs[k].sub IN s \in Sub /\ sub[s].session = i /\ sub[s].at # "new",
           \/ x.pipeline = sessions[i].pipeline
           \/ x.pipeline = <<>> /\ \A s \in Sub : sub[s].at = "active" /\ ~sub[s].late => sub[s].session # i,
           sub' \in [Sub -> SubStates],
           \A s \in Sub : \/ sub'[s] = sub[s]
                          \/ /\ sub'[s].session = sub[s].session /\ sub'[s].late = sub[s].late
                             /\ sub'[s].at \notin {"new", "adding"} /\ sub[s].at # "new"
                             /\ sub'[s].at = "active" => sub[s].at \in {"adding", "active"}
                             /\ SubscriptionInOrder(s)',
           \A s \in Sub : sub[s].session = i /\ sub[s].at \in {"adding", "active"} => SubscriptionInOrder(s)',
           SessionInOrder(i)',
           subSession' = subSession \/ (i = subSession /\ subSession' = 0),
           LeaveUnderWay' => LeaveUnderWay \/ i = subSession, partState' = "leaving" => LeaveUnderWay',
           partState' = partState \/ i = subSession \/ LeaveUnderWay,
           partState' \in {"in", "out", "leaving"}, UNCHANGED <<received, errors, messagesCame, sentTo>>
    PROVE  SubscriptionsInv'
<1>0. SubscriptionTypes
    BY DEF SubscriptionsInv
<1>1. /\ sessions' \in Seq(SubSessions) /\ Len(sessions') = Len(sessions) /\ sessions'[i] = x
      /\ \A j \in 1 .. Len(sessions) : j # i => sessions'[j] = sessions[j]
    BY <1>0, OneSubSession
<1>2. Len(sessions) \in Nat /\ i \in Nat \ {0} /\ subSession \in Nat /\ sessions[i].subs \subseteq Sub
    BY <1>0, SessionTypes DEF SubSessions
<1>3. SubscriptionTypes'
    BY <1>0, <1>1, <1>2 DEF SubscriptionTypes
<1>4. \A j \in 1 .. Len(sessions') : SessionInOrder(j)'
    BY <1>1, <1>2, SessionStep
<1>5. \A j \in 1 .. Len(sessions') : SessionOwns(j)'
    <2>1. \A s \in Sub : sub[s].at # "new" => sub'[s].session = sub[s].session /\ sub'[s].at # "new"
        OBVIOUS
    <2>2. QED
        BY <1>1, <1>2, <2>1, OwnsStep
<1>6. \A s \in Sub : SubscriptionInOrder(s)'
    BY <1>1, SubscriptionsStep
<1>7. MessagesInv'
    <2>1. \A s \in Sub : sub[s].at # "new" => /\ sub'[s].session = sub[s].session /\ sub'[s].late = sub[s].late
                                              /\ sub'[s].at # "new" /\ (sub'[s].at = "adding" => sub[s].at = "adding")
        OBVIOUS
    <2>2. \A s \in Sub : sub'[s].at = "active" => sub[s].at \in {"adding", "active"}
        OBVIOUS
    <2>3. \A j \in 1 .. Len(sessions') :
               \/ j \in 1 .. Len(sessions) /\ sessions'[j].pipeline = sessions[j].pipeline
               \/ sessions'[j].pipeline = <<>> /\ \A s \in Sub : sub[s].at = "active" /\ ~sub[s].late => sub[s].session # j
        BY <1>1
    <2>4. \A j \in 1 .. Len(sessions') : \A s \in sessions'[j].subs :
               (j \in 1 .. Len(sessions) /\ s \in sessions[j].subs) \/ sub[s].at = "new"
        BY <1>1
    <2>5. QED
        BY <1>1, <1>3, <2>1, <2>2, <2>3, <2>4, MessagesStay
<1>8. QED
    BY <1>3, <1>4, <1>5, <1>6, <1>7 DEF SubscriptionsInv, ControlInv

\* What holds of a session and of the subscriptions that are its own.
LEMMA OwnSubscriptions ==
    ASSUME SubscriptionsInv, NEW i \in 1 .. Len(sessions)
    PROVE  /\ SessionInOrder(i) /\ SessionOwns(i) /\ SubscriptionTypes /\ (partState = "leaving" => LeaveUnderWay)
           /\ \A k \in 1 .. Len(sessions[i].runs) : LET s == sessions[i].runs[k].sub
                                                    IN  s \in Sub /\ sub[s].session = i /\ sub[s].at # "new"
           /\ \A s \in Sub : sub[s].session = i /\ sub[s].at \in {"adding", "active"} =>
                 /\ s \in sessions[i].subs /\ (~sub[s].late => ~sessions[i].stopped /\ sessions[i].step # "leaving")
                 /\ sub[s].at = "active" /\ ~sub[s].late => sessions[i].up /\ sessions[i].step = "check"
<1>1. /\ SessionInOrder(i) /\ SessionOwns(i) /\ SubscriptionTypes /\ (partState = "leaving" => LeaveUnderWay)
      /\ \A s \in Sub : SubscriptionInOrder(s)
    BY DEF SubscriptionsInv, ControlInv
<1>2. \A k \in 1 .. Len(sessions[i].runs) : sessions[i].runs[k].sub \in Sub
    BY <1>1, SessionTypes
<1>3. QED
    BY <1>1, <1>2 DEF SessionOwns, SubscriptionInOrder

LEMMA StepUpKeeps == ASSUME SubscriptionsInv, NEW i \in 1 .. Len(sessions), StepUp(i) PROVE SubscriptionsInv'
<1> DEFINE x == [sessions[i] EXCEPT !.step = "joining", !.listeners = sessions[i].listeners + 1]
<1>0. SessionInOrder(i) /\ SubscriptionTypes /\ sessions[i] \in SubSessions /\ sessions[i].listeners \in Nat
    BY OwnSubscriptions, SessionTypes DEF SubSessions
<1>1. sessions' = [sessions EXCEPT ![i] = x]
    BY <1>0 DEF StepUp, SubscriptionTypes
<1>2. /\ x \in SubSessions /\ x.step = "joining" /\ x.listeners > 0 /\ x.subs = sessions[i].subs /\ x.runs = sessions[i].runs
      /\ x.pipeline = sessions[i].pipeline /\ x.stopped = sessions[i].stopped /\ x.up = sessions[i].up
    <2>1. sessions[i].listeners + 1 \in Nat /\ sessions[i].listeners + 1 > 0
        BY <1>0
    <2>2. x \in SubSessions
        BY <1>0, <2>1 DEF SubSessions
    <2>3. /\ x.step = "joining" /\ x.listeners = sessions[i].listeners + 1 /\ x.subs = sessions[i].subs
          /\ x.runs = sessions[i].runs /\ x.pipeline = sessions[i].pipeline /\ x.stopped = sessions[i].stopped
          /\ x.up = sessions[i].up
        BY <1>0 DEF SubSessions
    <2>4. QED
        BY <2>1, <2>2, <2>3
<1>3. ~sessions[i].stopped /\ ~sessions[i].up /\ i = subSession
    BY <1>0 DEF StepUp, ShouldBeSubscribed, SessionInOrder
<1>4. /\ sessions'[i] = x /\ Len(sessions') = Len(sessions)
      /\ \A j \in 1 .. Len(sessions) : j # i => sessions'[j] = sessions[j]
    BY <1>0, <1>1, <1>2, OneSubSession
<1>5. UNCHANGED <<subSession, sub, received, errors, messagesCame, sentTo, partState>>
    BY DEF StepUp
<1> HIDE DEF x
<1>6. SessionInOrder(i)'
    BY <1>2, <1>3, <1>4, <1>5 DEF SessionInOrder
<1>7. ASSUME NEW s \in Sub, sub[s].session = i, sub[s].at \in {"adding", "active"} PROVE SubscriptionInOrder(s)'
    BY <1>2, <1>3, <1>4, <1>5, <1>7, OwnSubscriptions DEF SubscriptionInOrder
<1>8. sub' \in [Sub -> SubStates] /\ partState' \in {"in", "out", "leaving"}
    BY <1>0, <1>5 DEF SubscriptionTypes
<1>9. \A k \in 1 .. Len(x.runs) : LET s == x.runs[k].sub IN s \in Sub /\ sub[s].session = i /\ sub[s].at # "new"
    BY <1>2, OwnSubscriptions
<1>10. partState' = "leaving" => LeaveUnderWay'
    BY <1>0, <1>2, <1>4, <1>5, OwnSubscriptions DEF LeaveUnderWay, StepUp
<1>11. QED
    BY <1>1, <1>2, <1>3, <1>5, <1>6, <1>7, <1>8, <1>9, <1>10, SessionActs

LEMMA JoinEndsKeeps ==
    ASSUME SubscriptionsInv, NEW i \in 1 .. Len(sessions), NEW fails \in BOOLEAN, JoinEnds(i, fails) PROVE SubscriptionsInv'
<1> DEFINE lost == ~fails /\ LeaveUnderWay
           x == [sessions[i] EXCEPT !.step = "check", !.up = ~fails, !.failed = fails, !.lostJoin = lost]
<1>0. SessionInOrder(i) /\ SubscriptionTypes /\ sessions[i] \in SubSessions /\ sessions[i].step = "joining"
    BY OwnSubscriptions, SessionTypes DEF JoinEnds
<1>1. sessions' = [sessions EXCEPT ![i] = x]
    BY <1>0 DEF JoinEnds, SubscriptionTypes
<1>2. /\ x \in SubSessions /\ x.step = "check" /\ x.subs = sessions[i].subs /\ x.runs = sessions[i].runs
      /\ x.pipeline = sessions[i].pipeline /\ x.stopped = sessions[i].stopped /\ x.up = ~fails
      /\ x.listeners = sessions[i].listeners /\ x.lostJoin = lost
    <2>1. lost \in BOOLEAN /\ (~fails) \in BOOLEAN
        OBVIOUS
    <2> HIDE DEF lost
    <2>2. QED
        BY <1>0, <2>1 DEF SubSessions
<1>3. ~sessions[i].stopped /\ ~sessions[i].up /\ i = subSession /\ sessions[i].listeners > 0
    BY <1>0 DEF SessionInOrder
<1>4. /\ sessions'[i] = x /\ Len(sessions') = Len(sessions)
      /\ \A j \in 1 .. Len(sessions) : j # i => sessions'[j] = sessions[j]
    BY <1>0, <1>1, <1>2, OneSubSession
<1>5. /\ UNCHANGED <<subSession, sub, received, errors, messagesCame, sentTo>>
      /\ partState' = IF ~fails /\ partState = "out" THEN "in" ELSE partState
    BY DEF JoinEnds
<1> HIDE DEF x
<1>6. LeaveUnderWay' => LeaveUnderWay
    BY <1>2, <1>4 DEF LeaveUnderWay
<1>7. SessionInOrder(i)'
    <2>1. ASSUME ~fails, ~lost PROVE partState' = "in" /\ ~LeaveUnderWay'
        BY <1>0, <1>5, <1>6, <2>1, OwnSubscriptions DEF SubscriptionTypes
    <2>2. QED
        BY <1>2, <1>3, <1>4, <1>5, <2>1 DEF SessionInOrder
<1>8. ASSUME NEW s \in Sub, sub[s].session = i, sub[s].at \in {"adding", "active"} PROVE SubscriptionInOrder(s)'
    BY <1>2, <1>3, <1>4, <1>5, <1>8, OwnSubscriptions DEF SubscriptionInOrder
<1>9. sub' \in [Sub -> SubStates] /\ partState' \in {"in", "out", "leaving"}
    BY <1>0, <1>5 DEF SubscriptionTypes
<1>10. \A k \in 1 .. Len(x.runs) : LET s == x.runs[k].sub IN s \in Sub /\ sub[s].session = i /\ sub[s].at # "new"
    BY <1>2, OwnSubscriptions
<1>11. partState' = "leaving" => LeaveUnderWay'
    BY <1>0, <1>4, <1>5, OwnSubscriptions DEF LeaveUnderWay
<1>12. QED
    BY <1>1, <1>2, <1>3, <1>5, <1>6, <1>7, <1>8, <1>9, <1>10, <1>11, SessionActs

LEMMA StepDownKeeps == ASSUME SubscriptionsInv, NEW i \in 1 .. Len(sessions), StepDown(i) PROVE SubscriptionsInv'
<1> DEFINE found == partState # "out"
           x == [sessions[i] EXCEPT !.step = "leaving", !.listeners = 0, !.pipeline = <<>>, !.leaves = found]
<1>0. SessionInOrder(i) /\ SubscriptionTypes /\ sessions[i] \in SubSessions
    BY OwnSubscriptions, SessionTypes
<1>1. sessions' = [sessions EXCEPT ![i] = x]
    BY <1>0 DEF StepDown, SubscriptionTypes
<1>2. /\ x \in SubSessions /\ x.step = "leaving" /\ x.subs = sessions[i].subs /\ x.runs = sessions[i].runs
      /\ x.pipeline = <<>> /\ x.stopped = sessions[i].stopped /\ x.up = sessions[i].up /\ x.leaves = found
    <2>1. found \in BOOLEAN /\ <<>> \in Seq(Nat)
        OBVIOUS
    <2> HIDE DEF found
    <2>2. x \in SubSessions
        BY <1>0, <2>1 DEF SubSessions
    <2>3. QED
        BY <1>0, <2>2 DEF SubSessions
<1>3. sessions[i].up /\ ~sessions[i].stopped /\ i = subSession /\ sessions[i].subs = {}
    BY <1>0 DEF StepDown, ShouldBeSubscribed, SessionInOrder
<1>4. sessions'[i] = x /\ Len(sessions') = Len(sessions)
    BY <1>0, <1>1, <1>2, OneSubSession
<1>5. /\ UNCHANGED <<subSession, sub, received, errors, messagesCame, sentTo>>
      /\ partState' = IF partState = "out" THEN "out" ELSE "leaving"
    BY DEF StepDown
<1> HIDE DEF x
<1>6. SessionInOrder(i)'
    BY <1>2, <1>3, <1>4, <1>5 DEF SessionInOrder
<1>7. \A s \in Sub : ~(sub[s].session = i /\ sub[s].at \in {"adding", "active"})
    BY <1>3, OwnSubscriptions
<1>8. sub' \in [Sub -> SubStates] /\ partState' \in {"in", "out", "leaving"}
    BY <1>0, <1>5 DEF SubscriptionTypes
<1>9. \A k \in 1 .. Len(x.runs) : LET s == x.runs[k].sub IN s \in Sub /\ sub[s].session = i /\ sub[s].at # "new"
    BY <1>2, OwnSubscriptions
<1>10. partState' = "leaving" => LeaveUnderWay'
    BY <1>2, <1>4, <1>5 DEF LeaveUnderWay
<1>11. QED
    BY <1>1, <1>2, <1>3, <1>5, <1>6, <1>7, <1>8, <1>9, <1>10, SessionActs

LEMMA PipelineEndsKeeps == ASSUME SubscriptionsInv, NEW i \in 1 .. Len(sessions), PipelineEnds(i) PROVE SubscriptionsInv'
<1> DEFINE x == [sessions[i] EXCEPT !.stopped = TRUE, !.pipeline = <<>>]
<1>0. SessionInOrder(i) /\ SubscriptionTypes /\ sessions[i] \in SubSessions
    BY OwnSubscriptions, SessionTypes
<1>1. sessions' = [sessions EXCEPT ![i] = x]
    BY <1>0 DEF PipelineEnds, Stopped
<1>2. /\ x \in SubSessions /\ x.step = sessions[i].step /\ x.subs = sessions[i].subs /\ x.runs = sessions[i].runs
      /\ x.pipeline = <<>> /\ x.stopped /\ x.up = sessions[i].up /\ x.leaves = sessions[i].leaves
    <2>1. <<>> \in Seq(Nat)
        OBVIOUS
    <2>2. x \in SubSessions
        BY <1>0, <2>1 DEF SubSessions
    <2>3. QED
        BY <1>0, <2>2 DEF SubSessions
<1>3. sessions[i].step = "leaving" /\ ~sessions[i].stopped /\ i = subSession /\ sessions[i].up
    BY <1>0 DEF PipelineEnds, SessionInOrder
<1>4. /\ sessions'[i] = x /\ Len(sessions') = Len(sessions)
      /\ \A j \in 1 .. Len(sessions) : j # i => sessions'[j] = sessions[j]
    BY <1>0, <1>1, <1>2, OneSubSession
<1>5. UNCHANGED <<sub, received, errors, messagesCame, sentTo, partState>> /\ subSession' = 0 /\ i # 0
    BY <1>3 DEF PipelineEnds, WithoutRetired
<1> HIDE DEF x
<1>6. SessionInOrder(i)'
    BY <1>2, <1>3, <1>4, <1>5 DEF SessionInOrder
<1>7. ASSUME NEW s \in Sub, sub[s].session = i, sub[s].at \in {"adding", "active"}
      PROVE  SubscriptionInOrder(s)' /\ ~(sub[s].at = "active" /\ ~sub[s].late)
    BY <1>2, <1>3, <1>4, <1>5, <1>7, OwnSubscriptions DEF SubscriptionInOrder
<1>8. sub' \in [Sub -> SubStates] /\ partState' \in {"in", "out", "leaving"}
    BY <1>0, <1>5 DEF SubscriptionTypes
<1>9. \A k \in 1 .. Len(x.runs) : LET s == x.runs[k].sub IN s \in Sub /\ sub[s].session = i /\ sub[s].at # "new"
    BY <1>2, OwnSubscriptions
<1>10. partState' = "leaving" => LeaveUnderWay'
    BY <1>2, <1>4, <1>5, OwnSubscriptions DEF LeaveUnderWay
<1>11. QED
    BY <1>1, <1>2, <1>3, <1>5, <1>6, <1>7, <1>8, <1>9, <1>10, SessionActs

LEMMA LeaveEndsKeeps == ASSUME SubscriptionsInv, NEW i \in 1 .. Len(sessions), LeaveEnds(i) PROVE SubscriptionsInv'
<1> DEFINE x == [sessions[i] EXCEPT !.step = "check", !.up = FALSE]
<1>0. SessionInOrder(i) /\ SubscriptionTypes /\ sessions[i] \in SubSessions
    BY OwnSubscriptions, SessionTypes
<1>1. sessions' = [sessions EXCEPT ![i] = x]
    BY <1>0 DEF LeaveEnds, SubscriptionTypes
<1>2. /\ x \in SubSessions /\ x.step = "check" /\ x.subs = sessions[i].subs /\ x.runs = sessions[i].runs
      /\ x.pipeline = sessions[i].pipeline /\ x.stopped = sessions[i].stopped /\ ~x.up /\ x.leaves = sessions[i].leaves
    BY <1>0 DEF SubSessions
<1>3. sessions[i].step = "leaving" /\ sessions[i].stopped
    BY DEF LeaveEnds
<1>4. /\ sessions'[i] = x /\ Len(sessions') = Len(sessions)
      /\ \A j \in 1 .. Len(sessions) : j # i => sessions'[j] = sessions[j]
    BY <1>0, <1>1, <1>2, OneSubSession
<1>5. /\ UNCHANGED <<subSession, sub, received, errors, messagesCame, sentTo>>
      /\ partState' = IF sessions[i].leaves THEN "out" ELSE partState
    BY DEF LeaveEnds
<1> HIDE DEF x
<1>6. SessionInOrder(i)'
    BY <1>0, <1>2, <1>3, <1>4, <1>5 DEF SessionInOrder
<1>7. ASSUME NEW s \in Sub, sub[s].session = i, sub[s].at \in {"adding", "active"} PROVE SubscriptionInOrder(s)'
    BY <1>2, <1>3, <1>4, <1>5, <1>7, OwnSubscriptions DEF SubscriptionInOrder
<1>8. sub' \in [Sub -> SubStates] /\ partState' \in {"in", "out", "leaving"}
    BY <1>0, <1>5 DEF SubscriptionTypes
<1>9. \A k \in 1 .. Len(x.runs) : LET s == x.runs[k].sub IN s \in Sub /\ sub[s].session = i /\ sub[s].at # "new"
    BY <1>2, OwnSubscriptions
<1>10. /\ LeaveUnderWay' => LeaveUnderWay
       /\ partState' = "leaving" => LeaveUnderWay'
       /\ partState' = partState \/ LeaveUnderWay
    BY <1>2, <1>3, <1>4, <1>5, OwnSubscriptions DEF LeaveUnderWay
<1>11. QED
    BY <1>1, <1>2, <1>5, <1>6, <1>7, <1>8, <1>9, <1>10, SessionActs

LEMMA BeginRemoveKeeps ==
    ASSUME SubscriptionsInv, NEW s \in Sub, sub[s].at = "active", BeginRemove(s),
           UNCHANGED <<subSession, received, errors, messagesCame, sentTo, partState>>
    PROVE  SubscriptionsInv'
<1>0. PICK i \in 1 .. Len(sessions) : i = sub[s].session /\ SubscriptionTypes
    BY DEF SubscriptionsInv, ControlInv, SubscriptionInOrder
<1> DEFINE x == [sessions[i] EXCEPT !.subs = sessions[i].subs \ {s}]
<1>1. SessionInOrder(i) /\ sessions[i] \in SubSessions /\ sub \in [Sub -> SubStates]
    BY <1>0, OwnSubscriptions, SessionTypes DEF SubscriptionTypes
<1>2. sessions' = [sessions EXCEPT ![i] = x] /\ sub' = [sub EXCEPT ![s] = [sub[s] EXCEPT !.at = "ending"]]
    BY <1>0, <1>1 DEF BeginRemove, SubscriptionTypes
<1>3. /\ x \in SubSessions /\ x.step = sessions[i].step /\ x.subs = sessions[i].subs \ {s} /\ x.runs = sessions[i].runs
      /\ x.pipeline = sessions[i].pipeline /\ x.stopped = sessions[i].stopped /\ x.up = sessions[i].up
      /\ x.leaves = sessions[i].leaves /\ x.lostJoin = sessions[i].lostJoin /\ x.listeners = sessions[i].listeners
    BY <1>1 DEF SubSessions
<1>4. /\ sub' \in [Sub -> SubStates] /\ \A q \in Sub : q # s => sub'[q] = sub[q]
      /\ sub'[s].at = "ending" /\ sub'[s].session = i /\ sub'[s].late = sub[s].late
    BY <1>0, <1>1, <1>2 DEF SubStates
<1>5. /\ sessions'[i] = x /\ Len(sessions') = Len(sessions)
      /\ \A j \in 1 .. Len(sessions) : j # i => sessions'[j] = sessions[j]
    BY <1>0, <1>2, <1>3, OneSubSession
<1> HIDE DEF x
<1>6. LeaveUnderWay' <=> LeaveUnderWay
    BY <1>0, <1>3, <1>5 DEF LeaveUnderWay
<1>7. SessionInOrder(i)'
    BY <1>1, <1>3, <1>5, <1>6 DEF SessionInOrder
<1>8. ASSUME NEW q \in Sub, sub[q].session = i, sub[q].at \in {"adding", "active"} PROVE SubscriptionInOrder(q)'
    <2>1. CASE q = s
        BY <1>0, <1>4, <1>5, <2>1 DEF SubscriptionInOrder
    <2>2. CASE q # s
        BY <1>0, <1>3, <1>4, <1>5, <1>8, <2>2, OwnSubscriptions DEF SubscriptionInOrder
    <2>3. QED
        BY <2>1, <2>2
<1>9. \A k \in 1 .. Len(x.runs) : LET q == x.runs[k].sub IN q \in Sub /\ sub[q].session = i /\ sub[q].at # "new"
    BY <1>0, <1>3, OwnSubscriptions
<1>10. \A q \in Sub : \/ sub'[q] = sub[q]
                       \/ /\ sub'[q].session = sub[q].session /\ sub'[q].late = sub[q].late
                          /\ sub'[q].at \notin {"new", "adding"} /\ sub[q].at # "new"
                          /\ sub'[q].at = "active" => sub[q].at \in {"adding", "active"}
                          /\ SubscriptionInOrder(q)'
    BY <1>0, <1>4, <1>8
<1>11. partState' \in {"in", "out", "leaving"} /\ (partState' = "leaving" => LeaveUnderWay')
    BY <1>0, <1>6, OwnSubscriptions DEF SubscriptionTypes
<1>12. QED
    BY <1>0, <1>2, <1>3, <1>4, <1>6, <1>7, <1>8, <1>9, <1>10, <1>11, SessionActs

LEMMA SubscriptionEndedKeeps == ASSUME SubscriptionsInv, NEW s \in Sub, SubscriptionEnded(s) PROVE SubscriptionsInv'
<1>0. PICK i \in 1 .. Len(sessions) : i = sub[s].session /\ SubscriptionTypes /\ sub[s].at = "ending"
    BY DEF SubscriptionsInv, ControlInv, SubscriptionInOrder, SubscriptionEnded
<1> DEFINE theCall == [sub |-> s, call |-> "remove"]
           x == [sessions[i] EXCEPT !.runs = Append(sessions[i].runs, theCall)]
<1>1. /\ SessionInOrder(i) /\ sessions[i] \in SubSessions /\ sub \in [Sub -> SubStates]
      /\ sessions[i].runs \in Seq([sub : Sub, call : {"add", "remove"}])
    BY <1>0, OwnSubscriptions, SessionTypes DEF SubscriptionTypes
<1>2. sessions' = [sessions EXCEPT ![i] = x] /\ sub' = [sub EXCEPT ![s] = [sub[s] EXCEPT !.at = "removing"]]
    BY <1>0, <1>1 DEF SubscriptionEnded, SubscriptionTypes
<1>3. /\ x \in SubSessions /\ x.step = sessions[i].step /\ x.subs = sessions[i].subs
      /\ x.runs = Append(sessions[i].runs, theCall)
      /\ x.pipeline = sessions[i].pipeline /\ x.stopped = sessions[i].stopped /\ x.up = sessions[i].up
      /\ x.leaves = sessions[i].leaves /\ x.lostJoin = sessions[i].lostJoin /\ x.listeners = sessions[i].listeners
    <2>1. theCall \in [sub : Sub, call : {"add", "remove"}]
        OBVIOUS
    <2>2. Append(sessions[i].runs, theCall) \in Seq([sub : Sub, call : {"add", "remove"}])
        BY <1>1, <2>1
    <2> HIDE DEF theCall
    <2>3. x \in SubSessions
        BY <1>1, <2>2 DEF SubSessions
    <2>4. QED
        BY <1>1, <2>3 DEF SubSessions
<1>4. /\ sub' \in [Sub -> SubStates] /\ \A q \in Sub : q # s => sub'[q] = sub[q]
      /\ sub'[s].at = "removing" /\ sub'[s].session = i /\ sub'[s].late = sub[s].late
    BY <1>0, <1>1, <1>2 DEF SubStates
<1>5. /\ sessions'[i] = x /\ Len(sessions') = Len(sessions)
      /\ \A j \in 1 .. Len(sessions) : j # i => sessions'[j] = sessions[j]
    BY <1>0, <1>2, <1>3, OneSubSession
<1>6. UNCHANGED <<subSession, received, errors, messagesCame, sentTo, partState>>
    BY DEF SubscriptionEnded
<1>7. theCall.sub = s
    OBVIOUS
<1>8. \A k \in 1 .. Len(x.runs) : (k \in 1 .. Len(sessions[i].runs) /\ x.runs[k] = sessions[i].runs[k]) \/ x.runs[k] = theCall
    <2> HIDE DEF theCall, x
    <2>1. QED
        BY <1>1, <1>3
<1> HIDE DEF x, theCall
<1>9. LeaveUnderWay' <=> LeaveUnderWay
    BY <1>0, <1>3, <1>5 DEF LeaveUnderWay
<1>10. SessionInOrder(i)'
    BY <1>1, <1>3, <1>5, <1>6, <1>9 DEF SessionInOrder
<1>11. ASSUME NEW q \in Sub, q # s, sub[q].session = i, sub[q].at \in {"adding", "active"} PROVE SubscriptionInOrder(q)'
    BY <1>0, <1>3, <1>4, <1>5, <1>11, OwnSubscriptions DEF SubscriptionInOrder
<1>12. SubscriptionInOrder(s)'
    BY <1>0, <1>4, <1>5 DEF SubscriptionInOrder
<1>13. \A k \in 1 .. Len(x.runs) : LET q == x.runs[k].sub IN q \in Sub /\ sub[q].session = i /\ sub[q].at # "new"
    <2> SUFFICES ASSUME NEW k \in 1 .. Len(x.runs)
                 PROVE  x.runs[k].sub \in Sub /\ sub[x.runs[k].sub].session = i /\ sub[x.runs[k].sub].at # "new"
        OBVIOUS
    <2>1. CASE x.runs[k] = theCall
        BY <1>0, <1>7, <2>1
    <2>2. CASE k \in 1 .. Len(sessions[i].runs) /\ x.runs[k] = sessions[i].runs[k]
        BY <2>2, OwnSubscriptions
    <2>3. QED
        BY <1>8, <2>1, <2>2
<1>14. \A q \in Sub : \/ sub'[q] = sub[q]
                       \/ /\ sub'[q].session = sub[q].session /\ sub'[q].late = sub[q].late
                          /\ sub'[q].at \notin {"new", "adding"} /\ sub[q].at # "new"
                          /\ sub'[q].at = "active" => sub[q].at \in {"adding", "active"}
                          /\ SubscriptionInOrder(q)'
    BY <1>0, <1>4, <1>12
<1>15. partState' \in {"in", "out", "leaving"} /\ (partState' = "leaving" => LeaveUnderWay')
    BY <1>0, <1>6, <1>9, OwnSubscriptions DEF SubscriptionTypes
<1>16. QED
    BY <1>0, <1>2, <1>3, <1>4, <1>6, <1>9, <1>10, <1>11, <1>12, <1>13, <1>14, <1>15, SessionActs

\* A run of session i ends with its call, for s.
LEMMA RunStep ==
    ASSUME SubscriptionsInv, NEW i \in 1 .. Len(sessions), NEW s \in Sub, NEW x \in SubSessions,
           sessions[i].runs # <<>>, s = Head(sessions[i].runs).sub, sessions[i].step = "check", sessions' = [sessions EXCEPT ![i] = x],
           x.subs \subseteq sessions[i].subs, x.runs = Tail(sessions[i].runs), x.step = "check", x.up = sessions[i].up,
           x.leaves = sessions[i].leaves, x.lostJoin = sessions[i].lostJoin, x.listeners = sessions[i].listeners,
           \/ x.pipeline = sessions[i].pipeline
           \/ x.pipeline = <<>> /\ sessions[i].subs = {},
           x.stopped <=> i # subSession', x.stopped = sessions[i].stopped \/ ~x.up,
           subSession' = subSession \/ (i = subSession /\ subSession' = 0),
           NEW a \in {"active", "ending", "removing", "rejected", "done"},
           sub' = [sub EXCEPT ![s] = [sub[s] EXCEPT !.at = a]],
           a = "active" => /\ sub[s].at \in {"adding", "active"} /\ s \in x.subs
                           /\ ~sub[s].late => ~x.stopped /\ x.up,
           \A q \in sessions[i].subs : q # s => q \in x.subs /\ x.stopped = sessions[i].stopped,
           UNCHANGED <<received, errors, messagesCame, sentTo, partState>>
    PROVE  SubscriptionsInv'
<1>0. /\ SessionInOrder(i) /\ SubscriptionTypes /\ sessions[i] \in SubSessions /\ sub \in [Sub -> SubStates]
      /\ sessions[i].runs \in Seq([sub : Sub, call : {"add", "remove"}])
    BY OwnSubscriptions, SessionTypes DEF SubscriptionTypes
<1>1. /\ 1 \in 1 .. Len(sessions[i].runs) /\ s = sessions[i].runs[1].sub
      /\ \A k \in 1 .. Len(x.runs) : k + 1 \in 1 .. Len(sessions[i].runs) /\ x.runs[k] = sessions[i].runs[k + 1]
    BY <1>0
<1>2. sub[s].session = i /\ sub[s].at # "new"
    BY <1>1, OwnSubscriptions
<1>3. /\ sub' \in [Sub -> SubStates] /\ \A q \in Sub : q # s => sub'[q] = sub[q]
      /\ sub'[s].at = a /\ sub'[s].session = i /\ sub'[s].late = sub[s].late
    <2>1. [sub[s] EXCEPT !.at = a] \in SubStates /\ [sub[s] EXCEPT !.at = a].at = a
          /\ [sub[s] EXCEPT !.at = a].session = sub[s].session /\ [sub[s] EXCEPT !.at = a].late = sub[s].late
        BY <1>0 DEF SubStates
    <2>2. QED
        BY <1>0, <1>2, <2>1
<1>4. /\ sessions'[i] = x /\ Len(sessions') = Len(sessions)
      /\ \A j \in 1 .. Len(sessions) : j # i => sessions'[j] = sessions[j]
    BY <1>0, OneSubSession
<1>5. LeaveUnderWay' <=> LeaveUnderWay
    BY <1>4 DEF LeaveUnderWay
<1>6. SessionInOrder(i)'
    BY <1>0, <1>4, <1>5 DEF SessionInOrder
<1>7. SubscriptionInOrder(s)'
    <2>1. /\ sub'[s].session \in 1 .. Len(sessions') /\ sub'[s].at = a /\ sub'[s].late = sub[s].late
          /\ sessions'[sub'[s].session] = x
        BY <1>3, <1>4
    <2>2. CASE a = "active"
        BY <2>1, <2>2 DEF SubscriptionInOrder
    <2>3. CASE a # "active"
        BY <2>1, <2>3 DEF SubscriptionInOrder
    <2>4. QED
        BY <2>2, <2>3
<1>8. ASSUME NEW q \in Sub, q # s, sub[q].session = i, sub[q].at \in {"adding", "active"} PROVE SubscriptionInOrder(q)'
    <2>1. q \in x.subs /\ x.stopped = sessions[i].stopped
        BY <1>8, OwnSubscriptions
    <2>2. /\ ~sub[q].late => ~sessions[i].stopped
          /\ sub[q].at = "active" /\ ~sub[q].late => sessions[i].up
        BY <1>8, OwnSubscriptions
    <2>3. sub'[q] = sub[q] /\ sub[q].session = i /\ sessions'[i] = x /\ Len(sessions') = Len(sessions)
        BY <1>3, <1>4, <1>8
    <2>4. QED
        BY <2>1, <2>2, <2>3 DEF SubscriptionInOrder
<1>9. \A k \in 1 .. Len(x.runs) : LET q == x.runs[k].sub IN q \in Sub /\ sub[q].session = i /\ sub[q].at # "new"
    BY <1>1, OwnSubscriptions
<1>10. \A q \in Sub : \/ sub'[q] = sub[q]
                       \/ /\ sub'[q].session = sub[q].session /\ sub'[q].late = sub[q].late
                          /\ sub'[q].at \notin {"new", "adding"} /\ sub[q].at # "new"
                          /\ sub'[q].at = "active" => sub[q].at \in {"adding", "active"}
                          /\ SubscriptionInOrder(q)'
    BY <1>2, <1>3, <1>7
<1>11. partState' \in {"in", "out", "leaving"} /\ (partState' = "leaving" => LeaveUnderWay')
    BY <1>0, <1>5, OwnSubscriptions DEF SubscriptionTypes
<1>12. \/ x.pipeline = sessions[i].pipeline
       \/ x.pipeline = <<>> /\ \A q \in Sub : sub[q].at = "active" /\ ~sub[q].late => sub[q].session # i
    BY OwnSubscriptions
<1>13. \A q \in Sub : sub[q].session = i /\ sub[q].at \in {"adding", "active"} => SubscriptionInOrder(q)'
    BY <1>7, <1>8
<1>14. (LeaveUnderWay' => LeaveUnderWay \/ i = subSession) /\ (partState' = partState \/ i = subSession \/ LeaveUnderWay)
    BY <1>5
<1>15. QED
    BY <1>3, <1>6, <1>9, <1>10, <1>11, <1>12, <1>13, <1>14, SessionActs

LEMMA QueuedNextEndsKeeps ==
    ASSUME SubscriptionsInv, NEW i \in 1 .. Len(sessions), QueuedNextEnds(i) PROVE SubscriptionsInv'
<1> DEFINE theSession == sessions[i]
           theCall == Head(theSession.runs)
           rest == [theSession EXCEPT !.runs = Tail(theSession.runs), !.failed = FALSE]
           stop == ~theSession.failed /\ ~ShouldBeSubscribed(theSession) /\ ~theSession.stopped
<1>0. /\ SessionInOrder(i) /\ SubscriptionTypes /\ theSession \in SubSessions /\ sub \in [Sub -> SubStates]
      /\ theSession.runs \in Seq([sub : Sub, call : {"add", "remove"}]) /\ theSession.runs # <<>> /\ theSession.step = "check"
      /\ theSession.failed \in BOOLEAN /\ theSession.up \in BOOLEAN /\ theSession.stopped \in BOOLEAN
    BY OwnSubscriptions, SessionTypes DEF SubscriptionTypes, QueuedNextEnds, SubSessions
<1>1. /\ theCall \in [sub : Sub, call : {"add", "remove"}] /\ 1 \in 1 .. Len(theSession.runs) /\ theCall = theSession.runs[1]
      /\ Tail(theSession.runs) \in Seq([sub : Sub, call : {"add", "remove"}])
    BY <1>0, HeadIsIn
<1>2. PICK s \in Sub : s = theCall.sub
    BY <1>1
<1>3. sub[s].session = i /\ sub[s].at # "new"
    BY <1>1, <1>2, OwnSubscriptions
<1>4. /\ rest \in SubSessions /\ rest.subs = theSession.subs /\ rest.runs = Tail(theSession.runs) /\ rest.step = "check"
      /\ rest.up = theSession.up /\ rest.leaves = theSession.leaves /\ rest.lostJoin = theSession.lostJoin
      /\ rest.listeners = theSession.listeners /\ rest.pipeline = theSession.pipeline /\ rest.stopped = theSession.stopped
    <2>1. rest \in SubSessions
        BY <1>0, <1>1 DEF SubSessions
    <2>2. QED
        BY <1>0, <2>1 DEF SubSessions
<1>5. /\ theSession.failed \/ (ShouldBeSubscribed(theSession) = theSession.up)
      /\ subSession' = IF stop THEN WithoutRetired(i) ELSE subSession
      /\ UNCHANGED <<received, errors, messagesCame, sentTo, partState>>
    BY DEF QueuedNextEnds
<1>6. theSession.stopped <=> i # subSession
    BY <1>0 DEF SessionInOrder
<1>7. \A a : [sub EXCEPT ![s].at = a] = [sub EXCEPT ![s] = [sub[s] EXCEPT !.at = a]]
    BY <1>0
<1>8. CASE theSession.failed /\ theCall.call = "add" /\ theCall.sub \in theSession.subs
    <2> DEFINE x == [rest EXCEPT !.subs = rest.subs \ {s}]
    <2>1. sessions' = [sessions EXCEPT ![i] = x] /\ sub' = [sub EXCEPT ![s].at = "ending"] /\ subSession' = subSession
        BY <1>2, <1>5, <1>8 DEF QueuedNextEnds
    <2>2. /\ x \in SubSessions /\ x.subs = theSession.subs \ {s} /\ x.runs = Tail(theSession.runs) /\ x.step = "check"
          /\ x.up = theSession.up /\ x.leaves = theSession.leaves /\ x.lostJoin = theSession.lostJoin
          /\ x.listeners = theSession.listeners /\ x.pipeline = theSession.pipeline /\ x.stopped = theSession.stopped
        <3> HIDE DEF rest
        <3>1. QED
            BY <1>4 DEF SubSessions
    <2>3. s = Head(sessions[i].runs).sub /\ sessions[i].runs # <<>> /\ sessions[i].step = "check"
        BY <1>0, <1>2
    <2>4. sub' = [sub EXCEPT ![s] = [sub[s] EXCEPT !.at = "ending"]]
        BY <1>7, <2>1
    <2>5. (x.stopped <=> i # subSession') /\ x.stopped = sessions[i].stopped
        BY <1>6, <2>1, <2>2
    <2>6. \A q \in sessions[i].subs : q # s => q \in x.subs /\ x.stopped = sessions[i].stopped
        BY <2>2
    <2> HIDE DEF x, rest, stop, theCall
    <2>7. QED
        BY <1>5, <2>1, <2>2, <2>3, <2>4, <2>5, <2>6, RunStep
<1>9. CASE ~(theSession.failed /\ theCall.call = "add" /\ theCall.sub \in theSession.subs)
    <2>0. PICK a : a = IF theCall.call = "remove" THEN "done" ELSE IF sub[s].at = "adding" THEN "active" ELSE sub[s].at
        OBVIOUS
    <2>1. sub' = [sub EXCEPT ![s].at = a]
        BY <1>0, <1>2, <1>9, <2>0 DEF QueuedNextEnds
    <2>2. a \in {"active", "ending", "removing", "rejected", "done"}
        BY <1>0, <1>3, <2>0 DEF SubStates
    <2>3. ASSUME sub[s].at \in {"adding", "active"} PROVE s \in theSession.subs
        BY <1>3, <2>3, OwnSubscriptions
    <2>4. a = "active" => sub[s].at \in {"adding", "active"}
        BY <2>0
    <2>5. CASE stop
        <3> DEFINE x == [rest EXCEPT !.stopped = TRUE, !.pipeline = <<>>]
        <3>1. sessions' = [sessions EXCEPT ![i] = x]
            BY <1>9, <2>5 DEF QueuedNextEnds, Stopped
        <3>2. /\ x \in SubSessions /\ x.subs = theSession.subs /\ x.runs = Tail(theSession.runs) /\ x.step = "check"
              /\ x.up = theSession.up /\ x.leaves = theSession.leaves /\ x.lostJoin = theSession.lostJoin
              /\ x.listeners = theSession.listeners /\ x.pipeline = <<>> /\ x.stopped
            <4>1. <<>> \in Seq(Nat)
                OBVIOUS
            <4> HIDE DEF rest
            <4>2. x \in SubSessions
                BY <1>4, <4>1 DEF SubSessions
            <4>3. QED
                BY <1>4, <4>2 DEF SubSessions
        <3>3. theSession.subs = {} /\ ~theSession.up /\ i = subSession /\ subSession' = 0 /\ i # 0
            BY <1>0, <1>5, <1>6, <2>5 DEF ShouldBeSubscribed, WithoutRetired
        <3>4. a # "active"
            BY <2>3, <2>4, <3>3
        <3> HIDE DEF x, rest, stop, theCall
        <3>5. QED
            BY <1>0, <1>2, <1>5, <1>7, <2>1, <2>2, <3>1, <3>2, <3>3, <3>4, RunStep DEF theCall
    <2>6. CASE ~stop
        <3>1. sessions' = [sessions EXCEPT ![i] = rest] /\ subSession' = subSession
            BY <1>5, <1>9, <2>6 DEF QueuedNextEnds
        <3>2. ASSUME a = "active", ~sub[s].late PROVE ~rest.stopped /\ rest.up
            <4>1. sub[s].at \in {"adding", "active"} /\ s \in theSession.subs /\ theCall.call # "remove"
                BY <2>0, <2>3, <2>4, <3>2
            <4>2. ~theSession.stopped
                BY <1>3, <3>2, <4>1, OwnSubscriptions
            <4>3. ~theSession.failed
                BY <1>1, <1>2, <1>9, <4>1
            <4>4. ShouldBeSubscribed(theSession)
                BY <4>1, <4>2 DEF ShouldBeSubscribed
            <4>5. QED
                BY <1>4, <1>5, <4>2, <4>3, <4>4
        <3>3. s = Head(sessions[i].runs).sub /\ sessions[i].runs # <<>> /\ sessions[i].step = "check"
            BY <1>0, <1>2
        <3>4. sub' = [sub EXCEPT ![s] = [sub[s] EXCEPT !.at = a]]
            BY <1>7, <2>1
        <3>5. (rest.stopped <=> i # subSession') /\ rest.stopped = sessions[i].stopped
            BY <1>4, <1>6, <3>1
        <3>6. \A q \in sessions[i].subs : q # s => q \in rest.subs /\ rest.stopped = sessions[i].stopped
            BY <1>4
        <3>7. a = "active" => /\ sub[s].at \in {"adding", "active"} /\ s \in rest.subs
                              /\ ~sub[s].late => ~rest.stopped /\ rest.up
            BY <1>4, <2>3, <2>4, <3>2
        <3> HIDE DEF rest, stop, theCall
        <3>8. QED
            BY <1>4, <1>5, <2>2, <3>1, <3>3, <3>4, <3>5, <3>6, <3>7, RunStep
    <2>7. QED
        BY <2>5, <2>6
<1>10. QED
    BY <1>8, <1>9

\* Subscriber.add(): s comes to session i, which was y before.
LEMMA AddStep ==
    ASSUME SubscriptionsInv, NEW s \in Sub, sub[s].at = "new", NEW i \in Nat, NEW y \in SubSessions, NEW x \in SubSessions,
           \/ i \in 1 .. Len(sessions) /\ y = sessions[i] /\ subSession = i
           \/ i = Len(sessions) + 1 /\ y = NewSubSession /\ subSession = 0,
           x.subs = y.subs \cup {s}, x.runs = Append(y.runs, [sub |-> s, call |-> "add"]),
           x.listeners = y.listeners, x.stopped = y.stopped, x.up = y.up, x.step = y.step, x.pipeline = y.pipeline,
           x.leaves = y.leaves, x.lostJoin = y.lostJoin,
           sessions' \in Seq(SubSessions), 1 .. Len(sessions') = (1 .. Len(sessions)) \cup {i}, sessions'[i] = x,
           \A j \in 1 .. Len(sessions) : j # i => sessions'[j] = sessions[j], subSession' = i,
           sub' \in [Sub -> SubStates], \A q \in Sub : q # s => sub'[q] = sub[q],
           sub'[s].at = "adding", sub'[s].session = i, sub'[s].late <=> y.step = "leaving",
           UNCHANGED <<received, errors, messagesCame, sentTo, partState>>
    PROVE  SubscriptionsInv'
<1>0. /\ SubscriptionTypes /\ sub \in [Sub -> SubStates] /\ Len(sessions) \in Nat /\ subSession \in Nat
      /\ \A j \in 1 .. Len(sessions) : SessionInOrder(j) /\ SessionOwns(j) /\ sessions[j] \in SubSessions
      /\ \A q \in Sub : SubscriptionInOrder(q)
      /\ partState = "leaving" => LeaveUnderWay
    BY SessionTypes DEF SubscriptionsInv, ControlInv, SubscriptionTypes
<1>1. /\ sub' \in [Sub -> SubStates] /\ \A q \in Sub : q # s => sub'[q] = sub[q]
      /\ sub'[s].at = "adding" /\ sub'[s].session = i /\ (sub'[s].late <=> y.step = "leaving")
    OBVIOUS
<1>2. Len(sessions') \in Nat /\ i \in 1 .. Len(sessions') /\ 1 .. Len(sessions) \subseteq 1 .. Len(sessions')
    BY <1>0
<1>3. SubscriptionTypes'
    BY <1>0, <1>1, <1>2 DEF SubscriptionTypes
<1>4. /\ i \notin 1 .. Len(sessions) => /\ y.subs = {} /\ y.runs = <<>> /\ y.step = "check" /\ ~y.up /\ ~y.stopped /\ y.pipeline = <<>>
                                         /\ ~y.leaves
      /\ i \in 1 .. Len(sessions) => y = sessions[i] /\ subSession = i
    BY <1>0 DEF NewSubSession
<1>5. LeaveUnderWay' <=> LeaveUnderWay
    <2>1. ASSUME NEW j \in 1 .. Len(sessions') PROVE j \in 1 .. Len(sessions) \/ ~(sessions'[j].step = "leaving")
        BY <1>4, <2>1
    <2>2. ASSUME NEW j \in 1 .. Len(sessions)
          PROVE  sessions'[j].step = sessions[j].step /\ sessions'[j].leaves = sessions[j].leaves
        BY <1>4, <2>2
    <2>3. QED
        BY <1>2, <2>1, <2>2 DEF LeaveUnderWay
<1>6. \A j \in 1 .. Len(sessions) : j # i => (j = subSession <=> j = subSession')
    BY <1>0
<1>7. ASSUME NEW j \in 1 .. Len(sessions') PROVE SessionInOrder(j)'
    <2>1. CASE j # i
        BY <1>0, <1>2, <1>5, <1>6, <1>7, <2>1 DEF SessionInOrder
    <2>2. CASE j = i /\ i \in 1 .. Len(sessions)
        BY <1>0, <1>4, <1>5, <2>2 DEF SessionInOrder
    <2>3. CASE j = i /\ i \notin 1 .. Len(sessions)
        BY <1>4, <2>3 DEF SessionInOrder
    <2>4. QED
        BY <2>1, <2>2, <2>3
<1>8. ASSUME NEW j \in 1 .. Len(sessions') PROVE SessionOwns(j)'
    <2>1. ASSUME j \in 1 .. Len(sessions)
          PROVE  /\ \A q \in sessions[j].subs : q # s /\ q \in Sub /\ sub'[q].session = j /\ sub'[q].at # "new"
                 /\ \A k \in 1 .. Len(sessions[j].runs) : LET q == sessions[j].runs[k].sub
                                                         IN  sub'[q].session = j /\ sub'[q].at # "new"
        <3>1. SessionOwns(j) /\ sessions[j].subs \subseteq Sub /\ \A k \in 1 .. Len(sessions[j].runs) : sessions[j].runs[k].sub \in Sub
            BY <1>0, <2>1, SessionTypes DEF SubSessions
        <3>2. QED
            BY <1>1, <3>1 DEF SessionOwns
    <2>2. CASE j # i
        <3>1. j \in 1 .. Len(sessions) /\ sessions'[j] = sessions[j]
            BY <1>8, <2>2
        <3>2. QED
            BY <2>1, <3>1 DEF SessionOwns
    <2>3. CASE j = i
        <3>1. y.runs \in Seq([sub : Sub, call : {"add", "remove"}])
            BY DEF SubSessions
        <3>2. \A k \in 1 .. Len(x.runs) : \/ k \in 1 .. Len(y.runs) /\ x.runs[k] = y.runs[k]
                                          \/ x.runs[k] = [sub |-> s, call |-> "add"]
            BY <3>1
        <3>3. sub'[s].session = i /\ sub'[s].at # "new"
            BY <1>1
        <3>4. CASE i \in 1 .. Len(sessions)
            <4>1. \A k \in 1 .. Len(x.runs) : LET q == x.runs[k].sub IN sub'[q].session = i /\ sub'[q].at # "new"
                BY <1>4, <2>1, <2>3, <3>2, <3>3, <3>4
            <4>2. \A q \in x.subs : sub'[q].session = i /\ sub'[q].at # "new"
                BY <1>4, <2>1, <2>3, <3>3, <3>4
            <4>3. QED
                BY <2>3, <4>1, <4>2 DEF SessionOwns
        <3>5. CASE i \notin 1 .. Len(sessions)
            <4>1. \A k \in 1 .. Len(x.runs) : x.runs[k].sub = s
                BY <1>4, <3>2, <3>5
            <4>2. QED
                BY <1>4, <2>3, <3>3, <3>5, <4>1 DEF SessionOwns
        <3>6. QED
            BY <3>4, <3>5
    <2>4. QED
        BY <2>2, <2>3
<1>9. ASSUME NEW q \in Sub PROVE SubscriptionInOrder(q)'
    <2>1. CASE q = s
        <3>1. y.step # "leaving" => ~y.stopped
            BY <1>0, <1>4 DEF SessionInOrder
        <3>2. QED
            BY <1>1, <1>2, <2>1, <3>1 DEF SubscriptionInOrder
    <2>2. CASE q # s /\ sub[q].at \in {"new", "rejected"}
        BY <1>1, <2>2 DEF SubscriptionInOrder
    <2>3. CASE q # s /\ sub[q].at \notin {"new", "rejected"}
        <3>1. sub[q].session \in 1 .. Len(sessions) /\ SubscriptionInOrder(q) /\ sub'[q] = sub[q]
            BY <1>0, <1>1, <2>3 DEF SubscriptionInOrder
        <3>2. CASE sub[q].session = i
            BY <1>2, <1>4, <3>1, <3>2 DEF SubscriptionInOrder
        <3>3. CASE sub[q].session # i
            BY <1>2, <3>1, <3>3 DEF SubscriptionInOrder
        <3>4. QED
            BY <3>2, <3>3
    <2>4. QED
        BY <2>1, <2>2, <2>3
<1>10. MessagesInv'
    <2>1. \A q \in Sub : sub[q].at # "new" => /\ sub'[q].session = sub[q].session /\ sub'[q].late = sub[q].late
                                              /\ sub'[q].at # "new" /\ (sub'[q].at = "adding" => sub[q].at = "adding")
        BY <1>1
    <2>2. \A q \in Sub : sub'[q].at = "active" => sub[q].at \in {"adding", "active"}
        BY <1>1
    <2>3. ASSUME NEW j \in 1 .. Len(sessions')
          PROVE  \/ j \in 1 .. Len(sessions) /\ sessions'[j].pipeline = sessions[j].pipeline
                 \/ sessions'[j].pipeline = <<>> /\ \A q \in Sub : sub[q].at = "active" /\ ~sub[q].late => sub[q].session # j
        <3>1. CASE j \in 1 .. Len(sessions)
            BY <1>4, <3>1
        <3>2. CASE j \notin 1 .. Len(sessions)
            BY <1>0, <1>4, <2>3, <3>2 DEF SubscriptionInOrder
        <3>3. QED
            BY <3>1, <3>2
    <2>4. ASSUME NEW j \in 1 .. Len(sessions'), NEW q \in sessions'[j].subs
          PROVE  (j \in 1 .. Len(sessions) /\ q \in sessions[j].subs) \/ sub[q].at = "new"
        BY <1>4, <2>4
    <2>5. QED
        BY <1>2, <1>3, <2>1, <2>2, <2>3, <2>4, MessagesStay
<1>11. QED
    BY <1>0, <1>3, <1>5, <1>7, <1>8, <1>9, <1>10 DEF SubscriptionsInv, ControlInv

LEMMA AddSubscriptionKeeps == ASSUME SubscriptionsInv, NEW s \in Sub, AddSubscription(s) PROVE SubscriptionsInv'
<1> DEFINE theCall == [sub |-> s, call |-> "add"]
<1>0. /\ SubscriptionTypes /\ sub \in [Sub -> SubStates] /\ Len(sessions) \in Nat /\ subSession \in 0 .. Len(sessions)
      /\ sub[s].at = "new" /\ UNCHANGED <<received, errors, messagesCame, sentTo, partState>>
      /\ sessions \in Seq(SubSessions)
    BY DEF SubscriptionsInv, SubscriptionTypes, AddSubscription
<1>1. theCall \in [sub : Sub, call : {"add", "remove"}]
    OBVIOUS
<1>2. ASSUME NEW y \in SubSessions
      PROVE  LET x == [y EXCEPT !.subs = y.subs \cup {s}, !.runs = Append(y.runs, theCall)]
             IN  /\ x \in SubSessions /\ x.subs = y.subs \cup {s} /\ x.runs = Append(y.runs, theCall)
                 /\ x.listeners = y.listeners /\ x.stopped = y.stopped /\ x.up = y.up /\ x.step = y.step
                 /\ x.pipeline = y.pipeline /\ x.leaves = y.leaves /\ x.lostJoin = y.lostJoin
    <2>1. y.subs \in SUBSET Sub /\ y.runs \in Seq([sub : Sub, call : {"add", "remove"}])
        BY DEF SubSessions
    <2>2. y.subs \cup {s} \in SUBSET Sub /\ Append(y.runs, theCall) \in Seq([sub : Sub, call : {"add", "remove"}])
        BY <1>1, <2>1
    <2> HIDE DEF theCall
    <2>3. [y EXCEPT !.subs = y.subs \cup {s}, !.runs = Append(y.runs, theCall)] \in SubSessions
        BY <2>2 DEF SubSessions
    <2>4. QED
        BY <2>2, <2>3 DEF SubSessions
<1>3. ASSUME NEW i \in Nat, NEW y, sub' = [sub EXCEPT ![s] = [at |-> "adding", session |-> i, late |-> y.step = "leaving"]]
      PROVE  /\ sub' \in [Sub -> SubStates] /\ \A q \in Sub : q # s => sub'[q] = sub[q]
             /\ sub'[s].at = "adding" /\ sub'[s].session = i /\ (sub'[s].late <=> y.step = "leaving")
    <2>1. (y.step = "leaving") \in BOOLEAN
        OBVIOUS
    <2>2. [at |-> "adding", session |-> i, late |-> y.step = "leaving"] \in SubStates
        BY <2>1 DEF SubStates
    <2>3. QED
        BY <1>0, <1>3, <2>2
<1>4. CASE subSession # 0 /\ ContractMismatch(sessions[subSession], s)
    <2>1. /\ sub' = [sub EXCEPT ![s] = [sub[s] EXCEPT !.at = "rejected"]] /\ sessions' = sessions /\ subSession' = subSession
        BY <1>0, <1>4 DEF AddSubscription
    <2>2. /\ sub' \in [Sub -> SubStates] /\ sub'[s].at = "rejected" /\ \A q \in Sub : q # s => sub'[q] = sub[q]
        BY <1>0, <2>1 DEF SubStates
    <2>3. SubscriptionTypes'
        BY <1>0, <2>1, <2>2 DEF SubscriptionTypes
    <2>4. LeaveUnderWay' <=> LeaveUnderWay
        BY <2>1 DEF LeaveUnderWay
    <2>5. ASSUME NEW j \in 1 .. Len(sessions) PROVE SessionInOrder(j)' /\ SessionOwns(j)'
        <3>1. /\ SessionInOrder(j) /\ SessionOwns(j) /\ sessions[j].subs \subseteq Sub
              /\ \A k \in 1 .. Len(sessions[j].runs) : sessions[j].runs[k].sub \in Sub
            BY <1>0, SessionTypes DEF SubscriptionsInv, ControlInv, SubSessions
        <3>2. SessionInOrder(j)'
            BY <1>0, <2>1, <2>4, <3>1 DEF SessionInOrder
        <3>3. SessionOwns(j)'
            BY <1>0, <2>1, <2>2, <3>1 DEF SessionOwns
        <3>4. QED
            BY <3>2, <3>3
    <2>6. ASSUME NEW q \in Sub PROVE SubscriptionInOrder(q)'
        BY <2>1, <2>2 DEF SubscriptionsInv, ControlInv, SubscriptionInOrder
    <2>7. MessagesInv'
        BY <1>0, <2>1, <2>2, <2>3, MessagesStay
    <2>8. QED
        BY <1>0, <2>1, <2>3, <2>4, <2>5, <2>6, <2>7 DEF SubscriptionsInv, ControlInv
<1>5. CASE subSession # 0 /\ ~ContractMismatch(sessions[subSession], s)
    <2>1. PICK i \in 1 .. Len(sessions) : i = subSession
        BY <1>0, <1>5
    <2> DEFINE y == sessions[i]
               x == [y EXCEPT !.subs = y.subs \cup {s}, !.runs = Append(y.runs, theCall)]
    <2>2. y \in SubSessions /\ i \in Nat
        BY <1>0, SessionTypes
    <2>3. /\ sessions' = [sessions EXCEPT ![i] = x] /\ subSession' = i
          /\ sub' = [sub EXCEPT ![s] = [at |-> "adding", session |-> i, late |-> y.step = "leaving"]]
        BY <1>0, <1>5, <2>1, <2>2 DEF AddSubscription
    <2>4. /\ x \in SubSessions /\ x.subs = y.subs \cup {s} /\ x.runs = Append(y.runs, theCall)
          /\ x.listeners = y.listeners /\ x.stopped = y.stopped /\ x.up = y.up /\ x.step = y.step
          /\ x.pipeline = y.pipeline /\ x.leaves = y.leaves /\ x.lostJoin = y.lostJoin
        BY <1>2, <2>2
    <2> HIDE DEF x
    <2>5. /\ sessions' \in Seq(SubSessions) /\ Len(sessions') = Len(sessions) /\ sessions'[i] = x
          /\ \A j \in 1 .. Len(sessions) : j # i => sessions'[j] = sessions[j]
        BY <1>0, <2>3, <2>4, OneSubSession
    <2>6. 1 .. Len(sessions') = (1 .. Len(sessions)) \cup {i}
        BY <2>5
    <2>7. x.runs = Append(y.runs, [sub |-> s, call |-> "add"])
        BY <2>4
    <2>8. \/ i \in 1 .. Len(sessions) /\ y = sessions[i] /\ subSession = i
          \/ i = Len(sessions) + 1 /\ y = NewSubSession /\ subSession = 0
        BY <2>1
    <2>9. /\ subSession' = i /\ sub' \in [Sub -> SubStates] /\ \A q \in Sub : q # s => sub'[q] = sub[q]
          /\ sub'[s].at = "adding" /\ sub'[s].session = i /\ (sub'[s].late <=> y.step = "leaving")
        BY <1>3, <2>2, <2>3
    <2> HIDE DEF y, theCall
    <2>10. QED
        BY <1>0, <2>2, <2>4, <2>5, <2>6, <2>7, <2>8, <2>9, AddStep
<1>6. CASE subSession = 0
    <2> PICK i \in Nat : i = Len(sessions) + 1
        BY <1>0
    <2> DEFINE y == NewSubSession
               x == [y EXCEPT !.subs = y.subs \cup {s}, !.runs = Append(y.runs, theCall)]
    <2>0. <<>> \in Seq([sub : Sub, call : {"add", "remove"}]) /\ <<>> \in Seq(Nat)
        OBVIOUS
    <2>1. y \in SubSessions /\ ~ContractMismatch(y, s)
        BY <2>0 DEF NewSubSession, SubSessions, ContractMismatch
    <2>2. Append(sessions, y) \in Seq(SubSessions) /\ Len(Append(sessions, y)) = i /\ Append(sessions, y)[i] = y
          /\ \A j \in 1 .. Len(sessions) : Append(sessions, y)[j] = sessions[j]
        BY <1>0, <2>1
    <2>3. /\ sessions' = [Append(sessions, y) EXCEPT ![i].subs = @ \cup {s}, ![i].runs = Append(@, theCall)] /\ subSession' = i
          /\ sub' = [sub EXCEPT ![s] = [at |-> "adding", session |-> i, late |-> y.step = "leaving"]]
        BY <1>6, <2>1, <2>2 DEF AddSubscription
    <2>4. /\ x \in SubSessions /\ x.subs = y.subs \cup {s} /\ x.runs = Append(y.runs, theCall)
          /\ x.listeners = y.listeners /\ x.stopped = y.stopped /\ x.up = y.up /\ x.step = y.step
          /\ x.pipeline = y.pipeline /\ x.leaves = y.leaves /\ x.lostJoin = y.lostJoin
        BY <1>2, <2>1
    <2>5. sessions' = [Append(sessions, y) EXCEPT ![i] = x]
        <3>1. Append(sessions, y) \in [1 .. i -> SubSessions]
            BY <2>2, SequenceIsFunction
        <3>2. i \in 1 .. i
            BY <1>0
        <3> HIDE DEF y, theCall
        <3>3. QED
            BY <2>2, <2>3, <3>1, <3>2
    <2> HIDE DEF x, y
    <2>6. sessions' \in [1 .. i -> SubSessions] /\ sessions'[i] = x /\ \A j \in 1 .. Len(sessions) : sessions'[j] = sessions[j]
        <3>1. Append(sessions, y) \in [1 .. i -> SubSessions]
            BY <2>2, SequenceIsFunction
        <3>2. i \in 1 .. i /\ \A j \in 1 .. Len(sessions) : j # i /\ j \in 1 .. i
            BY <1>0
        <3>3. QED
            BY <2>2, <2>4, <2>5, <3>1, <3>2
    <2>7. sessions' \in Seq(SubSessions) /\ Len(sessions') = i
        BY <1>0, <2>6, FunctionIsSequence
    <2>8. 1 .. Len(sessions') = (1 .. Len(sessions)) \cup {i} /\ i \in Nat
        BY <1>0, <2>7
    <2>9. x.runs = Append(y.runs, [sub |-> s, call |-> "add"])
        BY <2>4
    <2>10. \/ i \in 1 .. Len(sessions) /\ y = sessions[i] /\ subSession = i
           \/ i = Len(sessions) + 1 /\ y = NewSubSession /\ subSession = 0
        BY <1>6 DEF y
    <2>11. /\ subSession' = i /\ sub' \in [Sub -> SubStates] /\ \A q \in Sub : q # s => sub'[q] = sub[q]
           /\ sub'[s].at = "adding" /\ sub'[s].session = i /\ (sub'[s].late <=> y.step = "leaving")
        BY <1>3, <2>3
    <2>12. \A j \in 1 .. Len(sessions) : j # i => sessions'[j] = sessions[j]
        BY <2>6
    <2> HIDE DEF theCall
    <2>13. QED
        BY <1>0, <2>1, <2>4, <2>6, <2>7, <2>8, <2>9, <2>10, <2>11, <2>12, AddStep
<1>7. QED
    BY <1>4, <1>5, <1>6

-----------------------------------------------------------------------------
(* Messages.                                                               *)

LEMMA PipelineOnly ==
    ASSUME SubscriptionsInv, Len(sessions') = Len(sessions), UNCHANGED <<subSession, sub, partState>>,
           \A j \in 1 .. Len(sessions) :
              /\ sessions'[j].subs = sessions[j].subs /\ sessions'[j].runs = sessions[j].runs
              /\ sessions'[j].stopped = sessions[j].stopped /\ sessions'[j].step = sessions[j].step
              /\ sessions'[j].up = sessions[j].up /\ sessions'[j].listeners = sessions[j].listeners
              /\ sessions'[j].leaves = sessions[j].leaves /\ sessions'[j].lostJoin = sessions[j].lostJoin
    PROVE  ControlInv'
<1>1. LeaveUnderWay' <=> LeaveUnderWay
    BY DEF LeaveUnderWay
<1>2. ASSUME NEW j \in 1 .. Len(sessions) PROVE SessionInOrder(j)'
    <2>1. SessionInOrder(j)
        BY DEF SubscriptionsInv, ControlInv
    <2>2. QED
        BY <1>1, <2>1 DEF SessionInOrder
<1>3. ASSUME NEW j \in 1 .. Len(sessions) PROVE SessionOwns(j)'
    <2>1. SessionOwns(j)
        BY DEF SubscriptionsInv, ControlInv
    <2>2. QED
        BY <2>1 DEF SessionOwns
<1>4. ASSUME NEW s \in Sub PROVE SubscriptionInOrder(s)'
    <2>1. SubscriptionInOrder(s)
        BY DEF SubscriptionsInv, ControlInv
    <2>2. CASE sub[s].at \in {"new", "rejected"}
        BY <2>2 DEF SubscriptionInOrder
    <2>3. CASE sub[s].at \notin {"new", "rejected"}
        BY <2>1, <2>3 DEF SubscriptionInOrder
    <2>4. QED
        BY <2>2, <2>3
<1>5. QED
    BY <1>1, <1>2, <1>3, <1>4 DEF ControlInv, SubscriptionsInv

LEMMA AscendsMoves ==
    ASSUME NEW q \in Seq(Nat), Ascends(q)
    PROVE  /\ \A m \in Nat : (\A k \in Elements(q) : k < m) => Ascends(Append(q, m))
           /\ q # <<>> => Ascends(Tail(q)) /\ \A k \in Elements(Tail(q)) : Head(q) < k
<1>1. ASSUME NEW m \in Nat, \A k \in Elements(q) : k < m PROVE Ascends(Append(q, m))
    <2>1. /\ Len(Append(q, m)) = Len(q) + 1 /\ Len(q) \in Nat
          /\ Append(q, m)[Len(q) + 1] = m /\ \A i \in 1 .. Len(q) : Append(q, m)[i] = q[i] /\ q[i] \in Elements(q)
        BY DEF Elements
    <2>2. ASSUME NEW i \in 1 .. Len(q) + 1, NEW j \in 1 .. Len(q) + 1, i < j PROVE Append(q, m)[i] < Append(q, m)[j]
        <3>1. i \in 1 .. Len(q)
            BY <2>1, <2>2
        <3>2. CASE j \in 1 .. Len(q)
            BY <2>1, <2>2, <3>1, <3>2 DEF Ascends
        <3>3. CASE j = Len(q) + 1
            BY <1>1, <2>1, <3>1, <3>3
        <3>4. QED
            BY <2>1, <3>2, <3>3
    <2>3. QED
        BY <2>1, <2>2 DEF Ascends
<1>2. ASSUME q # <<>> PROVE Ascends(Tail(q)) /\ \A k \in Elements(Tail(q)) : Head(q) < k
    <2>1. /\ Len(Tail(q)) = Len(q) - 1 /\ Len(q) \in Nat \ {0} /\ Head(q) = q[1]
          /\ \A i \in 1 .. Len(q) - 1 : Tail(q)[i] = q[i + 1] /\ i + 1 \in 1 .. Len(q)
        BY <1>2, ElementsOfTail
    <2>2. Ascends(Tail(q))
        <3>1. ASSUME NEW i \in 1 .. Len(q) - 1, NEW j \in 1 .. Len(q) - 1, i < j PROVE Tail(q)[i] < Tail(q)[j]
            <4>1. i + 1 < j + 1 /\ i + 1 \in 1 .. Len(q) /\ j + 1 \in 1 .. Len(q)
                BY <2>1, <3>1
            <4>2. QED
                BY <2>1, <4>1 DEF Ascends
        <3>2. QED
            BY <2>1, <3>1 DEF Ascends
    <2>3. ASSUME NEW k \in Elements(Tail(q)) PROVE Head(q) < k
        <3>1. PICK i \in 1 .. Len(q) - 1 : k = q[i + 1] /\ i + 1 \in 1 .. Len(q)
            BY <2>1 DEF Elements
        <3>2. 1 \in 1 .. Len(q) /\ 1 < i + 1
            BY <2>1
        <3>3. QED
            BY <2>1, <3>1, <3>2 DEF Ascends
    <2>4. QED
        BY <2>2, <2>3
<1>3. QED
    BY <1>1, <1>2

LEMMA NodeReceivesKeeps == ASSUME SubscriptionsInv, NodeReceives PROVE SubscriptionsInv'
<1> USE SubscriptionsAssumption
<1>0. /\ SubscriptionTypes /\ ControlInv /\ MessagesInv /\ messagesCame \in Nat /\ Len(sessions) \in Nat
      /\ sentTo \in [Message -> SUBSET Sub] /\ messagesCame' = messagesCame + 1
      /\ UNCHANGED <<subSession, sub, errors, partState>>
    BY DEF SubscriptionsInv, SubscriptionTypes, NodeReceives
<1>1. PICK m \in Nat : m = messagesCame + 1 /\ m \in Message
    BY <1>0 DEF NodeReceives
<1> DEFINE taken(j) == InputCalls(j) > 0 /\ sessions[j].subs \ Raw # {}
           grown(j) == [sessions[j] EXCEPT !.pipeline = Append(sessions[j].pipeline, m)]
<1>2. sessions' = [j \in 1 .. Len(sessions) |-> IF taken(j) THEN grown(j) ELSE sessions[j]]
    BY <1>1 DEF NodeReceives
<1>3. ASSUME NEW j \in 1 .. Len(sessions)
      PROVE  /\ sessions[j] \in SubSessions /\ grown(j) \in SubSessions /\ grown(j).subs = sessions[j].subs
             /\ grown(j).runs = sessions[j].runs /\ grown(j).stopped = sessions[j].stopped
             /\ grown(j).step = sessions[j].step /\ grown(j).up = sessions[j].up
             /\ grown(j).listeners = sessions[j].listeners /\ grown(j).leaves = sessions[j].leaves
             /\ grown(j).lostJoin = sessions[j].lostJoin /\ grown(j).pipeline = Append(sessions[j].pipeline, m)
             /\ sessions[j].pipeline \in Seq(Nat)
    <2>1. sessions[j] \in SubSessions /\ sessions[j].pipeline \in Seq(Nat)
        BY <1>0, SessionTypes
    <2>2. Append(sessions[j].pipeline, m) \in Seq(Nat)
        BY <2>1, ElementsOfAppend
    <2>3. grown(j) \in SubSessions
        BY <2>1, <2>2 DEF SubSessions
    <2>4. QED
        BY <2>1, <2>3 DEF SubSessions
<1> HIDE DEF taken, grown
<1>4. sessions' \in [1 .. Len(sessions) -> SubSessions]
      /\ \A j \in 1 .. Len(sessions) : sessions'[j] = IF taken(j) THEN grown(j) ELSE sessions[j]
    BY <1>2, <1>3
<1>5. sessions' \in Seq(SubSessions) /\ Len(sessions') = Len(sessions)
    BY <1>0, <1>4, FunctionIsSequence
<1>6. ASSUME NEW j \in 1 .. Len(sessions)
      PROVE  /\ sessions'[j].subs = sessions[j].subs /\ sessions'[j].runs = sessions[j].runs
             /\ sessions'[j].stopped = sessions[j].stopped /\ sessions'[j].step = sessions[j].step
             /\ sessions'[j].up = sessions[j].up /\ sessions'[j].listeners = sessions[j].listeners
             /\ sessions'[j].leaves = sessions[j].leaves /\ sessions'[j].lostJoin = sessions[j].lostJoin
    BY <1>3, <1>4
<1>7. ControlInv'
    BY <1>0, <1>5, <1>6, PipelineOnly
<1>8. SubscriptionTypes'
    <2>1. sentTo' \in [Message -> SUBSET Sub]
        BY <1>0, <1>1 DEF NodeReceives
    <2>2. QED
        BY <1>0, <1>5, <2>1 DEF SubscriptionTypes
<1>9. ASSUME NEW j \in 1 .. Len(sessions)
      PROVE  /\ PipelineInOrder(j)' /\ Elements(sessions[j].pipeline) \subseteq Elements(sessions'[j].pipeline)
             /\ Elements(sessions'[j].pipeline) \subseteq Elements(sessions[j].pipeline) \cup {m}
             /\ taken(j) => m \in Elements(sessions'[j].pipeline)
    <2>1. PipelineInOrder(j) /\ sessions[j].pipeline \in Seq(Nat) /\ Elements(sessions[j].pipeline) \subseteq Nat
        BY <1>0, <1>3 DEF MessagesInv, Elements
    <2>2. \A k \in Elements(sessions[j].pipeline) : k < m /\ k <= messagesCame'
        BY <1>0, <1>1, <2>1 DEF PipelineInOrder
    <2>3. CASE taken(j)
        <3>1. sessions'[j].pipeline = Append(sessions[j].pipeline, m)
            BY <1>3, <1>4, <2>3
        <3>2. Elements(sessions'[j].pipeline) = Elements(sessions[j].pipeline) \cup {m}
            BY <2>1, <3>1, ElementsOfAppend
        <3>3. Ascends(sessions'[j].pipeline)
            BY <2>1, <2>2, <3>1, AscendsMoves DEF PipelineInOrder
        <3>4. m <= messagesCame'
            BY <1>0, <1>1
        <3>5. QED
            BY <2>2, <3>2, <3>3, <3>4 DEF PipelineInOrder
    <2>4. CASE ~taken(j)
        <3>1. sessions'[j] = sessions[j]
            BY <1>4, <2>4
        <3>2. QED
            BY <2>1, <2>2, <2>4, <3>1 DEF PipelineInOrder
    <2>5. QED
        BY <2>3, <2>4
<1>10. ASSUME NEW s \in Sub \ Raw PROVE received'[s] = received[s] /\ received[s] \in Received /\ Len(received[s]) \in Nat
    <2>1. received[s] \in Received
        BY <1>0 DEF MessagesInv, GivenInOrder
    <2>2. received'[s] = received[s] \o <<>>
        BY DEF NodeReceives
    <2>3. QED
        BY <2>1, <2>2 DEF Received
<1>11. ASSUME NEW s \in Sub \ Raw PROVE GivenInOrder(s)'
    <2>1. GivenInOrder(s) /\ \A a \in 1 .. Len(received[s]) : received[s][a].msg \in Nat
        <3>1. \A a \in 1 .. Len(received[s]) : received[s][a] \in [msg : Nat, as : {"raw", "processed"}]
            BY <1>10, ItemIn DEF Received
        <3>2. QED
            BY <1>0, <3>1 DEF MessagesInv
    <2>2. \A a \in 1 .. Len(received[s]) : received[s][a].msg <= messagesCame' /\ received[s][a].msg < m
        BY <1>0, <1>1, <2>1 DEF GivenInOrder
    <2>3. ASSUME NEW j \in 1 .. Len(sessions), s \in sessions'[j].subs, NEW a \in 1 .. Len(received[s]),
                 NEW k \in Elements(sessions'[j].pipeline)
          PROVE  received[s][a].msg < k
        <3>1. s \in sessions[j].subs /\ (k \in Elements(sessions[j].pipeline) \/ k = m)
            BY <1>6, <1>9, <2>3
        <3>2. QED
            BY <2>1, <2>2, <3>1 DEF GivenInOrder
    <2>4. /\ \A a, b \in 1 .. Len(received[s]) : a < b => received[s][a].msg < received[s][b].msg
          /\ sub[s].at = "new" => received[s] = <<>>
        BY <2>1 DEF GivenInOrder
    <2>5. QED
        BY <1>0, <1>5, <1>10, <2>2, <2>3, <2>4 DEF GivenInOrder
<1>12. ASSUME NEW s \in Sub \ Raw PROVE SentInOrder(s)'
    <2> SUFFICES ASSUME NEW k \in Message, s \in sentTo'[k]
                 PROVE  /\ ~sub[s].late /\ sub[s].at \notin {"new", "adding"}
                        /\ sub[s].at = "active" => \/ \E a \in 1 .. Len(received[s]) : received[s][a].msg = k
                                                   \/ k \in errors[s]
                                                   \/ k \in Elements(sessions'[sub[s].session].pipeline)
        BY <1>0, <1>10 DEF SentInOrder
    <2>1. SubscriptionInOrder(s) /\ SentInOrder(s)
        BY <1>0 DEF ControlInv, MessagesInv
    <2>2. CASE k # m
        <3>1. s \in sentTo[k]
            BY <1>0, <1>1, <2>2 DEF NodeReceives
        <3>2. sub[s].at = "active" => sub[s].session \in 1 .. Len(sessions)
            BY <2>1 DEF SubscriptionInOrder
        <3>3. QED
            BY <1>9, <2>1, <3>1, <3>2 DEF SentInOrder
    <2>3. CASE k = m
        <3>1. sub[s].at = "active" /\ ~CameTooEarly(s)
            BY <1>0, <1>1, <2>3 DEF NodeReceives
        <3>2. /\ sub[s].session \in 1 .. Len(sessions) /\ s \in sessions[sub[s].session].subs /\ ~sub[s].late
              /\ sessions[sub[s].session].up /\ sessions[sub[s].session].step = "check" /\ ~sessions[sub[s].session].stopped
            BY <2>1, <3>1 DEF SubscriptionInOrder, CameTooEarly
        <3>3. sessions[sub[s].session].listeners > 0
            BY <1>0, <3>2 DEF ControlInv, SessionInOrder
        <3>4. taken(sub[s].session)
            BY <3>2, <3>3 DEF taken, InputCalls
        <3>5. QED
            BY <1>9, <2>3, <3>1, <3>2, <3>4
    <2>4. QED
        BY <2>2, <2>3
<1>13. QED
    BY <1>5, <1>7, <1>8, <1>9, <1>11, <1>12 DEF SubscriptionsInv, MessagesInv

LEMMA ProcessedKeeps == ASSUME SubscriptionsInv, NEW i \in 1 .. Len(sessions), Processed(i) PROVE SubscriptionsInv'
<1> DEFINE line == sessions[i].pipeline
           x == [sessions[i] EXCEPT !.pipeline = Tail(line)]
<1>0. /\ SubscriptionTypes /\ ControlInv /\ MessagesInv /\ Len(sessions) \in Nat /\ sessions[i] \in SubSessions
      /\ line \in Seq(Nat) /\ line # <<>> /\ UNCHANGED <<subSession, sub, messagesCame, sentTo, partState>>
      /\ SessionOwns(i) /\ PipelineInOrder(i) /\ messagesCame \in Nat /\ sessions[i].subs \subseteq Sub
    BY SessionTypes DEF SubscriptionsInv, SubscriptionTypes, Processed, ControlInv, MessagesInv, SubSessions
<1>1. PICK m \in Nat : m = Head(line)
    BY <1>0, HeadIsIn
<1>2. sessions' = [sessions EXCEPT ![i] = x]
    BY <1>0 DEF Processed, AfterFailure, SubscriptionTypes
<1>3. /\ x \in SubSessions /\ x.subs = sessions[i].subs /\ x.runs = sessions[i].runs /\ x.stopped = sessions[i].stopped
      /\ x.step = sessions[i].step /\ x.up = sessions[i].up /\ x.listeners = sessions[i].listeners
      /\ x.leaves = sessions[i].leaves /\ x.lostJoin = sessions[i].lostJoin /\ x.pipeline = Tail(line)
    <2>1. Tail(line) \in Seq(Nat)
        BY <1>0, HeadIsIn
    <2>2. x \in SubSessions
        BY <1>0, <2>1 DEF SubSessions
    <2>3. QED
        BY <1>0, <2>2 DEF SubSessions
<1>4. /\ sessions' \in Seq(SubSessions) /\ Len(sessions') = Len(sessions) /\ sessions'[i] = x
      /\ \A j \in 1 .. Len(sessions) : j # i => sessions'[j] = sessions[j]
    BY <1>0, <1>2, <1>3, OneSubSession
<1>5. /\ Elements(line) = {m} \cup Elements(Tail(line)) /\ Ascends(Tail(line))
      /\ \A k \in Elements(Tail(line)) : m < k
    BY <1>0, <1>1, ElementsOfTail, AscendsMoves DEF PipelineInOrder
<1>6. \/ received' = [s \in Sub |-> IF s \in sessions[i].subs THEN Append(received[s], [msg |-> m, as |-> "processed"])
                                    ELSE received[s]] /\ errors' = errors
      \/ errors' = [s \in Sub |-> IF s \in sessions[i].subs THEN errors[s] \cup {m} ELSE errors[s]] /\ received' = received
    BY <1>1 DEF Processed
<1> HIDE DEF line, x
<1>7. ControlInv'
    <2>1. \A j \in 1 .. Len(sessions) :
              /\ sessions'[j].subs = sessions[j].subs /\ sessions'[j].runs = sessions[j].runs
              /\ sessions'[j].stopped = sessions[j].stopped /\ sessions'[j].step = sessions[j].step
              /\ sessions'[j].up = sessions[j].up /\ sessions'[j].listeners = sessions[j].listeners
              /\ sessions'[j].leaves = sessions[j].leaves /\ sessions'[j].lostJoin = sessions[j].lostJoin
        BY <1>3, <1>4
    <2>2. QED
        BY <1>0, <1>4, <2>1, PipelineOnly
<1>8. SubscriptionTypes'
    BY <1>0, <1>4 DEF SubscriptionTypes
<1>9. ASSUME NEW j \in 1 .. Len(sessions) PROVE PipelineInOrder(j)'
    <2>1. PipelineInOrder(j)
        BY <1>0 DEF MessagesInv
    <2>2. CASE j = i
        BY <1>0, <1>3, <1>4, <1>5, <2>2 DEF PipelineInOrder, line
    <2>3. CASE j # i
        BY <1>0, <1>4, <2>1, <2>3 DEF PipelineInOrder
    <2>4. QED
        BY <2>2, <2>3
\* What is known of every subscription before and after the step.
<1>10. ASSUME NEW s \in Sub \ Raw
       PROVE  /\ GivenInOrder(s) /\ SentInOrder(s) /\ SubscriptionInOrder(s)
              /\ \A j \in 1 .. Len(sessions) : s \in sessions'[j].subs =>
                    s \in sessions[j].subs /\ sub[s].session = j /\ sub[s].at # "new"
              /\ \A j \in 1 .. Len(sessions) : Elements(sessions'[j].pipeline) \subseteq Elements(sessions[j].pipeline)
              /\ \A j \in 1 .. Len(sessions) : j # i => sessions'[j].pipeline = sessions[j].pipeline
              /\ sessions'[i].pipeline = Tail(line) /\ Elements(sessions[i].pipeline) = {m} \cup Elements(Tail(line))
    <2>1. /\ GivenInOrder(s) /\ SentInOrder(s) /\ SubscriptionInOrder(s)
          /\ \A j \in 1 .. Len(sessions) : sessions'[j].subs = sessions[j].subs /\ SessionOwns(j)
        BY <1>0, <1>3, <1>4 DEF MessagesInv, ControlInv
    <2>2. /\ \A j \in 1 .. Len(sessions) : Elements(sessions'[j].pipeline) \subseteq Elements(sessions[j].pipeline)
          /\ \A j \in 1 .. Len(sessions) : j # i => sessions'[j].pipeline = sessions[j].pipeline
          /\ sessions'[i].pipeline = Tail(line) /\ Elements(sessions[i].pipeline) = {m} \cup Elements(Tail(line))
        BY <1>3, <1>4, <1>5 DEF line
    <2>3. QED
        BY <2>1, <2>2 DEF SessionOwns
<1>11. ASSUME NEW s \in Sub \ Raw PROVE GivenInOrder(s)' /\ SentInOrder(s)'
    <2>0. /\ received[s] \in Received
          /\ \A a, b \in 1 .. Len(received[s]) : a < b => received[s][a].msg < received[s][b].msg
          /\ \A a \in 1 .. Len(received[s]) : received[s][a].msg <= messagesCame
          /\ sub[s].at = "new" => received[s] = <<>>
          /\ \A j \in 1 .. Len(sessions) : s \in sessions[j].subs =>
                 \A a \in 1 .. Len(received[s]), k \in Elements(sessions[j].pipeline) : received[s][a].msg < k
        BY <1>10 DEF GivenInOrder
    <2>1. CASE received'[s] = received[s]
        <3>1. GivenInOrder(s)'
            BY <1>0, <1>4, <1>10, <2>0, <2>1 DEF GivenInOrder
        <3>2. SentInOrder(s)'
            <4> SUFFICES ASSUME NEW k \in Message, s \in sentTo[k]
                         PROVE  /\ ~sub[s].late /\ sub[s].at \notin {"new", "adding"}
                                /\ sub[s].at = "active" => \/ \E a \in 1 .. Len(received[s]) : received[s][a].msg = k
                                                           \/ k \in errors'[s]
                                                           \/ k \in Elements(sessions'[sub[s].session].pipeline)
                BY <1>0, <2>1 DEF SentInOrder
            <4>1. /\ ~sub[s].late /\ sub[s].at \notin {"new", "adding"}
                  /\ sub[s].at = "active" => \/ \E a \in 1 .. Len(received[s]) : received[s][a].msg = k
                                             \/ k \in errors[s]
                                             \/ k \in Elements(sessions[sub[s].session].pipeline)
                BY <1>10 DEF SentInOrder
            <4>2. errors[s] \subseteq errors'[s]
                BY <1>6
            <4>3. ASSUME sub[s].at = "active", k \in Elements(sessions[sub[s].session].pipeline)
                  PROVE  k \in errors'[s] \/ k \in Elements(sessions'[sub[s].session].pipeline)
                <5>1. sub[s].session \in 1 .. Len(sessions) /\ s \in sessions[sub[s].session].subs
                    BY <1>10, <4>3 DEF SubscriptionInOrder
                <5>2. CASE sub[s].session # i
                    BY <1>10, <4>3, <5>1, <5>2
                <5>3. CASE sub[s].session = i /\ k # m
                    BY <1>10, <4>3, <5>3
                <5>4. CASE sub[s].session = i /\ k = m
                    <6>1. s \in sessions[i].subs /\ received'[s] # Append(received[s], [msg |-> m, as |-> "processed"])
                        BY <2>0, <2>1, <5>1, <5>4 DEF Received
                    <6>2. QED
                        BY <1>6, <5>4, <6>1
                <5>5. QED
                    BY <5>2, <5>3, <5>4
            <4>4. QED
                BY <4>1, <4>2, <4>3
        <3>3. QED
            BY <3>1, <3>2
    <2>2. CASE received'[s] # received[s]
        <3>1. /\ s \in sessions[i].subs /\ received'[s] = Append(received[s], [msg |-> m, as |-> "processed"])
              /\ errors' = errors
            BY <1>6, <2>2
        <3>2. m \in Elements(sessions[i].pipeline) /\ m <= messagesCame
            BY <1>0, <1>10 DEF PipelineInOrder
        <3>3. /\ received'[s] \in Received /\ Len(received[s]) \in Nat /\ Len(received'[s]) = Len(received[s]) + 1
              /\ \A a \in 1 .. Len(received'[s]) :
                    (a \in 1 .. Len(received[s]) /\ received'[s][a] = received[s][a]) \/ a = Len(received[s]) + 1
              /\ \A a \in 1 .. Len(received[s]) : received'[s][a] = received[s][a] /\ a \in 1 .. Len(received'[s])
              /\ received'[s][Len(received[s]) + 1].msg = m /\ Len(received[s]) + 1 \in 1 .. Len(received'[s])
              /\ \A a, b \in 1 .. Len(received'[s]) : a < b => received'[s][a].msg < received'[s][b].msg
            <4>1. \A a \in 1 .. Len(received[s]) : received[s][a].msg < m
                BY <2>0, <3>1, <3>2
            <4>2. PICK got \in Received : got = received[s]
                BY <2>0
            <4>3. PICK new : new = received'[s]
                OBVIOUS
            <4>4. \A a, b \in 1 .. Len(got) : a < b => got[a].msg < got[b].msg
                BY <2>0, <4>2
            <4>5. \A a \in 1 .. Len(got) : got[a].msg < m
                BY <4>1, <4>2
            <4>6. new = Append(got, [msg |-> m, as |-> "processed"])
                BY <3>1, <4>2, <4>3
            <4>7. m \in Nat
                BY <1>0
            <4>8. /\ new \in Received /\ Len(got) \in Nat /\ Len(new) = Len(got) + 1
                  /\ \A a \in 1 .. Len(got) : new[a] = got[a] /\ a \in 1 .. Len(new)
                  /\ new[Len(got) + 1] = [msg |-> m, as |-> "processed"] /\ Len(got) + 1 \in 1 .. Len(new)
                <5>1. [msg |-> m, as |-> "processed"] \in [msg : Nat, as : {"raw", "processed"}]
                    BY <4>7
                <5>2. QED
                    BY <4>6, <5>1 DEF Received
            <4>9. \A a \in 1 .. Len(new) : (a \in 1 .. Len(got) /\ new[a] = got[a]) \/ a = Len(got) + 1
                BY <4>8
            <4>10. ASSUME NEW a \in 1 .. Len(new), NEW b \in 1 .. Len(new), a < b PROVE new[a].msg < new[b].msg
                <5>1. a \in 1 .. Len(got) /\ new[a] = got[a]
                    BY <4>8, <4>9, <4>10
                <5>2. CASE b \in 1 .. Len(got) /\ new[b] = got[b]
                    BY <4>4, <4>10, <5>1, <5>2
                <5>3. CASE b = Len(got) + 1
                    BY <4>5, <4>8, <5>1, <5>3
                <5>4. QED
                    BY <4>9, <5>2, <5>3
            <4>11. QED
                BY <4>2, <4>3, <4>8, <4>9, <4>10
        <3>4. sub[s].at # "new" /\ sub[s].session = i
            BY <1>0, <3>1 DEF SessionOwns
        <3>5. GivenInOrder(s)'
            <4>1. \A a \in 1 .. Len(received'[s]) : received'[s][a].msg <= messagesCame
                BY <2>0, <3>2, <3>3
            <4>2. ASSUME NEW j \in 1 .. Len(sessions), s \in sessions'[j].subs, NEW a \in 1 .. Len(received'[s]),
                         NEW k \in Elements(sessions'[j].pipeline)
                  PROVE  received'[s][a].msg < k
                <5>1. j = i /\ k \in Elements(Tail(line)) /\ k \in Elements(sessions[i].pipeline)
                    BY <1>10, <3>4, <4>2
                <5>2. CASE a \in 1 .. Len(received[s]) /\ received'[s][a] = received[s][a]
                    BY <2>0, <3>1, <5>1, <5>2
                <5>3. CASE a = Len(received[s]) + 1
                    BY <1>5, <3>3, <5>1, <5>3
                <5>4. QED
                    BY <3>3, <5>2, <5>3
            <4>3. QED
                BY <1>0, <1>4, <3>3, <3>4, <4>1, <4>2 DEF GivenInOrder
        <3>6. SentInOrder(s)'
            <4> SUFFICES ASSUME NEW k \in Message, s \in sentTo[k]
                         PROVE  /\ ~sub[s].late /\ sub[s].at \notin {"new", "adding"}
                                /\ sub[s].at = "active" => \/ \E a \in 1 .. Len(received'[s]) : received'[s][a].msg = k
                                                           \/ k \in errors[s]
                                                           \/ k \in Elements(sessions'[sub[s].session].pipeline)
                BY <1>0, <3>1 DEF SentInOrder
            <4>1. /\ ~sub[s].late /\ sub[s].at \notin {"new", "adding"}
                  /\ sub[s].at = "active" => \/ \E a \in 1 .. Len(received[s]) : received[s][a].msg = k
                                             \/ k \in errors[s]
                                             \/ k \in Elements(sessions[i].pipeline)
                BY <1>10, <3>4 DEF SentInOrder
            <4>2. k \in Elements(sessions[i].pipeline) => k = m \/ k \in Elements(sessions'[i].pipeline)
                BY <1>10
            <4>3. QED
                BY <3>3, <3>4, <4>1, <4>2
        <3>7. QED
            BY <3>5, <3>6
    <2>3. QED
        BY <2>1, <2>2
<1>12. QED
    BY <1>4, <1>7, <1>8, <1>9, <1>11 DEF SubscriptionsInv, MessagesInv

LEMMA SubscriptionsBegin == ASSUME SubscriptionsInit PROVE SubscriptionsInv
<1>1. /\ sessions = <<>> /\ Len(sessions) = 0 /\ 1 .. Len(sessions) = {} /\ sessions \in Seq(SubSessions)
    BY DEF SubscriptionsInit
<1>2. \A s \in Sub : sub[s] \in SubStates /\ sub[s].at = "new" /\ received[s] = <<>>
    BY DEF SubscriptionsInit, SubStates
<1>3. SubscriptionTypes
    BY <1>1, <1>2 DEF SubscriptionTypes, SubscriptionsInit
<1>4. ControlInv
    BY <1>1, <1>2 DEF ControlInv, SubscriptionInOrder, SubscriptionsInit
<1>5. <<>> \in Received /\ 1 .. Len(<<>>) = {}
    BY DEF Received
<1>6. MessagesInv
    BY <1>1, <1>2, <1>5 DEF MessagesInv, GivenInOrder, SentInOrder, SubscriptionsInit
<1>7. QED
    BY <1>3, <1>4, <1>6 DEF SubscriptionsInv

LEMMA SubscriptionsInductive == ASSUME SubscriptionsInv, [SubscriptionsNext]_subscriptionVars PROVE SubscriptionsInv'
<1>1. ASSUME NEW s \in Sub, AddSubscription(s) \/ Unsubscribe(s) \/ IterationEnds(s) \/ SubscriptionEnded(s) PROVE SubscriptionsInv'
    BY <1>1, AddSubscriptionKeeps, BeginRemoveKeeps, SubscriptionEndedKeeps DEF Unsubscribe, IterationEnds
<1>2. ASSUME NEW i \in 1 .. Len(sessions), StepUp(i) \/ StepDown(i) \/ PipelineEnds(i) \/ LeaveEnds(i) \/ QueuedNextEnds(i) \/ Processed(i)
      PROVE  SubscriptionsInv'
    BY <1>2, StepUpKeeps, StepDownKeeps, PipelineEndsKeeps, LeaveEndsKeeps, QueuedNextEndsKeeps, ProcessedKeeps
<1>3. ASSUME NEW i \in 1 .. Len(sessions), NEW fails \in BOOLEAN, JoinEnds(i, fails) PROVE SubscriptionsInv'
    BY <1>3, JoinEndsKeeps
<1>4. CASE NodeReceives
    BY <1>4, NodeReceivesKeeps
<1>5. CASE UNCHANGED subscriptionVars
    BY <1>5 DEF subscriptionVars, SubscriptionsInv, SubscriptionTypes, ControlInv, MessagesInv, SessionInOrder, SessionOwns,
        SubscriptionInOrder, LeaveUnderWay, PipelineInOrder, GivenInOrder, SentInOrder
<1>6. QED
    BY <1>1, <1>2, <1>3, <1>4, <1>5 DEF SubscriptionsNext

(***************************************************************************)
(* subscribe() keeps its promise, for any subscriptions, sessions and      *)
(* messages: whoever came when no leave was under way is connected until   *)
(* it ends, and is given every message, or its error, once and in order.   *)
(***************************************************************************)
THEOREM SubscriptionsAreServedAlways == SubscriptionsSpec => []SubscriptionsAreServed
<1>1. ASSUME SubscriptionsInv PROVE SubscriptionsAreServed
    <2>1. ActiveIsConnected
        <3> SUFFICES ASSUME NEW s \in Sub, sub[s].at = "active", ~CameTooEarly(s)
                     PROVE  /\ sub[s].session = subSession
                            /\ LET theSession == sessions[subSession]
                               IN  s \in theSession.subs /\ theSession.listeners > 0 /\ theSession.up /\ ~theSession.stopped
                            /\ partState = "in"
            BY DEF ActiveIsConnected
        <3>1. SubscriptionInOrder(s)
            BY <1>1 DEF SubscriptionsInv, ControlInv
        <3>2. /\ sub[s].session \in 1 .. Len(sessions) /\ s \in sessions[sub[s].session].subs
              /\ sessions[sub[s].session].up /\ sessions[sub[s].session].step = "check" /\ ~sessions[sub[s].session].stopped
              /\ ~sessions[sub[s].session].lostJoin
            BY <3>1 DEF SubscriptionInOrder, CameTooEarly
        <3>3. SessionInOrder(sub[s].session)
            BY <1>1, <3>2 DEF SubscriptionsInv, ControlInv
        <3>4. QED
            BY <3>2, <3>3 DEF SessionInOrder
    <2>2. EveryMessageGiven
        <3> SUFFICES ASSUME NEW s \in Sub \ Raw
                     PROVE  /\ \A i \in 1 .. Len(received[s]) - 1 : received[s][i].msg < received[s][i + 1].msg
                            /\ sub[s].at = "active" =>
                                 \A m \in Message : s \in sentTo[m] =>
                                     \/ \E i \in 1 .. Len(received[s]) : received[s][i].msg = m
                                     \/ m \in errors[s]
                                     \/ Contains(sessions[sub[s].session].pipeline, m)
            BY DEF EveryMessageGiven
        <3>1. GivenInOrder(s) /\ SentInOrder(s) /\ received[s] \in Received
            BY <1>1 DEF SubscriptionsInv, MessagesInv, GivenInOrder
        <3>2. Len(received[s]) \in Nat
            BY <3>1 DEF Received
        <3>3. ASSUME NEW i \in 1 .. Len(received[s]) - 1 PROVE received[s][i].msg < received[s][i + 1].msg
            <4>1. i \in 1 .. Len(received[s]) /\ i + 1 \in 1 .. Len(received[s]) /\ i < i + 1
                BY <3>2
            <4>2. QED
                BY <3>1, <4>1 DEF GivenInOrder
        <3>4. \A q, m : m \in Elements(q) => Contains(q, m)
            BY DEF Elements, Contains
        <3>5. QED
            BY <3>1, <3>3, <3>4 DEF SentInOrder
    <2>3. QED
        BY <2>1, <2>2 DEF SubscriptionsAreServed
<1>2. QED
    BY <1>1, SubscriptionsBegin, SubscriptionsInductive, PTL DEF SubscriptionsSpec

=============================================================================
