-------------------------- MODULE ChainEventPoller --------------------------
(***************************************************************************)
(* ChainEventPoller: the listeners of contract events share one polling    *)
(* session, which asks the chain's RPC providers for the logs since        *)
(* fromBlock.  Providers lag behind the chain by different amounts; any    *)
(* request may fail; listeners come and go while a request is in flight,   *)
(* and the last one to go ends the session.  The order in which providers  *)
(* are tried is any order, which includes the orders of ProviderHealth.    *)
(* The second part of the module is FailoverProvider with ProviderHealth,  *)
(* a specification of its own.                                             *)
(***************************************************************************)
EXTENDS Naturals, FiniteSets, Sequences, FiniteSetsExt

CONSTANTS
    Listeners, Providers, NoProvider,
    Kind(_),            \* the <<address, topic>> a listener listens to
    Chains,             \* chains: the sets of <<address, topic>> of the logs of each block
    FromBlockThreshold, \* POLLS_SINCE_LAST_FROM_BLOCK_UPDATE_THRESHOLD
    MaxBlocks, MaxPollSessions, MaxListens, MaxPollFaults

ASSUME ChainEventPollerAssumption ==
    /\ Providers # {} /\ IsFiniteSet(Providers) /\ FromBlockThreshold \in Nat
    /\ \A l \in Listeners : Kind(l) = <<Kind(l)[1], Kind(l)[2]>>
    /\ MaxBlocks \in Nat /\ MaxPollSessions \in Nat /\ MaxListens \in Nat /\ MaxPollFaults \in Nat
    /\ \A c \in Chains : DOMAIN c = 1 .. MaxBlocks

VARIABLES
    logs,       \* the chain, past and to come: the sets of logs of its blocks
    head,       \* how many blocks of it each provider knows
    listeners,
    session,    \* the polling sessions started so far
    listens, pollFaults,   \* how many listeners were added, how many requests failed
    delivered,  \* history: how often each listener got the log of each block
    coveredFrom \* history: fromBlock of the first filter made with the listener

pollerVars == <<logs, head, listeners, session, listens, pollFaults, delivered, coveredFrom>>

Blocks == 1 .. MaxBlocks
NotCovered == MaxBlocks + 2

PollerTypeOK ==
    /\ head \in [Providers -> 0 .. MaxBlocks]
    /\ listeners \subseteq Listeners
    /\ Len(session) <= MaxPollSessions
    /\ \A i \in 1 .. Len(session) :
          /\ session[i].at \in {"blockNumber", "idle", "latest", "logs", "ended"}
          /\ session[i].polls \in 0 .. FromBlockThreshold
          /\ session[i].at \in {"latest", "logs"} => session[i].asked \in session[i].queue

PollerInit ==
    /\ logs \in Chains
    /\ head = [p \in Providers |-> 0]
    /\ listeners = {} /\ session = << >> /\ pollFaults = 0 /\ listens = 0
    /\ delivered = [l \in Listeners |-> [b \in Blocks |-> 0]]
    /\ coveredFrom = [l \in Listeners |-> NotCovered]

ProviderSees(p) ==
    /\ head[p] < MaxBlocks
    /\ head' = [head EXCEPT ![p] = @ + 1]
    /\ UNCHANGED <<logs, listeners, session, listens, pollFaults, delivered, coveredFrom>>
-----------------------------------------------------------------------------
(* on(): the first listener starts a session, whose first task is the      *)
(* query of the block number, repeated until a provider answers.           *)
NewPollSession ==
    [at |-> "blockNumber", aborted |-> FALSE, fromBlock |-> 0, newFromBlock |-> 0,
     polls |-> 0, queue |-> {}, asked |-> NoProvider, filter |-> {}]

SessionEnded == [NewPollSession EXCEPT !.at = "ended", !.aborted = TRUE]

On(l) ==
    /\ l \notin listeners
    /\ listens < MaxListens /\ listens' = listens + 1
    /\ listeners' = listeners \cup {l}
    /\ delivered' = [delivered EXCEPT ![l] = [b \in Blocks |-> 0]]
    /\ coveredFrom' = [coveredFrom EXCEPT ![l] = NotCovered]
    /\ \/ listeners # {} /\ UNCHANGED session
       \/ /\ listeners = {} /\ Len(session) < MaxPollSessions
          /\ session' = Append(session, NewPollSession)
    /\ UNCHANGED <<logs, head, pollFaults>>

(* off(): the last listener aborts the session: its timer is cleared, a    *)
(* request in flight is not.                                               *)
Off(l) ==
    /\ l \in listeners
    /\ listeners' = listeners \ {l}
    /\ LET last == Len(session) IN
       session' = IF listeners' # {} THEN session
                  ELSE [session EXCEPT ![last] = IF @.at = "idle" THEN SessionEnded
                                                 ELSE [@ EXCEPT !.aborted = TRUE]]
    /\ UNCHANGED <<logs, head, listens, pollFaults, delivered, coveredFrom>>

Put(i, s) == session' = [session EXCEPT ![i] = s]

FirstFromBlock(i, p) ==
    /\ session[i].at = "blockNumber"
    /\ Put(i, IF session[i].aborted THEN SessionEnded
              ELSE [session[i] EXCEPT !.fromBlock = head[p], !.at = "idle"])
    /\ UNCHANGED <<logs, head, listeners, listens, pollFaults, delivered, coveredFrom>>
-----------------------------------------------------------------------------
(* The filter is a product: any of the addresses with any of the topics.   *)
FilterOf(ls) == {<<Kind(a)[1], Kind(t)[2]>> : a \in ls, t \in ls}

\* getLogs with the filter of the present listeners
AskLogs(i, s) ==
    /\ Put(i, [s EXCEPT !.at = "logs", !.filter = FilterOf(listeners)])
    /\ coveredFrom' = [l \in Listeners |->
                          IF l \in listeners /\ coveredFrom[l] = NotCovered /\ ~s.aborted
                          THEN s.fromBlock ELSE coveredFrom[l]]

(* The task of withProvider on the next provider of the queue              *)
AskProvider(i, s, p) ==
    \/ /\ s.polls >= FromBlockThreshold
       /\ Put(i, [s EXCEPT !.at = "latest", !.asked = p])
       /\ UNCHANGED coveredFrom
    \/ /\ s.polls < FromBlockThreshold
       /\ AskLogs(i, [s EXCEPT !.asked = p])

PollTimer(i) ==
    /\ session[i].at = "idle"
    /\ \E p \in Providers :
          AskProvider(i, [session[i] EXCEPT !.newFromBlock = 0, !.queue = Providers], p)
    /\ UNCHANGED <<logs, head, listeners, listens, pollFaults, delivered>>

\* Seeded fault: the logs are asked from any provider of the queue.
LatestAnsweredAnyProvider(i) ==
    LET s == [session[i] EXCEPT !.newFromBlock = head[session[i].asked] + 1] IN
    /\ session[i].at = "latest"
    /\ \E p \in s.queue :
       \/ s.aborted /\ Put(i, SessionEnded) /\ UNCHANGED coveredFrom
       \/ ~s.aborted /\ AskLogs(i, [s EXCEPT !.asked = p])
    /\ UNCHANGED <<logs, head, listeners, listens, pollFaults, delivered>>

(* getBlockNumber answers; the same provider is asked for the logs.        *)
LatestAnswered(i) ==
    LET s == [session[i] EXCEPT !.newFromBlock = head[session[i].asked] + 1] IN
    /\ session[i].at = "latest"
    /\ \/ s.aborted /\ Put(i, SessionEnded) /\ UNCHANGED coveredFrom
       \/ ~s.aborted /\ AskLogs(i, s)
    /\ UNCHANGED <<logs, head, listeners, listens, pollFaults, delivered>>

\* The end of a task: the session waits for its timer, unless aborted.
NextPoll(s, forward) ==
    IF s.aborted THEN SessionEnded
    ELSE [NewPollSession EXCEPT !.at = "idle",
             !.fromBlock = IF forward THEN s.newFromBlock ELSE s.fromBlock,
             !.polls = IF forward THEN 0 ELSE Min({s.polls + 1, FromBlockThreshold})]

(* A provider's failure moves on to the next one of the queue, another     *)
(* error ends the poll; without logs fromBlock stays.                      *)
RequestFails(i) ==
    LET left == session[i].queue \ {session[i].asked}
        s == [session[i] EXCEPT !.queue = left] IN
    /\ pollFaults < MaxPollFaults /\ pollFaults' = pollFaults + 1
    /\ session[i].at \in {"latest", "logs"}
    /\ \/ \E p \in left : AskProvider(i, s, p)
       \/ Put(i, NextPoll(s, FALSE)) /\ UNCHANGED coveredFrom
    /\ UNCHANGED <<logs, head, listeners, listens, delivered>>

LogsFound(s) ==
    {e \in (s.fromBlock .. head[s.asked]) \X s.filter : e[1] \in Blocks /\ e[2] \in logs[e[1]]}

(* getLogs answers: the logs somebody listens to now are the events; each  *)
(* goes to all its listeners, and fromBlock moves past the last of them.   *)
LogsAnswered(i) ==
    LET events == {e \in LogsFound(session[i]) : \E l \in listeners : Kind(l) = e[2]}
        s == [session[i] EXCEPT !.newFromBlock = IF events = {} THEN @ ELSE Max({e[1] : e \in events}) + 1] IN
    /\ session[i].at = "logs"
    /\ \/ s.aborted /\ Put(i, SessionEnded) /\ UNCHANGED delivered
       \/ /\ ~s.aborted
          /\ Put(i, NextPoll(s, s.newFromBlock > s.fromBlock))
          /\ delivered' = [l \in Listeners |-> [b \in Blocks |->
                delivered[l][b] + (IF l \in listeners /\ <<b, Kind(l)>> \in events THEN 1 ELSE 0)]]
    /\ UNCHANGED <<logs, head, listeners, listens, pollFaults, coveredFrom>>

PollerNext ==
    \/ \E p \in Providers : ProviderSees(p)
    \/ \E l \in Listeners : On(l) \/ Off(l)
    \/ \E i \in 1 .. Len(session) :
          \/ \E p \in Providers : FirstFromBlock(i, p)
          \/ PollTimer(i) \/ LatestAnswered(i) \/ LogsAnswered(i) \/ RequestFails(i)

PollerSpec == PollerInit /\ [][PollerNext]_pollerVars
-----------------------------------------------------------------------------
(* No event is lost or repeated: from the fromBlock of the first filter    *)
(* that was made with a listener, it gets every log of its kind that       *)
(* fromBlock has moved past exactly once, and no log twice, whichever      *)
(* providers lag, fail and take over, and however sessions overlap.        *)
EveryEventOnce ==
    \A l \in listeners, b \in Blocks :
       /\ delivered[l][b] <= 1
       /\ /\ Kind(l) \in logs[b]
          /\ coveredFrom[l] <= b /\ b < session[Len(session)].fromBlock
          => delivered[l][b] = 1
-----------------------------------------------------------------------------
(* FailoverProvider: all other calls to the chain.  With quorum 1 the      *)
(* first answer wins, a revert included: the next provider is asked when   *)
(* one fails or is slow, and the slow one may still answer.  (Broadcasts   *)
(* and larger quorums go to the provider of ethers.)                       *)
CONSTANTS
    Calls, AttemptTimeout, CallTimeout,
    FAILURES_TO_SET_ASIDE, FIRST_COOLDOWN, MAX_COOLDOWN,
    LastFailoverTime, MaxPollRecords

\* A shorter jsonRpcAttemptTimeout is demanded by createStrictConfig.
ASSUME FailoverAssumption ==
    /\ AttemptTimeout \in Nat \ {0} /\ CallTimeout \in Nat /\ AttemptTimeout < CallTimeout
    /\ FAILURES_TO_SET_ASIDE \in Nat \ {0}
    /\ FIRST_COOLDOWN \in Nat \ {0} /\ MAX_COOLDOWN \in Nat /\ FIRST_COOLDOWN <= MAX_COOLDOWN
    /\ LastFailoverTime \in Nat /\ MaxPollRecords \in Nat

VARIABLES
    failoverTime,
    health,      \* states of ProviderHealth, shared with the poller
    call,        \* performWithFailover: how it stands, the queue, its timers
    attempt,     \* the attempt of each call at each provider
    pollRecords, \* how often the poller recorded an outcome
    failedInRow  \* history: the attempts in a row that were judged failed

failoverVars == <<failoverTime, health, call, attempt, pollRecords, failedInRow>>

NeverFires == LastFailoverTime + CallTimeout + 1
NotCalled == [at |-> "none", queue |-> << >>, timer |-> NeverFires, started |-> 0]
NotAttempted == [at |-> "none", slowAt |-> NeverFires]

FailoverInit ==
    /\ failoverTime = 0 /\ pollRecords = 0
    /\ health = [p \in Providers |-> [failures |-> 0, cooldown |-> 0, asideUntil |-> 0]]
    /\ call = [c \in Calls |-> NotCalled]
    /\ attempt = [c \in Calls |-> [p \in Providers |-> NotAttempted]]
    /\ failedInRow = [p \in Providers |-> 0]

(* Healthy providers in any order, then the others, soonest back first     *)
Orders ==
    LET Aside(p) == health[p].asideUntil > failoverTime IN
    {q \in [1 .. Cardinality(Providers) -> Providers] :
        \A i, j \in DOMAIN q : i < j =>
           /\ q[i] # q[j]
           /\ Aside(q[i]) => Aside(q[j]) /\ health[q[i]].asideUntil <= health[q[j]].asideUntil}

RecordSuccess(p) ==
    /\ health' = [health EXCEPT ![p] = [failures |-> 0, cooldown |-> 0, asideUntil |-> 0]]
    /\ failedInRow' = [failedInRow EXCEPT ![p] = 0]

\* Failures of a provider that is already set aside do not count.
RecordFailure(p) ==
    LET h == health[p]
        cooldown == IF h.cooldown = 0 THEN FIRST_COOLDOWN ELSE Min({h.cooldown * 2, MAX_COOLDOWN}) IN
    /\ failedInRow' = [failedInRow EXCEPT ![p] = @ + 1]
    /\ health' = [health EXCEPT ![p] =
          IF h.asideUntil > failoverTime THEN h
          ELSE IF h.failures + 1 < FAILURES_TO_SET_ASIDE THEN [h EXCEPT !.failures = h.failures + 1]
          ELSE [failures |-> h.failures + 1, cooldown |-> cooldown, asideUntil |-> failoverTime + cooldown]]

\* judgeAttempt: only the first of the answer and the slow timer counts.
JudgeAttempt(c, p, answered) ==
    \/ attempt[c][p].slowAt = NeverFires /\ UNCHANGED <<health, failedInRow>>
    \/ attempt[c][p].slowAt # NeverFires /\ answered /\ RecordSuccess(p)
    \/ attempt[c][p].slowAt # NeverFires /\ ~answered /\ RecordFailure(p)

(* launchNext() of a call that is not settled: what becomes of the call    *)
(* and of its attempts                                                     *)
CallLaunched(k) ==
    IF k.queue = << >> THEN [at |-> k.at, queue |-> << >>, timer |-> NeverFires, started |-> k.started]
    ELSE [at |-> k.at, queue |-> Tail(k.queue), timer |-> failoverTime + AttemptTimeout, started |-> k.started]

AttemptsLaunched(k, attempts) ==
    IF k.queue = << >> THEN attempts
    ELSE [attempts EXCEPT ![Head(k.queue)] = [at |-> "pending", slowAt |-> failoverTime + AttemptTimeout]]

Settled(outcome) == [at |-> outcome, queue |-> << >>, timer |-> NeverFires, started |-> 0]

PerformWithFailover(c) ==
    /\ call[c].at = "none"
    /\ \E q \in Orders :
       LET k == [at |-> "waiting", queue |-> q, timer |-> NeverFires, started |-> failoverTime] IN
       /\ call' = [call EXCEPT ![c] = CallLaunched(k)]
       /\ attempt' = [attempt EXCEPT ![c] = AttemptsLaunched(k, @)]
    /\ UNCHANGED <<failoverTime, health, pollRecords, failedInRow>>

\* An attempt is judged once: its slow timer is cleared with the first verdict.
AttemptEnds(c, p, how) == [attempt[c] EXCEPT ![p] = [at |-> how, slowAt |-> NeverFires]]

(* A result, or an error that is an answer: the call ends with it, if it   *)
(* has not ended before.                                                   *)
ProviderAnswers(c, p) ==
    /\ attempt[c][p].at = "pending"
    /\ JudgeAttempt(c, p, TRUE)
    /\ attempt' = [attempt EXCEPT ![c] = AttemptEnds(c, p, "answered")]
    /\ call' = IF call[c].at = "waiting" THEN [call EXCEPT ![c] = Settled("answered")] ELSE call
    /\ UNCHANGED <<failoverTime, pollRecords>>

\* Seeded fault: the next provider is asked only when no attempt is pending any more.
ProviderFailsAlone(c, p) ==
    LET attempts == AttemptEnds(c, p, "failed")
        pending == {o \in Providers : attempts[o].at = "pending"} IN
    /\ attempt[c][p].at = "pending"
    /\ JudgeAttempt(c, p, FALSE)
    /\ \/ /\ call[c].at = "waiting" /\ pending = {}
          /\ call' = [call EXCEPT ![c] = Settled("failed")]
          /\ attempt' = [attempt EXCEPT ![c] = attempts]
       \/ /\ call[c].at # "waiting" \/ pending # {}
          /\ attempt' = [attempt EXCEPT ![c] = attempts]
          /\ UNCHANGED call
    /\ UNCHANGED <<failoverTime, pollRecords>>

(* A failure of the provider: the next one is asked at once; the call      *)
(* fails with the last of them.                                            *)
ProviderFails(c, p) ==
    LET attempts == AttemptEnds(c, p, "failed")
        pending == {o \in Providers : attempts[o].at = "pending"} IN
    /\ attempt[c][p].at = "pending"
    /\ JudgeAttempt(c, p, FALSE)
    /\ \/ /\ call[c].at = "waiting" /\ call[c].queue # << >>
          /\ call' = [call EXCEPT ![c] = CallLaunched(@)]
          /\ attempt' = [attempt EXCEPT ![c] = AttemptsLaunched(call[c], attempts)]
       \/ /\ call[c].at = "waiting" /\ call[c].queue = << >> /\ pending = {}
          /\ call' = [call EXCEPT ![c] = Settled("failed")]
          /\ attempt' = [attempt EXCEPT ![c] = attempts]
       \/ /\ call[c].at # "waiting" \/ (call[c].queue = << >> /\ pending # {})
          /\ attempt' = [attempt EXCEPT ![c] = attempts]
          /\ UNCHANGED call
    /\ UNCHANGED <<failoverTime, pollRecords>>

AttemptTimer(c) ==
    /\ call[c].timer = failoverTime
    /\ call' = [call EXCEPT ![c] = CallLaunched(@)]
    /\ attempt' = [attempt EXCEPT ![c] = AttemptsLaunched(call[c], @)]
    /\ UNCHANGED <<failoverTime, health, pollRecords, failedInRow>>

SlowTimer(c, p) ==
    /\ attempt[c][p].slowAt = failoverTime
    /\ JudgeAttempt(c, p, FALSE)
    /\ attempt' = [attempt EXCEPT ![c] = AttemptEnds(c, p, attempt[c][p].at)]
    /\ UNCHANGED <<failoverTime, call, pollRecords>>

CallTimer(c) ==
    /\ call[c].at = "waiting" /\ call[c].started + CallTimeout = failoverTime
    /\ call' = [call EXCEPT ![c] = Settled("timed out")]
    /\ UNCHANGED <<failoverTime, health, attempt, pollRecords, failedInRow>>

\* withProvider() of the poller judges its providers in the same records.
PollerRecords(p) ==
    /\ pollRecords < MaxPollRecords /\ pollRecords' = pollRecords + 1
    /\ RecordSuccess(p) \/ RecordFailure(p)
    /\ UNCHANGED <<failoverTime, call, attempt>>

\* Time passes a timer only when it has fired.
FailoverTick ==
    /\ failoverTime < LastFailoverTime /\ failoverTime' = failoverTime + 1
    /\ \A c \in Calls :
          /\ call[c].timer # failoverTime
          /\ call[c].at = "waiting" => call[c].started + CallTimeout # failoverTime
          /\ \A p \in Providers : attempt[c][p].slowAt # failoverTime
    /\ UNCHANGED <<health, call, attempt, pollRecords, failedInRow>>

FailoverNext ==
    \/ \E c \in Calls :
          \/ PerformWithFailover(c) \/ AttemptTimer(c) \/ CallTimer(c)
          \/ \E p \in Providers : ProviderAnswers(c, p) \/ ProviderFails(c, p) \/ SlowTimer(c, p)
    \/ \E p \in Providers : PollerRecords(p)
    \/ FailoverTick

FailoverSpec == FailoverInit /\ [][FailoverNext]_failoverVars

Asked(c) == {p \in Providers : attempt[c][p].at # "none"}

(* A slow or failing provider does not decide a call: while it waits, some *)
(* provider still owes an answer, and one more was asked for every attempt *)
(* timeout that has passed; it fails early only after every provider has   *)
(* failed.                                                                 *)
NoProviderDecides ==
    \A c \in Calls :
       /\ call[c].at = "waiting" =>
             /\ \E p \in Providers : attempt[c][p].at = "pending"
             /\ \A p \in Providers : attempt[c][p].at # "answered"
             /\ \/ Asked(c) = Providers
                \/ Cardinality(Asked(c)) * AttemptTimeout >= failoverTime - call[c].started
       /\ call[c].at = "failed" => \A p \in Providers : attempt[c][p].at = "failed"
       /\ call[c].at = "timed out" /\ (Cardinality(Providers) - 1) * AttemptTimeout < CallTimeout
             => Asked(c) = Providers

(* A provider is set aside only while it keeps failing, whichever calls    *)
(* and polls judged it, in whatever order, and not for longer than the     *)
(* largest cooldown.                                                       *)
AsideOnlyWhileFailing ==
    \A p \in Providers : health[p].asideUntil > failoverTime =>
       /\ failedInRow[p] >= FAILURES_TO_SET_ASIDE
       /\ health[p].asideUntil <= failoverTime + MAX_COOLDOWN

(* The chain reaches the node through whichever providers work: no event   *)
(* is lost or repeated, no single provider decides a call, and none that   *)
(* answers is set aside.                                                   *)
ChainIsReached == EveryEventOnce /\ NoProviderDecides /\ AsideOnlyWhileFailing
=============================================================================
