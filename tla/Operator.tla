------------------------------ MODULE Operator ------------------------------
(***************************************************************************)
(* How a node of an operator comes to serve its stream parts.  The         *)
(* MaintainTopologyHelper follows the stakes of the operator: a query of   *)
(* The Graph for those of the start, chain events from then on.  The       *)
(* OperatorFleetState follows the heartbeats of the operator's nodes.      *)
(* StreamPartAssignments divides the parts of the staked streams among the *)
(* nodes by consistent hashing, and the MaintainTopologyService keeps a    *)
(* subscription to each part that is this node's.  Every block of the      *)
(* chain holds one stake or one unstake.                                   *)
(***************************************************************************)
EXTENDS Naturals, Sequences, FiniteSets, FiniteSetsExt, SequencesExt

CONSTANTS
    Sponsorship, StreamOf,  \* the sponsorships and the stream of each
    PartsOf,                \* the parts of each stream
    Node, Me,               \* the nodes of the operator, this one among them
    Rank,                   \* external: the order in which consistent-hash gives a part to nodes
    Redundancy,             \* redundancyFactor of the operator
    InitialStakeEvents,          \* the events of the chain before the node starts
    MaxStakeChanges, MaxFleetChanges, MaxFleetFaults

ASSUME OperatorFleetAssumption ==
    /\ Me \in Node /\ Redundancy \in Nat \ {0}
    /\ MaxStakeChanges \in Nat /\ MaxFleetChanges \in Nat /\ MaxFleetFaults \in Nat

Stream == {StreamOf[s] : s \in Sponsorship}
Part == UNION {PartsOf[x] : x \in Stream}

VARIABLES
    stakeEvents,     \* the chain: the events in the order of their blocks
    helper,     \* MaintainTopologyHelper
    fleet,      \* OperatorFleetState: latestHeartbeats and how often it changed
    assigning,  \* StreamPartAssignments
    service,    \* MaintainTopologyService
    fleetFaults

fleetVars == <<stakeEvents, helper, fleet, assigning, service, fleetFaults>>

NewHelper == [phase |-> "off", latestBlock |-> 0, fromBlock |-> 0, seen |-> 0,
              known |-> {}, count |-> [x \in Stream |-> 0], asking |-> <<>>, result |-> {}, resultBlock |-> 0,
              missed |-> {}]
NewAssignments == [queue |-> <<>>, parts |-> {}, ring |-> {Me}, mine |-> {}, ignored |-> {}]
NewService == [queue |-> <<>>, subscriptions |-> {}, failed |-> {}]

OperatorFleetTypeOK ==
    /\ stakeEvents \in Seq([kind : {"staked", "unstaked"}, of : Sponsorship])
    /\ helper.known \subseteq Sponsorship /\ helper.count \in [Stream -> Nat]
    /\ fleet.online \subseteq Node
    /\ assigning.parts \subseteq Part /\ assigning.ring \subseteq Node /\ assigning.mine \subseteq Part
    /\ service.subscriptions \subseteq Part

OperatorFleetInit ==
    /\ stakeEvents = InitialStakeEvents /\ helper = NewHelper /\ fleet = [online |-> {}, changes |-> 0]
    /\ assigning = NewAssignments /\ service = NewService /\ fleetFaults = 0

-----------------------------------------------------------------------------
(* External: the chain and its events.                                     *)

\* The sponsorships the operator is staked into after the given block.
StakedAt(block) ==
    {s \in Sponsorship : \E b \in 1 .. block : /\ stakeEvents[b] = [kind |-> "staked", of |-> s]
                                                /\ \A c \in b + 1 .. block : stakeEvents[c].of # s}

StakeChanges(s) ==
    /\ Len(stakeEvents) < Len(InitialStakeEvents) + MaxStakeChanges
    /\ stakeEvents' = Append(stakeEvents, [kind |-> IF s \in StakedAt(Len(stakeEvents)) THEN "unstaked" ELSE "staked", of |-> s])
    /\ UNCHANGED <<helper, fleet, assigning, service, fleetFaults>>

-----------------------------------------------------------------------------
(* MaintainTopologyHelper.                                                 *)

Emit(events) == assigning' = [assigning EXCEPT !.queue = @ \o events]

\* start(): the block number, then the listeners.
HelperStarts ==
    /\ helper.phase = "off"
    /\ helper' = [helper EXCEPT !.phase = "listening", !.latestBlock = Len(stakeEvents)]
    /\ UNCHANGED <<stakeEvents, fleet, assigning, service, fleetFaults>>

\* The ChainEventPoller finds out from which block on it polls.
PollerStarts ==
    /\ helper.phase = "listening" /\ helper.fromBlock = 0
    /\ helper' = [helper EXCEPT !.fromBlock = Len(stakeEvents) + (IF stakeEvents = <<>> THEN 1 ELSE 0),
                                !.seen = IF stakeEvents = <<>> THEN 0 ELSE Len(stakeEvents) - 1]
    /\ UNCHANGED <<stakeEvents, fleet, assigning, service, fleetFaults>>

\* onStakedListener asks the sponsorship contract for its stream.
Staked(s) == /\ helper' = [helper EXCEPT !.seen = @ + 1, !.asking = Append(@, s)]
             /\ UNCHANGED assigning

\* The count of a stream goes up or down by one sponsorship.
CountsIn(h, s) == [h EXCEPT !.known = @ \cup {s}, !.count[StreamOf[s]] = @ + 1]
Forgets(h, s) == [h EXCEPT !.known = @ \ {s}, !.count[StreamOf[s]] = @ - 1]

\* The stake that ends is not known yet, or will be added again by an answer on its way.
TooEarly(s) == s \notin helper.known \/ s \in ToSet(helper.asking) \/ helper.phase # "started"

\* onUnstakedListener.
Unstaked(s) ==
    LET h == [helper EXCEPT !.seen = @ + 1, !.missed = IF TooEarly(s) THEN @ \cup {s} ELSE @]
    IN  IF s \notin helper.known
        THEN helper' = h /\ UNCHANGED assigning
        ELSE /\ helper' = Forgets(h, s)
             /\ Emit(IF helper.count[StreamOf[s]] = 1 THEN <<[kind |-> "unstaked", of |-> StreamOf[s]]>> ELSE <<>>)

EventArrives ==
    /\ helper.fromBlock > 0 /\ helper.seen < Len(stakeEvents)
    /\ LET event == stakeEvents[helper.seen + 1]
       IN  IF event.kind = "staked" THEN Staked(event.of) ELSE Unstaked(event.of)
    /\ UNCHANGED <<stakeEvents, fleet, service, fleetFaults>>

FirstOfStream(s) == helper.count[StreamOf[s]] = 0

\* getStreamId() answers; the answers come in any order.
StreamIdKnown(i) ==
    LET s == helper.asking[i]
        h == [helper EXCEPT !.asking = RemoveAt(@, i)]
    IN  /\ IF s \in helper.known
           THEN helper' = h /\ UNCHANGED assigning
           ELSE /\ helper' = CountsIn(h, s)
                /\ Emit(IF FirstOfStream(s) THEN <<[kind |-> "staked", of |-> {StreamOf[s]}]>> ELSE <<>>)
        /\ UNCHANGED <<stakeEvents, fleet, service, fleetFaults>>

\* getStreamId() is rejected: nothing catches it, the stake is not known.
StreamIdFails(i) ==
    /\ fleetFaults < MaxFleetFaults /\ fleetFaults' = fleetFaults + 1
    /\ helper' = [helper EXCEPT !.asking = RemoveAt(@, i), !.missed = @ \cup {helper.asking[i]}]
    /\ UNCHANGED <<stakeEvents, fleet, assigning, service>>

\* pullStakedStreams(): The Graph, at latestBlock or later, answers.
GraphAnswers ==
    \E b \in helper.latestBlock .. Len(stakeEvents) :
      /\ helper.phase = "listening"
      /\ helper' = [helper EXCEPT !.phase = "pulling", !.result = StakedAt(b), !.resultBlock = b]
      /\ UNCHANGED <<stakeEvents, fleet, assigning, service, fleetFaults>>

\* The stakes of the answer that are not known yet are added; then all streams are emitted.
Pulled ==
    LET new == helper.result \ helper.known
        count == [x \in Stream |-> helper.count[x] + Cardinality({s \in new : StreamOf[s] = x})]
        initialStreams == {x \in Stream : count[x] > 0}
    IN  /\ helper.phase = "pulling"
        /\ helper' = [helper EXCEPT !.phase = "started", !.known = @ \cup new, !.count = count]
        /\ Emit(IF initialStreams # {} THEN <<[kind |-> "staked", of |-> initialStreams]>> ELSE <<>>)
        /\ UNCHANGED <<stakeEvents, fleet, service, fleetFaults>>

-----------------------------------------------------------------------------
(* OperatorFleetState: heartbeats come after the warmup, or stay out.      *)

Heartbeat(n) ==
    /\ n \notin fleet.online /\ fleet.changes < MaxFleetChanges
    /\ fleet' = [online |-> fleet.online \cup {n}, changes |-> fleet.changes + 1]
    /\ Emit(<<[kind |-> "nodeAdded", of |-> n]>>)
    /\ UNCHANGED <<stakeEvents, helper, service, fleetFaults>>

\* pruneOfflineNodes().
Prune(n) ==
    /\ n \in fleet.online /\ fleet.changes < MaxFleetChanges
    /\ fleet' = [online |-> fleet.online \ {n}, changes |-> fleet.changes + 1]
    /\ Emit(<<[kind |-> "nodeRemoved", of |-> n]>>)
    /\ UNCHANGED <<stakeEvents, helper, service, fleetFaults>>

-----------------------------------------------------------------------------
(* StreamPartAssignments: one event after the other.                       *)

\* ConsistentHashRing.get(): the first nodes of the ring in the order of the part.
RingGet(ring, p) ==
    LET order == SelectSeq(Rank[p], LAMBDA n : n \in ring)
    IN  ToSet(SubSeq(order, 1, IF Len(order) < Redundancy THEN Len(order) ELSE Redundancy))

\* Seeded fault: a part of this node stays its own when the ring gives it to another node.
MineAfterKept(parts, ring, mine) == {p \in parts : p \in mine \/ Me \in RingGet(ring, p)}

MineAfter(parts, ring, mine) == {p \in parts : Me \in RingGet(ring, p)}

PartEvents(kind, parts) == [i \in 1 .. Cardinality(parts) |-> [kind |-> kind, of |-> SetToSeq(parts)[i]]]

\* recalculateAssignments(): what became this node's, then what no longer is.
Recalculate(parts, ring, ignored) ==
    LET mine == MineAfter(parts, ring, assigning.mine)
    IN  /\ assigning' = [queue |-> Tail(assigning.queue), parts |-> parts, ring |-> ring, mine |-> mine, ignored |-> ignored]
        /\ service' = [service EXCEPT !.queue = @ \o PartEvents("assigned", mine \ assigning.mine)
                                                   \o PartEvents("unassigned", assigning.mine \ mine)]

Skip == assigning' = [assigning EXCEPT !.queue = Tail(@)] /\ UNCHANGED service

\* The streams whose parts getStreamParts() failed to tell are taken to have none.
ProcessEvent ==
    /\ assigning.queue # <<>>
    /\ LET event == Head(assigning.queue)
           parts == assigning.parts
           ring == assigning.ring
           streams == IF event.kind = "staked" THEN event.of ELSE IF event.kind = "unstaked" THEN {event.of} ELSE {}
       IN  \E failed \in {{}, streams} :
             /\ failed # {} => fleetFaults < MaxFleetFaults
             /\ fleetFaults' = IF failed # {} THEN fleetFaults + 1 ELSE fleetFaults
             /\ LET found == UNION {PartsOf[x] : x \in streams \ failed}
                    ignored == assigning.ignored \cup failed
                IN  CASE event.kind = "staked" -> Recalculate(parts \cup found, ring, ignored)
                      [] event.kind = "unstaked" -> Recalculate(parts \ found, ring, ignored)
                      [] event.of = Me -> Skip
                      [] event.kind = "nodeAdded" /\ event.of # Me -> Recalculate(parts, ring \cup {event.of}, ignored)
                      [] event.kind = "nodeRemoved" /\ event.of # Me -> Recalculate(parts, ring \ {event.of}, ignored)
    /\ UNCHANGED <<stakeEvents, helper, fleet>>

-----------------------------------------------------------------------------
(* MaintainTopologyService: one event after the other.                     *)

\* subscribe() or unsubscribe() has ended; a subscribe that failed is not tried again.
ServiceStep ==
    /\ service.queue # <<>>
    /\ LET event == Head(service.queue)
           rest == [service EXCEPT !.queue = Tail(@)]
       IN  \/ /\ event.kind = "assigned"
              /\ service' = [rest EXCEPT !.subscriptions = @ \cup {event.of}, !.failed = @ \ {event.of}]
              /\ UNCHANGED fleetFaults
           \/ /\ event.kind = "assigned" /\ fleetFaults < MaxFleetFaults
              /\ service' = [rest EXCEPT !.failed = @ \cup {event.of}]
              /\ fleetFaults' = fleetFaults + 1
           \/ /\ event.kind = "unassigned"
              /\ service' = [rest EXCEPT !.subscriptions = @ \ {event.of}, !.failed = @ \ {event.of}]
              /\ UNCHANGED fleetFaults
    /\ UNCHANGED <<stakeEvents, helper, fleet, assigning>>

OperatorFleetNext ==
    \/ \E s \in Sponsorship : StakeChanges(s)
    \/ HelperStarts \/ PollerStarts \/ EventArrives \/ GraphAnswers \/ Pulled
    \/ \E i \in 1 .. Len(helper.asking) : StreamIdKnown(i) \/ StreamIdFails(i)
    \/ \E n \in Node : Heartbeat(n) \/ Prune(n)
    \/ ProcessEvent \/ ServiceStep

OperatorFleetSpec == OperatorFleetInit /\ [][OperatorFleetNext]_fleetVars

-----------------------------------------------------------------------------
\* Everything that happened has been taken in.
FleetSettled ==
    /\ helper.phase = "started" /\ helper.fromBlock > 0 /\ helper.seen = Len(stakeEvents) /\ helper.asking = <<>>
    /\ assigning.queue = <<>> /\ service.queue = <<>>

\* The stakes of s changed in a block that neither the answer of The Graph nor the poller covers, or an
\* unstake was told before the stake it ends was known for good, or the stream of a stake could not be asked for.
StakeMissed(s) ==
    \/ \E b \in helper.resultBlock + 1 .. helper.fromBlock - 1 : stakeEvents[b].of = s
    \/ s \in helper.missed

\* Once everything is taken in, the node serves exactly the parts that consistent hashing gives it among
\* the nodes that are online, of the streams the operator is staked into.  Excepted are the streams with
\* a sponsorship whose stake was missed or whose parts could not be looked up, and the parts that could
\* not be joined.
ServesItsParts ==
    FleetSettled =>
      \A x \in Stream \ assigning.ignored :
        (\A s \in Sponsorship : StreamOf[s] = x => ~StakeMissed(s)) =>
          service.subscriptions \cap PartsOf[x] =
            (IF \E s \in StakedAt(Len(stakeEvents)) : StreamOf[s] = x
             THEN {p \in PartsOf[x] : Me \in RingGet(fleet.online \cup {Me}, p)} \ service.failed ELSE {})

-----------------------------------------------------------------------------
(***************************************************************************)
(* The duties of an operator's node: it inspects the nodes of a random     *)
(* other operator and flags it if every inspection fails; asked to review  *)
(* a flag, it inspects and votes; it withdraws earnings before they exceed *)
(* what the contract allows, its own and those of others; it announces     *)
(* itself to the contract and closes expired flags.  An inspection follows *)
(* the heartbeats of the target's nodes through an OperatorFleetState of   *)
(* its own, and may be aborted at any time.                                *)
(***************************************************************************)

CONSTANTS
    MaxInspections,     \* maxInspectionCount
    Earner,             \* the sponsorships of the operator
    MaxEarned,          \* bound of what a sponsorship has earned
    MinEarnings, MaxWithdraw,   \* minSponsorshipEarningsInWithdraw, maxSponsorshipsInWithdraw
    MaxAllowed, SafetyMargin,   \* maxAllowedEarnings, what of it withdrawLimitSafetyFraction takes off
    WriteInterval               \* writeIntervalInMs

ASSUME OperatorDutiesAssumption ==
    /\ MaxInspections \in Nat \ {0} /\ IsFiniteSet(Earner)
    /\ MaxEarned \in Nat /\ MinEarnings \in Nat /\ MaxWithdraw \in Nat
    /\ MaxAllowed \in Nat /\ SafetyMargin \in 0 .. MaxAllowed /\ WriteInterval \in Nat \ {0}

Duty == {"random", "review"}

VARIABLES
    task,       \* per duty, the InspectionOverTimeTask
    flag,       \* the flag on the target: "none", "open", "closed", and who raised it
    vote,       \* this operator's vote on it
    leader,     \* whether this node holds itself for the leader
    earned,     \* what each sponsorship has earned
    heartbeatAge    \* time since the last heartbeat in the contract, at most WriteInterval

dutyVars == <<task, flag, vote, leader, earned, heartbeatAge>>
valueVars == <<earned, heartbeatAge>>
flagVars == <<flag, vote>>

NewDuty == [at |-> "off", attempt |-> 1, nodes |-> FALSE, results |-> <<>>, aborted |-> FALSE, doneGate |-> FALSE,
            passed |-> FALSE, fleet |-> "none", part |-> FALSE, consumer |-> "off", lost |-> FALSE]

OperatorDutiesTypeOK ==
    /\ \A d \in Duty : /\ task[d].at \in {"off", "subscribing", "waiting", "sleeping", "finding", "joining", "leaving",
                                          "recreating", "ended"}
                       /\ task[d].fleet \in {"none", "pending", "open"}
                       /\ task[d].results \in Seq(BOOLEAN) /\ Len(task[d].results) <= MaxInspections
                       /\ task[d].consumer \in {"off", "waits", "checks", "over"}
    /\ flag \in [state : {"none", "open", "closed"}, raised : BOOLEAN]
    /\ vote \in {"none", "kick", "noKick"}
    /\ leader \in BOOLEAN /\ earned \in [Earner -> 0 .. MaxEarned] /\ heartbeatAge \in 0 .. WriteInterval

OperatorDutiesInit ==
    /\ task = [d \in Duty |-> NewDuty] /\ flag = [state |-> "none", raised |-> FALSE] /\ vote = "none"
    /\ leader = FALSE /\ earned = [e \in Earner |-> 0] /\ heartbeatAge = WriteInterval

-----------------------------------------------------------------------------
(* InspectionOverTimeTask.                                                 *)

Set(d, t) == task' = [task EXCEPT ![d] = t]
TaskOnly == UNCHANGED <<flagVars, leader, valueVars>>

\* Seeded fault: the abort does not destroy the fleet state.
FleetClosedNever(t) == t.fleet

\* The abort listener destroys the fleet state: it unsubscribes, if its subscription is there already.
FleetClosed(t) == IF t.fleet = "open" THEN "none" ELSE t.fleet

\* Aborting ends the waits at once; the other steps find out when they look at the signal.
Aborted(t) == [t EXCEPT !.aborted = TRUE, !.fleet = FleetClosed(t), !.lost = @ \/ t.fleet = "pending",
                        !.at = IF @ \in {"waiting", "sleeping"} THEN "ended" ELSE @]

\* destroy().
Destroyed(t) == [Aborted(t) EXCEPT !.doneGate = TRUE]

\* An error that is not an AbortError: the task destroys itself.
Failed(t) == [Destroyed(t) EXCEPT !.at = "ended"]

\* start(), run(), initializeNewOperatorFleetState().
DutyStarted == [NewDuty EXCEPT !.at = "subscribing", !.fleet = "pending", !.consumer = "waits"]

\* The fleet state is subscribed; a task that was aborted meanwhile ends in the wait that follows.
FleetSubscribed(d) ==
    /\ task[d].at = "subscribing"
    /\ \/ Set(d, [task[d] EXCEPT !.fleet = "open", !.at = IF task[d].aborted THEN "ended" ELSE "waiting"])
       \/ Set(d, [Failed(task[d]) EXCEPT !.fleet = "none", !.lost = task[d].lost])
    /\ TaskOnly

\* Ready, or heartbeatTimeoutInMs is over; the first delay, or the rest of the interval, follows.
FleetWaited(d) ==
    /\ task[d].at = "waiting"
    /\ Set(d, [task[d] EXCEPT !.at = "sleeping"])
    /\ TaskOnly

SleepOver(d) ==
    /\ task[d].at = "sleeping"
    /\ Set(d, [task[d] EXCEPT !.at = "finding"])
    /\ TaskOnly

\* The redundancy factor in the metadata of the target: 1 without metadata, 0 stands for what is malformed.
FetchRedundancyFactor == {0, 1}

\* findNodesForTargetGivenFleetState(): the target's online nodes that have the part, if any; or it fails.
NodesFound(d) ==
    /\ task[d].at = "finding"
    /\ \/ \E factor \in FetchRedundancyFactor, online \in BOOLEAN :
            Set(d, [task[d] EXCEPT !.nodes = factor > 0 /\ online,
                                   !.at = IF task[d].aborted THEN "ended" ELSE "joining"])
       \/ Set(d, Failed(task[d]))
    /\ TaskOnly

\* inspectTarget() subscribes to the part; it passes if there is a node.
PartJoined(d) ==
    /\ task[d].at = "joining"
    /\ \/ Set(d, [task[d] EXCEPT !.part = TRUE, !.at = "leaving"])
       \/ Set(d, Failed(task[d]))
    /\ TaskOnly

\* An inspection that did not find the signal aborted counts; then the next one is prepared.
Inspected(d) ==
    LET t == task[d]
        left == [t EXCEPT !.part = FALSE]
        counted == [left EXCEPT !.results = Append(@, t.nodes), !.passed = @ \/ t.nodes]
    IN  /\ t.at = "leaving"
        /\ IF t.aborted /\ t.nodes THEN Set(d, [left EXCEPT !.at = "ended"])
           ELSE IF t.attempt = MaxInspections THEN Set(d, [counted EXCEPT !.at = "ended", !.doneGate = TRUE])
           ELSE \E empty \in {FALSE, ~t.nodes} :
                  Set(d, [counted EXCEPT !.attempt = @ + 1,
                                         !.at = IF empty THEN "recreating" ELSE IF t.aborted THEN "ended" ELSE "sleeping"])
        /\ TaskOnly

\* The fleet state without nodes is destroyed and a new one is made.
Recreated(d) ==
    /\ task[d].at = "recreating"
    /\ Set(d, IF task[d].aborted THEN [task[d] EXCEPT !.at = "ended", !.fleet = "none"]
              ELSE [task[d] EXCEPT !.at = "subscribing", !.fleet = "pending"])
    /\ TaskOnly

\* OperatorPlugin.stop(): the signal of the plugin aborts both tasks.
PluginStops ==
    /\ \E d \in Duty : task[d].at \notin {"off", "ended"} /\ ~task[d].aborted
    /\ task' = [d \in Duty |-> IF task[d].at = "off" THEN task[d] ELSE Aborted(task[d])]
    /\ TaskOnly

-----------------------------------------------------------------------------
(* inspectRandomNode().                                                    *)

\* The Graph answers with the sponsorships of this operator that it shares, and with who else is in one:
\* the others may leave between the two answers.
GetSponsorships == SUBSET {"shared"}
GetOperatorsInSponsorship == SUBSET {"target"}
HasOpenFlag == flag.state = "open"

\* A shared sponsorship, an operator in it, and no open flag on that operator.
FindTarget ==
    \E sponsorships \in GetSponsorships : sponsorships # {}
      /\ \E operators \in GetOperatorsInSponsorship : operators # {} /\ ~HasOpenFlag

InspectRandomNode ==
    /\ task["random"].at = "off" /\ FindTarget
    /\ Set("random", DutyStarted)
    /\ TaskOnly

\* waitUntilPassOrDone(), then the results: all failed and there are some, or no flag.
RandomConsumed ==
    LET t == task["random"]
    IN  /\ t.consumer = "waits" /\ (t.doneGate \/ t.passed)
        /\ Set("random", [Destroyed(t) EXCEPT !.consumer =
                            IF t.results = <<>> \/ (\E i \in 1 .. Len(t.results) : t.results[i]) THEN "over" ELSE "checks"])
        /\ TaskOnly

\* hasOpenFlag(), then flag(): the contract refuses a second flag.
RaiseFlag ==
    /\ task["random"].consumer = "checks"
    /\ Set("random", [task["random"] EXCEPT !.consumer = "over"])
    /\ flag' = IF HasOpenFlag THEN flag ELSE [state |-> "open", raised |-> TRUE]
    /\ UNCHANGED <<vote, leader, valueVars>>

\* External: another operator raises a flag; the voting ends.
AnotherFlags ==
    /\ flag.state = "none"
    /\ flag' = [flag EXCEPT !.state = "open"]
    /\ UNCHANGED <<task, vote, leader, valueVars>>
VotingEnds ==
    /\ flag.state = "open"
    /\ flag' = [flag EXCEPT !.state = "closed"]
    /\ UNCHANGED <<task, vote, leader, valueVars>>

\* voteOnFlag() estimates its gas first, which fails if the flag is not open.
VoteAccepted == flag.state = "open"

\* closeFlag(): the vote on an expired flag only closes it.
CloseFlag == flag' = [flag EXCEPT !.state = IF VoteAccepted THEN "closed" ELSE @]

\* The Graph's expired flags: it may not know yet that one was closed.
GetExpiredFlags == IF flag.state = "none" THEN {} ELSE {"target"}

CloseExpiredFlags ==
    /\ GetExpiredFlags # {}
    /\ CloseFlag
    /\ UNCHANGED <<task, vote, leader, valueVars>>

-----------------------------------------------------------------------------
(* reviewSuspectNode().                                                    *)

\* reviewRequested comes to the leader, early enough before the voting.
ReviewRequested ==
    /\ leader /\ flag.state = "open" /\ ~flag.raised /\ task["review"].at = "off"
    /\ Set("review", DutyStarted)
    /\ TaskOnly

PassCount(results) == Cardinality({i \in 1 .. Len(results) : results[i]})

\* In the middle of the voting period, if the plugin is not stopped: vote by what was inspected so far.
\* voteOnFlag() is rejected if the flag was closed.
VoteOnFlag ==
    LET t == task["review"]
    IN  /\ t.consumer = "waits" /\ (t.aborted => t.doneGate)
        /\ Set("review", [Destroyed(t) EXCEPT !.consumer = "over"])
        /\ vote' = IF ~VoteAccepted THEN vote
                   ELSE IF 2 * PassCount(t.results) <= Len(t.results) THEN "kick" ELSE "noKick"
        /\ UNCHANGED <<flag, leader, valueVars>>

-----------------------------------------------------------------------------
(* Leadership, heartbeats and earnings.                                    *)

\* createIsLeaderFn(), getLeaderNodeId(): the least of the nodes whose heartbeats came, which may change at any time.
LeaderChanges ==
    /\ leader' = ~leader
    /\ UNCHANGED <<task, flagVars, valueVars>>

\* isHeartbeatStale(): The Graph's timestamp is old enough; a failed query counts as fresh.
IsHeartbeatStale == heartbeatAge = WriteInterval

\* announceNodeToContract(): a stale heartbeat is written again; a failed write is tried at the next poll.
AnnounceNodeToContract ==
    /\ leader /\ IsHeartbeatStale
    /\ heartbeatAge' = 0
    /\ UNCHANGED <<task, flagVars, leader, earned>>

TimePasses ==
    /\ heartbeatAge < WriteInterval /\ heartbeatAge' = heartbeatAge + 1
    /\ UNCHANGED <<task, flagVars, leader, earned>>

\* External: a sponsorship pays.
Earns(e) ==
    /\ earned[e] < MaxEarned
    /\ earned' = [earned EXCEPT ![e] = @ + 1]
    /\ UNCHANGED <<task, flagVars, leader, heartbeatAge>>

\* The sponsorships with enough earnings.
Eligible == {e \in Earner : earned[e] >= MinEarnings}

\* getEarnings(): sorted by their earnings, ascending, and cut after MaxWithdraw.
Taken ==
    {S \in SUBSET Eligible :
       /\ Cardinality(S) = Min({MaxWithdraw, Cardinality(Eligible)})
       /\ \A e \in S, f \in Eligible \ S : earned[e] <= earned[f]}

EarningsOf(S) == MapThenSumSet(LAMBDA e : earned[e], S)

WithdrawAbove(limit) ==
    \E S \in Taken :
      /\ EarningsOf(S) > limit
      /\ earned' = [e \in Earner |-> IF e \in S THEN 0 ELSE earned[e]]
      /\ UNCHANGED <<task, flagVars, leader, heartbeatAge>>

\* maintainOperatorValue(): withdrawEarningsFromSponsorships().
MaintainOperatorValue == leader /\ WithdrawAbove(MaxAllowed - SafetyMargin)

\* checkOperatorValueBreach() of another operator: triggerAnotherOperatorWithdraw().
CheckOperatorValueBreach == WithdrawAbove(MaxAllowed)

InspectionNext ==
    \/ \E d \in Duty :
         FleetSubscribed(d) \/ FleetWaited(d) \/ SleepOver(d) \/ NodesFound(d) \/ PartJoined(d) \/ Inspected(d) \/ Recreated(d)
    \/ PluginStops \/ InspectRandomNode \/ RandomConsumed \/ RaiseFlag
    \/ AnotherFlags \/ VotingEnds \/ CloseExpiredFlags \/ ReviewRequested \/ VoteOnFlag
    \/ LeaderChanges

\* The earnings and the heartbeat share only the leadership with the inspections.
ValueNext ==
    \/ LeaderChanges \/ AnnounceNodeToContract \/ TimePasses
    \/ (\E e \in Earner : Earns(e)) \/ MaintainOperatorValue \/ CheckOperatorValueBreach

OperatorDutiesNext == InspectionNext \/ ValueNext

OperatorDutiesSpec == OperatorDutiesInit /\ [][OperatorDutiesNext]_dutyVars

-----------------------------------------------------------------------------
\* An inspection that is over leaves nothing behind: neither the part nor the coordination stream of the
\* target stays subscribed, however it ended; only a task aborted while a fleet state was subscribing
\* loses that subscription.
NothingLeftSubscribed ==
    \A d \in Duty :
      (task[d].at = "ended" /\ (task[d].aborted \/ task[d].consumer = "over")) =>
        /\ ~task[d].part
        /\ task[d].fleet = "none" \/ task[d].lost
=============================================================================
