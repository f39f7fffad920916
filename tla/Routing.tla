------------------------------- MODULE Routing -------------------------------
(***************************************************************************)
(* One message routed through the DHT by Router and RoutingSession: a      *)
(* message to a node (mode "route"), or the request of a recursive         *)
(* operation (mode "recursive"), whose hops report to the session of the   *)
(* node that executes it (RecursiveOperationManager and -Session).         *)
(*                                                                         *)
(* A node is named by its distance to the target: 0 is the target itself.  *)
(* A hop acknowledges a request once it has found somebody to pass it on   *)
(* to, before it knows how that goes.  A request or its acknowledgement    *)
(* may be lost; the caller takes either for a failure.                     *)
(***************************************************************************)
EXTENDS Naturals, Sequences, FiniteSets, FiniteSetsExt

CONSTANTS
    Topologies,     \* sets of connections {n, m} between nodes
    Source,
    Modes,          \* the modes of RoutingMode that are considered
    Holders,        \* the nodes that store data under the target id
    MAX_FAILED_HOPS, ROUTING_TABLE_MAX_SIZE,
    MaxLost         \* how many requests or acknowledgements are lost

ASSUME RoutingAssumption ==
    /\ Source \in Nat \ {0} /\ Modes \subseteq {"route", "recursive"}
    /\ MAX_FAILED_HOPS \in Nat \ {0} /\ ROUTING_TABLE_MAX_SIZE \in Nat \ {0} /\ MaxLost \in Nat
    /\ \A t \in Topologies : \A link \in t : link \subseteq Nat /\ Cardinality(link) = 2

VARIABLES
    links, mode,
    routing,    \* the RoutingSession of each node that has one
    calls,      \* the requests on their way and the acknowledgements on theirs
    seen,       \* the nodes whose duplicateRequestDetector knows the request
    handled,    \* how often the target handled the message
    reports,    \* the responses on their way to the executing session
    operation,  \* the RecursiveOperationSession of Source
    lost

routingVars == <<links, mode, routing, calls, seen, handled, reports, operation, lost>>

RouteNodes == UNION (UNION Topologies)
Target == 0
NoRouting == [at |-> "none", path |-> << >>, contacted |-> {}, ongoing |-> {}, failedHops |-> 0,
              okHops |-> 0, roots |-> {}]

RoutingTypeOK ==
    /\ links \in Topologies /\ mode \in Modes
    /\ \A n \in RouteNodes :
          /\ routing[n].at \in {"none", "going", "succeeded", "partial", "failed"}
          /\ routing[n].ongoing \subseteq routing[n].contacted
    /\ \A c \in calls : c.at \in {"request", "ok", "duplicate", "noTargets"} /\ {c.from, c.to} \in links
    /\ seen \subseteq RouteNodes /\ handled \in Nat /\ operation.noCloser \in Nat

Neighbors(n) == {m \in RouteNodes : {n, m} \in links}
Nearest(S, k) == {x \in S : Cardinality({y \in S : y < x}) < k}
PathNodes(path) == {path[i] : i \in 1 .. Len(path)}

(* updateAndGetRoutablePeers(): the closest of the connected nodes that    *)
(* are not further from the target than the node the message came from.    *)
RoutablePeers(n, s) ==
    LET near == {m \in Neighbors(n) : s.path = << >> \/ m <= s.path[Len(s.path)]} IN
    Nearest(near, ROUTING_TABLE_MAX_SIZE) \ (s.contacted \cup PathNodes(s.path) \cup s.roots)

\* Two routes from the node the message comes from, one from the others
RouteParallelism(n) == IF n = Source THEN 2 ELSE 1

(* sendMoreRequests(), with addParallelRootIfSource()                      *)
AskedNext(n, s) == Nearest(RoutablePeers(n, s), RouteParallelism(n) - Cardinality(s.ongoing))

SendMoreRequests(n, s) ==
    LET next == AskedNext(n, s) IN
    [s EXCEPT !.contacted = @ \cup next, !.ongoing = @ \cup next,
              !.roots = IF mode = "recursive" /\ n = Source THEN @ \cup next ELSE @]

\* The calls of s.ongoing that are not in asked yet; a call carries its own view of the roots.
Requests(n, s, next) ==
    {[from |-> n, to |-> m, path |-> Append(s.path, n), roots |-> s.roots, at |-> "request"] : m \in next}

EmitFailure(s) == [s EXCEPT !.at = IF s.okHops >= 1 THEN "partial" ELSE "failed"]
-----------------------------------------------------------------------------
\* The closest connected nodes, and whether none is closer than the node itself
NoCloserNodes(n, path, noTargets) ==
    \/ noTargets
    \/ Neighbors(n) # {} /\ path # << >> /\ Min(Neighbors(n)) >= n

Report(n, path, noTargets) ==
    {[from |-> n, path |-> path, closest |-> Nearest(Neighbors(n), 5), data |-> n \in Holders,
      noCloser |-> n = Target \/ NoCloserNodes(n, path, noTargets)]}

Waited == IF Cardinality(Neighbors(Source)) > 1 THEN 2 ELSE 1

(* isCompleted() of an operation FETCH_DATA: every known hop has reported, *)
(* and data was found or enough routing paths have ended.                  *)
IsCompleted(o) ==
    /\ o.noCloser >= 1 /\ o.known \subseteq o.reported
    /\ o.found \/ o.noCloser >= Waited

(* onResponseReceived()                                                    *)
OnResponse(o, r) ==
    LET hops == [o EXCEPT !.known = @ \cup (PathNodes(r.path) \ {Source}),
                          !.reported = IF r.path = << >> THEN @
                                       ELSE @ \cup ({r.path[Len(r.path)]} \ {Source})]
        early == IF r.path # << >> /\ IsCompleted(hops)
                 THEN [hops EXCEPT !.completed = TRUE, !.timer = FALSE] ELSE hops
        found == [early EXCEPT !.found = @ \/ r.data, !.closest = @ \cup r.closest]
        ended == [found EXCEPT !.noCloser = @ + 1, !.from = @ \cup {r.from}] IN
    IF ~(r.noCloser \/ r.from \in o.from) THEN found
    ELSE IF IsCompleted(ended) THEN [ended EXCEPT !.completed = TRUE, !.timer = FALSE]
    ELSE [ended EXCEPT !.timer = @ \/ ~ended.completed]

NewOperation == [known |-> {}, reported |-> {}, found |-> FALSE, closest |-> {}, from |-> {},
                 noCloser |-> 0, completed |-> FALSE, timer |-> FALSE]

(* doRouteMessage() at n: a session, if there is anybody to send to.       *)
Routed(n, path, roots) ==
    LET s == SendMoreRequests(n, [NoRouting EXCEPT !.at = "going", !.path = path, !.roots = roots]) IN
    IF s.ongoing = {} THEN NoRouting ELSE s

RoutingInit ==
    /\ links \in Topologies /\ mode \in Modes
    /\ LET s == Routed(Source, << >>, {})
           own == CHOOSE r \in Report(Source, << >>, s.ongoing = {}) : TRUE IN
       /\ routing = [n \in RouteNodes |-> IF n = Source THEN s ELSE NoRouting]
       /\ calls = Requests(Source, s, s.ongoing)
       /\ operation = IF mode = "recursive" THEN OnResponse(NewOperation, own) ELSE NewOperation
    /\ seen = {} /\ handled = 0 /\ reports = {} /\ lost = 0
-----------------------------------------------------------------------------
(* routeMessage() and routeRequest() at the node that is called            *)
Duplicate(c) ==
    /\ c.at = "request" /\ c.to \in seen
    /\ calls' = (calls \ {c}) \cup {[c EXCEPT !.at = "duplicate"]}
    /\ UNCHANGED <<links, mode, routing, seen, handled, reports, operation, lost>>

AtTarget(c) ==
    /\ c.at = "request" /\ c.to \notin seen /\ c.to = Target
    /\ seen' = seen \cup {Target}
    /\ handled' = handled + 1
    /\ calls' = (calls \ {c}) \cup {[c EXCEPT !.at = "ok"]}
    /\ reports' = IF mode = "recursive" THEN reports \cup Report(c.to, c.path, FALSE) ELSE reports
    /\ UNCHANGED <<links, mode, routing, operation, lost>>

RouteOn(c) ==
    LET n == c.to
        s == Routed(n, c.path, c.roots) IN
    /\ c.at = "request" /\ n \notin seen /\ n # Target
    /\ seen' = seen \cup {n}
    /\ routing' = [routing EXCEPT ![n] = s]
    /\ calls' = (calls \ {c}) \cup Requests(n, s, s.ongoing)
                \cup {[c EXCEPT !.at = IF s.ongoing = {} THEN "noTargets" ELSE "ok"]}
    /\ reports' = IF mode = "recursive" THEN reports \cup Report(n, c.path, s.ongoing = {}) ELSE reports
    /\ UNCHANGED <<links, mode, handled, operation, lost>>
-----------------------------------------------------------------------------
\* RouterRpcRemote: a duplicate at the destination of a message is a success.
Succeeded(c) == c.at = "ok" \/ (c.at = "duplicate" /\ c.to = Target /\ mode = "route")

(* onRequestSucceeded(): the request stays in ongoingRequests.             *)
RequestSucceeded(c) ==
    LET s == [routing[c.from] EXCEPT !.okHops = @ + 1] IN
    /\ Succeeded(c)
    /\ calls' = calls \ {c}
    /\ routing' = [routing EXCEPT ![c.from] =
          IF @.at # "going" THEN @
          ELSE IF s.okHops >= RouteParallelism(c.from) \/ RoutablePeers(c.from, s) = {}
               THEN [s EXCEPT !.at = "succeeded"] ELSE s]
    /\ UNCHANGED <<links, mode, seen, handled, reports, operation, lost>>

\* Seeded fault: a failed hop is not replaced by the next contact.
FailedHopNotReplaced(c) ==
    LET s == [routing[c.from] EXCEPT !.ongoing = @ \ {c.to}, !.failedHops = @ + 1] IN
    /\ calls' = calls \ {c}
    /\ routing' = [routing EXCEPT ![c.from] = IF @.at # "going" THEN @ ELSE s]

(* onRequestFailed(): the next contacts, unless there were too many        *)
(* failures or there are no more.  A session that is left without          *)
(* contacts fails, also while another request of it is going on.           *)
FailedHop(c) ==
    LET n == c.from
        s == [routing[n] EXCEPT !.ongoing = @ \ {c.to}, !.failedHops = @ + 1,
                                !.roots = IF mode = "recursive" /\ n = Source THEN @ \ {c.to} ELSE @] IN
    \/ /\ routing[n].at # "going"
       /\ calls' = calls \ {c} /\ UNCHANGED routing
    \/ /\ routing[n].at = "going"
       /\ s.failedHops >= MAX_FAILED_HOPS \/ RoutablePeers(n, s) = {}
       /\ calls' = calls \ {c} /\ routing' = [routing EXCEPT ![n] = EmitFailure(s)]
    \/ /\ routing[n].at = "going"
       /\ s.failedHops < MAX_FAILED_HOPS /\ RoutablePeers(n, s) # {}
       /\ routing' = [routing EXCEPT ![n] = SendMoreRequests(n, s)]
       /\ calls' = (calls \ {c}) \cup Requests(n, SendMoreRequests(n, s), AskedNext(n, s))

RequestFailed(c) ==
    /\ c.at \in {"duplicate", "noTargets"} /\ ~Succeeded(c)
    /\ FailedHop(c)
    /\ UNCHANGED <<links, mode, seen, handled, reports, operation, lost>>

(* ROUTING_TIMEOUT: the request, or its acknowledgement, is lost.          *)
RequestLost(c) ==
    /\ lost < MaxLost /\ lost' = lost + 1
    /\ FailedHop(c)
    /\ UNCHANGED <<links, mode, seen, handled, reports, operation>>

ResponseReceived(r) ==
    /\ reports' = reports \ {r}
    /\ operation' = OnResponse(operation, r)
    /\ UNCHANGED <<links, mode, routing, calls, seen, handled, lost>>

\* The timer that waits for the rest of the responses, once a routing path has ended
OperationTimer ==
    /\ operation.timer
    /\ operation' = [operation EXCEPT !.completed = TRUE, !.timer = FALSE]
    /\ UNCHANGED <<links, mode, routing, calls, seen, handled, reports, lost>>

RoutingNext ==
    \/ \E c \in calls : \/ Duplicate(c) \/ AtTarget(c) \/ RouteOn(c)
                        \/ RequestSucceeded(c) \/ RequestFailed(c) \/ RequestLost(c)
    \/ \E r \in reports : ResponseReceived(r)
    \/ OperationTimer
-----------------------------------------------------------------------------
Settled == calls = {} /\ reports = {}

(* A message is not lost silently: once nothing of it is on its way, every *)
(* node that took it has come to an end with it, and the target has        *)
(* handled it exactly once, or a node that had acknowledged it has given   *)
(* it up, or had taken less than all its contacts for enough.              *)
NoSilentLoss ==
    /\ handled <= 1
    /\ \A n \in RouteNodes : routing[n].at = "going" /\ calls = {} => routing[n].okHops > 0
    /\ Settled /\ routing[Source].at = "succeeded" /\ lost = 0 /\ mode = "route" =>
          handled = 1 \/ \E n \in RouteNodes \ {Source} : routing[n].at \in {"failed", "partial"}

(* A recursive operation hears of an end of a routing path if none of its  *)
(* calls is lost, whatever the connections are: it completes by itself, or *)
(* by its short timer, and not by RECURSIVE_OPERATION_TIMEOUT.             *)
OperationConcludes ==
    mode = "recursive" /\ lost = 0 /\ Settled => operation.completed \/ operation.timer

(* A routed message, and a recursive operation, comes to an end that its   *)
(* source can tell: it arrives, or is known to have failed.                *)
RoutingConcludes == NoSilentLoss /\ OperationConcludes
=============================================================================
