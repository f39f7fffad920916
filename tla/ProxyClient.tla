----------------------------- MODULE ProxyClient -----------------------------
(***************************************************************************)
(* A proxied stream part: the ProxyClient of a node that does not join the *)
(* stream part itself, and ProxyConnectionRpcLocal at each of its proxies. *)
(*                                                                         *)
(* The user changes the definition with setProxies(); updateConnections()  *)
(* closes what does not fit and starts attempts.  An attempt is one        *)
(* requestConnection() whose answer may be late: the definition may change *)
(* meanwhile, and another update may start attempts of its own.  A         *)
(* connection keeps the order of what is sent over it.                     *)
(***************************************************************************)
EXTENDS Naturals, Sequences, FiniteSets, FiniteSetsExt

CONSTANTS
    Proxy,
    Direction,
    MaxDefinitions,     \* how often setProxies() is called
    MaxProxyAttempts,   \* how many requestConnection() are sent
    MaxProxyFaults      \* how often a connection is lost, an attempt times out, a proxy stops

ASSUME ProxyAssumption ==
    /\ MaxDefinitions \in Nat /\ MaxProxyAttempts \in Nat /\ MaxProxyFaults \in Nat
    /\ IsFiniteSet(Proxy) /\ "none" \notin Direction

VARIABLES
    definition,     \* the proxies, the direction and the connection count asked for
    connections,    \* of the client: the direction of each
    proxyLocks,     \* the connections that the client locks
    pendingAttempts, \* the requests that are not answered yet
    attemptCount,
    outdated,       \* the proxies opened by an attempt that setProxies() or a close overtook
    toProxy, toClient,
    served,         \* at the proxy: the direction of the client's connection
    clientStopped,
    proxyFaults

proxyVars == <<definition, connections, proxyLocks, pendingAttempts, attemptCount, outdated,
               toProxy, toClient, served, clientStopped, proxyFaults>>

NoDirection == "none"
NoDefinition == [nodes |-> {}, direction |-> NoDirection, count |-> 0, version |-> 0]
ProxyLeaveNotice == [kind |-> "leave", id |-> 0, direction |-> NoDirection]
ConnectionRequest(id, d) == [kind |-> "request", id |-> id, direction |-> d]
Accepted(id) == [kind |-> "accepted", id |-> id, direction |-> NoDirection]

Connected == {n \in Proxy : connections[n] # NoDirection}

ProxyTypeOK ==
    /\ definition.nodes \subseteq Proxy /\ definition.count \in 0 .. Cardinality(Proxy)
    /\ {connections, served} \subseteq [Proxy -> Direction \cup {NoDirection}]
    /\ proxyLocks \subseteq Proxy /\ outdated \subseteq Proxy
    /\ \A a \in pendingAttempts : a.node \in Proxy /\ a.id \in 1 .. MaxProxyAttempts
    /\ clientStopped \in BOOLEAN /\ proxyFaults \in 0 .. MaxProxyFaults

ProxyInit ==
    /\ definition = NoDefinition
    /\ connections = [n \in Proxy |-> NoDirection] /\ proxyLocks = {} /\ pendingAttempts = {} /\ attemptCount = 0 /\ outdated = {}
    /\ toProxy = [n \in Proxy |-> <<>>] /\ toClient = [n \in Proxy |-> <<>>]
    /\ served = [n \in Proxy |-> NoDirection] /\ clientStopped = FALSE /\ proxyFaults = 0

ProxyFault == proxyFaults < MaxProxyFaults /\ proxyFaults' = proxyFaults + 1
-----------------------------------------------------------------------------
\* Seeded fault: a connection of the other direction is kept.
InvalidConnectionsByNode(def, conns) == {n \in Proxy : conns[n] # NoDirection /\ n \notin def.nodes}

\* getInvalidConnections()
InvalidConnections(def, conns) ==
    {n \in Proxy : conns[n] # NoDirection /\ (n \notin def.nodes \/ conns[n] # def.direction)}

\* The attempts in progress to proxies that are closed meanwhile (version 0 marks them).
Overtaken(closed) == {IF a.node \in closed THEN [a EXCEPT !.version = 0] ELSE a : a \in pendingAttempts}

(* updateConnections(): the invalid connections are closed, then as many   *)
(* random ones are opened or closed as the count asks for.  Attempts in    *)
(* progress are not counted.                                               *)
UpdateConnections(def, conns, locks, wire) ==
    LET invalid == InvalidConnections(def, conns)
        open == {n \in Proxy : conns[n] # NoDirection} \ invalid
        candidates == def.nodes \ open
        missing == def.count - Cardinality(open)
    IN  \E opened \in SUBSET candidates, surplus \in SUBSET open :
            /\ Cardinality(opened) = IF missing <= 0 THEN 0 ELSE Min({missing, Cardinality(candidates)})
            /\ Cardinality(surplus) = IF missing < 0 THEN Cardinality(open) - def.count ELSE 0
            /\ attemptCount + Cardinality(opened) <= MaxProxyAttempts
            /\ connections' = [n \in Proxy |-> IF n \in invalid \cup surplus THEN NoDirection ELSE conns[n]]
            /\ proxyLocks' = locks \ (invalid \cup surplus)
            /\ \E id \in [opened -> attemptCount + 1 .. attemptCount + Cardinality(opened)] :
                /\ \A n, p \in opened : n # p => id[n] # id[p]
                /\ pendingAttempts' = Overtaken(invalid \cup surplus) \cup {[id |-> id[n], node |-> n, direction |-> def.direction, version |-> def.version] : n \in opened}
                /\ toProxy' = [n \in Proxy |->
                    wire[n] \o (IF n \in invalid \cup surplus THEN <<ProxyLeaveNotice>> ELSE <<>>)
                            \o (IF n \in opened THEN <<ConnectionRequest(id[n], def.direction)>> ELSE <<>>)]
            /\ attemptCount' = attemptCount + Cardinality(opened)
            /\ outdated' = outdated \ (invalid \cup surplus)

SetProxyDefinition(nodes, direction, count) ==
    LET def == [nodes |-> nodes, direction |-> direction, count |-> count, version |-> definition.version + 1]
    IN  /\ ~clientStopped /\ definition.version < MaxDefinitions
        /\ count <= Cardinality(nodes) /\ count > 0
        /\ definition' = def
        /\ UpdateConnections(def, connections, proxyLocks, toProxy)
        /\ UNCHANGED <<toClient, served, clientStopped, proxyFaults>>

(* onNodeDisconnected(), also after the leave notice of a proxy.  retry()  *)
(* runs updateConnections() once: a refused attempt does not throw.        *)
OnNodeDisconnected(n, wire) ==
    IF connections[n] = NoDirection
    THEN toProxy' = wire /\ UNCHANGED <<connections, proxyLocks, pendingAttempts, attemptCount, outdated>>
    ELSE UpdateConnections(definition, [connections EXCEPT ![n] = NoDirection], proxyLocks \ {n}, wire)

\* attemptConnection() goes on with the answer; stop() has rejected all requests.
AttemptAccepted(n) ==
    LET m == Head(toClient[n])
        a == CHOOSE x \in pendingAttempts : x.id = m.id
    IN  /\ toClient[n] # <<>> /\ m.kind = "accepted"
        /\ toClient' = [toClient EXCEPT ![n] = Tail(@)]
        /\ IF \E x \in pendingAttempts : x.id = m.id
           THEN /\ pendingAttempts' = pendingAttempts \ {a}
                /\ connections' = [connections EXCEPT ![n] = a.direction]
                /\ proxyLocks' = proxyLocks \cup {n}
                /\ outdated' = IF a.version = definition.version THEN outdated \ {n} ELSE outdated \cup {n}
           ELSE UNCHANGED <<pendingAttempts, connections, proxyLocks, outdated>>
        /\ UNCHANGED <<definition, attemptCount, toProxy, served, clientStopped, proxyFaults>>

\* requestConnection() fails or times out; its answer may still come, and is ignored.
AttemptFails(a) ==
    /\ a \in pendingAttempts /\ ProxyFault
    /\ pendingAttempts' = pendingAttempts \ {a}
    /\ UNCHANGED <<definition, connections, proxyLocks, attemptCount, outdated, toProxy, toClient, served, clientStopped>>

LeaveNoticeArrives(n) ==
    /\ toClient[n] # <<>> /\ Head(toClient[n]).kind = "leave"
    /\ toClient' = [toClient EXCEPT ![n] = Tail(@)]
    /\ IF clientStopped
       THEN UNCHANGED <<connections, proxyLocks, pendingAttempts, attemptCount, outdated, toProxy>>
       ELSE OnNodeDisconnected(n, toProxy)
    /\ UNCHANGED <<definition, served, clientStopped, proxyFaults>>

\* The connection to a proxy is lost with what is in flight; the proxy keeps its entry.
ConnectionLost(n) ==
    /\ ~clientStopped /\ ProxyFault
    /\ toClient' = [toClient EXCEPT ![n] = <<>>]
    /\ OnNodeDisconnected(n, [toProxy EXCEPT ![n] = <<>>])
    /\ UNCHANGED <<definition, served, clientStopped>>

\* stop(): leave notices to all neighbors; the requests are rejected.
StopClient ==
    /\ ~clientStopped /\ definition.version > 0
    /\ clientStopped' = TRUE
    /\ toProxy' = [n \in Proxy |-> IF n \in Connected THEN Append(toProxy[n], ProxyLeaveNotice) ELSE toProxy[n]]
    /\ proxyLocks' = proxyLocks \ Connected
    /\ connections' = [n \in Proxy |-> NoDirection]
    /\ pendingAttempts' = {} /\ outdated' = {}
    /\ UNCHANGED <<definition, attemptCount, toClient, served, proxyFaults>>
-----------------------------------------------------------------------------
\* requestConnection() replaces the entry of the client; a leave notice removes it.
ProxyHandles(n) ==
    LET m == Head(toProxy[n])
    IN  /\ toProxy[n] # <<>>
        /\ toProxy' = [toProxy EXCEPT ![n] = Tail(@)]
        /\ IF m.kind = "request"
           THEN /\ served' = [served EXCEPT ![n] = m.direction]
                /\ toClient' = [toClient EXCEPT ![n] = Append(@, Accepted(m.id))]
           ELSE served' = [served EXCEPT ![n] = NoDirection] /\ UNCHANGED toClient
        /\ UNCHANGED <<definition, connections, proxyLocks, pendingAttempts, attemptCount, outdated, clientStopped, proxyFaults>>

\* stop() of the proxy's stream part
ProxyStops(n) ==
    /\ served[n] # NoDirection /\ ProxyFault
    /\ served' = [served EXCEPT ![n] = NoDirection]
    /\ toClient' = [toClient EXCEPT ![n] = Append(@, ProxyLeaveNotice)]
    /\ UNCHANGED <<definition, connections, proxyLocks, pendingAttempts, attemptCount, outdated, toProxy, clientStopped>>
-----------------------------------------------------------------------------
ProxyNext ==
    \/ \E nodes \in SUBSET Proxy, d \in Direction, count \in 1 .. Cardinality(Proxy) : SetProxyDefinition(nodes, d, count)
    \/ \E n \in Proxy : AttemptAccepted(n) \/ LeaveNoticeArrives(n) \/ ConnectionLost(n) \/ ProxyHandles(n) \/ ProxyStops(n)
    \/ \E a \in pendingAttempts : AttemptFails(a)
    \/ StopClient

ProxySpec == ProxyInit /\ [][ProxyNext]_proxyVars
-----------------------------------------------------------------------------
(* Except through an attempt that a change of the definition or a close of *)
(* the same connection overtook, the client is connected to the proxies,   *)
(* and in the direction, that its definition asks for, and the proxy       *)
(* serves it in that direction unless a message under way says otherwise.  *)
(* What it is connected to, and nothing else, is locked.                   *)
ProxiesAgree ==
    \A n \in Proxy :
        /\ (n \in proxyLocks) = (n \in Connected)
        /\ n \in Connected \ outdated => n \in definition.nodes /\ connections[n] = definition.direction
        /\ n \in Connected \ outdated /\ toProxy[n] = <<>> /\ toClient[n] = <<>> => served[n] = connections[n]
=============================================================================
